----------------------------- MODULE ComputerProofs -----------------------------
(***************************************************************************)
(* Proofs about Computer, for any number of VM jobs at once, launches,     *)
(* volumes and faults.                                                     *)
(*                                                                         *)
(* ComputerKept is not inductive.  JobsInv holds however many jobs overlap *)
(* and is about what one job may rely on meanwhile: what it launched is    *)
(* its own (TokensDiffer) and known to nothing else until it is recorded   *)
(* (LaunchesHidden), no volume is deleted under an instance                *)
(* (AttachedThere), and a restore with nothing beside it retires another   *)
(* volume than the row's (RestoresApart).  AloneInv holds while jobs come  *)
(* one at a time and is about the row: the machine that is up is the one   *)
(* named (RowNames, TokenNamed), and what is there has a name, is some     *)
(* job's, or is on record as a stray (RunningNamed, VolumesNamed).         *)
(***************************************************************************)
EXTENDS Computer, TLAPS

-----------------------------------------------------------------------------
(* The invariant: types                                                    *)

LaunchOrNone == Launches \cup {0}
VolumeOrNone == Volumes \cup {0}

JobPoints == {"idle", "restore", "use", "row", "move", "destroy", "clear", "issue", "volume",
              "launch", "attach", "record", "provisioned", "retire"}
JobRecords ==
    [pc : JobPoints, kind : Kinds \cup {"none"}, attempt : Nat, replace : BOOLEAN,
     state : VmStates \cup {"none"}, instance : LaunchOrNone, token : LaunchOrNone,
     volume : VolumeOrNone, made : BOOLEAN, retire : VolumeOrNone]
Rows ==
    [state : VmStates, instance : LaunchOrNone, volume : VolumeOrNone,
     image : {"none", "old", "new"}, reg : LaunchOrNone, token : LaunchOrNone, failures : Nat]
Instances ==
    [status : {"none", "running", "dying", "gone"}, volume : VolumeOrNone,
     image : {"old", "new"}, auth : {"no", "open", "token", "lost"}]
Deletions ==
    [pc : {"none", "read", "instance", "volume", "done"}, instance : LaunchOrNone,
     volume : VolumeOrNone]

ComputerTypes ==
    /\ vm \in Rows
    /\ instance \in [Launches -> Instances]
    /\ volume \in [Volumes -> {"none", "there", "gone"}]
    /\ image \in {"old", "new"}
    /\ vmQueue \subseteq [kind : Kinds, attempt : 0 .. ProvisionAttempts]
    /\ vmJob \in [VmSlots -> JobRecords]
    /\ deletion \in Deletions
    /\ issued \in 0 .. MaxLaunches
    /\ vmStrays \subseteq Launches /\ strayVolumes \subseteq Volumes
    /\ overlapped \subseteq Kinds
    /\ gaveUp \in BOOLEAN

-----------------------------------------------------------------------------
(* The invariant: what holds however many jobs overlap                     *)

Leaving == vm.state \in {"terminating", "terminated", "gone"}

\* What a job knows of what it made.
JobOk(t) ==
    /\ t.pc = "idle" => t = NoVmJob
    /\ t.pc # "idle" => t.kind \in Kinds
    /\ t.token <= issued /\ t.instance <= issued
    /\ t.pc \in {"restore", "use", "row", "move", "destroy", "clear", "issue"} => t.token = 0
    /\ t.pc \in {"volume", "launch", "attach", "record", "provisioned"} => t.token # 0
    /\ t.pc \in {"volume", "launch"} => instance[t.token].status = "none"
    /\ t.pc \in {"attach", "record"} => instance[t.token].status = "running"
    /\ t.pc = "record" => instance[t.token].volume = t.volume
    /\ t.pc \in {"use", "launch", "attach", "record", "provisioned"} => t.volume # 0
    /\ t.kind # "restore" => t.retire = 0 /\ t.pc \notin {"restore", "use"}
    /\ t.pc = "restore" => t.retire = 0
    /\ t.pc = "retire" => t.retire # 0
    /\ t.retire # 0 => vm.volume # 0
    /\ t.pc = "use" => t.made
    /\ t.made => t.pc \in {"use", "launch", "attach", "record"}

\* Launches are named in order, and one launch is one job's.
InOrder ==
    /\ \A k \in Launches : k > issued => instance[k].status = "none"
    /\ vm.instance <= issued /\ deletion.instance <= issued
    /\ vm.token # 0 => instance[vm.token].status # "none"
TokensDiffer ==
    \A w, x \in VmSlots : w # x /\ vmJob[w].token # 0 => vmJob[w].token # vmJob[x].token

\* Until it is recorded, nothing but its job names a launch.
Hidden(k) ==
    /\ vm.instance # k /\ deletion.instance # k
    /\ \A x \in VmSlots : vmJob[x].instance # k
LaunchesHidden ==
    \A w \in VmSlots : vmJob[w].pc \in {"volume", "launch", "attach", "record"} => Hidden(vmJob[w].token)

\* A volume is not deleted under its instance, and one that is named was made.
AttachedThere ==
    /\ \A k \in Launches :
          instance[k].status \in {"running", "dying"} /\ instance[k].volume # 0 =>
              volume[instance[k].volume] = "there"
    /\ vm.volume # 0 => volume[vm.volume] # "none"
    /\ \A w \in VmSlots : vmJob[w].volume # 0 => volume[vmJob[w].volume] # "none"

\* The row while its user leaves, and the instance delete_user has dealt with.
RowLeaves ==
    /\ deletion.pc \in {"instance", "volume"} => vm.state = "terminating"
    /\ deletion.pc = "done" <=> vm.state \in {"terminated", "gone"}
InstanceLeaves ==
    \A k \in Launches :
        Overtaken /\ instance[k].status = "running" /\ vm.instance = k =>
            k \in vmStrays \/ (deletion.pc = "instance" /\ deletion.instance = k)

\* A restore works on the volume it made, and retires another than the row's.
RestoreTrue(t) ==
    \/ Leaving
    \/ /\ t.pc = "use" => t.volume # vm.volume /\ volume[t.volume] = "there" /\ t.retire = vm.volume
       /\ t.pc \notin {"idle", "restore", "use"} => vm.volume # 0 /\ vm.volume # t.retire
       /\ t.pc \in {"launch", "attach", "record"} => t.volume = vm.volume
RestoresApart ==
    "restore" \notin overlapped =>
        \A w \in VmSlots : vmJob[w].kind = "restore" =>
            RestoreTrue(vmJob[w]) /\ \A x \in VmSlots : x # w => vmJob[x].pc = "idle"

\* A failed setup's retry is queued, or a job is at work that will end in one.
RetryComes ==
    (vm.state = "failed" /\ vm.failures \in 1 .. AutoRetries /\ ~gaveUp /\ deletion.pc = "none") =>
        \/ Queued("provision") \/ Queued("replace")
        \/ \E w \in VmSlots : vmJob[w].pc \notin {"idle", "retire"}

JobsInv ==
    /\ ComputerTypes
    /\ \A w \in VmSlots : JobOk(vmJob[w])
    /\ InOrder /\ TokensDiffer /\ LaunchesHidden /\ AttachedThere
    /\ RowLeaves /\ InstanceLeaves
    /\ FilesKept /\ RestoresApart
    /\ RetryComes

-----------------------------------------------------------------------------
(* The invariant: what holds while one job is at work at a time            *)

\* A job that sets up a machine has the row to itself, but for its user's leaving.
SetupTrue(t) ==
    /\ t.pc = "use" => t.retire = vm.volume
    /\ t.pc \in {"move", "destroy", "clear"} => t.instance = vm.instance
    /\ t.pc = "clear" /\ t.instance # 0 => instance[t.instance].status # "running"
    /\ t.pc \in {"destroy", "clear", "issue", "volume", "launch", "attach", "record", "provisioned"} =>
          vm.state \in {"provisioning", "failed", "terminating", "terminated", "gone"}
    /\ t.pc \in {"volume", "launch", "attach", "record", "provisioned"} =>
          vm.state = "gone" \/ vm.reg \in {0, t.token}
    /\ t.pc \in {"launch", "attach", "record"} =>
          \/ vm.state = "gone"
          \/ vm.volume = t.volume
          \/ vm.volume = 0 /\ (t.made \/ t.volume \in strayVolumes)
    /\ t.pc = "provisioned" =>
          \/ Leaving
          \/ /\ vm.instance = t.token /\ instance[t.token].status = "running"
             /\ instance[t.token].volume = vm.volume /\ vm.volume # 0

\* The row's instance while it is up or about to be.
RowNames ==
    vm.state \in {"registering", "ready", "unhealthy"} =>
        /\ vm.instance # 0 /\ vm.reg \in {0, vm.instance}
        /\ instance[vm.instance].status = "running"
        /\ instance[vm.instance].volume
             \in ({vm.volume} \cup strayVolumes \cup {vmJob[w].retire : w \in VmSlots}) \ {0}

\* An instance that runs is the row's or on record as a stray, once it has shown its
\* token, or the row has its VM token, or its job is past recording it.
Named(k) == vm.instance = k \/ k \in vmStrays
RunningNamed ==
    \A k \in Launches : instance[k].status = "running" =>
        /\ instance[k].auth # "no" => Named(k)
        /\ vm.token = k => Named(k)
        /\ Named(k) \/ \E w \in VmSlots : vmJob[w].token = k /\ vmJob[w].pc \in {"attach", "record"}
TokenNamed ==
    vm.state \in {"ready", "unhealthy"} => vm.token # 0 /\ (vm.token = vm.instance \/ vm.token \in vmStrays)

\* A volume that is there is the row's, on record as a stray, or a job's.
VolumesNamed ==
    \A v \in Volumes : volume[v] = "there" =>
        \/ vm.volume = v \/ v \in strayVolumes
        \/ \E w \in VmSlots : vmJob[w].retire = v \/ (vmJob[w].volume = v /\ vmJob[w].made)
VolumeLeaves ==
    /\ deletion.pc \in {"instance", "volume"} =>
          vm.volume \in {0, deletion.volume} \cup strayVolumes
    /\ deletion.pc = "done" =>
          vm.volume = 0 \/ volume[vm.volume] # "there" \/ vm.volume \in strayVolumes

AloneInv ==
    /\ \A w, x \in VmSlots : w # x => vmJob[w].pc = "idle" \/ vmJob[x].pc = "idle"
    /\ \A w \in VmSlots : SetupTrue(vmJob[w])
    /\ RowNames /\ RunningNamed /\ TokenNamed
    /\ VolumesNamed /\ VolumeLeaves

ComputerInv == JobsInv /\ (overlapped = {} => AloneInv)

-----------------------------------------------------------------------------
(* What the helpers do.                                                    *)

OthersKeep(w) ==
    /\ vmJob' \in [VmSlots -> JobRecords]
    /\ \A x \in VmSlots : x # w => vmJob'[x] = vmJob[x]

LEMMA PutJob ==
    ASSUME ComputerTypes, NEW w \in VmSlots, NEW new \in JobRecords,
           vmJob' = [vmJob EXCEPT ![w] = new]
    PROVE  OthersKeep(w) /\ vmJob'[w] = new
  BY DEF ComputerTypes, OthersKeep

LEMMA StraysTyped ==
    ASSUME ComputerTypes, NEW w \in VmSlots
    PROVE  Stray(w) \subseteq Launches /\ StrayVolume(w) \subseteq Volumes
  BY DEF ComputerTypes, JobRecords, LaunchOrNone, Stray, StrayVolume

LEMMA RecordInstanceDoes ==
    ASSUME ComputerTypes, NEW w \in VmSlots, RecordInstance(w), JobOk(vmJob[w])
    PROVE  /\ vmJob[w].pc = "record" /\ OthersKeep(w)
           /\ vmJob'[w].pc = "provisioned" /\ vmJob'[w].made = FALSE
           /\ vmJob'[w].kind = vmJob[w].kind /\ vmJob'[w].instance = vmJob[w].instance
           /\ vmJob'[w].token = vmJob[w].token /\ vmJob'[w].volume = vmJob[w].volume
           /\ vmJob'[w].retire = vmJob[w].retire
           /\ UNCHANGED <<instance, volume, image, vmQueue, deletion, issued, overlapped, gaveUp>>
           /\ vmStrays' = vmStrays \cup (IF Overtaken THEN Stray(w) ELSE {})
                  \cup {k \in Launches : k = vm.instance /\ instance[k].status = "running"}
           /\ strayVolumes' = IF Overtaken THEN strayVolumes \cup StrayVolume(w) ELSE strayVolumes
           /\ vm.state = "gone" => vm' = vm
           /\ vm.state # "gone" =>
                 /\ vm' \in Rows /\ vm'.state = vm.state /\ vm'.reg = vm.reg
                 /\ vm'.token = vm.token /\ vm'.failures = vm.failures
                 /\ vm'.instance = vmJob[w].token /\ vm'.volume = vmJob[w].volume
  <1>1. PICK old \in JobRecords : old = vmJob[w]
    BY DEF ComputerTypes
  <1>2. PICK new \in JobRecords : new = [old EXCEPT !.pc = "provisioned", !.made = FALSE]
    BY DEF JobRecords, JobPoints
  <1>3. /\ new.pc = "provisioned" /\ new.made = FALSE /\ new.kind = old.kind
        /\ new.instance = old.instance /\ new.token = old.token /\ new.volume = old.volume
        /\ new.retire = old.retire
    BY <1>2 DEF JobRecords
  <1>4. OthersKeep(w) /\ vmJob'[w] = new
    <2>1. vmJob' = [vmJob EXCEPT ![w] = new]
      BY <1>1, <1>2 DEF RecordInstance
    <2> QED
      BY <2>1, PutJob
  <1>5. ASSUME vm.state # "gone"
        PROVE  /\ vm' \in Rows /\ vm'.state = vm.state /\ vm'.reg = vm.reg
               /\ vm'.token = vm.token /\ vm'.failures = vm.failures
               /\ vm'.instance = vmJob[w].token /\ vm'.volume = vmJob[w].volume
    <2>1. PICK row \in Rows : row = vm
      BY DEF ComputerTypes
    <2>2. PICK token \in Launches : token = old.token
      BY <1>1 DEF JobOk, RecordInstance, JobRecords, LaunchOrNone
    <2>3. instance[token].image \in {"old", "new"}
      BY DEF ComputerTypes, Instances
    <2>4. PICK own \in {"old", "new"} : own = instance[token].image
      BY <2>3
    <2>5. PICK next \in Rows : next = [row EXCEPT !.instance = old.token, !.volume = old.volume, !.image = own]
      BY <1>1 DEF Rows, JobRecords
    <2>6. vm' = next
      BY <1>1, <1>5, <2>1, <2>2, <2>4, <2>5 DEF RecordInstance
    <2> QED
      BY <1>1, <2>1, <2>5, <2>6 DEF Rows
  <1>6. /\ vmJob[w].pc = "record"
        /\ UNCHANGED <<instance, volume, image, vmQueue, deletion, issued, overlapped, gaveUp>>
        /\ vmStrays' = vmStrays \cup (IF Overtaken THEN Stray(w) ELSE {})
               \cup {k \in Launches : k = vm.instance /\ instance[k].status = "running"}
        /\ strayVolumes' = IF Overtaken THEN strayVolumes \cup StrayVolume(w) ELSE strayVolumes
        /\ vm.state = "gone" => vm' = vm
    BY DEF RecordInstance
  <1> QED
    BY <1>1, <1>3, <1>4, <1>5, <1>6

LEMMA GoDoes ==
    ASSUME ComputerTypes, NEW w \in VmSlots, NEW pc \in JobPoints, VmGo(w, pc)
    PROVE  /\ OthersKeep(w) /\ vmJob'[w].pc = pc
           /\ vmJob'[w].kind = vmJob[w].kind /\ vmJob'[w].instance = vmJob[w].instance
           /\ vmJob'[w].token = vmJob[w].token /\ vmJob'[w].volume = vmJob[w].volume
           /\ vmJob'[w].made = vmJob[w].made /\ vmJob'[w].retire = vmJob[w].retire
  <1>1. PICK old \in JobRecords : old = vmJob[w]
    BY DEF ComputerTypes
  <1>2. PICK new \in JobRecords : new = [old EXCEPT !.pc = pc]
    BY DEF JobRecords
  <1>3. /\ new.pc = pc /\ new.kind = old.kind /\ new.instance = old.instance
        /\ new.token = old.token /\ new.volume = old.volume /\ new.made = old.made
        /\ new.retire = old.retire
    BY <1>2 DEF JobRecords
  <1>4. vmJob' = [vmJob EXCEPT ![w] = new]
    BY <1>1, <1>2 DEF VmGo
  <1>5. OthersKeep(w) /\ vmJob'[w] = new
    BY <1>4, PutJob
  <1> QED
    BY <1>1, <1>3, <1>5

LEMMA EndDoes ==
    ASSUME ComputerTypes, NEW w \in VmSlots, vmJob' = [vmJob EXCEPT ![w] = NoVmJob]
    PROVE  OthersKeep(w) /\ vmJob'[w] = NoVmJob
  <1>1. NoVmJob \in JobRecords
    BY DEF NoVmJob, JobRecords, JobPoints, LaunchOrNone, VolumeOrNone
  <1> QED
    BY <1>1, PutJob

LEMMA StateSet ==
    ASSUME vm \in Rows, NEW s \in VmStates, vm' = [vm EXCEPT !.state = s]
    PROVE  /\ vm' \in Rows /\ vm'.state = s /\ vm'.instance = vm.instance
           /\ vm'.volume = vm.volume /\ vm'.reg = vm.reg /\ vm'.token = vm.token
           /\ vm'.failures = vm.failures
  <1>1. PICK old \in Rows : old = vm
    OBVIOUS
  <1>2. PICK new \in Rows : new = [old EXCEPT !.state = s]
    BY DEF Rows
  <1> QED
    BY <1>1, <1>2 DEF Rows

LEMMA TerminatedDoes ==
    ASSUME ComputerTypes, NEW k \in LaunchOrNone, instance' = Terminated(k)
    PROVE  /\ instance' \in [Launches -> Instances]
           /\ \A j \in Launches :
                 /\ instance'[j].status = IF j = k /\ instance[j].status = "running" THEN "dying"
                                          ELSE instance[j].status
                 /\ instance'[j].volume = instance[j].volume /\ instance'[j].auth = instance[j].auth
  <1>1. CASE k # 0 /\ instance[k].status = "running"
    <2>1. k \in Launches
      BY <1>1 DEF LaunchOrNone
    <2>2. PICK old \in Instances : old = instance[k]
      BY <2>1 DEF ComputerTypes
    <2>3. PICK new \in Instances : new = [old EXCEPT !.status = "dying"]
      BY DEF Instances
    <2>4. instance' = [instance EXCEPT ![k] = new]
      BY <1>1, <2>2, <2>3 DEF Terminated
    <2>5. new.status = "dying" /\ new.volume = old.volume /\ new.auth = old.auth
      BY <2>3 DEF Instances
    <2>6. instance'[k] = new /\ \A j \in Launches : j # k => instance'[j] = instance[j]
      BY <2>1, <2>4 DEF ComputerTypes
    <2>7. instance' \in [Launches -> Instances]
      BY <2>1, <2>4 DEF ComputerTypes
    <2> QED
      BY <1>1, <2>2, <2>5, <2>6, <2>7
  <1>2. CASE ~(k # 0 /\ instance[k].status = "running")
    <2>1. instance' = instance
      BY <1>2 DEF Terminated
    <2>2. 0 \notin Launches
      BY DEF Launches
    <2> QED
      BY <1>2, <2>1, <2>2 DEF ComputerTypes
  <1> QED
    BY <1>1, <1>2

LEMMA PutInstance ==
    ASSUME ComputerTypes, NEW k \in Launches, NEW new \in Instances,
           instance' = [instance EXCEPT ![k] = new]
    PROVE  /\ instance' \in [Launches -> Instances] /\ instance'[k] = new
           /\ \A j \in Launches : j # k => instance'[j] = instance[j]
  BY DEF ComputerTypes

-----------------------------------------------------------------------------
(* The steps of a job that provisions.                                     *)

LEMMA RecordInstanceKeeps ==
    ASSUME ComputerInv, NEW w \in VmSlots, RecordInstance(w)
    PROVE  ComputerInv'
  <1>1. ComputerTypes /\ (\A x \in VmSlots : JobOk(vmJob[x]))
    BY DEF ComputerInv, JobsInv
  <1>2. InOrder /\ TokensDiffer /\ LaunchesHidden /\ AttachedThere
    BY DEF ComputerInv, JobsInv
  <1>3. RowLeaves /\ InstanceLeaves /\ FilesKept /\ RestoresApart /\ RetryComes
    BY DEF ComputerInv, JobsInv
  <1>4. /\ vmJob[w].pc = "record" /\ OthersKeep(w)
        /\ vmJob'[w].pc = "provisioned" /\ vmJob'[w].made = FALSE
        /\ vmJob'[w].kind = vmJob[w].kind /\ vmJob'[w].instance = vmJob[w].instance
        /\ vmJob'[w].token = vmJob[w].token /\ vmJob'[w].volume = vmJob[w].volume
        /\ vmJob'[w].retire = vmJob[w].retire
        /\ UNCHANGED <<instance, volume, image, vmQueue, deletion, issued, overlapped, gaveUp>>
        /\ vmStrays' = vmStrays \cup (IF Overtaken THEN Stray(w) ELSE {})
               \cup {k \in Launches : k = vm.instance /\ instance[k].status = "running"}
        /\ strayVolumes' = IF Overtaken THEN strayVolumes \cup StrayVolume(w) ELSE strayVolumes
        /\ vm.state = "gone" => vm' = vm
        /\ vm.state # "gone" =>
              /\ vm' \in Rows /\ vm'.state = vm.state /\ vm'.reg = vm.reg
              /\ vm'.token = vm.token /\ vm'.failures = vm.failures
              /\ vm'.instance = vmJob[w].token /\ vm'.volume = vmJob[w].volume
    BY <1>1, RecordInstanceDoes
  <1>5. AttachedThere' /\ RowLeaves'
    BY <1>4, <1>1, <1>2, <1>3 DEF AttachedThere, JobOk, OthersKeep, RowLeaves
  <1>6. ComputerTypes'
    BY <1>4, <1>1, StraysTyped DEF OthersKeep, ComputerTypes
  <1>7. \A x \in VmSlots : JobOk(vmJob[x])'
    BY <1>4, <1>1, <1>2 DEF TokensDiffer, JobOk, NoVmJob, ComputerTypes, JobRecords, OthersKeep
  <1>8. InOrder'
    BY <1>4, <1>1, <1>2 DEF InOrder, JobOk, ComputerTypes, Rows, LaunchOrNone
  <1>9. TokensDiffer'
    BY <1>4, <1>1, <1>2 DEF TokensDiffer, OthersKeep
  <1>10. LaunchesHidden'
    BY <1>4, <1>1, <1>2 DEF TokensDiffer, JobOk, LaunchesHidden, Hidden, OthersKeep
  <1>11. InstanceLeaves'
    BY <1>4, <1>1, <1>3 DEF Stray, JobOk, InstanceLeaves, Overtaken
  <1>12. FilesKept'
    BY <1>4, <1>1, <1>2, <1>3
       DEF AttachedThere, JobOk, ComputerTypes, JobRecords, LaunchOrNone, FilesKept
  <1>13. RestoresApart'
    BY <1>4, <1>1, <1>3 DEF JobOk, RestoresApart, RestoreTrue, Leaving, OthersKeep
  <1>14. RetryComes'
    BY <1>4, <1>1, <1>3 DEF RetryComes, Queued, OthersKeep
  <1>15. ASSUME AloneInv, overlapped' = {}
         PROVE  AloneInv'
    <2>1. /\ \A y, x \in VmSlots : y # x => vmJob[y].pc = "idle" \/ vmJob[x].pc = "idle"
          /\ \A x \in VmSlots : SetupTrue(vmJob[x])
          /\ RowNames /\ RunningNamed /\ TokenNamed /\ VolumesNamed /\ VolumeLeaves
      BY <1>15 DEF AloneInv
    <2>2. \A y, x \in VmSlots : y # x => vmJob'[y].pc = "idle" \/ vmJob'[x].pc = "idle"
      BY <1>4, <1>1, <1>3, <2>1 DEF OthersKeep
    <2>3. \A x \in VmSlots : SetupTrue(vmJob[x])'
      BY <1>4, <1>1, <1>3, <2>1 DEF JobOk, SetupTrue, Leaving, OthersKeep
    <2>4. RowNames'
      BY <1>4, <1>1, <1>3, <2>1 DEF SetupTrue, RowNames, OthersKeep
    <2>5. RunningNamed'
      BY <1>4, <1>1, <1>3, <2>1
         DEF RowLeaves, Overtaken, Stray, JobOk, RunningNamed, Named, OthersKeep
    <2>6. TokenNamed'
      BY <1>4, <1>1, <1>3, <2>1 DEF SetupTrue, TokenNamed
    <2>7. VolumesNamed'
      BY <1>4, <1>1, <1>3, <2>1
         DEF RowLeaves, Overtaken, StrayVolume, SetupTrue, JobOk, VolumesNamed, OthersKeep
    <2>8. VolumeLeaves'
      BY <1>4, <1>1, <1>3, <2>1
         DEF RowLeaves, Overtaken, StrayVolume, SetupTrue, JobOk, ComputerTypes, JobRecords,
             VolumeOrNone, VolumeLeaves
    <2> QED
      BY <2>2, <2>3, <2>4, <2>5, <2>6, <2>7, <2>8 DEF AloneInv
  <1> QED
    BY <1>4, <1>5, <1>6, <1>7, <1>8, <1>9, <1>10, <1>11, <1>12, <1>13, <1>14, <1>15
       DEF ComputerInv, JobsInv

LEMMA MoveVmKeeps ==
    ASSUME ComputerInv, NEW w \in VmSlots, MoveVm(w)
    PROVE  ComputerInv'
  <1>1. ComputerTypes /\ (\A x \in VmSlots : JobOk(vmJob[x]))
    BY DEF ComputerInv, JobsInv
  <1>2. InOrder /\ TokensDiffer /\ LaunchesHidden /\ AttachedThere
    BY DEF ComputerInv, JobsInv
  <1>3. RowLeaves /\ InstanceLeaves /\ FilesKept /\ RestoresApart /\ RetryComes
    BY DEF ComputerInv, JobsInv
  <1>4. /\ vmJob[w].pc = "move" /\ OthersKeep(w) /\ vmJob'[w].pc \in {"destroy", "issue"}
        /\ vmJob'[w].kind = vmJob[w].kind /\ vmJob'[w].instance = vmJob[w].instance
        /\ vmJob'[w].token = vmJob[w].token /\ vmJob'[w].volume = vmJob[w].volume
        /\ vmJob'[w].made = vmJob[w].made /\ vmJob'[w].retire = vmJob[w].retire
        /\ vm.state \in {"requested", "ready", "unhealthy", "failed"}
        /\ vm' \in Rows /\ vm'.instance = vm.instance /\ vm'.volume = vm.volume
        /\ vm'.reg = vm.reg /\ vm'.token = vm.token
        /\ vm'.state = "provisioning"
        /\ UNCHANGED <<instance, volume, image, vmQueue, deletion, issued, vmStrays, strayVolumes,
                       overlapped, gaveUp>>
    <2>1. vm' = [vm EXCEPT !.state = "provisioning"] /\ vm \in Rows
      BY <1>1 DEF MoveVm, ComputerTypes
    <2>2. "provisioning" \in VmStates
      BY DEF VmStates
    <2>3. PICK pc \in {"destroy", "issue"} : VmGo(w, pc)
      BY DEF MoveVm
    <2>4. pc \in JobPoints
      BY DEF JobPoints
    <2>5. vm.state \in {"requested", "ready", "unhealthy", "failed"}
      BY DEF MoveVm, Moves, Legal
    <2> QED
      BY <1>1, <2>1, <2>2, <2>3, <2>4, <2>5, GoDoes, StateSet DEF MoveVm
  <1>5. ComputerTypes'
    BY <1>4, <1>1 DEF OthersKeep, ComputerTypes
  <1>6. \A x \in VmSlots : JobOk(vmJob[x])'
    BY <1>4, <1>1, <1>2 DEF JobOk, NoVmJob, ComputerTypes, JobRecords, OthersKeep
  <1>7. InOrder'
    BY <1>4, <1>1, <1>2 DEF InOrder, JobOk, ComputerTypes, Rows, LaunchOrNone
  <1>8. TokensDiffer'
    BY <1>4, <1>1, <1>2 DEF TokensDiffer, OthersKeep
  <1>9. LaunchesHidden'
    BY <1>4, <1>1, <1>2 DEF LaunchesHidden, Hidden, OthersKeep
  <1>10. AttachedThere'
    BY <1>4, <1>1, <1>2 DEF AttachedThere, JobOk, OthersKeep
  <1>11. RowLeaves'
    BY <1>4, <1>3 DEF RowLeaves
  <1>12. InstanceLeaves'
    BY <1>4, <1>1, <1>3 DEF InstanceLeaves, Overtaken
  <1>13. FilesKept'
    BY <1>4, <1>1, <1>2, <1>3 DEF FilesKept
  <1>14. RestoresApart'
    BY <1>4, <1>1, <1>3 DEF JobOk, RestoresApart, RestoreTrue, Leaving, OthersKeep
  <1>15. RetryComes'
    BY <1>4, <1>1, <1>3 DEF RetryComes, Queued, OthersKeep
  <1>16. ASSUME AloneInv, overlapped' = {}
         PROVE  AloneInv'
    <2>1. /\ \A y, x \in VmSlots : y # x => vmJob[y].pc = "idle" \/ vmJob[x].pc = "idle"
          /\ \A x \in VmSlots : SetupTrue(vmJob[x])
          /\ RowNames /\ RunningNamed /\ TokenNamed /\ VolumesNamed /\ VolumeLeaves
      BY <1>16 DEF AloneInv
    <2>2. \A y, x \in VmSlots : y # x => vmJob'[y].pc = "idle" \/ vmJob'[x].pc = "idle"
      BY <1>4, <1>1, <1>3, <2>1 DEF OthersKeep
    <2>3. \A x \in VmSlots : SetupTrue(vmJob[x])'
      BY <1>4, <1>1, <1>3, <2>1 DEF JobOk, SetupTrue, Leaving, OthersKeep
    <2>4. RowNames'
      BY <1>4, <1>1, <1>3, <2>1 DEF SetupTrue, RowNames, OthersKeep
    <2>5. RunningNamed'
      BY <1>4, <1>1, <1>3, <2>1 DEF RunningNamed, Named, OthersKeep
    <2>6. TokenNamed'
      BY <1>4, <1>1, <1>3, <2>1 DEF SetupTrue, TokenNamed
    <2>7. VolumesNamed'
      BY <1>4, <1>1, <1>3, <2>1 DEF VolumesNamed, OthersKeep
    <2>8. VolumeLeaves'
      BY <1>4, <1>1, <1>3, <2>1 DEF VolumeLeaves
    <2> QED
      BY <2>2, <2>3, <2>4, <2>5, <2>6, <2>7, <2>8 DEF AloneInv
  <1> QED
    BY <1>4, <1>5, <1>6, <1>7, <1>8, <1>9, <1>10, <1>11, <1>12, <1>13, <1>14, <1>15, <1>16
       DEF ComputerInv, JobsInv

LEMMA DestroyOldKeeps ==
    ASSUME ComputerInv, NEW w \in VmSlots, DestroyOld(w)
    PROVE  ComputerInv'
  <1>1. ComputerTypes /\ (\A x \in VmSlots : JobOk(vmJob[x]))
    BY DEF ComputerInv, JobsInv
  <1>2. InOrder /\ TokensDiffer /\ LaunchesHidden /\ AttachedThere
    BY DEF ComputerInv, JobsInv
  <1>3. RowLeaves /\ InstanceLeaves /\ FilesKept /\ RestoresApart /\ RetryComes
    BY DEF ComputerInv, JobsInv
  <1>4. /\ vmJob[w].pc = "destroy" /\ OthersKeep(w) /\ vmJob'[w].pc = "clear"
        /\ vmJob'[w].kind = vmJob[w].kind /\ vmJob'[w].instance = vmJob[w].instance
        /\ vmJob'[w].token = vmJob[w].token /\ vmJob'[w].volume = vmJob[w].volume
        /\ vmJob'[w].made = vmJob[w].made /\ vmJob'[w].retire = vmJob[w].retire
        /\ instance' \in [Launches -> Instances]
        /\ \A k \in Launches :
              /\ instance'[k].status = IF k = vmJob[w].instance /\ instance[k].status = "running" THEN "dying"
                                       ELSE instance[k].status
              /\ instance'[k].volume = instance[k].volume /\ instance'[k].auth = instance[k].auth
        /\ UNCHANGED <<vm, volume, image, vmQueue, deletion, issued, vmStrays, strayVolumes,
                       overlapped, gaveUp>>
    <2>1. PICK k \in LaunchOrNone : k = vmJob[w].instance
      BY <1>1 DEF ComputerTypes, JobRecords
    <2>2. instance' = Terminated(k)
      BY <2>1 DEF DestroyOld
    <2>3. VmGo(w, "clear") /\ "clear" \in JobPoints
      BY DEF DestroyOld, JobPoints
    <2> QED
      BY <1>1, <2>1, <2>2, <2>3, GoDoes, TerminatedDoes DEF DestroyOld
  <1>5. ComputerTypes'
    BY <1>4, <1>1 DEF OthersKeep, ComputerTypes
  <1>6. \A x \in VmSlots : JobOk(vmJob[x])'
    BY <1>4, <1>1, <1>2
       DEF LaunchesHidden, Hidden, OthersKeep, LaunchOrNone, JobOk, NoVmJob, ComputerTypes,
           JobRecords
  <1>7. InOrder'
    BY <1>4, <1>1, <1>2 DEF InOrder, JobOk, ComputerTypes, Rows, LaunchOrNone
  <1>8. TokensDiffer'
    BY <1>4, <1>1, <1>2 DEF TokensDiffer, OthersKeep
  <1>9. LaunchesHidden'
    BY <1>4, <1>1, <1>2 DEF LaunchesHidden, Hidden, OthersKeep
  <1>10. AttachedThere'
    BY <1>4, <1>1, <1>2 DEF AttachedThere, JobOk, OthersKeep
  <1>11. RowLeaves'
    BY <1>4, <1>3 DEF RowLeaves
  <1>12. InstanceLeaves'
    BY <1>4, <1>1, <1>3 DEF InstanceLeaves, Overtaken
  <1>13. FilesKept'
    BY <1>4, <1>1, <1>2, <1>3 DEF FilesKept
  <1>14. RestoresApart'
    BY <1>4, <1>1, <1>3 DEF RestoresApart, RestoreTrue, Leaving, OthersKeep
  <1>15. RetryComes'
    BY <1>4, <1>1, <1>3 DEF RetryComes, Queued, OthersKeep
  <1>16. ASSUME AloneInv, overlapped' = {}
         PROVE  AloneInv'
    <2>1. /\ \A y, x \in VmSlots : y # x => vmJob[y].pc = "idle" \/ vmJob[x].pc = "idle"
          /\ \A x \in VmSlots : SetupTrue(vmJob[x])
          /\ RowNames /\ RunningNamed /\ TokenNamed /\ VolumesNamed /\ VolumeLeaves
      BY <1>16 DEF AloneInv
    <2>2. \A y, x \in VmSlots : y # x => vmJob'[y].pc = "idle" \/ vmJob'[x].pc = "idle"
      BY <1>4, <1>1, <1>3, <2>1 DEF OthersKeep
    <2>3. \A x \in VmSlots : SetupTrue(vmJob[x])'
      BY <1>4, <1>1, <1>3, <2>1
         DEF JobOk, ComputerTypes, JobRecords, LaunchOrNone, SetupTrue, Leaving, OthersKeep
    <2>4. RowNames'
      BY <1>4, <1>1, <1>3, <2>1
         DEF SetupTrue, OthersKeep, ComputerTypes, Rows, LaunchOrNone, RowNames
    <2>5. RunningNamed'
      BY <1>4, <1>1, <1>3, <2>1 DEF RunningNamed, Named, OthersKeep
    <2>6. TokenNamed'
      BY <1>4, <1>1, <1>3, <2>1 DEF TokenNamed
    <2>7. VolumesNamed'
      BY <1>4, <1>1, <1>3, <2>1 DEF VolumesNamed, OthersKeep
    <2>8. VolumeLeaves'
      BY <1>4, <1>1, <1>3, <2>1 DEF VolumeLeaves
    <2> QED
      BY <2>2, <2>3, <2>4, <2>5, <2>6, <2>7, <2>8 DEF AloneInv
  <1> QED
    BY <1>4, <1>5, <1>6, <1>7, <1>8, <1>9, <1>10, <1>11, <1>12, <1>13, <1>14, <1>15, <1>16
       DEF ComputerInv, JobsInv

LEMMA ClearOldKeeps ==
    ASSUME ComputerInv, NEW w \in VmSlots, ClearOld(w)
    PROVE  ComputerInv'
  <1>1. ComputerTypes /\ (\A x \in VmSlots : JobOk(vmJob[x]))
    BY DEF ComputerInv, JobsInv
  <1>2. InOrder /\ TokensDiffer /\ LaunchesHidden /\ AttachedThere
    BY DEF ComputerInv, JobsInv
  <1>3. RowLeaves /\ InstanceLeaves /\ FilesKept /\ RestoresApart /\ RetryComes
    BY DEF ComputerInv, JobsInv
  <1>4. /\ vmJob[w].pc = "clear" /\ OthersKeep(w) /\ vmJob'[w].pc = "issue"
        /\ vmJob'[w].kind = vmJob[w].kind /\ vmJob'[w].instance = vmJob[w].instance
        /\ vmJob'[w].token = vmJob[w].token /\ vmJob'[w].volume = vmJob[w].volume
        /\ vmJob'[w].made = vmJob[w].made /\ vmJob'[w].retire = vmJob[w].retire
        /\ vm.state = "gone" => vm' = vm
        /\ vm.state # "gone" =>
              /\ vm' \in Rows /\ vm'.state = vm.state /\ vm'.volume = vm.volume
              /\ vm'.reg = vm.reg /\ vm'.failures = vm.failures /\ vm'.token = 0 /\ vm'.instance = 0
        /\ UNCHANGED <<instance, volume, image, vmQueue, deletion, issued, vmStrays, strayVolumes,
                       overlapped, gaveUp>>
    <2>1. ASSUME vm.state # "gone"
          PROVE  /\ vm' \in Rows /\ vm'.state = vm.state /\ vm'.volume = vm.volume
                 /\ vm'.reg = vm.reg /\ vm'.failures = vm.failures
                 /\ vm'.token = 0 /\ vm'.instance = 0
      <3>1. PICK old \in Rows : old = vm
        BY <1>1 DEF ComputerTypes
      <3>2. PICK new \in Rows : new = [old EXCEPT !.token = 0, !.instance = 0]
        BY DEF Rows, LaunchOrNone
      <3>3. vm' = new
        BY <2>1, <3>1, <3>2 DEF ClearOld
      <3> QED
        BY <3>1, <3>2, <3>3 DEF Rows
    <2>2. VmGo(w, "issue") /\ "issue" \in JobPoints
      BY DEF ClearOld, JobPoints
    <2> QED
      BY <1>1, <2>1, <2>2, GoDoes DEF ClearOld
  <1>5. ComputerTypes'
    BY <1>4, <1>1 DEF OthersKeep, ComputerTypes
  <1>6. \A x \in VmSlots : JobOk(vmJob[x])'
    BY <1>4, <1>1, <1>2 DEF JobOk, NoVmJob, ComputerTypes, JobRecords, OthersKeep
  <1>7. InOrder'
    BY <1>4, <1>1, <1>2 DEF ComputerTypes, InOrder, JobOk, Rows, LaunchOrNone
  <1>8. TokensDiffer'
    BY <1>4, <1>1, <1>2 DEF TokensDiffer, OthersKeep
  <1>9. LaunchesHidden'
    BY <1>4, <1>1, <1>2 DEF JobOk, ComputerTypes, Launches, LaunchesHidden, Hidden, OthersKeep
  <1>10. AttachedThere'
    BY <1>4, <1>1, <1>2 DEF AttachedThere, JobOk, OthersKeep
  <1>11. RowLeaves'
    BY <1>4, <1>3 DEF RowLeaves
  <1>12. InstanceLeaves'
    BY <1>4, <1>1, <1>3 DEF Launches, InstanceLeaves, Overtaken
  <1>13. FilesKept'
    BY <1>4, <1>1, <1>2, <1>3 DEF FilesKept
  <1>14. RestoresApart'
    BY <1>4, <1>1, <1>3 DEF RestoresApart, RestoreTrue, Leaving, OthersKeep
  <1>15. RetryComes'
    BY <1>4, <1>1, <1>3 DEF RetryComes, Queued, OthersKeep
  <1>16. ASSUME AloneInv, overlapped' = {}
         PROVE  AloneInv'
    <2>1. /\ \A y, x \in VmSlots : y # x => vmJob[y].pc = "idle" \/ vmJob[x].pc = "idle"
          /\ \A x \in VmSlots : SetupTrue(vmJob[x])
          /\ RowNames /\ RunningNamed /\ TokenNamed /\ VolumesNamed /\ VolumeLeaves
      BY <1>16 DEF AloneInv
    <2>2. \A y, x \in VmSlots : y # x => vmJob'[y].pc = "idle" \/ vmJob'[x].pc = "idle"
      BY <1>4, <1>1, <1>3, <2>1 DEF OthersKeep
    <2>3. \A x \in VmSlots : SetupTrue(vmJob[x])'
      BY <1>4, <1>1, <1>3, <2>1 DEF JobOk, SetupTrue, Leaving, OthersKeep
    <2>4. RowNames'
      BY <1>4, <1>1, <1>3, <2>1 DEF SetupTrue, RowNames, OthersKeep
    <2>5. RunningNamed'
      BY <1>4, <1>1, <1>3, <2>1 DEF SetupTrue, Launches, RunningNamed, Named, OthersKeep
    <2>6. TokenNamed'
      BY <1>4, <1>1, <1>3, <2>1 DEF SetupTrue, TokenNamed
    <2>7. VolumesNamed'
      BY <1>4, <1>1, <1>3, <2>1 DEF VolumesNamed, OthersKeep
    <2>8. VolumeLeaves'
      BY <1>4, <1>1, <1>3, <2>1 DEF VolumeLeaves
    <2> QED
      BY <2>2, <2>3, <2>4, <2>5, <2>6, <2>7, <2>8 DEF AloneInv
  <1> QED
    BY <1>4, <1>5, <1>6, <1>7, <1>8, <1>9, <1>10, <1>11, <1>12, <1>13, <1>14, <1>15, <1>16
       DEF ComputerInv, JobsInv

LEMMA LaunchKeeps ==
    ASSUME ComputerInv, NEW w \in VmSlots, Launch(w)
    PROVE  ComputerInv'
  <1>1. ComputerTypes /\ (\A x \in VmSlots : JobOk(vmJob[x]))
    BY DEF ComputerInv, JobsInv
  <1>2. InOrder /\ TokensDiffer /\ LaunchesHidden /\ AttachedThere
    BY DEF ComputerInv, JobsInv
  <1>3. RowLeaves /\ InstanceLeaves /\ FilesKept /\ RestoresApart /\ RetryComes
    BY DEF ComputerInv, JobsInv
  <1>4. /\ vmJob[w].pc = "launch" /\ OthersKeep(w) /\ vmJob'[w].pc = "attach"
        /\ vmJob'[w].kind = vmJob[w].kind /\ vmJob'[w].instance = vmJob[w].instance
        /\ vmJob'[w].token = vmJob[w].token /\ vmJob'[w].volume = vmJob[w].volume
        /\ vmJob'[w].made = vmJob[w].made /\ vmJob'[w].retire = vmJob[w].retire
        /\ vmJob[w].token \in Launches
        /\ instance' \in [Launches -> Instances]
        /\ instance'[vmJob[w].token].status = "running" /\ instance'[vmJob[w].token].volume = 0
        /\ instance'[vmJob[w].token].auth = "no"
        /\ \A k \in Launches : k # vmJob[w].token => instance'[k] = instance[k]
        /\ UNCHANGED <<vm, volume, image, vmQueue, deletion, issued, vmStrays, strayVolumes,
                       overlapped, gaveUp>>
    <2>1. PICK k \in Launches : k = vmJob[w].token
      BY <1>1 DEF Launch, JobOk, ComputerTypes, JobRecords, LaunchOrNone
    <2>2. PICK new \in Instances :
             new = [status |-> "running", volume |-> 0, image |-> image, auth |-> "no"]
      BY <1>1 DEF Instances, ComputerTypes, VolumeOrNone
    <2>3. new.status = "running" /\ new.volume = 0 /\ new.auth = "no"
      BY <2>2
    <2>4. instance' = [instance EXCEPT ![k] = new]
      BY <2>1, <2>2 DEF Launch
    <2>5. /\ instance' \in [Launches -> Instances] /\ instance'[k] = new
          /\ \A j \in Launches : j # k => instance'[j] = instance[j]
      BY <1>1, <2>4, PutInstance
    <2>6. VmGo(w, "attach") /\ "attach" \in JobPoints
      BY DEF Launch, JobPoints
    <2> QED
      BY <1>1, <2>1, <2>3, <2>5, <2>6, GoDoes DEF Launch
  <1>5. ComputerTypes'
    BY <1>4, <1>1 DEF OthersKeep, ComputerTypes
  <1>6. \A x \in VmSlots : JobOk(vmJob[x])'
    BY <1>4, <1>1, <1>2
       DEF TokensDiffer, LaunchOrNone, JobOk, NoVmJob, ComputerTypes, JobRecords, OthersKeep
  <1>7. InOrder'
    BY <1>4, <1>1, <1>2 DEF ComputerTypes, Launches, InOrder, JobOk, Rows, LaunchOrNone
  <1>8. TokensDiffer'
    BY <1>4, <1>1, <1>2 DEF TokensDiffer, OthersKeep
  <1>9. LaunchesHidden'
    BY <1>4, <1>1, <1>2 DEF LaunchesHidden, Hidden, OthersKeep
  <1>10. AttachedThere'
    BY <1>4, <1>1, <1>2 DEF AttachedThere, JobOk, OthersKeep
  <1>11. RowLeaves'
    BY <1>4, <1>3 DEF RowLeaves
  <1>12. InstanceLeaves'
    BY <1>4, <1>1, <1>3, <1>2 DEF LaunchesHidden, Hidden, InstanceLeaves, Overtaken
  <1>13. FilesKept'
    BY <1>4, <1>1, <1>2, <1>3 DEF FilesKept
  <1>14. RestoresApart'
    BY <1>4, <1>1, <1>3 DEF RestoresApart, RestoreTrue, Leaving, OthersKeep
  <1>15. RetryComes'
    BY <1>4, <1>1, <1>3 DEF RetryComes, Queued, OthersKeep
  <1>16. ASSUME AloneInv, overlapped' = {}
         PROVE  AloneInv'
    <2>1. /\ \A y, x \in VmSlots : y # x => vmJob[y].pc = "idle" \/ vmJob[x].pc = "idle"
          /\ \A x \in VmSlots : SetupTrue(vmJob[x])
          /\ RowNames /\ RunningNamed /\ TokenNamed /\ VolumesNamed /\ VolumeLeaves
      BY <1>16 DEF AloneInv
    <2>2. \A y, x \in VmSlots : y # x => vmJob'[y].pc = "idle" \/ vmJob'[x].pc = "idle"
      BY <1>4, <1>1, <1>3, <2>1 DEF OthersKeep
    <2>3. \A x \in VmSlots : SetupTrue(vmJob[x])'
      BY <1>4, <1>1, <1>3, <2>1, <1>2
         DEF JobOk, TokensDiffer, LaunchesHidden, Hidden, SetupTrue, Leaving, OthersKeep
    <2>4. RowNames'
      BY <1>4, <1>1, <1>3, <2>1, <1>2
         DEF LaunchesHidden, Hidden, ComputerTypes, Rows, LaunchOrNone, RowNames, OthersKeep
    <2>5. RunningNamed'
      BY <1>4, <1>1, <1>3, <2>1, <1>2
         DEF LaunchesHidden, Hidden, RowLeaves, JobOk, InOrder, RunningNamed, Named, OthersKeep
    <2>6. TokenNamed'
      BY <1>4, <1>1, <1>3, <2>1 DEF TokenNamed
    <2>7. VolumesNamed'
      BY <1>4, <1>1, <1>3, <2>1 DEF VolumesNamed, OthersKeep
    <2>8. VolumeLeaves'
      BY <1>4, <1>1, <1>3, <2>1 DEF VolumeLeaves
    <2> QED
      BY <2>2, <2>3, <2>4, <2>5, <2>6, <2>7, <2>8 DEF AloneInv
  <1> QED
    BY <1>4, <1>5, <1>6, <1>7, <1>8, <1>9, <1>10, <1>11, <1>12, <1>13, <1>14, <1>15, <1>16
       DEF ComputerInv, JobsInv

LEMMA AttachKeeps ==
    ASSUME ComputerInv, NEW w \in VmSlots, Attach(w)
    PROVE  ComputerInv'
  <1>1. ComputerTypes /\ (\A x \in VmSlots : JobOk(vmJob[x]))
    BY DEF ComputerInv, JobsInv
  <1>2. InOrder /\ TokensDiffer /\ LaunchesHidden /\ AttachedThere
    BY DEF ComputerInv, JobsInv
  <1>3. RowLeaves /\ InstanceLeaves /\ FilesKept /\ RestoresApart /\ RetryComes
    BY DEF ComputerInv, JobsInv
  <1>4. /\ vmJob[w].pc = "attach" /\ OthersKeep(w) /\ vmJob'[w].pc = "record"
        /\ vmJob'[w].kind = vmJob[w].kind /\ vmJob'[w].instance = vmJob[w].instance
        /\ vmJob'[w].token = vmJob[w].token /\ vmJob'[w].volume = vmJob[w].volume
        /\ vmJob'[w].made = vmJob[w].made /\ vmJob'[w].retire = vmJob[w].retire
        /\ vmJob[w].token \in Launches /\ Available(vmJob[w].volume)
        /\ instance' \in [Launches -> Instances]
        /\ instance'[vmJob[w].token].volume = vmJob[w].volume
        /\ instance'[vmJob[w].token].status = instance[vmJob[w].token].status
        /\ instance'[vmJob[w].token].auth = instance[vmJob[w].token].auth
        /\ \A k \in Launches : k # vmJob[w].token => instance'[k] = instance[k]
        /\ UNCHANGED <<vm, volume, image, vmQueue, deletion, issued, vmStrays, strayVolumes,
                       overlapped, gaveUp>>
    <2>1. PICK k \in Launches : k = vmJob[w].token
      BY <1>1 DEF Attach, JobOk, ComputerTypes, JobRecords, LaunchOrNone
    <2>2. PICK old \in Instances : old = instance[k]
      BY <1>1 DEF ComputerTypes
    <2>3. PICK disk \in VolumeOrNone : disk = vmJob[w].volume
      BY <1>1 DEF ComputerTypes, JobRecords
    <2>4. PICK new \in Instances : new = [old EXCEPT !.volume = disk]
      BY DEF Instances
    <2>5. new.status = old.status /\ new.volume = disk /\ new.auth = old.auth
      BY <2>4 DEF Instances
    <2>6. instance' = [instance EXCEPT ![k] = new]
      BY <2>1, <2>2, <2>3, <2>4 DEF Attach
    <2>7. /\ instance' \in [Launches -> Instances] /\ instance'[k] = new
          /\ \A j \in Launches : j # k => instance'[j] = instance[j]
      BY <1>1, <2>6, PutInstance
    <2>8. VmGo(w, "record") /\ "record" \in JobPoints
      BY DEF Attach, JobPoints
    <2> QED
      BY <1>1, <2>1, <2>2, <2>3, <2>5, <2>7, <2>8, GoDoes DEF Attach
  <1>5. ComputerTypes'
    BY <1>4, <1>1 DEF OthersKeep, ComputerTypes
  <1>6. \A x \in VmSlots : JobOk(vmJob[x])'
    BY <1>4, <1>1, <1>2
       DEF TokensDiffer, LaunchOrNone, JobOk, NoVmJob, ComputerTypes, JobRecords, OthersKeep
  <1>7. InOrder'
    BY <1>4, <1>1, <1>2 DEF InOrder, JobOk, ComputerTypes, Rows, LaunchOrNone
  <1>8. TokensDiffer'
    BY <1>4, <1>1, <1>2 DEF TokensDiffer, OthersKeep
  <1>9. LaunchesHidden'
    BY <1>4, <1>1, <1>2 DEF LaunchesHidden, Hidden, OthersKeep
  <1>10. AttachedThere'
    BY <1>4, <1>1, <1>2 DEF Available, AttachedThere, JobOk, OthersKeep
  <1>11. RowLeaves'
    BY <1>4, <1>3 DEF RowLeaves
  <1>12. InstanceLeaves'
    BY <1>4, <1>1, <1>3 DEF InstanceLeaves, Overtaken
  <1>13. FilesKept'
    BY <1>4, <1>1, <1>2, <1>3 DEF FilesKept
  <1>14. RestoresApart'
    BY <1>4, <1>1, <1>3 DEF RestoresApart, RestoreTrue, Leaving, OthersKeep
  <1>15. RetryComes'
    BY <1>4, <1>1, <1>3 DEF RetryComes, Queued, OthersKeep
  <1>16. ASSUME AloneInv, overlapped' = {}
         PROVE  AloneInv'
    <2>1. /\ \A y, x \in VmSlots : y # x => vmJob[y].pc = "idle" \/ vmJob[x].pc = "idle"
          /\ \A x \in VmSlots : SetupTrue(vmJob[x])
          /\ RowNames /\ RunningNamed /\ TokenNamed /\ VolumesNamed /\ VolumeLeaves
      BY <1>16 DEF AloneInv
    <2>2. \A y, x \in VmSlots : y # x => vmJob'[y].pc = "idle" \/ vmJob'[x].pc = "idle"
      BY <1>4, <1>1, <1>3, <2>1 DEF OthersKeep
    <2>3. \A x \in VmSlots : SetupTrue(vmJob[x])'
      BY <1>4, <1>1, <1>3, <2>1, <1>2
         DEF JobOk, TokensDiffer, LaunchesHidden, Hidden, SetupTrue, Leaving, OthersKeep
    <2>4. RowNames'
      BY <1>4, <1>1, <1>3, <2>1, <1>2
         DEF LaunchesHidden, Hidden, ComputerTypes, Rows, LaunchOrNone, RowNames, OthersKeep
    <2>5. RunningNamed'
      BY <1>4, <1>1, <1>3, <2>1, <1>2
         DEF LaunchesHidden, Hidden, RowLeaves, RunningNamed, Named, OthersKeep
    <2>6. TokenNamed'
      BY <1>4, <1>1, <1>3, <2>1 DEF TokenNamed
    <2>7. VolumesNamed'
      BY <1>4, <1>1, <1>3, <2>1 DEF VolumesNamed, OthersKeep
    <2>8. VolumeLeaves'
      BY <1>4, <1>1, <1>3, <2>1 DEF VolumeLeaves
    <2> QED
      BY <2>2, <2>3, <2>4, <2>5, <2>6, <2>7, <2>8 DEF AloneInv
  <1> QED
    BY <1>4, <1>5, <1>6, <1>7, <1>8, <1>9, <1>10, <1>11, <1>12, <1>13, <1>14, <1>15, <1>16
       DEF ComputerInv, JobsInv

LEMMA IssueTokenKeeps ==
    ASSUME ComputerInv, NEW w \in VmSlots, IssueToken(w)
    PROVE  ComputerInv'
  <1>1. ComputerTypes /\ (\A x \in VmSlots : JobOk(vmJob[x]))
    BY DEF ComputerInv, JobsInv
  <1>2. InOrder /\ TokensDiffer /\ LaunchesHidden /\ AttachedThere
    BY DEF ComputerInv, JobsInv
  <1>3. RowLeaves /\ InstanceLeaves /\ FilesKept /\ RestoresApart /\ RetryComes
    BY DEF ComputerInv, JobsInv
  <1>4. /\ vmJob[w].pc = "issue" /\ OthersKeep(w) /\ vmJob'[w].pc = "volume"
        /\ vmJob'[w].kind = vmJob[w].kind /\ vmJob'[w].instance = vmJob[w].instance
        /\ vmJob'[w].volume = vmJob[w].volume /\ vmJob'[w].made = vmJob[w].made
        /\ vmJob'[w].retire = vmJob[w].retire
        /\ issued' = issued + 1 /\ issued' \in Launches /\ vmJob'[w].token = issued + 1
        /\ vm.state = "gone" => vm' = vm
        /\ vm.state # "gone" =>
              /\ vm' \in Rows /\ vm'.state = vm.state /\ vm'.volume = vm.volume
              /\ vm'.instance = vm.instance /\ vm'.failures = vm.failures /\ vm'.token = vm.token
              /\ vm'.reg = issued + 1
        /\ UNCHANGED <<instance, volume, image, vmQueue, deletion, vmStrays, strayVolumes,
                       overlapped, gaveUp>>
    <2>1. issued' = issued + 1 /\ issued' \in Launches
      BY <1>1, ComputerAssumption DEF IssueToken, ComputerTypes, Launches
    <2>2. PICK k \in Launches : k = issued'
      BY <2>1
    <2>3. PICK old \in JobRecords : old = vmJob[w]
      BY <1>1 DEF ComputerTypes
    <2>4. PICK new \in JobRecords : new = [old EXCEPT !.pc = "volume", !.token = k]
      BY <2>2 DEF JobRecords, JobPoints, LaunchOrNone
    <2>5. /\ new.pc = "volume" /\ new.token = k /\ new.kind = old.kind
          /\ new.instance = old.instance /\ new.volume = old.volume /\ new.made = old.made
          /\ new.retire = old.retire
      BY <2>4 DEF JobRecords
    <2>6. vmJob' = [vmJob EXCEPT ![w] = new]
      BY <2>3, <2>4, <2>2 DEF IssueToken
    <2>7. OthersKeep(w) /\ vmJob'[w] = new
      BY <1>1, <2>6, PutJob
    <2>8. ASSUME vm.state # "gone"
          PROVE  /\ vm' \in Rows /\ vm'.state = vm.state /\ vm'.volume = vm.volume
                 /\ vm'.instance = vm.instance /\ vm'.failures = vm.failures
                 /\ vm'.token = vm.token /\ vm'.reg = k
      <3>1. PICK row \in Rows : row = vm
        BY <1>1 DEF ComputerTypes
      <3>2. PICK next \in Rows : next = [row EXCEPT !.reg = k]
        BY DEF Rows, LaunchOrNone
      <3>3. vm' = next
        BY <2>2, <2>8, <3>1, <3>2 DEF IssueToken
      <3> QED
        BY <3>1, <3>2, <3>3 DEF Rows
    <2> QED
      BY <2>1, <2>3, <2>5, <2>7, <2>2, <2>8 DEF IssueToken
  <1>5. ComputerTypes'
    BY <1>4, <1>1, ComputerAssumption DEF OthersKeep, Launches, ComputerTypes
  <1>6. \A x \in VmSlots : JobOk(vmJob[x])'
    BY <1>4, <1>1, <1>2
       DEF InOrder, LaunchOrNone, Launches, JobOk, NoVmJob, ComputerTypes, JobRecords, OthersKeep
  <1>7. InOrder'
    BY <1>4, <1>1, <1>2 DEF ComputerTypes, Deletions, Rows, LaunchOrNone, Launches, InOrder, JobOk
  <1>8. TokensDiffer'
    BY <1>4, <1>1, <1>2
       DEF JobOk, ComputerTypes, JobRecords, LaunchOrNone, Launches, TokensDiffer, OthersKeep
  <1>9. LaunchesHidden'
    <2>1. vmJob'[w].token = issued + 1 /\ issued \in Nat /\ issued + 1 # 0
      BY <1>4, <1>1 DEF ComputerTypes
    <2>2. vm'.instance = vm.instance \/ vm' = vm
      BY <1>4
    <2>3. vm.instance \in Nat /\ deletion.instance \in Nat /\ vm.instance <= issued /\ deletion.instance <= issued
      BY <1>1, <1>2 DEF InOrder, ComputerTypes, Deletions, Rows, LaunchOrNone, Launches
    <2>4. \A x \in VmSlots : vmJob[x].instance \in Nat /\ vmJob[x].instance <= issued
      BY <1>1 DEF JobOk, ComputerTypes, JobRecords, LaunchOrNone, Launches
    <2>5. \A x \in VmSlots : vmJob'[x].instance = vmJob[x].instance
      BY <1>4 DEF OthersKeep
    <2>6. Hidden(vmJob[w].token)'
      BY <1>4, <2>1, <2>2, <2>3, <2>4, <2>5 DEF Hidden
    <2>7. ASSUME NEW x \in VmSlots, x # w, vmJob[x].pc \in {"volume", "launch", "attach", "record"}
          PROVE  Hidden(vmJob[x].token)'
      <3>1. Hidden(vmJob[x].token) /\ vmJob'[x].token = vmJob[x].token
        BY <1>4, <1>2, <2>7 DEF LaunchesHidden, OthersKeep
      <3> QED
        BY <1>4, <2>2, <2>5, <3>1 DEF Hidden
    <2> QED
      BY <1>4, <2>6, <2>7 DEF LaunchesHidden, OthersKeep
  <1>10. AttachedThere'
    BY <1>4, <1>1, <1>2 DEF AttachedThere, JobOk, OthersKeep
  <1>11. RowLeaves'
    BY <1>4, <1>3 DEF RowLeaves
  <1>12. InstanceLeaves'
    BY <1>4, <1>1, <1>3 DEF InstanceLeaves, Overtaken
  <1>13. FilesKept'
    BY <1>4, <1>1, <1>2, <1>3 DEF FilesKept
  <1>14. RestoresApart'
    BY <1>4, <1>1, <1>3 DEF RestoresApart, RestoreTrue, Leaving, OthersKeep
  <1>15. RetryComes'
    BY <1>4, <1>1, <1>3 DEF RetryComes, Queued, OthersKeep
  <1>16. ASSUME AloneInv, overlapped' = {}
         PROVE  AloneInv'
    <2>1. /\ \A y, x \in VmSlots : y # x => vmJob[y].pc = "idle" \/ vmJob[x].pc = "idle"
          /\ \A x \in VmSlots : SetupTrue(vmJob[x])
          /\ RowNames /\ RunningNamed /\ TokenNamed /\ VolumesNamed /\ VolumeLeaves
      BY <1>16 DEF AloneInv
    <2>2. \A y, x \in VmSlots : y # x => vmJob'[y].pc = "idle" \/ vmJob'[x].pc = "idle"
      BY <1>4, <1>1, <1>3, <2>1 DEF OthersKeep
    <2>3. \A x \in VmSlots : SetupTrue(vmJob[x])'
      BY <1>4, <1>1, <1>3, <2>1 DEF JobOk, SetupTrue, Leaving, OthersKeep
    <2>4. RowNames'
      BY <1>4, <1>1, <1>3, <2>1 DEF SetupTrue, RowNames, OthersKeep
    <2>5. RunningNamed'
      BY <1>4, <1>1, <1>3, <2>1 DEF JobOk, InOrder, RunningNamed, Named, OthersKeep
    <2>6. TokenNamed'
      BY <1>4, <1>1, <1>3, <2>1 DEF TokenNamed
    <2>7. VolumesNamed'
      BY <1>4, <1>1, <1>3, <2>1 DEF VolumesNamed, OthersKeep
    <2>8. VolumeLeaves'
      BY <1>4, <1>1, <1>3, <2>1 DEF VolumeLeaves
    <2> QED
      BY <2>2, <2>3, <2>4, <2>5, <2>6, <2>7, <2>8 DEF AloneInv
  <1> QED
    BY <1>4, <1>5, <1>6, <1>7, <1>8, <1>9, <1>10, <1>11, <1>12, <1>13, <1>14, <1>15, <1>16
       DEF ComputerInv, JobsInv

-----------------------------------------------------------------------------
(* The steps on volumes and on the row.                                    *)

LEMMA ReadVmKeeps ==
    ASSUME ComputerInv, NEW w \in VmSlots, ReadVm(w)
    PROVE  ComputerInv'
  <1>1. ComputerTypes /\ (\A x \in VmSlots : JobOk(vmJob[x]))
    BY DEF ComputerInv, JobsInv
  <1>2. InOrder /\ TokensDiffer /\ LaunchesHidden /\ AttachedThere
    BY DEF ComputerInv, JobsInv
  <1>3. RowLeaves /\ InstanceLeaves /\ FilesKept /\ RestoresApart /\ RetryComes
    BY DEF ComputerInv, JobsInv
  <1>4. /\ vmJob[w].pc = "row" /\ OthersKeep(w) /\ vmJob'[w].pc \in {"idle", "move", "issue", "retire"}
        /\ vmJob'[w].pc \in {"idle", "retire"} => vm.state # "failed"
        /\ vmJob'[w].pc = "issue" => vm.state = "provisioning"
        /\ vmJob'[w].pc = "idle" => vmJob'[w] = NoVmJob /\ vmJob[w].retire = 0
        /\ vmJob'[w].pc = "retire" => vmJob[w].retire # 0
        /\ vmJob'[w].pc # "idle" =>
              /\ vmJob'[w].kind = vmJob[w].kind /\ vmJob'[w].instance = vm.instance
              /\ vmJob'[w].token = vmJob[w].token /\ vmJob'[w].volume = vmJob[w].volume
              /\ vmJob'[w].made = vmJob[w].made /\ vmJob'[w].retire = vmJob[w].retire
        /\ UNCHANGED <<vm, instance, volume, image, vmQueue, deletion, issued, vmStrays, strayVolumes,
                       overlapped, gaveUp>>
    <2>1. /\ vmJob[w].pc = "row"
          /\ UNCHANGED <<vm, instance, volume, image, vmQueue, deletion, issued, vmStrays, strayVolumes,
                         overlapped, gaveUp>>
      BY DEF ReadVm
    <2>2. PICK old \in JobRecords : old = vmJob[w]
      BY <1>1 DEF ComputerTypes
    <2>3. PICK next \in {"issue", "move", "retire", "idle"} :
             next = IF vm.state = "provisioning" THEN "issue"
                    ELSE IF \/ vm.state \in {"requested", "failed"}
                            \/ vm.state \in {"ready", "unhealthy"} /\ old.replace THEN "move"
                    ELSE IF old.retire # 0 THEN "retire" ELSE "idle"
      OBVIOUS
    <2>4. PICK row \in Rows : row = vm
      BY <1>1 DEF ComputerTypes
    <2>5. PICK more \in JobRecords : more = [old EXCEPT !.pc = next, !.state = row.state,
                                                       !.instance = row.instance]
      BY DEF JobRecords, JobPoints, Rows
    <2>6. /\ more.pc = next /\ more.kind = old.kind /\ more.instance = row.instance
          /\ more.token = old.token /\ more.volume = old.volume /\ more.made = old.made
          /\ more.retire = old.retire
      BY <2>5 DEF JobRecords
    <2>7. CASE next = "idle"
      <3>1. vmJob' = [vmJob EXCEPT ![w] = NoVmJob]
        BY <2>2, <2>3, <2>7 DEF ReadVm
      <3>2. OthersKeep(w) /\ vmJob'[w] = NoVmJob
        BY <1>1, <3>1, EndDoes
      <3> QED
        BY <2>1, <2>2, <2>3, <2>7, <3>2 DEF NoVmJob
    <2>8. CASE next # "idle"
      <3>1. vmJob' = [vmJob EXCEPT ![w] = more]
        BY <2>2, <2>3, <2>4, <2>5, <2>8 DEF ReadVm
      <3>2. OthersKeep(w) /\ vmJob'[w] = more
        BY <1>1, <3>1, PutJob
      <3> QED
        BY <2>1, <2>2, <2>3, <2>4, <2>6, <2>8, <3>2
    <2> QED
      BY <2>7, <2>8
  <1>5. ComputerTypes'
    BY <1>4, <1>1 DEF OthersKeep, ComputerTypes
  <1>6. \A x \in VmSlots : JobOk(vmJob[x])'
    BY <1>4, <1>1, <1>2 DEF InOrder, NoVmJob, JobOk, ComputerTypes, JobRecords, OthersKeep
  <1>7. InOrder'
    BY <1>4, <1>1, <1>2 DEF InOrder, JobOk, ComputerTypes, Rows, LaunchOrNone
  <1>8. TokensDiffer'
    BY <1>4, <1>1, <1>2 DEF NoVmJob, TokensDiffer, OthersKeep
  <1>9. LaunchesHidden'
    BY <1>4, <1>1, <1>2 DEF Hidden, NoVmJob, JobOk, LaunchesHidden, OthersKeep
  <1>10. AttachedThere'
    BY <1>4, <1>1, <1>2 DEF NoVmJob, AttachedThere, JobOk, OthersKeep
  <1>11. RowLeaves'
    BY <1>4, <1>3 DEF RowLeaves
  <1>12. InstanceLeaves'
    BY <1>4, <1>1, <1>3 DEF InstanceLeaves, Overtaken
  <1>13. FilesKept'
    BY <1>4, <1>1, <1>2, <1>3 DEF FilesKept
  <1>14. RestoresApart'
    BY <1>4, <1>1, <1>3 DEF NoVmJob, RestoresApart, RestoreTrue, Leaving, OthersKeep
  <1>15. RetryComes'
    BY <1>4, <1>1, <1>3 DEF RetryComes, Queued, OthersKeep
  <1>16. ASSUME AloneInv, overlapped' = {}
         PROVE  AloneInv'
    <2>1. /\ \A y, x \in VmSlots : y # x => vmJob[y].pc = "idle" \/ vmJob[x].pc = "idle"
          /\ \A x \in VmSlots : SetupTrue(vmJob[x])
          /\ RowNames /\ RunningNamed /\ TokenNamed /\ VolumesNamed /\ VolumeLeaves
      BY <1>16 DEF AloneInv
    <2>2. \A y, x \in VmSlots : y # x => vmJob'[y].pc = "idle" \/ vmJob'[x].pc = "idle"
      BY <1>4, <1>1, <1>3, <2>1 DEF OthersKeep
    <2>3. \A x \in VmSlots : SetupTrue(vmJob[x])'
      BY <1>4, <1>1, <1>3, <2>1 DEF NoVmJob, JobOk, SetupTrue, Leaving, OthersKeep
    <2>4. RowNames'
      BY <1>4, <1>1, <1>3, <2>1 DEF NoVmJob, RowNames, OthersKeep
    <2>5. RunningNamed'
      BY <1>4, <1>1, <1>3, <2>1 DEF NoVmJob, RunningNamed, Named, OthersKeep
    <2>6. TokenNamed'
      BY <1>4, <1>1, <1>3, <2>1 DEF TokenNamed
    <2>7. VolumesNamed'
      BY <1>4, <1>1, <1>3, <2>1 DEF NoVmJob, JobOk, VolumesNamed, OthersKeep
    <2>8. VolumeLeaves'
      BY <1>4, <1>1, <1>3, <2>1 DEF VolumeLeaves
    <2> QED
      BY <2>2, <2>3, <2>4, <2>5, <2>6, <2>7, <2>8 DEF AloneInv
  <1> QED
    BY <1>4, <1>5, <1>6, <1>7, <1>8, <1>9, <1>10, <1>11, <1>12, <1>13, <1>14, <1>15, <1>16
       DEF ComputerInv, JobsInv

LEMMA RestoreVolumeKeeps ==
    ASSUME ComputerInv, NEW w \in VmSlots, RestoreVolume(w)
    PROVE  ComputerInv'
  <1>1. ComputerTypes /\ (\A x \in VmSlots : JobOk(vmJob[x]))
    BY DEF ComputerInv, JobsInv
  <1>2. InOrder /\ TokensDiffer /\ LaunchesHidden /\ AttachedThere
    BY DEF ComputerInv, JobsInv
  <1>3. RowLeaves /\ InstanceLeaves /\ FilesKept /\ RestoresApart /\ RetryComes
    BY DEF ComputerInv, JobsInv
  <1>4. PICK disk \in Volumes :
           /\ vmJob[w].pc = "restore" /\ OthersKeep(w) /\ vmJob'[w].pc = "use"
           /\ vmJob'[w].kind = vmJob[w].kind /\ vmJob'[w].instance = vmJob[w].instance
           /\ vmJob'[w].token = vmJob[w].token /\ vmJob'[w].volume = disk
           /\ vmJob'[w].made = TRUE /\ vmJob'[w].retire = vm.volume
           /\ vm.state \in {"ready", "unhealthy", "failed"}
           /\ volume[disk] = "none" /\ 0 \notin Volumes
           /\ volume' \in [Volumes -> {"none", "there", "gone"}] /\ volume'[disk] = "there"
           /\ \A v \in Volumes : v # disk => volume'[v] = volume[v]
           /\ UNCHANGED <<vm, instance, image, vmQueue, deletion, issued, vmStrays, strayVolumes,
                          overlapped, gaveUp>>
    <2>1. PICK old \in JobRecords : old = vmJob[w]
      BY <1>1 DEF ComputerTypes
    <2>2. PICK row \in Rows : row = vm
      BY <1>1 DEF ComputerTypes
    <2>3. PICK disk \in Volumes :
             /\ volume[disk] = "none" /\ volume' = [volume EXCEPT ![disk] = "there"]
             /\ vmJob' = [vmJob EXCEPT ![w] = [old EXCEPT !.pc = "use", !.volume = disk,
                                                       !.made = TRUE, !.retire = row.volume]]
      BY <2>1, <2>2 DEF RestoreVolume
    <2>4. PICK new \in JobRecords : new = [old EXCEPT !.pc = "use", !.volume = disk, !.made = TRUE,
                                                      !.retire = row.volume]
      BY DEF JobRecords, JobPoints, Rows, VolumeOrNone
    <2>5. /\ new.pc = "use" /\ new.kind = old.kind /\ new.instance = old.instance
          /\ new.token = old.token /\ new.volume = disk /\ new.made = TRUE
          /\ new.retire = row.volume
      BY <2>4 DEF JobRecords
    <2>6. OthersKeep(w) /\ vmJob'[w] = new
      BY <1>1, <2>3, <2>4, PutJob
    <2>7. /\ volume' \in [Volumes -> {"none", "there", "gone"}] /\ volume'[disk] = "there"
          /\ \A v \in Volumes : v # disk => volume'[v] = volume[v]
      BY <1>1, <2>3 DEF ComputerTypes
    <2> QED
      BY <2>1, <2>2, <2>3, <2>5, <2>6, <2>7 DEF RestoreVolume, Volumes
  <1>5. ComputerTypes'
    BY <1>4, <1>1 DEF OthersKeep, ComputerTypes
  <1>6. \A x \in VmSlots : JobOk(vmJob[x])'
    BY <1>4, <1>1, <1>2 DEF JobOk, NoVmJob, ComputerTypes, JobRecords, OthersKeep
  <1>7. InOrder'
    BY <1>4, <1>1, <1>2 DEF InOrder, JobOk, ComputerTypes, Rows, LaunchOrNone
  <1>8. TokensDiffer'
    BY <1>4, <1>1, <1>2 DEF TokensDiffer, OthersKeep
  <1>9. LaunchesHidden'
    BY <1>4, <1>1, <1>2 DEF Hidden, LaunchesHidden, OthersKeep
  <1>10. AttachedThere'
    <2>1. ASSUME NEW k \in Launches, instance'[k].status \in {"running", "dying"},
                 instance'[k].volume # 0
          PROVE  volume'[instance'[k].volume] = "there"
      <3>1. instance'[k] = instance[k] /\ instance[k].volume \in Volumes
        BY <1>4, <1>1, <2>1 DEF ComputerTypes, Instances, VolumeOrNone
      <3>2. volume[instance[k].volume] = "there"
        BY <1>2, <2>1, <3>1 DEF AttachedThere
      <3> QED
        BY <1>4, <2>1, <3>1, <3>2
    <2>2. vm.volume # 0 => vm.volume \in Volumes
      BY <1>1 DEF ComputerTypes, Rows, VolumeOrNone
    <2>3. vm'.volume # 0 => volume'[vm'.volume] # "none"
      BY <1>4, <1>2, <2>2 DEF AttachedThere
    <2>4. \A x \in VmSlots : vmJob[x].volume # 0 => vmJob[x].volume \in Volumes
      BY <1>1 DEF ComputerTypes, JobRecords, VolumeOrNone
    <2>5. \A x \in VmSlots : x # w /\ vmJob'[x].volume # 0 => volume'[vmJob'[x].volume] # "none"
      BY <1>4, <1>2, <2>4 DEF AttachedThere, OthersKeep
    <2>6. vmJob'[w].volume # 0 => volume'[vmJob'[w].volume] # "none"
      BY <1>4 DEF NoVmJob
    <2> QED
      BY <2>1, <2>3, <2>5, <2>6 DEF AttachedThere
  <1>11. RowLeaves'
    BY <1>4, <1>3 DEF RowLeaves
  <1>12. InstanceLeaves'
    BY <1>4, <1>1, <1>3 DEF InstanceLeaves, Overtaken
  <1>13. FilesKept'
    BY <1>4, <1>1, <1>2, <1>3 DEF ComputerTypes, Rows, VolumeOrNone, FilesKept
  <1>14. RestoresApart'
    BY <1>4, <1>1, <1>3, <1>2
       DEF FilesKept, ComputerTypes, Rows, VolumeOrNone, Volumes, RestoresApart, RestoreTrue,
           Leaving, OthersKeep
  <1>15. RetryComes'
    BY <1>4, <1>1, <1>3 DEF RetryComes, Queued, OthersKeep
  <1>16. ASSUME AloneInv, overlapped' = {}
         PROVE  AloneInv'
    <2>1. /\ \A y, x \in VmSlots : y # x => vmJob[y].pc = "idle" \/ vmJob[x].pc = "idle"
          /\ \A x \in VmSlots : SetupTrue(vmJob[x])
          /\ RowNames /\ RunningNamed /\ TokenNamed /\ VolumesNamed /\ VolumeLeaves
      BY <1>16 DEF AloneInv
    <2>2. \A y, x \in VmSlots : y # x => vmJob'[y].pc = "idle" \/ vmJob'[x].pc = "idle"
      BY <1>4, <1>1, <1>3, <2>1 DEF OthersKeep
    <2>3. \A x \in VmSlots : SetupTrue(vmJob[x])'
      BY <1>4, <1>1, <1>3, <2>1
         DEF JobOk, ComputerTypes, Rows, VolumeOrNone, SetupTrue, Leaving, OthersKeep
    <2>4. RowNames'
      BY <1>4, <1>1, <1>3, <2>1 DEF JobOk, RowNames, OthersKeep
    <2>5. RunningNamed'
      BY <1>4, <1>1, <1>3, <2>1 DEF RunningNamed, Named, OthersKeep
    <2>6. TokenNamed'
      BY <1>4, <1>1, <1>3, <2>1 DEF TokenNamed
    <2>7. VolumesNamed'
      BY <1>4, <1>1, <1>3, <2>1 DEF JobOk, VolumesNamed, OthersKeep
    <2>8. VolumeLeaves'
      BY <1>4, <1>1, <1>3, <2>1 DEF RowLeaves, VolumeLeaves
    <2> QED
      BY <2>2, <2>3, <2>4, <2>5, <2>6, <2>7, <2>8 DEF AloneInv
  <1> QED
    BY <1>4, <1>5, <1>6, <1>7, <1>8, <1>9, <1>10, <1>11, <1>12, <1>13, <1>14, <1>15, <1>16
       DEF ComputerInv, JobsInv

LEMMA UseVolumeKeeps ==
    ASSUME ComputerInv, NEW w \in VmSlots, UseVolume(w)
    PROVE  ComputerInv'
  <1>1. ComputerTypes /\ (\A x \in VmSlots : JobOk(vmJob[x]))
    BY DEF ComputerInv, JobsInv
  <1>2. InOrder /\ TokensDiffer /\ LaunchesHidden /\ AttachedThere
    BY DEF ComputerInv, JobsInv
  <1>3. RowLeaves /\ InstanceLeaves /\ FilesKept /\ RestoresApart /\ RetryComes
    BY DEF ComputerInv, JobsInv
  <1>4. /\ vmJob[w].pc = "use" /\ OthersKeep(w) /\ vmJob'[w].pc = "row" /\ vmJob'[w].made = FALSE
        /\ vmJob'[w].kind = vmJob[w].kind /\ vmJob'[w].instance = vmJob[w].instance
        /\ vmJob'[w].token = vmJob[w].token /\ vmJob'[w].volume = vmJob[w].volume
        /\ vmJob'[w].retire = vmJob[w].retire
        /\ vm.state = "gone" => vm' = vm
        /\ vm.state # "gone" =>
              /\ vm' \in Rows /\ vm'.state = vm.state /\ vm'.instance = vm.instance
              /\ vm'.reg = vm.reg /\ vm'.token = vm.token /\ vm'.failures = vm.failures
              /\ vm'.volume = vmJob[w].volume
        /\ strayVolumes' = IF Overtaken THEN strayVolumes \cup StrayVolume(w) ELSE strayVolumes
        /\ UNCHANGED <<instance, volume, image, vmQueue, deletion, issued, vmStrays, overlapped,
                       gaveUp>>
    <2>1. PICK old \in JobRecords : old = vmJob[w]
      BY <1>1 DEF ComputerTypes
    <2>2. PICK new \in JobRecords : new = [old EXCEPT !.pc = "row", !.made = FALSE]
      BY DEF JobRecords, JobPoints
    <2>3. /\ new.pc = "row" /\ new.kind = old.kind /\ new.instance = old.instance
          /\ new.token = old.token /\ new.volume = old.volume /\ new.made = FALSE
          /\ new.retire = old.retire
      BY <2>2 DEF JobRecords
    <2>4. vmJob' = [vmJob EXCEPT ![w] = new]
      BY <2>1, <2>2 DEF UseVolume
    <2>5. OthersKeep(w) /\ vmJob'[w] = new
      BY <1>1, <2>4, PutJob
    <2>6. ASSUME vm.state # "gone"
          PROVE  /\ vm' \in Rows /\ vm'.state = vm.state /\ vm'.instance = vm.instance
                 /\ vm'.reg = vm.reg /\ vm'.token = vm.token /\ vm'.failures = vm.failures
                 /\ vm'.volume = vmJob[w].volume
      <3>1. PICK row \in Rows : row = vm
        BY <1>1 DEF ComputerTypes
      <3>2. PICK next \in Rows : next = [row EXCEPT !.volume = old.volume]
        BY DEF Rows, JobRecords
      <3>3. vm' = next
        BY <2>1, <2>6, <3>1, <3>2 DEF UseVolume
      <3> QED
        BY <2>1, <3>1, <3>2, <3>3 DEF Rows
    <2>7. /\ vmJob[w].pc = "use" /\ (vm.state = "gone" => vm' = vm)
          /\ strayVolumes' = IF Overtaken THEN strayVolumes \cup StrayVolume(w) ELSE strayVolumes
          /\ UNCHANGED <<instance, volume, image, vmQueue, deletion, issued, vmStrays, overlapped,
                         gaveUp>>
      BY DEF UseVolume
    <2> QED
      BY <2>1, <2>3, <2>5, <2>6, <2>7
  <1>5. ComputerTypes'
    BY <1>4, <1>1, StraysTyped DEF OthersKeep, ComputerTypes
  <1>6. \A x \in VmSlots : JobOk(vmJob[x])'
    BY <1>4, <1>1, <1>2 DEF JobOk, NoVmJob, ComputerTypes, JobRecords, OthersKeep
  <1>7. InOrder'
    BY <1>4, <1>1, <1>2 DEF InOrder, JobOk, ComputerTypes, Rows, LaunchOrNone
  <1>8. TokensDiffer'
    BY <1>4, <1>1, <1>2 DEF TokensDiffer, OthersKeep
  <1>9. LaunchesHidden'
    BY <1>4, <1>1, <1>2 DEF Hidden, LaunchesHidden, OthersKeep
  <1>10. AttachedThere'
    BY <1>4, <1>1, <1>2 DEF AttachedThere, JobOk, OthersKeep
  <1>11. RowLeaves'
    BY <1>4, <1>3 DEF RowLeaves
  <1>12. InstanceLeaves'
    BY <1>4, <1>1, <1>3 DEF InstanceLeaves, Overtaken
  <1>13. FilesKept'
    BY <1>4, <1>1, <1>2, <1>3 DEF JobOk, RestoresApart, RestoreTrue, Leaving, FilesKept
  <1>14. RestoresApart'
    BY <1>4, <1>1, <1>3 DEF JobOk, RestoresApart, RestoreTrue, Leaving, OthersKeep
  <1>15. RetryComes'
    BY <1>4, <1>1, <1>3 DEF RetryComes, Queued, OthersKeep
  <1>16. ASSUME AloneInv, overlapped' = {}
         PROVE  AloneInv'
    <2>1. /\ \A y, x \in VmSlots : y # x => vmJob[y].pc = "idle" \/ vmJob[x].pc = "idle"
          /\ \A x \in VmSlots : SetupTrue(vmJob[x])
          /\ RowNames /\ RunningNamed /\ TokenNamed /\ VolumesNamed /\ VolumeLeaves
      BY <1>16 DEF AloneInv
    <2>2. \A y, x \in VmSlots : y # x => vmJob'[y].pc = "idle" \/ vmJob'[x].pc = "idle"
      BY <1>4, <1>1, <1>3, <2>1 DEF OthersKeep
    <2>3. \A x \in VmSlots : SetupTrue(vmJob[x])'
      BY <1>4, <1>1, <1>3, <2>1 DEF SetupTrue, Leaving, OthersKeep
    <2>4. RowNames'
      BY <1>4, <1>1, <1>3, <2>1 DEF SetupTrue, RowNames, OthersKeep
    <2>5. RunningNamed'
      BY <1>4, <1>1, <1>3, <2>1 DEF RunningNamed, Named, OthersKeep
    <2>6. TokenNamed'
      BY <1>4, <1>1, <1>3, <2>1 DEF TokenNamed
    <2>7. VolumesNamed'
      BY <1>4, <1>1, <1>3, <2>1
         DEF JobOk, SetupTrue, StrayVolume, Overtaken, RowLeaves, VolumesNamed, OthersKeep
    <2>8. VolumeLeaves'
      BY <1>4, <1>1, <1>3, <2>1
         DEF JobOk, StrayVolume, Overtaken, ComputerTypes, JobRecords, VolumeOrNone, VolumeLeaves
    <2> QED
      BY <2>2, <2>3, <2>4, <2>5, <2>6, <2>7, <2>8 DEF AloneInv
  <1> QED
    BY <1>4, <1>5, <1>6, <1>7, <1>8, <1>9, <1>10, <1>11, <1>12, <1>13, <1>14, <1>15, <1>16
       DEF ComputerInv, JobsInv

LEMMA FindVolumeKeeps ==
    ASSUME ComputerInv, NEW w \in VmSlots, FindVolume(w)
    PROVE  ComputerInv'
  <1>1. ComputerTypes /\ (\A x \in VmSlots : JobOk(vmJob[x]))
    BY DEF ComputerInv, JobsInv
  <1>2. InOrder /\ TokensDiffer /\ LaunchesHidden /\ AttachedThere
    BY DEF ComputerInv, JobsInv
  <1>3. RowLeaves /\ InstanceLeaves /\ FilesKept /\ RestoresApart /\ RetryComes
    BY DEF ComputerInv, JobsInv
  <1>4. PICK disk \in Volumes :
           /\ vmJob[w].pc = "volume" /\ OthersKeep(w) /\ vmJob'[w].pc = "launch"
           /\ vmJob'[w].kind = vmJob[w].kind /\ vmJob'[w].instance = vmJob[w].instance
           /\ vmJob'[w].token = vmJob[w].token /\ vmJob'[w].volume = disk
           /\ vmJob'[w].retire = vmJob[w].retire
           /\ vm.state = "gone" \/ vm.volume = disk \/ vm.volume = 0
           /\ volume' \in [Volumes -> {"none", "there", "gone"}] /\ volume'[disk] = "there"
           /\ \A v \in Volumes : v # disk => volume'[v] = volume[v]
           /\ vmJob'[w].made => volume[disk] = "none"
           /\ ~vmJob'[w].made => volume[disk] = "there"
           /\ UNCHANGED <<vm, instance, image, vmQueue, deletion, issued, vmStrays, strayVolumes,
                          overlapped, gaveUp>>
    <2>1. PICK old \in JobRecords : old = vmJob[w]
      BY <1>1 DEF ComputerTypes
    <2>2. PICK disk \in Volumes :
             /\ RowVolume \in {disk, 0}
             /\ \/ volume[disk] = "there" /\ UNCHANGED volume
                \/ volume[disk] = "none" /\ volume' = [volume EXCEPT ![disk] = "there"]
             /\ vmJob' = [vmJob EXCEPT ![w] = [old EXCEPT !.pc = "launch", !.volume = disk,
                                                       !.made = (volume[disk] = "none")]]
      BY <2>1 DEF FindVolume
    <2>3. PICK made \in BOOLEAN : made = (volume[disk] = "none")
      OBVIOUS
    <2>4. PICK new \in JobRecords : new = [old EXCEPT !.pc = "launch", !.volume = disk,
                                                      !.made = made]
      BY DEF JobRecords, JobPoints, VolumeOrNone
    <2>5. /\ new.pc = "launch" /\ new.kind = old.kind /\ new.instance = old.instance
          /\ new.token = old.token /\ new.volume = disk /\ new.made = made
          /\ new.retire = old.retire
      BY <2>4 DEF JobRecords
    <2>6. OthersKeep(w) /\ vmJob'[w] = new
      BY <1>1, <2>2, <2>3, <2>4, PutJob
    <2>7. /\ volume' \in [Volumes -> {"none", "there", "gone"}] /\ volume'[disk] = "there"
          /\ \A v \in Volumes : v # disk => volume'[v] = volume[v]
      BY <1>1, <2>2 DEF ComputerTypes
    <2>8. vm.state = "gone" \/ vm.volume = disk \/ vm.volume = 0
      BY <2>2 DEF RowVolume
    <2>9. /\ vmJob[w].pc = "volume"
          /\ UNCHANGED <<vm, instance, image, vmQueue, deletion, issued, vmStrays, strayVolumes,
                         overlapped, gaveUp>>
      BY DEF FindVolume
    <2>10. (made => volume[disk] = "none") /\ (~made => volume[disk] = "there")
      BY <2>2, <2>3
    <2> QED
      BY <2>1, <2>5, <2>6, <2>7, <2>8, <2>9, <2>10
  <1>5. ComputerTypes'
    BY <1>4, <1>1 DEF OthersKeep, ComputerTypes
  <1>6. \A x \in VmSlots : JobOk(vmJob[x])'
    BY <1>4, <1>1, <1>2 DEF Volumes, JobOk, NoVmJob, ComputerTypes, JobRecords, OthersKeep
  <1>7. InOrder'
    BY <1>4, <1>1, <1>2 DEF InOrder, JobOk, ComputerTypes, Rows, LaunchOrNone
  <1>8. TokensDiffer'
    BY <1>4, <1>1, <1>2 DEF TokensDiffer, OthersKeep
  <1>9. LaunchesHidden'
    BY <1>4, <1>1, <1>2 DEF Hidden, LaunchesHidden, OthersKeep
  <1>10. AttachedThere'
    BY <1>4, <1>1, <1>2
       DEF ComputerTypes, Instances, Rows, VolumeOrNone, JobRecords, AttachedThere, JobOk,
           OthersKeep
  <1>11. RowLeaves'
    BY <1>4, <1>3 DEF RowLeaves
  <1>12. InstanceLeaves'
    BY <1>4, <1>1, <1>3 DEF InstanceLeaves, Overtaken
  <1>13. FilesKept'
    BY <1>4, <1>1, <1>2, <1>3 DEF ComputerTypes, Rows, VolumeOrNone, FilesKept
  <1>14. RestoresApart'
    BY <1>4, <1>1, <1>3 DEF JobOk, Volumes, RestoresApart, RestoreTrue, Leaving, OthersKeep
  <1>15. RetryComes'
    BY <1>4, <1>1, <1>3 DEF RetryComes, Queued, OthersKeep
  <1>16. ASSUME AloneInv, overlapped' = {}
         PROVE  AloneInv'
    <2>1. /\ \A y, x \in VmSlots : y # x => vmJob[y].pc = "idle" \/ vmJob[x].pc = "idle"
          /\ \A x \in VmSlots : SetupTrue(vmJob[x])
          /\ RowNames /\ RunningNamed /\ TokenNamed /\ VolumesNamed /\ VolumeLeaves
      BY <1>16 DEF AloneInv
    <2>2. \A y, x \in VmSlots : y # x => vmJob'[y].pc = "idle" \/ vmJob'[x].pc = "idle"
      BY <1>4, <1>1, <1>3, <2>1 DEF OthersKeep
    <2>3. \A x \in VmSlots : SetupTrue(vmJob[x])'
      BY <1>4, <1>1, <1>3, <2>1 DEF JobOk, VolumesNamed, NoVmJob, SetupTrue, Leaving, OthersKeep
    <2>4. RowNames'
      BY <1>4, <1>1, <1>3, <2>1 DEF RowNames, OthersKeep
    <2>5. RunningNamed'
      BY <1>4, <1>1, <1>3, <2>1 DEF RunningNamed, Named, OthersKeep
    <2>6. TokenNamed'
      BY <1>4, <1>1, <1>3, <2>1 DEF TokenNamed
    <2>7. VolumesNamed'
      BY <1>4, <1>1, <1>3, <2>1 DEF JobOk, VolumesNamed, OthersKeep
    <2>8. VolumeLeaves'
      BY <1>4, <1>1, <1>3, <2>1, <1>2
         DEF AttachedThere, ComputerTypes, Rows, VolumeOrNone, VolumeLeaves
    <2> QED
      BY <2>2, <2>3, <2>4, <2>5, <2>6, <2>7, <2>8 DEF AloneInv
  <1> QED
    BY <1>4, <1>5, <1>6, <1>7, <1>8, <1>9, <1>10, <1>11, <1>12, <1>13, <1>14, <1>15, <1>16
       DEF ComputerInv, JobsInv

LEMMA ProvisionedKeeps ==
    ASSUME ComputerInv, NEW w \in VmSlots, Provisioned(w)
    PROVE  ComputerInv'
  <1>1. ComputerTypes /\ (\A x \in VmSlots : JobOk(vmJob[x]))
    BY DEF ComputerInv, JobsInv
  <1>2. InOrder /\ TokensDiffer /\ LaunchesHidden /\ AttachedThere
    BY DEF ComputerInv, JobsInv
  <1>3. RowLeaves /\ InstanceLeaves /\ FilesKept /\ RestoresApart /\ RetryComes
    BY DEF ComputerInv, JobsInv
  <1>4. /\ vmJob[w].pc = "provisioned" /\ OthersKeep(w) /\ vmJob'[w].pc \in {"idle", "retire"}
        /\ vmJob'[w].pc = "idle" => vmJob'[w] = NoVmJob /\ vmJob[w].retire = 0
        /\ vmJob'[w].pc = "retire" =>
              /\ vmJob[w].retire # 0
              /\ vmJob'[w].kind = vmJob[w].kind /\ vmJob'[w].instance = vmJob[w].instance
              /\ vmJob'[w].token = vmJob[w].token /\ vmJob'[w].volume = vmJob[w].volume
              /\ vmJob'[w].made = vmJob[w].made /\ vmJob'[w].retire = vmJob[w].retire
        /\ vm.state = "provisioning"
        /\ vm' \in Rows /\ vm'.instance = vm.instance /\ vm'.volume = vm.volume
        /\ vm'.reg = vm.reg /\ vm'.token = vm.token /\ vm'.state = "registering"
        /\ UNCHANGED <<instance, volume, image, vmQueue, deletion, issued, vmStrays, strayVolumes,
                       overlapped, gaveUp>>
    <2>1. vm' = [vm EXCEPT !.state = "registering"] /\ vm \in Rows
      BY <1>1 DEF Provisioned, ComputerTypes
    <2>2. "registering" \in VmStates
      BY DEF VmStates
    <2>3. /\ vm' \in Rows /\ vm'.instance = vm.instance /\ vm'.volume = vm.volume
          /\ vm'.reg = vm.reg /\ vm'.token = vm.token /\ vm'.state = "registering"
      BY <2>1, <2>2, StateSet
    <2>4. PICK old \in JobRecords : old = vmJob[w]
      BY <1>1 DEF ComputerTypes
    <2>5. PICK more \in JobRecords : more = [old EXCEPT !.pc = "retire"]
      BY DEF JobRecords, JobPoints
    <2>6. /\ more.pc = "retire" /\ more.kind = old.kind /\ more.instance = old.instance
          /\ more.token = old.token /\ more.volume = old.volume /\ more.made = old.made
          /\ more.retire = old.retire
      BY <2>5 DEF JobRecords
    <2>7. /\ vmJob[w].pc = "provisioned" /\ vm.state = "provisioning"
          /\ UNCHANGED <<instance, volume, image, vmQueue, deletion, issued, vmStrays, strayVolumes,
                         overlapped, gaveUp>>
      BY DEF Provisioned, Legal
    <2>8. CASE old.retire = 0
      <3>1. vmJob' = [vmJob EXCEPT ![w] = NoVmJob]
        BY <2>4, <2>8 DEF Provisioned
      <3>2. OthersKeep(w) /\ vmJob'[w] = NoVmJob
        BY <1>1, <3>1, EndDoes
      <3> QED
        BY <2>3, <2>4, <2>7, <2>8, <3>2 DEF NoVmJob
    <2>9. CASE old.retire # 0
      <3>1. vmJob' = [vmJob EXCEPT ![w] = more]
        BY <2>4, <2>5, <2>9 DEF Provisioned
      <3>2. OthersKeep(w) /\ vmJob'[w] = more
        BY <1>1, <3>1, PutJob
      <3> QED
        BY <2>3, <2>4, <2>6, <2>7, <2>9, <3>2
    <2> QED
      BY <2>8, <2>9
  <1>5. ComputerTypes'
    BY <1>4, <1>1 DEF OthersKeep, ComputerTypes
  <1>6. \A x \in VmSlots : JobOk(vmJob[x])'
    BY <1>4, <1>1, <1>2 DEF NoVmJob, JobOk, ComputerTypes, JobRecords, OthersKeep
  <1>7. InOrder'
    BY <1>4, <1>1, <1>2 DEF InOrder, JobOk, ComputerTypes, Rows, LaunchOrNone
  <1>8. TokensDiffer'
    BY <1>4, <1>1, <1>2 DEF NoVmJob, TokensDiffer, OthersKeep
  <1>9. LaunchesHidden'
    BY <1>4, <1>1, <1>2 DEF Hidden, NoVmJob, JobOk, LaunchesHidden, OthersKeep
  <1>10. AttachedThere'
    BY <1>4, <1>1, <1>2 DEF NoVmJob, AttachedThere, JobOk, OthersKeep
  <1>11. RowLeaves'
    BY <1>4, <1>3 DEF RowLeaves
  <1>12. InstanceLeaves'
    BY <1>4, <1>1, <1>3 DEF InstanceLeaves, Overtaken
  <1>13. FilesKept'
    BY <1>4, <1>1, <1>2, <1>3 DEF FilesKept
  <1>14. RestoresApart'
    BY <1>4, <1>1, <1>3 DEF NoVmJob, RestoresApart, RestoreTrue, Leaving, OthersKeep
  <1>15. RetryComes'
    BY <1>4, <1>1, <1>3 DEF RetryComes, Queued, OthersKeep
  <1>16. ASSUME AloneInv, overlapped' = {}
         PROVE  AloneInv'
    <2>1. /\ \A y, x \in VmSlots : y # x => vmJob[y].pc = "idle" \/ vmJob[x].pc = "idle"
          /\ \A x \in VmSlots : SetupTrue(vmJob[x])
          /\ RowNames /\ RunningNamed /\ TokenNamed /\ VolumesNamed /\ VolumeLeaves
      BY <1>16 DEF AloneInv
    <2>2. \A y, x \in VmSlots : y # x => vmJob'[y].pc = "idle" \/ vmJob'[x].pc = "idle"
      BY <1>4, <1>1, <1>3, <2>1 DEF OthersKeep
    <2>3. \A x \in VmSlots : SetupTrue(vmJob[x])'
      BY <1>4, <1>1, <1>3, <2>1 DEF NoVmJob, JobOk, SetupTrue, Leaving, OthersKeep
    <2>4. RowNames'
      BY <1>4, <1>1, <1>3, <2>1 DEF NoVmJob, SetupTrue, JobOk, Leaving, RowNames, OthersKeep
    <2>5. RunningNamed'
      BY <1>4, <1>1, <1>3, <2>1 DEF NoVmJob, RunningNamed, Named, OthersKeep
    <2>6. TokenNamed'
      BY <1>4, <1>1, <1>3, <2>1 DEF NoVmJob, TokenNamed
    <2>7. VolumesNamed'
      BY <1>4, <1>1, <1>3, <2>1 DEF NoVmJob, JobOk, VolumesNamed, OthersKeep
    <2>8. VolumeLeaves'
      BY <1>4, <1>1, <1>3, <2>1 DEF VolumeLeaves
    <2> QED
      BY <2>2, <2>3, <2>4, <2>5, <2>6, <2>7, <2>8 DEF AloneInv
  <1> QED
    BY <1>4, <1>5, <1>6, <1>7, <1>8, <1>9, <1>10, <1>11, <1>12, <1>13, <1>14, <1>15, <1>16
       DEF ComputerInv, JobsInv

LEMMA RetireVolumeKeeps ==
    ASSUME ComputerInv, NEW w \in VmSlots, RetireVolume(w)
    PROVE  ComputerInv'
  <1>1. ComputerTypes /\ (\A x \in VmSlots : JobOk(vmJob[x]))
    BY DEF ComputerInv, JobsInv
  <1>2. InOrder /\ TokensDiffer /\ LaunchesHidden /\ AttachedThere
    BY DEF ComputerInv, JobsInv
  <1>3. RowLeaves /\ InstanceLeaves /\ FilesKept /\ RestoresApart /\ RetryComes
    BY DEF ComputerInv, JobsInv
  <1>4. PICK disk \in Volumes :
           /\ vmJob[w].pc = "retire" /\ vmJob[w].retire = disk
           /\ OthersKeep(w) /\ vmJob'[w] = NoVmJob
           /\ volume[disk] = "gone" \/ Holds(disk) = {}
           /\ volume' \in [Volumes -> {"none", "there", "gone"}] /\ volume'[disk] = "gone"
           /\ \A v \in Volumes : v # disk => volume'[v] = volume[v]
           /\ UNCHANGED <<vm, instance, image, vmQueue, deletion, issued, vmStrays, strayVolumes,
                          overlapped, gaveUp>>
    <2>1. PICK disk \in Volumes : disk = vmJob[w].retire
      BY <1>1 DEF RetireVolume, ComputerTypes, JobOk, JobRecords, VolumeOrNone
    <2>2. /\ vmJob[w].pc = "retire" /\ volume' = [volume EXCEPT ![disk] = "gone"]
          /\ volume[disk] = "gone" \/ Holds(disk) = {}
          /\ vmJob' = [vmJob EXCEPT ![w] = NoVmJob]
          /\ UNCHANGED <<vm, instance, image, vmQueue, deletion, issued, vmStrays, strayVolumes,
                         overlapped, gaveUp>>
      BY <2>1 DEF RetireVolume, Available
    <2>3. OthersKeep(w) /\ vmJob'[w] = NoVmJob
      BY <1>1, <2>2, EndDoes
    <2>4. /\ volume' \in [Volumes -> {"none", "there", "gone"}] /\ volume'[disk] = "gone"
          /\ \A v \in Volumes : v # disk => volume'[v] = volume[v]
      BY <1>1, <2>2 DEF ComputerTypes
    <2> QED
      BY <2>1, <2>2, <2>3, <2>4
  <1>5. ComputerTypes'
    BY <1>4, <1>1 DEF OthersKeep, ComputerTypes
  <1>6. \A x \in VmSlots : JobOk(vmJob[x])'
    BY <1>4, <1>1, <1>2 DEF NoVmJob, JobOk, ComputerTypes, JobRecords, OthersKeep
  <1>7. InOrder'
    BY <1>4, <1>1, <1>2 DEF InOrder, JobOk, ComputerTypes, Rows, LaunchOrNone
  <1>8. TokensDiffer'
    BY <1>4, <1>1, <1>2 DEF NoVmJob, TokensDiffer, OthersKeep
  <1>9. LaunchesHidden'
    BY <1>4, <1>1, <1>2 DEF Hidden, NoVmJob, JobOk, LaunchesHidden, OthersKeep
  <1>10. AttachedThere'
    <2>1. ASSUME NEW k \in Launches, instance'[k].status \in {"running", "dying"},
                 instance'[k].volume # 0
          PROVE  volume'[instance'[k].volume] = "there"
      <3>1. instance'[k] = instance[k] /\ instance[k].volume \in Volumes
        BY <1>4, <1>1, <2>1 DEF ComputerTypes, Instances, VolumeOrNone
      <3>2. volume[instance[k].volume] = "there"
        BY <1>2, <2>1, <3>1 DEF AttachedThere
      <3> QED
        BY <1>4, <2>1, <3>1, <3>2 DEF Holds
    <2>2. vm.volume # 0 => vm.volume \in Volumes
      BY <1>1 DEF ComputerTypes, Rows, VolumeOrNone
    <2>3. vm'.volume # 0 => volume'[vm'.volume] # "none"
      BY <1>4, <1>2, <2>2 DEF AttachedThere
    <2>4. \A x \in VmSlots : vmJob[x].volume # 0 => vmJob[x].volume \in Volumes
      BY <1>1 DEF ComputerTypes, JobRecords, VolumeOrNone
    <2>5. \A x \in VmSlots : x # w /\ vmJob'[x].volume # 0 => volume'[vmJob'[x].volume] # "none"
      BY <1>4, <1>2, <2>4 DEF AttachedThere, OthersKeep
    <2>6. vmJob'[w].volume # 0 => volume'[vmJob'[w].volume] # "none"
      BY <1>4 DEF NoVmJob
    <2> QED
      BY <2>1, <2>3, <2>5, <2>6 DEF AttachedThere
  <1>11. RowLeaves'
    BY <1>4, <1>3 DEF RowLeaves
  <1>12. InstanceLeaves'
    BY <1>4, <1>1, <1>3 DEF InstanceLeaves, Overtaken
  <1>13. FilesKept'
    BY <1>4, <1>1, <1>2, <1>3
       DEF JobOk, RestoresApart, RestoreTrue, Leaving, ComputerTypes, Rows, VolumeOrNone,
           FilesKept
  <1>14. RestoresApart'
    BY <1>4, <1>1, <1>3 DEF NoVmJob, JobOk, RestoresApart, RestoreTrue, Leaving, OthersKeep
  <1>15. RetryComes'
    BY <1>4, <1>1, <1>3 DEF NoVmJob, RetryComes, Queued, OthersKeep
  <1>16. ASSUME AloneInv, overlapped' = {}
         PROVE  AloneInv'
    <2>1. /\ \A y, x \in VmSlots : y # x => vmJob[y].pc = "idle" \/ vmJob[x].pc = "idle"
          /\ \A x \in VmSlots : SetupTrue(vmJob[x])
          /\ RowNames /\ RunningNamed /\ TokenNamed /\ VolumesNamed /\ VolumeLeaves
      BY <1>16 DEF AloneInv
    <2>2. \A y, x \in VmSlots : y # x => vmJob'[y].pc = "idle" \/ vmJob'[x].pc = "idle"
      BY <1>4, <1>1, <1>3, <2>1 DEF OthersKeep
    <2>3. \A x \in VmSlots : SetupTrue(vmJob[x])'
      BY <1>4, <1>1, <1>3, <2>1 DEF NoVmJob, JobOk, SetupTrue, Leaving, OthersKeep
    <2>4. RowNames'
      BY <1>4, <1>1, <1>3, <2>1, <1>2
         DEF NoVmJob, AttachedThere, Holds, ComputerTypes, Rows, LaunchOrNone, RowNames,
             OthersKeep
    <2>5. RunningNamed'
      BY <1>4, <1>1, <1>3, <2>1 DEF NoVmJob, RunningNamed, Named, OthersKeep
    <2>6. TokenNamed'
      BY <1>4, <1>1, <1>3, <2>1 DEF TokenNamed
    <2>7. VolumesNamed'
      BY <1>4, <1>1, <1>3, <2>1 DEF NoVmJob, JobOk, VolumesNamed, OthersKeep
    <2>8. VolumeLeaves'
      BY <1>4, <1>1, <1>3, <2>1 DEF ComputerTypes, Rows, VolumeOrNone, VolumeLeaves
    <2> QED
      BY <2>2, <2>3, <2>4, <2>5, <2>6, <2>7, <2>8 DEF AloneInv
  <1> QED
    BY <1>4, <1>5, <1>6, <1>7, <1>8, <1>9, <1>10, <1>11, <1>12, <1>13, <1>14, <1>15, <1>16
       DEF ComputerInv, JobsInv

-----------------------------------------------------------------------------
(* A job begins, ends or is queued.                                        *)

LEMMA JobBeginsKeeps ==
    ASSUME ComputerInv, NEW w \in VmSlots, vmJob[w] = NoVmJob, NEW q \in vmQueue,
           vmQueue' = vmQueue \ {q}, overlapped' = overlapped \cup Beside(q.kind),
           vmJob' = [vmJob EXCEPT ![w] =
               [NoVmJob EXCEPT !.kind = q.kind, !.attempt = q.attempt + 1,
                  !.replace = q.kind # "provision",
                  !.pc = IF q.kind = "restore" THEN "restore" ELSE "row"]],
           UNCHANGED <<vm, instance, volume, image, deletion, issued, vmStrays, strayVolumes,
                       gaveUp>>
    PROVE  ComputerInv'
  <1>1. ComputerTypes /\ (\A x \in VmSlots : JobOk(vmJob[x]))
    BY DEF ComputerInv, JobsInv
  <1>2. InOrder /\ TokensDiffer /\ LaunchesHidden /\ AttachedThere
    BY DEF ComputerInv, JobsInv
  <1>3. RowLeaves /\ InstanceLeaves /\ FilesKept /\ RestoresApart /\ RetryComes
    BY DEF ComputerInv, JobsInv
  <1>4. /\ q.kind \in Kinds /\ OthersKeep(w) /\ vmQueue' \subseteq vmQueue
        /\ vmJob'[w].pc = IF q.kind = "restore" THEN "restore" ELSE "row"
        /\ vmJob'[w].kind = q.kind /\ vmJob'[w].instance = 0 /\ vmJob'[w].token = 0
        /\ vmJob'[w].volume = 0 /\ vmJob'[w].made = FALSE /\ vmJob'[w].retire = 0
        /\ vmJob[w].pc = "idle" /\ overlapped \subseteq overlapped' /\ overlapped' \subseteq Kinds
        /\ \A x \in VmSlots : vmJob[x].pc # "idle" =>
              vmJob[x].kind \in Kinds /\ vmJob[x].kind \in overlapped' /\ q.kind \in overlapped'
    <2>1. PICK kind \in Kinds : kind = q.kind
      BY <1>1 DEF ComputerTypes
    <2>2. q.attempt \in 0 .. ProvisionAttempts
      BY <1>1 DEF ComputerTypes
    <2>3. PICK made \in Nat : made = q.attempt + 1
      BY <2>2
    <2>4. PICK pc \in {"restore", "row"} : pc = IF kind = "restore" THEN "restore" ELSE "row"
      OBVIOUS
    <2>5. PICK replace \in BOOLEAN : replace = (kind # "provision")
      OBVIOUS
    <2>6. PICK none \in JobRecords : none = NoVmJob
      BY DEF NoVmJob, JobRecords, JobPoints, LaunchOrNone, VolumeOrNone
    <2>7. PICK new \in JobRecords : new = [none EXCEPT !.kind = kind, !.attempt = made,
                                                      !.replace = replace, !.pc = pc]
      BY DEF JobRecords, JobPoints
    <2>8. /\ new.pc = pc /\ new.kind = kind /\ new.instance = none.instance
          /\ new.token = none.token /\ new.volume = none.volume /\ new.made = none.made
          /\ new.retire = none.retire
      BY <2>7 DEF JobRecords
    <2>9. vmJob' = [vmJob EXCEPT ![w] = new]
      BY <2>1, <2>3, <2>4, <2>5, <2>6, <2>7
    <2>10. OthersKeep(w) /\ vmJob'[w] = new
      BY <1>1, <2>9, PutJob
    <2>11. /\ none.pc = "idle" /\ none.instance = 0 /\ none.token = 0 /\ none.volume = 0
           /\ none.made = FALSE /\ none.retire = 0
      BY <2>6 DEF NoVmJob
    <2>12. ASSUME NEW x \in VmSlots, vmJob[x].pc # "idle"
           PROVE  vmJob[x].kind \in Kinds /\ vmJob[x].kind \in overlapped' /\ q.kind \in overlapped'
      <3>1. x \in Working /\ vmJob[x].kind \in Kinds
        BY <1>1, <2>6, <2>11, <2>12 DEF Working, JobOk
      <3> QED
        BY <3>1 DEF Beside
    <2>13. \A x \in Working : vmJob[x].kind \in Kinds
      BY <1>1, <2>6, <2>11 DEF Working, JobOk
    <2>14. overlapped \subseteq overlapped' /\ overlapped' \subseteq Kinds
      BY <1>1, <2>1, <2>13 DEF ComputerTypes, Beside
    <2> QED
      BY <2>1, <2>4, <2>6, <2>8, <2>10, <2>11, <2>12, <2>14
  <1>5. ComputerTypes'
    BY <1>4, <1>1 DEF OthersKeep, ComputerTypes
  <1>6. \A x \in VmSlots : JobOk(vmJob[x])'
    BY <1>4, <1>1, <1>2 DEF JobOk, NoVmJob, ComputerTypes, JobRecords, OthersKeep
  <1>7. InOrder'
    BY <1>4, <1>1, <1>2 DEF InOrder, JobOk, ComputerTypes, Rows, LaunchOrNone
  <1>8. TokensDiffer'
    BY <1>4, <1>1, <1>2 DEF TokensDiffer, OthersKeep
  <1>9. LaunchesHidden'
    BY <1>4, <1>1, <1>2 DEF Hidden, JobOk, LaunchesHidden, OthersKeep
  <1>10. AttachedThere'
    BY <1>4, <1>1, <1>2 DEF AttachedThere, JobOk, OthersKeep
  <1>11. RowLeaves'
    BY <1>4, <1>3 DEF RowLeaves
  <1>12. InstanceLeaves'
    BY <1>4, <1>1, <1>3 DEF InstanceLeaves, Overtaken
  <1>13. FilesKept'
    BY <1>4, <1>1, <1>2, <1>3 DEF FilesKept
  <1>14. RestoresApart'
    <2>1. SUFFICES ASSUME "restore" \notin overlapped', NEW x \in VmSlots, vmJob'[x].kind = "restore"
                   PROVE  /\ RestoreTrue(vmJob[x])'
                          /\ \A y \in VmSlots : y # x => vmJob'[y].pc = "idle"
      BY DEF RestoresApart
    <2>2. \A y \in VmSlots : vmJob[y].pc = "idle" => vmJob[y].kind = "none"
      BY <1>1 DEF JobOk, NoVmJob
    <2>3. x = w
      BY <1>4, <2>1, <2>2 DEF OthersKeep
    <2>4. \A y \in VmSlots : y # x => vmJob'[y].pc = "idle"
      BY <1>4, <2>1, <2>3 DEF OthersKeep
    <2> QED
      BY <1>4, <2>1, <2>3, <2>4 DEF RestoreTrue
  <1>15. RetryComes'
    BY <1>4, <1>1, <1>3 DEF OthersKeep, RetryComes, Queued
  <1>16. ASSUME AloneInv, overlapped' = {}
         PROVE  AloneInv'
    <2>1. /\ \A y, x \in VmSlots : y # x => vmJob[y].pc = "idle" \/ vmJob[x].pc = "idle"
          /\ \A x \in VmSlots : SetupTrue(vmJob[x])
          /\ RowNames /\ RunningNamed /\ TokenNamed /\ VolumesNamed /\ VolumeLeaves
      BY <1>16 DEF AloneInv
    <2>2. \A y, x \in VmSlots : y # x => vmJob'[y].pc = "idle" \/ vmJob'[x].pc = "idle"
      BY <1>4, <1>1, <1>3, <2>1, <1>16 DEF OthersKeep
    <2>3. \A x \in VmSlots : SetupTrue(vmJob[x])'
      BY <1>4, <1>1, <1>3, <2>1 DEF SetupTrue, Leaving, OthersKeep
    <2>4. RowNames'
      BY <1>4, <1>1, <1>3, <2>1 DEF NoVmJob, RowNames, OthersKeep
    <2>5. RunningNamed'
      BY <1>4, <1>1, <1>3, <2>1 DEF OthersKeep, RunningNamed, Named
    <2>6. TokenNamed'
      BY <1>4, <1>1, <1>3, <2>1 DEF TokenNamed
    <2>7. VolumesNamed'
      BY <1>4, <1>1, <1>3, <2>1 DEF NoVmJob, VolumesNamed, OthersKeep
    <2>8. VolumeLeaves'
      BY <1>4, <1>1, <1>3, <2>1 DEF VolumeLeaves
    <2> QED
      BY <2>2, <2>3, <2>4, <2>5, <2>6, <2>7, <2>8 DEF AloneInv
  <1> QED
    BY <1>4, <1>5, <1>6, <1>7, <1>8, <1>9, <1>10, <1>11, <1>12, <1>13, <1>14, <1>15, <1>16
       DEF ComputerInv, JobsInv

LEMMA JobEndsKeeps ==
    ASSUME ComputerInv, NEW w \in VmSlots, vmJob[w] # NoVmJob, Unrecorded(w),
           vmJob' = [vmJob EXCEPT ![w] = NoVmJob],
           UNCHANGED <<instance, volume, image, deletion, issued, overlapped>>,
           \/ vm' = vm
           \/ /\ vm.state \in {"provisioning", "registering"} /\ vm' \in Rows /\ vm'.state = "failed"
              /\ vm'.instance = vm.instance /\ vm'.volume = vm.volume /\ vm'.reg = vm.reg
              /\ vm'.token = vm.token,
           vmQueue' \subseteq [kind : Kinds, attempt : 0 .. ProvisionAttempts],
           gaveUp' \in BOOLEAN, RetryComes'
    PROVE  ComputerInv'
  <1>1. ComputerTypes /\ (\A x \in VmSlots : JobOk(vmJob[x]))
    BY DEF ComputerInv, JobsInv
  <1>2. InOrder /\ TokensDiffer /\ LaunchesHidden /\ AttachedThere
    BY DEF ComputerInv, JobsInv
  <1>3. RowLeaves /\ InstanceLeaves /\ FilesKept /\ RestoresApart /\ RetryComes
    BY DEF ComputerInv, JobsInv
  <1>4. /\ vmJob[w].pc # "idle" /\ OthersKeep(w) /\ vmJob'[w] = NoVmJob
        /\ vmStrays \subseteq vmStrays' /\ vmStrays' \subseteq Launches
        /\ vmJob[w].pc \in {"attach", "record"} => Stray(w) \subseteq vmStrays'
        /\ strayVolumes' = strayVolumes \cup StrayVolume(w) /\ strayVolumes' \subseteq Volumes
        /\ vm'.instance = vm.instance /\ vm'.volume = vm.volume /\ vm'.reg = vm.reg /\ vm'.token = vm.token
        /\ \/ vm' = vm
           \/ vm.state \in {"provisioning", "registering"} /\ vm' \in Rows /\ vm'.state = "failed"
    <2>1. OthersKeep(w) /\ vmJob'[w] = NoVmJob
      BY <1>1, EndDoes
    <2>2. Stray(w) \subseteq Launches /\ StrayVolume(w) \subseteq Volumes
      BY <1>1, StraysTyped
    <2>3. vmJob[w].pc # "idle"
      BY <1>1 DEF JobOk
    <2>4. /\ vmStrays \subseteq vmStrays' /\ vmStrays' \subseteq Launches
          /\ vmJob[w].pc \in {"attach", "record"} => Stray(w) \subseteq vmStrays'
          /\ strayVolumes' = strayVolumes \cup StrayVolume(w) /\ strayVolumes' \subseteq Volumes
      BY <1>1, <2>2 DEF Unrecorded, ComputerTypes
    <2>5. /\ vm'.instance = vm.instance /\ vm'.volume = vm.volume /\ vm'.reg = vm.reg
          /\ vm'.token = vm.token
          /\ \/ vm' = vm
             \/ vm.state \in {"provisioning", "registering"} /\ vm' \in Rows /\ vm'.state = "failed"
      OBVIOUS
    <2> QED
      BY <2>1, <2>3, <2>4, <2>5
  <1>5. ComputerTypes'
    BY <1>4, <1>1 DEF OthersKeep, ComputerTypes
  <1>6. \A x \in VmSlots : JobOk(vmJob[x])'
    BY <1>4, <1>1, <1>2 DEF NoVmJob, JobOk, ComputerTypes, JobRecords, OthersKeep
  <1>7. InOrder'
    BY <1>4, <1>1, <1>2 DEF InOrder, JobOk, ComputerTypes, Rows, LaunchOrNone
  <1>8. TokensDiffer'
    BY <1>4, <1>1, <1>2 DEF NoVmJob, TokensDiffer, OthersKeep
  <1>9. LaunchesHidden'
    BY <1>4, <1>1, <1>2 DEF Hidden, NoVmJob, JobOk, LaunchesHidden, OthersKeep
  <1>10. AttachedThere'
    BY <1>4, <1>1, <1>2 DEF NoVmJob, AttachedThere, JobOk, OthersKeep
  <1>11. RowLeaves'
    BY <1>4, <1>3 DEF RowLeaves
  <1>12. InstanceLeaves'
    BY <1>4, <1>1, <1>3 DEF InstanceLeaves, Overtaken
  <1>13. FilesKept'
    BY <1>4, <1>1, <1>2, <1>3 DEF FilesKept
  <1>14. RestoresApart'
    BY <1>4, <1>1, <1>3 DEF NoVmJob, RestoresApart, RestoreTrue, Leaving, OthersKeep
  <1>15. RetryComes'
    OBVIOUS
  <1>16. ASSUME AloneInv, overlapped' = {}
         PROVE  AloneInv'
    <2>1. /\ \A y, x \in VmSlots : y # x => vmJob[y].pc = "idle" \/ vmJob[x].pc = "idle"
          /\ \A x \in VmSlots : SetupTrue(vmJob[x])
          /\ RowNames /\ RunningNamed /\ TokenNamed /\ VolumesNamed /\ VolumeLeaves
      BY <1>16 DEF AloneInv
    <2>2. \A y, x \in VmSlots : y # x => vmJob'[y].pc = "idle" \/ vmJob'[x].pc = "idle"
      BY <1>4, <1>1, <1>3, <2>1 DEF OthersKeep
    <2>3. \A x \in VmSlots : SetupTrue(vmJob[x])'
      BY <1>4, <1>1, <1>3, <2>1 DEF NoVmJob, JobOk, SetupTrue, Leaving, OthersKeep
    <2>4. RowNames'
      BY <1>4, <1>1, <1>3, <2>1
         DEF NoVmJob, StrayVolume, ComputerTypes, Rows, Instances, LaunchOrNone, VolumeOrNone,
             RowNames, OthersKeep
    <2>5. RunningNamed'
      <3>1. SUFFICES ASSUME NEW k \in Launches, instance[k].status = "running"
                     PROVE  /\ instance[k].auth # "no" => Named(k)'
                            /\ vm.token = k => Named(k)'
                            /\ \/ Named(k)'
                               \/ \E x \in VmSlots : vmJob'[x].token = k /\ vmJob'[x].pc \in {"attach", "record"}
        BY <1>4 DEF RunningNamed
      <3>2. Named(k) => Named(k)'
        BY <1>4 DEF Named
      <3>3. CASE vmJob[w].token = k /\ vmJob[w].pc \in {"attach", "record"}
        <4>1. k \in Stray(w)
          BY <3>1, <3>3 DEF Stray, Launches
        <4> QED
          BY <1>4, <2>1, <3>1, <3>2, <3>3, <4>1 DEF Named, RunningNamed
      <3>4. CASE ~(vmJob[w].token = k /\ vmJob[w].pc \in {"attach", "record"})
        BY <1>4, <2>1, <3>1, <3>2, <3>4 DEF RunningNamed, OthersKeep
      <3> QED
        BY <3>3, <3>4
    <2>6. TokenNamed'
      BY <1>4, <1>1, <1>3, <2>1 DEF TokenNamed
    <2>7. VolumesNamed'
      BY <1>4, <1>1, <1>3, <2>1 DEF NoVmJob, StrayVolume, JobOk, VolumesNamed, OthersKeep
    <2>8. VolumeLeaves'
      BY <1>4, <1>1, <1>3, <2>1 DEF VolumeLeaves
    <2> QED
      BY <2>2, <2>3, <2>4, <2>5, <2>6, <2>7, <2>8 DEF AloneInv
  <1> QED
    BY <1>4, <1>5, <1>6, <1>7, <1>8, <1>9, <1>10, <1>11, <1>12, <1>13, <1>14, <1>15, <1>16
       DEF ComputerInv, JobsInv

LEMMA QueueGrowsKeeps ==
    ASSUME ComputerInv, image' \in {"old", "new"},
           vmQueue' \subseteq [kind : Kinds, attempt : 0 .. ProvisionAttempts],
           Queued("provision") \/ Queued("replace") => Queued("provision")' \/ Queued("replace")',
           UNCHANGED <<vm, instance, volume, vmJob, deletion, issued, vmStrays, strayVolumes,
                       overlapped, gaveUp>>
    PROVE  ComputerInv'
  <1>1. ComputerTypes /\ (\A x \in VmSlots : JobOk(vmJob[x]))
    BY DEF ComputerInv, JobsInv
  <1>2. InOrder /\ TokensDiffer /\ LaunchesHidden /\ AttachedThere
    BY DEF ComputerInv, JobsInv
  <1>3. RowLeaves /\ InstanceLeaves /\ FilesKept /\ RestoresApart /\ RetryComes
    BY DEF ComputerInv, JobsInv
  <1>4. UNCHANGED <<vm, instance, volume, vmJob, deletion, issued, vmStrays, strayVolumes, overlapped, gaveUp>>
    OBVIOUS
  <1>5. ComputerTypes'
    BY <1>4, <1>1 DEF ComputerTypes
  <1>6. \A x \in VmSlots : JobOk(vmJob[x])'
    BY <1>4, <1>1, <1>2 DEF JobOk, NoVmJob, ComputerTypes, JobRecords
  <1>7. InOrder'
    BY <1>4, <1>1, <1>2 DEF InOrder, JobOk, ComputerTypes, Rows, LaunchOrNone
  <1>8. TokensDiffer'
    BY <1>4, <1>1, <1>2 DEF TokensDiffer
  <1>9. LaunchesHidden'
    BY <1>4, <1>1, <1>2 DEF Hidden, LaunchesHidden
  <1>10. AttachedThere'
    BY <1>4, <1>1, <1>2 DEF AttachedThere, JobOk
  <1>11. RowLeaves'
    BY <1>4, <1>3 DEF RowLeaves
  <1>12. InstanceLeaves'
    BY <1>4, <1>1, <1>3 DEF InstanceLeaves, Overtaken
  <1>13. FilesKept'
    BY <1>4, <1>1, <1>2, <1>3 DEF FilesKept
  <1>14. RestoresApart'
    BY <1>4, <1>1, <1>3 DEF RestoresApart, RestoreTrue, Leaving
  <1>15. RetryComes'
    BY <1>3 DEF RetryComes
  <1>16. ASSUME AloneInv, overlapped' = {}
         PROVE  AloneInv'
    <2>1. /\ \A y, x \in VmSlots : y # x => vmJob[y].pc = "idle" \/ vmJob[x].pc = "idle"
          /\ \A x \in VmSlots : SetupTrue(vmJob[x])
          /\ RowNames /\ RunningNamed /\ TokenNamed /\ VolumesNamed /\ VolumeLeaves
      BY <1>16 DEF AloneInv
    <2>2. \A y, x \in VmSlots : y # x => vmJob'[y].pc = "idle" \/ vmJob'[x].pc = "idle"
      BY <1>4, <1>1, <1>3, <2>1
    <2>3. \A x \in VmSlots : SetupTrue(vmJob[x])'
      BY <1>4, <1>1, <1>3, <2>1 DEF SetupTrue, Leaving
    <2>4. RowNames'
      BY <1>4, <1>1, <1>3, <2>1 DEF RowNames
    <2>5. RunningNamed'
      BY <1>4, <1>1, <1>3, <2>1 DEF RunningNamed, Named
    <2>6. TokenNamed'
      BY <1>4, <1>1, <1>3, <2>1 DEF TokenNamed
    <2>7. VolumesNamed'
      BY <1>4, <1>1, <1>3, <2>1 DEF VolumesNamed
    <2>8. VolumeLeaves'
      BY <1>4, <1>1, <1>3, <2>1 DEF VolumeLeaves
    <2> QED
      BY <2>2, <2>3, <2>4, <2>5, <2>6, <2>7, <2>8 DEF AloneInv
  <1> QED
    BY <1>4, <1>5, <1>6, <1>7, <1>8, <1>9, <1>10, <1>11, <1>12, <1>13, <1>14, <1>15, <1>16
       DEF ComputerInv, JobsInv

LEMMA StartVmJobKeeps ==
    ASSUME ComputerInv, NEW w \in VmSlots, StartVmJob(w)
    PROVE  ComputerInv'
  <1>1. PICK q \in vmQueue :
           /\ vmQueue' = vmQueue \ {q}
           /\ \/ /\ vmJob' = [vmJob EXCEPT ![w] =
                    [NoVmJob EXCEPT !.kind = q.kind, !.attempt = q.attempt + 1,
                       !.replace = q.kind # "provision",
                       !.pc = IF q.kind = "restore" THEN "restore" ELSE "row"]]
                 /\ overlapped' = overlapped \cup Beside(q.kind)
              \/ q.kind = "roll" /\ UNCHANGED <<vmJob, overlapped>>
    BY DEF StartVmJob
  <1>2. /\ vmJob[w] = NoVmJob
        /\ UNCHANGED <<vm, instance, volume, image, deletion, issued, vmStrays, strayVolumes, gaveUp>>
    BY DEF StartVmJob
  <1>3. CASE overlapped' = overlapped \cup Beside(q.kind) /\ vmJob' = [vmJob EXCEPT ![w] =
                    [NoVmJob EXCEPT !.kind = q.kind, !.attempt = q.attempt + 1,
                       !.replace = q.kind # "provision",
                       !.pc = IF q.kind = "restore" THEN "restore" ELSE "row"]]
    BY <1>1, <1>2, <1>3, JobBeginsKeeps
  <1>4. CASE q.kind = "roll" /\ UNCHANGED <<vmJob, overlapped>>
    <2>1. Queued("provision") \/ Queued("replace") => Queued("provision")' \/ Queued("replace")'
      BY <1>1, <1>4 DEF Queued
    <2>2. image' \in {"old", "new"} /\ vmQueue' \subseteq [kind : Kinds, attempt : 0 .. ProvisionAttempts]
      BY <1>1, <1>2 DEF ComputerInv, JobsInv, ComputerTypes
    <2> QED
      BY <1>2, <1>4, <2>1, <2>2, QueueGrowsKeeps
  <1> QED
    BY <1>1, <1>3, <1>4

LEMMA WithJobTyped ==
    ASSUME NEW queue \in SUBSET [kind : Kinds, attempt : 0 .. ProvisionAttempts], NEW kind \in Kinds
    PROVE  /\ WithJob(queue, kind) \subseteq [kind : Kinds, attempt : 0 .. ProvisionAttempts]
           /\ queue \subseteq WithJob(queue, kind)
           /\ kind = "provision" => \E q \in WithJob(queue, kind) : q.kind \in {"provision", "replace"}
  <1>1. 0 \in 0 .. ProvisionAttempts
    BY ComputerAssumption
  <1>2. [kind |-> kind, attempt |-> 0] \in [kind : Kinds, attempt : 0 .. ProvisionAttempts]
    BY <1>1
  <1>3. PICK made \in [kind : Kinds, attempt : 0 .. ProvisionAttempts] :
           made = [kind |-> kind, attempt |-> 0]
    BY <1>2
  <1>4. made.kind = kind
    BY <1>3
  <1>5. WithJob(queue, kind) = queue \/ WithJob(queue, kind) = queue \cup {made}
    BY <1>3 DEF WithJob
  <1>6. ASSUME kind = "provision"
        PROVE  \E q \in WithJob(queue, kind) : q.kind \in {"provision", "replace"}
    <2>1. WithJob(queue, kind) = IF \E q \in queue : q.kind \in {"provision", "replace"} THEN queue
                                 ELSE queue \cup {made}
      BY <1>3, <1>6 DEF WithJob
    <2> QED
      BY <1>4, <1>6, <2>1
  <1> QED
    BY <1>5, <1>6

LEMMA FailedSetupDoes ==
    ASSUME ComputerTypes, vm' = FailedSetup(vm, vmQueue)[1], vmQueue' = FailedSetup(vm, vmQueue)[2]
    PROVE  /\ vm' \in Rows /\ vm'.state = "failed" /\ vm'.instance = vm.instance
           /\ vm'.volume = vm.volume /\ vm'.reg = vm.reg /\ vm'.token = vm.token
           /\ vmQueue' \subseteq [kind : Kinds, attempt : 0 .. ProvisionAttempts]
           /\ RetryComes'
  <1>1. PICK row \in Rows : row = vm
    BY DEF ComputerTypes
  <1>2. PICK more \in Nat : more = row.failures + 1
    BY DEF Rows
  <1>3. PICK failed \in Rows : failed = [row EXCEPT !.state = "failed", !.failures = more]
    BY DEF Rows, VmStates
  <1>4. /\ failed.state = "failed" /\ failed.instance = row.instance /\ failed.volume = row.volume
        /\ failed.reg = row.reg /\ failed.token = row.token
    BY <1>3 DEF Rows
  <1>5. FailedSetup(vm, vmQueue) =
          <<failed, IF failed.failures <= AutoRetries THEN WithJob(vmQueue, "provision") ELSE vmQueue>>
    BY <1>1, <1>2, <1>3 DEF FailedSetup
  <1>6. vm' = failed
    BY <1>5
  <1>7. vmQueue' = IF failed.failures <= AutoRetries THEN WithJob(vmQueue, "provision") ELSE vmQueue
    BY <1>5
  <1>8. "provision" \in Kinds /\ vmQueue \subseteq [kind : Kinds, attempt : 0 .. ProvisionAttempts]
    BY DEF Kinds, ComputerTypes
  <1>9. RetryComes'
    <2>1. SUFFICES ASSUME failed.failures \in 1 .. AutoRetries
                   PROVE  Queued("provision")' \/ Queued("replace")'
      BY <1>6 DEF RetryComes
    <2>2. vmQueue' = WithJob(vmQueue, "provision")
      BY <1>7, <2>1, ComputerAssumption
    <2>3. \E q \in vmQueue' : q.kind \in {"provision", "replace"}
      BY <1>8, <2>2, WithJobTyped
    <2> QED
      BY <2>3 DEF Queued
  <1> QED
    BY <1>1, <1>4, <1>6, <1>7, <1>8, <1>9, WithJobTyped

LEMMA RequeuedDoes ==
    ASSUME ComputerTypes, NEW w \in VmSlots, ~LastAttempt(w), vmQueue' = Requeued(w)
    PROVE  /\ vmQueue' \subseteq [kind : Kinds, attempt : 0 .. ProvisionAttempts]
           /\ RetryComes'
  <1>1. PICK job \in JobRecords : job = vmJob[w]
    BY DEF ComputerTypes
  <1>2. job.kind \in {"provision", "replace"} /\ job.attempt \in 0 .. ProvisionAttempts
    BY <1>1, ComputerAssumption DEF LastAttempt, JobRecords
  <1>3. PICK again \in [kind : Kinds, attempt : 0 .. ProvisionAttempts] :
           again = [kind |-> job.kind, attempt |-> job.attempt]
    BY <1>2 DEF Kinds
  <1>4. again.kind = job.kind
    BY <1>3
  <1>5. vmQueue' = IF \E q \in vmQueue : q.kind \in {"provision", "replace"} THEN vmQueue
                   ELSE vmQueue \cup {again}
    BY <1>1, <1>3 DEF Requeued
  <1>6. \E q \in vmQueue' : q.kind \in {"provision", "replace"}
    BY <1>2, <1>4, <1>5
  <1>7. RetryComes'
    BY <1>6 DEF RetryComes, Queued
  <1> QED
    BY <1>5, <1>7 DEF ComputerTypes

LEMMA VmJobThrowsKeeps ==
    ASSUME ComputerInv, NEW w \in VmSlots, VmJobThrows(w)
    PROVE  ComputerInv'
  <1>1. ComputerTypes
    BY DEF ComputerInv, JobsInv
  <1>2. /\ vmJob[w] # NoVmJob /\ Unrecorded(w) /\ vmJob' = [vmJob EXCEPT ![w] = NoVmJob]
        /\ UNCHANGED <<instance, volume, image, deletion, issued, overlapped>>
    BY DEF VmJobThrows
  <1>3. \/ /\ vm.state \in {"provisioning", "registering"} /\ UNCHANGED gaveUp
           /\ vm' = FailedSetup(vm, vmQueue)[1] /\ vmQueue' = FailedSetup(vm, vmQueue)[2]
        \/ UNCHANGED <<vm, gaveUp>> /\ ~LastAttempt(w) /\ vmQueue' = Requeued(w)
        \/ UNCHANGED <<vm, vmQueue>> /\ gaveUp' = TRUE
    BY DEF VmJobThrows
  <1>4. gaveUp \in BOOLEAN /\ vmQueue \subseteq [kind : Kinds, attempt : 0 .. ProvisionAttempts]
    BY <1>1 DEF ComputerTypes
  <1>5. CASE /\ vm.state \in {"provisioning", "registering"} /\ UNCHANGED gaveUp
             /\ vm' = FailedSetup(vm, vmQueue)[1] /\ vmQueue' = FailedSetup(vm, vmQueue)[2]
    BY <1>1, <1>2, <1>4, <1>5, FailedSetupDoes, JobEndsKeeps
  <1>6. CASE UNCHANGED <<vm, gaveUp>> /\ ~LastAttempt(w) /\ vmQueue' = Requeued(w)
    BY <1>1, <1>2, <1>4, <1>6, RequeuedDoes, JobEndsKeeps
  <1>7. CASE UNCHANGED <<vm, vmQueue>> /\ gaveUp' = TRUE
    <2>1. RetryComes'
      BY <1>7 DEF RetryComes
    <2> QED
      BY <1>2, <1>4, <1>7, <2>1, JobEndsKeeps
  <1> QED
    BY <1>3, <1>5, <1>6, <1>7

LEMMA VmWorkerDiesKeeps ==
    ASSUME ComputerInv, NEW w \in VmSlots, VmWorkerDies(w)
    PROVE  ComputerInv'
  <1>1. ComputerTypes
    BY DEF ComputerInv, JobsInv
  <1>2. /\ vmJob[w] # NoVmJob /\ Unrecorded(w) /\ vmJob' = [vmJob EXCEPT ![w] = NoVmJob]
        /\ UNCHANGED <<vm, instance, volume, image, deletion, issued, overlapped>>
    BY DEF VmWorkerDies
  <1>3. \/ UNCHANGED gaveUp /\ ~LastAttempt(w) /\ vmQueue' = Requeued(w)
        \/ UNCHANGED vmQueue /\ gaveUp' = TRUE
    BY DEF VmWorkerDies
  <1>4. gaveUp \in BOOLEAN /\ vmQueue \subseteq [kind : Kinds, attempt : 0 .. ProvisionAttempts]
    BY <1>1 DEF ComputerTypes
  <1>5. CASE UNCHANGED gaveUp /\ ~LastAttempt(w) /\ vmQueue' = Requeued(w)
    BY <1>1, <1>2, <1>4, <1>5, RequeuedDoes, JobEndsKeeps
  <1>6. CASE UNCHANGED vmQueue /\ gaveUp' = TRUE
    <2>1. RetryComes'
      BY <1>6 DEF RetryComes
    <2> QED
      BY <1>2, <1>4, <1>6, <2>1, JobEndsKeeps
  <1> QED
    BY <1>3, <1>5, <1>6

LEMMA QueueingKeeps ==
    ASSUME ComputerInv, RetryFailedVm \/ SweepRollouts \/ Operator \/ PublishImage
    PROVE  ComputerInv'
  <1>1. ComputerTypes
    BY DEF ComputerInv, JobsInv
  <1>2. UNCHANGED <<vm, instance, volume, vmJob, deletion, issued, vmStrays, strayVolumes,
                    overlapped, gaveUp>>
    BY DEF RetryFailedVm, SweepRollouts, Operator, PublishImage
  <1>3. image' \in {"old", "new"}
    BY <1>1 DEF RetryFailedVm, SweepRollouts, Operator, PublishImage, ComputerTypes
  <1>4. vmQueue' = vmQueue \/ \E kind \in Kinds : vmQueue' = WithJob(vmQueue, kind)
    BY DEF RetryFailedVm, SweepRollouts, Operator, PublishImage, Kinds
  <1>5. /\ vmQueue' \subseteq [kind : Kinds, attempt : 0 .. ProvisionAttempts]
        /\ vmQueue \subseteq vmQueue'
    BY <1>1, <1>4, WithJobTyped DEF ComputerTypes
  <1>6. Queued("provision") \/ Queued("replace") => Queued("provision")' \/ Queued("replace")'
    BY <1>5 DEF Queued
  <1> QED
    BY <1>2, <1>3, <1>5, <1>6, QueueGrowsKeeps

-----------------------------------------------------------------------------
(* The gateway and EC2.                                                    *)

LEMMA AuthenticateKeeps ==
    ASSUME ComputerInv, NEW k \in Launches, Authenticate(k)
    PROVE  ComputerInv'
  <1>1. ComputerTypes /\ (\A x \in VmSlots : JobOk(vmJob[x]))
    BY DEF ComputerInv, JobsInv
  <1>2. InOrder /\ TokensDiffer /\ LaunchesHidden /\ AttachedThere
    BY DEF ComputerInv, JobsInv
  <1>3. RowLeaves /\ InstanceLeaves /\ FilesKept /\ RestoresApart /\ RetryComes
    BY DEF ComputerInv, JobsInv
  <1>4. /\ instance[k].status = "running" /\ vm.state = "registering" /\ vm.reg = k
        /\ instance' \in [Launches -> Instances]
        /\ \A j \in Launches : instance'[j].status = instance[j].status /\ instance'[j].volume = instance[j].volume
        /\ \A j \in Launches : j # k => instance'[j].auth = instance[j].auth
        /\ UNCHANGED <<vm, volume, image, vmQueue, vmJob, deletion, issued, vmStrays, strayVolumes,
                       overlapped, gaveUp>>
    <2>1. PICK old \in Instances : old = instance[k]
      BY <1>1 DEF ComputerTypes
    <2>2. PICK new \in Instances : new = [old EXCEPT !.auth = "open"]
      BY DEF Instances
    <2>3. new.status = old.status /\ new.volume = old.volume
      BY <2>2 DEF Instances
    <2>4. instance' = [instance EXCEPT ![k] = new]
      BY <2>1, <2>2 DEF Authenticate
    <2>5. /\ instance' \in [Launches -> Instances] /\ instance'[k] = new
          /\ \A j \in Launches : j # k => instance'[j] = instance[j]
      BY <1>1, <2>4, PutInstance
    <2> QED
      BY <2>1, <2>3, <2>5 DEF Authenticate
  <1>5. ComputerTypes'
    BY <1>4, <1>1 DEF ComputerTypes
  <1>6. \A x \in VmSlots : JobOk(vmJob[x])'
    BY <1>4, <1>1, <1>2 DEF LaunchOrNone, JobOk, NoVmJob, ComputerTypes, JobRecords
  <1>7. InOrder'
    BY <1>4, <1>1, <1>2 DEF InOrder, JobOk, ComputerTypes, Rows, LaunchOrNone
  <1>8. TokensDiffer'
    BY <1>4, <1>1, <1>2 DEF TokensDiffer
  <1>9. LaunchesHidden'
    BY <1>4, <1>1, <1>2 DEF Hidden, LaunchesHidden
  <1>10. AttachedThere'
    BY <1>4, <1>1, <1>2 DEF AttachedThere, JobOk
  <1>11. RowLeaves'
    BY <1>4, <1>3 DEF RowLeaves
  <1>12. InstanceLeaves'
    BY <1>4, <1>1, <1>3 DEF InstanceLeaves, Overtaken
  <1>13. FilesKept'
    BY <1>4, <1>1, <1>2, <1>3 DEF FilesKept
  <1>14. RestoresApart'
    BY <1>4, <1>1, <1>3 DEF RestoresApart, RestoreTrue, Leaving
  <1>15. RetryComes'
    BY <1>4, <1>1, <1>3 DEF RetryComes, Queued
  <1>16. ASSUME AloneInv, overlapped' = {}
         PROVE  AloneInv'
    <2>1. /\ \A y, x \in VmSlots : y # x => vmJob[y].pc = "idle" \/ vmJob[x].pc = "idle"
          /\ \A x \in VmSlots : SetupTrue(vmJob[x])
          /\ RowNames /\ RunningNamed /\ TokenNamed /\ VolumesNamed /\ VolumeLeaves
      BY <1>16 DEF AloneInv
    <2>2. \A y, x \in VmSlots : y # x => vmJob'[y].pc = "idle" \/ vmJob'[x].pc = "idle"
      BY <1>4, <1>1, <1>3, <2>1
    <2>3. \A x \in VmSlots : SetupTrue(vmJob[x])'
      BY <1>4, <1>1, <1>3, <2>1
         DEF JobOk, ComputerTypes, JobRecords, LaunchOrNone, SetupTrue, Leaving
    <2>4. RowNames'
      BY <1>4, <1>1, <1>3, <2>1 DEF ComputerTypes, Rows, LaunchOrNone, RowNames
    <2>5. RunningNamed'
      BY <1>4, <1>1, <1>3, <2>1, <1>16 DEF AloneInv, RowNames, Launches, RunningNamed, Named
    <2>6. TokenNamed'
      BY <1>4, <1>1, <1>3, <2>1 DEF TokenNamed
    <2>7. VolumesNamed'
      BY <1>4, <1>1, <1>3, <2>1 DEF VolumesNamed
    <2>8. VolumeLeaves'
      BY <1>4, <1>1, <1>3, <2>1 DEF VolumeLeaves
    <2> QED
      BY <2>2, <2>3, <2>4, <2>5, <2>6, <2>7, <2>8 DEF AloneInv
  <1> QED
    BY <1>4, <1>5, <1>6, <1>7, <1>8, <1>9, <1>10, <1>11, <1>12, <1>13, <1>14, <1>15, <1>16
       DEF ComputerInv, JobsInv

LEMMA RegisterKeeps ==
    ASSUME ComputerInv, NEW k \in Launches, Register(k)
    PROVE  ComputerInv'
  <1>1. ComputerTypes /\ (\A x \in VmSlots : JobOk(vmJob[x]))
    BY DEF ComputerInv, JobsInv
  <1>2. InOrder /\ TokensDiffer /\ LaunchesHidden /\ AttachedThere
    BY DEF ComputerInv, JobsInv
  <1>3. RowLeaves /\ InstanceLeaves /\ FilesKept /\ RestoresApart /\ RetryComes
    BY DEF ComputerInv, JobsInv
  <1>4. /\ instance[k].status = "running" /\ instance[k].auth = "open"
        /\ instance' \in [Launches -> Instances]
        /\ \A j \in Launches : instance'[j].status = instance[j].status /\ instance'[j].volume = instance[j].volume
        /\ \A j \in Launches : j # k => instance'[j].auth = instance[j].auth
        /\ vm' \in Rows /\ vm'.state = vm.state /\ vm'.instance = vm.instance /\ vm'.volume = vm.volume
        /\ vm'.failures = vm.failures
        /\ vm'.reg \in {vm.reg, 0} /\ vm'.token \in {vm.token, k}
        /\ UNCHANGED <<volume, image, vmQueue, vmJob, deletion, issued, vmStrays, strayVolumes,
                       overlapped, gaveUp>>
    <2>1. PICK shown \in {"token", "lost"} : instance' = [instance EXCEPT ![k].auth = shown]
      BY DEF Register
    <2>2. PICK old \in Instances : old = instance[k]
      BY <1>1 DEF ComputerTypes
    <2>3. PICK new \in Instances : new = [old EXCEPT !.auth = shown]
      BY DEF Instances
    <2>4. new.status = old.status /\ new.volume = old.volume
      BY <2>3 DEF Instances
    <2>5. instance' = [instance EXCEPT ![k] = new]
      BY <2>1, <2>2, <2>3
    <2>6. /\ instance' \in [Launches -> Instances] /\ instance'[k] = new
          /\ \A j \in Launches : j # k => instance'[j] = instance[j]
      BY <1>1, <2>5, PutInstance
    <2>7. PICK row \in Rows : row = vm
      BY <1>1 DEF ComputerTypes
    <2>8. PICK next \in Rows : next = [row EXCEPT !.token = k, !.reg = 0]
      BY DEF Rows, LaunchOrNone
    <2>9. vm' = row \/ vm' = next
      BY <2>7, <2>8 DEF Register
    <2>10. /\ next.state = row.state /\ next.instance = row.instance /\ next.volume = row.volume
          /\ next.failures = row.failures /\ next.reg = 0 /\ next.token = k
      BY <2>8 DEF Rows
    <2> QED
      BY <2>2, <2>4, <2>6, <2>7, <2>9, <2>10 DEF Register
  <1>5. ComputerTypes'
    BY <1>4, <1>1 DEF ComputerTypes
  <1>6. \A x \in VmSlots : JobOk(vmJob[x])'
    BY <1>4, <1>1, <1>2 DEF LaunchOrNone, JobOk, NoVmJob, ComputerTypes, JobRecords
  <1>7. InOrder'
    BY <1>4, <1>1, <1>2 DEF InOrder, JobOk, ComputerTypes, Rows, LaunchOrNone
  <1>8. TokensDiffer'
    BY <1>4, <1>1, <1>2 DEF TokensDiffer
  <1>9. LaunchesHidden'
    BY <1>4, <1>1, <1>2 DEF Hidden, LaunchesHidden
  <1>10. AttachedThere'
    BY <1>4, <1>1, <1>2 DEF AttachedThere, JobOk
  <1>11. RowLeaves'
    BY <1>4, <1>3 DEF RowLeaves
  <1>12. InstanceLeaves'
    BY <1>4, <1>1, <1>3 DEF InstanceLeaves, Overtaken
  <1>13. FilesKept'
    BY <1>4, <1>1, <1>2, <1>3 DEF FilesKept
  <1>14. RestoresApart'
    BY <1>4, <1>1, <1>3 DEF RestoresApart, RestoreTrue, Leaving
  <1>15. RetryComes'
    BY <1>4, <1>1, <1>3 DEF RetryComes, Queued
  <1>16. ASSUME AloneInv, overlapped' = {}
         PROVE  AloneInv'
    <2>1. /\ \A y, x \in VmSlots : y # x => vmJob[y].pc = "idle" \/ vmJob[x].pc = "idle"
          /\ \A x \in VmSlots : SetupTrue(vmJob[x])
          /\ RowNames /\ RunningNamed /\ TokenNamed /\ VolumesNamed /\ VolumeLeaves
      BY <1>16 DEF AloneInv
    <2>2. \A y, x \in VmSlots : y # x => vmJob'[y].pc = "idle" \/ vmJob'[x].pc = "idle"
      BY <1>4, <1>1, <1>3, <2>1
    <2>3. \A x \in VmSlots : SetupTrue(vmJob[x])'
      BY <1>4, <1>1, <1>3, <2>1
         DEF JobOk, ComputerTypes, JobRecords, LaunchOrNone, SetupTrue, Leaving
    <2>4. RowNames'
      BY <1>4, <1>1, <1>3, <2>1 DEF ComputerTypes, Rows, LaunchOrNone, RowNames
    <2>5. RunningNamed'
      BY <1>4, <1>1, <1>3, <2>1 DEF Launches, RunningNamed, Named
    <2>6. TokenNamed'
      BY <1>4, <1>1, <1>3, <2>1, <1>16 DEF AloneInv, RunningNamed, Named, Launches, TokenNamed
    <2>7. VolumesNamed'
      BY <1>4, <1>1, <1>3, <2>1 DEF VolumesNamed
    <2>8. VolumeLeaves'
      BY <1>4, <1>1, <1>3, <2>1 DEF VolumeLeaves
    <2> QED
      BY <2>2, <2>3, <2>4, <2>5, <2>6, <2>7, <2>8 DEF AloneInv
  <1> QED
    BY <1>4, <1>5, <1>6, <1>7, <1>8, <1>9, <1>10, <1>11, <1>12, <1>13, <1>14, <1>15, <1>16
       DEF ComputerInv, JobsInv

LEMMA HelloKeeps ==
    ASSUME ComputerInv, NEW k \in Launches, Hello(k)
    PROVE  ComputerInv'
  <1>1. ComputerTypes /\ (\A x \in VmSlots : JobOk(vmJob[x]))
    BY DEF ComputerInv, JobsInv
  <1>2. InOrder /\ TokensDiffer /\ LaunchesHidden /\ AttachedThere
    BY DEF ComputerInv, JobsInv
  <1>3. RowLeaves /\ InstanceLeaves /\ FilesKept /\ RestoresApart /\ RetryComes
    BY DEF ComputerInv, JobsInv
  <1>4. /\ instance[k].status = "running" /\ vm.token = k /\ vm.state \in {"registering", "unhealthy"}
        /\ vm' \in Rows /\ vm'.state = "ready" /\ vm'.instance = vm.instance /\ vm'.volume = vm.volume
        /\ vm'.reg = vm.reg /\ vm'.token = vm.token
        /\ UNCHANGED <<instance, volume, image, vmQueue, vmJob, deletion, issued, vmStrays, strayVolumes,
                       overlapped, gaveUp>>
    <2>1. PICK row \in Rows : row = vm
      BY <1>1 DEF ComputerTypes
    <2>2. PICK next \in Rows : next = [row EXCEPT !.state = "ready", !.failures = 0]
      BY DEF Rows, VmStates
    <2>3. vm' = next
      BY <2>1, <2>2 DEF Hello
    <2>4. /\ next.state = "ready" /\ next.instance = row.instance /\ next.volume = row.volume
          /\ next.reg = row.reg /\ next.token = row.token
      BY <2>2 DEF Rows
    <2> QED
      BY <2>1, <2>3, <2>4 DEF Hello
  <1>5. ComputerTypes'
    BY <1>4, <1>1 DEF ComputerTypes
  <1>6. \A x \in VmSlots : JobOk(vmJob[x])'
    BY <1>4, <1>1, <1>2 DEF LaunchOrNone, JobOk, NoVmJob, ComputerTypes, JobRecords
  <1>7. InOrder'
    BY <1>4, <1>1, <1>2 DEF InOrder, JobOk, ComputerTypes, Rows, LaunchOrNone
  <1>8. TokensDiffer'
    BY <1>4, <1>1, <1>2 DEF TokensDiffer
  <1>9. LaunchesHidden'
    BY <1>4, <1>1, <1>2 DEF Hidden, LaunchesHidden
  <1>10. AttachedThere'
    BY <1>4, <1>1, <1>2 DEF AttachedThere, JobOk
  <1>11. RowLeaves'
    BY <1>4, <1>3 DEF RowLeaves
  <1>12. InstanceLeaves'
    BY <1>4, <1>1, <1>3 DEF InstanceLeaves, Overtaken
  <1>13. FilesKept'
    BY <1>4, <1>1, <1>2, <1>3 DEF FilesKept
  <1>14. RestoresApart'
    BY <1>4, <1>1, <1>3 DEF RestoresApart, RestoreTrue, Leaving
  <1>15. RetryComes'
    BY <1>4, <1>1, <1>3 DEF RetryComes, Queued
  <1>16. ASSUME AloneInv, overlapped' = {}
         PROVE  AloneInv'
    <2>1. /\ \A y, x \in VmSlots : y # x => vmJob[y].pc = "idle" \/ vmJob[x].pc = "idle"
          /\ \A x \in VmSlots : SetupTrue(vmJob[x])
          /\ RowNames /\ RunningNamed /\ TokenNamed /\ VolumesNamed /\ VolumeLeaves
      BY <1>16 DEF AloneInv
    <2>2. \A y, x \in VmSlots : y # x => vmJob'[y].pc = "idle" \/ vmJob'[x].pc = "idle"
      BY <1>4, <1>1, <1>3, <2>1
    <2>3. \A x \in VmSlots : SetupTrue(vmJob[x])'
      BY <1>4, <1>1, <1>3, <2>1
         DEF JobOk, ComputerTypes, JobRecords, LaunchOrNone, SetupTrue, Leaving
    <2>4. RowNames'
      BY <1>4, <1>1, <1>3, <2>1 DEF ComputerTypes, Rows, LaunchOrNone, RowNames
    <2>5. RunningNamed'
      BY <1>4, <1>1, <1>3, <2>1 DEF RunningNamed, Named
    <2>6. TokenNamed'
      BY <1>4, <1>1, <1>3, <2>1, <1>16 DEF AloneInv, RunningNamed, Named, Launches, TokenNamed
    <2>7. VolumesNamed'
      BY <1>4, <1>1, <1>3, <2>1 DEF VolumesNamed
    <2>8. VolumeLeaves'
      BY <1>4, <1>1, <1>3, <2>1 DEF VolumeLeaves
    <2> QED
      BY <2>2, <2>3, <2>4, <2>5, <2>6, <2>7, <2>8 DEF AloneInv
  <1> QED
    BY <1>4, <1>5, <1>6, <1>7, <1>8, <1>9, <1>10, <1>11, <1>12, <1>13, <1>14, <1>15, <1>16
       DEF ComputerInv, JobsInv

LEMMA InstanceGoneKeeps ==
    ASSUME ComputerInv, NEW k \in Launches, InstanceGone(k)
    PROVE  ComputerInv'
  <1>1. ComputerTypes /\ (\A x \in VmSlots : JobOk(vmJob[x]))
    BY DEF ComputerInv, JobsInv
  <1>2. InOrder /\ TokensDiffer /\ LaunchesHidden /\ AttachedThere
    BY DEF ComputerInv, JobsInv
  <1>3. RowLeaves /\ InstanceLeaves /\ FilesKept /\ RestoresApart /\ RetryComes
    BY DEF ComputerInv, JobsInv
  <1>4. /\ instance[k].status = "dying" /\ instance' \in [Launches -> Instances]
        /\ instance'[k].status = "gone" /\ instance'[k].volume = 0
        /\ \A j \in Launches : j # k => instance'[j] = instance[j]
        /\ UNCHANGED <<vm, volume, image, vmQueue, vmJob, deletion, issued, vmStrays, strayVolumes,
                       overlapped, gaveUp>>
    <2>1. PICK old \in Instances : old = instance[k]
      BY <1>1 DEF ComputerTypes
    <2>2. PICK new \in Instances : new = [old EXCEPT !.status = "gone", !.volume = 0]
      BY DEF Instances, VolumeOrNone
    <2>3. new.status = "gone" /\ new.volume = 0
      BY <2>2 DEF Instances
    <2>4. instance' = [instance EXCEPT ![k] = new]
      BY <2>1, <2>2 DEF InstanceGone
    <2>5. /\ instance' \in [Launches -> Instances] /\ instance'[k] = new
          /\ \A j \in Launches : j # k => instance'[j] = instance[j]
      BY <1>1, <2>4, PutInstance
    <2> QED
      BY <2>1, <2>3, <2>5 DEF InstanceGone
  <1>5. ComputerTypes'
    BY <1>4, <1>1 DEF ComputerTypes
  <1>6. \A x \in VmSlots : JobOk(vmJob[x])'
    BY <1>4, <1>1, <1>2 DEF LaunchOrNone, JobOk, NoVmJob, ComputerTypes, JobRecords
  <1>7. InOrder'
    BY <1>4, <1>1, <1>2 DEF InOrder, JobOk, ComputerTypes, Rows, LaunchOrNone
  <1>8. TokensDiffer'
    BY <1>4, <1>1, <1>2 DEF TokensDiffer
  <1>9. LaunchesHidden'
    BY <1>4, <1>1, <1>2 DEF Hidden, LaunchesHidden
  <1>10. AttachedThere'
    BY <1>4, <1>1, <1>2 DEF AttachedThere, JobOk
  <1>11. RowLeaves'
    BY <1>4, <1>3 DEF RowLeaves
  <1>12. InstanceLeaves'
    BY <1>4, <1>1, <1>3 DEF InstanceLeaves, Overtaken
  <1>13. FilesKept'
    BY <1>4, <1>1, <1>2, <1>3 DEF FilesKept
  <1>14. RestoresApart'
    BY <1>4, <1>1, <1>3 DEF RestoresApart, RestoreTrue, Leaving
  <1>15. RetryComes'
    BY <1>4, <1>1, <1>3 DEF RetryComes, Queued
  <1>16. ASSUME AloneInv, overlapped' = {}
         PROVE  AloneInv'
    <2>1. /\ \A y, x \in VmSlots : y # x => vmJob[y].pc = "idle" \/ vmJob[x].pc = "idle"
          /\ \A x \in VmSlots : SetupTrue(vmJob[x])
          /\ RowNames /\ RunningNamed /\ TokenNamed /\ VolumesNamed /\ VolumeLeaves
      BY <1>16 DEF AloneInv
    <2>2. \A y, x \in VmSlots : y # x => vmJob'[y].pc = "idle" \/ vmJob'[x].pc = "idle"
      BY <1>4, <1>1, <1>3, <2>1
    <2>3. \A x \in VmSlots : SetupTrue(vmJob[x])'
      BY <1>4, <1>1, <1>3, <2>1
         DEF JobOk, ComputerTypes, JobRecords, LaunchOrNone, SetupTrue, Leaving
    <2>4. RowNames'
      BY <1>4, <1>1, <1>3, <2>1 DEF ComputerTypes, Rows, LaunchOrNone, RowNames
    <2>5. RunningNamed'
      BY <1>4, <1>1, <1>3, <2>1 DEF RunningNamed, Named
    <2>6. TokenNamed'
      BY <1>4, <1>1, <1>3, <2>1 DEF TokenNamed
    <2>7. VolumesNamed'
      BY <1>4, <1>1, <1>3, <2>1 DEF VolumesNamed
    <2>8. VolumeLeaves'
      BY <1>4, <1>1, <1>3, <2>1 DEF VolumeLeaves
    <2> QED
      BY <2>2, <2>3, <2>4, <2>5, <2>6, <2>7, <2>8 DEF AloneInv
  <1> QED
    BY <1>4, <1>5, <1>6, <1>7, <1>8, <1>9, <1>10, <1>11, <1>12, <1>13, <1>14, <1>15, <1>16
       DEF ComputerInv, JobsInv

LEMMA MissedPingsKeeps ==
    ASSUME ComputerInv, MissedPings
    PROVE  ComputerInv'
  <1>1. ComputerTypes /\ (\A x \in VmSlots : JobOk(vmJob[x]))
    BY DEF ComputerInv, JobsInv
  <1>2. InOrder /\ TokensDiffer /\ LaunchesHidden /\ AttachedThere
    BY DEF ComputerInv, JobsInv
  <1>3. RowLeaves /\ InstanceLeaves /\ FilesKept /\ RestoresApart /\ RetryComes
    BY DEF ComputerInv, JobsInv
  <1>4. /\ vm.state = "ready" /\ vm' \in Rows /\ vm'.state = "unhealthy" /\ vm'.instance = vm.instance
        /\ vm'.volume = vm.volume /\ vm'.reg = vm.reg /\ vm'.token = vm.token
        /\ UNCHANGED <<instance, volume, image, vmQueue, vmJob, deletion, issued, vmStrays, strayVolumes,
                       overlapped, gaveUp>>
    <2>1. vm' = [vm EXCEPT !.state = "unhealthy"] /\ vm \in Rows /\ "unhealthy" \in VmStates
      BY <1>1 DEF MissedPings, ComputerTypes, VmStates
    <2> QED
      BY <2>1, StateSet DEF MissedPings
  <1>5. ComputerTypes'
    BY <1>4, <1>1 DEF ComputerTypes
  <1>6. \A x \in VmSlots : JobOk(vmJob[x])'
    BY <1>4, <1>1, <1>2 DEF LaunchOrNone, JobOk, NoVmJob, ComputerTypes, JobRecords
  <1>7. InOrder'
    BY <1>4, <1>1, <1>2 DEF InOrder, JobOk, ComputerTypes, Rows, LaunchOrNone
  <1>8. TokensDiffer'
    BY <1>4, <1>1, <1>2 DEF TokensDiffer
  <1>9. LaunchesHidden'
    BY <1>4, <1>1, <1>2 DEF Hidden, LaunchesHidden
  <1>10. AttachedThere'
    BY <1>4, <1>1, <1>2 DEF AttachedThere, JobOk
  <1>11. RowLeaves'
    BY <1>4, <1>3 DEF RowLeaves
  <1>12. InstanceLeaves'
    BY <1>4, <1>1, <1>3 DEF InstanceLeaves, Overtaken
  <1>13. FilesKept'
    BY <1>4, <1>1, <1>2, <1>3 DEF FilesKept
  <1>14. RestoresApart'
    BY <1>4, <1>1, <1>3 DEF RestoresApart, RestoreTrue, Leaving
  <1>15. RetryComes'
    BY <1>4, <1>1, <1>3 DEF RetryComes, Queued
  <1>16. ASSUME AloneInv, overlapped' = {}
         PROVE  AloneInv'
    <2>1. /\ \A y, x \in VmSlots : y # x => vmJob[y].pc = "idle" \/ vmJob[x].pc = "idle"
          /\ \A x \in VmSlots : SetupTrue(vmJob[x])
          /\ RowNames /\ RunningNamed /\ TokenNamed /\ VolumesNamed /\ VolumeLeaves
      BY <1>16 DEF AloneInv
    <2>2. \A y, x \in VmSlots : y # x => vmJob'[y].pc = "idle" \/ vmJob'[x].pc = "idle"
      BY <1>4, <1>1, <1>3, <2>1
    <2>3. \A x \in VmSlots : SetupTrue(vmJob[x])'
      BY <1>4, <1>1, <1>3, <2>1
         DEF JobOk, ComputerTypes, JobRecords, LaunchOrNone, SetupTrue, Leaving
    <2>4. RowNames'
      BY <1>4, <1>1, <1>3, <2>1 DEF ComputerTypes, Rows, LaunchOrNone, RowNames
    <2>5. RunningNamed'
      BY <1>4, <1>1, <1>3, <2>1 DEF RunningNamed, Named
    <2>6. TokenNamed'
      BY <1>4, <1>1, <1>3, <2>1 DEF TokenNamed
    <2>7. VolumesNamed'
      BY <1>4, <1>1, <1>3, <2>1 DEF VolumesNamed
    <2>8. VolumeLeaves'
      BY <1>4, <1>1, <1>3, <2>1 DEF VolumeLeaves
    <2> QED
      BY <2>2, <2>3, <2>4, <2>5, <2>6, <2>7, <2>8 DEF AloneInv
  <1> QED
    BY <1>4, <1>5, <1>6, <1>7, <1>8, <1>9, <1>10, <1>11, <1>12, <1>13, <1>14, <1>15, <1>16
       DEF ComputerInv, JobsInv

LEMMA SetupTimeoutKeeps ==
    ASSUME ComputerInv, SetupTimeout
    PROVE  ComputerInv'
  <1>1. ComputerTypes /\ (\A x \in VmSlots : JobOk(vmJob[x]))
    BY DEF ComputerInv, JobsInv
  <1>2. InOrder /\ TokensDiffer /\ LaunchesHidden /\ AttachedThere
    BY DEF ComputerInv, JobsInv
  <1>3. RowLeaves /\ InstanceLeaves /\ FilesKept /\ RestoresApart /\ RetryComes
    BY DEF ComputerInv, JobsInv
  <1>4. /\ vm.state \in {"provisioning", "registering"}
        /\ vm' \in Rows /\ vm'.state = "failed" /\ vm'.instance = vm.instance
        /\ vm'.volume = vm.volume /\ vm'.reg = vm.reg /\ vm'.token = vm.token
        /\ vmQueue' \subseteq [kind : Kinds, attempt : 0 .. ProvisionAttempts] /\ RetryComes'
        /\ UNCHANGED <<instance, volume, image, vmJob, deletion, issued, vmStrays, strayVolumes,
                       overlapped, gaveUp>>
    <2>1. vm' = FailedSetup(vm, vmQueue)[1] /\ vmQueue' = FailedSetup(vm, vmQueue)[2]
      BY DEF SetupTimeout
    <2> QED
      BY <1>1, <2>1, FailedSetupDoes DEF SetupTimeout
  <1>5. ComputerTypes'
    BY <1>4, <1>1 DEF ComputerTypes
  <1>6. \A x \in VmSlots : JobOk(vmJob[x])'
    BY <1>4, <1>1, <1>2 DEF LaunchOrNone, JobOk, NoVmJob, ComputerTypes, JobRecords
  <1>7. InOrder'
    BY <1>4, <1>1, <1>2 DEF InOrder, JobOk, ComputerTypes, Rows, LaunchOrNone
  <1>8. TokensDiffer'
    BY <1>4, <1>1, <1>2 DEF TokensDiffer
  <1>9. LaunchesHidden'
    BY <1>4, <1>1, <1>2 DEF Hidden, LaunchesHidden
  <1>10. AttachedThere'
    BY <1>4, <1>1, <1>2 DEF AttachedThere, JobOk
  <1>11. RowLeaves'
    BY <1>4, <1>3 DEF RowLeaves
  <1>12. InstanceLeaves'
    BY <1>4, <1>1, <1>3 DEF InstanceLeaves, Overtaken
  <1>13. FilesKept'
    BY <1>4, <1>1, <1>2, <1>3 DEF FilesKept
  <1>14. RestoresApart'
    BY <1>4, <1>1, <1>3 DEF RestoresApart, RestoreTrue, Leaving
  <1>15. RetryComes'
    BY <1>4
  <1>16. ASSUME AloneInv, overlapped' = {}
         PROVE  AloneInv'
    <2>1. /\ \A y, x \in VmSlots : y # x => vmJob[y].pc = "idle" \/ vmJob[x].pc = "idle"
          /\ \A x \in VmSlots : SetupTrue(vmJob[x])
          /\ RowNames /\ RunningNamed /\ TokenNamed /\ VolumesNamed /\ VolumeLeaves
      BY <1>16 DEF AloneInv
    <2>2. \A y, x \in VmSlots : y # x => vmJob'[y].pc = "idle" \/ vmJob'[x].pc = "idle"
      BY <1>4, <1>1, <1>3, <2>1
    <2>3. \A x \in VmSlots : SetupTrue(vmJob[x])'
      BY <1>4, <1>1, <1>3, <2>1
         DEF JobOk, ComputerTypes, JobRecords, LaunchOrNone, SetupTrue, Leaving
    <2>4. RowNames'
      BY <1>4, <1>1, <1>3, <2>1 DEF ComputerTypes, Rows, LaunchOrNone, RowNames
    <2>5. RunningNamed'
      BY <1>4, <1>1, <1>3, <2>1 DEF RunningNamed, Named
    <2>6. TokenNamed'
      BY <1>4, <1>1, <1>3, <2>1 DEF TokenNamed
    <2>7. VolumesNamed'
      BY <1>4, <1>1, <1>3, <2>1 DEF VolumesNamed
    <2>8. VolumeLeaves'
      BY <1>4, <1>1, <1>3, <2>1 DEF VolumeLeaves
    <2> QED
      BY <2>2, <2>3, <2>4, <2>5, <2>6, <2>7, <2>8 DEF AloneInv
  <1> QED
    BY <1>4, <1>5, <1>6, <1>7, <1>8, <1>9, <1>10, <1>11, <1>12, <1>13, <1>14, <1>15, <1>16
       DEF ComputerInv, JobsInv

-----------------------------------------------------------------------------
(* The user leaves.                                                        *)

LEMMA DropJobsKeeps ==
    ASSUME ComputerInv, DropJobs
    PROVE  ComputerInv'
  <1>1. ComputerTypes /\ (\A x \in VmSlots : JobOk(vmJob[x]))
    BY DEF ComputerInv, JobsInv
  <1>2. InOrder /\ TokensDiffer /\ LaunchesHidden /\ AttachedThere
    BY DEF ComputerInv, JobsInv
  <1>3. RowLeaves /\ InstanceLeaves /\ FilesKept /\ RestoresApart /\ RetryComes
    BY DEF ComputerInv, JobsInv
  <1>4. /\ deletion.pc = "none" /\ vmQueue' = {}
        /\ deletion' \in Deletions /\ deletion'.pc = "read"
        /\ deletion'.instance = deletion.instance /\ deletion'.volume = deletion.volume
        /\ UNCHANGED <<vm, instance, volume, image, vmJob, issued, vmStrays, strayVolumes, overlapped,
                       gaveUp>>
    <2>1. PICK old \in Deletions : old = deletion
      BY <1>1 DEF ComputerTypes
    <2>2. PICK new \in Deletions : new = [old EXCEPT !.pc = "read"]
      BY DEF Deletions
    <2>3. deletion' = new
      BY <2>1, <2>2 DEF DropJobs
    <2>4. new.pc = "read" /\ new.instance = old.instance /\ new.volume = old.volume
      BY <2>2 DEF Deletions
    <2> QED
      BY <2>1, <2>3, <2>4 DEF DropJobs
  <1>5. ComputerTypes'
    BY <1>4, <1>1 DEF ComputerTypes
  <1>6. \A x \in VmSlots : JobOk(vmJob[x])'
    BY <1>4, <1>1, <1>2 DEF LaunchOrNone, JobOk, NoVmJob, ComputerTypes, JobRecords
  <1>7. InOrder'
    BY <1>4, <1>1, <1>2 DEF InOrder, JobOk, ComputerTypes, Rows, LaunchOrNone
  <1>8. TokensDiffer'
    BY <1>4, <1>1, <1>2 DEF TokensDiffer
  <1>9. LaunchesHidden'
    BY <1>4, <1>1, <1>2 DEF Hidden, LaunchesHidden
  <1>10. AttachedThere'
    BY <1>4, <1>1, <1>2 DEF AttachedThere, JobOk
  <1>11. RowLeaves'
    BY <1>4, <1>3 DEF RowLeaves
  <1>12. InstanceLeaves'
    BY <1>4, <1>1, <1>3 DEF InstanceLeaves, Overtaken
  <1>13. FilesKept'
    BY <1>4, <1>1, <1>2, <1>3 DEF FilesKept
  <1>14. RestoresApart'
    BY <1>4, <1>1, <1>3 DEF RestoresApart, RestoreTrue, Leaving
  <1>15. RetryComes'
    BY <1>4, <1>1, <1>3 DEF RetryComes, Queued
  <1>16. ASSUME AloneInv, overlapped' = {}
         PROVE  AloneInv'
    <2>1. /\ \A y, x \in VmSlots : y # x => vmJob[y].pc = "idle" \/ vmJob[x].pc = "idle"
          /\ \A x \in VmSlots : SetupTrue(vmJob[x])
          /\ RowNames /\ RunningNamed /\ TokenNamed /\ VolumesNamed /\ VolumeLeaves
      BY <1>16 DEF AloneInv
    <2>2. \A y, x \in VmSlots : y # x => vmJob'[y].pc = "idle" \/ vmJob'[x].pc = "idle"
      BY <1>4, <1>1, <1>3, <2>1
    <2>3. \A x \in VmSlots : SetupTrue(vmJob[x])'
      BY <1>4, <1>1, <1>3, <2>1
         DEF JobOk, ComputerTypes, JobRecords, LaunchOrNone, SetupTrue, Leaving
    <2>4. RowNames'
      BY <1>4, <1>1, <1>3, <2>1 DEF ComputerTypes, Rows, LaunchOrNone, RowNames
    <2>5. RunningNamed'
      BY <1>4, <1>1, <1>3, <2>1 DEF RunningNamed, Named
    <2>6. TokenNamed'
      BY <1>4, <1>1, <1>3, <2>1 DEF TokenNamed
    <2>7. VolumesNamed'
      BY <1>4, <1>1, <1>3, <2>1 DEF VolumesNamed
    <2>8. VolumeLeaves'
      BY <1>4, <1>1, <1>3, <2>1 DEF VolumeLeaves
    <2> QED
      BY <2>2, <2>3, <2>4, <2>5, <2>6, <2>7, <2>8 DEF AloneInv
  <1> QED
    BY <1>4, <1>5, <1>6, <1>7, <1>8, <1>9, <1>10, <1>11, <1>12, <1>13, <1>14, <1>15, <1>16
       DEF ComputerInv, JobsInv

LEMMA TerminateVmKeeps ==
    ASSUME ComputerInv, TerminateVm
    PROVE  ComputerInv'
  <1>1. ComputerTypes /\ (\A x \in VmSlots : JobOk(vmJob[x]))
    BY DEF ComputerInv, JobsInv
  <1>2. InOrder /\ TokensDiffer /\ LaunchesHidden /\ AttachedThere
    BY DEF ComputerInv, JobsInv
  <1>3. RowLeaves /\ InstanceLeaves /\ FilesKept /\ RestoresApart /\ RetryComes
    BY DEF ComputerInv, JobsInv
  <1>4. /\ deletion.pc = "read" /\ deletion' \in Deletions /\ deletion'.pc = "instance"
        /\ deletion'.instance = vm.instance /\ deletion'.volume = vm.volume
        /\ vm' \in Rows /\ vm'.state = "terminating" /\ vm'.instance = vm.instance
        /\ vm'.volume = vm.volume /\ vm'.reg = vm.reg /\ vm'.token = vm.token
        /\ UNCHANGED <<instance, volume, image, vmQueue, vmJob, issued, vmStrays, strayVolumes,
                       overlapped, gaveUp>>
    <2>1. PICK row \in Rows : row = vm
      BY <1>1 DEF ComputerTypes
    <2>2. vm.state \notin {"terminated", "gone"} /\ deletion.pc = "read"
      BY <1>3 DEF TerminateVm, RowLeaves
    <2>3. vm' = [vm EXCEPT !.state = "terminating"] /\ "terminating" \in VmStates
      BY <2>2 DEF TerminateVm, VmStates
    <2>4. /\ vm' \in Rows /\ vm'.state = "terminating" /\ vm'.instance = vm.instance
          /\ vm'.volume = vm.volume /\ vm'.reg = vm.reg /\ vm'.token = vm.token
      BY <2>1, <2>3, StateSet
    <2>5. PICK new \in Deletions :
             new = [pc |-> "instance", instance |-> row.instance, volume |-> row.volume]
      BY DEF Deletions, Rows
    <2>6. deletion' = new
      BY <2>1, <2>2, <2>5 DEF TerminateVm
    <2>7. new.pc = "instance" /\ new.instance = row.instance /\ new.volume = row.volume
      BY <2>5
    <2> QED
      BY <2>1, <2>2, <2>4, <2>6, <2>7 DEF TerminateVm
  <1>5. ComputerTypes'
    BY <1>4, <1>1 DEF ComputerTypes
  <1>6. \A x \in VmSlots : JobOk(vmJob[x])'
    BY <1>4, <1>1, <1>2 DEF LaunchOrNone, JobOk, NoVmJob, ComputerTypes, JobRecords
  <1>7. InOrder'
    BY <1>4, <1>1, <1>2 DEF InOrder, JobOk, ComputerTypes, Rows, LaunchOrNone
  <1>8. TokensDiffer'
    BY <1>4, <1>1, <1>2 DEF TokensDiffer
  <1>9. LaunchesHidden'
    BY <1>4, <1>1, <1>2 DEF Hidden, LaunchesHidden
  <1>10. AttachedThere'
    BY <1>4, <1>1, <1>2 DEF AttachedThere, JobOk
  <1>11. RowLeaves'
    BY <1>4, <1>3 DEF RowLeaves
  <1>12. InstanceLeaves'
    BY <1>4, <1>1, <1>3 DEF InstanceLeaves, Overtaken
  <1>13. FilesKept'
    BY <1>4, <1>1, <1>2, <1>3 DEF FilesKept
  <1>14. RestoresApart'
    BY <1>4, <1>1, <1>3 DEF RestoresApart, RestoreTrue, Leaving
  <1>15. RetryComes'
    BY <1>4, <1>1, <1>3 DEF RetryComes, Queued
  <1>16. ASSUME AloneInv, overlapped' = {}
         PROVE  AloneInv'
    <2>1. /\ \A y, x \in VmSlots : y # x => vmJob[y].pc = "idle" \/ vmJob[x].pc = "idle"
          /\ \A x \in VmSlots : SetupTrue(vmJob[x])
          /\ RowNames /\ RunningNamed /\ TokenNamed /\ VolumesNamed /\ VolumeLeaves
      BY <1>16 DEF AloneInv
    <2>2. \A y, x \in VmSlots : y # x => vmJob'[y].pc = "idle" \/ vmJob'[x].pc = "idle"
      BY <1>4, <1>1, <1>3, <2>1
    <2>3. \A x \in VmSlots : SetupTrue(vmJob[x])'
      BY <1>4, <1>1, <1>3, <2>1 DEF RowLeaves, SetupTrue, Leaving
    <2>4. RowNames'
      BY <1>4, <1>1, <1>3, <2>1 DEF ComputerTypes, Rows, LaunchOrNone, RowNames
    <2>5. RunningNamed'
      BY <1>4, <1>1, <1>3, <2>1 DEF RunningNamed, Named
    <2>6. TokenNamed'
      BY <1>4, <1>1, <1>3, <2>1 DEF TokenNamed
    <2>7. VolumesNamed'
      BY <1>4, <1>1, <1>3, <2>1 DEF VolumesNamed
    <2>8. VolumeLeaves'
      BY <1>4, <1>1, <1>3, <2>1 DEF VolumeLeaves
    <2> QED
      BY <2>2, <2>3, <2>4, <2>5, <2>6, <2>7, <2>8 DEF AloneInv
  <1> QED
    BY <1>4, <1>5, <1>6, <1>7, <1>8, <1>9, <1>10, <1>11, <1>12, <1>13, <1>14, <1>15, <1>16
       DEF ComputerInv, JobsInv

LEMMA DestroyInstanceKeeps ==
    ASSUME ComputerInv, DestroyInstance
    PROVE  ComputerInv'
  <1>1. ComputerTypes /\ (\A x \in VmSlots : JobOk(vmJob[x]))
    BY DEF ComputerInv, JobsInv
  <1>2. InOrder /\ TokensDiffer /\ LaunchesHidden /\ AttachedThere
    BY DEF ComputerInv, JobsInv
  <1>3. RowLeaves /\ InstanceLeaves /\ FilesKept /\ RestoresApart /\ RetryComes
    BY DEF ComputerInv, JobsInv
  <1>4. /\ deletion.pc = "instance"
        /\ deletion' \in Deletions /\ deletion'.pc = "volume"
        /\ deletion'.instance = deletion.instance /\ deletion'.volume = deletion.volume
        /\ instance' \in [Launches -> Instances]
        /\ \A k \in Launches :
              /\ instance'[k].status = IF k = deletion.instance /\ instance[k].status = "running"
                                       THEN "dying" ELSE instance[k].status
              /\ instance'[k].volume = instance[k].volume /\ instance'[k].auth = instance[k].auth
        /\ UNCHANGED <<vm, volume, image, vmQueue, vmJob, issued, vmStrays, strayVolumes, overlapped,
                       gaveUp>>
    <2>1. PICK old \in Deletions : old = deletion
      BY <1>1 DEF ComputerTypes
    <2>2. PICK new \in Deletions : new = [old EXCEPT !.pc = "volume"]
      BY DEF Deletions
    <2>3. deletion' = new
      BY <2>1, <2>2 DEF DestroyInstance
    <2>4. new.pc = "volume" /\ new.instance = old.instance /\ new.volume = old.volume
      BY <2>2 DEF Deletions
    <2>5. PICK k \in LaunchOrNone : k = deletion.instance
      BY <1>1 DEF ComputerTypes, Deletions
    <2>6. instance' = Terminated(k)
      BY <2>5 DEF DestroyInstance
    <2>7. /\ instance' \in [Launches -> Instances]
          /\ \A j \in Launches :
                /\ instance'[j].status = IF j = k /\ instance[j].status = "running" THEN "dying"
                                         ELSE instance[j].status
                /\ instance'[j].volume = instance[j].volume /\ instance'[j].auth = instance[j].auth
      BY <1>1, <2>6, TerminatedDoes
    <2> QED
      BY <2>1, <2>3, <2>4, <2>5, <2>7 DEF DestroyInstance
  <1>5. ComputerTypes'
    BY <1>4, <1>1 DEF ComputerTypes
  <1>6. \A x \in VmSlots : JobOk(vmJob[x])'
    BY <1>4, <1>1, <1>2
       DEF LaunchesHidden, Hidden, LaunchOrNone, JobOk, NoVmJob, ComputerTypes, JobRecords
  <1>7. InOrder'
    BY <1>4, <1>1, <1>2 DEF InOrder, JobOk, ComputerTypes, Rows, LaunchOrNone
  <1>8. TokensDiffer'
    BY <1>4, <1>1, <1>2 DEF TokensDiffer
  <1>9. LaunchesHidden'
    BY <1>4, <1>1, <1>2 DEF Hidden, LaunchesHidden
  <1>10. AttachedThere'
    BY <1>4, <1>1, <1>2 DEF AttachedThere, JobOk
  <1>11. RowLeaves'
    BY <1>4, <1>3 DEF RowLeaves
  <1>12. InstanceLeaves'
    BY <1>4, <1>1, <1>3 DEF InstanceLeaves, Overtaken
  <1>13. FilesKept'
    BY <1>4, <1>1, <1>2, <1>3 DEF FilesKept
  <1>14. RestoresApart'
    BY <1>4, <1>1, <1>3 DEF RestoresApart, RestoreTrue, Leaving
  <1>15. RetryComes'
    BY <1>4, <1>1, <1>3 DEF RetryComes, Queued
  <1>16. ASSUME AloneInv, overlapped' = {}
         PROVE  AloneInv'
    <2>1. /\ \A y, x \in VmSlots : y # x => vmJob[y].pc = "idle" \/ vmJob[x].pc = "idle"
          /\ \A x \in VmSlots : SetupTrue(vmJob[x])
          /\ RowNames /\ RunningNamed /\ TokenNamed /\ VolumesNamed /\ VolumeLeaves
      BY <1>16 DEF AloneInv
    <2>2. \A y, x \in VmSlots : y # x => vmJob'[y].pc = "idle" \/ vmJob'[x].pc = "idle"
      BY <1>4, <1>1, <1>3, <2>1
    <2>3. \A x \in VmSlots : SetupTrue(vmJob[x])'
      BY <1>4, <1>1, <1>3, <2>1
         DEF RowLeaves, JobOk, Leaving, ComputerTypes, JobRecords, LaunchOrNone, SetupTrue
    <2>4. RowNames'
      BY <1>4, <1>1, <1>3, <2>1 DEF RowLeaves, RowNames
    <2>5. RunningNamed'
      BY <1>4, <1>1, <1>3, <2>1 DEF RunningNamed, Named
    <2>6. TokenNamed'
      BY <1>4, <1>1, <1>3, <2>1 DEF TokenNamed
    <2>7. VolumesNamed'
      BY <1>4, <1>1, <1>3, <2>1 DEF VolumesNamed
    <2>8. VolumeLeaves'
      BY <1>4, <1>1, <1>3, <2>1 DEF VolumeLeaves
    <2> QED
      BY <2>2, <2>3, <2>4, <2>5, <2>6, <2>7, <2>8 DEF AloneInv
  <1> QED
    BY <1>4, <1>5, <1>6, <1>7, <1>8, <1>9, <1>10, <1>11, <1>12, <1>13, <1>14, <1>15, <1>16
       DEF ComputerInv, JobsInv

LEMMA DestroyVolumeKeeps ==
    ASSUME ComputerInv, DestroyVolume
    PROVE  ComputerInv'
  <1>1. ComputerTypes /\ (\A x \in VmSlots : JobOk(vmJob[x]))
    BY DEF ComputerInv, JobsInv
  <1>2. InOrder /\ TokensDiffer /\ LaunchesHidden /\ AttachedThere
    BY DEF ComputerInv, JobsInv
  <1>3. RowLeaves /\ InstanceLeaves /\ FilesKept /\ RestoresApart /\ RetryComes
    BY DEF ComputerInv, JobsInv
  <1>4. /\ deletion.pc = "volume"
        /\ deletion' \in Deletions /\ deletion'.pc = "done"
        /\ deletion'.instance = deletion.instance /\ deletion'.volume = deletion.volume
        /\ vm' \in Rows /\ vm'.state = "terminated" /\ vm'.instance = vm.instance
        /\ vm'.volume = vm.volume /\ vm'.reg = vm.reg /\ vm'.token = vm.token
        /\ volume' \in [Volumes -> {"none", "there", "gone"}]
        /\ deletion.volume # 0 => volume'[deletion.volume] = "gone" /\ deletion.volume \in Volumes
        /\ \A v \in Volumes : v # deletion.volume => volume'[v] = volume[v]
        /\ deletion.volume # 0 => volume[deletion.volume] = "gone" \/ Holds(deletion.volume) = {}
        /\ UNCHANGED <<instance, image, vmQueue, vmJob, issued, vmStrays, strayVolumes, overlapped,
                       gaveUp>>
    <2>1. PICK old \in Deletions : old = deletion
      BY <1>1 DEF ComputerTypes
    <2>2. PICK new \in Deletions : new = [old EXCEPT !.pc = "done"]
      BY DEF Deletions
    <2>3. deletion' = new
      BY <2>1, <2>2 DEF DestroyVolume
    <2>4. new.pc = "done" /\ new.instance = old.instance /\ new.volume = old.volume
      BY <2>2 DEF Deletions
    <2>5. vm' = [vm EXCEPT !.state = "terminated"] /\ vm \in Rows /\ "terminated" \in VmStates
      BY <1>1 DEF DestroyVolume, ComputerTypes, VmStates
    <2>6. deletion.volume # 0 => deletion.volume \in Volumes
      BY <1>1 DEF ComputerTypes, Deletions, VolumeOrNone
    <2>7. /\ volume' \in [Volumes -> {"none", "there", "gone"}]
          /\ deletion.volume # 0 => volume'[deletion.volume] = "gone"
          /\ \A v \in Volumes : v # deletion.volume => volume'[v] = volume[v]
      BY <1>1, <2>6 DEF DestroyVolume, ComputerTypes
    <2>8. /\ deletion.pc = "volume"
          /\ deletion.volume # 0 => volume[deletion.volume] = "gone" \/ Holds(deletion.volume) = {}
          /\ UNCHANGED <<instance, image, vmQueue, vmJob, issued, vmStrays, strayVolumes, overlapped,
                         gaveUp>>
      BY DEF DestroyVolume, Available
    <2> QED
      BY <2>1, <2>3, <2>4, <2>5, <2>6, <2>7, <2>8, StateSet
  <1>5. ComputerTypes'
    BY <1>4, <1>1 DEF ComputerTypes
  <1>6. \A x \in VmSlots : JobOk(vmJob[x])'
    BY <1>4, <1>1, <1>2 DEF LaunchOrNone, JobOk, NoVmJob, ComputerTypes, JobRecords
  <1>7. InOrder'
    BY <1>4, <1>1, <1>2 DEF InOrder, JobOk, ComputerTypes, Rows, LaunchOrNone
  <1>8. TokensDiffer'
    BY <1>4, <1>1, <1>2 DEF TokensDiffer
  <1>9. LaunchesHidden'
    BY <1>4, <1>1, <1>2 DEF Hidden, LaunchesHidden
  <1>10. AttachedThere'
    <2>1. ASSUME NEW k \in Launches, instance[k].status \in {"running", "dying"}, instance[k].volume # 0
          PROVE  volume'[instance[k].volume] = "there"
      <3>1. instance[k].volume \in Volumes /\ volume[instance[k].volume] = "there"
        BY <1>1, <1>2, <2>1 DEF AttachedThere, ComputerTypes, Instances, VolumeOrNone
      <3> QED
        BY <1>4, <2>1, <3>1 DEF Holds
    <2>2. vm.volume # 0 => vm.volume \in Volumes
      BY <1>1 DEF ComputerTypes, Rows, VolumeOrNone
    <2>3. \A x \in VmSlots : vmJob[x].volume # 0 => vmJob[x].volume \in Volumes
      BY <1>1 DEF ComputerTypes, JobRecords, VolumeOrNone
    <2>4. vm.volume # 0 => volume'[vm.volume] # "none"
      BY <1>4, <1>2, <2>2 DEF AttachedThere
    <2>5. \A x \in VmSlots : vmJob[x].volume # 0 => volume'[vmJob[x].volume] # "none"
      BY <1>4, <1>2, <2>3 DEF AttachedThere
    <2> QED
      BY <1>4, <2>1, <2>4, <2>5 DEF AttachedThere
  <1>11. RowLeaves'
    BY <1>4, <1>3 DEF RowLeaves
  <1>12. InstanceLeaves'
    BY <1>4, <1>1, <1>3 DEF InstanceLeaves, Overtaken
  <1>13. FilesKept'
    BY <1>4, <1>1, <1>2, <1>3 DEF FilesKept
  <1>14. RestoresApart'
    BY <1>4, <1>1, <1>3 DEF RestoresApart, RestoreTrue, Leaving
  <1>15. RetryComes'
    BY <1>4, <1>1, <1>3 DEF RetryComes, Queued
  <1>16. ASSUME AloneInv, overlapped' = {}
         PROVE  AloneInv'
    <2>1. /\ \A y, x \in VmSlots : y # x => vmJob[y].pc = "idle" \/ vmJob[x].pc = "idle"
          /\ \A x \in VmSlots : SetupTrue(vmJob[x])
          /\ RowNames /\ RunningNamed /\ TokenNamed /\ VolumesNamed /\ VolumeLeaves
      BY <1>16 DEF AloneInv
    <2>2. \A y, x \in VmSlots : y # x => vmJob'[y].pc = "idle" \/ vmJob'[x].pc = "idle"
      BY <1>4, <1>1, <1>3, <2>1
    <2>3. \A x \in VmSlots : SetupTrue(vmJob[x])'
      BY <1>4, <1>1, <1>3, <2>1 DEF RowLeaves, SetupTrue, Leaving
    <2>4. RowNames'
      BY <1>4, <1>1, <1>3, <2>1 DEF RowNames
    <2>5. RunningNamed'
      BY <1>4, <1>1, <1>3, <2>1 DEF RunningNamed, Named
    <2>6. TokenNamed'
      BY <1>4, <1>1, <1>3, <2>1 DEF TokenNamed
    <2>7. VolumesNamed'
      BY <1>4, <1>1, <1>3, <2>1 DEF Volumes, VolumesNamed
    <2>8. VolumeLeaves'
      BY <1>4, <1>1, <1>3, <2>1 DEF ComputerTypes, Rows, VolumeOrNone, VolumeLeaves
    <2> QED
      BY <2>2, <2>3, <2>4, <2>5, <2>6, <2>7, <2>8 DEF AloneInv
  <1> QED
    BY <1>4, <1>5, <1>6, <1>7, <1>8, <1>9, <1>10, <1>11, <1>12, <1>13, <1>14, <1>15, <1>16
       DEF ComputerInv, JobsInv

LEMMA DeleteUserRowKeeps ==
    ASSUME ComputerInv, DeleteUserRow
    PROVE  ComputerInv'
  <1>1. ComputerTypes /\ (\A x \in VmSlots : JobOk(vmJob[x]))
    BY DEF ComputerInv, JobsInv
  <1>2. InOrder /\ TokensDiffer /\ LaunchesHidden /\ AttachedThere
    BY DEF ComputerInv, JobsInv
  <1>3. RowLeaves /\ InstanceLeaves /\ FilesKept /\ RestoresApart /\ RetryComes
    BY DEF ComputerInv, JobsInv
  <1>4. /\ deletion.pc = "done" /\ vm.state # "gone"
        /\ vm' \in Rows /\ vm'.state = "gone" /\ vm'.instance = vm.instance
        /\ vm'.volume = vm.volume /\ vm'.reg = 0 /\ vm'.token = 0
        /\ UNCHANGED <<instance, volume, image, vmQueue, vmJob, deletion, issued, vmStrays, strayVolumes,
                       overlapped, gaveUp>>
    <2>1. PICK row \in Rows : row = vm
      BY <1>1 DEF ComputerTypes
    <2>2. PICK next \in Rows : next = [row EXCEPT !.state = "gone", !.reg = 0, !.token = 0]
      BY DEF Rows, VmStates, LaunchOrNone
    <2>3. vm' = next
      BY <2>1, <2>2 DEF DeleteUserRow
    <2>4. /\ next.state = "gone" /\ next.instance = row.instance /\ next.volume = row.volume
          /\ next.reg = 0 /\ next.token = 0
      BY <2>2 DEF Rows
    <2> QED
      BY <2>1, <2>3, <2>4 DEF DeleteUserRow
  <1>5. ComputerTypes'
    BY <1>4, <1>1 DEF ComputerTypes
  <1>6. \A x \in VmSlots : JobOk(vmJob[x])'
    BY <1>4, <1>1, <1>2 DEF LaunchOrNone, JobOk, NoVmJob, ComputerTypes, JobRecords
  <1>7. InOrder'
    BY <1>4, <1>1, <1>2 DEF InOrder, JobOk, ComputerTypes, Rows, LaunchOrNone
  <1>8. TokensDiffer'
    BY <1>4, <1>1, <1>2 DEF TokensDiffer
  <1>9. LaunchesHidden'
    BY <1>4, <1>1, <1>2 DEF Hidden, LaunchesHidden
  <1>10. AttachedThere'
    BY <1>4, <1>1, <1>2 DEF AttachedThere, JobOk
  <1>11. RowLeaves'
    BY <1>4, <1>3 DEF RowLeaves
  <1>12. InstanceLeaves'
    BY <1>4, <1>1, <1>3 DEF InstanceLeaves, Overtaken
  <1>13. FilesKept'
    BY <1>4, <1>1, <1>2, <1>3 DEF FilesKept
  <1>14. RestoresApart'
    BY <1>4, <1>1, <1>3 DEF RestoresApart, RestoreTrue, Leaving
  <1>15. RetryComes'
    BY <1>4, <1>1, <1>3 DEF RetryComes, Queued
  <1>16. ASSUME AloneInv, overlapped' = {}
         PROVE  AloneInv'
    <2>1. /\ \A y, x \in VmSlots : y # x => vmJob[y].pc = "idle" \/ vmJob[x].pc = "idle"
          /\ \A x \in VmSlots : SetupTrue(vmJob[x])
          /\ RowNames /\ RunningNamed /\ TokenNamed /\ VolumesNamed /\ VolumeLeaves
      BY <1>16 DEF AloneInv
    <2>2. \A y, x \in VmSlots : y # x => vmJob'[y].pc = "idle" \/ vmJob'[x].pc = "idle"
      BY <1>4, <1>1, <1>3, <2>1
    <2>3. \A x \in VmSlots : SetupTrue(vmJob[x])'
      BY <1>4, <1>1, <1>3, <2>1
         DEF JobOk, ComputerTypes, JobRecords, LaunchOrNone, SetupTrue, Leaving
    <2>4. RowNames'
      BY <1>4, <1>1, <1>3, <2>1 DEF ComputerTypes, Rows, LaunchOrNone, RowNames
    <2>5. RunningNamed'
      BY <1>4, <1>1, <1>3, <2>1 DEF Launches, RunningNamed, Named
    <2>6. TokenNamed'
      BY <1>4, <1>1, <1>3, <2>1 DEF TokenNamed
    <2>7. VolumesNamed'
      BY <1>4, <1>1, <1>3, <2>1 DEF VolumesNamed
    <2>8. VolumeLeaves'
      BY <1>4, <1>1, <1>3, <2>1 DEF VolumeLeaves
    <2> QED
      BY <2>2, <2>3, <2>4, <2>5, <2>6, <2>7, <2>8 DEF AloneInv
  <1> QED
    BY <1>4, <1>5, <1>6, <1>7, <1>8, <1>9, <1>10, <1>11, <1>12, <1>13, <1>14, <1>15, <1>16
       DEF ComputerInv, JobsInv

LEMMA DeletionRetriedKeeps ==
    ASSUME ComputerInv, DeletionRetried
    PROVE  ComputerInv'
  <1>1. ComputerTypes /\ (\A x \in VmSlots : JobOk(vmJob[x]))
    BY DEF ComputerInv, JobsInv
  <1>2. InOrder /\ TokensDiffer /\ LaunchesHidden /\ AttachedThere
    BY DEF ComputerInv, JobsInv
  <1>3. RowLeaves /\ InstanceLeaves /\ FilesKept /\ RestoresApart /\ RetryComes
    BY DEF ComputerInv, JobsInv
  <1>4. /\ deletion.pc \in {"instance", "volume"}
        /\ deletion' \in Deletions /\ deletion'.pc = "none"
        /\ deletion'.instance = deletion.instance /\ deletion'.volume = deletion.volume
        /\ UNCHANGED <<vm, instance, volume, image, vmQueue, vmJob, issued, vmStrays, strayVolumes,
                       overlapped, gaveUp>>
    <2>1. PICK old \in Deletions : old = deletion
      BY <1>1 DEF ComputerTypes
    <2>2. PICK new \in Deletions : new = [old EXCEPT !.pc = "none"]
      BY DEF Deletions
    <2>3. deletion' = new
      BY <2>1, <2>2 DEF DeletionRetried
    <2>4. new.pc = "none" /\ new.instance = old.instance /\ new.volume = old.volume
      BY <2>2 DEF Deletions
    <2> QED
      BY <2>1, <2>3, <2>4 DEF DeletionRetried
  <1>5. ComputerTypes'
    BY <1>4, <1>1 DEF ComputerTypes
  <1>6. \A x \in VmSlots : JobOk(vmJob[x])'
    BY <1>4, <1>1, <1>2 DEF LaunchOrNone, JobOk, NoVmJob, ComputerTypes, JobRecords
  <1>7. InOrder'
    BY <1>4, <1>1, <1>2 DEF InOrder, JobOk, ComputerTypes, Rows, LaunchOrNone
  <1>8. TokensDiffer'
    BY <1>4, <1>1, <1>2 DEF TokensDiffer
  <1>9. LaunchesHidden'
    BY <1>4, <1>1, <1>2 DEF Hidden, LaunchesHidden
  <1>10. AttachedThere'
    BY <1>4, <1>1, <1>2 DEF AttachedThere, JobOk
  <1>11. RowLeaves'
    BY <1>4, <1>3 DEF RowLeaves
  <1>12. InstanceLeaves'
    BY <1>4, <1>1, <1>3 DEF InstanceLeaves, Overtaken
  <1>13. FilesKept'
    BY <1>4, <1>1, <1>2, <1>3 DEF FilesKept
  <1>14. RestoresApart'
    BY <1>4, <1>1, <1>3 DEF RestoresApart, RestoreTrue, Leaving
  <1>15. RetryComes'
    BY <1>4, <1>1, <1>3 DEF RowLeaves, RetryComes, Queued
  <1>16. ASSUME AloneInv, overlapped' = {}
         PROVE  AloneInv'
    <2>1. /\ \A y, x \in VmSlots : y # x => vmJob[y].pc = "idle" \/ vmJob[x].pc = "idle"
          /\ \A x \in VmSlots : SetupTrue(vmJob[x])
          /\ RowNames /\ RunningNamed /\ TokenNamed /\ VolumesNamed /\ VolumeLeaves
      BY <1>16 DEF AloneInv
    <2>2. \A y, x \in VmSlots : y # x => vmJob'[y].pc = "idle" \/ vmJob'[x].pc = "idle"
      BY <1>4, <1>1, <1>3, <2>1
    <2>3. \A x \in VmSlots : SetupTrue(vmJob[x])'
      BY <1>4, <1>1, <1>3, <2>1
         DEF JobOk, ComputerTypes, JobRecords, LaunchOrNone, SetupTrue, Leaving
    <2>4. RowNames'
      BY <1>4, <1>1, <1>3, <2>1 DEF ComputerTypes, Rows, LaunchOrNone, RowNames
    <2>5. RunningNamed'
      BY <1>4, <1>1, <1>3, <2>1 DEF RunningNamed, Named
    <2>6. TokenNamed'
      BY <1>4, <1>1, <1>3, <2>1 DEF TokenNamed
    <2>7. VolumesNamed'
      BY <1>4, <1>1, <1>3, <2>1 DEF VolumesNamed
    <2>8. VolumeLeaves'
      BY <1>4, <1>1, <1>3, <2>1 DEF VolumeLeaves
    <2> QED
      BY <2>2, <2>3, <2>4, <2>5, <2>6, <2>7, <2>8 DEF AloneInv
  <1> QED
    BY <1>4, <1>5, <1>6, <1>7, <1>8, <1>9, <1>10, <1>11, <1>12, <1>13, <1>14, <1>15, <1>16
       DEF ComputerInv, JobsInv

-----------------------------------------------------------------------------
(* The invariant, and what it says.                                        *)

LEMMA ComputerStutters ==
    ASSUME ComputerInv, UNCHANGED vmVars
    PROVE  ComputerInv'
  <1>1. UNCHANGED <<vm, instance, volume, image, vmQueue, vmJob, deletion, issued, vmStrays,
                    strayVolumes, overlapped, gaveUp>>
    BY DEF vmVars
  <1>2. /\ image' \in {"old", "new"}
        /\ vmQueue' \subseteq [kind : Kinds, attempt : 0 .. ProvisionAttempts]
    BY <1>1 DEF ComputerInv, JobsInv, ComputerTypes
  <1>3. Queued("provision") \/ Queued("replace") => Queued("provision")' \/ Queued("replace")'
    BY <1>1 DEF Queued
  <1> QED
    BY <1>1, <1>2, <1>3, QueueGrowsKeeps

LEMMA ComputerBegins ==
    ASSUME ComputerInit
    PROVE  ComputerInv
  <1>1. /\ vm = [state |-> "requested", instance |-> 0, volume |-> 0, image |-> "none", reg |-> 0,
                 token |-> 0, failures |-> 0]
        /\ \A k \in Launches : instance[k].status = "none"
        /\ \A v \in Volumes : volume[v] = "none"
        /\ \A w \in VmSlots : vmJob[w] = NoVmJob
        /\ deletion = [pc |-> "none", instance |-> 0, volume |-> 0]
        /\ issued = 0
    BY DEF ComputerInit
  <1>2. \A w \in VmSlots :
           /\ vmJob[w].pc = "idle" /\ vmJob[w].kind = "none" /\ vmJob[w].token = 0
           /\ vmJob[w].instance = 0 /\ vmJob[w].volume = 0 /\ vmJob[w].retire = 0
           /\ vmJob[w].made = FALSE
    BY <1>1 DEF NoVmJob
  <1>3. /\ vm.state = "requested" /\ vm.instance = 0 /\ vm.volume = 0 /\ vm.token = 0
        /\ deletion.pc = "none" /\ deletion.instance = 0
    BY <1>1
  <1>4. ComputerTypes
    <2>1. vm \in Rows /\ deletion \in Deletions
      BY <1>1 DEF Rows, Deletions, VmStates, LaunchOrNone, VolumeOrNone
    <2>2. NoVmJob \in JobRecords
      BY DEF NoVmJob, JobRecords, JobPoints, LaunchOrNone, VolumeOrNone
    <2>3. vmJob \in [VmSlots -> JobRecords]
      BY <2>2 DEF ComputerInit
    <2>4. [status |-> "none", volume |-> 0, image |-> "old", auth |-> "no"] \in Instances
      BY DEF Instances, VolumeOrNone
    <2>5. instance \in [Launches -> Instances]
      BY <2>4 DEF ComputerInit
    <2>6. [kind |-> "provision", attempt |-> 0] \in [kind : Kinds, attempt : 0 .. ProvisionAttempts]
      BY ComputerAssumption DEF Kinds
    <2>7. issued \in 0 .. MaxLaunches
      BY <1>1, ComputerAssumption
    <2> QED
      BY <2>1, <2>3, <2>5, <2>6, <2>7 DEF ComputerInit, ComputerTypes
  <1>5. \A w \in VmSlots : JobOk(vmJob[w])
    BY <1>1, <1>2 DEF JobOk
  <1>6. InOrder /\ TokensDiffer /\ LaunchesHidden /\ AttachedThere
    BY <1>1, <1>2, <1>3 DEF InOrder, TokensDiffer, LaunchesHidden, AttachedThere
  <1>7. RowLeaves /\ InstanceLeaves /\ FilesKept /\ RestoresApart /\ RetryComes
    BY <1>1, <1>2, <1>3 DEF RowLeaves, InstanceLeaves, FilesKept, RestoresApart, RetryComes
  <1>8. AloneInv
    <2>1. \A w, x \in VmSlots : w # x => vmJob[w].pc = "idle" \/ vmJob[x].pc = "idle"
      BY <1>2
    <2>2. \A w \in VmSlots : SetupTrue(vmJob[w])
      BY <1>2 DEF SetupTrue
    <2>3. RowNames /\ RunningNamed /\ TokenNamed /\ VolumesNamed /\ VolumeLeaves
      BY <1>1, <1>3 DEF RowNames, RunningNamed, TokenNamed, VolumesNamed, VolumeLeaves
    <2> QED
      BY <2>1, <2>2, <2>3 DEF AloneInv
  <1> QED
    BY <1>4, <1>5, <1>6, <1>7, <1>8 DEF ComputerInv, JobsInv

\* The invariant says what the runs check.
LEMMA ComputerInvKept ==
    ASSUME ComputerInv
    PROVE  ComputerKept
  <1>1. ComputerTypes /\ (\A w \in VmSlots : JobOk(vmJob[w])) /\ RowLeaves /\ InstanceLeaves
    BY DEF ComputerInv, JobsInv
  <1>2. FilesKept
    BY DEF ComputerInv, JobsInv
  <1>3. FailureRetried
    <2>1. ASSUME NEW w \in VmSlots, vmJob[w].pc # "idle"
          PROVE  Working # {}
      BY <2>1 DEF Working, NoVmJob
    <2>2. RetryComes
      BY DEF ComputerInv, JobsInv
    <2> QED
      BY <2>1, <2>2 DEF RetryComes, FailureRetried
  <1>4. ASSUME overlapped = {}
        PROVE  AloneInv
    BY <1>4 DEF ComputerInv
  <1>5. UpIsNamed
    <2>1. SUFFICES ASSUME vm.state \in {"ready", "unhealthy"}, overlapped = {}
                   PROVE  \/ /\ vm.token = vm.instance /\ vm.token # 0
                             /\ instance[vm.instance].status = "running"
                             /\ instance[vm.instance].volume \in
                                  ({vm.volume} \cup strayVolumes \cup {vmJob[w].retire : w \in VmSlots}) \ {0}
                          \/ vm.token \in vmStrays
      BY DEF UpIsNamed
    <2>2. RowNames /\ TokenNamed
      BY <1>4, <2>1 DEF AloneInv
    <2> QED
      BY <2>1, <2>2 DEF RowNames, TokenNamed
  <1>6. NoneUnknown
    BY <1>4 DEF NoneUnknown, AloneInv, RunningNamed, Named
  <1>7. NothingOutlives
    <2>1. SUFFICES ASSUME vm.state = "gone", overlapped = {}
                   PROVE  /\ \A k \in Launches : instance[k].status = "running" =>
                                k \in vmStrays \/ \E w \in VmSlots : vmJob[w].token = k
                          /\ \A v \in Volumes : volume[v] = "there" =>
                                \/ v \in strayVolumes
                                \/ \E w \in VmSlots : v \in {vmJob[w].volume, vmJob[w].retire}
      BY DEF NothingOutlives
    <2>2. RunningNamed /\ VolumesNamed /\ VolumeLeaves
      BY <1>4, <2>1 DEF AloneInv
    <2>3. deletion.pc = "done"
      BY <1>1, <2>1 DEF RowLeaves
    <2>4. \A k \in Launches : instance[k].status = "running" =>
              k \in vmStrays \/ \E w \in VmSlots : vmJob[w].token = k
      BY <1>1, <2>2, <2>3 DEF RunningNamed, Named, InstanceLeaves, Overtaken
    <2>5. \A v \in Volumes : volume[v] = "there" =>
              v \in strayVolumes \/ \E w \in VmSlots : v \in {vmJob[w].volume, vmJob[w].retire}
      BY <2>2, <2>3 DEF VolumesNamed, VolumeLeaves, Volumes
    <2> QED
      BY <2>4, <2>5
  <1> QED
    BY <1>2, <1>3, <1>5, <1>6, <1>7 DEF ComputerKept

\* For any number of jobs at work at once, of launches, of volumes and of faults: a
\* computer that is up is the one its row names, the user's files stay until the user
\* leaves, a failed setup is retried, no instance runs that nothing names, and nothing
\* outlives the account but what its jobs are on record as having left.
THEOREM ComputerIsKept == ComputerSpec => []ComputerKept
  <1>1. ComputerInit => ComputerInv
    BY ComputerBegins
  <1>2. ComputerInv /\ [ComputerNext]_vmVars => ComputerInv'
    <2>1. SUFFICES ASSUME ComputerInv, [ComputerNext]_vmVars
                   PROVE  ComputerInv'
      OBVIOUS
    <2>2. ASSUME NEW w \in VmSlots, VmJobStep(w)
          PROVE  ComputerInv'
      <3>1. CASE StartVmJob(w) \/ RestoreVolume(w) \/ UseVolume(w) \/ RetireVolume(w)
        BY <2>1, <3>1, StartVmJobKeeps, RestoreVolumeKeeps, UseVolumeKeeps, RetireVolumeKeeps
      <3>2. CASE VmJobThrows(w) \/ VmWorkerDies(w)
        BY <2>1, <3>2, VmJobThrowsKeeps, VmWorkerDiesKeeps
      <3>3. CASE ProvisionStep(w)
        BY <2>1, <3>3, ReadVmKeeps, MoveVmKeeps, DestroyOldKeeps, ClearOldKeeps, IssueTokenKeeps,
           FindVolumeKeeps, LaunchKeeps, AttachKeeps, RecordInstanceKeeps, ProvisionedKeeps
           DEF ProvisionStep
      <3> QED
        BY <2>2, <3>1, <3>2, <3>3 DEF VmJobStep
    <2>3. CASE GatewayStep
      BY <2>1, <2>3, AuthenticateKeeps, RegisterKeeps, HelloKeeps, InstanceGoneKeeps,
         MissedPingsKeeps, SetupTimeoutKeeps DEF GatewayStep
    <2>4. CASE LeaveStep
      BY <2>1, <2>4, DropJobsKeeps, TerminateVmKeeps, DestroyInstanceKeeps, DestroyVolumeKeeps,
         DeleteUserRowKeeps, DeletionRetriedKeeps DEF LeaveStep
    <2>5. CASE RetryFailedVm \/ SweepRollouts \/ Operator \/ PublishImage
      BY <2>1, <2>5, QueueingKeeps
    <2>6. CASE UNCHANGED vmVars
      BY <2>1, <2>6, ComputerStutters
    <2> QED
      BY <2>1, <2>2, <2>3, <2>4, <2>5, <2>6 DEF ComputerNext
  <1>3. ComputerInv => ComputerKept
    BY ComputerInvKept
  <1> QED
    BY <1>1, <1>2, <1>3, PTL DEF ComputerSpec
=============================================================================
