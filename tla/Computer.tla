------------------------------- MODULE Computer -------------------------------
(***************************************************************************)
(* A user's computer (apps/agents/src/vm): its row, the EC2 instances and  *)
(* volumes behind it, the jobs that provision, roll and restore it, the    *)
(* gateway that registers it and fails it, and the deletion of its user.   *)
(*                                                                         *)
(* An instance is named by the registration token it was launched with,    *)
(* and a VM token by the registration token it was given for.  The image   *)
(* is old or new; what is on a volume is left out.                         *)
(***************************************************************************)
EXTENDS Naturals, FiniteSets

CONSTANTS
    VmSlots,            \* VM jobs the workers run at once
    MaxLaunches,        \* bound: registration tokens issued
    MaxVolumes,         \* bound: data volumes
    ProvisionAttempts,  \* provisionVmJob.maxAttempts
    AutoRetries,        \* provisionVmJob.autoRetries
    MaxOperations,      \* bound: replacements and restores an operator asks for
    MaxVmFaults         \* bound: crashes, lost replies, timeouts of a job at work

ASSUME ComputerAssumption ==
    {MaxLaunches, MaxVolumes, ProvisionAttempts, AutoRetries, MaxOperations,
     MaxVmFaults} \subseteq Nat

VARIABLES
    vm,                 \* the row of vms, or what is left of it
    instance,           \* EC2's instances
    volume,             \* EC2's data volumes
    image,              \* the image new instances are built from
    vmQueue,            \* the user's queued VM jobs, with the attempts made
    vmJob,              \* the running ones
    deletion,           \* how far delete_user is, and what it read
    \* history
    issued,             \* the last registration token
    vmStrays,           \* instances whose job failed, or was overtaken, unrecorded
    strayVolumes,       \* volumes likewise
    overlapped,         \* the kinds of VM jobs that were at work beside another
    operations,         \* what an operator asked for so far
    gaveUp,             \* a job ran out of attempts without failing the setup
    vmFaults

vmVars == <<vm, instance, volume, image, vmQueue, vmJob, deletion, issued, vmStrays,
            strayVolumes, overlapped, operations, gaveUp, vmFaults>>

Launches == 1 .. MaxLaunches
Volumes == 1 .. MaxVolumes
Kinds == {"provision", "replace", "roll", "restore"}

\* requested to terminated as in vm-state.ts; "gone" once the row is deleted.
VmStates == {"requested", "provisioning", "registering", "ready", "unhealthy", "failed",
             "terminating", "terminated", "gone"}
VmRows == [state : VmStates, instance : Nat, volume : Nat, image : {"none", "old", "new"},
           reg : Nat, token : Nat, failures : Nat]

NoVmJob == [pc |-> "idle", kind |-> "none", attempt |-> 0, replace |-> FALSE, state |-> "none",
            instance |-> 0, token |-> 0, volume |-> 0, made |-> FALSE, retire |-> 0]

VmFault == vmFaults < MaxVmFaults /\ vmFaults' = vmFaults + 1

\* The moves applyVmEvent makes for the jobs: it throws on the others.
Legal(event, state) ==
    \/ event = "provision" /\ state = "requested"
    \/ event = "provisioned" /\ state = "provisioning"
    \/ event = "retry" /\ state = "failed"
    \/ event = "replace" /\ state \in {"ready", "unhealthy", "failed"}

\* A volume attaches to one instance, and is free once that one is gone.
Holds(v) == {k \in Launches : instance[k].status \in {"running", "dying"} /\ instance[k].volume = v}
Available(v) == volume[v] = "there" /\ Holds(v) = {}

Working == {w \in VmSlots : vmJob[w] # NoVmJob}
Queued(kind) == \E q \in vmQueue : q.kind = kind

\* Jobs at work at once, when one more begins.
Beside(kind) ==
    IF Working = {} THEN {} ELSE {kind} \cup {vmJob[w].kind : w \in Working}

\* Provisioning, plain or to replace, shares a dedupe key: what is queued stays.
WithJob(queue, kind) ==
    LET same == IF kind \in {"provision", "replace"} THEN {"provision", "replace"} ELSE {kind}
    IN  IF \E q \in queue : q.kind \in same THEN queue
        ELSE queue \cup {[kind |-> kind, attempt |-> 0]}

\* What a job leaves behind that no row names.
Stray(w) ==
    IF vmJob[w].token # 0 /\ instance[vmJob[w].token].status = "running"
    THEN {vmJob[w].token} ELSE {}
StrayVolume(w) ==
    {v \in Volumes : \/ v = vmJob[w].volume /\ vmJob[w].made
                     \/ v = vmJob[w].retire /\ v # vm.volume}

\* delete_user has read the row: it will not see what changes from here on.
Overtaken == deletion.pc \notin {"none", "read"}

VmGo(w, pc) == vmJob' = [vmJob EXCEPT ![w].pc = pc]

\* failVmSetup, in one transaction: the row, and the automatic retry.
FailedSetup(row, queue) ==
    LET failed == [row EXCEPT !.state = "failed", !.failures = @ + 1] IN
    <<failed, IF failed.failures <= AutoRetries THEN WithJob(queue, "provision") ELSE queue>>

-----------------------------------------------------------------------------
(* The jobs                                                                *)

\* A job is leased.  A roll looks again whether the VM should move (nothing runs and
\* no handoff is live, in its hours), and ends when it should not.
StartVmJob(w) ==
    /\ vmJob[w] = NoVmJob
    /\ \E q \in vmQueue :
          /\ vmQueue' = vmQueue \ {q}
          /\ \/ /\ vmJob' = [vmJob EXCEPT ![w] =
                    [NoVmJob EXCEPT !.kind = q.kind, !.attempt = q.attempt + 1,
                       !.replace = q.kind # "provision",
                       !.pc = IF q.kind = "restore" THEN "restore" ELSE "row"]]
                /\ q.kind = "roll" => vm.state = "ready" /\ vm.image # image
                /\ overlapped' = overlapped \cup Beside(q.kind)
             \/ q.kind = "roll" /\ UNCHANGED <<vmJob, overlapped>>
    /\ UNCHANGED <<vm, instance, volume, image, deletion, issued, vmStrays, strayVolumes, operations, gaveUp,
                   vmFaults>>

\* restoreVm: from which state, and a new volume from the latest snapshot.
RestoreVolume(w) ==
    /\ vmJob[w].pc = "restore" /\ vm.state \in {"ready", "unhealthy", "failed"}
    /\ \E v \in Volumes :
          /\ volume[v] = "none" /\ \A x \in 1 .. v - 1 : volume[x] # "none"
          /\ volume' = [volume EXCEPT ![v] = "there"]
          /\ vmJob' = [vmJob EXCEPT ![w] = [@ EXCEPT !.pc = "use", !.volume = v, !.made = TRUE,
                                                     !.retire = vm.volume]]
    /\ UNCHANGED <<vm, instance, image, vmQueue, deletion, issued, vmStrays, strayVolumes,
                   overlapped, operations, gaveUp, vmFaults>>

UseVolume(w) ==
    /\ vmJob[w].pc = "use"
    /\ vmJob' = [vmJob EXCEPT ![w] = [@ EXCEPT !.pc = "row", !.made = FALSE]]
    /\ vm' = IF vm.state = "gone" THEN vm ELSE [vm EXCEPT !.volume = vmJob[w].volume]
    /\ strayVolumes' = IF Overtaken THEN strayVolumes \cup StrayVolume(w) ELSE strayVolumes
    /\ UNCHANGED <<instance, volume, image, vmQueue, deletion, issued, vmStrays, overlapped,
                   operations, gaveUp, vmFaults>>

\* provisionVm begins: from the state it reads, a move, more of a setup under way, or
\* nothing to do (a restore still has its old volume to retire).
ReadVm(w) ==
    LET next == IF vm.state = "provisioning" THEN "issue"
                ELSE IF \/ vm.state \in {"requested", "failed"}
                        \/ vm.state \in {"ready", "unhealthy"} /\ vmJob[w].replace THEN "move"
                ELSE IF vmJob[w].retire # 0 THEN "retire" ELSE "idle"
    IN  /\ vmJob[w].pc = "row" /\ vm.state # "gone"
        /\ vmJob' = [vmJob EXCEPT ![w] =
              IF next = "idle" THEN NoVmJob
              ELSE [@ EXCEPT !.pc = next, !.state = vm.state, !.instance = vm.instance]]
        /\ UNCHANGED <<vm, instance, volume, image, vmQueue, deletion, issued, vmStrays,
                       strayVolumes, overlapped, operations, gaveUp, vmFaults>>

\* The event for what was read, applied to the state there is: illegal moves throw.
Moves(w) ==
    LET event == IF vmJob[w].state = "requested" THEN "provision"
                 ELSE IF vmJob[w].replace THEN "replace" ELSE "retry"
    IN  Legal(event, vm.state)

Replacing(w) == vmJob[w].replace /\ vmJob[w].state \in {"ready", "unhealthy", "failed"}

MoveVm(w) ==
    /\ vmJob[w].pc = "move" /\ Moves(w)
    /\ vm' = [vm EXCEPT !.state = "provisioning"]
    /\ VmGo(w, IF Replacing(w) THEN "destroy" ELSE "issue")
    /\ UNCHANGED <<instance, volume, image, vmQueue, deletion, issued, vmStrays, strayVolumes,
                   overlapped, operations, gaveUp, vmFaults>>

Terminated(k) ==
    IF k # 0 /\ instance[k].status = "running" THEN [instance EXCEPT ![k].status = "dying"]
    ELSE instance

DestroyOld(w) ==
    /\ vmJob[w].pc = "destroy"
    /\ instance' = Terminated(vmJob[w].instance)
    /\ VmGo(w, "clear")
    /\ UNCHANGED <<vm, volume, image, vmQueue, deletion, issued, vmStrays, strayVolumes,
                   overlapped, operations, gaveUp, vmFaults>>

\* The old instance's VM token goes with it.
ClearOld(w) ==
    /\ vmJob[w].pc = "clear"
    /\ vm' = IF vm.state = "gone" THEN vm ELSE [vm EXCEPT !.token = 0, !.instance = 0]
    /\ VmGo(w, "issue")
    /\ UNCHANGED <<instance, volume, image, vmQueue, deletion, issued, vmStrays, strayVolumes,
                   overlapped, operations, gaveUp, vmFaults>>

\* issueRegistrationToken: any earlier one is worth nothing from here on.
IssueToken(w) ==
    /\ vmJob[w].pc = "issue" /\ issued < MaxLaunches
    /\ issued' = issued + 1
    /\ vm' = IF vm.state = "gone" THEN vm ELSE [vm EXCEPT !.reg = issued']
    /\ vmJob' = [vmJob EXCEPT ![w] = [@ EXCEPT !.pc = "volume", !.token = issued']]
    /\ UNCHANGED <<instance, volume, image, vmQueue, deletion, vmStrays, strayVolumes, overlapped,
                   operations, gaveUp, vmFaults>>

RowVolume == IF vm.state = "gone" THEN 0 ELSE vm.volume

\* create: the row's volume, or the user's, or a new one.
FindVolume(w) ==
    /\ vmJob[w].pc = "volume"
    /\ \E v \in Volumes :
          /\ \/ RowVolume \in {v, 0} /\ volume[v] = "there" /\ UNCHANGED volume
             \/ /\ RowVolume = 0 /\ \A x \in Volumes : volume[x] # "there"
                /\ volume[v] = "none" /\ \A x \in 1 .. v - 1 : volume[x] # "none"
                /\ volume' = [volume EXCEPT ![v] = "there"]
          /\ vmJob' = [vmJob EXCEPT ![w] = [@ EXCEPT !.pc = "launch", !.volume = v,
                                                     !.made = (volume[v] = "none")]]
    /\ UNCHANGED <<vm, instance, image, vmQueue, deletion, issued, vmStrays, strayVolumes,
                   overlapped, operations, gaveUp, vmFaults>>

Launch(w) ==
    /\ vmJob[w].pc = "launch" /\ Available(vmJob[w].volume)
    /\ instance' = [instance EXCEPT ![vmJob[w].token] =
                      [status |-> "running", volume |-> 0, image |-> image, auth |-> "no"]]
    /\ VmGo(w, "attach")
    /\ UNCHANGED <<vm, volume, image, vmQueue, deletion, issued, vmStrays, strayVolumes,
                   overlapped, operations, gaveUp, vmFaults>>

Attach(w) ==
    /\ vmJob[w].pc = "attach" /\ Available(vmJob[w].volume)
    /\ instance[vmJob[w].token].status = "running"
    /\ instance' = [instance EXCEPT ![vmJob[w].token].volume = vmJob[w].volume]
    /\ VmGo(w, "record")
    /\ UNCHANGED <<vm, volume, image, vmQueue, deletion, issued, vmStrays, strayVolumes,
                   overlapped, operations, gaveUp, vmFaults>>

\* The row learns of its instance, unless delete_user has read it by now.  An earlier
\* instance the row named is forgotten, not destroyed: it is there when setup failed
\* and a restore that failed as well has put another volume in the row.
RecordInstance(w) ==
    /\ vmJob[w].pc = "record"
    /\ vm' = IF vm.state = "gone" THEN vm
             ELSE [vm EXCEPT !.instance = vmJob[w].token, !.volume = vmJob[w].volume,
                             !.image = instance[vmJob[w].token].image]
    /\ vmJob' = [vmJob EXCEPT ![w] = [@ EXCEPT !.pc = "provisioned", !.made = FALSE]]
    /\ vmStrays' = vmStrays \cup (IF Overtaken THEN Stray(w) ELSE {})
                             \cup {k \in Launches : k = vm.instance /\ instance[k].status = "running"}
    /\ strayVolumes' = IF Overtaken THEN strayVolumes \cup StrayVolume(w) ELSE strayVolumes
    /\ UNCHANGED <<instance, volume, image, vmQueue, deletion, issued, overlapped, operations, gaveUp,
                   vmFaults>>

Provisioned(w) ==
    /\ vmJob[w].pc = "provisioned" /\ Legal("provisioned", vm.state)
    /\ vm' = [vm EXCEPT !.state = "registering"]
    /\ vmJob' = [vmJob EXCEPT ![w] = IF @.retire = 0 THEN NoVmJob ELSE [@ EXCEPT !.pc = "retire"]]
    /\ UNCHANGED <<instance, volume, image, vmQueue, deletion, issued, vmStrays, strayVolumes,
                   overlapped, operations, gaveUp, vmFaults>>

\* retireDataVolume: the volume a restore replaced, once it is free.
RetireVolume(w) ==
    /\ vmJob[w].pc = "retire"
    /\ volume[vmJob[w].retire] = "gone" \/ Available(vmJob[w].retire)
    /\ volume' = [volume EXCEPT ![vmJob[w].retire] = "gone"]
    /\ vmJob' = [vmJob EXCEPT ![w] = NoVmJob]
    /\ UNCHANGED <<vm, instance, image, vmQueue, deletion, issued, vmStrays, strayVolumes,
                   overlapped, operations, gaveUp, vmFaults>>

\* What makes a job throw: an illegal move, no row, a volume that is gone or that
\* never gets free, an instance that died.
Stuck(w) ==
    \/ vm.state = "gone" /\ vmJob[w].pc \in {"restore", "row", "move", "provisioned"}
    \/ vmJob[w].pc = "restore" /\ vm.state \notin {"ready", "unhealthy", "failed"}
    \/ vmJob[w].pc = "move" /\ ~Moves(w)
    \/ vmJob[w].pc = "volume" /\ RowVolume # 0 /\ volume[RowVolume] = "gone"
    \/ vmJob[w].pc \in {"launch", "attach"} /\ ~Available(vmJob[w].volume)
    \/ vmJob[w].pc = "attach" /\ instance[vmJob[w].token].status # "running"
    \/ vmJob[w].pc = "provisioned" /\ ~Legal("provisioned", vm.state)
    \/ vmJob[w].pc = "retire" /\ Holds(vmJob[w].retire) # {}

Unrecorded(w) ==
    /\ vmStrays' = IF vmJob[w].pc \in {"attach", "record"} THEN vmStrays \cup Stray(w) ELSE vmStrays
    /\ strayVolumes' = strayVolumes \cup StrayVolume(w)

LastAttempt(w) ==
    vmJob[w].kind \notin {"provision", "replace"} \/ vmJob[w].attempt >= ProvisionAttempts

Requeued(w) ==
    IF \E q \in vmQueue : q.kind \in {"provision", "replace"} THEN vmQueue
    ELSE vmQueue \cup {[kind |-> vmJob[w].kind, attempt |-> vmJob[w].attempt]}

\* A job throws.  Provisioning is tried again, and after its last attempt the setup
\* has failed (markSetupFailed); a roll or a restore has one attempt.
VmJobThrows(w) ==
    /\ vmJob[w] # NoVmJob
    /\ \/ Stuck(w) /\ UNCHANGED vmFaults
       \/ VmFault
    /\ Unrecorded(w)
    /\ vmJob' = [vmJob EXCEPT ![w] = NoVmJob]
    /\ LET inSetup == vm.state \in {"provisioning", "registering"}
           ran == vmJob[w].kind \in {"provision", "replace"}
       IN  IF ran /\ LastAttempt(w) /\ inSetup
           THEN /\ vm' = FailedSetup(vm, vmQueue)[1] /\ vmQueue' = FailedSetup(vm, vmQueue)[2]
                /\ UNCHANGED gaveUp
           ELSE /\ UNCHANGED vm
                /\ IF ran /\ ~LastAttempt(w) THEN vmQueue' = Requeued(w) /\ UNCHANGED gaveUp
                   ELSE gaveUp' = TRUE /\ UNCHANGED vmQueue
    /\ UNCHANGED <<instance, volume, image, deletion, issued, overlapped, operations>>

\* Its worker dies: the queue runs it again while attempts are left, and no one
\* fails the setup but the gateway's timeout.
VmWorkerDies(w) ==
    /\ vmJob[w] # NoVmJob
    /\ VmFault
    /\ Unrecorded(w)
    /\ vmJob' = [vmJob EXCEPT ![w] = NoVmJob]
    /\ IF LastAttempt(w) THEN gaveUp' = TRUE /\ UNCHANGED vmQueue
       ELSE vmQueue' = Requeued(w) /\ UNCHANGED gaveUp
    /\ UNCHANGED <<vm, instance, volume, image, deletion, issued, overlapped, operations>>

-----------------------------------------------------------------------------
(* What queues them                                                        *)

\* The retry button.
RetryFailedVm ==
    /\ vm.state = "failed" /\ deletion.pc = "none"
    /\ vmQueue' = WithJob(vmQueue, "provision") /\ vmQueue' # vmQueue
    /\ UNCHANGED <<vm, instance, volume, image, vmJob, deletion, issued, vmStrays, strayVolumes,
                   overlapped, operations, gaveUp, vmFaults>>

\* sweepRollouts.
SweepRollouts ==
    /\ vm.state = "ready" /\ vm.image # image
    /\ vmQueue' = WithJob(vmQueue, "roll") /\ vmQueue' # vmQueue
    /\ UNCHANGED <<vm, instance, volume, image, vmJob, deletion, issued, vmStrays, strayVolumes,
                   overlapped, operations, gaveUp, vmFaults>>

\* An operator asks for a replacement or a restore.
Operator ==
    /\ vm.state \notin {"terminated", "gone"}
    /\ operations < MaxOperations /\ operations' = operations + 1
    /\ \E kind \in {"replace", "restore"} :
          vmQueue' = WithJob(vmQueue, kind) /\ vmQueue' # vmQueue
    /\ UNCHANGED <<vm, instance, volume, image, vmJob, deletion, issued, vmStrays, strayVolumes,
                   overlapped, gaveUp, vmFaults>>

PublishImage ==
    /\ image = "old" /\ image' = "new"
    /\ UNCHANGED <<vm, instance, volume, vmQueue, vmJob, deletion, issued, vmStrays, strayVolumes,
                   overlapped, operations, gaveUp, vmFaults>>

-----------------------------------------------------------------------------
(* The gateway                                                             *)

\* A socket opens with a registration token, which counts while its VM registers.
Authenticate(k) ==
    /\ instance[k].status = "running" /\ instance[k].auth = "no"
    /\ vm.state = "registering" /\ vm.reg = k
    /\ instance' = [instance EXCEPT ![k].auth = "open"]
    /\ UNCHANGED <<vm, volume, image, vmQueue, vmJob, deletion, issued, vmStrays, strayVolumes,
                   overlapped, operations, gaveUp, vmFaults>>

\* register: one update that stores the VM token and burns the registration token.
\* The reply may be lost with the socket: then no one has either token.
Register(k) ==
    /\ instance[k].status = "running" /\ instance[k].auth = "open"
    /\ IF vm.reg = k
       THEN /\ vm' = [vm EXCEPT !.token = k, !.reg = 0]
            /\ \/ instance' = [instance EXCEPT ![k].auth = "token"] /\ UNCHANGED vmFaults
               \/ instance' = [instance EXCEPT ![k].auth = "lost"] /\ VmFault
       ELSE instance' = [instance EXCEPT ![k].auth = "lost"] /\ UNCHANGED <<vm, vmFaults>>
    /\ UNCHANGED <<volume, image, vmQueue, vmJob, deletion, issued, vmStrays, strayVolumes,
                   overlapped, operations, gaveUp>>

\* A VM with its token says hello, or pings: registered or recovered.
Hello(k) ==
    /\ instance[k].status = "running" /\ instance[k].auth = "token" /\ vm.token = k
    /\ vm.state \in {"registering", "unhealthy"}
    /\ vm' = [vm EXCEPT !.state = "ready", !.failures = 0]
    /\ UNCHANGED <<instance, volume, image, vmQueue, vmJob, deletion, issued, vmStrays,
                   strayVolumes, overlapped, operations, gaveUp, vmFaults>>

MissedPings ==
    /\ vm.state = "ready" /\ vm' = [vm EXCEPT !.state = "unhealthy"]
    /\ UNCHANGED <<instance, volume, image, vmQueue, vmJob, deletion, issued, vmStrays,
                   strayVolumes, overlapped, operations, gaveUp, vmFaults>>

\* The sweep fails a setup that takes too long, a job at work on it or not.
SetupTimeout ==
    /\ vm.state \in {"provisioning", "registering"}
    /\ IF Working = {} THEN UNCHANGED vmFaults ELSE VmFault
    /\ vm' = FailedSetup(vm, vmQueue)[1] /\ vmQueue' = FailedSetup(vm, vmQueue)[2]
    /\ UNCHANGED <<instance, volume, image, vmJob, deletion, issued, vmStrays, strayVolumes,
                   overlapped, operations, gaveUp>>

\* EC2 finishes terminating an instance.
InstanceGone(k) ==
    /\ instance[k].status = "dying"
    /\ instance' = [instance EXCEPT ![k].status = "gone", ![k].volume = 0]
    /\ UNCHANGED <<vm, volume, image, vmQueue, vmJob, deletion, issued, vmStrays, strayVolumes,
                   overlapped, operations, gaveUp, vmFaults>>

-----------------------------------------------------------------------------
(* The user leaves                                                         *)

\* delete_user drops the queued jobs.
DropJobs ==
    /\ deletion.pc = "none"
    /\ deletion' = [deletion EXCEPT !.pc = "read"] /\ vmQueue' = {}
    /\ UNCHANGED <<vm, instance, volume, image, vmJob, issued, vmStrays, strayVolumes, overlapped,
                   operations, gaveUp, vmFaults>>

\* terminateVm reads the row and moves it: what it names is what goes.
TerminateVm ==
    /\ deletion.pc = "read"
    /\ vm' = [vm EXCEPT !.state = IF @ = "terminated" THEN @ ELSE "terminating"]
    /\ deletion' = [pc |-> IF vm.state = "terminated" THEN "done" ELSE "instance",
                    instance |-> vm.instance, volume |-> vm.volume]
    /\ UNCHANGED <<instance, volume, image, vmQueue, vmJob, issued, vmStrays, strayVolumes,
                   overlapped, operations, gaveUp, vmFaults>>

\* Mutant: the instance is left to its volume's deletion.
MutDestroyInstance ==
    /\ deletion.pc = "instance"
    /\ deletion' = [deletion EXCEPT !.pc = "volume"]
    /\ UNCHANGED <<vm, instance, volume, image, vmQueue, vmJob, issued, vmStrays, strayVolumes,
                   overlapped, operations, gaveUp, vmFaults>>

DestroyInstance ==
    /\ deletion.pc = "instance"
    /\ deletion' = [deletion EXCEPT !.pc = "volume"]
    /\ instance' = Terminated(deletion.instance)
    /\ UNCHANGED <<vm, volume, image, vmQueue, vmJob, issued, vmStrays, strayVolumes, overlapped,
                   operations, gaveUp, vmFaults>>

DestroyVolume ==
    /\ deletion.pc = "volume"
    /\ deletion.volume # 0 => volume[deletion.volume] = "gone" \/ Available(deletion.volume)
    /\ volume' = IF deletion.volume = 0 THEN volume
                 ELSE [volume EXCEPT ![deletion.volume] = "gone"]
    /\ vm' = [vm EXCEPT !.state = "terminated"]
    /\ deletion' = [deletion EXCEPT !.pc = "done"]
    /\ UNCHANGED <<instance, image, vmQueue, vmJob, issued, vmStrays, strayVolumes, overlapped,
                   operations, gaveUp, vmFaults>>

\* The user's row goes, the VM's with it.
DeleteUserRow ==
    /\ deletion.pc = "done" /\ vm.state # "gone"
    /\ vm' = [vm EXCEPT !.state = "gone", !.reg = 0, !.token = 0]
    /\ UNCHANGED <<instance, volume, image, vmQueue, vmJob, deletion, issued, vmStrays,
                   strayVolumes, overlapped, operations, gaveUp, vmFaults>>

\* delete_user dies or gives up waiting, and is run again.
DeletionRetried ==
    /\ deletion.pc \in {"instance", "volume"}
    /\ \/ VmFault
       \/ deletion.pc = "volume" /\ deletion.volume # 0 /\ Holds(deletion.volume) # {}
          /\ UNCHANGED vmFaults
    /\ deletion' = [deletion EXCEPT !.pc = "none"]
    /\ UNCHANGED <<vm, instance, volume, image, vmQueue, vmJob, issued, vmStrays, strayVolumes,
                   overlapped, operations, gaveUp>>

-----------------------------------------------------------------------------
\* requestVm, at sign-up: the row, and its provisioning queued.
ComputerInit ==
    /\ vm = [state |-> "requested", instance |-> 0, volume |-> 0, image |-> "none", reg |-> 0,
             token |-> 0, failures |-> 0]
    /\ instance = [k \in Launches |->
                     [status |-> "none", volume |-> 0, image |-> "old", auth |-> "no"]]
    /\ volume = [v \in Volumes |-> "none"] /\ image = "old"
    /\ vmQueue = {[kind |-> "provision", attempt |-> 0]}
    /\ vmJob = [w \in VmSlots |-> NoVmJob]
    /\ deletion = [pc |-> "none", instance |-> 0, volume |-> 0]
    /\ issued = 0 /\ vmStrays = {} /\ strayVolumes = {}
    /\ overlapped = {} /\ operations = 0 /\ gaveUp = FALSE /\ vmFaults = 0

ProvisionStep(w) ==
    \/ ReadVm(w) \/ MoveVm(w) \/ DestroyOld(w) \/ ClearOld(w) \/ IssueToken(w)
    \/ FindVolume(w) \/ Launch(w) \/ Attach(w) \/ RecordInstance(w) \/ Provisioned(w)

VmJobStep(w) ==
    \/ StartVmJob(w) \/ RestoreVolume(w) \/ UseVolume(w) \/ ProvisionStep(w) \/ RetireVolume(w)
    \/ VmJobThrows(w) \/ VmWorkerDies(w)

GatewayStep ==
    \/ \E k \in Launches : Authenticate(k) \/ Register(k) \/ Hello(k) \/ InstanceGone(k)
    \/ MissedPings \/ SetupTimeout

LeaveStep ==
    \/ DropJobs \/ TerminateVm \/ DestroyInstance \/ DestroyVolume \/ DeleteUserRow
    \/ DeletionRetried

ComputerNext ==
    \/ \E w \in VmSlots : VmJobStep(w)
    \/ RetryFailedVm \/ SweepRollouts \/ Operator \/ PublishImage
    \/ GatewayStep
    \/ LeaveStep

ComputerSpec == ComputerInit /\ [][ComputerNext]_vmVars

-----------------------------------------------------------------------------
(* Properties                                                              *)

ComputerTypeOK ==
    /\ vm \in VmRows /\ vm.volume \in Volumes \cup {0} /\ vm.instance \in Launches \cup {0}
    /\ \A k \in Launches :
          /\ instance[k].status \in {"none", "running", "dying", "gone"}
          /\ instance[k].auth \in {"no", "open", "token", "lost"}
          /\ instance[k].volume \in Volumes \cup {0}
    /\ volume \in [Volumes -> {"none", "there", "gone"}]
    /\ vmQueue \subseteq [kind : Kinds, attempt : 0 .. ProvisionAttempts]
    /\ \A w \in VmSlots : vmJob[w] = NoVmJob <=> vmJob[w].pc = "idle"

\* A computer that is up is the one the row names: the instance that runs with the
\* row's VM token, on the row's volume or one a restore is to retire (and never will,
\* if it failed).  But the VM token outlives a plain retry, and the instance it forgot
\* may say hello for the new one.
UpIsNamed ==
    (vm.state \in {"ready", "unhealthy"} /\ overlapped = {}) =>
        \/ /\ vm.token = vm.instance /\ vm.token # 0
           /\ instance[vm.instance].status = "running"
           /\ instance[vm.instance].volume
                \in ({vm.volume} \cup strayVolumes \cup {vmJob[w].retire : w \in VmSlots}) \ {0}
        \/ vm.token \in vmStrays

\* The user's files: through failures, rolls and restores, and jobs that overlap,
\* the volume the row names is there until the user's deletion.  But a restore deletes
\* the volume it read at first, which a job beside it may have put back in the row.
FilesKept ==
    (vm.volume # 0 /\ "restore" \notin overlapped) =>
                     volume[vm.volume] = "there"
                     \/ vm.state \in {"terminating", "terminated", "gone"}

\* "It's retried automatically until it has failed autoRetries times in a row"
\* (vms.ts): a failed setup has its retry queued or running.
FailureRetried ==
    (vm.state = "failed" /\ vm.failures \in 1 .. AutoRetries /\ ~gaveUp /\ deletion.pc = "none") =>
        \/ Queued("provision") \/ Queued("replace")
        \/ Working # {}

\* Nothing runs that no one knows of: an instance is the row's, a job's that is at
\* work, delete_user's, or one whose job failed or was overtaken before recording it.
NoneUnknown ==
    \A k \in Launches : (instance[k].status = "running" /\ overlapped = {}) =>
        \/ vm.instance = k \/ k \in vmStrays
        \/ \E w \in VmSlots : vmJob[w].token = k

\* Nothing outlives the account, but what its jobs left behind.
NothingOutlives ==
    (vm.state = "gone" /\ overlapped = {}) =>
        /\ \A k \in Launches : instance[k].status = "running" =>
              k \in vmStrays \/ \E w \in VmSlots : vmJob[w].token = k
        /\ \A v \in Volumes : volume[v] = "there" =>
              v \in strayVolumes \/ \E w \in VmSlots : v \in {vmJob[w].volume, vmJob[w].retire}

ComputerKept ==
    /\ UpIsNamed /\ FilesKept /\ FailureRetried
    /\ NoneUnknown /\ NothingOutlives

\* "Safe to retry: it [...] replaces a half-created instance" (provision.ts).  But on
\* EC2 the next attempt leaves it, with the volume that attempt waits for.
HalfCreatedReplaced ==
    \A w \in VmSlots : vmJob[w].pc = "launch" =>
        \A k \in vmStrays : instance[k].status # "running"

\* A restore "never pulls a volume out from under a VM that's still being set up"
\* (docs/runbooks/vm-recovery.md:26).  But a setup that timed out may still be at work
\* beside it, and put back in the row the volume the restore goes on to delete.
NoVolumePulled ==
    (vm.state \in {"provisioning", "registering"} /\ vm.volume # 0) => volume[vm.volume] # "gone"
=============================================================================
