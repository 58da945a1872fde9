------------------------- MODULE BackgroundRunProofs -------------------------
(***************************************************************************)
(* A background run's safety, for any number of slots, jobs, steps,        *)
(* resumes and faults.  The inductive invariant says what a slot inside a  *)
(* step knows: the run is neither parked nor ended by an earlier step, and *)
(* the point it has come to tells whether the transcript waits for         *)
(* answers, which ones, and whether the command asked for has run.  The    *)
(* run's lock makes it one slot's knowledge: no other slot is inside.      *)
(***************************************************************************)
EXTENDS BackgroundRun, JobTableProofs

\* Inside the step and past the load of the run's row.
Loaded == StepPoints \ {"load", "unlock", "thrown"}

\* A step ended the run with its report.
EndedByStep(r) == \/ r.status \in {"completed", "capped"}
                  \/ r.status = "cancelled" /\ r.cancelRequested

\* The points between the model's calls and their answers.
Unanswered(slot) ==
    \/ slot.pc \in {"recover", "hold", "park", "check", "skip", "tools", "results"}
    \/ slot.pc = "count" /\ slot.reply = "calls"

\* The points before the asked-for command is run.
NotYetRun(slot) ==
    \/ slot.pc \in {"check", "skip", "tools"}
    \/ slot.pc = "count" /\ slot.reply = "calls"
    \/ slot.pc \in {"hold", "park"} /\ ~slot.recovering

\* What a slot in a step knows of the run r, its transcript l and the times n the
\* last command ran.
Knows(slot, r, l, n) ==
    /\ slot.pc \in Loaded => r.status # "parked" /\ ~EndedByStep(r)
    /\ (slot.pc \in Loaded /\ slot.cancelling) => r.cancelRequested
    /\ Unanswered(slot) => l.open /\ l.ask = slot.calls
    /\ slot.pc \in {"note", "model", "store", "nudge"} => ~l.open
    /\ (slot.pc = "count" /\ slot.reply # "calls") => ~l.open
    /\ slot.pc \in {"hold", "park"} => "handoff" \in slot.calls
    /\ NotYetRun(slot) => n = 0
    /\ (slot.pc = "results" /\ "bash" \in slot.calls) =>
          /\ slot.output \in {"result", "error"}
          /\ slot.output = "result" => n = 1

\* The report says how the run ended, and only an ended run has one.
ReportTells == report = IF run.status \in Final THEN run.status ELSE "none"

\* An answer is the truth, and calls that wait for theirs have none yet.
TruthTold ==
    /\ AnswersTellTheTruth
    /\ log.open => log.answer["bash"] = "none"

\* A run is marked for cancelling by the request's last step.
MarkedLast == run.cancelRequested => cancel = "done"

IInv ==
    /\ TypeOK
    /\ ReportTells
    /\ MarkedLast
    /\ ParkedOnAHandoff
    /\ ControlOnlyWhileParked
    /\ TruthTold
    /\ \A s \in Slots : Knows(slots[s], run, log, ran)

-----------------------------------------------------------------------------
(* Slots                                                                   *)

\* The first job's number is one, and an idle slot is a slot.
LEMMA RestIsASlot == FirstJob \in JobIds /\ Rest \in Slot /\ Rest.pc = "idle"
  <1>1. \E j \in JobIds : \A i \in JobIds : j <= i
    BY LeastJob, BackgroundAssumption
  <1>2. FirstJob \in JobIds
    BY <1>1 DEF FirstJob
  <1> QED
    BY <1>2 DEF Rest, IdleSlot, Slot, Points, StepPoints, Lease, Replies, Calls

\* A slot that is not inside a step knows nothing.
LEMMA OutsideKnows ==
    ASSUME NEW slot, NEW r, NEW l, NEW n, slot.pc \notin Loaded
    PROVE  Knows(slot, r, l, n)
  BY DEF Knows, Loaded, StepPoints, Unanswered, NotYetRun

\* The lock lets one slot in.
LEMMA OneInside ==
    ASSUME TypeOK, NEW s \in Slots, NEW t \in Slots, s # t, InStep(s)
    PROVE  ~InStep(t)
  BY DEF TypeOK

\* A slot moves and the task stays as it is.
LEMMA SlotMoves ==
    ASSUME IInv, NEW s \in Slots, NEW new \in Slot,
           slots' = [slots EXCEPT ![s] = new],
           Knows(new, run, log, ran),
           jobs' \in Tables, faults' \in Nat,
           \/ lock' = lock /\ (new.pc \in StepPoints <=> InStep(s))
           \/ lock = None /\ lock' = s /\ new.pc \in StepPoints
           \/ lock' = (IF lock = s THEN None ELSE lock) /\ new.pc \notin StepPoints,
           UNCHANGED <<log, ran, taskVars, worldVars>>
    PROVE  IInv'
  <1>1. \A t \in Slots : slots'[t] = IF t = s THEN new ELSE slots[t]
    BY DEF IInv, TypeOK
  <1>2. TypeOK'
    <2>1. \A t \in Slots : InStep(t) <=> lock = t
      BY DEF IInv, TypeOK
    <2>2. None \notin Slots
      BY BackgroundAssumption
    <2>3. \A t \in Slots : InStep(t)' <=> lock' = t
      BY <1>1, <2>1, <2>2 DEF InStep
    <2> QED
      BY <2>3 DEF IInv, TypeOK, Tables, taskVars, worldVars
  <1>3. /\ ReportTells' /\ MarkedLast' /\ ParkedOnAHandoff'
        /\ ControlOnlyWhileParked' /\ TruthTold'
    BY DEF IInv, ReportTells, MarkedLast, ParkedOnAHandoff, ControlOnlyWhileParked,
           AnswersTellTheTruth, TruthTold, taskVars, worldVars
  <1>4. \A t \in Slots : Knows(slots'[t], run', log', ran')
    BY <1>1 DEF IInv, taskVars
  <1> QED
    BY <1>2, <1>3, <1>4 DEF IInv

\* The slot inside a step moves and changes the run, its transcript or its
\* computer: the slots outside know nothing that could change.
LEMMA StepMoves ==
    ASSUME IInv, NEW s \in Slots, InStep(s), NEW new \in Slot,
           slots' = [slots EXCEPT ![s] = new], new.pc \in StepPoints,
           Knows(new, run', log', ran'),
           run' \in [status : Statuses, cancelRequested : BOOLEAN, stepCount : Nat],
           log' \in Log, ran' \in Nat, faults' \in Nat,
           handoff' \in {"none", "open", "resolved"},
           parkItems' \subseteq Nat, silent' \in BOOLEAN, report' \in Final \cup {"none"},
           UNCHANGED <<jobs, lock, worldVars>>,
           ReportTells', MarkedLast', ParkedOnAHandoff', ControlOnlyWhileParked',
           TruthTold'
    PROVE  IInv'
  <1>1. \A t \in Slots : slots'[t] = IF t = s THEN new ELSE slots[t]
    BY DEF IInv, TypeOK
  <1>2. TypeOK'
    <2>1. \A t \in Slots : InStep(t) <=> lock = t
      BY DEF IInv, TypeOK
    <2>2. \A t \in Slots : InStep(t)' <=> lock' = t
      BY <1>1, <2>1 DEF InStep
    <2> QED
      BY <2>2 DEF IInv, TypeOK, worldVars
  <1>3. ASSUME NEW t \in Slots
        PROVE  Knows(slots'[t], run', log', ran')
    <2>1. CASE t = s
      BY <1>1, <2>1
    <2>2. CASE t # s
      <3>1. slots'[t] = slots[t] /\ slots[t].pc \notin StepPoints
        BY <1>1, <2>2, OneInside DEF IInv, InStep
      <3> QED
        BY <3>1, OutsideKnows DEF Loaded
    <2> QED
      BY <2>1, <2>2
  <1> QED
    BY <1>2, <1>3 DEF IInv
-----------------------------------------------------------------------------
(* Ending and parking                                                      *)

\* finishTask: the run ends, is told and its handoff resolved, or nothing happens.
LEMMA FinishFacts ==
    ASSUME IInv, NEW event \in {"complete", "fail", "cancel", "cap"}, FinishTask(event)
    PROVE  /\ run' \in [status : Statuses, cancelRequested : BOOLEAN, stepCount : Nat]
           /\ run'.cancelRequested = run.cancelRequested
           /\ run'.stepCount = run.stepCount
           /\ \/ run' = run /\ UNCHANGED taskVars
              \/ run'.status = Target(event) /\ run'.status \in Final
           /\ handoff' \in {"none", "open", "resolved"}
           /\ parkItems' \subseteq Nat /\ silent' \in BOOLEAN
           /\ report' \in Final \cup {"none"}
           /\ ReportTells'
           /\ ControlOnlyWhileParked'
           /\ run'.status = "parked" => run.status = "parked"
  <1>1. Target(event) \in Final
    BY DEF Target, Final
  <1>2. CASE Accepts(run.status, event)
    <2>1. run' = [run EXCEPT !.status = Target(event)] /\ handoff' = HandoffResolved
          /\ UNCHANGED <<parkItems, silent>>
          /\ report' = IF report = "none" THEN Target(event) ELSE report
      BY <1>2 DEF FinishTask
    <2>2. run.status \notin Final
      BY <1>2 DEF Accepts, Final
    <2>3. report = "none"
      BY <2>2 DEF IInv, ReportTells
    <2>4. run' \in [status : Statuses, cancelRequested : BOOLEAN, stepCount : Nat]
          /\ run'.status = Target(event)
          /\ run'.cancelRequested = run.cancelRequested /\ run'.stepCount = run.stepCount
      BY <1>1, <2>1 DEF IInv, TypeOK, Statuses
    <2>5. handoff' \in {"none", "resolved"}
      BY <2>1 DEF IInv, TypeOK, HandoffResolved
    <2>6. Target(event) \notin {"none", "parked"}
      BY <1>1 DEF Final
    <2> QED
      BY <1>1, <2>1, <2>3, <2>4, <2>5, <2>6
         DEF IInv, TypeOK, ReportTells, ControlOnlyWhileParked
  <1>3. CASE ~Accepts(run.status, event)
    BY <1>3 DEF FinishTask, taskVars, IInv, TypeOK, ReportTells, ControlOnlyWhileParked
  <1> QED
    BY <1>2, <1>3

\* parkTask: the run, under way, waits for the user with its handoff unanswered.
LEMMA ParkFacts ==
    ASSUME IInv, NEW window, NEW step \in Nat, ParkTask(window, step),
           UNCHANGED log, log.open, "handoff" \in log.ask
    PROVE  /\ run' \in [status : Statuses, cancelRequested : BOOLEAN, stepCount : Nat]
           /\ run'.cancelRequested = run.cancelRequested
           /\ run' = run \/ run'.status = "parked"
           /\ handoff' \in {"none", "open", "resolved"}
           /\ parkItems' \subseteq Nat /\ silent' \in BOOLEAN
           /\ report' \in Final \cup {"none"}
           /\ ReportTells'
           /\ ParkedOnAHandoff'
           /\ ControlOnlyWhileParked'
  <1>1. CASE Accepts(run.status, "park")
    <2>1. /\ run' = [run EXCEPT !.status = "parked"]
          /\ handoff' = IF window = "page" THEN "open" ELSE handoff
          /\ parkItems' = parkItems \cup {step}
          /\ silent' = (step \in parkItems) /\ report' = report
      BY <1>1 DEF ParkTask
    <2>2. run.status = "running" /\ "parked" \notin Final /\ "running" \notin Final
      BY <1>1 DEF Accepts, Final
    <2>3. run' \in [status : Statuses, cancelRequested : BOOLEAN, stepCount : Nat]
          /\ run'.status = "parked" /\ run'.cancelRequested = run.cancelRequested
      BY <2>1 DEF IInv, TypeOK, Statuses
    <2> QED
      BY <2>1, <2>2, <2>3
         DEF IInv, TypeOK, ReportTells, ParkedOnAHandoff, ControlOnlyWhileParked
  <1>2. CASE ~Accepts(run.status, "park")
    BY <1>2 DEF ParkTask, taskVars, IInv, TypeOK, ReportTells, ParkedOnAHandoff,
                ControlOnlyWhileParked
  <1> QED
    BY <1>1, <1>2

\* The run ends or is marked, by someone outside the step.
LEMMA RunChanges ==
    ASSUME IInv, slots' \in [Slots -> Slot],
           \A t \in Slots : \/ slots'[t] = slots[t]
                            \/ slots[t].pc \notin StepPoints /\ slots'[t].pc \notin StepPoints,
           jobs' \in Tables, faults' \in Nat, UNCHANGED <<lock, log, ran, resumes>>,
           run' \in [status : Statuses, cancelRequested : BOOLEAN, stepCount : Nat],
           run'.status = "parked" => run.status = "parked",
           run.cancelRequested => run'.cancelRequested,
           EndedByStep(run') => EndedByStep(run),
           handoff' \in {"none", "open", "resolved"},
           parkItems' \subseteq Nat, silent' \in BOOLEAN, report' \in Final \cup {"none"},
           cancel' \in {"none", "queued", "running", "parked", "done"},
           ReportTells', MarkedLast', ControlOnlyWhileParked'
    PROVE  IInv'
  <1>1. TypeOK'
    BY DEF IInv, TypeOK, InStep, Tables
  <1>2. ParkedOnAHandoff' /\ TruthTold'
    BY DEF IInv, ParkedOnAHandoff, AnswersTellTheTruth, TruthTold
  <1>3. ASSUME NEW t \in Slots
        PROVE  Knows(slots'[t], run', log', ran')
    <2>1. CASE slots'[t] = slots[t]
      BY <2>1 DEF IInv, Knows
    <2>2. CASE slots'[t].pc \notin StepPoints
      BY <2>2, OutsideKnows DEF Loaded
    <2> QED
      BY <2>1, <2>2
  <1> QED
    BY <1>1, <1>2, <1>3 DEF IInv

-----------------------------------------------------------------------------
(* The handler around the step                                             *)

LEMMA TakeLeaseInvariant ==
    ASSUME IInv, NEW s \in Slots, NEW j \in JobIds, TakeLease(s, j)
    PROVE  IInv'
  <1>1. jobs' \in Tables
    BY LeasedFacts DEF TakeLease, IInv, TypeOK, Tables
  <1>2. jobs'[j].token \in Nat
    BY <1>1 DEF Tables, Job
  <1> DEFINE new == [Rest EXCEPT !.pc = "leased", !.lease = LeaseOf(jobs', j)]
  <1>3. new \in Slot /\ new.pc = "leased"
    BY <1>2, RestIsASlot DEF Slot, Points, LeaseOf, Lease
  <1>4. slots' = [slots EXCEPT ![s] = new]
    BY DEF TakeLease
  <1> HIDE DEF new
  <1>5. new.pc \notin StepPoints /\ ~InStep(s)
    BY <1>3 DEF StepPoints, InStep, TakeLease, At
  <1>6. Knows(new, run, log, ran)
    BY <1>5, OutsideKnows DEF Loaded
  <1>7. faults' \in Nat /\ lock' = lock /\ UNCHANGED <<log, ran, taskVars, worldVars>>
    BY DEF TakeLease, IInv, TypeOK
  <1> QED
    BY <1>1, <1>3, <1>4, <1>5, <1>6, <1>7, SlotMoves

\* A slot that leaves the step, or the handler, keeps its lease at most.
LEMMA LeftSlot ==
    ASSUME TypeOK, NEW s \in Slots, NEW p \in Points
    PROVE  /\ [Rest EXCEPT !.pc = p, !.lease = slots[s].lease] \in Slot
           /\ [Rest EXCEPT !.pc = p, !.lease = slots[s].lease].pc = p
           /\ [Rest EXCEPT !.pc = p, !.lease = slots[s].lease,
                           !.aborted = slots[s].aborted] \in Slot
           /\ [Rest EXCEPT !.pc = p, !.lease = slots[s].lease,
                           !.aborted = slots[s].aborted].pc = p
           /\ [slots[s] EXCEPT !.pc = p] \in Slot
           /\ [slots[s] EXCEPT !.pc = p].pc = p
  <1>1. slots[s] \in Slot
    BY DEF TypeOK
  <1> QED
    BY <1>1, RestIsASlot DEF Slot

\* A slot comes to a point outside, or to one of the step where nothing is known.
LEMMA LeavesInvariant ==
    ASSUME IInv, NEW s \in Slots, NEW p \in Points \ Loaded, NEW new \in Slot, new.pc = p,
           slots' = [slots EXCEPT ![s] = new],
           jobs' \in Tables, faults' \in Nat,
           \/ lock' = lock /\ (p \in StepPoints <=> InStep(s))
           \/ lock = None /\ lock' = s /\ p \in StepPoints
           \/ lock' = (IF lock = s THEN None ELSE lock) /\ p \notin StepPoints,
           UNCHANGED <<log, ran, taskVars, worldVars>>
    PROVE  IInv'
  <1>1. Knows(new, run, log, ran)
    BY OutsideKnows
  <1> QED
    BY <1>1, SlotMoves

LEMMA TryLockInvariant ==
    ASSUME IInv, NEW s \in Slots, TryLock(s)
    PROVE  IInv'
  <1>1. /\ jobs' \in Tables /\ faults' \in Nat /\ ~InStep(s)
        /\ UNCHANGED <<log, ran, taskVars, worldVars>>
    BY DEF TryLock, At, InStep, StepPoints, IInv, TypeOK, Tables
  <1>2. CASE lock = None
    <2>1. "load" \in Points \ Loaded /\ "load" \in StepPoints
      BY DEF Points, Loaded, StepPoints
    <2>2. lock' = s /\ slots' = [slots EXCEPT ![s] = [slots[s] EXCEPT !.pc = "load"]]
      BY <1>2 DEF TryLock, Go, IInv, TypeOK
    <2> QED
      BY <1>1, <1>2, <2>1, <2>2, LeftSlot, LeavesInvariant DEF IInv
  <1>3. CASE lock # None
    <2>1. "return" \in Points \ Loaded /\ "return" \notin StepPoints
      BY DEF Points, Loaded, StepPoints
    <2>2. lock' = lock
          /\ slots' = [slots EXCEPT ![s] = [Rest EXCEPT !.pc = "return", !.lease = slots[s].lease]]
      BY <1>3 DEF TryLock, LeaveHandler
    <2> QED
      BY <1>1, <2>1, <2>2, LeftSlot, LeavesInvariant DEF IInv
  <1> QED
    BY <1>2, <1>3

LEMMA UnlockInvariant ==
    ASSUME IInv, NEW s \in Slots, Unlock(s)
    PROVE  IInv'
  <1>1. /\ jobs' \in Tables /\ faults' \in Nat /\ lock = s
        /\ lock' = IF lock = s THEN None ELSE lock
        /\ UNCHANGED <<log, ran, taskVars, worldVars>>
    BY DEF Unlock, InStep, StepPoints, IInv, TypeOK, Tables
  <1>2. {"caught", "return"} \subseteq Points \ Loaded
        /\ {"caught", "return"} \cap StepPoints = {}
    BY DEF Points, Loaded, StepPoints
  <1>3. CASE At(s, "thrown")
    <2>1. slots' = [slots EXCEPT ![s] = [slots[s] EXCEPT !.pc = "caught"]]
      BY <1>3 DEF Unlock, Go, IInv, TypeOK
    <2> QED
      BY <1>1, <1>2, <2>1, LeftSlot, LeavesInvariant DEF IInv
  <1>4. CASE ~At(s, "thrown")
    <2>1. slots' = [slots EXCEPT ![s] = [Rest EXCEPT !.pc = "return", !.lease = slots[s].lease]]
      BY <1>4 DEF Unlock, LeaveHandler
    <2> QED
      BY <1>1, <1>2, <2>1, LeftSlot, LeavesInvariant DEF IInv
  <1> QED
    BY <1>3, <1>4

\* The job is settled, if its lease is still the current one, or is left alone.
LEMMA SettledTables ==
    ASSUME TypeOK, NEW s \in Slots
    PROVE  /\ jobs \in Tables
           /\ Completed(jobs, slots[s].lease) \in Tables
           /\ Failed(jobs, slots[s].lease) \in Tables
           /\ Extended(jobs, slots[s].lease) \in Tables
  <1>1. jobs \in Tables /\ slots[s].lease \in Lease /\ slots[s].lease.job \in JobIds
    BY DEF TypeOK, Tables, Slot, Lease
  <1>2. /\ Ended(jobs, slots[s].lease.job, "done") \in Tables
        /\ Ended(jobs, slots[s].lease.job, "failed") \in Tables
        /\ Requeued(jobs, slots[s].lease.job) \in Tables
    BY <1>1, EndedFacts, RequeuedFacts
  <1> QED
    BY <1>1, <1>2, CompletedFacts, FailedFacts, ExtendedFacts

LEMMA SettleInvariant ==
    ASSUME IInv, NEW s \in Slots, Return(s) \/ FailJob(s) \/ Crash(s)
    PROVE  IInv'
  <1>1. jobs' \in Tables
    BY SettledTables DEF Return, FailJob, Crash, IInv
  <1>2. "idle" \in Points \ Loaded /\ "idle" \notin StepPoints
    BY DEF Points, Loaded, StepPoints
  <1>3. slots' = [slots EXCEPT ![s] = Rest] /\ faults' \in Nat
        /\ UNCHANGED <<log, ran, taskVars, worldVars>>
    BY DEF Return, FailJob, Crash, Fault, IInv, TypeOK
  <1>4. CASE Crash(s)
    BY <1>1, <1>2, <1>3, <1>4, RestIsASlot, LeavesInvariant DEF Crash
  <1>5. CASE Return(s) \/ FailJob(s)
    <2>1. ~InStep(s) /\ lock' = lock
      BY <1>5 DEF Return, FailJob, At, InStep, StepPoints
    <2> QED
      BY <1>1, <1>2, <1>3, <2>1, RestIsASlot, LeavesInvariant
  <1> QED
    BY <1>4, <1>5

LEMMA HeartbeatInvariant ==
    ASSUME IInv, NEW s \in Slots, Heartbeat(s)
    PROVE  IInv'
  <1> DEFINE new == [slots[s] EXCEPT !.aborted = @ \/ ~Held(jobs, slots[s].lease)]
  <1>1. slots[s] \in Slot
    BY DEF IInv, TypeOK
  <1>2. /\ new \in Slot
        /\ new.pc = slots[s].pc /\ new.reply = slots[s].reply /\ new.calls = slots[s].calls
        /\ new.recovering = slots[s].recovering /\ new.output = slots[s].output
        /\ new.cancelling = slots[s].cancelling
    BY <1>1 DEF Slot
  <1>3. slots' = [slots EXCEPT ![s] = new]
    BY DEF Heartbeat, IInv, TypeOK
  <1> HIDE DEF new
  <1>4. Knows(new, run, log, ran)
    BY <1>2 DEF IInv, Knows, Unanswered, NotYetRun
  <1>5. jobs' \in Tables /\ faults' \in Nat /\ lock' = lock
        /\ UNCHANGED <<log, ran, taskVars, worldVars>>
    BY SettledTables DEF Heartbeat, IInv, TypeOK
  <1> QED
    BY <1>2, <1>3, <1>4, <1>5, SlotMoves DEF InStep

\* A call that fails, or a step that finds its lease lost, throws.
LEMMA ThrowsInvariant ==
    ASSUME IInv, NEW s \in Slots, CallFails(s) \/ Aborts(s)
    PROVE  IInv'
  <1>1. "thrown" \in Points \ Loaded /\ "thrown" \in StepPoints /\ AbortPoints \subseteq StepPoints
    BY DEF Points, Loaded, StepPoints, AbortPoints
  <1>2. /\ InStep(s) /\ jobs' \in Tables /\ faults' \in Nat /\ lock' = lock
        /\ UNCHANGED <<log, ran, taskVars, worldVars>>
    BY <1>1 DEF CallFails, Aborts, Fault, InStep, IInv, TypeOK, Tables
  <1>3. slots' = [slots EXCEPT ![s] = [Rest EXCEPT !.pc = "thrown", !.lease = slots[s].lease,
                                                   !.aborted = slots[s].aborted]]
    BY DEF CallFails, Aborts, LeaveStep
  <1> QED
    BY <1>1, <1>2, <1>3, LeftSlot, LeavesInvariant DEF IInv

\* The run fails with its job's last attempt, whoever is inside a step by then.
LEMMA CaughtInvariant ==
    ASSUME IInv, NEW s \in Slots, Caught(s)
    PROVE  IInv'
  <1>1. "fail" \in Points /\ "fail" \notin StepPoints /\ slots[s].pc \notin StepPoints
    BY DEF Points, StepPoints, Caught, At
  <1>2. slots' = [slots EXCEPT ![s] = [Rest EXCEPT !.pc = "fail", !.lease = slots[s].lease]]
        /\ UNCHANGED <<jobs, lock, log, ran, faults, worldVars>>
    BY DEF Caught, LeaveHandler
  <1>3. /\ slots' \in [Slots -> Slot]
        /\ \A t \in Slots : \/ slots'[t] = slots[t]
                            \/ slots[t].pc \notin StepPoints /\ slots'[t].pc \notin StepPoints
    BY <1>1, <1>2, LeftSlot DEF IInv, TypeOK
  <1>4. jobs' \in Tables /\ faults' \in Nat /\ UNCHANGED <<resumes, cancel>>
    BY <1>2 DEF IInv, TypeOK, Tables, worldVars
  <1>5. CASE FinishTask("fail")
    <2>1. ~EndedByStep(run') \/ run' = run
      BY <1>5, FinishFacts DEF Target, EndedByStep
    <2> QED
      BY <1>2, <1>3, <1>4, <1>5, <2>1, FinishFacts, RunChanges DEF IInv, TypeOK, MarkedLast
  <1>6. CASE UNCHANGED taskVars
    BY <1>2, <1>3, <1>4, <1>6, RunChanges
       DEF IInv, TypeOK, taskVars, ReportTells, MarkedLast, ControlOnlyWhileParked
  <1> QED
    BY <1>5, <1>6 DEF Caught

-----------------------------------------------------------------------------
(* One step                                                                *)

\* The points by what a slot there knows.
LEMMA PointSets ==
    /\ Loaded \subseteq StepPoints
    /\ StepPoints \subseteq Points
    /\ {"unlock", "load", "thrown"} \subseteq StepPoints
    /\ {"unlock", "load", "thrown"} \cap Loaded = {}
    /\ {"start", "read", "recover", "note", "model", "store", "count", "nudge", "check",
        "skip", "hold", "park", "tools", "results", "next", "queue", "finish"} \subseteq Loaded
  BY DEF Loaded, StepPoints, Points

\* What a slot past the load knows of the run, whatever its point.
LEMMA InsideKnows ==
    ASSUME IInv, NEW s \in Slots, slots[s].pc \in Loaded
    PROVE  /\ InStep(s)
           /\ slots[s] \in Slot
           /\ run.status # "parked" /\ ~EndedByStep(run)
           /\ slots[s].cancelling => run.cancelRequested
           /\ Unanswered(slots[s]) => log.open /\ log.ask = slots[s].calls
           /\ slots[s].pc \in {"note", "model", "store", "nudge"} => ~log.open
           /\ (slots[s].pc = "count" /\ slots[s].reply # "calls") => ~log.open
           /\ slots[s].pc \in {"hold", "park"} => "handoff" \in slots[s].calls
           /\ NotYetRun(slots[s]) => ran = 0
           /\ (slots[s].pc = "results" /\ "bash" \in slots[s].calls) =>
                 /\ slots[s].output \in {"result", "error"}
                 /\ slots[s].output = "result" => ran = 1
  BY PointSets DEF IInv, TypeOK, Knows, InStep

\* A slot moves on inside the step.
LEMMA MovesOn ==
    ASSUME IInv, NEW s \in Slots, InStep(s), NEW new \in Slot, new.pc \in StepPoints,
           slots' = [slots EXCEPT ![s] = new],
           Knows(new, run, log, ran),
           UNCHANGED <<jobs, lock, log, ran, faults, taskVars, worldVars>>
    PROVE  IInv'
  <1>1. jobs' \in Tables /\ faults' \in Nat
    BY DEF IInv, TypeOK, Tables
  <1> QED
    BY <1>1, SlotMoves

\* A slot moves on inside the step and stores what the transcript now says.
LEMMA Stores ==
    ASSUME IInv, NEW s \in Slots, slots[s].pc \in Loaded, NEW new \in Slot,
           new.pc \in StepPoints,
           slots' = [slots EXCEPT ![s] = new],
           log' \in Log, ran' \in Nat, Knows(new, run, log', ran'), TruthTold',
           UNCHANGED <<jobs, lock, faults, taskVars, worldVars>>
    PROVE  IInv'
  <1>1. run.status # "parked" /\ InStep(s)
    BY InsideKnows
  <1>2. run' = run /\ cancel' = cancel /\ handoff' = handoff /\ report' = report
        /\ parkItems' = parkItems /\ silent' = silent
    BY DEF taskVars, worldVars
  <1>3. ReportTells' /\ MarkedLast' /\ ParkedOnAHandoff' /\ ControlOnlyWhileParked'
    BY <1>1, <1>2 DEF IInv, ReportTells, MarkedLast, ParkedOnAHandoff, ControlOnlyWhileParked
  <1>4. Knows(new, run', log', ran')
    BY <1>2
  <1>5. run' \in [status : Statuses, cancelRequested : BOOLEAN, stepCount : Nat]
        /\ faults' \in Nat /\ handoff' \in {"none", "open", "resolved"}
        /\ parkItems' \subseteq Nat /\ silent' \in BOOLEAN /\ report' \in Final \cup {"none"}
    BY <1>2 DEF IInv, TypeOK
  <1> QED
    BY <1>1, <1>3, <1>4, <1>5, StepMoves

\* An answered, noted or asking transcript is a transcript.
LEMMA LogFacts ==
    ASSUME NEW l \in Log
    PROVE  /\ Noted(l) \in Log /\ ~Noted(l).open
           /\ Noted(l).answer = l.answer /\ Noted(l).ask = l.ask
           /\ \A calls \in SUBSET Calls :
                 /\ Asked(l, calls) \in Log /\ Asked(l, calls).open
                 /\ Asked(l, calls).ask = calls
                 /\ \A c \in Calls : Asked(l, calls).answer[c] = "none"
           /\ \A ans : /\ ~Answered(l, ans).open
                       /\ Answered(l, ans).ask = l.ask
                       /\ \A c \in Calls : Answered(l, ans).answer[c] =
                                              IF c \in l.ask THEN ans[c] ELSE "none"
                       /\ (\A c \in Calls : ans[c] \in Answers) => Answered(l, ans) \in Log
  <1>1. Noted(l) \in Log /\ ~Noted(l).open
        /\ Noted(l).answer = l.answer /\ Noted(l).ask = l.ask
    BY DEF Log, Noted
  <1>2. ASSUME NEW calls \in SUBSET Calls
        PROVE  /\ Asked(l, calls) \in Log /\ Asked(l, calls).open
               /\ Asked(l, calls).ask = calls
               /\ \A c \in Calls : Asked(l, calls).answer[c] = "none"
    <2>1. NoAnswer \in [Calls -> Answers]
      BY DEF NoAnswer, Answers
    <2>2. \A c \in Calls : NoAnswer[c] = "none"
      BY DEF NoAnswer
    <2> HIDE DEF NoAnswer
    <2> QED
      BY <2>1, <2>2 DEF Log, Asked
  <1>3. ASSUME NEW ans
        PROVE  /\ ~Answered(l, ans).open
               /\ Answered(l, ans).ask = l.ask
               /\ \A c \in Calls : Answered(l, ans).answer[c] =
                                      IF c \in l.ask THEN ans[c] ELSE "none"
               /\ (\A c \in Calls : ans[c] \in Answers) => Answered(l, ans) \in Log
    <2> DEFINE a == [c \in Calls |-> IF c \in l.ask THEN ans[c] ELSE "none"]
    <2>1. \A c \in Calls : a[c] = IF c \in l.ask THEN ans[c] ELSE "none"
      OBVIOUS
    <2>2. (\A c \in Calls : ans[c] \in Answers) => a \in [Calls -> Answers]
      BY DEF Answers
    <2>3. Answered(l, ans) = [l EXCEPT !.open = FALSE, !.answer = a]
      BY DEF Answered
    <2> HIDE DEF a
    <2>4. l = [open |-> l.open, ask |-> l.ask, answer |-> l.answer, nudged |-> l.nudged]
          /\ l.ask \in SUBSET Calls /\ l.nudged \in BOOLEAN
      BY DEF Log
    <2>5. Answered(l, ans) = [open |-> FALSE, ask |-> l.ask, answer |-> a, nudged |-> l.nudged]
      BY <2>3, <2>4
    <2>6. (\A c \in Calls : ans[c] \in Answers) => Answered(l, ans) \in Log
      BY <2>2, <2>4, <2>5 DEF Log
    <2>7. ~Answered(l, ans).open /\ Answered(l, ans).ask = l.ask /\ Answered(l, ans).answer = a
      BY <2>5
    <2> QED
      BY <2>1, <2>6, <2>7
  <1> QED
    BY <1>1, <1>2, <1>3

LEMMA LoadRunInvariant ==
    ASSUME IInv, NEW s \in Slots, LoadRun(s)
    PROVE  IInv'
  <1>1. InStep(s) /\ slots[s] \in Slot
    BY DEF LoadRun, At, InStep, StepPoints, IInv, TypeOK
  <1>2. UNCHANGED <<jobs, lock, log, ran, faults, taskVars, worldVars>>
    BY DEF LoadRun
  <1>3. CASE run.status \in {"queued", "running"}
    <2> DEFINE new == [slots[s] EXCEPT
                          !.pc = IF run.status = "queued" THEN "start" ELSE "read",
                          !.cancelling = run.cancelRequested,
                          !.count = run.stepCount]
    <2>1. slots' = [slots EXCEPT ![s] = new]
      BY <1>3 DEF LoadRun, IInv, TypeOK
    <2>2. /\ new \in Slot /\ new.pc \in {"start", "read"}
          /\ new.cancelling = run.cancelRequested
      BY <1>1 DEF Slot, Points, StepPoints, IInv, TypeOK
    <2> HIDE DEF new
    <2>3. Knows(new, run, log, ran)
      BY <1>3, <2>2 DEF Knows, Unanswered, NotYetRun, EndedByStep
    <2> QED
      BY <1>1, <1>2, <2>1, <2>2, <2>3, MovesOn, PointSets
  <1>4. CASE run.status \notin {"queued", "running"}
    <2>1. slots' = [slots EXCEPT ![s] = [Rest EXCEPT !.pc = "unlock", !.lease = slots[s].lease,
                                                     !.aborted = slots[s].aborted]]
      BY <1>4 DEF LoadRun, LeaveStep
    <2>2. jobs' \in Tables /\ faults' \in Nat /\ lock' = lock
      BY <1>2 DEF IInv, TypeOK, Tables
    <2>3. "unlock" \in Points \ Loaded /\ "unlock" \in StepPoints
      BY PointSets
    <2> QED
      BY <1>1, <1>2, <2>1, <2>2, <2>3, LeftSlot, LeavesInvariant DEF IInv
  <1> QED
    BY <1>3, <1>4

LEMMA ReadLogInvariant ==
    ASSUME IInv, NEW s \in Slots, ReadLog(s)
    PROVE  IInv'
  <1>1. slots[s].pc = "read"
    BY DEF ReadLog, At
  <1>2. /\ InStep(s) /\ slots[s] \in Slot
        /\ run.status # "parked" /\ ~EndedByStep(run)
        /\ slots[s].cancelling => run.cancelRequested
    BY <1>1, InsideKnows, PointSets
  <1>3. BeforeModel(s) \in {"note", "model"} /\ log \in Log
    BY DEF BeforeModel, IInv, TypeOK
  <1>4. /\ ~log.open => AfterLog(s) = BeforeModel(s)
        /\ (log.open /\ "handoff" \in log.ask) => AfterLog(s) = "hold"
        /\ (log.open /\ "handoff" \notin log.ask) => AfterLog(s) = "recover"
    BY DEF AfterLog
  <1> DEFINE new == [slots[s] EXCEPT !.pc = AfterLog(s), !.recovering = (log.open),
                                     !.calls = IF log.open THEN log.ask ELSE {}]
  <1>5. slots' = [slots EXCEPT ![s] = new]
    BY DEF ReadLog, IInv, TypeOK
  <1>6. AfterLog(s) \in {"note", "model", "hold", "recover"}
    BY <1>3, <1>4
  <1>7. /\ new \in Slot /\ new.pc = AfterLog(s)
        /\ new.recovering = log.open /\ new.cancelling = slots[s].cancelling
        /\ new.calls = (IF log.open THEN log.ask ELSE {})
    BY <1>2, <1>3, <1>6 DEF Slot, Points, StepPoints, Log
  <1> HIDE DEF new
  <1>8. \/ ~log.open /\ new.pc \in {"note", "model"}
        \/ log.open /\ "handoff" \in log.ask /\ new.pc = "hold"
        \/ log.open /\ new.pc = "recover"
    BY <1>3, <1>4, <1>7
  <1>9. Knows(new, run, log, ran) /\ new.pc \in StepPoints
    BY <1>2, <1>7, <1>8, PointSets DEF Knows, Unanswered, NotYetRun
  <1> QED
    BY <1>2, <1>5, <1>7, <1>9, MovesOn DEF ReadLog

\* Two moves that only change the point keep what it stands on.
LEMMA SlotAt ==
    ASSUME NEW slot \in Slot, NEW p \in Points
    PROVE  /\ [slot EXCEPT !.pc = p] \in Slot
           /\ [slot EXCEPT !.pc = p].pc = p
           /\ [slot EXCEPT !.pc = p].cancelling = slot.cancelling
           /\ [slot EXCEPT !.pc = p].recovering = slot.recovering
           /\ [slot EXCEPT !.pc = p].reply = slot.reply
           /\ [slot EXCEPT !.pc = p].calls = slot.calls
           /\ [slot EXCEPT !.pc = p].output = slot.output
  BY DEF Slot

LEMMA GoFacts ==
    ASSUME TypeOK, NEW s \in Slots, NEW p, Go(s, p)
    PROVE  slots' = [slots EXCEPT ![s] = [slots[s] EXCEPT !.pc = p]]
  BY DEF Go, TypeOK

LEMMA StartRunInvariant ==
    ASSUME IInv, NEW s \in Slots, StartRun(s)
    PROVE  IInv'
  <1>1. slots[s].pc = "start" /\ Go(s, "read")
    BY DEF StartRun, At
  <1>2. /\ InStep(s) /\ slots[s] \in Slot
        /\ run.status # "parked" /\ ~EndedByStep(run)
        /\ slots[s].cancelling => run.cancelRequested
    BY <1>1, InsideKnows, PointSets
  <1>3. /\ run' \in [status : Statuses, cancelRequested : BOOLEAN, stepCount : Nat]
        /\ run'.cancelRequested = run.cancelRequested
        /\ \/ run'.status = run.status
           \/ run'.status = "running" /\ run.status = "queued"
    BY DEF StartRun, Accepts, IInv, TypeOK, Statuses
  <1>4. run'.status # "parked" /\ ~EndedByStep(run')
    BY <1>2, <1>3 DEF EndedByStep
  <1>5. UNCHANGED <<jobs, lock, log, handoff, parkItems, report, silent, ran, faults, worldVars>>
    BY DEF StartRun
  <1>6. ReportTells' /\ MarkedLast' /\ ParkedOnAHandoff' /\ TruthTold'
        /\ ControlOnlyWhileParked'
    BY <1>2, <1>3, <1>4, <1>5 DEF IInv, ReportTells, MarkedLast, ParkedOnAHandoff,
       AnswersTellTheTruth, TruthTold, ControlOnlyWhileParked, Final, worldVars
  <1> DEFINE new == [slots[s] EXCEPT !.pc = "read"]
  <1>7. new \in Slot /\ new.pc = "read" /\ new.cancelling = slots[s].cancelling
    BY <1>2, PointSets, SlotAt
  <1>8. slots' = [slots EXCEPT ![s] = new]
    BY <1>1, GoFacts DEF IInv
  <1> HIDE DEF new
  <1>9. Knows(new, run', log', ran')
    BY <1>2, <1>3, <1>4, <1>7 DEF Knows, Unanswered, NotYetRun
  <1> QED
    BY <1>2, <1>3, <1>5, <1>6, <1>7, <1>8, <1>9, StepMoves, PointSets DEF IInv, TypeOK

LEMMA RecoverInvariant ==
    ASSUME IInv, NEW s \in Slots, Recover(s)
    PROVE  IInv'
  <1>1. slots[s].pc = "recover"
    BY DEF Recover, At
  <1>2. /\ slots[s].pc \in Loaded /\ slots[s] \in Slot /\ log \in Log /\ ran \in Nat
        /\ run.status # "parked" /\ ~EndedByStep(run)
        /\ slots[s].cancelling => run.cancelRequested
    BY <1>1, InsideKnows, PointSets DEF IInv, TypeOK
  <1>3. PICK known \in BOOLEAN :
           /\ known => ran > 0
           /\ log' = Answered(log, [bash |-> IF known THEN "result" ELSE "unknown",
                                    handoff |-> "blank"])
    BY DEF Recover
  <1>4. /\ log' \in Log /\ ~log'.open
        /\ log'.answer["bash"] \in {"none", "unknown"} \/ (known /\ log'.answer["bash"] = "result")
    <2> DEFINE answers == [bash |-> IF known THEN "result" ELSE "unknown", handoff |-> "blank"]
    <2>1. /\ answers["bash"] \in {"result", "unknown"} /\ (answers["bash"] = "result" => known)
          /\ answers["handoff"] = "blank" /\ log' = Answered(log, answers)
      BY <1>3
    <2> HIDE DEF answers
    <2>2. "bash" \in Calls /\ \A c \in Calls : answers[c] \in Answers
      BY <2>1 DEF Calls, Answers
    <2>3. /\ log' \in Log /\ ~log'.open
          /\ log'.answer["bash"] = IF "bash" \in log.ask THEN answers["bash"] ELSE "none"
      BY <1>2, <2>1, <2>2, LogFacts
    <2> QED
      BY <2>1, <2>3
  <1>5. ran' = ran /\ TruthTold'
    BY <1>2, <1>3, <1>4 DEF Recover, IInv, AnswersTellTheTruth, TruthTold
  <1>6. BeforeModel(s) \in {"note", "model"}
    BY DEF BeforeModel
  <1> DEFINE new == [slots[s] EXCEPT !.pc = BeforeModel(s), !.recovering = FALSE,
                                     !.calls = {}, !.window = "none"]
  <1>7. slots' = [slots EXCEPT ![s] = new]
    BY DEF Recover, IInv, TypeOK
  <1>8. new \in Slot /\ new.pc \in {"note", "model"} /\ new.cancelling = slots[s].cancelling
    BY <1>2, <1>6 DEF Slot, Points, StepPoints
  <1> HIDE DEF new
  <1>9. Knows(new, run, log', ran')
    BY <1>2, <1>4, <1>8 DEF Knows, Unanswered, NotYetRun
  <1> QED
    BY ZenonT(30), <1>2, <1>4, <1>5, <1>7, <1>8, <1>9, Stores, PointSets DEF Recover

\* cancelNote, capNote and the nudge: one more message, and no calls in it.
LEMMA NotedInvariant ==
    ASSUME IInv, NEW s \in Slots, StoreNote(s) \/ Nudge(s)
    PROVE  IInv'
  <1>1. /\ slots[s].pc \in {"note", "nudge"}
        /\ \/ Go(s, "model") /\ log' = Noted(log)
           \/ Go(s, "queue") /\ log' = [Noted(log) EXCEPT !.nudged = TRUE]
        /\ UNCHANGED <<jobs, lock, ran, faults, taskVars, worldVars>>
    BY DEF StoreNote, Nudge, At
  <1>2. /\ slots[s].pc \in Loaded /\ slots[s] \in Slot /\ log \in Log /\ ran \in Nat
        /\ run.status # "parked" /\ ~EndedByStep(run)
        /\ slots[s].cancelling => run.cancelRequested
    BY <1>1, InsideKnows, PointSets DEF IInv, TypeOK
  <1>3. log' \in Log /\ ~log'.open /\ log'.answer = log.answer
    <2>1. Noted(log) \in Log /\ ~Noted(log).open /\ Noted(log).answer = log.answer
      BY <1>2, LogFacts
    <2>2. [Noted(log) EXCEPT !.nudged = TRUE] \in Log
          /\ ~[Noted(log) EXCEPT !.nudged = TRUE].open
          /\ [Noted(log) EXCEPT !.nudged = TRUE].answer = log.answer
      BY <2>1 DEF Log
    <2> QED
      BY <1>1, <2>1, <2>2
  <1>4. TruthTold'
    BY <1>1, <1>3 DEF IInv, AnswersTellTheTruth, TruthTold
  <1>5. PICK p \in {"model", "queue"} : slots' = [slots EXCEPT ![s] = [slots[s] EXCEPT !.pc = p]]
    BY <1>1, GoFacts DEF IInv
  <1> DEFINE new == [slots[s] EXCEPT !.pc = p]
  <1>6. new \in Slot /\ new.pc = p /\ new.cancelling = slots[s].cancelling
    BY <1>2, PointSets, SlotAt
  <1> HIDE DEF new
  <1>7. Knows(new, run, log', ran')
    BY <1>2, <1>3, <1>6 DEF Knows, Unanswered, NotYetRun
  <1>8. slots' = [slots EXCEPT ![s] = new]
    BY <1>5 DEF new
  <1> QED
    BY <1>1, <1>2, <1>3, <1>4, <1>6, <1>7, <1>8, Stores, PointSets

LEMMA ModelAnswersInvariant ==
    ASSUME IInv, NEW s \in Slots, ModelAnswers(s)
    PROVE  IInv'
  <1>1. slots[s].pc = "model"
    BY DEF ModelAnswers, At
  <1>2. /\ InStep(s) /\ slots[s] \in Slot /\ ~log.open
        /\ run.status # "parked" /\ ~EndedByStep(run)
        /\ slots[s].cancelling => run.cancelRequested
    BY <1>1, InsideKnows, PointSets
  <1>3. PICK reply \in Replies \ {"none"}, calls \in SUBSET Calls :
           slots' = [slots EXCEPT ![s].pc = "store", ![s].reply = reply,
                                  ![s].calls = calls, ![s].recovering = FALSE]
    BY DEF ModelAnswers
  <1> DEFINE new == [slots[s] EXCEPT !.pc = "store", !.reply = reply,
                                     !.calls = calls, !.recovering = FALSE]
  <1>4. slots' = [slots EXCEPT ![s] = new]
    BY <1>3 DEF IInv, TypeOK
  <1>5. new \in Slot /\ new.pc = "store" /\ new.cancelling = slots[s].cancelling
    BY <1>2 DEF Slot, Points, StepPoints
  <1> HIDE DEF new
  <1>6. Knows(new, run, log, ran)
    BY <1>2, <1>5 DEF Knows, Unanswered, NotYetRun
  <1> QED
    BY <1>2, <1>4, <1>5, <1>6, MovesOn, PointSets DEF ModelAnswers

\* The calls are stored before they run: until they do, none has.
LEMMA StoreReplyInvariant ==
    ASSUME IInv, NEW s \in Slots, StoreReply(s)
    PROVE  IInv'
  <1>1. slots[s].pc = "store" /\ Go(s, "count")
        /\ UNCHANGED <<jobs, lock, faults, taskVars, worldVars>>
    BY DEF StoreReply, At
  <1>2. /\ slots[s].pc \in Loaded /\ slots[s] \in Slot /\ log \in Log /\ ran \in Nat
        /\ run.status # "parked" /\ ~EndedByStep(run) /\ slots[s].calls \in SUBSET Calls
        /\ slots[s].cancelling => run.cancelRequested
    BY <1>1, InsideKnows, PointSets DEF IInv, TypeOK, Slot
  <1>3. \/ /\ slots[s].reply = "calls" /\ log'.open /\ log'.ask = slots[s].calls
           /\ ran' = 0 /\ log'.answer["bash"] = "none" /\ log' \in Log
        \/ /\ slots[s].reply # "calls" /\ log' \in Log /\ ran' = ran
           /\ log'.answer = log.answer /\ ~log'.open
    <2>1. "bash" \in Calls
      BY DEF Calls
    <2>2. CASE slots[s].reply = "calls"
      <3>1. log' = Asked(log, slots[s].calls) /\ ran' = 0
        BY <2>2 DEF StoreReply
      <3> QED
        <4> DEFINE asked == Asked(log, slots[s].calls)
        <4>1. /\ asked \in Log /\ asked.open /\ asked.ask = slots[s].calls
              /\ \A c \in Calls : asked.answer[c] = "none"
          BY <1>2, LogFacts
        <4> HIDE DEF asked
        <4>2. log' = asked
          BY <3>1 DEF asked
        <4> QED
          BY <2>1, <2>2, <3>1, <4>1, <4>2
    <2>3. CASE slots[s].reply # "calls"
      <3>1. log' = Noted(log) /\ ran' = ran
        BY <2>3 DEF StoreReply
      <3> QED
        BY <1>2, <2>3, <3>1, LogFacts
    <2> QED
      BY <2>2, <2>3
  <1>4. TruthTold' /\ ran' \in Nat
    BY <1>2, <1>3 DEF IInv, AnswersTellTheTruth, TruthTold
  <1> DEFINE new == [slots[s] EXCEPT !.pc = "count"]
  <1>5. /\ new \in Slot /\ new.pc = "count" /\ new.cancelling = slots[s].cancelling
        /\ new.reply = slots[s].reply /\ new.calls = slots[s].calls
    BY <1>2, PointSets, SlotAt
  <1>6. slots' = [slots EXCEPT ![s] = new]
    BY <1>1, GoFacts DEF IInv
  <1> HIDE DEF new
  <1>7. Knows(new, run, log', ran')
    BY <1>2, <1>3, <1>5 DEF Knows, Unanswered, NotYetRun
  <1> QED
    BY <1>1, <1>2, <1>3, <1>4, <1>5, <1>6, <1>7, Stores, PointSets

LEMMA CountStepInvariant ==
    ASSUME IInv, NEW s \in Slots, CountStep(s)
    PROVE  IInv'
  <1>1. /\ slots[s].pc = "count" /\ Go(s, AfterCount(s))
        /\ run' = [run EXCEPT !.stepCount = @ + 1]
        /\ UNCHANGED <<jobs, lock, log, handoff, parkItems, report, silent, ran, faults,
                       worldVars>>
    BY DEF CountStep, At
  <1>2. /\ InStep(s) /\ slots[s] \in Slot
        /\ run.status # "parked" /\ ~EndedByStep(run)
        /\ slots[s].cancelling => run.cancelRequested
        /\ slots[s].reply = "calls" =>
              log.open /\ log.ask = slots[s].calls /\ ran = 0
        /\ slots[s].reply # "calls" => ~log.open
    BY <1>1, InsideKnows, PointSets DEF Unanswered, NotYetRun
  <1>3. /\ run' \in [status : Statuses, cancelRequested : BOOLEAN, stepCount : Nat]
        /\ run'.status = run.status /\ run'.cancelRequested = run.cancelRequested
    BY <1>1 DEF IInv, TypeOK
  <1>4. ReportTells' /\ MarkedLast' /\ ParkedOnAHandoff' /\ TruthTold'
        /\ ControlOnlyWhileParked'
    BY <1>1, <1>2, <1>3 DEF IInv, ReportTells, MarkedLast, ParkedOnAHandoff,
       AnswersTellTheTruth, TruthTold, ControlOnlyWhileParked, worldVars
  <1>5. /\ AfterCount(s) \in {"check", "nudge", "finish"}
        /\ AfterCount(s) = "check" => slots[s].reply = "calls"
        /\ AfterCount(s) = "nudge" => slots[s].reply # "calls"
    BY DEF AfterCount
  <1> DEFINE new == [slots[s] EXCEPT !.pc = AfterCount(s)]
  <1>6. /\ new \in Slot /\ new.pc = AfterCount(s) /\ new.cancelling = slots[s].cancelling
        /\ new.calls = slots[s].calls
    BY <1>2, <1>5, PointSets, SlotAt
  <1>7. slots' = [slots EXCEPT ![s] = new]
    BY <1>1, GoFacts DEF IInv
  <1> HIDE DEF new
  <1>8. Knows(new, run', log', ran')
    BY <1>1, <1>2, <1>3, <1>5, <1>6 DEF Knows, Unanswered, NotYetRun, EndedByStep
  <1>9. new.pc \in StepPoints
    BY <1>5, <1>6, PointSets
  <1>10. /\ UNCHANGED <<jobs, lock, log, handoff, parkItems, report, silent, ran, faults, worldVars>>
         /\ log' \in Log /\ ran' \in Nat /\ faults' \in Nat /\ silent' \in BOOLEAN
         /\ handoff' \in {"none", "open", "resolved"} /\ parkItems' \subseteq Nat
         /\ report' \in Final \cup {"none"}
    BY <1>1 DEF IInv, TypeOK
  <1> QED
    BY <1>2, <1>3, <1>4, <1>6, <1>7, <1>8, <1>9, <1>10, StepMoves

\* A step that ends the run, whichever way, leaves nothing behind it to know.
LEMMA EndsInvariant ==
    ASSUME IInv, NEW s \in Slots, Finish(s) \/ ReportFails(s)
    PROVE  IInv'
  <1>1. PICK event \in {"complete", "fail", "cancel", "cap"} : FinishTask(event)
    BY DEF Finish, ReportFails, EndingOf
  <1>2. /\ slots[s].pc \in {"finish", "model"}
        /\ slots' = [slots EXCEPT ![s] = [Rest EXCEPT !.pc = "unlock", !.lease = slots[s].lease,
                                                      !.aborted = slots[s].aborted]]
        /\ UNCHANGED <<jobs, lock, log, ran, worldVars>> /\ faults' \in Nat
    BY DEF Finish, ReportFails, LeaveStep, At, Fault, IInv, TypeOK
  <1>3. InStep(s) /\ run.status # "parked"
    BY <1>2, InsideKnows, PointSets
  <1> DEFINE new == [Rest EXCEPT !.pc = "unlock", !.lease = slots[s].lease,
                                 !.aborted = slots[s].aborted]
  <1>4. new \in Slot /\ new.pc = "unlock"
    BY LeftSlot, PointSets DEF IInv
  <1>5. slots' = [slots EXCEPT ![s] = new]
    BY <1>2
  <1> HIDE DEF new
  <1>6. Knows(new, run', log', ran')
    BY <1>4, PointSets, OutsideKnows
  <1>7. run'.status # "parked" /\ run'.cancelRequested = run.cancelRequested
        /\ ReportTells' /\ ControlOnlyWhileParked'
    BY <1>1, <1>3, FinishFacts
  <1>8. MarkedLast' /\ ParkedOnAHandoff' /\ TruthTold'
    BY <1>2, <1>7 DEF IInv, MarkedLast, ParkedOnAHandoff, AnswersTellTheTruth, TruthTold, worldVars
  <1>9. /\ run' \in [status : Statuses, cancelRequested : BOOLEAN, stepCount : Nat]
        /\ handoff' \in {"none", "open", "resolved"}
        /\ parkItems' \subseteq Nat /\ silent' \in BOOLEAN
        /\ report' \in Final \cup {"none"}
    BY <1>1, FinishFacts
  <1>10. log' \in Log /\ ran' \in Nat /\ new.pc \in StepPoints
    BY <1>2, <1>4, PointSets DEF IInv, TypeOK
  <1> QED
    BY <1>2, <1>3, <1>4, <1>5, <1>6, <1>7, <1>8, <1>9, <1>10, StepMoves

LEMMA CheckCancelInvariant ==
    ASSUME IInv, NEW s \in Slots, CheckCancel(s)
    PROVE  IInv'
  <1>1. slots[s].pc = "check" /\ Go(s, AfterCheck(s))
    BY DEF CheckCancel, At
  <1>2. /\ InStep(s) /\ slots[s] \in Slot
        /\ run.status # "parked" /\ ~EndedByStep(run)
        /\ slots[s].cancelling => run.cancelRequested
        /\ log.open /\ log.ask = slots[s].calls /\ ran = 0
    BY <1>1, InsideKnows, PointSets DEF Unanswered, NotYetRun
  <1>3. /\ AfterCheck(s) \in {"skip", "hold", "tools"}
        /\ AfterCheck(s) = "hold" => "handoff" \in slots[s].calls
    BY DEF AfterCheck
  <1> DEFINE new == [slots[s] EXCEPT !.pc = AfterCheck(s)]
  <1>4. /\ new \in Slot /\ new.pc = AfterCheck(s) /\ new.cancelling = slots[s].cancelling
        /\ new.calls = slots[s].calls
    BY <1>2, <1>3, PointSets, SlotAt
  <1>5. slots' = [slots EXCEPT ![s] = new]
    BY <1>1, GoFacts DEF IInv
  <1> HIDE DEF new
  <1>6. Knows(new, run, log, ran) /\ new.pc \in StepPoints
    BY <1>2, <1>3, <1>4, PointSets DEF Knows, Unanswered, NotYetRun
  <1> QED
    BY <1>2, <1>4, <1>5, <1>6, MovesOn DEF CheckCancel

\* The calls that were not started are said not to have run, and none has.
LEMMA SkipToolsInvariant ==
    ASSUME IInv, NEW s \in Slots, SkipTools(s)
    PROVE  IInv'
  <1>1. /\ slots[s].pc = "skip" /\ Go(s, "queue")
        /\ log' = Answered(log, [c \in Calls |-> "cancelled"])
        /\ UNCHANGED <<jobs, lock, ran, faults, taskVars, worldVars>>
    BY DEF SkipTools, At
  <1>2. /\ slots[s].pc \in Loaded /\ slots[s] \in Slot /\ log \in Log /\ ran = 0
        /\ run.status # "parked" /\ ~EndedByStep(run)
        /\ slots[s].cancelling => run.cancelRequested
    BY <1>1, InsideKnows, PointSets DEF IInv, TypeOK, NotYetRun
  <1>3. log' \in Log /\ ~log'.open /\ log'.answer["bash"] \in {"none", "cancelled"}
    BY <1>1, <1>2, LogFacts DEF Calls, Answers
  <1>4. TruthTold' /\ ran' \in Nat
    BY <1>1, <1>2, <1>3 DEF AnswersTellTheTruth, TruthTold
  <1> DEFINE new == [slots[s] EXCEPT !.pc = "queue"]
  <1>5. new \in Slot /\ new.pc = "queue" /\ new.cancelling = slots[s].cancelling
    BY <1>2, PointSets, SlotAt
  <1>6. slots' = [slots EXCEPT ![s] = new]
    BY <1>1, GoFacts DEF IInv
  <1> HIDE DEF new
  <1>7. Knows(new, run, log', ran')
    BY <1>2, <1>5 DEF Knows, Unanswered, NotYetRun
  <1> QED
    BY <1>1, <1>2, <1>3, <1>4, <1>5, <1>6, <1>7, Stores, PointSets

\* A refused handoff goes on with the tools, or back to what a dead step left.
LEMMA HoldWindowInvariant ==
    ASSUME IInv, NEW s \in Slots, HoldWindow(s)
    PROVE  IInv'
  <1>1. slots[s].pc = "hold"
    BY DEF HoldWindow, At
  <1>2. /\ InStep(s) /\ slots[s] \in Slot
        /\ run.status # "parked" /\ ~EndedByStep(run)
        /\ slots[s].cancelling => run.cancelRequested
        /\ log.open /\ log.ask = slots[s].calls /\ "handoff" \in slots[s].calls
        /\ ~slots[s].recovering => ran = 0
    BY <1>1, InsideKnows, PointSets DEF Unanswered, NotYetRun
  <1>3. PICK window \in {"none", "blank", "page"} :
           slots' = [slots EXCEPT ![s].window = window, ![s].pc = AfterHold(s, window)]
    BY DEF HoldWindow
  <1>4. /\ AfterHold(s, window) \in {"park", "recover", "tools"}
        /\ AfterHold(s, window) = "tools" => ~slots[s].recovering
    BY DEF AfterHold
  <1> DEFINE new == [slots[s] EXCEPT !.window = window, !.pc = AfterHold(s, window)]
  <1>5. slots' = [slots EXCEPT ![s] = new]
    BY <1>3 DEF IInv, TypeOK
  <1>6. /\ new \in Slot /\ new.pc = AfterHold(s, window) /\ new.cancelling = slots[s].cancelling
        /\ new.calls = slots[s].calls /\ new.recovering = slots[s].recovering
    BY <1>2, <1>4 DEF Slot, Points, StepPoints
  <1> HIDE DEF new
  <1>7. Knows(new, run, log, ran) /\ new.pc \in StepPoints
    BY <1>2, <1>4, <1>6, PointSets DEF Knows, Unanswered, NotYetRun
  <1> QED
    BY <1>2, <1>5, <1>6, <1>7, MovesOn DEF HoldWindow

LEMMA ParkInvariant ==
    ASSUME IInv, NEW s \in Slots, Park(s)
    PROVE  IInv'
  <1> DEFINE step == IF slots[s].recovering THEN slots[s].count ELSE slots[s].count + 1
  <1>1. /\ slots[s].pc = "park" /\ ParkTask(slots[s].window, step)
        /\ slots' = [slots EXCEPT ![s] = [Rest EXCEPT !.pc = "unlock", !.lease = slots[s].lease,
                                                      !.aborted = slots[s].aborted]]
        /\ UNCHANGED <<jobs, lock, log, ran, faults, worldVars>>
    BY DEF Park, At, LeaveStep
  <1>2. /\ InStep(s) /\ slots[s] \in Slot
        /\ log.open /\ log.ask = slots[s].calls /\ "handoff" \in slots[s].calls
    BY <1>1, InsideKnows, PointSets DEF Unanswered
  <1>3. step \in Nat
    BY <1>2 DEF Slot
  <1> HIDE DEF step
  <1>4. /\ run' \in [status : Statuses, cancelRequested : BOOLEAN, stepCount : Nat]
        /\ run'.cancelRequested = run.cancelRequested
        /\ handoff' \in {"none", "open", "resolved"}
        /\ parkItems' \subseteq Nat /\ silent' \in BOOLEAN
        /\ report' \in Final \cup {"none"}
        /\ ReportTells' /\ ParkedOnAHandoff' /\ ControlOnlyWhileParked'
    BY <1>1, <1>2, <1>3, ParkFacts
  <1>5. MarkedLast' /\ TruthTold'
    BY <1>1, <1>4 DEF IInv, MarkedLast, AnswersTellTheTruth, TruthTold, worldVars
  <1> DEFINE new == [Rest EXCEPT !.pc = "unlock", !.lease = slots[s].lease,
                                 !.aborted = slots[s].aborted]
  <1>6. new \in Slot /\ new.pc = "unlock"
    BY LeftSlot, PointSets DEF IInv
  <1>7. slots' = [slots EXCEPT ![s] = new]
    BY <1>1
  <1> HIDE DEF new
  <1>8. Knows(new, run', log', ran')
    BY <1>6, PointSets, OutsideKnows
  <1> QED
    <2>1. new.pc \in StepPoints
      BY <1>6, PointSets
    <2>2. log' \in Log /\ ran' \in Nat /\ faults' \in Nat /\ UNCHANGED <<jobs, lock, worldVars>>
      BY <1>1 DEF IInv, TypeOK
    <2> QED
      BY <1>2, <1>4, <1>5, <1>6, <1>7, <1>8, <2>1, <2>2, StepMoves

\* The command takes effect once at most, and a result means it did.
LEMMA RunToolsInvariant ==
    ASSUME IInv, NEW s \in Slots, RunTools(s)
    PROVE  IInv'
  <1>1. slots[s].pc = "tools" /\ UNCHANGED <<jobs, lock, log, faults, taskVars, worldVars>>
    BY DEF RunTools, At
  <1>2. /\ slots[s].pc \in Loaded /\ slots[s] \in Slot /\ log \in Log /\ ran = 0
        /\ run.status # "parked" /\ ~EndedByStep(run)
        /\ slots[s].cancelling => run.cancelRequested
        /\ log.open /\ log.ask = slots[s].calls
    BY <1>1, InsideKnows, PointSets DEF IInv, TypeOK, Unanswered, NotYetRun
  <1>3. PICK new :
           /\ slots' = [slots EXCEPT ![s] = new]
           /\ new \in Slot /\ new.pc = "results" /\ new.cancelling = slots[s].cancelling
           /\ new.calls = slots[s].calls
           /\ "bash" \in new.calls => /\ new.output \in {"result", "error"}
                                      /\ new.output = "result" => ran' = 1
           /\ ran' \in {0, 1}
    <2>1. CASE "bash" \in slots[s].calls
      <3>1. PICK output \in {"result", "error"}, effect \in {0, 1} :
               /\ output = "result" => effect = 1
               /\ slots' = [slots EXCEPT ![s].pc = "results", ![s].output = output]
               /\ ran' = ran + effect
        BY <2>1 DEF RunTools
      <3> DEFINE n == [slots[s] EXCEPT !.pc = "results", !.output = output]
      <3>2. slots' = [slots EXCEPT ![s] = n]
        BY <3>1 DEF IInv, TypeOK
      <3>3. /\ n \in Slot /\ n.pc = "results" /\ n.cancelling = slots[s].cancelling
            /\ n.calls = slots[s].calls /\ n.output = output
        BY <1>2 DEF Slot, Points, StepPoints
      <3> HIDE DEF n
      <3>4. ran' \in {0, 1} /\ (output = "result" => ran' = 1)
        BY <1>2, <3>1
      <3> QED
        BY <3>2, <3>3, <3>4
    <2>2. CASE "bash" \notin slots[s].calls
      <3> DEFINE n == [slots[s] EXCEPT !.pc = "results"]
      <3>1. Go(s, "results") /\ ran' = ran
        BY <2>2 DEF RunTools
      <3>2. slots' = [slots EXCEPT ![s] = n]
        BY <3>1, GoFacts DEF IInv
      <3>3. /\ n \in Slot /\ n.pc = "results" /\ n.cancelling = slots[s].cancelling
            /\ n.calls = slots[s].calls
        BY <1>2, PointSets, SlotAt
      <3> HIDE DEF n
      <3> QED
        BY <1>2, <2>2, <3>1, <3>2, <3>3
    <2> QED
      BY <2>1, <2>2
  <1>4. log' = log /\ log.answer["bash"] = "none"
    BY <1>1, <1>2 DEF IInv, TruthTold
  <1>5. TruthTold' /\ ran' \in Nat
    BY <1>3, <1>4 DEF TruthTold, AnswersTellTheTruth
  <1>6. Knows(new, run, log', ran')
    BY <1>2, <1>3, <1>4 DEF Knows, Unanswered, NotYetRun
  <1> QED
    BY <1>1, <1>2, <1>3, <1>4, <1>5, <1>6, Stores, PointSets

\* The results are stored as they came back.
LEMMA StoreResultsInvariant ==
    ASSUME IInv, NEW s \in Slots, StoreResults(s)
    PROVE  IInv'
  <1>1. /\ slots[s].pc = "results" /\ Go(s, "next")
        /\ log' = Answered(log, [bash |-> slots[s].output, handoff |-> "blank"])
        /\ UNCHANGED <<jobs, lock, ran, faults, taskVars, worldVars>>
    BY DEF StoreResults, At
  <1>2. /\ slots[s].pc \in Loaded /\ slots[s] \in Slot /\ log \in Log /\ ran \in Nat
        /\ run.status # "parked" /\ ~EndedByStep(run) /\ ran <= 1
        /\ slots[s].cancelling => run.cancelRequested
        /\ log.ask = slots[s].calls
        /\ "bash" \in log.ask => /\ slots[s].output \in {"result", "error"}
                                 /\ slots[s].output = "result" => ran = 1
    BY <1>1, InsideKnows, PointSets DEF IInv, TypeOK, Unanswered, TruthTold, AnswersTellTheTruth
  <1>3. /\ ~log'.open /\ log' \in Log
        /\ log'.answer["bash"] = IF "bash" \in log.ask THEN slots[s].output ELSE "none"
    <2> DEFINE ans == [bash |-> slots[s].output, handoff |-> "blank"]
    <2>1. "bash" \in Calls /\ "handoff" \in Calls /\ ans["bash"] = slots[s].output
          /\ \A c \in Calls : ans[c] \in {slots[s].output, "blank"}
      BY DEF Calls
    <2>2. slots[s].output \in Answers /\ "blank" \in Answers
      BY <1>2 DEF Slot, Answers
    <2>3. log' = Answered(log, ans)
      BY <1>1
    <2> HIDE DEF ans
    <2>4. /\ ~Answered(log, ans).open
          /\ Answered(log, ans).answer["bash"] = IF "bash" \in log.ask THEN ans["bash"] ELSE "none"
          /\ (\A c \in Calls : ans[c] \in Answers) => Answered(log, ans) \in Log
      BY <1>2, <2>1, LogFacts
    <2>5. \A c \in Calls : ans[c] \in Answers
      BY <2>1, <2>2
    <2> QED
      BY <2>1, <2>3, <2>4, <2>5
  <1>4. TruthTold' /\ ran' \in Nat
    BY <1>1, <1>2, <1>3 DEF TruthTold, AnswersTellTheTruth
  <1> DEFINE new == [slots[s] EXCEPT !.pc = "next"]
  <1>5. new \in Slot /\ new.pc = "next" /\ new.cancelling = slots[s].cancelling
    BY <1>2, PointSets, SlotAt
  <1>6. slots' = [slots EXCEPT ![s] = new]
    BY <1>1, GoFacts DEF IInv
  <1> HIDE DEF new
  <1>7. Knows(new, run, log', ran')
    BY <1>2, <1>5 DEF Knows, Unanswered, NotYetRun
  <1> QED
    BY <1>1, <1>2, <1>3, <1>4, <1>5, <1>6, <1>7, Stores, PointSets

\* queueTaskStep: the next step's job, if none waits.
LEMMA QueueFacts ==
    ASSUME TypeOK, QueueTaskStep
    PROVE  jobs' \in Tables
  <1>1. jobs \in Tables /\ RunStep \in Keys
    BY BackgroundAssumption DEF TypeOK, Tables, Keys
  <1> QED
    BY <1>1, EnqueueFacts DEF QueueTaskStep

LEMMA QueueNextInvariant ==
    ASSUME IInv, NEW s \in Slots, QueueNext(s)
    PROVE  IInv'
  <1>1. /\ slots[s].pc \in {"queue", "next"}
        /\ slots' = [slots EXCEPT ![s] = [Rest EXCEPT !.pc = "unlock", !.lease = slots[s].lease,
                                                      !.aborted = slots[s].aborted]]
        /\ UNCHANGED <<lock, log, ran, faults, taskVars, worldVars>>
    BY DEF QueueNext, At, LeaveStep
  <1>2. jobs' \in Tables /\ faults' \in Nat
    BY <1>1, QueueFacts DEF QueueNext, IInv, TypeOK
  <1>3. "unlock" \in Points \ Loaded /\ "unlock" \in StepPoints /\ InStep(s)
    BY <1>1, PointSets DEF InStep
  <1> QED
    BY <1>1, <1>2, <1>3, LeftSlot, LeavesInvariant DEF IInv

-----------------------------------------------------------------------------
(* The user and the clock                                                  *)

LEMMA CancelInvariant ==
    ASSUME IInv, CancelReads \/ CancelActs
    PROVE  IInv'
  <1>1. /\ slots' \in [Slots -> Slot] /\ \A t \in Slots : slots'[t] = slots[t]
        /\ jobs' \in Tables /\ faults' \in Nat /\ UNCHANGED <<lock, log, ran, resumes>>
    BY DEF CancelReads, CancelActs, IInv, TypeOK, Tables
  <1>2. CASE CancelReads
    <2>1. UNCHANGED taskVars /\ cancel' \in {"none", "queued", "running", "parked", "done"}
          /\ ~run.cancelRequested
      BY <1>2 DEF CancelReads, IInv, TypeOK, MarkedLast, Statuses
    <2> QED
      BY <1>1, <2>1, RunChanges
         DEF IInv, TypeOK, taskVars, ReportTells, MarkedLast, ControlOnlyWhileParked
  <1>3. CASE CancelActs /\ FinishTask("cancel")
    <2>1. cancel' = "done" /\ ~run.cancelRequested
      BY <1>3 DEF CancelActs, IInv, MarkedLast
    <2>2. run' = run \/ run'.status = "cancelled"
      BY <1>3, FinishFacts DEF Target
    <2>3. run'.cancelRequested = run.cancelRequested
      BY <1>3, FinishFacts
    <2>4. EndedByStep(run') => EndedByStep(run)
      BY <2>1, <2>2, <2>3 DEF EndedByStep
    <2> QED
      BY <1>1, <1>3, <2>1, <2>3, <2>4, FinishFacts, RunChanges DEF MarkedLast
  <1>4. CASE CancelActs /\ ~FinishTask("cancel")
    <2>1. /\ cancel' = "done"
          /\ run' = IF run.status = "running"
                    THEN [run EXCEPT !.cancelRequested = TRUE] ELSE run
          /\ UNCHANGED <<handoff, parkItems, report, silent>>
      BY <1>4 DEF CancelActs
    <2>2. /\ run' \in [status : Statuses, cancelRequested : BOOLEAN, stepCount : Nat]
          /\ run'.status = run.status
          /\ run.cancelRequested => run'.cancelRequested
          /\ EndedByStep(run') => EndedByStep(run)
      BY <2>1 DEF IInv, TypeOK, EndedByStep
    <2>3. ReportTells' /\ MarkedLast' /\ ControlOnlyWhileParked'
      BY <2>1, <2>2 DEF IInv, ReportTells, MarkedLast, ControlOnlyWhileParked
    <2> QED
      BY <1>1, <2>1, <2>2, <2>3, RunChanges DEF IInv, TypeOK
  <1> QED
    BY <1>2, <1>3, <1>4

\* resumeTask: the handoff is answered; no slot is past the load of a parked run.
LEMMA ResumeTaskInvariant ==
    ASSUME IInv, ResumeTask
    PROVE  IInv'
  <1>1. /\ run.status = "parked" /\ run' = [run EXCEPT !.status = "running"]
        /\ handoff' = HandoffResolved /\ QueueTaskStep
        /\ UNCHANGED <<lock, parkItems, report, silent, slots, cancel, ran, faults>>
    BY DEF ResumeTask, Accepts
  <1>2. /\ run' \in [status : Statuses, cancelRequested : BOOLEAN, stepCount : Nat]
        /\ run'.status = "running" /\ run'.cancelRequested = run.cancelRequested
    BY <1>1 DEF IInv, TypeOK, Statuses
  <1>3. log \in Log /\ log.open /\ log.answer["bash"] = "none"
    BY <1>1 DEF IInv, TypeOK, ParkedOnAHandoff, TruthTold
  <1>4. log' = Answered(log, [bash |-> "beside", handoff |-> "resumed"])
    BY <1>3 DEF ResumeTask
  <1>5. log' \in Log /\ ~log'.open /\ log'.answer["bash"] \in {"none", "beside"}
    BY <1>3, <1>4, LogFacts DEF Calls, Answers
  <1>6. TypeOK'
    <2>1. jobs' \in Tables
      BY <1>1, QueueFacts DEF IInv
    <2>2. handoff' \in {"none", "resolved"}
      BY <1>1 DEF HandoffResolved, IInv, TypeOK
    <2>3. resumes' \in Nat
      BY DEF ResumeTask, IInv, TypeOK
    <2> QED
      BY <1>1, <1>2, <1>5, <2>1, <2>2, <2>3 DEF IInv, TypeOK, InStep, Tables
  <1>7. handoff' # "open"
    BY <1>1 DEF HandoffResolved
  <1>8. /\ ReportTells' /\ MarkedLast' /\ ParkedOnAHandoff' /\ ControlOnlyWhileParked'
        /\ TruthTold'
    BY <1>1, <1>2, <1>5, <1>7 DEF IInv, ReportTells, MarkedLast, ParkedOnAHandoff,
       ControlOnlyWhileParked, TruthTold, AnswersTellTheTruth, Final
  <1>9. ASSUME NEW t \in Slots
        PROVE  Knows(slots'[t], run', log', ran')
    <2>1. slots'[t] = slots[t] /\ slots[t].pc \notin Loaded
      BY <1>1, InsideKnows
    <2> QED
      BY <2>1, OutsideKnows
  <1> QED
    BY <1>6, <1>8, <1>9 DEF IInv

LEMMA ClockInvariant ==
    ASSUME IInv, NEW j \in JobIds, BecomesDue(j) \/ LeaseRunsOut(j) \/ LeaseOutlived(j)
    PROVE  IInv'
  <1>1. jobs \in Tables
    BY DEF IInv, TypeOK, Tables
  <1>2. jobs' \in Tables
    <2>1. jobs' = Passed(jobs, j) \/ jobs' = Lapsed(jobs, j)
      BY DEF BecomesDue, LeaseRunsOut, LeaseOutlived
    <2> QED
      BY <1>1, <2>1, TimesFacts
  <1>3. /\ slots' \in [Slots -> Slot] /\ \A t \in Slots : slots'[t] = slots[t]
        /\ UNCHANGED <<lock, log, ran, taskVars, worldVars>> /\ faults' \in Nat
    BY DEF BecomesDue, LeaseRunsOut, LeaseOutlived, Fault, IInv, TypeOK
  <1> QED
    BY <1>2, <1>3, RunChanges
       DEF IInv, TypeOK, taskVars, worldVars, ReportTells, MarkedLast, ControlOnlyWhileParked

-----------------------------------------------------------------------------
(* The invariant                                                           *)

LEMMA InitInvariant ==
    ASSUME Init
    PROVE  IInv
  <1>1. jobs \in Tables
    <2>1. QueuedJob(RunStep, RunStep, TRUE) \in Job
      BY BackgroundAssumption DEF QueuedJob, NoJob, Job, JobStatus, Keys
    <2> QED
      BY <2>1, RestIsASlot, EmptyTableFacts DEF Init, StartBackgroundRun, Tables
  <1>2. log \in Log /\ ~log.open /\ log.answer["bash"] = "none"
    BY DEF Init, StartBackgroundRun, EmptyLog, Log, NoAnswer, Answers, Calls
  <1>3. run \in [status : Statuses, cancelRequested : BOOLEAN, stepCount : Nat]
        /\ run.status = "queued" /\ ~run.cancelRequested
    BY DEF Init, StartBackgroundRun, Statuses
  <1>4. \A s \in Slots : slots[s] = Rest /\ ~InStep(s)
    BY RestIsASlot DEF Init, InStep, StepPoints
  <1>5. TypeOK
    BY <1>1, <1>2, <1>3, <1>4, RestIsASlot, BackgroundAssumption DEF Init, TypeOK, Tables
  <1>6. /\ ReportTells /\ MarkedLast /\ ParkedOnAHandoff /\ ControlOnlyWhileParked
        /\ TruthTold
    BY <1>2, <1>3 DEF Init, ReportTells, MarkedLast, ParkedOnAHandoff,
       ControlOnlyWhileParked, TruthTold, AnswersTellTheTruth, Final
  <1>7. ASSUME NEW s \in Slots
        PROVE  Knows(slots[s], run, log, ran)
    BY <1>4, OutsideKnows, PointSets DEF InStep
  <1> QED
    BY <1>5, <1>6, <1>7 DEF IInv

LEMMA NextInvariant ==
    ASSUME IInv, [Next]_vars
    PROVE  IInv'
  <1>1. CASE UNCHANGED vars
    <2>1. taskVars' = taskVars /\ worldVars' = worldVars
      BY <1>1 DEF vars, taskVars, worldVars
    <2> QED
      BY <1>1, <2>1, RunChanges DEF vars, IInv, TypeOK, Tables, ReportTells, MarkedLast,
         ControlOnlyWhileParked
  <1>2. CASE \E s \in Slots, j \in JobIds : TakeLease(s, j)
    BY <1>2, TakeLeaseInvariant
  <1>3. ASSUME NEW s \in Slots, StepOf(s)
        PROVE  IInv'
    BY <1>3, LoadRunInvariant, StartRunInvariant, ReadLogInvariant, RecoverInvariant,
       NotedInvariant, ModelAnswersInvariant, StoreReplyInvariant, CountStepInvariant,
       EndsInvariant, CheckCancelInvariant, SkipToolsInvariant, HoldWindowInvariant,
       ParkInvariant, RunToolsInvariant, StoreResultsInvariant, QueueNextInvariant,
       ThrowsInvariant DEF StepOf
  <1>4. ASSUME NEW s \in Slots, HandlerOf(s)
        PROVE  IInv'
    BY <1>4, TryLockInvariant, UnlockInvariant, CaughtInvariant, SettleInvariant DEF HandlerOf
  <1>5. ASSUME NEW s \in Slots, SlotFault(s)
        PROVE  IInv'
    BY <1>5, SettleInvariant, ThrowsInvariant, EndsInvariant DEF SlotFault
  <1>6. CASE \E s \in Slots : Heartbeat(s)
    BY <1>6, HeartbeatInvariant
  <1>7. CASE CancelReads \/ CancelActs \/ ResumeTask
    BY <1>7, CancelInvariant, ResumeTaskInvariant
  <1>8. CASE \E j \in JobIds : BecomesDue(j) \/ LeaseRunsOut(j) \/ LeaseOutlived(j)
    BY <1>8, ClockInvariant
  <1> QED
    BY <1>1, <1>2, <1>3, <1>4, <1>5, <1>6, <1>7, <1>8 DEF Next

LEMMA Invariance == Spec => []IInv
  <1>1. Init => IInv
    BY InitInvariant
  <1>2. IInv /\ [Next]_vars => IInv'
    BY NextInvariant
  <1> QED
    BY <1>1, <1>2, PTL DEF Spec

\* The state keeps its shape, and whoever is inside a step holds the run's lock
\* (background/handler.ts, withLock), whatever crashes, stalls or is retried.
THEOREM TypeCorrect == Spec => []TypeOK
  BY Invariance, PTL DEF IInv

\* What the transcript says of a command is what happened on the computer, and no
\* command runs twice (run.ts, crash safety).
THEOREM TruthIsTold == Spec => []AnswersTellTheTruth
  BY Invariance, PTL DEF IInv, TruthTold

\* A parked run's transcript ends with the handoff the user's coming back answers
\* (tasks.ts, resumeTask).
THEOREM ParksOnAHandoff == Spec => []ParkedOnAHandoff
  BY Invariance, PTL DEF IInv

\* No way of carrying on or ending leaves the user in control of a window
\* (handoffs.ts, resolveHandoff).
THEOREM ControlIsGivenBack == Spec => []ControlOnlyWhileParked
  BY Invariance, PTL DEF IInv

-----------------------------------------------------------------------------
(* Steps                                                                   *)

\* What a step may do to the run's status: an ended run keeps its ending.
LEMMA EndingStays ==
    ASSUME IInv, [Next]_vars, run.status \in Final
    PROVE  run'.status = run.status
  <1>1. \A event : ~Accepts(run.status, event)
    BY DEF Accepts, Final
  <1>2. \A event : FinishTask(event) => run' = run
    BY <1>1 DEF FinishTask, taskVars
  <1>3. \A window, step : ParkTask(window, step) => run' = run
    BY <1>1 DEF ParkTask, taskVars
  <1>4. run \in [status : Statuses, cancelRequested : BOOLEAN, stepCount : Nat]
    BY DEF IInv, TypeOK
  <1>5. CASE UNCHANGED taskVars
    BY <1>5 DEF taskVars
  <1>6. ASSUME NEW s \in Slots, StartRun(s) \/ CountStep(s)
        PROVE  run'.status = run.status
    BY <1>1, <1>4, <1>6 DEF StartRun, CountStep
  <1>7. ASSUME NEW s \in Slots, Finish(s) \/ ReportFails(s) \/ Park(s) \/ Caught(s)
        PROVE  run'.status = run.status
    BY <1>2, <1>3, <1>5, <1>7 DEF Finish, ReportFails, Park, Caught
  <1>8. CASE CancelReads \/ CancelActs \/ ResumeTask
    BY <1>1, <1>2, <1>4, <1>5, <1>8 DEF CancelReads, CancelActs, ResumeTask
  <1>9. CASE UNCHANGED vars
    BY <1>9 DEF vars
  <1>10. ASSUME NEW s \in Slots, StepOf(s)
         PROVE  run'.status = run.status
    <2>1. CASE StartRun(s) \/ CountStep(s) \/ Finish(s) \/ Park(s)
      BY <1>6, <1>7, <2>1
    <2>2. CASE ~(StartRun(s) \/ CountStep(s) \/ Finish(s) \/ Park(s))
      BY <1>5, <1>10, <2>2 DEF StepOf, LoadRun, ReadLog, Recover, StoreNote, ModelAnswers,
         StoreReply, Nudge, CheckCancel, SkipTools, HoldWindow, RunTools, StoreResults,
         QueueNext, Aborts
    <2> QED
      BY <2>1, <2>2
  <1>11. ASSUME NEW s \in Slots, HandlerOf(s) \/ Heartbeat(s) \/ SlotFault(s)
         PROVE  run'.status = run.status
    BY <1>5, <1>7, <1>11 DEF HandlerOf, TryLock, Unlock, Return, FailJob, Heartbeat,
       SlotFault, Crash, CallFails
  <1>12. CASE \E j \in JobIds : \/ \E s \in Slots : TakeLease(s, j)
                                \/ BecomesDue(j) \/ LeaseRunsOut(j) \/ LeaseOutlived(j)
    BY <1>5, <1>12 DEF TakeLease, BecomesDue, LeaseRunsOut, LeaseOutlived
  <1> QED
    BY <1>8, <1>9, <1>10, <1>11, <1>12 DEF Next

\* Which steps touch the transcript.
LEMMA TranscriptSteps ==
    ASSUME IInv, [Next]_vars
    PROVE  \/ log' = log
           \/ \E s \in Slots : \/ Recover(s) \/ StoreNote(s) \/ StoreReply(s) \/ Nudge(s)
                               \/ SkipTools(s) \/ StoreResults(s)
           \/ ResumeTask
  <1>1. ASSUME NEW s \in Slots, StepOf(s)
        PROVE  \/ log' = log
               \/ Recover(s) \/ StoreNote(s) \/ StoreReply(s) \/ Nudge(s)
               \/ SkipTools(s) \/ StoreResults(s)
    BY <1>1 DEF StepOf, LoadRun, StartRun, ReadLog, ModelAnswers, CountStep, Finish, CheckCancel,
       HoldWindow, Park, RunTools, QueueNext, Aborts
  <1>2. ASSUME NEW s \in Slots, HandlerOf(s) \/ Heartbeat(s) \/ SlotFault(s)
        PROVE  log' = log
    BY <1>2 DEF HandlerOf, TryLock, Unlock, Caught, Return, FailJob, Heartbeat,
       SlotFault, Crash, CallFails, ReportFails
  <1>3. CASE \E j \in JobIds : \/ \E s \in Slots : TakeLease(s, j)
                               \/ BecomesDue(j) \/ LeaseRunsOut(j) \/ LeaseOutlived(j)
    BY <1>3 DEF TakeLease, BecomesDue, LeaseRunsOut, LeaseOutlived
  <1>4. CASE CancelReads \/ CancelActs \/ UNCHANGED vars
    BY <1>4 DEF CancelReads, CancelActs, vars
  <1> QED
    BY <1>1, <1>2, <1>3, <1>4 DEF Next

\* Whatever answers calls answers each of them.
LEMMA EachIsAnswered ==
    ASSUME NEW l \in Log, NEW ans, \A c \in l.ask : ans[c] # "none"
    PROVE  /\ ~Answered(l, ans).open
           /\ \A c \in l.ask : Answered(l, ans).answer[c] # "none"
  <1>1. l.ask \subseteq Calls
    BY DEF Log
  <1> QED
    BY <1>1, LogFacts

LEMMA AnswersFollowCalls ==
    ASSUME IInv, [Next]_vars, log.open, log' # log
    PROVE  ~log'.open /\ \A c \in log.ask : log'.answer[c] # "none"
  <1>1. log \in Log /\ log.ask \subseteq Calls
    BY DEF IInv, TypeOK, Log
  <1>2. ASSUME NEW s \in Slots, StoreNote(s) \/ StoreReply(s) \/ Nudge(s)
        PROVE  FALSE
    <2>1. slots[s].pc \in {"note", "store", "nudge"}
      BY <1>2 DEF StoreNote, StoreReply, Nudge, At
    <2> QED
      BY <2>1, InsideKnows, PointSets
  <1>3. ASSUME NEW s \in Slots, Recover(s)
        PROVE  ~log'.open /\ \A c \in log.ask : log'.answer[c] # "none"
    <2>1. PICK known \in BOOLEAN :
             log' = Answered(log, [bash |-> IF known THEN "result" ELSE "unknown",
                                   handoff |-> "blank"])
      BY <1>3 DEF Recover
    <2> DEFINE ans == [bash |-> IF known THEN "result" ELSE "unknown", handoff |-> "blank"]
    <2>2. \A c \in log.ask : ans[c] # "none"
      BY <1>1 DEF Calls
    <2> HIDE DEF ans
    <2>3. log' = Answered(log, ans)
      BY <2>1 DEF ans
    <2> QED
      BY <1>1, <2>2, <2>3, EachIsAnswered
  <1>4. ASSUME NEW s \in Slots, SkipTools(s)
        PROVE  ~log'.open /\ \A c \in log.ask : log'.answer[c] # "none"
    <2> DEFINE ans == [c \in Calls |-> "cancelled"]
    <2>1. \A c \in log.ask : ans[c] # "none"
      BY <1>1
    <2>2. log' = Answered(log, ans)
      BY <1>4 DEF SkipTools
    <2> HIDE DEF ans
    <2> QED
      BY <1>1, <2>1, <2>2, EachIsAnswered
  <1>5. ASSUME NEW s \in Slots, StoreResults(s)
        PROVE  ~log'.open /\ \A c \in log.ask : log'.answer[c] # "none"
    <2>1. /\ slots[s].pc = "results"
          /\ log' = Answered(log, [bash |-> slots[s].output, handoff |-> "blank"])
      BY <1>5 DEF StoreResults, At
    <2>2. "bash" \in log.ask => slots[s].output \in {"result", "error"}
      BY <2>1, InsideKnows, PointSets DEF Unanswered
    <2> DEFINE ans == [bash |-> slots[s].output, handoff |-> "blank"]
    <2>3. \A c \in log.ask : ans[c] # "none"
      BY <1>1, <2>2 DEF Calls
    <2> HIDE DEF ans
    <2>4. log' = Answered(log, ans)
      BY <2>1 DEF ans
    <2> QED
      BY <1>1, <2>3, <2>4, EachIsAnswered
  <1>6. CASE ResumeTask
    <2> DEFINE ans == [bash |-> "beside", handoff |-> "resumed"]
    <2>1. \A c \in log.ask : ans[c] # "none"
      BY <1>1 DEF Calls
    <2>2. log' = Answered(log, ans)
      BY <1>6 DEF ResumeTask
    <2> HIDE DEF ans
    <2> QED
      BY <1>1, <2>1, <2>2, EachIsAnswered
  <1> QED
    BY <1>2, <1>3, <1>4, <1>5, <1>6, TranscriptSteps

\* Tool calls are answered before anything else is stored, each of them, whoever
\* stores the answers: the step, the one that takes over from it, or the user's
\* coming back (run.ts; tasks.ts, resumeTask).
THEOREM CallsAreAnswered == Spec => CallsAnsweredNext
  <1>1. IInv /\ [Next]_vars =>
           [(log.open /\ log' # log) =>
               ~log'.open /\ \A c \in log.ask : log'.answer[c] # "none"]_vars
    BY AnswersFollowCalls
  <1> QED
    BY <1>1, Invariance, PTL DEF Spec, CallsAnsweredNext

\* Only a step that is past the load of the run, and the storing of new calls,
\* touch the count of the command's effects.
LEMMA RanSteps ==
    ASSUME IInv, [Next]_vars, EndedByStep(run)
    PROVE  ran' <= ran
  <1>1. ran \in Nat
    BY DEF IInv, TypeOK
  <1>2. ASSUME NEW s \in Slots, RunTools(s)
        PROVE  FALSE
    BY <1>2, InsideKnows, PointSets DEF RunTools, At
  <1>3. ASSUME NEW s \in Slots, StoreReply(s)
        PROVE  ran' <= ran
    BY <1>1, <1>3 DEF StoreReply
  <1>4. ASSUME NEW s \in Slots, StepOf(s), ~RunTools(s), ~StoreReply(s)
        PROVE  ran' = ran
    BY <1>4 DEF StepOf, LoadRun, StartRun, ReadLog, Recover, StoreNote, ModelAnswers, CountStep,
       Nudge, Finish, CheckCancel, SkipTools, HoldWindow, Park, StoreResults, QueueNext, Aborts
  <1>5. ASSUME NEW s \in Slots, HandlerOf(s) \/ Heartbeat(s) \/ SlotFault(s)
        PROVE  ran' = ran
    BY <1>5 DEF HandlerOf, TryLock, Unlock, Caught, Return, FailJob, Heartbeat,
       SlotFault, Crash, CallFails, ReportFails
  <1>6. CASE \E j \in JobIds : \/ \E s \in Slots : TakeLease(s, j)
                               \/ BecomesDue(j) \/ LeaseRunsOut(j) \/ LeaseOutlived(j)
    BY <1>1, <1>6 DEF TakeLease, BecomesDue, LeaseRunsOut, LeaseOutlived
  <1>7. CASE CancelReads \/ CancelActs \/ ResumeTask \/ UNCHANGED vars
    BY <1>1, <1>7 DEF CancelReads, CancelActs, ResumeTask, vars
  <1>8. ran' = ran => ran' <= ran
    BY <1>1
  <1> QED
    BY <1>2, <1>3, <1>4, <1>5, <1>6, <1>7, <1>8 DEF Next

\* Once a step ended the run with its report, no step starts another command: a
\* stalled step that comes back finds the run's lock still its own, and nobody
\* else was let in (run.ts; background/handler.ts, withLock).
THEOREM EndingEnds == Spec => OwnEndingIsTheEnd
  <1>1. IInv /\ [Next]_vars =>
           [(\/ run.status \in {"completed", "capped"}
             \/ run.status = "cancelled" /\ run.cancelRequested) => ran' <= ran]_vars
    BY RanSteps DEF EndedByStep
  <1> QED
    BY <1>1, Invariance, PTL DEF Spec, OwnEndingIsTheEnd

-----------------------------------------------------------------------------
(* The promise                                                             *)

\* What the promise sees of a run.
LEMMA PromiseSees ==
    ASSUME IInv
    PROVE  /\ run.status \in Final =>
                 Phase = "over" /\ EndedAs = run.status /\ report = run.status
           /\ run.status = "parked" =>
                 Phase = "paused" /\ EndedAs = "none" /\ report = "none"
           /\ (run.status \notin Final /\ run.status # "parked") =>
                 Phase = "open" /\ EndedAs = "none" /\ report = "none"
  BY DEF IInv, ReportTells, Phase, EndedAs, Final

LEMMA PromiseStep ==
    ASSUME IInv, [Next]_vars
    PROVE  [Promise!Next]_(Promise!vars)
  <1>1. IInv'
    BY NextInvariant
  <1>2. /\ run'.status \in Final =>
              Phase' = "over" /\ EndedAs' = run'.status /\ report' = run'.status
        /\ run'.status = "parked" =>
              Phase' = "paused" /\ EndedAs' = "none" /\ report' = "none"
        /\ (run'.status \notin Final /\ run'.status # "parked") =>
              Phase' = "open" /\ EndedAs' = "none" /\ report' = "none"
    BY <1>1 DEF IInv, ReportTells, Phase, EndedAs, Final
  <1>3. "parked" \notin Final
    BY DEF Final
  <1>4. CASE run.status \in Final
    BY <1>2, <1>4, EndingStays, PromiseSees DEF Promise!vars
  <1>5. CASE run.status \notin Final /\ run'.status \in Final
    <2>1. Promise!End
      BY <1>2, <1>5, PromiseSees DEF Promise!End
    <2> QED
      BY <2>1 DEF Promise!Next
  <1>6. CASE run.status \notin Final /\ run'.status \notin Final
    <2>1. CASE run.status = "parked" /\ run'.status # "parked"
      BY <1>2, <1>6, <2>1, PromiseSees DEF Promise!Next, Promise!Continue
    <2>2. CASE run.status # "parked" /\ run'.status = "parked"
      BY <1>2, <1>6, <2>2, PromiseSees DEF Promise!Next, Promise!Pause
    <2>3. CASE run.status = "parked" <=> run'.status = "parked"
      BY <1>2, <1>6, <2>3, PromiseSees DEF Promise!vars
    <2> QED
      BY <2>1, <2>2, <2>3
  <1> QED
    BY <1>4, <1>5, <1>6

\* A background run keeps the promise of TaskPromise: it goes on or waits until it
\* ends, ends once, and one report says how (tasks.ts, finishTask and parkTask).
THEOREM PromiseKept == Spec => KeepsPromise
  <1>1. Init => Promise!Init
    <2>1. Init => run.status = "queued"
      BY DEF Init, StartBackgroundRun
    <2> QED
      BY <2>1, InitInvariant, PromiseSees DEF Promise!Init, Final
  <1>2. IInv /\ [Next]_vars => [Promise!Next]_(Promise!vars)
    BY PromiseStep
  <1> QED
    BY <1>1, <1>2, Invariance, PTL DEF Spec, KeepsPromise, Promise!Spec
=============================================================================
