------------------------------ MODULE FrontTurn ------------------------------
(***************************************************************************)
(* One user's input and the front-of-house turns that answer it: the       *)
(* inbound items as the webhook and recordSystemEvent store them           *)
(* (apps/api/src/telegram/handle-update.ts, packages/db/src/               *)
(* system-events.ts), the file a held item waits for (apps/agents/src/     *)
(* attachments.ts), the front_turn job and its lock (front/handler.ts,     *)
(* lock.ts) and the turn itself (front/turn.ts).                           *)
(*                                                                         *)
(* Items are numbered by (occurred_at, created_at).  A slot's program      *)
(* counter stops at every call; the model's words are left out and only    *)
(* what a step does to the input and to the turn is kept.                  *)
(***************************************************************************)
EXTENDS JobTable, FiniteSets

CONSTANTS
    Slots,        \* slots of the turn worker, of all processes together
    None,
    Items,        \* the user's inbound items, in order
    Files,        \* the items that are held until their file is saved
    Reactions,    \* the items that never interrupt a step
    StepBudget,   \* frontStepBudget
    MaxFaults     \* bound: crashes, outlived leases and failed calls

Turn == 0         \* what a front_turn job is for; save_attachment: its item

\* Every turn that ends well answers an item, every other one takes a fault.
RunIds == 1 .. (Cardinality(Items) + MaxFaults)

ASSUME FrontAssumption ==
    /\ None \notin Slots
    /\ JobIds # {}
    /\ IsFiniteSet(Items) /\ Items \subseteq Nat \ {0}
    /\ Files \subseteq Items /\ Reactions \subseteq Items \ Files
    /\ Works = {Turn} \cup Files
    /\ StepBudget \in Nat \ {0}
    /\ MaxFaults \in Nat

VARIABLES
    jobs,
    lock,       \* the slot holding the user's turn lock, or None
    items,      \* inbound_items: whether it is held, and the run that took it
    runs,       \* the front runs' status
    slots,
    outlived,   \* history: a handler outlived its lease
    faults

vars == <<jobs, lock, items, runs, slots, outlived, faults>>

-----------------------------------------------------------------------------
(* Input (claimableInput, lockUnconsumed, RunLog.claim)                    *)

Item == [stored : BOOLEAN, pending : BOOLEAN, by : RunIds \cup {0}]

\* Unconsumed items.
Waiting(its) == {i \in Items : its[i].stored /\ its[i].by = 0}

\* Mutant: a message may overtake a file sent before it.
MutClaimableOvertakes(its) == {i \in Waiting(its) : ~its[i].pending}

\* Unconsumed, not pending, and older than any pending item.
Claimable(its) ==
    {i \in Waiting(its) : \A h \in Waiting(its) : its[h].pending => i < h}

\* What makes a step drop its message (except: neverInterrupts).
Interrupting == Claimable(items) \ Reactions

Consumed(its, r) ==
    [i \in Items |-> IF i \in Claimable(its) THEN [its[i] EXCEPT !.by = r] ELSE its[i]]

Released(rs) ==
    [i \in Items |-> IF items[i].by \in rs THEN [items[i] EXCEPT !.by = 0] ELSE items[i]]

Running == {r \in RunIds : runs[r] = "running"}

NewRun == CHOOSE r \in RunIds : /\ runs[r] = "none"
                                /\ \A q \in RunIds : q < r => runs[q] # "none"

-----------------------------------------------------------------------------
(* Slots                                                                   *)

\* Holding the lock, in the turn.
TurnPoints == {"claim", "setup", "steer", "model", "deliver", "tools", "finish",
               "failing", "release", "unlock", "thrown"}

Points == TurnPoints \cup {"idle", "leased", "check", "followup", "return",
                           "fail", "save", "release_item"}

Slot == [pc    : Points,
         lease : Lease,
         run   : RunIds \cup {0},
         steps : 0 .. StepBudget,
         drop  : BOOLEAN]          \* stream.dropStep

\* An idle slot's lease means nothing.
AnyJob == CHOOSE j \in JobIds : TRUE

Rest == [pc |-> "idle", lease |-> [job |-> AnyJob, token |-> 0], run |-> 0,
         steps |-> 0, drop |-> FALSE]

At(s, p) == slots[s].pc = p

Go(s, p) == slots' = [slots EXCEPT ![s].pc = p]

\* The turn is over and its local variables with it.
LeaveTurn(s, p) ==
    slots' = [slots EXCEPT ![s] = [Rest EXCEPT !.pc = p, !.lease = slots[s].lease]]

WorkOf(s) == jobs[slots[s].lease.job].work

Fault == faults < MaxFaults /\ faults' = faults + 1

Init ==
    /\ jobs = EmptyTable
    /\ lock = None
    /\ items = [i \in Items |-> [stored |-> FALSE, pending |-> FALSE, by |-> 0]]
    /\ runs = [r \in RunIds |-> "none"]
    /\ slots = [s \in Slots |-> Rest]
    /\ outlived = FALSE
    /\ faults = 0

-----------------------------------------------------------------------------
(* Input arrives                                                           *)

NextItem(i) == /\ ~items[i].stored
               /\ \A h \in Items : h < i => items[h].stored

\* storeAndQueueTurn, recordSystemEvent: the item and its job in one
\* transaction; a held item's turn is queued once its file is saved.
Arrive(i) ==
    /\ NextItem(i)
    /\ items' = [items EXCEPT ![i].stored = TRUE, ![i].pending = (i \in Files)]
    /\ IF i \in Files THEN EnqueueIgnore(jobs, jobs', i, i, TRUE)
                      ELSE EnqueueReschedule(jobs, jobs', Turn, Turn, FALSE)
    /\ UNCHANGED <<lock, runs, slots, outlived, faults>>

-----------------------------------------------------------------------------
(* The worker                                                              *)

TakeLease(s, j) ==
    /\ At(s, "idle")
    /\ Leasable(jobs, j)
    /\ jobs' = Leased(jobs, j)
    /\ slots' = [slots EXCEPT ![s].lease = LeaseOf(jobs', j),
                              ![s].pc = IF jobs[j].work = Turn THEN "leased"
                                                               ELSE "save"]
    /\ UNCHANGED <<lock, items, runs, outlived, faults>>

Return(s) ==
    /\ At(s, "return")
    /\ jobs' = Completed(jobs, slots[s].lease)
    /\ slots' = [slots EXCEPT ![s] = Rest]
    /\ UNCHANGED <<lock, items, runs, outlived, faults>>

FailJob(s) ==
    /\ At(s, "fail")
    /\ jobs' = Failed(jobs, slots[s].lease)
    /\ slots' = [slots EXCEPT ![s] = Rest]
    /\ UNCHANGED <<lock, items, runs, outlived, faults>>

\* The worker dies; its connection closes and Postgres releases the lock.
Crash(s) ==
    /\ ~At(s, "idle")
    /\ Fault
    /\ lock' = IF lock = s THEN None ELSE lock
    /\ slots' = [slots EXCEPT ![s] = Rest]
    /\ UNCHANGED <<jobs, items, runs, outlived>>

-----------------------------------------------------------------------------
(* The save_attachment job (transcription, which holds the item longer in  *)
(* the same way, included)                                                 *)

\* A duplicate run finds the item released.  Else the file is saved, or it is
\* not and the job retries, or the last attempt gives up.
Save(s) ==
    /\ At(s, "save")
    /\ Go(s, IF items[WorkOf(s)].pending THEN "release_item" ELSE "return")
    /\ UNCHANGED <<jobs, lock, items, runs, outlived, faults>>

SaveFails(s) ==
    /\ At(s, "save") /\ items[WorkOf(s)].pending
    /\ Fault
    /\ Go(s, IF Exhausted(slots[s].lease) THEN "release_item" ELSE "fail")
    /\ UNCHANGED <<jobs, lock, items, runs, outlived>>

\* Guarded on `pending`, with the turn's job in one transaction.
ReleaseItem(s) ==
    /\ At(s, "release_item")
    /\ IF items[WorkOf(s)].pending
       THEN /\ items' = [items EXCEPT ![WorkOf(s)].pending = FALSE]
            /\ EnqueueReschedule(jobs, jobs', Turn, Turn, FALSE)
       ELSE UNCHANGED <<items, jobs>>
    /\ Go(s, "return")
    /\ UNCHANGED <<lock, runs, outlived, faults>>

-----------------------------------------------------------------------------
(* The front_turn handler                                                  *)

\* Mutant: the turn runs whether or not the lock was free.
MutTryLockAnyway(s) ==
    /\ At(s, "leased")
    /\ lock' = s /\ Go(s, "claim")
    /\ UNCHANGED <<jobs, items, runs, outlived, faults>>

TryLock(s) ==
    /\ At(s, "leased")
    /\ IF lock = None THEN lock' = s /\ Go(s, "claim")
                      ELSE UNCHANGED lock /\ Go(s, "return")
    /\ UNCHANGED <<jobs, items, runs, outlived, faults>>

Unlock(s) ==
    /\ slots[s].pc \in {"unlock", "thrown"}
    /\ lock' = None
    /\ LeaveTurn(s, IF At(s, "thrown") THEN "fail" ELSE "check")
    /\ UNCHANGED <<jobs, items, runs, outlived, faults>>

\* Mutant: nothing is checked after the lock is released.
MutNoFollowUp(s) ==
    /\ At(s, "check")
    /\ Go(s, "return")
    /\ UNCHANGED <<jobs, lock, items, runs, outlived, faults>>

\* hasClaimableInput, after release.
CheckInput(s) ==
    /\ At(s, "check")
    /\ Go(s, IF Claimable(items) # {} THEN "followup" ELSE "return")
    /\ UNCHANGED <<jobs, lock, items, runs, outlived, faults>>

FollowUp(s) ==
    /\ At(s, "followup")
    /\ EnqueueIgnore(jobs, jobs', Turn, Turn, TRUE)
    /\ Go(s, "return")
    /\ UNCHANGED <<lock, items, runs, outlived, faults>>

-----------------------------------------------------------------------------
(* The turn                                                                *)

\* Mutant: every earlier run is taken for dead.
MutAbandonedAll == {r \in RunIds : runs[r] # "none"}

\* Under the lock, any other running run is dead (recoverAbandonedRuns).
Abandoned == Running

\* One transaction: dead runs fail and give their input back, and a new run
\* claims what can be claimed, if anything.
Claim(s) ==
    /\ At(s, "claim")
    /\ LET back == Released(Abandoned)
           dead == [r \in RunIds |-> IF r \in Abandoned THEN "failed" ELSE runs[r]]
       IN  IF Claimable(back) = {}
           THEN items' = back /\ runs' = dead /\ Go(s, "unlock")
           ELSE /\ items' = Consumed(back, NewRun)
                /\ runs' = [dead EXCEPT ![NewRun] = "running"]
                /\ slots' = [slots EXCEPT ![s].pc = "setup", ![s].run = NewRun]
    /\ UNCHANGED <<jobs, lock, outlived, faults>>

\* trimWindow and loadWindow, before the turn's try.
SetUp(s) ==
    /\ At(s, "setup")
    /\ Go(s, "model")
    /\ UNCHANGED <<jobs, lock, items, runs, outlived, faults>>

SteerIn(s) ==
    /\ At(s, "steer")
    /\ items' = Consumed(items, slots[s].run)
    /\ Go(s, "model")
    /\ UNCHANGED <<jobs, lock, runs, outlived, faults>>

\* callModel, of any number of attempts, with deliverStepText's look at the
\* input as the answer ends.  A refusal's fixed reply skips that look, as an
\* answer without text does.
CallModel(s) ==
    /\ At(s, "model")
    /\ \E text \in BOOLEAN, n \in (slots[s].steps + 1) .. StepBudget :
          LET drop == text /\ Interrupting # {}
          IN  slots' = [slots EXCEPT ![s].steps = n, ![s].drop = drop,
                           ![s].pc = IF text /\ ~drop THEN "deliver" ELSE "tools"]
    /\ UNCHANGED <<jobs, lock, items, runs, outlived, faults>>

DeliverReply(s) ==
    /\ At(s, "deliver")
    /\ Go(s, "tools")
    /\ UNCHANGED <<jobs, lock, items, runs, outlived, faults>>

\* The step's tools ran, or it was dropped.  A dropped step goes on; any other
\* ends the turn or goes on; out of steps, the rest is handed over.
EndStep(s) ==
    /\ At(s, "tools")
    /\ \E more \in BOOLEAN :
          /\ slots[s].drop => more
          /\ Go(s, IF more /\ slots[s].steps < StepBudget THEN "steer" ELSE "finish")
    /\ UNCHANGED <<jobs, lock, items, runs, outlived, faults>>

FinishRun(s) ==
    /\ At(s, "finish")
    /\ runs' = [runs EXCEPT ![slots[s].run] = "completed"]
    /\ Go(s, "unlock")
    /\ UNCHANGED <<jobs, lock, items, outlived, faults>>

\* The brief could not be written, or finishRun's answer was lost.
FinishFails(s) ==
    /\ At(s, "finish")
    /\ Fault
    /\ \E status \in {"running", "completed"} :
          runs' = [runs EXCEPT ![slots[s].run] = status]
    /\ Go(s, "failing")
    /\ UNCHANGED <<jobs, lock, items, outlived>>

\* The catch: finishRun, then releaseInput.
Failing(s) ==
    /\ At(s, "failing")
    /\ runs' = [runs EXCEPT ![slots[s].run] = "failed"]
    /\ Go(s, "release")
    /\ UNCHANGED <<jobs, lock, items, outlived, faults>>

ReleaseInput(s) ==
    /\ At(s, "release")
    /\ items' = Released({slots[s].run})
    /\ Go(s, "thrown")
    /\ UNCHANGED <<jobs, lock, runs, outlived, faults>>

\* A call fails for good: inside the turn's try it ends the turn, in the catch
\* or before the try it leaves the turn as it is, elsewhere it fails the job.
CallFails(s) ==
    /\ Fault
    /\ \/ slots[s].pc \in {"steer", "model", "deliver", "tools"} /\ Go(s, "failing")
       \/ slots[s].pc \in {"claim", "setup", "failing", "release"} /\ Go(s, "thrown")
       \/ slots[s].pc \in {"leased", "check", "followup", "release_item"} /\ Go(s, "fail")
    /\ UNCHANGED <<jobs, lock, items, runs, outlived>>

-----------------------------------------------------------------------------
(* The clock                                                               *)

Attended(j) == \E s \in Slots : /\ ~At(s, "idle") /\ slots[s].lease.job = j
                                /\ Held(jobs, slots[s].lease)

BecomesDue(j) ==
    /\ jobs[j].status = "queued" /\ ~jobs[j].due
    /\ jobs' = Passed(jobs, j)
    /\ UNCHANGED <<lock, items, runs, slots, outlived, faults>>

LeaseRunsOut(j) ==
    /\ jobs[j].status = "running" /\ ~jobs[j].expired /\ ~Attended(j)
    /\ jobs' = Lapsed(jobs, j)
    /\ UNCHANGED <<lock, items, runs, slots, outlived, faults>>

\* A turn renews no lease: one that takes longer than its lease outlives it.
LeaseOutlived(j) ==
    /\ jobs[j].status = "running" /\ ~jobs[j].expired /\ Attended(j)
    /\ Fault
    /\ jobs' = Lapsed(jobs, j)
    /\ outlived' = TRUE
    /\ UNCHANGED <<lock, items, runs, slots>>

-----------------------------------------------------------------------------
TurnOf(s) ==
    \/ Claim(s) \/ SetUp(s) \/ SteerIn(s) \/ CallModel(s) \/ DeliverReply(s)
    \/ EndStep(s) \/ FinishRun(s) \/ Failing(s) \/ ReleaseInput(s)

HandlerOf(s) ==
    \/ TryLock(s) \/ Unlock(s) \/ CheckInput(s) \/ FollowUp(s)
    \/ Save(s) \/ ReleaseItem(s) \/ Return(s) \/ FailJob(s)

SlotFault(s) == Crash(s) \/ CallFails(s) \/ FinishFails(s) \/ SaveFails(s)

Next ==
    \/ \E i \in Items : Arrive(i)
    \/ \E s \in Slots : \/ \E j \in JobIds : TakeLease(s, j)
                        \/ TurnOf(s) \/ HandlerOf(s) \/ SlotFault(s)
    \/ \E j \in JobIds : BecomesDue(j) \/ LeaseRunsOut(j) \/ LeaseOutlived(j)

Spec == Init /\ [][Next]_vars

\* Workers poll, every call returns or times out, time passes.  Nobody has to
\* write, and nothing has to fail.
Fairness ==
    /\ \A s \in Slots : /\ WF_vars(\E j \in JobIds : TakeLease(s, j))
                        /\ WF_vars(TurnOf(s) \/ HandlerOf(s))
    /\ \A j \in JobIds : WF_vars(BecomesDue(j)) /\ WF_vars(LeaseRunsOut(j))

FairSpec == Spec /\ Fairness

-----------------------------------------------------------------------------
(* Properties                                                              *)

\* The shape of the state: whoever is in a turn holds the user's lock, and a
\* running run is the one of the turn under way or left by a dead one.
TypeOK ==
    /\ jobs \in [JobIds -> Job]
    /\ lock \in Slots \cup {None}
    /\ items \in [Items -> Item]
    /\ runs \in [RunIds -> {"none", "running", "completed", "failed"}]
    /\ slots \in [Slots -> Slot]
    /\ outlived \in BOOLEAN
    /\ faults \in Nat
    /\ \A s \in Slots : slots[s].pc \in TurnPoints <=> lock = s
    /\ Cardinality(Running) <= 1

\* Input is answered in order: what a turn took, unless the turn failed, never
\* leaves an older item waiting, not even one held for its file (claimableInput:
\* "so a message never overtakes a file sent before it").
AnsweredInOrder ==
    \A h, i \in Items :
        (h < i /\ items[i].by # 0 /\ runs[items[i].by] # "failed") => items[h].by # 0

\* Input leaves a run only when that run failed, and a turn still under way
\* gives its own input back itself: no other turn takes it for dead.
TurnsKeepTheirInput ==
    [][\A i \in Items : LET r == items[i].by IN
          (r # 0 /\ items'[i].by # r) =>
              /\ runs[r] # "completed" /\ runs'[r] = "failed"
              /\ \A s \in Slots : slots[s].run = r => At(s, "release")]_vars

TurnJobs == {j \in JobIds : jobs[j].work = Turn}

\* Something will still look at the input: a turn is on (its slot checks after
\* releasing the lock, or its job retries), or a job has yet to get there.
TurnComing ==
    \/ lock # None
    \/ \E j \in TurnJobs :
          \/ jobs[j].status = "queued"
          \/ /\ jobs[j].status = "running"
             /\ \A s \in Slots : At(s, "return") => slots[s].lease # LeaseOf(jobs, j)

GivenUp == \E j \in TurnJobs : jobs[j].status = "failed"

\* Input a turn could take has a turn coming, unless a job used up its attempts
\* or a handler outlived its lease (see NoInputStranded): neither the debounce,
\* the busy lock, a held file, a crash nor a retry leaves it behind.
NoInputLeftBehind ==
    Claimable(items) # {} => TurnComing \/ GivenUp \/ outlived

\* Consumed by a turn that failed and died before it gave its input back.
Forgotten(i) ==
    /\ items[i].by # 0 /\ runs[items[i].by] = "failed"
    /\ \A s \in Slots : slots[s].run # items[i].by

\* Held behind a file whose save_attachment job used up its attempts.
HeldForGood(i) ==
    \E h \in Files : /\ h <= i /\ items[h].pending
                     /\ \A j \in JobIds : jobs[j].work = h =>
                           jobs[j].status \in {"done", "failed"}

Answered(i) == items[i].by # 0 /\ runs[items[i].by] = "completed"

\* Once the user stops writing, every item comes to be answered, or to rest in
\* one of the three ways the code leaves input without a turn: forgotten, held
\* for good, or with no turn coming.
InputSettles ==
    <>[](\A i \in Items : items[i].stored =>
            (Answered(i) \/ Forgotten(i) \/ HeldForGood(i) \/ ~TurnComing))

\* What the documents say and the code does not do.

\* "Checking after release means a job that found the lock busy can never
\* orphan input. If a turn crashes instead, its job's retry picks the input
\* up." (design.md): input has a turn coming until its job is given up.
NoInputStranded == Claimable(items) # {} => TurnComing \/ GivenUp
=============================================================================
