---------------------------- MODULE BackgroundRun ----------------------------
(***************************************************************************)
(* One background run ("task") and everything that moves it: the run_step  *)
(* jobs and the slots that work them (apps/agents/src/background/          *)
(* handler.ts and run.ts), the run state machine and the statements on     *)
(* tasks (packages/db/src/run-state.ts, tasks.ts, handoffs.ts), a user's   *)
(* cancel and resume, and the faults a worker meets.                       *)
(*                                                                         *)
(* A slot's program counter stops at every call it makes to the database,  *)
(* the model or the computer: what lies between two calls is one step, and *)
(* anything else may happen at each call.                                  *)
(***************************************************************************)
EXTENDS JobTable

CONSTANTS
    Slots,        \* handler slots, of all worker processes together
    None,
    RunStep,      \* what the run's run_step jobs are for, and their dedupe key
    MaxSteps,     \* maxStepsPerRun
    MaxResumes,   \* bound: times the user comes back to the parked run
    MaxFaults     \* bound: crashes, stalls and failed calls

ASSUME BackgroundAssumption ==
    /\ None \notin Slots
    /\ JobIds # {}
    /\ Works = {RunStep}
    /\ MaxSteps \in Nat \ {0}
    /\ MaxResumes \in Nat
    /\ MaxFaults \in Nat

VARIABLES
    \* the database
    jobs,        \* the run's run_step jobs
    lock,        \* the slot holding the run's advisory lock, or None
    run,         \* the run's row
    log,         \* the last message of run_messages, and the last tool calls
    handoff,     \* the run's latest handoff row: "none", "open" or "resolved"
    parkItems,   \* steps whose task.needs_user item was recorded
    report,      \* the task.completed or task.failed item: the status it tells
    \* the processes
    slots,       \* Slots -> what the slot is doing
    cancel,      \* the cancel request: "none", the status it read, or "done"
    \* the world, and history
    ran,         \* times the last asked-for command took effect on the VM
    silent,      \* the run parked without recording an item
    resumes,
    faults

vars == <<jobs, lock, run, log, handoff, parkItems, report, slots, cancel,
          ran, silent, resumes, faults>>

\* What a step's own bookkeeping leaves alone.
worldVars == <<cancel, resumes>>
taskVars == <<run, handoff, parkItems, report, silent>>
-----------------------------------------------------------------------------
(* The run state machine (run-state.ts)                                    *)

Final == {"completed", "failed", "cancelled", "capped"}

Statuses == {"queued", "running", "parked"} \cup Final

\* Mutant: a finished run can still fail or be cancelled.
MutAcceptsAnyEnd(status, event) ==
    \/ event = "start" /\ status = "queued"
    \/ event \in {"complete", "cap", "park"} /\ status = "running"
    \/ event = "resume" /\ status = "parked"
    \/ event \in {"fail", "cancel"}

Accepts(status, event) ==
    \/ event = "start" /\ status = "queued"
    \/ event \in {"complete", "cap", "park"} /\ status = "running"
    \/ event = "resume" /\ status = "parked"
    \/ event \in {"fail", "cancel"} /\ status \in {"queued", "running", "parked"}

Target(event) ==
    CASE event = "complete" -> "completed"
      [] event = "fail"     -> "failed"
      [] event = "cancel"   -> "cancelled"
      [] event = "cap"      -> "capped"
      [] event = "park"     -> "parked"
      [] OTHER              -> "running"

-----------------------------------------------------------------------------
(* Ending, parking and queueing (tasks.ts): one transaction each           *)

\* Mutant: the handoff stays open when the task ends.
MutHandoffStaysOpen == handoff

HandoffResolved == IF handoff = "open" THEN "resolved" ELSE handoff

\* The status, the result and the report together; nothing if the run moved on.
FinishTask(event) ==
    IF Accepts(run.status, event)
    THEN /\ run' = [run EXCEPT !.status = Target(event)]
         /\ handoff' = HandoffResolved
         /\ report' = IF report = "none" THEN Target(event) ELSE report
         /\ UNCHANGED <<parkItems, silent>>
    ELSE UNCHANGED taskVars

\* The item's source_ref names the step, and a repeated source_ref is ignored.
ParkTask(window, step) ==
    IF Accepts(run.status, "park")
    THEN /\ run' = [run EXCEPT !.status = "parked"]
         /\ handoff' = IF window = "page" THEN "open" ELSE handoff
         /\ parkItems' = parkItems \cup {step}
         /\ silent' = (step \in parkItems)
         /\ UNCHANGED report
    ELSE UNCHANGED taskVars

QueueTaskStep == EnqueueIgnore(jobs, jobs', RunStep, RunStep, TRUE)

-----------------------------------------------------------------------------
(* The transcript (run_messages)                                           *)

Calls == {"bash", "handoff"}

\* What a call was answered with; "none" while nothing answers it.
Answers == {"none", "result", "error", "unknown", "cancelled", "beside",
            "blank", "resumed"}

NoAnswer == [c \in Calls |-> "none"]

\* `open`: the last message is an assistant message with tool calls.  `ask` and
\* `answer` are the latest such calls and what they were answered with.
Log == [open : BOOLEAN, ask : SUBSET Calls, answer : [Calls -> Answers],
        nudged : BOOLEAN]

EmptyLog == [open |-> FALSE, ask |-> {}, answer |-> NoAnswer, nudged |-> FALSE]

\* A note, a nudge, a summary, or an assistant message without calls.
Noted(l) == [l EXCEPT !.open = FALSE]

Asked(l, calls) == [l EXCEPT !.open = TRUE, !.ask = calls, !.answer = NoAnswer]

Answered(l, ans) ==
    [l EXCEPT !.open = FALSE,
              !.answer = [c \in Calls |-> IF c \in l.ask THEN ans[c] ELSE "none"]]

-----------------------------------------------------------------------------
(* Slots                                                                   *)

\* Inside the step, lock held.
StepPoints == {"load", "start", "read", "recover", "note", "model", "store",
               "count", "nudge", "check", "skip", "hold", "park", "tools",
               "results", "next", "queue", "finish", "unlock", "thrown"}

Points == StepPoints \cup {"idle", "leased", "caught", "return", "fail"}

Replies == {"none", "refusal", "text", "empty", "calls"}

Slot == [pc      : Points,
         lease   : Lease,
         aborted : BOOLEAN,            \* the heartbeat found the lease lost
         cancelling : BOOLEAN,         \* the run's row as the step loaded it
         count   : Nat,
         recovering : BOOLEAN,         \* handing over on behalf of a dead step
         reply   : Replies,
         calls   : SUBSET Calls,
         window  : {"none", "blank", "page"},
         output  : {"none", "result", "error"}]

IdleSlot(j) ==
    [pc |-> "idle", lease |-> [job |-> j, token |-> 0], aborted |-> FALSE,
     cancelling |-> FALSE, count |-> 0, recovering |-> FALSE, reply |-> "none",
     calls |-> {}, window |-> "none", output |-> "none"]

At(s, p) == slots[s].pc = p

Go(s, p) == slots' = [slots EXCEPT ![s].pc = p]

FirstJob == CHOOSE j \in JobIds : \A i \in JobIds : j <= i

Rest == IdleSlot(FirstJob)

\* The step is over and its local variables with it.
LeaveStep(s, p) ==
    slots' = [slots EXCEPT ![s] = [Rest EXCEPT !.pc = p, !.lease = slots[s].lease,
                                               !.aborted = slots[s].aborted]]

\* The handler is over: the heartbeat stops.
LeaveHandler(s, p) ==
    slots' = [slots EXCEPT ![s] = [Rest EXCEPT !.pc = p, !.lease = slots[s].lease]]

InStep(s) == slots[s].pc \in StepPoints

Fault == faults < MaxFaults /\ faults' = faults + 1

\* The step after this one would be past maxStepsPerRun.
Capped(s) == ~slots[s].cancelling /\ slots[s].count >= MaxSteps - 1

\* The last model call: no tools, just the report.
LastCall(s) == slots[s].cancelling \/ Capped(s)

\* The brief is stored and the first step queued with the run.
StartBackgroundRun ==
    /\ run = [status |-> "queued", cancelRequested |-> FALSE, stepCount |-> 0]
    /\ log = EmptyLog
    /\ jobs = [EmptyTable EXCEPT ![FirstJob] = QueuedJob(RunStep, RunStep, TRUE)]

Init ==
    /\ StartBackgroundRun
    /\ lock = None
    /\ handoff = "none"
    /\ parkItems = {}
    /\ report = "none"
    /\ slots = [s \in Slots |-> Rest]
    /\ cancel = "none"
    /\ ran = 0
    /\ silent = FALSE
    /\ resumes = 0
    /\ faults = 0

-----------------------------------------------------------------------------
(* The worker and the run_step handler around the step                     *)

TakeLease(s, j) ==
    /\ At(s, "idle")
    /\ Leasable(jobs, j)
    /\ jobs' = Leased(jobs, j)
    /\ slots' = [slots EXCEPT ![s] = [Rest EXCEPT !.pc = "leased",
                                                  !.lease = LeaseOf(jobs', j)]]
    /\ UNCHANGED <<lock, log, ran, faults, taskVars, worldVars>>

\* Mutant: the step runs whether or not the lock was free.
MutTryLockAnyway(s) ==
    /\ At(s, "leased")
    /\ lock' = s /\ Go(s, "load")
    /\ UNCHANGED <<jobs, log, ran, faults, taskVars, worldVars>>

\* pg_try_advisory_lock: a job that finds the lock taken ends without work.
TryLock(s) ==
    /\ At(s, "leased")
    /\ IF lock = None THEN lock' = s /\ Go(s, "load")
                      ELSE UNCHANGED lock /\ LeaveHandler(s, "return")
    /\ UNCHANGED <<jobs, log, ran, faults, taskVars, worldVars>>

Unlock(s) ==
    /\ slots[s].pc \in {"unlock", "thrown"}
    /\ lock' = None
    /\ IF At(s, "thrown") THEN Go(s, "caught") ELSE LeaveHandler(s, "return")
    /\ UNCHANGED <<jobs, log, ran, faults, taskVars, worldVars>>

\* The step threw: on the job's last attempt, unless the lease was lost, the
\* run fails with the reason.
Caught(s) ==
    /\ At(s, "caught")
    /\ IF Exhausted(slots[s].lease) /\ ~slots[s].aborted
       THEN FinishTask("fail") ELSE UNCHANGED taskVars
    /\ LeaveHandler(s, "fail")
    /\ UNCHANGED <<jobs, lock, log, ran, faults, worldVars>>

Return(s) ==
    /\ At(s, "return")
    /\ jobs' = Completed(jobs, slots[s].lease)
    /\ slots' = [slots EXCEPT ![s] = Rest]
    /\ UNCHANGED <<lock, log, ran, faults, taskVars, worldVars>>

FailJob(s) ==
    /\ At(s, "fail")
    /\ jobs' = Failed(jobs, slots[s].lease)
    /\ slots' = [slots EXCEPT ![s] = Rest]
    /\ UNCHANGED <<lock, log, ran, faults, taskVars, worldVars>>

\* Renews the lease while the handler runs; a lost one aborts the step.
Heartbeat(s) ==
    /\ slots[s].pc \notin {"idle", "return", "fail"}
    /\ jobs' = Extended(jobs, slots[s].lease)
    /\ slots' = [slots EXCEPT ![s].aborted = @ \/ ~Held(jobs, slots[s].lease)]
    /\ UNCHANGED <<lock, log, ran, faults, taskVars, worldVars>>

\* The worker dies; its connection closes and Postgres releases the lock.
Crash(s) ==
    /\ ~At(s, "idle")
    /\ Fault
    /\ lock' = IF lock = s THEN None ELSE lock
    /\ slots' = [slots EXCEPT ![s] = Rest]
    /\ UNCHANGED <<jobs, log, ran, taskVars, worldVars>>

\* A database, model or gateway call of the step fails for good.
CallFails(s) ==
    /\ InStep(s) /\ slots[s].pc \notin {"unlock", "thrown"}
    /\ Fault
    /\ LeaveStep(s, "thrown")
    /\ UNCHANGED <<jobs, lock, log, ran, taskVars, worldVars>>

\* Where the step looks at the abort signal, or passes it on.
AbortPoints == {"recover", "note", "model", "store", "nudge", "skip", "tools",
                "results", "next"}

Aborts(s) ==
    /\ slots[s].aborted /\ slots[s].pc \in AbortPoints
    /\ LeaveStep(s, "thrown")
    /\ UNCHANGED <<jobs, lock, log, ran, faults, taskVars, worldVars>>

-----------------------------------------------------------------------------
(* One step (run.ts, runBackgroundStep)                                    *)

LoadRun(s) ==
    /\ At(s, "load")
    /\ IF run.status \in {"queued", "running"}
       THEN slots' = [slots EXCEPT
               ![s].pc = IF run.status = "queued" THEN "start" ELSE "read",
               ![s].cancelling = run.cancelRequested,
               ![s].count = run.stepCount]
       ELSE LeaveStep(s, "unlock")
    /\ UNCHANGED <<jobs, lock, log, ran, faults, taskVars, worldVars>>

\* Whether the run could still be started is not looked at.
StartRun(s) ==
    /\ At(s, "start")
    /\ run' = IF Accepts(run.status, "start")
              THEN [run EXCEPT !.status = "running"] ELSE run
    /\ Go(s, "read")
    /\ UNCHANGED <<jobs, lock, log, handoff, parkItems, report, silent, ran,
                   faults, worldVars>>

\* After the log is sound: the last call is told why, any other is made.
BeforeModel(s) == IF LastCall(s) THEN "note" ELSE "model"

\* A step died after the model asked for tools: hand over if it asked to,
\* else find out what became of its calls.
AfterLog(s) ==
    IF ~log.open THEN BeforeModel(s)
    ELSE IF "handoff" \in log.ask THEN "hold" ELSE "recover"

ReadLog(s) ==
    /\ At(s, "read")
    /\ slots' = [slots EXCEPT
          ![s].pc = AfterLog(s),
          ![s].recovering = (log.open),
          ![s].calls = IF log.open THEN log.ask ELSE {}]
    /\ UNCHANGED <<jobs, lock, log, ran, faults, taskVars, worldVars>>

\* Mutant: an interrupted command is run again.
MutRecoverRunsAgain(s) ==
    /\ At(s, "recover") /\ ~slots[s].aborted
    /\ ran' = ran + 1
    /\ log' = Answered(log, [bash |-> "result", handoff |-> "blank"])
    /\ Go(s, BeforeModel(s))
    /\ UNCHANGED <<jobs, lock, faults, taskVars, worldVars>>

\* fetchExec: the command's result if the VM ran it and still has it.
Recover(s) ==
    /\ At(s, "recover") /\ ~slots[s].aborted
    /\ \E known \in BOOLEAN :
          /\ known => ran > 0
          /\ log' = Answered(log, [bash |-> IF known THEN "result" ELSE "unknown",
                                   handoff |-> "blank"])
    /\ slots' = [slots EXCEPT ![s].pc = BeforeModel(s), ![s].recovering = FALSE,
                              ![s].calls = {}, ![s].window = "none"]
    /\ UNCHANGED <<jobs, lock, ran, faults, taskVars, worldVars>>

\* cancelNote or capNote.
StoreNote(s) ==
    /\ At(s, "note") /\ ~slots[s].aborted
    /\ log' = Noted(log)
    /\ Go(s, "model")
    /\ UNCHANGED <<jobs, lock, ran, faults, taskVars, worldVars>>

\* The model's answer, after a summary of a long context if that is due (which
\* is stored as one more message, see Noted).
ModelAnswers(s) ==
    /\ At(s, "model") /\ ~slots[s].aborted
    /\ \E reply \in Replies \ {"none"}, calls \in SUBSET Calls :
          /\ (reply = "calls") <=> (calls # {})
          /\ LastCall(s) => reply # "calls"
          /\ slots' = [slots EXCEPT ![s].pc = "store", ![s].reply = reply,
                                    ![s].calls = calls, ![s].recovering = FALSE]
    /\ UNCHANGED <<jobs, lock, log, ran, faults, taskVars, worldVars>>

\* A cancelled task ends even if its report can't be written.
ReportFails(s) ==
    /\ At(s, "model") /\ ~slots[s].aborted /\ slots[s].cancelling
    /\ Fault
    /\ FinishTask("cancel")
    /\ LeaveStep(s, "unlock")
    /\ UNCHANGED <<jobs, lock, log, ran, worldVars>>

\* The model's message is stored before its tools run.
StoreReply(s) ==
    /\ At(s, "store") /\ ~slots[s].aborted
    /\ IF slots[s].reply = "calls"
       THEN log' = Asked(log, slots[s].calls) /\ ran' = 0
       ELSE log' = Noted(log) /\ UNCHANGED ran
    /\ Go(s, "count")
    /\ UNCHANGED <<jobs, lock, faults, taskVars, worldVars>>

NoReport(s) == slots[s].reply = "empty" /\ ~LastCall(s) /\ ~log.nudged

AfterCount(s) ==
    IF slots[s].reply = "calls" THEN "check"
    ELSE IF NoReport(s) THEN "nudge" ELSE "finish"

CountStep(s) ==
    /\ At(s, "count")
    /\ run' = [run EXCEPT !.stepCount = @ + 1]
    /\ Go(s, AfterCount(s))
    /\ UNCHANGED <<jobs, lock, log, handoff, parkItems, report, silent, ran,
                   faults, worldVars>>

\* emptyReportNudge, once per run.
Nudge(s) ==
    /\ At(s, "nudge") /\ ~slots[s].aborted
    /\ log' = [Noted(log) EXCEPT !.nudged = TRUE]
    /\ Go(s, "queue")
    /\ UNCHANGED <<jobs, lock, ran, faults, taskVars, worldVars>>

EndingOf(s) ==
    IF slots[s].reply = "refusal" THEN "fail"
    ELSE IF slots[s].cancelling THEN "cancel"
    ELSE IF Capped(s) THEN "cap" ELSE "complete"

Finish(s) ==
    /\ At(s, "finish")
    /\ FinishTask(EndingOf(s))
    /\ LeaveStep(s, "unlock")
    /\ UNCHANGED <<jobs, lock, log, ran, faults, worldVars>>

\* Cancelled while the model was thinking: its tools don't start.
AfterCheck(s) ==
    IF run.cancelRequested THEN "skip"
    ELSE IF "handoff" \in slots[s].calls THEN "hold" ELSE "tools"

CheckCancel(s) ==
    /\ At(s, "check")
    /\ Go(s, AfterCheck(s))
    /\ UNCHANGED <<jobs, lock, log, ran, faults, taskVars, worldVars>>

SkipTools(s) ==
    /\ At(s, "skip") /\ ~slots[s].aborted
    /\ log' = Answered(log, [c \in Calls |-> "cancelled"])
    /\ Go(s, "queue")
    /\ UNCHANGED <<jobs, lock, ran, faults, taskVars, worldVars>>

\* holdBrowser: no window (or no VM), a blank one, which refuses the handoff
\* and lets the run carry on, or a page.
AfterHold(s, window) ==
    IF window # "blank" THEN "park"
    ELSE IF slots[s].recovering THEN "recover" ELSE "tools"

HoldWindow(s) ==
    /\ At(s, "hold")
    /\ \E window \in {"none", "blank", "page"} :
          slots' = [slots EXCEPT ![s].window = window,
                                 ![s].pc = AfterHold(s, window)]
    /\ UNCHANGED <<jobs, lock, log, ran, faults, taskVars, worldVars>>

Park(s) ==
    /\ At(s, "park")
    /\ ParkTask(slots[s].window,
                IF slots[s].recovering THEN slots[s].count ELSE slots[s].count + 1)
    /\ LeaveStep(s, "unlock")
    /\ UNCHANGED <<jobs, lock, log, ran, faults, worldVars>>

\* The command takes effect and its result comes back, or the call fails, and
\* then it may have taken effect or not.
RunTools(s) ==
    /\ At(s, "tools") /\ ~slots[s].aborted
    /\ IF "bash" \in slots[s].calls
       THEN \E output \in {"result", "error"}, effect \in {0, 1} :
               /\ output = "result" => effect = 1
               /\ slots' = [slots EXCEPT ![s].pc = "results", ![s].output = output]
               /\ ran' = ran + effect
       ELSE Go(s, "results") /\ UNCHANGED ran
    /\ UNCHANGED <<jobs, lock, log, faults, taskVars, worldVars>>

StoreResults(s) ==
    /\ At(s, "results") /\ ~slots[s].aborted
    /\ log' = Answered(log, [bash |-> slots[s].output, handoff |-> "blank"])
    /\ Go(s, "next")
    /\ UNCHANGED <<jobs, lock, ran, faults, taskVars, worldVars>>

QueueNext(s) ==
    /\ At(s, "queue") \/ (At(s, "next") /\ ~slots[s].aborted)
    /\ QueueTaskStep
    /\ LeaveStep(s, "unlock")
    /\ UNCHANGED <<lock, log, ran, faults, taskVars, worldVars>>

-----------------------------------------------------------------------------
(* The user's side: winston task cancel, winston task resume               *)

CancelReads ==
    /\ cancel = "none"
    /\ cancel' = IF run.status \in Final THEN "done" ELSE run.status
    /\ UNCHANGED <<jobs, lock, log, slots, ran, faults, resumes, taskVars>>

\* A queued or parked run ends now; a running one is marked.
CancelActs ==
    /\ cancel \in {"queued", "parked", "running"}
    /\ cancel' = "done"
    /\ IF cancel = "running"
       THEN /\ run' = IF run.status = "running"
                      THEN [run EXCEPT !.cancelRequested = TRUE] ELSE run
            /\ UNCHANGED <<handoff, parkItems, report, silent>>
       ELSE FinishTask("cancel")
    /\ UNCHANGED <<jobs, lock, log, slots, ran, faults, resumes>>

\* Mutant: resuming adds the user's note and leaves the calls unanswered.
MutResumeAnswersNothing ==
    /\ resumes < MaxResumes
    /\ Accepts(run.status, "resume")
    /\ run' = [run EXCEPT !.status = "running"]
    /\ handoff' = HandoffResolved
    /\ log' = Noted(log)
    /\ QueueTaskStep
    /\ resumes' = resumes + 1
    /\ UNCHANGED <<lock, parkItems, report, silent, slots, cancel, ran, faults>>

\* The user's note answers the handoff; calls beside it are said not to have run.
ResumeTask ==
    /\ resumes < MaxResumes
    /\ Accepts(run.status, "resume")
    /\ run' = [run EXCEPT !.status = "running"]
    /\ handoff' = HandoffResolved
    /\ log' = IF log.open
              THEN Answered(log, [bash |-> "beside", handoff |-> "resumed"])
              ELSE Noted(log)
    /\ QueueTaskStep
    /\ resumes' = resumes + 1
    /\ UNCHANGED <<lock, parkItems, report, silent, slots, cancel, ran, faults>>

-----------------------------------------------------------------------------
(* The clock                                                               *)

Attended(j) == \E s \in Slots : /\ ~At(s, "idle") /\ slots[s].lease.job = j
                                /\ Held(jobs, slots[s].lease)

BecomesDue(j) ==
    /\ jobs[j].status = "queued" /\ ~jobs[j].due
    /\ jobs' = Passed(jobs, j)
    /\ UNCHANGED <<lock, log, slots, ran, faults, taskVars, worldVars>>

LeaseRunsOut(j) ==
    /\ jobs[j].status = "running" /\ ~jobs[j].expired /\ ~Attended(j)
    /\ jobs' = Lapsed(jobs, j)
    /\ UNCHANGED <<lock, log, slots, ran, faults, taskVars, worldVars>>

\* The worker stalls, or its heartbeats fail, for as long as the lease.
LeaseOutlived(j) ==
    /\ jobs[j].status = "running" /\ ~jobs[j].expired /\ Attended(j)
    /\ Fault
    /\ jobs' = Lapsed(jobs, j)
    /\ UNCHANGED <<lock, log, slots, ran, taskVars, worldVars>>

-----------------------------------------------------------------------------
StepOf(s) ==
    \/ LoadRun(s) \/ StartRun(s) \/ ReadLog(s) \/ Recover(s) \/ StoreNote(s)
    \/ ModelAnswers(s) \/ StoreReply(s) \/ CountStep(s)
    \/ Nudge(s) \/ Finish(s) \/ CheckCancel(s) \/ SkipTools(s) \/ HoldWindow(s)
    \/ Park(s) \/ RunTools(s) \/ StoreResults(s) \/ QueueNext(s) \/ Aborts(s)

HandlerOf(s) == TryLock(s) \/ Unlock(s) \/ Caught(s) \/ Return(s) \/ FailJob(s)

SlotFault(s) == Crash(s) \/ CallFails(s) \/ ReportFails(s)

Next ==
    \/ \E s \in Slots : \/ \E j \in JobIds : TakeLease(s, j)
                        \/ StepOf(s) \/ HandlerOf(s) \/ Heartbeat(s) \/ SlotFault(s)
    \/ CancelReads \/ CancelActs \/ ResumeTask
    \/ \E j \in JobIds : BecomesDue(j) \/ LeaseRunsOut(j) \/ LeaseOutlived(j)

Spec == Init /\ [][Next]_vars

\* Workers poll, every call of a step returns or times out, time passes.  The
\* user need not cancel or resume, and nothing has to fail.
Fairness ==
    /\ \A s \in Slots : /\ WF_vars(\E j \in JobIds : TakeLease(s, j))
                        /\ WF_vars(StepOf(s) \/ HandlerOf(s))
    /\ \A j \in JobIds : WF_vars(BecomesDue(j)) /\ WF_vars(LeaseRunsOut(j))

FairSpec == Spec /\ Fairness

-----------------------------------------------------------------------------
(* Properties                                                              *)

\* The shape of the state: whoever is inside a step holds the lock, and only a
\* run that has started is marked for cancelling.
TypeOK ==
    /\ jobs \in [JobIds -> Job]
    /\ lock \in Slots \cup {None}
    /\ run \in [status : Statuses, cancelRequested : BOOLEAN, stepCount : Nat]
    /\ log \in Log
    /\ handoff \in {"none", "open", "resolved"}
    /\ parkItems \subseteq Nat
    /\ report \in Final \cup {"none"}
    /\ slots \in [Slots -> Slot]
    /\ cancel \in {"none", "queued", "running", "parked", "done"}
    /\ ran \in Nat
    /\ silent \in BOOLEAN
    /\ resumes \in Nat /\ faults \in Nat
    /\ \A s \in Slots : InStep(s) <=> lock = s

\* A parked run's transcript ends with the handoff it asked for, so the user's
\* coming back has a call to answer (tasks.ts, resumeTask).
ParkedOnAHandoff ==
    run.status = "parked" => log.open /\ "handoff" \in log.ask

\* The user has control of a window only while the run waits for them: no way
\* of carrying on or ending leaves the handoff open.
ControlOnlyWhileParked == handoff = "open" => run.status = "parked"

\* What the transcript says of a command is what happened on the computer: a
\* result means it ran, "cancelled" that it did not, and whatever crashed,
\* retried or was resumed, no command runs twice (run.ts, "crash safety").
AnswersTellTheTruth ==
    /\ ran <= 1
    /\ log.answer["bash"] = "result" => ran = 1
    /\ log.answer["bash"] = "cancelled" => ran = 0

\* A run makes at most maxStepsPerRun counted steps, one more for each fault
\* after its last one was counted.
StepsCapped == run.stepCount <= MaxSteps + faults

\* Tool calls are answered before anything else is stored: the next message
\* after them is their results, whoever stores it.
CallsAnsweredNext ==
    [][(log.open /\ log' # log) =>
          ~log'.open /\ \A c \in log.ask : log'.answer[c] # "none"]_vars

\* Once a step ended the run with its report, no step starts another command.
OwnEndingIsTheEnd ==
    [][(\/ run.status \in {"completed", "capped"}
        \/ run.status = "cancelled" /\ run.cancelRequested) => ran' <= ran]_vars

Alive(j) == jobs[j].status \in {"queued", "running"}

\* A run under way that no slot works on and no job will ever take further.
Stranded ==
    /\ run.status \in {"queued", "running"}
    /\ \A j \in JobIds : ~Alive(j)
    /\ \A s \in Slots : At(s, "idle")

\* A task that is under way ends or parks, unless it is stranded (see
\* NeverStranded, which the code does not keep).
EndsOrParks ==
    (run.status \in {"queued", "running"})
        ~> (run.status \in Final \cup {"parked"} \/ Stranded)

\* The run keeps the promise of TaskPromise: its row's status is the phase, the
\* task.completed or task.failed item the one report of its ending.
Phase == IF run.status \in Final THEN "over"
         ELSE IF run.status = "parked" THEN "paused" ELSE "open"

EndedAs == IF run.status \in Final THEN run.status ELSE "none"

Promise == INSTANCE TaskPromise WITH
    Endings <- Final, phase <- Phase, ending <- EndedAs, told <- report

KeepsPromise == Promise!Spec

\* What the documents say and the code does not do.

\* "A job that finds it taken ends without work (the running step queues the
\* next)"; "whoever leased the job takes over from the checkpoint"
\* (background/handler.ts): a run under way always has a job.
NeverStranded == ~Stranded

\* "Distinguishes this handoff from the run's earlier ones" (tasks.ts, parkTask):
\* every park records its own item, so the user hears of it.
EveryParkAnnounced == ~silent

\* "What a tool call made beside a handoff returns: it never ran" (tasks.ts).
NotRunMeansNotRun == log.answer["bash"] = "beside" => ran = 0
=============================================================================
