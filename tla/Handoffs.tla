------------------------------ MODULE Handoffs ------------------------------
(***************************************************************************)
(* Windows handed to the user (packages/db/src/handoffs.ts and tasks.ts,   *)
(* apps/agents/src/tools/handoff.ts, the agents' background and front      *)
(* steps, packages/vm-api/src/tasks.ts, the browser page's Done in         *)
(* apps/gateway/src/gateway.ts): the record of each handoff, the hold on   *)
(* its window on the VM, and the run that waits.  The three are changed by *)
(* separate calls, of several services.                                    *)
(*                                                                         *)
(* One user; each task and the front of house has one window.  Takeovers   *)
(* and who controls a held window are LiveViews'.                          *)
(***************************************************************************)
EXTENDS Integers, Sequences, FiniteSets, SequencesExt

CONSTANTS
    HandTasks,        \* background tasks
    LinkRequests,     \* calls of `task link`
    MaxHandoffs,      \* bound: handoffs recorded
    MaxFrontTurns,    \* bound: turns of the front of house
    MaxHandFaults     \* bound: lost answers, lost releases, crashes

ASSUME HandAssumption == "front" \notin HandTasks /\ {MaxHandoffs, MaxFrontTurns, MaxHandFaults} \subseteq Nat

VARIABLES
    taskRun,       \* HandTasks -> its run: status, step, whether it was parked with a window
    front,         \* the turn: its number, how far, whether the user wrote since
    handWins,      \* owners -> its window on the VM: open, held as a handoff, closed
    handRows,      \* handoffs, in the order they were recorded
    releases,      \* releases of owners' windows on their way
    closeJobs,     \* close_task_browser jobs
    linkReqs,      \* LinkRequests -> how far
    cancelReq,     \* a cancel, and the status it read
    tapped,        \* the page's Done: how far, its window, its handoff
    brokenOff,     \* history: a gateway died with requests
    handFaults

handVars == <<taskRun, front, handWins, handRows, releases, closeJobs, linkReqs, cancelReq, tapped, brokenOff, handFaults>>

HandOwners == HandTasks \cup {"front"}
NoTask == "none"
NotLinking == [at |-> "idle", task |-> NoTask, held |-> FALSE]
LinkAnswered == [NotLinking EXCEPT !.at = "answered"]
NotTapped == [at |-> "idle", owner |-> NoTask, row |-> 0]

HandFault == handFaults < MaxHandFaults /\ handFaults' = handFaults + 1
NoHandFault == UNCHANGED handFaults

-----------------------------------------------------------------------------
(* The records                                                             *)

RowsOf(o, turn) == {i \in DOMAIN handRows : handRows[i].owner = o /\ handRows[i].turn = turn}
OpenRows(o) == {i \in DOMAIN handRows : handRows[i].owner = o /\ handRows[i].open}

ResolveHandoffs(ended) == [i \in DOMAIN handRows |-> IF i \in ended THEN [handRows[i] EXCEPT !.open = FALSE] ELSE handRows[i]]

Recorded(o, turn, by) == [owner |-> o, turn |-> turn, by |-> by, open |-> TRUE, done |-> FALSE, told |-> FALSE]

\* An earlier open one of the run ends.
CreateHandoff(o, turn, by) ==
    /\ Len(handRows) < MaxHandoffs
    /\ handRows' = Append(ResolveHandoffs(RowsOf(o, turn)), Recorded(o, turn, by))

\* The front's last until the user writes again.
ResolveFrontHandoffs == handRows' = ResolveHandoffs(OpenRows("front"))

-----------------------------------------------------------------------------
(* Holding and letting go, over the gateway                                *)

\* The owner's window is held for the user; it has none once its windows closed.
MayHoldFor(o) == handWins[o] # "closed"
HoldBrowser(o) == handWins' = IF MayHoldFor(o) THEN [handWins EXCEPT ![o] = "handoff"] ELSE handWins

\* The answer, or none: then the window may be held all the same.
AskHold(o, got) ==
    \/ HoldBrowser(o) /\ got = MayHoldFor(o) /\ NoHandFault
    \/ HoldBrowser(o) /\ got = FALSE /\ MayHoldFor(o) /\ HandFault
    \/ UNCHANGED handWins /\ got = FALSE /\ MayHoldFor(o) /\ HandFault

\* Let go, unless the VM cannot be reached: nobody sends a release again.
LetGo(o) ==
    \/ handWins' = [handWins EXCEPT ![o] = IF @ = "handoff" THEN "open" ELSE @] /\ NoHandFault
    \/ UNCHANGED handWins /\ HandFault

\* A blank window is held, and let go again before the agent carries on.
RefusesBlank(o) ==
    /\ MayHoldFor(o)
    /\ \/ handWins' = [handWins EXCEPT ![o] = "open"] /\ NoHandFault
       \/ HoldBrowser(o) /\ HandFault

\* What a carried-on run lets go is not waited for.
ReleaseLands(o) ==
    /\ o \in releases
    /\ releases' = releases \ {o}
    /\ LetGo(o)
    /\ UNCHANGED <<taskRun, front, handRows, closeJobs, linkReqs, cancelReq, tapped, brokenOff>>

\* An ended task's windows close; the job retries until the VM is there.
CloseTaskBrowser(t) ==
    /\ t \in closeJobs
    /\ closeJobs' = closeJobs \ {t}
    /\ handWins' = [handWins EXCEPT ![t] = "closed"]
    /\ UNCHANGED <<taskRun, front, handRows, releases, linkReqs, cancelReq, tapped, brokenOff>> /\ NoHandFault

-----------------------------------------------------------------------------
(* A background step                                                       *)

StepRefusesBlank(t) ==
    /\ taskRun[t].status = "running" /\ taskRun[t].step = "working"
    /\ RefusesBlank(t)
    /\ UNCHANGED <<taskRun, front, handRows, releases, closeJobs, linkReqs, cancelReq, tapped, brokenOff>>

StepHolds(t) ==
    /\ taskRun[t].status = "running" /\ taskRun[t].step = "working"
    /\ \E got \in BOOLEAN :
           /\ AskHold(t, got)
           /\ taskRun' = [taskRun EXCEPT ![t].step = "handing over", ![t].window = got]
    /\ UNCHANGED <<front, handRows, releases, closeJobs, linkReqs, cancelReq, tapped, brokenOff>>

\* parkTask, unless the run has ended meanwhile.
StepParks(t) ==
    /\ taskRun[t].step = "handing over"
    /\ IF taskRun[t].status = "running"
       THEN /\ taskRun' = [taskRun EXCEPT ![t].status = "parked", ![t].step = "working"]
            /\ IF taskRun[t].window THEN CreateHandoff(t, 0, "step") ELSE UNCHANGED handRows
       ELSE taskRun' = [taskRun EXCEPT ![t].step = "working"] /\ UNCHANGED handRows
    /\ UNCHANGED <<front, handWins, releases, closeJobs, linkReqs, cancelReq, tapped, brokenOff>> /\ NoHandFault

\* finishTask: from wherever a run may end.
HandTaskFinishes(t, event) ==
    IF taskRun[t].status \in (IF event = "cancel" THEN {"running", "parked"} ELSE {"running"})
    THEN /\ taskRun' = [taskRun EXCEPT ![t].status = "ended"]
         /\ handRows' = ResolveHandoffs(OpenRows(t))
         /\ closeJobs' = closeJobs \cup {t}
    ELSE UNCHANGED <<taskRun, handRows, closeJobs>>

StepEnds(t) ==
    /\ taskRun[t].status = "running" /\ taskRun[t].step = "working"
    /\ HandTaskFinishes(t, "complete")
    /\ UNCHANGED <<front, handWins, releases, linkReqs, cancelReq, tapped, brokenOff>> /\ NoHandFault

-----------------------------------------------------------------------------
(* The front of house                                                      *)

UserSendsMore ==
    /\ ~front.unread /\ front.turn < MaxFrontTurns
    /\ front' = [front EXCEPT !.unread = TRUE]
    /\ UNCHANGED <<taskRun, handWins, handRows, releases, closeJobs, linkReqs, cancelReq, tapped, brokenOff>> /\ NoHandFault

\* The claim of the input ends the front's handoffs, if the user wrote, and its windows
\* are let go.
TurnBegins ==
    /\ front.at = "away" /\ front.turn < MaxFrontTurns
    /\ front.unread \/ \E i \in DOMAIN handRows : handRows[i].told
    /\ front' = [front EXCEPT !.at = "turn", !.turn = @ + 1, !.unread = FALSE]
    /\ IF front.unread
       THEN ResolveFrontHandoffs /\ releases' = IF OpenRows("front") = {} THEN releases ELSE releases \cup {"front"}
       ELSE UNCHANGED <<handRows, releases>>
    /\ UNCHANGED <<taskRun, handWins, closeJobs, linkReqs, cancelReq, tapped, brokenOff>> /\ NoHandFault

TurnEnds ==
    /\ front.at = "turn"
    /\ front' = [front EXCEPT !.at = "away"]
    /\ UNCHANGED <<taskRun, handWins, handRows, releases, closeJobs, linkReqs, cancelReq, tapped, brokenOff>> /\ NoHandFault

FrontRefusesBlank ==
    /\ front.at = "turn"
    /\ RefusesBlank("front")
    /\ UNCHANGED <<taskRun, front, handRows, releases, closeJobs, linkReqs, cancelReq, tapped, brokenOff>>

\* Without a window there is no record, and the turn ends.
FrontHolds ==
    /\ front.at = "turn"
    /\ \E got \in BOOLEAN :
           AskHold("front", got) /\ front' = [front EXCEPT !.at = IF got THEN "handing over" ELSE "away"]
    /\ UNCHANGED <<taskRun, handRows, releases, closeJobs, linkReqs, cancelReq, tapped, brokenOff>>

FrontRecords ==
    /\ front.at = "handing over"
    /\ front' = [front EXCEPT !.at = "away"]
    /\ CreateHandoff("front", front.turn, "turn")
    /\ UNCHANGED <<taskRun, handWins, releases, closeJobs, linkReqs, cancelReq, tapped, brokenOff>> /\ NoHandFault

\* The worker dies between the two.
FrontCrashes ==
    /\ front.at = "handing over" /\ HandFault
    /\ front' = [front EXCEPT !.at = "away"]
    /\ UNCHANGED <<taskRun, handWins, handRows, releases, closeJobs, linkReqs, cancelReq, tapped, brokenOff>>

-----------------------------------------------------------------------------
(* `winston task`                                                          *)

\* resumeTask: one transaction, from parked only.
Resumed(t) ==
    /\ taskRun' = [taskRun EXCEPT ![t].status = "running", ![t].window = FALSE]
    /\ handRows' = ResolveHandoffs(OpenRows(t))

HandTaskResumes(t) ==
    /\ front.at = "turn" /\ taskRun[t].status = "parked"
    /\ Resumed(t) /\ releases' = releases \cup {t}
    /\ UNCHANGED <<front, handWins, closeJobs, linkReqs, cancelReq, tapped, brokenOff>> /\ NoHandFault

\* cancelTask reads the status first; a running task is only marked.
HandCancelReads(t) ==
    /\ front.at = "turn" /\ cancelReq = NoTask /\ taskRun[t].status = "parked"
    /\ cancelReq' = t
    /\ UNCHANGED <<taskRun, front, handWins, handRows, releases, closeJobs, linkReqs, tapped, brokenOff>> /\ NoHandFault

CancelTask ==
    /\ cancelReq # NoTask /\ cancelReq' = NoTask
    /\ HandTaskFinishes(cancelReq, "cancel")
    /\ releases' = IF taskRun'[cancelReq] # taskRun[cancelReq] THEN releases \cup {cancelReq} ELSE releases
    /\ UNCHANGED <<front, handWins, linkReqs, tapped, brokenOff>> /\ NoHandFault

\* link: a parked task's window is held again and, if it slipped, handed over anew.
AskLink(l, t) ==
    /\ linkReqs[l].at = "idle" /\ front.at = "turn" /\ taskRun[t].status = "parked"
    /\ linkReqs' = [linkReqs EXCEPT ![l] = [at |-> "parked", task |-> t, held |-> FALSE]]
    /\ UNCHANGED <<taskRun, front, handWins, handRows, releases, closeJobs, cancelReq, tapped, brokenOff>> /\ NoHandFault

LinkHolds(l) ==
    /\ linkReqs[l].at = "parked"
    /\ \E got \in BOOLEAN :
           AskHold(linkReqs[l].task, got) /\ linkReqs' = [linkReqs EXCEPT ![l].at = "held", ![l].held = got]
    /\ UNCHANGED <<taskRun, front, handRows, releases, closeJobs, cancelReq, tapped, brokenOff>>

\* The latest handoff tells whether a new one is due; one more ends the earlier first.
LinkLooks(l) ==
    LET rows == RowsOf(linkReqs[l].task, 0)
        latest == CHOOSE i \in rows : \A j \in rows : j <= i
    IN /\ linkReqs[l].at = "held"
       /\ linkReqs' = [linkReqs EXCEPT ![l] =
              IF IF rows = {} THEN ~linkReqs[l].held ELSE handRows[latest].open THEN LinkAnswered
              ELSE [@ EXCEPT !.at = "due", !.held = FALSE]]
       /\ UNCHANGED <<taskRun, front, handWins, handRows, releases, closeJobs, cancelReq, tapped, brokenOff>> /\ NoHandFault

LinkResolves(l) ==
    /\ linkReqs[l].at = "due"
    /\ linkReqs' = [linkReqs EXCEPT ![l].at = "resolved"]
    /\ handRows' = ResolveHandoffs(OpenRows(linkReqs[l].task))
    /\ UNCHANGED <<taskRun, front, handWins, releases, closeJobs, cancelReq, tapped, brokenOff>> /\ NoHandFault

LinkInserts(l) ==
    /\ linkReqs[l].at = "resolved" /\ Len(handRows) < MaxHandoffs
    /\ linkReqs' = [linkReqs EXCEPT ![l] = LinkAnswered]
    /\ handRows' = Append(handRows, Recorded(linkReqs[l].task, 0, "link"))
    /\ UNCHANGED <<taskRun, front, handWins, releases, closeJobs, cancelReq, tapped, brokenOff>> /\ NoHandFault

-----------------------------------------------------------------------------
(* Done, on the browser page                                               *)

TapDone(o) ==
    /\ tapped.at = "idle" /\ handWins[o] = "handoff"
    /\ tapped' = [at |-> "listed", owner |-> o, row |-> 0]
    /\ UNCHANGED <<taskRun, front, handWins, handRows, releases, closeJobs, linkReqs, cancelReq, brokenOff>> /\ NoHandFault

\* The newest open handoff of this window, if there is one.
DoneFinds ==
    LET rows == OpenRows(tapped.owner)
    IN /\ tapped.at = "listed"
       /\ tapped' = [tapped EXCEPT !.at = IF rows = {} THEN "release" ELSE "found",
                                   !.row = IF rows = {} THEN 0 ELSE CHOOSE i \in rows : \A j \in rows : j <= i]
       /\ UNCHANGED <<taskRun, front, handWins, handRows, releases, closeJobs, linkReqs, cancelReq, brokenOff>> /\ NoHandFault

\* A parked task carries on.
DoneResumes ==
    /\ tapped.at = "found" /\ tapped.owner \in HandTasks
    /\ IF taskRun[tapped.owner].status = "parked" THEN Resumed(tapped.owner) ELSE UNCHANGED <<taskRun, handRows>>
    /\ tapped' = [tapped EXCEPT !.at = "release"]
    /\ UNCHANGED <<front, handWins, releases, closeJobs, linkReqs, cancelReq, brokenOff>> /\ NoHandFault

\* The front of house hears of it as an event, once.
DoneResolves ==
    /\ tapped.at = "found" /\ tapped.owner = "front"
    /\ LET rows == ResolveHandoffs(RowsOf("front", handRows[tapped.row].turn))
       IN handRows' = [rows EXCEPT ![tapped.row].done = TRUE]
    /\ tapped' = [tapped EXCEPT !.at = "tell"]
    /\ UNCHANGED <<taskRun, front, handWins, releases, closeJobs, linkReqs, cancelReq, brokenOff>> /\ NoHandFault

DoneTells ==
    /\ tapped.at = "tell"
    /\ handRows' = [handRows EXCEPT ![tapped.row].told = TRUE]
    /\ tapped' = [tapped EXCEPT !.at = "release"]
    /\ UNCHANGED <<taskRun, front, handWins, releases, closeJobs, linkReqs, cancelReq, brokenOff>> /\ NoHandFault

DoneReleases ==
    /\ tapped.at = "release"
    /\ tapped' = NotTapped
    /\ LetGo(tapped.owner)
    /\ UNCHANGED <<taskRun, front, handRows, releases, closeJobs, linkReqs, cancelReq, brokenOff>>

\* A gateway dies with the requests it works on: the page's and the CLI's.
GatewayDies ==
    /\ HandFault
    /\ tapped # NotTapped \/ \E l \in LinkRequests : linkReqs[l].at \notin {"idle", "answered"}
    /\ brokenOff' = TRUE
    /\ tapped' = NotTapped
    /\ linkReqs' = [l \in LinkRequests |-> IF linkReqs[l].at = "idle" THEN linkReqs[l] ELSE LinkAnswered]
    /\ UNCHANGED <<taskRun, front, handWins, handRows, releases, closeJobs, cancelReq>>

-----------------------------------------------------------------------------
HandoffsInit ==
    /\ taskRun = [t \in HandTasks |-> [status |-> "running", step |-> "working", window |-> FALSE]]
    /\ front = [at |-> "away", turn |-> 0, unread |-> FALSE]
    /\ handWins = [o \in HandOwners |-> "open"]
    /\ handRows = <<>> /\ releases = {} /\ closeJobs = {}
    /\ linkReqs = [l \in LinkRequests |-> NotLinking]
    /\ cancelReq = NoTask /\ tapped = NotTapped
    /\ brokenOff = FALSE /\ handFaults = 0

HandoffsNext ==
    \/ \E t \in HandTasks :
           \/ StepRefusesBlank(t) \/ StepHolds(t) \/ StepParks(t) \/ StepEnds(t) \/ CloseTaskBrowser(t)
           \/ HandTaskResumes(t) \/ HandCancelReads(t) \/ \E l \in LinkRequests : AskLink(l, t)
    \/ \E l \in LinkRequests : LinkHolds(l) \/ LinkLooks(l) \/ LinkResolves(l) \/ LinkInserts(l)
    \/ \E o \in HandOwners : ReleaseLands(o) \/ TapDone(o)
    \/ UserSendsMore \/ TurnBegins \/ TurnEnds \/ FrontRefusesBlank \/ FrontHolds \/ FrontRecords \/ FrontCrashes
    \/ CancelTask \/ DoneFinds \/ DoneResumes \/ DoneResolves \/ DoneTells \/ DoneReleases \/ GatewayDies

HandoffsSpec == HandoffsInit /\ [][HandoffsNext]_handVars

-----------------------------------------------------------------------------
(* Properties                                                              *)

HandoffsTypeOK ==
    /\ \A t \in HandTasks : taskRun[t].status \in {"running", "parked", "ended"}
    /\ handWins \in [HandOwners -> {"open", "handoff", "closed"}]
    /\ Len(handRows) <= MaxHandoffs /\ releases \subseteq HandOwners /\ closeJobs \subseteq HandTasks
    /\ front.turn \in 0 .. MaxFrontTurns /\ handFaults \in 0 .. MaxHandFaults

\* Done reaches the task that waits: a task parked with a window has an open handoff, by
\* which the page finds it (gateway.ts:200), or is about to have one again.
PageFindsTheTask ==
    brokenOff \/ \A t \in HandTasks :
        taskRun[t].status = "parked" /\ taskRun[t].window =>
            OpenRows(t) # {} \/ \E l \in LinkRequests : linkReqs[l].at = "resolved" /\ linkReqs[l].task = t

\* A handoff that a task's step made ends when the task carries on or ends.
StepHandoffsEnd ==
    \A i \in DOMAIN handRows :
        handRows[i].by = "step" /\ handRows[i].open => taskRun[handRows[i].owner].status = "parked"

\* The front's window is not kept from it: held, unless a call was lost, it is on record as
\* handed over, being handed over or about to be let go.
FrontGetsItBack ==
    handFaults = 0 /\ handWins["front"] = "handoff" =>
        OpenRows("front") # {} \/ front.at = "handing over" \/ "front" \in releases \/ tapped.owner = "front"

\* An ended task keeps no window from anyone: whatever holds it again, it is closed.
EndedWindowsClose ==
    \A t \in HandTasks : taskRun[t].status = "ended" /\ t \notin closeJobs => handWins[t] = "closed"

HandoffsKept == PageFindsTheTask /\ StepHandoffsEnd /\ FrontGetsItBack /\ EndedWindowsClose

-----------------------------------------------------------------------------
(* What the comments say and the code does not keep                        *)

\* "A handoff ends when its run carries on (or is cancelled)" (handoffs.ts:6-8): one that
\* `task link` records after its task was resumed stays open.
OpenMeansWaiting ==
    \A i \in DOMAIN handRows : handRows[i].open /\ handRows[i].owner \in HandTasks => taskRun[handRows[i].owner].status = "parked"

\* "an earlier open one of the run ends" (handoffs.ts:32): not between two links.
OneOpenEach == \A t \in HandTasks : Cardinality(OpenRows(t)) <= 1

\* "`open` while they have it" (schema/handoffs.ts): not when an earlier release lands late.
OpenIsHeld ==
    handFaults = 0 => \A i \in DOMAIN handRows :
        handRows[i].open /\ handRows[i].by # "link" => handWins[handRows[i].owner] = "handoff" \/ handRows[i].owner \in releases

\* "the front of house hears it as an event" (gateway.ts:195-196): not when the gateway
\* dies between the two statements, and a second tap finds no open handoff.
DoneIsHeard ==
    \A i \in DOMAIN handRows : handRows[i].done => handRows[i].told \/ (tapped.at = "tell" /\ tapped.row = i)
=============================================================================
