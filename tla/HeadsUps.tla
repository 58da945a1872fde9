------------------------------ MODULE HeadsUps ------------------------------
(***************************************************************************)
(* The heads-up before a meeting (apps/agents/src/triggers/timers.ts): one *)
(* subscription to calendar.event.starting, one meeting that moves and is  *)
(* cancelled, the derived timer that follows it, the jobs that refresh and *)
(* fire the timer, and the sweep (connections/reconcile.ts) that asks for  *)
(* a refresh every ten minutes.                                            *)
(*                                                                         *)
(* A moment of the clock is one interval of the sweep: time moves on when  *)
(* the sweep has run and its jobs are done.                                *)
(***************************************************************************)
EXTENDS Naturals

CONSTANTS
    Lead,            \* how long before the meeting its heads-up is due
    Starts,          \* the times the meeting may be at
    LastMoment,      \* bound on the clock
    MaxMoves,        \* bound: changes of the meeting
    MaxTimerFaults   \* bound: failed attempts

ASSUME HeadsUpsAssumption ==
    /\ Starts \subseteq Nat \ {0}
    /\ {Lead, LastMoment, MaxMoves, MaxTimerFaults} \subseteq Nat

VARIABLES
    moment,
    meeting,         \* its start; 0 when it was cancelled
    timer,           \* the row of derived_timers: id 0 when there is none
    timerIds,        \* ids given so far
    refreshAsked,    \* a refresh_timers job waits
    refresh,         \* a refresh under way: what it wants
    fireAsked,       \* the id of the timer a fire_derived_timer job waits for, or 0
    firer,           \* a firing under way
    announced,       \* the starts whose event is stored (the dedupe keys)
    batched,         \* start -> how often it joined a batch
    swept,           \* this moment's sweep has run
    since,           \* history: the moment the meeting came to be where it is
    lost,            \* history: starts whose batch a failed attempt skipped
    moves, timerFaults

headsUpsVars == <<moment, meeting, timer, timerIds, refreshAsked, refresh, fireAsked, firer,
                  announced, batched, swept, since, lost, moves, timerFaults>>

Due(start) == start - Lead
NoTimer == [id |-> 0, fireAt |-> 0]
IdleRefresh == [pc |-> "idle", wanted |-> 0]
IdleFirer == [pc |-> "idle", id |-> 0, start |-> 0]

TimerFault == timerFaults < MaxTimerFaults /\ timerFaults' = timerFaults + 1

\* When the timer should go off for a meeting at `start`, 0 for not at all: not for
\* one that has started, at once for one inside its lead unless it had its heads-up.
Wanted(start) ==
    IF start <= moment THEN 0
    ELSE IF Due(start) > moment THEN Due(start)
    ELSE IF start \in announced THEN 0 ELSE moment

-----------------------------------------------------------------------------
\* The sweep, or a sync that found the meeting changed, queues a refresh.
AskRefresh ==
    /\ ~refreshAsked /\ ~swept
    /\ refreshAsked' = TRUE /\ swept' = TRUE
    /\ UNCHANGED <<moment, meeting, timer, timerIds, refresh, fireAsked, firer, announced,
                   batched, since, lost, moves, timerFaults>>

RefreshReads ==
    /\ refreshAsked /\ refresh.pc = "idle"
    /\ refreshAsked' = FALSE
    /\ refresh' = [pc |-> "write", wanted |-> Wanted(meeting)]
    /\ UNCHANGED <<moment, meeting, timer, timerIds, fireAsked, firer, announced, batched,
                   swept, since, lost, moves, timerFaults>>

\* The timer is put where the meeting was seen (its row is kept), or goes.
RefreshWrites ==
    LET new == refresh.wanted # 0 /\ timer.id = 0
    IN  /\ refresh.pc = "write"
        /\ refresh' = IdleRefresh
        /\ timerIds' = IF new THEN timerIds + 1 ELSE timerIds
        /\ timer' = IF refresh.wanted = 0 THEN NoTimer
                    ELSE [id |-> IF new THEN timerIds + 1 ELSE timer.id, fireAt |-> refresh.wanted]
        /\ UNCHANGED <<moment, meeting, refreshAsked, fireAsked, firer, announced, batched,
                       swept, since, lost, moves, timerFaults>>

RefreshFails ==
    /\ refresh.pc = "write"
    /\ TimerFault
    /\ refresh' = IdleRefresh
    /\ refreshAsked' = TRUE
    /\ UNCHANGED <<moment, meeting, timer, timerIds, fireAsked, firer, announced, batched,
                   swept, since, lost, moves>>

\* The scheduler's tick finds the timer due.
TimerDue ==
    /\ timer.id # 0 /\ timer.fireAt <= moment /\ fireAsked = 0 /\ firer.id # timer.id
    /\ fireAsked' = timer.id
    /\ UNCHANGED <<moment, meeting, timer, timerIds, refreshAsked, refresh, firer, announced,
                   batched, swept, since, lost, moves, timerFaults>>

\* fireTimer: a timer that is gone has nothing to fire.
FireLoads ==
    /\ fireAsked # 0 /\ firer.pc = "idle"
    /\ fireAsked' = 0
    /\ firer' = IF fireAsked = timer.id THEN [IdleFirer EXCEPT !.pc = "get", !.id = timer.id]
                ELSE IdleFirer
    /\ UNCHANGED <<moment, meeting, timer, timerIds, refreshAsked, refresh, announced, batched,
                   swept, since, lost, moves, timerFaults>>

\* The meeting is fetched as it is now; one that went, started or moved out of its
\* lead is left to a refresh, and so, silently, is one that cannot be fetched.
FireGets ==
    /\ firer.pc = "get"
    /\ \/ /\ meeting > moment /\ Due(meeting) <= moment
          /\ firer' = [firer EXCEPT !.pc = "store", !.start = meeting]
          /\ UNCHANGED refreshAsked
       \/ /\ ~(meeting > moment /\ Due(meeting) <= moment)
          /\ firer' = [firer EXCEPT !.pc = "remove"]
          /\ refreshAsked' = (refreshAsked \/ meeting > moment)
    /\ UNCHANGED <<moment, meeting, timer, timerIds, refresh, fireAsked, announced, batched,
                   swept, since, lost, moves, timerFaults>>

FireCannotGet ==
    /\ firer.pc = "get"
    /\ TimerFault
    /\ firer' = [firer EXCEPT !.pc = "remove"]
    /\ UNCHANGED <<moment, meeting, timer, timerIds, refreshAsked, refresh, fireAsked, announced,
                   batched, swept, since, lost, moves>>

\* Only an event that is new is added to a batch.
AfterStore(start) == IF start \in announced THEN "remove" ELSE "batch"

FireStores ==
    /\ firer.pc = "store"
    /\ announced' = announced \cup {firer.start}
    /\ firer' = [firer EXCEPT !.pc = AfterStore(firer.start)]
    /\ UNCHANGED <<moment, meeting, timer, timerIds, refreshAsked, refresh, fireAsked, batched,
                   swept, since, lost, moves, timerFaults>>

FireBatches ==
    /\ firer.pc = "batch"
    /\ batched' = [batched EXCEPT ![firer.start] = @ + 1]
    /\ firer' = [firer EXCEPT !.pc = "remove"]
    /\ UNCHANGED <<moment, meeting, timer, timerIds, refreshAsked, refresh, fireAsked, announced,
                   swept, since, lost, moves, timerFaults>>

\* The row goes, by its id, whatever a refresh has made of it since.
FireRemoves ==
    /\ firer.pc = "remove"
    /\ timer' = IF timer.id = firer.id THEN NoTimer ELSE timer
    /\ firer' = IdleFirer
    /\ UNCHANGED <<moment, meeting, timerIds, refreshAsked, refresh, fireAsked, announced,
                   batched, swept, since, lost, moves, timerFaults>>

\* A call fails or the worker dies; the retry finds a stored event and removes the
\* timer, so a batch it had not joined it never joins.
FireFails ==
    /\ firer.pc # "idle" /\ fireAsked = 0
    /\ TimerFault
    /\ lost' = IF firer.pc = "batch" THEN lost \cup {firer.start} ELSE lost
    /\ fireAsked' = firer.id
    /\ firer' = IdleFirer
    /\ UNCHANGED <<moment, meeting, timer, timerIds, refreshAsked, refresh, announced, batched,
                   swept, since, moves>>

\* The meeting moves or is cancelled; the sweep, if not a push, will find it.
MeetingMoves ==
    /\ meeting # 0 /\ moves < MaxMoves
    /\ moves' = moves + 1
    /\ meeting' \in (Starts \cup {0}) \ {meeting}
    /\ since' = moment
    /\ UNCHANGED <<moment, timer, timerIds, refreshAsked, refresh, fireAsked, firer, announced,
                   batched, swept, lost, timerFaults>>

\* A push makes a sync queue a refresh between two sweeps.
PushRefresh ==
    /\ since = moment /\ ~refreshAsked /\ moves > 0
    /\ refreshAsked' = TRUE
    /\ UNCHANGED <<moment, meeting, timer, timerIds, refresh, fireAsked, firer, announced,
                   batched, swept, since, lost, moves, timerFaults>>

Quiet ==
    /\ ~refreshAsked /\ refresh.pc = "idle" /\ fireAsked = 0 /\ firer.pc = "idle"
    /\ ~(timer.id # 0 /\ timer.fireAt <= moment)

MomentPasses ==
    /\ moment < LastMoment /\ swept /\ Quiet
    /\ moment' = moment + 1 /\ swept' = FALSE
    /\ UNCHANGED <<meeting, timer, timerIds, refreshAsked, refresh, fireAsked, firer, announced,
                   batched, since, lost, moves, timerFaults>>

HeadsUpsInit ==
    /\ moment = 0 /\ meeting \in Starts
    /\ timer = NoTimer /\ timerIds = 0
    /\ refreshAsked = TRUE          \* creating the subscription queues a refresh
    /\ refresh = IdleRefresh /\ fireAsked = 0 /\ firer = IdleFirer
    /\ announced = {} /\ batched = [s \in Starts |-> 0]
    /\ swept = FALSE /\ since = 0 /\ lost = {} /\ moves = 0 /\ timerFaults = 0

HeadsUpsNext ==
    \/ AskRefresh \/ PushRefresh \/ RefreshReads \/ RefreshWrites \/ RefreshFails
    \/ TimerDue \/ FireLoads \/ FireGets \/ FireCannotGet
    \/ FireStores \/ FireBatches \/ FireRemoves \/ FireFails
    \/ MeetingMoves \/ MomentPasses

HeadsUpsSpec == HeadsUpsInit /\ [][HeadsUpsNext]_headsUpsVars

-----------------------------------------------------------------------------
(* Properties                                                              *)

HeadsUpsTypeOK ==
    /\ moment \in 0 .. LastMoment /\ meeting \in Starts \cup {0}
    /\ timer.id \in 0 .. timerIds /\ fireAsked \in 0 .. timerIds
    /\ refresh.pc \in {"idle", "write"}
    /\ firer.pc \in {"idle", "get", "store", "batch", "remove"}
    /\ announced \subseteq Starts /\ batched \in [Starts -> Nat] /\ lost \subseteq announced

\* A heads-up goes out "once per start time" (timers.ts), though the timer is
\* refreshed, moved away and back, and its job retried.
HeadsUpOnce == \A s \in Starts : batched[s] <= 1

\* The heads-up "follows moves and cancellations": a meeting that starts has had
\* its heads-up if it was at that time before its lead began, also when a refresh
\* that had read its old time wrote last, or the firing removed a timer that had
\* just been moved or could not be looked up: the next sweep makes up for it, when the
\* lead is longer than its interval.  Left out is an event stored by
\* an attempt that failed before the batch (timers.ts:273): its retry drops it.
NoMeetingMissed ==
    (meeting # 0 /\ meeting <= moment /\ since < Due(meeting))
        => batched[meeting] > 0 \/ meeting \in lost

\* A meeting has its heads-up, and has it once.
HeadsUpsKept == HeadsUpOnce /\ NoMeetingMissed
=============================================================================
