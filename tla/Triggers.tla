------------------------------ MODULE Triggers ------------------------------
(***************************************************************************)
(* One of Winston's triggers, the scheduler that looks at it, the events   *)
(* matched to it and the runs it starts: apps/agents/src/scheduler.ts,     *)
(* triggers/matching.ts, background/trigger-run.ts and                     *)
(* packages/domain/src/triggers.ts, with the edits of                      *)
(* packages/vm-api/src/triggers.ts made meanwhile.                         *)
(*                                                                         *)
(* Triggers share nothing but the user, so one stands for all.  The job    *)
(* queue is taken as JobQueue shows it: work that was asked for waits once *)
(* per key, is leased, and waits again when its attempt fails.  Time is a  *)
(* count of moments; a cron schedule comes up at every second one, which   *)
(* of the two depends on the user's time zone.                             *)
(***************************************************************************)
EXTENDS Naturals, FiniteSets, FiniteSetsExt

CONSTANTS
    Events,          \* catalog events the trigger subscribes to
    SystemEvents,    \* those stored together with their match_events job
    BatchIds,        \* bound: rows of trigger_batches
    Horizon,         \* bound: the last moment
    TriggerSlots,    \* in-flight jobs of the workers
    MaxEdits,        \* bound: updates and time zone changes
    MaxTriggerFaults \* bound: crashes, failed calls, outlived leases

ASSUME TriggersAssumption ==
    /\ SystemEvents \subseteq Events
    /\ BatchIds \subseteq Nat
    /\ {Horizon, MaxEdits, MaxTriggerFaults} \subseteq Nat

VARIABLES
    clock,
    zone,        \* the user's time zone: which moments the cron pattern names
    trigger,     \* the row of triggers
    batch,       \* the rows of trigger_batches
    stored,      \* the trigger's events in the events table
    asked,       \* jobs that wait
    workers,     \* slot -> the job it runs and how far it is
    editor,      \* an update under way: what it will write
    fired,       \* history: runs per occurrence
    reported,    \* history: runs per event
    noticed,     \* history: on_expire runs
    overwrote,   \* history: an edit wrote over a fire it had not seen
    dropped,     \* history: events that were given up, on the way or at the end
    rematched,   \* history: events whose matching was started again
    edits, triggerFaults

triggersVars == <<clock, zone, trigger, batch, stored, asked, workers, editor, fired,
                  reported, noticed, overwrote, dropped, rematched, edits,
                  triggerFaults>>

Never == Horizon + 3     \* no time at all (SQL null); later than every moment

Times == 0 .. Horizon + 2

-----------------------------------------------------------------------------
(* The lifecycle rules (packages/domain/src/triggers.ts)                   *)

\* The moments a schedule names; a subscription has none.
Occurrences(t, z) ==
    {m \in Times : \/ t.kind = "at" /\ m = t.at
                   \/ t.kind = "cron" /\ m % 2 = z}

\* When a schedule fires next, strictly after `after`.
NextFireAt(t, after, z) ==
    LET ahead == {m \in Occurrences(t, z) : m > after}
    IN  IF ahead = {} THEN Never ELSE Min(ahead)

IsDue(t, now) ==
    t.status = "active" /\ t.next <= now /\ t.next < t.expires

CanFire(t, now) ==
    t.status = "active" /\ t.count < t.max /\ now < t.expires

\* The trigger after it fires at `now`.
AfterFire(t, now, z) ==
    LET next == NextFireAt(t, now, z)
        spent == t.count + 1 >= t.max \/ (t.kind # "subscription" /\ next = Never)
    IN  [t EXCEPT !.count = @ + 1,
                  !.status = IF spent THEN "exhausted" ELSE @,
                  !.next = IF spent THEN Never ELSE next]

Expires(t, now) == t.status = "active" /\ t.expires <= now

Expired(t) == [t EXCEPT !.status = "expired", !.next = Never]

RunsOnExpire(t) == t.note /\ t.count < t.max

-----------------------------------------------------------------------------
(* Jobs, as JobQueue promises them                                         *)

FireWork(at) == [type |-> "fire_schedule", arg |-> at]
ExpireWork == [type |-> "expire_trigger", arg |-> 0]
BatchWork(b) == [type |-> "fire_trigger_batch", arg |-> b]
MatchWork(e) == [type |-> "match_events", arg |-> e]
SyncWork(e) == [type |-> "sync_connection", arg |-> e]   \* any handler that stores, then matches

TriggerWorks ==
    {FireWork(at) : at \in Times} \cup {ExpireWork} \cup {BatchWork(b) : b \in BatchIds}
       \cup {MatchWork(e) : e \in Events} \cup {SyncWork(e) : e \in Events}

Free == [work |-> ExpireWork, pc |-> "free", into |-> 0]

Runs(s, type, pc) == workers[s].pc = pc /\ workers[s].work.type = type

TriggerFault ==
    /\ triggerFaults < MaxTriggerFaults
    /\ triggerFaults' = triggerFaults + 1

\* The handler is done and its job completed.  (That a worker dies after the last
\* write and before the completion is what LeaseLost followed by this shows.)
Settles(s) == workers' = [workers EXCEPT ![s] = Free]
Continues(s, pc) == workers' = [workers EXCEPT ![s].pc = pc]

LeaseWork(s, w) ==
    /\ workers[s].pc = "free" /\ w \in asked
    /\ asked' = asked \ {w}
    /\ workers' = [workers EXCEPT ![s] =
           [work |-> w, into |-> 0,
            pc |-> IF w.type = "match_events" THEN "match" ELSE "begin"]]
    /\ UNCHANGED <<clock, zone, trigger, batch, stored, editor, fired, reported, noticed,
                   overwrote, dropped, rematched, edits, triggerFaults>>

\* The events a slot has stored but not yet put into a batch: a retry of the
\* same job finds them stored and does not match them again.
HalfMatched(s) ==
    IF workers[s].work.type = "sync_connection" /\ workers[s].pc \in {"match", "add"}
    THEN {workers[s].work.arg} ELSE {}

\* The event a match_events job puts into a batch once more when it is retried.
Matching(s) ==
    IF workers[s].work.type = "match_events" THEN {workers[s].work.arg} ELSE {}

\* The worker dies or a call of its fails: the job waits again.
AttemptFails(s) ==
    /\ workers[s].pc # "free"
    /\ TriggerFault
    /\ workers' = [workers EXCEPT ![s] = Free]
    /\ asked' = asked \cup {workers[s].work}
    /\ dropped' = dropped \cup HalfMatched(s)
    /\ rematched' = rematched \cup Matching(s)
    /\ UNCHANGED <<clock, zone, trigger, batch, stored, editor, fired, reported, noticed,
                   overwrote, edits>>

\* A handler outlives its lease: another worker may start the same job.
LeaseLost(s) ==
    /\ workers[s].pc # "free"
    /\ TriggerFault
    /\ asked' = asked \cup {workers[s].work}
    /\ rematched' = rematched \cup Matching(s)
    /\ UNCHANGED <<clock, zone, trigger, batch, stored, workers, editor, fired, reported,
                   noticed, overwrote, dropped, edits>>

-----------------------------------------------------------------------------
(* The scheduler                                                           *)

TickWorks ==
    (IF trigger.kind # "subscription" /\ IsDue(trigger, clock)
     THEN {FireWork(trigger.next)} ELSE {})
       \cup (IF Expires(trigger, clock) THEN {ExpireWork} ELSE {})

\* One transaction; a tick that finds another's advisory lock does nothing.
SchedulerTick ==
    /\ ~(TickWorks \subseteq asked)
    /\ asked' = asked \cup TickWorks
    /\ UNCHANGED <<clock, zone, trigger, batch, stored, workers, editor, fired, reported,
                   noticed, overwrote, dropped, rematched, edits, triggerFaults>>

\* Mutant: the job does not compare its occurrence with the trigger's.
MutMayFireAnyOccurrence(at) == CanFire(trigger, clock)

\* fire_schedule may start its run: the trigger has not moved past the occurrence.
MayFire(at) == CanFire(trigger, clock) /\ trigger.next = at

\* startTriggerRun under the trigger's row lock: one transaction.
FireSchedule(s) ==
    LET at == workers[s].work.arg IN
    /\ Runs(s, "fire_schedule", "begin")
    /\ Settles(s)
    /\ IF MayFire(at)
       THEN /\ trigger' = AfterFire(trigger, clock, zone)
            /\ fired' = [fired EXCEPT ![at] = @ + 1]
       ELSE UNCHANGED <<trigger, fired>>
    /\ UNCHANGED <<clock, zone, batch, stored, asked, editor, reported, noticed, overwrote,
                   dropped, rematched, edits, triggerFaults>>

ExpireTrigger(s) ==
    /\ Runs(s, "expire_trigger", "begin")
    /\ Settles(s)
    /\ IF Expires(trigger, clock)
       THEN /\ trigger' = Expired(trigger)
            /\ noticed' = noticed + (IF RunsOnExpire(trigger) THEN 1 ELSE 0)
       ELSE UNCHANGED <<trigger, noticed>>
    /\ UNCHANGED <<clock, zone, batch, stored, asked, editor, fired, reported, overwrote,
                   dropped, rematched, edits, triggerFaults>>

-----------------------------------------------------------------------------
(* Matching events to the subscription                                     *)

\* recordSystemEvent: the event and its match_events job, together.
SystemEvent(e) ==
    /\ trigger.kind = "subscription" /\ e \in SystemEvents \ stored
    /\ stored' = stored \cup {e}
    /\ asked' = asked \cup {MatchWork(e)}
    /\ UNCHANGED <<clock, zone, trigger, batch, workers, editor, fired, reported, noticed,
                   overwrote, dropped, rematched, edits, triggerFaults>>

\* A push or the sweep queues a sync that will find the event.
PushArrives(e) ==
    /\ trigger.kind = "subscription" /\ e \in Events \ (SystemEvents \cup stored)
    /\ SyncWork(e) \notin asked
    /\ asked' = asked \cup {SyncWork(e)}
    /\ UNCHANGED <<clock, zone, trigger, batch, stored, workers, editor, fired, reported,
                   noticed, overwrote, dropped, rematched, edits, triggerFaults>>

\* Mutant: the sync hands on what it read and stores nothing.
MutStoreEvent(s) ==
    LET e == workers[s].work.arg IN
    /\ Runs(s, "sync_connection", "begin")
    /\ IF e \in stored THEN Settles(s) ELSE Continues(s, "match")
    /\ UNCHANGED <<clock, zone, trigger, batch, stored, asked, editor, fired, reported, noticed,
                   overwrote, dropped, rematched, edits, triggerFaults>>

\* The sync stores what is new, with its checkpoint; nothing new, nothing to match.
StoreEvent(s) ==
    LET e == workers[s].work.arg IN
    /\ Runs(s, "sync_connection", "begin")
    /\ IF e \in stored THEN Settles(s) ELSE Continues(s, "match")
    /\ stored' = stored \cup {e}
    /\ UNCHANGED <<clock, zone, trigger, batch, asked, editor, fired, reported, noticed,
                   overwrote, dropped, rematched, edits, triggerFaults>>

\* The candidates are the active subscriptions, as read here; the native query
\* that fails, or does not match, skips the subscription.
MatchEvent(s) ==
    /\ workers[s].pc = "match"
    /\ \/ /\ trigger.kind = "subscription" /\ trigger.status = "active"
          /\ Continues(s, "add")
          /\ UNCHANGED dropped
       \/ /\ Settles(s)
          /\ dropped' = dropped \cup {workers[s].work.arg}
    /\ UNCHANGED <<clock, zone, trigger, batch, stored, asked, editor, fired, reported, noticed,
                   overwrote, rematched, edits, triggerFaults>>

Pending == {b \in BatchIds : batch[b].status = "pending"}
UnusedBatches == {b \in BatchIds : batch[b].status = "none"}

\* One upsert on the partial unique index: the pending batch, or a new one.
JoinBatch(s) ==
    /\ workers[s].pc = "add"
    /\ \/ /\ \E b \in Pending :
              batch' = [batch EXCEPT ![b].events = @ \cup {workers[s].work.arg}]
          /\ Settles(s)
       \/ /\ Pending = {} /\ UnusedBatches # {}
          /\ batch' = [batch EXCEPT ![Min(UnusedBatches)] =
                           [status |-> "pending", events |-> {workers[s].work.arg}]]
          /\ workers' = [workers EXCEPT ![s].pc = "queue", ![s].into = Min(UnusedBatches)]

AddToBatch(s) ==
    /\ JoinBatch(s)
    /\ UNCHANGED <<clock, zone, trigger, stored, asked, editor, fired, reported, noticed,
                   overwrote, dropped, rematched, edits, triggerFaults>>

\* The batch's firing job, a statement of its own.
QueueBatch(s) ==
    /\ workers[s].pc = "queue"
    /\ asked' = asked \cup {BatchWork(workers[s].into)}
    /\ Settles(s)
    /\ UNCHANGED <<clock, zone, trigger, batch, stored, editor, fired, reported, noticed,
                   overwrote, dropped, rematched, edits, triggerFaults>>

\* Mutant: a batch is fired whether or not it still waits.
MutMayFireBatch(b) == TRUE

\* fireBatch does nothing with a batch that was fired.
MayFireBatch(b) == batch[b].status = "pending"

\* fireBatch: the batch locked, startTriggerRun, the batch closed; one transaction.
FireBatch(s) ==
    LET b == workers[s].work.arg IN
    /\ Runs(s, "fire_trigger_batch", "begin")
    /\ Settles(s)
    /\ IF MayFireBatch(b)
       THEN /\ batch' = [batch EXCEPT ![b].status = "fired"]
            /\ IF CanFire(trigger, clock)
               THEN /\ trigger' = AfterFire(trigger, clock, zone)
                    /\ reported' = [e \in Events |-> reported[e] +
                                        (IF e \in batch[b].events THEN 1 ELSE 0)]
                    /\ UNCHANGED dropped
               ELSE /\ dropped' = dropped \cup batch[b].events
                    /\ UNCHANGED <<trigger, reported>>
       ELSE UNCHANGED <<batch, trigger, reported, dropped>>
    /\ UNCHANGED <<clock, zone, stored, asked, editor, fired, noticed, overwrote, rematched,
                   edits, triggerFaults>>

-----------------------------------------------------------------------------
(* Winston's own edits (packages/vm-api/src/triggers.ts), the user's zone  *)

NoEdit == [pc |-> "none", next |-> 0, max |-> 0, expires |-> 0, count |-> 0]

Edits == edits < MaxEdits /\ edits' = edits + 1

\* `winston trigger update`: the row is read, checked, and its next time worked
\* out from now.  A one-off that is not ahead any more is refused.  The flags
\* may lower --max-fires and drop the expiry.
UpdateReads ==
    /\ editor.pc = "none" /\ Edits
    /\ trigger.status = "active"
    /\ trigger.kind = "at" => trigger.at > clock
    /\ \E max \in {trigger.max, 1}, expires \in {trigger.expires, Never} :
          editor' = [pc |-> "write", next |-> NextFireAt(trigger, clock, zone),
                     max |-> max, expires |-> expires, count |-> trigger.count]
    /\ UNCHANGED <<clock, zone, trigger, batch, stored, asked, workers, fired, reported,
                   noticed, overwrote, dropped, rematched, triggerFaults>>

\* A change of time zone (profile.ts) recomputes an active cron's next time.
ZoneChanges ==
    /\ editor.pc = "none" /\ Edits
    /\ trigger.status = "active" /\ trigger.kind = "cron"
    /\ zone' = 1 - zone
    /\ editor' = [pc |-> "write", next |-> NextFireAt(trigger, clock, 1 - zone),
                  max |-> trigger.max, expires |-> trigger.expires, count |-> trigger.count]
    /\ UNCHANGED <<clock, trigger, batch, stored, asked, workers, fired, reported, noticed,
                   overwrote, dropped, rematched, triggerFaults>>

\* The update writes what it worked out, by id alone.
EditWrites ==
    /\ editor.pc = "write"
    /\ editor' = NoEdit
    /\ trigger' = [trigger EXCEPT !.next = editor.next, !.max = editor.max,
                                  !.expires = editor.expires]
    /\ overwrote' = (overwrote \/ trigger.count # editor.count)
    /\ UNCHANGED <<clock, zone, batch, stored, asked, workers, fired, reported, noticed,
                   dropped, rematched, edits, triggerFaults>>

DeleteTrigger ==
    /\ trigger.status # "deleted"
    /\ Edits
    /\ trigger' = [trigger EXCEPT !.status = "deleted"]
    /\ UNCHANGED <<clock, zone, batch, stored, asked, workers, editor, fired, reported,
                   noticed, overwrote, dropped, rematched, triggerFaults>>

TimePasses ==
    /\ clock < Horizon
    /\ clock' = clock + 1
    /\ UNCHANGED <<zone, trigger, batch, stored, asked, workers, editor, fired, reported,
                   noticed, overwrote, dropped, rematched, edits, triggerFaults>>

-----------------------------------------------------------------------------
\* What `winston trigger create` can make: the time it is for is ahead, and so
\* is its expiry; a one-off fires once; the on-expire note needs an expiry.
CreatedTriggers ==
    {t \in [kind : {"at", "cron", "subscription"}, at : {2}, max : {1, 2},
            count : {0}, expires : {3, Never}, note : BOOLEAN, next : Times \cup {Never},
            status : {"active"}] :
        /\ (t.kind = "at") <=> (t.max = 1)
        /\ t.note <=> t.expires # Never
        /\ t.next = NextFireAt(t, 0, 0)}

TriggersInit ==
    /\ clock = 0 /\ zone = 0
    /\ trigger \in CreatedTriggers
    /\ batch = [b \in BatchIds |-> [status |-> "none", events |-> {}]]
    /\ stored = {} /\ asked = {}
    /\ workers = [s \in TriggerSlots |-> Free]
    /\ editor = NoEdit
    /\ fired = [at \in Times |-> 0]
    /\ reported = [e \in Events |-> 0]
    /\ noticed = 0 /\ overwrote = FALSE /\ dropped = {} /\ rematched = {}
    /\ edits = 0 /\ triggerFaults = 0

TriggerHandler(s) ==
    \/ FireSchedule(s) \/ ExpireTrigger(s)
    \/ StoreEvent(s) \/ MatchEvent(s) \/ AddToBatch(s) \/ QueueBatch(s)
    \/ FireBatch(s)

TriggerSlotStep(s) ==
    \/ \E w \in asked : LeaseWork(s, w)
    \/ TriggerHandler(s)
    \/ AttemptFails(s) \/ LeaseLost(s)

TriggersNext ==
    \/ SchedulerTick \/ TimePasses
    \/ \E s \in TriggerSlots : TriggerSlotStep(s)
    \/ \E e \in Events : SystemEvent(e) \/ PushArrives(e)
    \/ UpdateReads \/ ZoneChanges \/ EditWrites \/ DeleteTrigger

TriggersSpec == TriggersInit /\ [][TriggersNext]_triggersVars

-----------------------------------------------------------------------------
(* Properties                                                              *)

TriggersTypeOK ==
    /\ clock \in 0 .. Horizon /\ zone \in {0, 1}
    /\ trigger.status \in {"active", "exhausted", "expired", "deleted"}
    /\ trigger.next \in Times \cup {Never} /\ trigger.count \in Nat
    /\ \A b \in BatchIds : /\ batch[b].status \in {"none", "pending", "fired"}
                           /\ batch[b].events \subseteq stored
    /\ asked \subseteq TriggerWorks
    /\ \A s \in TriggerSlots :
          /\ workers[s].work \in TriggerWorks
          /\ workers[s].pc \in {"free", "begin", "match", "add", "queue"}
    /\ stored \subseteq Events
    /\ fired \in [Times -> Nat] /\ reported \in [Events -> Nat] /\ noticed \in Nat

\* An occurrence of a schedule starts one run at most, whichever jobs for it the
\* ticks queued and however often they are tried, "so a crash or a second worker
\* can't double-fire it" (trigger-run.ts); except that an edit which overlaps
\* with a fire may write a time back that has just been fired.
\* Its expiry is noticed in one run too.
OccurrenceOnce ==
    /\ overwrote \/ \A at \in Times : fired[at] <= 1
    /\ noticed <= 1

\* A batch with a future: a job for it waits or runs, or is about to be queued.
HasJob(b) ==
    \/ BatchWork(b) \in asked
    \/ \E s \in TriggerSlots :
          \/ workers[s].pc = "begin" /\ workers[s].work = BatchWork(b)
          \/ workers[s].pc = "queue" /\ workers[s].into = b

\* "A batch fires 30 s after its first event" (matching.ts): no batch waits
\* without a job that will fire it.  The batch's row and its job are two
\* statements, so a worker that dies between them leaves a batch no job fires,
\* and every later event of the subscription joins that batch.
NoBatchStranded == \A b \in Pending : HasJob(b)

\* An event is in one run at most, whichever jobs fire its batch; except that a
\* match_events job tried again after its batch was fired opens another one.
EventInOneRun == \A e \in Events \ rematched : reported[e] <= 1

\* An event of the subscription is never forgotten on its way: a job or handler
\* has it, a batch that waits holds it, or a run has reported it; except those
\* dropped, which the subscription did not match, or was over for, or whose sync
\* was cut off between storing and matching (sync.ts: the retry finds nothing new).
EventTracked ==
    \A e \in stored \ dropped :
        \/ reported[e] > 0
        \/ MatchWork(e) \in asked
        \/ \E s \in TriggerSlots : workers[s].work.arg = e /\ workers[s].pc \in {"match", "add"}
        \/ \E b \in Pending : e \in batch[b].events

\* An event of the subscription reaches one run, and is on its way until then.
EventsFire == EventInOneRun /\ EventTracked
=============================================================================
