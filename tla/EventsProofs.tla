---------------------------- MODULE EventsProofs ----------------------------
(***************************************************************************)
(* Proofs about Triggers and AccountSync, for any events, batches,         *)
(* requests, slots and bounds: an occurrence of a schedule starts one run  *)
(* at most; an event of a subscription is never forgotten and reaches one  *)
(* run at most; what Winston does to an account is on record and known as  *)
(* his; and what lies before a sync's checkpoint is told, each thing once. *)
(***************************************************************************)
EXTENDS Triggers, AccountSync, WellFoundedInduction, SequenceTheorems,
        FiniteSetTheorems, TLAPS

Statuses == {"active", "exhausted", "expired", "deleted"}
SomeTime == Times \cup {Never}

TriggerRows ==
    [kind : {"at", "cron", "subscription"}, at : Times, max : Nat, count : Nat,
     expires : Nat, note : BOOLEAN, next : SomeTime, status : Statuses]
Editors == [pc : {"none", "write"}, next : SomeTime, max : Nat, expires : Nat, count : Nat]
Batches == [status : {"none", "pending", "fired"}, events : SUBSET Events]

\* A slot on its way to a batch has the job of an event; one that is about to queue
\* the batch's job has made the batch.
Workers ==
    {w \in [work : TriggerWorks, pc : {"free", "begin", "match", "add", "queue"},
            into : BatchIds \cup {0}] :
        /\ w.pc \in {"match", "add"} => w.work.type \in {"match_events", "sync_connection"}
        /\ w.pc = "queue" => w.into \in BatchIds}

TypeInv ==
    /\ clock \in 0 .. Horizon /\ zone \in {0, 1}
    /\ trigger \in TriggerRows
    /\ editor \in Editors
    /\ batch \in [BatchIds -> Batches]
    /\ stored \subseteq Events /\ asked \subseteq TriggerWorks
    /\ workers \in [TriggerSlots -> Workers]
    /\ fired \in [Times -> Nat] /\ reported \in [Events -> Nat] /\ noticed \in Nat

\* Time and the trigger's records are numbers that compare.
LEMMA TimesAreNumbers ==
    /\ Horizon \in Nat /\ Times \subseteq Nat /\ Never \in Nat
    /\ \A at \in Times : at < Never
    /\ SomeTime \subseteq Nat
  BY TriggersAssumption DEF Times, Never, SomeTime

\* A set of numbers that is not empty has a first one.
LEMMA FirstOfNumbers ==
    ASSUME NEW S \in SUBSET Nat, S # {}
    PROVE  Min(S) \in S
  <1> DEFINE less == OpToRel(<, Nat)
  <1>1. \A m, n \in Nat : m < n => <<m, n>> \in less
    BY DEF OpToRel
  <1>2. IsWellFoundedOn(less, Nat)
    BY NatLessThanWellFounded
  <1> HIDE DEF less
  <1>3. PICK m \in S : \A n \in S : ~ (<<n, m>> \in less)
    BY <1>2, WFMin
  <1>4. ASSUME NEW n \in S
        PROVE  m <= n
    <2>1. m \in Nat /\ n \in Nat /\ ~ (n < m)
      BY <1>1, <1>3
    <2> QED BY <2>1
  <1> QED BY <1>4 DEF Min

\* When a schedule fires next: at a time that lies ahead, or never again.
LEMMA NextLiesAhead ==
    ASSUME NEW t, NEW after \in 0 .. Horizon, NEW z
    PROVE  NextFireAt(t, after, z) \in SomeTime /\ NextFireAt(t, after, z) > after
  <1> DEFINE ahead == {m \in Occurrences(t, z) : m > after}
  <1>1. Horizon \in Nat /\ Times \subseteq Nat /\ Never > after
    BY TriggersAssumption DEF Times, Never
  <1>2. ahead \in SUBSET Nat /\ ahead \subseteq Times
    BY <1>1 DEF Occurrences
  <1>3. CASE ahead = {}
    BY <1>1, <1>3 DEF NextFireAt, SomeTime
  <1>4. CASE ahead # {}
    <2>1. Min(ahead) \in ahead
      BY <1>2, <1>4, FirstOfNumbers
    <2> QED BY <2>1, <1>2, <1>4 DEF NextFireAt, SomeTime
  <1> QED BY <1>3, <1>4

\* The trigger after a fire: counted, its next time ahead, nothing else of it new.
LEMMA AfterFireFacts ==
    ASSUME NEW t \in TriggerRows, NEW now \in 0 .. Horizon, NEW z \in {0, 1}
    PROVE  /\ AfterFire(t, now, z) \in TriggerRows
           /\ AfterFire(t, now, z).count = t.count + 1
           /\ AfterFire(t, now, z).next > now
           /\ AfterFire(t, now, z).status \in {t.status, "exhausted"}
  <1> DEFINE next == NextFireAt(t, now, z)
             spent == t.count + 1 >= t.max \/ (t.kind # "subscription" /\ next = Never)
  <1>1. next \in SomeTime /\ next > now /\ Never \in SomeTime /\ Never > now
    BY NextLiesAhead, TimesAreNumbers, TriggersAssumption DEF SomeTime, Never
  <1> HIDE DEF next
  <1>2. PICK s \in BOOLEAN : s <=> spent
    OBVIOUS
  <1>3. PICK status : status = IF s THEN "exhausted" ELSE t.status
    OBVIOUS
  <1>4. PICK later : later = IF s THEN Never ELSE next
    OBVIOUS
  <1>5. PICK count \in Nat : count = t.count + 1
    BY DEF TriggerRows
  <1>6. AfterFire(t, now, z) = [t EXCEPT !.count = count, !.status = status, !.next = later]
    BY <1>2, <1>3, <1>4, <1>5 DEF AfterFire, next
  <1>7. /\ status \in Statuses /\ status \in {t.status, "exhausted"}
        /\ later \in SomeTime /\ later > now
    BY <1>1, <1>3, <1>4 DEF TriggerRows, Statuses
  <1>8. [t EXCEPT !.count = count, !.status = status, !.next = later] \in TriggerRows
    BY <1>7, Zenon DEF TriggerRows
  <1>9. /\ AfterFire(t, now, z).count = count /\ AfterFire(t, now, z).status = status
        /\ AfterFire(t, now, z).next = later
    BY <1>6 DEF TriggerRows
  <1> QED BY <1>5, <1>6, <1>7, <1>8, <1>9

-----------------------------------------------------------------------------
(* Types                                                                   *)

\* What a job is for, read off its type.
LEMMA WorkFacts ==
    ASSUME NEW w \in TriggerWorks
    PROVE  /\ w.type = "fire_schedule" => w.arg \in Times /\ w = FireWork(w.arg)
           /\ w.type = "expire_trigger" => w = ExpireWork
           /\ w.type = "fire_trigger_batch" => w.arg \in BatchIds /\ w = BatchWork(w.arg)
           /\ w.type = "match_events" => w.arg \in Events /\ w = MatchWork(w.arg)
           /\ w.type = "sync_connection" => w.arg \in Events /\ w = SyncWork(w.arg)
  BY DEF TriggerWorks, FireWork, ExpireWork, BatchWork, MatchWork, SyncWork

LEMMA FreeIsWorker == Free \in Workers
  BY DEF Free, Workers, TriggerWorks

LEMMA WorkersSettle ==
    ASSUME workers \in [TriggerSlots -> Workers], NEW s \in TriggerSlots, Settles(s)
    PROVE  workers' \in [TriggerSlots -> Workers]
  BY FreeIsWorker DEF Settles

LEMMA WorkersContinue ==
    ASSUME workers \in [TriggerSlots -> Workers], NEW s \in TriggerSlots,
           NEW pc \in {"match", "add"}, Continues(s, pc),
           workers[s].work.type \in {"match_events", "sync_connection"}
    PROVE  workers' \in [TriggerSlots -> Workers]
  BY DEF Continues, Workers

LEMMA TypesBegin == TriggersInit => TypeInv
  <1> HAVE TriggersInit
  <1> USE DEF TriggersInit
  <1>1. trigger \in TriggerRows
    BY TriggersAssumption DEF CreatedTriggers, TriggerRows, Statuses, SomeTime, Times, Never
  <1>2. editor \in Editors
    BY TriggersAssumption DEF NoEdit, Editors, SomeTime, Times
  <1>3. batch \in [BatchIds -> Batches]
    BY DEF Batches
  <1> QED BY <1>1, <1>2, <1>3, TimesAreNumbers, FreeIsWorker, TriggersAssumption DEF TypeInv

LEMMA TypesLast ==
    ASSUME TypeInv, [TriggersNext]_triggersVars
    PROVE  TypeInv'
  <1> USE DEF TypeInv
  <1>1. CASE SchedulerTick
    <2>1. TickWorks \subseteq TriggerWorks
      <3>1. IsDue(trigger, clock) => trigger.next \in Times
        BY TimesAreNumbers DEF IsDue, TriggerRows, SomeTime, Never
      <3> QED BY <3>1 DEF TickWorks, TriggerWorks
    <2> QED BY <1>1, <2>1 DEF SchedulerTick
  <1>2. CASE TimePasses
    BY <1>2, TriggersAssumption DEF TimePasses
  <1>3. ASSUME NEW s \in TriggerSlots, NEW w \in asked, LeaseWork(s, w)
        PROVE  TypeInv'
    <2>1. w \in TriggerWorks /\ 0 \in BatchIds \cup {0}
      OBVIOUS
    <2>2. PICK pc \in {"match", "begin"} : pc = IF w.type = "match_events" THEN "match" ELSE "begin"
      OBVIOUS
    <2>3. workers' = [workers EXCEPT ![s] = [work |-> w, into |-> 0, pc |-> pc]]
      BY <1>3, <2>2 DEF LeaseWork
    <2>4. [work |-> w, into |-> 0, pc |-> pc] \in Workers
      BY <2>1, <2>2, <1>3 DEF Workers, LeaseWork
    <2> QED BY <1>3, <2>3, <2>4 DEF LeaseWork
  <1>4. ASSUME NEW s \in TriggerSlots, FireSchedule(s)
        PROVE  TypeInv'
    <2>1. workers[s].work.type = "fire_schedule" /\ workers[s].work \in TriggerWorks
      BY <1>4 DEF FireSchedule, Runs, Workers
    <2>2. workers[s].work.arg \in Times
      BY <2>1, WorkFacts
    <2>3. workers' \in [TriggerSlots -> Workers]
      BY <1>4, WorkersSettle DEF FireSchedule
    <2>4. trigger' \in TriggerRows /\ fired' \in [Times -> Nat]
      BY <1>4, <2>2, AfterFireFacts DEF FireSchedule
    <2> QED BY <1>4, <2>3, <2>4 DEF FireSchedule
  <1>5. ASSUME NEW s \in TriggerSlots, ExpireTrigger(s)
        PROVE  TypeInv'
    <2>1. workers' \in [TriggerSlots -> Workers]
      BY <1>5, WorkersSettle DEF ExpireTrigger
    <2>2. Expired(trigger) \in TriggerRows
      BY Zenon DEF Expired, TriggerRows, Statuses, SomeTime
    <2> QED BY <1>5, <2>1, <2>2 DEF ExpireTrigger
  <1>6. ASSUME NEW s \in TriggerSlots, StoreEvent(s)
        PROVE  TypeInv'
    <2>1. workers[s].work.arg \in Events
      BY <1>6, WorkFacts DEF StoreEvent, Runs, Workers
    <2>2. workers' \in [TriggerSlots -> Workers]
      BY <1>6, WorkersSettle, WorkersContinue DEF StoreEvent, Runs
    <2> QED BY <1>6, <2>1, <2>2 DEF StoreEvent
  <1>7. ASSUME NEW s \in TriggerSlots, MatchEvent(s)
        PROVE  TypeInv'
    <2>1. workers[s].work.type \in {"match_events", "sync_connection"}
      BY <1>7 DEF MatchEvent, Workers
    <2> QED BY <1>7, <2>1, WorkersSettle, WorkersContinue DEF MatchEvent
  <1>8. ASSUME NEW s \in TriggerSlots, AddToBatch(s)
        PROVE  TypeInv'
    <2> DEFINE e == workers[s].work.arg
    <2>1. e \in Events
      BY <1>8, WorkFacts DEF AddToBatch, JoinBatch, Workers
    <2>2. CASE \E b \in Pending : batch' = [batch EXCEPT ![b].events = @ \cup {e}] /\ Settles(s)
      <3>1. PICK b \in BatchIds :
               batch' = [batch EXCEPT ![b].events = batch[b].events \cup {e}] /\ Settles(s)
        BY <2>2 DEF Pending
      <3>2. batch[b].events \cup {e} \in SUBSET Events
        BY <2>1 DEF Batches
      <3>3. batch' \in [BatchIds -> Batches]
        BY <3>1, <3>2 DEF Batches
      <3> QED BY <1>8, <3>1, <3>3, WorkersSettle DEF AddToBatch
    <2>3. CASE /\ UnusedBatches # {}
               /\ batch' = [batch EXCEPT ![Min(UnusedBatches)] =
                              [status |-> "pending", events |-> {e}]]
               /\ workers' = [workers EXCEPT ![s].pc = "queue",
                                             ![s].into = Min(UnusedBatches)]
      <3>1. Min(UnusedBatches) \in BatchIds
        <4>1. UnusedBatches \in SUBSET Nat /\ UnusedBatches \subseteq BatchIds
          BY TriggersAssumption DEF UnusedBatches
        <4> QED BY <4>1, <2>3, FirstOfNumbers
      <3>2. [status |-> "pending", events |-> {e}] \in Batches
        BY <2>1 DEF Batches
      <3>3. workers' \in [TriggerSlots -> Workers]
        BY ZenonT(30), <2>3, <3>1 DEF Workers
      <3> QED BY <1>8, <2>3, <3>1, <3>2, <3>3 DEF AddToBatch
    <2> QED BY <1>8, <2>2, <2>3 DEF AddToBatch, JoinBatch
  <1>9. ASSUME NEW s \in TriggerSlots, QueueBatch(s)
        PROVE  TypeInv'
    <2>1. BatchWork(workers[s].into) \in TriggerWorks
      BY <1>9 DEF QueueBatch, Workers, TriggerWorks
    <2> QED BY <1>9, <2>1, WorkersSettle DEF QueueBatch
  <1>10. ASSUME NEW s \in TriggerSlots, FireBatch(s)
         PROVE  TypeInv'
    <2> DEFINE b == workers[s].work.arg
    <2>1. b \in BatchIds
      BY <1>10, WorkFacts DEF FireBatch, Runs, Workers
    <2>2. workers' \in [TriggerSlots -> Workers]
      BY <1>10, WorkersSettle DEF FireBatch
    <2>3. batch' \in [BatchIds -> Batches]
      BY <1>10, <2>1 DEF FireBatch, Batches
    <2>4. trigger' \in TriggerRows
      BY <1>10, AfterFireFacts DEF FireBatch
    <2>5. reported' \in [Events -> Nat]
      BY <1>10 DEF FireBatch
    <2> QED BY <1>10, <2>2, <2>3, <2>4, <2>5 DEF FireBatch
  <1>11. ASSUME NEW s \in TriggerSlots, AttemptFails(s) \/ LeaseLost(s)
         PROVE  TypeInv'
    <2>1. workers[s].work \in TriggerWorks
      BY DEF Workers
    <2> QED BY <1>11, <2>1, FreeIsWorker DEF AttemptFails, LeaseLost
  <1>12. ASSUME NEW e \in Events, SystemEvent(e) \/ PushArrives(e)
         PROVE  TypeInv'
    BY <1>12 DEF SystemEvent, PushArrives, TriggerWorks
  <1>13. CASE UpdateReads
    <2>1. PICK max \in {trigger.max, 1}, expires \in {trigger.expires, Never} :
             editor' = [pc |-> "write", next |-> NextFireAt(trigger, clock, zone),
                        max |-> max, expires |-> expires, count |-> trigger.count]
      BY <1>13 DEF UpdateReads
    <2>2. max \in Nat /\ expires \in Nat /\ trigger.count \in Nat
      BY TimesAreNumbers DEF TriggerRows
    <2> QED BY <1>13, <2>1, <2>2, NextLiesAhead DEF UpdateReads, Editors
  <1>14. CASE ZoneChanges
    <2>1. 1 - zone \in {0, 1} /\ trigger.count \in Nat /\ trigger.max \in Nat
          /\ trigger.expires \in Nat
      BY DEF TriggerRows
    <2> QED BY <1>14, <2>1, NextLiesAhead DEF ZoneChanges, Editors
  <1>15. CASE EditWrites
    <2>1. editor.next \in SomeTime /\ editor.max \in Nat /\ editor.expires \in Nat
      BY DEF Editors
    <2>2. [trigger EXCEPT !.next = editor.next, !.max = editor.max,
                          !.expires = editor.expires] \in TriggerRows
      BY <2>1, Zenon DEF TriggerRows
    <2> QED BY <1>15, <2>2, TimesAreNumbers DEF EditWrites, NoEdit, Editors, SomeTime, Times
  <1>16. CASE DeleteTrigger
    <2>1. [trigger EXCEPT !.status = "deleted"] \in TriggerRows
      BY Zenon DEF TriggerRows, Statuses
    <2> QED BY <1>16, <2>1 DEF DeleteTrigger
  <1>17. CASE UNCHANGED triggersVars
    BY <1>17 DEF triggersVars
  <1> QED
    BY <1>1, <1>2, <1>3, <1>4, <1>5, <1>6, <1>7, <1>8, <1>9, <1>10, <1>11, <1>12, <1>13,
       <1>14, <1>15, <1>16, <1>17 DEF TriggersNext, TriggerSlotStep, TriggerHandler

-----------------------------------------------------------------------------
(* Occurrences                                                             *)

\* A job for an occurrence is there once it is due, and a run of it once it was.
OnlyPast ==
    /\ \A at \in Times : FireWork(at) \in asked \/ fired[at] > 0 => at <= clock
    /\ \A s \in TriggerSlots :
          workers[s].work.type = "fire_schedule" => workers[s].work.arg <= clock

\* A fire counts: an edit has not seen more of them than there were.
EditsSeeThePast == editor.pc = "write" => editor.count <= trigger.count

\* The trigger has moved past what it fired, and so does an edit that is not about
\* to write over a fire.
MovesOn ==
    overwrote \/ \A at \in Times :
        /\ fired[at] <= 1
        /\ fired[at] > 0 => /\ at < trigger.next
                            /\ (editor.pc = "write" /\ editor.count = trigger.count)
                                  => at < editor.next

\* An expiry that was noticed is over.
NoticedIsOver == noticed <= 1 /\ (noticed > 0 => trigger.status # "active")

ScheduleInv == OnlyPast /\ EditsSeeThePast /\ MovesOn /\ NoticedIsOver

LEMMA ScheduleBegins == TriggersInit => ScheduleInv
  BY DEF TriggersInit, ScheduleInv, OnlyPast, EditsSeeThePast, MovesOn, NoticedIsOver, NoEdit, Free,
      ExpireWork

\* What frees a slot leaves the jobs' occurrences past ones.
LEMMA SettledIsPast ==
    ASSUME TypeInv, OnlyPast, NEW s \in TriggerSlots, Settles(s)
    PROVE  \A t \in TriggerSlots :
              workers'[t].work.type = "fire_schedule" => workers'[t].work.arg <= clock
  BY DEF OnlyPast, TypeInv, Settles, Free, ExpireWork

LEMMA FiringMovesOn ==
    ASSUME TypeInv, ScheduleInv, CanFire(trigger, clock),
           trigger' = AfterFire(trigger, clock, zone),
           UNCHANGED <<clock, editor, noticed, overwrote>>,
           fired' = fired \/ \E at \in Times : /\ trigger.next = at /\ at <= clock
                                             /\ fired' = [fired EXCEPT ![at] = @ + 1]
    PROVE  EditsSeeThePast' /\ MovesOn' /\ NoticedIsOver'
           /\ \A at \in Times : fired'[at] > 0 => at <= clock
  <1> USE DEF TypeInv, ScheduleInv
  <1>1. /\ trigger'.count = trigger.count + 1 /\ trigger'.next > clock /\ trigger'.next \in Nat
        /\ trigger.count \in Nat /\ trigger.next \in Nat /\ editor.count \in Nat /\ clock \in Nat
    <2>1. trigger' \in TriggerRows
      BY AfterFireFacts
    <2>2. /\ trigger'.count = trigger.count + 1 /\ trigger'.next > clock
      BY AfterFireFacts
    <2>3. /\ trigger'.next \in SomeTime /\ trigger.next \in SomeTime
          /\ trigger.count \in Nat /\ editor.count \in Nat
      BY <2>1 DEF TriggerRows, Editors
    <2>4. clock \in Nat
      BY TimesAreNumbers
    <2>5. \A n \in SomeTime : n \in Nat
      BY TimesAreNumbers
    <2> HIDE DEF TypeInv, ScheduleInv
    <2> QED BY <2>2, <2>3, <2>4, <2>5
  <1>2. EditsSeeThePast'
    BY <1>1 DEF EditsSeeThePast
  <1>3. NoticedIsOver'
    BY DEF NoticedIsOver, CanFire
  <1>4. ASSUME NEW at \in Times
        PROVE  /\ fired'[at] > 0 => at <= clock /\ at < trigger'.next
               /\ ~ overwrote => fired'[at] <= 1
    <2>1. at \in Nat /\ fired[at] \in Nat
      BY TimesAreNumbers
    <2>2. fired[at] > 0 => at <= clock
      BY DEF OnlyPast
    <2>3. CASE fired'[at] = fired[at]
      BY <1>1, <2>1, <2>2, <2>3 DEF MovesOn
    <2>4. CASE fired'[at] # fired[at]
      <3>1. trigger.next = at /\ at <= clock /\ fired'[at] = fired[at] + 1
        BY <2>4
      <3>2. ~ overwrote => fired[at] = 0
        BY <3>1, <2>1 DEF MovesOn
      <3> QED BY <3>1, <3>2, <2>1, <1>1
    <2> QED BY <2>3, <2>4
  <1>5. editor.pc = "write" => editor.count # trigger'.count
    BY <1>1 DEF EditsSeeThePast
  <1>6. MovesOn'
    BY <1>4, <1>5 DEF MovesOn
  <1> QED BY <1>2, <1>3, <1>4, <1>6

\* A step that only takes work up, hands it on or asks for other work again.
LEMMA WorkOnlyMoves ==
    ASSUME TypeInv, ScheduleInv,
           UNCHANGED <<clock, trigger, editor, fired, noticed, overwrote>>,
           \A at \in Times : FireWork(at) \in asked' =>
               \/ FireWork(at) \in asked
               \/ \E s \in TriggerSlots : workers[s].work = FireWork(at)
               \/ at <= clock,
           \A s \in TriggerSlots :
               \/ workers'[s].work = workers[s].work
               \/ workers'[s].work = ExpireWork
               \/ workers'[s].work \in asked
    PROVE  ScheduleInv'
  <1>1. ASSUME NEW at \in Times, NEW s \in TriggerSlots, workers[s].work = FireWork(at)
        PROVE  at <= clock
    BY <1>1 DEF ScheduleInv, OnlyPast, FireWork
  <1>2. ASSUME NEW s \in TriggerSlots, workers'[s].work.type = "fire_schedule"
        PROVE  workers'[s].work.arg <= clock
    <2>1. CASE workers'[s].work \in asked
      <3>1. workers'[s].work.arg \in Times /\ workers'[s].work = FireWork(workers'[s].work.arg)
        BY <1>2, <2>1, WorkFacts DEF TypeInv
      <3> QED BY <2>1, <3>1 DEF ScheduleInv, OnlyPast
    <2>2. CASE workers'[s].work = workers[s].work
      BY <1>2, <2>2 DEF ScheduleInv, OnlyPast
    <2> QED BY <1>2, <2>1, <2>2 DEF ExpireWork
  <1>3. OnlyPast'
    BY <1>1, <1>2 DEF ScheduleInv, OnlyPast
  <1>4. EditsSeeThePast' /\ MovesOn' /\ NoticedIsOver'
    BY DEF ScheduleInv, EditsSeeThePast, MovesOn, NoticedIsOver
  <1> QED BY <1>3, <1>4 DEF ScheduleInv

\* A slot that settles or goes on has nothing new to do.
LEMMA SlotsMove ==
    ASSUME TypeInv, NEW s \in TriggerSlots, Settles(s) \/ \E pc : Continues(s, pc)
    PROVE  \A t \in TriggerSlots : \/ workers'[t].work = workers[t].work
                                   \/ workers'[t].work = ExpireWork
  BY DEF TypeInv, Settles, Continues, Free, Workers

LEMMA ScheduleLasts ==
    ASSUME TypeInv, ScheduleInv, [TriggersNext]_triggersVars
    PROVE  ScheduleInv'
  <1>1. CASE SchedulerTick
    <2>1. \A at \in Times : FireWork(at) \in TickWorks => at <= clock
      BY DEF TickWorks, IsDue, FireWork, ExpireWork
    <2> QED BY <1>1, <2>1, WorkOnlyMoves DEF SchedulerTick
  <1>2. CASE TimePasses
    <2>1. clock \in Nat /\ clock' = clock + 1 /\ \A at \in Times : at \in Nat
      BY <1>2, TimesAreNumbers DEF TimePasses, TypeInv
    <2>2. ASSUME NEW s \in TriggerSlots, workers[s].work.type = "fire_schedule"
          PROVE  workers[s].work.arg <= clock'
      <3>1. workers[s].work.arg \in Times /\ workers[s].work.arg <= clock
        BY <2>2, WorkFacts DEF TypeInv, Workers, ScheduleInv, OnlyPast
      <3> QED BY <2>1, <3>1
    <2>3. OnlyPast'
      BY <1>2, <2>1, <2>2 DEF TimePasses, ScheduleInv, OnlyPast
    <2> QED BY <1>2, <2>3 DEF TimePasses, ScheduleInv, EditsSeeThePast, MovesOn, NoticedIsOver
  <1>3. ASSUME NEW s \in TriggerSlots, NEW w \in asked, LeaseWork(s, w)
        PROVE  ScheduleInv'
    <2>1. \A t \in TriggerSlots : workers'[t].work \in {workers[t].work, w}
      BY <1>3 DEF LeaseWork, TypeInv
    <2> QED BY <1>3, <2>1, WorkOnlyMoves DEF LeaseWork
  <1>4. ASSUME NEW s \in TriggerSlots, FireSchedule(s)
        PROVE  ScheduleInv'
    <2> DEFINE at == workers[s].work.arg
    <2>1. CASE ~ MayFire(at)
      BY <1>4, <2>1, SlotsMove, WorkOnlyMoves DEF FireSchedule
    <2>2. CASE MayFire(at)
      <3>1. workers[s].work.type = "fire_schedule"
        BY <1>4 DEF FireSchedule, Runs
      <3>2. at \in Times /\ at <= clock
        BY <3>1, WorkFacts DEF TypeInv, Workers, ScheduleInv, OnlyPast
      <3>3. /\ CanFire(trigger, clock) /\ trigger.next = at
            /\ trigger' = AfterFire(trigger, clock, zone)
            /\ fired' = [fired EXCEPT ![at] = @ + 1]
            /\ UNCHANGED <<clock, editor, noticed, overwrote, asked>>
        BY <1>4, <2>2 DEF FireSchedule, MayFire
      <3>4. /\ EditsSeeThePast' /\ MovesOn' /\ NoticedIsOver'
            /\ \A other \in Times : fired'[other] > 0 => other <= clock
        BY <3>2, <3>3, FiringMovesOn
      <3>5. OnlyPast'
        BY <1>4, <3>3, <3>4, SettledIsPast DEF FireSchedule, ScheduleInv, OnlyPast
      <3> QED BY <3>4, <3>5 DEF ScheduleInv
    <2> QED BY <2>1, <2>2
  <1>5. ASSUME NEW s \in TriggerSlots, FireBatch(s)
        PROVE  ScheduleInv'
    <2>1. CASE trigger' = trigger
      BY <1>5, <2>1, SlotsMove, WorkOnlyMoves DEF FireBatch
    <2>2. CASE trigger' # trigger
      <3>1. /\ CanFire(trigger, clock)
            /\ trigger' = AfterFire(trigger, clock, zone)
            /\ UNCHANGED <<fired, clock, editor, noticed, overwrote, asked>>
        BY <1>5, <2>2 DEF FireBatch
      <3>2. /\ EditsSeeThePast' /\ MovesOn' /\ NoticedIsOver'
            /\ \A at \in Times : fired'[at] > 0 => at <= clock
        BY <3>1, FiringMovesOn
      <3>3. OnlyPast'
        BY <1>5, <3>1, <3>2, SettledIsPast DEF FireBatch, ScheduleInv, OnlyPast
      <3> QED BY <3>2, <3>3 DEF ScheduleInv
    <2> QED BY <2>1, <2>2
  <1>6. ASSUME NEW s \in TriggerSlots, ExpireTrigger(s)
        PROVE  ScheduleInv'
    <2>1. CASE ~ Expires(trigger, clock)
      BY <1>6, <2>1, SlotsMove, WorkOnlyMoves DEF ExpireTrigger
    <2>2. CASE Expires(trigger, clock)
      <3>1. /\ trigger' = Expired(trigger)
            /\ noticed' = noticed \/ noticed' = noticed + 1
            /\ UNCHANGED <<clock, asked, fired, editor, overwrote>>
        BY <1>6, <2>2 DEF ExpireTrigger, TypeInv
      <3>2. /\ trigger'.status = "expired" /\ trigger'.next = Never
            /\ trigger'.count = trigger.count
        BY <3>1 DEF Expired, TypeInv, TriggerRows
      <3>3. NoticedIsOver'
        BY <2>2, <3>1, <3>2 DEF ScheduleInv, NoticedIsOver, Expires, TypeInv
      <3>4. MovesOn' /\ EditsSeeThePast'
        BY <3>1, <3>2, TimesAreNumbers DEF ScheduleInv, MovesOn, EditsSeeThePast
      <3>5. OnlyPast'
        BY <1>6, <3>1, SettledIsPast DEF ExpireTrigger, ScheduleInv, OnlyPast
      <3> QED BY <3>3, <3>4, <3>5 DEF ScheduleInv
    <2> QED BY <2>1, <2>2
  <1>7. ASSUME NEW s \in TriggerSlots, StoreEvent(s) \/ MatchEvent(s)
        PROVE  ScheduleInv'
    <2>1. Settles(s) \/ \E pc : Continues(s, pc)
      BY <1>7 DEF StoreEvent, MatchEvent
    <2> QED BY <1>7, <2>1, SlotsMove, WorkOnlyMoves DEF StoreEvent, MatchEvent
  <1>8. ASSUME NEW s \in TriggerSlots, AddToBatch(s)
        PROVE  ScheduleInv'
    <2>1. \A t \in TriggerSlots : workers'[t].work \in {workers[t].work, ExpireWork}
      BY <1>8, SlotsMove DEF AddToBatch, JoinBatch, TypeInv, Workers
    <2> QED BY <1>8, <2>1, WorkOnlyMoves DEF AddToBatch
  <1>9. ASSUME NEW s \in TriggerSlots, QueueBatch(s)
        PROVE  ScheduleInv'
    <2>1. \A at \in Times : FireWork(at) # BatchWork(workers[s].into)
      BY DEF FireWork, BatchWork
    <2> QED BY <1>9, <2>1, SlotsMove, WorkOnlyMoves DEF QueueBatch
  <1>10. ASSUME NEW s \in TriggerSlots, AttemptFails(s) \/ LeaseLost(s)
         PROVE  ScheduleInv'
    <2>1. \A t \in TriggerSlots : workers'[t].work \in {workers[t].work, ExpireWork}
      BY <1>10 DEF AttemptFails, LeaseLost, Free, TypeInv
    <2> QED BY <1>10, <2>1, WorkOnlyMoves DEF AttemptFails, LeaseLost
  <1>11. ASSUME NEW e \in Events, SystemEvent(e) \/ PushArrives(e)
         PROVE  ScheduleInv'
    <2>1. \A at \in Times : FireWork(at) \notin {MatchWork(e), SyncWork(e)}
      BY DEF FireWork, MatchWork, SyncWork
    <2> QED BY <1>11, <2>1, WorkOnlyMoves DEF SystemEvent, PushArrives
  <1>12. CASE UpdateReads \/ ZoneChanges
    <2>1. PICK z : editor'.next = NextFireAt(trigger, clock, z)
      BY <1>12 DEF UpdateReads, ZoneChanges
    <2>2. editor'.next \in Nat /\ editor'.next > clock /\ editor'.count = trigger.count
      <3>1. editor'.next \in SomeTime /\ editor'.next > clock
        BY <2>1, NextLiesAhead DEF TypeInv
      <3>2. editor'.count = trigger.count
        BY <1>12 DEF UpdateReads, ZoneChanges
      <3> QED BY <3>1, <3>2, TimesAreNumbers
    <2>3. UNCHANGED <<clock, asked, workers, trigger, fired, noticed, overwrote>>
      BY <1>12 DEF UpdateReads, ZoneChanges
    <2>4. EditsSeeThePast'
      BY <2>2, <2>3 DEF EditsSeeThePast, TypeInv, TriggerRows
    <2>5. ASSUME NEW at \in Times, fired[at] > 0
          PROVE  at < editor'.next
      <3>1. at \in Nat /\ clock \in Nat /\ at <= clock
        BY <2>5, TimesAreNumbers DEF ScheduleInv, OnlyPast, TypeInv
      <3> QED BY <2>2, <3>1
    <2>6. MovesOn'
      BY <2>3, <2>5 DEF ScheduleInv, MovesOn
    <2> QED BY <2>3, <2>4, <2>6 DEF ScheduleInv, OnlyPast, NoticedIsOver
  <1>13. CASE EditWrites
    <2>1. /\ editor.pc = "write" /\ editor'.pc = "none"
          /\ trigger'.next = editor.next /\ trigger'.status = trigger.status
          /\ overwrote' <=> overwrote \/ trigger.count # editor.count
          /\ UNCHANGED <<clock, asked, workers, fired, noticed>>
      BY <1>13 DEF EditWrites, NoEdit, TypeInv, TriggerRows
    <2>2. MovesOn'
      BY <2>1 DEF ScheduleInv, MovesOn
    <2> QED BY <2>1, <2>2 DEF ScheduleInv, OnlyPast, EditsSeeThePast, NoticedIsOver
  <1>14. CASE DeleteTrigger
    <2>1. /\ trigger'.status = "deleted" /\ trigger'.next = trigger.next
          /\ trigger'.count = trigger.count
          /\ UNCHANGED <<clock, asked, workers, fired, editor, noticed, overwrote>>
      BY <1>14 DEF DeleteTrigger, TypeInv, TriggerRows
    <2> QED BY <2>1 DEF ScheduleInv, OnlyPast, EditsSeeThePast, MovesOn, NoticedIsOver
  <1>15. CASE UNCHANGED triggersVars
    BY <1>15 DEF triggersVars, ScheduleInv, OnlyPast, EditsSeeThePast, MovesOn, NoticedIsOver
  <1> QED
    BY <1>1, <1>2, <1>3, <1>4, <1>5, <1>6, <1>7, <1>8, <1>9, <1>10, <1>11, <1>12, <1>13,
       <1>14, <1>15 DEF TriggersNext, TriggerSlotStep, TriggerHandler

\* In every behaviour an occurrence starts one run at most, and so does the expiry
\* (startTriggerRun under the trigger's row lock; trigger-run.ts).
THEOREM FiresOnce == TriggersSpec => []OccurrenceOnce
  <1>1. TypeInv /\ ScheduleInv => OccurrenceOnce
    BY DEF ScheduleInv, MovesOn, NoticedIsOver, OccurrenceOnce
  <1> QED
    BY TypesBegin, TypesLast, ScheduleBegins, ScheduleLasts, <1>1, PTL DEF TriggersSpec

-----------------------------------------------------------------------------
(* Events                                                                  *)

\* Where an event is on its way to a run: its job waits, a slot matches it, a batch
\* that waits holds it.
Waits(e) == MatchWork(e) \in asked
InHand(s, e) == workers[s].pc \in {"match", "add"} /\ workers[s].work.arg = e
InBatch(b, e) == batch[b].status = "pending" /\ e \in batch[b].events

\* Only what is stored is on its way.
StoredFirst ==
    /\ \A e \in Events : Waits(e) \/ reported[e] > 0 => e \in stored
    /\ \A s \in TriggerSlots :
          /\ workers[s].pc \in {"match", "add"} => workers[s].work.arg \in stored
          /\ workers[s].work.type = "match_events" => workers[s].work.arg \in stored
    /\ \A b \in BatchIds : batch[b].events \subseteq stored

\* An event is in one place at most, until it is matched again; one that a run has
\* reported is in none.
OnePlace(e) ==
    /\ \A s, t \in TriggerSlots : InHand(s, e) /\ InHand(t, e) => s = t
    /\ \A b, c \in BatchIds : InBatch(b, e) /\ InBatch(c, e) => b = c
    /\ \A s \in TriggerSlots : InHand(s, e) =>
          ~ Waits(e) /\ reported[e] = 0 /\ \A b \in BatchIds : ~ InBatch(b, e)
    /\ \A b \in BatchIds : InBatch(b, e) => ~ Waits(e) /\ reported[e] = 0
    /\ Waits(e) => reported[e] = 0
    /\ reported[e] <= 1

EventInv ==
    /\ StoredFirst
    /\ \A e \in Events \ rematched : OnePlace(e)
    /\ EventTracked

\* EventTracked, said of one event.
Tracked(e) ==
    e \in stored \ dropped =>
        \/ reported[e] > 0 \/ Waits(e)
        \/ \E s \in TriggerSlots : InHand(s, e)
        \/ \E b \in BatchIds : InBatch(b, e)

LEMMA TrackedMeans ==
    TypeInv => (EventTracked <=> \A e \in Events : Tracked(e))
  BY DEF TypeInv, EventTracked, Tracked, Waits, InHand, InBatch, Pending

LEMMA EventsBegin == TriggersInit => EventInv
  BY DEF TriggersInit, EventInv, StoredFirst, OnePlace, Waits, InHand, InBatch, EventTracked, Free,
      ExpireWork

\* A step that keeps every event where it is, or takes it off its way.
LEMMA EventsStay ==
    ASSUME TypeInv, EventInv,
           UNCHANGED <<stored, reported>>,
           dropped \subseteq dropped', rematched \subseteq rematched',
           \A b \in BatchIds : batch'[b].events = batch[b].events
                             /\ batch'[b].status = batch[b].status,
           \A e \in Events : MatchWork(e) \in asked' <=> MatchWork(e) \in asked,
           \A s \in TriggerSlots :
               \/ /\ workers'[s].work = workers[s].work
                  /\ workers'[s].pc \in {"match", "add"} <=> workers[s].pc \in {"match", "add"}
               \/ /\ workers'[s].pc \notin {"match", "add"}
                  /\ workers'[s].work.type # "match_events"
                  /\ workers[s].pc \in {"match", "add"} => workers[s].work.arg \in dropped'
    PROVE  EventInv'
  <1>1. \A e \in Events : Waits(e)' <=> Waits(e)
    BY DEF Waits
  <1>2. \A e : \A b \in BatchIds : InBatch(b, e)' <=> InBatch(b, e)
    BY DEF InBatch
  <1>3. \A e : \A s \in TriggerSlots : InHand(s, e)' => InHand(s, e)
    BY DEF InHand
  <1>4. StoredFirst'
    BY <1>1 DEF EventInv, StoredFirst
  <1>5. ASSUME NEW e \in Events, e \notin rematched'
        PROVE  OnePlace(e)'
    BY <1>1, <1>2, <1>3, <1>5 DEF EventInv, OnePlace
  <1>6. ASSUME NEW e \in stored', e \notin dropped', reported'[e] <= 0
        PROVE  \/ MatchWork(e) \in asked'
               \/ \E s \in TriggerSlots : InHand(s, e)'
               \/ \E b \in BatchIds : InBatch(b, e)'
    <2>1. \/ MatchWork(e) \in asked
          \/ \E s \in TriggerSlots : InHand(s, e)
          \/ \E b \in BatchIds : InBatch(b, e)
      BY <1>6 DEF EventInv, EventTracked, InHand, InBatch, Pending, TypeInv
    <2>2. ASSUME NEW s \in TriggerSlots, InHand(s, e)
          PROVE  InHand(s, e)'
      BY <1>6, <2>2 DEF InHand
    <2>3. e \in Events
      BY <1>6 DEF TypeInv
    <2> QED BY <2>1, <2>2, <2>3, <1>2
  <1>7. EventTracked'
    BY <1>6 DEF EventTracked, InHand, InBatch, Pending, TypeInv
  <1> QED BY <1>4, <1>5, <1>7 DEF EventInv

\* An event that a step leaves where it is.
LEMMA EventStays ==
    ASSUME TypeInv, EventInv, NEW e \in Events,
           Waits(e)' <=> Waits(e), reported'[e] = reported[e],
           \A b \in BatchIds : InBatch(b, e)' <=> InBatch(b, e),
           \A s \in TriggerSlots : InHand(s, e)' <=> InHand(s, e),
           e \in stored' => e \in stored, dropped \subseteq dropped',
           rematched \subseteq rematched'
    PROVE  /\ e \notin rematched' => OnePlace(e)'
           /\ Tracked(e)'
  <1>1. e \notin rematched' => OnePlace(e)'
    BY DEF EventInv, OnePlace
  <1>2. Tracked(e)
    BY TrackedMeans DEF EventInv
  <1>3. Tracked(e)'
    BY <1>2 DEF Tracked
  <1> QED BY <1>1, <1>3

\* What is left to show of a step: each event's place, and what is stored.
LEMMA PlacesMakeInv ==
    ASSUME TypeInv', StoredFirst',
           \A e \in Events : (e \notin rematched' => OnePlace(e)') /\ Tracked(e)'
    PROVE  EventInv'
  <1>1. EventTracked'
    BY DEF TypeInv, EventTracked, Tracked, Waits, InHand, InBatch, Pending
  <1> QED BY <1>1 DEF EventInv

LEMMA EventsLast ==
    ASSUME TypeInv, EventInv, [TriggersNext]_triggersVars
    PROVE  EventInv'
  <1>1. CASE SchedulerTick
    <2>1. \A e \in Events : MatchWork(e) \notin TickWorks
      BY DEF TickWorks, FireWork, ExpireWork, MatchWork
    <2> QED BY <1>1, <2>1, EventsStay DEF SchedulerTick
  <1>2. CASE TimePasses \/ UpdateReads \/ ZoneChanges \/ EditWrites \/ DeleteTrigger
             \/ UNCHANGED triggersVars
    BY <1>2, EventsStay
    DEF TimePasses, UpdateReads, ZoneChanges, EditWrites, DeleteTrigger, triggersVars
  <1>3. ASSUME NEW s \in TriggerSlots, NEW w \in asked, LeaseWork(s, w)
        PROVE  EventInv'
    <2>1. CASE w.type # "match_events"
      <3>1. \A e \in Events : MatchWork(e) # w
        BY <2>1 DEF MatchWork
      <3>2. \A t \in TriggerSlots :
               \/ workers'[t] = workers[t]
               \/ /\ workers'[t].pc = "begin" /\ workers'[t].work = w /\ workers[t].pc = "free"
        BY <1>3, <2>1 DEF LeaseWork, TypeInv
      <3> QED BY <1>3, <2>1, <3>1, <3>2, EventsStay DEF LeaseWork
    <2>2. CASE w.type = "match_events"
      <3>1. PICK e \in Events : w = MatchWork(e)
        BY <2>2, WorkFacts DEF TypeInv
      <3>2. /\ workers'[s].pc = "match" /\ workers'[s].work = w /\ workers[s].pc = "free"
            /\ \A t \in TriggerSlots : t # s => workers'[t] = workers[t]
            /\ Waits(e) /\ asked' = asked \ {MatchWork(e)} /\ w.arg = e
            /\ UNCHANGED <<batch, stored, reported, dropped, rematched>>
        BY <1>3, <2>2, <3>1 DEF LeaseWork, TypeInv, Waits, MatchWork
      <3>3. ASSUME NEW f \in Events, f # e
            PROVE  /\ f \notin rematched' => OnePlace(f)'
                   /\ Tracked(f)'
        <4>1. Waits(f)' <=> Waits(f)
          BY <3>2, <3>3 DEF Waits, MatchWork
        <4>2. \A t \in TriggerSlots : InHand(t, f)' <=> InHand(t, f)
          BY <3>2, <3>3 DEF InHand
        <4> QED BY <3>2, <4>1, <4>2, EventStays DEF InBatch
      <3>4. e \notin rematched' => OnePlace(e)'
        <4>1. ~ Waits(e)'
          BY <3>2 DEF Waits
        <4>2. InHand(s, e)' /\ \A t \in TriggerSlots : t # s => (InHand(t, e)' <=> InHand(t, e))
          BY <3>2 DEF InHand
        <4>3. \A b \in BatchIds : InBatch(b, e)' <=> InBatch(b, e)
          BY <3>2 DEF InBatch
        <4> QED BY <3>2, <4>1, <4>2, <4>3 DEF EventInv, OnePlace
      <3>5. Tracked(e)'
        BY <3>2 DEF Tracked, InHand
      <3>6. StoredFirst'
        <4>1. e \in stored
          BY <3>2 DEF EventInv, StoredFirst
        <4> QED BY <3>2, <4>1 DEF EventInv, StoredFirst, Waits
      <3> QED BY <3>3, <3>4, <3>5, <3>6, PlacesMakeInv, TypesLast
    <2> QED BY <2>1, <2>2
  <1>4. ASSUME NEW s \in TriggerSlots, FireSchedule(s) \/ ExpireTrigger(s) \/ QueueBatch(s)
        PROVE  EventInv'
    <2>1. /\ workers[s].pc \notin {"match", "add"} /\ workers' = [workers EXCEPT ![s] = Free]
          /\ \A e \in Events : MatchWork(e) \in asked' <=> MatchWork(e) \in asked
          /\ UNCHANGED <<batch, stored, reported, dropped, rematched>>
      BY <1>4
      DEF FireSchedule, ExpireTrigger, QueueBatch, Runs, Settles, MatchWork, BatchWork
    <2>2. \A t \in TriggerSlots :
             \/ workers'[t] = workers[t]
             \/ /\ workers'[t].pc = "free" /\ workers'[t].work.type = "expire_trigger"
                /\ workers[t].pc \notin {"match", "add"}
      BY <2>1 DEF TypeInv, Free, ExpireWork
    <2> QED BY <2>1, <2>2, EventsStay
  <1>5. ASSUME NEW s \in TriggerSlots, StoreEvent(s)
        PROVE  EventInv'
    <2>0. PICK e : e = workers[s].work.arg
      OBVIOUS
    <2>1. /\ e \in Events /\ workers[s].pc = "begin" /\ workers[s].work.type = "sync_connection"
          /\ stored' = stored \cup {e}
          /\ UNCHANGED <<batch, reported, dropped, rematched, asked>>
      BY <1>5, <2>0, WorkFacts DEF StoreEvent, Runs, TypeInv, Workers
    <2>2. CASE e \in stored
      <3>1. \A t \in TriggerSlots :
               \/ workers'[t] = workers[t]
               \/ /\ workers'[t].pc = "free" /\ workers'[t].work.type = "expire_trigger"
                  /\ workers[t].pc \notin {"match", "add"}
        BY <1>5, <2>0, <2>1, <2>2 DEF StoreEvent, Settles, TypeInv, Free, ExpireWork
      <3> QED BY <2>1, <2>2, <3>1, EventsStay
    <2>3. CASE e \notin stored
      <3>1. /\ workers'[s].pc = "match" /\ workers'[s].work = workers[s].work
            /\ \A t \in TriggerSlots : t # s => workers'[t] = workers[t]
        BY <1>5, <2>0, <2>3 DEF StoreEvent, Continues, TypeInv, Workers
      <3>2. ASSUME NEW f \in Events, f # e
            PROVE  /\ f \notin rematched' => OnePlace(f)'
                   /\ Tracked(f)'
        <4>1. \A t \in TriggerSlots : InHand(t, f)' <=> InHand(t, f)
          BY <2>0, <2>1, <3>1, <3>2 DEF InHand
        <4> QED BY <2>1, <3>2, <4>1, EventStays DEF InBatch, Waits
      <3>3. e \notin rematched' => OnePlace(e)'
        <4>1. ~ Waits(e)' /\ reported'[e] = 0
          BY <2>1, <2>3 DEF Waits, EventInv, StoredFirst, TypeInv
        <4>2. \A b \in BatchIds : ~ InBatch(b, e)'
          BY <2>1, <2>3 DEF InBatch, EventInv, StoredFirst
        <4>3. \A t \in TriggerSlots : InHand(t, e)' => t = s
          BY <2>0, <2>1, <2>3, <3>1 DEF InHand, EventInv, StoredFirst
        <4> QED BY <4>1, <4>2, <4>3 DEF OnePlace
      <3>4. Tracked(e)'
        BY <2>0, <3>1 DEF Tracked, InHand
      <3>5. StoredFirst'
        BY <2>0, <2>1, <3>1 DEF EventInv, StoredFirst, Waits
      <3> QED BY <3>2, <3>3, <3>4, <3>5, PlacesMakeInv, TypesLast
    <2> QED BY <2>2, <2>3
  <1>6. ASSUME NEW s \in TriggerSlots, MatchEvent(s)
        PROVE  EventInv'
    <2>1. \A t \in TriggerSlots :
             \/ /\ workers'[t].work = workers[t].work
                /\ workers'[t].pc \in {"match", "add"} <=> workers[t].pc \in {"match", "add"}
             \/ /\ workers'[t].pc = "free" /\ workers'[t].work.type = "expire_trigger"
                /\ workers[t].work.arg \in dropped'
      BY <1>6 DEF MatchEvent, Settles, Continues, TypeInv, Workers, Free, ExpireWork
    <2> QED BY <1>6, <2>1, EventsStay DEF MatchEvent
  <1>7. ASSUME NEW s \in TriggerSlots, AddToBatch(s)
        PROVE  EventInv'
    <2>0. PICK e : e = workers[s].work.arg
      OBVIOUS
    <2>1. /\ e \in Events /\ InHand(s, e) /\ e \in stored
          /\ UNCHANGED <<stored, reported, dropped, rematched, asked>>
      BY <1>7, <2>0, WorkFacts
      DEF AddToBatch, JoinBatch, InHand, TypeInv, Workers, EventInv, StoredFirst
    <2>2. PICK b \in BatchIds :
             /\ InBatch(b, e)' /\ batch'[b].events \subseteq stored
             /\ \A f \in Events : f # e => (InBatch(b, f)' <=> InBatch(b, f))
             /\ \A c \in BatchIds : c # b => batch'[c] = batch[c]
      <3>1. CASE \E b \in Pending : batch' = [batch EXCEPT ![b].events = @ \cup {e}]
        BY <3>1, <2>1 DEF Pending, InBatch, TypeInv, Batches, EventInv, StoredFirst
      <3>2. CASE /\ Pending = {} /\ UnusedBatches # {}
                 /\ batch' = [batch EXCEPT ![Min(UnusedBatches)] =
                                [status |-> "pending", events |-> {e}]]
        <4>1. Min(UnusedBatches) \in UnusedBatches
          <5>1. UnusedBatches \in SUBSET Nat
            BY TriggersAssumption DEF UnusedBatches
          <5> QED BY <5>1, <3>2, FirstOfNumbers
        <4>2. Min(UnusedBatches) \in BatchIds /\ batch[Min(UnusedBatches)].status = "none"
          BY <4>1 DEF UnusedBatches
        <4> QED BY <3>2, <4>2, <2>1 DEF InBatch, TypeInv
      <3> QED BY <1>7, <2>0, <3>1, <3>2 DEF AddToBatch, JoinBatch
    <2>3. /\ workers'[s].pc \notin {"match", "add"}
          /\ workers'[s].work \in {workers[s].work, ExpireWork}
          /\ \A t \in TriggerSlots : t # s => workers'[t] = workers[t]
      BY <1>7 DEF AddToBatch, JoinBatch, Settles, Free, TypeInv, Workers
    <2>4. ASSUME NEW f \in Events, f # e
          PROVE  /\ f \notin rematched' => OnePlace(f)'
                 /\ Tracked(f)'
      <3>1. \A t \in TriggerSlots : InHand(t, f)' <=> InHand(t, f)
        BY <2>0, <2>1, <2>3, <2>4 DEF InHand
      <3>2. \A c \in BatchIds : InBatch(c, f)' <=> InBatch(c, f)
        BY <2>2, <2>4 DEF InBatch
      <3> QED BY <2>1, <3>1, <3>2, EventStays DEF Waits
    <2>5. e \notin rematched' => OnePlace(e)'
      <3>1. \A t \in TriggerSlots : InHand(t, e)' => t # s /\ InHand(t, e)
        BY <2>3 DEF InHand
      <3>2. \A c \in BatchIds : InBatch(c, e)' => c = b \/ InBatch(c, e)
        BY <2>2 DEF InBatch
      <3>3. Waits(e)' <=> Waits(e)
        BY <2>1 DEF Waits
      <3> QED BY <2>1, <2>2, <3>1, <3>2, <3>3 DEF EventInv, OnePlace
    <2>6. Tracked(e)'
      BY <2>2 DEF Tracked
    <2>7. StoredFirst'
      BY <2>1, <2>2, <2>3 DEF EventInv, StoredFirst, Waits, ExpireWork
    <2> QED BY <2>4, <2>5, <2>6, <2>7, PlacesMakeInv, TypesLast
  <1>8. ASSUME NEW s \in TriggerSlots, FireBatch(s)
        PROVE  EventInv'
    <2>0. PICK b : b = workers[s].work.arg
      OBVIOUS
    <2>1. /\ b \in BatchIds /\ workers[s].pc = "begin" /\ workers' = [workers EXCEPT ![s] = Free]
          /\ UNCHANGED <<stored, rematched, asked>>
      BY <1>8, <2>0, WorkFacts DEF FireBatch, Runs, TypeInv, Workers, Settles
    <2>2. \A t \in TriggerSlots :
             \/ workers'[t] = workers[t]
             \/ /\ workers'[t].pc = "free" /\ workers'[t].work.type = "expire_trigger"
                /\ workers[t].pc \notin {"match", "add"}
      BY <2>1 DEF TypeInv, Free, ExpireWork
    <2>3. CASE ~ MayFireBatch(b)
      BY <1>8, <2>0, <2>1, <2>2, <2>3, EventsStay DEF FireBatch
    <2>4. CASE MayFireBatch(b)
      <3>1. /\ batch[b].status = "pending" /\ batch'[b].status = "fired"
            /\ batch'[b].events = batch[b].events
            /\ \A c \in BatchIds : c # b => batch'[c] = batch[c]
        BY <1>8, <2>0, <2>1, <2>4 DEF FireBatch, MayFireBatch, TypeInv, Batches
      <3>2. \/ /\ \A e \in Events : reported'[e] = IF e \in batch[b].events THEN reported[e] + 1
                                                   ELSE reported[e]
               /\ dropped' = dropped
            \/ /\ reported' = reported /\ dropped' = dropped \cup batch[b].events
        BY <1>8, <2>0, <2>4 DEF FireBatch, TypeInv
      <3>3. \A e \in Events : \A t \in TriggerSlots : InHand(t, e)' <=> InHand(t, e)
        BY <2>1, <2>2 DEF InHand
      <3>4. \A e \in Events : Waits(e)' <=> Waits(e)
        BY <2>1 DEF Waits
      <3>5. ASSUME NEW e \in Events, e \notin batch[b].events
            PROVE  (e \notin rematched' => OnePlace(e)') /\ Tracked(e)'
        <4>1. \A c \in BatchIds : InBatch(c, e)' <=> InBatch(c, e)
          BY <3>1, <3>5 DEF InBatch
        <4>2. reported'[e] = reported[e] /\ dropped \subseteq dropped'
          BY <3>2, <3>5
        <4> QED BY <2>1, <3>3, <3>4, <4>1, <4>2, EventStays
      <3>6. ASSUME NEW e \in Events, e \in batch[b].events
            PROVE  (e \notin rematched' => OnePlace(e)') /\ Tracked(e)'
        <4>1. InBatch(b, e) /\ ~ InBatch(b, e)'
              /\ \A c \in BatchIds : c # b => (InBatch(c, e)' <=> InBatch(c, e))
          BY <3>1, <3>6 DEF InBatch
        <4>2. reported[e] \in Nat /\ reported'[e] \in {reported[e], reported[e] + 1}
          BY <3>2 DEF TypeInv
        <4>3. e \notin rematched => OnePlace(e)'
          <5>1. ASSUME e \notin rematched
                PROVE  /\ reported[e] = 0 /\ ~ Waits(e)
                       /\ \A t \in TriggerSlots : ~ InHand(t, e)
                       /\ \A c \in BatchIds : c # b => ~ InBatch(c, e)
            BY <5>1, <2>1, <4>1 DEF EventInv, OnePlace
          <5> QED BY <2>1, <5>1, <3>3, <3>4, <4>1, <4>2 DEF OnePlace
        <4>4. Tracked(e)'
          BY <3>2, <3>6, <4>2 DEF Tracked
        <4> QED BY <2>1, <4>3, <4>4
      <3>7. StoredFirst'
        <4>1. \A e \in Events : reported'[e] > 0 => e \in stored
          <5>1. ASSUME NEW e \in Events, reported'[e] > 0
                PROVE  e \in stored
            BY <5>1, <2>1, <3>2 DEF EventInv, StoredFirst
          <5> QED BY <5>1
        <4>2. \A c \in BatchIds : batch'[c].events = batch[c].events
          BY <3>1
        <4> QED BY <2>1, <2>2, <3>4, <4>1, <4>2 DEF EventInv, StoredFirst
      <3> QED BY <3>5, <3>6, <3>7, PlacesMakeInv, TypesLast
    <2> QED BY <2>3, <2>4
  <1>9. ASSUME NEW s \in TriggerSlots, AttemptFails(s) \/ LeaseLost(s)
        PROVE  EventInv'
    <2>0. PICK e : e = workers[s].work.arg
      OBVIOUS
    <2>1. /\ \A t \in TriggerSlots :
                \/ workers'[t] = workers[t]
                \/ /\ t = s /\ dropped' = dropped \cup HalfMatched(s)
                   /\ workers'[t].pc = "free" /\ workers'[t].work.type = "expire_trigger"
          /\ asked' = asked \cup {workers[s].work} /\ rematched' = rematched \cup Matching(s)
          /\ dropped \subseteq dropped' /\ UNCHANGED <<batch, stored, reported>>
      BY <1>9 DEF AttemptFails, LeaseLost, TypeInv, Free, ExpireWork
    <2>2. CASE workers[s].work.type # "match_events"
      <3>1. \A f \in Events : MatchWork(f) # workers[s].work
        BY <2>2 DEF MatchWork
      <3>2. workers[s].pc \in {"match", "add"} => HalfMatched(s) = {e}
        BY <2>0, <2>2 DEF HalfMatched, TypeInv, Workers
      <3> QED BY <2>0, <2>1, <3>1, <3>2, EventsStay
    <2>3. CASE workers[s].work.type = "match_events"
      <3>1. e \in Events /\ workers[s].work = MatchWork(e) /\ e \in stored /\ e \in rematched'
        BY <2>0, <2>1, <2>3, WorkFacts DEF TypeInv, Workers, EventInv, StoredFirst, Matching
      <3>2. ASSUME NEW f \in Events, f # e
            PROVE  (f \notin rematched' => OnePlace(f)') /\ Tracked(f)'
        <4>1. \A t \in TriggerSlots : InHand(t, f)' <=> InHand(t, f)
          BY <2>0, <2>1, <3>1, <3>2 DEF InHand
        <4>2. Waits(f)' <=> Waits(f)
          BY <2>1, <3>1, <3>2 DEF Waits, MatchWork
        <4>3. rematched \subseteq rematched' /\ dropped \subseteq dropped'
          BY <2>1
        <4> QED BY <2>1, <4>1, <4>2, <4>3, EventStays DEF InBatch
      <3>3. Tracked(e)'
        BY <2>1, <3>1 DEF Tracked, Waits
      <3>4. StoredFirst'
        <4>1. \A f \in Events : Waits(f)' => f \in stored
          BY <2>1, <3>1 DEF Waits, MatchWork, EventInv, StoredFirst
        <4> QED BY <2>1, <4>1 DEF EventInv, StoredFirst
      <3> QED BY <3>1, <3>2, <3>3, <3>4, PlacesMakeInv, TypesLast
    <2> QED BY <2>2, <2>3
  <1>10. ASSUME NEW e \in Events, SystemEvent(e)
         PROVE  EventInv'
    <2>1. /\ e \notin stored /\ stored' = stored \cup {e} /\ asked' = asked \cup {MatchWork(e)}
          /\ UNCHANGED <<batch, workers, reported, dropped, rematched>>
      BY <1>10 DEF SystemEvent
    <2>2. ASSUME NEW f \in Events, f # e
          PROVE  (f \notin rematched' => OnePlace(f)') /\ Tracked(f)'
      BY <2>1, <2>2, EventStays DEF InHand, InBatch, Waits, MatchWork
    <2>3. OnePlace(e)'
      <3>1. /\ \A t \in TriggerSlots : ~ InHand(t, e)'
            /\ \A b \in BatchIds : ~ InBatch(b, e)'
            /\ reported'[e] = 0
        BY <2>1 DEF InHand, InBatch, EventInv, StoredFirst, TypeInv
      <3> QED BY <3>1 DEF OnePlace
    <2>4. Tracked(e)'
      BY <2>1 DEF Tracked, Waits
    <2>5. StoredFirst'
      BY <2>1 DEF EventInv, StoredFirst, Waits, MatchWork
    <2> QED BY <2>2, <2>3, <2>4, <2>5, PlacesMakeInv, TypesLast
  <1>11. ASSUME NEW e \in Events, PushArrives(e)
         PROVE  EventInv'
    <2>1. \A f \in Events : MatchWork(f) # SyncWork(e)
      BY DEF MatchWork, SyncWork
    <2> QED BY <1>11, <2>1, EventsStay DEF PushArrives
  <1> QED
    BY <1>1, <1>2, <1>3, <1>4, <1>5, <1>6, <1>7, <1>8, <1>9, <1>10, <1>11
    DEF TriggersNext, TriggerSlotStep, TriggerHandler

\* In every behaviour an event of the subscription is on its way until a run reports
\* it, and is in one run at most; except those the code drops or matches again.
THEOREM EventsReachOneRun == TriggersSpec => []EventsFire
  <1>1. TypeInv /\ EventInv => EventsFire
    <2> SUFFICES ASSUME TypeInv, EventInv PROVE EventsFire
      OBVIOUS
    <2>1. EventInOneRun
      BY DEF EventInv, OnePlace, EventInOneRun
    <2> QED BY <2>1 DEF EventInv, EventsFire
  <1> QED
    BY TypesBegin, TypesLast, EventsBegin, EventsLast, <1>1, PTL DEF TriggersSpec

\* The rows, the jobs and what the slots hold are what their types say.
THEOREM TriggersTyped == TriggersSpec => []TriggersTypeOK
  <1>1. TypeInv /\ EventInv => TriggersTypeOK
    BY DEF TypeInv, EventInv, StoredFirst, TriggersTypeOK, TriggerRows, Statuses, SomeTime, Batches,
       Workers
  <1> QED
    BY TypesBegin, TypesLast, EventsBegin, EventsLast, <1>1, PTL DEF TriggersSpec

-----------------------------------------------------------------------------
(* AccountSync: invariants of the writes and of the sync                   *)

DomainVerbs ==
    IF domain = "mail" THEN {"send", "draft", "labels"}
    ELSE IF domain = "calendar" THEN {"create", "move", "split", "delete", "rsvp"}
    ELSE {"edit", "decide", "submit"}
DomainOps ==
    IF domain = "mail" THEN {"send", "draft", "labels", "receive"}
    ELSE IF domain = "calendar" THEN {"create", "move", "delete", "rsvp"}
    ELSE {"memo", "comment", "decide", "submit"}
Changes == [obj : Objects, op : DomainOps, by : {"winston", "user"}]
AuditRows == [action : DomainVerbs, outcome : {"pending", "ok", "error"}, result : Nat]
RequestPoints == {"none", "refused", "previewed", "audit", "call", "done", "failed", "answered", "lost"}
RequestRecords == [verb : DomainVerbs \cup {"none"}, dry : BOOLEAN, pc : RequestPoints, row : Nat,
                   call : Nat, made : SUBSET Nat]
Open == {"call", "done", "failed"}

AccountTypes ==
    /\ domain \in {"mail", "calendar", "ramp"}
    /\ feed \in Seq(Changes) /\ audit \in Seq(AuditRows)
    /\ request \in [Requests -> RequestRecords]

\* A request has its row before its call, and its row is its own.
RequestOk(r) ==
    LET q == request[r] IN
    /\ q.made \subseteq DOMAIN feed /\ q.row \in 0 .. Len(audit)
    /\ q.pc \in {"none", "refused", "previewed", "audit"} => q.made = {} /\ q.row = 0
    /\ q.pc = "audit" => ~q.dry /\ q.verb \in DomainVerbs /\ q.call = 1
    /\ q.pc \in Open => q.row # 0
    /\ q.pc = "call" => q.call \in 1 .. Len(Calls(q.verb))
    /\ q.pc = "done" => q.made # {}
    /\ q.made # {} => q.row # 0
    /\ q.row # 0 =>
          /\ ~q.dry /\ q.verb \in DomainVerbs /\ audit[q.row].action = q.verb
          /\ q.pc \in Open => audit[q.row].outcome = "pending"
          /\ audit[q.row].outcome = "ok" => audit[q.row].result = Max(q.made)

RowsDiffer ==
    \A r, q \in Requests : request[r].row # 0 /\ request[r].row = request[q].row => r = q

\* Each change of Winston's was made by a request, and a row says what it was.
Explained(i) ==
    feed[i].by = "winston" =>
        /\ \E r \in Requests : i \in request[r].made
        /\ feed[i].op = "labels" => ChangedByWinston({"labels"})
        /\ feed[i].op = "delete" => ChangedByWinston({"delete"})
        /\ feed[i].op = "move" => ChangedByWinston({"move", "split"})

\* An object of a calendar begins with its creation, and nothing follows its deletion.
OneLife ==
    domain # "mail" =>
        \A i, j \in DOMAIN feed : i < j /\ feed[i].obj = feed[j].obj =>
            feed[i].op # "delete" /\ feed[j].op # "create"

WritesInv ==
    /\ AccountTypes /\ RowsDiffer /\ OneLife
    /\ \A r \in Requests : RequestOk(r)
    /\ \A i \in DOMAIN feed : Explained(i)

\* What the sync keeps: the content an object had when a change was made to it,
\* and events that say which changes are Winston's.
EventRecords ==
    [kind : {"received", "sent", "labels", "cancelled", "created", "updated"}, at : Nat,
     self : BOOLEAN]
SyncRecords == [pc : {"idle", "known", "read", "describe", "store"}, token : Nat,
                known : [Objects -> Nat], upto : Nat, items : SUBSET Nat,
                found : SUBSET EventRecords, first : BOOLEAN, skipped : SUBSET Nat]

IsContent(o, k, n) ==
    \/ k = 0
    \/ /\ k \in 1 .. n /\ feed[k].obj = o /\ feed[k].op \in {"create", "move"}
       /\ \E i \in 1 .. k : feed[i].obj = o /\ feed[i].op = "create"

Owned(e) ==
    /\ e.at \in DOMAIN feed
    /\ LET cause == IF e.kind = "updated" THEN ContentAt(feed[e.at].obj, e.at) ELSE e.at
       IN  /\ cause \in DOMAIN feed
           /\ feed[cause].by = "winston" /\ e.kind \in {"updated", "cancelled", "labels"} => e.self

SlotOk(t) ==
    /\ t.upto \in 0 .. Len(feed)
    /\ \A o \in Objects : IsContent(o, t.known[o], Len(feed))
    /\ t.pc \in {"describe", "store"} =>
          /\ domain = "mail" => \A i \in t.items : i \in 1 .. Len(feed) /\ IsNews(i)
          /\ domain # "mail" => /\ t.items \subseteq Objects
                                /\ \A o \in Objects : IsContent(o, t.known[o], t.upto)
    /\ \A e \in t.found : Owned(e)

SyncsInv ==
    /\ token \in Nat /\ snapshot \in [Objects -> Nat] /\ events \in SUBSET EventRecords
    /\ sync \in [SyncSlots -> SyncRecords]
    /\ \A o \in Objects : IsContent(o, snapshot[o], Len(feed))
    /\ \A s \in SyncSlots : SlotOk(sync[s])
    /\ \A e \in events : Owned(e)

AccountInv == WritesInv /\ SyncsInv

-----------------------------------------------------------------------------
(* What the operators give                                                 *)

\* A bounded set of numbers that is not empty has a greatest.
LEMMA Greatest ==
    ASSUME NEW n \in Nat, NEW S \in SUBSET (1 .. n), S # {}
    PROVE  Max(S) \in S /\ \A y \in S : Max(S) >= y
  <1> DEFINE under == {k \in 1 .. n : \E y \in S : y >= k}
             m == Cardinality(under)
  <1>1. under \subseteq 1 .. n
    OBVIOUS
  <1>2. IsFiniteSet(under) /\ m \in Nat
    <2> HIDE DEF under
    <2>1. IsFiniteSet(1 .. n)
      BY FS_Interval
    <2> QED
      BY <1>1, <2>1, FS_Subset, FS_CardinalityType
  <1>3. ASSUME NEW k \in under
        PROVE  1 .. k \subseteq under /\ k <= m
    <2>1. 1 .. k \subseteq under
      OBVIOUS
    <2>2. IsFiniteSet(1 .. k) /\ Cardinality(1 .. k) = k
      BY FS_Interval
    <2>3. Cardinality(1 .. k) <= m
      <3> HIDE DEF under
      <3> QED
        BY <1>2, <2>1, FS_Subset
    <2> QED
      BY <2>1, <2>2, <2>3
  <1>4. m \in under
    <2> SUFFICES ASSUME m \notin under
                 PROVE  FALSE
      OBVIOUS
    <2>1. PICK y \in S : TRUE
      OBVIOUS
    <2>2. y \in under
      OBVIOUS
    <2>3. m >= 1
      BY <1>2, <1>3, <2>2
    <2>4. under \subseteq 1 .. (m - 1)
      <3> SUFFICES ASSUME NEW k \in under, k >= m
                   PROVE  FALSE
        BY <1>2, <2>3
      <3>1. m \in 1 .. k
        BY <1>2, <2>3
      <3> QED
        BY <1>3, <3>1
    <2>5. PICK l \in Nat : l = m - 1
      BY <1>2, <2>3
    <2>6. IsFiniteSet(1 .. l) /\ Cardinality(1 .. l) = l
      BY <2>5, FS_Interval
    <2>7. Cardinality(under) <= Cardinality(1 .. l)
      <3> HIDE DEF under
      <3> QED
        BY <2>4, <2>5, <2>6, FS_Subset
    <2> QED
      BY <1>2, <2>5, <2>6, <2>7
  <1>5. PICK top \in S : top >= m
    BY <1>4
  <1>6. \A y \in S : top >= y
    <2> SUFFICES ASSUME NEW y \in S
                 PROVE  top >= y
      OBVIOUS
    <2>1. y \in under
      OBVIOUS
    <2> QED
      BY <1>2, <1>3, <1>5, <2>1
  <1> QED
    BY <1>5, <1>6 DEF Max

LEMMA GreatestFromZero ==
    ASSUME NEW n \in Nat, NEW S \in SUBSET (0 .. n), S # {}
    PROVE  Max(S) \in S /\ \A y \in S : Max(S) >= y
  <1>1. CASE S \ {0} = {}
    <2>1. S = {0}
      BY <1>1
    <2>2. 0 \in S /\ \A y \in S : 0 >= y
      BY <2>1
    <2>3. \E x \in S : \A y \in S : x >= y
      BY <2>2
    <2> QED
      BY <2>3 DEF Max
  <1>2. CASE S \ {0} # {}
    <2> DEFINE T == S \ {0}
    <2>1. T \in SUBSET (1 .. n) /\ T # {}
      BY <1>2
    <2>2. Max(T) \in T /\ \A y \in T : Max(T) >= y
      <3> HIDE DEF T
      <3> QED
        BY <2>1, Greatest
    <2>3. \E x \in S : \A y \in S : x >= y
      <3>1. PICK top \in T : \A y \in T : top >= y
        BY <2>2
      <3>2. top \in S /\ top >= 0
        BY <2>1
      <3>3. \A y \in S : top >= y
        BY <3>1, <3>2
      <3> QED
        BY <3>2, <3>3
    <2> QED
      BY <2>3 DEF Max
  <1> QED
    BY <1>1, <1>2

LEMMA CallFacts ==
    ASSUME NEW verb \in DomainVerbs, domain \in {"mail", "calendar", "ramp"}
    PROVE  /\ Len(Calls(verb)) \in Nat \ {0}
           /\ \A k \in 1 .. Len(Calls(verb)) :
                 LET call == Calls(verb)[k] IN
                 /\ call.obj \in Objects /\ call.op \in DomainOps
                 /\ call.op = "labels" => verb = "labels"
                 /\ call.op = "delete" => verb = "delete"
                 /\ call.op = "move" => verb \in {"move", "split"}
  <1>1. One(verb) = <<[obj |-> 1, op |-> verb]>>
    BY DEF One
  <1>2. CASE domain = "mail"
    BY <1>1, <1>2 DEF Calls, MailCalls, DomainVerbs, DomainOps, Objects
  <1>3. CASE domain = "calendar" /\ verb = "split"
    BY <1>3 DEF Calls, CalendarCalls, DomainVerbs, DomainOps, Objects
  <1>4. CASE domain = "calendar" /\ verb # "split"
    BY <1>1, <1>4 DEF Calls, CalendarCalls, DomainVerbs, DomainOps, Objects
  <1>5. CASE domain = "ramp" /\ verb = "edit"
    <2>1. Calls(verb) = One("memo") \o One("comment")
      BY <1>5 DEF Calls, RampCalls
    <2>2. /\ One("memo") = <<[obj |-> 1, op |-> "memo"]>>
          /\ One("comment") = <<[obj |-> 1, op |-> "comment"]>>
      BY DEF One
    <2>3. PICK x, y : x = [obj |-> 1, op |-> "memo"] /\ y = [obj |-> 1, op |-> "comment"]
      OBVIOUS
    <2>4. /\ Len(Calls(verb)) = 2
          /\ Calls(verb)[1] = [obj |-> 1, op |-> "memo"]
          /\ Calls(verb)[2] = [obj |-> 1, op |-> "comment"]
      <3>1. <<x>> \in Seq({x, y}) /\ <<y>> \in Seq({x, y}) /\ Len(<<x>>) = 1 /\ Len(<<y>>) = 1
        OBVIOUS
      <3>2. Len(<<x>> \o <<y>>) = 2 /\ (<<x>> \o <<y>>)[1] = x /\ (<<x>> \o <<y>>)[2] = y
        BY <3>1, ConcatProperties
      <3> QED
        BY <2>1, <2>2, <2>3, <3>2
    <2>5. \A k \in 1 .. Len(Calls(verb)) : k = 1 \/ k = 2
      BY <2>4
    <2>6. {"memo", "comment"} \subseteq DomainOps
      BY <1>5 DEF DomainOps
    <2> QED
      BY <2>4, <2>5, <2>6 DEF Objects
  <1>6. CASE domain = "ramp" /\ verb # "edit"
    BY <1>1, <1>6 DEF Calls, RampCalls, DomainVerbs, DomainOps, Objects
  <1> QED
    BY <1>2, <1>3, <1>4, <1>5, <1>6

\* The content of an object is the last of its creation and its moves, while no
\* deletion is among them.
LEMMA ContentFacts ==
    ASSUME AccountTypes, NEW o \in Objects, NEW n \in 0 .. Len(feed)
    PROVE  /\ ContentAt(o, n) \in 0 .. n
           /\ ContentAt(o, n) # 0 =>
                 /\ feed[ContentAt(o, n)].obj = o
                 /\ feed[ContentAt(o, n)].op \in {"create", "move"}
                 /\ \E i \in 1 .. n : feed[i].obj = o /\ feed[i].op = "create"
                 /\ \A i \in 1 .. n : feed[i].obj = o =>
                       /\ feed[i].op # "delete"
                       /\ feed[i].op \in {"create", "move"} => i <= ContentAt(o, n)
           /\ ContentAt(o, n) = 0 =>
                 \/ \A i \in 1 .. n : feed[i].obj = o => feed[i].op # "create"
                 \/ \E i \in 1 .. n : feed[i].obj = o /\ feed[i].op = "delete"
  <1> DEFINE made == {i \in 1 .. n : feed[i].obj = o /\ feed[i].op \in {"create"}}
             gone == {i \in 1 .. n : feed[i].obj = o /\ feed[i].op \in {"delete"}}
             set == {i \in 1 .. n : feed[i].obj = o /\ feed[i].op \in {"create", "move"}}
  <1>1. n \in Nat /\ set \in SUBSET (1 .. n)
    BY DEF AccountTypes
  <1>2. ContentAt(o, n) = IF made = {} \/ gone # {} THEN 0 ELSE Max(set)
    BY DEF ContentAt
  <1>3. CASE made = {} \/ gone # {}
    BY <1>1, <1>2, <1>3
  <1>4. CASE ~(made = {} \/ gone # {})
    <2>1. set # {}
      BY <1>4
    <2>2. Max(set) \in set /\ \A y \in set : Max(set) >= y
      <3> HIDE DEF set
      <3> QED
        BY <1>1, <2>1, Greatest
    <2>3. ContentAt(o, n) = Max(set)
      BY <1>2, <1>4
    <2> HIDE DEF set
    <2>4. ContentAt(o, n) \in 1 .. n /\ ContentAt(o, n) \in set
      BY <1>1, <2>2, <2>3
    <2>5. \A i \in 1 .. n : i \in set => i <= ContentAt(o, n)
      BY <1>1, <2>2, <2>3
    <2> QED
      BY <1>1, <1>4, <2>4, <2>5 DEF set
  <1> QED
    BY <1>3, <1>4

LEMMA LastFacts ==
    ASSUME AccountTypes, NEW o \in Objects, NEW n \in 0 .. Len(feed)
    PROVE  /\ LastChange(o, n) \in 0 .. n
           /\ LastChange(o, n) # 0 => feed[LastChange(o, n)].obj = o
           /\ \A i \in 1 .. n : feed[i].obj = o => i <= LastChange(o, n)
  <1> DEFINE set == {i \in 1 .. n : feed[i].obj = o} \cup {0}
  <1>1. n \in Nat /\ set \in SUBSET (0 .. n) /\ set # {}
    BY DEF AccountTypes
  <1>2. LastChange(o, n) = Max(set)
    BY DEF LastChange
  <1>3. Max(set) \in set /\ \A y \in set : Max(set) >= y
    <2> HIDE DEF set
    <2> QED
      BY <1>1, GreatestFromZero
  <1>4. Max(set) \in 0 .. n
    BY <1>1, <1>3
  <1> QED
    BY <1>1, <1>2, <1>3, <1>4

\* What has happened stays as it happened.
LEMMA FeedGrows ==
    ASSUME AccountTypes, AccountTypes', UNCHANGED domain, Len(feed) <= Len(feed'),
           \A i \in DOMAIN feed : feed'[i] = feed[i],
           NEW o \in Objects, NEW n \in 0 .. Len(feed)
    PROVE  /\ ContentAt(o, n)' = ContentAt(o, n)
           /\ LastChange(o, n)' = LastChange(o, n)
  <1>1. \A i \in 1 .. n : feed'[i] = feed[i]
    BY DEF AccountTypes
  <1>2. ASSUME NEW ops
        PROVE  {i \in 1 .. n : feed'[i].obj = o /\ feed'[i].op \in ops}
                    = {i \in 1 .. n : feed[i].obj = o /\ feed[i].op \in ops}
    BY <1>1
  <1>3. {i \in 1 .. n : feed'[i].obj = o} = {i \in 1 .. n : feed[i].obj = o}
    BY <1>1
  <1> QED
    BY <1>2, <1>3 DEF ContentAt, LastChange

-----------------------------------------------------------------------------
(* The writes                                                              *)

\* What was explained stays so.
LEMMA ActionsStay ==
    ASSUME AccountTypes, AccountTypes', Len(audit) <= Len(audit'),
           \A k \in DOMAIN audit : audit'[k].action = audit[k].action,
           NEW actions, ChangedByWinston(actions)
    PROVE  ChangedByWinston(actions)'
  <1>1. PICK k \in DOMAIN audit : audit[k].action \in actions
    BY DEF ChangedByWinston
  <1>2. k \in DOMAIN audit'
    BY DEF AccountTypes
  <1>3. audit'[k].action \in actions
    BY <1>1
  <1> QED
    BY <1>2, <1>3 DEF ChangedByWinston

\* What a call amounts to does not change.
LEMMA CallsStay ==
    ASSUME UNCHANGED domain, NEW verb
    PROVE  Calls(verb)' = Calls(verb)
  BY DEF Calls, MailCalls, CalendarCalls, RampCalls, One

\* The first change of an object is its creation, and a deletion its last.
LEMMA LifeGoesOn ==
    ASSUME AccountTypes, OneLife, UNCHANGED domain,
           NEW c \in Changes, feed' = Append(feed, c),
           c.op \in {"move", "delete", "rsvp"} => Exists(c.obj),
           c.op = "create" => Fresh(c.obj)
    PROVE  OneLife'
  <1> SUFFICES ASSUME domain # "mail", NEW i \in DOMAIN feed', NEW j \in DOMAIN feed', i < j,
                      feed'[i].obj = feed'[j].obj
               PROVE  feed'[i].op # "delete" /\ feed'[j].op # "create"
    BY DEF OneLife
  <1>1. /\ Len(feed') = Len(feed) + 1 /\ feed'[Len(feed) + 1] = c
        /\ \A k \in 1 .. Len(feed) : feed'[k] = feed[k]
        /\ DOMAIN feed = 1 .. Len(feed) /\ DOMAIN feed' = 1 .. Len(feed')
        /\ Len(feed) \in Nat
    BY DEF AccountTypes
  <1>2. i \in 1 .. Len(feed) /\ feed'[i] = feed[i]
    BY <1>1
  <1>3. CASE j \in 1 .. Len(feed)
    BY <1>1, <1>2, <1>3 DEF OneLife
  <1>4. CASE j = Len(feed) + 1
    <2>1. feed'[j] = c /\ c.obj \in Objects /\ c.op \in DomainOps /\ feed[i].op \in DomainOps
      <3>1. feed[i] \in Changes
        BY <1>1, <1>2 DEF AccountTypes
      <3>2. feed'[j] = c
        BY <1>1, <1>4
      <3> QED
        BY <3>1, <3>2 DEF Changes
    <2>2. CASE domain = "calendar"
      <3>1. c.op # "create"
        BY <1>1, <1>2, <2>1 DEF Fresh
      <3>2. ContentAt(c.obj, Len(feed)) # 0
        BY <2>1, <2>2, <3>1 DEF DomainOps, Exists
      <3>3. feed[i].op # "delete"
        BY <1>1, <1>2, <2>1, <3>2, ContentFacts
      <3> QED
        BY <1>2, <2>1, <3>1, <3>3
    <2>3. CASE domain # "calendar"
      BY <1>2, <2>1, <2>3 DEF DomainOps
    <2> QED
      BY <2>2, <2>3
  <1> QED
    BY <1>1, <1>3, <1>4

\* A request that moves touches its own row only, and adds to the feed what it explains.
LEMMA RequestMoves ==
    ASSUME WritesInv, AccountTypes', OneLife', UNCHANGED domain, NEW r \in Requests,
           \A q \in Requests \ {r} : request'[q] = request[q],
           Len(feed) <= Len(feed'), \A i \in DOMAIN feed : feed'[i] = feed[i],
           Len(audit) <= Len(audit'),
           \A k \in DOMAIN audit : audit'[k].action = audit[k].action,
           \A k \in DOMAIN audit : k # request[r].row => audit'[k] = audit[k],
           request'[r].row = request[r].row \/ request'[r].row = Len(audit) + 1,
           request[r].made \subseteq request'[r].made,
           RequestOk(r)',
           \A i \in DOMAIN feed' \ DOMAIN feed : Explained(i)'
    PROVE  WritesInv'
  <1> USE DEF WritesInv
  <1>1. /\ DOMAIN feed = 1 .. Len(feed) /\ DOMAIN feed' = 1 .. Len(feed')
        /\ DOMAIN audit = 1 .. Len(audit) /\ DOMAIN audit' = 1 .. Len(audit')
        /\ Len(feed) \in Nat /\ Len(feed') \in Nat /\ Len(audit) \in Nat /\ Len(audit') \in Nat
    BY DEF AccountTypes
  <1>2. \A q \in Requests : request[q].row \in 0 .. Len(audit)
    BY DEF RequestOk
  <1>3. RowsDiffer'
    BY <1>1, <1>2 DEF RowsDiffer
  <1>4. ASSUME NEW q \in Requests
        PROVE  RequestOk(q)'
    <2>1. CASE q = r
      BY <2>1
    <2>2. CASE q # r
      <3>1. request'[q] = request[q] /\ RequestOk(q)
        BY <2>2
      <3>2. Calls(request[q].verb)' = Calls(request[q].verb) /\ DomainVerbs' = DomainVerbs
        <4>1. PICK verb : verb = request[q].verb
          OBVIOUS
        <4>2. Calls(verb)' = Calls(verb)
          BY CallsStay
        <4>3. DomainVerbs' = DomainVerbs
          BY DEF DomainVerbs
        <4> QED
          BY <3>1, <4>1, <4>2, <4>3
      <3>3. request[q].row # 0 =>
                request[q].row \in DOMAIN audit /\ audit'[request[q].row] = audit[request[q].row]
        BY <1>1, <1>2, <2>2 DEF RowsDiffer
      <3>4. DOMAIN feed \subseteq DOMAIN feed' /\ 0 .. Len(audit) \subseteq 0 .. Len(audit')
        BY <1>1
      <3> QED
        BY <3>1, <3>2, <3>3, <3>4 DEF RequestOk
    <2> QED
      BY <2>1, <2>2
  <1>5. ASSUME NEW i \in DOMAIN feed'
        PROVE  Explained(i)'
    <2>1. CASE i \in DOMAIN feed
      <3>1. feed'[i] = feed[i] /\ Explained(i)
        BY <2>1
      <3>2. ASSUME NEW actions, ChangedByWinston(actions)
            PROVE  ChangedByWinston(actions)'
        BY <3>2, ActionsStay
      <3>3. \A q \in Requests : request[q].made \subseteq request'[q].made
        OBVIOUS
      <3> QED
        BY <3>1, <3>2, <3>3 DEF Explained
    <2> QED
      BY <2>1
  <1> QED
    BY <1>3, <1>4, <1>5

LEMMA ArrivalFacts ==
    ASSUME WritesInv, NEW r \in Requests, RequestArrives(r)
    PROVE  /\ request[r].pc = "none" /\ UNCHANGED <<domain, allowed, feed, audit, accountFaults>>
           /\ \E new \in RequestRecords :
                 /\ request' = [request EXCEPT ![r] = new]
                 /\ new.verb \in DomainVerbs /\ new.pc \in {"refused", "previewed", "audit"}
                 /\ new.pc = "audit" => ~new.dry
                 /\ new.row = 0 /\ new.call = 1 /\ new.made = {}
  <1> DEFINE Asked(verb, dry, pc) == [NoRequest EXCEPT !.verb = verb, !.dry = dry, !.pc = pc]
             Takes(verb, dry, pc) == /\ request[r].pc = "none"
                                     /\ UNCHANGED <<domain, allowed, feed, audit, accountFaults>>
                                     /\ request' = [request EXCEPT ![r] = Asked(verb, dry, pc)]
             Answers == {"refused", "previewed", "audit"}
  <1>1. domain \in {"mail", "calendar", "ramp"}
    BY DEF WritesInv, AccountTypes
  <1>2. SUFFICES \E verb \in DomainVerbs, dry \in BOOLEAN, pc \in Answers :
                    Takes(verb, dry, pc) /\ (pc = "audit" => ~dry)
    <2>1. PICK verb \in DomainVerbs, dry \in BOOLEAN, pc \in Answers :
                    Takes(verb, dry, pc) /\ (pc = "audit" => ~dry)
      BY <1>2
    <2>2. PICK new : new = Asked(verb, dry, pc)
      OBVIOUS
    <2>3. NoRequest \in RequestRecords /\ NoRequest.row = 0 /\ NoRequest.call = 1 /\ NoRequest.made = {}
      BY DEF NoRequest, RequestRecords, RequestPoints
    <2>4. /\ new \in RequestRecords /\ new.verb = verb /\ new.dry = dry /\ new.pc = pc
          /\ new.row = 0 /\ new.call = 1 /\ new.made = {}
      BY <2>2, <2>3 DEF RequestRecords, RequestPoints
    <2> QED
      BY <2>1, <2>2, <2>4
  <1>3. CASE domain = "mail"
    <2>1. SendOrDraft(r) \/ ReplyOrForward(r) \/ UpdateOrTrash(r)
      BY <1>3 DEF RequestArrives, CreateEvent, UpdateEvent, DeleteEvent, AnswerInvitation,
                  UpdateExpense, DecideExpense, SubmitExpense
    <2>2. CASE SendOrDraft(r)
      BY <1>3, <2>2 DEF SendOrDraft, Asks, DomainVerbs
    <2>3. CASE ReplyOrForward(r)
      BY <1>3, <2>3 DEF ReplyOrForward, Asks, DomainVerbs
    <2>4. CASE UpdateOrTrash(r)
      BY <1>3, <2>4 DEF UpdateOrTrash, Asks, DomainVerbs
    <2> QED
      BY <2>1, <2>2, <2>3, <2>4
  <1>4. CASE domain = "calendar"
    <2>1. CreateEvent(r) \/ UpdateEvent(r) \/ DeleteEvent(r) \/ AnswerInvitation(r)
      BY <1>4 DEF RequestArrives, SendOrDraft, ReplyOrForward, UpdateOrTrash,
                  UpdateExpense, DecideExpense, SubmitExpense
    <2>2. CASE CreateEvent(r)
      BY <1>4, <2>2 DEF CreateEvent, Asks, DomainVerbs
    <2>3. CASE UpdateEvent(r)
      BY <1>4, <2>3 DEF UpdateEvent, Asks, DomainVerbs
    <2>4. CASE DeleteEvent(r)
      BY <1>4, <2>4 DEF DeleteEvent, Asks, DomainVerbs
    <2>5. CASE AnswerInvitation(r)
      BY <1>4, <2>5 DEF AnswerInvitation, Asks, DomainVerbs
    <2> QED
      BY <2>1, <2>2, <2>3, <2>4, <2>5
  <1>5. CASE domain = "ramp"
    <2>1. UpdateExpense(r) \/ DecideExpense(r) \/ SubmitExpense(r)
      BY <1>5 DEF RequestArrives, SendOrDraft, ReplyOrForward, UpdateOrTrash,
                  CreateEvent, UpdateEvent, DeleteEvent, AnswerInvitation
    <2>2. CASE UpdateExpense(r)
      BY <1>5, <2>2 DEF UpdateExpense, Asks, DomainVerbs
    <2>3. CASE DecideExpense(r)
      BY <1>5, <2>3 DEF DecideExpense, Asks, DomainVerbs
    <2>4. CASE SubmitExpense(r)
      BY <1>5, <2>4 DEF SubmitExpense, Asks, DomainVerbs
    <2> QED
      BY <2>1, <2>2, <2>3, <2>4
  <1> QED
    BY <1>1, <1>3, <1>4, <1>5

\* A dry run, or a write refused, has no row.
LEMMA ArrivalKeeps ==
    ASSUME WritesInv, NEW r \in Requests, RequestArrives(r)
    PROVE  WritesInv'
  <1>1. PICK new \in RequestRecords :
           /\ request' = [request EXCEPT ![r] = new]
           /\ new.verb \in DomainVerbs /\ new.pc \in {"refused", "previewed", "audit"}
           /\ new.pc = "audit" => ~new.dry
           /\ new.row = 0 /\ new.call = 1 /\ new.made = {}
    BY ArrivalFacts
  <1>2. request[r].pc = "none" /\ UNCHANGED <<domain, feed, audit>>
    BY ArrivalFacts
  <1>3. AccountTypes /\ RequestOk(r) /\ OneLife
    BY DEF WritesInv
  <1>4. request'[r] = new /\ \A q \in Requests \ {r} : request'[q] = request[q]
    BY <1>1, <1>3 DEF AccountTypes
  <1>5. AccountTypes'
    <2>1. /\ Changes' = Changes /\ AuditRows' = AuditRows /\ RequestRecords' = RequestRecords
          /\ DomainVerbs' = DomainVerbs
      BY <1>2 DEF Changes, AuditRows, RequestRecords, DomainVerbs, DomainOps
    <2>2. request' \in [Requests -> RequestRecords]
      BY <1>1, <1>3 DEF AccountTypes
    <2> QED
      BY <1>2, <1>3, <2>1, <2>2 DEF AccountTypes
  <1>6. OneLife'
    BY <1>2, <1>3 DEF OneLife
  <1>7. request[r].made = {} /\ request[r].row = 0
    BY <1>2, <1>3 DEF RequestOk
  <1>8. RequestOk(r)'
    <2>1. DomainVerbs' = DomainVerbs
      BY <1>2 DEF DomainVerbs
    <2>2. Len(audit') \in Nat
      BY <1>5 DEF AccountTypes
    <2> QED
      BY <1>1, <1>4, <2>1, <2>2 DEF RequestOk, Open
  <1>9. Len(feed) \in Nat /\ Len(audit) \in Nat
    BY <1>3 DEF AccountTypes
  <1> QED
    BY <1>1, <1>2, <1>4, <1>5, <1>6, <1>7, <1>8, <1>9, RequestMoves

LEMMA SetsStay ==
    ASSUME UNCHANGED domain
    PROVE  /\ Changes' = Changes /\ AuditRows' = AuditRows /\ RequestRecords' = RequestRecords
           /\ DomainVerbs' = DomainVerbs
  BY DEF Changes, AuditRows, RequestRecords, DomainVerbs, DomainOps

\* The row is written before the call.
LEMMA RecordPendingKeeps ==
    ASSUME WritesInv, NEW r \in Requests, RecordPending(r)
    PROVE  WritesInv'
  <1>1. AccountTypes /\ RequestOk(r) /\ OneLife
    BY DEF WritesInv
  <1>2. PICK old \in RequestRecords : old = request[r] /\ old.pc = "audit"
    BY <1>1 DEF AccountTypes, RecordPending
  <1>3. PICK row : row = PendingRow(old.verb)
    OBVIOUS
  <1>4. /\ old.verb \in DomainVerbs /\ ~old.dry /\ old.row = 0 /\ old.made = {} /\ old.call = 1
        /\ old.pc = "audit"
    BY <1>1, <1>2 DEF RequestOk
  <1>5. row \in AuditRows /\ row.action = old.verb /\ row.outcome = "pending"
    BY <1>3, <1>4 DEF PendingRow, AuditRows
  <1>6. audit \in Seq(AuditRows) /\ Len(audit) \in Nat /\ Len(feed) \in Nat
    BY <1>1 DEF AccountTypes
  <1>7. audit' = Append(audit, row)
    BY <1>2, <1>3 DEF RecordPending
  <1>8. /\ audit' \in Seq(AuditRows) /\ Len(audit') = Len(audit) + 1
        /\ \A k \in DOMAIN audit : audit'[k] = audit[k]
        /\ audit'[Len(audit) + 1] = row
    BY <1>5, <1>6, <1>7
  <1>9. PICK n \in Nat : n = Len(audit) + 1
    BY <1>6
  <1>10. PICK new : new = [old EXCEPT !.pc = "call", !.row = n]
    OBVIOUS
  <1>11. /\ new \in RequestRecords /\ new.pc = "call" /\ new.row = Len(audit) + 1
         /\ new.verb = old.verb /\ new.dry = old.dry /\ new.made = old.made /\ new.call = old.call
    BY <1>10, <1>9 DEF RequestRecords, RequestPoints
  <1>12. request' = [request EXCEPT ![r] = new]
    BY <1>2, <1>10, <1>9 DEF RecordPending
  <1>13. request'[r] = new /\ \A q \in Requests \ {r} : request'[q] = request[q]
    BY <1>1, <1>12 DEF AccountTypes
  <1>14. UNCHANGED <<domain, feed>>
    BY DEF RecordPending
  <1>15. AccountTypes'
    <2>1. request' \in [Requests -> RequestRecords]
      BY <1>1, <1>11, <1>12 DEF AccountTypes
    <2> QED
      BY <1>1, <1>8, <1>14, <2>1, SetsStay DEF AccountTypes
  <1>16. OneLife'
    BY <1>1, <1>14 DEF OneLife
  <1>17. RequestOk(r)'
    <2>1. PICK verb \in DomainVerbs : verb = old.verb
      BY <1>4
    <2>2. Calls(verb)' = Calls(verb) /\ Len(Calls(verb)) \in Nat \ {0}
      BY <1>1, <1>14, CallsStay, CallFacts DEF AccountTypes
    <2>3. new.call \in 1 .. Len(Calls(verb)')
      BY <1>4, <1>11, <2>2
    <2> QED
      BY <1>4, <1>5, <1>6, <1>8, <1>11, <1>13, <1>14, <2>1, <2>3, SetsStay DEF RequestOk, Open
  <1> QED
    BY <1>2, <1>4, <1>6, <1>8, <1>11, <1>13, <1>14, <1>15, <1>16, <1>17, RequestMoves

\* A gateway that dies leaves the row as it is.
LEMMA GatewayDiesKeeps ==
    ASSUME WritesInv, NEW r \in Requests, GatewayDies(r)
    PROVE  WritesInv'
  <1> USE DEF GatewayDies
  <1>1. AccountTypes /\ RequestOk(r) /\ OneLife
    BY DEF WritesInv
  <1>2. PICK old \in RequestRecords : old = request[r]
    BY <1>1 DEF AccountTypes
  <1>3. PICK new : new = [old EXCEPT !.pc = "lost"]
    OBVIOUS
  <1>4. /\ new \in RequestRecords /\ new.pc = "lost" /\ new.row = old.row
        /\ new.verb = old.verb /\ new.dry = old.dry /\ new.made = old.made
    BY <1>3 DEF RequestRecords, RequestPoints
  <1>5. request' = [request EXCEPT ![r] = new]
    BY <1>2, <1>3
  <1>6. request'[r] = new /\ \A q \in Requests \ {r} : request'[q] = request[q]
    BY <1>1, <1>5 DEF AccountTypes
  <1>7. UNCHANGED <<domain, feed, audit>>
    OBVIOUS
  <1>8. AccountTypes'
    <2>1. request' \in [Requests -> RequestRecords]
      BY <1>1, <1>4, <1>5 DEF AccountTypes
    <2> QED
      BY <1>1, <1>7, <2>1, SetsStay DEF AccountTypes
  <1>9. OneLife'
    BY <1>1, <1>7 DEF OneLife
  <1>10. RequestOk(r)'
    BY <1>1, <1>2, <1>4, <1>6, <1>7, SetsStay DEF RequestOk, Open
  <1>11. Len(feed) \in Nat /\ Len(audit) \in Nat
    BY <1>1 DEF AccountTypes
  <1> QED
    BY <1>2, <1>4, <1>6, <1>7, <1>8, <1>9, <1>10, <1>11, RequestMoves

\* The row is filled in with what became of the call.
LEMMA RecordOutcomeKeeps ==
    ASSUME WritesInv, NEW r \in Requests, RecordOutcome(r)
    PROVE  /\ WritesInv' /\ UNCHANGED <<domain, feed>> /\ Len(audit') = Len(audit)
           /\ \A k \in DOMAIN audit : audit'[k].action = audit[k].action
  <1>1. AccountTypes /\ RequestOk(r) /\ OneLife
    BY DEF WritesInv
  <1>2. PICK old \in RequestRecords : old = request[r] /\ old.pc \in {"done", "failed"}
    BY <1>1 DEF AccountTypes, RecordOutcome
  <1>3. PICK new : new = [old EXCEPT !.pc = "answered"]
    OBVIOUS
  <1>4. /\ new \in RequestRecords /\ new.pc = "answered" /\ new.row = old.row
        /\ new.verb = old.verb /\ new.dry = old.dry /\ new.made = old.made
    BY <1>3 DEF RequestRecords, RequestPoints
  <1>5. request' = [request EXCEPT ![r] = new]
    BY <1>2, <1>3 DEF RecordOutcome
  <1>6. request'[r] = new /\ \A q \in Requests \ {r} : request'[q] = request[q]
    BY <1>1, <1>5 DEF AccountTypes
  <1>7. UNCHANGED <<domain, feed>>
    BY DEF RecordOutcome
  <1>8. /\ audit \in Seq(AuditRows) /\ Len(audit) \in Nat /\ DOMAIN audit = 1 .. Len(audit)
        /\ Len(feed) \in Nat /\ DOMAIN feed = 1 .. Len(feed)
    BY <1>1 DEF AccountTypes
  <1>9. old.pc \in {"done", "failed"} /\ old.row \in DOMAIN audit
    BY <1>1, <1>2, <1>8 DEF RequestOk, Open
  <1>10. PICK result : result = IF old.pc = "done" THEN Max(old.made) ELSE 0
    OBVIOUS
  <1>11. PICK outcome : outcome = IF old.pc = "done" THEN "ok" ELSE "error"
    OBVIOUS
  <1>12. result \in Nat /\ outcome \in {"ok", "error"} /\ (outcome = "ok" => result = Max(old.made))
    <2>1. CASE old.pc = "done"
      <3>1. old.made \in SUBSET (1 .. Len(feed)) /\ old.made # {}
        BY <1>1, <1>2, <1>8, <2>1 DEF RequestOk
      <3>2. Max(old.made) \in old.made
        BY <1>8, <3>1, Greatest
      <3> QED
        BY <1>10, <1>11, <2>1, <3>1, <3>2
    <2>2. CASE old.pc # "done"
      BY <1>10, <1>11, <2>2
    <2> QED
      BY <2>1, <2>2
  <1>13. PICK before \in AuditRows : before = audit[old.row]
    BY <1>8, <1>9
  <1>14. PICK row : row = [before EXCEPT !.outcome = outcome, !.result = result]
    OBVIOUS
  <1>15. /\ row \in AuditRows /\ row.action = before.action /\ row.outcome = outcome
         /\ row.result = result
    BY <1>12, <1>14 DEF AuditRows
  <1>16. audit' = [i \in DOMAIN audit |-> IF i # old.row THEN audit[i] ELSE row]
    <2>1. audit' = [i \in DOMAIN audit |->
                       IF i # old.row THEN audit[i]
                       ELSE [audit[i] EXCEPT !.outcome = outcome, !.result = result]]
      BY <1>2, <1>10, <1>11 DEF RecordOutcome
    <2> QED
      BY <1>13, <1>14, <2>1
  <1>17. /\ audit' \in Seq(AuditRows) /\ Len(audit') = Len(audit) /\ audit'[old.row] = row
         /\ \A k \in DOMAIN audit : audit'[k].action = audit[k].action
         /\ \A k \in DOMAIN audit : k # old.row => audit'[k] = audit[k]
    BY <1>8, <1>9, <1>13, <1>15, <1>16
  <1>18. AccountTypes'
    <2>1. request' \in [Requests -> RequestRecords]
      BY <1>1, <1>4, <1>5 DEF AccountTypes
    <2> QED
      BY <1>1, <1>7, <1>17, <2>1, SetsStay DEF AccountTypes
  <1>19. OneLife'
    BY <1>1, <1>7 DEF OneLife
  <1>20. RequestOk(r)'
    <2>1. /\ old.made \subseteq DOMAIN feed /\ old.row # 0 /\ old.row \in 0 .. Len(audit)
          /\ ~old.dry /\ old.verb \in DomainVerbs /\ before.action = old.verb
      BY <1>1, <1>2, <1>9, <1>8, <1>13 DEF RequestOk
    <2> QED
      BY <1>4, <1>6, <1>7, <1>12, <1>15, <1>17, <2>1, SetsStay DEF RequestOk, Open
  <1> QED
    BY <1>2, <1>4, <1>6, <1>7, <1>8, <1>17, <1>18, <1>19, <1>20, RequestMoves

\* A call of the provider: what it did is in the feed, and the row says whose it is.
LEMMA CallKeeps ==
    ASSUME WritesInv, NEW r \in Requests, request[r].pc = "call",
           NEW call, call = Calls(request[r].verb)[request[r].call],
           call.op \in {"move", "delete", "rsvp"} => Exists(call.obj),
           call.op = "create" => Fresh(call.obj),
           feed' = Append(feed, Change(call, "winston")), UNCHANGED <<domain, audit>>,
           NEW new \in RequestRecords, request' = [request EXCEPT ![r] = new],
           new.verb = request[r].verb, new.dry = request[r].dry, new.row = request[r].row,
           new.made = request[r].made \cup {Len(feed) + 1},
           new.pc \in {"call", "done", "failed"},
           new.pc = "call" => new.call \in 1 .. Len(Calls(new.verb))
    PROVE  WritesInv'
  <1>1. AccountTypes /\ RequestOk(r) /\ OneLife
    BY DEF WritesInv
  <1>2. PICK old \in RequestRecords : old = request[r]
    BY <1>1 DEF AccountTypes
  <1>3. /\ audit \in Seq(AuditRows) /\ Len(audit) \in Nat /\ DOMAIN audit = 1 .. Len(audit)
        /\ feed \in Seq(Changes) /\ Len(feed) \in Nat /\ DOMAIN feed = 1 .. Len(feed)
    BY <1>1 DEF AccountTypes
  <1>4. /\ old.row # 0 /\ old.row \in 0 .. Len(audit) /\ ~old.dry /\ old.verb \in DomainVerbs
        /\ audit[old.row].action = old.verb /\ audit[old.row].outcome = "pending"
        /\ old.made \subseteq DOMAIN feed
        /\ old.call \in 1 .. Len(Calls(old.verb))
    BY <1>1, <1>2 DEF RequestOk, Open
  <1>5. /\ call.obj \in Objects /\ call.op \in DomainOps
        /\ call.op = "labels" => old.verb = "labels"
        /\ call.op = "delete" => old.verb = "delete"
        /\ call.op = "move" => old.verb \in {"move", "split"}
    BY <1>1, <1>2, <1>4, CallFacts DEF AccountTypes
  <1>6. PICK c : c = Change(call, "winston")
    OBVIOUS
  <1>7. c \in Changes /\ c.obj = call.obj /\ c.op = call.op /\ c.by = "winston"
    BY <1>5, <1>6 DEF Change, Changes
  <1>8. /\ feed' \in Seq(Changes) /\ Len(feed') = Len(feed) + 1 /\ feed'[Len(feed) + 1] = c
        /\ \A i \in DOMAIN feed : feed'[i] = feed[i]
        /\ DOMAIN feed' = 1 .. Len(feed) + 1
    BY <1>3, <1>6, <1>7
  <1>9. request'[r] = new /\ \A q \in Requests \ {r} : request'[q] = request[q]
    BY <1>1 DEF AccountTypes
  <1>10. AccountTypes'
    <2>1. request' \in [Requests -> RequestRecords]
      BY <1>1 DEF AccountTypes
    <2> QED
      BY <1>1, <1>8, <2>1, SetsStay DEF AccountTypes
  <1>11. OneLife'
    BY <1>1, <1>6, <1>7, LifeGoesOn
  <1>12. RequestOk(r)'
    <2>1. Calls(new.verb)' = Calls(new.verb)
      <3>1. PICK verb : verb = new.verb
        OBVIOUS
      <3>2. Calls(verb)' = Calls(verb)
        BY CallsStay
      <3> QED
        BY <3>1, <3>2
    <2>2. /\ new.made # {} /\ new.made \subseteq DOMAIN feed' /\ new.row # 0
          /\ new.row \in 0 .. Len(audit) /\ ~new.dry /\ new.verb \in DomainVerbs
          /\ audit[new.row].action = new.verb /\ audit[new.row].outcome = "pending"
      BY <1>2, <1>3, <1>4, <1>8
    <2> QED
      BY <1>9, <2>1, <2>2, SetsStay DEF RequestOk, Open
  <1>13. ASSUME NEW i \in DOMAIN feed' \ DOMAIN feed
         PROVE  Explained(i)'
    <2>1. i = Len(feed) + 1
      BY <1>3, <1>8
    <2>2. feed'[i] = c /\ i \in request'[r].made
      BY <1>8, <1>9, <2>1
    <2>3. \A actions : old.verb \in actions => ChangedByWinston(actions)'
      BY <1>3, <1>4 DEF ChangedByWinston
    <2> QED
      BY <1>5, <1>7, <2>2, <2>3 DEF Explained
  <1>14. /\ Len(audit) <= Len(audit') /\ \A k \in DOMAIN audit : audit'[k] = audit[k]
         /\ Len(feed) <= Len(feed')
    BY <1>3, <1>8
  <1> QED
    BY <1>8, <1>9, <1>10, <1>11, <1>12, <1>13, <1>14, RequestMoves

LEMMA CallSucceedsKeeps ==
    ASSUME WritesInv, NEW r \in Requests, CallSucceeds(r)
    PROVE  WritesInv'
  <1>1. AccountTypes /\ RequestOk(r)
    BY DEF WritesInv
  <1>2. PICK old \in RequestRecords : old = request[r] /\ old.pc = "call"
    BY <1>1 DEF AccountTypes, CallSucceeds
  <1>3. PICK calls : calls = Calls(old.verb)
    OBVIOUS
  <1>4. PICK call : call = calls[old.call]
    OBVIOUS
  <1>5. /\ call.op \in {"move", "delete", "rsvp"} => Exists(call.obj)
        /\ call.op = "create" => Fresh(call.obj)
        /\ feed' = Append(feed, Change(call, "winston")) /\ UNCHANGED <<domain, audit>>
    BY <1>2, <1>3, <1>4 DEF CallSucceeds
  <1>6. PICK pc : pc = IF old.call = Len(calls) THEN "done" ELSE "call"
    OBVIOUS
  <1>7. PICK made : made = old.made \cup {Len(feed) + 1}
    OBVIOUS
  <1>8. PICK next : next = old.call + 1
    OBVIOUS
  <1>9. request' = [request EXCEPT ![r] = [old EXCEPT !.made = made, !.call = next, !.pc = pc]]
    BY <1>2, <1>3, <1>6, <1>7, <1>8 DEF CallSucceeds
  <1>10. PICK new : new = [old EXCEPT !.made = made, !.call = next, !.pc = pc]
    OBVIOUS
  <1>11. old.call \in 1 .. Len(calls) /\ Len(calls) \in Nat /\ Len(feed) \in Nat
    <2>1. PICK verb \in DomainVerbs : verb = old.verb
      BY <1>1, <1>2 DEF RequestOk, Open
    <2>2. Len(Calls(verb)) \in Nat
      BY <1>1, CallFacts DEF AccountTypes
    <2> QED
      BY <1>1, <1>2, <1>3, <2>1, <2>2 DEF RequestOk, AccountTypes
  <1>12. made \in SUBSET Nat /\ next \in Nat /\ pc \in {"done", "call"}
    BY <1>6, <1>7, <1>8, <1>11 DEF RequestRecords
  <1>13. /\ new \in RequestRecords /\ new.pc = pc /\ new.call = next /\ new.made = made
         /\ new.verb = old.verb /\ new.dry = old.dry /\ new.row = old.row
    BY <1>10, <1>12 DEF RequestRecords, RequestPoints
  <1>14. new.pc = "call" => new.call \in 1 .. Len(Calls(new.verb))
    BY <1>3, <1>6, <1>8, <1>11, <1>13
  <1>15. request' = [request EXCEPT ![r] = new]
    BY <1>9, <1>10
  <1> QED
    BY <1>2, <1>3, <1>4, <1>5, <1>7, <1>12, <1>13, <1>14, <1>15, CallKeeps

\* A call that failed may have had its effect all the same.
LEMMA CallFailsKeeps ==
    ASSUME WritesInv, NEW r \in Requests, CallFails(r)
    PROVE  WritesInv'
  <1>1. AccountTypes /\ RequestOk(r) /\ OneLife
    BY DEF WritesInv
  <1>2. PICK old \in RequestRecords : old = request[r] /\ old.pc = "call"
    BY <1>1 DEF AccountTypes, CallFails
  <1>3. UNCHANGED <<domain, audit>>
    BY DEF CallFails
  <1>4. Len(feed) \in Nat /\ Len(audit) \in Nat
    BY <1>1 DEF AccountTypes
  <1>5. CASE UNCHANGED feed /\ request' = [request EXCEPT ![r].pc = "failed"]
    <2>1. PICK new : new = [old EXCEPT !.pc = "failed"]
      OBVIOUS
    <2>2. /\ new \in RequestRecords /\ new.pc = "failed" /\ new.row = old.row
          /\ new.verb = old.verb /\ new.dry = old.dry /\ new.made = old.made
      BY <2>1 DEF RequestRecords, RequestPoints
    <2>3. request' = [request EXCEPT ![r] = new]
      BY <1>2, <1>5, <2>1
    <2>4. request'[r] = new /\ \A q \in Requests \ {r} : request'[q] = request[q]
      BY <1>1, <2>3 DEF AccountTypes
    <2>5. AccountTypes'
      <3>1. request' \in [Requests -> RequestRecords]
        BY <1>1, <2>2, <2>3 DEF AccountTypes
      <3> QED
        BY <1>1, <1>3, <1>5, <3>1, SetsStay DEF AccountTypes
    <2>6. OneLife'
      BY <1>1, <1>3, <1>5 DEF OneLife
    <2>7. RequestOk(r)'
      BY <1>1, <1>2, <1>3, <1>5, <2>2, <2>4, SetsStay DEF RequestOk, Open
    <2> QED
      BY <1>2, <1>3, <1>4, <1>5, <2>2, <2>4, <2>5, <2>6, <2>7, RequestMoves
  <1>6. CASE ~(UNCHANGED feed /\ request' = [request EXCEPT ![r].pc = "failed"])
    <2>1. PICK call : call = Calls(old.verb)[old.call]
      OBVIOUS
    <2>2. PICK made : made = old.made \cup {Len(feed) + 1}
      OBVIOUS
    <2>3. /\ call.op \in {"move", "delete", "rsvp"} => Exists(call.obj)
          /\ call.op = "create" => Fresh(call.obj)
          /\ feed' = Append(feed, Change(call, "winston"))
      BY <1>2, <1>6, <2>1 DEF CallFails
    <2>4. request' = [request EXCEPT ![r] = [old EXCEPT !.pc = "failed", !.made = made]]
      BY <1>2, <1>6, <2>2 DEF CallFails
    <2>5. PICK new : new = [old EXCEPT !.pc = "failed", !.made = made]
      OBVIOUS
    <2>6. made \in SUBSET Nat
      BY <1>4, <2>2 DEF RequestRecords
    <2>7. /\ new \in RequestRecords /\ new.pc = "failed" /\ new.made = made
          /\ new.verb = old.verb /\ new.dry = old.dry /\ new.row = old.row
      BY <2>5, <2>6 DEF RequestRecords, RequestPoints
    <2>8. request' = [request EXCEPT ![r] = new]
      BY <2>4, <2>5
    <2> QED
      BY <1>2, <1>3, <2>1, <2>2, <2>3, <2>7, <2>8, CallKeeps
  <1> QED
    BY <1>5, <1>6

LEMMA UserKeeps ==
    ASSUME WritesInv, UserChanges
    PROVE  WritesInv'
  <1>1. AccountTypes /\ OneLife
    BY DEF WritesInv
  <1>2. PICK ops : ops = (IF domain = "mail" THEN {"receive", "send", "labels"}
                          ELSE IF domain = "calendar" THEN {"create", "move", "delete"}
                          ELSE {"comment"})
    OBVIOUS
  <1>3. PICK call \in [obj : {1}, op : ops] :
           /\ call.op \in {"move", "delete"} => Exists(1)
           /\ call.op = "create" => Fresh(1)
           /\ feed' = Append(feed, Change(call, "user"))
    BY <1>2 DEF UserChanges
  <1>4. call.op \in DomainOps /\ call.op # "rsvp" /\ call.obj = 1
    <2>1. CASE domain = "mail"
      BY <1>2, <1>3, <2>1 DEF DomainOps
    <2>2. CASE domain = "calendar"
      BY <1>2, <1>3, <2>2 DEF DomainOps
    <2>3. CASE domain = "ramp"
      BY <1>2, <1>3, <2>3 DEF DomainOps
    <2> QED
      BY <1>1, <2>1, <2>2, <2>3 DEF AccountTypes
  <1>5. PICK c : c = Change(call, "user")
    OBVIOUS
  <1>6. c \in Changes /\ c.obj = 1 /\ c.op = call.op /\ c.by = "user"
    BY <1>4, <1>5 DEF Change, Changes, Objects
  <1>7. feed' = Append(feed, c) /\ UNCHANGED <<domain, audit, request>>
    BY <1>3, <1>5 DEF UserChanges
  <1>8. feed \in Seq(Changes) /\ Len(feed) \in Nat /\ DOMAIN feed = 1 .. Len(feed)
    BY <1>1 DEF AccountTypes
  <1>9. /\ feed' \in Seq(Changes) /\ Len(feed') = Len(feed) + 1 /\ feed'[Len(feed) + 1] = c
        /\ \A i \in DOMAIN feed : feed'[i] = feed[i]
        /\ DOMAIN feed' = 1 .. Len(feed) + 1
    BY <1>6, <1>7, <1>8
  <1>10. AccountTypes'
    BY <1>1, <1>7, <1>9, SetsStay DEF AccountTypes
  <1>11. OneLife'
    BY <1>1, <1>3, <1>4, <1>6, <1>7, LifeGoesOn
  <1>12. RowsDiffer'
    BY <1>7 DEF RowsDiffer, WritesInv
  <1>13. ASSUME NEW r \in Requests
         PROVE  RequestOk(r)'
    <2>1. RequestOk(r)
      BY DEF WritesInv
    <2>2. Calls(request[r].verb)' = Calls(request[r].verb)
      <3>1. PICK verb : verb = request[r].verb
        OBVIOUS
      <3>2. Calls(verb)' = Calls(verb)
        BY <1>7, CallsStay
      <3> QED
        BY <1>7, <3>1, <3>2
    <2>3. DOMAIN feed \subseteq DOMAIN feed' /\ request'[r] = request[r] /\ audit' = audit
      BY <1>7, <1>8, <1>9
    <2> QED
      BY <1>7, <2>1, <2>2, <2>3, SetsStay DEF RequestOk
  <1>14. ASSUME NEW i \in DOMAIN feed'
         PROVE  Explained(i)'
    <2>1. CASE i \in DOMAIN feed
      <3>1. Explained(i) /\ feed'[i] = feed[i]
        BY <1>9, <2>1 DEF WritesInv
      <3> QED
        BY <1>7, <3>1 DEF Explained, ChangedByWinston
    <2>2. CASE i = Len(feed) + 1
      BY <1>6, <1>9, <2>2 DEF Explained
    <2> QED
      BY <1>8, <1>9, <2>1, <2>2
  <1> QED
    BY <1>10, <1>11, <1>12, <1>13, <1>14 DEF WritesInv

\* What the invariant is about is not touched.
LEMMA WritesStay ==
    ASSUME WritesInv, UNCHANGED <<domain, feed, audit, request>>
    PROVE  WritesInv'
  <1>1. AccountTypes'
    BY SetsStay DEF WritesInv, AccountTypes
  <1>2. ASSUME NEW r \in Requests
        PROVE  RequestOk(r)'
    <2>1. RequestOk(r)
      BY DEF WritesInv
    <2>2. Calls(request[r].verb)' = Calls(request[r].verb)
      <3>1. PICK verb : verb = request[r].verb
        OBVIOUS
      <3>2. Calls(verb)' = Calls(verb)
        BY CallsStay
      <3> QED
        BY <3>1, <3>2
    <2> QED
      BY <2>1, <2>2, SetsStay DEF RequestOk
  <1>3. \A i \in DOMAIN feed : Explained(i)'
    BY DEF WritesInv, Explained, ChangedByWinston
  <1>4. RowsDiffer' /\ OneLife'
    BY DEF WritesInv, RowsDiffer, OneLife
  <1> QED
    BY <1>1, <1>2, <1>3, <1>4 DEF WritesInv

LEMMA WritesStart == WritesInit => WritesInv
  <1> SUFFICES ASSUME WritesInit
               PROVE  WritesInv
    OBVIOUS
  <1> USE DEF WritesInit
  <1>1. AccountTypes
    <2>1. NoRequest \in RequestRecords
      BY DEF NoRequest, RequestRecords, RequestPoints
    <2> QED
      BY <2>1 DEF AccountTypes
  <1>2. \A r \in Requests : RequestOk(r)
    BY DEF RequestOk, NoRequest, Open
  <1>3. RowsDiffer /\ OneLife /\ \A i \in DOMAIN feed : Explained(i)
    BY DEF RowsDiffer, NoRequest, OneLife
  <1> QED
    BY <1>1, <1>2, <1>3 DEF WritesInv

LEMMA WritesKeep ==
    ASSUME WritesInv, WritesNext
    PROVE  WritesInv'
  <1>1. CASE UserChanges
    BY <1>1, UserKeeps
  <1>2. CASE Disallow
    BY <1>2, WritesStay DEF Disallow
  <1>3. ASSUME NEW r \in Requests, RequestStep(r)
        PROVE  WritesInv'
    BY <1>3, ArrivalKeeps, RecordPendingKeeps, CallSucceedsKeeps, CallFailsKeeps,
       RecordOutcomeKeeps, GatewayDiesKeeps DEF RequestStep
  <1> QED
    BY <1>1, <1>2, <1>3 DEF WritesNext

\* The row of a request names what it made last.
LEMMA EveryEffectOnRecord == WritesInv => EffectsOnRecord
  BY DEF WritesInv, EffectsOnRecord, Explained, RequestOk

\* What the provider has done stays, and so do the actions on record.
LEMMA WritesGrow ==
    ASSUME WritesInv, WritesNext
    PROVE  /\ UNCHANGED domain /\ Len(feed) <= Len(feed') /\ Len(audit) <= Len(audit')
           /\ \A i \in DOMAIN feed : feed'[i] = feed[i]
           /\ \A k \in DOMAIN audit : audit'[k].action = audit[k].action
  <1>1. /\ feed \in Seq(Changes) /\ audit \in Seq(AuditRows)
        /\ Len(feed) \in Nat /\ Len(audit) \in Nat
        /\ DOMAIN feed = 1 .. Len(feed) /\ DOMAIN audit = 1 .. Len(audit)
    BY DEF WritesInv, AccountTypes
  <1>2. ASSUME UNCHANGED audit, NEW c, feed' = Append(feed, c)
        PROVE  /\ Len(feed) <= Len(feed') /\ Len(audit) <= Len(audit')
               /\ \A i \in DOMAIN feed : feed'[i] = feed[i]
               /\ \A k \in DOMAIN audit : audit'[k].action = audit[k].action
    <2>1. feed \in Seq(Changes \cup {c})
      BY <1>1
    <2> QED
      BY <1>1, <1>2, <2>1
  <1>3. CASE UserChanges
    BY <1>2, <1>3 DEF UserChanges
  <1>4. CASE Disallow
    BY <1>1, <1>4 DEF Disallow
  <1>5. ASSUME NEW r \in Requests, RequestStep(r)
        PROVE  /\ UNCHANGED domain /\ Len(feed) <= Len(feed') /\ Len(audit) <= Len(audit')
               /\ \A i \in DOMAIN feed : feed'[i] = feed[i]
               /\ \A k \in DOMAIN audit : audit'[k].action = audit[k].action
    <2>1. CASE RequestArrives(r)
      BY <1>1, <2>1, ArrivalFacts
    <2>2. CASE RecordPending(r)
      <3>1. UNCHANGED <<domain, feed>>
        BY <2>2 DEF RecordPending
      <3>2. PICK row : audit' = Append(audit, row)
        BY <2>2 DEF RecordPending
      <3>3. audit \in Seq(AuditRows \cup {row})
        BY <1>1
      <3> QED
        BY <1>1, <3>1, <3>2, <3>3
    <2>3. CASE CallSucceeds(r)
      BY <1>2, <2>3 DEF CallSucceeds
    <2>4. CASE CallFails(r)
      BY <1>1, <1>2, <2>4 DEF CallFails
    <2>5. CASE RecordOutcome(r)
      BY <1>1, <2>5, RecordOutcomeKeeps
    <2>6. CASE GatewayDies(r)
      BY <1>1, <2>6 DEF GatewayDies
    <2> QED
      BY <1>5, <2>1, <2>2, <2>3, <2>4, <2>5, <2>6 DEF RequestStep
  <1> QED
    BY <1>3, <1>4, <1>5 DEF WritesNext, UserChanges, Disallow

-----------------------------------------------------------------------------
(* The sync                                                                *)

LEMMA ContentIsContent ==
    ASSUME AccountTypes, NEW o \in Objects, NEW n \in 0 .. Len(feed)
    PROVE  IsContent(o, ContentAt(o, n), n) /\ ContentAt(o, n) \in Nat
  <1>1. PICK k : k = ContentAt(o, n)
    OBVIOUS
  <1>2. /\ k \in 0 .. n /\ n \in Nat
        /\ k # 0 => /\ feed[k].obj = o /\ feed[k].op \in {"create", "move"}
                    /\ \E i \in 1 .. n : feed[i].obj = o /\ feed[i].op = "create"
                    /\ \A i \in 1 .. n : feed[i].obj = o /\ feed[i].op \in {"create", "move"} => i <= k
    BY <1>1, ContentFacts DEF AccountTypes
  <1> QED
    BY <1>1, <1>2 DEF IsContent

\* What a sync tells of an object puts Winston's own moves and deletions down to him.
LEMMA CalendarTells ==
    ASSUME WritesInv, domain # "mail", NEW o \in Objects, NEW n \in 0 .. Len(feed),
           NEW k, IsContent(o, k, n), NEW e \in CalendarEvents(o, k, n)
    PROVE  e \in EventRecords /\ Owned(e)
  <1>1. AccountTypes /\ OneLife /\ \A i \in DOMAIN feed : Explained(i)
    BY DEF WritesInv
  <1>2. /\ Len(feed) \in Nat /\ DOMAIN feed = 1 .. Len(feed) /\ n \in Nat /\ n <= Len(feed)
        /\ \A i \in 1 .. n : i \in DOMAIN feed
    BY <1>1 DEF AccountTypes
  <1>3. PICK now : now = ContentAt(o, n)
    OBVIOUS
  <1>4. PICK at : at = LastChange(o, n)
    OBVIOUS
  <1>5. /\ now \in 0 .. n
        /\ now # 0 =>
              /\ feed[now].obj = o /\ feed[now].op \in {"create", "move"}
              /\ \A i \in 1 .. n : feed[i].obj = o =>
                    feed[i].op # "delete" /\ (feed[i].op \in {"create", "move"} => i <= now)
        /\ now = 0 => \/ \A i \in 1 .. n : feed[i].obj = o => feed[i].op # "create"
                      \/ \E i \in 1 .. n : feed[i].obj = o /\ feed[i].op = "delete"
    BY <1>1, <1>3, ContentFacts
  <1>6. /\ at \in 0 .. n /\ (at # 0 => feed[at].obj = o)
        /\ \A i \in 1 .. n : feed[i].obj = o => i <= at
    BY <1>1, <1>4, LastFacts
  <1>7. CASE now = 0
    <2>1. k # 0 /\ e = Event("cancelled", at, ChangedByWinston({"delete"}))
      BY <1>3, <1>4, <1>7 DEF CalendarEvents
    <2>2. PICK d \in 1 .. n : feed[d].obj = o /\ feed[d].op = "delete"
      BY <1>2, <1>5, <1>7, <2>1 DEF IsContent
    <2>3. at = d
      <3>1. d <= at /\ at \in 1 .. n /\ feed[at].obj = o
        BY <1>2, <1>6, <2>2
      <3> QED
        BY <1>1, <1>2, <2>2, <3>1 DEF OneLife
    <2>4. feed[at].by = "winston" => ChangedByWinston({"delete"})
      BY <1>1, <1>2, <2>2, <2>3 DEF Explained
    <2>5. PICK self \in BOOLEAN : self = ChangedByWinston({"delete"})
      BY DEF ChangedByWinston
    <2>6. e = [kind |-> "cancelled", at |-> at, self |-> self]
      BY <2>1, <2>5 DEF Event
    <2> QED
      BY <1>2, <2>2, <2>3, <2>4, <2>5, <2>6 DEF Owned, EventRecords
  <1>8. CASE now # 0
    <2>1. now <= at /\ at \in 1 .. n /\ feed[at].obj = o
      BY <1>2, <1>5, <1>6, <1>8
    <2>2. CASE k = 0
      <3>1. PICK self : self = MadeByWinston(Min({i \in 1 .. n : feed[i].obj = o /\ feed[i].op = "create"}), {"create"})
        OBVIOUS
      <3>2. e = Event("created", at, self)
        BY <1>3, <1>4, <1>8, <2>2, <3>1 DEF CalendarEvents
      <3>3. self \in BOOLEAN
        BY <3>1 DEF MadeByWinston
      <3>4. e = [kind |-> "created", at |-> at, self |-> self]
        BY <3>2 DEF Event
      <3> QED
        BY <1>2, <2>1, <3>3, <3>4 DEF Owned, EventRecords
    <2>3. CASE k # 0
      <3>1. now # k /\ e = Event("updated", at, ChangedByWinston({"move", "split"}))
        BY <1>3, <1>4, <1>8, <2>3 DEF CalendarEvents
      <3>2. /\ k \in 1 .. n /\ feed[k].obj = o /\ feed[k].op \in {"create", "move"}
            /\ \E i \in 1 .. k : feed[i].obj = o /\ feed[i].op = "create"
        BY <2>3 DEF IsContent
      <3>3. k < now
        BY <1>2, <1>5, <1>8, <3>1, <3>2
      <3>4. feed[now].op = "move"
        BY <1>1, <1>2, <1>5, <1>8, <3>2, <3>3 DEF OneLife
      <3>5. feed[now].by = "winston" => ChangedByWinston({"move", "split"})
        BY <1>1, <1>2, <1>5, <1>8, <3>4 DEF Explained
      <3>6. ContentAt(o, at) = now
        <4>1. PICK c : c = ContentAt(o, at)
          OBVIOUS
        <4>2. at \in 0 .. Len(feed)
          BY <1>2, <2>1
        <4>3. /\ c \in 0 .. at
              /\ c # 0 =>
                    /\ feed[c].obj = o /\ feed[c].op \in {"create", "move"}
                    /\ \A i \in 1 .. at : feed[i].obj = o =>
                          (feed[i].op \in {"create", "move"} => i <= c)
              /\ c = 0 => \/ \A i \in 1 .. at : feed[i].obj = o => feed[i].op # "create"
                          \/ \E i \in 1 .. at : feed[i].obj = o /\ feed[i].op = "delete"
          BY <1>1, <4>1, <4>2, ContentFacts
        <4>4. c # 0
          <5>1. PICK i \in 1 .. k : feed[i].obj = o /\ feed[i].op = "create"
            BY <3>2
          <5>2. i \in 1 .. at
            BY <1>2, <1>5, <2>1, <3>2, <3>3, <5>1
          <5>3. \A j \in 1 .. at : j \in 1 .. n
            BY <1>2, <2>1
          <5> QED
            BY <1>5, <1>8, <4>3, <5>1, <5>2, <5>3
        <4>5. c <= now
          BY <1>2, <1>5, <1>8, <2>1, <4>3, <4>4
        <4>6. now <= c
          BY <1>2, <1>5, <1>8, <2>1, <4>3, <4>4
        <4> QED
          BY <1>5, <1>2, <2>1, <4>1, <4>3, <4>5, <4>6
      <3>7. PICK self \in BOOLEAN : self = ChangedByWinston({"move", "split"})
        BY DEF ChangedByWinston
      <3>8. e = [kind |-> "updated", at |-> at, self |-> self]
        BY <3>1, <3>7 DEF Event
      <3>9. ContentAt(feed[at].obj, at) = now
        BY <2>1, <3>6
      <3> QED
        BY <1>2, <1>5, <1>8, <2>1, <3>5, <3>7, <3>8, <3>9 DEF Owned, EventRecords
    <2> QED
      BY <2>2, <2>3
  <1> QED
    BY <1>7, <1>8

LEMMA MailTells ==
    ASSUME WritesInv, NEW i \in 1 .. Len(feed), IsNews(i)
    PROVE  MailEvent(i) \in EventRecords /\ Owned(MailEvent(i))
  <1>1. i \in DOMAIN feed /\ Explained(i) /\ i \in Nat
    BY DEF WritesInv, AccountTypes
  <1>2. PICK made \in BOOLEAN : made = MadeByWinston(i, {"send", "draft"})
    BY DEF MadeByWinston
  <1>3. PICK changed \in BOOLEAN : changed = ChangedByWinston({"labels"})
    BY DEF ChangedByWinston
  <1>4. MailEvent(i) = IF feed[i].op = "receive" THEN [kind |-> "received", at |-> i, self |-> FALSE]
                       ELSE IF feed[i].op = "send" THEN [kind |-> "sent", at |-> i, self |-> made]
                       ELSE [kind |-> "labels", at |-> i, self |-> changed]
    BY <1>2, <1>3 DEF MailEvent, Event
  <1>5. PICK e : e = MailEvent(i)
    OBVIOUS
  <1>6. CASE feed[i].op \in {"receive", "send"}
    <2>1. PICK kind \in {"received", "sent"}, self \in BOOLEAN :
             e = [kind |-> kind, at |-> i, self |-> self]
      BY <1>4, <1>5, <1>6
    <2>2. e.kind = kind /\ e.at = i /\ e \in EventRecords
      BY <1>1, <2>1 DEF EventRecords
    <2> QED
      BY <1>1, <1>5, <2>2 DEF Owned
  <1>7. CASE feed[i].op = "labels"
    <2>1. e = [kind |-> "labels", at |-> i, self |-> changed]
      BY <1>4, <1>5, <1>7
    <2>2. feed[i].by = "winston" => changed
      BY <1>1, <1>3, <1>7 DEF Explained
    <2> QED
      BY <1>1, <1>5, <2>1, <2>2 DEF Owned, EventRecords
  <1> QED
    BY <1>6, <1>7 DEF IsNews

\* The provider's changes leave what the sync keeps as true as it was.
LEMMA GrowthKeeps ==
    ASSUME AccountInv, WritesInv', UNCHANGED <<domain, syncVars>>,
           Len(feed) <= Len(feed'), Len(audit) <= Len(audit'),
           \A i \in DOMAIN feed : feed'[i] = feed[i]
    PROVE  SyncsInv'
  <1>1. AccountTypes /\ AccountTypes' /\ SyncsInv
    BY DEF AccountInv, WritesInv
  <1>2. /\ DOMAIN feed = 1 .. Len(feed) /\ DOMAIN feed' = 1 .. Len(feed')
        /\ Len(feed) \in Nat /\ Len(feed') \in Nat
        /\ \A i \in 1 .. Len(feed) : i \in DOMAIN feed' /\ feed'[i] = feed[i]
    BY <1>1 DEF AccountTypes
  <1>3. \A i \in DOMAIN feed : feed[i].obj \in Objects
    <2>1. \A i \in DOMAIN feed : feed[i] \in Changes
      BY <1>1 DEF AccountTypes
    <2> QED
      BY <2>1 DEF Changes
  <1>4. ASSUME NEW o, NEW k, NEW m \in Nat, NEW n \in Nat, m <= Len(feed), m <= n,
               IsContent(o, k, m)
        PROVE  IsContent(o, k, n)'
    BY <1>2, <1>4 DEF IsContent
  <1>5. ASSUME NEW e, Owned(e)
        PROVE  Owned(e)'
    <2>1. e.at \in 1 .. Len(feed) /\ feed'[e.at] = feed[e.at] /\ feed[e.at].obj \in Objects
      BY <1>2, <1>3, <1>5 DEF Owned
    <2>2. PICK o \in Objects, at \in 0 .. Len(feed) : o = feed[e.at].obj /\ at = e.at
      BY <1>2, <2>1
    <2>3. ContentAt(o, at)' = ContentAt(o, at)
      BY <1>1, FeedGrows
    <2>4. CASE e.kind # "updated"
      BY <1>2, <1>5, <2>1, <2>4 DEF Owned
    <2>5. CASE e.kind = "updated"
      <3>1. PICK c : c = ContentAt(o, at)
        OBVIOUS
      <3>2. c \in DOMAIN feed /\ (feed[c].by = "winston" => e.self)
        BY <1>5, <2>2, <2>5, <3>1 DEF Owned
      <3>3. feed'[c] = feed[c] /\ c \in DOMAIN feed'
        BY <1>2, <3>2
      <3> QED
        BY <1>2, <2>1, <2>2, <2>3, <2>5, <3>1, <3>2, <3>3 DEF Owned
    <2> QED
      BY <2>4, <2>5
  <1>6. ASSUME NEW s \in SyncSlots
        PROVE  SlotOk(sync[s])'
    <2>1. PICK t \in SyncRecords : t = sync[s] /\ SlotOk(t)
      BY <1>1 DEF SyncsInv
    <2>2. t.upto \in 0 .. Len(feed')
      BY <1>2, <2>1 DEF SlotOk
    <2>3. \A o \in Objects : IsContent(o, t.known[o], Len(feed))'
      <3> SUFFICES ASSUME NEW o \in Objects
                   PROVE  IsContent(o, t.known[o], Len(feed))'
        OBVIOUS
      <3>1. IsContent(o, t.known[o], Len(feed))
        BY <2>1 DEF SlotOk
      <3>2. PICK m \in Nat : m = Len(feed')
        BY <1>2
      <3>3. IsContent(o, t.known[o], m)'
        BY <1>2, <1>4, <3>1, <3>2
      <3> QED
        BY <3>2, <3>3
    <2>4. t.pc \in {"describe", "store"} /\ domain # "mail" =>
             \A o \in Objects : IsContent(o, t.known[o], t.upto)'
      BY <1>2, <1>4, <2>1 DEF SlotOk
    <2>5. t.pc \in {"describe", "store"} /\ domain = "mail" =>
             \A i \in t.items : i \in 1 .. Len(feed') /\ IsNews(i)'
      BY <1>2, <2>1 DEF SlotOk, IsNews
    <2>6. \A e \in t.found : Owned(e)'
      BY <1>5, <2>1 DEF SlotOk
    <2>7. SlotOk(t)'
      BY <2>1, <2>2, <2>3, <2>4, <2>5, <2>6 DEF SlotOk
    <2>8. sync' = sync
      BY DEF syncVars
    <2> QED
      BY <2>1, <2>7, <2>8
  <1>7. \A o \in Objects : IsContent(o, snapshot[o], Len(feed))'
    <2> SUFFICES ASSUME NEW o \in Objects
                 PROVE  IsContent(o, snapshot[o], Len(feed))'
      OBVIOUS
    <2>1. PICK k \in Nat, m \in Nat : k = snapshot[o] /\ m = Len(feed')
      BY <1>1, <1>2 DEF SyncsInv
    <2>2. IsContent(o, k, Len(feed))
      BY <1>1, <2>1 DEF SyncsInv
    <2>3. IsContent(o, k, m)'
      BY <1>2, <1>4, <2>1, <2>2
    <2>4. snapshot' = snapshot
      BY DEF syncVars
    <2> QED
      BY <2>1, <2>3, <2>4
  <1>8. UNCHANGED <<token, snapshot, events, sync>>
    BY DEF syncVars
  <1> QED
    BY <1>1, <1>5, <1>6, <1>7, <1>8 DEF SyncsInv

\* With the provider as it was, what was true of a record is true of it.
LEMMA SlotStays ==
    ASSUME UNCHANGED <<domain, feed>>
    PROVE  /\ \A t : SlotOk(t) => SlotOk(t)'
           /\ \A e : Owned(e) => Owned(e)'
           /\ \A o, k, n : IsContent(o, k, n) => IsContent(o, k, n)'
  <1>1. ASSUME NEW o, NEW n
        PROVE  ContentAt(o, n)' = ContentAt(o, n)
    BY DEF ContentAt
  <1>2. ASSUME NEW o, NEW k, NEW n, IsContent(o, k, n)
        PROVE  IsContent(o, k, n)'
    BY <1>2 DEF IsContent
  <1>3. ASSUME NEW e, Owned(e)
        PROVE  Owned(e)'
    <2>1. PICK o, at : o = feed[e.at].obj /\ at = e.at
      OBVIOUS
    <2>2. ContentAt(feed[e.at].obj, e.at)' = ContentAt(feed[e.at].obj, e.at)
      BY <1>1, <2>1
    <2> QED
      BY <1>3, <2>2 DEF Owned
  <1>4. ASSUME NEW t, SlotOk(t)
        PROVE  SlotOk(t)'
    <2>1. \A i : IsNews(i) => IsNews(i)'
      BY DEF IsNews
    <2>2. \A o \in Objects : IsContent(o, t.known[o], Len(feed))'
      BY <1>4 DEF SlotOk, IsContent
    <2>3. t.pc \in {"describe", "store"} /\ domain # "mail" => \A o \in Objects : IsContent(o, t.known[o], t.upto)'
      BY <1>2, <1>4 DEF SlotOk
    <2> QED
      BY <1>3, <1>4, <2>1, <2>2, <2>3 DEF SlotOk
  <1> QED
    BY <1>2, <1>3, <1>4

LEMMA SlotKeeps ==
    ASSUME AccountInv, UNCHANGED <<domain, feed, audit, request, token, snapshot, events>>,
           NEW s \in SyncSlots, NEW new \in SyncRecords, SlotOk(new),
           sync' = [sync EXCEPT ![s] = new]
    PROVE  AccountInv'
  <1>1. SyncsInv
    BY DEF AccountInv
  <1>2. WritesInv'
    BY WritesStay DEF AccountInv
  <1>3. /\ sync' \in [SyncSlots -> SyncRecords] /\ sync'[s] = new
        /\ \A u \in SyncSlots \ {s} : sync'[u] = sync[u]
    BY <1>1 DEF SyncsInv
  <1>4. ASSUME NEW u \in SyncSlots
        PROVE  SlotOk(sync[u])'
    <2>1. PICK t : t = sync'[u]
      OBVIOUS
    <2>2. SlotOk(t)
      BY <1>1, <1>3, <2>1 DEF SyncsInv
    <2>3. SlotOk(t)'
      BY <2>2, SlotStays
    <2> QED
      BY <2>1, <2>3
  <1>5. \A e \in events : Owned(e)'
    BY <1>1, SlotStays DEF SyncsInv
  <1>6. \A o \in Objects : IsContent(o, snapshot[o], Len(feed))'
    BY <1>1 DEF SyncsInv, IsContent
  <1> QED
    BY <1>1, <1>2, <1>3, <1>4, <1>5, <1>6 DEF AccountInv, SyncsInv

LEMMA IdleSlot == ASSUME AccountInv PROVE NoSync \in SyncRecords /\ SlotOk(NoSync)
  <1>1. Len(feed) \in Nat
    BY DEF AccountInv, WritesInv, AccountTypes
  <1> QED
    BY <1>1 DEF NoSync, NoContent, SyncRecords, SlotOk, IsContent, Objects

LEMMA StartKeeps ==
    ASSUME AccountInv, NEW s \in SyncSlots, SyncStarts(s)
    PROVE  AccountInv'
  <1>1. UNCHANGED <<domain, feed, audit, request, token, snapshot, events>>
    BY DEF SyncStarts, writesVars
  <1>2. PICK pc \in {"read", "known"} : pc = IF domain = "mail" THEN "read" ELSE "known"
    OBVIOUS
  <1>3. PICK number \in Nat : number = token
    BY DEF AccountInv, SyncsInv
  <1>4. PICK new : new = [NoSync EXCEPT !.token = number, !.pc = pc]
    OBVIOUS
  <1>5. sync' = [sync EXCEPT ![s] = new]
    BY <1>2, <1>3, <1>4 DEF SyncStarts
  <1>6. NoSync \in SyncRecords /\ SlotOk(NoSync)
    BY IdleSlot
  <1>7. /\ new \in SyncRecords /\ new.pc = pc /\ new.upto = NoSync.upto
        /\ new.known = NoSync.known /\ new.items = NoSync.items /\ new.found = NoSync.found
    BY <1>4, <1>6 DEF SyncRecords
  <1>8. SlotOk(new)
    BY <1>6, <1>7 DEF SlotOk
  <1> QED
    BY <1>1, <1>5, <1>7, <1>8, SlotKeeps

LEMMA ReadKnownKeeps ==
    ASSUME AccountInv, NEW s \in SyncSlots, ReadKnown(s)
    PROVE  AccountInv'
  <1>1. UNCHANGED <<domain, feed, audit, request, token, snapshot, events>>
    BY DEF ReadKnown, writesVars
  <1>2. SyncsInv
    BY DEF AccountInv
  <1>3. PICK old \in SyncRecords : old = sync[s] /\ SlotOk(old)
    BY <1>2 DEF SyncsInv
  <1>4. PICK known \in [Objects -> Nat] : known = snapshot
    BY <1>2 DEF SyncsInv
  <1>5. PICK new : new = [old EXCEPT !.pc = "read", !.known = known]
    OBVIOUS
  <1>6. sync' = [sync EXCEPT ![s] = new]
    BY <1>3, <1>4, <1>5 DEF ReadKnown
  <1>7. /\ new \in SyncRecords /\ new.pc = "read" /\ new.upto = old.upto
        /\ new.known = known /\ new.items = old.items /\ new.found = old.found
    BY <1>5 DEF SyncRecords
  <1>8. SlotOk(new)
    BY <1>2, <1>3, <1>4, <1>7 DEF SlotOk, SyncsInv
  <1> QED
    BY <1>1, <1>6, <1>7, <1>8, SlotKeeps

LEMMA ReadChangesKeeps ==
    ASSUME AccountInv, NEW s \in SyncSlots, ReadChanges(s)
    PROVE  AccountInv'
  <1>1. UNCHANGED <<domain, feed, audit, request, token, snapshot, events>>
    BY DEF ReadChanges, writesVars
  <1>2. SyncsInv /\ AccountTypes
    BY DEF AccountInv, WritesInv
  <1>3. PICK old \in SyncRecords : old = sync[s] /\ SlotOk(old)
    BY <1>2 DEF SyncsInv
  <1>4. PICK n \in Nat : n = Len(feed)
    BY <1>2 DEF AccountTypes
  <1>5. old.token \in Nat
    BY DEF SyncRecords
  <1>6. PICK items : items = IF domain = "mail" THEN MailItems(old.token, n) ELSE CalendarItems(old.token, n)
    OBVIOUS
  <1>7. /\ items \in SUBSET Nat
        /\ domain = "mail" => \A i \in items : i \in 1 .. n /\ IsNews(i)
        /\ domain # "mail" => items \subseteq Objects
    <2>1. CASE domain = "mail"
      <3>1. \A i \in items : i \in 1 .. n /\ IsNews(i)
        BY <1>4, <1>5, <1>6, <2>1 DEF MailItems, IsMessage, IsNews
      <3> QED
        BY <2>1, <3>1
    <2>2. CASE domain # "mail"
      <3>1. items \subseteq Objects
        BY <1>6, <2>2 DEF CalendarItems
      <3> QED
        BY <2>2, <3>1 DEF Objects
    <2> QED
      BY <2>1, <2>2
  <1>8. PICK skipped : skipped = Skipped(old.token, n)
    OBVIOUS
  <1>9. skipped \in SUBSET Nat
    BY <1>4, <1>5, <1>8 DEF Skipped, Objects
  <1>10. PICK first \in BOOLEAN : first = (old.token = NoToken)
    OBVIOUS
  <1>11. PICK new : new = [old EXCEPT !.pc = "describe", !.upto = n, !.first = first,
                                      !.items = items, !.skipped = skipped]
    OBVIOUS
  <1>12. sync' = [sync EXCEPT ![s] = new]
    BY <1>3, <1>4, <1>6, <1>8, <1>10, <1>11 DEF ReadChanges
  <1>13. /\ new \in SyncRecords /\ new.pc = "describe" /\ new.upto = n
         /\ new.known = old.known /\ new.items = items /\ new.found = old.found
    BY <1>7, <1>9, <1>11 DEF SyncRecords
  <1>14. SlotOk(new)
    <2>1. \A o \in Objects : IsContent(o, new.known[o], Len(feed)) /\ IsContent(o, new.known[o], new.upto)
      BY <1>3, <1>4, <1>13 DEF SlotOk
    <2>2. new.upto \in 0 .. Len(feed) /\ new.items = items
      BY <1>4, <1>13
    <2>3. /\ domain # "mail" => new.items \subseteq Objects
          /\ domain = "mail" => \A i \in new.items : i \in 1 .. Len(feed) /\ IsNews(i)
      BY <1>4, <1>7, <2>2
    <2>4. \A e \in new.found : Owned(e)
      BY <1>3, <1>13 DEF SlotOk
    <2> QED
      BY <2>1, <2>2, <2>3, <2>4 DEF SlotOk
  <1> QED
    BY <1>1, <1>12, <1>13, <1>14, SlotKeeps

\* A sync that describes looks each of its changes up in the audit log.
LEMMA DescribeKeeps ==
    ASSUME AccountInv, NEW s \in SyncSlots, Describe(s)
    PROVE  AccountInv'
  <1>1. UNCHANGED <<domain, feed, audit, request, token, snapshot, events>>
    BY DEF Describe, writesVars
  <1>2. SyncsInv /\ WritesInv /\ AccountTypes
    BY DEF AccountInv, WritesInv
  <1>3. PICK old \in SyncRecords : old = sync[s] /\ SlotOk(old) /\ old.pc = "describe"
    BY <1>2 DEF SyncsInv, Describe
  <1>4. PICK found : found = (IF old.first THEN {}
                              ELSE IF domain = "mail" THEN {MailEvent(i) : i \in old.items}
                              ELSE UNION {CalendarEvents(o, old.known[o], old.upto) : o \in old.items})
    OBVIOUS
  <1>5. ASSUME NEW e \in found
        PROVE  e \in EventRecords /\ Owned(e)
    <2>1. CASE domain = "mail"
      <3>1. PICK i \in old.items : e = MailEvent(i)
        BY <1>4, <2>1
      <3>2. i \in 1 .. Len(feed) /\ IsNews(i)
        BY <1>3, <2>1 DEF SlotOk
      <3>3. MailEvent(i) \in EventRecords /\ Owned(MailEvent(i))
        BY <1>2, <3>2, MailTells
      <3> QED
        BY <3>1, <3>3
    <2>2. CASE domain # "mail"
      <3>1. PICK o \in old.items : e \in CalendarEvents(o, old.known[o], old.upto)
        BY <1>4, <2>2
      <3>2. PICK k, n : k = old.known[o] /\ n = old.upto
        OBVIOUS
      <3>3. o \in Objects /\ n \in 0 .. Len(feed) /\ IsContent(o, k, n)
        BY <1>3, <2>2, <3>2 DEF SlotOk
      <3>4. e \in CalendarEvents(o, k, n)
        BY <3>1, <3>2
      <3> QED
        BY <1>2, <2>2, <3>3, <3>4, CalendarTells
    <2> QED
      BY <2>1, <2>2
  <1>6. PICK new : new = [old EXCEPT !.pc = "store", !.found = found]
    OBVIOUS
  <1>7. sync' = [sync EXCEPT ![s] = [old EXCEPT !.pc = "store", !.found = found]]
    BY <1>3, <1>4 DEF Describe
  <1>8. sync' = [sync EXCEPT ![s] = new]
    BY <1>6, <1>7
  <1>9. found \in SUBSET EventRecords
    BY <1>5
  <1>10. /\ new \in SyncRecords /\ new.pc = "store" /\ new.upto = old.upto
         /\ new.known = old.known /\ new.items = old.items /\ new.found = found
    BY <1>6, <1>9 DEF SyncRecords
  <1>11. SlotOk(new)
    BY <1>3, <1>5, <1>10 DEF SlotOk
  <1> QED
    BY <1>1, <1>8, <1>10, <1>11, SlotKeeps

\* Events, snapshots and checkpoint are stored together.
LEMMA StoreKeeps ==
    ASSUME AccountInv, NEW s \in SyncSlots, StoreSync(s)
    PROVE  AccountInv'
  <1>1. UNCHANGED <<domain, feed, audit, request>>
    BY DEF StoreSync, writesVars
  <1>2. SyncsInv /\ WritesInv /\ AccountTypes
    BY DEF AccountInv, WritesInv
  <1>3. PICK old \in SyncRecords : old = sync[s] /\ SlotOk(old)
    BY <1>2 DEF SyncsInv
  <1>4. /\ events' = events \cup New(old.found) /\ token' = old.upto
        /\ snapshot' = [o \in Objects |-> IF domain = "calendar" /\ o \in old.items
                                          THEN ContentAt(o, old.upto) ELSE snapshot[o]]
        /\ sync' = [sync EXCEPT ![s] = NoSync]
    BY <1>3 DEF StoreSync, Stored
  <1>5. Len(feed) \in Nat /\ old.upto \in Nat /\ old.upto <= Len(feed) /\ old.upto \in 0 .. Len(feed)
    BY <1>2, <1>3 DEF SlotOk, AccountTypes
  <1>6. /\ events' \in SUBSET EventRecords
        /\ \A e \in events' : Owned(e)
    BY <1>2, <1>3, <1>4 DEF SyncsInv, SlotOk, New, SyncRecords
  <1>7. ASSUME NEW o \in Objects
        PROVE  snapshot'[o] \in Nat /\ IsContent(o, snapshot'[o], Len(feed))
    <2>1. CASE domain = "calendar" /\ o \in old.items
      <3>1. PICK k : k = ContentAt(o, old.upto)
        OBVIOUS
      <3>2. k \in Nat /\ IsContent(o, k, old.upto)
        BY <1>2, <1>5, <3>1, ContentIsContent
      <3>3. IsContent(o, k, Len(feed))
        BY <1>5, <3>2 DEF IsContent
      <3>4. snapshot'[o] = k
        BY <1>4, <2>1, <3>1
      <3> QED
        BY <3>2, <3>3, <3>4
    <2>2. CASE ~(domain = "calendar" /\ o \in old.items)
      BY <1>2, <1>4, <2>2 DEF SyncsInv
    <2> QED
      BY <2>1, <2>2
  <1>8. /\ snapshot' \in [Objects -> Nat]
        /\ \A o \in Objects : IsContent(o, snapshot'[o], Len(feed))
    <2>1. PICK after : after = snapshot'
      OBVIOUS
    <2>2. \A o \in Objects : after[o] \in Nat
      BY <1>7, <2>1
    <2>3. after = [o \in Objects |-> after[o]]
      BY <1>4, <2>1
    <2>4. after \in [Objects -> Nat]
      BY <2>2, <2>3
    <2> QED
      BY <1>7, <2>1, <2>4
  <1>9. /\ sync' \in [SyncSlots -> SyncRecords]
        /\ \A u \in SyncSlots : SlotOk(sync'[u])
    BY <1>2, <1>4, IdleSlot DEF SyncsInv
  <1>10. SyncsInv'
    <2>1. \A u \in SyncSlots : SlotOk(sync[u])'
      <3> SUFFICES ASSUME NEW u \in SyncSlots
                   PROVE  SlotOk(sync[u])'
        OBVIOUS
      <3>1. PICK t : t = sync'[u] /\ SlotOk(t)
        BY <1>9
      <3>2. SlotOk(t)'
        BY <1>1, <3>1, SlotStays
      <3> QED
        BY <3>1, <3>2
    <2>2. \A o \in Objects : IsContent(o, snapshot[o], Len(feed))'
      BY <1>1, <1>8 DEF IsContent
    <2>3. \A e \in events' : Owned(e)'
      BY <1>1, <1>6, SlotStays
    <2>4. token' \in Nat
      BY <1>4, <1>5
    <2> QED
      BY <1>6, <1>8, <1>9, <2>1, <2>2, <2>3, <2>4 DEF SyncsInv
  <1> QED
    BY <1>1, <1>2, <1>10, WritesStay DEF AccountInv

LEMMA FailKeeps ==
    ASSUME AccountInv, NEW s \in SyncSlots, SyncFails(s)
    PROVE  AccountInv'
  BY IdleSlot, SlotKeeps DEF SyncFails

\* What moves none of the slots.
LEMMA TokenKeeps ==
    ASSUME AccountInv, UNCHANGED <<domain, feed, audit, request, snapshot, events, sync>>,
           token' \in Nat
    PROVE  AccountInv'
  <1>1. WritesInv' /\ SyncsInv
    BY WritesStay DEF AccountInv
  <1>2. \A u \in SyncSlots : SlotOk(sync[u])'
    <2> SUFFICES ASSUME NEW u \in SyncSlots
                 PROVE  SlotOk(sync[u])'
      OBVIOUS
    <2>1. PICK t : t = sync[u] /\ SlotOk(t)
      BY <1>1 DEF SyncsInv
    <2>2. SlotOk(t)'
      BY <2>1, SlotStays
    <2> QED
      BY <2>1, <2>2
  <1>3. \A e \in events : Owned(e)'
    BY <1>1, SlotStays DEF SyncsInv
  <1>4. \A o \in Objects : IsContent(o, snapshot[o], Len(feed))'
    BY <1>1 DEF SyncsInv, IsContent
  <1> QED
    BY <1>1, <1>2, <1>3, <1>4 DEF AccountInv, SyncsInv

LEMMA AccountStarts == AccountInit => AccountInv
  <1> SUFFICES ASSUME AccountInit
               PROVE  AccountInv
    OBVIOUS
  <1>1. WritesInv
    BY WritesStart DEF AccountInit
  <1>2. Len(feed) = 0
    BY DEF AccountInit, WritesInit
  <1>3. NoSync \in SyncRecords /\ SlotOk(NoSync)
    BY <1>2 DEF NoSync, NoContent, SyncRecords, SlotOk, IsContent, Objects
  <1>4. token \in Nat
    BY AccountWritesAssumption DEF AccountInit, NoToken
  <1>5. /\ snapshot \in [Objects -> Nat] /\ events = {}
        /\ \A o \in Objects : IsContent(o, snapshot[o], Len(feed))
    BY DEF AccountInit, NoContent, IsContent
  <1> QED
    BY <1>1, <1>3, <1>4, <1>5 DEF AccountInit, AccountInv, SyncsInv

LEMMA AccountKeeps ==
    ASSUME AccountInv, [AccountNext]_accountVars
    PROVE  AccountInv'
  <1>1. token \in Nat /\ Len(feed) \in Nat /\ WritesInv
    BY DEF AccountInv, SyncsInv, WritesInv, AccountTypes
  <1>2. CASE WritesNext /\ UNCHANGED syncVars
    BY <1>1, <1>2, WritesKeep, WritesGrow, GrowthKeeps DEF AccountInv
  <1>3. CASE MailPush \/ CalendarPush \/ Reconcile \/ WatchMail \/ ProviderForgets
    <2>1. UNCHANGED <<domain, feed, audit, request, snapshot, events, sync>> /\ token' \in Nat
      BY <1>1, <1>3 DEF MailPush, CalendarPush, Reconcile, AskSync, WatchMail, ProviderForgets,
                        writesVars
    <2> QED
      BY <2>1, TokenKeeps
  <1>4. ASSUME NEW s \in SyncSlots, SyncStep(s)
        PROVE  AccountInv'
    BY <1>4, StartKeeps, ReadKnownKeeps, ReadChangesKeeps, DescribeKeeps, StoreKeeps, FailKeeps
       DEF SyncStep
  <1>5. CASE UNCHANGED accountVars
    <2>1. UNCHANGED <<domain, feed, audit, request, snapshot, events, sync, token>>
      BY <1>5 DEF accountVars, writesVars, syncVars
    <2> QED
      BY <1>1, <2>1, TokenKeeps
  <1> QED
    BY <1>2, <1>3, <1>4, <1>5 DEF AccountNext

\* Whatever fails and in whatever order the calls, their rows and the syncs come, each
\* effect of Winston's is on record, and what the sync tells of his own moves, deletions
\* and labels is put down to him (audit.ts, sync-mail.ts, sync-calendar.ts).
THEOREM EffectsAreTold == AccountSpec => []EffectsTold
  <1>1. AccountInit => AccountInv
    BY AccountStarts
  <1>2. AccountInv /\ [AccountNext]_accountVars => AccountInv'
    BY AccountKeeps
  <1>3. AccountInv => EffectsTold
    BY EveryEffectOnRecord DEF AccountInv, SyncsInv, EffectsTold, OwnChangesKnown, Owned
  <1> QED
    BY <1>1, <1>2, <1>3, PTL DEF AccountSpec

-----------------------------------------------------------------------------
(* What the checkpoint stands for                                          *)

\* What the checkpoint stands for: news before it is told, or was passed over.
Told(i) == i \in forgotten \/ \E e \in events : e.at = i /\ e.kind \in {"received", "sent"}
TokenOk(t) ==
    \/ t = NoToken
    \/ /\ t \in 0 .. Len(feed)
       /\ domain = "mail" => \A i \in 1 .. t : IsMessage(i) => Told(i)

GoneBy(o, n) == \E i \in 1 .. n : feed[i].obj = o /\ feed[i].op = "delete"

\* An object has one event of a sync's, a message one event.
SingleEvents(found) ==
    \A e, f \in found :
        e.at = f.at \/ (domain # "mail" /\ feed[e.at].obj = feed[f.at].obj) => e = f

\* A calendar's snapshots are its checkpoint's.
SnapshotsTrue ==
    /\ token = NoToken => \A o \in Objects : snapshot[o] = 0
    /\ token # NoToken => \A o \in Objects : snapshot[o] = ContentAt(o, token) \/ o \in forgotten
    /\ \A e \in events : e.kind = "created" =>
          token # NoToken /\ (snapshot[feed[e.at].obj] # 0 \/ GoneBy(feed[e.at].obj, token))

\* What a sync has read of the mail goes from its token to the end.
MailSlotTrue(t) ==
    /\ t.pc \in {"describe", "store"} =>
          \A i \in 1 .. t.upto : IsMessage(i) =>
              \/ t.token # NoToken /\ i <= t.token
              \/ i \in t.items /\ ~t.first
              \/ i \in t.skipped
    /\ t.pc = "store" /\ ~t.first =>
          \A i \in t.items : IsMessage(i) =>
              \E e \in t.found : e.at = i /\ e.kind \in {"received", "sent"}
    /\ t.pc = "store" => \A e \in t.found : e.kind # "created"

\* And of a calendar: what is not among its objects is as it was.
CalendarSlotTrue(t) ==
    /\ t.pc # "idle" => t.token = token
    /\ t.pc \in {"read", "describe", "store"} => t.known = snapshot
    /\ t.pc \in {"describe", "store"} =>
          /\ token # NoToken => token <= t.upto
          /\ \A o \in Objects \ t.items :
                snapshot[o] = ContentAt(o, t.upto) \/ o \in forgotten \/ o \in t.skipped
    /\ t.pc = "store" =>
          \A e \in t.found : e.kind = "created" =>
              /\ feed[e.at].obj \in t.items /\ t.known[feed[e.at].obj] = 0
              /\ ContentAt(feed[e.at].obj, t.upto) # 0

SlotTrue(t) ==
    /\ t.pc # "idle" => TokenOk(t.token) /\ domain # "ramp"
    /\ t.pc = "store" => SingleEvents(t.found)
    /\ domain = "mail" => MailSlotTrue(t)
    /\ domain = "calendar" => CalendarSlotTrue(t)

TruthInv ==
    /\ Len(feed) <= MaxChanges
    /\ TokenOk(token)
    /\ domain = "ramp" => ~syncAsked
    /\ AnnouncedOnce
    /\ domain = "calendar" => SnapshotsTrue
    /\ \A s \in SyncSlots : SlotTrue(sync[s])

OneSlot == \A s, t \in SyncSlots : s = t

\* One sync at a time, or of mail, where what is told twice is stored once.
InOrder == OneSlot \/ domain # "calendar"

LEMMA FeedBounded ==
    ASSUME WritesInv, Len(feed) <= MaxChanges, WritesNext
    PROVE  Len(feed') <= MaxChanges
  <1>1. feed \in Seq(Changes) /\ Len(feed) \in Nat /\ MaxChanges \in Nat
    BY AccountWritesAssumption DEF WritesInv, AccountTypes
  <1>2. ASSUME NEW c, feed' = Append(feed, c), Room
        PROVE  Len(feed') <= MaxChanges
    <2>1. feed \in Seq(Changes \cup {c})
      BY <1>1
    <2> QED
      BY <1>1, <1>2, <2>1 DEF Room
  <1>3. CASE UserChanges
    BY <1>2, <1>3 DEF UserChanges
  <1>4. CASE Disallow
    BY <1>4 DEF Disallow
  <1>5. ASSUME NEW r \in Requests, RequestStep(r)
        PROVE  Len(feed') <= MaxChanges
    <2>1. CASE RequestArrives(r)
      BY <2>1, ArrivalFacts
    <2>2. CASE RecordPending(r) \/ GatewayDies(r)
      BY <2>2 DEF RecordPending, GatewayDies
    <2>3. CASE CallSucceeds(r)
      BY <1>2, <2>3 DEF CallSucceeds
    <2>4. CASE CallFails(r)
      BY <1>2, <2>4 DEF CallFails
    <2>5. CASE RecordOutcome(r)
      BY <2>5, RecordOutcomeKeeps
    <2> QED
      BY <1>5, <2>1, <2>2, <2>3, <2>4, <2>5 DEF RequestStep
  <1> QED
    BY <1>3, <1>4, <1>5 DEF WritesNext

\* What is told stays told, and the provider's past is what it was.
LEMMA OnceTold ==
    ASSUME AccountTypes, UNCHANGED domain, Len(feed) <= Len(feed'), Len(feed') \in Nat,
           \A i \in DOMAIN feed : feed'[i] = feed[i],
           events \subseteq events', forgotten \subseteq forgotten',
           NEW t, TokenOk(t)
    PROVE  TokenOk(t)'
  <1>1. Len(feed) \in Nat /\ DOMAIN feed = 1 .. Len(feed)
    BY DEF AccountTypes
  <1>2. ASSUME NEW i \in 1 .. Len(feed)
        PROVE  (IsMessage(i)' => IsMessage(i)) /\ (Told(i) => Told(i)')
    BY <1>1 DEF IsMessage, Told
  <1>3. CASE t = NoToken
    BY <1>3 DEF TokenOk, NoToken
  <1>4. CASE t # NoToken
    <2>1. t \in 0 .. Len(feed) /\ (domain = "mail" => \A i \in 1 .. t : IsMessage(i) => Told(i))
      BY <1>4 DEF TokenOk
    <2>2. t \in 0 .. Len(feed') /\ \A i \in 1 .. t : i \in 1 .. Len(feed)
      BY <1>1, <2>1
    <2>3. domain' = "mail" => \A i \in 1 .. t : IsMessage(i)' => Told(i)'
      BY <1>2, <2>1, <2>2
    <2> QED
      BY <2>2, <2>3 DEF TokenOk
  <1> QED
    BY <1>3, <1>4

LEMMA SlotFrame ==
    ASSUME AccountTypes, AccountTypes', UNCHANGED domain, Len(feed) <= Len(feed'),
           \A i \in DOMAIN feed : feed'[i] = feed[i],
           events \subseteq events', forgotten \subseteq forgotten',
           domain = "calendar" => UNCHANGED <<token, snapshot>>,
           NEW t \in SyncRecords, SlotOk(t), SlotTrue(t)
    PROVE  SlotTrue(t)'
  <1>1. /\ Len(feed) \in Nat /\ DOMAIN feed = 1 .. Len(feed) /\ Len(feed') \in Nat
        /\ \A i \in 1 .. Len(feed) : feed'[i] = feed[i]
    BY DEF AccountTypes
  <1>2. \A i \in 1 .. Len(feed) : feed[i].obj \in Objects
    <2>1. \A i \in 1 .. Len(feed) : feed[i] \in Changes
      BY DEF AccountTypes
    <2> QED
      BY <2>1 DEF Changes
  <1>3. /\ t.upto \in 0 .. Len(feed) /\ (\A i \in 1 .. t.upto : i \in 1 .. Len(feed))
        /\ \A e \in t.found : e.at \in 1 .. Len(feed)
    BY <1>1 DEF SlotOk, Owned
  <1>4. \A i \in 1 .. Len(feed) : IsMessage(i)' => IsMessage(i)
    BY <1>1 DEF IsMessage
  <1>5. ASSUME NEW o \in Objects
        PROVE  ContentAt(o, t.upto)' = ContentAt(o, t.upto)
    <2>1. PICK n \in 0 .. Len(feed) : n = t.upto
      BY <1>3
    <2>2. ContentAt(o, n)' = ContentAt(o, n)
      BY FeedGrows
    <2> QED
      BY <2>1, <2>2
  <1>6. t.pc # "idle" => TokenOk(t.token)'
    <2>1. PICK number : number = t.token
      OBVIOUS
    <2>2. TokenOk(number) => TokenOk(number)'
      BY <1>1, OnceTold
    <2> QED
      BY <2>1, <2>2 DEF SlotTrue
  <1>7. t.pc = "store" => SingleEvents(t.found)'
    BY <1>1, <1>3 DEF SlotTrue, SingleEvents
  <1>8. domain = "mail" => MailSlotTrue(t)'
    <2> SUFFICES ASSUME domain = "mail"
                 PROVE  MailSlotTrue(t)'
      OBVIOUS
    <2>1. MailSlotTrue(t)
      BY DEF SlotTrue
    <2>2. t.pc \in {"describe", "store"} => \A i \in t.items : i \in 1 .. Len(feed)
      BY DEF SlotOk
    <2> QED
      BY <1>3, <1>4, <2>1, <2>2 DEF MailSlotTrue, NoToken
  <1>9. domain = "calendar" => CalendarSlotTrue(t)'
    <2> SUFFICES ASSUME domain = "calendar"
                 PROVE  CalendarSlotTrue(t)'
      OBVIOUS
    <2>1. CalendarSlotTrue(t) /\ UNCHANGED <<token, snapshot>>
      BY DEF SlotTrue
    <2>2. \A o \in Objects \ t.items :
             snapshot[o] = ContentAt(o, t.upto) => snapshot'[o] = ContentAt(o, t.upto)'
      BY <1>5, <2>1
    <2>3. \A e \in t.found : feed'[e.at].obj = feed[e.at].obj /\ feed[e.at].obj \in Objects
      BY <1>1, <1>2, <1>3
    <2>4. ASSUME NEW e \in t.found, t.pc = "store", e.kind = "created"
          PROVE  /\ feed'[e.at].obj \in t.items /\ t.known[feed'[e.at].obj] = 0
                 /\ ContentAt(feed[e.at].obj, t.upto)' # 0
      <3>1. PICK o \in Objects : o = feed[e.at].obj
        BY <2>3
      <3>2. ContentAt(o, t.upto)' = ContentAt(o, t.upto)
        BY <1>5
      <3>3. o \in t.items /\ t.known[o] = 0 /\ ContentAt(o, t.upto) # 0
        BY <2>1, <2>4, <3>1 DEF CalendarSlotTrue
      <3>4. o = feed'[e.at].obj
        BY <2>3, <3>1
      <3> QED
        BY <3>2, <3>3, <3>4
    <2> QED
      BY <2>1, <2>2, <2>4 DEF CalendarSlotTrue, NoToken
  <1> QED
    BY <1>6, <1>7, <1>8, <1>9 DEF SlotTrue

\* Events and snapshots stay as true as they were while the provider moves on.
LEMMA StoredFrame ==
    ASSUME AccountTypes, AccountTypes', SyncsInv, UNCHANGED <<domain, events, snapshot, token>>,
           Len(feed) <= Len(feed'), \A i \in DOMAIN feed : feed'[i] = feed[i],
           forgotten \subseteq forgotten', TokenOk(token)
    PROVE  /\ AnnouncedOnce => AnnouncedOnce'
           /\ SnapshotsTrue => SnapshotsTrue'
           /\ TokenOk(token)'
  <1>1. /\ Len(feed) \in Nat /\ DOMAIN feed = 1 .. Len(feed) /\ Len(feed') \in Nat
        /\ \A i \in 1 .. Len(feed) : feed'[i] = feed[i]
    BY DEF AccountTypes
  <1>2. \A e \in events : e.at \in 1 .. Len(feed) /\ feed'[e.at] = feed[e.at]
    BY <1>1 DEF SyncsInv, Owned
  <1>3. AnnouncedOnce => AnnouncedOnce'
    BY <1>2 DEF AnnouncedOnce
  <1>4. PICK number : number = token
    OBVIOUS
  <1>5. TokenOk(token)'
    <2>1. TokenOk(number)'
      BY <1>1, <1>4, OnceTold
    <2> QED
      BY <1>4, <2>1
  <1>6. ASSUME number # NoToken, NEW o \in Objects
        PROVE  /\ ContentAt(o, token)' = ContentAt(o, number)
               /\ GoneBy(o, number) => GoneBy(o, token)'
    <2>1. number \in 0 .. Len(feed)
      BY <1>4, <1>6 DEF TokenOk
    <2>2. ContentAt(o, number)' = ContentAt(o, number)
      BY <2>1, FeedGrows
    <2>3. \A i \in 1 .. number : feed'[i] = feed[i]
      BY <1>1, <2>1
    <2> QED
      BY <1>4, <2>2, <2>3 DEF GoneBy
  <1>7. ASSUME SnapshotsTrue
        PROVE  SnapshotsTrue'
    <2>1. \A e \in events : feed[e.at].obj \in Objects
      <3>1. \A i \in 1 .. Len(feed) : feed[i] \in Changes
        BY DEF AccountTypes
      <3> QED
        BY <1>2, <3>1 DEF Changes
    <2>2. \A e \in events : e.kind = "created" =>
             token # NoToken /\ (snapshot[feed[e.at].obj] # 0 \/ GoneBy(feed[e.at].obj, token))'
      BY <1>2, <1>4, <1>6, <1>7, <2>1 DEF SnapshotsTrue
    <2>3. token # NoToken => \A o \in Objects : (snapshot[o] = ContentAt(o, token) \/ o \in forgotten)'
      BY <1>4, <1>6, <1>7 DEF SnapshotsTrue
    <2>4. token' = token /\ snapshot' = snapshot /\ events' = events /\ NoToken' = NoToken
      BY DEF NoToken
    <2> QED
      BY <1>7, <2>2, <2>3, <2>4 DEF SnapshotsTrue
  <1> QED
    BY <1>3, <1>5, <1>7

LEMMA TruthOfWrites ==
    ASSUME AccountInv, TruthInv, WritesNext, UNCHANGED syncVars
    PROVE  TruthInv'
  <1>1. WritesInv /\ SyncsInv /\ AccountTypes /\ WritesInv' /\ AccountTypes'
    BY WritesKeep DEF AccountInv, WritesInv
  <1>2. /\ UNCHANGED domain /\ Len(feed) <= Len(feed')
        /\ \A i \in DOMAIN feed : feed'[i] = feed[i]
    BY <1>1, WritesGrow
  <1>3. UNCHANGED <<syncAsked, token, snapshot, events, sync, forgotten>>
    BY DEF syncVars
  <1>4. Len(feed') <= MaxChanges
    BY <1>1, FeedBounded DEF TruthInv
  <1>5. ASSUME NEW s \in SyncSlots
        PROVE  SlotTrue(sync[s])'
    <2>1. PICK t \in SyncRecords : t = sync[s] /\ SlotOk(t) /\ SlotTrue(t)
      BY <1>1 DEF SyncsInv, TruthInv
    <2>2. SlotTrue(t)'
      BY <1>1, <1>2, <1>3, <2>1, SlotFrame
    <2> QED
      BY <1>3, <2>1, <2>2
  <1>6. /\ AnnouncedOnce' /\ TokenOk(token)'
        /\ domain = "calendar" => SnapshotsTrue'
    BY <1>1, <1>2, <1>3, StoredFrame DEF TruthInv
  <1> QED
    BY <1>2, <1>3, <1>4, <1>5, <1>6 DEF TruthInv

\* A step of one sync that stores nothing.
LEMMA SlotTruthKeeps ==
    ASSUME AccountInv, TruthInv, WritesInv', UNCHANGED <<domain, feed, token, snapshot, events, forgotten>>,
           domain = "ramp" => ~syncAsked',
           NEW s \in SyncSlots, NEW new \in SyncRecords, SlotOk(new), SlotTrue(new),
           sync' = [sync EXCEPT ![s] = new]
    PROVE  TruthInv'
  <1>1. WritesInv /\ SyncsInv /\ AccountTypes /\ AccountTypes' /\ Len(feed) \in Nat
    BY DEF AccountInv, WritesInv, AccountTypes
  <1>2. sync'[s] = new /\ \A u \in SyncSlots \ {s} : sync'[u] = sync[u]
    BY <1>1 DEF SyncsInv
  <1>3. ASSUME NEW u \in SyncSlots
        PROVE  SlotTrue(sync[u])'
    <2>1. PICK t \in SyncRecords : t = sync'[u] /\ SlotOk(t) /\ SlotTrue(t)
      BY <1>1, <1>2 DEF SyncsInv, TruthInv
    <2>2. SlotTrue(t)'
      BY <1>1, <2>1, SlotFrame
    <2> QED
      BY <2>1, <2>2
  <1>4. /\ AnnouncedOnce' /\ TokenOk(token)'
        /\ domain = "calendar" => SnapshotsTrue'
    BY <1>1, StoredFrame DEF TruthInv
  <1> QED
    BY <1>3, <1>4 DEF TruthInv

LEMMA StartTrue ==
    ASSUME AccountInv, TruthInv, NEW s \in SyncSlots, SyncStarts(s)
    PROVE  TruthInv'
  <1>1. UNCHANGED <<domain, feed, audit, request, token, snapshot, events, forgotten>> /\ ~syncAsked' /\ syncAsked
    BY DEF SyncStarts, writesVars
  <1>2. PICK pc \in {"read", "known"} : pc = IF domain = "mail" THEN "read" ELSE "known"
    OBVIOUS
  <1>3. PICK number \in Nat : number = token
    BY DEF AccountInv, SyncsInv
  <1>4. PICK new : new = [NoSync EXCEPT !.token = number, !.pc = pc]
    OBVIOUS
  <1>5. sync' = [sync EXCEPT ![s] = new]
    BY <1>2, <1>3, <1>4 DEF SyncStarts
  <1>6. NoSync \in SyncRecords /\ SlotOk(NoSync)
    BY IdleSlot
  <1>7. /\ new \in SyncRecords /\ new.pc = pc /\ new.token = number /\ new.upto = NoSync.upto
        /\ new.known = NoSync.known /\ new.items = NoSync.items /\ new.found = NoSync.found
    BY <1>4, <1>6 DEF SyncRecords
  <1>8. SlotOk(new)
    BY <1>6, <1>7 DEF SlotOk
  <1>9. SlotTrue(new)
    BY <1>1, <1>2, <1>3, <1>7 DEF SlotTrue, MailSlotTrue, CalendarSlotTrue, TruthInv
  <1>10. WritesInv'
    BY <1>1, WritesStay DEF AccountInv
  <1> QED
    BY <1>1, <1>5, <1>7, <1>8, <1>9, <1>10, SlotTruthKeeps

LEMMA ReadKnownTrue ==
    ASSUME AccountInv, TruthInv, NEW s \in SyncSlots, ReadKnown(s)
    PROVE  TruthInv'
  <1>1. UNCHANGED <<domain, feed, audit, request, token, snapshot, events, forgotten, syncAsked>>
    BY DEF ReadKnown, writesVars
  <1>2. SyncsInv
    BY DEF AccountInv
  <1>3. PICK old \in SyncRecords : old = sync[s] /\ SlotOk(old) /\ SlotTrue(old) /\ old.pc = "known"
    BY <1>2 DEF SyncsInv, TruthInv, ReadKnown
  <1>4. PICK known \in [Objects -> Nat] : known = snapshot
    BY <1>2 DEF SyncsInv
  <1>5. PICK new : new = [old EXCEPT !.pc = "read", !.known = known]
    OBVIOUS
  <1>6. sync' = [sync EXCEPT ![s] = new]
    BY <1>3, <1>4, <1>5 DEF ReadKnown
  <1>7. /\ new \in SyncRecords /\ new.pc = "read" /\ new.upto = old.upto /\ new.token = old.token
        /\ new.known = known /\ new.items = old.items /\ new.found = old.found
    BY <1>5 DEF SyncRecords
  <1>8. SlotOk(new)
    BY <1>2, <1>3, <1>4, <1>7 DEF SlotOk, SyncsInv
  <1>9. SlotTrue(new)
    BY <1>3, <1>4, <1>7 DEF SlotTrue, MailSlotTrue, CalendarSlotTrue
  <1>10. WritesInv' /\ (domain = "ramp" => ~syncAsked')
    BY <1>1, WritesStay DEF AccountInv, TruthInv
  <1> QED
    BY <1>1, <1>6, <1>7, <1>8, <1>9, <1>10, SlotTruthKeeps

LEMMA FailTrue ==
    ASSUME AccountInv, TruthInv, NEW s \in SyncSlots, SyncFails(s)
    PROVE  TruthInv'
  <1>1. UNCHANGED <<domain, feed, audit, request, token, snapshot, events, forgotten>>
    BY DEF SyncFails
  <1>2. domain # "ramp"
    BY DEF SyncFails, TruthInv, SlotTrue
  <1>3. NoSync \in SyncRecords /\ SlotOk(NoSync) /\ SlotTrue(NoSync)
    BY IdleSlot DEF NoSync, SlotTrue, MailSlotTrue, CalendarSlotTrue
  <1>4. sync' = [sync EXCEPT ![s] = NoSync]
    BY DEF SyncFails
  <1>5. WritesInv'
    BY <1>1, WritesStay DEF AccountInv
  <1> QED
    BY <1>1, <1>2, <1>3, <1>4, <1>5, SlotTruthKeeps

\* An object not changed since is as it was.
LEMMA Unchanged ==
    ASSUME AccountTypes, NEW o \in Objects, NEW n \in 0 .. Len(feed), NEW m \in 0 .. n,
           LastChange(o, n) <= m
    PROVE  ContentAt(o, n) = ContentAt(o, m)
  <1>1. /\ LastChange(o, n) \in 0 .. n /\ n \in Nat /\ m \in Nat
        /\ \A i \in 1 .. n : feed[i].obj = o => i <= LastChange(o, n)
    BY LastFacts DEF AccountTypes
  <1>2. \A i : (i \in 1 .. n /\ feed[i].obj = o) <=> (i \in 1 .. m /\ feed[i].obj = o)
    BY <1>1
  <1>3. ASSUME NEW ops
        PROVE  {i \in 1 .. n : feed[i].obj = o /\ feed[i].op \in ops}
                  = {i \in 1 .. m : feed[i].obj = o /\ feed[i].op \in ops}
    BY <1>2
  <1> QED
    BY <1>3 DEF ContentAt

LEMMA ReadChangesTrue ==
    ASSUME AccountInv, TruthInv, NEW s \in SyncSlots, ReadChanges(s)
    PROVE  TruthInv'
  <1>1. UNCHANGED <<domain, feed, audit, request, token, snapshot, events, forgotten, syncAsked>>
    BY DEF ReadChanges, writesVars
  <1>2. SyncsInv /\ AccountTypes
    BY DEF AccountInv, WritesInv
  <1>3. PICK old \in SyncRecords : old = sync[s] /\ SlotOk(old) /\ SlotTrue(old) /\ old.pc = "read"
    BY <1>2 DEF SyncsInv, TruthInv, ReadChanges
  <1>4. PICK n \in Nat : n = Len(feed)
    BY <1>2 DEF AccountTypes
  <1>5. PICK t \in Nat : t = old.token
    BY DEF SyncRecords
  <1>6. TokenOk(t) /\ domain # "ramp"
    BY <1>3, <1>5 DEF SlotTrue
  <1>7. PICK items : items = IF domain = "mail" THEN MailItems(t, n) ELSE CalendarItems(t, n)
    OBVIOUS
  <1>8. PICK skipped : skipped = Skipped(t, n)
    OBVIOUS
  <1>9. /\ items \in SUBSET Nat
        /\ domain = "mail" => \A i \in items : i \in 1 .. n /\ IsNews(i)
        /\ domain # "mail" => items \subseteq Objects
    <2>1. CASE domain = "mail"
      <3>1. \A i \in items : i \in 1 .. n /\ IsNews(i)
        BY <1>7, <2>1 DEF MailItems, IsMessage, IsNews
      <3> QED
        BY <2>1, <3>1
    <2>2. CASE domain # "mail"
      <3>1. items \subseteq Objects
        BY <1>7, <2>2 DEF CalendarItems
      <3> QED
        BY <2>2, <3>1 DEF Objects
    <2> QED
      BY <2>1, <2>2
  <1>10. skipped \in SUBSET Nat
    BY <1>8 DEF Skipped, Objects
  <1>11. PICK first \in BOOLEAN : first = (t = NoToken)
    OBVIOUS
  <1>12. PICK new : new = [old EXCEPT !.pc = "describe", !.upto = n, !.first = first,
                                      !.items = items, !.skipped = skipped]
    OBVIOUS
  <1>13. sync' = [sync EXCEPT ![s] = new]
    BY <1>3, <1>4, <1>5, <1>7, <1>8, <1>11, <1>12 DEF ReadChanges
  <1>14. /\ new \in SyncRecords /\ new.pc = "describe" /\ new.upto = n /\ new.token = t
         /\ new.known = old.known /\ new.items = items /\ new.found = old.found
         /\ new.skipped = skipped /\ new.first = first
    BY <1>5, <1>9, <1>10, <1>12 DEF SyncRecords
  <1>15. SlotOk(new)
    <2>1. \A o \in Objects : IsContent(o, new.known[o], Len(feed)) /\ IsContent(o, new.known[o], new.upto)
      BY <1>3, <1>4, <1>14 DEF SlotOk
    <2>2. new.upto \in 0 .. Len(feed) /\ new.items = items
      BY <1>4, <1>14
    <2>3. /\ domain # "mail" => new.items \subseteq Objects
          /\ domain = "mail" => \A i \in new.items : i \in 1 .. Len(feed) /\ IsNews(i)
      BY <1>4, <1>9, <2>2
    <2>4. \A e \in new.found : Owned(e)
      BY <1>3, <1>14 DEF SlotOk
    <2> QED
      BY <2>1, <2>2, <2>3, <2>4 DEF SlotOk
  <1>16. ASSUME domain = "mail"
         PROVE  MailSlotTrue(new)
    <2> SUFFICES ASSUME NEW i \in 1 .. n, IsMessage(i)
                 PROVE  (t # NoToken /\ i <= t) \/ (i \in items /\ ~first) \/ i \in skipped
      BY <1>14 DEF MailSlotTrue
    <2>1. CASE t = NoToken
      BY <1>8, <1>16, <2>1 DEF Skipped
    <2>2. CASE t # NoToken /\ ~(i <= t)
      <3>1. i \in t + 1 .. n
        BY <2>2
      <3>2. CASE t < oldest
        <4>1. skipped = (t + 1 .. n) \ items
          BY <1>7, <1>8, <1>16, <2>2, <3>2 DEF Skipped
        <4> QED
          BY <1>11, <2>2, <3>1, <4>1
      <3>3. CASE ~(t < oldest)
        <4>1. items = {j \in t + 1 .. n : IsNews(j)}
          BY <1>7, <1>16, <2>2, <3>3 DEF MailItems
        <4> QED
          BY <1>11, <2>2, <3>1, <4>1 DEF IsNews, IsMessage
      <3> QED
        BY <3>2, <3>3
    <2> QED
      BY <2>1, <2>2
  <1>17. ASSUME domain = "calendar"
         PROVE  CalendarSlotTrue(new)
    <2>1. old.token = token /\ old.known = snapshot /\ SnapshotsTrue
      BY <1>3, <1>17 DEF SlotTrue, CalendarSlotTrue, TruthInv
    <2>2. token = t /\ (token # NoToken => token \in 0 .. n)
      BY <1>4, <1>5, <1>6, <2>1 DEF TokenOk
    <2>3. ASSUME NEW o \in Objects \ items
          PROVE  snapshot[o] = ContentAt(o, n) \/ o \in forgotten \/ o \in skipped
      <3>1. ASSUME t # NoToken, LastChange(o, n) <= t
            PROVE  snapshot[o] = ContentAt(o, n) \/ o \in forgotten
        <4>1. t \in 0 .. n /\ n \in 0 .. Len(feed)
          BY <1>4, <2>2, <3>1
        <4>2. ContentAt(o, n) = ContentAt(o, t)
          BY <1>2, <3>1, <4>1, Unchanged
        <4> QED
          BY <2>1, <2>2, <3>1, <4>2 DEF SnapshotsTrue
      <3>2. LastChange(o, n) \in Nat
        BY <1>2, <1>4, LastFacts
      <3>3. CASE t = NoToken
        <4>1. ContentAt(o, n) = 0
          BY <1>7, <1>17, <3>3 DEF CalendarItems
        <4>2. snapshot[o] = 0
          BY <2>1, <2>2, <3>3 DEF SnapshotsTrue
        <4> QED
          BY <4>1, <4>2
      <3>4. CASE t # NoToken /\ t < oldest
        <4>1. ContentAt(o, n) = 0
          BY <1>7, <1>17, <3>4 DEF CalendarItems
        <4>2. LastChange(o, n) > t => o \in skipped
          BY <1>8, <1>17, <3>4, <4>1 DEF Skipped
        <4> QED
          BY <3>1, <3>2, <3>4, <4>2
      <3>5. CASE t # NoToken /\ ~(t < oldest)
        <4>1. ~(LastChange(o, n) > t)
          BY <1>7, <1>17, <3>5 DEF CalendarItems
        <4> QED
          BY <3>1, <3>2, <3>5, <4>1
      <3> QED
        BY <3>3, <3>4, <3>5
    <2> QED
      BY <1>14, <2>1, <2>2, <2>3 DEF CalendarSlotTrue
  <1>18. SlotTrue(new)
    BY <1>6, <1>14, <1>16, <1>17 DEF SlotTrue
  <1>19. WritesInv' /\ (domain = "ramp" => ~syncAsked')
    BY <1>1, <1>6, WritesStay DEF AccountInv
  <1> QED
    BY <1>1, <1>13, <1>14, <1>15, <1>18, <1>19, SlotTruthKeeps

\* A sync has at most one event for an object, and announces what it did not know.
LEMMA OneEventEach ==
    ASSUME WritesInv, domain # "mail", NEW o \in Objects, NEW n \in 0 .. Len(feed),
           NEW k, IsContent(o, k, n), NEW e \in CalendarEvents(o, k, n)
    PROVE  /\ \A f \in CalendarEvents(o, k, n) : f = e
           /\ feed[e.at].obj = o
           /\ e.kind = "created" => k = 0 /\ ContentAt(o, n) # 0
  <1>1. \A f \in CalendarEvents(o, k, n) : f = e
    BY DEF CalendarEvents
  <1>2. PICK at : at = LastChange(o, n)
    OBVIOUS
  <1>3. PICK kind, self : e = Event(kind, at, self) /\ (kind = "created" => k = 0 /\ ContentAt(o, n) # 0)
    BY <1>2 DEF CalendarEvents
  <1>4. e.kind = kind /\ e.at = at
    BY <1>3 DEF Event
  <1>5. at \in DOMAIN feed
    BY <1>4, CalendarTells DEF Owned
  <1>6. feed[at].obj = o
    BY <1>2, <1>5, LastFacts DEF WritesInv, AccountTypes
  <1> QED
    BY <1>1, <1>3, <1>4, <1>6

LEMMA DescribeTrue ==
    ASSUME AccountInv, TruthInv, NEW s \in SyncSlots, Describe(s)
    PROVE  TruthInv'
  <1>1. UNCHANGED <<domain, feed, audit, request, token, snapshot, events, forgotten, syncAsked>>
    BY DEF Describe, writesVars
  <1>2. SyncsInv /\ WritesInv /\ AccountTypes /\ AccountInv'
    BY DescribeKeeps DEF AccountInv, WritesInv
  <1>3. PICK old \in SyncRecords : old = sync[s] /\ SlotOk(old) /\ SlotTrue(old) /\ old.pc = "describe"
    BY <1>2 DEF SyncsInv, TruthInv, Describe
  <1>4. PICK found : found = (IF old.first THEN {}
                              ELSE IF domain = "mail" THEN {MailEvent(i) : i \in old.items}
                              ELSE UNION {CalendarEvents(o, old.known[o], old.upto) : o \in old.items})
    OBVIOUS
  <1>5. PICK new : new = [old EXCEPT !.pc = "store", !.found = found]
    OBVIOUS
  <1>6. sync' = [sync EXCEPT ![s] = [old EXCEPT !.pc = "store", !.found = found]]
    BY <1>3, <1>4 DEF Describe
  <1>7. sync' = [sync EXCEPT ![s] = new]
    BY <1>5, <1>6
  <1>8. new \in SyncRecords /\ new.found = found /\ SlotOk(new)
    <2>1. sync'[s] = new
      BY <1>2, <1>7 DEF SyncsInv
    <2>2. new \in SyncRecords /\ SlotOk(new)'
      BY <1>2, <2>1 DEF AccountInv, SyncsInv
    <2>3. SlotOk(new)
      <3>1. \A e : Owned(e)' => Owned(e)
        <4> SUFFICES ASSUME NEW e, Owned(e)'
                     PROVE  Owned(e)
          OBVIOUS
        <4>1. \A o, n : ContentAt(o, n)' = ContentAt(o, n)
          BY <1>1 DEF ContentAt
        <4>2. PICK o, at : o = feed[e.at].obj /\ at = e.at
          OBVIOUS
        <4>3. ContentAt(feed[e.at].obj, e.at)' = ContentAt(feed[e.at].obj, e.at)
          BY <1>1, <4>1, <4>2
        <4> QED
          BY <1>1, <4>3 DEF Owned
      <3>2. \A i : IsNews(i)' => IsNews(i)
        BY <1>1 DEF IsNews
      <3>3. \A o, k, n : IsContent(o, k, n)' => IsContent(o, k, n)
        BY <1>1 DEF IsContent
      <3>4. \A o \in Objects : IsContent(o, new.known[o], Len(feed))' => IsContent(o, new.known[o], Len(feed))
        BY <1>1 DEF IsContent
      <3> QED
        BY <1>1, <2>2, <3>1, <3>2, <3>3, <3>4 DEF SlotOk
    <2> QED
      BY <1>3, <1>5, <2>2, <2>3 DEF SyncRecords
  <1>9. /\ new.pc = "store" /\ new.upto = old.upto /\ new.token = old.token
        /\ new.known = old.known /\ new.items = old.items
        /\ new.skipped = old.skipped /\ new.first = old.first
    BY <1>3, <1>5 DEF SyncRecords
  <1>10. ASSUME domain # "mail", NEW e \in found
         PROVE  \E o \in old.items :
                   /\ o \in Objects /\ feed[e.at].obj = o
                   /\ e \in CalendarEvents(o, old.known[o], old.upto)
                   /\ \A f \in CalendarEvents(o, old.known[o], old.upto) : f = e
                   /\ e.kind = "created" => old.known[o] = 0 /\ ContentAt(o, old.upto) # 0
    <2>1. PICK o \in old.items : e \in CalendarEvents(o, old.known[o], old.upto)
      BY <1>4, <1>10
    <2>2. PICK k, n : k = old.known[o] /\ n = old.upto
      OBVIOUS
    <2>3. o \in Objects /\ n \in 0 .. Len(feed) /\ IsContent(o, k, n)
      BY <1>3, <1>10, <2>2 DEF SlotOk
    <2>4. e \in CalendarEvents(o, k, n)
      BY <2>1, <2>2
    <2>5. /\ feed[e.at].obj = o /\ \A f \in CalendarEvents(o, k, n) : f = e
          /\ e.kind = "created" => k = 0 /\ ContentAt(o, n) # 0
      BY <1>2, <1>10, <2>3, <2>4, OneEventEach
    <2> QED
      BY <2>1, <2>2, <2>3, <2>5
  <1>11. ASSUME domain = "mail", NEW i \in old.items
         PROVE  /\ MailEvent(i).at = i
                /\ IsMessage(i) => MailEvent(i).kind \in {"received", "sent"}
    BY DEF MailEvent, Event, IsMessage
  <1>12. SingleEvents(found)
    <2>1. CASE domain = "mail"
      BY <1>4, <1>11, <2>1 DEF SingleEvents
    <2>2. CASE domain # "mail"
      <3> SUFFICES ASSUME NEW e \in found, NEW f \in found,
                          e.at = f.at \/ feed[e.at].obj = feed[f.at].obj
                   PROVE  e = f
        BY <2>2 DEF SingleEvents
      <3>1. feed[e.at].obj = feed[f.at].obj
        OBVIOUS
      <3>2. PICK o \in old.items :
               /\ feed[e.at].obj = o
               /\ \A g \in CalendarEvents(o, old.known[o], old.upto) : g = e
        BY <1>10, <2>2
      <3>3. PICK p \in old.items :
               feed[f.at].obj = p /\ f \in CalendarEvents(p, old.known[p], old.upto)
        BY <1>10, <2>2
      <3> QED
        BY <3>1, <3>2, <3>3
    <2> QED
      BY <2>1, <2>2
  <1>13. domain = "mail" => MailSlotTrue(new)
    <2> SUFFICES ASSUME domain = "mail"
                 PROVE  MailSlotTrue(new)
      OBVIOUS
    <2>1. MailSlotTrue(old)
      BY <1>3 DEF SlotTrue
    <2>2. ~old.first => \A i \in old.items : IsMessage(i) =>
             \E e \in found : e.at = i /\ e.kind \in {"received", "sent"}
      BY <1>4, <1>11
    <2>3. \A e \in found : e.kind # "created"
      BY <1>4 DEF MailEvent, Event
    <2> QED
      BY <1>3, <1>8, <1>9, <2>1, <2>2, <2>3 DEF MailSlotTrue
  <1>14. domain = "calendar" => CalendarSlotTrue(new)
    <2> SUFFICES ASSUME domain = "calendar"
                 PROVE  CalendarSlotTrue(new)
      OBVIOUS
    <2>1. CalendarSlotTrue(old)
      BY <1>3 DEF SlotTrue
    <2>2. \A e \in found : e.kind = "created" =>
             /\ feed[e.at].obj \in old.items /\ old.known[feed[e.at].obj] = 0
             /\ ContentAt(feed[e.at].obj, old.upto) # 0
      BY <1>10
    <2> QED
      BY <1>3, <1>8, <1>9, <2>1, <2>2 DEF CalendarSlotTrue
  <1>15. SlotTrue(new)
    BY <1>3, <1>8, <1>9, <1>12, <1>13, <1>14 DEF SlotTrue
  <1>16. WritesInv' /\ (domain = "ramp" => ~syncAsked')
    BY <1>1, <1>2 DEF AccountInv, TruthInv
  <1> QED
    BY <1>1, <1>7, <1>8, <1>15, <1>16, SlotTruthKeeps

LEMMA StoreTrue ==
    ASSUME AccountInv, TruthInv, InOrder, NEW s \in SyncSlots, StoreSync(s)
    PROVE  TruthInv'
  <1>1. UNCHANGED <<domain, feed, audit, request, syncAsked>>
    BY DEF StoreSync, writesVars
  <1>2. SyncsInv /\ WritesInv /\ AccountTypes /\ AccountTypes'
    BY <1>1, WritesStay DEF AccountInv, WritesInv
  <1>3. PICK old \in SyncRecords : old = sync[s] /\ SlotOk(old) /\ SlotTrue(old) /\ old.pc = "store"
    BY <1>2 DEF SyncsInv, TruthInv, StoreSync
  <1>4. /\ events' = events \cup New(old.found) /\ token' = old.upto
        /\ snapshot' = [o \in Objects |-> IF domain = "calendar" /\ o \in old.items
                                          THEN ContentAt(o, old.upto) ELSE snapshot[o]]
        /\ sync' = [sync EXCEPT ![s] = NoSync] /\ forgotten' = forgotten \cup old.skipped
    BY <1>3 DEF StoreSync, Stored
  <1>5. PICK n \in 0 .. Len(feed) : n = old.upto
    BY <1>3 DEF SlotOk
  <1>6. /\ Len(feed) \in Nat /\ DOMAIN feed = 1 .. Len(feed) /\ n \in Nat /\ n <= Len(feed)
        /\ n # NoToken /\ NoToken' = NoToken
    BY <1>2, <1>5, AccountWritesAssumption DEF AccountTypes, TruthInv, NoToken
  <1>7. /\ events \subseteq events' /\ forgotten \subseteq forgotten' /\ New(old.found) \subseteq old.found
        /\ \A e \in old.found : \E f \in events' : f.kind = e.kind /\ f.at = e.at
    BY <1>4 DEF New
  <1>8. domain # "ramp" /\ TokenOk(old.token) /\ SingleEvents(old.found)
    BY <1>3 DEF SlotTrue
  <1>9. TokenOk(token)'
    <2>1. ASSUME domain = "mail", NEW i \in 1 .. n, IsMessage(i)
          PROVE  Told(i)'
      <3>1. MailSlotTrue(old)
        BY <1>3, <2>1 DEF SlotTrue
      <3>2. CASE old.token # NoToken /\ i <= old.token
        <4>1. old.token \in Nat /\ i \in 1 .. old.token
          BY <2>1, <3>2 DEF SyncRecords
        <4>2. Told(i)
          BY <1>8, <2>1, <3>2, <4>1 DEF TokenOk
        <4> QED
          BY <1>7, <4>2 DEF Told
      <3>3. CASE i \in old.items /\ ~old.first
        <4>1. PICK e \in old.found : e.at = i /\ e.kind \in {"received", "sent"}
          BY <1>3, <2>1, <3>1, <3>3 DEF MailSlotTrue
        <4> QED
          BY <1>7, <4>1 DEF Told
      <3>4. CASE i \in old.skipped
        BY <1>4, <3>4 DEF Told
      <3> QED
        BY <1>3, <1>5, <2>1, <3>1, <3>2, <3>3, <3>4 DEF MailSlotTrue
    <2>2. \A i : IsMessage(i)' => IsMessage(i)
      BY <1>1 DEF IsMessage
    <2>3. token' = n /\ n \in 0 .. Len(feed')
      BY <1>1, <1>4, <1>5
    <2>4. domain' = "mail" => \A i \in 1 .. n : IsMessage(i)' => Told(i)'
      BY <1>1, <2>1, <2>2
    <2> QED
      BY <2>3, <2>4 DEF TokenOk
  <1>10. ASSUME NEW e \in events, NEW f \in New(old.found), e.kind = "created", f.kind = "created",
                feed[e.at].obj = feed[f.at].obj
         PROVE  FALSE
    <2>1. domain = "calendar" /\ CalendarSlotTrue(old)
      BY <1>2, <1>3, <1>7, <1>8, <1>10 DEF SlotTrue, MailSlotTrue, AccountTypes
    <2>2. PICK o : o = feed[f.at].obj
      OBVIOUS
    <2>3. o \in old.items /\ old.known[o] = 0 /\ ContentAt(o, n) # 0
      BY <1>3, <1>5, <1>7, <1>10, <2>1, <2>2 DEF CalendarSlotTrue
    <2>4. old.known = snapshot /\ (token # NoToken => token <= n) /\ SnapshotsTrue
      BY <1>3, <1>5, <2>1 DEF CalendarSlotTrue, TruthInv
    <2>5. token # NoToken /\ GoneBy(o, token)
      BY <1>10, <2>2, <2>3, <2>4 DEF SnapshotsTrue
    <2>6. PICK i \in 1 .. token : feed[i].obj = o /\ feed[i].op = "delete"
      BY <2>5 DEF GoneBy
    <2>7. i \in 1 .. n
      BY <1>2, <1>6, <2>4, <2>5 DEF SyncsInv
    <2>8. o \in Objects
      BY <1>3, <2>1, <2>3 DEF SlotOk
    <2> QED
      BY <1>2, <2>3, <2>6, <2>7, <2>8, ContentFacts
  <1>11. AnnouncedOnce'
    <2> SUFFICES ASSUME NEW e \in events', NEW f \in events', e.kind = f.kind,
                        e.at = f.at \/ (e.kind = "created" /\ feed[e.at].obj = feed[f.at].obj)
                 PROVE  e = f
      BY <1>1 DEF AnnouncedOnce
    <2>1. CASE e \in events /\ f \in events
      BY <2>1 DEF TruthInv, AnnouncedOnce
    <2>2. CASE e \in events /\ f \in New(old.found)
      <3>1. ~(e.kind = f.kind /\ e.at = f.at)
        BY <2>2 DEF New
      <3> QED
        BY <1>10, <2>2, <3>1
    <2>3. CASE e \in New(old.found) /\ f \in events
      <3>1. ~(e.kind = f.kind /\ e.at = f.at)
        BY <2>3 DEF New
      <3> QED
        BY <1>10, <2>3, <3>1
    <2>4. CASE e \in New(old.found) /\ f \in New(old.found)
      <3>1. e \in old.found /\ f \in old.found
        BY <1>7, <2>4
      <3>2. domain = "mail" => e.kind # "created"
        BY <1>3, <3>1 DEF SlotTrue, MailSlotTrue
      <3> QED
        BY <1>8, <3>1, <3>2 DEF SingleEvents
    <2> QED
      BY <1>4, <2>1, <2>2, <2>3, <2>4
  <1>12. ASSUME domain = "calendar"
         PROVE  SnapshotsTrue'
    <2>1. CalendarSlotTrue(old) /\ SnapshotsTrue
      BY <1>3, <1>12 DEF SlotTrue, TruthInv
    <2>2. /\ old.known = snapshot /\ (token # NoToken => token <= n)
          /\ \A o \in Objects \ old.items : snapshot[o] = ContentAt(o, n) \/ o \in forgotten'
      BY <1>3, <1>4, <1>5, <2>1 DEF CalendarSlotTrue
    <2>3. old.items \subseteq Objects /\ \A o \in Objects : IsContent(o, snapshot[o], n)
      BY <1>3, <1>5, <1>12, <2>2 DEF SlotOk
    <2>4. ASSUME NEW o \in Objects
          PROVE  /\ o \in old.items => snapshot'[o] = ContentAt(o, n)
                 /\ o \notin old.items => snapshot'[o] = snapshot[o]
      BY <1>4, <1>5, <1>12
    <2>5. token' = n
      BY <1>4, <1>5
    <2>6. ASSUME NEW o \in Objects
          PROVE  snapshot'[o] = ContentAt(o, n) \/ o \in forgotten'
      BY <2>2, <2>4
    <2>7. ASSUME NEW e \in events', e.kind = "created"
          PROVE  snapshot'[feed[e.at].obj] # 0 \/ GoneBy(feed[e.at].obj, n)
      <3>1. PICK o : o = feed[e.at].obj
        OBVIOUS
      <3>2. CASE e \in New(old.found)
        <4>1. o \in old.items /\ ContentAt(o, n) # 0
          BY <1>3, <1>5, <1>7, <2>1, <2>7, <3>1, <3>2 DEF CalendarSlotTrue
        <4> QED
          BY <2>3, <2>4, <3>1, <4>1
      <3>3. CASE e \in events
        <4>1. token # NoToken /\ (snapshot[o] # 0 \/ GoneBy(o, token))
          BY <2>1, <2>7, <3>1, <3>3 DEF SnapshotsTrue
        <4>2. o \in Objects
          <5>1. feed[e.at] \in Changes
            BY <1>2, <3>3 DEF SyncsInv, Owned, AccountTypes
          <5> QED
            BY <3>1, <5>1 DEF Changes
        <4>3. CASE GoneBy(o, token)
          <5>1. token \in Nat /\ token <= n
            BY <1>2, <2>2, <4>1 DEF SyncsInv
          <5>2. GoneBy(o, n)
            BY <1>6, <4>3, <5>1 DEF GoneBy
          <5> QED
            BY <3>1, <5>2
        <4>4. CASE snapshot[o] # 0 /\ o \notin old.items
          BY <2>4, <3>1, <4>2, <4>4
        <4>5. CASE snapshot[o] # 0 /\ o \in old.items /\ ContentAt(o, n) = 0
          <5>1. PICK i \in 1 .. snapshot[o] : feed[i].obj = o /\ feed[i].op = "create"
            BY <2>3, <4>2, <4>5 DEF IsContent
          <5>2. i \in 1 .. n
            BY <1>6, <2>3, <4>2, <4>5, <5>1 DEF IsContent
          <5>3. \E j \in 1 .. n : feed[j].obj = o /\ feed[j].op = "delete"
            BY <1>2, <4>2, <4>5, <5>1, <5>2, ContentFacts
          <5> QED
            BY <3>1, <5>3 DEF GoneBy
        <4>6. CASE ContentAt(o, n) # 0 /\ o \in old.items
          BY <2>4, <3>1, <4>2, <4>6
        <4> QED
          BY <4>1, <4>3, <4>4, <4>5, <4>6
      <3> QED
        BY <1>4, <3>2, <3>3
    <2>8. /\ \A o, m : ContentAt(o, m)' = ContentAt(o, m)
          /\ \A o, m : GoneBy(o, m) => GoneBy(o, m)'
      BY <1>1 DEF ContentAt, GoneBy
    <2>9. \A o \in Objects : (snapshot[o] = ContentAt(o, token) \/ o \in forgotten)'
      <3> SUFFICES ASSUME NEW o \in Objects
                   PROVE  snapshot'[o] = ContentAt(o, token)' \/ o \in forgotten'
        OBVIOUS
      <3>1. ContentAt(o, n)' = ContentAt(o, n)
        BY <2>8
      <3>2. ContentAt(o, token)' = ContentAt(o, n)
        BY <2>5, <3>1
      <3> QED
        BY <2>6, <3>2
    <2>10. ASSUME NEW e \in events', e.kind = "created"
           PROVE  (snapshot[feed[e.at].obj] # 0 \/ GoneBy(feed[e.at].obj, token))'
      <3>1. PICK o : o = feed[e.at].obj
        OBVIOUS
      <3>2. snapshot'[o] # 0 \/ GoneBy(o, n)'
        BY <2>7, <2>8, <2>10, <3>1
      <3> QED
        BY <1>1, <2>5, <3>1, <3>2
    <2> QED
      BY <1>6, <2>5, <2>9, <2>10 DEF SnapshotsTrue
  <1>13. ASSUME NEW u \in SyncSlots
         PROVE  SlotTrue(sync[u])'
    <2>1. sync'[s] = NoSync /\ \A v \in SyncSlots \ {s} : sync'[v] = sync[v]
      BY <1>2, <1>4 DEF SyncsInv
    <2>2. CASE u = s
      BY <2>1, <2>2 DEF NoSync, SlotTrue, MailSlotTrue, CalendarSlotTrue
    <2>3. CASE u # s
      <3>1. domain # "calendar"
        BY <2>3 DEF InOrder, OneSlot
      <3>2. PICK t \in SyncRecords : t = sync'[u] /\ SlotOk(t) /\ SlotTrue(t)
        BY <1>2, <2>1, <2>3 DEF SyncsInv, TruthInv
      <3>3. SlotTrue(t)'
        BY <1>1, <1>2, <1>6, <1>7, <3>1, <3>2, SlotFrame
      <3> QED
        BY <3>2, <3>3
    <2> QED
      BY <2>2, <2>3
  <1>14. Len(feed') <= MaxChanges /\ (domain' = "ramp" => ~syncAsked')
    BY <1>1 DEF TruthInv
  <1> QED
    BY <1>1, <1>9, <1>11, <1>12, <1>13, <1>14 DEF TruthInv

\* The first watch, a push, a sweep, a provider that forgets.
LEMMA WatchTrue ==
    ASSUME AccountInv, TruthInv, WatchMail
    PROVE  TruthInv'
  <1>1. UNCHANGED <<domain, feed, audit, request, syncAsked, snapshot, events, sync>>
    BY DEF WatchMail, writesVars
  <1>2. SyncsInv /\ AccountTypes /\ AccountTypes' /\ domain = "mail" /\ Len(feed) \in Nat
    BY <1>1, WritesStay DEF AccountInv, WritesInv, WatchMail, AccountTypes
  <1>3. token' = Len(feed) /\ forgotten' = forgotten \cup 1 .. Len(feed)
    BY DEF WatchMail
  <1>4. TokenOk(token)'
    BY <1>1, <1>2, <1>3 DEF TokenOk, Told
  <1>5. AnnouncedOnce'
    BY <1>1 DEF TruthInv, AnnouncedOnce
  <1>6. ASSUME NEW u \in SyncSlots
        PROVE  SlotTrue(sync[u])'
    <2>1. PICK t \in SyncRecords : t = sync[u] /\ SlotOk(t) /\ SlotTrue(t)
      BY <1>2 DEF SyncsInv, TruthInv
    <2>2. SlotTrue(t)'
      BY <1>1, <1>2, <1>3, <2>1, SlotFrame
    <2> QED
      BY <1>1, <2>1, <2>2
  <1> QED
    BY <1>1, <1>2, <1>4, <1>5, <1>6 DEF TruthInv

LEMMA NothingStored ==
    ASSUME AccountInv, TruthInv,
           UNCHANGED <<domain, feed, audit, request, token, snapshot, events, sync, forgotten>>,
           domain = "ramp" => ~syncAsked'
    PROVE  TruthInv'
  <1>1. SyncsInv /\ AccountTypes /\ AccountTypes' /\ Len(feed) \in Nat
    BY WritesStay DEF AccountInv, WritesInv, AccountTypes
  <1>2. ASSUME NEW u \in SyncSlots
        PROVE  SlotTrue(sync[u])'
    <2>1. PICK t \in SyncRecords : t = sync[u] /\ SlotOk(t) /\ SlotTrue(t)
      BY <1>1 DEF SyncsInv, TruthInv
    <2>2. SlotTrue(t)'
      BY <1>1, <2>1, SlotFrame
    <2> QED
      BY <2>1, <2>2
  <1>3. /\ AnnouncedOnce' /\ TokenOk(token)'
        /\ domain = "calendar" => SnapshotsTrue'
    BY <1>1, StoredFrame DEF TruthInv
  <1> QED
    BY <1>2, <1>3 DEF TruthInv

LEMMA TruthStarts == AccountInit => TruthInv
  <1> SUFFICES ASSUME AccountInit
               PROVE  TruthInv
    OBVIOUS
  <1>1. Len(feed) <= MaxChanges
    BY AccountWritesAssumption DEF AccountInit, WritesInit
  <1>2. \A s \in SyncSlots : SlotTrue(sync[s])
    BY DEF AccountInit, NoSync, SlotTrue, MailSlotTrue, CalendarSlotTrue
  <1>3. SnapshotsTrue /\ AnnouncedOnce /\ TokenOk(token)
    BY DEF AccountInit, SnapshotsTrue, AnnouncedOnce, TokenOk, NoContent
  <1> QED
    BY <1>1, <1>2, <1>3 DEF AccountInit, TruthInv

LEMMA TruthKeeps ==
    ASSUME AccountInv, TruthInv, InOrder, [AccountNext]_accountVars
    PROVE  TruthInv'
  <1>1. CASE WritesNext /\ UNCHANGED syncVars
    BY <1>1, TruthOfWrites
  <1>2. CASE MailPush \/ CalendarPush \/ Reconcile \/ ProviderForgets
    <2>1. /\ UNCHANGED <<domain, feed, audit, request, token, snapshot, events, sync, forgotten>>
          /\ domain # "ramp"
      BY <1>2 DEF MailPush, CalendarPush, Reconcile, AskSync, ProviderForgets, writesVars
    <2> QED
      BY <2>1, NothingStored
  <1>3. CASE WatchMail
    BY <1>3, WatchTrue
  <1>4. ASSUME NEW s \in SyncSlots, SyncStep(s)
        PROVE  TruthInv'
    BY <1>4, StartTrue, ReadKnownTrue, ReadChangesTrue, DescribeTrue, StoreTrue, FailTrue
       DEF SyncStep
  <1>5. CASE UNCHANGED accountVars
    <2>1. UNCHANGED <<domain, feed, audit, request, token, snapshot, events, sync, forgotten, syncAsked>>
      BY <1>5 DEF accountVars, writesVars, syncVars
    <2> QED
      BY <2>1, NothingStored DEF TruthInv
  <1> QED
    BY <1>1, <1>2, <1>3, <1>4, <1>5 DEF AccountNext

LEMMA TruthIsTold == AccountInv /\ TruthInv => SyncTellsTheTruth
  <1> SUFFICES ASSUME AccountInv, TruthInv
               PROVE  SyncTellsTheTruth
    OBVIOUS
  <1>1. AnnouncedOnce
    BY DEF TruthInv
  <1>2. CheckpointTellsTheTruth
    BY DEF TruthInv, TokenOk, Told, SnapshotsTrue, CheckpointTellsTheTruth
  <1> QED
    BY <1>1, <1>2 DEF SyncTellsTheTruth

\* What lies before the checkpoint is told, each thing once, whatever failed and was
\* retried: with one sync at a time, as sync.ts has it; for mail however many run.
THEOREM SyncIsTrue == AccountSpec => [](OneSlot \/ domain = "mail" => SyncTellsTheTruth)
  <1> DEFINE Inv == AccountInv /\ (InOrder => TruthInv)
  <1>1. AccountInit => Inv
    BY AccountStarts, TruthStarts
  <1>2. Inv /\ [AccountNext]_accountVars => Inv'
    <2> SUFFICES ASSUME Inv, [AccountNext]_accountVars
                 PROVE  Inv'
      OBVIOUS
    <2>1. AccountInv'
      BY AccountKeeps
    <2>2. domain' = domain
      <3>1. WritesInv
        BY DEF AccountInv
      <3>2. CASE WritesNext /\ UNCHANGED syncVars
        BY <3>1, <3>2, WritesGrow
      <3>3. CASE UNCHANGED accountVars
        BY <3>3 DEF accountVars, writesVars
      <3>4. CASE MailPush \/ CalendarPush \/ Reconcile \/ WatchMail \/ ProviderForgets
        BY <3>4 DEF MailPush, CalendarPush, Reconcile, AskSync, WatchMail, ProviderForgets, writesVars
      <3>5. ASSUME NEW s \in SyncSlots, SyncStep(s)
            PROVE  domain' = domain
        BY <3>5 DEF SyncStep, SyncStarts, ReadKnown, ReadChanges, Describe, StoreSync, SyncFails, writesVars
      <3> QED
        BY <3>2, <3>3, <3>4, <3>5 DEF AccountNext
    <2>3. InOrder' => InOrder
      BY <2>2 DEF InOrder, OneSlot
    <2> QED
      BY <2>1, <2>3, TruthKeeps
  <1>3. Inv => (OneSlot \/ domain = "mail" => SyncTellsTheTruth)
    BY TruthIsTold DEF InOrder
  <1> QED
    BY <1>1, <1>2, <1>3, PTL DEF AccountSpec

=============================================================================
