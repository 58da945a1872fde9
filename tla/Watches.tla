------------------------------ MODULE Watches ------------------------------
(***************************************************************************)
(* The channels Google notifies Winston on, one per watched calendar of a  *)
(* calendar account: apps/agents/src/connections/watch.ts, the sweep that  *)
(* asks for renewals (reconcile.ts) and the stop on disconnect.  (A Gmail  *)
(* watch is a single call that replaces itself.)                           *)
(*                                                                         *)
(* A day of the clock is a sweep, of which the code has one in ten         *)
(* minutes: it has run and its jobs are done before the next.              *)
(***************************************************************************)
EXTENDS Naturals, FiniteSets, FiniteSetsExt

CONSTANTS
    Calendars,
    ChannelIds,      \* bound: channels created
    WatchSlots,      \* workers that may run a watch_connection job of the account
    RenewWithin,     \* renewWithinMs
    Lifetimes,       \* channelTtlSeconds, and the less Google may grant
    LastDay,         \* bound on the clock
    MaxWatchFaults   \* bound: failed or refused calls, deaths of a worker

ASSUME WatchesAssumption ==
    /\ ChannelIds \subseteq Nat \ {0} /\ Lifetimes \subseteq Nat
    /\ \A t \in Lifetimes : t > RenewWithin
    /\ {RenewWithin, LastDay, MaxWatchFaults} \subseteq Nat

VARIABLES
    day,
    usable,          \* the connection's status is ok or expiring
    covered,         \* the calendars the account's lists cover
    channel,         \* the provider: id -> its calendar, its end, whether it is live
    known,           \* the rows of calendar_channels: a set of ids
    watchEnd,        \* connections.watch_expires_at; NoEnd is null
    watchAsked,      \* a watch_connection job waits
    watcher,         \* slot -> the watch under way
    sweptToday,
    stopping,        \* the channels the revoke job has still to stop
    reached,         \* history: covered calendars that have had a working channel
    unrecorded,      \* history: channels whose creator died before it stored them
    watchFaults

watchesVars == <<day, usable, covered, channel, known, watchEnd, watchAsked, watcher,
                 sweptToday, stopping, reached, unrecorded, watchFaults>>

NoEnd == 0
NoChannel == [calendar |-> "none", end |-> 0, live |-> FALSE]
IdleWatcher == [pc |-> "idle", existing |-> {}, todo |-> {}, id |-> 0,
                retired |-> {}, soonest |-> 0]

Unused == {i \in ChannelIds : channel[i].calendar = "none"}
On(cal, ids) == {i \in ids : channel[i].calendar = cal}
EndsSoon(i) == channel[i].end <= day + RenewWithin

\* A channel that works: Google sends on it, and its row is there to take it in.
Working(cal) == {i \in On(cal, known) : channel[i].live /\ channel[i].end > day}

WatchFault == watchFaults < MaxWatchFaults /\ watchFaults' = watchFaults + 1

-----------------------------------------------------------------------------
\* renewWatches: the sweep asks for each usable account whose watch is missing or
\* ends soon.
SweepWatches ==
    /\ ~sweptToday
    /\ sweptToday' = TRUE
    /\ watchAsked' = (watchAsked \/ (usable /\ watchEnd < day + RenewWithin))
    /\ UNCHANGED <<day, usable, covered, channel, known, watchEnd, watcher, stopping, reached,
                   unrecorded, watchFaults>>

\* A reconnect asks for a watch as well.
Reconnected ==
    /\ usable /\ ~watchAsked /\ Unused # {}
    /\ WatchFault
    /\ watchAsked' = TRUE
    /\ UNCHANGED <<day, usable, covered, channel, known, watchEnd, watcher, sweptToday,
                   stopping, reached, unrecorded>>

\* watchConnectionHandler: an account that is not usable is left alone.
WatchStarts(s) ==
    /\ watchAsked /\ watcher[s].pc = "idle"
    /\ watchAsked' = FALSE
    /\ watcher' = IF usable THEN [watcher EXCEPT ![s].pc = "list"] ELSE watcher
    /\ UNCHANGED <<day, usable, covered, channel, known, watchEnd, sweptToday, stopping,
                   reached, unrecorded, watchFaults>>

\* What to do of the channels there are: a calendar none of whose channels lasts
\* is watched anew; the rest of a watched one's that end soon, and those of a
\* calendar no longer covered, are retired.
Lists(s) ==
    LET fresh(cal) == \E i \in On(cal, known) : ~EndsSoon(i)
        todo == {cal \in covered : ~fresh(cal)}
    IN  /\ watcher[s].pc = "list"
        /\ watcher' = [watcher EXCEPT ![s] = [@ EXCEPT
               !.pc = IF todo = {} THEN "retire" ELSE "watch",
               !.existing = known, !.todo = todo,
               !.retired = {i \in known : \/ channel[i].calendar \notin covered
                                          \/ EndsSoon(i) /\ channel[i].calendar \notin todo}]]
        /\ UNCHANGED <<day, usable, covered, channel, known, watchEnd, watchAsked, sweptToday,
                       stopping, reached, unrecorded, watchFaults>>

\* The new channel is made at the provider ...
CreatesChannel(s) ==
    /\ watcher[s].pc = "watch" /\ Unused # {}
    /\ \E cal \in watcher[s].todo, t \in Lifetimes :
          LET id == Min(Unused) IN
          /\ channel' = [channel EXCEPT ![id] =
                             [calendar |-> cal, end |-> day + t, live |-> TRUE]]
          /\ watcher' = [watcher EXCEPT ![s].pc = "insert", ![s].id = id]
    /\ UNCHANGED <<day, usable, covered, known, watchEnd, watchAsked, sweptToday, stopping,
                   reached, unrecorded, watchFaults>>

\* ... and its row stored; the ones it replaces can go, after all are made.
InsertsChannel(s) ==
    LET w == watcher[s]
        cal == channel[w.id].calendar
    IN  /\ w.pc = "insert"
        /\ known' = known \cup {w.id}
        /\ reached' = reached \cup ({cal} \cap covered)
        /\ watcher' = [watcher EXCEPT ![s] = [@ EXCEPT
               !.todo = @ \ {cal}, !.retired = @ \cup On(cal, w.existing),
               !.pc = IF w.todo = {cal} THEN "retire" ELSE "watch"]]
        /\ UNCHANGED <<day, usable, covered, channel, watchEnd, watchAsked, sweptToday,
                       stopping, unrecorded, watchFaults>>

\* One by one: stopped at the provider, its row deleted.
RetiresChannel(s) ==
    /\ watcher[s].pc = "retire" /\ watcher[s].retired # {}
    /\ \E i \in watcher[s].retired :
          /\ channel' = [channel EXCEPT ![i].live = FALSE]
          /\ known' = known \ {i}
          /\ watcher' = [watcher EXCEPT ![s].retired = @ \ {i}]
    /\ UNCHANGED <<day, usable, covered, watchEnd, watchAsked, sweptToday, stopping, reached,
                   unrecorded, watchFaults>>

SoonestEnd == IF known = {} THEN NoEnd ELSE Min({channel[i].end : i \in known})

ReadsSoonest(s) ==
    /\ watcher[s].pc = "retire" /\ watcher[s].retired = {}
    /\ watcher' = [watcher EXCEPT ![s].pc = "soonest", ![s].soonest = SoonestEnd]
    /\ UNCHANGED <<day, usable, covered, channel, known, watchEnd, watchAsked, sweptToday,
                   stopping, reached, unrecorded, watchFaults>>

WritesSoonest(s) ==
    /\ watcher[s].pc = "soonest"
    /\ watchEnd' = watcher[s].soonest
    /\ watcher' = [watcher EXCEPT ![s] = IdleWatcher]
    /\ UNCHANGED <<day, usable, covered, channel, known, watchAsked, sweptToday, stopping,
                   reached, unrecorded, watchFaults>>

\* A call fails or the worker dies, and the job is retried; a refusal ends it.
WatchFails(s) ==
    /\ watcher[s].pc # "idle"
    /\ WatchFault
    /\ watcher' = [watcher EXCEPT ![s] = IdleWatcher]
    /\ watchAsked' \in {TRUE, watchAsked}
    /\ unrecorded' = IF watcher[s].pc = "insert" THEN unrecorded \cup {watcher[s].id} ELSE unrecorded
    /\ UNCHANGED <<day, usable, covered, channel, known, watchEnd, sweptToday, stopping, reached>>

-----------------------------------------------------------------------------
\* The user hides or shows a calendar in the account's lists.
CoverageChanges ==
    /\ \E cal \in Calendars :
          /\ covered' = IF cal \in covered THEN covered \ {cal} ELSE covered \cup {cal}
          /\ reached' = reached \ {cal}
    /\ WatchFault
    /\ UNCHANGED <<day, usable, channel, known, watchEnd, watchAsked, watcher, sweptToday,
                   stopping, unrecorded>>

\* The account is disconnected: its revoke job reads the channels it is to stop,
\* if it ever had a watch (revoke.ts).
Disconnects ==
    /\ usable
    /\ usable' = FALSE
    /\ stopping' = IF watchEnd # NoEnd THEN known ELSE {}
    /\ UNCHANGED <<day, covered, channel, known, watchEnd, watchAsked, watcher, sweptToday,
                   reached, unrecorded, watchFaults>>

\* watchStopper: each is stopped and deleted; the end goes with the token.
StopsChannel ==
    /\ stopping # {}
    /\ \E i \in stopping :
          /\ channel' = [channel EXCEPT ![i].live = FALSE]
          /\ known' = known \ {i}
          /\ stopping' = stopping \ {i}
          /\ watchEnd' = IF stopping = {i} THEN NoEnd ELSE watchEnd
    /\ UNCHANGED <<day, usable, covered, watchAsked, watcher, sweptToday, reached, unrecorded,
                   watchFaults>>

DayPasses ==
    /\ day < LastDay /\ sweptToday /\ ~watchAsked /\ stopping = {}
    /\ \A s \in WatchSlots : watcher[s].pc = "idle"
    /\ day' = day + 1 /\ sweptToday' = FALSE
    /\ UNCHANGED <<usable, covered, channel, known, watchEnd, watchAsked, watcher, stopping,
                   reached, unrecorded, watchFaults>>

WatchesInit ==
    /\ day = 0 /\ usable = TRUE
    /\ covered \in SUBSET Calendars \ {{}}
    /\ channel = [i \in ChannelIds |-> NoChannel]
    /\ known = {} /\ watchEnd = NoEnd
    /\ watchAsked = TRUE        \* saveConnection asks for the first watch
    /\ watcher = [s \in WatchSlots |-> IdleWatcher]
    /\ sweptToday = FALSE /\ stopping = {} /\ reached = {} /\ unrecorded = {}
    /\ watchFaults = 0

WatcherStep(s) ==
    \/ WatchStarts(s) \/ Lists(s) \/ CreatesChannel(s) \/ InsertsChannel(s)
    \/ RetiresChannel(s) \/ ReadsSoonest(s) \/ WritesSoonest(s) \/ WatchFails(s)

WatchesNext ==
    \/ SweepWatches \/ Reconnected \/ CoverageChanges \/ Disconnects \/ StopsChannel \/ DayPasses
    \/ \E s \in WatchSlots : WatcherStep(s)

WatchesSpec == WatchesInit /\ [][WatchesNext]_watchesVars

-----------------------------------------------------------------------------
(* Properties                                                              *)

WatchesTypeOK ==
    /\ day \in 0 .. LastDay /\ known \subseteq ChannelIds \ Unused
    /\ covered \subseteq Calendars /\ reached \subseteq covered
    /\ \A s \in WatchSlots :
          /\ watcher[s].pc \in {"idle", "list", "watch", "insert", "retire", "soonest"}
          /\ watcher[s].todo \subseteq Calendars /\ watcher[s].retired \subseteq ChannelIds

\* A channel is "replaced by a new one first and stopped after, so notifications
\* never have a gap" (watch.ts): a covered calendar that once had a working channel
\* always has one, over renewals that fail, run twice at a time, or are refused (by
\* fewer sweeps than there are before its end), while the account is usable.
NeverUnwatched == usable => \A cal \in reached : Working(cal) # {}

\* Every channel Google may still notify on has its row, or is about to, unless
\* its creator died in between; so renewing and stopping reach all of them.
NoChannelForgotten ==
    \A i \in ChannelIds :
        (channel[i].live /\ i \notin unrecorded)
            => i \in known \/ \E s \in WatchSlots : watcher[s].pc = "insert" /\ watcher[s].id = i
=============================================================================
