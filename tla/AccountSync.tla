----------------------------- MODULE AccountSync -----------------------------
(***************************************************************************)
(* How the changes of a connected account become catalog events:           *)
(* apps/agents/src/connections/sync.ts, sync-mail.ts and sync-calendar.ts, *)
(* asked for by the webhooks of apps/api and by reconcile.ts, while        *)
(* AccountWrites makes the changes.                                        *)
(*                                                                         *)
(* The feed's length is the provider's history id or sync token.  A        *)
(* calendar answers a token with the present state of each object changed  *)
(* since; mail answers with every change.  Self-causes are looked up       *)
(* within the code's window of 15 minutes.                                 *)
(***************************************************************************)
EXTENDS AccountWrites, FiniteSets

CONSTANTS
    SyncSlots,       \* workers that may run a sync of the account
    ResyncWindow     \* how many of the latest messages a resync looks at

ASSUME AccountSyncAssumption == ResyncWindow \in Nat

VARIABLES
    syncAsked,       \* a sync_connection job waits (one per connection)
    token,           \* connections.sync_state: the checkpoint
    snapshot,        \* calendar_event_snapshots: the content known per object
    events,          \* the account's rows of events
    sync,            \* a slot's sync and how far it is
    oldest,          \* the provider refuses tokens older than this
    forgotten        \* history: what a refused token or a first sync passed over

syncVars == <<syncAsked, token, snapshot, events, sync, oldest, forgotten>>
accountVars == <<writesVars, syncVars>>

NoToken == MaxChanges + 1
Objects == {1, 2}
NoContent == [o \in Objects |-> 0]

NoSync == [pc |-> "idle", token |-> 0, known |-> NoContent, upto |-> 0, items |-> {},
           found |-> {}, first |-> FALSE, skipped |-> {}]

LastChange(o, n) == Max({i \in 1 .. n : feed[i].obj = o} \cup {0})

-----------------------------------------------------------------------------
\* A sync is queued once, however often it is asked for: by a push of the account's
\* provider, or by the sweep that makes up for lost ones.
AskSync ==
    /\ ~syncAsked
    /\ syncAsked' = TRUE
    /\ UNCHANGED <<writesVars, token, snapshot, events, sync, oldest, forgotten>>

MailPush == domain = "mail" /\ token < Len(feed) /\ AskSync
CalendarPush == domain = "calendar" /\ token < Len(feed) /\ AskSync
Reconcile == domain # "ramp" /\ (token # Len(feed) \/ oldest > token) /\ AskSync

\* A worker leases it and loads the connection, its checkpoint with it.
SyncStarts(s) ==
    /\ syncAsked /\ sync[s].pc = "idle"
    /\ syncAsked' = FALSE
    /\ sync' = [sync EXCEPT ![s] = [NoSync EXCEPT !.token = token,
                                        !.pc = IF domain = "mail" THEN "read" ELSE "known"]]
    /\ UNCHANGED <<writesVars, token, snapshot, events, oldest, forgotten>>

\* syncCalendar loads what it knows of the account's events.
ReadKnown(s) ==
    /\ sync[s].pc = "known"
    /\ sync' = [sync EXCEPT ![s].pc = "read", ![s].known = snapshot]
    /\ UNCHANGED <<writesVars, syncAsked, token, snapshot, events, oldest, forgotten>>

IsNews(i) == feed[i].op \in {"send", "receive", "labels"}
IsMessage(i) == feed[i].op \in {"send", "receive"}

\* What the mail provider answers: all news since the token; nothing on the first
\* sync; the latest messages when the token is refused, whatever else there was.
MailItems(t, n) ==
    IF t = NoToken THEN {}
    ELSE IF t < oldest THEN {i \in 1 .. n : i + ResyncWindow > n /\ IsMessage(i)}
    ELSE {i \in t + 1 .. n : IsNews(i)}

\* The calendar's: each object changed since; all there are on the first sync and
\* when the token is refused, so of one that went since there is no word.
CalendarItems(t, n) ==
    IF t = NoToken \/ t < oldest THEN {o \in Objects : ContentAt(o, n) # 0}
    ELSE {o \in Objects : LastChange(o, n) > t}

\* What this sync passes over without a word: mail there was, or was after the
\* refused token; objects gone since that token.
Skipped(t, n) ==
    IF domain = "mail"
    THEN IF t = NoToken THEN 1 .. n
         ELSE IF t < oldest THEN (t + 1 .. n) \ MailItems(t, n) ELSE {}
    ELSE IF t # NoToken /\ t < oldest
         THEN {o \in Objects : ContentAt(o, n) = 0 /\ LastChange(o, n) > t} ELSE {}

ReadChanges(s) ==
    LET t == sync[s].token
        n == Len(feed)
    IN  /\ sync[s].pc = "read"
        /\ sync' = [sync EXCEPT ![s] = [@ EXCEPT
               !.pc = "describe", !.upto = n, !.first = t = NoToken,
               !.items = IF domain = "mail" THEN MailItems(t, n) ELSE CalendarItems(t, n),
               !.skipped = Skipped(t, n)]]
        /\ UNCHANGED <<writesVars, syncAsked, token, snapshot, events, oldest, forgotten>>

\* Whether Winston's audit rows explain a change: the id he was given for what he
\* made, or a recent row that changed or deleted the object, pending ones too.
MadeByWinston(i, actions) ==
    \E k \in DOMAIN audit : audit[k].action \in actions /\ audit[k].result = i

ChangedByWinston(actions) == \E k \in DOMAIN audit : audit[k].action \in actions

Event(kind, at, self) == [kind |-> kind, at |-> at, self |-> self]

MailEvent(i) ==
    IF feed[i].op = "receive" THEN Event("received", i, FALSE)
    ELSE IF feed[i].op = "send" THEN Event("sent", i, MadeByWinston(i, {"send", "draft"}))
    ELSE Event("labels", i, ChangedByWinston({"labels"}))

\* The difference between what is known of an object and what it is at n; a
\* change in nothing that is compared, such as the user's answer, is no event.
CalendarEvents(o, known, n) ==
    LET now == ContentAt(o, n)
        at == LastChange(o, n)
    IN  IF now = 0
        THEN IF known = 0 THEN {} ELSE {Event("cancelled", at, ChangedByWinston({"delete"}))}
        ELSE IF known = 0
             THEN {Event("created", at, MadeByWinston(Min({i \in 1 .. n :
                      feed[i].obj = o /\ feed[i].op = "create"}), {"create"}))}
        ELSE IF now = known THEN {}
             ELSE {Event("updated", at, ChangedByWinston({"move", "split"}))}

\* The changes are described, with a look into the audit log for each.
Describe(s) ==
    LET t == sync[s] IN
    /\ t.pc = "describe"
    /\ sync' = [sync EXCEPT ![s].pc = "store",
           ![s].found = IF t.first THEN {}
                        ELSE IF domain = "mail" THEN {MailEvent(i) : i \in t.items}
                        ELSE UNION {CalendarEvents(o, t.known[o], t.upto) : o \in t.items}]
    /\ UNCHANGED <<writesVars, syncAsked, token, snapshot, events, oldest, forgotten>>

\* Those whose dedupe key is not there yet.
New(found) == {e \in found : \A old \in events : old.kind # e.kind \/ old.at # e.at}

\* Mutant: the snapshots are left to a later write.
MutStored(s) ==
    /\ events' = events \cup New(sync[s].found)
    /\ token' = sync[s].upto
    /\ UNCHANGED snapshot

\* Events, snapshots and checkpoint in one transaction.
Stored(s) ==
    LET t == sync[s] IN
    /\ events' = events \cup New(t.found)
    /\ token' = t.upto
    /\ snapshot' = [o \in Objects |-> IF domain = "calendar" /\ o \in t.items
                                      THEN ContentAt(o, t.upto) ELSE snapshot[o]]

\* The sync is stored and its job is over.
StoreSync(s) ==
    /\ sync[s].pc = "store"
    /\ Stored(s)
    /\ forgotten' = forgotten \cup sync[s].skipped
    /\ sync' = [sync EXCEPT ![s] = NoSync]
    /\ UNCHANGED <<writesVars, syncAsked, oldest>>

\* A call fails or the worker dies: both are as they were, and the job is retried.
SyncFails(s) ==
    /\ sync[s].pc # "idle"
    /\ AccountFault
    /\ sync' = [sync EXCEPT ![s] = NoSync]
    /\ syncAsked' = TRUE
    /\ UNCHANGED <<domain, allowed, feed, audit, request, token, snapshot, events, oldest, forgotten>>

\* watchMail: the first watch takes its place in the history.
WatchMail ==
    /\ domain = "mail" /\ token = NoToken
    /\ token' = Len(feed)
    /\ forgotten' = forgotten \cup 1 .. Len(feed)
    /\ UNCHANGED <<writesVars, syncAsked, snapshot, events, sync, oldest>>

ProviderForgets ==
    /\ domain # "ramp" /\ oldest < Len(feed)
    /\ AccountFault
    /\ oldest' = Len(feed)
    /\ UNCHANGED <<domain, allowed, feed, audit, request, syncAsked, token, snapshot, events, sync, forgotten>>

SyncStep(s) ==
    \/ SyncStarts(s) \/ ReadKnown(s) \/ ReadChanges(s) \/ Describe(s) \/ StoreSync(s)
    \/ SyncFails(s)

AccountInit ==
    /\ WritesInit
    /\ syncAsked = FALSE /\ token = NoToken /\ snapshot = NoContent /\ events = {}
    /\ sync = [s \in SyncSlots |-> NoSync]
    /\ oldest = 0 /\ forgotten = {}

AccountNext ==
    \/ WritesNext /\ UNCHANGED syncVars
    \/ MailPush \/ CalendarPush \/ Reconcile \/ WatchMail \/ ProviderForgets
    \/ \E s \in SyncSlots : SyncStep(s)

AccountSpec == AccountInit /\ [][AccountNext]_accountVars

-----------------------------------------------------------------------------
(* Properties                                                              *)

AccountTypeOK ==
    /\ WritesTypeOK
    /\ token \in 0 .. Len(feed) \cup {NoToken} /\ oldest \in 0 .. Len(feed)
    /\ snapshot \in [Objects -> 0 .. Len(feed)]
    /\ \A e \in events : e.at \in DOMAIN feed /\ e.self \in BOOLEAN
    /\ \A s \in SyncSlots : sync[s].pc \in {"idle", "known", "read", "describe", "store"}

\* "The checkpoint moves only in the same transaction that stores" the events
\* (sync-mail.ts): what lies before the checkpoint is stored as events (mail) or
\* known as it is (calendar), whatever failed on the way, except what a first
\* sync or a refused token skipped.  So it is with one sync "per connection at a
\* time" (sync.ts); but a job is deduplicated only while it waits, and with a
\* second slot a sync that read less may store last.
CheckpointTellsTheTruth ==
    token # NoToken =>
        /\ domain = "mail" =>
              \A i \in 1 .. token : IsMessage(i) =>
                  i \in forgotten \/ \E e \in events : e.at = i /\ e.kind \in {"received", "sent"}
        /\ domain = "calendar" =>
              \A o \in Objects : snapshot[o] = ContentAt(o, token) \/ o \in forgotten

\* An object is announced once, when it is new, and a change is stored once
\* however many syncs describe it.
AnnouncedOnce ==
    \A e, f \in events :
        (e.kind = f.kind /\ (e.at = f.at \/ (e.kind = "created" /\ feed[e.at].obj = feed[f.at].obj)))
            => e = f

\* Winston's own changes are put down to him even before the call returns
\* (schema/audit-log.ts): what he moved, deleted or labelled is self-caused, and
\* fires no subscription, in whatever order his call, its row and the sync come.
OwnChangesKnown ==
    \A e \in events :
        LET cause == IF e.kind = "updated" THEN ContentAt(feed[e.at].obj, e.at) ELSE e.at
        IN  (feed[cause].by = "winston" /\ e.kind \in {"updated", "cancelled", "labels"}) => e.self

\* Each of Winston's own effects is on record, and is told from what others do.
EffectsTold == EffectsOnRecord /\ OwnChangesKnown

\* The events stored are what happened up to the checkpoint, each told once.
SyncTellsTheTruth == CheckpointTellsTheTruth /\ AnnouncedOnce

\* The same of what he made, which the code recognises by the id in a row whose
\* call has returned.
OwnCreationsKnown ==
    \A e \in events :
        (feed[e.at].by = "winston" /\ e.kind \in {"created", "sent"}) => e.self
=============================================================================
