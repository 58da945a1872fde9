------------------------------ MODULE Leaving ------------------------------
(***************************************************************************)
(* Signing in, and leaving: a user's account from the first sign-in to     *)
(* `delete_user`'s last step (apps/web/src/server/sign-in.server.ts,       *)
(* packages/db/src/account-deletion.ts, agents/src/accounts/delete-user.ts) *)
(* while sign-ins, the user's running jobs and superseded attempts of the  *)
(* deletion go on beside it.                                               *)
(*                                                                         *)
(* One account; somebody else, who stays, may send the same file.          *)
(***************************************************************************)
EXTENDS Naturals, FiniteSets

CONSTANTS
    SignInSlots,        \* sign-ins under way at once
    LeaveSlots,         \* workers on delete_user at once
    LeaveAttempts,      \* its maxAttempts
    Logins,             \* hashes of Telegram logins
    MaxSessions,        \* bound: sessions made
    MaxMade,            \* bound: what the user comes to have outside the row
    MaxLeaveFaults      \* bound: steps that fail, workers that die or are superseded

ASSUME LeavingAssumption == {LeaveAttempts, MaxSessions, MaxMade, MaxLeaveFaults} \subseteq Nat

VARIABLES
    account,            \* the user row
    sessions,           \* web_sessions: live ones
    sessionsMade,
    tapped,             \* Telegram logins the site has yet to see, or may see again
    claimed,            \* telegram_logins
    signIns,
    chat,               \* the user's Telegram chat is linked
    things,             \* what the user has outside the row: "none", "there" or "gone"
    known,              \* of those, the ones a row of the user's names
    shared,             \* somebody else sent the same file: "no", "put", or "named" by their rows
    working,            \* a leased job of the user's, or a request of theirs, is going
    leaveJob,           \* delete_user
    leavers,
    late,               \* for the properties: what came after the deletion was requested
    leaveFaults

leavingVars == <<account, sessions, sessionsMade, tapped, claimed, signIns, chat, things, known, shared,
                 working, leaveJob, leavers, late, leaveFaults>>

Kinds == {"computer", "grant", "site", "blob"}
SessionIds == 1 .. MaxSessions
IdleLeaver == [at |-> "idle", attempt |-> 0, toDelete |-> FALSE]
IdleSignIn == [at |-> "idle", way |-> "google"]

LeaveFault == leaveFaults < MaxLeaveFaults /\ leaveFaults' = leaveFaults + 1
Leaving == account.state \in {"deleting", "gone"}

(***************************************************************************)
(* Sessions and signing in.                                                *)
(***************************************************************************)
\* The id is new; only the token's hash is kept.
CreateSession ==
    /\ sessionsMade < MaxSessions
    /\ sessionsMade' = sessionsMade + 1
    /\ sessions' = sessions \cup {sessionsMade + 1}

SignsOut(s) ==
    /\ s \in sessions
    /\ sessions' = sessions \ {s}
    /\ UNCHANGED <<account, sessionsMade, tapped, claimed, signIns, chat, things, known, shared, working,
                   leaveJob, leavers, late, leaveFaults>>

\* Back from Google: who it is, found by account or by email, or created.
FindUser(i) ==
    /\ signIns[i].at = "idle" /\ account.state # "gone"
    /\ signIns' = [signIns EXCEPT ![i] =
            [way |-> "google",
             at |-> CASE account.state = "none" -> "create"
                      [] account.state = "live" /\ account.sub = "theirs" -> "enter"
                      [] account.state = "live" /\ account.sub = "none" -> "tie"
                      [] OTHER -> "idle"]]     \* being deleted, or another Google account's
    /\ UNCHANGED <<account, sessions, sessionsMade, tapped, claimed, chat, things, known, shared, working,
                   leaveJob, leavers, late, leaveFaults>>

\* A user without a computer gets one requested in the same transaction.
Requested(signed) ==
    IF signed /\ "computer" \notin known
    THEN things' = [things EXCEPT !["computer"] = "there"] /\ known' = known \cup {"computer"}
    ELSE UNCHANGED <<things, known>>

\* The transaction commits: the email is unique, so of two that create, one fails; a row
\* that went meanwhile fails it too.
SignIn(i) ==
    LET at == signIns[i].at
        fits == IF at = "create" THEN account.state = "none" ELSE account.state \in {"live", "deleting"}
    IN /\ at \in {"create", "tie", "enter"} /\ signIns[i].way = "google"
       /\ account' = IF fits THEN [state |-> IF at = "create" THEN "live" ELSE account.state,
                                    sub |-> IF at = "enter" THEN account.sub ELSE "theirs"]
                     ELSE account
       /\ Requested(fits)
       /\ late' = IF fits /\ "computer" \notin known /\ Leaving THEN late \cup {"computer"} ELSE late
       /\ signIns' = [signIns EXCEPT ![i].at = IF fits THEN "session" ELSE "idle"]
       /\ UNCHANGED <<sessions, sessionsMade, tapped, claimed, chat, shared, working, leaveJob, leavers, leaveFaults>>

\* A statement of its own; the row must still be there.
StartSession(i) ==
    /\ signIns[i].at = "session"
    /\ \/ account.state \in {"live", "deleting"} /\ CreateSession
       \/ account.state = "gone" /\ UNCHANGED <<sessions, sessionsMade>>
    /\ signIns' = [signIns EXCEPT ![i] = IdleSignIn]
    /\ UNCHANGED <<account, tapped, claimed, chat, things, known, shared, working, leaveJob, leavers, late, leaveFaults>>

(***************************************************************************)
(* Signing in from a button in a Telegram message.                         *)
(***************************************************************************)
TapsLogin(h) ==
    /\ chat /\ h \notin tapped
    /\ tapped' = tapped \cup {h}
    /\ UNCHANGED <<account, sessions, sessionsMade, claimed, signIns, chat, things, known, shared, working,
                   leaveJob, leavers, late, leaveFaults>>

\* The signed address may be opened again for two minutes; each hash signs in once.
ClaimLogin(i, h) ==
    /\ signIns[i].at = "idle" /\ h \in tapped
    /\ claimed' = claimed \cup {h}
    /\ signIns' = IF h \in claimed THEN signIns ELSE [signIns EXCEPT ![i] = [way |-> "telegram", at |-> "linked"]]
    /\ UNCHANGED <<account, sessions, sessionsMade, tapped, chat, things, known, shared, working, leaveJob,
                   leavers, late, leaveFaults>>

\* Whoever the chat is linked to.
FindLinked(i) ==
    /\ signIns[i].at = "linked"
    /\ signIns' = [signIns EXCEPT ![i].at = IF chat THEN "session" ELSE "idle"]
    /\ UNCHANGED <<account, sessions, sessionsMade, tapped, claimed, chat, things, known, shared, working,
                   leaveJob, leavers, late, leaveFaults>>

(***************************************************************************)
(* What the user, signed in or in the chat, and their jobs do.             *)
(***************************************************************************)
LinksChat ==
    /\ ~chat /\ sessions # {} /\ account.state # "gone"
    /\ chat' = TRUE
    /\ UNCHANGED <<account, sessions, sessionsMade, tapped, claimed, signIns, things, known, shared, working,
                   leaveJob, leavers, late, leaveFaults>>

\* A message queues a job, and a worker takes it; or a request comes that is signed in.
WorkStarts ==
    /\ ~working /\ account.state \in {"live", "deleting"} /\ (chat \/ sessions # {})
    /\ working' = TRUE
    /\ UNCHANGED <<account, sessions, sessionsMade, tapped, claimed, signIns, chat, things, known, shared,
                   leaveJob, leavers, late, leaveFaults>>

WorkEnds ==
    /\ working /\ working' = FALSE
    /\ UNCHANGED <<account, sessions, sessionsMade, tapped, claimed, signIns, chat, things, known, shared,
                   leaveJob, leavers, late, leaveFaults>>

\* A run deploys a site or keeps a file's copy, a request that began signed in connects an
\* account: the row, and what it names.
Makes(kind) ==
    /\ account.state \in {"live", "deleting"} /\ things[kind] = "none"
    /\ kind # "computer" /\ working /\ Cardinality({k \in Kinds : things[k] # "none"}) < MaxMade
    /\ things' = [things EXCEPT ![kind] = "there"]
    /\ known' = known \cup {kind}
    /\ late' = IF Leaving THEN late \cup {kind} ELSE late
    /\ UNCHANGED <<account, sessions, sessionsMade, tapped, claimed, signIns, chat, shared, working, leaveJob,
                   leavers, leaveFaults>>

\* Somebody else sends the same file: stored under the same key, and then named.
OthersShare ==
    /\ shared # "named"
    /\ IF shared = "no" THEN things' = [things EXCEPT !["blob"] = "there"] ELSE UNCHANGED things
    /\ shared' = IF shared = "no" THEN "put" ELSE "named"
    /\ late' = IF Leaving THEN late \cup {"shared"} ELSE late
    /\ UNCHANGED <<account, sessions, sessionsMade, tapped, claimed, signIns, chat, known, working, leaveJob,
                   leavers, leaveFaults>>

(***************************************************************************)
(* requestAccountDeletion: one transaction.                                *)
(***************************************************************************)
RequestAccountDeletion(s) ==
    /\ s \in sessions /\ account.state = "live"
    /\ account' = [account EXCEPT !.state = "deleting"]
    /\ sessions' = {}
    /\ leaveJob' = [state |-> "queued", attempts |-> 0]
    /\ UNCHANGED <<sessionsMade, tapped, claimed, signIns, chat, things, known, shared, working, leavers, late, leaveFaults>>

(***************************************************************************)
(* delete_user.  Its job has no user_id of its own, so it isn't dropped;   *)
(* jobs of the user's that run are not dropped either.                     *)
(***************************************************************************)
HoldsLeave(w) == leaveJob.state \in {"leased", "lapsed"} /\ leaveJob.attempts = leavers[w].attempt
LeaverStill == UNCHANGED <<sessionsMade, tapped, claimed, signIns, shared, working, late>>
Onward(w, at) == leavers' = [leavers EXCEPT ![w].at = at] /\ UNCHANGED leaveJob

LeaseLeave(w) ==
    /\ leavers[w].at = "idle" /\ leaveJob.state \in {"queued", "lapsed"}
    /\ leaveJob' = [state |-> "leased", attempts |-> leaveJob.attempts + 1]
    /\ leavers' = [leavers EXCEPT ![w] =
            [at |-> "goodbye", attempt |-> leaveJob.attempts + 1, toDelete |-> FALSE]]
    /\ LeaverStill /\ UNCHANGED <<account, sessions, chat, things, known, leaveFaults>>

LeaveLapses(w) ==
    /\ leavers[w].at # "idle" /\ HoldsLeave(w) /\ leaveJob.state = "leased" /\ LeaveFault
    /\ leaveJob' = [leaveJob EXCEPT !.state = "lapsed"]
    /\ \/ UNCHANGED leavers
       \/ leavers' = [leavers EXCEPT ![w] = IdleLeaver]     \* it died
    /\ LeaverStill /\ UNCHANGED <<account, sessions, chat, things, known>>

\* A provider, the vault or the database fails it: retried, up to maxAttempts.
LeaveFails(w) ==
    /\ leavers[w].at # "idle" /\ LeaveFault
    /\ leaveJob' = IF HoldsLeave(w)
                   THEN [leaveJob EXCEPT !.state = IF leavers[w].attempt < LeaveAttempts THEN "queued" ELSE "failed"]
                   ELSE leaveJob
    /\ leavers' = [leavers EXCEPT ![w] = IdleLeaver]
    /\ LeaverStill /\ UNCHANGED <<account, sessions, chat, things, known>>

\* The goodbye is best effort; then the chat is unlinked.
SayGoodbye(w) ==
    /\ leavers[w].at = "goodbye" /\ account.state # "gone"
    /\ chat' = FALSE
    /\ Onward(w, "computer")
    /\ LeaverStill /\ UNCHANGED <<account, sessions, things, known, leaveFaults>>

\* Each step reads what is left and takes it down: outside first, then the row.
NextStep == [computer |-> "grant", grant |-> "site", site |-> "list"]
TakesDown(w, kind) ==
    /\ leavers[w].at = kind
    /\ things' = IF kind \in known THEN [things EXCEPT ![kind] = "gone"] ELSE things
    /\ known' = known \ {kind}
    /\ Onward(w, NextStep[kind])
    /\ LeaverStill /\ UNCHANGED <<account, sessions, chat, leaveFaults>>

\* The blobs only they use: theirs first, then everyone else's.
MutListsBlob(w) == "blob" \in known
ListsBlob(w) == "blob" \in known /\ shared # "named"

BlobsOnlyTheyUse(w) ==
    /\ leavers[w].at = "list"
    /\ leavers' = [leavers EXCEPT ![w] =
            [at |-> "blobs", attempt |-> @.attempt, toDelete |-> ListsBlob(w)]]
    /\ UNCHANGED leaveJob
    /\ LeaverStill /\ UNCHANGED <<account, sessions, chat, things, known, leaveFaults>>

DeleteBlobs(w) ==
    /\ leavers[w].at = "blobs"
    /\ things' = IF leavers[w].toDelete THEN [things EXCEPT !["blob"] = "gone"] ELSE things
    /\ Onward(w, "row")
    /\ LeaverStill /\ UNCHANGED <<account, sessions, chat, known, leaveFaults>>

\* The addresses are retired, then the row goes, with every row that has its user_id.
DeleteRow(w) ==
    /\ leavers[w].at = "row"
    /\ account' = [account EXCEPT !.state = "gone"]
    /\ sessions' = {} /\ known' = {} /\ chat' = FALSE
    /\ leaveJob' = IF HoldsLeave(w) THEN [leaveJob EXCEPT !.state = "done"] ELSE leaveJob
    /\ leavers' = [leavers EXCEPT ![w] = IdleLeaver]
    /\ LeaverStill /\ UNCHANGED <<things, leaveFaults>>

AlreadyDeleted(w) ==
    /\ leavers[w].at = "goodbye" /\ account.state = "gone"
    /\ leaveJob' = IF HoldsLeave(w) THEN [leaveJob EXCEPT !.state = "done"] ELSE leaveJob
    /\ leavers' = [leavers EXCEPT ![w] = IdleLeaver]
    /\ LeaverStill /\ UNCHANGED <<account, sessions, chat, things, known, leaveFaults>>

LeavingInit ==
    /\ account \in [state : {"none"}, sub : {"none"}] \cup [state : {"live"}, sub : {"none", "theirs", "another"}]
    /\ sessions = {} /\ sessionsMade = 0
    /\ chat \in BOOLEAN /\ (chat => account.state = "live")
    /\ tapped = {} /\ claimed = {}
    /\ signIns = [i \in SignInSlots |-> IdleSignIn]
    /\ things = [k \in Kinds |-> "none"] /\ known = {} /\ shared = "no"
    /\ working = FALSE
    /\ leaveJob = [state |-> "none", attempts |-> 0]
    /\ leavers = [w \in LeaveSlots |-> IdleLeaver]
    /\ late = {} /\ leaveFaults = 0

LeaverStep(w) ==
    \/ LeaseLeave(w) \/ LeaveLapses(w) \/ LeaveFails(w) \/ SayGoodbye(w)
    \/ \E kind \in {"computer", "grant", "site"} : TakesDown(w, kind)
    \/ BlobsOnlyTheyUse(w) \/ DeleteBlobs(w) \/ DeleteRow(w) \/ AlreadyDeleted(w)

LeavingNext ==
    \/ \E i \in SignInSlots : FindUser(i) \/ SignIn(i) \/ StartSession(i) \/ FindLinked(i)
                              \/ \E h \in Logins : ClaimLogin(i, h)
    \/ \E h \in Logins : TapsLogin(h)
    \/ \E s \in sessions : SignsOut(s) \/ RequestAccountDeletion(s)
    \/ LinksChat \/ WorkStarts \/ WorkEnds \/ OthersShare
    \/ \E kind \in Kinds : Makes(kind)
    \/ \E w \in LeaveSlots : LeaverStep(w)

LeavingSpec == LeavingInit /\ [][LeavingNext]_leavingVars

(***************************************************************************)
(* Properties.                                                             *)
(***************************************************************************)
LeavingTypeOK ==
    /\ account.state \in {"none", "live", "deleting", "gone"}
    /\ sessions \subseteq SessionIds
    /\ things \in [Kinds -> {"none", "there", "gone"}] /\ known \subseteq Kinds
    /\ claimed \subseteq tapped

\* Nothing the user had outside the database when they asked to leave outlives the row,
\* through crashes, failed steps and attempts that overlap; a file somebody else sent may.
NothingOldOutlives ==
    account.state = "gone" =>
        \A kind \in Kinds : things[kind] = "there" => kind \in late \/ (kind = "blob" /\ shared # "no")

\* A file somebody else had sent by then is still there for them.
OthersKeepTheirs == shared = "named" /\ "shared" \notin late => things["blob"] = "there"

\* The deletion is done only when the row is gone.
DoneMeansGone == leaveJob.state = "done" => account.state = "gone"

LeavingKept == NothingOldOutlives /\ OthersKeepTheirs /\ DoneMeansGone

\* "marks it, so it can't be signed in to, ends every session" (account-deletion.ts:8-9): a
\* sign-in that found the account before starts its session after, and a button in Telegram
\* asks for no mark (routes/auth/telegram.ts:38-43).
SessionsEnd == Leaving => sessions = {}

\* "Every site the user deployed, taken down (so none outlives the account)"
\* (delete-user.ts:87): not one that a run still going deploys after that step.
NoSiteOutlives == account.state = "gone" => things["site"] # "there"

\* "account deletion removes only blobs no one else's rows reference" (blobs/src/store.ts:71-72):
\* rows that name it between the look and the deletion don't count.
OnlyTheirBlobs == shared = "named" => things["blob"] = "there"

\* An account marked for deletion has a job that deletes it: not once its attempts are used,
\* and it can't be asked again.
DeletionGoesOn == account.state = "deleting" => leaveJob.state # "failed"
=============================================================================
