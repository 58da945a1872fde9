------------------------------- MODULE Media -------------------------------
(***************************************************************************)
(* A file the user sends in Telegram (apps/agents/src/attachments.ts): the *)
(* message is held while `save_attachment` puts the file on the user's     *)
(* computer, and, for speech, while `transcribe_voice` writes down what    *)
(* was said; then it is released and a turn queued.                        *)
(*                                                                         *)
(* One message.  A job is leased for a minute and nothing renews it        *)
(* (handler.ts, stepLeaseMs), so a slow handler finds itself superseded    *)
(* and goes on beside the next.                                            *)
(***************************************************************************)
EXTENDS Naturals, Sequences, FiniteSets

CONSTANTS
    MediaSlots,         \* handlers that may be at work at once
    MediaAttempts,      \* maxAttempts of a job
    MaxMediaJobs,       \* bound: rows in the job table
    MaxMediaFaults      \* bound: workers that die, leases that run out, replies that are lost

ASSUME MediaAssumption ==
    {MediaAttempts, MaxMediaJobs, MaxMediaFaults} \subseteq Nat \ {0}

VARIABLES
    speech,             \* it is a voice or video note
    held,               \* inbound_items.pending
    payload,            \* its attachment: status, where it is, whether it was heard
    inboxFiles,             \* the files on the computer
    fileRows,           \* the rows of `files`, in order
    turnQueued,         \* front_turn
    mediaJobs,
    handler,            \* what each slot is at
    mediaFaults

mediaVars == <<speech, held, payload, inboxFiles, fileRows, turnQueued, mediaJobs, handler, mediaFaults>>

MediaJobIds == 1 .. MaxMediaJobs
InboxPaths == 1 .. 3            \* bound: names that are tried in the inboxFiles
Unnamed == 0
Payloads == [status : {"pending", "saved", "failed", "too_large"}, path : {Unnamed} \cup InboxPaths,
             said : {"no", "transcript", "unheard"}]
NoMediaJob == [type |-> "none", state |-> "none", attempts |-> 0]
IdleHandler == [at |-> "idle", job |-> 0, attempt |-> 0, seen |-> payload]

JobOf(w) == mediaJobs[handler[w].job]
\* The lease is still this handler's own: it may have run out, nobody took the job.
Holds(w) == JobOf(w).state \in {"leased", "lapsed"} /\ JobOf(w).attempts = handler[w].attempt

MediaFault == mediaFaults < MaxMediaFaults /\ mediaFaults' = mediaFaults + 1
Still(vars) == UNCHANGED vars /\ UNCHANGED speech

(***************************************************************************)
(* The worker around a handler.                                            *)
(***************************************************************************)
Ended(w) == handler' = [handler EXCEPT ![w].at = "idle"]
Completes(w, jobs) ==
    IF Holds(w) THEN [jobs EXCEPT ![handler[w].job].state = "done"] ELSE jobs

\* A queued job, or one whose lease ran out.
LeaseMedia(w, j) ==
    /\ handler[w].at = "idle" /\ mediaJobs[j].state \in {"queued", "lapsed"}
    /\ mediaJobs' = [mediaJobs EXCEPT ![j].state = "leased", ![j].attempts = @ + 1]
    /\ handler' = [handler EXCEPT ![w] = [at |-> "read", job |-> j, attempt |-> mediaJobs[j].attempts + 1,
                                          seen |-> payload]]
    /\ Still(<<held, payload, inboxFiles, fileRows, turnQueued, mediaFaults>>)

LeaseLapses(w) ==
    /\ handler[w].at # "idle" /\ Holds(w) /\ JobOf(w).state = "leased" /\ MediaFault
    /\ mediaJobs' = [mediaJobs EXCEPT ![handler[w].job].state = "lapsed"]
    /\ \/ UNCHANGED handler
       \/ Ended(w)              \* the worker died
    /\ Still(<<held, payload, inboxFiles, fileRows, turnQueued>>)

\* Thrown: whoever still holds the job queues it again, unless its attempts are used.
Thrown(w, used) ==
    /\ mediaJobs' = IF Holds(w) THEN [mediaJobs EXCEPT ![handler[w].job].state =
                                        IF handler[w].attempt < MediaAttempts THEN "queued" ELSE used]
                    ELSE mediaJobs
    /\ Ended(w)

\* The database fails the first read or the release, which nothing catches: if the
\* attempt was the last, the job is broken off with the message still held.
DatabaseFails(w) ==
    /\ handler[w].at \in {"read", "release"} /\ MediaFault
    /\ Thrown(w, "broken off")
    /\ Still(<<held, payload, inboxFiles, fileRows, turnQueued>>)

Proceeds(w, at, seen) == handler' = [handler EXCEPT ![w].at = at, ![w].seen = seen] /\ UNCHANGED mediaJobs

Unsaved(seen, status) == [seen EXCEPT !.status = status, !.path = Unnamed]
GivenUp(w) ==
    IF JobOf(w).type = "save" THEN Unsaved(handler[w].seen, "failed") ELSE [handler[w].seen EXCEPT !.said = "unheard"]

\* Retried with backoff; the last attempt gives up, so the message isn't held forever.
Fails(w) == IF handler[w].attempt < MediaAttempts THEN Thrown(w, "failed") ELSE Proceeds(w, "release", GivenUp(w))

(***************************************************************************)
(* save_attachment.                                                        *)
(***************************************************************************)
ReadHeld(w) ==
    /\ handler[w].at = "read"
    /\ IF ~held THEN Ended(w) /\ mediaJobs' = Completes(w, mediaJobs)
       ELSE Proceeds(w, IF JobOf(w).type = "save" THEN "download"
                        ELSE IF payload.path = Unnamed THEN "release" ELSE "hear", payload)
    /\ Still(<<held, payload, inboxFiles, fileRows, turnQueued, mediaFaults>>)

Download(w) ==
    /\ handler[w].at = "download"
    /\ \/ Fails(w)
       \/ Proceeds(w, "release", Unsaved(handler[w].seen, "too_large"))
       \/ Proceeds(w, IF handler[w].seen.path = Unnamed THEN "reserve" ELSE "write", handler[w].seen)
    /\ Still(<<held, payload, inboxFiles, fileRows, turnQueued, mediaFaults>>)

\* The empty placeholder claims the name, also against a save beside this one.
FreeName == CHOOSE p \in InboxPaths :
                inboxFiles[p] = "none" /\ \A q \in InboxPaths : q < p => inboxFiles[q] # "none"
NameIsFree == \E p \in InboxPaths : inboxFiles[p] = "none"

ReserveName(w) ==
    /\ handler[w].at = "reserve" /\ NameIsFree
    /\ inboxFiles' = [inboxFiles EXCEPT ![FreeName] = "empty"]
    /\ \/ Proceeds(w, "note", [handler[w].seen EXCEPT !.path = FreeName]) /\ UNCHANGED mediaFaults
       \/ MediaFault /\ Fails(w)        \* claimed, but the answer was lost
    /\ Still(<<held, payload, fileRows, turnQueued>>)

ReserveFails(w) ==
    /\ handler[w].at = "reserve"
    /\ Fails(w)
    /\ Still(<<held, payload, inboxFiles, fileRows, turnQueued, mediaFaults>>)

\* The whole payload, as this handler read it, with the name: a retry reuses it.
NotePath(w) ==
    /\ handler[w].at = "note"
    /\ payload' = handler[w].seen
    /\ Proceeds(w, "write", handler[w].seen)
    /\ Still(<<held, inboxFiles, fileRows, turnQueued, mediaFaults>>)

WriteInbox(w) ==
    /\ handler[w].at = "write"
    /\ \/ /\ inboxFiles' = [inboxFiles EXCEPT ![handler[w].seen.path] = "whole"]
          /\ Proceeds(w, "release", [handler[w].seen EXCEPT !.status = "saved"])
       \/ UNCHANGED inboxFiles /\ Fails(w)
    /\ Still(<<held, payload, fileRows, turnQueued, mediaFaults>>)

(***************************************************************************)
(* transcribe_voice.                                                       *)
(***************************************************************************)
\* Read back from the computer and heard; silence isn't worth a retry.
Transcribe(w) ==
    /\ handler[w].at = "hear"
    /\ \/ Fails(w)
       \/ \E said \in {"transcript", "unheard"} :
             Proceeds(w, "release", [handler[w].seen EXCEPT !.said = said])
    /\ Still(<<held, payload, inboxFiles, fileRows, turnQueued, mediaFaults>>)

(***************************************************************************)
(* release: one transaction, for an item that is still held.               *)
(***************************************************************************)
QueuedTranscription == \E j \in MediaJobIds : mediaJobs[j].type = "transcribe" /\ mediaJobs[j].state = "queued"
NextMediaJob == CHOOSE j \in MediaJobIds :
                    mediaJobs[j] = NoMediaJob /\ \A i \in MediaJobIds : i < j => mediaJobs[i] # NoMediaJob
WithTranscription(jobs) ==
    IF QueuedTranscription THEN jobs
    ELSE [jobs EXCEPT ![NextMediaJob] = [type |-> "transcribe", state |-> "queued", attempts |-> 0]]

RecordsFile(w) == JobOf(w).type = "save" /\ handler[w].seen.status = "saved"
StaysHeld(w) == RecordsFile(w) /\ speech

ReleaseHeld(w) ==
    /\ handler[w].at = "release" /\ held
    /\ StaysHeld(w) => QueuedTranscription \/ mediaJobs[MaxMediaJobs] = NoMediaJob
    /\ payload' = handler[w].seen
    /\ held' = StaysHeld(w)
    /\ fileRows' = IF RecordsFile(w) THEN Append(fileRows, handler[w].seen.path) ELSE fileRows
    /\ mediaJobs' = Completes(w, IF StaysHeld(w) THEN WithTranscription(mediaJobs) ELSE mediaJobs)
    /\ turnQueued' = (turnQueued \/ ~StaysHeld(w))
    /\ Ended(w)
    /\ Still(<<inboxFiles, mediaFaults>>)

AlreadyReleased(w) ==
    /\ handler[w].at = "release" /\ ~held
    /\ mediaJobs' = Completes(w, mediaJobs) /\ Ended(w)
    /\ Still(<<held, payload, inboxFiles, fileRows, turnQueued, mediaFaults>>)

MediaInit ==
    /\ speech \in BOOLEAN
    /\ held = TRUE /\ payload = [status |-> "pending", path |-> Unnamed, said |-> "no"]
    /\ inboxFiles = [p \in InboxPaths |-> "none"] /\ fileRows = <<>> /\ turnQueued = FALSE
    /\ mediaJobs = [j \in MediaJobIds |-> IF j = 1 THEN [type |-> "save", state |-> "queued", attempts |-> 0]
                                          ELSE NoMediaJob]
    /\ handler = [w \in MediaSlots |-> IdleHandler]
    /\ mediaFaults = 0

MediaStep(w) ==
    \/ \E j \in MediaJobIds : LeaseMedia(w, j)
    \/ LeaseLapses(w) \/ DatabaseFails(w)
    \/ ReadHeld(w) \/ Download(w) \/ ReserveName(w) \/ ReserveFails(w) \/ NotePath(w) \/ WriteInbox(w)
    \/ Transcribe(w) \/ ReleaseHeld(w) \/ AlreadyReleased(w)

MediaNext == \E w \in MediaSlots : MediaStep(w)
MediaSpec == MediaInit /\ [][MediaNext]_mediaVars

(***************************************************************************)
(* Properties.                                                             *)
(***************************************************************************)
MediaTypeOK ==
    /\ payload \in Payloads
    /\ inboxFiles \in [InboxPaths -> {"none", "empty", "whole"}]
    /\ \A w \in MediaSlots : handler[w].at # "idle" => handler[w].job \in MediaJobIds /\ handler[w].seen \in Payloads
    /\ turnQueued \in BOOLEAN

\* A held message has a job that will release it, whatever the handlers, their crashes
\* and their duplicates did, unless the database failed the last attempt.
HeldHasAJob == held => \E j \in MediaJobIds : mediaJobs[j].state \in {"queued", "leased", "lapsed", "broken off"}

\* "the last attempt gives up so the message isn't held forever" (attachments.ts:168-169):
\* the release itself is outside that catch.
NeverHeldForever == held => \E j \in MediaJobIds : mediaJobs[j].state \in {"queued", "leased", "lapsed"}

\* What `files` records, and what a released message says is saved, is whole on the
\* computer: a name that another save reserved is never shown for it.
RecordedIsWhole ==
    /\ \A i \in DOMAIN fileRows : inboxFiles[fileRows[i]] = "whole"
    /\ payload.status = "saved" => inboxFiles[payload.path] = "whole"

\* Speech whose file is saved reaches the model as what was said, or marked unheard.
SpeechIsHeard == speech /\ ~held /\ payload.status = "saved" => payload.said # "no"

\* A held message has its job, a recorded file is the whole file, speech is heard or marked (attachments.ts).
MediaKept == HeldHasAJob /\ RecordedIsWhole /\ SpeechIsHeard

\* "Guarded on `pending`, so a duplicate run does nothing" (attachments.ts:296-297).  Speech
\* stays pending while it is transcribed, so a save that is retried after its release
\* records the file again.
DuplicateSaveDoesNothing == Len(fileRows) <= 1

\* A released message says what became of its file.  A superseded save that notes its name
\* late puts the payload back to pending (attachments.ts:218-223).
ReleasedSaysWhat == ~held => payload.status # "pending"

\* "The name is reserved once and remembered" (attachments.ts:198): not if the worker dies,
\* or the answer is lost, before it is noted.
ReservedOnce == Cardinality({p \in InboxPaths : inboxFiles[p] # "none"}) <= 1
=============================================================================
