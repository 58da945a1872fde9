------------------------------ MODULE Contexts ------------------------------
(***************************************************************************)
(* What a model call is sent: the front of house's rolling window over its *)
(* stored stream (apps/agents/src/front/window.ts, turn.ts), and a         *)
(* background run's log with its summaries and images (background/run.ts,  *)
(* images.ts).  A cached prompt is paid for again from the first message   *)
(* that changed, so both change what was already sent only when they must; *)
(* and a tool's result sent without its call is refused.                   *)
(*                                                                         *)
(* A message's id is its place.  Sizes stand for characters and tokens:    *)
(* one, and two for tool output long enough to be shortened.               *)
(***************************************************************************)
EXTENDS Integers, Sequences, FiniteSets, SequencesExt, FiniteSetsExt

CONSTANTS
    TurnSlots,         \* workers that may take the user's turn
    NoSlot,
    MaxTokens,         \* defaultWindowBudget
    TargetTokens,
    MaxTurns,          \* bound: front-of-house runs
    MaxStream,         \* bound: messages they store
    CompactAt,         \* compactAtTokens
    KeptSteps,         \* keptSteps
    MaxLog,            \* bound: messages in the background run's log
    MaxContextFaults   \* bound: crashes, failed calls, a dropped connection

ASSUME ContextsAssumption ==
    /\ NoSlot \notin TurnSlots
    /\ {TargetTokens, MaxTurns, MaxStream, MaxLog, MaxContextFaults} \subseteq Nat
    /\ MaxTokens \in Nat /\ TargetTokens <= MaxTokens
    /\ {CompactAt, KeptSteps} \subseteq Nat \ {0}

VARIABLES
    stream,      \* run_messages of the user's front-of-house runs, by id
    turnRuns,    \* those runs: their status, and the messages they claimed
    frontState,  \* front_state: where the window starts, what is shortened
    lastCall,    \* the latest model_calls row, and what that call was sent
    cold,        \* an hour passed since lastCall
    unread,      \* messages of the user's no run claimed
    turnLock,    \* the slot whose connection holds the advisory lock, or NoSlot
    turns,       \* TurnSlots -> the turn it is taking
    dropped,     \* history: a lock's connection dropped under its turn
    taskLog,     \* run_messages of one background run
    taskCall,    \* its latest model_calls row
    taskSent,    \* what its latest step's call was sent
    taskStep,    \* where its worker is
    longCalls,   \* history: steps sent past CompactAt since the last try to compact
    contextFaults

frontVars == <<stream, turnRuns, frontState, lastCall, cold, unread, turnLock, turns, dropped>>
taskLogVars == <<taskLog, taskCall, taskSent, taskStep, longCalls>>
contextsVars == <<frontVars, taskLogVars, contextFaults>>

ContextFault ==
    /\ contextFaults < MaxContextFaults
    /\ contextFaults' = contextFaults + 1

-----------------------------------------------------------------------------
(* The front of house's stream                                             *)

StreamMessage == [run : 1..MaxTurns, role : {"input", "call", "result", "text"},
                  long : BOOLEAN, image : BOOLEAN]

\* A message in a request: whole, shortened, or with its image shown.
Shown == [id : Nat, form : {"whole", "short", "image"}]

Cost(form, m) == IF m.long /\ form # "short" THEN 2 ELSE 1

\* `shortened`: only long tool output is.
Shortened(id) == IF stream[id].long THEN "short" ELSE "whole"

Form(id, stub) == IF id < stub THEN Shortened(id) ELSE "whole"

UpTo(n) == [i \in 1..n |-> i]

\* The stream's rows a later turn can see, in order.
CompletedRows(start) ==
    SelectSeq(UpTo(Len(stream)),
              LAMBDA i : i >= start /\ turnRuns[stream[i].run].status = "completed")

\* Where `rows` go on with another run: the turns, by their first message's place in rows.
TurnStarts(rows) ==
    {k \in DOMAIN rows : k > 1 => stream[rows[k]].run # stream[rows[k - 1]].run}

TurnStartOf(rows, k) == Max({j \in TurnStarts(rows) : j <= k})

\* The system prompt's size is one.
RowSize(rows, k, boundary) ==
    Cost(IF rows[TurnStartOf(rows, k)] < boundary THEN Shortened(rows[k]) ELSE "whole", stream[rows[k]])

SizeFrom(rows, k, boundary) ==
    FoldSet(LAMBDA j, sum : sum + RowSize(rows, j, boundary), 0, {j \in DOMAIN rows : j >= k})

NoModelCall == [tokens |-> 0, run |-> 0, from |-> 0, to |-> 0, stub |-> 0, sent |-> <<>>]

OverBudget == lastCall.tokens > MaxTokens

CacheCold == lastCall = NoModelCall \/ cold

\* Turns drop from the front while the estimate, scaled to what the latest call
\* measured, is over the target; the latest turn always stays.
KeepFrom(rows, old, stub) ==
    LET whole == 1 + SizeFrom(rows, 1, old)
        left(k) == 1 + SizeFrom(rows, k, stub)
        latest == Max(TurnStarts(rows))
    IN Min({k \in TurnStarts(rows) :
              left(k) * lastCall.tokens <= TargetTokens * whole \/ k = latest})

\* Mutant: old output is shortened as soon as its turn is over, warm cache or not.
MutTrimsWarm ==
    LET rows == CompletedRows(frontState.start)
    IN IF rows = <<>> THEN frontState
       ELSE [frontState EXCEPT !.stub = Max({@, rows[Max(TurnStarts(rows))]})]

Trimmed ==
    LET rows == CompletedRows(frontState.start)
        latest == rows[Max(TurnStarts(rows))]
        stub == Max({frontState.stub, latest})
        keep == IF OverBudget THEN KeepFrom(rows, frontState.stub, stub) ELSE 1
    IN IF ~(OverBudget \/ CacheCold) \/ rows = <<>> THEN frontState
       ELSE [start |-> IF keep > 1 THEN rows[keep] ELSE frontState.start, stub |-> stub]

Loaded(state, before) ==
    LET rows == SelectSeq(CompletedRows(state.start), LAMBDA i : i < before)
    IN [k \in DOMAIN rows |-> [id |-> rows[k], form |-> Form(rows[k], state.stub)]]

-----------------------------------------------------------------------------
(* A turn                                                                  *)

NoTurn == [pc |-> "idle", run |-> 0, input |-> 0, sent |-> <<>>, from |-> 0, stub |-> 0,
           calls |-> 0, storing |-> <<>>, rewrites |-> FALSE]

InTurn(s, pc) == turns[s].pc = pc

Give(s, pc) == turns' = [turns EXCEPT ![s].pc = pc]

Append1(run, m) == stream' = Append(stream, [m EXCEPT !.run = run])

Message(role, long, image) == [run |-> 1, role |-> role, long |-> long, image |-> image]

\* The form of a message the turn itself stored: its image is in memory.
Fresh(m) == IF m.image THEN "image" ELSE "whole"

\* recoverAbandonedRuns: runs still running under the lock are dead.
Recovered ==
    [r \in DOMAIN turnRuns |-> IF turnRuns[r].status = "running"
                               THEN [status |-> "failed", took |-> 0] ELSE turnRuns[r]]

HandedBack ==
    FoldSet(LAMBDA r, sum : sum + turnRuns[r].took, 0,
            {r \in DOMAIN turnRuns : turnRuns[r].status = "running"})

ClaimTurn(s) ==
    /\ InTurn(s, "idle") /\ turnLock = NoSlot
    /\ Len(turnRuns) < MaxTurns
    /\ unread + HandedBack > 0
    /\ turnLock' = s
    /\ turnRuns' = Append(Recovered, [status |-> "running", took |-> unread + HandedBack])
    /\ unread' = 0
    /\ Append1(Len(turnRuns) + 1, Message("input", FALSE, FALSE))
    /\ turns' = [turns EXCEPT ![s] = [NoTurn EXCEPT !.pc = "load", !.run = Len(turnRuns) + 1,
                                                    !.input = Len(stream) + 1]]
    /\ UNCHANGED <<frontState, lastCall, cold, dropped, contextFaults>>

TrimAndLoad(s) ==
    LET t == turns[s]
        loaded == Loaded(Trimmed, t.input)
    IN /\ InTurn(s, "load")
       /\ frontState' = Trimmed
       /\ turns' = [turns EXCEPT ![s] =
              [t EXCEPT !.pc = "ask", !.stub = Trimmed.stub,
                        !.sent = Append(loaded, [id |-> t.input, form |-> Fresh(stream[t.input])]),
                        !.from = IF loaded = <<>> THEN t.input ELSE loaded[1].id,
                        !.rewrites = OverBudget \/ CacheCold]]
       /\ UNCHANGED <<stream, turnRuns, lastCall, cold, unread, turnLock, dropped, contextFaults>>

Measured(sent) ==
    1 + FoldSet(LAMBDA k, sum : sum + Cost(sent[k].form, stream[sent[k].id]), 0, DOMAIN sent)

LastStoredBy(run) == Max({i \in DOMAIN stream : stream[i].run = run})

Record(s, tokens) ==
    lastCall' = [tokens |-> tokens, run |-> turns[s].run, from |-> turns[s].from,
                 to |-> LastStoredBy(turns[s].run), stub |-> turns[s].stub, sent |-> turns[s].sent]

\* A step ends the turn with its text, or asks for a tool and has its result: a long one,
\* or an image (the user's photos are kept the same way).
Responses ==
    {<<Message("text", FALSE, FALSE)>>} \cup
    {<<Message("call", FALSE, FALSE), Message("result", ~image, image)>> : image \in BOOLEAN}

ModelResponds(s, response) ==
    /\ InTurn(s, "ask") /\ Len(stream) + Len(response) <= MaxStream
    /\ Record(s, Measured(turns[s].sent) + 1)
    /\ cold' = FALSE
    /\ turns' = [turns EXCEPT ![s].pc = "store", ![s].storing = response, ![s].calls = @ + 1]
    /\ UNCHANGED <<stream, turnRuns, frontState, unread, turnLock, dropped, contextFaults>>

\* A failed call is recorded too, with nothing measured; the turn tries again or fails.
ModelFails(s) ==
    /\ InTurn(s, "ask")
    /\ ContextFault
    /\ Record(s, 0)
    /\ cold' = FALSE
    /\ Give(s, "ask") \/ Give(s, "fail")
    /\ UNCHANGED <<stream, turnRuns, frontState, unread, turnLock, dropped>>

StoreResponse(s) ==
    LET t == turns[s]
        m == Head(t.storing)
    IN /\ InTurn(s, "store")
       /\ Append1(t.run, m)
       /\ turns' = [turns EXCEPT ![s] =
              [t EXCEPT !.storing = Tail(@),
                        !.sent = Append(@, [id |-> Len(stream) + 1, form |-> Fresh(m)]),
                        !.pc = IF Len(t.storing) > 1 THEN "store"
                               ELSE IF m.role = "text" THEN "finish" ELSE "steer"]]
       /\ UNCHANGED <<turnRuns, frontState, lastCall, cold, unread, turnLock, dropped, contextFaults>>

\* Messages that arrived meanwhile are claimed before the next step.
SteerNew(s) ==
    LET t == turns[s]
    IN /\ InTurn(s, "steer")
       /\ IF unread = 0 THEN Give(s, "ask") /\ UNCHANGED <<stream, turnRuns, unread>>
          ELSE /\ Append1(t.run, Message("input", FALSE, FALSE))
               /\ turnRuns' = [turnRuns EXCEPT ![t.run].took = @ + unread]
               /\ unread' = 0
               /\ turns' = [turns EXCEPT ![s].pc = "ask",
                      ![s].sent = Append(@, [id |-> Len(stream) + 1, form |-> "whole"])]
       /\ UNCHANGED <<frontState, lastCall, cold, turnLock, dropped, contextFaults>>

Unlocked(s) == turnLock' = IF turnLock = s THEN NoSlot ELSE turnLock

TurnCompletes(s) ==
    /\ InTurn(s, "finish")
    /\ turnRuns' = [turnRuns EXCEPT ![turns[s].run].status = "completed"]
    /\ Unlocked(s)
    /\ turns' = [turns EXCEPT ![s] = NoTurn]
    /\ UNCHANGED <<stream, frontState, lastCall, cold, unread, dropped, contextFaults>>

\* The input goes back; the job's retry brings the next turn.
TurnFails(s) ==
    /\ InTurn(s, "fail")
    /\ turnRuns' = [turnRuns EXCEPT ![turns[s].run] = [status |-> "failed", took |-> 0]]
    /\ unread' = unread + turnRuns[turns[s].run].took
    /\ Unlocked(s)
    /\ turns' = [turns EXCEPT ![s] = NoTurn]
    /\ UNCHANGED <<stream, frontState, lastCall, cold, dropped, contextFaults>>

TurnCrashes(s) ==
    /\ turns[s].pc # "idle"
    /\ ContextFault
    /\ Unlocked(s)
    /\ turns' = [turns EXCEPT ![s] = NoTurn]
    /\ UNCHANGED <<stream, turnRuns, frontState, lastCall, cold, unread, dropped>>

\* The reserved connection closes while its worker lives.
LockDrops(s) ==
    /\ turnLock = s
    /\ ContextFault
    /\ turnLock' = NoSlot /\ dropped' = TRUE
    /\ UNCHANGED <<stream, turnRuns, frontState, lastCall, cold, unread, turns>>

UserWrites ==
    /\ unread = 0 /\ unread' = 1
    /\ UNCHANGED <<stream, turnRuns, frontState, lastCall, cold, turnLock, turns, dropped, contextFaults>>

\* An hour without a call.
CacheExpires ==
    /\ ~cold /\ lastCall # NoModelCall /\ \A s \in TurnSlots : InTurn(s, "idle")
    /\ cold' = TRUE
    /\ UNCHANGED <<stream, turnRuns, frontState, lastCall, unread, turnLock, turns, dropped, contextFaults>>

TurnStep(s) ==
    \/ ClaimTurn(s)
    \/ TrimAndLoad(s)
    \/ \E response \in Responses : ModelResponds(s, response)
    \/ ModelFails(s)
    \/ StoreResponse(s)
    \/ SteerNew(s)
    \/ TurnCompletes(s)
    \/ TurnFails(s)
    \/ TurnCrashes(s)
    \/ LockDrops(s)

FrontNext ==
    /\ \/ \E s \in TurnSlots : TurnStep(s)
       \/ UserWrites
       \/ CacheExpires
    /\ UNCHANGED taskLogVars

-----------------------------------------------------------------------------
(* A background run's log and context                                      *)

\* "stub": the image is in the blob store; "inline": it is in the message.
LogEntry == [kind : {"brief", "call", "result", "summary"}, image : {"none", "stub", "inline"}]

Entry(kind) == [kind |-> kind, image |-> "none"]

PositionsOf(kind) == {i \in DOMAIN taskLog : taskLog[i].kind = kind}

LatestSummary == IF PositionsOf("summary") = {} THEN 0 ELSE Max(PositionsOf("summary"))

\* The first of the steps kept word for word before the summary at `at`.
KeptFrom(at) ==
    LET starts == SelectSeq(UpTo(at - 1), LAMBDA i : taskLog[i].kind = "call")
    IN IF starts = <<>> THEN at ELSE starts[Max({1, Len(starts) - KeptSteps + 1})]

\* The ids of the messages in the context; the brief, 1, carries the summary.
ContextOf ==
    LET at == LatestSummary
    IN IF at = 0 THEN UpTo(Len(taskLog))
       ELSE <<1>> \o SelectSeq(UpTo(Len(taskLog)),
                LAMBDA i : i >= KeptFrom(at) /\ i # at /\ taskLog[i].kind # "summary" /\ i > 1)

\* Of `count` stored images the first ones stay stubs; the cut moves in threes.
FirstShown(count) == IF count < 3 THEN 0 ELSE ((count - 3) \div 3) * 3

StubsIn(ids) == SelectSeq(ids, LAMBDA i : taskLog[i].image = "stub")

\* rehydrateImages
Rehydrated(ids) ==
    LET stubs == StubsIn(ids)
        shown == {stubs[k] : k \in (FirstShown(Len(stubs)) + 1)..Len(stubs)}
    IN [k \in DOMAIN ids |->
          [id |-> ids[k],
           form |-> IF taskLog[ids[k]].image = "inline" \/ ids[k] \in shown THEN "image" ELSE "whole"]]

\* contextTokens: the summarizer's call saw the old context, so it says nothing.
ContextTokens == IF taskCall.what = "compaction" THEN 0 ELSE taskCall.tokens

StoreEntry(entry) ==
    /\ Len(taskLog) < MaxLog
    /\ taskLog' = Append(taskLog, entry)

Pictures == {"none", "stub"}

\* The step begins, and first answers the calls an interrupted one left.  An
\* image looked at again is stored as it came.
BeginStep ==
    /\ taskStep = "idle"
    /\ IF Last(taskLog).kind = "call"
       THEN \E picture \in {"none", "inline"} : StoreEntry([Entry("result") EXCEPT !.image = picture])
       ELSE UNCHANGED taskLog
    /\ taskStep' = IF ContextTokens > CompactAt THEN "compact" ELSE "ask"
    /\ UNCHANGED <<taskCall, taskSent, longCalls, contextFaults>>

SummaryWritten ==
    /\ taskStep = "compact"
    /\ taskCall' = [what |-> "compaction", tokens |-> Len(ContextOf) + 1]
    /\ longCalls' = 0
    /\ taskStep' = "summary"
    /\ UNCHANGED <<taskLog, taskSent, contextFaults>>

StoreSummary ==
    /\ taskStep = "summary"
    /\ StoreEntry(Entry("summary"))
    /\ taskStep' = "ask"
    /\ UNCHANGED <<taskCall, taskSent, longCalls, contextFaults>>

\* The call fails for good: the job's retry begins the step again.
TaskCallFails ==
    /\ taskStep \in {"compact", "ask"}
    /\ ContextFault
    /\ taskCall' = [what |-> IF taskStep = "ask" THEN "step" ELSE "compaction", tokens |-> 0]
    /\ longCalls' = IF taskStep = "compact" THEN 0 ELSE longCalls
    /\ taskStep' \in {taskStep, "idle"}
    /\ UNCHANGED <<taskLog, taskSent>>

TaskAnswered ==
    LET tokens == Len(ContextOf) + 1
    IN /\ taskStep = "ask"
       /\ taskCall' = [what |-> "step", tokens |-> tokens]
       /\ taskSent' = Rehydrated(ContextOf)
       /\ longCalls' = IF tokens > CompactAt THEN longCalls + 1 ELSE longCalls
       /\ taskStep' = "reply"
       /\ UNCHANGED <<taskLog, contextFaults>>

StoreCall ==
    /\ taskStep = "reply"
    /\ StoreEntry(Entry("call"))
    /\ taskStep' = "tools"
    /\ UNCHANGED <<taskCall, taskSent, longCalls, contextFaults>>

StoreToolResult ==
    /\ taskStep = "tools"
    /\ \E picture \in Pictures : StoreEntry([Entry("result") EXCEPT !.image = picture])
    /\ taskStep' = "idle"
    /\ UNCHANGED <<taskCall, taskSent, longCalls, contextFaults>>

TaskWorkerDies ==
    /\ taskStep # "idle"
    /\ ContextFault
    /\ taskStep' = "idle"
    /\ UNCHANGED <<taskLog, taskCall, taskSent, longCalls>>

TaskLogNext ==
    /\ \/ BeginStep \/ SummaryWritten \/ StoreSummary \/ TaskCallFails
       \/ TaskAnswered \/ StoreCall \/ StoreToolResult \/ TaskWorkerDies
    /\ UNCHANGED frontVars

-----------------------------------------------------------------------------
ContextsInit ==
    /\ stream = <<>> /\ turnRuns = <<>>
    /\ frontState = [start |-> 0, stub |-> 0]
    /\ lastCall = NoModelCall /\ cold = FALSE
    /\ unread = 0 /\ turnLock = NoSlot /\ dropped = FALSE
    /\ turns = [s \in TurnSlots |-> NoTurn]
    /\ taskLog = <<Entry("brief")>>
    /\ taskCall = [what |-> "none", tokens |-> 0]
    /\ taskSent = <<>> /\ taskStep = "idle" /\ longCalls = 0
    /\ contextFaults = 0

ContextsNext == FrontNext \/ TaskLogNext

ContextsSpec == ContextsInit /\ [][ContextsNext]_contextsVars

-----------------------------------------------------------------------------
(* Properties                                                              *)

ContextsTypeOK ==
    /\ stream \in Seq(StreamMessage)
    /\ \A r \in DOMAIN turnRuns : turnRuns[r].status \in {"running", "completed", "failed"}
    /\ frontState \in [start : Nat, stub : Nat]
    /\ unread \in Nat /\ turnLock \in TurnSlots \cup {NoSlot}
    /\ taskLog \in Seq(LogEntry)
    /\ taskStep \in {"idle", "compact", "summary", "ask", "reply", "tools"}

\* Every call in a request is followed by its result, and no result is alone.
Paired(sent) ==
    \A k \in DOMAIN sent :
        /\ stream[sent[k].id].role = "call" =>
              k < Len(sent) /\ stream[sent[k + 1].id].role = "result"
        /\ stream[sent[k].id].role = "result" =>
              k > 1 /\ stream[sent[k - 1].id].role = "call"

\* "A cut never lands between a tool call and its result" (window.ts): whatever is trimmed,
\* crashed or failed, as long as the lock holds.
WindowsPaired == ~dropped => \A s \in TurnSlots : InTurn(s, "ask") => Paired(turns[s].sent)

\* The latest finished turn is always in the window, and in full.
LatestTurnStays ==
    \A s \in TurnSlots : (InTurn(s, "ask") /\ turns[s].calls = 0 /\ ~dropped) =>
        LET rows == CompletedRows(0)
        IN \A i \in DOMAIN rows : stream[rows[i]].run = stream[Last(rows)].run =>
               \E k \in DOMAIN turns[s].sent :
                   turns[s].sent[k] = [id |-> rows[i], form |-> "whole"]

\* While the cache is warm and the window in budget, a call's prompt goes on from the one
\* before, message for message, unless that turn failed or showed an image.
PromptGoesOn ==
    \A s \in TurnSlots :
        (/\ InTurn(s, "ask") /\ ~dropped /\ lastCall # NoModelCall
         /\ \/ lastCall.run = turns[s].run
            \/ /\ turnRuns[lastCall.run].status = "completed" /\ ~turns[s].rewrites
               /\ \A k \in DOMAIN lastCall.sent : lastCall.sent[k].form # "image")
        => IsPrefix(lastCall.sent, turns[s].sent)

\* What model_calls says of the latest call rebuilds what it was sent, but for the images.
Rebuilt(call) ==
    LET ids == SelectSeq(UpTo(call.to), LAMBDA i :
                  /\ i >= call.from
                  /\ turnRuns[stream[i].run].status = "completed" \/ stream[i].run = call.run)
    IN [k \in DOMAIN ids |-> [id |-> ids[k], form |-> Form(ids[k], call.stub)]]

CallsRebuilt ==
    (lastCall # NoModelCall /\ ~dropped) =>
        Rebuilt(lastCall) = [k \in DOMAIN lastCall.sent |->
            [lastCall.sent[k] EXCEPT !.form = IF @ = "image" THEN "whole" ELSE @]]

\* A task's context has its brief, every message since the summary, and the last steps
\* before it whole; no call without its result.
TaskContextWhole ==
    taskStep = "ask" =>
        LET ids == ContextOf
            later(i, at) == Cardinality({j \in PositionsOf("call") : j > i /\ j < at})
            due(i) == \/ i = 1 \/ i > LatestSummary
                      \/ later(i, LatestSummary) < KeptSteps /\ taskLog[i].kind = "call"
                      \/ later(i, LatestSummary) < KeptSteps /\ taskLog[i].kind = "result"
        IN /\ \A i \in DOMAIN taskLog : due(i) => \E k \in DOMAIN ids : ids[k] = i
           /\ \A k \in DOMAIN ids :
                 /\ taskLog[ids[k]].kind = "call" =>
                       k < Len(ids) /\ taskLog[ids[k + 1]].kind = "result"
                 /\ taskLog[ids[k]].kind = "result" => k > 1 /\ taskLog[ids[k - 1]].kind = "call"

\* The newest three images are shown and never more than five, and until the cut moves or
\* a summary is written, a step's prompt goes on from the one before.
TaskPromptGoesOn ==
    taskStep = "ask" =>
        LET sent == Rehydrated(ContextOf)
            stubs == StubsIn(ContextOf)
            shown == {k \in DOMAIN sent : sent[k].form = "image" /\ taskLog[sent[k].id].image = "stub"}
            was == Len(SelectSeq(taskSent, LAMBDA e : taskLog[e.id].image = "stub"))
        IN /\ Cardinality(shown) <= 5
           /\ \A k \in DOMAIN stubs : k > Len(stubs) - 3 => [id |-> stubs[k], form |-> "image"] \in {sent[j] : j \in DOMAIN sent}
           /\ (taskSent # <<>> /\ Last(taskSent).id > LatestSummary /\ was \div 3 = Len(stubs) \div 3)
                 => IsPrefix(taskSent, sent)

\* At most one step is taken past the limit before the run tries to compact, whatever failed.
CompactedSoon == longCalls <= 1

ContextsKept ==
    /\ WindowsPaired /\ LatestTurnStays /\ PromptGoesOn /\ CallsRebuilt
    /\ TaskContextWhole /\ TaskPromptGoesOn /\ CompactedSoon

-----------------------------------------------------------------------------
(* What the comments say and the code does not keep                        *)

\* "A long run summarizes itself before going on" (background/run.ts): it does not when
\* the summary's call fails, or its worker dies before the summary is stored.
SummaryComesFirst ==
    (taskStep = "ask" /\ Len(taskSent) + 1 > CompactAt) => LatestSummary > Last(taskSent).id

\* "Stored messages keep images as blob stubs" (images.ts): not one looked at again for an
\* interrupted step.
ImagesAreStubs == \A i \in DOMAIN taskLog : taskLog[i].image # "inline"

\* "Whole turns drop from the front down to about the target" (window.ts): a turn that dies
\* before its first call is measured leaves the old measure behind, and the next trims again.
DropsToTarget ==
    [][frontState'.start # frontState.start =>
          1 + SizeFrom(CompletedRows(frontState.start), 1, frontState'.stub) > TargetTokens]_contextsVars

\* The same promise of window.ts when the lock's connection drops under a turn.
AlwaysPaired == \A s \in TurnSlots : InTurn(s, "ask") => Paired(turns[s].sent)
=============================================================================
