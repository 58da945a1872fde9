------------------------------ MODULE Transfers ------------------------------
(***************************************************************************)
(* Files to and from a user's computer: the gateway's transfers            *)
(* (apps/gateway/src/files.ts), winstond's end of them                     *)
(* (apps/winstond/src/daemon.ts, queue.ts), and the helper process that    *)
(* writes a file under another name and renames it into place              *)
(* (apps/winstond/src/files.ts, file-ops.ts).                              *)
(*                                                                         *)
(* One path on one VM.  A write's contents are its name and its chunks; a   *)
(* hash tells the contents and the number of chunks.  A connection         *)
(* carries frames in order; when it breaks, either end notices by itself.  *)
(***************************************************************************)
EXTENDS Naturals, Sequences, FiniteSets

CONSTANTS
    Reads, Writes,      \* the transfers
    FileChunks,         \* chunks in a file
    MaxLines            \* bound: connections winstond makes

ASSUME TransfersAssumption ==
    /\ {FileChunks, MaxLines} \subseteq Nat \ {0}
    /\ Reads \cap Writes = {}

VARIABLES
    line,               \* per connection: either end of it, and its frames each way
    gatewayLine,        \* the gateway's connection for the VM
    transfer,           \* the gateway's transfers
    upload,             \* winstond: the chunks pushed for each write
    helper,             \* the process writing each file, with its temporary file
    reading,            \* winstond: files being sent
    file,               \* what is at the path
    \* history
    held                \* what was at the path while a read was on

transferVars == <<line, gatewayLine, transfer, upload, helper, reading, file, held>>

Transfers == Reads \cup Writes
Lines == 1 .. MaxLines
Original == "original"
Contents(of, chunks) == [of |-> of, chunks |-> chunks]
FileFrame(type, id, seq, of) == [type |-> type, id |-> id, seq |-> seq, of |-> of]

UploadOn(n) == [on |-> TRUE, line |-> n, seq |-> 0, items |-> 0, closed |-> FALSE, failed |-> FALSE]
NoUpload == [on |-> FALSE, line |-> 0, seq |-> 0, items |-> 0, closed |-> FALSE, failed |-> FALSE]
NoReading == [line |-> 0, of |-> Contents(Original, FileChunks), seq |-> 0]
NotBegun == [state |-> "none", line |-> 0, seq |-> 0, of |-> Original]

LineAtVm == {n \in Lines : line[n].vm = "open"}
OnLine(all, n, frame) == IF all[n].vm = "open" THEN [all EXCEPT ![n].toGateway = Append(@, frame)] ELSE all
Failed(all, ids) == [t \in Transfers |-> IF t \in ids THEN [all[t] EXCEPT !.state = "failed"] ELSE all[t]]
InFlight(all, t) == all[t].state \in {"waiting", "begun"}

(***************************************************************************)
(* The gateway.                                                            *)
(***************************************************************************)
\* A write sends its promise, every chunk and the end in one go.
WriteFrames(w) ==
    <<FileFrame("write", w, 0, w)>>
        \o [n \in 1 .. FileChunks |-> FileFrame("chunk", w, n - 1, w)]
        \o <<FileFrame("end", w, 0, w)>>

StartTransfer(t) ==
    /\ transfer[t].state = "none"
    /\ IF gatewayLine = 0
       THEN transfer' = Failed(transfer, {t}) /\ UNCHANGED line
       ELSE /\ transfer' = [transfer EXCEPT ![t] = [NotBegun EXCEPT !.state = "waiting", !.line = gatewayLine]]
            /\ line' = [line EXCEPT ![gatewayLine].toVm =
                   @ \o (IF t \in Reads THEN <<FileFrame("read", t, 0, Original)>> ELSE WriteFrames(t))]
    /\ held' = IF t \in Reads THEN [held EXCEPT ![t] = {file}] ELSE held
    /\ UNCHANGED <<gatewayLine, upload, helper, reading, file>>

\* The VM's SHA-256 is checked against what came: the chunks, in order.
SameHash(t, frame) == frame.seq = transfer[t].seq /\ frame.of = transfer[t].of

Handled(t, frame) ==
    IF ~InFlight(transfer, t) THEN transfer
    ELSE IF frame.type = "done" /\ (t \in Writes \/ SameHash(t, frame))
         THEN [transfer EXCEPT ![t].state = "done"]
    ELSE IF frame.type = "chunk" /\ frame.seq = transfer[t].seq
         THEN [transfer EXCEPT ![t].seq = @ + 1, ![t].state = "begun", ![t].of = frame.of]
    ELSE Failed(transfer, {t})     \* an error, a chunk out of order, another hash

GatewayHandles(n) ==
    /\ line[n].gateway = "open" /\ line[n].toGateway # <<>>
    /\ line' = [line EXCEPT ![n].toGateway = Tail(@)]
    /\ LET frame == Head(line[n].toGateway) IN transfer' = Handled(frame.id, frame)
    /\ UNCHANGED <<gatewayLine, upload, helper, reading, file, held>>

\* The timer is set once, when the transfer starts.
TransferTimesOut(t) ==
    /\ InFlight(transfer, t)
    /\ transfer' = Failed(transfer, {t})
    /\ UNCHANGED <<line, gatewayLine, upload, helper, reading, file, held>>

\* closed: the transfers on that socket can't finish.
LineFails(n) == {t \in Transfers : InFlight(transfer, t) /\ transfer[t].line = n}

GatewaySeesClose(n) ==
    /\ line[n].gateway = "open" /\ (line[n].vm = "closed" \/ gatewayLine # n)
    /\ line' = [line EXCEPT ![n].gateway = "closed", ![n].toVm = <<>>, ![n].toGateway = <<>>]
    /\ gatewayLine' = IF gatewayLine = n THEN 0 ELSE gatewayLine
    /\ transfer' = Failed(transfer, LineFails(n))
    /\ UNCHANGED <<upload, helper, reading, file, held>>

(***************************************************************************)
(* Winstond.                                                               *)
(***************************************************************************)
\* As if it dialled again before it noticed that the last connection had closed.
MutVmConnects(n) ==
    /\ line[n].vm = "none" /\ \A m \in 1 .. n - 1 : line[m].vm # "none"
    /\ line' = [line EXCEPT ![n] = [vm |-> "open", gateway |-> "open", toVm |-> <<>>, toGateway |-> <<>>]]
    /\ gatewayLine' = n
    /\ UNCHANGED <<transfer, upload, helper, reading, file, held>>
VmConnects(n) ==
    /\ LineAtVm = {} /\ line[n].vm = "none" /\ \A m \in 1 .. n - 1 : line[m].vm # "none"
    /\ line' = [line EXCEPT ![n] = [vm |-> "open", gateway |-> "open", toVm |-> <<>>, toGateway |-> <<>>]]
    /\ gatewayLine' = n
    /\ UNCHANGED <<transfer, upload, helper, reading, file, held>>

\* Its end closes: what was sent before is still on its way, what is sent to it is lost.
VmSeesClose(n) ==
    /\ line[n].vm = "open"
    /\ line' = [line EXCEPT ![n].vm = "closed"]
    /\ UNCHANGED <<gatewayLine, transfer, upload, helper, reading, file, held>>

TakesRead(n, frame) ==
    /\ frame.type = "read"
    /\ \/ /\ reading' = [reading EXCEPT ![frame.id] = [line |-> n, of |-> file, seq |-> 0]]
          /\ line' = [line EXCEPT ![n].toVm = Tail(@)]
       \/ /\ line' = OnLine([line EXCEPT ![n].toVm = Tail(@)], n, FileFrame("error", frame.id, 0, Original))
          /\ UNCHANGED reading
    /\ UNCHANGED <<upload, helper>>

TakesWrite(n, frame) ==
    /\ frame.type = "write"
    /\ upload' = [upload EXCEPT ![frame.id] = UploadOn(n)]
    /\ helper' = [helper EXCEPT ![frame.id] = [state |-> "writing", size |-> 0]]
    /\ line' = [line EXCEPT ![n].toVm = Tail(@)]
    /\ UNCHANGED reading

TakesChunk(n, frame) ==
    /\ frame.type = "chunk"
    /\ upload' = IF ~upload[frame.id].on THEN upload
                 ELSE IF frame.seq # upload[frame.id].seq THEN [upload EXCEPT ![frame.id].failed = TRUE]
                 ELSE [upload EXCEPT ![frame.id].seq = @ + 1, ![frame.id].items = @ + 1]
    /\ line' = [line EXCEPT ![n].toVm = Tail(@)]
    /\ UNCHANGED <<helper, reading>>

TakesEnd(n, frame) ==
    /\ frame.type = "end"
    /\ upload' = IF upload[frame.id].on THEN [upload EXCEPT ![frame.id].closed = TRUE] ELSE upload
    /\ line' = [line EXCEPT ![n].toVm = Tail(@)]
    /\ UNCHANGED <<helper, reading>>

VmTakesFileFrame(n) ==
    /\ line[n].vm = "open" /\ line[n].toVm # <<>>
    /\ LET frame == Head(line[n].toVm) IN
       TakesRead(n, frame) \/ TakesWrite(n, frame) \/ TakesChunk(n, frame) \/ TakesEnd(n, frame)
    /\ UNCHANGED <<gatewayLine, transfer, file, held>>

\* The file that was opened is the one that is sent, whatever is renamed over it.
SendsChunk(r) ==
    /\ reading[r].line # 0 /\ reading[r].seq < reading[r].of.chunks
    /\ line' = OnLine(line, reading[r].line, FileFrame("chunk", r, reading[r].seq, reading[r].of.of))
    /\ reading' = [reading EXCEPT ![r].seq = @ + 1]
    /\ UNCHANGED <<gatewayLine, transfer, upload, helper, file, held>>

SendsDone(r) ==
    /\ reading[r].line # 0 /\ reading[r].seq = reading[r].of.chunks
    /\ line' = OnLine(line, reading[r].line, FileFrame("done", r, reading[r].seq, reading[r].of.of))
    /\ reading' = [reading EXCEPT ![r] = NoReading]
    /\ UNCHANGED <<gatewayLine, transfer, upload, helper, file, held>>

(***************************************************************************)
(* The helper.                                                             *)
(***************************************************************************)
HelperWrites(w) ==
    /\ helper[w].state = "writing" /\ upload[w].on /\ ~upload[w].failed /\ upload[w].items > 0
    /\ upload' = [upload EXCEPT ![w].items = @ - 1]
    /\ helper' = [helper EXCEPT ![w].size = @ + 1]
    /\ UNCHANGED <<line, gatewayLine, transfer, reading, file, held>>

\* Its input ends: when the queue is closed, or with the winstond that fed it.
InputEnds(w) == helper[w].state = "writing" /\ (~upload[w].on \/ (upload[w].closed /\ upload[w].items = 0))

\* Renamed over the target only if the size and hash are the promised ones.
MutAsPromised(w) == TRUE
AsPromised(w) == helper[w].size = FileChunks

HelperEnds(w) ==
    /\ InputEnds(w)
    /\ IF AsPromised(w)
       THEN /\ file' = Contents(w, helper[w].size)
            /\ held' = [r \in Reads |-> IF InFlight(transfer, r) THEN held[r] \cup {file'} ELSE held[r]]
       ELSE UNCHANGED <<file, held>>
    /\ helper' = [helper EXCEPT ![w].state = IF AsPromised(w) THEN "renamed" ELSE "removed"]
    /\ UNCHANGED <<line, gatewayLine, transfer, upload, reading>>

\* A full disk, or a chunk out of order: the temporary file goes, the target stays.
HelperFails(w) ==
    /\ helper[w].state = "writing"
    /\ helper' = [helper EXCEPT ![w].state = "removed"]
    /\ UNCHANGED <<line, gatewayLine, transfer, upload, reading, file, held>>

\* Winstond reports how its helper ended on the connection the write came on.
ReportsEnd(w) ==
    /\ upload[w].on /\ helper[w].state \in {"renamed", "removed"}
    /\ line' = OnLine(line, upload[w].line,
           FileFrame(IF helper[w].state = "renamed" THEN "done" ELSE "error", w, 0, w))
    /\ upload' = [upload EXCEPT ![w] = NoUpload]
    /\ UNCHANGED <<gatewayLine, transfer, helper, reading, file, held>>

\* Winstond exits, for an update or not: no transfer counts as work (main.ts, idle).
\* A helper is killed with it, or sees its input end first.
WinstondExits ==
    /\ LineAtVm # {}
    /\ line' = [n \in Lines |-> IF line[n].vm = "open" THEN [line[n] EXCEPT !.vm = "closed"] ELSE line[n]]
    /\ upload' = [w \in Writes |-> NoUpload]
    /\ reading' = [r \in Reads |-> NoReading]
    /\ \E killed \in SUBSET {w \in Writes : helper[w].state = "writing"} :
           helper' = [w \in Writes |-> IF w \in killed THEN [helper[w] EXCEPT !.state = "killed"] ELSE helper[w]]
    /\ UNCHANGED <<gatewayLine, transfer, file, held>>

TransfersInit ==
    /\ line = [n \in Lines |-> [vm |-> "none", gateway |-> "none", toVm |-> <<>>, toGateway |-> <<>>]]
    /\ gatewayLine = 0
    /\ transfer = [t \in Transfers |-> NotBegun]
    /\ upload = [w \in Writes |-> NoUpload]
    /\ helper = [w \in Writes |-> [state |-> "none", size |-> 0]]
    /\ reading = [r \in Reads |-> NoReading]
    /\ file = Contents(Original, FileChunks)
    /\ held = [r \in Reads |-> {}]

GatewayFileStep ==
    \/ \E t \in Transfers : StartTransfer(t) \/ TransferTimesOut(t)
    \/ \E n \in Lines : GatewayHandles(n) \/ GatewaySeesClose(n)

VmFileStep ==
    \/ \E n \in Lines : VmConnects(n) \/ VmSeesClose(n) \/ VmTakesFileFrame(n)
    \/ \E r \in Reads : SendsChunk(r) \/ SendsDone(r)
    \/ \E w \in Writes : HelperWrites(w) \/ HelperEnds(w) \/ HelperFails(w) \/ ReportsEnd(w)
    \/ WinstondExits

TransfersNext == GatewayFileStep \/ VmFileStep

TransfersSpec == TransfersInit /\ [][TransfersNext]_transferVars

(***************************************************************************)
(* Properties.                                                             *)
(***************************************************************************)
TransfersTypeOK ==
    /\ gatewayLine \in 0 .. MaxLines
    /\ Cardinality(LineAtVm) <= 1
    /\ transfer \in [Transfers -> [state : {"none", "waiting", "begun", "done", "failed"},
                                   line : 0 .. MaxLines, seq : 0 .. FileChunks, of : Writes \cup {Original}]]
    /\ \A w \in Writes : /\ upload[w].items \in 0 .. FileChunks /\ upload[w].line \in 0 .. MaxLines
                         /\ helper[w].state \in {"none", "writing", "renamed", "removed", "killed"}
                         /\ helper[w].size \in 0 .. FileChunks
    /\ \A r \in Reads : reading[r].line \in 0 .. MaxLines /\ reading[r].seq \in 0 .. FileChunks

\* What is at the path is always some write's whole contents (file-ops.ts: "Otherwise
\* nothing changes"), whenever a connection, a helper or winstond goes.
FileIsWhole == file.chunks = FileChunks /\ file.of \in Writes \cup {Original}

\* A read that ends well gave one file as it was at the path at some time while the
\* read was on, whole: nothing of a file written meanwhile is mixed in.
ReadsAreWhole ==
    \A r \in Reads : transfer[r].state = "done" => Contents(transfer[r].of, transfer[r].seq) \in held[r]

\* A write that ends well is, or was, in place.
WritesAreThere == \A w \in Writes : transfer[w].state = "done" => helper[w].state = "renamed"

\* A caller waits only while something can still answer it: its connection is open here,
\* and the answer can come on it (files.ts, closed).
TransfersCanEnd == \A t \in Transfers : InFlight(transfer, t) => line[transfer[t].line].gateway = "open"

TransfersKept == FileIsWhole /\ ReadsAreWhole /\ WritesAreThere /\ TransfersCanEnd

\* A write whose connection is gone is dropped on the VM too.  It is not: nothing closes
\* its queue, so its helper and its temporary file wait for ever (daemon.ts:386-405).
NoUploadForgotten ==
    \A w \in Writes : upload[w].on /\ helper[w].state = "writing" /\ upload[w].items = 0 /\ ~upload[w].closed
        => line[upload[w].line].vm = "open"

\* A write that was reported to have failed leaves the file alone.  It need not: the
\* gateway's timer, or a lost connection, fails it while the VM goes on (files.ts:75-84).
FailedWritesLand == \A w \in Writes : transfer[w].state = "failed" => helper[w].state # "renamed"
=============================================================================
