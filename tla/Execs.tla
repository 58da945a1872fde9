-------------------------------- MODULE Execs --------------------------------
(***************************************************************************)
(* A command on a user's computer, from the agents' client                 *)
(* (apps/agents/.../gateway-client.ts) through a gateway                   *)
(* (apps/gateway/src/execs.ts) to winstond (apps/winstond/src/exec.ts,     *)
(* daemon.ts), over websockets that break, and asked for again by its id.  *)
(*                                                                         *)
(* One VM and one command id; its output is numbered chunks.  A socket     *)
(* carries its frames in order, and each end learns by itself that it is   *)
(* closed.                                                                 *)
(***************************************************************************)
EXTENDS Naturals, Sequences, FiniteSets

CONSTANTS
    Gateways,           \* during a deploy, two
    Callers,            \* calls for the command, one after the other
    Chunks,             \* how many chunks the command writes
    MaxSockets,         \* bound: connections winstond makes
    MaxExecFaults       \* bound: restarts, expiries and timers that run out

ASSUME ExecsAssumption == {Chunks, MaxSockets, MaxExecFaults} \subseteq Nat

VARIABLES
    socket,             \* the websockets: gateway, either end, frames each way
    holds,              \* the gateway's connection for the VM (connections.ts)
    located,            \* vms.gatewayUrl
    pending,            \* the gateway's entry for the id (execs.ts)
    record,             \* winstond's entry for the id (exec.ts)
    call,               \* the agents' calls
    \* history
    runs,               \* how often the command was started
    forgotten,          \* how often winstond's entry was lost
    timedOut,           \* a gateway's timer dropped a pending command
    execFaults

execVars == <<socket, holds, located, pending, record, call, runs, forgotten, timedOut, execFaults>>

Sockets == 1 .. MaxSockets
Whole == [i \in 1 .. Chunks |-> i]

NoPending == [asked |-> FALSE, fetchOnly |-> FALSE, out |-> <<>>]
NoRecord == [known |-> FALSE, done |-> FALSE, out |-> <<>>, stream |-> 0, waiters |-> {}]

ExecFault == execFaults < MaxExecFaults /\ execFaults' = execFaults + 1

\* Frames to the VM are "exec" and "fetch"; from it, a chunk or the whole output, an
\* exit, or a result, found or not.
Frame(type, out) == [type |-> type, out |-> out]

OpenAtVm == {n \in Sockets : socket[n].vm = "open"}

\* A frame is sent on a socket that its sender has open.
Sent(all, n, frames) ==
    IF n # 0 /\ all[n].vm = "open" THEN [all EXCEPT ![n].toGateway = @ \o frames] ELSE all

\* A pending command is settled: everyone waiting on it learns the outcome.
Settled(g, state, answer) ==
    [c \in Callers |->
        IF call[c].state = "waiting" /\ call[c].at = g
        THEN [call[c] EXCEPT !.state = state, !.answer = answer] ELSE call[c]]

-----------------------------------------------------------------------------
(* The agents                                                              *)

\* A call begins, to run the command or to fetch its result, once the one before it
\* is over: answered, failed, or its worker died.
BeginCall(c) ==
    /\ call[c].state = "idle"
    /\ \A d \in Callers : call[d].state \in {"idle", "answered", "unreachable", "dead"}
    /\ \E kind \in {"exec", "fetch"} :
          call' = [call EXCEPT ![c] = [@ EXCEPT !.state = "asking", !.kind = kind]]
    /\ UNCHANGED <<socket, holds, located, pending, record, runs, forgotten, timedOut, execFaults>>

\* Whether a call finds the id in flight at a gateway.
Joins(g) == pending[g].asked

\* The call reaches the recorded gateway, or any by the shared name when none is
\* recorded (or it could not be reached), which joins the command in flight, or sends
\* the frame, or has no connection (409) and is asked again in a while.
ReachGateway(c, g) ==
    /\ call[c].state = "asking"
    /\ located \in {"none", g}
    /\ IF Joins(g)
       THEN /\ call' = [call EXCEPT ![c] = [@ EXCEPT !.state = "waiting", !.at = g]]
            /\ UNCHANGED <<socket, pending>>
       ELSE /\ holds[g] # 0
            /\ call' = [call EXCEPT ![c] = [@ EXCEPT !.state = "waiting", !.at = g]]
            /\ pending' = [pending EXCEPT ![g] =
                  [asked |-> TRUE, fetchOnly |-> call[c].kind = "fetch", out |-> <<>>]]
            /\ socket' = [socket EXCEPT ![holds[g]].toVm = Append(@, call[c].kind)]
    /\ UNCHANGED <<holds, located, record, runs, forgotten, timedOut, execFaults>>

\* The recorded gateway is gone: the next attempt uses the shared name.
SkipLocated(c, g) ==
    /\ call[c].state = "asking" /\ located # g /\ located # "none"
    /\ holds[g] # 0 /\ ~Joins(g)
    /\ ExecFault
    /\ call' = [call EXCEPT ![c] = [@ EXCEPT !.state = "waiting", !.at = g]]
    /\ pending' = [pending EXCEPT ![g] =
          [asked |-> TRUE, fetchOnly |-> call[c].kind = "fetch", out |-> <<>>]]
    /\ socket' = [socket EXCEPT ![holds[g]].toVm = Append(@, call[c].kind)]
    /\ UNCHANGED <<holds, located, record, runs, forgotten, timedOut>>

\* Half a minute of retries is over, or the worker dies: what it asked for goes on.
GiveUp(c) ==
    /\ call[c].state = "asking"
    /\ call' = [call EXCEPT ![c].state = "unreachable"]
    /\ UNCHANGED <<socket, holds, located, pending, record, runs, forgotten, timedOut, execFaults>>

CallerDies(c) ==
    /\ call[c].state \in {"asking", "waiting"}
    /\ ExecFault
    /\ call' = [call EXCEPT ![c].state = "dead"]
    /\ UNCHANGED <<socket, holds, located, pending, record, runs, forgotten, timedOut>>

-----------------------------------------------------------------------------
(* The gateway                                                             *)

\* The pending command fails, and is asked for again.
Closed(g) ==
    /\ call' = Settled(g, "asking", <<>>)
    /\ pending' = [pending EXCEPT ![g] = NoPending]

\* A frame from the VM.
GatewayReads(n) ==
    LET g == socket[n].gateway
        frame == Head(socket[n].toGateway)
        out == IF frame.type = "exit" THEN pending[g].out ELSE frame.out
    IN  /\ socket[n].gw = "open" /\ socket[n].toGateway # <<>>
        /\ socket' = [socket EXCEPT ![n].toGateway = Tail(@)]
        /\ CASE ~pending[g].asked -> UNCHANGED <<pending, call>>
             [] pending[g].asked /\ frame.type = "output" ->
                  /\ pending' = [pending EXCEPT ![g].out = @ \o frame.out]
                  /\ UNCHANGED call
             [] OTHER ->
                  /\ pending' = [pending EXCEPT ![g] = NoPending]
                  /\ call' = IF frame.type \in {"exit", "found"} THEN Settled(g, "answered", out)
                             ELSE IF pending[g].fetchOnly THEN Settled(g, "unknown", <<>>)
                             ELSE Settled(g, "unreachable", <<>>)
        /\ UNCHANGED <<holds, located, record, runs, forgotten, timedOut, execFaults>>

\* The gateway learns that a socket closed.
GatewayCloses(n) ==
    LET g == socket[n].gateway IN
    /\ socket[n].gw = "open" /\ socket[n].vm = "closed"
    /\ socket' = [socket EXCEPT ![n].gw = "closed", ![n].toGateway = <<>>, ![n].toVm = <<>>]
    /\ holds' = IF holds[g] = n THEN [holds EXCEPT ![g] = 0] ELSE holds
    /\ located' = IF located = g /\ holds'[g] = 0 THEN "none" ELSE located
    /\ Closed(g)
    /\ UNCHANGED <<record, runs, forgotten, timedOut, execFaults>>

\* A pending command's timer runs out (the command's own, and a minute): unreachable.
PendingTimesOut(g) ==
    /\ pending[g].asked
    /\ ExecFault
    /\ pending' = [pending EXCEPT ![g] = NoPending]
    /\ call' = Settled(g, "unreachable", <<>>)
    /\ timedOut' = TRUE
    /\ UNCHANGED <<socket, holds, located, record, runs, forgotten>>

\* A gateway restarts: its sockets are gone, and the calls it was answering.
GatewayRestarts(g) ==
    LET its == {n \in Sockets : socket[n].gateway = g} IN
    /\ ExecFault
    /\ socket' = [n \in Sockets |->
          IF n \in its /\ socket[n].gw = "open"
          THEN [socket[n] EXCEPT !.gw = "closed", !.toGateway = <<>>, !.toVm = <<>>] ELSE socket[n]]
    /\ holds' = [holds EXCEPT ![g] = 0]
    /\ Closed(g)
    /\ UNCHANGED <<located, record, runs, forgotten, timedOut>>

-----------------------------------------------------------------------------
(* winstond                                                                *)

\* It connects, to whichever gateway the load balancer picks, which closes the
\* connection it had, and records itself.
Connect(n, g) ==
    LET old == holds[g] IN
    /\ OpenAtVm = {} /\ socket[n].vm = "none" /\ \A m \in 1 .. n - 1 : socket[m].vm # "none"
    /\ socket' = [m \in Sockets |->
          CASE m = n -> [gateway |-> g, vm |-> "open", gw |-> "open", toVm |-> <<>>, toGateway |-> <<>>]
            [] m = old -> [socket[m] EXCEPT !.gw = "closed", !.toGateway = <<>>, !.toVm = <<>>]
            [] OTHER -> socket[m]]
    /\ holds' = [holds EXCEPT ![g] = n]
    /\ located' = g
    /\ IF old # 0 THEN Closed(g) ELSE UNCHANGED <<call, pending>>
    /\ UNCHANGED <<record, runs, forgotten, timedOut, execFaults>>

\* It learns that its connection closed: the network broke, or the gateway closed it.
Disconnect(n) ==
    /\ socket[n].vm = "open"
    /\ socket' = [socket EXCEPT ![n].vm = "closed"]
    /\ UNCHANGED <<holds, located, pending, record, call, runs, forgotten, timedOut, execFaults>>

\* Mutant: an id it has seen runs again once its first run is done.
MutSeen == record.known /\ ~record.done

\* An id it has a record of is never run again.
Seen == record.known

\* What it sends about a finished command, to one that asked again or fetches.
Report(kind, out) ==
    IF kind = "exec" THEN <<Frame("output", out), Frame("exit", <<>>)>>
    ELSE <<Frame("found", out)>>

\* A frame from the gateway: the command is run, or waited for, or looked up.
VmReads(n) ==
    LET kind == Head(socket[n].toVm)
        read == [socket EXCEPT ![n].toVm = Tail(@)]
    IN  /\ socket[n].vm = "open" /\ socket[n].toVm # <<>>
        /\ CASE kind = "exec" /\ ~Seen ->
                  /\ record' = [NoRecord EXCEPT !.known = TRUE, !.stream = n]
                  /\ runs' = runs + 1 /\ socket' = read
             [] kind = "fetch" /\ ~record.known ->
                  /\ socket' = Sent(read, n, <<Frame("missing", <<>>)>>)
                  /\ UNCHANGED <<record, runs>>
             [] record.known /\ record.done ->
                  /\ socket' = Sent(read, n, Report(kind, record.out))
                  /\ UNCHANGED <<record, runs>>
             [] OTHER ->
                  /\ record' = [record EXCEPT !.waiters = @ \cup {<<n, kind>>}]
                  /\ socket' = read /\ UNCHANGED runs
        /\ UNCHANGED <<holds, located, pending, call, forgotten, timedOut, execFaults>>

\* The command writes a chunk, streamed on the connection it came by while that is open.
Output ==
    /\ record.known /\ ~record.done /\ Len(record.out) < Chunks
    /\ LET chunk == <<Len(record.out) + 1>> IN
       /\ record' = [record EXCEPT !.out = @ \o chunk]
       /\ socket' = Sent(socket, record.stream, <<Frame("output", chunk)>>)
    /\ UNCHANGED <<holds, located, pending, call, runs, forgotten, timedOut, execFaults>>

\* It ends: the exit on its own connection, then those that wait for it.
Exit ==
    /\ record.known /\ ~record.done /\ Len(record.out) = Chunks
    /\ record' = [record EXCEPT !.done = TRUE, !.waiters = {}]
    /\ socket' = [n \in Sockets |->
          LET own == IF n = record.stream THEN <<Frame("exit", <<>>)>> ELSE <<>>
              asked == IF <<n, "exec">> \in record.waiters THEN Report("exec", Whole) ELSE <<>>
              fetched == IF <<n, "fetch">> \in record.waiters THEN Report("fetch", Whole) ELSE <<>>
          IN  Sent(socket, n, own \o asked \o fetched)[n]]
    /\ UNCHANGED <<holds, located, pending, call, runs, forgotten, timedOut, execFaults>>

\* Five minutes later it is forgotten; and at once when winstond dies.
Expire ==
    /\ record.known /\ record.done
    /\ ExecFault
    /\ record' = NoRecord /\ forgotten' = forgotten + 1
    /\ UNCHANGED <<socket, holds, located, pending, call, runs, timedOut>>

WinstondDies ==
    /\ ExecFault
    /\ record' = NoRecord /\ forgotten' = forgotten + (IF record.known THEN 1 ELSE 0)
    /\ socket' = [n \in Sockets |-> IF socket[n].vm = "open" THEN [socket[n] EXCEPT !.vm = "closed"]
                                    ELSE socket[n]]
    /\ UNCHANGED <<holds, located, pending, call, runs, timedOut>>

-----------------------------------------------------------------------------
ExecsInit ==
    /\ socket = [n \in Sockets |-> [gateway |-> "none", vm |-> "none", gw |-> "none",
                                    toVm |-> <<>>, toGateway |-> <<>>]]
    /\ holds = [g \in Gateways |-> 0] /\ located = "none"
    /\ pending = [g \in Gateways |-> NoPending]
    /\ record = NoRecord
    /\ call = [c \in Callers |-> [state |-> "idle", kind |-> "exec", at |-> "none", answer |-> <<>>]]
    /\ runs = 0 /\ forgotten = 0 /\ timedOut = FALSE /\ execFaults = 0

CallStep(c) ==
    \/ BeginCall(c) \/ GiveUp(c) \/ CallerDies(c)
    \/ \E g \in Gateways : ReachGateway(c, g) \/ SkipLocated(c, g)

SocketStep(n) ==
    \/ GatewayReads(n) \/ GatewayCloses(n) \/ Disconnect(n) \/ VmReads(n)
    \/ \E g \in Gateways : Connect(n, g)

ExecsNext ==
    \/ \E c \in Callers : CallStep(c)
    \/ \E n \in Sockets : SocketStep(n)
    \/ \E g \in Gateways : PendingTimesOut(g) \/ GatewayRestarts(g)
    \/ Output \/ Exit \/ Expire \/ WinstondDies

ExecsSpec == ExecsInit /\ [][ExecsNext]_execVars

-----------------------------------------------------------------------------
(* Properties                                                              *)

ExecsTypeOK ==
    /\ \A n \in Sockets : socket[n].vm \in {"none", "open", "closed"}
                       /\ socket[n].gw \in {"none", "open", "closed"}
    /\ holds \in [Gateways -> {0} \cup Sockets] /\ located \in Gateways \cup {"none"}
    /\ \A c \in Callers : call[c].state \in
          {"idle", "asking", "waiting", "answered", "unknown", "unreachable", "dead"}
    /\ Cardinality(OpenAtVm) <= 1

\* "The same id never runs twice" (execs.ts), through lost connections, retries at
\* either gateway and callers that died; but for what winstond itself forgot.
RunsOnce == runs <= 1 + forgotten

\* A call that is answered is told the command's whole output, in order: from its
\* own run, one it joined, or the VM's copy; but a pending command that its timer
\* dropped, and that is asked for again, gets the rest of it only.
AnswersWhole ==
    \A c \in Callers : call[c].state = "answered" => call[c].answer = Whole \/ timedOut

\* A call that waits is one the gateway will settle: it has the command pending, on a
\* connection it still holds.
WaitsOnSomething ==
    \A c \in Callers : call[c].state = "waiting" =>
        pending[call[c].at].asked /\ holds[call[c].at] # 0

ExecsTellTheTruth == RunsOnce /\ AnswersWhole /\ WaitsOnSomething

\* "The VM never runs an id twice" (execs.ts).
NeverTwice == runs <= 1
=============================================================================
