------------------------------- MODULE VmLink -------------------------------
(***************************************************************************)
(* winstond's link to the gateways (apps/winstond/src/daemon.ts,           *)
(* apps/gateway/src/gateway.ts, vm-socket.ts, connections.ts, liveness.ts):*)
(* the token it connects with, the one connection a gateway holds, the     *)
(* VM's row (its state, its gateway), and the CLI's calls, forwarded over  *)
(* whichever connection is live.                                           *)
(*                                                                         *)
(* One VM, registering with one registration token.  Each end of a         *)
(* connection learns by itself that it is closed.                          *)
(***************************************************************************)
EXTENDS Integers, Sequences, FiniteSets, SequencesExt

CONSTANTS
    LinkGateways,     \* during a deploy, two
    CliCalls,         \* calls of the CLI
    MaxLinks,         \* bound: connections that open
    MaxLinkFaults     \* bound: breaks, restarts, refusals, timeouts

ASSUME LinkAssumption == {MaxLinks, MaxLinkFaults} \subseteq Nat

VARIABLES
    daemon,       \* winstond: the token on disk, its credentials, its connection
    links,        \* the connections
    linkHeld,     \* LinkGateways -> the connection it holds for the VM, or 0
    vmRow,        \* vms: token, registration token, state, gateway, seen lately
    urlWrites,    \* updates of the row's gateway on their way
    sweep,        \* the sweep found the VM silent
    cliCalls,     \* CliCalls -> the call: how far, its connection
    working,      \* CLI requests the backend has
    applied,      \* history: CliCalls -> how often the backend did it
    wronged,      \* history: a VM that had just been seen became unhealthy
    linkFaults

linkVars == <<daemon, links, linkHeld, vmRow, urlWrites, sweep, cliCalls, working, applied, wronged, linkFaults>>

LinkIds == 1 .. MaxLinks

NoLink == [gateway |-> "none", vm |-> "closed", gw |-> "closed", registering |-> FALSE, used |-> FALSE,
           up |-> <<>>, down |-> <<>>]

LinkFrame(type, of) == [type |-> type, of |-> of]

LinkFault == linkFaults < MaxLinkFaults /\ linkFaults' = linkFaults + 1
NoLinkFault == UNCHANGED linkFaults

\* What an end sends on a connection it has open; on a closed one it is dropped.
SendsUp(all, n, f) == IF n # 0 /\ all[n].vm = "open" THEN [all EXCEPT ![n].up = Append(@, f)] ELSE all
SendsDown(all, n, f) == IF all[n].gw = "open" THEN [all EXCEPT ![n].down = Append(@, f)] ELSE all

-----------------------------------------------------------------------------
(* Connecting                                                              *)

\* The stored token, unless it was just refused and there is a registration token.
Credential ==
    IF daemon.token # 0 /\ ~(daemon.prefer /\ daemon.reg) THEN "stored"
    ELSE IF daemon.reg THEN "registration" ELSE "none"

\* A registration token counts only while its VM is registering.
Accepts(credential) ==
    \/ credential = "stored" /\ vmRow.token = daemon.token
    \/ credential = "registration" /\ vmRow.reg /\ vmRow.state = "registering"

\* A gateway holds one connection: the newer one replaces the older, which it closes.
HoldsLink(g, n, all) ==
    /\ linkHeld' = [linkHeld EXCEPT ![g] = n]
    /\ links' = IF linkHeld[g] = 0 THEN all ELSE [all EXCEPT ![linkHeld[g]].gw = "closed", ![linkHeld[g]].up = <<>>]
    /\ urlWrites' = urlWrites \cup {<<g, "set">>}

\* connect: with a stored token, it says hello at once.
LinkOpens(g) ==
    LET n == CHOOSE n \in LinkIds : links[n].gateway = "none" /\ \A k \in 1 .. (n - 1) : links[k].gateway # "none"
        registering == Credential = "registration"
        link == [NoLink EXCEPT !.gateway = g, !.vm = "open", !.registering = registering,
                               !.gw = IF registering THEN "registering" ELSE "open",
                               !.up = IF registering THEN <<>> ELSE <<LinkFrame("hello", 0)>>]
    IN /\ daemon.link = 0 /\ \E k \in LinkIds : links[k].gateway = "none"
       /\ Accepts(Credential)
       /\ daemon' = [daemon EXCEPT !.link = n]
       /\ IF registering THEN links' = [links EXCEPT ![n] = link] /\ UNCHANGED <<linkHeld, urlWrites>>
          ELSE HoldsLink(g, n, [links EXCEPT ![n] = link])
       /\ UNCHANGED <<vmRow, sweep, cliCalls, working, applied, wronged>> /\ NoLinkFault

\* Refused before it opened, or in network trouble: the other credential is next.
LinkRefused ==
    /\ daemon.link = 0 /\ Credential # "none"
    /\ IF Accepts(Credential) THEN LinkFault ELSE NoLinkFault
    /\ daemon' = [daemon EXCEPT !.prefer = Credential = "stored"]
    /\ UNCHANGED <<links, linkHeld, vmRow, urlWrites, sweep, cliCalls, working, applied, wronged>>

\* One update stores the new token and burns the registration token; whoever comes
\* second is told it was used.
GatewayRegisters(n) ==
    LET g == links[n].gateway
        open(all) == IF links[n].gw = "registering" THEN [all EXCEPT ![n].gw = "open"] ELSE all
    IN /\ links[n].registering
       /\ IF vmRow.reg
          THEN /\ vmRow' = [vmRow EXCEPT !.token = @ + 1, !.reg = FALSE]
               /\ HoldsLink(g, n, [SendsDown(open(links), n, LinkFrame("registered", vmRow.token + 1))
                                  EXCEPT ![n].registering = FALSE])
          ELSE /\ links' = [links EXCEPT ![n].gw = "closed", ![n].used = TRUE, ![n].registering = FALSE]
               /\ UNCHANGED <<vmRow, linkHeld, urlWrites>>
       /\ UNCHANGED <<daemon, sweep, cliCalls, working, applied, wronged>> /\ NoLinkFault

\* The row's gateway: set on opening; cleared on closing unless another has taken it.
WriteUrl ==
    \E u \in urlWrites :
        /\ urlWrites' = urlWrites \ {u}
        /\ vmRow' = [vmRow EXCEPT !.located = IF u[2] = "set" THEN u[1] ELSE IF @ = u[1] THEN "none" ELSE @]
        /\ UNCHANGED <<daemon, links, linkHeld, sweep, cliCalls, working, applied, wronged>> /\ NoLinkFault

-----------------------------------------------------------------------------
(* winstond                                                                *)

\* Calls that wait on this connection get no answer.
CallsEnd(end) == [i \in CliCalls |-> IF cliCalls[i].state = "waiting" THEN [cliCalls[i] EXCEPT !.state = end] ELSE cliCalls[i]]

VmEndCloses(n) ==
    /\ links[n].vm = "open"
    /\ IF links[n].gw = "closed" /\ links[n].down = <<>> THEN NoLinkFault ELSE LinkFault
    /\ links' = [links EXCEPT ![n].vm = "closed", ![n].down = <<>>]
    /\ cliCalls' = CallsEnd("unavailable")
    /\ daemon' = [daemon EXCEPT !.link = 0, !.reg = @ /\ ~links[n].used]
    /\ UNCHANGED <<linkHeld, vmRow, urlWrites, sweep, working, applied, wronged>>

\* A CLI call is forwarded on the connection there is.
CallBackend(i) ==
    /\ cliCalls[i].state = "idle"
    /\ cliCalls' = [cliCalls EXCEPT ![i] = [state |-> IF daemon.link = 0 THEN "unavailable" ELSE "waiting", link |-> daemon.link]]
    /\ links' = SendsUp(links, daemon.link, LinkFrame("rpc", i))
    /\ UNCHANGED <<daemon, linkHeld, vmRow, urlWrites, sweep, working, applied, wronged>> /\ NoLinkFault

CallTimesOut(i) ==
    /\ cliCalls[i].state = "waiting" /\ LinkFault
    /\ cliCalls' = [cliCalls EXCEPT ![i].state = "unavailable"]
    /\ UNCHANGED <<daemon, links, linkHeld, vmRow, urlWrites, sweep, working, applied, wronged>>

Pings ==
    /\ daemon.link # 0 /\ links[daemon.link].up = <<>>
    /\ links' = SendsUp(links, daemon.link, LinkFrame("ping", 0))
    /\ UNCHANGED <<daemon, linkHeld, vmRow, urlWrites, sweep, cliCalls, working, applied, wronged>> /\ NoLinkFault

\* An answer is its call's, by id; a token is written to disk first.
VmReadsFrame(n) ==
    /\ links[n].vm = "open" /\ links[n].down # <<>>
    /\ LET f == Head(links[n].down)
       IN /\ links' = [links EXCEPT ![n].down = Tail(@)]
          /\ IF f.type = "registered"
             THEN daemon' = [daemon EXCEPT !.storing = f.of, !.storingOn = n] /\ UNCHANGED cliCalls
             ELSE /\ cliCalls' = IF cliCalls[f.of].state = "waiting" THEN [cliCalls EXCEPT ![f.of].state = "ok"] ELSE cliCalls
                  /\ UNCHANGED daemon
    /\ UNCHANGED <<linkHeld, vmRow, urlWrites, sweep, working, applied, wronged>> /\ NoLinkFault

\* Registered, and the token is safe: now it says hello.
TokenStored ==
    /\ daemon.storing # 0
    /\ daemon' = [daemon EXCEPT !.token = daemon.storing, !.storing = 0, !.reg = FALSE, !.prefer = FALSE]
    /\ links' = SendsUp(links, daemon.storingOn, LinkFrame("hello", 0))
    /\ UNCHANGED <<linkHeld, vmRow, urlWrites, sweep, cliCalls, working, applied, wronged>> /\ NoLinkFault

\* The token's file cannot be written: it reconnects.
TokenNotStored ==
    /\ daemon.storing # 0 /\ LinkFault
    /\ daemon' = [daemon EXCEPT !.storing = 0, !.link = IF @ = daemon.storingOn THEN 0 ELSE @]
    /\ links' = [links EXCEPT ![daemon.storingOn].vm = "closed", ![daemon.storingOn].down = <<>>]
    /\ cliCalls' = IF daemon.link = daemon.storingOn THEN CallsEnd("unavailable") ELSE cliCalls
    /\ UNCHANGED <<linkHeld, vmRow, urlWrites, sweep, working, applied, wronged>>

\* winstond restarts with the registration token of its environment; the CLI's calls break off.
DaemonRestarts ==
    /\ LinkFault
    /\ links' = [n \in LinkIds |-> [links[n] EXCEPT !.vm = "closed", !.down = <<>>]]
    /\ cliCalls' = CallsEnd("broken")
    /\ daemon' = [daemon EXCEPT !.reg = TRUE, !.prefer = FALSE, !.storing = 0, !.link = 0]
    /\ UNCHANGED <<linkHeld, vmRow, urlWrites, sweep, working, applied, wronged>>

-----------------------------------------------------------------------------
(* The gateways                                                            *)

GatewayEndCloses(n) ==
    LET g == links[n].gateway
    IN /\ links[n].gw # "closed"
       /\ IF links[n].vm = "closed" /\ links[n].up = <<>> THEN NoLinkFault ELSE LinkFault
       /\ links' = [links EXCEPT ![n].gw = "closed", ![n].up = <<>>]
       /\ linkHeld' = IF linkHeld[g] = n THEN [linkHeld EXCEPT ![g] = 0] ELSE linkHeld
       /\ urlWrites' = IF linkHeld'[g] = 0 THEN urlWrites \cup {<<g, "clear">>} ELSE urlWrites
       /\ UNCHANGED <<daemon, vmRow, sweep, cliCalls, working, applied, wronged>>

\* A gateway goes: its connections, what it worked on and what it had to write.
LinkGatewayRestarts(g) ==
    /\ LinkFault
    /\ links' = [n \in LinkIds |-> IF links[n].gateway = g
                                   THEN [links[n] EXCEPT !.gw = "closed", !.up = <<>>, !.registering = FALSE] ELSE links[n]]
    /\ linkHeld' = [linkHeld EXCEPT ![g] = 0]
    /\ urlWrites' = {u \in urlWrites : u[1] # g}
    /\ working' = {w \in working : links[w[1]].gateway # g}
    /\ UNCHANGED <<daemon, vmRow, sweep, cliCalls, applied, wronged>>

\* A VM that is heard of has been seen; a hello ends its registration.
HeardState(type) ==
    CASE vmRow.state = "registering" /\ type = "hello" -> "ready"
      [] vmRow.state = "unhealthy" -> "ready"
      [] OTHER -> vmRow.state

GatewayReadsFrame(n) ==
    /\ links[n].gw = "open" /\ links[n].up # <<>>
    /\ LET f == Head(links[n].up)
       IN /\ links' = [links EXCEPT ![n].up = Tail(@)]
          /\ IF f.type = "rpc" THEN working' = working \cup {<<n, f.of>>} /\ UNCHANGED vmRow
             ELSE vmRow' = [vmRow EXCEPT !.state = HeardState(f.type), !.seen = TRUE] /\ UNCHANGED working
    /\ UNCHANGED <<daemon, linkHeld, urlWrites, sweep, cliCalls, applied, wronged>> /\ NoLinkFault

\* The backend did it; the answer goes to the connection it came on.
BackendAnswers ==
    \E w \in working :
        /\ working' = working \ {w}
        /\ applied' = [applied EXCEPT ![w[2]] = @ + 1]
        /\ links' = SendsDown(links, w[1], LinkFrame("rpc", w[2]))
        /\ UNCHANGED <<daemon, linkHeld, vmRow, urlWrites, sweep, cliCalls, wronged>> /\ NoLinkFault

-----------------------------------------------------------------------------
(* The sweep of silent VMs                                                 *)

TimePasses ==
    /\ vmRow.seen /\ vmRow.state = "ready" /\ LinkFault
    /\ vmRow' = [vmRow EXCEPT !.seen = FALSE]
    /\ UNCHANGED <<daemon, links, linkHeld, urlWrites, sweep, cliCalls, working, applied, wronged>>

SweepFinds ==
    /\ vmRow.state = "ready" /\ ~vmRow.seen /\ ~sweep
    /\ sweep' = TRUE
    /\ UNCHANGED <<daemon, links, linkHeld, vmRow, urlWrites, cliCalls, working, applied, wronged>> /\ NoLinkFault

\* The move goes through the state machine.
SweepMoves ==
    /\ sweep /\ sweep' = FALSE
    /\ vmRow' = IF vmRow.state = "ready" THEN [vmRow EXCEPT !.state = "unhealthy"] ELSE vmRow
    /\ wronged' = IF vmRow.state = "ready" /\ vmRow.seen THEN TRUE ELSE wronged
    /\ UNCHANGED <<daemon, links, linkHeld, urlWrites, cliCalls, working, applied>> /\ NoLinkFault

-----------------------------------------------------------------------------
LinkInit ==
    /\ daemon = [token |-> 0, reg |-> TRUE, prefer |-> FALSE, storing |-> 0, storingOn |-> 1, link |-> 0]
    /\ links = [n \in LinkIds |-> NoLink]
    /\ linkHeld = [g \in LinkGateways |-> 0]
    /\ vmRow = [token |-> 0, reg |-> TRUE, state |-> "registering", located |-> "none", seen |-> FALSE]
    /\ urlWrites = {} /\ sweep = FALSE /\ working = {}
    /\ cliCalls = [i \in CliCalls |-> [state |-> "idle", link |-> 0]]
    /\ applied = [i \in CliCalls |-> 0]
    /\ wronged = FALSE /\ linkFaults = 0

LinkNext ==
    \/ \E g \in LinkGateways : LinkOpens(g) \/ LinkGatewayRestarts(g)
    \/ \E n \in LinkIds :
           \/ GatewayRegisters(n) \/ VmEndCloses(n) \/ GatewayEndCloses(n)
           \/ VmReadsFrame(n) \/ GatewayReadsFrame(n)
    \/ \E i \in CliCalls : CallBackend(i) \/ CallTimesOut(i)
    \/ LinkRefused \/ WriteUrl \/ Pings \/ TokenStored \/ TokenNotStored \/ DaemonRestarts
    \/ BackendAnswers \/ TimePasses \/ SweepFinds \/ SweepMoves

LinkSpec == LinkInit /\ [][LinkNext]_linkVars

-----------------------------------------------------------------------------
(* Properties                                                              *)

LinkTypeOK ==
    /\ daemon.token \in {0, 1} /\ daemon.link \in {0} \cup LinkIds
    /\ vmRow.state \in {"registering", "ready", "unhealthy"}
    /\ vmRow.located \in LinkGateways \cup {"none"}
    /\ linkHeld \in [LinkGateways -> {0} \cup LinkIds]
    /\ \A i \in CliCalls : cliCalls[i].state \in {"idle", "waiting", "ok", "unavailable", "broken"}

\* A VM counts as ready only once it can come back by itself: its token is on its disk,
\* and is the one its row accepts.
ReadyComesBack == vmRow.state # "registering" => daemon.token # 0 /\ daemon.token = vmRow.token

\* A registration token registers once, whatever connections race for it, and the token
\* winstond keeps is the row's.
RegistersOnce == vmRow.token <= 1 /\ daemon.token \in {0, vmRow.token}

\* No CLI call waits on a connection that winstond knows is gone.
NoCallHangs == \A i \in CliCalls : cliCalls[i].state = "waiting" => links[cliCalls[i].link].vm = "open"

\* A call that was answered was done, once; one that was never sent was not.
OkMeansDone ==
    \A i \in CliCalls :
        /\ applied[i] <= 1
        /\ cliCalls[i].state = "ok" => applied[i] = 1
        /\ cliCalls[i].link = 0 => applied[i] = 0

\* winstond has one connection at a time.
OneLink == \A n \in LinkIds : links[n].vm = "open" => n = daemon.link

LinkKept == ReadyComesBack /\ RegistersOnce /\ NoCallHangs /\ OkMeansDone /\ OneLink

-----------------------------------------------------------------------------
(* What the comments and the docs say and the code does not keep           *)

\* "Resolves with the standard `unavailable` error, which is safe to retry" (daemon.ts): the
\* backend may have done it, and a retry does it again.
SafeToRetry == \A i \in CliCalls : cliCalls[i].state = "unavailable" => applied[i] = 0 /\ \A w \in working : w[2] # i

\* "A VM that changed meanwhile is left alone" (liveness.ts): one that pinged meanwhile is not.
LeftAlone == ~wronged

\* A gateway holds only a connection that is open: one that closes while it registers is
\* taken up all the same.
HoldsOpenOnes == \A g \in LinkGateways : linkHeld[g] # 0 => links[linkHeld[g]].gw # "closed"

\* The row names the gateway that holds the VM once no update of it is on its way: two
\* updates can pass each other.
LocatedWhereHeld ==
    urlWrites = {} => \A g \in LinkGateways : linkHeld[g] # 0 /\ linkHeld[g] = daemon.link => vmRow.located = g
=============================================================================
