----------------------------- MODULE Connections -----------------------------
(***************************************************************************)
(* A user's connected accounts and their tokens: connecting again          *)
(* (packages/db/src/connections.ts, apps/web/.../connect.server.ts),       *)
(* access tokens (packages/connectors: access-token.ts for Google,         *)
(* rotating-tokens.ts for Ramp), grants running out (grants.ts) and the    *)
(* revocation on disconnect (apps/agents/src/connections/revoke.ts).       *)
(*                                                                         *)
(* Connections of different issuers share nothing: either Google's or      *)
(* Ramp's are looked at.  Mail and calendar are connections to one Google  *)
(* account: revoking one of its grants revokes them all.  A Ramp refresh   *)
(* token is spent by its use; replaying a spent one loses the grant.       *)
(***************************************************************************)
EXTENDS Naturals, FiniteSets

CONSTANTS
    Services,        \* the processes that use access tokens: gateway, agents
    GrantIds,        \* bound: grants the user gives
    MaxRotations,    \* bound: refreshes of a rotating token
    MaxDisconnects,  \* bound: disconnects by the user
    MaxConnFaults    \* bound: crashes, failed calls, grants that die early

ASSUME ConnectionsAssumption ==
    /\ GrantIds \subseteq Nat \ {0}
    /\ {"free", "revoker"} \cap Services = {}
    /\ {MaxRotations, MaxDisconnects, MaxConnFaults} \subseteq Nat

VARIABLES
    issuer,          \* google or ramp
    conn,            \* the rows of connections
    grant,           \* the provider: each grant, its live token's version, its age
    rowLock,         \* who holds a connection's row lock
    flow,            \* a connection's consent flow, up to its row
    service,         \* a service's use of a token
    revoke,          \* a connection's revoke_connection_token job
    replayed,        \* history: grants lost to the replay of a spent token
    unsaved,         \* history: grants whose new token was lost before its commit
    collateral,      \* history: connections whose working grant a revocation took
    overlapped,      \* history: those whose flow overlapped with that revocation
    disconnects, connFaults

connectionsVars == <<issuer, conn, grant, rowLock, flow, service, revoke, replayed, unsaved,
                     collateral, overlapped, disconnects, connFaults>>

Rotates == issuer = "ramp"

\* The connections, named for their domain.
Conns == IF Rotates THEN {"ramp"} ELSE {"mail", "calendar"}

NoToken == [grant |-> 0, version |-> 0]
NoGrant == [owner |-> "none", live |-> FALSE, version |-> 0, age |-> 0]
NoRow == [status |-> "none", token |-> NoToken, access |-> FALSE]
NoFlow == [pc |-> "none", grant |-> 0, found |-> FALSE]
NoUse == [pc |-> "idle", conn |-> "none", token |-> NoToken]

Usable(c) == conn[c].status \in {"ok", "expiring"}
Fits(token) == /\ token.grant # 0 /\ grant[token.grant].live
               /\ grant[token.grant].version = token.version

ConnFault == connFaults < MaxConnFaults /\ connFaults' = connFaults + 1

-----------------------------------------------------------------------------
(* Connecting                                                              *)

\* The provider's redirect comes back and its code is traded for a grant.
ExchangeCode(c) ==
    /\ flow[c].pc = "none"
    /\ \E g \in GrantIds :
          /\ grant[g] = NoGrant /\ \A h \in GrantIds : h < g => grant[h] # NoGrant
          /\ grant' = [grant EXCEPT ![g] = [NoGrant EXCEPT !.owner = c, !.live = TRUE]]
          /\ flow' = [flow EXCEPT ![c] = [NoFlow EXCEPT !.pc = "read", !.grant = g]]
    /\ UNCHANGED <<issuer, conn, rowLock, service, revoke, replayed, unsaved, collateral,
                   overlapped, disconnects, connFaults>>

\* saveConnection looks for a row of this account ...
FindExisting(c) ==
    /\ flow[c].pc = "read"
    /\ flow' = [flow EXCEPT ![c].pc = "save", ![c].found = conn[c].status # "none"]
    /\ UNCHANGED <<issuer, conn, grant, rowLock, service, revoke, replayed, unsaved, collateral,
                   overlapped, disconnects, connFaults>>

\* ... and stores the fresh tokens on it, once no one has it locked, or a new row.
SaveConnection(c) ==
    /\ flow[c].pc = "save" /\ rowLock[c] = "free"
    /\ flow' = [flow EXCEPT ![c] = NoFlow]
    /\ conn' = [conn EXCEPT ![c] =
           [status |-> "ok", access |-> FALSE,
            token |-> [grant |-> flow[c].grant, version |-> 0]]]
    /\ overlapped' = IF \E d \in Conns : revoke[d].pc = "revoke" THEN overlapped \cup {c}
                     ELSE overlapped
    /\ UNCHANGED <<issuer, grant, rowLock, service, revoke, replayed, unsaved, collateral,
                   disconnects, connFaults>>

Disconnect(c) ==
    /\ disconnects < MaxDisconnects
    /\ conn[c].status \in {"ok", "expiring", "expired"} /\ rowLock[c] = "free"
    /\ disconnects' = disconnects + 1
    /\ conn' = [conn EXCEPT ![c].status = "disconnected"]
    /\ revoke' = [revoke EXCEPT ![c].asked = TRUE]
    /\ UNCHANGED <<issuer, grant, rowLock, flow, service, replayed, unsaved, collateral, overlapped,
                   connFaults>>

-----------------------------------------------------------------------------
(* Access tokens                                                           *)

MarkedExpired(c) == IF Usable(c) THEN [conn EXCEPT ![c].status = "expired"] ELSE conn

\* A service needs a token that neither its cache nor the row has.
NeedsToken(v) ==
    /\ service[v].pc = "idle"
    /\ \E c \in Conns :
          /\ Usable(c) /\ ~conn[c].access
          /\ service' = [service EXCEPT ![v] =
                 [pc |-> IF Rotates THEN "lock" ELSE "trade", conn |-> c,
                  token |-> conn[c].token]]
    /\ UNCHANGED <<issuer, conn, grant, rowLock, flow, revoke, replayed, unsaved, collateral,
                   overlapped, disconnects, connFaults>>

\* googleAccessTokens: the token read before is traded; nothing is stored.
TradeGoogle(v) ==
    LET token == service[v].token IN
    /\ service[v].pc = "trade"
    /\ service' = [service EXCEPT ![v].pc = IF Fits(token) THEN "idle" ELSE "expire"]
    /\ UNCHANGED <<issuer, conn, grant, rowLock, flow, revoke, replayed, unsaved, collateral,
                   overlapped, disconnects, connFaults>>

\* invalid_grant: markExpired, by the connection's id.
ExpireGoogle(v) ==
    LET c == service[v].conn IN
    /\ service[v].pc = "expire" /\ rowLock[c] = "free"
    /\ conn' = MarkedExpired(c)
    /\ service' = [service EXCEPT ![v] = NoUse]
    /\ UNCHANGED <<issuer, grant, rowLock, flow, revoke, replayed, unsaved, collateral, overlapped,
                   disconnects, connFaults>>

\* rotatingAccessTokens: under the row lock the row is read again; another service
\* may have refreshed meanwhile, or the connection gone.
LockRow(v) ==
    LET c == service[v].conn IN
    /\ service[v].pc = "lock" /\ rowLock[c] = "free"
    /\ IF Usable(c) /\ ~conn[c].access /\ conn[c].token # NoToken
       THEN /\ rowLock' = [rowLock EXCEPT ![c] = v]
            /\ service' = [service EXCEPT ![v].pc = "refresh", ![v].token = conn[c].token]
       ELSE /\ service' = [service EXCEPT ![v] = NoUse]
            /\ UNCHANGED rowLock
    /\ UNCHANGED <<issuer, conn, grant, flow, revoke, replayed, unsaved, collateral, overlapped,
                   disconnects, connFaults>>

\* The provider spends the token and gives the next, or refuses; a spent one that
\* is replayed loses the grant.
RefreshRamp(v) ==
    LET token == service[v].token
        g == token.grant
    IN  /\ service[v].pc = "refresh" /\ grant[g].version < MaxRotations
        /\ IF Fits(token)
           THEN /\ grant' = [grant EXCEPT ![g].version = @ + 1]
                /\ service' = [service EXCEPT ![v].pc = "commit", ![v].token.version = @ + 1]
                /\ UNCHANGED replayed
           ELSE /\ grant' = [grant EXCEPT ![g].live = FALSE]
                /\ service' = [service EXCEPT ![v].pc = "refused"]
                /\ replayed' = IF grant[g].live THEN replayed \cup {g} ELSE replayed
        /\ UNCHANGED <<issuer, conn, rowLock, flow, revoke, unsaved, collateral, overlapped,
                       disconnects, connFaults>>

\* The new tokens are stored, or the connection marked, and the lock goes.
CommitRefresh(v) ==
    LET c == service[v].conn IN
    /\ service[v].pc \in {"commit", "refused"}
    /\ conn' = IF service[v].pc = "commit"
               THEN [conn EXCEPT ![c].token = service[v].token, ![c].access = TRUE]
               ELSE MarkedExpired(c)
    /\ rowLock' = [rowLock EXCEPT ![c] = "free"]
    /\ service' = [service EXCEPT ![v] = NoUse]
    /\ UNCHANGED <<issuer, grant, flow, revoke, replayed, unsaved, collateral, overlapped,
                   disconnects, connFaults>>

\* The process dies, or its call fails: a lock it held is released, a new token
\* it had not stored is gone.
ServiceFails(v) ==
    LET c == service[v].conn IN
    /\ service[v].pc # "idle"
    /\ ConnFault
    /\ rowLock' = IF rowLock[c] = v THEN [rowLock EXCEPT ![c] = "free"] ELSE rowLock
    /\ unsaved' = unsaved \cup
           {g \in GrantIds : service[v].pc = "commit" /\ g = service[v].token.grant}
    /\ service' = [service EXCEPT ![v] = NoUse]
    /\ UNCHANGED <<issuer, conn, grant, flow, revoke, replayed, collateral, overlapped,
                   disconnects>>

AccessRunsOut(c) ==
    /\ conn[c].access
    /\ conn' = [conn EXCEPT ![c].access = FALSE]
    /\ UNCHANGED <<issuer, grant, rowLock, flow, service, revoke, replayed, unsaved, collateral,
                   overlapped, disconnects, connFaults>>

-----------------------------------------------------------------------------
(* Grants running out                                                      *)

\* A Google grant nears its seven days, and is over.
GrantAges(g) ==
    /\ grant[g].live /\ ~Rotates /\ grant[g].age < 2
    /\ ConnFault
    /\ grant' = [grant EXCEPT ![g].age = @ + 1, ![g].live = grant[g].age = 0]
    /\ UNCHANGED <<issuer, conn, rowLock, flow, service, revoke, replayed, unsaved, collateral,
                   overlapped, disconnects>>

SweepGrants(c) ==
    LET age == grant[conn[c].token.grant].age IN
    /\ Usable(c) /\ ~Rotates /\ rowLock[c] = "free" /\ conn[c].token # NoToken
    /\ \/ age = 2 /\ conn' = MarkedExpired(c)
       \/ age = 1 /\ conn[c].status = "ok" /\ conn' = [conn EXCEPT ![c].status = "expiring"]
    /\ UNCHANGED <<issuer, grant, rowLock, flow, service, revoke, replayed, unsaved, collateral,
                   overlapped, disconnects, connFaults>>

-----------------------------------------------------------------------------
(* Revoking on disconnect                                                  *)

\* Others of the user's connections to the same account that are still in use.
Siblings(c) ==
    {d \in Conns \ {c} : conn[d].status \notin {"none", "disconnected"}}

\* Mutant: with a sibling there is nothing to do.
MutStartRevoke(c) ==
    /\ revoke[c].asked /\ revoke[c].pc = "idle" /\ rowLock[c] = "free"
    /\ IF conn[c].status = "disconnected" /\ conn[c].token # NoToken /\ Siblings(c) = {}
       THEN /\ rowLock' = [rowLock EXCEPT ![c] = "revoker"]
            /\ revoke' = [revoke EXCEPT ![c] = [asked |-> FALSE, pc |-> "revoke"]]
       ELSE /\ revoke' = [revoke EXCEPT ![c].asked = FALSE]
            /\ UNCHANGED rowLock
    /\ UNCHANGED <<issuer, conn, grant, flow, service, replayed, unsaved, collateral,
                   overlapped, disconnects, connFaults>>

\* The job locks the row; there is something to do while it is disconnected and
\* still has its token.
StartRevoke(c) ==
    /\ revoke[c].asked /\ revoke[c].pc = "idle" /\ rowLock[c] = "free"
    /\ IF conn[c].status = "disconnected" /\ conn[c].token # NoToken
       THEN /\ rowLock' = [rowLock EXCEPT ![c] = "revoker"]
            /\ revoke' = [revoke EXCEPT ![c] =
                   [asked |-> FALSE, pc |-> IF Siblings(c) = {} THEN "revoke" ELSE "delete"]]
       ELSE /\ revoke' = [revoke EXCEPT ![c].asked = FALSE]
            /\ UNCHANGED rowLock
    /\ UNCHANGED <<issuer, conn, grant, flow, service, replayed, unsaved, collateral, overlapped,
                   disconnects, connFaults>>

\* Google revokes every grant of the account; Ramp offers no revocation.
RevokeGrant(c) ==
    LET taken == {g \in GrantIds : grant[g].live /\ ~Rotates}
        hit(d) == conn[d].token.grant \in taken \/ flow[d].grant \in taken
    IN  /\ revoke[c].pc = "revoke"
        /\ grant' = [g \in GrantIds |-> IF g \in taken THEN [grant[g] EXCEPT !.live = FALSE]
                                        ELSE grant[g]]
        /\ collateral' = collateral \cup
               {d \in Conns : hit(d) /\ (Usable(d) \/ flow[d].pc # "none")}
        /\ overlapped' = overlapped \cup {d \in Conns : flow[d].pc # "none"}
        /\ revoke' = [revoke EXCEPT ![c].pc = "delete"]
        /\ UNCHANGED <<issuer, conn, rowLock, flow, service, replayed, unsaved, disconnects,
                       connFaults>>

DeleteToken(c) ==
    /\ revoke[c].pc = "delete"
    /\ conn' = [conn EXCEPT ![c].token = NoToken, ![c].access = FALSE]
    /\ rowLock' = [rowLock EXCEPT ![c] = "free"]
    /\ revoke' = [revoke EXCEPT ![c].pc = "idle"]
    /\ UNCHANGED <<issuer, grant, flow, service, replayed, unsaved, collateral, overlapped,
                   disconnects, connFaults>>

\* The worker dies or the endpoint fails: the lock goes and the job is retried.
RevokeFails(c) ==
    /\ revoke[c].pc # "idle"
    /\ ConnFault
    /\ rowLock' = [rowLock EXCEPT ![c] = "free"]
    /\ revoke' = [revoke EXCEPT ![c] = [asked |-> TRUE, pc |-> "idle"]]
    /\ UNCHANGED <<issuer, conn, grant, flow, service, replayed, unsaved, collateral, overlapped,
                   disconnects>>

-----------------------------------------------------------------------------
ConnectionsInit ==
    /\ issuer \in {"google", "ramp"}
    /\ conn = [c \in Conns |-> NoRow]
    /\ grant = [g \in GrantIds |-> NoGrant]
    /\ rowLock = [c \in Conns |-> "free"]
    /\ flow = [c \in Conns |-> NoFlow]
    /\ service = [v \in Services |-> NoUse]
    /\ revoke = [c \in Conns |-> [asked |-> FALSE, pc |-> "idle"]]
    /\ replayed = {} /\ unsaved = {} /\ collateral = {} /\ overlapped = {}
    /\ disconnects = 0 /\ connFaults = 0

ConnectionStep(c) ==
    \/ ExchangeCode(c) \/ FindExisting(c) \/ SaveConnection(c) \/ Disconnect(c)
    \/ AccessRunsOut(c) \/ SweepGrants(c)
    \/ StartRevoke(c) \/ RevokeGrant(c) \/ DeleteToken(c) \/ RevokeFails(c)

ServiceStep(v) ==
    \/ NeedsToken(v) \/ TradeGoogle(v) \/ ExpireGoogle(v)
    \/ LockRow(v) \/ RefreshRamp(v) \/ CommitRefresh(v) \/ ServiceFails(v)

ConnectionsNext ==
    \/ \E c \in Conns : ConnectionStep(c)
    \/ \E v \in Services : ServiceStep(v)
    \/ \E g \in GrantIds : GrantAges(g)

ConnectionsSpec == ConnectionsInit /\ [][ConnectionsNext]_connectionsVars

-----------------------------------------------------------------------------
(* Properties                                                              *)

ConnectionsTypeOK ==
    /\ \A c \in Conns :
          /\ conn[c].status \in {"none", "ok", "expiring", "expired", "disconnected"}
          /\ conn[c].token.grant \in GrantIds \cup {0} /\ conn[c].access \in BOOLEAN
          /\ rowLock[c] \in Services \cup {"free", "revoker"}
          /\ flow[c].pc \in {"none", "read", "save"}
          /\ revoke[c].pc \in {"idle", "revoke", "delete"} /\ revoke[c].asked \in BOOLEAN
    /\ \A v \in Services :
          service[v].pc \in {"idle", "trade", "expire", "lock", "refresh", "commit", "refused"}
    /\ \A g \in GrantIds : grant[g].age \in 0 .. 2 /\ grant[g].version \in 0 .. MaxRotations

\* Two services that refresh at once never "replay a spent token, and the provider
\* may revoke the whole grant" (rotating-tokens.ts): only a token whose successor
\* was lost before it was committed is ever replayed.
NeverReplayed == replayed \subseteq unsaved

\* A disconnected account's grant is dealt with: as long as its token is there, a
\* job that will revoke or delete it waits or runs, through reconnects and
\* disconnects meanwhile and failed attempts.
TokensDealtWith ==
    \A c \in Conns :
        (conn[c].status = "disconnected" /\ conn[c].token # NoToken)
            => revoke[c].asked \/ revoke[c].pc # "idle"

\* Revoking spares a grant "another of the user's live connections from that
\* issuer uses" (revoke.ts): it takes none in use, except one that came to be
\* used while the revocation was under way.
SiblingsSpared == collateral \subseteq overlapped

\* No refresh and no revocation takes a grant that was to be kept.
GrantsSafe == NeverReplayed /\ SiblingsSpared

\* A grant lives while it is in use, and is dealt with when it no longer is.
GrantsKept == GrantsSafe /\ TokensDealtWith

\* "The row stays locked meanwhile, so a reconnect waits rather than having its
\* new grant revoked" (revoke.ts): a revocation takes no grant of a reconnect of
\* the same connection.  But the code was traded before the row is waited for.
NewGrantKept ==
    \A c \in Conns :
        (revoke[c].pc = "delete" /\ flow[c].pc # "none") => grant[flow[c].grant].live
=============================================================================
