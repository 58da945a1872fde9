--------------------------- MODULE AccountsProofs ---------------------------
(***************************************************************************)
(* Proofs about Connections, Leaving, Sites, Mailbox, Chats and Media, for *)
(* any services, workers, grants, sites, addresses, chats and bounds: a    *)
(* spent token is replayed only when its successor was lost, and what is   *)
(* disconnected is dealt with while grants in use are spared; a deleted    *)
(* account leaves nothing of the user's behind and keeps what is others';  *)
(* the host has what a site's rows say, and no hour of it is charged       *)
(* twice; an address is never another's, and mail is served, matched and   *)
(* recorded; an update becomes one item that a job will show, and a file   *)
(* that is recorded is whole.                                              *)
(***************************************************************************)
EXTENDS Connections, Leaving, Sites, Mailbox, Messages, FiniteSetTheorems, TLAPS,
        WellFoundedInduction

Tokens == [grant : GrantIds \cup {0}, version : Nat]
Rows ==
    [status : {"none", "ok", "expiring", "expired", "disconnected"}, token : Tokens,
     access : BOOLEAN]
Grants ==
    [owner : {"none", "mail", "calendar", "ramp"}, live : BOOLEAN, version : Nat, age : Nat]
Flows == [pc : {"none", "read", "save"}, grant : GrantIds \cup {0}, found : BOOLEAN]
Uses ==
    [pc : {"idle", "trade", "expire", "lock", "refresh", "commit", "refused"},
     conn : {"none", "mail", "calendar", "ramp"}, token : Tokens]
Revokes == [asked : BOOLEAN, pc : {"idle", "revoke", "delete"}]

TypeInv ==
    /\ issuer \in {"google", "ramp"}
    /\ conn \in [Conns -> Rows]
    /\ grant \in [GrantIds -> Grants]
    /\ rowLock \in [Conns -> Services \cup {"free", "revoker"}]
    /\ flow \in [Conns -> Flows]
    /\ service \in [Services -> Uses]
    /\ revoke \in [Conns -> Revokes]
    /\ \A v \in Services : service[v].pc # "idle" => service[v].conn \in Conns

-----------------------------------------------------------------------------
(* Types                                                                   *)

LEMMA NoneAreTyped ==
    /\ NoToken \in Tokens /\ NoRow \in Rows /\ NoGrant \in Grants /\ NoFlow \in Flows
    /\ NoUse \in Uses
  BY DEF NoToken, NoRow, NoGrant, NoFlow, NoUse, Tokens, Rows, Grants, Flows, Uses

LEMMA TypesBegin == ConnectionsInit => TypeInv
  <1> HAVE ConnectionsInit
  <1>1. [asked |-> FALSE, pc |-> "idle"] \in Revokes
    BY DEF Revokes
  <1>2. /\ conn \in [Conns -> Rows] /\ grant \in [GrantIds -> Grants]
        /\ flow \in [Conns -> Flows] /\ service \in [Services -> Uses]
    BY NoneAreTyped DEF ConnectionsInit
  <1>3. revoke \in [Conns -> Revokes]
    BY <1>1 DEF ConnectionsInit
  <1> QED BY <1>2, <1>3 DEF ConnectionsInit, TypeInv, NoUse

LEMMA MarkedRows ==
    ASSUME conn \in [Conns -> Rows], NEW c \in Conns
    PROVE  /\ MarkedExpired(c) \in [Conns -> Rows]
           /\ \A d \in Conns : /\ MarkedExpired(c)[d].token = conn[d].token
                               /\ MarkedExpired(c)[d].status # conn[d].status =>
                                     conn[d].status \in {"ok", "expiring"}
                                        /\ MarkedExpired(c)[d].status = "expired"
  BY DEF MarkedExpired, Usable, Rows

\* Whose connections they are is settled at the beginning.
LEMMA IssuerStays ==
    ASSUME [ConnectionsNext]_connectionsVars
    PROVE  issuer' = issuer /\ (Rotates' <=> Rotates) /\ Conns' = Conns
  <1>1. issuer' = issuer
    BY DEF ConnectionsNext, ConnectionStep, ServiceStep, ExchangeCode, FindExisting, SaveConnection,
       Disconnect, AccessRunsOut, SweepGrants, StartRevoke, RevokeGrant, DeleteToken, RevokeFails,
       NeedsToken, TradeGoogle, ExpireGoogle, LockRow, RefreshRamp, CommitRefresh, ServiceFails,
       GrantAges, connectionsVars
  <1> QED BY <1>1 DEF Conns, Rotates

LEMMA TypesLast ==
    ASSUME TypeInv, [ConnectionsNext]_connectionsVars
    PROVE  TypeInv'
  <1> USE DEF TypeInv
  <1>0. issuer' = issuer /\ Conns' = Conns
    BY IssuerStays
  <1>1. ASSUME NEW c \in Conns, ExchangeCode(c)
        PROVE  TypeInv'
    <2>1. PICK g \in GrantIds :
             /\ grant' = [grant EXCEPT ![g] = [NoGrant EXCEPT !.owner = c, !.live = TRUE]]
             /\ flow' = [flow EXCEPT ![c] = [NoFlow EXCEPT !.pc = "read", !.grant = g]]
      BY <1>1 DEF ExchangeCode
    <2>2. [NoGrant EXCEPT !.owner = c, !.live = TRUE] \in Grants
      BY Zenon, NoneAreTyped DEF Grants, Conns
    <2>3. [NoFlow EXCEPT !.pc = "read", !.grant = g] \in Flows
      BY NoneAreTyped DEF Flows
    <2> QED BY <1>0, <1>1, <2>1, <2>2, <2>3 DEF ExchangeCode
  <1>2. ASSUME NEW c \in Conns, FindExisting(c)
        PROVE  TypeInv'
    <2>1. PICK found \in BOOLEAN : found <=> conn[c].status # "none"
      OBVIOUS
    <2>2. flow' = [flow EXCEPT ![c].pc = "save", ![c].found = found]
      BY <1>2, <2>1 DEF FindExisting
    <2>3. flow' \in [Conns -> Flows]
      BY <2>2 DEF Flows
    <2> QED BY <1>0, <1>2, <2>3 DEF FindExisting
  <1>3. ASSUME NEW c \in Conns, SaveConnection(c)
        PROVE  TypeInv'
    <2>1. [status |-> "ok", access |-> FALSE, token |-> [grant |-> flow[c].grant, version |-> 0]]
             \in Rows
      BY DEF Rows, Tokens, Flows
    <2> QED BY <1>0, <1>3, <2>1, NoneAreTyped DEF SaveConnection
  <1>4. ASSUME NEW c \in Conns, Disconnect(c)
        PROVE  TypeInv'
    BY ZenonT(30), <1>0, <1>4 DEF Disconnect, Rows, Revokes
  <1>5. ASSUME NEW c \in Conns, AccessRunsOut(c)
        PROVE  TypeInv'
    BY <1>0, <1>5 DEF AccessRunsOut, Rows
  <1>6. ASSUME NEW c \in Conns, SweepGrants(c)
        PROVE  TypeInv'
    <2>1. [conn EXCEPT ![c].status = "expiring"] \in [Conns -> Rows]
      BY DEF Rows
    <2> QED BY <1>0, <1>6, <2>1, MarkedRows DEF SweepGrants
  <1>7. ASSUME NEW c \in Conns, StartRevoke(c)
        PROVE  TypeInv'
    <2>1. \A p \in {"revoke", "delete"} : [asked |-> FALSE, pc |-> p] \in Revokes
      BY DEF Revokes
    <2>2. revoke' \in [Conns -> Revokes]
      <3>1. [revoke EXCEPT ![c].asked = FALSE] \in [Conns -> Revokes]
        BY DEF Revokes
      <3>2. PICK p \in {"revoke", "delete"} : p = IF Siblings(c) = {} THEN "revoke" ELSE "delete"
        OBVIOUS
      <3>3. [revoke EXCEPT ![c] = [asked |-> FALSE, pc |-> p]] \in [Conns -> Revokes]
        BY <2>1
      <3> QED BY <1>7, <3>1, <3>2, <3>3 DEF StartRevoke
    <2> QED BY <1>0, <1>7, <2>2 DEF StartRevoke
  <1>8. ASSUME NEW c \in Conns, RevokeGrant(c)
        PROVE  TypeInv'
    <2>1. \A g \in GrantIds : [grant[g] EXCEPT !.live = FALSE] \in Grants
      BY DEF Grants
    <2>2. grant' \in [GrantIds -> Grants]
      BY <1>8, <2>1 DEF RevokeGrant
    <2>3. revoke' \in [Conns -> Revokes]
      BY <1>8 DEF RevokeGrant, Revokes
    <2> QED BY <1>0, <1>8, <2>2, <2>3 DEF RevokeGrant
  <1>9. ASSUME NEW c \in Conns, DeleteToken(c)
        PROVE  TypeInv'
    <2>1. conn' \in [Conns -> Rows]
      BY <1>9, NoneAreTyped DEF DeleteToken, Rows
    <2> QED BY <1>0, <1>9, <2>1 DEF DeleteToken, Revokes
  <1>10. ASSUME NEW c \in Conns, RevokeFails(c)
         PROVE  TypeInv'
    <2>1. [asked |-> TRUE, pc |-> "idle"] \in Revokes
      BY DEF Revokes
    <2> QED BY <1>0, <1>10, <2>1 DEF RevokeFails
  <1>11. ASSUME NEW v \in Services, NeedsToken(v)
         PROVE  TypeInv'
    <2>1. PICK c \in Conns :
             service' = [service EXCEPT ![v] = [pc |-> IF Rotates THEN "lock" ELSE "trade",
                                                conn |-> c, token |-> conn[c].token]]
      BY <1>11 DEF NeedsToken
    <2>2. PICK p \in {"lock", "trade"} : p = IF Rotates THEN "lock" ELSE "trade"
      OBVIOUS
    <2>3. [pc |-> p, conn |-> c, token |-> conn[c].token] \in Uses
      BY <2>2 DEF Uses, Rows, Conns
    <2> QED BY <1>0, <1>11, <2>1, <2>2, <2>3 DEF NeedsToken
  <1>12. ASSUME NEW v \in Services, TradeGoogle(v)
         PROVE  TypeInv'
    <2>1. PICK p \in {"idle", "expire"} : service' = [service EXCEPT ![v].pc = p]
      BY <1>12 DEF TradeGoogle
    <2> QED BY <1>0, <1>12, <2>1 DEF TradeGoogle, Uses
  <1>13. ASSUME NEW v \in Services, ExpireGoogle(v)
         PROVE  TypeInv'
    BY <1>0, <1>13, NoneAreTyped, MarkedRows DEF ExpireGoogle, NoUse
  <1>14. ASSUME NEW v \in Services, LockRow(v)
         PROVE  TypeInv'
    <2>1. service' \in [Services -> Uses]
      BY SMTT(30), <1>14, NoneAreTyped DEF LockRow, Uses, Rows
    <2> QED BY SMTT(30), <1>0, <1>14, <2>1 DEF LockRow, NoUse, Uses
  <1>15. ASSUME NEW v \in Services, RefreshRamp(v)
         PROVE  TypeInv'
    <2>1. service' \in [Services -> Uses]
      BY <1>15 DEF RefreshRamp, Uses, Tokens
    <2> DEFINE g == service[v].token.grant
    <2>2. grant' \in [GrantIds -> Grants]
      <3>1. [grant EXCEPT ![g].version = @ + 1] \in [GrantIds -> Grants]
        <4>1. CASE g \in GrantIds
          <5>1. grant[g].version + 1 \in Nat
            BY <4>1 DEF Grants
          <5> QED BY <5>1, <4>1 DEF Grants
        <4>2. CASE g \notin GrantIds
          BY <4>2
        <4> QED BY <4>1, <4>2
      <3>2. [grant EXCEPT ![g].live = FALSE] \in [GrantIds -> Grants]
        BY DEF Grants
      <3> QED BY <1>15, <3>1, <3>2 DEF RefreshRamp
    <2> QED BY <1>0, <1>15, <2>1, <2>2 DEF RefreshRamp, Uses
  <1>16. ASSUME NEW v \in Services, CommitRefresh(v)
         PROVE  TypeInv'
    <2>1. [conn EXCEPT ![service[v].conn].token = service[v].token,
                       ![service[v].conn].access = TRUE] \in [Conns -> Rows]
      <3>1. service[v].conn \in Conns /\ service[v].token \in Tokens
        BY <1>16 DEF CommitRefresh, Uses
      <3> QED BY ZenonT(30), <3>1 DEF Rows
    <2>2. conn' \in [Conns -> Rows]
      BY <1>16, <2>1, MarkedRows DEF CommitRefresh
    <2> QED BY <1>0, <1>16, <2>2, NoneAreTyped DEF CommitRefresh, NoUse
  <1>17. ASSUME NEW v \in Services, ServiceFails(v)
         PROVE  TypeInv'
    BY <1>0, <1>17, NoneAreTyped DEF ServiceFails, NoUse
  <1>18. ASSUME NEW g \in GrantIds, GrantAges(g)
         PROVE  TypeInv'
    <2>1. PICK young \in BOOLEAN : young <=> grant[g].age = 0
      OBVIOUS
    <2>2. grant' = [grant EXCEPT ![g].age = @ + 1, ![g].live = young]
      BY <1>18, <2>1 DEF GrantAges
    <2>3. [grant EXCEPT ![g].age = @ + 1, ![g].live = young] \in [GrantIds -> Grants]
      <3>1. PICK age \in Nat : age = grant[g].age + 1
        BY DEF Grants
      <3>2. [grant EXCEPT ![g].age = age, ![g].live = young] \in [GrantIds -> Grants]
        BY ZenonT(30) DEF Grants
      <3> QED BY <3>1, <3>2
    <2> QED BY <1>0, <1>18, <2>2, <2>3 DEF GrantAges
  <1>19. CASE UNCHANGED connectionsVars
    BY <1>0, <1>19 DEF connectionsVars
  <1> QED
    BY <1>1, <1>2, <1>3, <1>4, <1>5, <1>6, <1>7, <1>8, <1>9, <1>10, <1>11, <1>12, <1>13, <1>14,
       <1>15, <1>16, <1>17, <1>18, <1>19 DEF ConnectionsNext, ConnectionStep, ServiceStep

-----------------------------------------------------------------------------
(* Row locks                                                               *)

Holding(v) == service[v].pc \in {"refresh", "commit", "refused"}

\* Who works on a row under its lock has it, and a service only has it for a
\* connection that is in use: nothing disconnects it meanwhile.
LockInv ==
    /\ \A v \in Services :
          /\ service[v].pc = "lock" => Rotates
          /\ Holding(v) => /\ Rotates /\ rowLock[service[v].conn] = v
                           /\ Usable(service[v].conn)
    /\ \A c \in Conns : revoke[c].pc # "idle" => rowLock[c] = "revoker"

LEMMA LocksBegin == ConnectionsInit => LockInv
  BY DEF ConnectionsInit, LockInv, Holding, NoUse

LEMMA LocksLast ==
    ASSUME TypeInv, LockInv, [ConnectionsNext]_connectionsVars
    PROVE  LockInv'
  <1> USE DEF TypeInv
  <1>0. (Rotates' <=> Rotates) /\ Conns' = Conns /\ Services \cap {"free", "revoker"} = {}
    BY IssuerStays, ConnectionsAssumption
  <1>1. ASSUME NEW c \in Conns,
               ExchangeCode(c) \/ FindExisting(c) \/ AccessRunsOut(c) \/ RevokeGrant(c)
        PROVE  LockInv'
    <2>1. UNCHANGED <<rowLock, service>>
      BY <1>1 DEF ExchangeCode, FindExisting, AccessRunsOut, RevokeGrant
    <2>2. \A d \in Conns : conn'[d].status = conn[d].status
      <3>1. \A d \in Conns : [conn EXCEPT ![c].access = FALSE][d].status = conn[d].status
        BY DEF Rows
      <3>2. conn' = conn \/ conn' = [conn EXCEPT ![c].access = FALSE]
        BY <1>1 DEF ExchangeCode, FindExisting, AccessRunsOut, RevokeGrant
      <3> QED BY <3>1, <3>2
    <2>3. \A d \in Conns : revoke'[d].pc # "idle" => revoke[d].pc # "idle"
      BY <1>1 DEF ExchangeCode, FindExisting, AccessRunsOut, RevokeGrant, Revokes
    <2> QED BY <1>0, <2>1, <2>2, <2>3 DEF LockInv, Holding, Usable
  <1>2. ASSUME NEW c \in Conns, SaveConnection(c) \/ Disconnect(c) \/ SweepGrants(c)
        PROVE  LockInv'
    <2>1. rowLock[c] = "free" /\ UNCHANGED <<rowLock, service>>
      BY <1>2 DEF SaveConnection, Disconnect, SweepGrants
    <2>2. \A d \in Conns : d # c => conn'[d].status = conn[d].status
      BY <1>2, MarkedRows DEF SaveConnection, Disconnect, SweepGrants, MarkedExpired
    <2>3. \A d \in Conns : revoke'[d].pc = revoke[d].pc
      BY <1>2 DEF SaveConnection, Disconnect, SweepGrants, Revokes
    <2>4. \A v \in Services : Holding(v) => service[v].conn # c
      BY <1>0, <2>1 DEF LockInv
    <2>5. \A v \in Services : Holding(v) => service[v].conn \in Conns
      BY DEF Holding
    <2> QED BY <1>0, <2>1, <2>2, <2>3, <2>4, <2>5 DEF LockInv, Holding, Usable
  <1>3. ASSUME NEW c \in Conns, StartRevoke(c)
        PROVE  LockInv'
    <2>1. rowLock[c] = "free" /\ UNCHANGED <<conn, service>>
      BY <1>3 DEF StartRevoke
    <2>2. \A v \in Services : Holding(v) => service[v].conn # c
      BY <1>0, <2>1 DEF LockInv
    <2>3. \A d \in Conns : d # c => rowLock'[d] = rowLock[d] /\ revoke'[d] = revoke[d]
      BY <1>3 DEF StartRevoke
    <2>4. revoke'[c].pc # "idle" => rowLock'[c] = "revoker"
      BY <1>3 DEF StartRevoke, Revokes
    <2>5. \A v \in Services : Holding(v) => service[v].conn \in Conns
      BY DEF Holding
    <2> QED BY <1>0, <2>1, <2>2, <2>3, <2>4, <2>5 DEF LockInv, Holding, Usable
  <1>4. ASSUME NEW c \in Conns, DeleteToken(c) \/ RevokeFails(c)
        PROVE  LockInv'
    <2>1. rowLock[c] = "revoker" /\ UNCHANGED service
      BY <1>4 DEF DeleteToken, RevokeFails, LockInv
    <2>2. \A v \in Services : Holding(v) => service[v].conn # c /\ service[v].conn \in Conns
      BY <1>0, <2>1 DEF LockInv, Holding
    <2>3. \A d \in Conns : d # c => rowLock'[d] = rowLock[d] /\ revoke'[d] = revoke[d]
      BY <1>4 DEF DeleteToken, RevokeFails
    <2>4. revoke'[c].pc = "idle"
      BY <1>4 DEF DeleteToken, RevokeFails, Revokes
    <2>5. \A d \in Conns : d # c => conn'[d] = conn[d]
      BY <1>4 DEF DeleteToken, RevokeFails
    <2> QED BY <1>0, <2>1, <2>2, <2>3, <2>4, <2>5 DEF LockInv, Holding, Usable
  <1>5. ASSUME NEW v \in Services, NeedsToken(v) \/ TradeGoogle(v)
        PROVE  LockInv'
    <2>1. UNCHANGED <<conn, rowLock, revoke>>
      BY <1>5 DEF NeedsToken, TradeGoogle
    <2>2. \A w \in Services : w # v => service'[w] = service[w]
      BY <1>5 DEF NeedsToken, TradeGoogle
    <2>3. service'[v].pc \in {"idle", "trade", "expire", "lock"}
          /\ (service'[v].pc = "lock" => Rotates)
      BY <1>5 DEF NeedsToken, TradeGoogle, Uses
    <2> QED BY <1>0, <2>1, <2>2, <2>3 DEF LockInv, Holding, Usable
  <1>6. ASSUME NEW v \in Services, ExpireGoogle(v)
        PROVE  LockInv'
    <2> DEFINE c == service[v].conn
    <2>1. c \in Conns /\ rowLock[c] = "free" /\ UNCHANGED <<rowLock, revoke>>
      BY <1>6 DEF ExpireGoogle
    <2>2. \A w \in Services : Holding(w) => service[w].conn # c /\ service[w].conn \in Conns
      BY <1>0, <2>1 DEF LockInv, Holding
    <2>3. \A d \in Conns : d # c => conn'[d] = conn[d]
      BY <1>6 DEF ExpireGoogle, MarkedExpired
    <2>4. service'[v].pc = "idle" /\ \A w \in Services : w # v => service'[w] = service[w]
      BY <1>6 DEF ExpireGoogle, NoUse
    <2> QED BY <1>0, <2>1, <2>2, <2>3, <2>4 DEF LockInv, Holding, Usable
  <1>7. ASSUME NEW v \in Services, LockRow(v)
        PROVE  LockInv'
    <2>1. PICK c \in Conns : c = service[v].conn
      BY <1>7 DEF LockRow
    <2>2. rowLock[c] = "free" /\ UNCHANGED <<conn, revoke>> /\ Rotates
          /\ \A w \in Services : w # v => service'[w] = service[w]
      BY <1>7, <2>1 DEF LockRow, LockInv
    <2>3. \A w \in Services : Holding(w) => service[w].conn # c
      BY <1>0, <2>2 DEF LockInv
    <2>4. \/ service'[v].pc = "idle" /\ rowLock' = rowLock
          \/ /\ Usable(c) /\ rowLock' = [rowLock EXCEPT ![c] = v]
             /\ service'[v].pc = "refresh" /\ service'[v].conn = c
      BY <1>7, <2>1 DEF LockRow, NoUse, Uses
    <2>5. \A d \in Conns : d # c => rowLock'[d] = rowLock[d]
      BY <2>4
    <2>6. rowLock[c] # "revoker"
      BY <2>2
    <2>7. \A w \in Services : Holding(w) => service[w].conn \in Conns
      BY DEF Holding
    <2> QED BY <1>0, <2>1, <2>2, <2>3, <2>4, <2>5, <2>6, <2>7 DEF LockInv, Holding, Usable
  <1>8. ASSUME NEW v \in Services, RefreshRamp(v)
        PROVE  LockInv'
    <2>1. UNCHANGED <<conn, rowLock, revoke>>
          /\ \A w \in Services : w # v => service'[w] = service[w]
      BY <1>8 DEF RefreshRamp
    <2>2. service[v].pc = "refresh" /\ service'[v].conn = service[v].conn
          /\ service'[v].pc \in {"commit", "refused"}
      BY <1>8 DEF RefreshRamp, Uses
    <2> QED BY <1>0, <2>1, <2>2 DEF LockInv, Holding, Usable
  <1>9. ASSUME NEW v \in Services, CommitRefresh(v)
        PROVE  LockInv'
    <2>1. PICK c \in Conns : c = service[v].conn
      BY <1>9 DEF CommitRefresh
    <2>2. rowLock[c] = v /\ service'[v].pc = "idle" /\ UNCHANGED revoke
          /\ \A w \in Services : w # v => service'[w] = service[w]
      BY <1>9, <2>1 DEF CommitRefresh, LockInv, Holding, NoUse
    <2>3. \A w \in Services : Holding(w) /\ w # v => service[w].conn # c
      BY <2>2 DEF LockInv
    <2>4. \A d \in Conns : d # c => conn'[d] = conn[d] /\ rowLock'[d] = rowLock[d]
      BY <1>9, <2>1 DEF CommitRefresh, MarkedExpired
    <2>5. rowLock[c] # "revoker"
      BY <1>0, <2>2
    <2>6. \A w \in Services : Holding(w) => service[w].conn \in Conns
      BY DEF Holding
    <2> QED BY <1>0, <2>1, <2>2, <2>3, <2>4, <2>5, <2>6 DEF LockInv, Holding, Usable
  <1>10. ASSUME NEW v \in Services, ServiceFails(v)
         PROVE  LockInv'
    <2>1. UNCHANGED <<conn, revoke>> /\ service'[v].pc = "idle"
          /\ \A w \in Services : w # v => service'[w] = service[w]
      BY <1>10 DEF ServiceFails, NoUse
    <2>2. \A d \in Conns : rowLock'[d] # rowLock[d] => rowLock[d] = v
      BY <1>10 DEF ServiceFails
    <2>3. \A w \in Services : Holding(w) => service[w].conn \in Conns
      BY DEF Holding
    <2> QED BY <1>0, <2>1, <2>2, <2>3 DEF LockInv, Holding, Usable
  <1>11. CASE (\E g \in GrantIds : GrantAges(g)) \/ UNCHANGED connectionsVars
    BY <1>0, <1>11 DEF GrantAges, connectionsVars, LockInv, Holding, Usable
  <1> QED
    BY <1>1, <1>2, <1>3, <1>4, <1>5, <1>6, <1>7, <1>8, <1>9, <1>10, <1>11
    DEF ConnectionsNext, ConnectionStep, ServiceStep

-----------------------------------------------------------------------------
(* Revoking                                                                *)

\* While a grant is being revoked, who uses a connection came to it meanwhile.
SparedInv ==
    /\ \A c, d \in Conns : revoke[c].pc = "revoke" /\ Usable(d) => d \in overlapped
    /\ SiblingsSpared

LEMMA SparedBegins == ConnectionsInit => SparedInv /\ TokensDealtWith
  BY DEF ConnectionsInit, SparedInv, SiblingsSpared, TokensDealtWith, NoRow

\* A step that puts no connection into use and starts no revocation.
LEMMA StillSpared ==
    ASSUME SparedInv, Conns' = Conns, collateral' = collateral, overlapped \subseteq overlapped',
           \A d \in Conns : Usable(d)' => Usable(d) \/ d \in overlapped',
           \A c \in Conns : revoke'[c].pc = "revoke" => revoke[c].pc = "revoke"
    PROVE  SparedInv'
  BY DEF SparedInv, SiblingsSpared

LEMMA SparedLasts ==
    ASSUME TypeInv, SparedInv, [ConnectionsNext]_connectionsVars
    PROVE  SparedInv'
  <1> USE DEF TypeInv
  <1>0. (Rotates' <=> Rotates) /\ Conns' = Conns
    BY IssuerStays
  <1>1. ASSUME NEW c \in Conns, ExchangeCode(c) \/ FindExisting(c)
        PROVE  SparedInv'
    BY <1>0, <1>1, StillSpared DEF ExchangeCode, FindExisting, Usable
  <1>2. ASSUME NEW c \in Conns, SaveConnection(c)
        PROVE  SparedInv'
    <2>1. /\ UNCHANGED <<revoke, collateral>> /\ overlapped \subseteq overlapped'
          /\ \A d \in Conns : d # c => conn'[d] = conn[d]
      BY <1>2 DEF SaveConnection
    <2>2. ASSUME NEW e \in Conns, NEW d \in Conns, revoke'[e].pc = "revoke", Usable(d)'
          PROVE  d \in overlapped'
      <3>1. CASE d = c
        BY <1>2, <2>1, <2>2, <3>1 DEF SaveConnection
      <3>2. CASE d # c
        BY <2>1, <2>2, <3>2 DEF SparedInv, Usable
      <3> QED BY <3>1, <3>2
    <2> QED BY <1>0, <2>1, <2>2 DEF SparedInv, SiblingsSpared
  <1>3. ASSUME NEW c \in Conns, Disconnect(c)
        PROVE  SparedInv'
    <2>1. \A d \in Conns : conn'[d].status \in {conn[d].status, "disconnected"}
                         /\ revoke'[d].pc = revoke[d].pc
      BY <1>3 DEF Disconnect, Rows, Revokes
    <2> QED BY <1>0, <1>3, <2>1, StillSpared DEF Disconnect, Usable
  <1>4. ASSUME NEW c \in Conns, AccessRunsOut(c)
        PROVE  SparedInv'
    <2>1. \A d \in Conns : conn'[d].status = conn[d].status
      BY <1>4 DEF AccessRunsOut, Rows
    <2> QED BY <1>0, <1>4, <2>1, StillSpared DEF AccessRunsOut, Usable
  <1>5. ASSUME NEW c \in Conns, SweepGrants(c)
        PROVE  SparedInv'
    <2>1. \A d \in Conns : conn'[d].status # conn[d].status =>
                             d = c \/ conn'[d].status = "expired"
      BY <1>5, MarkedRows DEF SweepGrants, Rows
    <2> QED BY <1>0, <1>5, <2>1, StillSpared DEF SweepGrants, Usable
  <1>6. ASSUME NEW c \in Conns, StartRevoke(c)
        PROVE  SparedInv'
    <2>1. UNCHANGED <<conn, collateral, overlapped>>
          /\ \A d \in Conns : d # c => revoke'[d] = revoke[d]
      BY <1>6 DEF StartRevoke
    <2>2. revoke'[c].pc = "revoke" => conn[c].status = "disconnected" /\ Siblings(c) = {}
      BY <1>6 DEF StartRevoke, Revokes
    <2>3. revoke'[c].pc = "revoke" => \A d \in Conns : ~ Usable(d)
      BY <2>2 DEF Siblings, Usable
    <2> QED BY <1>0, <2>1, <2>3 DEF SparedInv, SiblingsSpared, Usable
  <1>7. ASSUME NEW c \in Conns, RevokeGrant(c)
        PROVE  SparedInv'
    <2>1. /\ revoke[c].pc = "revoke" /\ conn' = conn
          /\ \A d \in Conns : revoke'[d].pc = "revoke" => revoke[d].pc = "revoke"
          /\ overlapped' = overlapped \cup {d \in Conns : flow[d].pc # "none"}
      BY <1>7 DEF RevokeGrant, Revokes
    <2>2. collateral' \subseteq collateral \cup {d \in Conns : Usable(d) \/ flow[d].pc # "none"}
      BY <1>7 DEF RevokeGrant
    <2>3. \A d \in Conns : Usable(d) => d \in overlapped
      BY <2>1 DEF SparedInv
    <2>4. SiblingsSpared'
      BY <2>1, <2>2, <2>3 DEF SparedInv, SiblingsSpared
    <2> QED BY <1>0, <2>1, <2>3, <2>4 DEF SparedInv, Usable
  <1>8. ASSUME NEW c \in Conns, DeleteToken(c) \/ RevokeFails(c)
        PROVE  SparedInv'
    <2>1. \A d \in Conns : conn'[d].status = conn[d].status
                         /\ (revoke'[d].pc = "revoke" => revoke[d].pc = "revoke")
      BY <1>8 DEF DeleteToken, RevokeFails, Rows, Revokes
    <2> QED BY <1>0, <1>8, <2>1, StillSpared DEF DeleteToken, RevokeFails, Usable
  <1>9. ASSUME NEW v \in Services,
               NeedsToken(v) \/ TradeGoogle(v) \/ LockRow(v) \/ RefreshRamp(v) \/ ServiceFails(v)
        PROVE  SparedInv'
    BY <1>0, <1>9, StillSpared
    DEF NeedsToken, TradeGoogle, LockRow, RefreshRamp, ServiceFails, Usable
  <1>10. ASSUME NEW v \in Services, ExpireGoogle(v) \/ CommitRefresh(v)
         PROVE  SparedInv'
    <2>1. service[v].conn \in Conns
      BY <1>10 DEF ExpireGoogle, CommitRefresh
    <2>2. \A d \in Conns : conn'[d].status \in {conn[d].status, "expired"}
      <3>1. \A d \in Conns : [conn EXCEPT ![service[v].conn].token = service[v].token,
                                         ![service[v].conn].access = TRUE][d].status
                                 = conn[d].status
        BY <2>1 DEF Rows
      <3>2. conn' \in {MarkedExpired(service[v].conn),
                       [conn EXCEPT ![service[v].conn].token = service[v].token,
                                    ![service[v].conn].access = TRUE]}
        BY <1>10 DEF ExpireGoogle, CommitRefresh
      <3>3. \A d \in Conns :
              MarkedExpired(service[v].conn)[d].status \in {conn[d].status, "expired"}
        BY <2>1, MarkedRows
      <3> QED BY <3>1, <3>2, <3>3
    <2> QED BY <1>0, <1>10, <2>2, StillSpared DEF ExpireGoogle, CommitRefresh, Usable
  <1>11. CASE (\E g \in GrantIds : GrantAges(g)) \/ UNCHANGED connectionsVars
    BY <1>0, <1>11, StillSpared DEF GrantAges, connectionsVars, Usable
  <1> QED
    BY <1>1, <1>2, <1>3, <1>4, <1>5, <1>6, <1>7, <1>8, <1>9, <1>10, <1>11
    DEF ConnectionsNext, ConnectionStep, ServiceStep

\* A step that disconnects nothing, stores no token on what is disconnected, and ends
\* no job.
LEMMA StillDealtWith ==
    ASSUME TokensDealtWith, Conns' = Conns,
           \A c \in Conns :
               /\ conn'[c].status = "disconnected" /\ conn'[c].token # NoToken
                     => conn[c].status = "disconnected" /\ conn[c].token # NoToken
               /\ revoke[c].asked \/ revoke[c].pc # "idle"
                     => revoke'[c].asked \/ revoke'[c].pc # "idle"
    PROVE  TokensDealtWith'
  BY DEF TokensDealtWith

LEMMA DealtWithLasts ==
    ASSUME TypeInv, LockInv, TokensDealtWith, [ConnectionsNext]_connectionsVars
    PROVE  TokensDealtWith'
  <1> USE DEF TypeInv
  <1>0. Conns' = Conns
    BY IssuerStays
  <1>1. ASSUME NEW c \in Conns, ExchangeCode(c) \/ FindExisting(c) \/ SaveConnection(c)
        PROVE  TokensDealtWith'
    <2>1. \A d \in Conns : conn'[d] = conn[d] \/ conn'[d].status = "ok"
      <3>1. CASE SaveConnection(c)
        BY <3>1 DEF SaveConnection
      <3> QED BY <1>1, <3>1 DEF ExchangeCode, FindExisting
    <2> QED BY <1>0, <1>1, <2>1, StillDealtWith DEF ExchangeCode, FindExisting, SaveConnection
  <1>2. ASSUME NEW c \in Conns, Disconnect(c)
        PROVE  TokensDealtWith'
    <2>1. /\ revoke'[c].asked
          /\ \A d \in Conns : d # c => conn'[d] = conn[d] /\ revoke'[d] = revoke[d]
      BY <1>2 DEF Disconnect, Revokes
    <2> QED BY <1>0, <2>1 DEF TokensDealtWith
  <1>3. ASSUME NEW c \in Conns, AccessRunsOut(c) \/ SweepGrants(c)
        PROVE  TokensDealtWith'
    <2>1. \A d \in Conns : conn'[d].token = conn[d].token
                         /\ (conn'[d].status = "disconnected" => conn[d].status = "disconnected")
      <3>1. \A d \in Conns : /\ [conn EXCEPT ![c].access = FALSE][d].status = conn[d].status
                             /\ [conn EXCEPT ![c].access = FALSE][d].token = conn[d].token
        BY DEF Rows
      <3>2. \A d \in Conns : /\ [conn EXCEPT ![c].status = "expiring"][d].status
                                      \in {conn[d].status, "expiring"}
                             /\ [conn EXCEPT ![c].status = "expiring"][d].token = conn[d].token
        BY DEF Rows
      <3>3. conn' \in {[conn EXCEPT ![c].access = FALSE], MarkedExpired(c),
                       [conn EXCEPT ![c].status = "expiring"]}
        BY <1>3 DEF AccessRunsOut, SweepGrants
      <3>4. \A d \in Conns : /\ MarkedExpired(c)[d].token = conn[d].token
                             /\ MarkedExpired(c)[d].status \in {conn[d].status, "expired"}
        BY MarkedRows
      <3> QED BY ZenonT(30), <3>1, <3>2, <3>3, <3>4
    <2> QED BY <1>0, <1>3, <2>1, StillDealtWith DEF AccessRunsOut, SweepGrants
  <1>4. ASSUME NEW c \in Conns, StartRevoke(c)
        PROVE  TokensDealtWith'
    <2>1. conn' = conn /\ \A d \in Conns : d # c => revoke'[d] = revoke[d]
      BY <1>4 DEF StartRevoke
    <2>2. conn[c].status = "disconnected" /\ conn[c].token # NoToken => revoke'[c].pc # "idle"
      BY <1>4 DEF StartRevoke
    <2> QED BY <1>0, <2>1, <2>2 DEF TokensDealtWith
  <1>5. ASSUME NEW c \in Conns, RevokeGrant(c)
        PROVE  TokensDealtWith'
    <2>1. conn' = conn /\ \A d \in Conns : revoke'[d] = revoke[d] \/ revoke'[d].pc = "delete"
      BY <1>5 DEF RevokeGrant, Revokes
    <2> QED BY <1>0, <2>1, StillDealtWith
  <1>6. ASSUME NEW c \in Conns, DeleteToken(c)
        PROVE  TokensDealtWith'
    <2>1. conn'[c].token = NoToken
          /\ \A d \in Conns : d # c => conn'[d] = conn[d] /\ revoke'[d] = revoke[d]
      BY <1>6 DEF DeleteToken, Rows
    <2> QED BY <1>0, <2>1 DEF TokensDealtWith
  <1>7. ASSUME NEW c \in Conns, RevokeFails(c)
        PROVE  TokensDealtWith'
    <2>1. conn' = conn /\ revoke'[c].asked
          /\ \A d \in Conns : d # c => revoke'[d] = revoke[d]
      BY <1>7 DEF RevokeFails
    <2> QED BY <1>0, <2>1 DEF TokensDealtWith
  <1>8. ASSUME NEW v \in Services,
               NeedsToken(v) \/ TradeGoogle(v) \/ LockRow(v) \/ RefreshRamp(v) \/ ServiceFails(v)
        PROVE  TokensDealtWith'
    BY <1>0, <1>8, StillDealtWith DEF NeedsToken, TradeGoogle, LockRow, RefreshRamp, ServiceFails
  <1>9. ASSUME NEW v \in Services, ExpireGoogle(v)
        PROVE  TokensDealtWith'
    <2>1. service[v].conn \in Conns
      BY <1>9 DEF ExpireGoogle
    <2> QED BY <1>0, <1>9, <2>1, MarkedRows, StillDealtWith DEF ExpireGoogle
  <1>10. ASSUME NEW v \in Services, CommitRefresh(v)
         PROVE  TokensDealtWith'
    <2>1. PICK c \in Conns : c = service[v].conn
      BY <1>10 DEF CommitRefresh
    <2>2. Usable(c)
      BY <1>10, <2>1 DEF CommitRefresh, LockInv, Holding
    <2>3. conn'[c].status \in {conn[c].status, "expired"}
          /\ \A d \in Conns : d # c => conn'[d] = conn[d]
      BY <1>10, <2>1 DEF CommitRefresh, MarkedExpired, Rows
    <2> QED BY <1>0, <1>10, <2>2, <2>3, StillDealtWith DEF CommitRefresh, Usable
  <1>11. CASE (\E g \in GrantIds : GrantAges(g)) \/ UNCHANGED connectionsVars
    BY <1>0, <1>11, StillDealtWith DEF GrantAges, connectionsVars
  <1> QED
    BY <1>1, <1>2, <1>3, <1>4, <1>5, <1>6, <1>7, <1>8, <1>9, <1>10, <1>11
    DEF ConnectionsNext, ConnectionStep, ServiceStep

-----------------------------------------------------------------------------
(* Rotating tokens                                                         *)

\* A row's token and the grant of a consent flow are of grants the user gave.
GivenGrants ==
    \A c \in Conns :
        /\ conn[c].token.grant = 0 => conn[c].token = NoToken
        /\ conn[c].token.grant # 0 => grant[conn[c].token.grant].owner # "none"
        /\ flow[c].pc # "none" => flow[c].grant # 0 /\ grant[flow[c].grant].owner # "none"

\* Nobody has used the grant of a consent flow before it is on the row.
FreshGrants ==
    \A c \in Conns :
        Rotates /\ flow[c].pc # "none" =>
            grant[flow[c].grant].version = 0 /\ flow[c].grant # conn[c].token.grant

\* Who refreshes does so with the row's own token, and commits what he got for it.
ReadUnderLock ==
    \A v \in Services :
        /\ service[v].pc = "refresh" =>
              service[v].token = conn[service[v].conn].token /\ service[v].token.grant # 0
        /\ service[v].pc = "commit" =>
              /\ service[v].token.grant # 0
              /\ service[v].token.grant = conn[service[v].conn].token.grant
              /\ service[v].token.version = grant[service[v].token.grant].version

Committing(c) == \E v \in Services : service[v].pc = "commit" /\ service[v].conn = c

\* The row's token is the provider's, or its successor is about to be committed, or
\* was lost.
CurrentTokens ==
    \A c \in Conns :
        Rotates /\ conn[c].token.grant # 0 =>
            \/ ~ grant[conn[c].token.grant].live \/ conn[c].token.grant \in unsaved
            \/ conn[c].token.version = grant[conn[c].token.grant].version
            \/ Committing(c)

RotationInv == GivenGrants /\ FreshGrants /\ ReadUnderLock /\ CurrentTokens /\ NeverReplayed

LEMMA RotationBegins == ConnectionsInit => RotationInv
  BY DEF ConnectionsInit, RotationInv, GivenGrants, FreshGrants, ReadUnderLock, CurrentTokens,
      NeverReplayed, NoRow, NoToken, NoFlow, NoUse

\* Of the connections that rotate there is one, and its row has one holder.
LEMMA OneHolderOfAGrant ==
    ASSUME TypeInv, LockInv, NEW v \in Services, Holding(v)
    PROVE  /\ Rotates /\ service[v].conn = "ramp" /\ Conns = {"ramp"} /\ rowLock["ramp"] = v
           /\ \A w \in Services : w # v => ~ Holding(w)
  BY DEF TypeInv, LockInv, Holding, Conns

\* A step that gives no grant and rotates no token.
LEMMA RotationStays ==
    ASSUME TypeInv, RotationInv, Conns' = Conns, Rotates' <=> Rotates,
           \A c \in Conns : conn'[c].token = conn[c].token,
           \A g \in GrantIds : /\ grant'[g].owner = grant[g].owner
                               /\ grant'[g].version = grant[g].version
                               /\ grant'[g].live => grant[g].live,
           \A c \in Conns : flow'[c].grant = flow[c].grant
                            /\ (flow'[c].pc # "none" => flow[c].pc # "none"),
           \A v \in Services : service'[v] # service[v] =>
               /\ service[v].pc # "commit" /\ service'[v].pc # "commit"
               /\ service'[v].pc = "refresh" =>
                     /\ service'[v].token = conn[service'[v].conn].token
                     /\ service'[v].token.grant # 0 /\ service'[v].conn \in Conns,
           unsaved' = unsaved, replayed' = replayed
    PROVE  RotationInv'
  <1> USE DEF RotationInv
  <1>1. /\ \A c \in Conns : conn[c].token.grant # 0 => conn[c].token.grant \in GrantIds
        /\ \A c \in Conns : flow[c].pc # "none" => flow[c].grant \in GrantIds
        /\ \A v \in Services : service[v].token.grant # 0 => service[v].token.grant \in GrantIds
    BY DEF TypeInv, Rows, Tokens, Flows, Uses, GivenGrants
  <1>2. GivenGrants' /\ FreshGrants'
    BY <1>1 DEF GivenGrants, FreshGrants
  <1>3. ReadUnderLock'
    <2>1. ASSUME NEW v \in Services, service'[v] = service[v]
          PROVE  /\ service[v].pc = "refresh" =>
                       service[v].token = conn'[service[v].conn].token
                          /\ service[v].token.grant # 0
                 /\ service[v].pc = "commit" =>
                       /\ service[v].token.grant # 0
                       /\ service[v].token.grant = conn'[service[v].conn].token.grant
                       /\ service[v].token.version = grant'[service[v].token.grant].version
      <3>1. service[v].pc # "idle" => service[v].conn \in Conns
        BY DEF TypeInv
      <3> QED BY <1>1, <3>1 DEF ReadUnderLock
    <2> QED BY <2>1 DEF ReadUnderLock
  <1>4. \A c \in Conns : Committing(c) => Committing(c)'
    BY DEF Committing
  <1>5. CurrentTokens'
    BY <1>1, <1>4 DEF CurrentTokens
  <1>6. NeverReplayed'
    BY DEF NeverReplayed
  <1> QED BY <1>2, <1>3, <1>5, <1>6

LEMMA RotationLasts ==
    ASSUME TypeInv, LockInv, RotationInv, [ConnectionsNext]_connectionsVars
    PROVE  RotationInv'
  <1>0. Conns' = Conns /\ (Rotates' <=> Rotates) /\ Services \cap {"free", "revoker"} = {}
    BY IssuerStays, ConnectionsAssumption
  <1>1. ASSUME NEW c \in Conns, ExchangeCode(c)
        PROVE  RotationInv'
    <2>1. PICK g \in GrantIds :
             /\ grant[g] = NoGrant
             /\ grant' = [grant EXCEPT ![g] = [NoGrant EXCEPT !.owner = c, !.live = TRUE]]
             /\ flow' = [flow EXCEPT ![c] = [NoFlow EXCEPT !.pc = "read", !.grant = g]]
      BY <1>1 DEF ExchangeCode
    <2>2. /\ grant'[g].owner = c /\ grant'[g].version = 0 /\ grant[g].owner = "none"
          /\ grant[g].version = 0
          /\ \A h \in GrantIds : h # g => grant'[h] = grant[h]
      BY <2>1 DEF NoGrant, TypeInv
    <2>3. /\ flow'[c].pc = "read" /\ flow'[c].grant = g
          /\ \A d \in Conns : d # c => flow'[d] = flow[d]
      BY <2>1 DEF NoFlow, TypeInv
    <2>4. g # 0 /\ c # "none" /\ UNCHANGED <<conn, service, unsaved, replayed>>
      BY <1>1, ConnectionsAssumption DEF ExchangeCode, Conns
    <2>5. /\ \A d \in Conns : conn[d].token.grant \in GrantIds \cup {0}
          /\ \A d \in Conns : flow[d].grant \in GrantIds \cup {0}
          /\ \A v \in Services : service[v].pc # "idle" => service[v].conn \in Conns
      BY DEF TypeInv, Rows, Tokens, Flows
    <2>6. \A d \in Conns : conn[d].token.grant # g
      BY <2>2, <2>4 DEF RotationInv, GivenGrants
    <2>7. \A d \in Conns : d # c /\ flow[d].pc # "none" => flow[d].grant # g
      BY <2>2, <2>4 DEF RotationInv, GivenGrants
    <2>8. GivenGrants'
      BY <1>0, <2>2, <2>3, <2>4, <2>5 DEF RotationInv, GivenGrants
    <2>9. FreshGrants'
      BY <1>0, <2>2, <2>3, <2>4, <2>5, <2>6 DEF RotationInv, FreshGrants, GivenGrants
    <2>10. ReadUnderLock'
      BY <2>2, <2>4, <2>5, <2>6 DEF RotationInv, ReadUnderLock
    <2>11. CurrentTokens'
      BY <1>0, <2>2, <2>4, <2>5, <2>6 DEF RotationInv, CurrentTokens, Committing
    <2> QED BY <2>4, <2>8, <2>9, <2>10, <2>11 DEF RotationInv, NeverReplayed
  <1>2. ASSUME NEW c \in Conns, SaveConnection(c)
        PROVE  RotationInv'
    <2>1. /\ flow[c].pc = "save" /\ rowLock[c] = "free"
          /\ flow'[c].pc = "none" /\ conn'[c].token = [grant |-> flow[c].grant, version |-> 0]
          /\ \A d \in Conns : d # c => flow'[d] = flow[d] /\ conn'[d] = conn[d]
          /\ UNCHANGED <<grant, service, unsaved, replayed>>
      BY <1>2 DEF SaveConnection, NoFlow, TypeInv
    <2>2. flow[c].grant # 0 /\ grant[flow[c].grant].owner # "none"
      BY <2>1 DEF RotationInv, GivenGrants
    <2>3. Rotates => grant[flow[c].grant].version = 0
      BY <2>1 DEF RotationInv, FreshGrants
    <2>4. \A v \in Services : service[v].pc \in {"refresh", "commit"} =>
                               service[v].conn \in Conns /\ service[v].conn # c
      BY <1>0, <2>1 DEF LockInv, Holding, TypeInv
    <2>5. GivenGrants' /\ FreshGrants'
      BY <1>0, <2>1, <2>2 DEF RotationInv, GivenGrants, FreshGrants
    <2>6. ReadUnderLock'
      BY <2>1, <2>4 DEF RotationInv, ReadUnderLock
    <2>7. CurrentTokens'
      BY <1>0, <2>1, <2>3 DEF RotationInv, CurrentTokens, Committing
    <2> QED BY <2>1, <2>5, <2>6, <2>7 DEF RotationInv, NeverReplayed
  <1>3. ASSUME NEW c \in Conns, FindExisting(c)
        PROVE  RotationInv'
    <2>1. \A d \in Conns : flow'[d].grant = flow[d].grant
                         /\ (flow'[d].pc # "none" => flow[d].pc # "none")
      <3>1. PICK found \in BOOLEAN : found <=> conn[c].status # "none"
        OBVIOUS
      <3>2. flow' = [flow EXCEPT ![c].pc = "save", ![c].found = found] /\ flow[c].pc = "read"
        BY <1>3, <3>1 DEF FindExisting
      <3> QED BY <3>2 DEF TypeInv, Flows
    <2> QED BY <1>0, <1>3, <2>1, RotationStays DEF FindExisting
  <1>4. ASSUME NEW c \in Conns, Disconnect(c) \/ AccessRunsOut(c) \/ SweepGrants(c)
        PROVE  RotationInv'
    <2>1. \A d \in Conns : /\ [conn EXCEPT ![c].access = FALSE][d].token = conn[d].token
                           /\ MarkedExpired(c)[d].token = conn[d].token
      BY MarkedRows DEF TypeInv, Rows
    <2>2. \A x \in {"disconnected", "expiring"} :
             \A d \in Conns : [conn EXCEPT ![c].status = x][d].token = conn[d].token
      BY DEF TypeInv, Rows
    <2>3. conn' \in {[conn EXCEPT ![c].access = FALSE], MarkedExpired(c),
                     [conn EXCEPT ![c].status = "disconnected"],
                     [conn EXCEPT ![c].status = "expiring"]}
      BY <1>4 DEF Disconnect, AccessRunsOut, SweepGrants
    <2>4. \A d \in Conns : conn'[d].token = conn[d].token
      BY <2>1, <2>2, <2>3
    <2> QED BY <1>0, <1>4, <2>4, RotationStays DEF Disconnect, AccessRunsOut, SweepGrants
  <1>5. ASSUME NEW c \in Conns, StartRevoke(c) \/ RevokeFails(c)
        PROVE  RotationInv'
    BY <1>0, <1>5, RotationStays DEF StartRevoke, RevokeFails
  <1>6. ASSUME NEW c \in Conns, RevokeGrant(c)
        PROVE  RotationInv'
    <2>1. \A g \in GrantIds : /\ [grant[g] EXCEPT !.live = FALSE].owner = grant[g].owner
                              /\ [grant[g] EXCEPT !.live = FALSE].version = grant[g].version
                              /\ ~ [grant[g] EXCEPT !.live = FALSE].live
      BY DEF TypeInv, Grants
    <2>2. \A g \in GrantIds : grant'[g] \in {grant[g], [grant[g] EXCEPT !.live = FALSE]}
      BY <1>6 DEF RevokeGrant
    <2>3. \A g \in GrantIds : /\ grant'[g].owner = grant[g].owner
                              /\ grant'[g].version = grant[g].version
                              /\ grant'[g].live => grant[g].live
      BY <2>1, <2>2
    <2> QED BY <1>0, <1>6, <2>3, RotationStays DEF RevokeGrant
  <1>7. ASSUME NEW c \in Conns, DeleteToken(c)
        PROVE  RotationInv'
    <2>1. /\ conn'[c].token = NoToken /\ \A d \in Conns : d # c => conn'[d] = conn[d]
          /\ UNCHANGED <<grant, flow, service, unsaved, replayed>>
      BY <1>7 DEF DeleteToken, TypeInv, Rows
    <2>2. rowLock[c] = "revoker"
      BY <1>7 DEF DeleteToken, LockInv
    <2>3. \A v \in Services : service[v].pc \in {"refresh", "commit"} =>
                               service[v].conn \in Conns /\ service[v].conn # c
      BY <1>0, <2>2 DEF LockInv, Holding, TypeInv
    <2>4. NoToken.grant = 0
      BY DEF NoToken
    <2>5. GivenGrants' /\ FreshGrants'
      BY <1>0, <2>1, <2>4 DEF RotationInv, GivenGrants, FreshGrants
    <2>6. ReadUnderLock'
      BY <2>1, <2>3 DEF RotationInv, ReadUnderLock
    <2>7. CurrentTokens'
      BY <1>0, <2>1, <2>4 DEF RotationInv, CurrentTokens, Committing
    <2> QED BY <2>1, <2>5, <2>6, <2>7 DEF RotationInv, NeverReplayed
  <1>8. ASSUME NEW v \in Services, NeedsToken(v) \/ TradeGoogle(v)
        PROVE  RotationInv'
    <2>1. /\ service[v].pc # "commit"
          /\ service'[v].pc \in {"idle", "expire", "lock", "trade"}
          /\ \A w \in Services : w # v => service'[w] = service[w]
      BY <1>8 DEF NeedsToken, TradeGoogle, TypeInv, Uses
    <2> QED BY <1>0, <1>8, <2>1, RotationStays DEF NeedsToken, TradeGoogle
  <1>9. ASSUME NEW v \in Services, ExpireGoogle(v)
        PROVE  RotationInv'
    <2>1. /\ service[v].pc = "expire" /\ service'[v].pc = "idle" /\ service[v].conn \in Conns
          /\ \A w \in Services : w # v => service'[w] = service[w]
      BY <1>9 DEF ExpireGoogle, TypeInv, NoUse
    <2>2. \A d \in Conns : conn'[d].token = conn[d].token
      BY <1>9, <2>1, MarkedRows DEF ExpireGoogle, TypeInv
    <2> QED BY <1>0, <1>9, <2>1, <2>2, RotationStays DEF ExpireGoogle

  <1>10. ASSUME NEW v \in Services, LockRow(v)
         PROVE  RotationInv'
    <2>1. /\ service[v].pc = "lock" /\ service[v].conn \in Conns
          /\ \A w \in Services : w # v => service'[w] = service[w]
      BY <1>10 DEF LockRow, TypeInv
    <2>2. CASE service'[v].pc = "refresh"
      <3>1. /\ service' = [service EXCEPT ![v].pc = "refresh",
                                          ![v].token = conn[service[v].conn].token]
            /\ conn[service[v].conn].token # NoToken
        BY <1>10, <2>2 DEF LockRow, NoUse, TypeInv
      <3>2. /\ service'[v].token = conn[service[v].conn].token
            /\ service'[v].conn = service[v].conn
        BY <3>1 DEF TypeInv, Uses
      <3>3. service'[v].token.grant # 0
        BY <2>1, <3>1, <3>2 DEF RotationInv, GivenGrants
      <3> QED BY <1>0, <1>10, <2>1, <2>2, <3>2, <3>3, RotationStays DEF LockRow
    <2>3. CASE service'[v].pc # "refresh"
      <3>1. service'[v].pc = "idle"
        BY <1>10, <2>3 DEF LockRow, NoUse, TypeInv, Uses
      <3> QED BY <1>0, <1>10, <2>1, <3>1, RotationStays DEF LockRow
    <2> QED BY <2>2, <2>3
  <1>11. ASSUME NEW v \in Services, RefreshRamp(v)
         PROVE  RotationInv'
    <2>1. PICK g : g = service[v].token.grant
      OBVIOUS
    <2>2. Holding(v) /\ service[v].pc = "refresh"
      BY <1>11 DEF RefreshRamp, Holding
    <2>3. /\ Rotates /\ Conns = {"ramp"} /\ service[v].conn = "ramp"
          /\ \A w \in Services : w # v => ~ Holding(w)
      BY <2>2, OneHolderOfAGrant
    <2>4. /\ g \in GrantIds /\ g # 0 /\ service[v].token = conn["ramp"].token
          /\ conn["ramp"].token.grant = g
      BY <2>1, <2>2, <2>3 DEF RotationInv, ReadUnderLock, TypeInv, Uses, Tokens
    <2>5. \A w \in Services : w # v => service'[w] = service[w]
      BY <1>11 DEF RefreshRamp, TypeInv, Uses, NoUse
    <2>6. UNCHANGED <<conn, flow, unsaved>>
      BY <1>11 DEF RefreshRamp
    <2>7. /\ flow["ramp"].grant \in GrantIds \cup {0}
          /\ flow["ramp"].pc # "none" => flow["ramp"].grant # g
      BY <2>3, <2>4 DEF RotationInv, FreshGrants, TypeInv, Flows
    <2>8. CASE Fits(service[v].token)
      <3>1. /\ grant' = [grant EXCEPT ![g].version = @ + 1]
            /\ service' = [service EXCEPT ![v].pc = "commit", ![v].token.version = @ + 1]
            /\ replayed' = replayed
        BY <1>11, <2>1, <2>8 DEF RefreshRamp
      <3>2. /\ grant'[g].version = grant[g].version + 1 /\ grant'[g].owner = grant[g].owner
            /\ \A h \in GrantIds : h # g => grant'[h] = grant[h]
        BY <2>4, <3>1 DEF TypeInv, Grants
      <3>3. /\ service'[v].pc = "commit" /\ service'[v].conn = "ramp"
            /\ service'[v].token.grant = g
            /\ service'[v].token.version = service[v].token.version + 1
        BY <2>1, <2>3, <3>1 DEF TypeInv, Uses, Tokens
      <3>4. service[v].token.version = grant[g].version
        BY <2>1, <2>8 DEF Fits
      <3>5. GivenGrants' /\ FreshGrants'
        BY <1>0, <2>3, <2>4, <2>6, <2>7, <3>2 DEF RotationInv, GivenGrants, FreshGrants
      <3>6. ReadUnderLock'
        BY <2>3, <2>4, <2>5, <2>6, <3>2, <3>3, <3>4 DEF ReadUnderLock, Holding
      <3>7. CurrentTokens'
        BY <1>0, <2>3, <3>3 DEF CurrentTokens, Committing
      <3> QED BY <2>6, <3>1, <3>5, <3>6, <3>7 DEF RotationInv, NeverReplayed
    <2>9. CASE ~ Fits(service[v].token)
      <3>1. /\ grant' = [grant EXCEPT ![g].live = FALSE]
            /\ service' = [service EXCEPT ![v].pc = "refused"]
            /\ replayed' = IF grant[g].live THEN replayed \cup {g} ELSE replayed
        BY <1>11, <2>1, <2>9 DEF RefreshRamp
      <3>2. grant[g].live => g \in unsaved
        <4>1. grant[g].live => service[v].token.version # grant[g].version
          BY <2>1, <2>4, <2>9 DEF Fits
        <4>2. ~ Committing("ramp")
          BY <2>2, <2>3 DEF Committing, Holding
        <4> QED BY <2>3, <2>4, <4>1, <4>2 DEF RotationInv, CurrentTokens
      <3>3. \A h \in GrantIds : /\ grant'[h].version = grant[h].version
                                /\ grant'[h].owner = grant[h].owner
        BY <3>1 DEF TypeInv, Grants
      <3>4. ~ grant'[g].live
        BY <2>4, <3>1 DEF TypeInv, Grants
      <3>5. service'[v].pc = "refused"
        BY <3>1 DEF TypeInv, Uses
      <3>6. GivenGrants' /\ FreshGrants'
        BY <1>0, <2>3, <2>4, <2>6, <2>7, <3>3 DEF RotationInv, GivenGrants, FreshGrants
      <3>7. ReadUnderLock'
        BY <2>3, <2>5, <3>5 DEF ReadUnderLock, Holding
      <3>8. CurrentTokens'
        BY <1>0, <2>3, <2>4, <2>6, <3>4 DEF CurrentTokens
      <3>9. NeverReplayed'
        BY <2>6, <3>1, <3>2 DEF RotationInv, NeverReplayed
      <3> QED BY <3>6, <3>7, <3>8, <3>9 DEF RotationInv
    <2> QED BY <2>8, <2>9
  <1>12. ASSUME NEW v \in Services, CommitRefresh(v)
         PROVE  RotationInv'
    <2>1. Holding(v)
      BY <1>12 DEF CommitRefresh, Holding
    <2>2. /\ Rotates /\ Conns = {"ramp"} /\ service[v].conn = "ramp"
          /\ \A w \in Services : w # v => ~ Holding(w)
      BY <2>1, OneHolderOfAGrant
    <2>3. /\ UNCHANGED <<grant, flow, unsaved, replayed>> /\ service'[v].pc = "idle"
          /\ \A w \in Services : w # v => service'[w] = service[w]
      BY <1>12 DEF CommitRefresh, TypeInv, NoUse
    <2>4. ReadUnderLock'
      BY <2>2, <2>3 DEF ReadUnderLock, Holding
    <2>5. CASE service[v].pc = "commit"
      <3>1. conn'["ramp"].token = service[v].token
        <4>1. conn' = [conn EXCEPT !["ramp"].token = service[v].token, !["ramp"].access = TRUE]
          BY <1>12, <2>2, <2>5 DEF CommitRefresh
        <4> QED BY <2>2, <4>1 DEF TypeInv, Rows
      <3>2. /\ service[v].token.grant # 0
            /\ service[v].token.grant = conn["ramp"].token.grant
            /\ service[v].token.version = grant[service[v].token.grant].version
        BY <2>2, <2>5 DEF RotationInv, ReadUnderLock
      <3>3. GivenGrants' /\ FreshGrants'
        BY <1>0, <2>2, <2>3, <3>1, <3>2 DEF RotationInv, GivenGrants, FreshGrants
      <3>4. CurrentTokens'
        BY <1>0, <2>2, <2>3, <3>1, <3>2 DEF CurrentTokens
      <3> QED BY <2>3, <2>4, <3>3, <3>4 DEF RotationInv, NeverReplayed
    <2>6. CASE service[v].pc = "refused"
      <3>1. conn'["ramp"].token = conn["ramp"].token
        <4>1. conn' = MarkedExpired("ramp")
          BY <1>12, <2>2, <2>6 DEF CommitRefresh
        <4> QED BY <2>2, <4>1, MarkedRows DEF TypeInv
      <3>2. GivenGrants' /\ FreshGrants'
        BY <1>0, <2>2, <2>3, <3>1 DEF RotationInv, GivenGrants, FreshGrants
      <3>3. ~ Committing("ramp")
        BY <2>2, <2>6 DEF Committing, Holding
      <3>4. CurrentTokens'
        BY <1>0, <2>2, <2>3, <3>1, <3>3 DEF RotationInv, CurrentTokens
      <3> QED BY <2>3, <2>4, <3>2, <3>4 DEF RotationInv, NeverReplayed
    <2> QED BY <1>12, <2>5, <2>6 DEF CommitRefresh
  <1>13. ASSUME NEW v \in Services, ServiceFails(v)
         PROVE  RotationInv'
    <2>1. /\ UNCHANGED <<conn, grant, flow, replayed>> /\ service'[v].pc = "idle"
          /\ \A w \in Services : w # v => service'[w] = service[w]
          /\ unsaved \subseteq unsaved'
          /\ service[v].pc = "commit" /\ service[v].token.grant \in GrantIds
                => service[v].token.grant \in unsaved'
      BY <1>13 DEF ServiceFails, TypeInv, NoUse
    <2>2. ReadUnderLock'
      BY <2>1 DEF RotationInv, ReadUnderLock
    <2>3. ASSUME NEW c \in Conns, Committing(c), ~ Committing(c)', Rotates
          PROVE  conn[c].token.grant \in unsaved'
      <3>1. service[v].pc = "commit" /\ service[v].conn = c
        BY <2>1, <2>3 DEF Committing
      <3>2. service[v].token.grant = conn[c].token.grant /\ service[v].token.grant \in GrantIds
        BY <3>1 DEF RotationInv, ReadUnderLock, TypeInv, Uses, Tokens
      <3> QED BY <2>1, <3>1, <3>2
    <2>4. CurrentTokens'
      BY <1>0, <2>1, <2>3 DEF RotationInv, CurrentTokens
    <2>5. GivenGrants' /\ FreshGrants'
      BY <1>0, <2>1 DEF RotationInv, GivenGrants, FreshGrants
    <2> QED BY <2>1, <2>2, <2>4, <2>5 DEF RotationInv, NeverReplayed
  <1>14. ASSUME NEW g \in GrantIds, GrantAges(g)
         PROVE  RotationInv'
    <2>1. PICK young \in BOOLEAN : young <=> grant[g].age = 0
      OBVIOUS
    <2>2. grant' = [grant EXCEPT ![g].age = @ + 1, ![g].live = young] /\ grant[g].live
      BY <1>14, <2>1 DEF GrantAges
    <2>3. \A h \in GrantIds : /\ grant'[h].owner = grant[h].owner
                              /\ grant'[h].version = grant[h].version
                              /\ h # g => grant'[h] = grant[h]
      BY <2>2 DEF TypeInv, Grants
    <2> QED BY <1>0, <1>14, <2>2, <2>3, RotationStays DEF GrantAges
  <1>15. CASE UNCHANGED connectionsVars
    BY <1>0, <1>15, RotationStays DEF connectionsVars
  <1> QED
    BY <1>1, <1>2, <1>3, <1>4, <1>5, <1>6, <1>7, <1>8, <1>9, <1>10, <1>11, <1>12, <1>13, <1>14,
       <1>15 DEF ConnectionsNext, ConnectionStep, ServiceStep

\* In every behaviour a token is replayed only when its successor was lost
\* (rotating-tokens.ts), a disconnected account's grant is dealt with, and revoking it
\* spares the grants in use (revoke.ts).
THEOREM GrantsAreKept == ConnectionsSpec => []GrantsKept
  <1>1. RotationInv /\ SparedInv /\ TokensDealtWith => GrantsKept
    BY DEF RotationInv, SparedInv, GrantsKept, GrantsSafe
  <1> QED
    BY TypesBegin, TypesLast, LocksBegin, LocksLast, SparedBegins, SparedLasts, DealtWithLasts,
       RotationBegins, RotationLasts, <1>1, PTL DEF ConnectionsSpec

-----------------------------------------------------------------------------
(* Leaving.  LeavingKept is not inductive: that nothing outlives the row rests on what the
   rows tell (RowsTell) and on what each worker has dealt with (StepsDone); that others keep
   their file, on when a worker looked for their rows (SeenUnshared).                       *)

Leavers ==
    [at : {"idle", "goodbye", "computer", "grant", "site", "list", "blobs", "row"},
     attempt : Nat, toDelete : BOOLEAN]

LeavingTypes ==
    /\ account \in [state : {"none", "live", "deleting", "gone"},
                    sub : {"none", "theirs", "another"}]
    /\ things \in [Kinds -> {"none", "there", "gone"}] /\ known \subseteq Kinds
    /\ shared \in {"no", "put", "named"}
    /\ leaveJob \in [state : {"none", "queued", "leased", "lapsed", "failed", "done"},
                     attempts : Nat]
    /\ leavers \in [LeaveSlots -> Leavers]

\* An account is deleted because its user asked for it, and only then.
AskedToLeave ==
    /\ leaveJob.state # "none" => Leaving
    /\ \A w \in LeaveSlots : leavers[w].at # "idle" => Leaving

\* What is there of the user's has a row that tells of it, as long as there are rows;
\* but for a file that is somebody else's too.
RowsTell ==
    account.state # "gone" =>
        \A kind \in Kinds : things[kind] = "there" =>
            kind \in known \/ (kind = "blob" /\ shared # "no")

\* What a deletion has dealt with is gone, but for what came later.
DealtWith(w, kind) ==
    \/ kind = "computer" /\ leavers[w].at \in {"grant", "site", "list", "blobs", "row"}
    \/ kind = "grant" /\ leavers[w].at \in {"site", "list", "blobs", "row"}
    \/ kind = "site" /\ leavers[w].at \in {"list", "blobs", "row"}
    \/ kind = "blob" /\ \/ leavers[w].at = "row"
                        \/ leavers[w].at = "blobs" /\ ~leavers[w].toDelete

Excused(kind) == kind \in late \/ (kind = "blob" /\ shared # "no")

StepsDone ==
    \A w \in LeaveSlots, kind \in Kinds :
        DealtWith(w, kind) /\ things[kind] = "there" => Excused(kind)

\* A file is put down for deletion only by one that saw nobody else's row name it.
SeenUnshared ==
    \A w \in LeaveSlots :
        leavers[w].toDelete => /\ leavers[w].at # "idle"
                               /\ shared = "named" => "shared" \in late

\* Until the user asks to leave, nothing takes a file that somebody else has sent.
SharedStays == shared # "no" /\ ~Leaving => things["blob"] = "there"

LeavingInv ==
    /\ LeavingTypes /\ AskedToLeave /\ RowsTell /\ StepsDone /\ SeenUnshared /\ SharedStays
    /\ LeavingKept

-----------------------------------------------------------------------------
LEMMA LeavingBegins == LeavingInit => LeavingInv
  BY DEF LeavingInit, LeavingInv, LeavingTypes, AskedToLeave, RowsTell, StepsDone, SeenUnshared,
         SharedStays, LeavingKept, NothingOldOutlives, OthersKeepTheirs, DoneMeansGone, DealtWith,
         Leavers, IdleLeaver, Leaving, Kinds

\* What may happen beside a deletion: the account goes on towards its end, things come to be
\* there, late if it is under way, and somebody else sends the file.
BesideIt ==
    /\ UNCHANGED <<leaveJob, leavers>>
    /\ account'.state = account.state \/ (account.state = "none" /\ account'.state = "live")
    /\ late \subseteq late' /\ known \subseteq known'
    /\ shared' # shared =>
          /\ shared' # "no" /\ (shared = "no" => shared' = "put" /\ things'["blob"] = "there")
          /\ Leaving => "shared" \in late'
    /\ \A kind \in Kinds : things'[kind] # things[kind] =>
          /\ things'[kind] = "there"
          /\ \/ /\ kind \in known' /\ account'.state # "gone"
                /\ Leaving => kind \in late'
             \/ kind = "blob" /\ shared' # "no"

LEMMA LeavingGoesOn ==
    ASSUME LeavingInv, LeavingTypes', BesideIt
    PROVE  LeavingInv'
  <1> USE DEF LeavingTypes, Leavers, BesideIt
  <1>1. Leaving' = Leaving
    BY DEF LeavingInv, Leaving
  <1>2. AskedToLeave'
    BY <1>1 DEF LeavingInv, AskedToLeave
  <1>3. RowsTell'
    BY DEF LeavingInv, RowsTell
  <1>4. \A w \in LeaveSlots, kind \in Kinds : DealtWith(w, kind)' => DealtWith(w, kind) /\ Leaving
    BY DEF LeavingInv, AskedToLeave, DealtWith, Leaving
  <1>5. \A kind \in Kinds : Excused(kind) => Excused(kind)'
    BY DEF Excused
  <1>6. \A kind \in Kinds : things'[kind] # things[kind] /\ Leaving => Excused(kind)'
    BY DEF Excused
  <1>7. StepsDone'
    BY <1>4, <1>5, <1>6 DEF LeavingInv, StepsDone
  <1>8. SeenUnshared'
    BY DEF LeavingInv, SeenUnshared, AskedToLeave
  <1>9. SharedStays'
    BY <1>1 DEF LeavingInv, SharedStays, Kinds
  <1>10. NothingOldOutlives'
    BY <1>5, <1>6 DEF LeavingInv, LeavingKept, NothingOldOutlives, Leaving, Excused
  <1>11. OthersKeepTheirs'
    BY DEF LeavingInv, LeavingKept, OthersKeepTheirs, SharedStays, Kinds
  <1>12. DoneMeansGone'
    BY DEF LeavingInv, LeavingKept, DoneMeansGone
  <1> QED BY <1>2, <1>3, <1>7, <1>8, <1>9, <1>10, <1>11, <1>12 DEF LeavingInv, LeavingKept

-----------------------------------------------------------------------------
\* What one step of a worker on the deletion may change: it takes things down, none of them
\* somebody else's, and says that it dealt with something only if that is gone.
TakesOn(w) ==
    /\ leavers[w].at # "idle"
    /\ \A v \in LeaveSlots : v # w => leavers'[v] = leavers[v]
    /\ leavers'[w].toDelete => leavers'[w].at # "idle"
    /\ leavers'[w].toDelete => leavers[w].toDelete \/ shared # "named"
    /\ leaveJob'.state = "done" => account'.state = "gone"
    /\ account'.state = account.state \/ account'.state = "gone"
    /\ UNCHANGED <<shared, late>>
    /\ \/ known' = known \/ account'.state = "gone"
       \/ \A kind \in known \ known' : things'[kind] # "there"
    /\ \A kind \in Kinds : things'[kind] # things[kind] =>
          /\ things'[kind] = "gone"
          /\ kind = "blob" => shared # "named" \/ "shared" \in late
    /\ \A kind \in Kinds : DealtWith(w, kind)' /\ things'[kind] = "there" =>
          DealtWith(w, kind) \/ Excused(kind)
    /\ account'.state = "gone" /\ account.state # "gone" =>
          \A kind \in Kinds : DealtWith(w, kind)

LEMMA DeletionStep ==
    ASSUME LeavingInv, LeavingTypes', NEW w \in LeaveSlots, TakesOn(w)
    PROVE  LeavingInv'
  <1> USE DEF LeavingTypes, Leavers, TakesOn
  <1>1. Leaving /\ Leaving'
    BY DEF LeavingInv, AskedToLeave, Leaving
  <1>2. AskedToLeave'
    BY <1>1 DEF AskedToLeave
  <1>3. RowsTell'
    BY DEF LeavingInv, RowsTell
  <1>4. \A v \in LeaveSlots, kind \in Kinds : v # w => (DealtWith(v, kind)' <=> DealtWith(v, kind))
    BY DEF DealtWith
  <1>5. \A kind \in Kinds : Excused(kind)' <=> Excused(kind)
    BY DEF Excused
  <1>6. StepsDone'
    <2> SUFFICES ASSUME NEW v \in LeaveSlots, NEW kind \in Kinds,
                        DealtWith(v, kind)', things'[kind] = "there"
                 PROVE  Excused(kind)
      BY <1>5 DEF StepsDone
    <2>1. things[kind] = "there"
      OBVIOUS
    <2>2. CASE v = w
      BY <2>1, <2>2 DEF LeavingInv, StepsDone
    <2>3. CASE v # w
      BY <1>4, <2>1, <2>3 DEF LeavingInv, StepsDone
    <2> QED BY <2>2, <2>3
  <1>7. SeenUnshared'
    BY DEF LeavingInv, SeenUnshared
  <1>8. SharedStays'
    BY <1>1 DEF SharedStays
  <1>9. NothingOldOutlives'
    <2> SUFFICES ASSUME account'.state = "gone", NEW kind \in Kinds, things'[kind] = "there"
                 PROVE  Excused(kind)
      BY <1>5 DEF NothingOldOutlives, Excused
    <2>1. things[kind] = "there"
      OBVIOUS
    <2>2. CASE account.state = "gone"
      BY <2>1, <2>2 DEF LeavingInv, LeavingKept, NothingOldOutlives, Excused
    <2>3. CASE account.state # "gone"
      BY <2>1, <2>3 DEF LeavingInv, StepsDone
    <2> QED BY <2>2, <2>3
  <1>10. OthersKeepTheirs'
    BY DEF LeavingInv, LeavingKept, OthersKeepTheirs, Kinds
  <1>11. DoneMeansGone'
    BY DEF DoneMeansGone
  <1> QED BY <1>2, <1>3, <1>6, <1>7, <1>8, <1>9, <1>10, <1>11 DEF LeavingInv, LeavingKept

\* The types last.
LEMMA LeavingTypesLast ==
    ASSUME LeavingTypes, [LeavingNext]_leavingVars
    PROVE  LeavingTypes'
  <1> USE DEF LeavingTypes, Leavers
  <1>1. CASE UNCHANGED leavingVars
    BY <1>1 DEF leavingVars
  <1>2. ASSUME NEW i \in SignInSlots, FindUser(i)
        PROVE  LeavingTypes'
    <2>1. UNCHANGED <<account, things, known, shared, leaveJob, leavers>>
      BY <1>2, Zenon DEF FindUser
    <2> QED BY <2>1
  <1>3. ASSUME NEW i \in SignInSlots, SignIn(i)
        PROVE  LeavingTypes'
    <2>1. "computer" \in Kinds
      BY DEF Kinds
    <2> QED BY <1>3, <2>1 DEF SignIn, Requested
  <1>4. ASSUME NEW i \in SignInSlots,
               StartSession(i) \/ FindLinked(i) \/ \E h \in Logins : ClaimLogin(i, h)
        PROVE  LeavingTypes'
    BY <1>4 DEF StartSession, FindLinked, ClaimLogin
  <1>5. ASSUME NEW h \in Logins, TapsLogin(h)
        PROVE  LeavingTypes'
    BY <1>5 DEF TapsLogin
  <1>6. ASSUME NEW s, SignsOut(s) \/ RequestAccountDeletion(s)
        PROVE  LeavingTypes'
    BY <1>6 DEF SignsOut, RequestAccountDeletion
  <1>7. CASE LinksChat \/ WorkStarts \/ WorkEnds
    BY <1>7 DEF LinksChat, WorkStarts, WorkEnds
  <1>8. CASE OthersShare
    BY <1>8 DEF OthersShare
  <1>9. ASSUME NEW kind \in Kinds, Makes(kind)
        PROVE  LeavingTypes'
    BY <1>9 DEF Makes
  <1>10. ASSUME NEW w \in LeaveSlots,
                LeaveLapses(w) \/ LeaveFails(w) \/ DeleteRow(w) \/ AlreadyDeleted(w)
         PROVE  LeavingTypes'
    <2>1. IdleLeaver \in Leavers
      BY DEF IdleLeaver
    <2>2. leavers' \in [LeaveSlots -> Leavers] /\ shared' = shared
      BY <1>10, <2>1 DEF LeaveLapses, LeaveFails, DeleteRow, AlreadyDeleted, LeaverStill
    <2> QED BY <1>10, <2>2 DEF LeaveLapses, LeaveFails, DeleteRow, AlreadyDeleted
  <1>11. ASSUME NEW w \in LeaveSlots, LeaseLeave(w)
         PROVE  LeavingTypes'
    <2>1. PICK n \in Nat : n = leaveJob.attempts + 1
      OBVIOUS
    <2>2. PICK new \in Leavers : new = [at |-> "goodbye", attempt |-> n, toDelete |-> FALSE]
      BY <2>1
    <2>3. leavers' = [leavers EXCEPT ![w] = new] /\ leaveJob' = [state |-> "leased", attempts |-> n]
      BY <1>11, <2>1, <2>2 DEF LeaseLeave
    <2> QED BY <1>11, <2>3 DEF LeaseLeave, LeaverStill
  <1>12. ASSUME NEW w \in LeaveSlots, SayGoodbye(w) \/ DeleteBlobs(w)
         PROVE  LeavingTypes'
    BY <1>12 DEF SayGoodbye, DeleteBlobs, LeaverStill, Onward, Kinds
  <1>13. ASSUME NEW w \in LeaveSlots, NEW kind \in {"computer", "grant", "site"}, TakesDown(w, kind)
         PROVE  LeavingTypes'
    BY <1>13 DEF TakesDown, LeaverStill, Onward, NextStep, Kinds
  <1>14. ASSUME NEW w \in LeaveSlots, BlobsOnlyTheyUse(w)
         PROVE  LeavingTypes'
    <2>1. PICK found \in BOOLEAN : found <=> ("blob" \in known /\ shared # "named")
      OBVIOUS
    <2>2. PICK new \in Leavers :
            new = [at |-> "blobs", attempt |-> leavers[w].attempt, toDelete |-> found]
      OBVIOUS
    <2>3. leavers' = [leavers EXCEPT ![w] = new]
      BY <1>14, <2>1, <2>2 DEF BlobsOnlyTheyUse, ListsBlob
    <2>4. /\ LeaverStill /\ UNCHANGED leaveJob
          /\ UNCHANGED <<account, sessions, chat, things, known, leaveFaults>>
      BY <1>14, Zenon DEF BlobsOnlyTheyUse
    <2> QED BY <2>3, <2>4 DEF LeaverStill
  <1> QED
    BY <1>1, <1>2, <1>3, <1>4, <1>5, <1>6, <1>7, <1>8, <1>9, <1>10, <1>11, <1>12, <1>13, <1>14
    DEF LeavingNext, LeaverStep

-----------------------------------------------------------------------------
LEMMA LeavingLasts ==
    ASSUME LeavingInv, LeavingTypes', [LeavingNext]_leavingVars
    PROVE  LeavingInv'
  <1>0. LeavingTypes
    BY DEF LeavingInv
  <1>1. CASE UNCHANGED leavingVars
    <2>9. BesideIt
      BY <1>1 DEF BesideIt, leavingVars
    <2> QED BY <2>9, LeavingGoesOn
  <1>2. ASSUME NEW i \in SignInSlots, FindUser(i)
        PROVE  LeavingInv'
    <2>1. UNCHANGED <<account, things, known, shared, leaveJob, leavers, late>>
      BY <1>2, Zenon DEF FindUser
    <2>9. BesideIt
      BY <2>1 DEF BesideIt
    <2> QED BY <2>9, LeavingGoesOn
  <1>3. ASSUME NEW i \in SignInSlots, SignIn(i)
        PROVE  LeavingInv'
    <2>1. UNCHANGED <<shared, leaveJob, leavers>>
      BY <1>0, <1>3 DEF SignIn, LeavingTypes
    <2>2. account'.state = account.state \/ (account.state = "none" /\ account'.state = "live")
      <3>1. PICK state, sub : /\ state = IF signIns[i].at = "create" THEN "live" ELSE account.state
                              /\ sub = IF signIns[i].at = "enter" THEN account.sub ELSE "theirs"
        OBVIOUS
      <3>2. account' = [state |-> state, sub |-> sub] \/ account' = account
        BY <1>3, <3>1 DEF SignIn
      <3>3. account' # account /\ signIns[i].at = "create" => account.state = "none"
        BY <1>3 DEF SignIn
      <3>4. account'.state = state \/ account' = account
        BY <3>2
      <3> QED BY <3>1, <3>3, <3>4
    <2>3. late \subseteq late' /\ known \subseteq known'
      BY <1>3 DEF SignIn, Requested
    <2>4. ASSUME NEW kind \in Kinds, things'[kind] # things[kind]
          PROVE  /\ things'[kind] = "there" /\ kind \in known' /\ account'.state # "gone"
                 /\ Leaving => kind \in late'
      BY <1>0, <1>3, <2>2, <2>4 DEF SignIn, Requested, LeavingTypes, Kinds
    <2>9. BesideIt
      BY <2>1, <2>2, <2>3, <2>4 DEF BesideIt
    <2> QED BY <2>9, LeavingGoesOn
  <1>4. ASSUME NEW i \in SignInSlots,
               StartSession(i) \/ FindLinked(i) \/ \E h \in Logins : ClaimLogin(i, h)
        PROVE  LeavingInv'
    <2>1. UNCHANGED <<account, things, known, shared, leaveJob, leavers, late>>
      BY <1>4 DEF StartSession, FindLinked, ClaimLogin
    <2>9. BesideIt
      BY <2>1 DEF BesideIt
    <2> QED BY <2>9, LeavingGoesOn
  <1>5. CASE \/ \E h \in Logins : TapsLogin(h)
             \/ \E s \in sessions : SignsOut(s)
             \/ LinksChat \/ WorkStarts \/ WorkEnds
    <2>1. UNCHANGED <<account, things, known, shared, leaveJob, leavers, late>>
      BY <1>5 DEF TapsLogin, SignsOut, LinksChat, WorkStarts, WorkEnds
    <2>9. BesideIt
      BY <2>1 DEF BesideIt
    <2> QED BY <2>9, LeavingGoesOn
  <1>6. ASSUME NEW s \in sessions, RequestAccountDeletion(s)
        PROVE  LeavingInv'
    <2>1. /\ account.state = "live" /\ account'.state = "deleting"
          /\ leaveJob'.state = "queued"
          /\ UNCHANGED <<things, known, shared, leavers, late>>
      BY <1>6 DEF RequestAccountDeletion
    <2>2. ~Leaving /\ Leaving'
      BY <2>1 DEF Leaving
    <2>3. \A w \in LeaveSlots, kind \in Kinds : ~DealtWith(w, kind)'
      BY <2>1, <2>2 DEF LeavingInv, AskedToLeave, DealtWith
    <2> QED
      BY <2>1, <2>2, <2>3
      DEF LeavingInv, AskedToLeave, RowsTell, StepsDone, SeenUnshared, SharedStays, LeavingKept,
          NothingOldOutlives, OthersKeepTheirs, DoneMeansGone
  <1>7. CASE OthersShare
    <2>1. /\ UNCHANGED <<account, known, leaveJob, leavers>>
          /\ late \subseteq late' /\ (Leaving => "shared" \in late')
          /\ shared' # "no" /\ (shared = "no" => shared' = "put")
      BY <1>7 DEF OthersShare
    <2>2. /\ shared = "no" => things'["blob"] = "there"
          /\ \A kind \in Kinds : things'[kind] # things[kind] =>
                kind = "blob" /\ things'[kind] = "there"
      BY <1>0, <1>7 DEF OthersShare, Kinds, LeavingTypes
    <2>9. BesideIt
      BY <2>1, <2>2 DEF BesideIt
    <2> QED BY <2>9, LeavingGoesOn
  <1>8. ASSUME NEW kind \in Kinds, Makes(kind)
        PROVE  LeavingInv'
    <2>1. /\ UNCHANGED <<account, shared, leaveJob, leavers>> /\ account.state # "gone"
          /\ late \subseteq late' /\ known \subseteq known' /\ kind \in known'
          /\ Leaving => kind \in late'
      BY <1>8 DEF Makes
    <2>2. \A k \in Kinds : things'[k] # things[k] => k = kind /\ things'[k] = "there"
      BY <1>0, <1>8 DEF Makes, LeavingTypes
    <2>9. BesideIt
      BY <2>1, <2>2 DEF BesideIt
    <2> QED BY <2>9, LeavingGoesOn
  <1>9. ASSUME NEW w \in LeaveSlots, LeaseLeave(w)
        PROVE  LeavingInv'
    <2>1. /\ UNCHANGED <<account, things, known, shared, late>>
          /\ leaveJob.state \in {"queued", "lapsed"} /\ leaveJob'.state = "leased"
      BY <1>9 DEF LeaseLeave, LeaverStill
    <2>2. /\ leavers'[w].at = "goodbye" /\ ~leavers'[w].toDelete
          /\ \A v \in LeaveSlots : v # w => leavers'[v] = leavers[v]
      BY <1>0, <1>9 DEF LeaseLeave, LeavingTypes, Leavers
    <2>3. Leaving /\ Leaving'
      BY <2>1 DEF LeavingInv, AskedToLeave, Leaving
    <2>4. \A v \in LeaveSlots, kind \in Kinds : DealtWith(v, kind)' => DealtWith(v, kind)
      BY <2>2 DEF DealtWith
    <2> QED
      BY <2>1, <2>2, <2>3, <2>4
      DEF LeavingInv, AskedToLeave, RowsTell, StepsDone, SeenUnshared, SharedStays, LeavingKept,
          NothingOldOutlives, OthersKeepTheirs, DoneMeansGone, Excused
  <1>10. ASSUME NEW w \in LeaveSlots, LeaveLapses(w) \/ LeaveFails(w)
         PROVE  LeavingInv'
    <2>1. /\ UNCHANGED <<account, things, known, shared, late>>
          /\ leavers[w].at # "idle"
          /\ leaveJob'.state # "done" \/ leaveJob' = leaveJob
      BY <1>0, <1>10 DEF LeaveLapses, LeaveFails, LeaverStill, LeavingTypes
    <2>2. leavers' = leavers \/ leavers' = [leavers EXCEPT ![w] = IdleLeaver]
      BY <1>10 DEF LeaveLapses, LeaveFails
    <2>3. /\ \/ leavers'[w] = leavers[w]
             \/ leavers'[w].at = "idle" /\ ~leavers'[w].toDelete
          /\ \A v \in LeaveSlots : v # w => leavers'[v] = leavers[v]
      BY <1>0, <2>2 DEF IdleLeaver, LeavingTypes
    <2>4. Leaving /\ Leaving'
      BY <2>1, <2>3 DEF LeavingInv, AskedToLeave, Leaving
    <2>5. \A v \in LeaveSlots, kind \in Kinds : DealtWith(v, kind)' => DealtWith(v, kind)
      BY <2>3 DEF DealtWith
    <2> QED
      BY <2>1, <2>3, <2>4, <2>5
      DEF LeavingInv, AskedToLeave, RowsTell, StepsDone, SeenUnshared, SharedStays, LeavingKept,
          NothingOldOutlives, OthersKeepTheirs, DoneMeansGone, Excused
  <1>11. ASSUME NEW w \in LeaveSlots, SayGoodbye(w)
         PROVE  LeavingInv'
    <2>1. /\ leavers[w].at = "goodbye" /\ leavers' = [leavers EXCEPT ![w].at = "computer"]
          /\ UNCHANGED <<account, things, known, shared, late, leaveJob>>
      BY <1>11 DEF SayGoodbye, LeaverStill, Onward
    <2>2. /\ leavers'[w].at = "computer" /\ leavers'[w].toDelete = leavers[w].toDelete
          /\ \A v \in LeaveSlots : v # w => leavers'[v] = leavers[v]
      BY <1>0, <2>1 DEF LeavingTypes, Leavers
    <2>3. \A kind \in Kinds : ~DealtWith(w, kind)'
      BY <2>2 DEF DealtWith
    <2>4. TakesOn(w)
      BY <1>0, <2>1, <2>2, <2>3 DEF TakesOn, LeavingInv, LeavingKept, DoneMeansGone, SeenUnshared
    <2> QED BY <2>4, DeletionStep
  <1>12. ASSUME NEW w \in LeaveSlots, NEW kind \in {"computer", "grant", "site"}, TakesDown(w, kind)
         PROVE  LeavingInv'
    <2>1. PICK next \in {"grant", "site", "list"} : next = NextStep[kind]
      BY DEF NextStep
    <2>2. /\ leavers[w].at = kind /\ leavers' = [leavers EXCEPT ![w].at = next]
          /\ UNCHANGED <<account, shared, late, leaveJob>> /\ known' = known \ {kind}
          /\ things' = IF kind \in known THEN [things EXCEPT ![kind] = "gone"] ELSE things
      BY <1>12, <2>1 DEF TakesDown, LeaverStill, Onward
    <2>3. /\ leavers'[w].at = next /\ leavers'[w].toDelete = leavers[w].toDelete
          /\ \A v \in LeaveSlots : v # w => leavers'[v] = leavers[v]
      BY <1>0, <2>2 DEF LeavingTypes, Leavers
    <2>4. \A k \in Kinds : things'[k] # things[k] => k = kind /\ things'[k] = "gone"
      BY <1>0, <2>2 DEF LeavingTypes
    <2>5. things'[kind] = "there" => kind \notin known /\ things[kind] = "there"
      BY <1>0, <2>2 DEF LeavingTypes, Kinds
    <2>6. things'[kind] = "there" => Excused(kind)
      BY <2>5 DEF LeavingInv, RowsTell, LeavingKept, NothingOldOutlives, Excused, Kinds
    <2>7. \A k \in Kinds : DealtWith(w, k)' => DealtWith(w, k) \/ k = kind
      BY <2>1, <2>2, <2>3 DEF DealtWith, NextStep
    <2>8. \A k \in known \ known' : things'[k] # "there"
      BY <2>2, <2>5
    <2>9. TakesOn(w)
      BY <1>0, <2>2, <2>3, <2>4, <2>6, <2>7, <2>8
      DEF TakesOn, LeavingInv, LeavingKept, DoneMeansGone, SeenUnshared
    <2> QED BY <2>9, DeletionStep
  <1>13. ASSUME NEW w \in LeaveSlots, BlobsOnlyTheyUse(w)
         PROVE  LeavingInv'
    <2>1. PICK found \in BOOLEAN : found <=> ("blob" \in known /\ shared # "named")
      OBVIOUS
    <2>2. PICK new : new = [at |-> "blobs", attempt |-> leavers[w].attempt, toDelete |-> found]
      OBVIOUS
    <2>3. leavers' = [leavers EXCEPT ![w] = new]
      BY <1>13, <2>1, <2>2 DEF BlobsOnlyTheyUse, ListsBlob
    <2>4. /\ leavers[w].at = "list"
          /\ LeaverStill /\ UNCHANGED leaveJob
          /\ UNCHANGED <<account, sessions, chat, things, known, leaveFaults>>
      BY <1>13, Zenon DEF BlobsOnlyTheyUse
    <2>5. UNCHANGED <<account, things, known, shared, late, leaveJob>>
      BY <2>4 DEF LeaverStill
    <2>6. /\ leavers'[w].at = "blobs" /\ (leavers'[w].toDelete <=> found)
          /\ \A v \in LeaveSlots : v # w => leavers'[v] = leavers[v]
      BY <1>0, <2>2, <2>3 DEF LeavingTypes
    <2>7. \A k \in Kinds : DealtWith(w, k)' =>
              DealtWith(w, k) \/ (k = "blob" /\ ~ ("blob" \in known /\ shared # "named"))
      BY <2>1, <2>4, <2>6 DEF DealtWith
    <2>8. things["blob"] = "there" /\ ~ ("blob" \in known /\ shared # "named") => Excused("blob")
      BY DEF LeavingInv, RowsTell, LeavingKept, NothingOldOutlives, Excused, Kinds
    <2>9. TakesOn(w)
      BY <2>1, <2>4, <2>5, <2>6, <2>7, <2>8 DEF TakesOn, LeavingInv, LeavingKept, DoneMeansGone
    <2> QED BY <2>9, DeletionStep
  <1>14. ASSUME NEW w \in LeaveSlots, DeleteBlobs(w)
         PROVE  LeavingInv'
    <2>1. /\ leavers[w].at = "blobs" /\ leavers' = [leavers EXCEPT ![w].at = "row"]
          /\ UNCHANGED <<account, known, shared, late, leaveJob>>
          /\ things' = IF leavers[w].toDelete THEN [things EXCEPT !["blob"] = "gone"] ELSE things
      BY <1>14 DEF DeleteBlobs, LeaverStill, Onward
    <2>2. /\ leavers'[w].at = "row" /\ leavers'[w].toDelete = leavers[w].toDelete
          /\ \A v \in LeaveSlots : v # w => leavers'[v] = leavers[v]
      BY <1>0, <2>1 DEF LeavingTypes, Leavers
    <2>3. \A k \in Kinds : things'[k] # things[k] =>
              k = "blob" /\ things'[k] = "gone" /\ leavers[w].toDelete
      BY <1>0, <2>1 DEF LeavingTypes
    <2>4. things'["blob"] = "there" => ~leavers[w].toDelete
      BY <1>0, <2>1 DEF LeavingTypes, Kinds
    <2>5. \A k \in Kinds : DealtWith(w, k)' /\ things'[k] = "there" => DealtWith(w, k)
      BY <2>1, <2>2, <2>4 DEF DealtWith
    <2>6. TakesOn(w)
      BY <2>1, <2>2, <2>3, <2>5 DEF TakesOn, LeavingInv, LeavingKept, DoneMeansGone, SeenUnshared
    <2> QED BY <2>6, DeletionStep
  <1>15. ASSUME NEW w \in LeaveSlots, DeleteRow(w) \/ AlreadyDeleted(w)
         PROVE  LeavingInv'
    <2>1. leavers[w].at \in {"row", "goodbye"} /\ leavers' = [leavers EXCEPT ![w] = IdleLeaver]
      BY <1>15 DEF DeleteRow, AlreadyDeleted
    <2>2. /\ account'.state = "gone" /\ UNCHANGED <<things, shared, late>>
          /\ account.state # "gone" => leavers[w].at = "row"
      BY <1>0, <1>15 DEF DeleteRow, AlreadyDeleted, LeaverStill, LeavingTypes
    <2>3. /\ leavers'[w].at = "idle" /\ ~leavers'[w].toDelete
          /\ \A v \in LeaveSlots : v # w => leavers'[v] = leavers[v]
      BY <1>0, <2>1 DEF LeavingTypes, IdleLeaver
    <2>4. \A k \in Kinds : ~DealtWith(w, k)'
      BY <2>3 DEF DealtWith
    <2>5. leavers[w].at = "row" => \A k \in Kinds : DealtWith(w, k)
      BY DEF DealtWith, Kinds
    <2>6. TakesOn(w)
      BY <2>1, <2>2, <2>3, <2>4, <2>5 DEF TakesOn
    <2> QED BY <2>6, DeletionStep
  <1> QED
    BY <1>1, <1>2, <1>3, <1>4, <1>5, <1>6, <1>7, <1>8, <1>9, <1>10, <1>11, <1>12, <1>13, <1>14,
       <1>15 DEF LeavingNext, LeaverStep

\* In every behaviour nothing the user had when they asked to leave outlives their row,
\* others keep the file they sent too, and a deletion that is done has removed the row
\* (delete-user.ts), whatever signs in, runs, fails or overlaps meanwhile.
THEOREM LeavingIsKept == LeavingSpec => []LeavingKept
  <1>1. LeavingInit => LeavingInv
    BY LeavingBegins
  <1>2. LeavingInv /\ [LeavingNext]_leavingVars => LeavingInv'
    BY LeavingTypesLast, LeavingLasts DEF LeavingInv
  <1>3. LeavingInv => LeavingKept
    BY DEF LeavingInv
  <1> QED BY <1>1, <1>2, <1>3, PTL DEF LeavingSpec

-----------------------------------------------------------------------------
(***************************************************************************)
(* Sites.  That the host follows the rows at rest needs what it has at     *)
(* each point of an operation (HostAt), and that operations which touch it *)
(* do not meet; and for that, that who is past its lock has it, with the   *)
(* row as it is (LockAt): the row a slot read is then the one it writes.   *)
(* An hour is charged once as hours charged lie before the row's mark      *)
(* (ChargedBefore), also when the count that charged them was the last.    *)
(***************************************************************************)
OpPoints == {"idle", "deploy", "put", "route", "version", "prune", "roll", "announce", "commit",
             "switched", "remove", "delete"}
Ops == [pc : OpPoints, row : SiteRows, bundle : Bundles \cup {"none"}, unused : SUBSET Bundles]
VersionRows == [number : 1 .. MaxVersion, bundle : Bundles]
Numbers == {v.number : v \in versions}
DeployPoints == {"put", "route", "version"}
HeldPoints == DeployPoints \cup {"roll", "announce", "commit"}
LoosePoints == {"switched", "remove", "delete", "prune"}

SiteTypes ==
    /\ site \in SiteRows /\ op \in [SiteSlots -> Ops]
    /\ versions \subseteq VersionRows
    /\ siteLock \in SiteSlots \cup {"free"}
    /\ script \in [SiteIds -> Bundles \cup {"none", "gone"}] /\ bundles \subseteq Bundles
    /\ route.script \in SiteIds \cup {0}
    /\ siteHour \in 0 .. LastHour /\ charged \in [0 .. LastHour -> Nat]
    /\ lastKey \in 0 .. MaxKeys /\ siteFaults \in Nat

\* Versions are numbered one after the other, and the current one is among them.
VersionsNumbered ==
    /\ \A v, w \in versions : v.number = w.number => v = w
    /\ site.current # 0 => site.id # 0 /\ site.current \in Numbers
    /\ site.id = 0 => versions = {}

\* An operation at one of these points works on a site; its name may lead to another since,
\* but never to that one again.
WorksAt(s) ==
    /\ op[s].pc \notin {"idle", "prune"} =>
          /\ op[s].row.id # 0
          /\ op[s].row.id # site.id => script[op[s].row.id] # "none"
    /\ op[s].pc \in DeployPoints \cup {"deploy", "roll"} => op[s].bundle \in Bundles
    /\ op[s].pc = "delete" => script[op[s].row.id] # "none"

\* Who holds the lock is at work on the row as it is; nobody else is where the lock is needed.
LockAt(s) ==
    LET row == op[s].row IN
    IF siteLock = s
    THEN /\ op[s].pc \in HeldPoints /\ row.id = site.id
         /\ site.accrued <= row.accrued /\ row.accrued <= siteHour
         /\ op[s].pc \in DeployPoints => row = site /\ LatestVersion < MaxVersion
         /\ op[s].pc = "announce" => row.current = site.current
         /\ op[s].pc \in {"roll", "commit", "announce"} => row.current \in Numbers
    ELSE op[s].pc \in HeldPoints => op[s].pc \in DeployPoints /\ row.id # site.id

\* The hours charged are over, and before the row's mark.
ChargedBefore ==
    /\ site.accrued <= siteHour
    /\ \A h \in 0 .. LastHour :
          /\ charged[h] <= 1
          /\ charged[h] # 0 => h < siteHour /\ (site.id # 0 => h < site.accrued)

RowsInv ==
    /\ SiteTypes /\ VersionsNumbered /\ ChargedBefore
    /\ \A s \in SiteSlots : WorksAt(s) /\ LockAt(s)

-----------------------------------------------------------------------------
BundlesThere == \A v \in versions : v.bundle \in bundles
OthersGone == \A id \in SiteIds : id # site.id => script[id] \notin Bundles
RouteFollows == route = IF Deployed THEN RouteOf(site) ELSE NoRoute
ScriptFollows ==
    IF Deployed THEN script[site.id] = BundleOf(site.current)
    ELSE site.id # 0 => script[site.id] \notin Bundles

HostRests == BundlesThere /\ OthersGone /\ RouteFollows /\ ScriptFollows

\* What the host has while an operation is at each of its points.
HostAt(s) ==
    LET o == op[s] IN
    /\ o.pc \in {"deploy"} \cup DeployPoints => o.row.id = site.id
    /\ o.pc \in DeployPoints => siteLock = s
    /\ o.pc \in {"put", "prune", "roll", "announce"} => HostRests
    /\ o.pc \in {"route", "version"} =>
          BundlesThere /\ OthersGone /\ o.bundle \in bundles /\ script[site.id] = o.bundle
    /\ o.pc = "version" => route = RouteOf(site)
    /\ o.pc = "roll" => o.bundle = BundleOf(o.row.current)
    /\ o.pc \in {"roll", "commit"} => route = RouteOf(o.row)
    /\ o.pc = "commit" =>
          BundlesThere /\ OthersGone /\ script[site.id] = BundleOf(o.row.current)
    /\ o.pc \in {"switched", "remove", "delete"} => o.row = site /\ BundlesThere /\ OthersGone
    /\ o.pc = "switched" => Deployed /\ ScriptFollows
    /\ o.pc \in {"remove", "delete"} => route = NoRoute
    /\ o.pc = "delete" => script[site.id] \notin Bundles

HostInv ==
    ~tangled =>
        /\ ~Meets
        /\ \A s \in SiteSlots : HostAt(s)
        /\ (\A s \in SiteSlots : op[s].pc \in {"idle", "deploy"}) => HostRests

SitesInv == RowsInv /\ HostInv

-----------------------------------------------------------------------------
LEMMA SiteBasics ==
    /\ NoSite \in SiteRows /\ NoOp \in Ops
    /\ NoOp.pc = "idle" /\ NoOp.row = NoSite /\ NoSite.id = 0
    /\ 0 \notin SiteIds /\ SiteIds \subseteq Nat
    /\ "none" \notin Bundles /\ "gone" \notin Bundles /\ "free" \notin SiteSlots
    /\ MaxVersion \in Nat /\ LastHour \in Nat /\ MaxKeys \in Nat /\ KeptVersions \in Nat
  BY SitesAssumption DEF NoSite, NoOp, SiteRows, Ops, OpPoints

LEMMA GoFacts ==
    ASSUME op \in [SiteSlots -> Ops], NEW s \in SiteSlots, NEW pc \in OpPoints, Go(s, pc)
    PROVE  /\ op' \in [SiteSlots -> Ops]
           /\ \A t \in SiteSlots : t # s => op'[t] = op[t]
           /\ op'[s].pc = pc /\ op'[s].row = op[s].row /\ op'[s].bundle = op[s].bundle
           /\ op'[s].unused = op[s].unused
  BY DEF Go, Ops

LEMMA PutFacts ==
    ASSUME op \in [SiteSlots -> Ops], NEW s \in SiteSlots, NEW o \in Ops,
           op' = [op EXCEPT ![s] = o]
    PROVE  /\ op' \in [SiteSlots -> Ops]
           /\ \A t \in SiteSlots : t # s => op'[t] = op[t]
           /\ op'[s] = o
  OBVIOUS

\* The latest version is the greatest number there is.
LEMMA LatestFacts ==
    ASSUME versions \subseteq VersionRows
    PROVE  /\ LatestVersion \in 0 .. MaxVersion
           /\ \A v \in versions : v.number <= LatestVersion
  <1> DEFINE upto == {n \in 1 .. MaxVersion : \E v \in versions : v.number >= n}
  <1>1. MaxVersion \in Nat
    BY SiteBasics
  <1>2. IsFiniteSet(1 .. MaxVersion) /\ Cardinality(1 .. MaxVersion) = MaxVersion
    BY <1>1, FS_Interval
  <1>3. upto \subseteq 1 .. MaxVersion
    OBVIOUS
  <1>4. IsFiniteSet(upto) /\ Cardinality(upto) \in Nat /\ Cardinality(upto) <= MaxVersion
    BY <1>2, <1>3, FS_Subset, FS_CardinalityType
  <1>5. ASSUME NEW v \in versions
        PROVE  v.number <= Cardinality(upto)
    <2>1. v.number \in 1 .. MaxVersion
      BY DEF VersionRows
    <2>2. 1 .. v.number \subseteq upto
      BY <1>1, <2>1
    <2>3. IsFiniteSet(1 .. v.number) /\ Cardinality(1 .. v.number) = v.number
      BY <2>1, FS_Interval
    <2>4. Cardinality(1 .. v.number) <= Cardinality(upto)
      <3> HIDE DEF upto
      <3> QED
        BY <1>4, <2>2, FS_Subset
    <2> QED
      BY <2>3, <2>4
  <1> QED
    BY <1>1, <1>4, <1>5 DEF LatestVersion

\* A slot moves, and the rows hold as they did for the others.
LEMMA RowsMove ==
    ASSUME RowsInv, NEW s \in SiteSlots, SiteTypes', VersionsNumbered', ChargedBefore',
           \A t \in SiteSlots : t # s => op'[t] = op[t],
           \A id \in SiteIds : script'[id] = script[id] \/ script'[id] # "none",
           siteLock' = siteLock \/ {siteLock, siteLock'} \subseteq {s, "free"},
           siteHour' = siteHour,
           \/ UNCHANGED <<site, versions>>
           \/ /\ siteLock \in {s, "free"}
              /\ \/ site'.id = site.id
                 \/ site.id = 0 /\ site'.id # 0 /\ script[site'.id] = "none"
                 \/ site'.id = 0 /\ (site.id # 0 => script'[site.id] # "none"),
           WorksAt(s)', LockAt(s)'
    PROVE  RowsInv'
  <1> SUFFICES ASSUME NEW t \in SiteSlots, t # s
               PROVE  WorksAt(t)' /\ LockAt(t)'
    BY DEF RowsInv
  <1>1. op'[t] = op[t] /\ op[t] \in Ops /\ op[t].row.id \in SiteIds \cup {0} /\ site.id \in SiteIds \cup {0}
    BY DEF RowsInv, SiteTypes, Ops, SiteRows
  <1>2. WorksAt(t) /\ LockAt(t) /\ "free" \notin SiteSlots
    BY SiteBasics DEF RowsInv
  <1>3. WorksAt(t)'
    BY <1>1, <1>2 DEF WorksAt
  <1>4. LockAt(t)'
    <2>1. CASE siteLock = t
      <3>1. siteLock' = t /\ UNCHANGED <<site, versions>>
        BY <1>2, <2>1
      <3> QED
        BY <1>1, <1>2, <2>1, <3>1 DEF LockAt, LatestVersion, Numbers
    <2>2. CASE siteLock # t
      <3>1. siteLock' # t
        BY <1>2, <2>2
      <3>2. op[t].pc \in HeldPoints => op[t].pc \in DeployPoints /\ op[t].row.id # site.id
        BY <1>2, <2>2 DEF LockAt
      <3>3. op[t].pc \in HeldPoints => op[t].row.id # site'.id
        BY <1>1, <1>2, <3>2 DEF WorksAt, DeployPoints
      <3> QED
        BY <1>1, <3>1, <3>2, <3>3 DEF LockAt
    <2> QED
      BY <2>1, <2>2
  <1> QED
    BY <1>3, <1>4

\* Nothing of the row or the host changed.
LEMMA SameHost ==
    ASSUME UNCHANGED <<site, versions, route, script, bundles>>, HostRests
    PROVE  HostRests'
  <1>1. BundlesThere' /\ OthersGone'
    BY DEF HostRests, BundlesThere, OthersGone
  <1>2. RouteFollows' /\ ScriptFollows'
    BY DEF HostRests, RouteFollows, ScriptFollows, Deployed, RouteOf, BundleOf
  <1> QED
    BY <1>1, <1>2 DEF HostRests

\* The history of operations that met moves on with each step.
Tangles == tangled' = (tangled \/ Meets' \/ siteFaults' # 0)

\* What an operation finds of the host, while nothing was tangled.
Untangled(s) == HostAt(s) /\ (op[s].pc \in {"idle", "deploy"} => HostRests)

\* While operations do not meet, the others rest when one moves that has the lock,
\* or the host for itself; the host then is as that one's point says.
LEMMA HostMoves ==
    ASSUME SitesInv, NEW s \in SiteSlots, Tangles,
           \A t \in SiteSlots : t # s => op'[t] = op[t],
           op[s] # NoOp \/ op'[s] # NoOp,
           siteLock' = siteLock \/ siteLock' \in {s, "free"},
           ~tangled /\ HostAt(s) => siteLock \in {s, "free"} \/ Unlocked(s) \/ Unlocked(s)',
           site'.id = site.id \/ site.id = 0 \/ Unlocked(s),
           ~tangled /\ siteFaults' = 0 /\ Untangled(s) => Untangled(s)'
    PROVE  HostInv'
  <1> SUFFICES ASSUME ~tangled'
               PROVE  /\ ~Meets'
                      /\ \A t \in SiteSlots : HostAt(t)'
                      /\ (\A t \in SiteSlots : op[t].pc \in {"idle", "deploy"})' => HostRests'
    BY DEF HostInv
  <1>1. ~tangled /\ ~Meets' /\ siteFaults' = 0 /\ ~Meets /\ (\A t \in SiteSlots : HostAt(t))
    BY DEF Tangles, SitesInv, HostInv
  <1>2. ASSUME NEW t \in SiteSlots, t # s
        PROVE  /\ op'[t] = op[t] /\ op[t].pc \in {"idle", "deploy"} 
               /\ Unlocked(s) => op[t].pc = "idle"
    <2>1. op'[t] = op[t] /\ op[t] \in Ops /\ HostAt(t) /\ LockAt(t) /\ "free" \notin SiteSlots
      BY <1>1, <1>2, SiteBasics DEF SitesInv, RowsInv, SiteTypes
    <2>2. Unlocked(t) => Unlocked(t)'
      BY <1>2, <2>1 DEF Unlocked, HostAt, DeployPoints
    <2>3. ~Unlocked(t)
      BY <1>1, <1>2, <2>1, <2>2 DEF Meets
    <2>4. op[t] # NoOp => ~Unlocked(s) /\ ~Unlocked(s)'
      BY <1>1, <1>2, <2>1 DEF Meets
    <2>5. op[t].pc # "idle" => op[t] # NoOp
      BY SiteBasics
    <2>6. op[t].pc \in HeldPoints => FALSE
      <3>1. op[t].pc \in HeldPoints => siteLock = t
        BY <2>1 DEF LockAt, HostAt
      <3>2. op[t].pc \in HeldPoints => op[t] # NoOp
        BY <2>5 DEF HeldPoints, DeployPoints
      <3> QED
        BY <1>1, <1>2, <2>1, <2>4, <3>1, <3>2
    <2> QED
      BY <2>1, <2>3, <2>4, <2>5, <2>6 DEF Unlocked, Ops, OpPoints, HeldPoints, DeployPoints
  <1>3. Untangled(s)
    BY <1>1, <1>2 DEF Untangled, SitesInv, HostInv
  <1>4. Untangled(s)'
    BY <1>1, <1>3
  <1>5. ASSUME NEW t \in SiteSlots, t # s
        PROVE  HostAt(t)'
    <2>1. op[t].pc = "deploy" => op[t].row.id = site.id /\ op[t].row.id # 0
      BY <1>1 DEF HostAt, SitesInv, RowsInv, WorksAt
    <2> QED
      BY <1>2, <1>5, <2>1 DEF HostAt, DeployPoints
  <1> QED
    BY <1>1, <1>4, <1>5 DEF Untangled

\* An operation stops, and the row stays as it is.
LEMMA IdleRows ==
    ASSUME SitesInv, NEW s \in SiteSlots, op' = [op EXCEPT ![s] = NoOp],
           UNCHANGED <<site, versions, script, siteHour, charged, lastKey>>, bundles' \subseteq Bundles,
           route' = route \/ route'.script \in SiteIds \cup {0}, siteFaults' \in Nat,
           siteLock' = IF siteLock = s THEN "free" ELSE siteLock
    PROVE  /\ RowsInv' /\ op'[s] = NoOp
           /\ \A t \in SiteSlots : t # s => op'[t] = op[t]
  <1>1. SiteTypes /\ VersionsNumbered /\ ChargedBefore
    BY DEF SitesInv, RowsInv
  <1>2. /\ op' \in [SiteSlots -> Ops] /\ op'[s] = NoOp
        /\ \A t \in SiteSlots : t # s => op'[t] = op[t]
    BY <1>1, SiteBasics, PutFacts DEF SiteTypes
  <1>3. SiteTypes' /\ VersionsNumbered' /\ ChargedBefore'
    BY <1>1, <1>2 DEF SiteTypes, VersionsNumbered, ChargedBefore, Numbers
  <1>4. siteLock' # s
    BY SiteBasics
  <1>5. WorksAt(s)' /\ LockAt(s)'
    BY <1>2, <1>4, SiteBasics DEF WorksAt, LockAt, HeldPoints, DeployPoints
  <1> QED
    BY <1>2, <1>3, <1>5, RowsMove DEF SitesInv

-----------------------------------------------------------------------------
(* Deploying                                                               *)

LEMMA ClaimSiteKeeps ==
    ASSUME SitesInv, NEW s \in SiteSlots, ClaimSite(s), Tangles
    PROVE  SitesInv'
  <1>1. PICK b \in Bundles : op' = [op EXCEPT ![s] = [NoOp EXCEPT !.pc = "deploy", !.row = site',
                                                              !.bundle = b]]
    BY DEF ClaimSite
  <1>2. /\ op[s] = NoOp /\ siteLock = "free"
        /\ UNCHANGED <<versions, siteLock, route, script, bundles, siteHour, charged, lastKey,
                       unshared, switches, siteFaults>>
    BY DEF ClaimSite, hostVars, clockVars, boundVars
  <1>3. SiteTypes /\ VersionsNumbered /\ ChargedBefore /\ LockAt(s)
    BY DEF SitesInv, RowsInv
  <1>4. /\ site' \in SiteRows /\ site'.id # 0
        /\ \/ site' = site
           \/ /\ site.id = 0 /\ script[site'.id] = "none"
              /\ site'.accrued = siteHour /\ site'.current = 0
    <2>1. CASE site.id # 0
      BY <1>3, <2>1 DEF ClaimSite, SiteTypes
    <2>2. CASE site.id = 0
      <3>1. PICK id \in SiteIds :
               script[id] = "none" /\ site' = [NoSite EXCEPT !.id = id, !.accrued = siteHour]
        BY <2>2 DEF ClaimSite
      <3>2. site' \in SiteRows /\ site'.id = id /\ site'.accrued = siteHour /\ site'.current = 0
        BY <1>3, <3>1, SiteBasics DEF SiteTypes, SiteRows, NoSite
      <3> QED
        BY <2>2, <3>1, <3>2, SiteBasics
    <2> QED
      BY <2>1, <2>2
  <1> DEFINE new == [NoOp EXCEPT !.pc = "deploy", !.row = site', !.bundle = b]
  <1>5. new \in Ops /\ new.pc = "deploy" /\ new.row = site' /\ new.bundle \in Bundles
    BY <1>4, SiteBasics DEF Ops, OpPoints, NoOp
  <1> HIDE DEF new
  <1>6. /\ op' \in [SiteSlots -> Ops] /\ op'[s] = new
        /\ \A t \in SiteSlots : t # s => op'[t] = op[t]
    BY <1>1, <1>3, <1>5, PutFacts DEF new, SiteTypes
  <1>7. SiteTypes' /\ VersionsNumbered' /\ ChargedBefore'
    BY <1>2, <1>3, <1>4, <1>6 DEF SiteTypes, VersionsNumbered, ChargedBefore, Numbers
  <1>8. WorksAt(s)' /\ LockAt(s)'
    BY <1>2, <1>4, <1>5, <1>6, SiteBasics DEF WorksAt, LockAt, HeldPoints, DeployPoints
  <1>9. RowsInv'
    BY <1>2, <1>4, <1>6, <1>7, <1>8, RowsMove DEF SitesInv
  <1>10. ASSUME Untangled(s)
         PROVE  Untangled(s)'
    <2>1. HostRests
      BY <1>2, <1>10, SiteBasics DEF Untangled
    <2>2. HostRests'
      <3>1. CASE site' = site
        BY <1>2, <2>1, <3>1, SameHost
      <3>2. CASE site.id = 0 /\ script[site'.id] = "none" /\ site'.current = 0
        <4>1. site.current = 0 /\ route = NoRoute /\ \A id \in SiteIds : script[id] \notin Bundles
          BY <1>3, <2>1, <3>2, SiteBasics
          DEF HostRests, OthersGone, RouteFollows, Deployed, VersionsNumbered
        <4> QED
          BY <1>2, <1>4, <2>1, <3>2, <4>1, SiteBasics
          DEF HostRests, BundlesThere, OthersGone, RouteFollows, ScriptFollows, Deployed
      <3> QED
        BY <1>4, <3>1, <3>2
    <2> QED
      BY <1>4, <1>5, <1>6, <2>2 DEF Untangled, HostAt, DeployPoints
  <1> QED
    BY <1>2, <1>4, <1>5, <1>6, <1>9, <1>10, HostMoves, SiteBasics DEF SitesInv

LEMMA LockForDeployKeeps ==
    ASSUME SitesInv, NEW s \in SiteSlots, LockForDeploy(s), Tangles
    PROVE  SitesInv'
  <1>1. /\ op[s].pc = "deploy" /\ LatestVersion < MaxVersion
        /\ UNCHANGED <<site, versions, route, script, bundles, siteHour, charged, lastKey,
                       unshared, switches, siteFaults>>
    BY DEF LockForDeploy, hostVars, clockVars, boundVars
  <1>2. SiteTypes /\ VersionsNumbered /\ ChargedBefore /\ LockAt(s) /\ WorksAt(s)
    BY DEF SitesInv, RowsInv
  <1>3. op[s] \in Ops /\ op[s].row.id # 0 /\ op[s].bundle \in Bundles /\ siteLock # s
    BY <1>1, <1>2 DEF SiteTypes, WorksAt, LockAt, HeldPoints, DeployPoints
  <1>4. /\ op' \in [SiteSlots -> Ops] /\ op'[s].pc = "put" /\ op'[s].bundle \in Bundles
        /\ \A t \in SiteSlots : t # s => op'[t] = op[t]
        /\ \/ siteLock = "free" /\ siteLock' = s /\ op'[s].row = site /\ op[s].row.id = site.id
           \/ siteLock' = siteLock /\ op'[s].row = op[s].row /\ op[s].row.id # site.id
    <2>1. CASE site.id = op[s].row.id
      <3>1. siteLock = "free" /\ siteLock' = s /\ op' = [op EXCEPT ![s].pc = "put", ![s].row = site]
        BY <1>1, <2>1 DEF LockForDeploy, TakeLock
      <3> QED
        BY <1>2, <1>3, <2>1, <3>1 DEF SiteTypes, Ops, OpPoints
    <2>2. CASE site.id # op[s].row.id
      <3>1. siteLock' = siteLock /\ Go(s, "put")
        BY <1>1, <2>2 DEF LockForDeploy
      <3> QED
        BY <1>2, <1>3, <2>2, <3>1, GoFacts DEF SiteTypes, OpPoints
    <2> QED
      BY <2>1, <2>2
  <1>5. SiteTypes' /\ VersionsNumbered' /\ ChargedBefore'
    BY <1>1, <1>2, <1>4 DEF SiteTypes, VersionsNumbered, ChargedBefore, Numbers
  <1>6. WorksAt(s)'
    BY <1>1, <1>2, <1>3, <1>4 DEF WorksAt
  <1>7. LatestVersion' = LatestVersion
    BY <1>1 DEF LatestVersion
  <1>8. LockAt(s)'
    <2>1. CASE siteLock = "free" /\ siteLock' = s /\ op'[s].row = site
      BY <1>1, <1>2, <1>4, <1>7, <2>1
      DEF LockAt, HeldPoints, DeployPoints, ChargedBefore, SiteTypes, SiteRows
    <2>2. CASE siteLock' = siteLock /\ op'[s].row = op[s].row /\ op[s].row.id # site.id
      BY <1>1, <1>3, <1>4, <2>2 DEF LockAt, DeployPoints
    <2> QED
      BY <1>4, <2>1, <2>2
  <1>9. RowsInv'
    BY <1>1, <1>4, <1>5, <1>6, <1>8, RowsMove DEF SitesInv
  <1>10. ASSUME Untangled(s)
         PROVE  Untangled(s)'
    <2>1. HostRests /\ op[s].row.id = site.id
      BY <1>1, <1>10 DEF Untangled, HostAt
    <2>2. HostRests'
      BY <1>1, <2>1, SameHost
    <2> QED
      BY <1>1, <1>4, <2>1, <2>2 DEF Untangled, HostAt, DeployPoints
  <1>11. ~tangled /\ HostAt(s) => siteLock \in {s, "free"}
    BY <1>1, <1>4 DEF HostAt
  <1> QED
    BY <1>1, <1>4, <1>9, <1>10, <1>11, HostMoves, SiteBasics DEF SitesInv

LEMMA PutScriptKeeps ==
    ASSUME SitesInv, NEW s \in SiteSlots, PutScript(s), Tangles
    PROVE  SitesInv'
  <1>1. /\ op[s].pc = "put" /\ bundles' = bundles \cup {op[s].bundle}
        /\ script' = [script EXCEPT ![op[s].row.id] = op[s].bundle] /\ Go(s, "route")
        /\ UNCHANGED <<site, versions, siteLock, route, siteHour, charged, lastKey, unshared,
                       switches, siteFaults>>
    BY DEF PutScript, clockVars, boundVars
  <1>2. SiteTypes /\ VersionsNumbered /\ ChargedBefore /\ LockAt(s) /\ WorksAt(s)
    BY DEF SitesInv, RowsInv
  <1>3. op[s] \in Ops /\ op[s].row.id \in SiteIds /\ op[s].bundle \in Bundles
    BY <1>1, <1>2 DEF SiteTypes, WorksAt, DeployPoints, Ops, SiteRows
  <1>4. /\ op' \in [SiteSlots -> Ops] /\ op'[s].pc = "route"
        /\ op'[s].row = op[s].row /\ op'[s].bundle = op[s].bundle
        /\ \A t \in SiteSlots : t # s => op'[t] = op[t]
    BY <1>1, <1>2, GoFacts DEF SiteTypes, OpPoints
  <1>5. /\ script'[op[s].row.id] = op[s].bundle /\ op[s].bundle \in bundles'
        /\ \A id \in SiteIds : id # op[s].row.id => script'[id] = script[id]
    BY <1>1, <1>2, <1>3 DEF SiteTypes
  <1>6. SiteTypes' /\ VersionsNumbered' /\ ChargedBefore'
    BY <1>1, <1>2, <1>3, <1>4 DEF SiteTypes, VersionsNumbered, ChargedBefore, Numbers
  <1>7. \A id \in SiteIds : script'[id] = script[id] \/ script'[id] # "none"
    BY <1>3, <1>5, SiteBasics
  <1>8. WorksAt(s)'
    BY <1>1, <1>2, <1>3, <1>4, <1>5, SiteBasics DEF WorksAt, DeployPoints
  <1>9. LatestVersion' = LatestVersion
    BY <1>1 DEF LatestVersion
  <1>10. LockAt(s)'
    BY <1>1, <1>2, <1>4, <1>9 DEF LockAt, HeldPoints, DeployPoints
  <1>11. RowsInv'
    BY <1>1, <1>4, <1>6, <1>7, <1>8, <1>10, RowsMove DEF SitesInv
  <1>12. ASSUME Untangled(s)
         PROVE  Untangled(s)'
    <2>1. HostRests /\ siteLock = s /\ op[s].row = site
      BY <1>1, <1>2, <1>12 DEF Untangled, HostAt, LockAt, DeployPoints
    <2>2. BundlesThere' /\ OthersGone'
      BY <1>1, <1>5, <2>1 DEF HostRests, BundlesThere, OthersGone
    <2> QED
      BY <1>1, <1>4, <1>5, <2>1, <2>2 DEF Untangled, HostAt, DeployPoints
  <1>13. ~tangled /\ HostAt(s) => siteLock = s
    BY <1>1 DEF HostAt, DeployPoints
  <1> QED
    BY <1>1, <1>4, <1>11, <1>12, <1>13, HostMoves, SiteBasics DEF SitesInv

LEMMA DeployRouteKeeps ==
    ASSUME SitesInv, NEW s \in SiteSlots, DeployRoute(s), Tangles
    PROVE  SitesInv'
  <1>1. /\ op[s].pc = "route" /\ route' = RouteOf(op[s].row) /\ Go(s, "version")
        /\ UNCHANGED <<site, versions, siteLock, script, bundles, siteHour, charged, lastKey,
                       unshared, switches, siteFaults>>
    BY DEF DeployRoute, clockVars, boundVars
  <1>2. SiteTypes /\ VersionsNumbered /\ ChargedBefore /\ LockAt(s) /\ WorksAt(s)
    BY DEF SitesInv, RowsInv
  <1>3. op[s] \in Ops /\ op[s].row.id \in SiteIds
    BY <1>1, <1>2 DEF SiteTypes, WorksAt, Ops, SiteRows
  <1>4. /\ op' \in [SiteSlots -> Ops] /\ op'[s].pc = "version"
        /\ op'[s].row = op[s].row /\ op'[s].bundle = op[s].bundle
        /\ \A t \in SiteSlots : t # s => op'[t] = op[t]
    BY <1>1, <1>2, GoFacts DEF SiteTypes, OpPoints
  <1>5. route'.script \in SiteIds
    BY <1>1, <1>3 DEF RouteOf
  <1>6. SiteTypes' /\ VersionsNumbered' /\ ChargedBefore'
    BY <1>1, <1>2, <1>4, <1>5 DEF SiteTypes, VersionsNumbered, ChargedBefore, Numbers
  <1>7. WorksAt(s)'
    BY <1>1, <1>2, <1>4 DEF WorksAt, DeployPoints
  <1>8. LatestVersion' = LatestVersion
    BY <1>1 DEF LatestVersion
  <1>9. LockAt(s)'
    BY <1>1, <1>2, <1>4, <1>8 DEF LockAt, HeldPoints, DeployPoints
  <1>10. RowsInv'
    BY <1>1, <1>4, <1>6, <1>7, <1>9, RowsMove DEF SitesInv
  <1>11. ASSUME Untangled(s)
         PROVE  Untangled(s)'
    <2>1. siteLock = s /\ op[s].row = site
      BY <1>1, <1>2, <1>11 DEF Untangled, HostAt, LockAt, DeployPoints
    <2>2. BundlesThere' /\ OthersGone' /\ op[s].bundle \in bundles /\ script[site.id] = op[s].bundle
      BY <1>1, <1>11 DEF Untangled, HostAt, BundlesThere, OthersGone
    <2>3. route' = RouteOf(site)'
      BY <1>1, <2>1 DEF RouteOf
    <2> QED
      BY <1>1, <1>4, <2>1, <2>2, <2>3 DEF Untangled, HostAt, DeployPoints
  <1>12. ~tangled /\ HostAt(s) => siteLock = s
    BY <1>1 DEF HostAt, DeployPoints
  <1> QED
    BY <1>1, <1>4, <1>10, <1>11, <1>12, HostMoves, SiteBasics DEF SitesInv

LEMMA CommitDeployKeeps ==
    ASSUME SitesInv, NEW s \in SiteSlots, CommitDeploy(s), Tangles
    PROVE  SitesInv'
  <1>0. PICK number : number = 1 + LatestVersion
    OBVIOUS
  <1> DEFINE done == [NoOp EXCEPT !.pc = "prune", !.unused = {v.bundle : v \in Pruned(number)}]
             new == [number |-> number, bundle |-> op[s].bundle]
  <1>1. /\ op[s].pc = "version"
        /\ siteLock' = IF siteLock = s THEN "free" ELSE siteLock
        /\ UNCHANGED <<route, script, bundles, siteHour, charged, lastKey, unshared, switches,
                       siteFaults>>
    BY DEF CommitDeploy, hostVars, clockVars, boundVars
  <1>2. SiteTypes /\ VersionsNumbered /\ ChargedBefore /\ LockAt(s) /\ WorksAt(s)
    BY DEF SitesInv, RowsInv
  <1>3. op[s] \in Ops /\ op[s].row.id # 0 /\ op[s].bundle \in Bundles
    BY <1>1, <1>2 DEF SiteTypes, WorksAt, DeployPoints
  <1>4. ASSUME Untangled(s)
        PROVE  /\ siteLock = s /\ op[s].row = site /\ BundlesThere /\ OthersGone
               /\ op[s].bundle \in bundles /\ script[site.id] = op[s].bundle
               /\ route = RouteOf(site)
    BY <1>1, <1>2, <1>4 DEF Untangled, HostAt, LockAt, DeployPoints
  <1>5. CASE siteLock = s
    <2>1. /\ op[s].row = site /\ LatestVersion < MaxVersion /\ siteLock' = "free"
      BY <1>1, <1>2, <1>5 DEF LockAt, DeployPoints
    <2>2. /\ versions' = (versions \ Pruned(number)) \cup {new}
          /\ site' = [site EXCEPT !.current = number]
          /\ op' = [op EXCEPT ![s] = done]
      BY <1>0, <2>1 DEF CommitDeploy
    <2>3. number \in 1 .. MaxVersion /\ \A v \in versions : v.number # number
      BY <1>0, <1>2, <2>1, LatestFacts, SiteBasics DEF SiteTypes, VersionRows
    <2>4. new \in VersionRows /\ new.number = number /\ new.bundle = op[s].bundle
      BY <1>3, <2>3 DEF VersionRows
    <2>5. {v.bundle : v \in Pruned(number)} \subseteq Bundles
      BY <1>2 DEF Pruned, SiteTypes, VersionRows
    <2>6. done \in Ops /\ done.pc = "prune"
      BY <2>5, SiteBasics DEF Ops, OpPoints, NoOp
    <2> HIDE DEF done, new
    <2>7. /\ site' \in SiteRows /\ site'.id = site.id /\ site'.current = number
          /\ site'.accrued = site.accrued /\ site'.access = site.access /\ site'.key = site.key
          /\ site'.paused = site.paused
      <3>1. site \in SiteRows /\ number \in 0 .. MaxVersion
        BY <1>2, <2>3, SiteBasics DEF SiteTypes
      <3> QED
        BY <2>2, <3>1 DEF SiteRows
    <2>8. /\ op' \in [SiteSlots -> Ops] /\ op'[s].pc = "prune"
          /\ \A t \in SiteSlots : t # s => op'[t] = op[t]
      BY <1>2, <2>2, <2>6, PutFacts DEF SiteTypes
    <2>9. versions' \subseteq VersionRows /\ new \in versions'
          /\ \A v \in versions' : v = new \/ v \in versions
      BY <1>2, <2>2, <2>4 DEF SiteTypes
    <2>10. SiteTypes' /\ ChargedBefore'
      BY <1>1, <1>2, <2>1, <2>7, <2>8, <2>9 DEF SiteTypes, ChargedBefore
    <2>11. VersionsNumbered'
      BY <1>2, <1>3, <2>1, <2>3, <2>4, <2>7, <2>9 DEF VersionsNumbered, Numbers
    <2>12. WorksAt(s)' /\ LockAt(s)'
      BY <2>1, <2>8, SiteBasics DEF WorksAt, LockAt, HeldPoints, DeployPoints
    <2>13. RowsInv'
      BY <1>1, <1>5, <2>1, <2>7, <2>8, <2>10, <2>11, <2>12, RowsMove DEF SitesInv
    <2>14. ASSUME Untangled(s)
           PROVE  Untangled(s)'
      <3>1. BundlesThere' /\ OthersGone'
        BY <1>1, <1>4, <2>4, <2>7, <2>9, <2>14 DEF BundlesThere, OthersGone
      <3>2. BundleOf(number)' = op[s].bundle
        BY <2>3, <2>4, <2>9 DEF BundleOf
      <3>3. number # 0
        BY <2>3
      <3>4. RouteFollows' /\ ScriptFollows'
        BY <1>1, <1>4, <2>7, <2>14, <3>2, <3>3 DEF RouteFollows, ScriptFollows, Deployed, RouteOf
      <3> QED
        BY <2>8, <3>1, <3>4 DEF Untangled, HostAt, DeployPoints, HostRests
    <2> QED
      BY <1>1, <1>5, <2>1, <2>7, <2>8, <2>13, <2>14, HostMoves, SiteBasics DEF SitesInv
  <1>6. CASE siteLock # s
    <2>1. op[s].row.id # site.id /\ siteLock' = siteLock
      BY <1>1, <1>2, <1>6 DEF LockAt, HeldPoints, DeployPoints
    <2>2. op' = [op EXCEPT ![s] = NoOp] /\ UNCHANGED <<site, versions>>
      BY <2>1 DEF CommitDeploy
    <2>3. RowsInv'
      BY <1>1, <1>2, <2>2, IdleRows DEF SiteTypes
    <2> QED
      <3>1. op'[s] = NoOp /\ \A t \in SiteSlots : t # s => op'[t] = op[t]
        BY <1>1, <1>2, <2>2, IdleRows DEF SiteTypes
      <3>2. ~Untangled(s) /\ ~HostAt(s)
        BY <1>1, <1>6 DEF Untangled, HostAt, DeployPoints
      <3> QED
        BY <1>1, <2>1, <2>2, <2>3, <3>1, <3>2, HostMoves, SiteBasics DEF SitesInv
  <1> QED
    BY <1>5, <1>6

LEMMA DeleteUnusedBundlesKeeps ==
    ASSUME SitesInv, NEW s \in SiteSlots, DeleteUnusedBundles(s), Tangles
    PROVE  SitesInv'
  <1>1. /\ op[s].pc = "prune" /\ op' = [op EXCEPT ![s] = NoOp]
        /\ bundles' = bundles \ {b \in op[s].unused : \A v \in versions : v.bundle # b}
        /\ UNCHANGED <<site, versions, siteLock, route, script, siteHour, charged, lastKey, unshared,
                       switches, siteFaults>>
    BY DEF DeleteUnusedBundles, clockVars, boundVars
  <1>2. SiteTypes /\ VersionsNumbered /\ ChargedBefore /\ LockAt(s)
    BY DEF SitesInv, RowsInv
  <1>3. siteLock # s
    BY <1>1, <1>2 DEF LockAt, HeldPoints, DeployPoints
  <1>4. /\ RowsInv' /\ op'[s] = NoOp
        /\ \A t \in SiteSlots : t # s => op'[t] = op[t]
    BY <1>1, <1>2, <1>3, IdleRows DEF SiteTypes
  <1>5. ASSUME Untangled(s)
        PROVE  Untangled(s)'
    <2>1. HostRests
      BY <1>1, <1>5 DEF Untangled, HostAt
    <2>2. BundlesThere' /\ OthersGone'
      BY <1>1, <2>1 DEF HostRests, BundlesThere, OthersGone
    <2>3. RouteFollows' /\ ScriptFollows'
      BY <1>1, <2>1 DEF HostRests, RouteFollows, ScriptFollows, Deployed, RouteOf, BundleOf
    <2> QED
      BY <1>4, <2>2, <2>3, SiteBasics DEF Untangled, HostAt, DeployPoints, HostRests
  <1>6. Unlocked(s) /\ op[s] # NoOp
    BY <1>1, SiteBasics DEF Unlocked
  <1> QED
    BY <1>1, <1>4, <1>5, <1>6, HostMoves DEF SitesInv

-----------------------------------------------------------------------------
(* Under the row's lock                                                    *)

\* What an operation that takes the lock of a deployed site means to do with it.
LEMMA TakesLock ==
    ASSUME SitesInv, NEW s \in SiteSlots, Tangles, op[s] = NoOp, Deployed, TakeLock(s),
           NEW o \in Ops, op' = [op EXCEPT ![s] = o],
           UNCHANGED <<site, versions, route, script, bundles, siteHour, charged, siteFaults>>,
           lastKey' \in 0 .. MaxKeys,
           o.pc \in {"roll", "announce", "commit"},
           o.row.id = site.id, o.row.current \in Numbers,
           site.accrued <= o.row.accrued, o.row.accrued <= siteHour,
           o.pc = "roll" => o.bundle \in Bundles /\ o.bundle = BundleOf(o.row.current),
           o.pc # "roll" => o.row.current = site.current,
           o.pc # "announce" => RouteOf(o.row) = RouteOf(site)
    PROVE  SitesInv'
  <1>1. SiteTypes /\ VersionsNumbered /\ ChargedBefore
    BY DEF SitesInv, RowsInv
  <1>2. /\ op' \in [SiteSlots -> Ops] /\ op'[s] = o
        /\ \A t \in SiteSlots : t # s => op'[t] = op[t]
    BY <1>1, PutFacts DEF SiteTypes
  <1>3. siteLock = "free" /\ siteLock' = s
    BY DEF TakeLock
  <1>4. SiteTypes' /\ VersionsNumbered' /\ ChargedBefore'
    BY <1>1, <1>2, <1>3 DEF SiteTypes, VersionsNumbered, ChargedBefore, Numbers
  <1>5. site.id # 0
    BY <1>1 DEF VersionsNumbered, Deployed
  <1>6. WorksAt(s)' /\ LockAt(s)'
    BY <1>2, <1>3, <1>5 DEF WorksAt, LockAt, HeldPoints, DeployPoints, Numbers
  <1>7. RowsInv'
    BY <1>2, <1>3, <1>4, <1>6, RowsMove DEF SitesInv
  <1>8. ASSUME Untangled(s)
        PROVE  Untangled(s)'
    <2>1. HostRests
      BY <1>8, SiteBasics DEF Untangled
    <2>2. HostRests'
      BY <2>1, SameHost
    <2>3. o.pc # "announce" => route' = RouteOf(o.row)'
      <3>1. route = RouteOf(site)
        BY <2>1 DEF HostRests, RouteFollows
      <3>2. RouteOf(o.row)' = RouteOf(o.row)
        BY DEF RouteOf
      <3> QED
        BY <3>1, <3>2
    <2>4. CASE o.pc \in {"roll", "announce"}
      <3>1. o.pc = "roll" => o.bundle = BundleOf(o.row.current)'
        BY <1>2 DEF BundleOf
      <3> QED
        BY <1>2, <2>2, <2>3, <2>4, <3>1 DEF Untangled, HostAt, DeployPoints
    <2>5. CASE o.pc = "commit"
      <3>1. BundlesThere' /\ OthersGone'
        BY <2>2 DEF HostRests
      <3>2. script'[site'.id] = BundleOf(o.row.current)'
        <4>1. script[site.id] = BundleOf(site.current)
          BY <2>1 DEF HostRests, ScriptFollows
        <4>2. BundleOf(o.row.current)' = BundleOf(o.row.current) /\ o.row.current = site.current
          BY <2>5 DEF BundleOf
        <4> QED
          BY <4>1, <4>2
      <3> QED
        BY <1>2, <2>3, <2>5, <3>1, <3>2 DEF Untangled, HostAt, DeployPoints
    <2> QED
      BY <2>4, <2>5
  <1>9. op'[s] # NoOp
    BY <1>2, SiteBasics
  <1> QED
    BY <1>2, <1>3, <1>7, <1>8, <1>9, HostMoves DEF SitesInv

\* The current version's number, and what the row says besides.
LEMMA RowFacts ==
    ASSUME SitesInv
    PROVE  /\ site \in SiteRows /\ siteHour \in Nat /\ siteHour \in 0 .. LastHour
           /\ site.accrued <= siteHour /\ lastKey \in 0 .. MaxKeys /\ versions \subseteq VersionRows
           /\ Deployed => site.current \in Numbers /\ site.id # 0
           /\ \A v \in versions : BundleOf(v.number) = v.bundle
  BY SiteBasics
  DEF SitesInv, RowsInv, SiteTypes, VersionsNumbered, ChargedBefore, Deployed, BundleOf

LEMMA LockForRollbackKeeps ==
    ASSUME SitesInv, NEW s \in SiteSlots, LockForRollback(s), Tangles
    PROVE  SitesInv'
  <1>1. PICK v \in versions : op' = [op EXCEPT ![s] =
                    [NoOp EXCEPT !.pc = "roll", !.bundle = v.bundle,
                                 !.row = [site EXCEPT !.current = v.number]]]
    BY DEF LockForRollback
  <1>2. /\ op[s] = NoOp /\ Deployed /\ TakeLock(s)
        /\ UNCHANGED <<site, versions, route, script, bundles, siteHour, charged, lastKey, siteFaults>>
    BY DEF LockForRollback, hostVars, clockVars, boundVars
  <1> DEFINE row == [site EXCEPT !.current = v.number]
             new == [NoOp EXCEPT !.pc = "roll", !.bundle = v.bundle, !.row = row]
  <1>3. v.number \in 0 .. MaxVersion /\ v.bundle \in Bundles /\ v.number \in Numbers
    BY RowFacts, SiteBasics DEF VersionRows, Numbers
  <1>4. /\ row \in SiteRows /\ row.id = site.id /\ row.current = v.number
        /\ row.accrued = site.accrued
    BY <1>3, RowFacts DEF SiteRows
  <1> HIDE DEF row
  <1>5. new \in Ops /\ new.pc = "roll" /\ new.bundle = v.bundle /\ new.row = row
    BY <1>3, <1>4, SiteBasics DEF Ops, OpPoints, NoOp
  <1>6. op' = [op EXCEPT ![s] = new]
    BY <1>1 DEF row
  <1> HIDE DEF new
  <1>7. row.accrued <= siteHour /\ site.accrued <= row.accrued /\ BundleOf(row.current) = v.bundle
    BY <1>4, RowFacts DEF SiteRows
  <1>8. RouteOf(row) = RouteOf(site)
    BY RowFacts DEF RouteOf, row, SiteRows
  <1> QED
    BY <1>8, <1>2, <1>3, <1>4, <1>5, <1>6, <1>7, RowFacts, TakesLock

LEMMA ShareKeeps ==
    ASSUME SitesInv, NEW s \in SiteSlots, Share(s), Tangles
    PROVE  SitesInv'
  <1> DEFINE row == [site EXCEPT !.access = "link", !.key = lastKey + 1]
             new == [NoOp EXCEPT !.pc = "announce", !.row = row]
  <1>1. /\ op[s] = NoOp /\ Deployed /\ TakeLock(s)
        /\ lastKey < MaxKeys /\ lastKey' = lastKey + 1 /\ op' = [op EXCEPT ![s] = new]
        /\ UNCHANGED <<site, versions, route, script, bundles, siteHour, charged, siteFaults>>
    BY DEF Share, hostVars, clockVars, boundVars
  <1>2. lastKey + 1 \in 0 .. MaxKeys
    BY <1>1, RowFacts, SiteBasics
  <1>3. /\ row \in SiteRows /\ row.id = site.id /\ row.current = site.current
        /\ row.accrued = site.accrued
    BY <1>2, RowFacts DEF SiteRows
  <1> HIDE DEF row
  <1>4. new \in Ops /\ new.pc = "announce" /\ new.row = row
    BY <1>3, SiteBasics DEF Ops, OpPoints, NoOp
  <1> HIDE DEF new
  <1>5. row.accrued <= siteHour /\ site.accrued <= row.accrued
    BY <1>3, RowFacts DEF SiteRows
  <1> QED
    BY <1>1, <1>2, <1>3, <1>4, <1>5, RowFacts, TakesLock

LEMMA UnshareKeeps ==
    ASSUME SitesInv, NEW s \in SiteSlots, Unshare(s), Tangles
    PROVE  SitesInv'
  <1> DEFINE row == [site EXCEPT !.access = "private", !.key = 0]
             new == [NoOp EXCEPT !.pc = "announce", !.row = row]
  <1>1. /\ op[s] = NoOp /\ Deployed /\ TakeLock(s) /\ op' = [op EXCEPT ![s] = new]
        /\ UNCHANGED <<site, versions, route, script, bundles, siteHour, charged, lastKey, siteFaults>>
    BY DEF Unshare, hostVars, clockVars, boundVars
  <1>2. /\ row \in SiteRows /\ row.id = site.id /\ row.current = site.current
        /\ row.accrued = site.accrued
    <2>1. site \in SiteRows /\ 0 \in 0 .. MaxKeys
      BY RowFacts, SiteBasics
    <2> QED
      BY <2>1 DEF SiteRows
  <1> HIDE DEF row
  <1>3. new \in Ops /\ new.pc = "announce" /\ new.row = row
    BY <1>2, SiteBasics DEF Ops, OpPoints, NoOp
  <1> HIDE DEF new
  <1>4. row.accrued <= siteHour /\ site.accrued <= row.accrued
    BY <1>2, RowFacts DEF SiteRows
  <1> QED
    BY <1>1, <1>2, <1>3, <1>4, RowFacts, TakesLock

LEMMA AccrueUsageKeeps ==
    ASSUME SitesInv, NEW s \in SiteSlots, AccrueUsage(s), Tangles
    PROVE  SitesInv'
  <1>1. PICK pause \in {site.paused, "no", "cap"} :
           op' = [op EXCEPT ![s] = [NoOp EXCEPT
                 !.pc = IF pause = site.paused THEN "commit" ELSE "announce",
                 !.row = [site EXCEPT !.accrued = siteHour, !.paused = pause]]]
    BY DEF AccrueUsage
  <1>2. /\ op[s] = NoOp /\ Deployed /\ TakeLock(s)
        /\ UNCHANGED <<site, versions, route, script, bundles, siteHour, charged, lastKey, siteFaults>>
    BY DEF AccrueUsage, hostVars, clockVars, boundVars
  <1>3. PICK pc \in {"commit", "announce"} :
           pc = IF pause = site.paused THEN "commit" ELSE "announce"
    OBVIOUS
  <1> DEFINE row == [site EXCEPT !.accrued = siteHour, !.paused = pause]
             new == [NoOp EXCEPT !.pc = pc, !.row = row]
  <1>4. /\ row \in SiteRows /\ row.id = site.id /\ row.current = site.current
        /\ row.accrued = siteHour /\ row.paused = pause
        /\ row.access = site.access /\ row.key = site.key
    BY RowFacts DEF SiteRows
  <1>5. op' = [op EXCEPT ![s] = new]
    BY <1>1, <1>3
  <1> HIDE DEF row
  <1>6. new \in Ops /\ new.pc = pc /\ new.row = row
    BY <1>4, SiteBasics DEF Ops, OpPoints, NoOp
  <1> HIDE DEF new
  <1>7. pc = "commit" => RouteOf(row) = RouteOf(site)
    BY <1>3, <1>4 DEF RouteOf
  <1>8. row.accrued <= siteHour /\ site.accrued <= row.accrued
    BY <1>4, RowFacts
  <1> QED
    BY <1>2, <1>4, <1>5, <1>6, <1>7, <1>8, RowFacts, TakesLock

LEMMA RollBackKeeps ==
    ASSUME SitesInv, NEW s \in SiteSlots, RollBack(s), Tangles
    PROVE  SitesInv'
  <1>1. /\ op[s].pc = "roll" /\ Go(s, "commit")
        /\ script' = [script EXCEPT ![op[s].row.id] = op[s].bundle]
        /\ UNCHANGED <<site, versions, siteLock, route, bundles, siteHour, charged, lastKey, unshared,
                       switches, siteFaults>>
    BY DEF RollBack, clockVars, boundVars
  <1>2. SiteTypes /\ VersionsNumbered /\ ChargedBefore /\ LockAt(s) /\ WorksAt(s)
    BY DEF SitesInv, RowsInv
  <1>3. op[s] \in Ops /\ op[s].row.id \in SiteIds /\ op[s].bundle \in Bundles
    BY <1>1, <1>2 DEF SiteTypes, WorksAt, Ops, SiteRows
  <1>4. /\ op' \in [SiteSlots -> Ops] /\ op'[s].pc = "commit"
        /\ op'[s].row = op[s].row
        /\ \A t \in SiteSlots : t # s => op'[t] = op[t]
    BY <1>1, <1>2, GoFacts DEF SiteTypes, OpPoints
  <1>5. /\ script'[op[s].row.id] = op[s].bundle
        /\ \A id \in SiteIds : id # op[s].row.id => script'[id] = script[id]
    BY <1>1, <1>2, <1>3 DEF SiteTypes
  <1>6. siteLock = s /\ op[s].row.id = site.id
    BY <1>1, <1>2 DEF LockAt, HeldPoints, DeployPoints
  <1>7. SiteTypes' /\ VersionsNumbered' /\ ChargedBefore'
    BY <1>1, <1>2, <1>3, <1>4 DEF SiteTypes, VersionsNumbered, ChargedBefore, Numbers
  <1>8. \A id \in SiteIds : script'[id] = script[id] \/ script'[id] # "none"
    BY <1>3, <1>5, SiteBasics
  <1>9. WorksAt(s)'
    BY <1>1, <1>2, <1>4, <1>6 DEF WorksAt, DeployPoints
  <1>10. LockAt(s)'
    BY <1>1, <1>2, <1>4, <1>6 DEF LockAt, HeldPoints, DeployPoints, Numbers
  <1>11. RowsInv'
    BY <1>1, <1>4, <1>6, <1>7, <1>8, <1>9, <1>10, RowsMove DEF SitesInv
  <1>12. ASSUME Untangled(s)
         PROVE  Untangled(s)'
    <2>1. HostRests /\ op[s].bundle = BundleOf(op[s].row.current) /\ route = RouteOf(op[s].row)
      BY <1>1, <1>12 DEF Untangled, HostAt
    <2>2. BundlesThere' /\ OthersGone'
      BY <1>1, <1>5, <1>6, <2>1 DEF HostRests, BundlesThere, OthersGone
    <2>3. op'[s].row.current = op[s].row.current /\ script'[site'.id] = op[s].bundle
      BY <1>1, <1>4, <1>5, <1>6
    <2>4. BundleOf(op[s].row.current)' = BundleOf(op[s].row.current)
      BY <1>1, <1>4 DEF BundleOf
    <2>5. route' = RouteOf(op[s].row)'
      BY <1>1, <1>4, <2>1 DEF RouteOf
    <2> QED
      BY <1>4, <2>1, <2>2, <2>3, <2>4, <2>5 DEF Untangled, HostAt, DeployPoints
  <1> QED
    BY <1>1, <1>4, <1>6, <1>11, <1>12, HostMoves, SiteBasics DEF SitesInv

LEMMA AnnounceKeeps ==
    ASSUME SitesInv, NEW s \in SiteSlots, Announce(s), Tangles
    PROVE  SitesInv'
  <1>1. /\ op[s].pc = "announce" /\ route' = RouteOf(op[s].row) /\ Go(s, "commit")
        /\ UNCHANGED <<site, versions, siteLock, script, bundles, siteHour, charged, lastKey,
                       unshared, switches, siteFaults>>
    BY DEF Announce, clockVars, boundVars
  <1>2. SiteTypes /\ VersionsNumbered /\ ChargedBefore /\ LockAt(s) /\ WorksAt(s)
    BY DEF SitesInv, RowsInv
  <1>3. op[s] \in Ops /\ op[s].row.id \in SiteIds
    BY <1>1, <1>2 DEF SiteTypes, WorksAt, Ops, SiteRows
  <1>4. /\ op' \in [SiteSlots -> Ops] /\ op'[s].pc = "commit" /\ op'[s].row = op[s].row
        /\ \A t \in SiteSlots : t # s => op'[t] = op[t]
    BY <1>1, <1>2, GoFacts DEF SiteTypes, OpPoints
  <1>5. route'.script \in SiteIds
    BY <1>1, <1>3 DEF RouteOf
  <1>6. siteLock = s /\ op[s].row.id = site.id /\ op[s].row.current = site.current
    BY <1>1, <1>2 DEF LockAt, HeldPoints, DeployPoints
  <1>7. SiteTypes' /\ VersionsNumbered' /\ ChargedBefore'
    BY <1>1, <1>2, <1>4, <1>5 DEF SiteTypes, VersionsNumbered, ChargedBefore, Numbers
  <1>8. WorksAt(s)'
    BY <1>1, <1>2, <1>4 DEF WorksAt, DeployPoints
  <1>9. LockAt(s)'
    BY <1>1, <1>2, <1>4, <1>6 DEF LockAt, HeldPoints, DeployPoints, Numbers
  <1>10. RowsInv'
    BY <1>1, <1>4, <1>6, <1>7, <1>8, <1>9, RowsMove DEF SitesInv
  <1>11. ASSUME Untangled(s)
         PROVE  Untangled(s)'
    <2>1. HostRests
      BY <1>1, <1>11 DEF Untangled, HostAt
    <2>2. BundlesThere' /\ OthersGone'
      BY <1>1, <2>1 DEF HostRests, BundlesThere, OthersGone
    <2>3. site.current # 0
      BY <1>2, <1>6, <1>1, SiteBasics DEF LockAt, Numbers, SiteTypes, VersionRows
    <2>4. script[site.id] = BundleOf(site.current)
      BY <2>1, <2>3 DEF HostRests, ScriptFollows, Deployed
    <2>5. BundleOf(op[s].row.current)' = BundleOf(site.current)
      BY <1>1, <1>4, <1>6 DEF BundleOf
    <2>6. route' = RouteOf(op[s].row)'
      BY <1>1, <1>4 DEF RouteOf
    <2> QED
      BY <1>1, <1>4, <2>2, <2>4, <2>5, <2>6 DEF Untangled, HostAt, DeployPoints
  <1> QED
    BY <1>1, <1>4, <1>6, <1>10, <1>11, HostMoves, SiteBasics DEF SitesInv

LEMMA CommitRowKeeps ==
    ASSUME SitesInv, NEW s \in SiteSlots, CommitRow(s), Tangles
    PROVE  SitesInv'
  <1>1. /\ op[s].pc = "commit" /\ site' = op[s].row /\ siteLock' = "free"
        /\ charged' = [h \in DOMAIN charged |->
                          IF site.accrued <= h /\ h < op[s].row.accrued THEN charged[h] + 1
                          ELSE charged[h]]
        /\ op' = [op EXCEPT ![s] = NoOp]
        /\ UNCHANGED <<versions, route, script, bundles, siteHour, lastKey, switches, siteFaults>>
    BY DEF CommitRow, hostVars, boundVars
  <1>2. SiteTypes /\ VersionsNumbered /\ ChargedBefore /\ LockAt(s) /\ WorksAt(s)
    BY DEF SitesInv, RowsInv
  <1>3. op[s] \in Ops /\ op[s].row \in SiteRows /\ op[s].row.id # 0
    BY <1>1, <1>2 DEF SiteTypes, WorksAt, Ops
  <1>4. /\ op' \in [SiteSlots -> Ops] /\ op'[s] = NoOp
        /\ \A t \in SiteSlots : t # s => op'[t] = op[t]
    BY <1>1, <1>2, SiteBasics, PutFacts DEF SiteTypes
  <1>5. /\ siteLock = s /\ site'.id = site.id /\ site'.current \in Numbers
        /\ site.accrued <= site'.accrued /\ site'.accrued <= siteHour
    BY <1>1, <1>2 DEF LockAt, HeldPoints, DeployPoints
  <1>6. ASSUME NEW h \in 0 .. LastHour
        PROVE  /\ charged'[h] \in Nat /\ charged'[h] <= 1
               /\ charged'[h] # 0 => h < siteHour /\ h < site'.accrued
    <2>1. charged[h] \in Nat /\ charged[h] <= 1 /\ (charged[h] # 0 => h < siteHour /\ h < site.accrued)
      BY <1>1, <1>2, <1>3, <1>5 DEF SiteTypes, ChargedBefore
    <2>2. site.accrued \in Nat /\ site'.accrued \in Nat /\ siteHour \in Nat /\ LastHour \in Nat
      BY <1>1, <1>2, <1>3, SiteBasics DEF SiteTypes, SiteRows
    <2>3. charged'[h] = IF site.accrued <= h /\ h < site'.accrued THEN charged[h] + 1 ELSE charged[h]
      BY <1>1, <1>2 DEF SiteTypes
    <2> QED
      BY <1>5, <2>1, <2>2, <2>3
  <1>7. charged' \in [0 .. LastHour -> Nat]
    <2>1. DOMAIN charged = 0 .. LastHour
      BY <1>2 DEF SiteTypes
    <2>2. charged' = [h \in 0 .. LastHour |-> charged'[h]]
      BY <1>1, <2>1
    <2> QED
      BY <1>6, <2>2
  <1>8. SiteTypes' /\ ChargedBefore'
    BY <1>1, <1>2, <1>3, <1>4, <1>5, <1>6, <1>7 DEF SiteTypes, ChargedBefore
  <1>9. VersionsNumbered'
    BY <1>1, <1>2, <1>3, <1>5 DEF VersionsNumbered, Numbers
  <1>10. WorksAt(s)' /\ LockAt(s)'
    BY <1>1, <1>4, SiteBasics DEF WorksAt, LockAt, HeldPoints, DeployPoints
  <1>11. RowsInv'
    BY <1>1, <1>4, <1>5, <1>8, <1>9, <1>10, RowsMove DEF SitesInv
  <1>12. ASSUME Untangled(s)
         PROVE  Untangled(s)'
    <2>1. /\ BundlesThere /\ OthersGone /\ route = RouteOf(op[s].row)
          /\ script[site.id] = BundleOf(op[s].row.current)
      BY <1>1, <1>12 DEF Untangled, HostAt
    <2>2. BundlesThere' /\ OthersGone'
      BY <1>1, <1>5, <2>1 DEF BundlesThere, OthersGone
    <2>3. Deployed'
      BY <1>2, <1>5, SiteBasics DEF Numbers, SiteTypes, VersionRows, Deployed
    <2>4. RouteFollows' /\ ScriptFollows'
      <3>1. RouteOf(site)' = RouteOf(op[s].row)
        BY <1>1 DEF RouteOf
      <3>2. BundleOf(site.current)' = BundleOf(op[s].row.current)
        BY <1>1 DEF BundleOf
      <3> QED
        BY <1>1, <1>5, <2>1, <2>3, <3>1, <3>2 DEF RouteFollows, ScriptFollows
    <2> QED
      BY <1>4, <2>2, <2>4, SiteBasics DEF Untangled, HostAt, DeployPoints, HostRests
  <1>13. op[s] # NoOp
    BY <1>1, SiteBasics
  <1> QED
    BY <1>1, <1>4, <1>5, <1>11, <1>12, <1>13, HostMoves DEF SitesInv

-----------------------------------------------------------------------------
(* Without the lock                                                        *)

LEMMA SwitchKeeps ==
    ASSUME SitesInv, NEW s \in SiteSlots, Switch(s), Tangles
    PROVE  SitesInv'
  <1>1. PICK reason \in {"no", "cap", "kill_switch"} : site' = [site EXCEPT !.paused = reason]
    BY DEF Switch
  <1>2. /\ op[s] = NoOp /\ Deployed /\ siteLock = "free"
        /\ op' = [op EXCEPT ![s] = [NoOp EXCEPT !.pc = "switched", !.row = site']]
        /\ UNCHANGED <<versions, siteLock, route, script, bundles, siteHour, charged, lastKey,
                       unshared, siteFaults>>
    BY DEF Switch, hostVars, clockVars
  <1>3. SiteTypes /\ VersionsNumbered /\ ChargedBefore /\ LockAt(s) /\ WorksAt(s)
    BY DEF SitesInv, RowsInv
  <1>4. /\ site' \in SiteRows /\ site'.id = site.id /\ site'.current = site.current
        /\ site'.accrued = site.accrued
    BY <1>1, <1>3 DEF SiteTypes, SiteRows
  <1> DEFINE new == [NoOp EXCEPT !.pc = "switched", !.row = site']
  <1>5. new \in Ops /\ new.pc = "switched" /\ new.row = site'
    BY <1>4, SiteBasics DEF Ops, OpPoints, NoOp
  <1> HIDE DEF new
  <1>6. /\ op' \in [SiteSlots -> Ops] /\ op'[s] = new
        /\ \A t \in SiteSlots : t # s => op'[t] = op[t]
    BY <1>2, <1>3, <1>5, PutFacts DEF new, SiteTypes
  <1>7. SiteTypes' /\ VersionsNumbered' /\ ChargedBefore'
    BY <1>2, <1>3, <1>4, <1>6 DEF SiteTypes, VersionsNumbered, ChargedBefore, Numbers
  <1>8. site.id # 0
    BY <1>2, <1>3 DEF VersionsNumbered, Deployed
  <1>9. WorksAt(s)' /\ LockAt(s)'
    BY <1>2, <1>4, <1>5, <1>6, <1>8, SiteBasics DEF WorksAt, LockAt, HeldPoints, DeployPoints
  <1>10. RowsInv'
    BY <1>2, <1>4, <1>6, <1>7, <1>9, RowsMove DEF SitesInv
  <1>11. ASSUME Untangled(s)
         PROVE  Untangled(s)'
    <2>1. HostRests
      BY <1>2, <1>11, SiteBasics DEF Untangled
    <2>2. BundlesThere' /\ OthersGone' /\ Deployed'
      BY <1>2, <1>4, <2>1 DEF HostRests, BundlesThere, OthersGone, Deployed
    <2>3. ScriptFollows'
      BY <1>2, <1>4, <2>1 DEF HostRests, ScriptFollows, Deployed, BundleOf
    <2> QED
      BY <1>5, <1>6, <2>2, <2>3 DEF Untangled, HostAt, DeployPoints
  <1>12. op'[s] # NoOp
    BY <1>5, <1>6, SiteBasics
  <1> QED
    BY <1>2, <1>4, <1>6, <1>10, <1>11, <1>12, HostMoves DEF SitesInv

LEMMA SwitchRouteKeeps ==
    ASSUME SitesInv, NEW s \in SiteSlots, SwitchRoute(s), Tangles
    PROVE  SitesInv'
  <1>1. /\ op[s].pc = "switched" /\ route' = RouteOf(op[s].row) /\ op' = [op EXCEPT ![s] = NoOp]
        /\ UNCHANGED <<site, versions, siteLock, script, bundles, siteHour, charged, lastKey,
                       unshared, switches, siteFaults>>
    BY DEF SwitchRoute, clockVars, boundVars
  <1>2. SiteTypes /\ LockAt(s) /\ WorksAt(s)
    BY DEF SitesInv, RowsInv
  <1>3. op[s] \in Ops /\ op[s].row.id \in SiteIds
    BY <1>1, <1>2 DEF SiteTypes, WorksAt, Ops, SiteRows
  <1>4. route'.script \in SiteIds /\ siteLock # s
    BY <1>1, <1>2, <1>3 DEF RouteOf, LockAt, HeldPoints, DeployPoints
  <1>5. /\ RowsInv' /\ op'[s] = NoOp
        /\ \A t \in SiteSlots : t # s => op'[t] = op[t]
    BY <1>1, <1>2, <1>4, IdleRows DEF SiteTypes
  <1>6. ASSUME Untangled(s)
        PROVE  Untangled(s)'
    <2>1. op[s].row = site /\ BundlesThere /\ OthersGone /\ Deployed /\ ScriptFollows
      BY <1>1, <1>6 DEF Untangled, HostAt
    <2>2. BundlesThere' /\ OthersGone' /\ Deployed' /\ ScriptFollows'
      BY <1>1, <2>1 DEF BundlesThere, OthersGone, Deployed, ScriptFollows, BundleOf
    <2>3. RouteFollows'
      BY <1>1, <2>1, <2>2 DEF RouteFollows, RouteOf
    <2> QED
      BY <1>5, <2>2, <2>3, SiteBasics DEF Untangled, HostAt, DeployPoints, HostRests
  <1>7. Unlocked(s) /\ op[s] # NoOp
    BY <1>1, SiteBasics DEF Unlocked
  <1> QED
    BY <1>1, <1>5, <1>6, <1>7, HostMoves DEF SitesInv

LEMMA RemoveRouteKeeps ==
    ASSUME SitesInv, NEW s \in SiteSlots, RemoveRoute(s), Tangles
    PROVE  SitesInv'
  <1> DEFINE new == [NoOp EXCEPT !.pc = "remove", !.row = site]
  <1>1. /\ op[s] = NoOp /\ site.id # 0 /\ op' = [op EXCEPT ![s] = new] /\ route' = NoRoute
        /\ UNCHANGED <<site, versions, siteLock, script, bundles, siteHour, charged, lastKey,
                       unshared, switches, siteFaults>>
    BY DEF RemoveRoute, clockVars, boundVars
  <1>2. SiteTypes /\ VersionsNumbered /\ ChargedBefore /\ LockAt(s)
    BY DEF SitesInv, RowsInv
  <1>3. new \in Ops /\ new.pc = "remove" /\ new.row = site
    BY <1>2, SiteBasics DEF SiteTypes, Ops, OpPoints, NoOp
  <1> HIDE DEF new
  <1>4. /\ op' \in [SiteSlots -> Ops] /\ op'[s] = new
        /\ \A t \in SiteSlots : t # s => op'[t] = op[t]
    BY <1>1, <1>2, <1>3, PutFacts DEF SiteTypes
  <1>5. siteLock # s /\ route'.script = 0
    BY <1>1, <1>2, SiteBasics DEF LockAt, HeldPoints, DeployPoints, NoRoute
  <1>6. SiteTypes' /\ VersionsNumbered' /\ ChargedBefore'
    BY <1>1, <1>2, <1>4, <1>5 DEF SiteTypes, VersionsNumbered, ChargedBefore, Numbers
  <1>7. WorksAt(s)' /\ LockAt(s)'
    BY <1>1, <1>3, <1>4, <1>5 DEF WorksAt, LockAt, HeldPoints, DeployPoints
  <1>8. RowsInv'
    BY <1>1, <1>4, <1>6, <1>7, RowsMove DEF SitesInv
  <1>9. ASSUME Untangled(s)
        PROVE  Untangled(s)'
    <2>1. HostRests
      BY <1>1, <1>9, SiteBasics DEF Untangled
    <2>2. BundlesThere' /\ OthersGone'
      BY <1>1, <2>1 DEF HostRests, BundlesThere, OthersGone
    <2>3. route' = NoRoute'
      BY <1>1 DEF NoRoute
    <2> QED
      BY <1>1, <1>3, <1>4, <2>2, <2>3 DEF Untangled, HostAt, DeployPoints
  <1>10. op'[s] # NoOp /\ Unlocked(s)'
    BY <1>3, <1>4, SiteBasics DEF Unlocked
  <1> QED
    BY <1>1, <1>4, <1>8, <1>9, <1>10, HostMoves DEF SitesInv

LEMMA RemoveScriptKeeps ==
    ASSUME SitesInv, NEW s \in SiteSlots, RemoveScript(s), Tangles
    PROVE  SitesInv'
  <1>1. /\ op[s].pc = "remove" /\ Go(s, "delete")
        /\ script' = [script EXCEPT ![op[s].row.id] = "gone"]
        /\ UNCHANGED <<site, versions, siteLock, route, bundles, siteHour, charged, lastKey,
                       unshared, switches, siteFaults>>
    BY DEF RemoveScript, clockVars, boundVars
  <1>2. SiteTypes /\ VersionsNumbered /\ ChargedBefore /\ LockAt(s) /\ WorksAt(s)
    BY DEF SitesInv, RowsInv
  <1>3. op[s] \in Ops /\ op[s].row.id \in SiteIds
    BY <1>1, <1>2 DEF SiteTypes, WorksAt, Ops, SiteRows
  <1>4. /\ op' \in [SiteSlots -> Ops] /\ op'[s].pc = "delete" /\ op'[s].row = op[s].row
        /\ \A t \in SiteSlots : t # s => op'[t] = op[t]
    BY <1>1, <1>2, GoFacts DEF SiteTypes, OpPoints
  <1>5. /\ script'[op[s].row.id] = "gone" /\ script' \in [SiteIds -> Bundles \cup {"none", "gone"}]
        /\ \A id \in SiteIds : id # op[s].row.id => script'[id] = script[id]
    BY <1>1, <1>2, <1>3 DEF SiteTypes
  <1>6. siteLock # s
    BY <1>1, <1>2 DEF LockAt, HeldPoints, DeployPoints
  <1>7. SiteTypes' /\ VersionsNumbered' /\ ChargedBefore'
    BY <1>1, <1>2, <1>4, <1>5 DEF SiteTypes, VersionsNumbered, ChargedBefore, Numbers
  <1>8. \A id \in SiteIds : script'[id] = script[id] \/ script'[id] # "none"
    BY <1>5
  <1>9. WorksAt(s)' /\ LockAt(s)'
    BY <1>1, <1>2, <1>4, <1>5, <1>6 DEF WorksAt, LockAt, HeldPoints, DeployPoints
  <1>10. RowsInv'
    BY <1>1, <1>4, <1>7, <1>8, <1>9, RowsMove DEF SitesInv
  <1>11. ASSUME Untangled(s)
         PROVE  Untangled(s)'
    <2>1. op[s].row = site /\ BundlesThere /\ OthersGone /\ route = NoRoute
      BY <1>1, <1>11 DEF Untangled, HostAt
    <2>2. BundlesThere' /\ OthersGone'
      BY <1>1, <1>5, <2>1 DEF BundlesThere, OthersGone
    <2>3. script'[site'.id] \notin Bundles
      BY <1>1, <1>5, <2>1, SiteBasics
    <2>4. route' = NoRoute'
      BY <1>1, <2>1 DEF NoRoute
    <2> QED
      BY <1>1, <1>4, <2>1, <2>2, <2>3, <2>4 DEF Untangled, HostAt, DeployPoints
  <1>12. Unlocked(s) /\ op[s] # NoOp
    BY <1>1, SiteBasics DEF Unlocked
  <1> QED
    BY <1>1, <1>4, <1>10, <1>11, <1>12, HostMoves DEF SitesInv

LEMMA RemoveRowKeeps ==
    ASSUME SitesInv, NEW s \in SiteSlots, RemoveRow(s), Tangles
    PROVE  SitesInv'
  <1> DEFINE done == [NoOp EXCEPT !.pc = "prune", !.unused = {v.bundle : v \in versions}]
  <1>1. /\ op[s].pc = "delete"
        /\ UNCHANGED <<siteLock, route, script, bundles, siteHour, charged, lastKey, unshared,
                       switches, siteFaults>>
    BY DEF RemoveRow, hostVars, clockVars, boundVars
  <1>2. SiteTypes /\ VersionsNumbered /\ ChargedBefore /\ LockAt(s) /\ WorksAt(s)
    BY DEF SitesInv, RowsInv
  <1>3. siteLock # s /\ script[op[s].row.id] # "none"
    BY <1>1, <1>2 DEF LockAt, WorksAt, HeldPoints, DeployPoints
  <1>4. Unlocked(s) /\ op[s] # NoOp
    BY <1>1, SiteBasics DEF Unlocked
  <1>5. CASE site.id = op[s].row.id
    <2>1. siteLock = "free" /\ site' = NoSite /\ versions' = {} /\ op' = [op EXCEPT ![s] = done]
      BY <1>5 DEF RemoveRow
    <2>2. {v.bundle : v \in versions} \subseteq Bundles
      BY <1>2 DEF SiteTypes, VersionRows
    <2>3. done \in Ops /\ done.pc = "prune"
      BY <2>2, SiteBasics DEF Ops, OpPoints, NoOp
    <2> HIDE DEF done
    <2>4. /\ op' \in [SiteSlots -> Ops] /\ op'[s] = done
          /\ \A t \in SiteSlots : t # s => op'[t] = op[t]
      BY <1>2, <2>1, <2>3, PutFacts DEF SiteTypes
    <2>5. site' \in SiteRows /\ site'.id = 0 /\ site'.current = 0 /\ site'.accrued = 0
      BY <2>1, SiteBasics DEF NoSite
    <2>6. SiteTypes' /\ VersionsNumbered'
      BY <1>1, <1>2, <2>1, <2>4, <2>5 DEF SiteTypes, VersionsNumbered
    <2>7. ChargedBefore'
      <3>1. siteHour \in Nat
        BY <1>2, SiteBasics DEF SiteTypes
      <3> QED
        BY <1>1, <1>2, <2>5, <3>1 DEF ChargedBefore
    <2>8. WorksAt(s)' /\ LockAt(s)'
      BY <1>1, <1>3, <2>3, <2>4 DEF WorksAt, LockAt, HeldPoints, DeployPoints
    <2>9. RowsInv'
      BY <1>1, <1>3, <1>5, <2>1, <2>4, <2>5, <2>6, <2>7, <2>8, RowsMove DEF SitesInv
    <2>10. ASSUME Untangled(s)
           PROVE  Untangled(s)'
      <3>1. OthersGone /\ route = NoRoute /\ script[site.id] \notin Bundles
        BY <1>1, <2>10 DEF Untangled, HostAt
      <3>2. BundlesThere' /\ OthersGone'
        BY <1>1, <2>1, <3>1 DEF BundlesThere, OthersGone
      <3>3. RouteFollows' /\ ScriptFollows'
        BY <1>1, <2>5, <3>1 DEF RouteFollows, ScriptFollows, Deployed, NoRoute
      <3> QED
        BY <2>3, <2>4, <3>2, <3>3 DEF Untangled, HostAt, DeployPoints, HostRests
    <2> QED
      BY <1>1, <1>4, <2>4, <2>9, <2>10, HostMoves DEF SitesInv
  <1>6. CASE site.id # op[s].row.id
    <2>1. op' = [op EXCEPT ![s] = NoOp] /\ UNCHANGED <<site, versions>>
      BY <1>6 DEF RemoveRow
    <2>2. /\ RowsInv' /\ op'[s] = NoOp
          /\ \A t \in SiteSlots : t # s => op'[t] = op[t]
      BY <1>1, <1>2, <1>3, <2>1, IdleRows DEF SiteTypes
    <2>3. ~Untangled(s)
      BY <1>1, <1>6 DEF Untangled, HostAt
    <2> QED
      BY <1>1, <1>4, <2>1, <2>2, <2>3, HostMoves DEF SitesInv
  <1> QED
    BY <1>5, <1>6

LEMMA OpFailsKeeps ==
    ASSUME SitesInv, NEW s \in SiteSlots, OpFails(s), Tangles
    PROVE  SitesInv'
  <1>1. /\ op[s] # NoOp /\ siteFaults' = siteFaults + 1 /\ op' = [op EXCEPT ![s] = NoOp]
        /\ siteLock' = IF siteLock = s THEN "free" ELSE siteLock
        /\ UNCHANGED <<site, versions, route, script, bundles, siteHour, charged, lastKey>>
    BY DEF OpFails, hostVars, clockVars
  <1>2. siteFaults' \in Nat /\ siteFaults' # 0 /\ bundles' \subseteq Bundles
    BY <1>1 DEF SitesInv, RowsInv, SiteTypes
  <1>3. RowsInv'
    <2>1. UNCHANGED <<site, versions, script, siteHour, charged, lastKey>> /\ route' = route
      BY <1>1
    <2> QED
      BY <1>1, <1>2, <2>1, IdleRows
  <1>4. tangled'
    BY <1>2, Zenon DEF Tangles
  <1> QED
    BY <1>3, <1>4 DEF SitesInv, HostInv

\* The clock moves, or nothing does.
LEMMA HourPassesKeeps ==
    ASSUME SitesInv, (HourPasses /\ Tangles) \/ UNCHANGED sitesVars
    PROVE  SitesInv'
  <1>1. /\ siteHour' = siteHour \/ (siteHour < LastHour /\ siteHour' = siteHour + 1)
        /\ UNCHANGED <<site, versions, siteLock, route, script, bundles, op, charged, lastKey,
                       unshared, switches, siteFaults>>
    BY DEF HourPasses, hostVars, boundVars, sitesVars
  <1>2. SiteTypes /\ VersionsNumbered /\ ChargedBefore /\ \A s \in SiteSlots : WorksAt(s) /\ LockAt(s)
    BY DEF SitesInv, RowsInv
  <1>3. siteHour \in Nat /\ site.accrued \in Nat /\ LastHour \in Nat
    BY <1>2, SiteBasics DEF SiteTypes, SiteRows
  <1>4. SiteTypes' /\ VersionsNumbered'
    BY <1>1, <1>2, <1>3 DEF SiteTypes, VersionsNumbered, Numbers
  <1>5. ChargedBefore'
    BY <1>1, <1>2, <1>3 DEF ChargedBefore
  <1>6. ASSUME NEW s \in SiteSlots
        PROVE  WorksAt(s)' /\ LockAt(s)'
    <2>1. LatestVersion' = LatestVersion /\ op[s].row.accrued \in Nat
      BY <1>1, <1>2, SiteBasics DEF LatestVersion, SiteTypes, Ops, SiteRows
    <2> QED
      BY <1>1, <1>2, <1>3, <2>1 DEF WorksAt, LockAt, Numbers
  <1>7. ASSUME ~tangled'
        PROVE  /\ ~Meets'
               /\ \A s \in SiteSlots : HostAt(s)'
               /\ (\A s \in SiteSlots : op[s].pc \in {"idle", "deploy"})' => HostRests'
    <2>1. /\ ~Meets' /\ \A s \in SiteSlots : HostAt(s)
          /\ (\A s \in SiteSlots : op[s].pc \in {"idle", "deploy"}) => HostRests
      <3>1. CASE Tangles
        BY <1>7, <3>1 DEF Tangles, SitesInv, HostInv
      <3>2. CASE UNCHANGED sitesVars
        BY <1>7, <3>2 DEF sitesVars, SitesInv, HostInv, Meets, Unlocked, NoOp, NoSite
      <3> QED
        BY <3>1, <3>2
    <2>2. HostRests' = HostRests /\ BundlesThere' = BundlesThere /\ OthersGone' = OthersGone
          /\ ScriptFollows' = ScriptFollows /\ Deployed' = Deployed /\ NoRoute' = NoRoute
      BY <1>1
      DEF HostRests, BundlesThere, OthersGone, RouteFollows, ScriptFollows, Deployed, RouteOf, BundleOf,
          NoRoute
    <2>3. ASSUME NEW s \in SiteSlots
          PROVE  HostAt(s)'
      <3>1. /\ RouteOf(site)' = RouteOf(site) /\ RouteOf(op[s].row)' = RouteOf(op[s].row)
            /\ BundleOf(op[s].row.current)' = BundleOf(op[s].row.current)
        BY <1>1 DEF RouteOf, BundleOf
      <3> QED
        BY <1>1, <2>1, <2>2, <3>1 DEF HostAt
    <2> QED
      BY <1>1, <2>1, <2>2, <2>3
  <1> QED
    BY <1>4, <1>6, <1>7, <1>5 DEF SitesInv, RowsInv, HostInv

-----------------------------------------------------------------------------
LEMMA SitesStart == SitesInit => SitesInv
  <1> SUFFICES ASSUME SitesInit
               PROVE  SitesInv
    OBVIOUS
  <1>1. /\ site = NoSite /\ versions = {} /\ siteLock = "free" /\ route = NoRoute
        /\ script = [id \in SiteIds |-> "none"] /\ bundles = {}
        /\ op = [s \in SiteSlots |-> NoOp]
        /\ siteHour = 0 /\ charged = [h \in 0 .. LastHour |-> 0] /\ lastKey = 0 /\ siteFaults = 0
    BY DEF SitesInit
  <1>2. site.id = 0 /\ site.current = 0 /\ site.accrued = 0 /\ route.script = 0
    BY <1>1 DEF NoSite, NoRoute
  <1>3. SiteTypes /\ VersionsNumbered /\ ChargedBefore
    BY <1>1, <1>2, SiteBasics DEF SiteTypes, VersionsNumbered, ChargedBefore
  <1>4. ASSUME NEW s \in SiteSlots
        PROVE  WorksAt(s) /\ LockAt(s) /\ HostAt(s) /\ op[s] = NoOp
    BY <1>1, SiteBasics DEF WorksAt, LockAt, HostAt, HeldPoints, DeployPoints
  <1>5. HostRests
    BY <1>1, <1>2, SiteBasics
    DEF HostRests, BundlesThere, OthersGone, RouteFollows, ScriptFollows, Deployed
  <1> QED
    BY <1>3, <1>4, <1>5 DEF SitesInv, RowsInv, HostInv, Meets

\* For any bundles, rows and operations: while no operation without the lock
\* met another and none failed, the host has what the rows say whenever all
\* rest; and no hour is ever charged twice, whoever counts and whatever fails
\* (vm-api/src/sites.ts, site-host/src/usage.ts).
THEOREM SiteIsKept == SitesSpec => []SiteKept
  <1>1. SitesInit => SitesInv
    BY SitesStart
  <1>2. ASSUME SitesInv, [SitesNext]_sitesVars
        PROVE  SitesInv'
    <2>1. CASE UNCHANGED sitesVars
      BY <1>2, <2>1, HourPassesKeeps
    <2>2. CASE SitesNext
      <3>1. Tangles
        BY <2>2 DEF SitesNext, Tangles
      <3>2. CASE HourPasses
        BY <1>2, <3>1, <3>2, HourPassesKeeps
      <3>3. CASE \E s \in SiteSlots : SiteStep(s)
        <4>1. PICK s \in SiteSlots : SiteStep(s)
          BY <3>3
        <4>2. CASE \/ ClaimSite(s) \/ LockForDeploy(s) \/ PutScript(s) \/ DeployRoute(s)
                   \/ CommitDeploy(s) \/ DeleteUnusedBundles(s)
          BY <1>2, <3>1, <4>2, ClaimSiteKeeps, LockForDeployKeeps, PutScriptKeeps, DeployRouteKeeps,
             CommitDeployKeeps, DeleteUnusedBundlesKeeps
        <4>3. CASE \/ LockForRollback(s) \/ RollBack(s) \/ Share(s) \/ Unshare(s) \/ AccrueUsage(s)
                   \/ Announce(s) \/ CommitRow(s)
          BY <1>2, <3>1, <4>3, LockForRollbackKeeps, RollBackKeeps, ShareKeeps, UnshareKeeps,
             AccrueUsageKeeps, AnnounceKeeps, CommitRowKeeps
        <4>4. CASE \/ Switch(s) \/ SwitchRoute(s) \/ RemoveRoute(s) \/ RemoveScript(s)
                   \/ RemoveRow(s) \/ OpFails(s)
          BY <1>2, <3>1, <4>4, SwitchKeeps, SwitchRouteKeeps, RemoveRouteKeeps, RemoveScriptKeeps,
             RemoveRowKeeps, OpFailsKeeps
        <4> QED
          BY <4>1, <4>2, <4>3, <4>4 DEF SiteStep
      <3> QED
        BY <2>2, <3>2, <3>3 DEF SitesNext
    <2> QED
      BY <1>2, <2>1, <2>2
  <1>3. SitesInv => SiteKept
    <2> SUFFICES ASSUME SitesInv
                 PROVE  HostFollowsRows /\ HoursChargedOnce
      BY DEF SiteKept
    <2>1. HoursChargedOnce
      <3>1. DOMAIN charged = 0 .. LastHour
        BY DEF SitesInv, RowsInv, SiteTypes
      <3> QED
        BY <3>1 DEF SitesInv, RowsInv, ChargedBefore, HoursChargedOnce
    <2>2. HostFollowsRows
      <3> SUFFICES ASSUME ~tangled, \A s \in SiteSlots : op[s] = NoOp
                   PROVE  /\ \A v \in versions : v.bundle \in bundles
                          /\ IF Deployed
                             THEN route = RouteOf(site) /\ script[site.id] = BundleOf(site.current)
                             ELSE site.id = 0 => route = NoRoute /\ \A id \in SiteIds : script[id] \notin Bundles
        BY DEF HostFollowsRows
      <3>1. HostRests
        BY SiteBasics DEF SitesInv, HostInv
      <3> QED
        BY <3>1, SiteBasics DEF HostRests, BundlesThere, OthersGone, RouteFollows, ScriptFollows
    <2> QED
      BY <2>1, <2>2
  <1> QED
    BY <1>1, <1>2, <1>3, PTL DEF SitesSpec

-----------------------------------------------------------------------------
(* Winston's mailbox.                                                      *)

AskRows == [pc : {"idle", "turn_on", "change"}, owner : Owners \cup {"free"}, name : Names \cup {"none"}]
ReceiveRows ==
    [pc : {"idle", "store", "delete", "match"}, mail : Mails \cup {"none"}, found : SUBSET Owners,
     missing : SUBSET Names, stored : SUBSET (Owners \X Mails)]
SendRows == [pc : {"idle", "checked", "accepted"}, owner : Owners \cup {"free"}]

AddressTypes ==
    /\ user \in [Owners -> {"here", "leaving", "retired", "gone"}]
    /\ holder \in [Names -> Owners \cup {"free"}]
    /\ retired \subseteq Names
    /\ asking \in [AskSlots -> AskRows]
    /\ \A a \in AskSlots : asking[a] # NoAsk => asking[a].owner \in Owners /\ asking[a].name \in Names
    /\ everHad \in [Names -> SUBSET Owners]
ReceiveTypes ==
    /\ mail \in [Mails -> MessageRows] /\ receiveJob \in [Mails -> BOOLEAN]
    /\ receiving \in [ReceiveSlots -> ReceiveRows]
    /\ \A w \in ReceiveSlots :
          IF receiving[w].pc = "idle" THEN receiving[w] = NoReceive ELSE receiving[w].mail \in Mails
    /\ news \subseteq Owners \X Mails /\ matched \subseteq news
    /\ served \in [Mails -> SUBSET Names]
SendTypes ==
    /\ sending \in [SendSlots -> SendRows]
    /\ \A x \in SendSlots : sending[x].pc # "idle" => sending[x].owner \in Owners
    /\ {accepted, sent, unrecorded} \subseteq [Owners -> Nat]

\* Who had an address had it alone, and it is theirs still or put away for good; a request
\* that outlasts either is on record.
OneOwnerEach ==
    \A n \in Names :
        /\ holder[n] # "free" => holder[n] \in everHad[n]
        /\ n \in raced \/ \A u, v \in everHad[n] : u = v
        /\ everHad[n] # {} /\ holder[n] = "free" => n \in retired \cup raced
        /\ holder[n] # "free" /\ user[holder[n]] = "retired" => n \in retired \cup raced
AsksRaced ==
    \A a \in AskSlots :
        asking[a] # NoAsk /\ (user[asking[a].owner] = "retired" \/ asking[a].name \in retired) =>
            asking[a].name \in raced

AddressInv == AddressTypes /\ OneOwnerEach /\ AsksRaced

\* A message with work to do has come; what was served and bounced is among its addresses.
MailHasCome ==
    /\ \A m \in Mails :
          /\ mail[m].raw = "none" => mail[m] = NoMail
          /\ receiveJob[m] => mail[m].raw # "none"
          /\ served[m] \subseteq mail[m].to
    /\ \A w \in ReceiveSlots :
          receiving[w].pc # "idle" =>
              mail[receiving[w].mail].raw # "none" /\ receiving[w].missing \subseteq mail[receiving[w].mail].to

\* While a job stores, each address was served, has no mailbox, or is of one still to be
\* stored in, whose user may be gone by now; after that all were served.
ServedSoFar ==
    \A w \in ReceiveSlots :
        LET r == receiving[w] IN
        /\ r.pc = "store" =>
               \A n \in mail[r.mail].to :
                   \/ n \in served[r.mail] \cup r.missing
                   \/ \E u \in r.found : holder[n] = u \/ user[u] = "gone"
        /\ r.pc \in {"delete", "match"} => served[r.mail] = mail[r.mail].to

ReceiveInv == ReceiveTypes /\ MailHasCome /\ ServedSoFar /\ EveryRecipientServed /\ NewsMatched
SendInv == SendTypes /\ SentOnRecord
MailboxInv == AddressInv /\ ReceiveInv /\ SendInv

-----------------------------------------------------------------------------
(* Winston's mailbox: its addresses.                                       *)

LEMMA AddressesBegin == MailboxInit => AddressInv
  <1> SUFFICES ASSUME MailboxInit
               PROVE  AddressInv
    OBVIOUS
  <1> USE MailboxAssumption
  <1>1. NoAsk \in AskRows
    BY DEF NoAsk, AskRows
  <1>2. /\ user = [u \in Owners |-> "here"] /\ holder \in [Names -> Owners \cup {"free"}]
        /\ retired = {} /\ asking = [a \in AskSlots |-> NoAsk]
        /\ everHad = [n \in Names |-> {holder[n]} \ {"free"}]
    BY DEF MailboxInit
  <1>3. AddressTypes
    BY <1>1, <1>2 DEF AddressTypes
  <1>4. OneOwnerEach
    BY <1>2 DEF OneOwnerEach
  <1>5. AsksRaced
    BY <1>2 DEF AsksRaced
  <1> QED BY <1>3, <1>4, <1>5 DEF AddressInv

\* A user who goes or stays takes no address along as long as nobody is newly retired.
LEMMA UsersMove ==
    ASSUME AddressInv, user' \in [Owners -> {"here", "leaving", "retired", "gone"}],
           \A v \in Owners : user'[v] = "retired" => user[v] = "retired",
           UNCHANGED <<holder, retired, asking, everHad, raced>>
    PROVE  AddressInv'
  <1> USE MailboxAssumption
  <1>1. AddressTypes'
    BY DEF AddressInv, AddressTypes
  <1>2. OneOwnerEach'
    BY DEF AddressInv, AddressTypes, OneOwnerEach
  <1>3. AsksRaced'
    BY DEF AddressInv, AddressTypes, AsksRaced
  <1> QED BY <1>1, <1>2, <1>3 DEF AddressInv

LEMMA AskKeeps ==
    ASSUME AddressInv, NEW a \in AskSlots, NEW u \in Owners, NEW n \in Names,
           NEW pc \in {"turn_on", "change"}, user[u] = "here", MailboxNameOk(n),
           asking' = [asking EXCEPT ![a] = [pc |-> pc, owner |-> u, name |-> n]],
           UNCHANGED <<user, holder, retired, everHad, raced>>
    PROVE  AddressInv'
  <1> USE MailboxAssumption
  <1>1. [pc |-> pc, owner |-> u, name |-> n] \in AskRows
    BY DEF AskRows
  <1>2. AddressTypes'
    BY <1>1 DEF AddressInv, AddressTypes
  <1>3. OneOwnerEach'
    BY DEF AddressInv, OneOwnerEach
  <1>4. AsksRaced'
    BY DEF AddressInv, AddressTypes, AsksRaced, MailboxNameOk
  <1> QED BY <1>2, <1>3, <1>4 DEF AddressInv

\* A claim takes an address nobody has; one that was had is retired or raced, and
\* a request for a retired one is on record.
LEMMA ClaimKeeps ==
    ASSUME AddressInv, NEW a \in AskSlots, Claim(a)
    PROVE  AddressInv'
  <1> USE MailboxAssumption
  <1> DEFINE u == asking[a].owner
             n == asking[a].name
  <1>1. /\ asking[a] # NoAsk /\ asking' = [asking EXCEPT ![a] = NoAsk]
        /\ UNCHANGED <<user, retired, raced>> /\ u \in Owners /\ n \in Names
    BY DEF Claim, AddressInv, AddressTypes
  <1>2. NoAsk \in AskRows
    BY DEF NoAsk, AskRows
  <1>3. asking' \in [AskSlots -> AskRows]
          /\ \A b \in AskSlots : asking'[b] # NoAsk => asking'[b] = asking[b]
    BY <1>1, <1>2 DEF AddressInv, AddressTypes
  <1>4. AsksRaced'
    BY <1>1, <1>3 DEF AddressInv, AsksRaced
  <1>5. CASE holder[n] = "free" /\ user[u] # "gone"
    <2>1. holder' = [holder EXCEPT ![n] = u] /\ everHad' = [everHad EXCEPT ![n] = @ \cup {u}]
      BY <1>5 DEF Claim
    <2>2. AddressTypes'
      BY <1>1, <1>3, <2>1 DEF AddressInv, AddressTypes
    <2>3. everHad[n] = {} \/ n \in raced
      BY <1>1, <1>5 DEF AddressInv, OneOwnerEach, AsksRaced
    <2>4. /\ holder'[n] = u /\ everHad'[n] = everHad[n] \cup {u}
          /\ \A k \in Names \ {n} : holder'[k] = holder[k] /\ everHad'[k] = everHad[k]
      BY <1>1, <2>1 DEF AddressInv, AddressTypes
    <2>5. user[u] = "retired" => n \in raced
      BY <1>1 DEF AddressInv, AsksRaced
    <2>6. OneOwnerEach'
      BY <1>1, <2>3, <2>4, <2>5 DEF AddressInv, OneOwnerEach
    <2> QED BY <1>4, <2>2, <2>6 DEF AddressInv
  <1>6. CASE ~(holder[n] = "free" /\ user[u] # "gone")
    <2>1. UNCHANGED <<holder, everHad>>
      BY <1>6 DEF Claim
    <2>2. AddressTypes'
      BY <1>1, <1>3, <2>1 DEF AddressInv, AddressTypes
    <2>3. OneOwnerEach'
      BY <1>1, <2>1 DEF AddressInv, OneOwnerEach
    <2> QED BY <1>4, <2>2, <2>3 DEF AddressInv
  <1> QED BY <1>5, <1>6

LEMMA RetireKeeps ==
    ASSUME AddressInv, NEW u \in Owners, RetireAddresses(u)
    PROVE  AddressInv'
  <1> USE MailboxAssumption
  <1>1. /\ user' = [user EXCEPT ![u] = "retired"] /\ retired' = retired \cup Held(u)
        /\ raced' = raced \cup {asking[a].name : a \in {b \in AskSlots : asking[b] # NoAsk}}
        /\ UNCHANGED <<holder, asking, everHad>>
    BY DEF RetireAddresses
  <1>2. AddressTypes'
    BY <1>1 DEF AddressInv, AddressTypes, Held
  <1>3. OneOwnerEach'
    BY <1>1 DEF AddressInv, AddressTypes, OneOwnerEach, Held
  <1>4. AsksRaced'
    BY <1>1 DEF AsksRaced
  <1> QED BY <1>2, <1>3, <1>4 DEF AddressInv

\* Every address a deletion frees was retired, or raced the retirement.
LEMMA DeleteKeeps ==
    ASSUME AddressInv, NEW u \in Owners, DeleteUser(u)
    PROVE  AddressInv'
  <1> USE MailboxAssumption
  <1>1. /\ user[u] = "retired" /\ user' = [user EXCEPT ![u] = "gone"]
        /\ holder' = [n \in Names |-> IF holder[n] = u THEN "free" ELSE holder[n]]
        /\ UNCHANGED <<retired, asking, everHad, raced>>
    BY DEF DeleteUser
  <1>2. AddressTypes'
    BY <1>1 DEF AddressInv, AddressTypes
  <1>3. OneOwnerEach'
    BY <1>1 DEF AddressInv, AddressTypes, OneOwnerEach
  <1>4. AsksRaced'
    BY <1>1 DEF AddressInv, AddressTypes, AsksRaced
  <1> QED BY <1>2, <1>3, <1>4 DEF AddressInv

-----------------------------------------------------------------------------
(* Winston's mailbox: what it receives.                                    *)

LEMMA ReceivingBegins == MailboxInit => ReceiveInv
  <1> SUFFICES ASSUME MailboxInit
               PROVE  ReceiveInv
    OBVIOUS
  <1>1. /\ mail = [m \in Mails |-> NoMail] /\ receiveJob = [m \in Mails |-> FALSE]
        /\ receiving = [w \in ReceiveSlots |-> NoReceive]
        /\ news = {} /\ matched = {} /\ served = [m \in Mails |-> {}]
    BY DEF MailboxInit
  <1>2. /\ NoReceive \in ReceiveRows /\ NoReceive.pc = "idle"
        /\ NoMail \in MessageRows /\ NoMail.raw = "none" /\ NoMail.to = {}
    BY DEF NoReceive, ReceiveRows, NoMail, MessageRows
  <1>3. ReceiveTypes
    BY <1>1, <1>2 DEF ReceiveTypes
  <1>4. MailHasCome /\ ServedSoFar
    BY <1>1, <1>2 DEF MailHasCome, ServedSoFar
  <1>5. EveryRecipientServed /\ NewsMatched
    BY <1>1, <1>2 DEF EveryRecipientServed, NewsMatched
  <1> QED BY <1>3, <1>4, <1>5 DEF ReceiveInv

\* Whoever has an address keeps it or goes, and who is gone does not come back.
Keeping ==
    /\ \A n \in Names, u \in Owners : holder[n] = u => holder'[n] = u \/ user'[u] = "gone"
    /\ \A u \in Owners : user[u] = "gone" => user'[u] = "gone"

LEMMA ReceivingStays ==
    ASSUME ReceiveInv, Keeping,
           UNCHANGED <<mail, receiveJob, receiving, served, dropped>>,
           \E u \in Owners \cup {"free"} :
              /\ news' = {e \in news : e[1] # u}
              /\ matched' = {e \in matched : e[1] # u}
    PROVE  ReceiveInv'
  <1>1. ReceiveTypes'
    BY DEF ReceiveInv, ReceiveTypes
  <1>2. MailHasCome'
    BY DEF ReceiveInv, MailHasCome
  <1>3. ServedSoFar'
    <2> SUFFICES ASSUME NEW w \in ReceiveSlots, receiving[w].pc = "store",
                        NEW n \in mail[receiving[w].mail].to,
                        NEW u \in receiving[w].found, holder[n] = u \/ user[u] = "gone"
                 PROVE  holder'[n] = u \/ user'[u] = "gone"
      BY DEF ReceiveInv, ServedSoFar
    <2>1. u \in Owners /\ receiving[w].mail \in Mails
      BY DEF ReceiveInv, ReceiveTypes, ReceiveRows
    <2>2. n \in Names
      BY <2>1 DEF ReceiveInv, ReceiveTypes, MessageRows
    <2> QED BY <2>1, <2>2 DEF Keeping
  <1>4. EveryRecipientServed'
    BY DEF ReceiveInv, EveryRecipientServed
  <1>5. NewsMatched'
    BY DEF ReceiveInv, NewsMatched
  <1> QED BY <1>1, <1>2, <1>3, <1>4, <1>5 DEF ReceiveInv

LEMMA MailIsDeleted ==
    ASSUME mail \in [Mails -> MessageRows], NEW m \in Mails,
           mail' = [mail EXCEPT ![m].raw = "gone"]
    PROVE  /\ mail' \in [Mails -> MessageRows] /\ mail'[m].raw = "gone"
           /\ \A k \in Mails \ {m} : mail'[k] = mail[k]
           /\ mail'[m].to = mail[m].to /\ mail'[m].verdict = mail[m].verdict
  BY DEF MessageRows

LEMMA ArrivalKeeps ==
    ASSUME ReceiveInv, NEW m \in Mails, MailArrives(m)
    PROVE  ReceiveInv'
  <1>1. PICK to \in SUBSET Names \ {{}}, verdict \in {"clean", "spam", "virus"} :
           mail' = [mail EXCEPT ![m] = [raw |-> "there", to |-> to, verdict |-> verdict]]
    BY DEF MailArrives
  <1>2. /\ mail[m] = NoMail /\ receiveJob' = [receiveJob EXCEPT ![m] = TRUE]
        /\ UNCHANGED <<user, holder, receiving, news, matched, served, dropped>>
    BY DEF MailArrives, addressVars
  <1>3. /\ mail[m].raw = "none" /\ mail[m].to = {}
    BY <1>2 DEF NoMail
  <1>4. [raw |-> "there", to |-> to, verdict |-> verdict] \in MessageRows
    BY DEF MessageRows
  <1>5. /\ mail' \in [Mails -> MessageRows] /\ mail'[m].raw = "there" /\ mail'[m].to = to
        /\ \A k \in Mails \ {m} : mail'[k] = mail[k]
    BY <1>1, <1>4 DEF ReceiveInv, ReceiveTypes
  <1>6. ReceiveTypes'
    BY <1>2, <1>5 DEF ReceiveInv, ReceiveTypes
  <1>7. \A w \in ReceiveSlots :
           receiving[w].pc # "idle" => receiving[w].mail \in Mails /\ receiving[w].mail # m
    BY <1>3 DEF ReceiveInv, ReceiveTypes, MailHasCome
  <1>8. MailHasCome'
    BY <1>2, <1>3, <1>5, <1>7 DEF ReceiveInv, ReceiveTypes, MailHasCome
  <1>9. ServedSoFar'
    BY <1>2, <1>5, <1>7 DEF ReceiveInv, ServedSoFar
  <1>10. EveryRecipientServed' /\ NewsMatched'
    BY <1>2, <1>5 DEF ReceiveInv, EveryRecipientServed, NewsMatched
  <1> QED BY <1>6, <1>8, <1>9, <1>10 DEF ReceiveInv

LEMMA NoticeKeeps ==
    ASSUME ReceiveInv, NEW m \in Mails, NoticeAgain(m)
    PROVE  ReceiveInv'
  <1>1. /\ mail[m] # NoMail /\ receiveJob' = [receiveJob EXCEPT ![m] = TRUE]
        /\ UNCHANGED <<user, holder, mail, receiving, news, matched, served, dropped>>
    BY DEF NoticeAgain, addressVars
  <1>2. ReceiveTypes' /\ MailHasCome'
    BY <1>1 DEF ReceiveInv, ReceiveTypes, MailHasCome
  <1>3. ServedSoFar'
    BY <1>1 DEF ReceiveInv, ServedSoFar
  <1>4. EveryRecipientServed' /\ NewsMatched'
    BY <1>1 DEF ReceiveInv, EveryRecipientServed, NewsMatched
  <1> QED BY <1>2, <1>3, <1>4 DEF ReceiveInv

\* A job that starts counts out who is to have the message: a mailbox that is on now,
\* or nobody.
LEMMA StartKeeps ==
    ASSUME ReceiveInv, NEW w \in ReceiveSlots, NEW m \in Mails, StartReceive(w, m)
    PROVE  ReceiveInv'
  <1>1. /\ receiving[w] = NoReceive /\ receiveJob[m]
        /\ receiveJob' = [receiveJob EXCEPT ![m] = FALSE]
        /\ UNCHANGED <<user, holder, news, matched, served, dropped>>
    BY DEF StartReceive, addressVars
  <1>2. mail[m].raw # "none"
    BY <1>1 DEF ReceiveInv, MailHasCome
  <1>3. CASE mail[m].raw = "gone" \/ mail[m].verdict = "virus"
    <2>1. mail' = [mail EXCEPT ![m].raw = "gone"] /\ UNCHANGED receiving
      BY <1>3 DEF StartReceive
    <2>2. /\ mail' \in [Mails -> MessageRows] /\ mail'[m].raw = "gone"
          /\ \A k \in Mails \ {m} : mail'[k] = mail[k]
          /\ mail'[m].to = mail[m].to /\ mail'[m].verdict = mail[m].verdict
      BY <2>1, MailIsDeleted DEF ReceiveInv, ReceiveTypes
    <2>3. ReceiveTypes'
      BY <1>1, <2>1, <2>2 DEF ReceiveInv, ReceiveTypes
    <2>4. MailHasCome'
      BY <1>1, <2>1, <2>2 DEF ReceiveInv, ReceiveTypes, MailHasCome
    <2>5. ServedSoFar'
      BY <1>1, <2>1, <2>2 DEF ReceiveInv, ReceiveTypes, ServedSoFar
    <2>6. EveryRecipientServed' /\ NewsMatched'
      BY <1>1, <1>3, <2>1, <2>2 DEF ReceiveInv, EveryRecipientServed, NewsMatched
    <2> QED BY <2>3, <2>4, <2>5, <2>6 DEF ReceiveInv
  <1>4. CASE ~(mail[m].raw = "gone" \/ mail[m].verdict = "virus")
    <2> DEFINE row == [pc |-> "store", mail |-> m, found |-> MailboxesFor(m), stored |-> {},
                       missing |-> {n \in mail[m].to : holder[n] \notin MailboxesFor(m)}]
    <2>1. receiving' = [receiving EXCEPT ![w] = row] /\ UNCHANGED mail
      BY <1>4 DEF StartReceive
    <2>2. MailboxesFor(m) \subseteq Owners /\ mail[m].to \subseteq Names
      BY DEF MailboxesFor, ReceiveInv, ReceiveTypes, MessageRows
    <2>3. row \in ReceiveRows /\ row.pc = "store" /\ row.mail = m
      BY <2>2 DEF ReceiveRows
    <2>4. receiving'[w] = row /\ \A v \in ReceiveSlots \ {w} : receiving'[v] = receiving[v]
      BY <2>1 DEF ReceiveInv, ReceiveTypes
    <2>5. ReceiveTypes'
      BY <1>1, <2>1, <2>3, <2>4 DEF ReceiveInv, ReceiveTypes
    <2>6. MailHasCome'
      BY <1>1, <1>2, <2>1, <2>4 DEF ReceiveInv, ReceiveTypes, MailHasCome
    <2>7. ServedSoFar'
      BY <1>1, <2>1, <2>2, <2>4 DEF ReceiveInv, ServedSoFar
    <2>8. NewsMatched'
      BY <1>1, <2>4 DEF ReceiveInv, NewsMatched, NoReceive
    <2>9. EveryRecipientServed'
      BY <1>1, <2>1 DEF ReceiveInv, EveryRecipientServed
    <2> QED BY <2>5, <2>6, <2>7, <2>8, <2>9 DEF ReceiveInv
  <1> QED BY <1>3, <1>4
\* What is served is served for good: other jobs on the same message see more of it done.
LEMMA OthersServed ==
    ASSUME ReceiveInv, NEW w \in ReceiveSlots,
           \A k \in Mails : served[k] \subseteq served'[k] /\ served'[k] \subseteq mail[k].to,
           \A v \in ReceiveSlots \ {w} : receiving'[v] = receiving[v],
           UNCHANGED <<mail, holder, user>>
    PROVE  /\ \A v \in ReceiveSlots \ {w} :
                 /\ receiving'[v].pc = "store" =>
                       \A n \in mail'[receiving'[v].mail].to :
                          \/ n \in served'[receiving'[v].mail] \cup receiving'[v].missing
                          \/ \E u \in receiving'[v].found : holder'[n] = u \/ user'[u] = "gone"
                 /\ receiving'[v].pc \in {"delete", "match"} =>
                       served'[receiving'[v].mail] = mail'[receiving'[v].mail].to
           /\ EveryRecipientServed'
  <1>1. \A v \in ReceiveSlots : receiving[v].pc # "idle" => receiving[v].mail \in Mails
    BY DEF ReceiveInv, ReceiveTypes
  <1>2. EveryRecipientServed'
    BY DEF ReceiveInv, EveryRecipientServed
  <1>3. ASSUME NEW v \in ReceiveSlots \ {w}, receiving[v].pc = "store",
               NEW n \in mail[receiving[v].mail].to
        PROVE  \/ n \in served'[receiving[v].mail] \cup receiving[v].missing
               \/ \E u \in receiving[v].found : holder[n] = u \/ user[u] = "gone"
    BY <1>1, <1>3 DEF ReceiveInv, ServedSoFar
  <1>4. ASSUME NEW v \in ReceiveSlots \ {w}, receiving[v].pc \in {"delete", "match"}
        PROVE  served'[receiving[v].mail] = mail[receiving[v].mail].to
    <2>1. receiving[v].mail \in Mails
      BY <1>1, <1>4
    <2>2. served[receiving[v].mail] = mail[receiving[v].mail].to
      BY <1>4 DEF ReceiveInv, ServedSoFar
    <2> QED BY <2>1, <2>2
  <1> QED BY <1>2, <1>3, <1>4

LEMMA StoreKeeps ==
    ASSUME ReceiveInv, NEW w \in ReceiveSlots, NEW u \in Owners, StoreReceived(w, u)
    PROVE  ReceiveInv'
  <1> DEFINE m == receiving[w].mail
             events == IF m \in inbox[u] \/ mail[m].verdict = "spam" THEN {} ELSE {<<u, m>>}
  <1>1. /\ receiving[w].pc = "store" /\ u \in receiving[w].found /\ user[u] # "gone"
        /\ receiving' = [receiving EXCEPT ![w].found = @ \ {u}, ![w].stored = @ \cup events]
        /\ news' = news \cup events
        /\ served' = [served EXCEPT ![m] = @ \cup (Held(u) \cap mail[m].to)]
        /\ UNCHANGED <<user, holder, mail, receiveJob, matched, dropped>>
    BY DEF StoreReceived, addressVars
  <1>2. m \in Mails /\ receiving[w] \in ReceiveRows /\ events \subseteq Owners \X Mails
    BY <1>1 DEF ReceiveInv, ReceiveTypes
  <1>3. /\ receiving'[w].pc = "store" /\ receiving'[w].mail = m
        /\ receiving'[w].found = receiving[w].found \ {u}
        /\ receiving'[w].missing = receiving[w].missing
        /\ receiving'[w].stored = receiving[w].stored \cup events
        /\ receiving' \in [ReceiveSlots -> ReceiveRows]
        /\ \A v \in ReceiveSlots \ {w} : receiving'[v] = receiving[v]
    BY <1>1, <1>2 DEF ReceiveInv, ReceiveTypes, ReceiveRows
  <1>4. /\ served' \in [Mails -> SUBSET Names]
        /\ served'[m] = served[m] \cup (Held(u) \cap mail[m].to)
        /\ \A k \in Mails \ {m} : served'[k] = served[k]
    BY <1>1, <1>2 DEF ReceiveInv, ReceiveTypes, Held
  <1>5. \A k \in Mails : served[k] \subseteq served'[k] /\ served'[k] \subseteq mail[k].to
    BY <1>4 DEF ReceiveInv, MailHasCome
  <1>6. ReceiveTypes'
    <2>1. news' \subseteq Owners \X Mails /\ matched' \subseteq news'
      BY <1>1, <1>2 DEF ReceiveInv, ReceiveTypes
    <2> QED BY <1>1, <1>2, <1>3, <1>4, <2>1 DEF ReceiveInv, ReceiveTypes
  <1>7. MailHasCome'
    BY <1>1, <1>3, <1>5 DEF ReceiveInv, MailHasCome
  <1>8. \A n \in mail[m].to :
           \/ n \in served'[m] \cup receiving[w].missing
           \/ \E v \in receiving[w].found \ {u} : holder[n] = v \/ user[v] = "gone"
    <2> SUFFICES ASSUME NEW n \in mail[m].to, n \notin served[m] \cup receiving[w].missing,
                        holder[n] # u
                 PROVE  \E v \in receiving[w].found \ {u} : holder[n] = v \/ user[v] = "gone"
      <3>1. mail[m].to \subseteq Names
        BY <1>2 DEF ReceiveInv, ReceiveTypes, MessageRows
      <3> QED BY <1>4, <3>1 DEF Held
    <2>1. \E v \in receiving[w].found : holder[n] = v \/ user[v] = "gone"
      BY <1>1 DEF ReceiveInv, ServedSoFar
    <2> QED BY <1>1, <2>1
  <1>9. ServedSoFar' /\ EveryRecipientServed'
    <2>1. receiving'[w].pc = "store" =>
             \A n \in mail'[receiving'[w].mail].to :
                \/ n \in served'[receiving'[w].mail] \cup receiving'[w].missing
                \/ \E v \in receiving'[w].found : holder'[n] = v \/ user'[v] = "gone"
      BY <1>1, <1>3, <1>8
    <2>2. receiving'[w].pc \notin {"delete", "match"}
      BY <1>3
    <2>3. UNCHANGED <<mail, holder, user>>
      BY <1>1
    <2> QED BY <1>3, <1>5, <2>1, <2>2, <2>3, OthersServed DEF ServedSoFar
  <1>10. NewsMatched'
    BY <1>1, <1>3 DEF ReceiveInv, NewsMatched
  <1> QED BY <1>6, <1>7, <1>9, <1>10 DEF ReceiveInv

LEMMA BounceKeeps ==
    ASSUME ReceiveInv, NEW w \in ReceiveSlots, BounceMissing(w)
    PROVE  ReceiveInv'
  <1> DEFINE m == receiving[w].mail
  <1>1. /\ receiving[w].pc = "store" /\ receiving[w].found = {}
        /\ receiving' = [receiving EXCEPT ![w].pc = "delete"]
        /\ served' = [served EXCEPT ![m] = @ \cup receiving[w].missing]
        /\ UNCHANGED <<user, holder, mail, receiveJob, news, matched, dropped>>
    BY DEF BounceMissing, addressVars
  <1>2. m \in Mails /\ receiving[w] \in ReceiveRows
    BY <1>1 DEF ReceiveInv, ReceiveTypes
  <1>3. /\ receiving'[w].pc = "delete" /\ receiving'[w].mail = m
        /\ receiving'[w].missing = receiving[w].missing
        /\ receiving'[w].stored = receiving[w].stored
        /\ receiving' \in [ReceiveSlots -> ReceiveRows]
        /\ \A v \in ReceiveSlots \ {w} : receiving'[v] = receiving[v]
    BY <1>1, <1>2 DEF ReceiveInv, ReceiveTypes, ReceiveRows
  <1>4. /\ served' \in [Mails -> SUBSET Names]
        /\ served'[m] = served[m] \cup receiving[w].missing
        /\ \A k \in Mails \ {m} : served'[k] = served[k]
    BY <1>1, <1>2 DEF ReceiveInv, ReceiveTypes, ReceiveRows
  <1>5. \A k \in Mails : served[k] \subseteq served'[k] /\ served'[k] \subseteq mail[k].to
    BY <1>1, <1>4 DEF ReceiveInv, MailHasCome
  <1>6. ReceiveTypes'
    BY <1>1, <1>2, <1>3, <1>4 DEF ReceiveInv, ReceiveTypes
  <1>7. MailHasCome'
    BY <1>1, <1>3, <1>5 DEF ReceiveInv, MailHasCome
  <1>8. served'[m] = mail[m].to
    <2>1. mail[m].to \subseteq served[m] \cup receiving[w].missing
      BY <1>1 DEF ReceiveInv, ServedSoFar
    <2> QED BY <1>2, <1>4, <1>5, <2>1
  <1>9. ServedSoFar' /\ EveryRecipientServed'
    BY <1>1, <1>2, <1>3, <1>5, <1>8, OthersServed DEF ServedSoFar
  <1>10. NewsMatched'
    BY <1>1, <1>3 DEF ReceiveInv, NewsMatched
  <1> QED BY <1>6, <1>7, <1>9, <1>10 DEF ReceiveInv

LEMMA RawGoesKeeps ==
    ASSUME ReceiveInv, NEW w \in ReceiveSlots, DeleteRaw(w)
    PROVE  ReceiveInv'
  <1> DEFINE m == receiving[w].mail
  <1>1. /\ receiving[w].pc = "delete" /\ receiving' = [receiving EXCEPT ![w].pc = "match"]
        /\ mail' = [mail EXCEPT ![m].raw = "gone"]
        /\ UNCHANGED <<user, holder, receiveJob, news, matched, served, dropped>>
    BY DEF DeleteRaw, addressVars
  <1>2. m \in Mails /\ receiving[w] \in ReceiveRows /\ served[m] = mail[m].to
    BY <1>1 DEF ReceiveInv, ReceiveTypes, ServedSoFar
  <1>3. /\ receiving'[w].pc = "match" /\ receiving'[w].mail = m
        /\ receiving'[w].missing = receiving[w].missing
        /\ receiving'[w].stored = receiving[w].stored
        /\ receiving' \in [ReceiveSlots -> ReceiveRows]
        /\ \A v \in ReceiveSlots \ {w} : receiving'[v] = receiving[v]
    BY <1>1, <1>2 DEF ReceiveInv, ReceiveTypes, ReceiveRows
  <1>4. /\ mail' \in [Mails -> MessageRows] /\ mail'[m].raw = "gone"
        /\ \A k \in Mails \ {m} : mail'[k] = mail[k]
        /\ mail'[m].to = mail[m].to /\ mail'[m].verdict = mail[m].verdict
    BY <1>1, <1>2, MailIsDeleted DEF ReceiveInv, ReceiveTypes
  <1>5. ReceiveTypes'
    BY <1>1, <1>2, <1>3, <1>4 DEF ReceiveInv, ReceiveTypes
  <1>6. MailHasCome'
    BY <1>1, <1>3, <1>4 DEF ReceiveInv, ReceiveTypes, MailHasCome
  <1>7. ServedSoFar'
    BY <1>1, <1>2, <1>3, <1>4 DEF ReceiveInv, ReceiveTypes, ServedSoFar
  <1>8. EveryRecipientServed'
    BY <1>1, <1>2, <1>4 DEF ReceiveInv, EveryRecipientServed
  <1>9. NewsMatched'
    BY <1>1, <1>3 DEF ReceiveInv, NewsMatched
  <1> QED BY <1>5, <1>6, <1>7, <1>8, <1>9 DEF ReceiveInv

\* A job's events are matched as it ends, or dropped as it fails.
LEMMA EndingKeeps ==
    ASSUME ReceiveInv, NEW w \in ReceiveSlots, MatchReceived(w) \/ ReceiveFails(w)
    PROVE  ReceiveInv'
  <1>1. /\ receiving' = [receiving EXCEPT ![w] = NoReceive]
        /\ UNCHANGED <<user, holder, mail, news, served>>
    BY DEF MatchReceived, ReceiveFails, addressVars
  <1>2. NoReceive \in ReceiveRows /\ NoReceive.pc = "idle"
    BY DEF NoReceive, ReceiveRows
  <1>3. /\ receiving' \in [ReceiveSlots -> ReceiveRows] /\ receiving'[w] = NoReceive
        /\ \A v \in ReceiveSlots \ {w} : receiving'[v] = receiving[v]
    BY <1>1, <1>2 DEF ReceiveInv, ReceiveTypes
  <1>4. ServedSoFar' /\ EveryRecipientServed'
    BY <1>1, <1>2, <1>3 DEF ReceiveInv, ServedSoFar, EveryRecipientServed
  <1>5. CASE MatchReceived(w)
    <2>1. /\ matched' = matched \cup (receiving[w].stored \cap news)
          /\ UNCHANGED <<receiveJob, dropped>>
      BY <1>5 DEF MatchReceived
    <2>2. ReceiveTypes' /\ MailHasCome'
      BY <1>1, <1>2, <1>3, <2>1 DEF ReceiveInv, ReceiveTypes, MailHasCome
    <2>3. NewsMatched'
      BY <1>1, <1>3, <2>1 DEF ReceiveInv, NewsMatched
    <2> QED BY <1>4, <2>2, <2>3 DEF ReceiveInv
  <1>6. CASE ReceiveFails(w)
    <2>1. /\ receiving[w] # NoReceive
          /\ receiveJob' = [receiveJob EXCEPT ![receiving[w].mail] = TRUE]
          /\ dropped' = dropped \cup receiving[w].stored /\ UNCHANGED matched
      BY <1>6 DEF ReceiveFails
    <2>2. receiving[w].mail \in Mails /\ mail[receiving[w].mail].raw # "none"
      BY <2>1 DEF ReceiveInv, ReceiveTypes, MailHasCome
    <2>3. ReceiveTypes'
      BY <1>1, <1>2, <1>3, <2>1 DEF ReceiveInv, ReceiveTypes
    <2>4. MailHasCome'
      BY <1>1, <1>2, <1>3, <2>1, <2>2 DEF ReceiveInv, ReceiveTypes, MailHasCome
    <2>5. NewsMatched'
      BY <1>1, <1>3, <2>1 DEF ReceiveInv, NewsMatched
    <2> QED BY <1>4, <2>3, <2>4, <2>5 DEF ReceiveInv
  <1> QED BY <1>5, <1>6

-----------------------------------------------------------------------------
(* Winston's mailbox: what it sends.                                       *)

NoSend == [pc |-> "idle", owner |-> "free"]
Pending(u) == {x \in SendSlots : sending[x] = [pc |-> "accepted", owner |-> u]}

LEMMA SendingBegins == MailboxInit => SendInv
  <1> SUFFICES ASSUME MailboxInit
               PROVE  SendInv
    OBVIOUS
  <1>1. /\ sending = [x \in SendSlots |-> NoSend] /\ accepted = [u \in Owners |-> 0]
        /\ sent = accepted /\ unrecorded = accepted
    BY DEF MailboxInit, NoSend
  <1>2. SendTypes
    BY <1>1 DEF SendTypes, SendRows, NoSend
  <1>3. ASSUME NEW u \in Owners
        PROVE  Pending(u) = {}
    BY <1>1 DEF Pending, NoSend
  <1>4. Cardinality({}) = 0
    BY FS_EmptySet
  <1> QED BY <1>1, <1>2, <1>3, <1>4 DEF SendInv, SentOnRecord, Pending

\* A slot that changes hands adds to what is pending, takes from it, or leaves it.
Counts(row, u) == IF row = [pc |-> "accepted", owner |-> u] THEN 1 ELSE 0

LEMMA PendingMoves ==
    ASSUME SendInv, NEW x \in SendSlots, NEW row \in SendRows, NEW u \in Owners,
           sending' = [sending EXCEPT ![x] = row]
    PROVE  /\ Cardinality(Pending(u)) \in Nat /\ Cardinality(Pending(u)') \in Nat
           /\ Cardinality(Pending(u)') + Counts(sending[x], u) = Cardinality(Pending(u)) + Counts(row, u)
  <1> DEFINE acceptedBy == [pc |-> "accepted", owner |-> u]
  <1>1. IsFiniteSet(SendSlots)
    BY MailboxAssumption
  <1>2. IsFiniteSet(Pending(u)) /\ IsFiniteSet(Pending(u)')
    BY <1>1, FS_Subset DEF Pending
  <1>3. Cardinality(Pending(u)) \in Nat /\ Cardinality(Pending(u)') \in Nat
    BY <1>2, FS_CardinalityType
  <1>4. sending'[x] = row /\ \A y \in SendSlots \ {x} : sending'[y] = sending[y]
    BY DEF SendInv, SendTypes
  <1>5. CASE sending[x] # acceptedBy /\ row = acceptedBy
    <2>1. Pending(u)' = Pending(u) \cup {x} /\ x \notin Pending(u)
      BY <1>4, <1>5 DEF Pending
    <2>2. Cardinality(Pending(u)') = Cardinality(Pending(u)) + 1
      BY <1>2, <2>1, FS_AddElement
    <2> QED BY <1>3, <1>5, <2>2 DEF Counts
  <1>6. CASE sending[x] = acceptedBy /\ row # acceptedBy
    <2>1. Pending(u) = Pending(u)' \cup {x} /\ x \notin Pending(u)'
      BY <1>4, <1>6 DEF Pending
    <2>2. Cardinality(Pending(u)) = Cardinality(Pending(u)') + 1
      BY <1>2, <2>1, FS_AddElement
    <2> QED BY <1>3, <1>6, <2>2 DEF Counts
  <1>7. CASE (sending[x] = acceptedBy) <=> (row = acceptedBy)
    <2>1. Pending(u)' = Pending(u)
      BY <1>4, <1>7 DEF Pending
    <2> QED BY <1>3, <1>7, <2>1 DEF Counts
  <1> QED BY <1>3, <1>5, <1>6, <1>7

LEMMA SendTypesLast ==
    ASSUME SendInv, NEW x \in SendSlots, NEW row \in SendRows,
           sending' = [sending EXCEPT ![x] = row], row.pc # "idle" => row.owner \in Owners,
           accepted' \in [Owners -> Nat], sent' \in [Owners -> Nat], unrecorded' \in [Owners -> Nat]
    PROVE  SendTypes'
  <1>1. sending' \in [SendSlots -> SendRows] /\ sending'[x] = row
          /\ \A y \in SendSlots \ {x} : sending'[y] = sending[y]
    BY DEF SendInv, SendTypes
  <1>2. {accepted', sent', unrecorded'} \subseteq [Owners -> Nat]
    OBVIOUS
  <1> QED BY <1>1, <1>2 DEF SendInv, SendTypes

LEMMA SendKeeps ==
    ASSUME SendInv, NEW x \in SendSlots, SendStep(x)
    PROVE  SendInv'
  <1>1. /\ sending \in [SendSlots -> SendRows] /\ sending[x] \in SendRows
        /\ accepted \in [Owners -> Nat] /\ sent \in [Owners -> Nat]
        /\ unrecorded \in [Owners -> Nat]
        /\ sending[x].pc # "idle" => sending[x].owner \in Owners
    BY DEF SendInv, SendTypes
  <1>2. \A u \in Owners :
           accepted[u] = sent[u] + unrecorded[u] + Cardinality(Pending(u))
    BY DEF SendInv, SentOnRecord, Pending
  <1>3. ASSUME \A u \in Owners :
                  accepted'[u] = sent'[u] + unrecorded'[u] + Cardinality(Pending(u)')
        PROVE  SentOnRecord'
    BY <1>3 DEF SentOnRecord, Pending
  <1>4. NoSend \in SendRows /\ NoSend.pc = "idle"
    BY DEF NoSend, SendRows
  <1>5. ASSUME NEW u \in Owners, CheckSend(x, u)
        PROVE  SendInv'
    <2> DEFINE row == [pc |-> "checked", owner |-> u]
    <2>1. /\ sending[x] = NoSend /\ sending' = [sending EXCEPT ![x] = row]
          /\ UNCHANGED <<accepted, sent, unrecorded>>
      BY <1>5 DEF CheckSend, NoSend
    <2>2. row \in SendRows /\ row.pc = "checked" /\ row.owner = u
      BY DEF SendRows
    <2>3. SendTypes'
      BY <1>1, <2>1, <2>2, SendTypesLast
    <2>4. ASSUME NEW v \in Owners
          PROVE  accepted'[v] = sent'[v] + unrecorded'[v] + Cardinality(Pending(v)')
      <3>1. Counts(sending[x], v) = 0 /\ Counts(row, v) = 0
        BY <2>1 DEF Counts, NoSend
      <3>2. /\ Cardinality(Pending(v)) \in Nat /\ Cardinality(Pending(v)') \in Nat
            /\ Cardinality(Pending(v)') + Counts(sending[x], v) = Cardinality(Pending(v)) + Counts(row, v)
        BY <2>1, <2>2, PendingMoves
      <3> QED BY <1>1, <1>2, <2>1, <3>1, <3>2
    <2> QED BY <1>3, <2>3, <2>4 DEF SendInv
  <1>6. CASE SesTakes(x)
    <2> DEFINE u == sending[x].owner
               row == [pc |-> "accepted", owner |-> u]
    <2>1. /\ sending[x].pc = "checked" /\ sending' = [sending EXCEPT ![x].pc = "accepted"]
          /\ accepted' = [accepted EXCEPT ![u] = @ + 1] /\ UNCHANGED <<sent, unrecorded>>
      BY <1>6 DEF SesTakes
    <2>2. u \in Owners /\ row \in SendRows /\ row.pc = "accepted" /\ row.owner = u
      BY <1>1, <2>1 DEF SendRows
    <2>3. [sending[x] EXCEPT !.pc = "accepted"] = row
      BY <1>1 DEF SendRows
    <2>4. sending' = [sending EXCEPT ![x] = row]
      BY <2>1, <2>3
    <2>5. accepted' \in [Owners -> Nat] /\ \A v \in Owners :
             accepted'[v] = IF v = u THEN accepted[v] + 1 ELSE accepted[v]
      BY <1>1, <2>1, <2>2
    <2>6. SendTypes'
      BY <1>1, <2>1, <2>2, <2>4, <2>5, SendTypesLast
    <2>7. ASSUME NEW v \in Owners
          PROVE  accepted'[v] = sent'[v] + unrecorded'[v] + Cardinality(Pending(v)')
      <3>1. Counts(sending[x], v) = 0 /\ Counts(row, v) = IF v = u THEN 1 ELSE 0
        BY <2>1 DEF Counts
      <3>2. /\ Cardinality(Pending(v)) \in Nat /\ Cardinality(Pending(v)') \in Nat
            /\ Cardinality(Pending(v)') + Counts(sending[x], v) = Cardinality(Pending(v)) + Counts(row, v)
        BY <2>2, <2>4, PendingMoves
      <3>3. accepted[v] \in Nat /\ sent[v] \in Nat /\ unrecorded[v] \in Nat
              /\ sent'[v] = sent[v] /\ unrecorded'[v] = unrecorded[v]
        BY <1>1, <2>1
      <3> QED BY <1>2, <2>5, <3>1, <3>2, <3>3
    <2> QED BY <1>3, <2>6, <2>7 DEF SendInv
  <1>7. CASE StoreSent(x) \/ SendFails(x)
    <2> DEFINE u == sending[x].owner
    <2>1. /\ sending[x].pc # "idle" /\ sending' = [sending EXCEPT ![x] = NoSend]
          /\ UNCHANGED accepted
      BY <1>7 DEF StoreSent, SendFails, NoSend
    <2>2. u \in Owners /\ sending[x] = [pc |-> sending[x].pc, owner |-> u]
      BY <1>1, <2>1 DEF SendRows
    <2>3. /\ sent' \in [Owners -> Nat] /\ unrecorded' \in [Owners -> Nat]
          /\ \A v \in Owners : sent'[v] + unrecorded'[v] =
                sent[v] + unrecorded[v]
                  + IF sending[x].pc = "accepted" /\ v = u THEN 1 ELSE 0
      <3>1. CASE StoreSent(x)
        <4>1. /\ sending[x].pc = "accepted" /\ sent' = [sent EXCEPT ![u] = @ + 1]
              /\ UNCHANGED unrecorded
          BY <3>1 DEF StoreSent
        <4> QED BY <1>1, <2>2, <4>1
      <3>2. CASE SendFails(x) /\ sending[x].pc = "accepted"
        <4>1. unrecorded' = [unrecorded EXCEPT ![u] = @ + 1] /\ UNCHANGED sent
          BY <3>2 DEF SendFails
        <4> QED BY <1>1, <2>2, <3>2, <4>1
      <3>3. CASE SendFails(x) /\ sending[x].pc # "accepted"
        <4>1. UNCHANGED <<sent, unrecorded>>
          BY <3>3 DEF SendFails
        <4> QED BY <1>1, <3>3, <4>1
      <3> QED BY <1>7, <3>1, <3>2, <3>3
    <2>4. SendTypes'
      BY <1>1, <1>4, <2>1, <2>3, SendTypesLast
    <2>5. ASSUME NEW v \in Owners
          PROVE  accepted'[v] = sent'[v] + unrecorded'[v] + Cardinality(Pending(v)')
      <3>1. /\ Counts(NoSend, v) = 0
            /\ Counts(sending[x], v) = IF sending[x].pc = "accepted" /\ v = u THEN 1 ELSE 0
        BY <2>2 DEF Counts, NoSend
      <3>2. /\ Cardinality(Pending(v)) \in Nat /\ Cardinality(Pending(v)') \in Nat
            /\ Cardinality(Pending(v)') + Counts(sending[x], v) = Cardinality(Pending(v)) + Counts(NoSend, v)
        BY <1>4, <2>1, PendingMoves
      <3>3. /\ accepted[v] \in Nat /\ sent[v] \in Nat /\ unrecorded[v] \in Nat
            /\ sent'[v] \in Nat /\ unrecorded'[v] \in Nat /\ accepted'[v] = accepted[v]
        BY <1>1, <2>1, <2>3
      <3> QED BY <1>2, <2>3, <3>1, <3>2, <3>3
    <2> QED BY <1>3, <2>4, <2>5 DEF SendInv
  <1> QED BY <1>5, <1>6, <1>7 DEF SendStep

-----------------------------------------------------------------------------
(* Winston's mailbox, as a whole.                                          *)

\* What an address step keeps of the rest.
LEMMA AddressStepKeeps ==
    ASSUME MailboxInv, NEW u \in Owners, AddressStep(u)
    PROVE  AddressInv' /\ Keeping
  <1> USE MailboxAssumption
  <1>1. /\ AddressInv /\ user \in [Owners -> {"here", "leaving", "retired", "gone"}]
        /\ holder \in [Names -> Owners \cup {"free"}]
    BY DEF MailboxInv, AddressInv, AddressTypes
  <1>2. ASSUME NEW a \in AskSlots, NEW n \in Names, AskTurnOn(a, u, n) \/ AskChange(a, u, n)
        PROVE  AddressInv' /\ Keeping
    <2>1. /\ user[u] = "here" /\ MailboxNameOk(n)
          /\ UNCHANGED <<user, holder, retired, everHad, raced>>
      BY <1>2 DEF AskTurnOn, AskChange
    <2>2. PICK pc \in {"turn_on", "change"} :
             asking' = [asking EXCEPT ![a] = [pc |-> pc, owner |-> u, name |-> n]]
      BY <1>2 DEF AskTurnOn, AskChange
    <2>3. AddressInv'
      BY <1>1, <2>1, <2>2, AskKeeps
    <2> QED BY <2>1, <2>3 DEF Keeping
  <1>3. CASE TurnBackOn(u) \/ TurnOff(u)
    <2>1. UNCHANGED <<user, holder, retired, asking, everHad, raced>>
      BY <1>3 DEF TurnBackOn, TurnOff
    <2>2. AddressInv'
      BY <1>1, <2>1, UsersMove
    <2> QED BY <2>1, <2>2 DEF Keeping
  <1>4. CASE AskDeletion(u) \/ DeletionFails(u)
    <2>1. /\ user' = [user EXCEPT ![u] = "leaving"] /\ user[u] # "gone"
          /\ UNCHANGED <<holder, retired, asking, everHad, raced>>
      BY <1>4 DEF AskDeletion, DeletionFails
    <2>2. AddressInv'
      BY <1>1, <2>1, UsersMove
    <2> QED BY <1>1, <2>1, <2>2 DEF Keeping
  <1>5. CASE RetireAddresses(u)
    <2>1. /\ user[u] = "leaving" /\ user' = [user EXCEPT ![u] = "retired"] /\ UNCHANGED holder
      BY <1>5 DEF RetireAddresses
    <2> QED BY <1>1, <1>5, <2>1, RetireKeeps DEF Keeping
  <1>6. CASE DeleteUser(u)
    <2>1. /\ user' = [user EXCEPT ![u] = "gone"]
          /\ holder' = [n \in Names |-> IF holder[n] = u THEN "free" ELSE holder[n]]
      BY <1>6 DEF DeleteUser
    <2> QED BY <1>1, <1>6, <2>1, DeleteKeeps DEF Keeping
  <1> QED BY <1>2, <1>3, <1>4, <1>5, <1>6 DEF AddressStep
LEMMA SendingStays ==
    ASSUME SendInv, UNCHANGED sendVars
    PROVE  SendInv'
  BY DEF SendInv, SendTypes, SentOnRecord, sendVars

LEMMA NothingReceived ==
    ASSUME ReceiveInv, Keeping, UNCHANGED receiveVars
    PROVE  ReceiveInv'
  <1>1. UNCHANGED <<mail, receiveJob, receiving, news, matched, served, dropped>>
    BY DEF receiveVars
  <1>2. "free" \notin Owners
    BY MailboxAssumption
  <1>3. news \subseteq Owners \X Mails /\ matched \subseteq news
    BY DEF ReceiveInv, ReceiveTypes
  <1>4. news' = {e \in news : e[1] # "free"} /\ matched' = {e \in matched : e[1] # "free"}
    BY <1>1, <1>2, <1>3
  <1> QED BY <1>1, <1>4, ReceivingStays

LEMMA ReceivingKeeps ==
    ASSUME ReceiveInv, \/ \E m \in Mails : MailArrives(m) \/ NoticeAgain(m)
                       \/ \E w \in ReceiveSlots : ReceiveStep(w)
    PROVE  ReceiveInv' /\ UNCHANGED addressVars /\ UNCHANGED sendVars
  <1>1. ASSUME NEW m \in Mails, MailArrives(m) \/ NoticeAgain(m)
        PROVE  ReceiveInv' /\ UNCHANGED addressVars /\ UNCHANGED sendVars
    BY <1>1, ArrivalKeeps, NoticeKeeps DEF MailArrives, NoticeAgain
  <1>2. ASSUME NEW w \in ReceiveSlots, NEW m \in Mails, StartReceive(w, m)
        PROVE  ReceiveInv' /\ UNCHANGED addressVars /\ UNCHANGED sendVars
    BY <1>2, StartKeeps DEF StartReceive
  <1>3. ASSUME NEW w \in ReceiveSlots, NEW u \in Owners, StoreReceived(w, u)
        PROVE  ReceiveInv' /\ UNCHANGED addressVars /\ UNCHANGED sendVars
    BY <1>3, StoreKeeps DEF StoreReceived
  <1>4. ASSUME NEW w \in ReceiveSlots,
               BounceMissing(w) \/ DeleteRaw(w) \/ MatchReceived(w) \/ ReceiveFails(w)
        PROVE  ReceiveInv' /\ UNCHANGED addressVars /\ UNCHANGED sendVars
    <2>1. ReceiveInv'
      BY <1>4, BounceKeeps, RawGoesKeeps, EndingKeeps
    <2>2. UNCHANGED addressVars /\ UNCHANGED sendVars
      BY <1>4 DEF BounceMissing, DeleteRaw, MatchReceived, ReceiveFails
    <2> QED BY <2>1, <2>2
  <1> QED BY <1>1, <1>2, <1>3, <1>4 DEF ReceiveStep

LEMMA MailboxLasts == MailboxInv /\ [MailboxNext]_mailboxVars => MailboxInv'
  <1> SUFFICES ASSUME MailboxInv, [MailboxNext]_mailboxVars
               PROVE  MailboxInv'
    OBVIOUS
  <1> USE DEF MailboxInv
  <1>1. /\ AddressInv /\ user \in [Owners -> {"here", "leaving", "retired", "gone"}]
        /\ holder \in [Names -> Owners \cup {"free"}]
    BY DEF AddressInv, AddressTypes
  <1>2. ASSUME UNCHANGED addressVars
        PROVE  AddressInv' /\ Keeping
    <2>1. UNCHANGED <<user, holder, retired, asking, everHad, raced>>
      BY <1>2 DEF addressVars
    <2>2. AddressInv'
      BY <1>1, <2>1, UsersMove
    <2> QED BY <2>1, <2>2 DEF Keeping
  <1>3. CASE UNCHANGED mailboxVars
    <2>1. UNCHANGED addressVars /\ UNCHANGED receiveVars /\ UNCHANGED sendVars
      BY <1>3 DEF mailboxVars
    <2> QED BY <1>2, <2>1, NothingReceived, SendingStays
  <1>4. ASSUME NEW u \in Owners, AddressStep(u)
        PROVE  MailboxInv'
    <2>1. AddressInv' /\ Keeping
      BY <1>4, AddressStepKeeps
    <2>2. UNCHANGED sendVars /\ (UNCHANGED receiveVars \/ DeleteUser(u))
      <3>1. ASSUME NEW a \in AskSlots, NEW n \in Names, AskTurnOn(a, u, n) \/ AskChange(a, u, n)
            PROVE  UNCHANGED sendVars /\ UNCHANGED receiveVars
        BY <3>1 DEF AskTurnOn, AskChange
      <3>2. ASSUME TurnBackOn(u) \/ TurnOff(u) \/ AskDeletion(u) \/ RetireAddresses(u)
                     \/ DeletionFails(u)
            PROVE  UNCHANGED sendVars /\ UNCHANGED receiveVars
        BY <3>2 DEF TurnBackOn, TurnOff, AskDeletion, RetireAddresses, DeletionFails
      <3>3. ASSUME DeleteUser(u)
            PROVE  UNCHANGED sendVars
        BY <3>3 DEF DeleteUser
      <3> QED BY <1>4, <3>1, <3>2, <3>3 DEF AddressStep
    <2>3. CASE UNCHANGED receiveVars
      BY <2>1, <2>2, <2>3, NothingReceived, SendingStays
    <2>4. CASE DeleteUser(u)
      <3>1. /\ UNCHANGED <<mail, receiveJob, receiving, served, dropped>>
            /\ news' = {e \in news : e[1] # u} /\ matched' = {e \in matched : e[1] # u}
        BY <2>4 DEF DeleteUser
      <3>2. ReceiveInv'
        BY <2>1, <3>1, ReceivingStays
      <3> QED BY <2>1, <2>2, <3>2, SendingStays
    <2> QED BY <2>2, <2>3, <2>4
  <1>5. ASSUME NEW a \in AskSlots, Claim(a)
        PROVE  MailboxInv'
    <2>1. AddressInv'
      BY <1>1, <1>5, ClaimKeeps
    <2>2. /\ UNCHANGED <<user, receiveVars, sendVars>>
          /\ \/ UNCHANGED holder
             \/ /\ holder[asking[a].name] = "free"
                /\ holder' = [holder EXCEPT ![asking[a].name] = asking[a].owner]
      BY <1>5 DEF Claim
    <2>3. Keeping
      BY <1>1, <2>2, MailboxAssumption DEF Keeping
    <2> QED BY <2>1, <2>2, <2>3, NothingReceived, SendingStays
  <1>6. CASE \/ \E m \in Mails : MailArrives(m) \/ NoticeAgain(m)
             \/ \E w \in ReceiveSlots : ReceiveStep(w)
    <2>1. ReceiveInv' /\ UNCHANGED addressVars /\ UNCHANGED sendVars
      BY <1>6, ReceivingKeeps
    <2> QED BY <1>2, <2>1, SendingStays
  <1>7. ASSUME NEW x \in SendSlots, SendStep(x)
        PROVE  MailboxInv'
    <2>1. UNCHANGED addressVars /\ UNCHANGED receiveVars
      BY <1>7 DEF SendStep, CheckSend, SesTakes, StoreSent, SendFails
    <2>2. SendInv'
      BY <1>7, SendKeeps
    <2> QED BY <1>2, <2>1, <2>2, NothingReceived
  <1> QED BY <1>3, <1>4, <1>5, <1>6, <1>7 DEF MailboxNext

\* An address one user had is never another's, unless a request was about to claim it
\* as an account's addresses were retired (db/src/mailbox.ts); SES's copy of a message
\* goes only once every address it is for was served, its event reaches the
\* subscriptions unless the job that stored it failed (receive.ts), and what SES took is
\* in the mailbox but for the sends that failed just then (winston-mail.ts).
THEOREM MailboxIsKept == MailboxSpec => []MailboxKept
  <1>1. MailboxInit => MailboxInv
    BY AddressesBegin, ReceivingBegins, SendingBegins DEF MailboxInv
  <1>2. MailboxInv => MailboxKept
    <2> SUFFICES ASSUME MailboxInv
                 PROVE  AddressNeverReused
      BY DEF MailboxInv, ReceiveInv, SendInv, MailboxKept, MailKept
    <2> SUFFICES ASSUME NEW n \in Names, n \notin raced
                 PROVE  Cardinality(everHad[n]) <= 1
      BY DEF AddressNeverReused
    <2>1. \A u, v \in everHad[n] : u = v
      BY DEF MailboxInv, AddressInv, OneOwnerEach
    <2>2. CASE everHad[n] = {}
      BY <2>2, FS_EmptySet
    <2>3. CASE everHad[n] # {}
      <3>1. PICK u : everHad[n] = {u}
        BY <2>1, <2>3
      <3>2. Cardinality({u}) = 1
        BY FS_Singleton
      <3> QED BY <3>1, <3>2
    <2> QED BY <2>2, <2>3
  <1> QED BY <1>1, <1>2, MailboxLasts, PTL DEF MailboxSpec

-----------------------------------------------------------------------------
(* Telegram chats.                                                         *)

LinkTokenRows == [state : {"none", "live", "used", "expired", "deleted"}, for : Users \cup {NoUser}]
ChatItemRows ==
    [ref : TgUpdates, user : Users \cup {NoUser}, type : {"message", "reaction", "onboarding"},
     pending : BOOLEAN, taken : BOOLEAN]
Webhooks ==
    [at : {"idle", "link", "read", "react", "store", "reply", "answer"},
     ref : TgUpdates \cup {NoLinkToken}, user : Users \cup {NoUser},
     reply : {NoLinkToken, "unlinked", "already linked", "bad link"}]

HolderInv == links \in [Users -> ChatIds \cup {NoChat}] /\ OneHolder

\* Whoever linked a chat used the token up, and it was theirs.
TokenInv ==
    /\ linkTokens \in [LinkTokens -> LinkTokenRows]
    /\ linkings \subseteq LinkTokens \X TgUpdates \X (Users \cup {NoUser})
    /\ \A a, b \in linkings : a[1] = b[1] => a = b
    /\ \A a \in linkings : linkTokens[a[1]].state = "used" /\ linkTokens[a[1]].for = a[3]

\* A handler has an update that was sent; one that links has a token that was issued.
HandlerInv ==
    /\ tgUpdates \in [TgUpdates -> Update]
    /\ webhook \in [WebhookSlots -> Webhooks]
    /\ \A x \in TgUpdates : tgUpdates[x].what = "start" => tgUpdates[x].token \in LinkTokens
    /\ \A w \in WebhookSlots :
          webhook[w].at # "idle" =>
              /\ webhook[w].ref \in TgUpdates /\ Arrived(w).state # "unsent"
              /\ webhook[w].at = "link" => Arrived(w).token \in LinkTokens

ItemInv == chatItems \subseteq ChatItemRows /\ OneItemPerUpdate /\ NothingWaitsUnseen

ChatsInv == HolderInv /\ TokenInv /\ HandlerInv /\ ItemInv

LEMMA ChatsBegin == ChatsInit => ChatsInv
  <1> SUFFICES ASSUME ChatsInit
               PROVE  ChatsInv
    OBVIOUS
  <1>1. HolderInv
    <2>1. PICK v \in Users, c \in ChatIds \cup {NoChat} : links = Alone(v, c)
      BY DEF ChatsInit
    <2>2. links \in [Users -> ChatIds \cup {NoChat}]
      BY <2>1 DEF Alone
    <2>3. OneHolder
      BY <2>1 DEF Alone, OneHolder
    <2> QED BY <2>2, <2>3 DEF HolderInv
  <1>2. TokenInv
    BY DEF ChatsInit, TokenInv, LinkTokenRows
  <1>3. HandlerInv
    <2>1. IdleWebhook \in Webhooks /\ IdleWebhook.at = "idle"
      BY DEF IdleWebhook, Webhooks
    <2>2. [state |-> "unsent", chat |-> NoChat, what |-> "text", token |-> NoLinkToken,
           target |-> NoUser] \in Update
      BY DEF Update, Whats
    <2>3. tgUpdates \in [TgUpdates -> Update] /\ \A x \in TgUpdates : tgUpdates[x].what = "text"
      BY <2>2 DEF ChatsInit
    <2> QED BY <2>1, <2>3 DEF ChatsInit, HandlerInv
  <1>4. ItemInv
    BY DEF ChatsInit, ItemInv, OneItemPerUpdate, NothingWaitsUnseen
  <1> QED BY <1>1, <1>2, <1>3, <1>4 DEF ChatsInv

LEMMA ChatsStay ==
    ASSUME ChatsInv
    PROVE  /\ UNCHANGED links => HolderInv'
           /\ UNCHANGED <<linkTokens, linkings>> => TokenInv'
           /\ UNCHANGED <<tgUpdates, webhook>> => HandlerInv'
           /\ UNCHANGED <<chatItems, savesQueued, turnsQueued>> => ItemInv'
  <1>1. UNCHANGED links => HolderInv'
    BY DEF ChatsInv, HolderInv, OneHolder
  <1>2. UNCHANGED <<linkTokens, linkings>> => TokenInv'
    BY DEF ChatsInv, TokenInv
  <1>3. UNCHANGED <<tgUpdates, webhook>> => HandlerInv'
    BY DEF ChatsInv, HandlerInv, Arrived
  <1>4. UNCHANGED <<chatItems, savesQueued, turnsQueued>> => ItemInv'
    BY DEF ChatsInv, ItemInv, OneItemPerUpdate, NothingWaitsUnseen
  <1> QED BY <1>1, <1>2, <1>3, <1>4

\* A handler goes on with the update it has, or is done with it.
LEMMA HandlerGoesOn ==
    ASSUME HandlerInv, NEW w \in WebhookSlots, webhook' \in [WebhookSlots -> Webhooks],
           \A v \in WebhookSlots \ {w} : webhook'[v] = webhook[v],
           \/ webhook'[w].at = "idle"
           \/ /\ webhook[w].at # "idle" /\ webhook'[w].ref = webhook[w].ref
              /\ webhook'[w].at # "link",
           tgUpdates' \in [TgUpdates -> Update],
           \A x \in TgUpdates :
              /\ tgUpdates'[x].what = tgUpdates[x].what /\ tgUpdates'[x].token = tgUpdates[x].token
              /\ tgUpdates'[x].state = "unsent" => tgUpdates[x].state = "unsent"
    PROVE  HandlerInv'
  BY DEF HandlerInv, Arrived

LEMMA GoesOn ==
    ASSUME HandlerInv, NEW w \in WebhookSlots, webhook[w].at # "idle",
           NEW at \in {"react", "store", "reply", "answer"}, Goes(w, at), UNCHANGED tgUpdates
    PROVE  HandlerInv'
  <1>1. webhook[w] \in Webhooks /\ webhook' = [webhook EXCEPT ![w].at = at]
    BY DEF HandlerInv, Goes
  <1>2. /\ webhook' \in [WebhookSlots -> Webhooks]
        /\ \A v \in WebhookSlots \ {w} : webhook'[v] = webhook[v]
        /\ webhook'[w].ref = webhook[w].ref /\ webhook'[w].at = at
    BY <1>1 DEF HandlerInv, Webhooks
  <1>3. tgUpdates' \in [TgUpdates -> Update]
    BY DEF HandlerInv
  <1> QED BY <1>2, <1>3, HandlerGoesOn

\* What is stored is stored once, and with a job that will show it.
LEMMA StoreAndQueueKeeps ==
    ASSUME ItemInv, NEW item \in ChatItemRows, StoreAndQueueTurn(item)
    PROVE  ItemInv'
  <1>1. CASE item.ref \in StoredRefs
    BY <1>1 DEF ItemInv, StoreAndQueueTurn, OneItemPerUpdate, NothingWaitsUnseen
  <1>2. CASE item.ref \notin StoredRefs
    <2>1. /\ chatItems' = chatItems \cup {item} /\ \A i \in chatItems : i.ref # item.ref
          /\ savesQueued' = IF item.pending THEN savesQueued \cup {item.ref} ELSE savesQueued
          /\ turnsQueued' = IF item.pending THEN turnsQueued ELSE turnsQueued \cup {item.user}
      BY <1>2 DEF StoreAndQueueTurn, StoredRefs
    <2>2. chatItems' \subseteq ChatItemRows /\ OneItemPerUpdate'
      BY <2>1 DEF ItemInv, OneItemPerUpdate
    <2>3. NothingWaitsUnseen'
      BY <2>1 DEF ItemInv, NothingWaitsUnseen
    <2> QED BY <2>2, <2>3 DEF ItemInv
  <1> QED BY <1>1, <1>2

-----------------------------------------------------------------------------
(* Telegram chats: the steps.                                              *)

LEMMA TokenStepsKeep ==
    ASSUME ChatsInv, NEW t \in LinkTokens,
           TokenExpires(t) \/ \E u \in Users : IssueLinkToken(t, u)
    PROVE  ChatsInv'
  <1>1. UNCHANGED <<links, tgUpdates, webhook, chatItems, savesQueued, turnsQueued, linkings>>
    BY DEF TokenExpires, IssueLinkToken
  <1>2. TokenInv'
    <2>1. CASE TokenExpires(t)
      <3>1. linkTokens[t].state = "live" /\ linkTokens' = [linkTokens EXCEPT ![t].state = "expired"]
        BY <2>1 DEF TokenExpires
      <3>2. linkTokens' \in [LinkTokens -> LinkTokenRows]
              /\ \A s \in LinkTokens \ {t} : linkTokens'[s] = linkTokens[s]
        BY <3>1 DEF ChatsInv, TokenInv, LinkTokenRows
      <3> QED BY <1>1, <3>1, <3>2 DEF ChatsInv, TokenInv
    <2>2. ASSUME NEW u \in Users, IssueLinkToken(t, u)
          PROVE  TokenInv'
      <3>1. /\ linkTokens[t].state = "none"
            /\ linkTokens' = [ExpiredGone EXCEPT ![t] = [state |-> "live", for |-> u]]
        BY <2>2 DEF IssueLinkToken
      <3>2. /\ ExpiredGone \in [LinkTokens -> LinkTokenRows]
            /\ \A s \in LinkTokens : linkTokens[s].state = "used" => ExpiredGone[s] = linkTokens[s]
        BY DEF ExpiredGone, ChatsInv, TokenInv, LinkTokenRows
      <3>3. [state |-> "live", for |-> u] \in LinkTokenRows
        BY DEF LinkTokenRows
      <3>4. /\ linkTokens' \in [LinkTokens -> LinkTokenRows]
            /\ \A s \in LinkTokens : linkTokens[s].state = "used" => linkTokens'[s] = linkTokens[s]
        BY <3>1, <3>2, <3>3
      <3> QED BY <1>1, <3>4 DEF ChatsInv, TokenInv
    <2> QED BY <2>1, <2>2
  <1> QED BY <1>1, <1>2, ChatsStay DEF ChatsInv

\* What a turn makes of an item.
AsTaken(i, u) == IF i.user = u /\ ~i.pending THEN [i EXCEPT !.taken = TRUE] ELSE i

LEMMA UserStepsKeep ==
    ASSUME ChatsInv, NEW u \in Users, UnlinkTelegram(u) \/ TurnTakes(u) \/ WinstonSays(u)
    PROVE  ChatsInv'
  <1>1. UNCHANGED <<linkTokens, tgUpdates, webhook, linkings>>
    BY DEF UnlinkTelegram, TurnTakes, WinstonSays
  <1>2. CASE UnlinkTelegram(u)
    <2>1. links' = [links EXCEPT ![u] = NoChat] /\ UNCHANGED <<chatItems, savesQueued, turnsQueued>>
      BY <1>2 DEF UnlinkTelegram
    <2>2. HolderInv'
      BY <2>1 DEF ChatsInv, HolderInv, OneHolder
    <2> QED BY <1>1, <2>1, <2>2, ChatsStay DEF ChatsInv
  <1>3. CASE TurnTakes(u)
    <2>1. /\ turnsQueued' = turnsQueued \ {u} /\ chatItems' = {AsTaken(i, u) : i \in chatItems}
          /\ UNCHANGED <<links, savesQueued>>
      BY <1>3 DEF TurnTakes, AsTaken
    <2>2. ASSUME NEW i \in chatItems
          PROVE  /\ AsTaken(i, u) \in ChatItemRows /\ AsTaken(i, u).ref = i.ref
                 /\ AsTaken(i, u).user = i.user /\ AsTaken(i, u).pending = i.pending
                 /\ ~AsTaken(i, u).taken => ~i.taken /\ (i.pending \/ i.user # u)
      BY DEF ChatsInv, ItemInv, ChatItemRows, AsTaken
    <2>3. chatItems' \subseteq ChatItemRows
      BY <2>1, <2>2
    <2>4. OneItemPerUpdate'
      BY <2>1, <2>2 DEF ChatsInv, ItemInv, OneItemPerUpdate
    <2>5. NothingWaitsUnseen'
      BY <2>1, <2>2 DEF ChatsInv, ItemInv, NothingWaitsUnseen
    <2> QED BY <1>1, <2>1, <2>3, <2>4, <2>5, ChatsStay DEF ChatsInv, ItemInv
  <1>4. CASE WinstonSays(u)
    <2>1. UNCHANGED <<links, chatItems, savesQueued, turnsQueued>>
      BY <1>4 DEF WinstonSays
    <2> QED BY <1>1, <2>1, ChatsStay DEF ChatsInv
  <1> QED BY <1>2, <1>3, <1>4

LEMMA FileSavedKeeps ==
    ASSUME ChatsInv, NEW i \in chatItems, FileSaved(i)
    PROVE  ChatsInv'
  <1> DEFINE j == [i EXCEPT !.pending = FALSE]
  <1>1. /\ i.ref \in savesQueued /\ savesQueued' = savesQueued \ {i.ref}
        /\ chatItems' = (chatItems \ {i}) \cup {j} /\ turnsQueued' = turnsQueued \cup {i.user}
        /\ UNCHANGED <<links, linkTokens, tgUpdates, webhook, linkings>>
    BY DEF FileSaved
  <1>2. j \in ChatItemRows /\ j.ref = i.ref /\ j.user = i.user /\ ~j.pending
    BY DEF ChatsInv, ItemInv, ChatItemRows
  <1>3. \A k \in chatItems \ {i} : k.ref # i.ref
    BY DEF ChatsInv, ItemInv, OneItemPerUpdate
  <1>4. chatItems' \subseteq ChatItemRows /\ OneItemPerUpdate'
    BY <1>1, <1>2, <1>3 DEF ChatsInv, ItemInv, OneItemPerUpdate
  <1>5. NothingWaitsUnseen'
    BY <1>1, <1>2, <1>3 DEF ChatsInv, ItemInv, NothingWaitsUnseen
  <1> QED BY <1>1, <1>4, <1>5, ChatsStay DEF ChatsInv, ItemInv

LEMMA PersonKeeps ==
    ASSUME ChatsInv, NEW c \in ChatIds, NEW x \in TgUpdates, NEW update \in Sendable(c),
           PersonSends(x, c, update)
    PROVE  ChatsInv'
  <1>1. /\ tgUpdates[x].state = "unsent" /\ tgUpdates' = [tgUpdates EXCEPT ![x] = update]
        /\ UNCHANGED <<links, linkTokens, webhook, chatItems, savesQueued, turnsQueued, linkings>>
    BY DEF PersonSends
  <1>2. update \in Update /\ (update.what = "start" => update.token \in LinkTokens)
    BY DEF Sendable, Update, Whats
  <1>3. HandlerInv'
    <2>1. /\ tgUpdates' \in [TgUpdates -> Update] /\ tgUpdates'[x] = update
          /\ \A y \in TgUpdates \ {x} : tgUpdates'[y] = tgUpdates[y]
      BY <1>1, <1>2 DEF ChatsInv, HandlerInv
    <2>2. \A w \in WebhookSlots : webhook[w].at # "idle" => webhook[w].ref # x
      BY <1>1 DEF ChatsInv, HandlerInv, Arrived
    <2> QED BY <1>1, <1>2, <2>1, <2>2 DEF ChatsInv, HandlerInv, Arrived
  <1> QED BY <1>1, <1>3, ChatsStay DEF ChatsInv

LEMMA DeliversKeeps ==
    ASSUME ChatsInv, NEW w \in WebhookSlots, NEW x \in TgUpdates, Delivers(w, x)
    PROVE  ChatsInv'
  <1> DEFINE row == [IdleWebhook EXCEPT !.ref = x, !.at = IF tgUpdates[x].what = "start" THEN "link" ELSE "read"]
  <1>1. /\ tgUpdates[x].state = "sent" /\ webhook' = [webhook EXCEPT ![w] = row]
        /\ UNCHANGED <<links, linkTokens, tgUpdates, chatItems, savesQueued, turnsQueued, linkings>>
    BY DEF Delivers
  <1>2. /\ row \in Webhooks /\ row.ref = x
        /\ row.at = IF tgUpdates[x].what = "start" THEN "link" ELSE "read"
    BY DEF IdleWebhook, Webhooks
  <1>3. /\ webhook' \in [WebhookSlots -> Webhooks] /\ webhook'[w] = row
        /\ \A v \in WebhookSlots \ {w} : webhook'[v] = webhook[v]
    BY <1>1, <1>2 DEF ChatsInv, HandlerInv
  <1> HIDE DEF row
  <1>4. HandlerInv'
    BY <1>1, <1>2, <1>3 DEF ChatsInv, HandlerInv, Arrived
  <1> QED BY <1>1, <1>4, ChatsStay DEF ChatsInv

LEMMA LinkedUserKeeps ==
    ASSUME ChatsInv, NEW w \in WebhookSlots, LinkedUser(w)
    PROVE  ChatsInv'
  <1>1. /\ webhook[w].at = "read"
        /\ UNCHANGED <<links, linkTokens, tgUpdates, chatItems, savesQueued, turnsQueued, linkings>>
    BY DEF LinkedUser
  <1>2. HolderOf(Arrived(w).chat) \in Users \cup {NoUser}
    BY DEF HolderOf
  <1>3. webhook[w] \in Webhooks
    BY DEF ChatsInv, HandlerInv
  <1>4. PICK at \in {"answer", "react", "reply", "store"}, reply \in {"unlinked", NoLinkToken} :
           webhook' = [webhook EXCEPT ![w].user = HolderOf(Arrived(w).chat), ![w].reply = reply,
                                      ![w].at = at]
    BY DEF LinkedUser
  <1>5. /\ webhook' \in [WebhookSlots -> Webhooks] /\ webhook'[w].at = at
        /\ webhook'[w].ref = webhook[w].ref
        /\ \A v \in WebhookSlots \ {w} : webhook'[v] = webhook[v]
    BY <1>2, <1>3, <1>4 DEF ChatsInv, HandlerInv, Webhooks
  <1>6. HandlerInv'
    BY <1>1, <1>5, HandlerGoesOn DEF ChatsInv, HandlerInv
  <1> QED BY <1>1, <1>6, ChatsStay DEF ChatsInv

LEMMA StoresKeeps ==
    ASSUME ChatsInv, NEW w \in WebhookSlots, Stores(w)
    PROVE  ChatsInv'
  <1> DEFINE item == Item(webhook[w].ref, webhook[w].user,
                          IF Arrived(w).what = "reaction" THEN "reaction" ELSE "message",
                          Arrived(w).what = "file")
  <1>1. /\ webhook[w].at = "store" /\ StoreAndQueueTurn(item) /\ Goes(w, "answer")
        /\ UNCHANGED <<links, linkTokens, tgUpdates, linkings>>
    BY DEF Stores
  <1>2. webhook[w].ref \in TgUpdates /\ webhook[w].user \in Users \cup {NoUser}
    BY <1>1 DEF ChatsInv, HandlerInv, Webhooks
  <1>3. item \in ChatItemRows
    BY <1>2 DEF Item, ChatItemRows
  <1> HIDE DEF item
  <1>4. ItemInv'
    BY <1>1, <1>3, StoreAndQueueKeeps DEF ChatsInv
  <1>5. HandlerInv'
    BY <1>1, GoesOn DEF ChatsInv
  <1> QED BY <1>1, <1>4, <1>5, ChatsStay DEF ChatsInv

\* The token is live, so nobody has used it; the chat is taken from whoever had it.
LEMMA LinkChatKeeps ==
    ASSUME ChatsInv, NEW w \in WebhookSlots, LinkChat(w)
    PROVE  ChatsInv'
  <1> DEFINE t == Arrived(w).token
             c == Arrived(w).chat
             u == linkTokens[t].for
  <1>1. /\ webhook[w].at = "link" /\ linkTokens[t].state = "live"
        /\ linkTokens' = [linkTokens EXCEPT ![t].state = "used"]
        /\ links' = [v \in Users |-> IF v = u THEN c ELSE IF links[v] = c THEN NoChat ELSE links[v]]
        /\ linkings' = linkings \cup {<<t, webhook[w].ref, u>>} /\ UNCHANGED tgUpdates
    BY DEF LinkChat
  <1>2. /\ webhook[w].ref \in TgUpdates /\ webhook[w] \in Webhooks /\ t \in LinkTokens
        /\ u \in Users \cup {NoUser} /\ c \in ChatIds \cup {NoChat}
    BY <1>1 DEF ChatsInv, HandlerInv, TokenInv, LinkTokenRows, Update, Arrived
  <1> HIDE DEF t, c, u
  <1>3. HolderInv'
    BY <1>1, <1>2 DEF ChatsInv, HolderInv, OneHolder
  <1>4. TokenInv'
    <2>1. /\ linkTokens' \in [LinkTokens -> LinkTokenRows]
          /\ linkTokens'[t].state = "used" /\ linkTokens'[t].for = u
          /\ \A s \in LinkTokens \ {t} : linkTokens'[s] = linkTokens[s]
      BY <1>1, <1>2 DEF ChatsInv, TokenInv, LinkTokenRows, u
    <2>2. \A a \in linkings : a[1] # t
      BY <1>1 DEF ChatsInv, TokenInv
    <2>3. linkings' \subseteq LinkTokens \X TgUpdates \X (Users \cup {NoUser})
      BY <1>1, <1>2 DEF ChatsInv, TokenInv
    <2>4. \A a, b \in linkings' : a[1] = b[1] => a = b
      BY <1>1, <2>2 DEF ChatsInv, TokenInv
    <2>5. \A a \in linkings' : linkTokens'[a[1]].state = "used" /\ linkTokens'[a[1]].for = a[3]
      <3>1. ASSUME NEW a \in linkings
            PROVE  linkTokens'[a[1]].state = "used" /\ linkTokens'[a[1]].for = a[3]
        BY <2>1, <2>2 DEF ChatsInv, TokenInv
      <3> QED BY <1>1, <2>1, <3>1
    <2> QED BY <2>1, <2>3, <2>4, <2>5 DEF TokenInv
  <1>5. HandlerInv' /\ ItemInv'
    <2>1. CASE links[u] = c
      <3>1. /\ webhook' = [webhook EXCEPT ![w].at = "reply", ![w].reply = "already linked"]
            /\ UNCHANGED <<chatItems, savesQueued, turnsQueued>>
        BY <2>1 DEF LinkChat, t, c, u
      <3>2. /\ webhook' \in [WebhookSlots -> Webhooks] /\ webhook'[w].at = "reply"
            /\ webhook'[w].ref = webhook[w].ref
            /\ \A v \in WebhookSlots \ {w} : webhook'[v] = webhook[v]
        BY <1>2, <3>1 DEF ChatsInv, HandlerInv, Webhooks
      <3>3. HandlerInv'
        BY <1>1, <3>2, HandlerGoesOn DEF ChatsInv, HandlerInv
      <3> QED BY <3>1, <3>3, ChatsStay
    <2>2. CASE links[u] # c
      <3>1. StoreAndQueueTurn(Item(webhook[w].ref, u, "onboarding", FALSE)) /\ Goes(w, "answer")
        BY <2>2 DEF LinkChat, t, c, u
      <3>2. Item(webhook[w].ref, u, "onboarding", FALSE) \in ChatItemRows
        BY <1>2 DEF Item, ChatItemRows
      <3>3. ItemInv'
        BY <3>1, <3>2, StoreAndQueueKeeps DEF ChatsInv
      <3>4. HandlerInv'
        BY <1>1, <3>1, GoesOn DEF ChatsInv
      <3> QED BY <3>3, <3>4
    <2> QED BY <2>1, <2>2
  <1> QED BY <1>3, <1>4, <1>5 DEF ChatsInv

LEMMA OtherWebhookStepsKeep ==
    ASSUME ChatsInv, NEW w \in WebhookSlots,
           ReactionTarget(w) \/ BadLinkToken(w) \/ Reply(w) \/ Answers(w) \/ HandlerFails(w)
    PROVE  ChatsInv'
  <1>1. /\ webhook[w].at # "idle"
        /\ UNCHANGED <<links, linkTokens, chatItems, savesQueued, turnsQueued, linkings>>
    BY DEF ReactionTarget, BadLinkToken, Reply, Answers, HandlerFails
  <1>2. webhook[w] \in Webhooks /\ tgUpdates \in [TgUpdates -> Update]
    BY DEF ChatsInv, HandlerInv
  <1>3. HandlerInv'
    <2>1. CASE ReactionTarget(w) \/ Reply(w)
      <3>1. PICK at \in {"store", "answer"} : Goes(w, at) /\ UNCHANGED tgUpdates
        BY <2>1 DEF ReactionTarget, Reply
      <3> QED BY <1>1, <3>1, GoesOn DEF ChatsInv
    <2>2. CASE BadLinkToken(w)
      <3>1. /\ webhook' = [webhook EXCEPT ![w].at = "reply", ![w].reply = "bad link"]
            /\ UNCHANGED tgUpdates
        BY <2>2 DEF BadLinkToken
      <3>2. /\ webhook' \in [WebhookSlots -> Webhooks] /\ webhook'[w].at = "reply"
            /\ webhook'[w].ref = webhook[w].ref
            /\ \A v \in WebhookSlots \ {w} : webhook'[v] = webhook[v]
        BY <1>2, <3>1 DEF ChatsInv, HandlerInv, Webhooks
      <3> QED BY <1>1, <1>2, <3>1, <3>2, HandlerGoesOn DEF ChatsInv
    <2>3. CASE Answers(w) \/ HandlerFails(w)
      <3>1. /\ webhook' = [webhook EXCEPT ![w] = IdleWebhook]
            /\ \/ UNCHANGED tgUpdates
               \/ tgUpdates' = [tgUpdates EXCEPT ![webhook[w].ref].state = "acked"]
        BY <2>3 DEF Answers, HandlerFails
      <3>2. IdleWebhook \in Webhooks /\ IdleWebhook.at = "idle"
        BY DEF IdleWebhook, Webhooks
      <3>3. /\ webhook' \in [WebhookSlots -> Webhooks] /\ webhook'[w].at = "idle"
            /\ \A v \in WebhookSlots \ {w} : webhook'[v] = webhook[v]
        BY <3>1, <3>2 DEF ChatsInv, HandlerInv
      <3>4. /\ tgUpdates' \in [TgUpdates -> Update]
            /\ \A x \in TgUpdates :
                  /\ tgUpdates'[x].what = tgUpdates[x].what /\ tgUpdates'[x].token = tgUpdates[x].token
                  /\ tgUpdates'[x].state = "unsent" => tgUpdates[x].state = "unsent"
        BY <1>2, <3>1 DEF Update
      <3> QED BY <3>3, <3>4, HandlerGoesOn DEF ChatsInv
    <2> QED BY <2>1, <2>2, <2>3
  <1> QED BY <1>1, <1>3, ChatsStay DEF ChatsInv

\* Whoever has a chat by then, and however often Telegram delivers it, an update becomes one
\* item at most, for one user; a link's token links once, to the user it was issued to; two
\* users never have one chat; and no item waits without a job that will show it
\* (api/src/telegram/handle-update.ts).
THEOREM ChatsAreKept == ChatsSpec => []ChatsKept
  <1>1. ChatsInit => ChatsInv
    BY ChatsBegin
  <1>2. ChatsInv /\ [ChatsNext]_chatsVars => ChatsInv'
    <2> SUFFICES ASSUME ChatsInv, [ChatsNext]_chatsVars
                 PROVE  ChatsInv'
      OBVIOUS
    <2>1. CASE UNCHANGED chatsVars
      BY <2>1, ChatsStay DEF ChatsInv, chatsVars
    <2>2. ASSUME NEW message \in spoken, NotesSaid(message)
          PROVE  ChatsInv'
      BY <2>2, ChatsStay DEF ChatsInv, NotesSaid
    <2>3. ASSUME NEW w \in WebhookSlots, WebhookStep(w)
          PROVE  ChatsInv'
      BY <2>3, DeliversKeeps, LinkedUserKeeps, StoresKeeps, LinkChatKeeps, OtherWebhookStepsKeep
         DEF WebhookStep
    <2> QED
      BY <2>1, <2>2, <2>3, TokenStepsKeep, UserStepsKeep, FileSavedKeeps, PersonKeeps DEF ChatsNext
  <1>3. ChatsInv => ChatsKept
    BY DEF ChatsInv, ItemInv, TokenInv, HolderInv, ChatsKept, TokenLinksOnce
  <1> QED BY <1>1, <1>2, <1>3, PTL DEF ChatsSpec

-----------------------------------------------------------------------------
(* Files sent in Telegram.                                                 *)

MediaJobRows ==
    [type : {"none", "save", "transcribe"},
     state : {"none", "queued", "leased", "lapsed", "done", "broken off"}, attempts : Nat]
HandlerRows ==
    [at : {"idle", "read", "download", "reserve", "note", "write", "hear", "release"},
     job : MediaJobIds \cup {0}, attempt : Nat, seen : Payloads]

MediaTypes ==
    /\ speech \in BOOLEAN /\ held \in BOOLEAN
    /\ payload \in Payloads
    /\ inboxFiles \in [InboxPaths -> {"none", "empty", "whole"}]
    /\ fileRows \in Seq(InboxPaths)
    /\ mediaJobs \in [MediaJobIds -> MediaJobRows]
    /\ handler \in [MediaSlots -> HandlerRows]
    /\ \A w \in MediaSlots : handler[w].at # "idle" => handler[w].job \in MediaJobIds

\* What says its file is saved has a file that is whole.
WholeIfSaved(p) == p.status = "saved" => p.path \in InboxPaths /\ inboxFiles[p.path] = "whole"

\* What a handler has seen of the payload, at each of its points: a name it has yet to
\* reserve, to note or to write under; and what was said, once it is heard.
SeenOk(w) ==
    /\ WholeIfSaved(handler[w].seen)
    /\ handler[w].at = "reserve" => handler[w].seen.path = Unnamed
    /\ handler[w].at = "note" => handler[w].seen.status # "saved"
    /\ handler[w].at \in {"note", "write"} => handler[w].seen.path \in InboxPaths
    /\ handler[w].at # "idle" /\ JobOf(w).type # "save" =>
          /\ handler[w].at \in {"read", "hear", "release"}
          /\ handler[w].at = "release" /\ handler[w].seen.status = "saved" => handler[w].seen.said # "no"

PayloadOk ==
    /\ SpeechIsHeard /\ WholeIfSaved(payload)
    /\ \A i \in DOMAIN fileRows : inboxFiles[fileRows[i]] = "whole"

MediaInv == MediaTypes /\ HeldHasAJob /\ PayloadOk /\ \A w \in MediaSlots : SeenOk(w)

LEMMA MediaBegins == MediaInit => MediaInv
  <1> SUFFICES ASSUME MediaInit
               PROVE  MediaInv
    OBVIOUS
  <1>1. 1 \in MediaJobIds
    BY MediaAssumption DEF MediaJobIds
  <1>2. payload \in Payloads /\ payload.status = "pending"
    BY DEF MediaInit, Payloads
  <1>3. /\ IdleHandler \in HandlerRows /\ IdleHandler.at = "idle" /\ IdleHandler.seen = payload
        /\ \A w \in MediaSlots : handler[w] = IdleHandler
    BY <1>2 DEF MediaInit, IdleHandler, HandlerRows
  <1>4. MediaTypes
    BY <1>2, <1>3 DEF MediaInit, MediaTypes, MediaJobRows, NoMediaJob
  <1>5. HeldHasAJob
    BY <1>1 DEF MediaInit, HeldHasAJob
  <1>6. PayloadOk
    BY <1>2 DEF MediaInit, PayloadOk, SpeechIsHeard, WholeIfSaved
  <1>7. ASSUME NEW w \in MediaSlots
        PROVE  SeenOk(w)
    BY <1>2, <1>3 DEF SeenOk, WholeIfSaved
  <1> QED BY <1>4, <1>5, <1>6, <1>7 DEF MediaInv

\* A step is one handler's; jobs keep what they are, and a file that is whole stays whole.
OneHandler(w) ==
    /\ handler' \in [MediaSlots -> HandlerRows]
    /\ \A v \in MediaSlots \ {w} : handler'[v] = handler[v]
    /\ handler'[w].at # "idle" => handler'[w].job \in MediaJobIds
SavesStaySaves ==
    /\ mediaJobs' \in [MediaJobIds -> MediaJobRows]
    /\ \A j \in MediaJobIds : mediaJobs[j].type = "save" => mediaJobs'[j].type = "save"
WholeStays ==
    /\ inboxFiles' \in [InboxPaths -> {"none", "empty", "whole"}]
    /\ \A p \in InboxPaths : inboxFiles[p] = "whole" => inboxFiles'[p] = "whole"

Alive == {"queued", "leased", "lapsed", "broken off"}
JobsGoOn == \A j \in MediaJobIds : mediaJobs[j].state \in Alive => mediaJobs'[j].state \in Alive

LEMMA MediaStepKeeps ==
    ASSUME MediaInv, NEW w \in MediaSlots, OneHandler(w), SavesStaySaves, WholeStays,
           SeenOk(w)', HeldHasAJob', PayloadOk', UNCHANGED speech, held' \in BOOLEAN,
           payload' \in Payloads, fileRows' \in Seq(InboxPaths)
    PROVE  MediaInv'
  <1>1. MediaTypes'
    BY DEF MediaInv, MediaTypes, OneHandler, SavesStaySaves, WholeStays
  <1>2. ASSUME NEW v \in MediaSlots, v # w
        PROVE  SeenOk(v)'
    <2>1. handler'[v] = handler[v] /\ handler[v] \in HandlerRows /\ SeenOk(v)
      BY <1>2 DEF OneHandler, MediaInv, MediaTypes
    <2>2. handler[v].at # "idle" => handler[v].job \in MediaJobIds
      BY DEF MediaInv, MediaTypes
    <2> QED BY <2>1, <2>2 DEF SeenOk, WholeIfSaved, WholeStays, SavesStaySaves, JobOf
  <1> QED BY <1>1, <1>2 DEF MediaInv

\* Most steps leave the message alone.
LEMMA MessageStays ==
    ASSUME MediaInv, UNCHANGED <<speech, held, payload, fileRows>>, WholeStays, ~held \/ JobsGoOn
    PROVE  /\ HeldHasAJob' /\ PayloadOk' /\ held' \in BOOLEAN
           /\ payload' \in Payloads /\ fileRows' \in Seq(InboxPaths)
  <1>1. HeldHasAJob'
    BY DEF MediaInv, HeldHasAJob, JobsGoOn, Alive
  <1>2. \A i \in DOMAIN fileRows : fileRows[i] \in InboxPaths
    BY DEF MediaInv, MediaTypes
  <1>3. PayloadOk'
    BY <1>2 DEF MediaInv, PayloadOk, SpeechIsHeard, WholeIfSaved, WholeStays
  <1> QED BY <1>1, <1>3 DEF MediaInv, MediaTypes

LEMMA JobsStay ==
    ASSUME MediaInv, UNCHANGED mediaJobs
    PROVE  SavesStaySaves /\ JobsGoOn
  BY DEF MediaInv, MediaTypes, SavesStaySaves, JobsGoOn

LEMMA FilesStay ==
    ASSUME MediaInv, UNCHANGED inboxFiles
    PROVE  WholeStays
  BY DEF MediaInv, MediaTypes, WholeStays

\* A handler that is through is at nothing.
LEMMA EndedKeeps ==
    ASSUME MediaInv, NEW w \in MediaSlots, Ended(w), WholeStays
    PROVE  OneHandler(w) /\ SeenOk(w)'
  <1>1. handler' = [handler EXCEPT ![w].at = "idle"] /\ handler[w] \in HandlerRows
    BY DEF Ended, MediaInv, MediaTypes
  <1>2. /\ handler' \in [MediaSlots -> HandlerRows] /\ handler'[w].at = "idle"
        /\ handler'[w].seen = handler[w].seen
        /\ \A v \in MediaSlots \ {w} : handler'[v] = handler[v]
    BY <1>1 DEF MediaInv, MediaTypes, HandlerRows
  <1>3. WholeIfSaved(handler[w].seen)
    BY DEF MediaInv, SeenOk
  <1> QED BY <1>2, <1>3 DEF OneHandler, SeenOk, WholeIfSaved, WholeStays

LEMMA ProceedsTo ==
    ASSUME MediaInv, NEW w \in MediaSlots, handler[w].at # "idle", NEW seen \in Payloads,
           NEW at \in {"download", "reserve", "note", "write", "hear", "release"},
           Proceeds(w, at, seen)
    PROVE  /\ OneHandler(w) /\ UNCHANGED mediaJobs
           /\ handler'[w].at = at /\ handler'[w].seen = seen /\ JobOf(w)' = JobOf(w)
  <1>1. /\ handler' = [handler EXCEPT ![w].at = at, ![w].seen = seen] /\ UNCHANGED mediaJobs
        /\ handler[w] \in HandlerRows /\ handler[w].job \in MediaJobIds
    BY DEF Proceeds, MediaInv, MediaTypes
  <1>2. /\ handler' \in [MediaSlots -> HandlerRows] /\ handler'[w].at = at
        /\ handler'[w].seen = seen /\ handler'[w].job = handler[w].job
        /\ \A v \in MediaSlots \ {w} : handler'[v] = handler[v]
    BY <1>1 DEF MediaInv, MediaTypes, HandlerRows
  <1> QED BY <1>1, <1>2 DEF OneHandler, JobOf

LEMMA ThrownKeeps ==
    ASSUME MediaInv, NEW w \in MediaSlots, handler[w].at # "idle", NEW used, Thrown(w, used),
           handler[w].attempt < MediaAttempts \/ used = "broken off", WholeStays
    PROVE  OneHandler(w) /\ SeenOk(w)' /\ SavesStaySaves /\ JobsGoOn
  <1>1. OneHandler(w) /\ SeenOk(w)'
    BY EndedKeeps DEF Thrown
  <1>2. /\ handler[w].job \in MediaJobIds /\ mediaJobs \in [MediaJobIds -> MediaJobRows]
    BY DEF MediaInv, MediaTypes
  <1>3. \/ UNCHANGED mediaJobs
        \/ \E state \in {"queued", "broken off"} :
              mediaJobs' = [mediaJobs EXCEPT ![handler[w].job].state = state]
    BY DEF Thrown
  <1>4. ASSUME NEW state \in {"queued", "broken off"},
               mediaJobs' = [mediaJobs EXCEPT ![handler[w].job].state = state]
        PROVE  SavesStaySaves /\ JobsGoOn
    BY <1>2, <1>4 DEF SavesStaySaves, JobsGoOn, MediaJobRows, Alive
  <1> QED BY <1>1, <1>3, <1>4, JobsStay

\* Thrown for another attempt, or given up with the message released.
LEMMA FailsKeeps ==
    ASSUME MediaInv, NEW w \in MediaSlots, handler[w].at # "idle", Fails(w), WholeStays
    PROVE  OneHandler(w) /\ SeenOk(w)' /\ SavesStaySaves /\ JobsGoOn
  <1>1. CASE handler[w].attempt < MediaAttempts
    BY <1>1, ThrownKeeps DEF Fails
  <1>2. CASE ~(handler[w].attempt < MediaAttempts)
    <2>1. Proceeds(w, "release", GivenUp(w)) /\ handler[w].seen \in Payloads
      BY <1>2 DEF Fails, MediaInv, MediaTypes, HandlerRows
    <2>2. WholeIfSaved(handler[w].seen)
      BY DEF MediaInv, SeenOk
    <2>3. /\ GivenUp(w) \in Payloads
          /\ GivenUp(w).status = "saved" =>
                handler[w].seen.status = "saved" /\ GivenUp(w).path = handler[w].seen.path
          /\ JobOf(w).type # "save" => GivenUp(w).said # "no"
      BY <2>1 DEF GivenUp, Unsaved, Payloads
    <2>4. /\ OneHandler(w) /\ UNCHANGED mediaJobs
          /\ handler'[w].at = "release" /\ handler'[w].seen = GivenUp(w) /\ JobOf(w)' = JobOf(w)
      BY <2>1, <2>3, ProceedsTo
    <2>5. SeenOk(w)'
      BY <2>2, <2>3, <2>4 DEF SeenOk, WholeIfSaved, WholeStays
    <2> QED BY <2>4, <2>5, JobsStay
  <1> QED BY <1>1, <1>2

-----------------------------------------------------------------------------
(* Files sent in Telegram: the steps.                                      *)

LEMMA LeasedRow ==
    ASSUME NEW job \in MediaJobRows, NEW n \in Nat
    PROVE  LET leased == [job EXCEPT !.state = "leased", !.attempts = n]
           IN leased \in MediaJobRows /\ leased.type = job.type /\ leased.state = "leased"
  BY DEF MediaJobRows

LEMMA JobStepsKeep ==
    ASSUME MediaInv, NEW w \in MediaSlots,
           LeaseLapses(w) \/ DatabaseFails(w) \/ \E j \in MediaJobIds : LeaseMedia(w, j)
    PROVE  MediaInv'
  <1>1. UNCHANGED <<speech, held, payload, inboxFiles, fileRows>> /\ WholeStays
    BY FilesStay DEF LeaseLapses, DatabaseFails, LeaseMedia, Still
  <1>2. OneHandler(w) /\ SeenOk(w)' /\ SavesStaySaves /\ JobsGoOn
    <2>1. CASE DatabaseFails(w)
      <3>1. handler[w].at # "idle" /\ Thrown(w, "broken off")
        BY <2>1 DEF DatabaseFails
      <3> QED BY <1>1, <3>1, ThrownKeeps
    <2>2. CASE LeaseLapses(w)
      <3>1. /\ handler[w].at # "idle"
            /\ mediaJobs' = [mediaJobs EXCEPT ![handler[w].job].state = "lapsed"]
            /\ UNCHANGED handler \/ Ended(w)
        BY <2>2 DEF LeaseLapses
      <3>2. handler[w].job \in MediaJobIds /\ mediaJobs \in [MediaJobIds -> MediaJobRows]
        BY <3>1 DEF MediaInv, MediaTypes
      <3>3. /\ mediaJobs' \in [MediaJobIds -> MediaJobRows]
            /\ \A j \in MediaJobIds : /\ mediaJobs'[j].type = mediaJobs[j].type
                                      /\ mediaJobs[j].state \in Alive => mediaJobs'[j].state \in Alive
        BY <3>1, <3>2 DEF MediaJobRows, Alive
      <3>4. CASE UNCHANGED handler
        <4>1. OneHandler(w)
          BY <3>4 DEF OneHandler, MediaInv, MediaTypes
        <4>2. SeenOk(w) /\ JobOf(w)'.type = JobOf(w).type
          BY <3>2, <3>3, <3>4 DEF MediaInv, JobOf
        <4>3. SeenOk(w)'
          BY <1>1, <3>4, <4>2 DEF SeenOk, WholeIfSaved, WholeStays
        <4> QED BY <3>3, <4>1, <4>3 DEF SavesStaySaves, JobsGoOn
      <3>5. CASE Ended(w)
        BY <1>1, <3>3, <3>5, EndedKeeps DEF SavesStaySaves, JobsGoOn
      <3> QED BY <3>1, <3>4, <3>5
    <2>3. ASSUME NEW j \in MediaJobIds, LeaseMedia(w, j)
          PROVE  OneHandler(w) /\ SeenOk(w)' /\ SavesStaySaves /\ JobsGoOn
      <3> DEFINE row == [at |-> "read", job |-> j, attempt |-> mediaJobs[j].attempts + 1,
                         seen |-> payload]
      <3>1. /\ mediaJobs' = [mediaJobs EXCEPT ![j].state = "leased", ![j].attempts = @ + 1]
            /\ handler' = [handler EXCEPT ![w] = row]
        BY <2>3 DEF LeaseMedia
      <3>2. mediaJobs[j] \in MediaJobRows /\ mediaJobs[j].attempts \in Nat /\ payload \in Payloads
        BY DEF MediaInv, MediaTypes, MediaJobRows
      <3> DEFINE job == [mediaJobs[j] EXCEPT !.state = "leased", !.attempts = mediaJobs[j].attempts + 1]
      <3>8. job \in MediaJobRows /\ job.type = mediaJobs[j].type /\ job.state = "leased"
        <4>1. mediaJobs[j].attempts + 1 \in Nat
          BY <3>2
        <4> QED BY <3>2, <4>1, LeasedRow
      <3>9. mediaJobs' = [mediaJobs EXCEPT ![j] = job]
        <4>1. mediaJobs \in [MediaJobIds -> MediaJobRows]
          BY DEF MediaInv, MediaTypes
        <4> QED BY <3>1, <4>1, Zenon
      <3> HIDE DEF job
      <3>3. /\ mediaJobs' \in [MediaJobIds -> MediaJobRows]
            /\ \A i \in MediaJobIds : /\ mediaJobs'[i].type = mediaJobs[i].type
                                      /\ mediaJobs[i].state \in Alive => mediaJobs'[i].state \in Alive
        BY <3>8, <3>9 DEF MediaInv, MediaTypes, Alive
      <3>4. row \in HandlerRows
        BY <3>2 DEF HandlerRows
      <3>5. OneHandler(w) /\ handler'[w] = row
        BY <3>1, <3>4 DEF OneHandler, MediaInv, MediaTypes
      <3>6. WholeIfSaved(payload)
        BY DEF MediaInv, PayloadOk
      <3>7. SeenOk(w)'
        BY <1>1, <3>5, <3>6 DEF SeenOk, WholeIfSaved, WholeStays
      <3> QED BY <3>3, <3>5, <3>7 DEF SavesStaySaves, JobsGoOn
    <2> QED BY <2>1, <2>2, <2>3
  <1> QED BY <1>1, <1>2, MessageStays, MediaStepKeeps

\* What a handler completes is the job it holds; jobs are done once the message is released.
LEMMA CompletesKeeps ==
    ASSUME MediaInv, NEW w \in MediaSlots, handler[w].at # "idle",
           NEW jobs \in [MediaJobIds -> MediaJobRows]
    PROVE  /\ Completes(w, jobs) \in [MediaJobIds -> MediaJobRows]
           /\ \A j \in MediaJobIds :
                 /\ Completes(w, jobs)[j].type = jobs[j].type
                 /\ Completes(w, jobs)[j] # jobs[j] => j = handler[w].job /\ Holds(w)
  <1>1. handler[w].job \in MediaJobIds
    BY DEF MediaInv, MediaTypes
  <1>2. ASSUME Holds(w)
        PROVE  /\ [jobs EXCEPT ![handler[w].job].state = "done"] \in [MediaJobIds -> MediaJobRows]
               /\ \A j \in MediaJobIds :
                    /\ [jobs EXCEPT ![handler[w].job].state = "done"][j].type = jobs[j].type
                    /\ j # handler[w].job => [jobs EXCEPT ![handler[w].job].state = "done"][j] = jobs[j]
    BY <1>1 DEF MediaJobRows
  <1> QED BY <1>2 DEF Completes

LEMMA ReleasedKeeps ==
    ASSUME MediaInv, NEW w \in MediaSlots, handler[w].at # "idle", ~held, Ended(w),
           mediaJobs' = Completes(w, mediaJobs),
           UNCHANGED <<speech, held, payload, inboxFiles, fileRows>>
    PROVE  MediaInv'
  <1>1. mediaJobs \in [MediaJobIds -> MediaJobRows]
    BY DEF MediaInv, MediaTypes
  <1>2. SavesStaySaves
    BY <1>1, CompletesKeeps DEF SavesStaySaves
  <1> QED BY <1>2, EndedKeeps, FilesStay, MessageStays, MediaStepKeeps

LEMMA ReadHeldKeeps ==
    ASSUME MediaInv, NEW w \in MediaSlots, ReadHeld(w)
    PROVE  MediaInv'
  <1>1. /\ handler[w].at = "read" /\ UNCHANGED <<speech, held, payload, inboxFiles, fileRows>>
        /\ WholeStays
    BY FilesStay DEF ReadHeld, Still
  <1>2. CASE ~held
    BY <1>1, <1>2, ReleasedKeeps DEF ReadHeld
  <1>3. CASE held
    <2> DEFINE at == IF JobOf(w).type = "save" THEN "download"
                     ELSE IF payload.path = Unnamed THEN "release" ELSE "hear"
    <2>1. Proceeds(w, at, payload) /\ payload \in Payloads /\ WholeIfSaved(payload)
      BY <1>1, <1>3 DEF ReadHeld, MediaInv, MediaTypes, PayloadOk
    <2>2. /\ OneHandler(w) /\ UNCHANGED mediaJobs
          /\ handler'[w].at = at /\ handler'[w].seen = payload /\ JobOf(w)' = JobOf(w)
      BY <1>1, <2>1, ProceedsTo
    <2>3. at = "release" /\ payload.status = "saved" => FALSE
      BY <2>1 DEF WholeIfSaved, InboxPaths, Unnamed
    <2>4. SeenOk(w)'
      BY <1>1, <2>1, <2>2, <2>3 DEF SeenOk, WholeIfSaved, WholeStays
    <2> QED BY <1>1, <2>2, <2>4, JobsStay, MessageStays, MediaStepKeeps
  <1> QED BY <1>2, <1>3

\* A step of a save that goes on with what it has seen, or fails.
LEMMA SaveGoesOn ==
    ASSUME MediaInv, NEW w \in MediaSlots, handler[w].at \in {"download", "reserve", "write"},
           UNCHANGED <<speech, held, payload, fileRows>>, WholeStays,
           \/ Fails(w)
           \/ \E at \in {"reserve", "note", "write", "release"}, seen \in Payloads :
                 /\ Proceeds(w, at, seen)
                 /\ seen.status = "saved" => seen.path \in InboxPaths /\ inboxFiles'[seen.path] = "whole"
                 /\ at = "reserve" => seen.path = Unnamed
                 /\ at = "note" => seen.status # "saved"
                 /\ at \in {"note", "write"} => seen.path \in InboxPaths
    PROVE  MediaInv'
  <1>1. CASE Fails(w)
    BY <1>1, FailsKeeps, MessageStays, MediaStepKeeps
  <1>2. ASSUME NEW at \in {"reserve", "note", "write", "release"}, NEW seen \in Payloads,
               Proceeds(w, at, seen),
               seen.status = "saved" => seen.path \in InboxPaths /\ inboxFiles'[seen.path] = "whole",
               at = "reserve" => seen.path = Unnamed,
               at = "note" => seen.status # "saved",
               at \in {"note", "write"} => seen.path \in InboxPaths
        PROVE  MediaInv'
    <2>1. /\ OneHandler(w) /\ UNCHANGED mediaJobs
          /\ handler'[w].at = at /\ handler'[w].seen = seen /\ JobOf(w)' = JobOf(w)
      BY <1>2, ProceedsTo
    <2>2. JobOf(w).type = "save"
      BY DEF MediaInv, SeenOk
    <2>3. SeenOk(w)'
      BY <1>2, <2>1, <2>2 DEF SeenOk, WholeIfSaved
    <2> QED BY <2>1, <2>3, JobsStay, MessageStays, MediaStepKeeps
  <1> QED BY <1>1, <1>2

LEMMA DownloadKeeps ==
    ASSUME MediaInv, NEW w \in MediaSlots, Download(w)
    PROVE  MediaInv'
  <1> DEFINE seen == handler[w].seen
  <1>1. /\ handler[w].at = "download" /\ UNCHANGED <<speech, held, payload, inboxFiles, fileRows>>
        /\ WholeStays
    BY FilesStay DEF Download, Still
  <1>2. seen \in Payloads /\ WholeIfSaved(seen)
    BY DEF MediaInv, MediaTypes, HandlerRows, SeenOk
  <1>3. CASE Fails(w)
    BY <1>1, <1>3, SaveGoesOn
  <1>4. CASE Proceeds(w, "release", Unsaved(seen, "too_large"))
    <2>1. Unsaved(seen, "too_large") \in Payloads /\ Unsaved(seen, "too_large").status = "too_large"
      BY <1>2 DEF Unsaved, Payloads
    <2> QED BY <1>1, <1>4, <2>1, SaveGoesOn
  <1>5. CASE Proceeds(w, IF seen.path = Unnamed THEN "reserve" ELSE "write", seen)
    <2>1. seen.path # Unnamed => seen.path \in InboxPaths
      BY <1>2 DEF Payloads
    <2>2. seen.status = "saved" => seen.path \in InboxPaths /\ inboxFiles'[seen.path] = "whole"
      BY <1>1, <1>2 DEF WholeIfSaved
    <2> HIDE DEF seen
    <2> QED BY <1>1, <1>2, <1>5, <2>1, <2>2, SaveGoesOn
  <1> QED BY <1>3, <1>4, <1>5 DEF Download

LEMMA FreeNameIs == NameIsFree => FreeName \in InboxPaths /\ inboxFiles[FreeName] = "none"
  <1> SUFFICES ASSUME NameIsFree
               PROVE  \E p \in InboxPaths :
                         inboxFiles[p] = "none" /\ \A q \in InboxPaths : q < p => inboxFiles[q] # "none"
    BY DEF FreeName
  <1>1. InboxPaths = {1, 2, 3}
    BY DEF InboxPaths
  <1>2. CASE inboxFiles[1] = "none"
    BY <1>1, <1>2
  <1>3. CASE inboxFiles[1] # "none" /\ inboxFiles[2] = "none"
    BY <1>1, <1>3
  <1>4. CASE inboxFiles[1] # "none" /\ inboxFiles[2] # "none"
    BY <1>1, <1>4 DEF NameIsFree
  <1> QED BY <1>2, <1>3, <1>4

LEMMA ReserveKeeps ==
    ASSUME MediaInv, NEW w \in MediaSlots, ReserveName(w) \/ ReserveFails(w)
    PROVE  MediaInv'
  <1> DEFINE seen == handler[w].seen
             named == [seen EXCEPT !.path = FreeName]
  <1>1. handler[w].at = "reserve" /\ UNCHANGED <<speech, held, payload, fileRows>>
    BY DEF ReserveName, ReserveFails, Still
  <1>2. seen \in Payloads /\ WholeIfSaved(seen) /\ seen.path = Unnamed
    BY <1>1 DEF MediaInv, MediaTypes, HandlerRows, SeenOk
  <1>3. seen.status # "saved"
    BY <1>2 DEF WholeIfSaved, InboxPaths, Unnamed
  <1>4. CASE ReserveName(w)
    <2>1. FreeName \in InboxPaths /\ inboxFiles[FreeName] = "none"
      BY <1>4, FreeNameIs DEF ReserveName
    <2>2. WholeStays
      BY <1>4, <2>1 DEF ReserveName, WholeStays, MediaInv, MediaTypes
    <2>3. Fails(w) \/ Proceeds(w, "note", named)
      BY <1>4 DEF ReserveName
    <2>4. named \in Payloads /\ named.status = seen.status /\ named.path = FreeName
      BY <1>2, <2>1 DEF Payloads
    <2> HIDE DEF named, seen
    <2> QED BY <1>1, <1>3, <2>1, <2>2, <2>3, <2>4, SaveGoesOn
  <1>5. CASE ReserveFails(w)
    <2>1. Fails(w) /\ WholeStays
      BY <1>5, FilesStay DEF ReserveFails, Still
    <2> QED BY <1>1, <2>1, SaveGoesOn
  <1> QED BY <1>4, <1>5

\* A name is noted for a file that is not saved yet: the payload is put back to that.
LEMMA NoteKeeps ==
    ASSUME MediaInv, NEW w \in MediaSlots, NotePath(w)
    PROVE  MediaInv'
  <1> DEFINE seen == handler[w].seen
  <1>1. /\ handler[w].at = "note" /\ payload' = seen /\ Proceeds(w, "write", seen)
        /\ UNCHANGED <<speech, held, inboxFiles, fileRows>> /\ WholeStays
    BY FilesStay DEF NotePath, Still
  <1>2. /\ seen \in Payloads /\ seen.status # "saved" /\ seen.path \in InboxPaths
        /\ JobOf(w).type = "save"
    BY <1>1 DEF MediaInv, MediaTypes, HandlerRows, SeenOk
  <1>3. /\ OneHandler(w) /\ UNCHANGED mediaJobs
        /\ handler'[w].at = "write" /\ handler'[w].seen = seen /\ JobOf(w)' = JobOf(w)
    BY <1>1, <1>2, ProceedsTo
  <1> HIDE DEF seen
  <1>4. SeenOk(w)'
    BY <1>2, <1>3 DEF SeenOk, WholeIfSaved
  <1>5. HeldHasAJob'
    BY <1>1, <1>3 DEF MediaInv, HeldHasAJob
  <1>6. PayloadOk'
    BY <1>1, <1>2 DEF MediaInv, PayloadOk, SpeechIsHeard, WholeIfSaved
  <1>7. held' \in BOOLEAN /\ fileRows' \in Seq(InboxPaths) /\ payload' \in Payloads
    BY <1>1, <1>2 DEF MediaInv, MediaTypes
  <1> QED BY <1>1, <1>3, <1>4, <1>5, <1>6, <1>7, JobsStay, MediaStepKeeps

LEMMA WriteKeeps ==
    ASSUME MediaInv, NEW w \in MediaSlots, WriteInbox(w)
    PROVE  MediaInv'
  <1> DEFINE seen == handler[w].seen
             saved == [seen EXCEPT !.status = "saved"]
  <1>1. handler[w].at = "write" /\ UNCHANGED <<speech, held, payload, fileRows>>
    BY DEF WriteInbox, Still
  <1>2. seen \in Payloads /\ seen.path \in InboxPaths
    BY <1>1 DEF MediaInv, MediaTypes, HandlerRows, SeenOk
  <1>3. CASE UNCHANGED inboxFiles /\ Fails(w)
    BY <1>1, <1>3, FilesStay, SaveGoesOn
  <1>4. CASE /\ inboxFiles' = [inboxFiles EXCEPT ![seen.path] = "whole"]
             /\ Proceeds(w, "release", saved)
    <2>1. WholeStays /\ inboxFiles'[seen.path] = "whole"
      BY <1>2, <1>4 DEF WholeStays, MediaInv, MediaTypes
    <2>2. saved \in Payloads /\ saved.path = seen.path
      BY <1>2 DEF Payloads
    <2>3. Proceeds(w, "release", saved)
      BY <1>4
    <2> HIDE DEF saved, seen
    <2> QED BY <1>1, <1>2, <2>1, <2>2, <2>3, SaveGoesOn
  <1> QED BY <1>3, <1>4 DEF WriteInbox

LEMMA TranscribeKeeps ==
    ASSUME MediaInv, NEW w \in MediaSlots, Transcribe(w)
    PROVE  MediaInv'
  <1> DEFINE seen == handler[w].seen
  <1>1. /\ handler[w].at = "hear" /\ UNCHANGED <<speech, held, payload, inboxFiles, fileRows>>
        /\ WholeStays
    BY FilesStay DEF Transcribe, Still
  <1>2. seen \in Payloads /\ WholeIfSaved(seen)
    BY DEF MediaInv, MediaTypes, HandlerRows, SeenOk
  <1>3. CASE Fails(w)
    BY <1>1, <1>3, FailsKeeps, MessageStays, MediaStepKeeps
  <1>4. ASSUME NEW said \in {"transcript", "unheard"},
               Proceeds(w, "release", [seen EXCEPT !.said = said])
        PROVE  MediaInv'
    <2> DEFINE heard == [seen EXCEPT !.said = said]
    <2>1. /\ heard \in Payloads /\ heard.status = seen.status /\ heard.path = seen.path
          /\ heard.said # "no"
      BY <1>2 DEF Payloads
    <2>2. /\ OneHandler(w) /\ UNCHANGED mediaJobs
          /\ handler'[w].at = "release" /\ handler'[w].seen = heard /\ JobOf(w)' = JobOf(w)
      BY <1>1, <1>4, <2>1, ProceedsTo
    <2> HIDE DEF heard, seen
    <2>3. SeenOk(w)'
      BY <1>1, <1>2, <2>1, <2>2 DEF SeenOk, WholeIfSaved
    <2> QED BY <1>1, <2>2, <2>3, JobsStay, MessageStays, MediaStepKeeps
  <1> QED BY <1>1, <1>3, <1>4 DEF Transcribe

\* The numbers are well-founded, in the form the next row needs.
Fewer == {ss \in Nat \X Nat : ss[1] < ss[2]}

LEMMA FewerWellFounded == IsWellFoundedOn(Fewer, Nat)
  BY NatLessThanWellFounded, Zenon DEF OpToRel, Fewer

LEMMA NextRow ==
    ASSUME NEW k \in MediaJobIds, mediaJobs[k] = NoMediaJob
    PROVE  NextMediaJob \in MediaJobIds /\ mediaJobs[NextMediaJob] = NoMediaJob
  <1> DEFINE free == {j \in MediaJobIds : mediaJobs[j] = NoMediaJob}
  <1>1. free \subseteq Nat /\ free # {}
    BY MediaAssumption DEF MediaJobIds
  <1>2. PICK j \in free : \A i \in free : ~(<<i, j>> \in Fewer)
    BY <1>1, FewerWellFounded, WFMin
  <1>3. \A i \in free : ~(i < j)
    BY <1>1, <1>2 DEF Fewer
  <1>4. /\ j \in MediaJobIds /\ mediaJobs[j] = NoMediaJob
        /\ \A i \in MediaJobIds : i < j => mediaJobs[i] # NoMediaJob
    BY <1>2, <1>3
  <1> QED BY <1>4 DEF NextMediaJob

\* The transcription is queued in a row of its own, and saves stay saves.
LEMMA WithTranscriptionKeeps ==
    ASSUME MediaInv, QueuedTranscription \/ mediaJobs[MaxMediaJobs] = NoMediaJob
    PROVE  /\ WithTranscription(mediaJobs) \in [MediaJobIds -> MediaJobRows]
           /\ \A j \in MediaJobIds :
                 mediaJobs[j].type = "save" => WithTranscription(mediaJobs)[j] = mediaJobs[j]
           /\ \E j \in MediaJobIds : WithTranscription(mediaJobs)[j].state = "queued"
                 /\ mediaJobs[j].state \in {"none", "queued"}
  <1>1. mediaJobs \in [MediaJobIds -> MediaJobRows]
    BY DEF MediaInv, MediaTypes
  <1>2. CASE QueuedTranscription
    BY <1>1, <1>2 DEF WithTranscription, QueuedTranscription
  <1>3. CASE ~QueuedTranscription
    <2> DEFINE row == [type |-> "transcribe", state |-> "queued", attempts |-> 0]
    <2>1. MaxMediaJobs \in MediaJobIds
      BY MediaAssumption DEF MediaJobIds
    <2>2. NextMediaJob \in MediaJobIds /\ mediaJobs[NextMediaJob] = NoMediaJob
      BY <1>3, <2>1, NextRow
    <2>3. mediaJobs[NextMediaJob].type = "none" /\ mediaJobs[NextMediaJob].state = "none"
      BY <2>2 DEF NoMediaJob
    <2>4. row \in MediaJobRows /\ row.state = "queued"
      BY DEF MediaJobRows
    <2>5. WithTranscription(mediaJobs) = [mediaJobs EXCEPT ![NextMediaJob] = row]
      BY <1>3 DEF WithTranscription
    <2> HIDE DEF row
    <2> QED BY <1>1, <2>2, <2>3, <2>4, <2>5
  <1> QED BY <1>2, <1>3

\* A message that stays held has its transcription queued; one that goes says what was
\* said, or has no file that was saved.
LEMMA ReleaseKeeps ==
    ASSUME MediaInv, NEW w \in MediaSlots, ReleaseHeld(w)
    PROVE  MediaInv'
  <1> DEFINE seen == handler[w].seen
             jobs == IF StaysHeld(w) THEN WithTranscription(mediaJobs) ELSE mediaJobs
  <1>1. /\ handler[w].at = "release" /\ held
        /\ StaysHeld(w) => QueuedTranscription \/ mediaJobs[MaxMediaJobs] = NoMediaJob
        /\ payload' = seen /\ held' = StaysHeld(w)
        /\ fileRows' = IF RecordsFile(w) THEN Append(fileRows, seen.path) ELSE fileRows
        /\ mediaJobs' = Completes(w, jobs) /\ Ended(w)
        /\ UNCHANGED <<speech, inboxFiles>> /\ WholeStays
    BY FilesStay DEF ReleaseHeld, Still
  <1>2. seen \in Payloads /\ WholeIfSaved(seen)
    BY DEF MediaInv, MediaTypes, HandlerRows, SeenOk
  <1>3. /\ handler[w].job \in MediaJobIds /\ mediaJobs \in [MediaJobIds -> MediaJobRows]
        /\ speech \in BOOLEAN
    BY <1>1 DEF MediaInv, MediaTypes
  <1>4. /\ jobs \in [MediaJobIds -> MediaJobRows]
        /\ \A j \in MediaJobIds : mediaJobs[j].type = "save" => jobs[j] = mediaJobs[j]
    BY <1>1, <1>3, WithTranscriptionKeeps
  <1>5. StaysHeld(w) => \E j \in MediaJobIds :
           jobs[j].state = "queued" /\ mediaJobs[j].state \in {"none", "queued"}
    BY <1>1, WithTranscriptionKeeps
  <1>6. StaysHeld(w) \in BOOLEAN
    BY <1>3 DEF StaysHeld, RecordsFile
  <1> HIDE DEF jobs
  <1>7. /\ mediaJobs' \in [MediaJobIds -> MediaJobRows]
        /\ \A j \in MediaJobIds :
              /\ mediaJobs'[j].type = jobs[j].type
              /\ mediaJobs'[j] # jobs[j] => j = handler[w].job /\ Holds(w)
    BY <1>1, <1>4, CompletesKeeps
  <1>8. SavesStaySaves
    BY <1>4, <1>7 DEF SavesStaySaves
  <1>9. HeldHasAJob'
    <2> SUFFICES ASSUME StaysHeld(w)
                 PROVE  \E j \in MediaJobIds : mediaJobs'[j].state = "queued"
      BY <1>1 DEF HeldHasAJob
    <2>1. PICK j \in MediaJobIds : jobs[j].state = "queued" /\ mediaJobs[j].state \in {"none", "queued"}
      BY <1>5
    <2>2. mediaJobs'[j] = jobs[j]
      BY <1>7, <2>1 DEF Holds, JobOf
    <2> QED BY <2>1, <2>2
  <1>10. seen.status = "saved" /\ ~StaysHeld(w) /\ speech => seen.said # "no"
    <2>1. seen.status = "saved" /\ ~StaysHeld(w) /\ speech => JobOf(w).type # "save"
      BY DEF StaysHeld, RecordsFile
    <2> QED BY <1>1, <2>1 DEF MediaInv, SeenOk
  <1>11. RecordsFile(w) => seen.path \in InboxPaths /\ inboxFiles[seen.path] = "whole"
    BY <1>2 DEF RecordsFile, WholeIfSaved
  <1> HIDE DEF seen
  <1>12. fileRows \in Seq(InboxPaths) /\ \A i \in DOMAIN fileRows : inboxFiles[fileRows[i]] = "whole"
    BY DEF MediaInv, MediaTypes, PayloadOk
  <1>13. fileRows' \in Seq(InboxPaths) /\ \A i \in DOMAIN fileRows' : inboxFiles[fileRows'[i]] = "whole"
    BY <1>1, <1>11, <1>12
  <1>14. PayloadOk'
    BY <1>1, <1>2, <1>10, <1>13 DEF PayloadOk, SpeechIsHeard, WholeIfSaved
  <1> QED BY <1>1, <1>2, <1>6, <1>8, <1>9, <1>13, <1>14, EndedKeeps, MediaStepKeeps

\* For any handlers at once, superseded ones among them, and whatever fails: a message that
\* is held has a job that will release it, but where the database broke off the last
\* attempt; what is recorded or said to be saved is whole on the computer; and speech whose
\* file is saved is released as what was said, or marked unheard
\* (agents/src/attachments.ts).
THEOREM MediaIsKept == MediaSpec => []MediaKept
  <1>1. MediaInit => MediaInv
    BY MediaBegins
  <1>2. MediaInv /\ [MediaNext]_mediaVars => MediaInv'
    <2> SUFFICES ASSUME MediaInv, [MediaNext]_mediaVars
                 PROVE  MediaInv'
      OBVIOUS
    <2>1. CASE UNCHANGED mediaVars
      BY <2>1 DEF mediaVars, MediaInv, MediaTypes, HeldHasAJob, PayloadOk, SpeechIsHeard,
         WholeIfSaved, SeenOk, JobOf
    <2>2. ASSUME NEW w \in MediaSlots, MediaStep(w)
          PROVE  MediaInv'
      <3>1. CASE AlreadyReleased(w)
        BY <3>1, ReleasedKeeps DEF AlreadyReleased, Still
      <3> QED BY <2>2, <3>1, JobStepsKeep, ReadHeldKeeps, DownloadKeeps, ReserveKeeps, NoteKeeps,
             WriteKeeps, TranscribeKeeps, ReleaseKeeps DEF MediaStep
    <2> QED BY <2>1, <2>2 DEF MediaNext
  <1>3. MediaInv => MediaKept
    <2>1. ASSUME MediaInv, payload.status = "saved"
          PROVE  inboxFiles[payload.path] = "whole"
      BY <2>1 DEF MediaInv, PayloadOk, WholeIfSaved
    <2> QED BY <2>1 DEF MediaInv, PayloadOk, MediaKept, RecordedIsWhole
  <1> QED BY <1>1, <1>2, <1>3, PTL DEF MediaSpec

\* However the deliveries of updates, the people who link chats and the handlers of files
\* interleave, what the chats promise and what their files promise holds of both.
THEOREM MessagesAreKept == MessagesSpec => []MessagesKept
  BY ChatsAreKept, MediaIsKept, PTL DEF MessagesSpec, MessagesKept
=============================================================================
