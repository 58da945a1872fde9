------------------------------ MODULE RampSession ------------------------------
(***************************************************************************)
(* The session a gateway keeps with Ramp's MCP server for a connection,    *)
(* shared by every call made of it at once: mcpClient                      *)
(* (packages/connectors/src/mcp.ts) and rampProvider (ramp.ts) over it.    *)
(*                                                                         *)
(* The server may forget a session or a token at any time.  A call sends   *)
(* whatever session the client knows at that moment, and its answer is     *)
(* read against whatever the client knows when it comes.                   *)
(***************************************************************************)
EXTENDS Naturals, FiniteSets, FiniteSetsExt

CONSTANTS
    RampUses,       \* calls of Ramp's tools, each once
    MaxForgotten     \* bound: sessions and tokens forgotten, answers lost

ASSUME RampSessionAssumption == MaxForgotten \in Nat

VARIABLES
    session,         \* what the client knows: a session's number, or NoSession
    sessions,        \* the sessions the server knows
    started,         \* how many it ever started
    rampToken,       \* the access token is good, bad, or its grant gone
    rampCall,        \* a call and how far it is
    forgets

rampVars == <<session, sessions, started, rampToken, rampCall, forgets>>

NoSession == 0

NotCalled == [pc |-> "idle", sent |-> NoSession, tries |-> 0, retried |-> FALSE, acts |-> 0,
              answer |-> "none"]

Forget == forgets < MaxForgotten /\ forgets' = forgets + 1

\* What the provider's error becomes: Ramp's own errors come inside a successful
\* answer, and mean what the server's statuses do.
Answers == {"text", "not_found", "unavailable", "refused", "auth_expired", "unexpected"}

Go(c, pc) == rampCall' = [rampCall EXCEPT ![c].pc = pc]
Ends(c, answer) == rampCall' = [rampCall EXCEPT ![c].pc = "over", ![c].answer = answer]

-----------------------------------------------------------------------------
\* A call: first a session, if the client knows none.
Begin(c) ==
    /\ rampCall[c].pc = "idle"
    /\ Go(c, IF session = NoSession THEN "initialize" ELSE "ask")
    /\ UNCHANGED <<session, sessions, started, rampToken, forgets>>

\* initialize forgets the client's session before it asks for another.
Initialize(c) ==
    /\ rampCall[c].pc = "initialize"
    /\ session' = NoSession
    /\ Go(c, "starting")
    /\ UNCHANGED <<sessions, started, rampToken, forgets>>

\* The server starts one and names it in its answer.
SessionStarts(c) ==
    /\ rampCall[c].pc = "starting" /\ rampToken = "good"
    /\ started' = started + 1
    /\ sessions' = sessions \cup {started + 1}
    /\ session' = started + 1
    /\ Go(c, "ask")
    /\ UNCHANGED <<rampToken, forgets>>

\* The tool is called in the session the client knows now.
Ask(c) ==
    /\ rampCall[c].pc = "ask"
    /\ rampCall' = [rampCall EXCEPT ![c].pc = "asked", ![c].sent = session]
    /\ UNCHANGED <<session, sessions, started, rampToken, forgets>>

\* Only a call whose session is gone goes again, once.
GoesAgain(c, why) == why = "session" /\ ~rampCall[c].retried

CallAgain(c) ==
    rampCall' = [rampCall EXCEPT ![c].pc = IF session' = NoSession THEN "initialize" ELSE "ask",
                                 ![c].retried = TRUE]

\* The server knows the session and acts; the tool's own refusal comes as an answer.
ToolAnswers(c) ==
    /\ rampCall[c].pc = "asked" /\ rampToken = "good" /\ rampCall[c].sent \in sessions
    /\ session' \in {session, rampCall[c].sent}
    /\ \E answer \in Answers \ {"auth_expired", "unexpected"} :
          rampCall' = [rampCall EXCEPT ![c].pc = "over", ![c].answer = answer,
                                       ![c].acts = @ + IF answer = "text" THEN 1 ELSE 0]
    /\ UNCHANGED <<sessions, started, rampToken, forgets>>

\* It forgot the session: 404.  The client starts another and calls again, once, if
\* it still thinks it has a session.
SessionGone(c) ==
    /\ rampCall[c].pc = "asked" /\ rampToken = "good"
    /\ rampCall[c].sent \notin sessions \cup {NoSession} /\ session # NoSession
    /\ session' = NoSession
    /\ IF GoesAgain(c, "session") THEN CallAgain(c) ELSE Ends(c, "unexpected")
    /\ UNCHANGED <<sessions, started, rampToken, forgets>>

\* Any other refusal, of a call with no session or of one forgotten, while another
\* call of the same client has none yet, is the call's answer.
SessionRefused(c) ==
    /\ rampCall[c].pc = "asked" /\ rampToken = "good"
    /\ rampCall[c].sent = NoSession \/ (rampCall[c].sent \notin sessions /\ session = NoSession)
    /\ Ends(c, "refused")
    /\ UNCHANGED <<session, sessions, started, rampToken, forgets>>

\* The server refuses the token: the request goes once more with a fresh one, if
\* there is a grant to get it from.
TokenRefused(c) ==
    /\ rampCall[c].pc \in {"starting", "asked"} /\ rampToken # "good"
    /\ \/ /\ rampToken = "gone"
          /\ Ends(c, "auth_expired")
          /\ UNCHANGED rampToken
       \/ /\ rampToken = "bad" /\ rampCall[c].tries = 0
          /\ rampToken' = "good"
          /\ rampCall' = [rampCall EXCEPT ![c].tries = 1]
       \/ /\ rampToken = "bad" /\ rampCall[c].tries = 1
          /\ Ends(c, "refused")
          /\ UNCHANGED rampToken
    /\ UNCHANGED <<session, sessions, started, forgets>>

\* No answer in time, with the effect or without.
NoAnswer(c) ==
    /\ rampCall[c].pc \in {"starting", "asked"}
    /\ Forget
    /\ \E acts \in {0, IF rampCall[c].pc = "asked" /\ rampToken = "good" /\ rampCall[c].sent \in sessions
                       THEN 1 ELSE 0} :
          rampCall' = [rampCall EXCEPT ![c] = [@ EXCEPT !.acts = @ + acts,
              !.pc = IF GoesAgain(c, "time") THEN "ask" ELSE "over",
              !.retried = GoesAgain(c, "time"), !.answer = "unavailable"]]
    /\ UNCHANGED <<session, sessions, started, rampToken>>

ServerForgets ==
    /\ Forget
    /\ \/ /\ sessions # {} /\ sessions' = {}
          /\ UNCHANGED rampToken
       \/ /\ rampToken = "good" /\ rampToken' \in {"bad", "gone"}
          /\ UNCHANGED sessions
    /\ UNCHANGED <<session, started, rampCall>>

RampStep(c) ==
    \/ Begin(c) \/ Initialize(c) \/ SessionStarts(c) \/ Ask(c)
    \/ ToolAnswers(c) \/ SessionGone(c) \/ SessionRefused(c) \/ TokenRefused(c) \/ NoAnswer(c)

RampSessionInit ==
    /\ session = NoSession /\ sessions = {} /\ started = 0
    /\ rampToken = "good"
    /\ rampCall = [c \in RampUses |-> NotCalled]
    /\ forgets = 0

RampSessionNext == ServerForgets \/ \E c \in RampUses : RampStep(c)

RampSessionSpec == RampSessionInit /\ [][RampSessionNext]_rampVars

-----------------------------------------------------------------------------
(* Properties                                                              *)

RampSessionTypeOK ==
    /\ session \in 0 .. started /\ sessions \subseteq 1 .. started
    /\ rampToken \in {"good", "bad", "gone"}
    /\ \A c \in RampUses : /\ rampCall[c].acts \in Nat
                           /\ rampCall[c].answer \in Answers \cup {"none"}

\* A call of a tool that acts (a decision, a comment) acts at most once, through
\* lost sessions, refused tokens and answers that never come; and one that was
\* answered with the tool's words has acted.
ActsOnce ==
    \A c \in RampUses : /\ rampCall[c].acts <= 1
                        /\ rampCall[c].answer = "text" => rampCall[c].acts = 1

\* "A session per connection is kept between calls" (gateway/src/main.ts), and a
\* forgotten one is replaced: no call is refused for its session.  With two calls at
\* once one may send none, or have its 404 read while the other starts a session.
NoneRefusedForItsSession ==
    [][\A c \in RampUses : ~SessionRefused(c)]_rampVars
=============================================================================
