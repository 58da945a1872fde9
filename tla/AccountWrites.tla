---------------------------- MODULE AccountWrites ----------------------------
(***************************************************************************)
(* Winston's writes to one connected account and the audit log around      *)
(* them: the write routes of packages/vm-api (mail-write.ts,               *)
(* calendar-write.ts, ramp-write.ts), audited (packages/db/src/audit.ts)   *)
(* and the calls the providers of packages/connectors make of them.        *)
(*                                                                         *)
(* The provider is its feed: the list of changes made to the account, by   *)
(* Winston or by the user and others.  A calendar holds one series, 1, and *)
(* what "this and following" splits off it, 2.                             *)
(***************************************************************************)
EXTENDS Naturals, Sequences, SequencesExt

CONSTANTS
    Requests,        \* the writes Winston asks for through the CLI
    MaxChanges,      \* bound: the length of the feed
    MaxAccountFaults   \* bound: refused or unanswered calls, gateway deaths,
                       \* failed syncs, tokens the provider refuses

ASSUME AccountWritesAssumption == {MaxChanges, MaxAccountFaults} \subseteq Nat

VARIABLES
    domain,          \* mail, calendar or ramp: what the account is
    allowed,         \* its capabilities are on and its status is usable
    feed,            \* the provider: every change, in order
    audit,           \* the rows of audit_log
    request,         \* a CLI request and how far its route is
    accountFaults

writesVars == <<domain, allowed, feed, audit, request, accountFaults>>

One(verb) == <<[obj |-> 1, op |-> verb]>>

\* The calls a write makes of its provider, each a change of its own.
MailCalls(verb) == One(verb)

\* "This and following" ends the series, then adds the rest as another.
CalendarCalls(verb) ==
    IF verb = "split" THEN <<[obj |-> 1, op |-> "move"], [obj |-> 2, op |-> "create"]>>
    ELSE One(verb)

\* An edit of an expense sets its memo, then comments.
RampCalls(verb) ==
    IF verb = "edit" THEN One("memo") \o One("comment") ELSE One(verb)

Calls(verb) ==
    IF domain = "mail" THEN MailCalls(verb)
    ELSE IF domain = "calendar" THEN CalendarCalls(verb)
    ELSE RampCalls(verb)

Change(call, who) == [obj |-> call.obj, op |-> call.op, by |-> who]

\* What an object of the calendar is after the first n changes: the change that
\* gave it its present content, 0 when there is no such object.
ContentAt(obj, n) ==
    LET of(ops) == {i \in 1 .. n : feed[i].obj = obj /\ feed[i].op \in ops}
    IN  IF of({"create"}) = {} \/ of({"delete"}) # {} THEN 0
        ELSE Max(of({"create", "move"}))

Exists(obj) == ContentAt(obj, Len(feed)) # 0
Fresh(obj) == \A i \in DOMAIN feed : feed[i].obj # obj

PendingRow(action) == [action |-> action, outcome |-> "pending", result |-> 0]
NoRequest == [verb |-> "none", dry |-> FALSE, pc |-> "none", row |-> 0, call |-> 1, made |-> {}]

Room == Len(feed) < MaxChanges

AccountFault == accountFaults < MaxAccountFaults /\ accountFaults' = accountFaults + 1

-----------------------------------------------------------------------------
\* A route resolves its target, checks the capability and reads what the write is
\* about; a dry run answers with a preview from the same checks.
Asks(r, verbs, possible) ==
    /\ request[r].pc = "none"
    /\ \E verb \in verbs, dry \in BOOLEAN :
          request' = [request EXCEPT ![r] = [NoRequest EXCEPT
              !.verb = verb, !.dry = dry,
              !.pc = IF ~(allowed /\ possible) THEN "refused"
                     ELSE IF dry THEN "previewed" ELSE "audit"]]
    /\ UNCHANGED <<domain, allowed, feed, audit, accountFaults>>

SendOrDraft(r) == domain = "mail" /\ Asks(r, {"send", "draft"}, TRUE)

\* The original is a message there is, or the latest of its thread.
ReplyOrForward(r) ==
    domain = "mail" /\ Asks(r, {"send"}, \E i \in DOMAIN feed : feed[i].op = "receive")

UpdateOrTrash(r) == domain = "mail" /\ Asks(r, {"labels"}, feed # <<>>)

CreateEvent(r) == domain = "calendar" /\ Fresh(1) /\ Asks(r, {"create"}, TRUE)
UpdateEvent(r) == domain = "calendar" /\ Asks(r, {"move", "split"}, Exists(1))
DeleteEvent(r) == domain = "calendar" /\ Asks(r, {"delete"}, Exists(1))
AnswerInvitation(r) == domain = "calendar" /\ Asks(r, {"rsvp"}, Exists(1))

UpdateExpense(r) == domain = "ramp" /\ Asks(r, {"edit"}, TRUE)
DecideExpense(r) == domain = "ramp" /\ Asks(r, {"decide"}, TRUE)
SubmitExpense(r) == domain = "ramp" /\ Asks(r, {"submit"}, TRUE)

\* Mutant: the route calls the provider without a row.
MutRecordPending(r) ==
    /\ request[r].pc = "audit"
    /\ request' = [request EXCEPT ![r].pc = "call"]
    /\ UNCHANGED <<domain, allowed, feed, audit, accountFaults>>

\* audited: the row is there, pending, before the provider is called.
RecordPending(r) ==
    /\ request[r].pc = "audit"
    /\ audit' = Append(audit, PendingRow(request[r].verb))
    /\ request' = [request EXCEPT ![r].pc = "call", ![r].row = Len(audit) + 1]
    /\ UNCHANGED <<domain, allowed, feed, accountFaults>>

\* A provider's call takes effect: the next one, or the answer.  An object that
\* went meanwhile cannot be changed.
CallSucceeds(r) ==
    LET calls == Calls(request[r].verb)
        call == calls[request[r].call]
    IN  /\ request[r].pc = "call" /\ Room
        /\ call.op \in {"move", "delete", "rsvp"} => Exists(call.obj)
        /\ call.op = "create" => Fresh(call.obj)
        /\ feed' = Append(feed, Change(call, "winston"))
        /\ request' = [request EXCEPT ![r].made = @ \cup {Len(feed) + 1},
                                      ![r].call = @ + 1,
                                      ![r].pc = IF request[r].call = Len(calls)
                                                THEN "done" ELSE "call"]
        /\ UNCHANGED <<domain, allowed, audit, accountFaults>>

\* It fails, with its effect (the answer is lost) or without.
CallFails(r) ==
    /\ request[r].pc = "call"
    /\ AccountFault
    /\ \/ /\ UNCHANGED feed
          /\ request' = [request EXCEPT ![r].pc = "failed"]
       \/ LET call == Calls(request[r].verb)[request[r].call] IN
          /\ Room
          /\ call.op \in {"move", "delete", "rsvp"} => Exists(call.obj)
          /\ call.op = "create" => Fresh(call.obj)
          /\ feed' = Append(feed, Change(call, "winston"))
          /\ request' = [request EXCEPT ![r].pc = "failed", ![r].made = @ \cup {Len(feed) + 1}]
    /\ UNCHANGED <<domain, allowed, audit>>

\* The call is over: the row gets its outcome and the id of what was made.
RecordOutcome(r) ==
    LET ok == request[r].pc = "done" IN
    /\ request[r].pc \in {"done", "failed"}
    /\ audit' = [i \in DOMAIN audit |->
                    IF i # request[r].row THEN audit[i]
                    ELSE [audit[i] EXCEPT !.outcome = IF ok THEN "ok" ELSE "error",
                                          !.result = IF ok THEN Max(request[r].made) ELSE 0]]
    /\ request' = [request EXCEPT ![r].pc = "answered"]
    /\ UNCHANGED <<domain, allowed, feed, accountFaults>>

\* The gateway goes down with the request: its row stays as it is.
GatewayDies(r) ==
    /\ request[r].pc \in {"audit", "call", "done", "failed"}
    /\ AccountFault
    /\ request' = [request EXCEPT ![r].pc = "lost"]
    /\ UNCHANGED <<domain, allowed, feed, audit>>

\* The account changes on its own: the user's, or others', doing.
UserChanges ==
    /\ Room
    /\ \E call \in [obj : {1}, op : IF domain = "mail" THEN {"receive", "send", "labels"}
                                    ELSE IF domain = "calendar" THEN {"create", "move", "delete"}
                                    ELSE {"comment"}] :
          /\ call.op \in {"move", "delete"} => Exists(1)
          /\ call.op = "create" => Fresh(1)
          /\ feed' = Append(feed, Change(call, "user"))
    /\ UNCHANGED <<domain, allowed, audit, request, accountFaults>>

\* The user switches the capability off on the website.
Disallow ==
    /\ allowed /\ \E r \in Requests : request[r].pc = "none"
    /\ allowed' = FALSE
    /\ UNCHANGED <<domain, feed, audit, request, accountFaults>>

RequestArrives(r) ==
    \/ SendOrDraft(r) \/ ReplyOrForward(r) \/ UpdateOrTrash(r)
    \/ CreateEvent(r) \/ UpdateEvent(r) \/ DeleteEvent(r) \/ AnswerInvitation(r)
    \/ UpdateExpense(r) \/ DecideExpense(r) \/ SubmitExpense(r)

RequestStep(r) ==
    \/ RequestArrives(r) \/ RecordPending(r) \/ CallSucceeds(r) \/ CallFails(r)
    \/ RecordOutcome(r) \/ GatewayDies(r)

WritesInit ==
    /\ domain \in {"mail", "calendar", "ramp"}
    /\ allowed = TRUE
    /\ feed = <<>> /\ audit = <<>>
    /\ request = [r \in Requests |-> NoRequest]
    /\ accountFaults = 0

WritesNext == UserChanges \/ Disallow \/ \E r \in Requests : RequestStep(r)

WritesSpec == WritesInit /\ [][WritesNext]_writesVars

-----------------------------------------------------------------------------
(* Properties                                                              *)

WritesTypeOK ==
    /\ domain \in {"mail", "calendar", "ramp"} /\ allowed \in BOOLEAN
    /\ \A i \in DOMAIN feed : feed[i].by \in {"winston", "user"} /\ feed[i].obj \in {1, 2}
    /\ \A i \in DOMAIN audit : /\ audit[i].outcome \in {"pending", "ok", "error"}
                               /\ audit[i].result \in 0 .. Len(feed)
    /\ \A r \in Requests : /\ request[r].row \in 0 .. Len(audit)
                           /\ request[r].made \subseteq DOMAIN feed

\* "The provider is never called without its row, and a failed call stays on
\* record" (audit.ts): every change Winston made belongs to a request with a row,
\* also when the gateway died or the answer was lost half-way, and a row that
\* says ok names what was made last.
EffectsOnRecord ==
    \A i \in DOMAIN feed : feed[i].by = "winston" =>
        \E r \in Requests :
            /\ i \in request[r].made /\ request[r].row # 0 /\ ~request[r].dry
            /\ LET row == audit[request[r].row] IN
               /\ row.action = request[r].verb
               /\ row.outcome = "ok" => row.result = Max(request[r].made)
=============================================================================
