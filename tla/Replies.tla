------------------------------ MODULE Replies ------------------------------
(***************************************************************************)
(* What a front-of-house turn sends: its messages (front/reply.ts), files  *)
(* from the computer (tools/attach.ts), the note that a task carries on    *)
(* and the outage notice (front/turn.ts).  Telegram may take a message and *)
(* its answer be lost, the row that records it may not be stored, and a    *)
(* turn that failed or died is taken again by its job's retry.             *)
(***************************************************************************)
EXTENDS Integers, Sequences, FiniteSets, SequencesExt

CONSTANTS
    MaxGroup,        \* maxGroup: most files in an album
    ReplyParts,      \* parts a long reply is split in
    ReplyTries,      \* bound: turns taken for the input
    MaxReplyFaults   \* bound: calls that fail, answers and rows that are lost

ASSUME RepliesAssumption ==
    /\ {MaxGroup, ReplyParts, ReplyTries} \subseteq Nat \ {0}
    /\ MaxReplyFaults \in Nat

VARIABLES
    reply,        \* the turn: where it is, and what it is sending
    chat,         \* what the user got, in order
    outbound,     \* outbound_messages: the texts and files recorded
    heard,        \* what the model was last told of its files
    handedOver,   \* background tasks started for this input
    notices,      \* history: outage notices the user got since a turn completed
    unrecorded,   \* history: something was sent and its row is missing
    replyFaults

repliesVars == <<reply, chat, outbound, heard, handedOver, notices, unrecorded, replyFaults>>

ReplyFault ==
    /\ replyFaults < MaxReplyFaults
    /\ replyFaults' = replyFaults + 1

AtReply(pc) == reply.pc = pc

\* The files asked for, by kind, in order.
AttachLists == {<<"photo">>, <<"photo", "document">>, <<"photo", "photo", "photo">>,
                <<"document", "photo", "photo">>}

NotSending == [text |-> "none", part |-> 1, way |-> "rich", got |-> 0]

NoReply == [pc |-> "waiting", try |-> 0, kinds |-> <<>>, groups |-> <<>>, sent |-> {},
            sending |-> NotSending, began |-> 0, attached |-> FALSE]

TakenAgain == [NoReply EXCEPT !.try = reply.try, !.began = Len(chat)]

NothingHeard == [verdict |-> "none", sent |-> {}]

-----------------------------------------------------------------------------
(* A turn is taken, and taken again                                        *)

BeginReply ==
    /\ AtReply("waiting") /\ reply.try < ReplyTries
    /\ reply' = [NoReply EXCEPT !.pc = "work", !.try = reply.try + 1, !.began = Len(chat)]
    /\ heard' = NothingHeard
    /\ UNCHANGED <<chat, outbound, handedOver, notices, unrecorded, replyFaults>>

\* The worker dies: the job's lease runs out and another takes the turn.
ReplyCrashes ==
    /\ reply.pc \notin {"waiting", "done"}
    /\ ReplyFault
    /\ reply' = TakenAgain
    /\ unrecorded' = (unrecorded \/ reply.pc = "recordGroup" \/ reply.sending.got > 0)
    /\ UNCHANGED <<chat, outbound, heard, handedOver, notices>>

-----------------------------------------------------------------------------
(* attach                                                                  *)

\* Consecutive files of one kind, in groups of at most MaxGroup: the files' places.
GroupsOf(kinds) ==
    FoldLeft(LAMBDA groups, k :
                 IF /\ groups # <<>> /\ Len(Last(groups)) < MaxGroup
                    /\ kinds[Head(Last(groups))] = kinds[k]
                 THEN Front(groups) \o <<Append(Last(groups), k)>>
                 ELSE Append(groups, <<k>>),
             <<>>, [k \in DOMAIN kinds |-> k])

Hear(verdict) ==
    /\ heard' = [verdict |-> verdict, sent |-> reply.sent]
    /\ reply' = [reply EXCEPT !.pc = "work", !.groups = <<>>]

\* Every path is checked before anything is sent.
CheckFiles(kinds) ==
    /\ AtReply("work") /\ ~reply.attached
    /\ \/ /\ reply' = [reply EXCEPT !.pc = "readGroup", !.kinds = kinds, !.attached = TRUE,
                                    !.groups = GroupsOf(kinds)]
          /\ UNCHANGED heard
       \/ /\ heard' = [verdict |-> "nothing", sent |-> {}]
          /\ reply' = [reply EXCEPT !.attached = TRUE]
    /\ UNCHANGED <<chat, outbound, handedOver, notices, unrecorded, replyFaults>>

FilesFail == Hear(IF reply.sent = {} THEN "nothing" ELSE "some")

ReadGroup ==
    /\ AtReply("readGroup")
    /\ \/ reply' = [reply EXCEPT !.pc = "sendGroup"] /\ UNCHANGED <<heard, replyFaults>>
       \/ ReplyFault /\ FilesFail
    /\ UNCHANGED <<chat, outbound, handedOver, notices, unrecorded>>

FileSent(k) == [what |-> "file", part |-> k]

SendGroup ==
    LET group == Head(reply.groups)
        arrives == chat' = chat \o [k \in DOMAIN group |-> FileSent(group[k])]
    IN /\ AtReply("sendGroup")
       /\ \/ /\ arrives
             /\ reply' = [reply EXCEPT !.pc = "recordGroup"]
             /\ UNCHANGED <<heard, unrecorded, replyFaults>>
          \/ ReplyFault /\ FilesFail /\ UNCHANGED <<chat, unrecorded>>
          \* Telegram took them, and its answer is lost.
          \/ ReplyFault /\ FilesFail /\ arrives /\ unrecorded' = TRUE
       /\ UNCHANGED <<outbound, handedOver, notices>>

\* One transaction for the group's rows; then they are told as sent.
RecordGroup ==
    LET group == Head(reply.groups)
        sent == reply.sent \cup ToSet(group)
        more == Len(reply.groups) > 1
    IN /\ AtReply("recordGroup")
       /\ \/ /\ outbound' = outbound \cup {FileSent(k) : k \in ToSet(group)}
             /\ reply' = [reply EXCEPT !.sent = sent, !.groups = Tail(@),
                                       !.pc = IF more THEN "readGroup" ELSE "work"]
             /\ heard' = IF more THEN heard ELSE [verdict |-> "all", sent |-> sent]
             /\ UNCHANGED <<unrecorded, replyFaults>>
          \/ ReplyFault /\ FilesFail /\ unrecorded' = TRUE /\ UNCHANGED outbound
       /\ UNCHANGED <<chat, handedOver, notices>>

-----------------------------------------------------------------------------
(* deliverReply                                                            *)

Say(text) ==
    reply' = [reply EXCEPT !.pc = "say", !.sending = [NotSending EXCEPT !.text = text]]

\* The notices and notes are one part, a reply may be more.
PartsOf(text) == IF text = "reply" THEN ReplyParts ELSE 1

\* Where a delivered text, or one that failed, leads.
AfterText(text) ==
    CASE text = "reply" -> "finish" [] text = "carriesOn" -> "finish" [] OTHER -> "throw"

AfterFailure(text) == IF text = "notice" THEN "throw" ELSE "fail"

Got(text, part) ==
    /\ chat' = Append(chat, [what |-> text, part |-> part])
    /\ notices' = IF text = "notice" THEN notices + 1 ELSE notices

NextPart(s) == [s EXCEPT !.part = @ + 1, !.way = "rich", !.got = @ + 1]

\* A part goes out; one Telegram refuses, or does not answer for, is sent again as plain text.
SendPart ==
    LET s == reply.sending
        refused == IF s.way = "rich" THEN [reply EXCEPT !.sending.way = "plain"]
                   ELSE [reply EXCEPT !.pc = "recordFailed"]
    IN /\ AtReply("say")
       /\ \/ /\ Got(s.text, s.part)
             /\ reply' = [reply EXCEPT !.sending = NextPart(s),
                             !.pc = IF s.part = PartsOf(s.text) THEN "recordText" ELSE "say"]
             /\ UNCHANGED <<replyFaults, unrecorded>>
          \/ ReplyFault /\ reply' = refused /\ UNCHANGED <<chat, notices, unrecorded>>
          \/ ReplyFault /\ reply' = refused /\ Got(s.text, s.part) /\ unrecorded' = TRUE
       /\ UNCHANGED <<outbound, heard, handedOver>>

\* What was already sent is recorded whether or not the rest went out.
RecordText ==
    LET s == reply.sending
        failed == AtReply("recordFailed")
        over(pc) == reply' = [reply EXCEPT !.pc = pc, !.sending = NotSending]
    IN /\ reply.pc \in {"recordText", "recordFailed"}
       /\ \/ /\ outbound' = IF s.got > 0 THEN outbound \cup {[what |-> s.text, part |-> 0]} ELSE outbound
             /\ over(IF failed THEN AfterFailure(s.text) ELSE AfterText(s.text))
             /\ UNCHANGED <<replyFaults, unrecorded>>
          \/ /\ s.got > 0 /\ ReplyFault /\ UNCHANGED outbound
             /\ unrecorded' = TRUE
             /\ over(AfterFailure(s.text))
       /\ UNCHANGED <<chat, heard, handedOver, notices>>

AnswerUser ==
    /\ AtReply("work") /\ Say("reply")
    /\ UNCHANGED <<chat, outbound, heard, handedOver, notices, unrecorded, replyFaults>>

-----------------------------------------------------------------------------
(* Out of steps, and out of luck                                           *)

\* The server starts the task with the brief the model wrote, then says so.
HandRestOver ==
    /\ AtReply("work")
    /\ handedOver' = handedOver + 1
    /\ Say("carriesOn")
    /\ UNCHANGED <<chat, outbound, heard, notices, unrecorded, replyFaults>>

\* Every attempt on the models failed.
ModelsFail ==
    /\ AtReply("work")
    /\ ReplyFault
    /\ reply' = [reply EXCEPT !.pc = "fail"]
    /\ UNCHANGED <<chat, outbound, heard, handedOver, notices, unrecorded>>

NoticePending == [what |-> "notice", part |-> 0] \in outbound

\* The input goes back, and the notice goes out unless one stands.
FailReply ==
    /\ AtReply("fail")
    /\ IF NoticePending THEN reply' = [reply EXCEPT !.pc = "throw"] ELSE Say("notice")
    /\ UNCHANGED <<chat, outbound, heard, handedOver, notices, unrecorded, replyFaults>>

ReplyThrows ==
    /\ AtReply("throw")
    /\ reply' = TakenAgain
    /\ UNCHANGED <<chat, outbound, heard, handedOver, notices, unrecorded, replyFaults>>

\* The run completes: a notice from before it no longer stands.
FinishReply ==
    /\ AtReply("finish")
    /\ reply' = [reply EXCEPT !.pc = "done"]
    /\ outbound' = outbound \ {[what |-> "notice", part |-> 0]}
    /\ notices' = 0
    /\ UNCHANGED <<chat, heard, handedOver, unrecorded, replyFaults>>

\* The user writes again.
NewInput ==
    /\ AtReply("done") /\ reply.try < ReplyTries
    /\ reply' = TakenAgain
    /\ handedOver' = 0
    /\ UNCHANGED <<chat, outbound, heard, notices, unrecorded, replyFaults>>

-----------------------------------------------------------------------------
RepliesInit ==
    /\ reply = NoReply /\ chat = <<>> /\ outbound = {} /\ heard = NothingHeard
    /\ handedOver = 0 /\ notices = 0 /\ unrecorded = FALSE /\ replyFaults = 0

RepliesNext ==
    \/ BeginReply \/ ReplyCrashes
    \/ \E kinds \in AttachLists : CheckFiles(kinds)
    \/ ReadGroup \/ SendGroup \/ RecordGroup
    \/ SendPart \/ RecordText \/ AnswerUser
    \/ HandRestOver \/ ModelsFail \/ FailReply \/ ReplyThrows \/ FinishReply \/ NewInput

-----------------------------------------------------------------------------
(* Properties                                                              *)

RepliesTypeOK ==
    /\ reply.try \in 0..ReplyTries /\ reply.sending.way \in {"rich", "plain"}
    /\ notices \in Nat /\ handedOver \in Nat /\ unrecorded \in BOOLEAN
    /\ heard.verdict \in {"none", "nothing", "some", "all"}

\* What this turn sent the user.
SentNow == SubSeq(chat, reply.began + 1, Len(chat))

FilesNow == SelectSeq(SentNow, LAMBDA m : m.what = "file")

\* The user gets a turn's files in the order asked for, no album mixes kinds, and what the
\* model is told was sent is there and recorded.
FilesInOrder ==
    /\ \A i, j \in DOMAIN FilesNow : i < j => FilesNow[i].part < FilesNow[j].part
    /\ \A g \in DOMAIN reply.groups :
          /\ Len(reply.groups[g]) <= MaxGroup
          /\ \A i, j \in DOMAIN reply.groups[g] :
                reply.kinds[reply.groups[g][i]] = reply.kinds[reply.groups[g][j]]
    /\ reply.pc \notin {"waiting", "done"} =>
          \A k \in heard.sent : FileSent(k) \in ToSet(SentNow) /\ FileSent(k) \in outbound
    /\ heard.verdict = "all" /\ reply.pc = "work" => Len(FilesNow) = Len(reply.kinds)

\* A reply's parts come in order, each of them if the turn completed.
PartsInOrder ==
    LET parts == SelectSeq(SentNow, LAMBDA m : m.what = "reply")
    IN /\ \A i, j \in DOMAIN parts : i < j => parts[i].part <= parts[j].part
       /\ (AtReply("finish") /\ parts # <<>>) => {parts[i].part : i \in DOMAIN parts} = 1..ReplyParts

\* However many turns fail, the user hears of it once until one completes, unless the first
\* notice was not recorded.
NoticedOnce == unrecorded \/ notices <= 1

RepliesKept == FilesInOrder /\ PartsInOrder /\ NoticedOnce

-----------------------------------------------------------------------------
(* What the comments say and the code does not keep                        *)

\* "Nothing sent" (attach.ts): the files were, when Telegram's answer or their rows were lost.
NothingSentIsTrue == (heard.verdict = "nothing" /\ reply.pc = "work") => FilesNow = <<>>

\* "At most once until a turn succeeds" (front/turn.ts), whatever is lost.
NoticeAtMostOnce == notices <= 1

\* "The server hands the rest over" (front/turn.ts): again in the next turn, when saying so failed.
RestHandedOnce == handedOver <= 1
=============================================================================
