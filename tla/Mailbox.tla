------------------------------- MODULE Mailbox -------------------------------
(***************************************************************************)
(* Winston's own mailbox: its addresses (packages/db/src/mailbox.ts), what *)
(* it receives (apps/api/.../ses-webhook.ts, apps/agents/.../receive.ts)   *)
(* and what it sends (packages/connectors/src/winston-mail.ts).            *)
(*                                                                         *)
(* A message is the addresses it is for and what SES and its sender make   *)
(* of it; its text, its thread and its labels are left out.                *)
(***************************************************************************)
EXTENDS Naturals, FiniteSets

CONSTANTS
    Owners,             \* the users
    Names,              \* the addresses they may choose
    MaxAddressChanges,  \* how often an address may be changed
    Mails,              \* messages for Winston
    AskSlots,           \* requests of the site under way at once
    ReceiveSlots,       \* receive_mail jobs running at once
    SendSlots,          \* messages being sent at once
    DailyLimit,         \* sends a day
    MaxMailFaults       \* bound: crashes, failed steps, repeated notices

ASSUME MailboxAssumption ==
    /\ {MaxAddressChanges, DailyLimit, MaxMailFaults} \subseteq Nat
    /\ "free" \notin Owners /\ "none" \notin Names
    /\ IsFiniteSet(SendSlots)

VARIABLES
    \* addresses
    user,               \* here, leaving (delete_user runs), retired, gone
    holder,             \* the rows of mailbox_addresses
    retired,            \* the hashes that are never given again
    box,                \* the user's mailbox: its status and its address
    asking,             \* a request between its checks and its claim
    \* received
    mail,               \* a message as SES keeps it, until it is handled
    receiveJob,         \* a message has a queued receive_mail
    receiving,          \* a running receive_mail
    inbox,              \* the messages stored in a mailbox
    news,               \* received events, and who they are for
    matched,            \* those given to subscriptions
    \* sent
    sending,            \* messages being sent
    accepted, sent,     \* how many SES took, how many are stored
    \* history
    everHad,            \* the users that had an address
    raced,              \* addresses asked for while an account's were retired
    served,             \* the addresses a message was stored or bounced for
    dropped,            \* events in the hands of a job that failed
    unrecorded,         \* sends that failed after SES took them
    mailFaults

addressVars == <<user, holder, retired, box, asking, everHad, raced>>
receiveVars == <<mail, receiveJob, receiving, inbox, news, matched, served, dropped>>
sendVars == <<sending, accepted, sent, unrecorded>>
mailboxVars == <<addressVars, receiveVars, sendVars, mailFaults>>

\* A user's Winston connection, and a message with SES's verdicts, as stored.
MailboxRows == [status : {"never", "on", "off"}, address : Names \cup {"none"}]
MessageRows == [raw : {"none", "there", "gone"}, to : SUBSET Names,
                verdict : {"clean", "spam", "virus"}]

NoMailbox == [status |-> "never", address |-> "none"]
NoAsk == [pc |-> "idle", owner |-> "free", name |-> "none"]
NoMail == [raw |-> "none", to |-> {}, verdict |-> "clean"]
NoReceive == [pc |-> "idle", mail |-> "none", found |-> {}, missing |-> {}, stored |-> {}]

MailFault == mailFaults < MaxMailFaults /\ mailFaults' = mailFaults + 1

Held(u) == {n \in Names : holder[n] = u}

-----------------------------------------------------------------------------
(* Addresses                                                               *)

\* Whether a name could become an address now.
MailboxNameOk(n) == holder[n] = "free" /\ n \notin retired

ChangesLeft(u) == Cardinality(Held(u) \ {box[u].address}) < MaxAddressChanges

\* The first time, the mailbox takes a name; the user's row is held meanwhile.
AskTurnOn(a, u, n) ==
    /\ asking[a] = NoAsk /\ user[u] = "here" /\ box[u].status = "never"
    /\ \A b \in AskSlots : ~(asking[b].pc = "turn_on" /\ asking[b].owner = u)
    /\ MailboxNameOk(n)
    /\ asking' = [asking EXCEPT ![a] = [pc |-> "turn_on", owner |-> u, name |-> n]]
    /\ UNCHANGED <<user, holder, retired, box, everHad, raced, receiveVars, sendVars, mailFaults>>

\* After that it comes back with the address it had.
TurnBackOn(u) ==
    /\ user[u] = "here" /\ box[u].status = "off"
    /\ box' = [box EXCEPT ![u].status = "on"]
    /\ UNCHANGED <<user, holder, retired, asking, everHad, raced, receiveVars, sendVars,
                   mailFaults>>

TurnOff(u) ==
    /\ user[u] = "here" /\ box[u].status = "on"
    /\ box' = [box EXCEPT ![u].status = "off"]
    /\ UNCHANGED <<user, holder, retired, asking, everHad, raced, receiveVars, sendVars,
                   mailFaults>>

AskChange(a, u, n) ==
    /\ asking[a] = NoAsk /\ user[u] = "here" /\ box[u].status # "never"
    /\ n # box[u].address /\ ChangesLeft(u) /\ MailboxNameOk(n)
    /\ asking' = [asking EXCEPT ![a] = [pc |-> "change", owner |-> u, name |-> n]]
    /\ UNCHANGED <<user, holder, retired, box, everHad, raced, receiveVars, sendVars, mailFaults>>

\* Mutant: a mailbox turned on the first time stays off the books.
MutClaim(a) ==
    LET u == asking[a].owner
        n == asking[a].name
    IN  /\ asking[a] # NoAsk
        /\ asking' = [asking EXCEPT ![a] = NoAsk]
        /\ IF holder[n] = "free" /\ user[u] # "gone"
           THEN /\ holder' = [holder EXCEPT ![n] = u]
                /\ box' = [box EXCEPT ![u].address = n]
                /\ everHad' = [everHad EXCEPT ![n] = @ \cup {u}]
           ELSE UNCHANGED <<holder, box, everHad>>
        /\ UNCHANGED <<user, retired, raced, receiveVars, sendVars, mailFaults>>

\* The claim, and the rest of its transaction: undone when someone has the address
\* or the user is gone.
Claim(a) ==
    LET u == asking[a].owner
        n == asking[a].name
    IN  /\ asking[a] # NoAsk
        /\ asking' = [asking EXCEPT ![a] = NoAsk]
        /\ IF holder[n] = "free" /\ user[u] # "gone"
           THEN /\ holder' = [holder EXCEPT ![n] = u]
                /\ box' = [box EXCEPT ![u].address = n,
                                      ![u].status = IF asking[a].pc = "turn_on" THEN "on" ELSE @]
                /\ everHad' = [everHad EXCEPT ![n] = @ \cup {u}]
           ELSE UNCHANGED <<holder, box, everHad>>
        /\ UNCHANGED <<user, retired, raced, receiveVars, sendVars, mailFaults>>

\* requestAccountDeletion: no session is left to ask anything.
AskDeletion(u) ==
    /\ user[u] = "here"
    /\ user' = [user EXCEPT ![u] = "leaving"]
    /\ UNCHANGED <<holder, retired, box, asking, everHad, raced, receiveVars, sendVars, mailFaults>>

RetireAddresses(u) ==
    /\ user[u] = "leaving"
    /\ user' = [user EXCEPT ![u] = "retired"]
    /\ retired' = retired \cup Held(u)
    /\ raced' = raced \cup {asking[a].name : a \in {b \in AskSlots : asking[b] # NoAsk}}
    /\ UNCHANGED <<holder, box, asking, everHad, receiveVars, sendVars, mailFaults>>

\* The user's row goes, once no request holds it, and every row of theirs with it.
DeleteUser(u) ==
    /\ user[u] = "retired"
    /\ \A a \in AskSlots : ~(asking[a].pc = "turn_on" /\ asking[a].owner = u)
    /\ user' = [user EXCEPT ![u] = "gone"]
    /\ holder' = [n \in Names |-> IF holder[n] = u THEN "free" ELSE holder[n]]
    /\ box' = [box EXCEPT ![u] = NoMailbox]
    /\ inbox' = [inbox EXCEPT ![u] = {}]
    /\ news' = {e \in news : e[1] # u} /\ matched' = {e \in matched : e[1] # u}
    /\ UNCHANGED <<retired, asking, everHad, raced, mail, receiveJob, receiving, served, dropped,
                   sendVars, mailFaults>>

\* delete_user dies between the two and is run again.
DeletionFails(u) ==
    /\ user[u] = "retired"
    /\ MailFault
    /\ user' = [user EXCEPT ![u] = "leaving"]
    /\ UNCHANGED <<holder, retired, box, asking, everHad, raced, receiveVars, sendVars>>

-----------------------------------------------------------------------------
(* Receiving                                                               *)

\* SES keeps the raw message and its notice reaches the webhook, which queues it.
MailArrives(m) ==
    /\ mail[m] = NoMail
    /\ \E to \in SUBSET Names \ {{}}, verdict \in {"clean", "spam", "virus"} :
          mail' = [mail EXCEPT ![m] = [raw |-> "there", to |-> to, verdict |-> verdict]]
    /\ receiveJob' = [receiveJob EXCEPT ![m] = TRUE]
    /\ UNCHANGED <<addressVars, receiving, inbox, news, matched, served, dropped, sendVars,
                   mailFaults>>

\* SNS delivers the notice again: a queued job absorbs it, a running one does not.
NoticeAgain(m) ==
    /\ mail[m] # NoMail /\ ~receiveJob[m]
    /\ MailFault
    /\ receiveJob' = [receiveJob EXCEPT ![m] = TRUE]
    /\ UNCHANGED <<addressVars, mail, receiving, inbox, news, matched, served, dropped, sendVars>>

\* The users whose mailbox, if it is on, a message is for.
MailboxesFor(m) == {u \in Owners : box[u].status = "on" /\ mail[m].to \cap Held(u) # {}}

\* A job starts: nothing is left to do once the raw message is gone, and infected
\* mail is dropped.
StartReceive(w, m) ==
    /\ receiving[w] = NoReceive /\ receiveJob[m]
    /\ receiveJob' = [receiveJob EXCEPT ![m] = FALSE]
    /\ IF mail[m].raw = "gone" \/ mail[m].verdict = "virus"
       THEN /\ mail' = [mail EXCEPT ![m].raw = "gone"]
            /\ UNCHANGED receiving
       ELSE /\ receiving' = [receiving EXCEPT ![w] =
                   [pc |-> "store", mail |-> m, found |-> MailboxesFor(m), stored |-> {},
                    missing |-> {n \in mail[m].to : holder[n] \notin MailboxesFor(m)}]]
            /\ UNCHANGED mail
    /\ UNCHANGED <<addressVars, inbox, news, matched, served, dropped, sendVars, mailFaults>>

\* Mutant: a mailbox's event takes the place of the one before it.
MutStoreReceived(w, u) ==
    LET m == receiving[w].mail
        events == IF m \in inbox[u] \/ mail[m].verdict = "spam" THEN {} ELSE {<<u, m>>}
    IN  /\ receiving[w].pc = "store" /\ u \in receiving[w].found /\ user[u] # "gone"
        /\ receiving' = [receiving EXCEPT ![w].found = @ \ {u}, ![w].stored = events]
        /\ inbox' = [inbox EXCEPT ![u] = @ \cup {m}]
        /\ news' = news \cup events
        /\ served' = [served EXCEPT ![m] = @ \cup (Held(u) \cap mail[m].to)]
        /\ UNCHANGED <<addressVars, mail, receiveJob, matched, dropped, sendVars, mailFaults>>

\* One mailbox's message and its event, in one transaction; what is stored already
\* is not stored again, and spam is no news.
StoreReceived(w, u) ==
    LET m == receiving[w].mail
        events == IF m \in inbox[u] \/ mail[m].verdict = "spam" THEN {} ELSE {<<u, m>>}
    IN  /\ receiving[w].pc = "store" /\ u \in receiving[w].found /\ user[u] # "gone"
        /\ receiving' = [receiving EXCEPT ![w].found = @ \ {u}, ![w].stored = @ \cup events]
        /\ inbox' = [inbox EXCEPT ![u] = @ \cup {m}]
        /\ news' = news \cup events
        /\ served' = [served EXCEPT ![m] = @ \cup (Held(u) \cap mail[m].to)]
        /\ UNCHANGED <<addressVars, mail, receiveJob, matched, dropped, sendVars, mailFaults>>

\* The addresses no mailbox takes are bounced.
BounceMissing(w) ==
    /\ receiving[w].pc = "store" /\ receiving[w].found = {}
    /\ receiving' = [receiving EXCEPT ![w].pc = "delete"]
    /\ served' = [served EXCEPT ![receiving[w].mail] = @ \cup receiving[w].missing]
    /\ UNCHANGED <<addressVars, mail, receiveJob, inbox, news, matched, dropped, sendVars,
                   mailFaults>>

DeleteRaw(w) ==
    /\ receiving[w].pc = "delete"
    /\ receiving' = [receiving EXCEPT ![w].pc = "match"]
    /\ mail' = [mail EXCEPT ![receiving[w].mail].raw = "gone"]
    /\ UNCHANGED <<addressVars, receiveJob, inbox, news, matched, served, dropped, sendVars,
                   mailFaults>>

\* matchEvents: the stored events meet the user's subscriptions.
MatchReceived(w) ==
    /\ receiving[w].pc = "match"
    /\ receiving' = [receiving EXCEPT ![w] = NoReceive]
    /\ matched' = matched \cup (receiving[w].stored \cap news)
    /\ UNCHANGED <<addressVars, mail, receiveJob, inbox, news, served, dropped, sendVars,
                   mailFaults>>

\* The worker dies, a step throws, or a mailbox it found is gone: it is run again.
ReceiveFails(w) ==
    /\ receiving[w] # NoReceive
    /\ \/ MailFault
       \/ /\ \E u \in receiving[w].found : user[u] = "gone"
          /\ UNCHANGED mailFaults
    /\ receiving' = [receiving EXCEPT ![w] = NoReceive]
    /\ receiveJob' = [receiveJob EXCEPT ![receiving[w].mail] = TRUE]
    /\ dropped' = dropped \cup receiving[w].stored
    /\ UNCHANGED <<addressVars, mail, inbox, news, matched, served, sendVars>>

-----------------------------------------------------------------------------
(* Sending                                                                 *)

\* checkLimit, and recipients that bounced before; the message is composed.
CheckSend(x, u) ==
    /\ sending[x] = [pc |-> "idle", owner |-> "free"]
    /\ user[u] = "here" /\ box[u].status = "on"
    /\ sent[u] < DailyLimit
    /\ sending' = [sending EXCEPT ![x] = [pc |-> "checked", owner |-> u]]
    /\ UNCHANGED <<addressVars, receiveVars, accepted, sent, unrecorded, mailFaults>>

SesTakes(x) ==
    /\ sending[x].pc = "checked"
    /\ sending' = [sending EXCEPT ![x].pc = "accepted"]
    /\ accepted' = [accepted EXCEPT ![sending[x].owner] = @ + 1]
    /\ UNCHANGED <<addressVars, receiveVars, sent, unrecorded, mailFaults>>

StoreSent(x) ==
    /\ sending[x].pc = "accepted" /\ user[sending[x].owner] # "gone"
    /\ sending' = [sending EXCEPT ![x] = [pc |-> "idle", owner |-> "free"]]
    /\ sent' = [sent EXCEPT ![sending[x].owner] = @ + 1]
    /\ UNCHANGED <<addressVars, receiveVars, accepted, unrecorded, mailFaults>>

SendFails(x) ==
    /\ sending[x].pc # "idle"
    /\ \/ MailFault
       \/ user[sending[x].owner] = "gone" /\ UNCHANGED mailFaults
    /\ sending' = [sending EXCEPT ![x] = [pc |-> "idle", owner |-> "free"]]
    /\ unrecorded' = IF sending[x].pc = "accepted"
                     THEN [unrecorded EXCEPT ![sending[x].owner] = @ + 1] ELSE unrecorded
    /\ UNCHANGED <<addressVars, receiveVars, accepted, sent>>

-----------------------------------------------------------------------------
\* Mailboxes may be on already, with earlier addresses.
MailboxInit ==
    /\ user = [u \in Owners |-> "here"]
    /\ holder \in [Names -> Owners \cup {"free"}] /\ retired = {}
    /\ box \in [Owners -> {NoMailbox} \cup [status : {"on"}, address : Names]]
    /\ \A u \in Owners :
          /\ Cardinality(Held(u)) <= MaxAddressChanges + 1
          /\ IF Held(u) = {} THEN box[u] = NoMailbox ELSE box[u].address \in Held(u)
    /\ asking = [a \in AskSlots |-> NoAsk]
    /\ mail = [m \in Mails |-> NoMail]
    /\ receiveJob = [m \in Mails |-> FALSE]
    /\ receiving = [w \in ReceiveSlots |-> NoReceive]
    /\ inbox = [u \in Owners |-> {}] /\ news = {} /\ matched = {}
    /\ sending = [x \in SendSlots |-> [pc |-> "idle", owner |-> "free"]]
    /\ accepted = [u \in Owners |-> 0] /\ sent = accepted /\ unrecorded = accepted
    /\ everHad = [n \in Names |-> {holder[n]} \ {"free"}] /\ raced = {}
    /\ served = [m \in Mails |-> {}] /\ dropped = {}
    /\ mailFaults = 0

AddressStep(u) ==
    \/ \E a \in AskSlots, n \in Names : AskTurnOn(a, u, n) \/ AskChange(a, u, n)
    \/ TurnBackOn(u) \/ TurnOff(u)
    \/ AskDeletion(u) \/ RetireAddresses(u) \/ DeleteUser(u) \/ DeletionFails(u)

ReceiveStep(w) ==
    \/ \E m \in Mails : StartReceive(w, m)
    \/ \E u \in Owners : StoreReceived(w, u)
    \/ BounceMissing(w) \/ DeleteRaw(w) \/ MatchReceived(w) \/ ReceiveFails(w)

SendStep(x) ==
    \/ \E u \in Owners : CheckSend(x, u)
    \/ SesTakes(x) \/ StoreSent(x) \/ SendFails(x)

MailboxNext ==
    \/ \E u \in Owners : AddressStep(u)
    \/ \E a \in AskSlots : Claim(a)
    \/ \E m \in Mails : MailArrives(m) \/ NoticeAgain(m)
    \/ \E w \in ReceiveSlots : ReceiveStep(w)
    \/ \E x \in SendSlots : SendStep(x)

MailboxSpec == MailboxInit /\ [][MailboxNext]_mailboxVars

-----------------------------------------------------------------------------
(* Properties                                                              *)

MailboxTypeOK ==
    /\ \A u \in Owners :
          /\ user[u] \in {"here", "leaving", "retired", "gone"}
          /\ box[u] \in MailboxRows /\ inbox[u] \subseteq Mails
          /\ IF box[u].status = "never" THEN Held(u) = {} ELSE box[u].address \in Held(u)
    /\ mail \in [Mails -> MessageRows]
    /\ holder \in [Names -> Owners \cup {"free"}] /\ retired \subseteq Names
    /\ \A w \in ReceiveSlots : receiving[w].pc \in {"idle", "store", "delete", "match"}
    /\ \A x \in SendSlots : sending[x].pc \in {"idle", "checked", "accepted"}
    /\ matched \subseteq news

\* "No address is ever freed" (mailbox.ts): through changes, accounts that go and
\* a delete_user that is run again, an address one user had is never another's,
\* except one a request was about to claim as an account's addresses were retired.
AddressNeverReused == \A n \in Names : Cardinality(everHad[n]) <= 1 \/ n \in raced

\* Mail is not lost: SES's copy goes only once every address the message is for
\* was served, by a mailbox or a bounce, through failures and repeated notices
\* (infected mail is dropped on purpose).
EveryRecipientServed ==
    \A m \in Mails :
        (mail[m].raw = "gone" /\ mail[m].verdict # "virus") => served[m] = mail[m].to

\* A received event reaches the subscriptions, unless the job that stored it
\* failed: the next attempt finds the message stored and has no event to match.
NewsMatched ==
    \A e \in news :
        e \in matched \cup dropped \/ \E w \in ReceiveSlots : e \in receiving[w].stored

\* What SES took is in the mailbox, but for sends that failed just then.
SentOnRecord ==
    \A u \in Owners :
        accepted[u] = sent[u] + unrecorded[u]
            + Cardinality({x \in SendSlots : sending[x] = [pc |-> "accepted", owner |-> u]})

\* "Safe to run again" (receive.ts), and nothing sent is forgotten.
MailKept == EveryRecipientServed /\ NewsMatched /\ SentOnRecord

\* An address is never anybody else's again, and mail is stored, sent and told of once.
MailboxKept == AddressNeverReused /\ MailKept

\* "A user may do this `maxAddressChanges` times in all" (mailbox.ts).  But the
\* changes left are read without holding the user's row.
ChangesLimited ==
    \A u \in Owners : Cardinality(Held(u)) <= MaxAddressChanges + 1
=============================================================================
