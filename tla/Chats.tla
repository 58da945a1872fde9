------------------------------- MODULE Chats -------------------------------
(***************************************************************************)
(* Telegram chats: linked from the site with one-time tokens, moved from   *)
(* one user to another, and the updates their people send, which Telegram  *)
(* delivers to the api's webhook until it answers                          *)
(* (apps/api/src/telegram/handle-update.ts).                               *)
(*                                                                         *)
(* Telegram opens several connections, so handlers overlap; the link is    *)
(* read in one statement and the item stored in a later transaction.       *)
(***************************************************************************)
EXTENDS Naturals, FiniteSets

CONSTANTS
    Users, ChatIds,
    LinkTokens,
    TgUpdates,          \* update_id
    WebhookSlots,       \* handlers that may be at work at once
    MaxChatFaults       \* bound: crashes, answers Telegram doesn't hear, calls that fail

ASSUME ChatsAssumption == MaxChatFaults \in Nat

VARIABLES
    links,              \* telegram_links: the chat of each user
    linkTokens,         \* telegram_link_tokens
    tgUpdates,          \* what Telegram has to deliver
    webhook,            \* the handlers
    chatItems,          \* inbound_items; sourceRef is the update
    savesQueued,        \* save_attachment, by item
    turnsQueued,        \* front_turn, by user
    spoken,             \* outbound messages that arrived: <<user, chat>>
    noted,              \* of those, the ones whose message ids are stored
    replies,            \* the api's own answers in chats: <<update, reply>>
    linkings,           \* every linking so far: <<token, update, user>>
    chatFaults

chatsVars == <<links, linkTokens, tgUpdates, webhook, chatItems, savesQueued, turnsQueued,
               spoken, noted, replies, linkings, chatFaults>>

NoChat == "no chat"
NoUser == "no user"
NoLinkToken == "none"
Whats == {"text", "file", "reaction"}
Update == [state : {"unsent", "sent", "acked"}, chat : ChatIds \cup {NoChat},
           what : Whats \cup {"start"}, token : LinkTokens \cup {NoLinkToken},
           target : Users \cup {NoUser}]

ChatFault == chatFaults < MaxChatFaults /\ chatFaults' = chatFaults + 1
HolderOf(c) == IF \E u \in Users : links[u] = c THEN CHOOSE u \in Users : links[u] = c ELSE NoUser
IdleWebhook == [at |-> "idle", ref |-> NoLinkToken, user |-> NoUser, reply |-> NoLinkToken]
StoredRefs == {i.ref : i \in chatItems}

(***************************************************************************)
(* The site.                                                               *)
(***************************************************************************)
ExpiredGone == [t \in LinkTokens |-> IF linkTokens[t].state = "expired"
                                     THEN [linkTokens[t] EXCEPT !.state = "deleted"] ELSE linkTokens[t]]

\* The dialog's hook asks again before a link expires, so several may be live.
IssueLinkToken(t, u) ==
    /\ linkTokens[t].state = "none"
    /\ linkTokens' = [ExpiredGone EXCEPT ![t] = [state |-> "live", for |-> u]]
    /\ UNCHANGED <<links, tgUpdates, webhook, chatItems, savesQueued, turnsQueued, spoken, noted,
                   replies, linkings, chatFaults>>

TokenExpires(t) ==
    /\ linkTokens[t].state = "live"
    /\ linkTokens' = [linkTokens EXCEPT ![t].state = "expired"]
    /\ UNCHANGED <<links, tgUpdates, webhook, chatItems, savesQueued, turnsQueued, spoken, noted,
                   replies, linkings, chatFaults>>

UnlinkTelegram(u) ==
    /\ links[u] # NoChat
    /\ links' = [links EXCEPT ![u] = NoChat]
    /\ UNCHANGED <<linkTokens, tgUpdates, webhook, chatItems, savesQueued, turnsQueued, spoken, noted,
                   replies, linkings, chatFaults>>

(***************************************************************************)
(* The person, and Telegram.                                               *)
(***************************************************************************)
PersonSends(x, c, update) ==
    /\ tgUpdates[x].state = "unsent"
    /\ tgUpdates' = [tgUpdates EXCEPT ![x] = update]
    /\ UNCHANGED <<links, linkTokens, webhook, chatItems, savesQueued, turnsQueued, spoken, noted,
                   replies, linkings, chatFaults>>

\* The deep link opens in any chat; a reaction is to a message Winston sent there.
Sendable(c) ==
    LET plain == [state |-> "sent", chat |-> c, what |-> "text", token |-> NoLinkToken, target |-> NoUser]
    IN {[plain EXCEPT !.what = w] : w \in Whats \ {"reaction"}}
       \cup {[plain EXCEPT !.what = "start", !.token = t] :
                t \in {t \in LinkTokens : linkTokens[t].state # "none"}}
       \cup {[plain EXCEPT !.what = "reaction", !.target = u] : u \in {u \in Users : <<u, c>> \in spoken}}

\* Delivered until it is answered: again, beside a handler that is slow.
Delivers(w, x) ==
    /\ webhook[w].at = "idle" /\ tgUpdates[x].state = "sent"
    /\ IF \E v \in WebhookSlots : webhook[v].at # "idle" /\ webhook[v].ref = x THEN ChatFault
       ELSE UNCHANGED chatFaults
    /\ webhook' = [webhook EXCEPT ![w] = [IdleWebhook EXCEPT !.ref = x,
                        !.at = IF tgUpdates[x].what = "start" THEN "link" ELSE "read"]]
    /\ UNCHANGED <<links, linkTokens, tgUpdates, chatItems, savesQueued, turnsQueued, spoken, noted,
                   replies, linkings>>

Goes(w, at) == webhook' = [webhook EXCEPT ![w].at = at]
Arrived(w) == tgUpdates[webhook[w].ref]

(***************************************************************************)
(* A message or a reaction.                                                *)
(***************************************************************************)
\* The sender's @username and name are refreshed by the way.
LinkedUser(w) ==
    /\ webhook[w].at = "read"
    /\ LET user == HolderOf(Arrived(w).chat)
       IN webhook' = [webhook EXCEPT
            ![w].user = user,
            ![w].reply = IF user = NoUser THEN "unlinked" ELSE NoLinkToken,
            ![w].at = IF Arrived(w).what = "reaction"
                      THEN IF user = NoUser THEN "answer" ELSE "react"
                      ELSE IF user = NoUser THEN "reply" ELSE "store"]
    /\ UNCHANGED <<links, linkTokens, tgUpdates, chatItems, savesQueued, turnsQueued, spoken, noted,
                   replies, linkings, chatFaults>>

\* Only reactions to the user's own messages from Winston count.
ReactionTarget(w) ==
    /\ webhook[w].at = "react"
    /\ Goes(w, IF Arrived(w).target = webhook[w].user /\ <<webhook[w].user, Arrived(w).chat>> \in noted
               THEN "store" ELSE "answer")
    /\ UNCHANGED <<links, linkTokens, tgUpdates, chatItems, savesQueued, turnsQueued, spoken, noted,
                   replies, linkings, chatFaults>>

Item(x, u, type, pending) == [ref |-> x, user |-> u, type |-> type, pending |-> pending, taken |-> FALSE]

\* One transaction: the item unless its sourceRef is known, and its job.
MutStoreAndQueueTurn(item) ==
    IF \E i \in chatItems : i.ref = item.ref /\ i.user = item.user
    THEN UNCHANGED <<chatItems, savesQueued, turnsQueued>>
    ELSE /\ chatItems' = chatItems \cup {item}
         /\ savesQueued' = IF item.pending THEN savesQueued \cup {item.ref} ELSE savesQueued
         /\ turnsQueued' = IF item.pending THEN turnsQueued ELSE turnsQueued \cup {item.user}

StoreAndQueueTurn(item) ==
    IF item.ref \in StoredRefs THEN UNCHANGED <<chatItems, savesQueued, turnsQueued>>
    ELSE /\ chatItems' = chatItems \cup {item}
         /\ savesQueued' = IF item.pending THEN savesQueued \cup {item.ref} ELSE savesQueued
         /\ turnsQueued' = IF item.pending THEN turnsQueued ELSE turnsQueued \cup {item.user}

Stores(w) ==
    /\ webhook[w].at = "store"
    /\ StoreAndQueueTurn(Item(webhook[w].ref, webhook[w].user,
                              IF Arrived(w).what = "reaction" THEN "reaction" ELSE "message",
                              Arrived(w).what = "file"))
    /\ Goes(w, "answer")
    /\ UNCHANGED <<links, linkTokens, tgUpdates, spoken, noted, replies, linkings, chatFaults>>

(***************************************************************************)
(* /start <token>: one transaction, in which one UPDATE uses the token.    *)
(***************************************************************************)
LinkChat(w) ==
    LET t == Arrived(w).token
        c == Arrived(w).chat
        u == linkTokens[t].for
    IN /\ webhook[w].at = "link" /\ linkTokens[t].state = "live"
       /\ linkTokens' = [linkTokens EXCEPT ![t].state = "used"]
       \* Taken from whoever had the chat, and in place of any they had.
       /\ links' = [v \in Users |-> IF v = u THEN c ELSE IF links[v] = c THEN NoChat ELSE links[v]]
       /\ linkings' = linkings \cup {<<t, webhook[w].ref, u>>}
       /\ IF links[u] = c
          THEN /\ webhook' = [webhook EXCEPT ![w].at = "reply", ![w].reply = "already linked"]
               /\ UNCHANGED <<chatItems, savesQueued, turnsQueued>>
          ELSE /\ StoreAndQueueTurn(Item(webhook[w].ref, u, "onboarding", FALSE))
               /\ Goes(w, "answer")
       /\ UNCHANGED <<tgUpdates, spoken, noted, replies, chatFaults>>

BadLinkToken(w) ==
    /\ webhook[w].at = "link" /\ linkTokens[Arrived(w).token].state # "live"
    /\ webhook' = [webhook EXCEPT ![w].at = "reply", ![w].reply = "bad link"]
    /\ UNCHANGED <<links, linkTokens, tgUpdates, chatItems, savesQueued, turnsQueued, spoken, noted,
                   replies, linkings, chatFaults>>

\* Best effort.
Reply(w) ==
    /\ webhook[w].at = "reply"
    /\ \/ replies' = replies \cup {<<webhook[w].ref, webhook[w].reply>>} /\ UNCHANGED chatFaults
       \/ ChatFault /\ UNCHANGED replies
    /\ Goes(w, "answer")
    /\ UNCHANGED <<links, linkTokens, tgUpdates, chatItems, savesQueued, turnsQueued, spoken, noted,
                   linkings>>

Answers(w) ==
    /\ webhook[w].at = "answer"
    /\ \/ tgUpdates' = [tgUpdates EXCEPT ![webhook[w].ref].state = "acked"] /\ UNCHANGED chatFaults
       \/ ChatFault /\ UNCHANGED tgUpdates
    /\ webhook' = [webhook EXCEPT ![w] = IdleWebhook]
    /\ UNCHANGED <<links, linkTokens, chatItems, savesQueued, turnsQueued, spoken, noted,
                   replies, linkings>>

\* The api dies, or the database fails it (a 500).
HandlerFails(w) ==
    /\ webhook[w].at # "idle" /\ ChatFault
    /\ webhook' = [webhook EXCEPT ![w] = IdleWebhook]
    /\ UNCHANGED <<links, linkTokens, tgUpdates, chatItems, savesQueued, turnsQueued, spoken, noted,
                   replies, linkings>>

(***************************************************************************)
(* What the agents do with it, as far as the chats show.                   *)
(***************************************************************************)
\* save_attachment (Media) releases the item.
FileSaved(i) ==
    /\ i.ref \in savesQueued
    /\ savesQueued' = savesQueued \ {i.ref}
    /\ chatItems' = (chatItems \ {i}) \cup {[i EXCEPT !.pending = FALSE]}
    /\ turnsQueued' = turnsQueued \cup {i.user}
    /\ UNCHANGED <<links, linkTokens, tgUpdates, webhook, spoken, noted, replies, linkings, chatFaults>>

TurnTakes(u) ==
    /\ u \in turnsQueued
    /\ turnsQueued' = turnsQueued \ {u}
    /\ chatItems' = {IF i.user = u /\ ~i.pending THEN [i EXCEPT !.taken = TRUE] ELSE i : i \in chatItems}
    /\ UNCHANGED <<links, linkTokens, tgUpdates, webhook, savesQueued, spoken, noted, replies, linkings, chatFaults>>

WinstonSays(u) ==
    /\ links[u] # NoChat /\ \E i \in chatItems : i.user = u /\ i.taken
    /\ spoken' = spoken \cup {<<u, links[u]>>}
    /\ UNCHANGED <<links, linkTokens, tgUpdates, webhook, chatItems, savesQueued, turnsQueued,
                   noted, replies, linkings, chatFaults>>

\* The ids of what was sent are stored after it was.
NotesSaid(message) ==
    /\ noted' = noted \cup {message}
    /\ UNCHANGED <<links, linkTokens, tgUpdates, webhook, chatItems, savesQueued, turnsQueued, spoken,
                   replies, linkings, chatFaults>>

\* Two users never have one chat.
OneHolder == \A u, v \in Users : links[u] = links[v] /\ u # v => links[u] = NoChat

\* One user may have linked a chat before (a bound).
Alone(v, c) == [u \in Users |-> IF u = v THEN c ELSE NoChat]
ChatsInit ==
    /\ \E v \in Users, c \in ChatIds \cup {NoChat} : links = Alone(v, c)
    /\ linkTokens = [t \in LinkTokens |-> [state |-> "none", for |-> NoUser]]
    /\ tgUpdates = [x \in TgUpdates |-> [state |-> "unsent", chat |-> NoChat, what |-> "text",
                                         token |-> NoLinkToken, target |-> NoUser]]
    /\ webhook = [w \in WebhookSlots |-> IdleWebhook]
    /\ chatItems = {} /\ savesQueued = {} /\ turnsQueued = {}
    /\ spoken = {} /\ noted = {}
    /\ replies = {} /\ linkings = {} /\ chatFaults = 0

WebhookStep(w) ==
    \/ \E x \in TgUpdates : Delivers(w, x)
    \/ LinkedUser(w) \/ ReactionTarget(w) \/ Stores(w) \/ LinkChat(w) \/ BadLinkToken(w)
    \/ Reply(w) \/ Answers(w) \/ HandlerFails(w)

ChatsNext ==
    \/ \E t \in LinkTokens : TokenExpires(t) \/ \E u \in Users : IssueLinkToken(t, u)
    \/ \E u \in Users : UnlinkTelegram(u) \/ TurnTakes(u) \/ WinstonSays(u)
    \/ \E message \in spoken : NotesSaid(message)
    \/ \E c \in ChatIds, x \in TgUpdates : \E update \in Sendable(c) : PersonSends(x, c, update)
    \/ \E w \in WebhookSlots : WebhookStep(w)
    \/ \E i \in chatItems : FileSaved(i)

ChatsSpec == ChatsInit /\ [][ChatsNext]_chatsVars

(***************************************************************************)
(* Properties.                                                             *)
(***************************************************************************)
ChatsTypeOK ==
    /\ links \in [Users -> ChatIds \cup {NoChat}]
    /\ tgUpdates \in [TgUpdates -> Update]
    /\ noted \subseteq spoken

\* An update becomes one item at most, for one user, however often it is delivered and
\* whoever has the chat by then.
OneItemPerUpdate == \A i, j \in chatItems : i.ref = j.ref => i = j

\* A token links one chat, once, to the user it was issued to, through deliveries that race.
TokenLinksOnce ==
    /\ \A a, b \in linkings : a[1] = b[1] => a = b
    /\ \A a \in linkings : linkTokens[a[1]].for = a[3]

\* An item the model hasn't seen has a job that will show it: no message waits for the next.
NothingWaitsUnseen ==
    \A i \in chatItems : ~i.taken => IF i.pending THEN i.ref \in savesQueued ELSE i.user \in turnsQueued

\* A message sent in Telegram is stored once, for the chat's one user, and is answered for (handle-update.ts).
ChatsKept == OneItemPerUpdate /\ TokenLinksOnce /\ OneHolder /\ NothingWaitsUnseen

\* "That link has expired or was already used" (handle-update.ts:35) is also what the chat
\* is told whose own /start just linked it, when Telegram delivers that /start again.
ToldBadLinkOnly == \A t \in LinkTokens, x \in TgUpdates, u \in Users : <<t, x, u>> \in linkings => <<x, "bad link">> \notin replies

\* "Only reactions to Winston's own messages count" (handle-update.ts:280): one that comes
\* before its message's ids are stored (front/reply.ts:109-116) doesn't, and is answered.
OwnReactionsCount ==
    \A x \in TgUpdates :
        tgUpdates[x].state = "acked" /\ tgUpdates[x].what = "reaction" /\ links[tgUpdates[x].target] = tgUpdates[x].chat
          => x \in StoredRefs

\* "A chat belongs to one user" (handle-update.ts:164): a message's user is read before it
\* is stored, and the chat may have moved in between.
MessagesGoToTheHolder ==
    [][\A i \in chatItems' : i.ref \notin StoredRefs => links'[i.user] = tgUpdates[i.ref].chat]_chatsVars
=============================================================================
