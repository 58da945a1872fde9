----------------------------- MODULE MCAccounts -----------------------------
(***************************************************************************)
(* What Winston holds for a user, for TLC: the account itself, the chat    *)
(* and the files sent there, the connected accounts and their tokens, the  *)
(* mailbox, and a site.  They share no variable, so one run explores them  *)
(* side by side: `focus` says which moves, the others stay as they began.  *)
(* The mailbox moves in three parts: the addresses alone, and the mail     *)
(* received or sent while accounts come and go.                            *)
(***************************************************************************)
EXTENDS Connections, Mailbox, Sites, Messages, Leaving

VARIABLE focus

accountsVars == <<focus, connectionsVars, mailboxVars, sitesVars, mediaVars, chatsVars, leavingVars>>

AccountsInit ==
    /\ focus \in {"connections", "addresses", "received", "sent", "sites",
                 "media", "chats", "leaving"}
    /\ ConnectionsInit /\ MailboxInit /\ SitesInit /\ MediaInit /\ ChatsInit /\ LeavingInit
    \* The one that moves begins in any of its states, the others in one.
    /\ focus # "connections" => issuer = "google"
    /\ focus \notin {"addresses", "received", "sent"} => \A u \in Owners : Held(u) = {}
    /\ focus # "media" => ~speech
    /\ focus # "chats" => \A u \in Users : links[u] = NoChat
    /\ focus # "leaving" => account.state = "none"

MailboxMoves ==
    \/ /\ focus = "addresses"
       /\ \/ \E u \in Owners : AddressStep(u)
          \/ \E a \in AskSlots : Claim(a)
    \/ /\ focus = "received" /\ UNCHANGED asking
       /\ \/ \E u \in Owners : AddressStep(u)
          \/ \E m \in Mails : MailArrives(m) \/ NoticeAgain(m)
          \/ \E w \in ReceiveSlots : ReceiveStep(w)
    \/ /\ focus = "sent" /\ UNCHANGED asking
       /\ \/ \E u \in Owners : AddressStep(u)
          \/ \E x \in SendSlots : SendStep(x)

\* What stays is said before what moves: TLC then says it once per state.
AccountsNext ==
    /\ UNCHANGED focus
    /\ \/ /\ focus = "connections"
          /\ UNCHANGED <<mailboxVars, sitesVars, mediaVars, chatsVars, leavingVars>>
          /\ ConnectionsNext
       \/ /\ focus \in {"addresses", "received", "sent"}
          /\ UNCHANGED <<connectionsVars, sitesVars, mediaVars, chatsVars, leavingVars>>
          /\ MailboxMoves
       \/ /\ focus = "sites"
          /\ UNCHANGED <<connectionsVars, mailboxVars, mediaVars, chatsVars, leavingVars>>
          /\ SitesNext
       \/ /\ focus = "media"
          /\ UNCHANGED <<connectionsVars, mailboxVars, sitesVars, chatsVars, leavingVars>>
          /\ MediaNext
       \/ /\ focus = "chats"
          /\ UNCHANGED <<connectionsVars, mailboxVars, sitesVars, mediaVars, leavingVars>>
          /\ ChatsNext
       \/ /\ focus = "leaving"
          /\ UNCHANGED <<connectionsVars, mailboxVars, sitesVars, mediaVars, chatsVars>>
          /\ LeavingNext

\* For TLC: a state is told apart by the variables that move.
AccountsView ==
    <<focus, CASE focus = "connections" -> <<connectionsVars>>
               [] focus = "sites" -> <<sitesVars>>
               [] focus = "media" -> <<mediaVars>>
               [] focus = "chats" -> <<chatsVars>>
               [] focus = "leaving" -> <<leavingVars>>
               [] OTHER -> <<mailboxVars>> >>

AccountsSpec == AccountsInit /\ [][AccountsNext]_accountsVars

\* The variables of the component that moves keep their types.
AccountsTypeOK ==
    CASE focus = "connections" -> ConnectionsTypeOK
      [] focus \in {"addresses", "received", "sent"} -> MailboxTypeOK
      [] focus = "sites" -> SitesTypeOK
      [] focus = "media" -> MediaTypeOK
      [] focus = "chats" -> ChatsTypeOK
      [] focus = "leaving" -> LeavingTypeOK
=============================================================================
