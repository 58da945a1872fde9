------------------------------ MODULE Messages ------------------------------
(***************************************************************************)
(* What a user sends in Telegram: the chats that bring it (Chats) and the  *)
(* files that come with it (Media).  Each message's file is saved on its   *)
(* own, and no step of the one touches the other's rows but by the held    *)
(* item itself, which Chats stores and Media releases.                     *)
(***************************************************************************)
EXTENDS Chats, Media

\* The two run side by side.
MessagesSpec == ChatsSpec /\ MediaSpec

\* A message is stored once, for the chat's one user, with a job that will show it
\* (handle-update.ts); its file is saved whole, its speech heard or marked, and the message
\* is held only while a job will release it (attachments.ts).
MessagesKept == ChatsKept /\ MediaKept
=============================================================================
