-------------------------------- MODULE Tabs --------------------------------
(***************************************************************************)
(* One browser window under winstond's commands                            *)
(* (apps/winstond/src/browser/actions.ts, windows.ts, cdp.ts): its CDP     *)
(* session, attached and set up by whichever command needs it first; the   *)
(* dialogs that hold the page's script and input; the file pickers that    *)
(* are recorded instead of shown; the isolated worlds that go with their   *)
(* documents; the loads a navigation waits for.                            *)
(*                                                                         *)
(* Chrome answers and tells on one socket, in order: winstond reads `wire` *)
(* one message at a time, and goes on with the command it answers.         *)
(***************************************************************************)
EXTENDS Integers, Sequences, FiniteSets, SequencesExt, FiniteSetsExt

CONSTANTS
    TabCallers,       \* commands that may run at once
    MaxDocs,          \* bound: documents the window shows, one after the other
    MaxAsks,          \* bound: dialogs and pickers the page opens
    MaxUnread,        \* bound: what the page may tell before winstond reads it
    MaxTabCommands,   \* bound: commands given
    MaxTabFaults      \* bound: commands Chrome does not answer in time

ASSUME TabsAssumption == {MaxDocs, MaxAsks, MaxUnread, MaxTabCommands, MaxTabFaults} \subseteq Nat

VARIABLES
    tab,         \* the window in Chrome
    attached,    \* its sessions: what is enabled on each
    wire,        \* what Chrome sent and winstond has not read
    heldBack,    \* callers whose script or input Chrome holds for a dialog
    owed,        \* navigations that Chrome has not answered: <<caller, document>>
    entry,       \* winstond's WindowEntry
    calls,       \* TabCallers -> the command in flight
    reports,     \* TabCallers -> what the latest command told
    early,       \* history: a command used a session that was not set up, or not the window's
    tabCommands, tabFaults

tabVars == <<tab, attached, wire, heldBack, owed, entry, calls, reports, early,
             tabCommands, tabFaults>>

TabKinds == {"click", "wait", "eval", "look", "dialog", "upload", "navigate", "back"}

NoDialog == [n |-> 0, kind |-> "none"]

NoCall == [kind |-> "none", pc |-> "idle", session |-> 0, meant |-> 0, world |-> 0, heard |-> {}]

NothingTold == [kind |-> "none", loaded |-> 0]

NotSetUp == [page |-> FALSE, pickers |-> FALSE, events |-> FALSE]

SetUpOrder == [attach |-> "page", page |-> "pickers", pickers |-> "events"]

SetUp(s) == \A flag \in DOMAIN attached[s] : attached[s][flag]

-----------------------------------------------------------------------------
(* Chrome's side of the socket                                             *)

TabEvent(what, s, n, kind) == [to |-> "all", what |-> what, session |-> s, n |-> n, kind |-> kind]

\* Every session with that domain enabled is told.
Tell(w, what, n, kind, flag) ==
    w \o SelectSeq([s \in DOMAIN attached |-> TabEvent(what, s, n, kind)],
                   LAMBDA e : attached[e.session][flag])

Reply(c, ok, n) == [to |-> c, what |-> IF ok THEN "ok" ELSE "error", session |-> 0, n |-> n, kind |-> "none"]

\* A dialog that closes lets go of what it held.
DialogCloses(w) ==
    Tell(w, "dialogClosed", 0, "none", "page")
        \o SetToSeq({Reply(c, TRUE, 0) : c \in heldBack})

\* A new document: a waiting dialog goes with the old one.
NewDocument(w) ==
    /\ tab' = [tab EXCEPT !.doc = @ + 1, !.dialog = NoDialog]
    /\ heldBack' = {}
    /\ wire' = Tell(IF tab.dialog = NoDialog THEN w ELSE DialogCloses(w), "frameNavigated", tab.doc + 1, "none", "page")

\* Chrome takes a command of c's on its session, read as `k`, and winstond has read all but w.
Send(c, k, what, w) ==
    LET answer(ok, n) == wire' = Append(w, Reply(c, ok, n))
        waits == tab.dialog # NoDialog
        simple == UNCHANGED <<tab, heldBack, owed>>
    IN /\ calls' = [calls EXCEPT ![c] = [k EXCEPT !.pc = what]]
       /\ IF ~tab.open THEN answer(FALSE, 0) /\ UNCHANGED attached /\ simple
          ELSE
          \/ /\ what = "attach"
             /\ attached' = Append(attached, NotSetUp)
             /\ answer(TRUE, Len(attached) + 1) /\ simple
          \/ /\ what \in {"page", "pickers", "events"}
             /\ attached' = [attached EXCEPT ![k.session][what] = TRUE]
             /\ answer(TRUE, 0) /\ simple
          \/ /\ what = "world"
             /\ answer(TRUE, tab.doc) /\ UNCHANGED attached /\ simple
          \* Script and input wait for the dialog; a world that is gone is an error.
          \/ /\ what \in {"input", "script", "shot"}
             /\ IF waits THEN heldBack' = heldBack \cup {c} /\ wire' = w
                ELSE answer(what # "script" \/ k.world = tab.doc, 0) /\ UNCHANGED heldBack
             /\ UNCHANGED <<tab, attached, owed>>
          \/ /\ what = "files"
             /\ answer(k.meant = tab.doc, 0) /\ UNCHANGED attached /\ simple
          \/ /\ what = "handle"
             /\ IF waits
                THEN /\ wire' = Append(DialogCloses(w), Reply(c, TRUE, 0))
                     /\ tab' = [tab EXCEPT !.dialog = NoDialog] /\ heldBack' = {}
                ELSE answer(FALSE, 0) /\ UNCHANGED <<tab, heldBack>>
             /\ UNCHANGED <<attached, owed>>
          \/ /\ what \in {"navigating", "goingBack"}
             /\ IF tab.doc < MaxDocs THEN NewDocument(w) /\ owed' = owed \cup {<<c, tab.doc + 1>>}
                ELSE answer(FALSE, 0) /\ UNCHANGED <<tab, heldBack, owed>>
             /\ UNCHANGED attached

\* A navigation's answer comes before its load event or after it.
AnswerNavigation ==
    \E o \in owed :
        /\ wire' = Append(wire, Reply(o[1], TRUE, o[2]))
        /\ owed' = owed \ {o}
        /\ UNCHANGED <<tab, attached, heldBack, entry, calls, reports, early, tabCommands, tabFaults>>

PageKeeps == Len(wire) < MaxUnread /\ UNCHANGED <<attached, owed, entry, calls, reports, early, tabCommands, tabFaults>>

PageOpensDialog(kind) ==
    /\ tab.open /\ tab.dialog = NoDialog /\ tab.asked < MaxAsks
    /\ tab' = [tab EXCEPT !.asked = @ + 1, !.dialog = [n |-> tab.asked + 1, kind |-> kind],
                          !.heard = {s \in DOMAIN attached : attached[s].page}]
    /\ wire' = Tell(wire, "dialogOpening", tab.asked + 1, kind, "page")
    /\ UNCHANGED heldBack /\ PageKeeps

\* Intercepted, or shown on the VM's screen.
PageWantsFiles ==
    /\ tab.open /\ tab.dialog = NoDialog /\ tab.asked < MaxAsks
    /\ tab' = [tab EXCEPT !.asked = @ + 1]
    /\ wire' = Tell(wire, "fileChooserOpened", tab.doc, "none", "pickers")
    /\ UNCHANGED heldBack /\ PageKeeps

PageNavigates ==
    /\ tab.open /\ tab.doc < MaxDocs
    /\ NewDocument(wire)
    /\ PageKeeps

PageLoads ==
    /\ tab.open /\ tab.doc \notin tab.loaded
    /\ tab' = [tab EXCEPT !.loaded = @ \cup {tab.doc}]
    /\ wire' = Tell(wire, "load", tab.doc, "none", "events")
    /\ UNCHANGED heldBack /\ PageKeeps

\* A frame's load is told on the same session.
FrameLoads ==
    /\ tab.open /\ ~tab.framed
    /\ tab' = [tab EXCEPT !.framed = TRUE]
    /\ wire' = Tell(wire, "load", 0, "none", "events")
    /\ UNCHANGED heldBack /\ PageKeeps

\* The user answers on the window's desktop.
UserAnswers ==
    /\ tab.dialog # NoDialog
    /\ tab' = [tab EXCEPT !.dialog = NoDialog]
    /\ wire' = DialogCloses(wire)
    /\ heldBack' = {} /\ PageKeeps

TabCloses ==
    /\ tab.open
    /\ tab' = [tab EXCEPT !.open = FALSE, !.dialog = NoDialog]
    /\ wire' = wire \o SetToSeq({Reply(c, FALSE, 0) : c \in heldBack}) \o <<TabEvent("targetDestroyed", 0, 0, "none")>>
    /\ heldBack' = {} /\ PageKeeps

TabMoves ==
    \/ \E kind \in {"alert", "confirm"} : PageOpensDialog(kind)
    \/ PageWantsFiles \/ PageNavigates \/ PageLoads \/ FrameLoads \/ UserAnswers \/ TabCloses
    \/ AnswerNavigation

-----------------------------------------------------------------------------
(* winstond's commands                                                     *)

Unsent == UNCHANGED <<tab, attached, heldBack, owed>>

\* The command is over; what it says of the window is read now.
Respond(c, k, loaded) ==
    /\ calls' = [calls EXCEPT ![c] = NoCall]
    /\ reports' = [reports EXCEPT ![c] = IF loaded = 0 THEN NothingTold ELSE [kind |-> k.kind, loaded |-> loaded]]

Fails(c) == calls' = [calls EXCEPT ![c] = NoCall] /\ reports' = [reports EXCEPT ![c] = NothingTold]

\* Script runs in the document's isolated world, made once.
Evaluate(c, k, e, w) ==
    /\ IF e.world = 0 THEN Send(c, k, "world", w) ELSE Send(c, [k EXCEPT !.world = e.world], "script", w)
    /\ UNCHANGED reports

\* The page is asked whether it is quiet, unless a dialog waits.
Settle(c, k, e, w) ==
    IF e.dialog = NoDialog THEN Evaluate(c, k, e, w) ELSE Respond(c, k, 0) /\ wire' = w /\ Unsent

\* What a command first sends the page.
OwnPart == [click |-> "input", look |-> "shot", upload |-> "files", dialog |-> "handle",
            navigate |-> "navigating", back |-> "goingBack"]

\* The command's own part, once it has a session.
Go(c, k, e, w) ==
    /\ early' = (early \/ k.session # e.session \/ ~SetUp(k.session))
    /\ entry' = IF k.kind \in {"click", "wait", "upload"} THEN [e EXCEPT !.chooser = 0] ELSE e
    /\ CASE k.kind = "eval" -> Evaluate(c, k, e, w)
         [] k.kind = "wait" -> Settle(c, k, e, w)
         [] OTHER           -> Send(c, k, OwnPart[k.kind], w) /\ UNCHANGED reports

\* act looks for a dialog; the command's own part needs the window's session.
ActInTab(c, k) ==
    IF entry.session # 0 THEN Go(c, k, entry, wire)
    ELSE Send(c, k, "attach", wire) /\ UNCHANGED <<entry, reports, early>>

\* A command starts: what it needs of the window is looked at now.
Start(c, kind) ==
    LET k == [NoCall EXCEPT !.kind = kind, !.session = entry.session,
                            !.meant = IF kind = "upload" THEN entry.chooser ELSE entry.dialog.n]
    IN /\ calls[c].pc = "idle" /\ entry.there /\ tabCommands < MaxTabCommands
       /\ tabCommands' = tabCommands + 1
       /\ kind \in {"click", "wait", "eval"} => entry.dialog = NoDialog
       /\ kind = "dialog" => entry.dialog # NoDialog
       /\ kind = "upload" => entry.chooser # 0
       /\ IF kind # "upload" THEN ActInTab(c, k)
          ELSE /\ calls' = [calls EXCEPT ![c] = [k EXCEPT !.pc = "finding"]]
               /\ Unsent /\ UNCHANGED <<wire, entry, reports, early>>
       /\ UNCHANGED tabFaults

\* An upload's files were looked up; act looks at the window again.
FilesFound(c) ==
    /\ calls[c].pc = "finding"
    /\ IF entry.there /\ entry.dialog = NoDialog
       THEN ActInTab(c, [calls[c] EXCEPT !.session = entry.session])
       ELSE Fails(c) /\ Unsent /\ UNCHANGED <<wire, entry, early>>
    /\ UNCHANGED <<tabCommands, tabFaults>>

\* onPageEvent: only the window's own session counts.
Heard(m) ==
    CASE m.what = "targetDestroyed" -> [entry EXCEPT !.there = FALSE]
      [] m.session # entry.session /\ m.what # "targetDestroyed" -> entry
      [] m.what = "dialogOpening" /\ m.kind # "alert" -> [entry EXCEPT !.dialog = [n |-> m.n, kind |-> m.kind]]
      [] m.what = "dialogClosed" -> [entry EXCEPT !.dialog = NoDialog]
      [] m.what = "fileChooserOpened" -> [entry EXCEPT !.chooser = m.n]
      [] m.what = "frameNavigated" -> [entry EXCEPT !.world = 0, !.chooser = 0]
      [] OTHER -> entry

WaitsForLoad(k) == k.pc \in {"navigating", "loading", "goingBack", "loadingAny"}

\* A navigation is recorded from before it is sent.
ReadEvent(m, w) ==
    LET heard == [c \in TabCallers |->
                    IF m.what = "load" /\ calls[c].session = m.session /\ WaitsForLoad(calls[c])
                    THEN [calls[c] EXCEPT !.heard = @ \cup {m.n}] ELSE calls[c]]
    IN /\ m.to = "all"
       /\ entry' = Heard(m)
       /\ calls' = heard
       \* An alert needs no decision: the page's dialog is accepted.
       /\ IF /\ m.what = "dialogOpening" /\ m.kind = "alert" /\ m.session = entry.session
             /\ tab.dialog # NoDialog
          THEN /\ wire' = DialogCloses(w) /\ heldBack' = {}
               /\ tab' = [tab EXCEPT !.dialog = NoDialog]
          ELSE wire' = w /\ UNCHANGED <<heldBack, tab>>
       /\ UNCHANGED <<attached, owed, reports, early>>

\* sessionFor goes on with the next step of the set-up.
SetUpGoesOn(c, m, w) ==
    LET k == [calls[c] EXCEPT !.session = IF calls[c].pc = "attach" THEN m.n ELSE @]
        e == [entry EXCEPT !.session = k.session]
    IN /\ calls[c].pc \in {"attach", "page", "pickers", "events"}
       /\ IF calls[c].pc # "events"
          THEN /\ Send(c, k, SetUpOrder[calls[c].pc], w)
               /\ entry' = IF calls[c].pc = "attach" THEN e ELSE entry
               /\ UNCHANGED <<reports, early>>
          ELSE Go(c, k, entry, w)

\* The window's page answered the command's own part.
CommandGoesOn(c, m, w) ==
    LET k == calls[c]
    IN \/ /\ k.pc \in {"input", "files"}
          /\ Settle(c, k, entry, w) /\ UNCHANGED <<entry, early>>
       \/ /\ k.pc = "handle"
          /\ entry' = [entry EXCEPT !.dialog = NoDialog, !.chooser = 0]
          /\ IF entry.there THEN Settle(c, k, entry', w) ELSE Fails(c) /\ wire' = w /\ Unsent
          /\ UNCHANGED early
       \/ /\ k.pc = "world"
          /\ entry' = [entry EXCEPT !.world = m.n]
          /\ Send(c, [k EXCEPT !.world = m.n], "script", w) /\ UNCHANGED <<reports, early>>
       \/ /\ k.pc \in {"script", "shot"}
          /\ Respond(c, k, 0) /\ wire' = w /\ Unsent /\ UNCHANGED <<entry, early>>
       \/ /\ k.pc \in {"navigating", "goingBack"}
          /\ IF IF k.pc = "navigating" THEN m.n \in k.heard ELSE k.heard # {}
             THEN Respond(c, [k EXCEPT !.meant = m.n], m.n)
             ELSE /\ calls' = [calls EXCEPT ![c].meant = m.n,
                         ![c].pc = IF @ = "navigating" THEN "loading" ELSE "loadingAny"]
                  /\ UNCHANGED reports
          /\ wire' = w /\ Unsent /\ UNCHANGED <<entry, early>>

\* Settling never fails a command: it asks again, until its time is over.
Settling(c) == calls[c].pc \in {"world", "script"} /\ calls[c].kind # "eval"

CommandRefused(c, w) ==
    /\ IF Settling(c)
       THEN \/ Settle(c, calls[c], entry, w)
            \/ Respond(c, calls[c], 0) /\ wire' = w /\ Unsent
       ELSE Fails(c) /\ wire' = w /\ Unsent
    /\ UNCHANGED <<entry, early>>

Read ==
    /\ wire # <<>>
    /\ LET m == Head(wire)
           w == Tail(wire)
       IN \/ ReadEvent(m, w)
          \/ /\ m.to \in TabCallers /\ m.what = "ok"
             /\ \/ SetUpGoesOn(m.to, m, w)
                \/ CommandGoesOn(m.to, m, w)
          \/ /\ m.to \in TabCallers /\ m.what = "error"
             /\ CommandRefused(m.to, w)
    /\ UNCHANGED <<tabCommands, tabFaults>>

\* The load the command waits for was told.
LoadSeen(c) ==
    /\ \/ calls[c].pc = "loading" /\ calls[c].meant \in calls[c].heard
       \/ calls[c].pc = "loadingAny" /\ calls[c].heard # {}
    /\ Respond(c, calls[c], calls[c].meant)
    /\ Unsent /\ UNCHANGED <<wire, entry, early, tabCommands, tabFaults>>

Unanswered(c) == SelectSeq(wire, LAMBDA m : m.to # c)

\* unlessDialog: the command goes on without the answer that the dialog holds.
GivesUp(c) ==
    /\ calls[c].pc \in {"input", "files", "script", "shot"} /\ entry.dialog # NoDialog
    /\ IF calls[c].kind \in {"eval", "look"} THEN Fails(c) ELSE Respond(c, calls[c], 0)
    /\ wire' = Unanswered(c) /\ heldBack' = heldBack \ {c}
    /\ UNCHANGED <<tab, attached, owed, entry, early, tabCommands, tabFaults>>

\* Chrome doesn't answer in time, or the load never comes.
TimesOut(c) ==
    /\ calls[c].pc # "idle" /\ tabFaults < MaxTabFaults
    /\ tabFaults' = tabFaults + 1
    /\ IF Settling(c) \/ calls[c].pc \in {"loading", "loadingAny"}
       THEN Respond(c, calls[c], 0) ELSE Fails(c)
    /\ wire' = Unanswered(c) /\ heldBack' = heldBack \ {c}
    /\ owed' = {o \in owed : o[1] # c}
    /\ UNCHANGED <<tab, attached, entry, early, tabCommands>>

-----------------------------------------------------------------------------
TabsInit ==
    /\ tab = [open |-> TRUE, doc |-> 1, dialog |-> NoDialog, asked |-> 0, heard |-> {},
              loaded |-> {1}, framed |-> FALSE]
    /\ \E s \in {0, 1} :
           /\ attached = [k \in 1 .. s |-> [page |-> TRUE, pickers |-> TRUE, events |-> TRUE]]
           /\ entry = [there |-> TRUE, session |-> s, dialog |-> NoDialog, chooser |-> 0, world |-> 0]
    /\ wire = <<>> /\ heldBack = {} /\ owed = {}
    /\ calls = [c \in TabCallers |-> NoCall]
    /\ reports = [c \in TabCallers |-> NothingTold]
    /\ early = FALSE /\ tabCommands = 0 /\ tabFaults = 0

TabsNext ==
    \/ TabMoves
    \/ \E c \in TabCallers : calls[c].pc = "idle" /\ \E kind \in TabKinds : Start(c, kind)
    \/ Read
    \/ \E c \in TabCallers : FilesFound(c) \/ LoadSeen(c) \/ GivesUp(c) \/ TimesOut(c)

TabsSpec == TabsInit /\ [][TabsNext]_tabVars

-----------------------------------------------------------------------------
(* Properties                                                              *)

TabsTypeOK ==
    /\ tab.doc \in 1..MaxDocs /\ tab.asked \in 0..MaxAsks
    /\ attached \in Seq([page : BOOLEAN, pickers : BOOLEAN, events : BOOLEAN])
    /\ entry.session \in 0..Len(attached) /\ entry.world \in 0..MaxDocs /\ entry.chooser \in 0..MaxDocs
    /\ heldBack \subseteq TabCallers
    /\ \A c \in TabCallers : calls[c].kind \in TabKinds \cup {"none"}

\* On the wire for the window's session.
Coming(what) == \E k \in DOMAIN wire : wire[k].what = what /\ wire[k].session = entry.session

\* What is right as long as no command ran ahead of the session's set-up.
SessionReady == entry.there /\ tab.open /\ entry.session # 0 /\ SetUp(entry.session) /\ ~early

\* A dialog that waits is known, and one that is known still waits: what a command is told
\* of it is so, and the next command can answer it.
DialogsKnown ==
    SessionReady /\ ~Coming("dialogOpening") /\ ~Coming("dialogClosed") =>
        entry.dialog = IF tab.dialog.kind = "confirm" /\ entry.session \in tab.heard THEN tab.dialog ELSE NoDialog

\* Script runs in the document there is, and the picker shown is one of its fields.
WorldsGoWithDocuments ==
    SessionReady /\ ~Coming("frameNavigated") =>
        /\ entry.world \in {0, tab.doc}
        /\ entry.chooser \in {0, tab.doc}

\* A navigation says its page loaded only when it did, and never waits for a load that
\* was told already.
LoadsTrue ==
    \A c \in TabCallers :
        /\ reports[c].kind = "navigate" /\ reports[c].loaded # 0 => reports[c].loaded \in tab.loaded
        /\ (calls[c].pc = "loading" /\ ~early /\ calls[c].meant \in tab.loaded) =>
               calls[c].meant \in calls[c].heard \/ \E k \in DOMAIN wire : wire[k].what = "load"

\* Nothing is held for a dialog that is gone.
NothingHeldForNothing == heldBack # {} => tab.dialog # NoDialog

TabsKept ==
    /\ DialogsKnown /\ WorldsGoWithDocuments /\ LoadsTrue /\ NothingHeldForNothing

-----------------------------------------------------------------------------
(* What the comments say and the code does not keep                        *)

\* `back` says the page loaded when a frame's load was told, or the old document's.
BackLoads == \A c \in TabCallers : reports[c].kind = "back" /\ reports[c].loaded # 0 => reports[c].loaded \in tab.loaded
=============================================================================
