------------------------------- MODULE Windows -------------------------------
(***************************************************************************)
(* Winston's browser on a VM (apps/winstond/src/browser/windows.ts and     *)
(* locks.ts).  Every run drives windows of its own in one Chrome profile,  *)
(* so only one run acts on a website at a time: a run acts on a site under *)
(* a lock, which lapses when the run stops acting there, is pinned while   *)
(* the person has one of the run's windows, moves with a window given to   *)
(* another run and goes with the run's last window.  Commands wait for     *)
(* Chrome, so pages open, move and close, the person takes windows, runs   *)
(* end and Chrome restarts in the middle of them.                          *)
(***************************************************************************)
EXTENDS Naturals, FiniteSets

CONSTANTS Owners,      \* the runs with windows: the front of house, and tasks
          WebSites,    \* registrable domains
          MaxWindows   \* bound: windows opened in all

ASSUME WindowsAssumption == MaxWindows \in Nat \ {0} /\ "front" \in Owners

VARIABLES windows,     \* the registry; a closed window keeps its last entry
          opened,      \* how many windows there have been (ids are not reused)
          current,     \* each owner's current window: where its commands act
          locks,       \* who acts on each site
          commands,    \* the browser command each run is waiting on
          closing,     \* the windows each clean-up still has to close
          ended        \* runs that are over: a last command may still be out
windowVars == <<windows, opened, current, locks, commands, closing, ended>>

WindowIds == 1..MaxWindows
FrontOfHouse == "front"
NoWindow == 0
Blank == "about:blank"
NoLock == [owner |-> "none", window |-> NoWindow, lasts |-> "no"]
NoCommand == [at |-> "none", window |-> NoWindow, site |-> Blank]
Sweeper == "sweeper"
Cleaners == Owners \cup {Sweeper}
NotClosing == [going |-> FALSE, left |-> {}]

NoEntry == [open |-> FALSE, owner |-> "none", held |-> "no", site |-> Blank]
OpenWindows == {w \in WindowIds : windows[w].open}
Mine(W, o) == {w \in WindowIds : W[w].open /\ W[w].owner = o}
Held(w) == windows[w].open /\ windows[w].held # "no"

(***************************************************************************)
(* Locks.  One whose time has passed stays in the map, marked lapsed here, *)
(* until someone looks: it refuses nobody, but pinning its owner's locks   *)
(* brings it back.                                                         *)
(***************************************************************************)
Free(s, o) == s \in WebSites => locks[s].lasts \in {"no", "lapsed"} \/ locks[s].owner = o
Acquired(L, s, o, w) ==
    IF s = Blank THEN L ELSE [L EXCEPT ![s] = [owner |-> o, window |-> w, lasts |-> "lapsing"]]
Pinned(L, o) == [s \in WebSites |-> IF L[s].owner = o THEN [L[s] EXCEPT !.lasts = "pinned"] ELSE L[s]]
Unpinned(L, o) ==
    [s \in WebSites |-> IF L[s].owner = o /\ L[s].lasts = "pinned"
                        THEN [L[s] EXCEPT !.lasts = "lapsing"] ELSE L[s]]
Transferred(L, w, o) ==
    [s \in WebSites |-> IF L[s].window = w /\ L[s].lasts # "no" THEN [L[s] EXCEPT !.owner = o] ELSE L[s]]
Released(L, o) == [s \in WebSites |-> IF L[s].owner = o THEN NoLock ELSE L[s]]

\* A command is over within a minute or so, well before its lock's time.
Lapse(s) ==
    /\ locks[s].lasts = "lapsing"
    /\ ~\E o \in Owners : locks[s].owner = o /\ commands[o].at = "acting" /\ commands[o].site = s
    /\ locks' = [locks EXCEPT ![s].lasts = "lapsed"]
    /\ UNCHANGED <<windows, opened, current, commands, closing, ended>>

(***************************************************************************)
(* The registry.                                                           *)
(***************************************************************************)
MutReleaseIfGone(L, W, o) == Released(L, o)
ReleaseIfGone(L, W, o) == IF Mine(W, o) = {} THEN Released(L, o) ELSE L

\* Its newest remaining window, or none: which is newest is left open.
PickCurrent(o) ==
    \E w \in (IF Mine(windows', o) = {} THEN {NoWindow} ELSE Mine(windows', o)) :
        current' = [current EXCEPT ![o] = w]

Forget(w) ==
    LET o == windows[w].owner
    IN /\ windows' = [windows EXCEPT ![w].open = FALSE]
       /\ IF current[o] = w THEN PickCurrent(o) ELSE UNCHANGED current
       /\ locks' = ReleaseIfGone(locks, windows', o)

RegisterWindow(o, site) ==
    /\ opened' = opened + 1
    /\ windows' = [windows EXCEPT ![opened + 1] = [open |-> TRUE, owner |-> o, held |-> "no", site |-> site]]
    /\ current' = [current EXCEPT ![o] = opened + 1]

(***************************************************************************)
(* A run's commands, one at a time.  Each says where it acts, checks that  *)
(* the window is the run's and not the person's, and takes the site's      *)
(* lock; then it waits for the page.                                       *)
(***************************************************************************)
MayStart(o) == commands[o].at = "none" /\ o \notin ended
MayActIn(o, w) == w \in OpenWindows /\ windows[w].owner = o /\ ~Held(w)

Open(o) ==
    /\ MayStart(o)
    /\ opened < MaxWindows
    /\ \E s \in WebSites \cup {Blank} :
           /\ Free(s, o)
           /\ commands' = [commands EXCEPT ![o] = [at |-> "opening", window |-> NoWindow, site |-> s]]
    /\ UNCHANGED <<windows, opened, current, locks, closing, ended>>

\* Chrome made the blank window: registered, then the lock is asked again. A
\* site taken meanwhile ends the command and leaves the window.
OpenMade(o) ==
    /\ commands[o].at = "opening"
    /\ opened < MaxWindows
    /\ RegisterWindow(o, Blank)
    /\ IF Free(commands[o].site, o)
       THEN /\ locks' = Acquired(locks, commands[o].site, o, opened + 1)
            /\ commands' = [commands EXCEPT ![o].at = "acting", ![o].window = opened + 1]
       ELSE commands' = [commands EXCEPT ![o] = NoCommand] /\ UNCHANGED locks
    /\ UNCHANGED <<closing, ended>>

OpenFails(o) ==
    /\ commands[o].at = "opening"
    /\ commands' = [commands EXCEPT ![o] = NoCommand]
    /\ UNCHANGED <<windows, opened, current, locks, closing, ended>>

Navigate(o, w) ==
    /\ MayStart(o)
    /\ MayActIn(o, w)
    /\ \E s \in WebSites \cup {Blank} :
           /\ Free(s, o)
           /\ locks' = Acquired(locks, s, o, w)
           /\ commands' = [commands EXCEPT ![o] = [at |-> "acting", window |-> w, site |-> s]]
    /\ UNCHANGED <<windows, opened, current, closing, ended>>

\* Back or forward: the history is read first, and only then is the lock
\* asked, for the run and window the command began with.
GoThroughHistory(o, w) ==
    /\ MayStart(o)
    /\ MayActIn(o, w)
    /\ commands' = [commands EXCEPT ![o] = [at |-> "turning", window |-> w, site |-> Blank]]
    /\ UNCHANGED <<windows, opened, current, locks, closing, ended>>
HistoryRead(o) ==
    /\ commands[o].at = "turning"
    /\ \/ /\ windows[commands[o].window].open
          /\ \E s \in WebSites \cup {Blank} :
                 /\ Free(s, o)
                 /\ locks' = Acquired(locks, s, o, commands[o].window)
                 /\ commands' = [commands EXCEPT ![o].at = "acting", ![o].site = s]
       \/ commands' = [commands EXCEPT ![o] = NoCommand] /\ UNCHANGED locks
    /\ UNCHANGED <<windows, opened, current, closing, ended>>

\* A click, a script, a step of autopilot: on the site the window is on.
Act(o, w) ==
    /\ MayStart(o)
    /\ MayActIn(o, w)
    /\ Free(windows[w].site, o)
    /\ locks' = Acquired(locks, windows[w].site, o, w)
    /\ commands' = [commands EXCEPT ![o] = [at |-> "acting", window |-> w, site |-> windows[w].site]]
    /\ UNCHANGED <<windows, opened, current, closing, ended>>

CommandEnds(o) ==
    /\ commands[o].at = "acting"
    /\ commands' = [commands EXCEPT ![o] = NoCommand]
    /\ UNCHANGED <<windows, opened, current, locks, closing, ended>>

\* Chrome closes the window, and then it is forgotten.
Close(o, w) ==
    /\ MayStart(o)
    /\ MayActIn(o, w)
    /\ commands' = [commands EXCEPT ![o] = [at |-> "closing", window |-> w, site |-> Blank]]
    /\ UNCHANGED <<windows, opened, current, locks, closing, ended>>
CloseDone(o) ==
    /\ commands[o].at = "closing"
    /\ Forget(commands[o].window)
    /\ commands' = [commands EXCEPT ![o] = NoCommand]
    /\ UNCHANGED <<opened, closing, ended>>

RunStep(o) ==
    \/ Open(o) \/ OpenMade(o) \/ OpenFails(o) \/ HistoryRead(o) \/ CommandEnds(o) \/ CloseDone(o)
    \/ \E w \in WindowIds : Navigate(o, w) \/ GoThroughHistory(o, w) \/ Act(o, w) \/ Close(o, w)

(***************************************************************************)
(* What Chrome reports.                                                    *)
(***************************************************************************)
PageMoves(w) ==
    /\ windows[w].open
    /\ \E s \in WebSites : s # windows[w].site /\ windows' = [windows EXCEPT ![w].site = s]
    /\ UNCHANGED <<opened, current, locks, commands, closing, ended>>
PageOpens(w) ==
    /\ windows[w].open
    /\ opened < MaxWindows
    /\ RegisterWindow(windows[w].owner, windows[w].site)
    /\ UNCHANGED <<locks, commands, closing, ended>>
TargetDestroyed(w) ==
    /\ windows[w].open
    /\ Forget(w)
    /\ UNCHANGED <<opened, commands, closing, ended>>
ChromeRestarts ==
    LET lost == {windows[w].owner : w \in OpenWindows}
    IN /\ OpenWindows # {}
       /\ windows' = [w \in WindowIds |-> [windows[w] EXCEPT !.open = FALSE]]
       /\ locks' = [s \in WebSites |-> IF locks[s].owner \in lost THEN NoLock ELSE locks[s]]
       /\ current' = [o \in Owners |-> NoWindow]
       /\ commands' = [o \in Owners |-> NoCommand]
       /\ UNCHANGED <<opened, closing, ended>>
ChromeStep == ChromeRestarts \/ \E w \in WindowIds : PageMoves(w) \/ PageOpens(w) \/ TargetDestroyed(w)

(***************************************************************************)
(* What the gateway asks: hold a window for the person, give windows back, *)
(* give one to another run, close a finished run's.                        *)
(***************************************************************************)
Asked(o, w) == IF w = NoWindow THEN current[o] ELSE w
MayHold(o, w) == Asked(o, w) # NoWindow /\ windows[Asked(o, w)].open /\ windows[Asked(o, w)].owner = o
Hold(o, w, how) ==
    LET id == Asked(o, w)
    IN IF MayHold(o, w)
       THEN /\ windows' = [windows EXCEPT ![id].held = IF @ = "takeover" THEN @ ELSE how]
            /\ locks' = Pinned(locks, o)
       ELSE UNCHANGED <<windows, locks>>

Release(o, w) ==
    LET back == {v \in Mine(windows, o) : windows[v].held # "no" /\ w \in {NoWindow, v}}
    IN /\ windows' = [v \in WindowIds |-> IF v \in back THEN [windows[v] EXCEPT !.held = "no"] ELSE windows[v]]
       /\ locks' = IF \A v \in Mine(windows', o) : windows'[v].held = "no" THEN Unpinned(locks, o) ELSE locks

MayTransfer(from, w) == MayHold(from, w) /\ ~Held(Asked(from, w))
Transfer(from, to, w) ==
    LET id == Asked(from, w)
        moved == Transferred(locks, id, to)
    IN /\ windows' = [windows EXCEPT ![id].owner = to]
       /\ \E n \in (IF current[from] # id THEN {current[from]}
                    ELSE IF Mine(windows', from) = {} THEN {NoWindow} ELSE Mine(windows', from)) :
              current' = [current EXCEPT ![from] = n, ![to] = id]
       /\ locks' = ReleaseIfGone(moved, windows', from)

\* Windows are chosen, and closed one after another, waiting for Chrome after
\* each.
CloseThese(c, S) ==
    \E w \in S : Forget(w) /\ closing' = [closing EXCEPT ![c] = [going |-> TRUE, left |-> S \ {w}]]

\* The close_task_browser job of a run that is over.
CloseOwner(o) ==
    /\ ~closing[o].going
    /\ ended' = ended \cup {o}
    /\ IF Mine(windows, o) # {} THEN CloseThese(o, Mine(windows, o))
       ELSE locks' = Released(locks, o) /\ UNCHANGED <<windows, current, closing>>
    /\ UNCHANGED <<opened, commands>>

\* Windows unused for half an hour whose runs have ended.
Sweep ==
    /\ ~closing[Sweeper].going
    /\ \E S \in SUBSET {w \in OpenWindows : ~Held(w) /\ commands[windows[w].owner].at = "none"} :
           S # {} /\ CloseThese(Sweeper, S)
    /\ UNCHANGED <<opened, commands, ended>>
CloseNext(c) ==
    /\ closing[c].going
    /\ \E w \in closing[c].left :
           /\ Forget(w)
           /\ closing' = [closing EXCEPT ![c].left = @ \ {w}]
    /\ UNCHANGED <<opened, commands, ended>>
ClosedAll(c) ==
    /\ closing[c].going /\ closing[c].left = {}
    /\ closing' = [closing EXCEPT ![c] = NotClosing]
    /\ locks' = IF c \in Owners THEN Released(locks, c) ELSE locks
    /\ UNCHANGED <<windows, opened, current, commands, ended>>
CleanUp == Sweep \/ \E c \in Cleaners : CloseNext(c) \/ ClosedAll(c)

Handed == UNCHANGED <<opened, commands, closing, ended>>
\* The front of house delegates a window to a task it is about to start.
New(o) == o \notin ended /\ commands[o].at = "none" /\ \A w \in WindowIds : windows[w].owner # o
\* The current window needs no name, and asked for by name is the same.
Named(o) == {NoWindow} \cup (OpenWindows \ {current[o]})
Ask ==
    \/ \E o \in Owners : \E w \in Named(o), how \in {"handoff", "takeover"} :
           MayHold(o, w) /\ Hold(o, w, how) /\ UNCHANGED current /\ Handed
    \/ \E o \in Owners, w \in {NoWindow} \cup OpenWindows : Release(o, w) /\ UNCHANGED current /\ Handed
    \/ \E to \in Owners \ {FrontOfHouse}, w \in Named(FrontOfHouse) :
           MayTransfer(FrontOfHouse, w) /\ New(to) /\ Transfer(FrontOfHouse, to, w) /\ Handed
    \/ \E o \in Owners \ {FrontOfHouse} : CloseOwner(o)

WindowsInit ==
    /\ windows = [w \in WindowIds |-> NoEntry]
    /\ opened = 0
    /\ current = [o \in Owners |-> NoWindow]
    /\ locks = [s \in WebSites |-> NoLock]
    /\ commands = [o \in Owners |-> NoCommand]
    /\ closing = [c \in Cleaners |-> NotClosing]
    /\ ended = {}
WindowsNext ==
    \/ \E o \in Owners : RunStep(o)
    \/ ChromeStep \/ Ask \/ CleanUp
    \/ \E s \in WebSites : Lapse(s)
WindowsSpec == WindowsInit /\ [][WindowsNext]_windowVars

(***************************************************************************)
(* Properties.                                                             *)
(***************************************************************************)
WindowsTypeOK ==
    /\ opened \in 0..MaxWindows
    /\ windows \in [WindowIds -> [open : BOOLEAN, owner : Owners \cup {"none"},
                                  held : {"no", "handoff", "takeover"}, site : WebSites \cup {Blank}]]
    /\ current \in [Owners -> WindowIds \cup {NoWindow}]
    /\ locks \in [WebSites -> [owner : Owners, window : WindowIds,
                               lasts : {"lapsing", "lapsed", "pinned"}] \cup {NoLock}]
    /\ commands \in [Owners -> [at : {"none", "opening", "turning", "acting", "closing"},
                                window : WindowIds \cup {NoWindow}, site : WebSites \cup {Blank}]]
    /\ closing \in [Cleaners -> [going : BOOLEAN, left : SUBSET WindowIds]]
    /\ ended \subseteq Owners

\* A run's current window is an open window of its own, whatever closed or
\* changed hands: its next command never lands in another run's page.
CurrentIsOwn ==
    \A o \in Owners : current[o] # NoWindow => windows[current[o]].open /\ windows[current[o]].owner = o
\* And a run with windows has a current one.
HasCurrent == \A o \in Owners : Mine(windows, o) # {} => current[o] # NoWindow

\* A lock that never lapses belongs to a run with an open window, so it goes
\* when that window does: no site is held for good (locks.ts:9-11).
NoSiteHeldForGood ==
    \A s \in WebSites : locks[s].lasts = "pinned" => Mine(windows, locks[s].owner) # {}

\* Two runs never act on one site at once (locks.ts:2-6): of the commands in
\* their pages on a site whose lock they took, all are one run's, unless the
\* window has left the run meanwhile.
ActingOn(o, s) ==
    /\ commands[o].at = "acting" /\ commands[o].site = s
    /\ windows[commands[o].window].open /\ windows[commands[o].window].owner = o
OneRunPerSite == \A s \in WebSites, o, p \in Owners \ ended : ActingOn(o, s) /\ ActingOn(p, s) => o = p

WindowsKept == CurrentIsOwn /\ HasCurrent /\ NoSiteHeldForGood /\ OneRunPerSite

\* While the person has a window, the site its run had locked stays the run's
\* (locks.ts:101-105). The run's own next command there puts a finite time
\* back on the lock, and it lapses.
HeldSitesStay ==
    \A w \in WindowIds, s \in WebSites :
        Held(w) /\ locks[s].owner = windows[w].owner => locks[s].lasts = "pinned"
\* A lock is pinned only while the person has one of its run's windows.
PinnedIsHeld ==
    \A s \in WebSites : locks[s].lasts = "pinned" => \E w \in Mine(windows, locks[s].owner) : Held(w)
\* The sweep spares what the person has.
SweepSparesHeld == [][\A w \in closing[Sweeper].left : Held(w) /\ ~ChromeRestarts => windows'[w].open
                       \/ w \in closing'[Sweeper].left]_windowVars
=============================================================================
