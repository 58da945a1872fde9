------------------------------ MODULE LiveViews ------------------------------
(***************************************************************************)
(* The browser page's live views: what a page shows                        *)
(* (apps/web/src/routes/browser.tsx), the gateway's viewers and who        *)
(* controls each window (apps/gateway/src/handoffs.ts, gateway.ts), and    *)
(* winstond's screencasts (apps/winstond/src/browser/screencast.ts,        *)
(* handoff-frames.ts), over the windows of Windows.  The gateway and the VM*)
(* send each other frames in order; a page's request waits for the VM's    *)
(* answer, so another request, a release or a closing window comes between.*)
(* What the gateway tells a page arrives at once.                          *)
(***************************************************************************)
EXTENDS Windows, Sequences, SequencesExt

CONSTANTS Pages,         \* page sockets, each a viewer with a view of its own
          MaxRequests    \* bound: what the pages ask in all

ASSUME LiveViewsAssumption == MaxRequests \in Nat

VARIABLES viewers,     \* the gateway: who is signed in and watches what
          control,     \* the gateway: the page with control of each window
          requests,    \* the gateway: requests waiting for the VM
          toVm, toGateway,
          live,        \* winstond: the window each view's screencast is of
          starting,    \* winstond: screencasts on their way
          page,        \* what each page shows: its window, and control of it
          asked        \* how many requests the pages made
viewVars == <<viewers, control, requests, toVm, toGateway, live, starting, page, asked>>
vmViewVars == <<live, starting>>
browserVars == <<windowVars, viewVars>>

NoPage == "none"
NotWatching == [window |-> NoWindow, owner |-> "none"]
Unselected == [window |-> NoWindow, control |-> FALSE]

ViewFrame(type, owner, window, of) == [type |-> type, owner |-> owner, window |-> window, of |-> of]
Joined(p) == viewers[p].state = "in"
Watching(p) == viewers[p].watching.window
Controls(p) == Watching(p) # NoWindow /\ control[Watching(p)] = p

(***************************************************************************)
(* Winstond takes frames in order, and answers a hold or a list at once.   *)
(***************************************************************************)
Listed == [w \in WindowIds |-> [open |-> windows[w].open, owner |-> windows[w].owner, held |-> windows[w].held]]
Answer(of, held) == [type |-> "answer", of |-> of, listed |-> Listed, held |-> held]
Ended(p) == [type |-> "ended", of |-> p, listed |-> <<>>, held |-> FALSE]

VmHolds(f) ==
    /\ f.type \in {"hold", "handoff"}
    /\ Hold(f.owner, f.window, IF f.type = "hold" THEN "takeover" ELSE "handoff")
    /\ toGateway' = Append(toGateway, Answer(f.of, MayHold(f.owner, f.window)))
    /\ UNCHANGED vmViewVars
VmReleases(f) ==
    f.type = "release" /\ Release(f.owner, f.window) /\ UNCHANGED <<toGateway, vmViewVars>>
VmLists(f) ==
    /\ f.type = "list"
    /\ toGateway' = Append(toGateway, Answer(f.of, FALSE))
    /\ UNCHANGED <<windows, locks, vmViewVars>>
\* Starting first stops the view's old stream, which waits for Chrome, and then
\* attaches: a start with nothing to stop passes one that has. Chrome attaches
\* in the order it was asked.
StartScreencast(f) ==
    /\ f.type = "start"
    /\ starting' = Append(starting, [page |-> f.of, window |-> f.window,
                                     at |-> IF live[f.of] = NoWindow THEN "attaching" ELSE "stopping"])
    /\ live' = [live EXCEPT ![f.of] = NoWindow]
    /\ UNCHANGED <<windows, locks, toGateway>>
StopScreencast(f) ==
    f.type = "stop" /\ live' = [live EXCEPT ![f.of] = NoWindow] /\ UNCHANGED <<windows, locks, toGateway, starting>>
VmTakesFrame ==
    /\ toVm # <<>>
    /\ toVm' = Tail(toVm)
    /\ LET f == Head(toVm)
       IN VmHolds(f) \/ VmReleases(f) \/ VmLists(f) \/ StartScreencast(f) \/ StopScreencast(f)
    /\ UNCHANGED <<opened, current, commands, closing, ended, viewers, control, requests, page, asked>>

OldStopped(i) ==
    /\ starting[i].at = "stopping"
    /\ starting' = Append(RemoveAt(starting, i), [starting[i] EXCEPT !.at = "attaching"])
    /\ UNCHANGED <<windowVars, viewers, control, requests, toVm, toGateway, live, page, asked>>
Attached(i) ==
    /\ starting[i].at = "attaching" /\ \A j \in 1..(i - 1) : starting[j].at = "stopping"
    /\ starting' = RemoveAt(starting, i)
    /\ IF windows[starting[i].window].open
       THEN live' = [live EXCEPT ![starting[i].page] = starting[i].window] /\ UNCHANGED toGateway
       ELSE toGateway' = Append(toGateway, Ended(starting[i].page)) /\ UNCHANGED live
    /\ UNCHANGED <<windowVars, viewers, control, requests, toVm, page, asked>>
\* The window closed, or the view's own session with Chrome did.
ViewEnds(p) ==
    /\ live[p] # NoWindow
    /\ live' = [live EXCEPT ![p] = NoWindow]
    /\ toGateway' = Append(toGateway, Ended(p))
    /\ UNCHANGED <<windowVars, viewers, control, requests, toVm, starting, page, asked>>

(***************************************************************************)
(* The gateway: who has control.                                           *)
(***************************************************************************)
Told(P, p, w, yours) == IF p # NoPage /\ P[p].window = w THEN [P EXCEPT ![p].control = yours] ELSE P

\* The stream of a page that loses control starts over, at Winston's size.
Restarted(w) ==
    IF control[w] # NoPage /\ Watching(control[w]) = w
    THEN <<ViewFrame("stop", "none", w, control[w]), ViewFrame("start", "none", w, control[w])>> ELSE <<>>

\* The page gets control of the window it is watching now, if any.
Grant(p, V, P, sent) ==
    LET w == V[p].watching.window
    IN IF w = NoWindow \/ control[w] = p
       THEN page' = P /\ toVm' = sent /\ UNCHANGED control
       ELSE /\ control' = [control EXCEPT ![w] = p]
            /\ page' = Told(Told(P, control[w], w, FALSE), p, w, TRUE)
            /\ toVm' = sent \o Restarted(w)

\* Given back: the pages that watch the windows lose control of them.
GiveBack(o, w) ==
    LET lost == {Watching(p) : p \in {q \in Pages : /\ viewers[q].watching.owner = o
                                                    /\ w \in {NoWindow, Watching(q)}}}
    IN /\ control' = [v \in WindowIds |-> IF v \in lost THEN NoPage ELSE control[v]]
       /\ page' = [p \in Pages |-> IF \E v \in lost \ {NoWindow} : page[p].window = v /\ control[v] = p
                                   THEN [page[p] EXCEPT !.control = FALSE] ELSE page[p]]
       /\ toVm' = FlattenSeq(<<toVm>> \o SetToSeq({Restarted(v) : v \in lost \ {NoWindow}})
                             \o << <<ViewFrame("release", o, w, NoPage)>> >>)

(***************************************************************************)
(* A page signs in, chooses a window, takes over, taps Done, and keeps     *)
(* asking for the list.  Every request but signing in lists the windows.   *)
(***************************************************************************)
Join(p) ==
    /\ viewers[p].state = "new"
    /\ viewers' = [viewers EXCEPT ![p].state = "in"]
    /\ UNCHANGED <<windowVars, control, requests, toVm, toGateway, live, starting, page, asked>>

Request(p, kind, w) ==
    /\ Joined(p) /\ asked < MaxRequests
    /\ asked' = asked + 1
    /\ requests' = requests \cup {[id |-> asked', page |-> p, kind |-> kind, window |-> w,
                                   owner |-> viewers[p].watching.owner]}
    /\ toVm' = Append(toVm, ViewFrame("list", "none", NoWindow, asked'))
    /\ UNCHANGED <<windowVars, viewers, control, toGateway, live, starting>>
Watch(p, w) ==
    /\ windows[w].open /\ w # page[p].window
    /\ page' = [page EXCEPT ![p] = [window |-> w, control |-> FALSE]]
    /\ Request(p, "watch", w)
TakeOver(p) == Watching(p) # NoWindow /\ Request(p, "control", Watching(p)) /\ UNCHANGED page
Done(p) == Controls(p) /\ Request(p, "done", Watching(p)) /\ UNCHANGED page
ListWindows(p) == Request(p, "windows", NoWindow) /\ UNCHANGED page

\* The answer to a request; r is what remains of it.
Answers(r, remains) ==
    /\ toGateway # <<>>
    /\ Head(toGateway).type = "answer" /\ Head(toGateway).of = r.id
    /\ toGateway' = Tail(toGateway)
    /\ requests' = (requests \ {r}) \cup remains
    /\ UNCHANGED <<windowVars, live, starting, asked>>
Entry(r) == Head(toGateway).listed[r.window]

WindowsListed(r) ==
    /\ r.kind = "windows"
    /\ LET shown == page[r.page].window
       IN page' = [page EXCEPT ![r.page] =
                       IF shown # NoWindow /\ Head(toGateway).listed[shown].open
                       THEN [@ EXCEPT !.control = control[shown] = r.page] ELSE Unselected]
    /\ UNCHANGED <<viewers, control, toVm>>
    /\ Answers(r, {})
WatchListed(r) ==
    LET p == r.page
        w == r.window
        V == [viewers EXCEPT ![p].watching = [window |-> w, owner |-> Entry(r).owner]]
        frames == (IF Watching(p) # NoWindow THEN <<ViewFrame("stop", "none", NoWindow, p)>> ELSE <<>>)
                  \o <<ViewFrame("start", "none", w, p)>>
        shown == Told(page, p, w, control[w] = p)
    IN /\ r.kind = "watch"
       /\ IF ~Entry(r).open
          THEN page' = (IF page[p].window = w THEN [page EXCEPT ![p] = Unselected] ELSE page)
               /\ UNCHANGED <<viewers, control, toVm>>
          ELSE IF ~Joined(p) THEN UNCHANGED <<viewers, control, toVm, page>>
          ELSE /\ viewers' = V
               /\ IF Entry(r).held # "no" /\ control[w] = NoPage
                  THEN Grant(p, V, shown, toVm \o frames)
                  ELSE page' = shown /\ toVm' = toVm \o frames /\ UNCHANGED control
       /\ Answers(r, {})
ControlListed(r) ==
    /\ r.kind = "control"
    /\ IF Entry(r).open /\ Entry(r).held = "no"
       THEN /\ toVm' = Append(toVm, ViewFrame("hold", Entry(r).owner, r.window, r.id))
            /\ Answers(r, {[r EXCEPT !.kind = "hold"]})
            /\ UNCHANGED <<control, page>>
       ELSE /\ IF Entry(r).open THEN Grant(r.page, viewers, page, toVm) ELSE UNCHANGED <<control, page, toVm>>
            /\ Answers(r, {})
    /\ UNCHANGED viewers
TakenOver(r) ==
    /\ r.kind = "hold"
    /\ IF Head(toGateway).held THEN Grant(r.page, viewers, page, toVm) ELSE UNCHANGED <<control, page, toVm>>
    /\ UNCHANGED viewers
    /\ Answers(r, {})
\* A handed-over window first has its task resumed, in the database.
DoneListed(r) ==
    /\ r.kind = "done"
    /\ IF Entry(r).open /\ Entry(r).held = "handoff"
       THEN Answers(r, {[r EXCEPT !.kind = "hand back"]}) /\ UNCHANGED <<control, page, toVm>>
       ELSE Answers(r, {}) /\ GiveBack(r.owner, r.window)
    /\ UNCHANGED viewers
HandedBack(r) ==
    /\ r.kind = "hand back"
    /\ requests' = requests \ {r}
    /\ GiveBack(r.owner, r.window)
    /\ UNCHANGED <<windowVars, viewers, toGateway, live, starting, asked>>
RequestTimesOut(r) ==
    /\ r.kind # "hand back"
    /\ requests' = requests \ {r}
    /\ UNCHANGED <<windowVars, viewers, control, toVm, toGateway, live, starting, page, asked>>
RequestStep(r) ==
    \/ toGateway # <<>> /\ Head(toGateway).type = "answer" /\ Head(toGateway).of = r.id
       /\ (WindowsListed(r) \/ WatchListed(r) \/ ControlListed(r) \/ TakenOver(r) \/ DoneListed(r))
    \/ HandedBack(r) \/ RequestTimesOut(r)

\* An answer whose request gave up; a view that ended: whoever controls its
\* window, control goes, and only the page that watched is told.
FrameDropped ==
    /\ toGateway # <<>> /\ Head(toGateway).type = "answer"
    /\ \A r \in requests : r.id # Head(toGateway).of
    /\ toGateway' = Tail(toGateway)
    /\ UNCHANGED <<windowVars, viewers, control, requests, toVm, live, starting, page, asked>>
ViewEnded ==
    /\ toGateway # <<>> /\ Head(toGateway).type = "ended"
    /\ toGateway' = Tail(toGateway)
    /\ LET p == Head(toGateway).of
           w == Watching(p)
       IN IF w = NoWindow THEN UNCHANGED <<viewers, control, page>>
          ELSE /\ viewers' = [viewers EXCEPT ![p].watching = NotWatching]
               /\ control' = [control EXCEPT ![w] = NoPage]
               /\ page' = IF page[p].window = w THEN [page EXCEPT ![p] = Unselected] ELSE page
    /\ UNCHANGED <<windowVars, requests, toVm, live, starting, asked>>

Gone(V, P) == [p \in Pages |-> IF p \in P THEN [state |-> "gone", watching |-> NotWatching] ELSE V[p]]
Disconnected(p) ==
    /\ Joined(p)
    /\ viewers' = Gone(viewers, {p})
    /\ control' = [w \in WindowIds |-> IF control[w] = p THEN NoPage ELSE control[w]]
    /\ page' = [page EXCEPT ![p] = Unselected]
    /\ toVm' = IF Watching(p) # NoWindow THEN Append(toVm, ViewFrame("stop", "none", NoWindow, p)) ELSE toVm
    /\ UNCHANGED <<windowVars, requests, toGateway, live, starting, asked>>
\* The VM's connection drops: what was on its way is lost.
VmClosed ==
    /\ \E p \in Pages : Joined(p)
    /\ viewers' = Gone(viewers, {p \in Pages : Joined(p)})
    /\ control' = [w \in WindowIds |-> NoPage]
    /\ page' = [p \in Pages |-> Unselected]
    /\ toVm' = <<>> /\ toGateway' = <<>>
    /\ UNCHANGED <<windowVars, requests, live, starting, asked>>

\* The agents hand a run's window over, and take its windows back: the user
\* said done in chat, or the task ended.
AgentsHold(o) ==
    /\ asked < MaxRequests
    /\ asked' = asked + 1
    /\ toVm' = Append(toVm, ViewFrame("handoff", o, NoWindow, 0))
    /\ UNCHANGED <<windowVars, viewers, control, requests, toGateway, live, starting, page>>
AgentsRelease(o) ==
    /\ asked < MaxRequests
    /\ asked' = asked + 1
    /\ GiveBack(o, NoWindow)
    /\ UNCHANGED <<windowVars, viewers, requests, toGateway, live, starting>>

PageStep(p) ==
    \/ Join(p) \/ TakeOver(p) \/ Done(p) \/ ListWindows(p) \/ Disconnected(p) \/ ViewEnds(p)
    \/ \E w \in WindowIds : Watch(p, w)
ViewsInit ==
    /\ viewers = [p \in Pages |-> [state |-> "new", watching |-> NotWatching]]
    /\ control = [w \in WindowIds |-> NoPage]
    /\ requests = {} /\ toVm = <<>> /\ toGateway = <<>>
    /\ live = [p \in Pages |-> NoWindow] /\ starting = <<>>
    /\ page = [p \in Pages |-> Unselected]
    /\ asked = 0
ViewsNext ==
    \/ \E p \in Pages : PageStep(p)
    \/ \E r \in requests : RequestStep(r)
    \/ \E i \in DOMAIN starting : OldStopped(i) \/ Attached(i)
    \/ \E o \in Owners : AgentsHold(o) \/ AgentsRelease(o)
    \/ VmTakesFrame \/ FrameDropped \/ ViewEnded \/ VmClosed
BrowserInit == WindowsInit /\ ViewsInit
BrowserNext == ViewsNext \/ (WindowsNext /\ UNCHANGED viewVars)
BrowserSpec == BrowserInit /\ [][BrowserNext]_browserVars

(***************************************************************************)
(* Properties.                                                             *)
(***************************************************************************)
ViewsTypeOK ==
    /\ viewers \in [Pages -> [state : {"new", "in", "gone"},
                              watching : [window : WindowIds, owner : Owners] \cup {NotWatching}]]
    /\ control \in [WindowIds -> Pages \cup {NoPage}]
    /\ live \in [Pages -> WindowIds \cup {NoWindow}]
    /\ page \in [Pages -> [window : WindowIds \cup {NoWindow}, control : BOOLEAN]]
    /\ asked \in 0..MaxRequests

\* A page that is gone controls and watches nothing, whatever its requests were
\* still waiting for.
ControllersAreHere == \A w \in WindowIds : control[w] # NoPage => Joined(control[w])

\* A page with control of the window it watches and shows knows it: the person
\* sees that what they type goes to the tab (handoffs.ts:8-11).
ControllersKnow ==
    \A p \in Pages : Controls(p) /\ page[p].window = Watching(p)
                     /\ ~(\E r \in requests : r.page = p /\ r.kind = "watch")
        => page[p].control

ViewsKept == ControllersAreHere /\ ControllersKnow

Quiet == toVm = <<>> /\ toGateway = <<>> /\ starting = <<>> /\ requests = {}
\* The stream a page sees, and types into, is of the window it watches
\* (handoffs.ts:237): not when two starts of its view pass each other.
StreamFollowsWatch ==
    Quiet => \A p \in Pages : Joined(p) /\ live[p] # NoWindow => live[p] = Watching(p)
\* A page that goes away takes its stream with it (handoffs.ts:309): not when
\* the VM's connection is what went.
StreamsEndWithPages == Quiet => \A p \in Pages : viewers[p].state = "gone" => live[p] = NoWindow
\* A window is controlled only while the person has it (handoffs.ts:8-11): not
\* when it was given back while its page watched another.
ControlOnlyHeld ==
    Quiet => \A w \in OpenWindows : control[w] # NoPage => Held(w)
\* A page that shows control has it: not when another page's view of the window
\* ended.
PagesKnow ==
    Quiet => \A p \in Pages : page[p].control /\ windows[page[p].window].open => control[page[p].window] = p
=============================================================================
