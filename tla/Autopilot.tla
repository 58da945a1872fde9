------------------------------ MODULE Autopilot ------------------------------
(***************************************************************************)
(* `winston browser act` (apps/winstond/src/browser/autopilot.ts): one     *)
(* instruction, taken step by step on a page that moves by itself.  Each   *)
(* turn reads the page (fast-page.ts), asks Jev and, where Jev isn't to be *)
(* trusted, the step picker (packages/vm-api/src/jev.ts), checks that the  *)
(* page is still the one they judged, and does the step.                   *)
(*                                                                         *)
(* A page is its text and its controls, each in one of two states.  One    *)
(* site, and one run of act at a time.                                     *)
(***************************************************************************)
EXTENDS Naturals, Sequences, FiniteSets

CONSTANTS
    PageControls, Fields, Selects,  \* what is on the page: fields, dropdowns, and the rest
    MaxSteps,           \* actions in a run
    NoProgress,         \* actions in a row that change nothing
    SameStep,           \* times a step is taken from the same page
    MinDecided,         \* Jev's judged picks before a site may be unreliable
    MaxActs,            \* bound: runs of act
    MaxMoves            \* bound: changes the page makes by itself

ASSUME AutopilotAssumption ==
    /\ {MaxSteps, NoProgress, SameStep, MinDecided, MaxActs, MaxMoves} \subseteq Nat
    /\ Fields \cup Selects \subseteq PageControls /\ Fields \cap Selects = {}

VARIABLES
    screen,             \* the page as it is
    moves,
    theirs,             \* the user has the window (heldForUser)
    act,                \* the run of act
    acts,
    unjudged,           \* pending: Jev's picks of the last run, if it did something
    outcomes,           \* outcomes on their way to the backend
    jevSite,            \* jev_decisions of the site: Jev's picks by outcome
    \* history
    slipped             \* the page moved between the last check and the input

autopilotVars == <<screen, moves, theirs, act, acts, unjudged, outcomes, jevSite, slipped>>

Screens == [text : 0 .. 1, control : [PageControls -> 0 .. 1]]
Ends == {"DONE", "BLOCKED"}
PickChoices == PageControls \cup Ends
NoChoice == "none"
NoDecision == [choice |-> NoChoice, commits |-> NoChoice, sure |-> FALSE]
NoPick == [choice |-> NoChoice, named |-> FALSE, by |-> NoChoice, was |-> 0]
BlankScreen == [text |-> 0, control |-> [c \in PageControls |-> 0]]
NotActing == [pc |-> "off", seen |-> BlankScreen,
              commit |-> FALSE, jevOff |-> FALSE, jev |-> NoDecision, pick |-> NoPick, again |-> FALSE,
              carried |-> NoPick, staleEnd |-> NoChoice, history |-> <<>>, decisions |-> 0, reads |-> 0,
              jevPicks |-> 0, acted |-> FALSE, inputs |-> 0, committed |-> 0, stop |-> "none"]

\* One thing on the page is another; the marker is all of it.
Changed(s) == {[s EXCEPT !.text = 1 - @]} \cup {[s EXCEPT !.control[c] = 1 - @] : c \in PageControls}

\* A control's own guards; loosely, whatever the text around it does.
Guards(s, c, loose) == <<s.control[c], IF loose THEN 0 ELSE s.text>>

\* fresh: a field is typed in only on the page it was judged on, unless retried.
FreshFor(c, loose) ==
    IF c \in Fields /\ ~loose THEN screen = act.seen
    ELSE Guards(screen, c, loose) = Guards(act.seen, c, loose)

(***************************************************************************)
(* The backend: decisions are logged, and judged by outcomes sent later.   *)
(***************************************************************************)
Unreliable ==
    /\ jevSite.verified + jevSite.overridden >= MinDecided
    /\ 2 * jevSite.overridden > jevSite.verified + jevSite.overridden

\* Best effort: an outcome that is lost leaves its picks unknown.
OutcomeArrives(o) ==
    /\ o \in outcomes
    /\ outcomes' = outcomes \ {o}
    /\ \/ jevSite' = [jevSite EXCEPT ![o.outcome] = @ + o.picks]
       \/ UNCHANGED jevSite
    /\ UNCHANGED <<screen, moves, theirs, act, acts, unjudged, slipped>>

Judged(picks, outcome) ==
    IF picks = 0 THEN outcomes ELSE outcomes \cup {[picks |-> picks, outcome |-> outcome, of |-> acts]}

(***************************************************************************)
(* The ends of a run.                                                      *)
(***************************************************************************)
\* A run that did something is judged by what the agent does next.
Stopped(run, stop) ==
    /\ act' = [NotActing EXCEPT !.pc = "over", !.stop = stop,
                                !.inputs = run.inputs, !.committed = run.committed, !.commit = run.commit]
    /\ IF run.acted
       THEN unjudged' = run.jevPicks /\ UNCHANGED outcomes
       ELSE outcomes' = Judged(run.jevPicks, "verified") /\ UNCHANGED unjudged

Goes(run) == act' = run /\ UNCHANGED <<unjudged, outcomes>>
AroundActs == UNCHANGED <<moves, theirs, acts, jevSite>>

\* The agent's next move in a window: going back overrides the last picks.
Observed(back) ==
    /\ outcomes' = Judged(unjudged, IF back THEN "overridden" ELSE "verified")
    /\ unjudged' = 0

NextMove(back) ==
    /\ unjudged > 0 /\ act.pc = "over" /\ ~theirs
    /\ Observed(back)
    /\ UNCHANGED <<screen, moves, theirs, act, acts, jevSite, slipped>>

\* The window is checked here, once; Jev's record of the site too.
StartAct(commit) ==
    /\ act.pc \in {"off", "over"} /\ acts < MaxActs /\ ~theirs
    /\ acts' = acts + 1
    /\ Observed(FALSE)
    /\ act' = [NotActing EXCEPT !.pc = "read", !.commit = commit, !.jevOff = Unreliable]
    /\ slipped' = FALSE
    /\ UNCHANGED <<screen, moves, theirs, jevSite>>

(***************************************************************************)
(* A turn.                                                                 *)
(***************************************************************************)
ReadsPage ==
    /\ act.pc = "read"
    /\ Goes([act EXCEPT !.pc = "turn", !.seen = screen, !.reads = @ + 1])
    /\ UNCHANGED <<screen, slipped>> /\ AroundActs

\* A document that swaps in under every read, or a frame that went.
Unreadable ==
    /\ act.pc \in {"read", "settle"}
    /\ Stopped(act, "failed")
    /\ UNCHANGED <<screen, slipped>> /\ AroundActs

\* A dialog holds the page, or its file picker waits: the agent answers it.
PageAsks ==
    /\ act.pc \in {"read", "turn", "settle"}
    /\ Stopped(act, "blocked")
    /\ UNCHANGED <<screen, slipped>> /\ AroundActs

MostDecisions == 2 * MaxSteps
OutOfTime ==
    /\ act.pc = "turn"
    /\ \/ Stopped(act, "max_time")
       \/ act.decisions >= MostDecisions /\ Stopped(act, "max_steps")
    /\ UNCHANGED <<screen, slipped>> /\ AroundActs

\* A step whose page moved on is tried once more if its element is as it was.
StillThere == act.carried # NoPick /\ act.seen.control[act.carried.choice] = act.carried.was
Retries ==
    /\ act.pc = "turn" /\ act.decisions < MostDecisions /\ StillThere
    /\ Goes([act EXCEPT !.pc = "chosen", !.pick = act.carried, !.again = TRUE, !.carried = NoPick])
    /\ UNCHANGED <<screen, slipped>> /\ AroundActs

MayDecide == act.pc = "turn" /\ act.decisions < MostDecisions /\ ~StillThere

\* Jev's pick, if it checks out.
Decisions ==
    {d \in [choice : PickChoices, commits : PageControls \cup {NoChoice}, sure : BOOLEAN] : d.sure => d.choice = "DONE"}
OfJev(d) == [choice |-> d.choice, named |-> d.commits = d.choice, by |-> "jev",
             was |-> IF d.choice \in PageControls THEN act.seen.control[d.choice] ELSE 0]

Taken(c) == {i \in DOMAIN act.history : act.history[i].from = act.seen /\ act.history[i].control = c}
Repeats(c) ==
    LET n == Len(act.history)
    IN  n > 0 /\ act.history[n].control = c /\ act.history[n].changed = FALSE

NeedsPicker(d) ==
    \/ d.choice = "BLOCKED"
    \/ d.choice = "DONE" /\ ~d.sure
    \/ d.choice \in PageControls /\ (Repeats(d.choice) \/ Taken(d.choice) # {})

Chose(pick) == [act EXCEPT !.pc = "chosen", !.pick = pick, !.again = FALSE, !.carried = NoPick,
                           !.jev = NoDecision, !.decisions = @ + 1, !.reads = 0, !.inputs = 0,
                           !.jevPicks = IF pick.by = "jev" THEN @ + 1 ELSE @]

AsksPicker(d) == [act EXCEPT !.pc = "pick", !.jev = d, !.carried = NoPick]

JevAnswers ==
    /\ MayDecide /\ ~act.jevOff
    /\ \E run \in {IF NeedsPicker(d) THEN AsksPicker(d) ELSE Chose(OfJev(d)) : d \in Decisions} : Goes(run)
    /\ UNCHANGED <<screen, slipped>> /\ AroundActs

\* No answer in time, an incomplete one, or one that doesn't check out.
JevFails ==
    /\ MayDecide /\ ~act.jevOff
    /\ Goes(AsksPicker(NoDecision))
    /\ UNCHANGED <<screen, slipped>> /\ AroundActs

\* Where Jev keeps being overridden, the step picker decides every step.
SkipsJev ==
    /\ MayDecide /\ act.jevOff
    /\ Goes(AsksPicker(NoDecision))
    /\ UNCHANGED <<screen, slipped>> /\ AroundActs

\* Jev's commits head still counts if it named the same step.
NamedBy(jev, choice, commits) == commits \/ jev.commits = choice

OfPicker(p) == [choice |-> p.choice, named |-> p.choice \in PageControls /\ NamedBy(act.jev, p.choice, p.commits),
                by |-> "picker", was |-> IF p.choice \in PageControls THEN act.seen.control[p.choice] ELSE 0]

\* An operation on offer, and a target of it.
PickerPicks == [choice : PickChoices, commits : BOOLEAN]

PickerAnswers ==
    /\ act.pc = "pick"
    /\ \E run \in {Chose(OfPicker(p)) : p \in PickerPicks} : Goes(run)
    /\ UNCHANGED <<screen, slipped>> /\ AroundActs

\* Jev's own pick stands; if Jev wasn't asked, or gave none, it's asked now.
PickerFails ==
    /\ act.pc = "pick"
    /\ IF act.jev # NoDecision THEN Goes(Chose(OfJev(act.jev)))
       ELSE \/ ~act.jevOff /\ \E d \in Decisions : Goes(Chose(OfJev(d)))
            \/ Stopped(act, "unavailable")
    /\ UNCHANGED <<screen, slipped>> /\ AroundActs

\* Done or blocked stands on the page it was judged on, or said twice of two reads.
SaysEnd ==
    /\ act.pc = "chosen" /\ act.pick.choice \in Ends
    /\ IF act.staleEnd # act.pick.choice /\ screen # act.seen
       THEN Goes([act EXCEPT !.pc = "read", !.staleEnd = act.pick.choice, !.seen = BlankScreen, !.pick = NoPick])
       ELSE Stopped(act, act.pick.choice)
    /\ UNCHANGED <<screen, slipped>> /\ AroundActs

WouldCommit == act.pick.named /\ ~act.commit
TakesStep ==
    /\ act.pc = "chosen" /\ act.pick.choice \in PageControls
    /\ IF WouldCommit THEN Stopped(act, "commits")
       ELSE IF Len(act.history) >= MaxSteps THEN Stopped(act, "max_steps")
       ELSE Goes([act EXCEPT !.pc = IF act.pick.choice \in Fields THEN "type" ELSE "check", !.staleEnd = NoChoice])
    /\ UNCHANGED <<screen, slipped>> /\ AroundActs

\* Nothing was done: look again, and try the same step once more.
LooksAgain(run) ==
    [run EXCEPT !.pc = "read", !.carried = IF run.again THEN NoPick ELSE run.pick, !.seen = BlankScreen, !.pick = NoPick]

\* The text for a field, from the text helper, asked twice if need be, or the picker.
Texts == {"given", "needs_value", "unavailable"}

\* A value the instruction doesn't give stops the run rather than being guessed.
WritesText ==
    /\ act.pc = "type"
    /\ IF FreshFor(act.pick.choice, act.again)
       THEN \E text \in Texts : IF text = "given" THEN Goes([act EXCEPT !.pc = "check"]) ELSE Stopped(act, text)
       ELSE Goes(LooksAgain(act))
    /\ UNCHANGED <<screen, slipped>> /\ AroundActs

\* The site's lock is taken, and the page checked right before input.
ChecksPage ==
    /\ act.pc = "check"
    /\ \/ Stopped(act, "failed")        \* another run has the site
       \/ Goes(IF FreshFor(act.pick.choice, act.again) THEN [act EXCEPT !.pc = "input"] ELSE LooksAgain(act))
    /\ UNCHANGED <<screen, slipped>> /\ AroundActs

(***************************************************************************)
(* The input.                                                              *)
(***************************************************************************)
\* The target is gone, covered or disabled: nothing was done.  Of a select that may
\* have half happened no one says so, since it can't be retried blindly.
MutMayRetry(c) == TRUE
MayRetry(c) == c \notin Selects

TargetLost ==
    /\ act.pc = "input"
    /\ IF MayRetry(act.pick.choice) THEN Goes(LooksAgain(act)) ELSE Stopped(act, "failed")
    /\ slipped' = FALSE /\ UNCHANGED screen /\ AroundActs

GotInput(run) ==
    [run EXCEPT !.inputs = @ + 1, !.committed = IF run.pick.named THEN @ + 1 ELSE @,
                !.history = Append(@, [from |-> run.seen, control |-> run.pick.choice, changed |-> FALSE])]

\* The script that changes a select was cut short, before the change or after.
SelectCutShort ==
    /\ act.pc = "input" /\ act.pick.choice \in Selects
    /\ \E hit \in BOOLEAN :
          LET run == IF hit THEN GotInput(act) ELSE act
          IN  IF MayRetry(act.pick.choice) THEN Goes(LooksAgain(run)) ELSE Stopped(run, "failed")
    /\ slipped' = FALSE /\ UNCHANGED screen /\ AroundActs

\* One approved commitment, then the agent looks at what happened; it isn't put down
\* as an action of the run, so nothing the agent does next judges it.
DoesStep ==
    /\ act.pc = "input"
    /\ screen' \in Changed(screen) \cup {screen}
    /\ LET run == GotInput(act)
       IN  IF run.pick.named THEN Stopped(run, "committed")
           ELSE Goes([run EXCEPT !.pc = "settle", !.acted = TRUE])
    /\ slipped' = FALSE /\ AroundActs

\* It reads the page the step left, and stops if it gets nowhere.
Settles ==
    /\ act.pc = "settle"
    /\ LET n == Len(act.history)
           last == act.history[n]
           history == [act.history EXCEPT ![n] = [from |-> last.from, control |-> last.control,
                                                  changed |-> screen # act.seen]]
           idle == n >= NoProgress /\ \A i \in n - NoProgress + 1 .. n : ~history[i].changed
           round == Cardinality(Taken(act.pick.choice)) >= SameStep
       IN  IF idle \/ round THEN Stopped(act, "no_progress")
           ELSE Goes([act EXCEPT !.pc = "turn", !.history = history, !.seen = screen, !.reads = @ + 1,
                                 !.pick = NoPick, !.inputs = 0])
    /\ UNCHANGED <<screen, slipped>> /\ AroundActs

(***************************************************************************)
(* The page, and the user.                                                 *)
(***************************************************************************)
ScreenMoves ==
    /\ moves < MaxMoves /\ moves' = moves + 1
    /\ screen' \in Changed(screen)
    /\ slipped' = (slipped \/ act.pc = "input")
    /\ UNCHANGED <<theirs, act, acts, unjudged, outcomes, jevSite>>

\* hold (the user keeps it here); a run of act already under way isn't told.
TakesWindow ==
    /\ ~theirs /\ theirs' = TRUE
    /\ UNCHANGED <<screen, moves, act, acts, unjudged, outcomes, jevSite, slipped>>

AutopilotInit ==
    /\ screen = BlankScreen /\ moves = 0
    /\ theirs = FALSE
    /\ act = NotActing /\ acts = 0 /\ unjudged = 0 /\ outcomes = {}
    /\ \E overridden \in {0, MinDecided} : jevSite = [verified |-> 0, overridden |-> overridden]
    /\ slipped = FALSE

TurnStep ==
    \/ ReadsPage \/ Unreadable \/ PageAsks \/ OutOfTime
    \/ Retries \/ JevAnswers \/ JevFails \/ SkipsJev \/ PickerAnswers \/ PickerFails
    \/ SaysEnd \/ TakesStep \/ WritesText \/ ChecksPage
    \/ TargetLost \/ SelectCutShort \/ DoesStep \/ Settles

AutopilotNext ==
    \/ TurnStep \/ ScreenMoves \/ TakesWindow
    \/ \E commit \in BOOLEAN : StartAct(commit)
    \/ \E back \in BOOLEAN : NextMove(back)
    \/ \E o \in outcomes : OutcomeArrives(o)

AutopilotSpec == AutopilotInit /\ [][AutopilotNext]_autopilotVars

(***************************************************************************)
(* Properties.                                                             *)
(***************************************************************************)
AutopilotTypeOK ==
    /\ screen \in Screens /\ act.seen \in Screens
    /\ act.pc \in {"off", "read", "turn", "pick", "chosen", "type", "check", "input", "settle", "over"}
    /\ act.pick.choice \in PickChoices \cup {NoChoice}
    /\ act.decisions \in 0 .. MostDecisions /\ Len(act.history) <= MaxSteps
    /\ act.pc \in {"input", "settle"} => act.pick.choice \in PageControls

\* What commits something is "before anything that commits" a stop (autopilot.ts), and
\* with the user's yes one step: no step that a model named, whichever of the two
\* decided it and however often its page moved on, is taken otherwise.
CommitsAsked == act.committed <= IF act.commit THEN 1 ELSE 0

\* A decision is acted on once, also when the page moved on and it was tried again, or
\* a dropdown's change was cut short.
InputOnce == act.inputs <= 1

\* An input goes to a control that is as it was when the step was decided, unless the
\* page moved in the moment between the check and the input.
ActsOnWhatItSaw ==
    act.pc = "input" /\ ~slipped =>
        Guards(screen, act.pick.choice, TRUE) = Guards(act.seen, act.pick.choice, TRUE)
            /\ act.pick.was = act.seen.control[act.pick.choice]

\* No run goes round on a page that keeps changing: of three reads one brings a decision,
\* and those are limited.
ReadsLeadOn == act.reads <= 2

AutopilotKept == CommitsAsked /\ InputOnce /\ ActsOnWhatItSaw /\ ReadsLeadOn

\* While the user has a window "the agent can't act in it" (state.ts:79-80).  It can: the
\* window is looked up when act starts, and a run under way never looks again
\* (autopilot.ts, run: core.windowFor; lock asks only for the site).
NotInTheirs == [][theirs => act'.inputs <= act.inputs]_autopilotVars

\* "A run that did something is judged by what the agent does next" (autopilot.ts, done).
\* Not one that only committed: its step isn't logged as an action, and its picks count as
\* verified there and then.
CommitsAreJudged ==
    [][act.stop # "committed" /\ act'.stop = "committed" => outcomes' = outcomes]_autopilotVars
=============================================================================
