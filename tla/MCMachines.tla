----------------------------- MODULE MCMachines -----------------------------
(***************************************************************************)
(* A user's computer, for TLC: how it is set up, rolled out and given up;  *)
(* its link to the gateways; the commands, files and updates sent to it;   *)
(* its browser's windows and the pages that watch them; a page and the     *)
(* commands on it; act, which drives it; the winston command.  They share  *)
(* no variable (except the views, which watch the windows), so one run     *)
(* explores them side by side: `focus` says which of them moves, the       *)
(* others stay as they began.                                              *)
(***************************************************************************)
EXTENDS Computer, Execs, LiveViews, Transfers, Updates, Autopilot, Tabs,
        VmLink, Cli

VARIABLE focus

machinesVars ==
    <<focus, vmVars, execVars, browserVars, transferVars, updateVars, autopilotVars, tabVars, linkVars, cliVars>>

\* The views are explored with a window of the front's and one of a task's open.
TwoWindows ==
    /\ windows = [w \in WindowIds |->
                      IF w \in 1 .. 2 THEN [NoEntry EXCEPT !.open = TRUE, !.owner = IF w = 1 THEN "front" ELSE "task"]
                      ELSE NoEntry]
    /\ opened = 2
    /\ current = [o \in Owners |-> IF o = "front" THEN 1 ELSE 2]
    /\ locks = [s \in WebSites |-> NoLock]
    /\ commands = [o \in Owners |-> NoCommand]
    /\ closing = [c \in Cleaners |-> NotClosing]
    /\ ended = {}

MachinesInit ==
    /\ focus \in {"computer", "overlap", "execs", "windows", "views", "transfers", "updates", "act", "page",
                  "link", "cli"}
    /\ ComputerInit /\ ExecsInit /\ ViewsInit /\ TransfersInit /\ UpdatesInit /\ AutopilotInit /\ TabsInit
    /\ LinkInit /\ CliInit
    /\ focus # "page" => attached = <<>>
    /\ focus # "cli" => downloads = [n \in 1 .. MaxNames |-> NoFile]
    /\ focus # "act" => jevSite.overridden = 0
    /\ IF focus = "views" THEN TwoWindows ELSE WindowsInit

First(S) == CHOOSE x \in S : TRUE

\* Two VM jobs of a user at work at once is rare (a lease that ran out, or a sweep), and
\* is explored without crashes; one job at a time, in one slot.
OneVmJob == ComputerNext /\ \A w \in VmSlots \ {First(VmSlots)} : vmJob'[w] = NoVmJob
TwoVmJobs ==
    /\ \/ \E w \in VmSlots : VmJobStep(w)
       \/ RetryFailedVm \/ SweepRollouts \/ Operator \/ PublishImage \/ GatewayStep
    /\ vmFaults' = vmFaults

\* Gateways do the same things, and so do invocations: of the behaviours that differ only by
\* which of them came first, one is enough.
FirstLink == links'[1].gateway \in {"none", First(LinkGateways)}
FirstInvocation ==
    invoked'[First(Invocations)].pc = "none" => \A i \in Invocations : invoked'[i].pc = "none"

\* Two commands side by side are told some of the codes; one alone, each of them.
FewCodes ==
    (\A i \in Invocations : invoked[i].pc # "none") =>
        \A i \in Invocations : request'[i].answer \in {"ok", "invalid_request", "not_found", "unavailable"}

\* What stays is said before what moves: TLC then says it once per state.
MachinesNext ==
    /\ UNCHANGED focus
    /\ \/ /\ focus = "computer"
          /\ UNCHANGED <<execVars, browserVars, transferVars, updateVars, autopilotVars, tabVars, linkVars,
                         cliVars>>
          /\ OneVmJob
       \/ /\ focus = "overlap"
          /\ UNCHANGED <<execVars, browserVars, transferVars, updateVars, autopilotVars, tabVars, linkVars,
                         cliVars>>
          /\ TwoVmJobs
       \/ /\ focus = "execs"
          /\ UNCHANGED <<vmVars, browserVars, transferVars, updateVars, autopilotVars, tabVars, linkVars,
                         cliVars>>
          /\ ExecsNext
       \/ /\ focus = "windows"
          /\ UNCHANGED <<vmVars, execVars, viewVars, transferVars, updateVars, autopilotVars, tabVars,
                         linkVars, cliVars>>
          /\ WindowsNext
       \/ /\ focus = "views"
          /\ UNCHANGED <<vmVars, execVars, transferVars, updateVars, autopilotVars, tabVars, linkVars,
                         cliVars>>
          /\ \/ ViewsNext
             \/ (\E w \in WindowIds : TargetDestroyed(w)) /\ UNCHANGED viewVars
       \/ /\ focus = "transfers"
          /\ UNCHANGED <<vmVars, execVars, browserVars, updateVars, autopilotVars, tabVars, linkVars,
                         cliVars>>
          /\ TransfersNext
       \/ /\ focus = "updates"
          /\ UNCHANGED <<vmVars, execVars, browserVars, transferVars, autopilotVars, tabVars, linkVars,
                         cliVars>>
          /\ UpdatesNext
       \/ /\ focus = "act"
          /\ UNCHANGED <<vmVars, execVars, browserVars, transferVars, updateVars, tabVars, linkVars, cliVars>>
          /\ AutopilotNext
          \* What a run does in a window that is the user's is another question.
          /\ theirs' # theirs => act.pc = "over"
       \/ /\ focus = "page"
          /\ UNCHANGED <<vmVars, execVars, browserVars, transferVars, updateVars, autopilotVars, linkVars,
                         cliVars>>
          /\ TabsNext
       \/ /\ focus = "link"
          /\ UNCHANGED <<vmVars, execVars, browserVars, transferVars, updateVars, autopilotVars, tabVars,
                         cliVars>>
          /\ LinkNext /\ FirstLink
       \/ /\ focus = "cli"
          /\ UNCHANGED <<vmVars, execVars, browserVars, transferVars, updateVars, autopilotVars, tabVars,
                         linkVars>>
          /\ CliNext /\ FewCodes /\ FirstInvocation

\* For TLC: a state is told apart by the variables that move.
MachinesView ==
    <<focus, CASE focus \in {"computer", "overlap"} -> <<vmVars>>
               [] focus = "execs" -> <<execVars>>
               [] focus \in {"windows", "views"} -> <<browserVars>>
               [] focus = "transfers" -> <<transferVars>>
               [] focus = "updates" -> <<updateVars>>
               [] focus = "act" -> <<autopilotVars>>
               [] focus = "page" -> <<tabVars>>
               [] focus = "link" -> <<linkVars>>
               [] focus = "cli" -> <<cliVars>> >>

MachinesSpec == MachinesInit /\ [][MachinesNext]_machinesVars

\* The variables of the component that moves keep their types.
MachinesTypeOK ==
    CASE focus \in {"computer", "overlap"} -> ComputerTypeOK
      [] focus = "execs" -> ExecsTypeOK
      [] focus \in {"windows", "views"} -> WindowsTypeOK /\ ViewsTypeOK
      [] focus = "transfers" -> TransfersTypeOK
      [] focus = "updates" -> UpdatesTypeOK
      [] focus = "act" -> AutopilotTypeOK
      [] focus = "page" -> TabsTypeOK
      [] focus = "link" -> LinkTypeOK
      [] focus = "cli" -> CliTypeOK

\* The commands sent to the computer, the calls its CLI makes, and the CLI itself.
CommandsKept ==
    /\ focus = "execs" => ExecsTellTheTruth
    /\ focus = "link" => LinkKept
    /\ focus = "cli" => CliKept

\* The browser: what its windows, locks and the pages that watch them promise,
\* and what its commands tell of a page.
BrowserKept ==
    /\ focus \in {"windows", "views"} => WindowsKept /\ ViewsKept
    /\ focus = "page" => TabsKept
=============================================================================
