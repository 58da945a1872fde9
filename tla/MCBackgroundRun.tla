--------------------------- MODULE MCBackgroundRun ---------------------------
(***************************************************************************)
(* The agents for TLC's safety runs: a background run with its workers,    *)
(* the contexts the models are sent, what a turn sends the user, and the   *)
(* windows handed to the user.  They share no variable, so one run         *)
(* explores them side by side: `focus` says which moves.                   *)
(* The run's slots do the same things and no property names one, so        *)
(* states that differ by a renaming of the slots are explored once.        *)
(***************************************************************************)
EXTENDS BackgroundRun, Contexts, Replies, Handoffs, TLC

VARIABLE focus

agentsVars == <<focus, vars, contextsVars, repliesVars, handVars>>

SlotSymmetry == Permutations(Slots)

AgentsInit ==
    /\ focus \in {"run", "window", "log", "replies", "handoffs"}
    /\ Init /\ ContextsInit /\ RepliesInit /\ HandoffsInit

\* What stays is said before what moves: TLC then says it once per state.
AgentsNext ==
    /\ UNCHANGED focus
    /\ \/ focus = "run" /\ UNCHANGED <<contextsVars, repliesVars, handVars>> /\ Next
       \/ focus = "window" /\ UNCHANGED <<vars, repliesVars, handVars>> /\ FrontNext
       \/ focus = "log" /\ UNCHANGED <<vars, repliesVars, handVars>> /\ TaskLogNext
       \/ focus = "replies" /\ UNCHANGED <<vars, contextsVars, handVars>> /\ RepliesNext
       \/ focus = "handoffs" /\ UNCHANGED <<vars, contextsVars, repliesVars>> /\ HandoffsNext

\* For TLC: a state is told apart by the variables that move.
AgentsView ==
    <<focus, CASE focus = "run" -> <<vars>>
               [] focus = "replies" -> <<repliesVars>>
               [] focus = "handoffs" -> <<handVars>>
               [] OTHER -> <<contextsVars>> >>

AgentsSpec == AgentsInit /\ [][AgentsNext]_agentsVars

\* A run takes no step past its cap; what is sent to a model stays whole and goes on from
\* what its cache holds; what is sent to the user is told as it is; and a window
\* handed to the user comes back.
AgentsKept ==
    /\ focus = "run" => StepsCapped
    /\ focus \in {"window", "log"} => ContextsTypeOK /\ ContextsKept
    /\ focus = "replies" => RepliesTypeOK /\ RepliesKept
    /\ focus = "handoffs" => HandoffsTypeOK /\ HandoffsKept
=============================================================================
