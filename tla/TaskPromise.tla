----------------------------- MODULE TaskPromise -----------------------------
(***************************************************************************)
(* What a delegated task promises the front of house                       *)
(* (packages/db/src/tasks.ts): it is under way or paused for the user, any *)
(* number of times, until it ends; when it ends, and only then, exactly    *)
(* one report says how, and neither the ending nor the report ever changes.*)
(***************************************************************************)
CONSTANT Endings     \* the ways a task can end

VARIABLES
    phase,     \* "open", "paused" or "over"
    ending,    \* the way it ended, or "none"
    told       \* what its report says, or "none"

vars == <<phase, ending, told>>

Init == phase = "open" /\ ending = "none" /\ told = "none"

Pause == phase = "open" /\ phase' = "paused" /\ UNCHANGED <<ending, told>>

Continue == phase = "paused" /\ phase' = "open" /\ UNCHANGED <<ending, told>>

End ==
    /\ phase # "over"
    /\ phase' = "over"
    /\ ending' \in Endings
    /\ told' = ending'

Next == Pause \/ Continue \/ End

Spec == Init /\ [][Next]_vars
=============================================================================
