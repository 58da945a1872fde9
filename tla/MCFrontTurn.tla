----------------------------- MODULE MCFrontTurn -----------------------------
(***************************************************************************)
(* FrontTurn for TLC's safety run.  The slots do the same things and       *)
(* no property names one, so states that differ by a renaming of the slots *)
(* are explored once.                                                      *)
(***************************************************************************)
EXTENDS FrontTurn, TLC

SlotSymmetry == Permutations(Slots)
=============================================================================
