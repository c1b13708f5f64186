----------------------------- MODULE MCReentry ------------------------------
(***************************************************************************)
(* Reentry on a line: two points, and the transform that swaps them.       *)
(***************************************************************************)
EXTENDS Reentry, TLC

MCPoint == {0, 1}

MCBox == {{0}}

Flip == "flip"
MCXf == {Flip}
MCApply(x, q) == 1 - q

\* Between the two points there are no others.
MCHull(S) == S

Renaming == Permutations(Entity)

=============================================================================
