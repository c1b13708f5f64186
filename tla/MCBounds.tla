------------------------------ MODULE MCBounds ------------------------------
(***************************************************************************)
(* Bounds on the four corners of a square: the smallest plane in which the *)
(* hull of two points can be more than the two, and in which a quarter     *)
(* turn moves every point.                                                 *)
(***************************************************************************)
EXTENDS Bounds, TLC

MCPoint == {0, 1} \X {0, 1}

MCBox == {{<<0, 0>>}}

QuarterTurn == "quarter turn"
MCXf == {QuarterTurn}
MCApply(x, q) == <<1 - q[2], q[1]>>

\* The smallest box around the points of S.
MCHull(S) == {q[1] : q \in S} \X {q[2] : q \in S}

Renaming == Permutations(Entity)

=============================================================================
