---------------------------- MODULE MCTransforms ----------------------------
(***************************************************************************)
(* Transforms with the symmetries of a square, as the permutations of its  *)
(* corners: the smallest group of motions of the plane that does not       *)
(* commute and has elements that are not their own inverses.               *)
(***************************************************************************)
EXTENDS Transforms, TLC

MCPoint == 0 .. 3

QuarterTurn == [q \in MCPoint |-> (q + 1) % 4]
Flip == [q \in MCPoint |-> 3 - q]

MCMotion ==
    {[q \in MCPoint |-> ((IF turned THEN 3 - q ELSE q) + n) % 4] :
        turned \in BOOLEAN, n \in MCPoint}
MCXf == {QuarterTurn, Flip}
MCIdentity == [q \in MCPoint |-> q]
MCTimes(x, y) == [q \in MCPoint |-> x[y[q]]]
MCUndo(x) == [q \in MCPoint |-> CHOOSE r \in MCPoint : x[r] = q]

Renaming == Permutations(Entity)

=============================================================================
