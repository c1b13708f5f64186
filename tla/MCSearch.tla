------------------------------ MODULE MCSearch ------------------------------
(***************************************************************************)
(* Search in the plane of MCBounds, over all trees of N nodes.  Numbered   *)
(* from the root, every shape of a tree has parents with smaller numbers.  *)
(***************************************************************************)
EXTENDS Search

CONSTANT N

MCEntity == 1 .. N

MCForests ==
    {f \in [1 .. N -> 0 .. N] : f[1] = 0 /\ \A i \in 2 .. N : f[i] \in 1 .. i - 1}

MCPoint == {0, 1} \X {0, 1}

MCBox == {{<<0, 0>>}}

QuarterTurn == "quarter turn"
MCXf == {QuarterTurn}
MCApply(x, q) == <<1 - q[2], q[1]>>

\* The smallest box around the points of S.
MCHull(S) == {q[1] : q \in S} \X {q[2] : q \in S}

\* The four corners, and a side.
MCSought ==
    {[kind |-> "point", at |-> {q}] : q \in MCPoint}
    \cup {[kind |-> "ray", at |-> {<<0, 0>>, <<1, 0>>}]}

=============================================================================
