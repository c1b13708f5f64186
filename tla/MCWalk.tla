------------------------------- MODULE MCWalk -------------------------------
(***************************************************************************)
(* Walk over all ordered trees of five nodes.                              *)
(***************************************************************************)
EXTENDS Walk

CONSTANT N

MCNode == 1 .. N

\* Numbered level by level, every shape of an ordered tree has parents with
\* smaller numbers and siblings in the order of theirs.
MCTrees ==
    LET up == {f \in [2 .. N -> 1 .. N] : \A i \in 2 .. N : f[i] < i}
    IN  {[p \in 1 .. N |-> SelectSeq([i \in 1 .. N |-> i],
                                    LAMBDA c : c > 1 /\ f[c] = p)] : f \in up}

\* One filter at a time, on one node.
MCFilters ==
    LET all == [admit |-> MCNode, explore |-> MCNode, throw |-> None]
    IN  {all}
        \cup {[all EXCEPT !.admit = @ \ {n}] : n \in MCNode}
        \cup {[all EXCEPT !.explore = @ \ {n}] : n \in MCNode}
        \cup {[all EXCEPT !.throw = n] : n \in MCNode \ {Root}}

=============================================================================
