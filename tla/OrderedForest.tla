--------------------------- MODULE OrderedForest ---------------------------
(***************************************************************************)
(* What the hierarchy promises its user: a forest whose siblings have an   *)
(* order.  A call takes at most one node, with all that hangs below it,    *)
(* and puts it at one place of the forest; every other node keeps its      *)
(* parent and its place among its siblings.                                *)
(***************************************************************************)
EXTENDS Integers, SequencesExt

CONSTANT Entity

VARIABLE kids       \* the children of each entity, in sibling order

Init == kids = [e \in Entity |-> <<>>]

Above(c) == {p \in Entity : Contains(kids[p], c)}

\* p climbs to its root without meeting c: c may hang below p.
Clear(c, p) ==
    \E S \in SUBSET (Entity \ {c}) :
        /\ p \in S
        /\ \A q \in Entity \ S : Range(kids[q]) \cap S = {}

Others(c) == [p \in Entity |-> RemoveFirst(kids[p], c)]

Detach(c) == Above(c)' = {}

\* c ends up once, at some place among the children of p.
Put(c, p) ==
    /\ Above(c)' = {p}
    /\ Len(kids'[p]) = Len(Others(c)[p]) + 1
    /\ Clear(c, p)

\* All but c stand where they stood.
Next ==
    \E c \in Entity :
        /\ Others(c)' = Others(c)
        /\ Detach(c) \/ \E p \in Above(c)' : Put(c, p)

Spec == Init /\ [][Next]_kids

=============================================================================
