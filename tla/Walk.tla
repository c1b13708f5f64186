-------------------------------- MODULE Walk --------------------------------
(***************************************************************************)
(* The walkers dfs and bfs (include/entttree/traverse.h) over the children *)
(* generators of HierarchySystem, with the adaptors that filter and turn   *)
(* around the successors, and a client that removes entities from the tree *)
(* between two values.                                                     *)
(*                                                                         *)
(* A walk is a coroutine (include/entttree/generator.h): it runs up to its *)
(* first value when it is made and from one value to the next each time    *)
(* the client asks; nobody else acts while it runs.                        *)
(***************************************************************************)
EXTENDS Integers, SequencesExt

CONSTANTS
    Node,
    Root,
    None,           \* no node: an exhausted generator has no item
    Trees,          \* the children of each node in order, before the walk
    Filters,        \* what exclude_if admits and prune_if explores, and the node
                    \* on which the filter of exclude_if throws, or None
    RemoveUnseen    \* clients remove nodes that the walk has not given yet

Visits == {"ShallowFirst", "DeepFirst", "Breadth"}

\* "Reversed" is reverse_successors on top of the forward order.
Siblings == {"Forward", "Backward", "Reversed"}

ASSUME NodeAssumption == Root \in Node /\ None \notin Node /\ IsFiniteSet(Node)

\* Nobody is listed twice or above a root, and there are no cycles: every set of
\* nodes has one without a child in it.
ASSUME TreesAssumption ==
    \A t \in Trees :
        /\ t \in [Node -> Seq(Node)]
        /\ \A S \in SUBSET Node : S # {} => \E n \in S : Range(t[n]) \cap S = {}
        /\ \A p \in Node : IsInjective(t[p]) /\ Root \notin Range(t[p])
        /\ \A p, q \in Node : p # q => Range(t[p]) \cap Range(t[q]) = {}
ASSUME FiltersAssumption ==
    Filters \subseteq [admit : SUBSET Node, explore : SUBSET Node,
                       throw : (Node \ {Root}) \cup {None}]
ASSUME RemoveUnseenAssumption == RemoveUnseen \in BOOLEAN

VARIABLES
    tree,           \* the children of each node when the walk began
    children,       \* _children: as they are now
    walk,           \* the walker, the order of siblings and the filters
    stack,          \* of dfs: the nodes it is below, with their successors
    queue,          \* of bfs: the nodes it has found and not given yet
    yielded,        \* the nodes the client was given
    mode            \* of the coroutine: "new", "running", "given" or "over"

vars == <<tree, children, walk, stack, queue, yielded, mode>>

-----------------------------------------------------------------------------
(* Generators of successors *)

\* A generator has the slots it will still read and the item it read last.
\* Over a child list a slot is an index: begin and end are those of the list
\* when the generator was made, and who removes an entry moves the later ones
\* down.  Over a buffer a slot is the buffered node itself.
Generator == [of : Node, slots : Seq(Node \cup Nat), item : Node \cup {None}]

\* What a generator may find in a slot; behind the end of a list that has
\* shrunk, anything.
Reads(n, slot) ==
    IF walk.siblings = "Reversed" THEN {slot}
    ELSE IF slot \in DOMAIN children[n] THEN {children[n][slot]}
    ELSE Node

AlwaysForward(s) == s                                           \* mutant

InOrder(s) == IF walk.siblings = "Forward" THEN s ELSE Reverse(s)

\* children, or reverse_successors: the slots of a generator over a list or a
\* buffer.
ChildSlots(n) ==
    InOrder(IF walk.siblings = "Reversed" THEN children[n]
                                          ELSE [i \in DOMAIN children[n] |-> i])

AllButLast(n) ==                                                \* mutant
    IF n \in walk.explore /\ children[n] # <<>> THEN Front(ChildSlots(n)) ELSE <<>>

\* The same below prune_if.
Slots(n) == IF n \in walk.explore THEN ChildSlots(n) ELSE <<>>

\* The filter throws on n.  The coroutine of exclude_if ends; nobody is told.
Throws(n) == n = walk.throw

\* What exclude_if leaves of the successors s: the admitted ones before any on
\* which the filter throws.
Admitted(s) ==
    FlattenSeq([i \in DOMAIN s |->
        IF s[i] \in walk.admit /\ \A j \in 1 .. i : ~Throws(s[j]) THEN <<s[i]>> ELSE <<>>])

\* ++ of a generator below exclude_if: it reads on to an item that is admitted,
\* to one on which the filter throws, or to the end.
Advanced(g) ==
    LET found(k) == Reads(g.of, g.slots[k])
        skips(n) == \A j \in 1 .. n :
                       \E x \in found(j) : x \notin walk.admit /\ ~Throws(x)
        stops == {k \in DOMAIN g.slots : skips(k - 1)}
        after(k, x) == [g EXCEPT !.slots = SubSeq(@, k + 1, Len(@)), !.item = x]
        ends == skips(Len(g.slots)) \/ \E k \in stops : \E x \in found(k) : Throws(x)
    IN  (UNION {{after(k, x) : x \in {y \in found(k) \cap walk.admit : ~Throws(y)}} :
                   k \in stops})
        \cup (IF ends THEN {after(Len(g.slots), None)} ELSE {})

\* A new generator has its first item already.
Successors(n) == Advanced([of |-> n, slots |-> Slots(n), item |-> None])

NeverDone(g) == TRUE                                            \* mutant

HasItem(g) == g.item # None

-----------------------------------------------------------------------------
(* Walks *)

Init ==
    /\ tree \in Trees
    /\ children = tree
    /\ \E v \in Visits, s \in Siblings, f \in Filters :
          walk = [visit |-> v, siblings |-> s,
                  admit |-> f.admit, explore |-> f.explore, throw |-> f.throw]
    /\ stack = <<>>
    /\ queue = <<>>
    /\ yielded = <<>>
    /\ mode = "new"

\* co_yield
Yield(n) ==
    /\ yielded' = Append(yielded, n)
    /\ mode' = "given"

\* dfs goes below n, which a walk with the parents first gives at once.
Enter(below, n) ==
    /\ \E g \in Successors(n) : stack' = Append(below, [node |-> n, successors |-> g])
    /\ IF walk.visit = "ShallowFirst"
       THEN Yield(n)
       ELSE mode' = "running" /\ UNCHANGED yielded
    /\ UNCHANGED queue

\* The walk is made.  Without a root, or with one that is not admitted, it is
\* over at once.
Begin ==
    /\ mode = "new"
    /\ IF Root \notin walk.admit
       THEN mode' = "over" /\ UNCHANGED <<stack, queue, yielded>>
       ELSE IF walk.visit = "Breadth"
       THEN queue' = <<Root>> /\ mode' = "running" /\ UNCHANGED <<stack, yielded>>
       ELSE Enter(<<>>, Root)
    /\ UNCHANGED <<tree, children, walk>>

\* dfs has a child to go to; the generator is advanced before the child is
\* looked into.
Descend ==
    /\ mode = "running"
    /\ stack # <<>>
    /\ HasItem(Last(stack).successors)
    /\ \E g \in Advanced(Last(stack).successors) :
          Enter(Append(Front(stack), [Last(stack) EXCEPT !.successors = g]),
                Last(stack).successors.item)
    /\ UNCHANGED <<tree, children, walk>>

NotPopped(s) == s                                               \* mutant

Popped(s) == Front(s)

\* dfs has no child left, and gives the node now if children come first.  (It
\* drops the entry when it is resumed; nobody looks at it before.)
Ascend ==
    /\ mode = "running"
    /\ stack # <<>>
    /\ ~HasItem(Last(stack).successors)
    /\ stack' = Popped(stack)
    /\ IF walk.visit = "DeepFirst"
       THEN Yield(Last(stack).node)
       ELSE UNCHANGED <<yielded, mode>>
    /\ UNCHANGED <<tree, children, walk, queue>>

QueuedFirst(q, s) == s \o q                                     \* mutant

Queued(q, s) == q \o s

\* bfs takes the first node of the queue, queues all its successors, and gives
\* it.
Serve ==
    /\ mode = "running"
    /\ queue # <<>>
    /\ LET n == Head(queue)
           found == IF n \in walk.explore THEN Admitted(InOrder(children[n])) ELSE <<>>
       IN  queue' = Queued(Tail(queue), found) /\ Yield(n)
    /\ UNCHANGED <<tree, children, walk, stack>>

\* co_return
End ==
    /\ mode = "running"
    /\ stack = <<>> /\ queue = <<>>
    /\ mode' = "over"
    /\ UNCHANGED <<tree, children, walk, stack, queue, yielded>>

Run == Begin \/ Descend \/ Ascend \/ Serve \/ End

\* The client asks for the next value.
Resume ==
    /\ mode = "given"
    /\ mode' = "running"
    /\ UNCHANGED <<tree, children, walk, stack, queue, yielded>>

\* Between two values the client takes the i-th child from its parent p, which
\* the doc of children() allows in backward order; bfs and reverse_successors,
\* which have read all successors of a node before they give one, bear it in any.
Unparent(p, i) ==
    /\ mode = "given"
    /\ walk.siblings # "Forward" \/ walk.visit = "Breadth"
    /\ RemoveUnseen \/ children[p][i] \in Range(yielded)
    /\ children' = [children EXCEPT ![p] = RemoveAt(@, i)]
    /\ UNCHANGED <<tree, walk, stack, queue, yielded, mode>>

Next == Run \/ Resume \/ \E p \in Node : \E i \in DOMAIN children[p] : Unparent(p, i)

\* A coroutine that runs goes on; the client may stop asking.
Spec == Init /\ [][Next]_vars /\ WF_vars(Run)

-----------------------------------------------------------------------------
(* What a walk should give *)

\* The successors of a node in the tree the walk began with.
Born(n) == IF n \in walk.explore THEN Admitted(InOrder(tree[n])) ELSE <<>>

\* Each node with all below it.
PreOrder ==
    LET below[n \in Node] ==
            <<n>> \o FlattenSeq([i \in DOMAIN Born(n) |-> below[Born(n)[i]]])
    IN  below

PostOrder ==
    LET below[n \in Node] ==
            FlattenSeq([i \in DOMAIN Born(n) |-> below[Born(n)[i]]]) \o <<n>>
    IN  below

\* Level by level, within a level from one side to the other.  (There are no
\* more levels than nodes.)
LevelOrder ==
    LET level[k \in Nat] ==
            IF k = 0 THEN <<Root>>
            ELSE FlattenSeq([i \in DOMAIN level[k - 1] |-> Born(level[k - 1][i])])
    IN  FlattenSeq([k \in 1 .. Cardinality(Node) |-> level[k - 1]])

Expected ==
    IF Root \notin walk.admit THEN <<>>
    ELSE CASE walk.visit = "ShallowFirst" -> PreOrder[Root]
           [] walk.visit = "DeepFirst"    -> PostOrder[Root]
           [] walk.visit = "Breadth"      -> LevelOrder

-----------------------------------------------------------------------------
(* Properties *)

\* The entries of the stack are nodes with generators over their children.
TypeOK ==
    /\ tree \in Trees
    /\ children \in [Node -> Seq(Node)]
    /\ walk \in [visit : Visits, siblings : Siblings,
                 admit : SUBSET Node, explore : SUBSET Node,
                 throw : Node \cup {None}]
    /\ stack \in Seq([node : Node, successors : Generator])
    /\ queue \in Seq(Node)
    /\ yielded \in Seq(Node)
    /\ mode \in {"new", "running", "given", "over"}

\* The client is given the nodes in the order the walk is named for, although
\* generators have read ahead and entries are removed behind them:
\* traverse.h:388-453.
YieldsInOrder == IsPrefix(yielded, Expected)

\* When the walk is over the client has been given every node there was, less
\* what the filters cut off: an exception costs exactly the siblings after it
\* with all below them, silently, and the rest of the walk goes on.
MissesNothing == mode = "over" => yielded = Expected

\* What a generator will still read is where it was when the generator was
\* made: removals do not move entries into the path of its iterators, nor end
\* the list before them.
SlotsHold ==
    walk.siblings # "Reversed" =>
        \A i \in DOMAIN stack :
            LET g == stack[i].successors
            IN  \A k \in DOMAIN g.slots :
                   /\ g.slots[k] \in DOMAIN children[g.of]
                   /\ children[g.of][g.slots[k]] = tree[g.of][g.slots[k]]

\* A client that always asks again comes to the end of the walk.
WalksEnd == []<>(mode # "given") => <>(mode = "over")

\* "It is valid to remove (but not add) children during iteration when the
\* sibling order is backward" (hierarchy.h:347): so no node is given twice.
GivesNoneTwice == IsInjective(yielded)

=============================================================================
