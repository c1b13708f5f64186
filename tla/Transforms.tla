----------------------------- MODULE Transforms -----------------------------
(***************************************************************************)
(* TransformSystem (include/entttree/transform_hierarchy.h), and the       *)
(* queries along paths of HierarchySystem (include/entttree/hierarchy.h)   *)
(* that it is built like: each of them climbs the parents in a loop of its *)
(* own, with its own idea of where the root is and of what comes first.    *)
(*                                                                         *)
(* Of the hierarchy only the parents are here.  Transforms are a parameter:*)
(* a group that need not commute, of maps on the points.                   *)
(***************************************************************************)
EXTENDS Integers, SequencesExt

CONSTANTS
    Entity,
    Null,           \* entt::null
    Motion,         \* transforms
    Xf,             \* those a client sets
    NoXf,           \* no LocalTransform component
    Identity,       \* AffineTransform()
    Times(_, _),    \* x * y, and x *= y: y first, then x
    Undo(_)

ASSUME EntityAssumption == Null \notin Entity
ASSUME XfAssumption == Xf \subseteq Motion /\ NoXf \notin Motion

\* That transforms are maps, which can be undone.
ASSUME GroupAssumption ==
    /\ Identity \in Motion
    /\ \A x, y \in Motion : Times(x, y) \in Motion
    /\ \A x, y, z \in Motion : Times(Times(x, y), z) = Times(x, Times(y, z))
    /\ \A x \in Motion :
          /\ Times(Identity, x) = x /\ Times(x, Identity) = x
          /\ Undo(x) \in Motion
          /\ Times(Undo(x), x) = Identity /\ Times(x, Undo(x)) = Identity

VARIABLES
    parent,         \* the hierarchy, as parent_of tells it
    xf              \* the LocalTransform of each entity

vars == <<parent, xf>>

-----------------------------------------------------------------------------
(* Queries of the hierarchy *)

\* path: from the root down to e.
Path(e) ==
    LET path[x \in Entity] ==
            IF parent[x] = Null THEN <<x>> ELSE Append(path[parent[x]], x)
    IN  path[e]

\* ancestors: e and then one parent after the other, each with its parent; an
\* entity without a ParentConnection is not given.
Ancestors(e) ==
    LET above[x \in Entity \cup {Null}] ==
            IF x = Null \/ parent[x] = Null THEN <<>>
            ELSE <<[node |-> x, parent |-> parent[x]]>> \o above[parent[x]]
    IN  above[e]

OrItself(a, d) ==                                               \* mutant
    LET below[x \in Entity] ==
            x = a \/ (parent[x] # Null /\ below[parent[x]])
    IN  below[d]

\* is_ancestor_of
IsAncestorOf(a, d) ==
    LET below[x \in Entity] ==
            parent[x] # Null /\ (parent[x] = a \/ below[parent[x]])
    IN  below[d]

StopsEarly(p, q) ==                                             \* mutant
    Cardinality({i \in DOMAIN p \cap DOMAIN q :
                    i < Len(q) /\ \A j \in 1 .. i : p[j] = q[j]})

\* How many nodes two paths share from the root on.
Shared(p, q) ==
    Cardinality({i \in DOMAIN p \cap DOMAIN q : \A j \in 1 .. i : p[j] = q[j]})

\* deepest_common_ancestor
DeepestCommonAncestor(a, b) ==
    LET n == Shared(Path(a), Path(b))
    IN  IF n = 0 THEN Null ELSE Path(a)[n]

-----------------------------------------------------------------------------
(* Transforms along paths *)

\* The transform of e to its parent; without a component there is nothing to
\* multiply by.
Local(e) == IF xf[e] = NoXf THEN Identity ELSE xf[e]

\* object_to_world multiplies by every transform it climbs past, from the left.
ObjectToWorld(e) ==
    LET climb == Reverse(Path(e))
        upTo[i \in 0 .. Len(climb)] ==
            IF i = 0 THEN Identity ELSE Times(Local(climb[i]), upTo[i - 1])
    IN  upTo[Len(climb)]

LeafFirst(s) == FoldLeft(LAMBDA w, x : Times(Local(x), w), Identity, s) \* mutant

\* The loops of xf_between over what is left of a path, from the right.
Chain(s) ==
    LET upTo[i \in 0 .. Len(s)] ==
            IF i = 0 THEN Identity ELSE Times(upTo[i - 1], Local(s[i]))
    IN  upTo[Len(s)]

Beneath(p, n) == SubSeq(p, n + 1, Len(p))

\* x / y, as p / node_to_root: undo y after x.
Over(x, y) == Times(Undo(y), x)

\* xf_between: up from one node to the deepest common ancestor, down to the
\* other.
XfBetween(from, to) ==
    LET p0 == Path(from)
        p1 == Path(to)
        n == Shared(p0, p1)
    IN  Over(Chain(Beneath(p0, n)), Chain(Beneath(p1, n)))

AtRoot(r) == Local(r)                                           \* mutant

\* The root of a traversal, whose own transform leads out of it.
AtTraversalRoot(r) == Identity

\* node_to_root of augment_with_transforms, for a node e below the root r of a
\* traversal.
NodeToRoot(r, e) ==
    LET down[x \in {x \in Entity : x = r \/ IsAncestorOf(r, x)}] ==
            IF x = r THEN AtTraversalRoot(r) ELSE Times(down[parent[x]], Local(x))
    IN  down[e]

-----------------------------------------------------------------------------
(* Operations *)

Init ==
    /\ parent = [e \in Entity |-> Null]
    /\ xf = [e \in Entity |-> NoXf]

\* set_transform
SetTransform(e, x) ==
    /\ xf' = [xf EXCEPT ![e] = x]
    /\ UNCHANGED parent

ResetTransform(e) ==                                            \* mutant
    /\ xf[e] # NoXf
    /\ xf' = [xf EXCEPT ![e] = Identity]
    /\ UNCHANGED parent

\* remove_transform
RemoveTransform(e) ==
    /\ xf[e] # NoXf
    /\ xf' = [xf EXCEPT ![e] = NoXf]
    /\ UNCHANGED parent

\* HierarchySystem::set_parent, by a client that makes no cycles.
SetParent(c, p) ==
    /\ c # p /\ ~IsAncestorOf(c, p)
    /\ parent' = [parent EXCEPT ![c] = p]
    /\ UNCHANGED xf

\* HierarchySystem::unparent
Unparent(c) ==
    /\ parent[c] # Null
    /\ parent' = [parent EXCEPT ![c] = Null]
    /\ UNCHANGED xf

Next ==
    \E e \in Entity :
        \/ \E x \in Xf : SetTransform(e, x)
        \/ RemoveTransform(e)
        \/ \E p \in Entity : SetParent(e, p)
        \/ Unparent(e)

Spec == Init /\ [][Next]_vars

-----------------------------------------------------------------------------
(* Reference definitions *)

\* e and everything above it: the least set that holds e and is closed under
\* taking parents.
AtOrAbove(e) ==
    {a \in Entity :
        \A S \in SUBSET Entity :
            e \in S /\ (\A s \in S : parent[s] \in S \cup {Null}) => a \in S}

-----------------------------------------------------------------------------
(* Properties *)

TypeOK ==
    /\ parent \in [Entity -> Entity \cup {Null}]
    /\ xf \in [Entity -> Xf \cup {NoXf}]

\* path, ancestors and is_ancestor_of see the same nodes in the same order: path
\* all that are at or above e, from the root down; ancestors climbs the same
\* way and omits nobody who has a parent; is_ancestor_of says so of all but e.
\* Whether ancestors also gives the root, with a null parent, is left open: the
\* doc says that it does (hierarchy.h:374-377), the code does not (383).
QueriesAgree ==
    \A e \in Entity :
        LET path == Path(e)
            climb == Ancestors(e)
            up(i) == path[Len(path) + 1 - i]
        IN  /\ Range(path) = AtOrAbove(e)
            /\ \A i \in 2 .. Len(path) : parent[path[i]] = path[i - 1]
            /\ \A i \in DOMAIN climb :
                  climb[i].node = up(i) /\ climb[i].parent = parent[up(i)]
            /\ \A i \in DOMAIN path : parent[up(i)] # Null => i \in DOMAIN climb
            /\ \A a \in Entity : IsAncestorOf(a, e) <=> a \in Range(Front(path))

\* deepest_common_ancestor is a common ancestor, all common ancestors are its
\* own, and there is none only between different trees: hierarchy.h:442-446.
PathsMeet ==
    \A a, b \in Entity :
        LET common == AtOrAbove(a) \cap AtOrAbove(b)
            meet == DeepestCommonAncestor(a, b)
        IN  IF common = {} THEN meet = Null
            ELSE meet \in common /\ common \subseteq AtOrAbove(meet)

\* xf_between stops climbing at the common ancestor and turns one of the two
\* chains around; it leads where the way over the world would, whatever hangs
\* between the two nodes: transform_hierarchy.h:113-147.
XfBetweenIsExact ==
    \A a, b \in Entity :
        Times(ObjectToWorld(b), XfBetween(a, b)) = ObjectToWorld(a)

\* The transforms that a traversal accumulates on its way down are those that
\* xf_between finds on its way up, for every root a traversal can have.
NodeToRootAgrees ==
    \A r, e \in Entity :
        r \in AtOrAbove(e) => NodeToRoot(r, e) = XfBetween(e, r)

=============================================================================
