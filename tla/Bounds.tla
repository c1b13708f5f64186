------------------------------- MODULE Bounds -------------------------------
(***************************************************************************)
(* BoundsSystem (include/entttree/bounding_hierarchy.h): the bounding box  *)
(* of every subtree, cached.  A mutation only marks entities dirty, from   *)
(* the edited one towards the root; a query recomputes what is dirty in    *)
(* the subtree it asks for and clears the marks.                           *)
(*                                                                         *)
(* A box is the set of points it contains, so that the union of boxes is   *)
(* the hull of a union of sets.  Of the hierarchy and of the transforms    *)
(* only what the signals carry is here: the parents and the transforms.    *)
(* The calls are those of one thread; a recomputation, which recurses, is  *)
(* a stack of calls that the other operations wait for.                    *)
(***************************************************************************)
EXTENDS Integers, SequencesExt

CONSTANTS
    Entity,
    Null,           \* entt::null
    Point,          \* the points of the plane
    Box,            \* the intrinsic bounds a client sets: none is empty
    Xf,             \* the transforms a client sets
    NoXf,           \* no LocalTransform component: the identity
    Hull(_),        \* Rect::operator|= and bounds(): the box around a set
    Apply(_, _),    \* a transform applied to a point
    DirtyMoves,     \* clients reparent dirty children below clean parents
    DirtyLeaves     \* clients unparent leaves whose cached box is outdated

ASSUME EntityAssumption == Null \notin Entity
ASSUME XfAssumption ==
    /\ NoXf \notin Xf
    /\ \A x \in Xf : \A q \in Point : Apply(x, q) \in Point
ASSUME BoxAssumption == \A b \in Box : b \in SUBSET Point /\ b # {} /\ Hull(b) = b
ASSUME HullAssumption ==
    /\ \A S \in SUBSET Point : Hull(S) \in SUBSET Point /\ S \subseteq Hull(S)
    /\ \A S, T \in SUBSET Point : Hull(Hull(S) \cup T) = Hull(S \cup T)
    /\ Hull({}) = {}
ASSUME ClientAssumption == {DirtyMoves, DirtyLeaves} \subseteq BOOLEAN

VARIABLES
    parent,         \* the hierarchy, as parent_of tells it
    xf,             \* the transform of each entity
    intrinsic,      \* IntrinsicBounds components; {} for none
    dirty,          \* _dirty
    computed,       \* _computed; {} for no entry
    stack           \* the calls of _recompute under way

vars == <<parent, xf, intrinsic, dirty, computed, stack>>

\* A call of _recompute: the children it has not looked at yet and the box
\* of what it has looked at.
Call == [node : Entity, todo : SUBSET Entity, box : SUBSET Point]

Children(e) == {c \in Entity : parent[c] = e}

\* A box of c, in the space of its parent.
InParent(c, b) ==
    IF xf[c] = NoXf THEN b ELSE Hull({Apply(xf[c], q) : q \in b})

-----------------------------------------------------------------------------
(* Marking *)

InsertsNull(par, D, e) ==                                       \* mutant
    D \cup {e} \cup {par[e]}

MarksParent(par, D, e) ==                                       \* mutant
    D \cup {e} \cup ({par[e]} \ {Null})

\* _dirty_ancestors: e and then one parent after the other, up to the root or
\* to the first that was dirty before.
Marked(par, D, e) ==
    {a \in Entity :
        \A S \in SUBSET Entity :
            (/\ D \cup {e} \subseteq S
             /\ \A s \in S \ D : par[s] \in S \cup {Null}) => a \in S}

-----------------------------------------------------------------------------
(* Operations *)

Init ==
    /\ parent = [e \in Entity |-> Null]
    /\ xf = [e \in Entity |-> NoXf]
    /\ intrinsic = [e \in Entity |-> {}]
    /\ dirty = {}
    /\ computed = [e \in Entity |-> {}]
    /\ stack = <<>>

Idle == stack = <<>>

\* set_intrinsic_bounds
SetIntrinsic(e, b) ==
    /\ Idle
    /\ intrinsic[e] # b
    /\ intrinsic' = [intrinsic EXCEPT ![e] = b]
    /\ dirty' = Marked(parent, dirty, e)
    /\ UNCHANGED <<parent, xf, computed, stack>>

\* remove_intrinsic_bounds: an entity that is not in the hierarchy is
\* forgotten.
RemoveIntrinsic(e) ==
    /\ Idle
    /\ intrinsic[e] # {}
    /\ intrinsic' = [intrinsic EXCEPT ![e] = {}]
    /\ IF parent[e] = Null /\ Children(e) = {}
       THEN /\ dirty' = dirty \ {e}
            /\ computed' = [computed EXCEPT ![e] = {}]
       ELSE /\ dirty' = Marked(parent, dirty, e)
            /\ UNCHANGED computed
    /\ UNCHANGED <<parent, xf, stack>>

MarksNothing(e) == UNCHANGED dirty                              \* mutant

\* _dirty_parent_after_transform_edit
MarkParent(e) ==
    dirty' = IF parent[e] = Null THEN dirty
                                 ELSE Marked(parent, dirty, parent[e])

\* set_transform and remove_transform, with the handlers of their signals.
EditTransform(e, x) ==
    /\ Idle
    /\ xf[e] # x
    /\ xf' = [xf EXCEPT ![e] = x]
    /\ MarkParent(e)
    /\ UNCHANGED <<parent, intrinsic, computed, stack>>

\* The hierarchy has no cycles: p climbs to its root without meeting c.
MayAdopt(c, p) ==
    \E S \in SUBSET Entity :
        p \in S /\ c \notin S /\ \A s \in S : parent[s] \in S \cup {Null}

\* set_parent of an entity without a parent, and _on_child_added.
Add(c, p) ==
    /\ Idle
    /\ parent[c] = Null
    /\ MayAdopt(c, p)
    /\ parent' = [parent EXCEPT ![c] = p]
    /\ dirty' = Marked(parent', dirty, p)
    /\ UNCHANGED <<xf, intrinsic, computed, stack>>

\* set_parent of an entity with another parent, and _on_reparent, which walks
\* up from the old parent and from the child.
Reparent(c, p) ==
    /\ Idle
    /\ parent[c] \notin {Null, p}
    /\ MayAdopt(c, p)
    /\ DirtyMoves \/ c \notin dirty \/ p \in dirty
    /\ parent' = [parent EXCEPT ![c] = p]
    /\ dirty' = Marked(parent', Marked(parent', dirty, parent[c]), c)
    /\ UNCHANGED <<xf, intrinsic, computed, stack>>

KeepsParentClean(c, old) ==                                     \* mutant
    dirty' = IF Children(c) = {} /\ intrinsic[c] = {} THEN dirty \ {c} ELSE dirty

\* _on_child_removed: of a leaf without bounds the mark is dropped.
OnChildRemoved(c, old) ==
    LET D == Marked(parent', dirty, old)
    IN  dirty' = IF Children(c) = {} /\ intrinsic[c] = {} THEN D \ {c} ELSE D

\* unparent
Unparent(c) ==
    /\ Idle
    /\ parent[c] # Null
    /\ \/ DirtyLeaves
       \/ c \notin dirty \/ computed[c] = {}
       \/ Children(c) # {} \/ intrinsic[c] # {}
    /\ parent' = [parent EXCEPT ![c] = Null]
    /\ OnChildRemoved(c, parent[c])
    /\ UNCHANGED <<xf, intrinsic, computed, stack>>

-----------------------------------------------------------------------------
(* Queries *)

Called(e) == [node |-> e, todo |-> Children(e), box |-> intrinsic[e]]

Top == Last(stack)

SeenAgain(calls, c, b) ==                                       \* mutant
    [calls EXCEPT ![Len(calls)].box = Hull(@ \cup InParent(c, b))]

\* The call at the top of a stack of calls has seen child c, with box b.
Seen(calls, c, b) ==
    [calls EXCEPT ![Len(calls)] =
        [node |-> @.node,
         todo |-> @.todo \ {c},
         box  |-> Hull(@.box \cup InParent(c, b))]]

\* get_computed_bounds of a dirty entity, or the same on the way of
\* augment_with_bounds.  A clean one is answered from the cache.
Query(e) ==
    /\ Idle
    /\ e \in dirty
    /\ stack' = <<Called(e)>>
    /\ UNCHANGED <<parent, xf, intrinsic, dirty, computed>>

\* The loop of _recompute comes to a child that is dirty: it recurses.
VisitDirty(c) ==
    /\ ~Idle
    /\ c \in Top.todo \cap dirty
    /\ stack' = Append(stack, Called(c))
    /\ UNCHANGED <<parent, xf, intrinsic, dirty, computed>>

\* The loop comes to a child that is clean: it takes the cached box.
VisitClean(c) ==
    /\ ~Idle
    /\ c \in Top.todo \ dirty
    /\ stack' = Seen(stack, c, computed[c])
    /\ UNCHANGED <<parent, xf, intrinsic, dirty, computed>>

\* _recompute returns, to the loop of its caller if that was a recomputation.
Return ==
    /\ ~Idle
    /\ Top.todo = {}
    /\ computed' = [computed EXCEPT ![Top.node] = Top.box]
    /\ dirty' = dirty \ {Top.node}
    /\ stack' = IF Len(stack) = 1 THEN <<>>
                ELSE Seen(Front(stack), Top.node, Top.box)
    /\ UNCHANGED <<parent, xf, intrinsic>>

Recomputation == Return \/ \E c \in Entity : VisitDirty(c) \/ VisitClean(c)

Next ==
    \/ Recomputation
    \/ \E e \in Entity :
          \/ Query(e)
          \/ \E b \in Box : SetIntrinsic(e, b)
          \/ RemoveIntrinsic(e)
          \/ \E x \in Xf \cup {NoXf} : EditTransform(e, x)
          \/ \E p \in Entity : Add(e, p) \/ Reparent(e, p)
          \/ Unparent(e)

\* A call that has begun goes on: there is one thread and nothing to wait for.
Spec == Init /\ [][Next]_vars /\ WF_vars(Recomputation)

-----------------------------------------------------------------------------
(* Properties *)

TypeOK ==
    /\ parent \in [Entity -> Entity \cup {Null}]
    /\ xf \in [Entity -> Xf \cup {NoXf}]
    /\ intrinsic \in [Entity -> SUBSET Point]
    /\ dirty \in SUBSET Entity
    /\ computed \in [Entity -> SUBSET Point]
    /\ stack \in Seq(Call)

\* Above a dirty entity everything is dirty.  The marking relies on it where
\* it stops at the first dirty ancestor, and the recomputation where it takes
\* a clean child's box without looking below.
DirtyUpToTheRoot ==
    \A e \in dirty : parent[e] # Null => parent[e] \in dirty

\* The box of e out of its own bounds and the cached boxes of its children.
BoxOverChildren(e) ==
    Hull(intrinsic[e] \cup
         UNION {InParent(c, computed[c]) : c \in Children(e)})

\* A clean entity's cache entry is the box over its children as they are now,
\* in whatever order the edits and partial queries came.
CleanFitsChildren ==
    \A e \in Entity \ dirty : computed[e] = BoxOverChildren(e)

\* The box of the whole subtree, computed without any cache.
SubtreeBox ==
    LET box[e \in Entity] ==
            Hull(intrinsic[e] \cup
                 UNION {InParent(c, box[c]) : c \in Children(e)})
    IN  box

\* A query answers with the box of the subtree as it is, however stale the
\* caches were: bounding_hierarchy.h:152-161.
CleanIsExact == \A e \in Entity \ dirty : computed[e] = SubtreeBox[e]

=============================================================================
