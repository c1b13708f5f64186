------------------------------ MODULE Reentry -------------------------------
(***************************************************************************)
(* BoundsSystem among other listeners (include/entttree/                   *)
(* bounding_hierarchy.h over hierarchy.h and transform_hierarchy.h).  An   *)
(* operation changes the registry and then publishes; a handler of the     *)
(* client that runs before those of BoundsSystem may call operations and   *)
(* queries itself, whose signals are delivered first.  BoundsSystem comes  *)
(* to know of the outer change last, when the hierarchy may be another     *)
(* one than that of which the signal tells.                                *)
(***************************************************************************)
EXTENDS Bounds

CONSTANTS
    MaxPending,     \* bound: signals under way
    MaxTurned,      \* bound: entities with a transform
    EditsRemoved    \* handlers edit what is just being unparented

ASSUME MaxPendingAssumption == {MaxPending, MaxTurned} \subseteq Nat \ {0}
ASSUME EditsRemovedAssumption == EditsRemoved \in BOOLEAN

VARIABLE
    pending         \* signals that BoundsSystem has not heard, innermost last

reentryVars == <<vars, pending>>

Orphan == Entity \cup {Null}

Signal == [name : {"added", "removed", "changed", "transform"},
           node : Entity, old : Orphan, new : Orphan]

Publish(name, e, old, new) ==
    /\ Len(pending) < MaxPending
    /\ pending' = Append(pending, [name |-> name, node |-> e, old |-> old, new |-> new])

\* The client has the control, in its own code or in a handler, and may edit
\* the entities in S.
MayEdit(S) ==
    /\ Idle
    /\ EditsRemoved \/ \A s \in Range(pending) : s.name = "removed" => s.node \notin S

ReentryInit == Init /\ pending = <<>>

-----------------------------------------------------------------------------
(* Operations, up to the handlers of the client *)

\* set_parent of an entity without a parent
BeginAdd(c, p) ==
    /\ MayEdit({c, p})
    /\ parent[c] = Null
    /\ MayAdopt(c, p)
    /\ parent' = [parent EXCEPT ![c] = p]
    /\ Publish("added", c, Null, p)
    /\ UNCHANGED <<xf, intrinsic, dirty, computed, stack>>

\* set_parent of an entity with another parent
BeginReparent(c, p) ==
    /\ MayEdit({c, p, parent[c]})
    /\ parent[c] \notin {Null, p}
    /\ MayAdopt(c, p)
    /\ DirtyMoves \/ c \notin dirty \/ p \in dirty
    /\ parent' = [parent EXCEPT ![c] = p]
    /\ Publish("changed", c, parent[c], p)
    /\ UNCHANGED <<xf, intrinsic, dirty, computed, stack>>

\* unparent
BeginUnparent(c) ==
    /\ MayEdit({c, parent[c]})
    /\ parent[c] # Null
    /\ \/ DirtyLeaves
       \/ c \notin dirty \/ computed[c] = {}
       \/ Children(c) # {} \/ intrinsic[c] # {}
    /\ parent' = [parent EXCEPT ![c] = Null]
    /\ Publish("removed", c, parent[c], Null)
    /\ UNCHANGED <<xf, intrinsic, dirty, computed, stack>>

\* set_transform and remove_transform
BeginEditTransform(e, x) ==
    /\ MayEdit({e})
    /\ xf[e] # x
    /\ xf' = [xf EXCEPT ![e] = x]
    /\ Cardinality({c \in Entity : xf'[c] # NoXf}) <= MaxTurned
    /\ Publish("transform", e, Null, Null)
    /\ UNCHANGED <<parent, intrinsic, dirty, computed, stack>>

\* Bounds mark before they publish: their handlers are like a later client.
EditIntrinsic(e) ==
    /\ MayEdit({e})
    /\ RemoveIntrinsic(e) \/ \E b \in Box : SetIntrinsic(e, b)
    /\ UNCHANGED pending

Ask(e) == Query(e) /\ UNCHANGED pending

Answer == Recomputation /\ UNCHANGED pending

-----------------------------------------------------------------------------
(* Handlers of BoundsSystem *)

MarksNeither(s) == UNCHANGED dirty                              \* mutant

\* _on_child_added
OnAdded(s) == dirty' = Marked(parent, dirty, s.new)

MarksNew(s) ==                                                  \* mutant
    dirty' = Marked(parent, Marked(parent, dirty, s.node), s.new)

\* _on_reparent
OnChanged(s) == dirty' = Marked(parent, Marked(parent, dirty, s.old), s.node)

\* The innermost publish comes to BoundsSystem, and the operation returns.
Deliver ==
    /\ Idle
    /\ pending # <<>>
    /\ UNCHANGED <<parent, xf, intrinsic, computed, stack>>
    /\ LET s == Last(pending)
       IN  \/ s.name = "added" /\ OnAdded(s)
           \/ s.name = "removed" /\ OnChildRemoved(s.node, s.old)
           \/ s.name = "changed" /\ OnChanged(s)
           \/ s.name = "transform" /\ MarkParent(s.node)
    /\ pending' = Front(pending)

ReentryNext ==
    \/ Answer
    \/ Deliver
    \/ \E e \in Entity :
          \/ Ask(e)
          \/ EditIntrinsic(e)
          \/ \E x \in Xf \cup {NoXf} : BeginEditTransform(e, x)
          \/ \E p \in Entity : BeginAdd(e, p) \/ BeginReparent(e, p)
          \/ BeginUnparent(e)

ReentrySpec == ReentryInit /\ [][ReentryNext]_reentryVars

-----------------------------------------------------------------------------
(* Properties *)

ReentryTypeOK == TypeOK /\ pending \in Seq(Signal) /\ Len(pending) <= MaxPending

Quiet == pending = <<>>

\* When the outermost operation has returned everything above a dirty entity
\* is dirty, although handlers have changed the hierarchy between a change
\* and the marking for it, and marks were made in another order.
DirtyWhenQuiet == Quiet => DirtyUpToTheRoot

\* Then whatever is not marked is exact, although handlers may have recomputed
\* and cleaned what the outer operation had not marked yet.
ExactWhenQuiet == Quiet => CleanIsExact

=============================================================================
