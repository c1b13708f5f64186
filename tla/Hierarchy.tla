----------------------------- MODULE Hierarchy -----------------------------
(***************************************************************************)
(* HierarchySystem (include/entttree/hierarchy.h): parent links kept as    *)
(* one ParentConnection component per child in the EnTT registry, and next *)
(* to them a cache of every parent's children, a vector sorted by sibling  *)
(* position that all operations search by bisection.  The two copies agree *)
(* only because every operation updates both.                              *)
(*                                                                         *)
(* Positions are a parameter: a set with its order and the three ways to   *)
(* make a new one.  MCHierarchy gives them the definitions of Position.    *)
(* The calls are those of one thread, each of them atomic; callbacks do    *)
(* not call back into the hierarchy.                                       *)
(***************************************************************************)
EXTENDS Integers, SequencesExt

CONSTANTS
    Entity,         \* entity ids; their order breaks ties in the child list
    Null,           \* entt::null
    Pos,            \* positions; a bound: operations leave it disabled
    ExplicitPos,    \* the positions a client passes
    Less(_, _),     \* Position::operator<=>
    Under(_, _),    \* the order of the numbers: strings 1 and 10 are equal
    NextPos(_),     \* Position::after
    PrevPos(_),     \* Position::before
    MidPos(_, _),   \* Position::between
    FirstPos,       \* Position()
    Reuse,          \* clients pass positions that a sibling has
    Resettling      \* clients call set_parent with the current parent

ASSUME EntityAssumption == Entity \subseteq Nat /\ Null \notin Entity
ASSUME PosAssumption ==
    FirstPos \in Pos /\ ExplicitPos \subseteq Pos
ASSUME ClientAssumption == {Reuse, Resettling} \subseteq BOOLEAN

\* What the list operations need of the orders.
ASSUME OrderAssumption ==
    /\ \A p, q \in Pos : Less(p, q) => ~Less(q, p)
    /\ \A p, q \in Pos : Under(p, q) => Less(p, q)
    /\ \A p, q, r \in Pos : Under(p, q) /\ Under(q, r) => Under(p, r)

\* What they need of the new positions, as long as the bound admits these.
ASSUME StepAssumption ==
    /\ \A p \in Pos : NextPos(p) \in Pos => Under(p, NextPos(p))
    /\ \A p \in Pos : PrevPos(p) \in Pos => Under(PrevPos(p), p)
    /\ \A p, q \in Pos :
          Under(p, q) /\ MidPos(p, q) \in Pos =>
              Under(p, MidPos(p, q)) /\ Under(MidPos(p, q), q)

VARIABLES
    connection,     \* the ParentConnection of each entity
    children,       \* _children: the sorted list of each parent
    heard           \* connection as a listener of the signals knows it

vars == <<connection, children, heard>>

Connection == [parent : Entity \cup {Null}, position : Pos]
ChildEntry == [eid : Entity, position : Pos]

\* An entity without a ParentConnection.
NoPC == [parent |-> Null, position |-> FirstPos]

ParentOf(e) == connection[e].parent
InTree(e) == ParentOf(e) # Null

-----------------------------------------------------------------------------
(* The sorted lists *)

EntryBelow(a, b) ==
    \/ Less(a.position, b.position)
    \/ a.position = b.position /\ a.eid < b.eid

\* Where lower_bound stops: the first index whose entry is not below, or one
\* past the end.  (Its bisection finds it on a list sorted by Less.)
LowerBound(list, p) ==
    CHOOSE i \in 1 .. Len(list) + 1 :
        /\ \A j \in 1 .. i - 1 : Less(list[j].position, p)
        /\ i <= Len(list) => ~Less(list[i].position, p)

\* The same by ChildEntry::operator<=>, which looks for one entity.
EntryLowerBound(list, c, p) ==
    CHOOSE i \in 1 .. Len(list) + 1 :
        LET entry == [eid |-> c, position |-> p]
        IN  /\ \A j \in 1 .. i - 1 : EntryBelow(list[j], entry)
            /\ i <= Len(list) => ~EntryBelow(list[i], entry)

AlwaysShifted(list, src, dst, entry) ==                         \* mutant
    InsertAt(RemoveAt(list, src), IF dst > 1 THEN dst - 1 ELSE dst, entry)

Swapped(list, src, dst, entry) ==                               \* mutant
    LET at == IF dst > src THEN dst - 1 ELSE dst
    IN  [list EXCEPT ![src] = list[at], ![at] = entry]

\* std::rotate as all callers use it: the entry at src, rewritten, goes
\* before the entry at dst.
Moved(list, src, dst, entry) ==
    InsertAt(RemoveAt(list, src), IF dst > src THEN dst - 1 ELSE dst, entry)

StaysListed(list, c, p) == list                                 \* mutant

Tombstoned(list, c, p) ==                                       \* mutant
    [list EXCEPT ![EntryLowerBound(list, c, p)].eid = Null]

\* _remove_from_child_list
Unlisted(list, c, p) ==
    LET i == EntryLowerBound(list, c, p)
    IN  IF i <= Len(list) THEN RemoveAt(list, i) ELSE list

\* _dedupe_position: p is about to go before list[next].
Duped(list, p, next) ==
    \/ next > 1 /\ p = list[next - 1].position
    \/ next <= Len(list) /\ p = list[next].position

Deduped(list, p, next) ==
    IF ~Duped(list, p, next) THEN p
    ELSE IF next > 1 /\ next <= Len(list)
    THEN MidPos(list[next - 1].position, list[next].position)
    ELSE IF next > 1 THEN NextPos(list[next - 1].position)
    ELSE PrevPos(list[next].position)

-----------------------------------------------------------------------------
(* Queries *)

UpClosed(S) == \A e \in S : ParentOf(e) \in S \cup {Null}

\* is_ancestor_of: a is met on the walk up from d, which stays inside every
\* set that holds the parent of d and is closed under taking parents.
IsAncestorOf(a, d) ==
    \A S \in SUBSET Entity :
        ParentOf(d) \in S \cup {Null} /\ UpClosed(S) => a \in S

NotItsChild(c, p) == c # p /\ ParentOf(p) # c                   \* mutant

\* The client's part of the contract: set_parent itself does not look for
\* cycles, so the caller asks is_ancestor_of first, as the stochastic test of
\* test_hierarchy.cpp does.
MayAdopt(c, p) == c # p /\ ~IsAncestorOf(c, p)

\* The other part: a number that no sibling has.
Fresh(c, p, x) ==
    Reuse \/ \A e \in Entity \ {c} :
                ParentOf(e) = p => \/ Under(x, connection[e].position)
                                   \/ Under(connection[e].position, x)

-----------------------------------------------------------------------------
(* Operations *)

Init ==
    /\ connection = [e \in Entity |-> NoPC]
    /\ children = [e \in Entity |-> <<>>]
    /\ heard = connection

PublishMoves(c, old, new) ==                                    \* mutant
    heard' = IF old.position = new.position THEN heard
                                            ELSE [heard EXCEPT ![c] = new]

PublishReparents(c, old, new) ==                                \* mutant
    heard' = IF old.parent = new.parent THEN heard
                                        ELSE [heard EXCEPT ![c] = new]

\* on_added, on_removed or on_changed reports that c went from old to new.
Publish(c, old, new) ==
    heard' = IF old = new THEN heard ELSE [heard EXCEPT ![c] = new]

\* set_parent, a new parent: the component is written before the position is
\* deduplicated, the list and the signal get what the deduplication left.
Adopt(c, p, x, maybeDupe) ==
    LET old == connection[c]
        freed == IF old.parent = Null THEN children
                 ELSE [children EXCEPT
                          ![old.parent] = Unlisted(@, c, old.position)]
        dst == LowerBound(freed[p], x)
        used == IF maybeDupe THEN Deduped(freed[p], x, dst) ELSE x
    IN  /\ x \in Pos /\ used \in Pos
        /\ connection' = [connection EXCEPT
                             ![c] = [parent |-> p, position |-> x]]
        /\ children' = [freed EXCEPT
                           ![p] = InsertAt(@, dst, [eid |-> c,
                                                    position |-> used])]
        /\ Publish(c, old, [parent |-> p, position |-> used])

\* set_parent, the parent it has: the entry is rewritten in place before the
\* deduplication looks at its neighbours, of which it may be one itself.  The
\* component and the list get the outcome, the signal and the caller get x.
Resettle(c, p, x, maybeDupe) ==
    LET old == connection[c]
        list == children[p]
        src == EntryLowerBound(list, c, old.position)
        dst == LowerBound(list, x)
        marked == [list EXCEPT ![src].position = x]
        used == IF maybeDupe /\ dst # src THEN Deduped(marked, x, dst) ELSE x
    IN  /\ x \in Pos /\ used \in Pos
        /\ src <= Len(list)
        /\ connection' = [connection EXCEPT ![c].position = used]
        /\ children' = [children EXCEPT
                           ![p] = Moved(@, src, dst, [eid |-> list[src].eid,
                                                      position |-> used])]
        /\ Publish(c, old, [parent |-> p, position |-> x])

SetParent(c, p, x, maybeDupe) ==
    /\ MayAdopt(c, p)
    /\ IF ParentOf(c) = p THEN Resettle(c, p, x, maybeDupe)
                          ELSE Adopt(c, p, x, maybeDupe)

\* set_parent(child, parent)
SetParentAtEnd(c, p) ==
    SetParent(c, p,
              IF children[p] = <<>> THEN FirstPos
                                    ELSE NextPos(Last(children[p]).position),
              FALSE)

\* set_parent(child, parent, position)
SetParentAt(c, p, x) ==
    /\ Fresh(c, p, x)
    /\ ParentOf(c) = p => Resettling
    /\ SetParent(c, p, x, children[p] # <<>>)

\* unparent(child); it does nothing to a child that has no parent.
Unparent(c) ==
    LET old == connection[c]
    IN  /\ InTree(c)
        /\ connection' = [connection EXCEPT ![c] = NoPC]
        /\ children' = [children EXCEPT
                           ![old.parent] = Unlisted(@, c, old.position)]
        /\ Publish(c, old, NoPC)

\* What the operations that move c among its siblings have in common: its
\* entry goes from index src to before index dst, with position x.
Reorder(c, src, dst, x) ==
    LET list == children[ParentOf(c)]
    IN  /\ x \in Pos
        /\ src <= Len(list)
        /\ connection' = [connection EXCEPT ![c].position = x]
        /\ children' = [children EXCEPT
                           ![ParentOf(c)] =
                               Moved(@, src, dst, [eid |-> list[src].eid,
                                                   position |-> x])]
        /\ Publish(c, connection[c], connection'[c])

\* Where bisection finds the entry of a child of p.
Place(e, p) == EntryLowerBound(children[p], e, connection[e].position)

\* set_child_position(child, position)
SetChildPosition(c, x) ==
    /\ InTree(c)
    /\ connection[c].position # x
    /\ Fresh(c, ParentOf(c), x)
    /\ Reorder(c, Place(c, ParentOf(c)), LowerBound(children[ParentOf(c)], x), x)

\* order_child_before(child, before), with a sibling; it does nothing when
\* the child is there already.
OrderBeforeSibling(c, before) ==
    LET list == children[ParentOf(c)]
        next == Place(before, ParentOf(c))
    IN  /\ InTree(c) /\ c # before
        /\ ParentOf(before) = ParentOf(c)
        /\ Place(c, ParentOf(c)) # next - 1
        /\ next <= Len(list)
        /\ Reorder(c, Place(c, ParentOf(c)), next,
                   IF next = 1 THEN PrevPos(list[1].position)
                   ELSE MidPos(list[next - 1].position, list[next].position))

\* order_child_before(child, before), before no sibling: to the end.
OrderToEnd(c, before) ==
    LET list == children[ParentOf(c)]
    IN  /\ InTree(c) /\ c # before
        /\ ParentOf(before) # ParentOf(c)
        /\ Place(c, ParentOf(c)) # Len(list)
        /\ Reorder(c, Place(c, ParentOf(c)), Len(list) + 1,
                   NextPos(Last(list).position))

Next ==
    \E c \in Entity :
        \/ Unparent(c)
        \/ \E x \in ExplicitPos : SetChildPosition(c, x)
        \/ \E e \in Entity :
              \/ SetParentAtEnd(c, e)
              \/ \E x \in ExplicitPos : SetParentAt(c, e, x)
              \/ OrderBeforeSibling(c, e)
              \/ OrderToEnd(c, e)

Spec == Init /\ [][Next]_vars

-----------------------------------------------------------------------------
(* Properties *)

TypeOK ==
    /\ connection \in [Entity -> Connection]
    /\ children \in [Entity -> Seq(ChildEntry)]
    /\ heard \in [Entity -> Connection]

\* Every list entry says what the component of its entity says, parent and
\* position (test_hierarchy.cpp:1182-1191): otherwise the next lookup of the
\* child bisects to another entry, and unparent erases a sibling.
EntriesMatchComponents ==
    \A p \in Entity : \A i \in DOMAIN children[p] :
        connection[children[p][i].eid] =
            [parent |-> p, position |-> children[p][i].position]

\* Every child is in the list of its parent (test_hierarchy.cpp:1375-1452).
ChildrenAreListed ==
    \A c \in Entity :
        InTree(c) => \E i \in DOMAIN children[ParentOf(c)] :
                        children[ParentOf(c)][i].eid = c

\* The two copies of the tree agree, after every call.
CacheCoherent == EntriesMatchComponents /\ ChildrenAreListed

\* Siblings stand in strict order of the numbers their positions denote, not
\* only of the strings: no two tie, and between() finds room between any two.
StrictlySorted ==
    \A p \in Entity : \A i, j \in DOMAIN children[p] :
        i < j => Under(children[p][i].position, children[p][j].position)

\* Nobody is an own ancestor, so the walks to the root in path(),
\* is_ancestor_of() and the dirty marking of bounding_hierarchy.h end.
Acyclic == \A e \in Entity : ~IsAncestorOf(e, e)

\* A listener that replays the signals always knows the parents; on these
\* alone the transform and bounds systems depend.
ListenerKnowsParents == \A e \in Entity : heard[e].parent = ParentOf(e)

\* The signals carry the connections that are stored (hierarchy.h:45-50), so a
\* listener that knows the position of an entity loses it in one way only:
\* set_parent with an explicit position and the parent the entity has.
ListenerLosesOnlyByResettling ==
    [][\A e \in Entity :
          heard[e] = connection[e] /\ heard'[e] # connection'[e]
              => \E x \in ExplicitPos : SetParentAt(e, ParentOf(e), x)]_vars

\* The child ends up where the call asks for it: last, right before the
\* sibling, or last among the siblings when there is no such sibling.
PlacedAsAsked ==
    [][\A c \in Entity : connection'[c] # connection[c] /\ InTree(c)' =>
          LET list == children'[ParentOf(c)']
          IN  /\ \/ Last(list).eid = c
                 \/ /\ ~SetParentAtEnd(c, ParentOf(c)')
                    /\ ~\E e \in Entity : OrderToEnd(c, e)
              /\ \A e \in Entity :
                    \/ \E i \in 2 .. Len(list) :
                          list[i - 1].eid = c /\ list[i].eid = e
                    \/ ~OrderBeforeSibling(c, e)]_vars

-----------------------------------------------------------------------------
(* The promise: seen from outside, the lists are an ordered forest. *)

Forest ==
    INSTANCE OrderedForest WITH
        kids <- [p \in Entity |->
                    [i \in DOMAIN children[p] |-> children[p][i].eid]]

\* Whatever the repositioning, bisection and rotation inside, each call only
\* takes its own child out of the forest or puts it at one place of it.
ImplementsForest == Forest!Spec

=============================================================================
