-------------------------- MODULE HierarchyProofs --------------------------
(***************************************************************************)
(* Proofs about HierarchySystem, for any number of entities and any set of *)
(* positions that satisfies the assumptions of Hierarchy.                  *)
(***************************************************************************)
EXTENDS Hierarchy, ListLemmas

-----------------------------------------------------------------------------
(* Searches *)

\* Bisection by position ends where the definition of LowerBound says.
LEMMA LowerBoundProperties ==
    ASSUME NEW list \in Seq(ChildEntry), NEW p
    PROVE  /\ LowerBound(list, p) \in 1 .. Len(list) + 1
           /\ \A j \in 1 .. LowerBound(list, p) - 1 : Less(list[j].position, p)
           /\ LowerBound(list, p) <= Len(list) =>
                 ~Less(list[LowerBound(list, p)].position, p)
<1> DEFINE B == {j \in 1 .. Len(list) : ~Less(list[j].position, p)}
           Q(i) == /\ \A j \in 1 .. i - 1 : Less(list[j].position, p)
                   /\ i <= Len(list) => ~Less(list[i].position, p)
<1>1. Len(list) \in Nat
  OBVIOUS
<1> HIDE DEF B
<1>2. PICK i \in 1 .. Len(list) + 1 :
         /\ \A j \in 1 .. i - 1 : j \notin B
         /\ i <= Len(list) => i \in B
  BY <1>1, FirstIndex
<1> USE DEF B
<1>3. \E k \in 1 .. Len(list) + 1 : Q(k)
  BY <1>1, <1>2
<1>4. LowerBound(list, p) = CHOOSE k \in 1 .. Len(list) + 1 : Q(k)
  BY DEF LowerBound
<1> HIDE DEF Q
<1>5. LowerBound(list, p) \in 1 .. Len(list) + 1 /\ Q(LowerBound(list, p))
  BY <1>3, <1>4
<1> QED  BY <1>5 DEF Q

\* So does the bisection for the entry of one entity.
LEMMA EntryLowerBoundProperties ==
    ASSUME NEW list \in Seq(ChildEntry), NEW c, NEW p
    PROVE  /\ EntryLowerBound(list, c, p) \in 1 .. Len(list) + 1
           /\ \A j \in 1 .. EntryLowerBound(list, c, p) - 1 :
                 EntryBelow(list[j], [eid |-> c, position |-> p])
           /\ EntryLowerBound(list, c, p) <= Len(list) =>
                 ~EntryBelow(list[EntryLowerBound(list, c, p)],
                             [eid |-> c, position |-> p])
<1> DEFINE entry == [eid |-> c, position |-> p]
           B == {j \in 1 .. Len(list) : ~EntryBelow(list[j], entry)}
           Q(i) == /\ \A j \in 1 .. i - 1 : EntryBelow(list[j], entry)
                   /\ i <= Len(list) => ~EntryBelow(list[i], entry)
<1>1. Len(list) \in Nat
  OBVIOUS
<1> HIDE DEF B
<1>2. PICK i \in 1 .. Len(list) + 1 :
         /\ \A j \in 1 .. i - 1 : j \notin B
         /\ i <= Len(list) => i \in B
  BY <1>1, FirstIndex
<1> USE DEF B
<1>3. \E k \in 1 .. Len(list) + 1 : Q(k)
  BY <1>1, <1>2
<1>4. EntryLowerBound(list, c, p) = CHOOSE k \in 1 .. Len(list) + 1 : Q(k)
  BY DEF EntryLowerBound
<1> HIDE DEF Q
<1>5. /\ EntryLowerBound(list, c, p) \in 1 .. Len(list) + 1
      /\ Q(EntryLowerBound(list, c, p))
  BY <1>3, <1>4
<1> QED  BY <1>5 DEF Q

\* In particular the bisection stays inside the list or right behind it.
LEMMA EntryLowerBoundType ==
    ASSUME NEW list \in Seq(ChildEntry), NEW c, NEW p
    PROVE  EntryLowerBound(list, c, p) \in 1 .. Len(list) + 1
<1> DEFINE k == EntryLowerBound(list, c, p)
<1>1. k \in 1 .. Len(list) + 1
  BY EntryLowerBoundProperties
<1> QED  BY <1>1

-----------------------------------------------------------------------------
(* Lists *)

\* A rotation keeps the length and puts the rewritten entry at one place.
LEMMA MovedType ==
    ASSUME NEW list \in Seq(ChildEntry), NEW src \in 1 .. Len(list),
           NEW dst \in 1 .. Len(list) + 1, NEW entry \in ChildEntry
    PROVE  Moved(list, src, dst, entry) \in Seq(ChildEntry)
<1>1. /\ RemoveAt(list, src) \in Seq(ChildEntry)
      /\ Len(RemoveAt(list, src)) = Len(list) - 1
  BY RemoveAtProperties
<1>2. (IF dst > src THEN dst - 1 ELSE dst) \in 1 .. Len(RemoveAt(list, src)) + 1
  BY <1>1
<1> QED  BY <1>1, <1>2, InsertAtProperties DEF Moved

\* Erasing from a list leaves a list.
LEMMA UnlistedType ==
    ASSUME NEW list \in Seq(ChildEntry), NEW c, NEW p
    PROVE  Unlisted(list, c, p) \in Seq(ChildEntry)
<1> DEFINE i == EntryLowerBound(list, c, p)
<1>1. i \in 1 .. Len(list) + 1 /\ Len(list) \in Nat
  BY EntryLowerBoundType
<1> HIDE DEF i
<1>2. i <= Len(list) => RemoveAt(list, i) \in Seq(ChildEntry)
  BY <1>1, RemoveAtProperties
<1> QED  BY <1>2 DEF Unlisted, i

-----------------------------------------------------------------------------
(* Types *)

\* The signals carry connections.
LEMMA PublishType ==
    ASSUME TypeOK, NEW c \in Entity, NEW old, NEW new \in Connection,
           Publish(c, old, new)
    PROVE  heard' \in [Entity -> Connection]
BY DEF TypeOK, Publish

\* What Reorder leaves has the right types.
LEMMA ReorderType ==
    ASSUME TypeOK, NEW c \in Entity, InTree(c), NEW x,
           NEW src \in 1 .. Len(children[ParentOf(c)]) + 1,
           NEW dst \in 1 .. Len(children[ParentOf(c)]) + 1,
           Reorder(c, src, dst, x)
    PROVE  TypeOK'
<1> DEFINE p == ParentOf(c)
           entry == [eid |-> children[p][src].eid, position |-> x]
<1>1. p \in Entity /\ children[p] \in Seq(ChildEntry)
  BY EntityAssumption DEF TypeOK, Connection, InTree, ParentOf
<1>2. src \in 1 .. Len(children[p]) /\ x \in Pos
  BY <1>1 DEF Reorder
<1>3. entry \in ChildEntry
  BY <1>1, <1>2, ElementOfSeq DEF ChildEntry
<1>4. Moved(children[p], src, dst, entry) \in Seq(ChildEntry)
  BY <1>1, <1>2, <1>3, MovedType
<1>5. children' = [children EXCEPT ![p] = Moved(children[p], src, dst, entry)]
  BY DEF Reorder
<1>6. connection' \in [Entity -> Connection]
  BY <1>2 DEF Reorder, TypeOK, Connection
<1>7. children' \in [Entity -> Seq(ChildEntry)]
  BY <1>1, <1>4, <1>5 DEF TypeOK
<1>8. heard' \in [Entity -> Connection]
  BY <1>6, PublishType DEF Reorder
<1> QED  BY <1>6, <1>7, <1>8 DEF TypeOK

\* The list of the old parent loses the child before the new one gets it.
LEMMA FreedType ==
    ASSUME TypeOK, NEW c \in Entity
    PROVE  (IF connection[c].parent = Null THEN children
            ELSE [children EXCEPT ![connection[c].parent] =
                     Unlisted(@, c, connection[c].position)])
                \in [Entity -> Seq(ChildEntry)]
<1>1. CASE connection[c].parent = Null
  BY <1>1 DEF TypeOK
<1>2. CASE connection[c].parent # Null
  <2>1. connection[c].parent \in Entity
    BY <1>2 DEF TypeOK, Connection
  <2>2. Unlisted(children[connection[c].parent], c, connection[c].position)
           \in Seq(ChildEntry)
    BY <2>1, UnlistedType DEF TypeOK
  <2> QED  BY <1>2, <2>1, <2>2 DEF TypeOK
<1> QED  BY <1>1, <1>2

\* set_parent with a new parent.
LEMMA AdoptType ==
    ASSUME TypeOK, NEW c \in Entity, NEW p \in Entity, NEW x, NEW maybeDupe,
           Adopt(c, p, x, maybeDupe)
    PROVE  TypeOK'
<1> DEFINE old == connection[c]
           freed == IF old.parent = Null THEN children
                    ELSE [children EXCEPT
                             ![old.parent] = Unlisted(@, c, old.position)]
           dst == LowerBound(freed[p], x)
           used == IF maybeDupe THEN Deduped(freed[p], x, dst) ELSE x
           entry == [eid |-> c, position |-> used]
<1>1. freed \in [Entity -> Seq(ChildEntry)]
  BY FreedType
<1>2. /\ x \in Pos /\ used \in Pos
      /\ connection' = [connection EXCEPT ![c] = [parent |-> p, position |-> x]]
      /\ children' = [freed EXCEPT ![p] = InsertAt(@, dst, entry)]
      /\ Publish(c, old, [parent |-> p, position |-> used])
  BY DEF Adopt
<1> HIDE DEF freed, used
<1>3. entry \in ChildEntry
  BY <1>2 DEF ChildEntry
<1>4. dst \in 1 .. Len(freed[p]) + 1
  BY <1>1, LowerBoundProperties
<1>5. InsertAt(freed[p], dst, entry) \in Seq(ChildEntry)
  BY <1>1, <1>3, <1>4, InsertAtProperties
<1>6. children' \in [Entity -> Seq(ChildEntry)]
  BY <1>1, <1>2, <1>5
<1>7. connection' \in [Entity -> Connection]
  BY <1>2 DEF TypeOK, Connection
<1>8. heard' \in [Entity -> Connection]
  <2>1. [parent |-> p, position |-> used] \in Connection
    BY <1>2 DEF Connection
  <2> QED  BY <1>2, <2>1, PublishType
<1> QED  BY <1>6, <1>7, <1>8 DEF TypeOK

\* set_parent with the parent the child has.
LEMMA ResettleType ==
    ASSUME TypeOK, NEW c \in Entity, NEW p \in Entity, NEW x, NEW maybeDupe,
           Resettle(c, p, x, maybeDupe)
    PROVE  TypeOK'
<1> DEFINE old == connection[c]
           list == children[p]
           src == EntryLowerBound(list, c, old.position)
           dst == LowerBound(list, x)
           marked == [list EXCEPT ![src].position = x]
           used == IF maybeDupe /\ dst # src THEN Deduped(marked, x, dst) ELSE x
           entry == [eid |-> list[src].eid, position |-> used]
<1>1. list \in Seq(ChildEntry)
  BY DEF TypeOK
<1>2. /\ x \in Pos /\ used \in Pos
      /\ src <= Len(list)
      /\ connection' = [connection EXCEPT ![c].position = used]
      /\ children' = [children EXCEPT ![p] = Moved(@, src, dst, entry)]
      /\ Publish(c, old, [parent |-> p, position |-> x])
  BY DEF Resettle
<1> HIDE DEF used
<1>3. src \in 1 .. Len(list) /\ dst \in 1 .. Len(list) + 1
  <2>1. src \in 1 .. Len(list) + 1 /\ Len(list) \in Nat
    BY <1>1, EntryLowerBoundType
  <2>2. dst \in 1 .. Len(list) + 1
    BY <1>1, LowerBoundProperties
  <2> QED  BY <1>2, <2>1, <2>2
<1>4. entry \in ChildEntry
  BY <1>1, <1>2, <1>3, ElementOfSeq DEF ChildEntry
<1>5. Moved(list, src, dst, entry) \in Seq(ChildEntry)
  BY <1>1, <1>3, <1>4, MovedType
<1>6. children' \in [Entity -> Seq(ChildEntry)]
  BY <1>2, <1>5 DEF TypeOK
<1>7. connection' \in [Entity -> Connection]
  BY <1>2 DEF TypeOK, Connection
<1>8. heard' \in [Entity -> Connection]
  <2>1. [parent |-> p, position |-> x] \in Connection
    BY <1>2 DEF Connection
  <2> QED  BY <1>2, <2>1, PublishType
<1> QED  BY <1>6, <1>7, <1>8 DEF TypeOK

\* Removing a child keeps the types.
LEMMA UnparentType ==
    ASSUME TypeOK, NEW c \in Entity, Unparent(c)
    PROVE  TypeOK'
<1> DEFINE p == ParentOf(c)
           shorter == Unlisted(children[p], c, connection[c].position)
<1>1. p \in Entity /\ children[p] \in Seq(ChildEntry)
  BY DEF Unparent, TypeOK, Connection, InTree, ParentOf
<1>2. shorter \in Seq(ChildEntry)
  BY <1>1, UnlistedType
<1>3. /\ connection' = [connection EXCEPT ![c] = NoPC]
      /\ children' = [children EXCEPT ![p] = shorter]
      /\ Publish(c, connection[c], NoPC)
  BY DEF Unparent, ParentOf
<1>4. NoPC \in Connection
  BY PosAssumption DEF NoPC, Connection
<1> HIDE DEF shorter
<1>5. heard' \in [Entity -> Connection]
  BY <1>3, <1>4, PublishType
<1>6. connection' \in [Entity -> Connection]
  BY <1>3, <1>4 DEF TypeOK
<1>7. children' \in [Entity -> Seq(ChildEntry)]
  BY <1>1, <1>2, <1>3 DEF TypeOK
<1> QED  BY <1>5, <1>6, <1>7 DEF TypeOK

\* Where Place finds a child of p is an index of the list or right behind it.
LEMMA PlaceType ==
    ASSUME TypeOK, NEW e, NEW p \in Entity
    PROVE  Place(e, p) \in 1 .. Len(children[p]) + 1
<1>1. children[p] \in Seq(ChildEntry)
  BY DEF TypeOK
<1> QED  BY <1>1, EntryLowerBoundType DEF Place

\* Every step keeps the types.
LEMMA NextType == TypeOK /\ [Next]_vars => TypeOK'
<1> SUFFICES ASSUME TypeOK, [Next]_vars PROVE TypeOK'
  OBVIOUS
<1>1. CASE UNCHANGED vars
  BY <1>1 DEF TypeOK, vars
<1>2. ASSUME NEW c \in Entity, NEW p \in Entity, NEW x, NEW maybeDupe,
             SetParent(c, p, x, maybeDupe)
      PROVE  TypeOK'
  BY <1>2, AdoptType, ResettleType DEF SetParent
<1>3. ASSUME NEW c \in Entity, Unparent(c) PROVE TypeOK'
  BY <1>3, UnparentType
<1>4. ASSUME NEW c \in Entity, InTree(c) 
      PROVE  /\ ParentOf(c) \in Entity
             /\ children[ParentOf(c)] \in Seq(ChildEntry)
             /\ \A e : Place(e, ParentOf(c))
                          \in 1 .. Len(children[ParentOf(c)]) + 1
  <2>1. ParentOf(c) \in Entity
    BY <1>4 DEF TypeOK, Connection, InTree, ParentOf
  <2> QED  BY <2>1, PlaceType DEF TypeOK
<1>5. ASSUME NEW c \in Entity, NEW x \in ExplicitPos, SetChildPosition(c, x)
      PROVE  TypeOK'
  <2> DEFINE dst == LowerBound(children[ParentOf(c)], x)
  <2>1. InTree(c) /\ Reorder(c, Place(c, ParentOf(c)), dst, x)
    BY <1>5 DEF SetChildPosition
  <2>2. dst \in 1 .. Len(children[ParentOf(c)]) + 1
    BY <2>1, <1>4, LowerBoundProperties
  <2> QED  BY <2>1, <2>2, <1>4, ReorderType
<1>6. ASSUME NEW c \in Entity, NEW e \in Entity, OrderBeforeSibling(c, e)
      PROVE  TypeOK'
  <2>1. /\ InTree(c)
        /\ \E x : Reorder(c, Place(c, ParentOf(c)), Place(e, ParentOf(c)), x)
    BY <1>6 DEF OrderBeforeSibling
  <2> QED  BY <2>1, <1>4, ReorderType
<1>7. ASSUME NEW c \in Entity, NEW e \in Entity, OrderToEnd(c, e)
      PROVE  TypeOK'
  <2> DEFINE end == Len(children[ParentOf(c)]) + 1
  <2>1. InTree(c) /\ \E x : Reorder(c, Place(c, ParentOf(c)), end, x)
    BY <1>7 DEF OrderToEnd
  <2>2. end \in 1 .. Len(children[ParentOf(c)]) + 1
    BY <2>1, <1>4
  <2> QED  BY <2>1, <2>2, <1>4, ReorderType
<1> QED
  BY <1>1, <1>2, <1>3, <1>5, <1>6, <1>7
     DEF Next, SetParentAtEnd, SetParentAt

\* Whatever the client does, even if it reuses positions, the components, the
\* lists and the listener's copy keep the form the code relies on.
THEOREM TypeCorrect == Spec => []TypeOK
<1>1. Init => TypeOK
  BY PosAssumption DEF Init, TypeOK, NoPC, Connection
<1> QED  BY <1>1, NextType, PTL DEF Spec

-----------------------------------------------------------------------------
(* Parents *)

\* All that a step does to the parents and to what a listener knows of them:
\* one entity at most gets another parent, one that may adopt it, or none, and
\* the signal, if there is one, names that parent.
OneLink(c) ==
    /\ \A e \in Entity \ {c} : ParentOf(e)' = ParentOf(e) /\ heard'[e] = heard[e]
    /\ \/ heard'[c].parent = ParentOf(c)'
       \/ heard'[c] = heard[c] /\ ParentOf(c)' = ParentOf(c)
    /\ \/ ParentOf(c)' \in {ParentOf(c), Null}
       \/ \E p \in Entity : ParentOf(c)' = p /\ MayAdopt(c, p)

\* A signal that names the new parent, or none when nothing changed.
LEMMA PublishLink ==
    ASSUME TypeOK, NEW c \in Entity, NEW now, NEW new,
           connection' = [connection EXCEPT ![c] = now],
           new.parent = now.parent,
           Publish(c, connection[c], new),
           \/ now.parent \in {ParentOf(c), Null}
           \/ \E p \in Entity : now.parent = p /\ MayAdopt(c, p)
    PROVE  OneLink(c)
<1>1. connection'[c] = now /\ \A e \in Entity \ {c} : connection'[e] = connection[e]
  BY DEF TypeOK
<1>2. \A e \in Entity \ {c} : heard'[e] = heard[e]
  BY DEF TypeOK, Publish
<1>3. \/ heard'[c] = new
      \/ heard'[c] = heard[c] /\ connection[c] = new
  BY DEF TypeOK, Publish
<1> QED  BY <1>1, <1>2, <1>3 DEF OneLink, ParentOf

\* A change of position among the siblings, reported with the same parent.
LEMMA RepositionLink ==
    ASSUME TypeOK, NEW c \in Entity, NEW x, NEW new,
           connection' = [connection EXCEPT ![c].position = x],
           new.parent = ParentOf(c),
           Publish(c, connection[c], new)
    PROVE  OneLink(c)
<1> DEFINE now == [connection[c] EXCEPT !.position = x]
<1>1. connection' = [connection EXCEPT ![c] = now]
  OBVIOUS
<1>2. now.parent = ParentOf(c)
  BY DEF TypeOK, Connection, ParentOf
<1> HIDE DEF now
<1> QED  BY <1>1, <1>2, PublishLink

\* set_parent is of this kind,
LEMMA SetParentLink ==
    ASSUME TypeOK, NEW c \in Entity, NEW p \in Entity, NEW x, NEW maybeDupe,
           SetParent(c, p, x, maybeDupe)
    PROVE  OneLink(c)
<1>1. CASE ParentOf(c) = p
  <2>1. Resettle(c, p, x, maybeDupe)
    BY <1>1 DEF SetParent
  <2>2. \E used : connection' = [connection EXCEPT ![c].position = used]
    BY <2>1 DEF Resettle
  <2>3. Publish(c, connection[c], [parent |-> p, position |-> x])
    BY <2>1 DEF Resettle
  <2> QED  BY <1>1, <2>2, <2>3, RepositionLink
<1>2. CASE ParentOf(c) # p
  <2>1. Adopt(c, p, x, maybeDupe) /\ MayAdopt(c, p)
    BY <1>2 DEF SetParent
  <2>2. connection' = [connection EXCEPT ![c] = [parent |-> p, position |-> x]]
    BY <2>1 DEF Adopt
  <2>3. \E used : Publish(c, connection[c], [parent |-> p, position |-> used])
    BY <2>1 DEF Adopt
  <2> QED  BY <2>1, <2>2, <2>3, PublishLink
<1> QED  BY <1>1, <1>2

\* unparent,
LEMMA UnparentLink ==
    ASSUME TypeOK, NEW c \in Entity, Unparent(c)
    PROVE  OneLink(c)
<1>1. /\ connection' = [connection EXCEPT ![c] = NoPC]
      /\ Publish(c, connection[c], NoPC)
  BY DEF Unparent
<1>2. NoPC.parent = Null
  BY DEF NoPC
<1> QED  BY <1>1, <1>2, PublishLink

\* and what moves a child among its siblings.
LEMMA ReorderLink ==
    ASSUME TypeOK, NEW c \in Entity, NEW src, NEW dst, NEW x,
           Reorder(c, src, dst, x)
    PROVE  OneLink(c)
<1>1. /\ connection' = [connection EXCEPT ![c].position = x]
      /\ Publish(c, connection[c], connection'[c])
  BY DEF Reorder
<1>2. connection'[c].parent = ParentOf(c)
  BY <1>1 DEF TypeOK, Connection, ParentOf
<1>3. \E new : new.parent = ParentOf(c) /\ Publish(c, connection[c], new)
  BY <1>1, <1>2
<1> QED  BY <1>1, <1>3, RepositionLink

\* Every step is of this kind.
LEMMA NextOneLink == TypeOK /\ Next => \E c \in Entity : OneLink(c)
BY SetParentLink, UnparentLink, ReorderLink
   DEF Next, SetParentAtEnd, SetParentAt, SetChildPosition,
       OrderBeforeSibling, OrderToEnd

\* The transform and bounds systems hear of every change of a parent, and what
\* they hear is right, also where the reported position is not.
THEOREM ListenerInformed == Spec => []ListenerKnowsParents
<1>1. Init => ListenerKnowsParents
  BY DEF Init, ListenerKnowsParents, ParentOf
<1>2. TypeOK /\ ListenerKnowsParents /\ [Next]_vars => ListenerKnowsParents'
  <2> SUFFICES ASSUME TypeOK, ListenerKnowsParents, [Next]_vars
               PROVE  ListenerKnowsParents'
    OBVIOUS
  <2>1. CASE UNCHANGED vars
    BY <2>1 DEF vars, ListenerKnowsParents, ParentOf
  <2>2. CASE Next
    <3>1. PICK c \in Entity : OneLink(c)
      BY <2>2, NextOneLink
    <3> QED  BY <3>1 DEF OneLink, ListenerKnowsParents
  <2> QED  BY <2>1, <2>2
<1> QED  BY <1>1, <1>2, TypeCorrect, PTL DEF Spec

\* A link that a client may make closes no cycle, and neither does removing
\* one.  For every entity there is a set that holds its parent, is closed
\* under taking parents and does not hold the entity; the cases rebuild such a
\* set from those of before the step.
LEMMA OneLinkAcyclic ==
    ASSUME Acyclic, NEW c \in Entity, OneLink(c), NEW e \in Entity
    PROVE  ~IsAncestorOf(e, e)'
<1> SUFFICES \E S \in SUBSET Entity :
                /\ \A d \in S : ParentOf(d)' \in S \cup {Null}
                /\ ParentOf(e)' \in S \cup {Null}
                /\ e \notin S
  BY DEF IsAncestorOf, UpClosed
<1>1. PICK Above \in SUBSET Entity :
         /\ \A d \in Above : ParentOf(d) \in Above \cup {Null}
         /\ ParentOf(e) \in Above \cup {Null}
         /\ e \notin Above
  BY DEF Acyclic, IsAncestorOf, UpClosed
<1>2. \A d \in Entity \ {c} : ParentOf(d)' = ParentOf(d)
  BY DEF OneLink
<1>3. CASE ParentOf(c)' \in {ParentOf(c), Null}
  <2>1. \A d \in Entity : ParentOf(d)' \in {ParentOf(d), Null}
    BY <1>2, <1>3
  <2>2. /\ \A d \in Above : ParentOf(d)' \in Above \cup {Null}
        /\ ParentOf(e)' \in Above \cup {Null}
    BY <1>1, <2>1
  <2> QED  BY <1>1, <2>2
<1>4. ASSUME NEW p \in Entity, ParentOf(c)' = p, MayAdopt(c, p)
      PROVE  \E S \in SUBSET Entity :
                /\ \A d \in S : ParentOf(d)' \in S \cup {Null}
                /\ ParentOf(e)' \in S \cup {Null}
                /\ e \notin S
  <2>1. PICK Over \in SUBSET Entity :
           /\ \A d \in Over : ParentOf(d) \in Over \cup {Null}
           /\ ParentOf(p) \in Over \cup {Null}
           /\ c \notin Over
    BY <1>4 DEF MayAdopt, IsAncestorOf, UpClosed
  <2> DEFINE New == Over \cup {p}
  <2>2. /\ New \in SUBSET Entity /\ p \in New /\ c \notin New
        /\ \A d \in New : ParentOf(d) \in New \cup {Null}
    BY <1>4, <2>1 DEF MayAdopt
  <2> HIDE DEF New
  <2>3. CASE e = c
    <3>1. \A d \in New : ParentOf(d)' \in New \cup {Null}
      BY <1>2, <2>2
    <3> QED  BY <1>4, <2>2, <2>3, <3>1
  <2>4. CASE e # c /\ e \notin New
    <3> DEFINE S == Above \cup New
    <3>1. \A d \in S : ParentOf(d)' \in S \cup {Null}
      BY <1>1, <1>2, <1>4, <2>2
    <3>2. S \in SUBSET Entity /\ e \notin S /\ ParentOf(e)' \in S \cup {Null}
      BY <1>1, <1>2, <2>2, <2>4
    <3> QED  BY <3>1, <3>2
  <2>5. CASE e # c /\ e \in New
    <3> DEFINE S == Above \cap New
    <3>1. \A d \in S : ParentOf(d)' \in S \cup {Null}
      BY <1>1, <1>2, <2>2
    <3>2. S \in SUBSET Entity /\ e \notin S /\ ParentOf(e)' \in S \cup {Null}
      BY <1>1, <1>2, <2>2, <2>5
    <3> QED  BY <3>1, <3>2
  <2> QED  BY <2>3, <2>4, <2>5
<1> QED  BY <1>3, <1>4 DEF OneLink

\* As long as clients ask is_ancestor_of before set_parent, no walk towards
\* the root can go round in a circle.
THEOREM NoCycles == Spec => []Acyclic
<1>1. Init => Acyclic
  <2> SUFFICES ASSUME Init, NEW e \in Entity PROVE ~IsAncestorOf(e, e)
    BY DEF Acyclic
  <2>1. ParentOf(e) = Null
    BY DEF Init, NoPC, ParentOf
  <2>2. /\ {} \in SUBSET Entity /\ UpClosed({}) /\ e \notin {}
        /\ ParentOf(e) \in {} \cup {Null}
    BY <2>1 DEF UpClosed
  <2> QED  BY <2>2 DEF IsAncestorOf
<1>2. TypeOK /\ Acyclic /\ [Next]_vars => Acyclic'
  <2> SUFFICES ASSUME TypeOK, Acyclic, [Next]_vars PROVE Acyclic'
    OBVIOUS
  <2>1. CASE UNCHANGED vars
    BY <2>1 DEF vars, Acyclic, IsAncestorOf, UpClosed, ParentOf
  <2>2. CASE Next
    <3>1. PICK c \in Entity : OneLink(c)
      BY <2>2, NextOneLink
    <3>2. \A e \in Entity : ~IsAncestorOf(e, e)'
      BY <3>1, OneLinkAcyclic
    <3> QED  BY <3>2 DEF Acyclic
  <2> QED  BY <2>1, <2>2
<1> QED  BY <1>1, <1>2, TypeCorrect, PTL DEF Spec

-----------------------------------------------------------------------------
(* Order within one list *)

Sorted(list) ==
    \A i, j \in 1 .. Len(list) :
        i < j => Under(list[i].position, list[j].position)

\* The entries of others than the one at src leave room for x before dst.
Around(list, src, dst, x) ==
    \A j \in 1 .. Len(list) : j # src =>
        /\ j < dst => Under(list[j].position, x)
        /\ j >= dst => Under(x, list[j].position)

\* x is the number of nobody in the list but c.
Apart(list, c, x) ==
    \A j \in 1 .. Len(list) : list[j].eid # c =>
        Under(list[j].position, x) \/ Under(x, list[j].position)

\* What stands in a list of entries.
LEMMA EntryType ==
    ASSUME NEW list \in Seq(ChildEntry), NEW j \in 1 .. Len(list)
    PROVE  /\ list[j] \in ChildEntry
           /\ list[j].eid \in Entity /\ list[j].position \in Pos
           /\ list[j] = [eid |-> list[j].eid, position |-> list[j].position]
<1>1. list[j] \in ChildEntry
  BY ElementOfSeq
<1> QED  BY <1>1 DEF ChildEntry

\* No position is under itself.
LEMMA UnderIrreflexive == ASSUME NEW x \in Pos PROVE ~Under(x, x)
BY OrderAssumption

\* Where the entries stand after an insertion.
LEMMA InsertedEntries ==
    ASSUME NEW list \in Seq(ChildEntry), NEW i \in 1 .. Len(list) + 1,
           NEW entry \in ChildEntry
    PROVE  /\ Len(InsertAt(list, i, entry)) = Len(list) + 1
           /\ \A j \in 1 .. i - 1 : InsertAt(list, i, entry)[j] = list[j]
           /\ InsertAt(list, i, entry)[i] = entry
           /\ \A j \in i + 1 .. Len(list) + 1 :
                 InsertAt(list, i, entry)[j] = list[j - 1]
BY InsertAtProperties

\* An insertion where there is room keeps a list sorted.
LEMMA InsertSorted ==
    ASSUME NEW list \in Seq(ChildEntry), Sorted(list),
           NEW i \in 1 .. Len(list) + 1, NEW entry \in ChildEntry,
           Around(list, 0, i, entry.position)
    PROVE  Sorted(InsertAt(list, i, entry))
<1> DEFINE new == InsertAt(list, i, entry)
<1>1. /\ Len(new) = Len(list) + 1
      /\ \A j \in 1 .. i - 1 : new[j] = list[j]
      /\ new[i] = entry
      /\ \A j \in i + 1 .. Len(list) + 1 : new[j] = list[j - 1]
  BY InsertedEntries
<1> HIDE DEF new
<1>2. ASSUME NEW j \in 1 .. Len(new), NEW k \in 1 .. Len(new), j < k
      PROVE  Under(new[j].position, new[k].position)
  <2>0. Len(list) \in Nat
    OBVIOUS
  <2>1. CASE k < i
    BY <1>1, <1>2, <2>0, <2>1 DEF Sorted
  <2>2. CASE k = i
    BY <1>1, <1>2, <2>0, <2>2 DEF Around
  <2>3. CASE k > i /\ j = i
    BY <1>1, <1>2, <2>0, <2>3 DEF Around
  <2>4. CASE k > i /\ j < i
    BY <1>1, <1>2, <2>0, <2>4 DEF Sorted
  <2>5. CASE k > i /\ j > i
    <3>1. /\ j - 1 \in 1 .. Len(list) /\ k - 1 \in 1 .. Len(list)
          /\ j - 1 < k - 1
      BY <1>1, <1>2, <2>0, <2>5
    <3>2. new[j] = list[j - 1] /\ new[k] = list[k - 1]
      BY <1>1, <1>2, <2>0, <2>5
    <3> QED  BY <3>1, <3>2 DEF Sorted
  <2> QED  BY <1>1, <1>2, <2>0, <2>1, <2>2, <2>3, <2>4, <2>5
<1> QED  BY <1>2 DEF Sorted, new

\* A removal keeps a list sorted.
LEMMA RemoveSorted ==
    ASSUME NEW list \in Seq(ChildEntry), Sorted(list), NEW i \in 1 .. Len(list)
    PROVE  Sorted(RemoveAt(list, i))
<1> DEFINE new == RemoveAt(list, i)
<1>1. /\ new \in Seq(ChildEntry) /\ Len(new) = Len(list) - 1
      /\ \A j \in 1 .. i - 1 : new[j] = list[j]
      /\ \A j \in i .. Len(list) - 1 : new[j] = list[j + 1]
  BY RemoveAtProperties
<1> HIDE DEF new
<1>2. ASSUME NEW j \in 1 .. Len(new), NEW k \in 1 .. Len(new), j < k
      PROVE  Under(new[j].position, new[k].position)
  <2> DEFINE from(m) == IF m < i THEN m ELSE m + 1
  <2>1. /\ from(j) \in 1 .. Len(list) /\ from(k) \in 1 .. Len(list)
        /\ from(j) < from(k)
    BY <1>1, <1>2
  <2>2. new[j] = list[from(j)] /\ new[k] = list[from(k)]
    BY <1>1
  <2> HIDE DEF from
  <2> QED  BY <2>1, <2>2 DEF Sorted
<1> QED  BY <1>2 DEF Sorted, new

\* A rotation to where there is room keeps a list sorted.
LEMMA MovedSorted ==
    ASSUME NEW list \in Seq(ChildEntry), Sorted(list),
           NEW src \in 1 .. Len(list), NEW dst \in 1 .. Len(list) + 1,
           NEW entry \in ChildEntry, Around(list, src, dst, entry.position)
    PROVE  Sorted(Moved(list, src, dst, entry))
<1> DEFINE rest == RemoveAt(list, src)
           at == IF dst > src THEN dst - 1 ELSE dst
<1>1. /\ rest \in Seq(ChildEntry) /\ Len(rest) = Len(list) - 1
      /\ \A j \in 1 .. src - 1 : rest[j] = list[j]
      /\ \A j \in src .. Len(list) - 1 : rest[j] = list[j + 1]
  BY RemoveAtProperties
<1>2. Sorted(rest)
  BY RemoveSorted
<1> HIDE DEF rest
<1>3. at \in 1 .. Len(rest) + 1
  BY <1>1
<1>4. ASSUME NEW j \in 1 .. Len(rest)
      PROVE  /\ j < at => Under(rest[j].position, entry.position)
             /\ j >= at => Under(entry.position, rest[j].position)
  <2>1. Len(list) \in Nat /\ j \in 1 .. Len(list) - 1
    BY <1>1
  <2>2. CASE j < src
    BY <1>1, <2>1, <2>2 DEF Around
  <2>3. CASE j >= src
    BY <1>1, <2>1, <2>3 DEF Around
  <2> QED  BY <2>1, <2>2, <2>3
<1>5. Around(rest, 0, at, entry.position)
  BY <1>4 DEF Around
<1> HIDE DEF at
<1>6. Sorted(InsertAt(rest, at, entry))
  BY <1>1, <1>2, <1>3, <1>5, InsertSorted
<1> QED  BY <1>6 DEF Moved, rest, at

\* Bisection finds the room for a number that the others do not have.
LEMMA LowerBoundAround ==
    ASSUME NEW list \in Seq(ChildEntry), Sorted(list), NEW c,
           NEW x \in Pos, Apart(list, c, x)
    PROVE  \A j \in 1 .. Len(list) : list[j].eid # c =>
              /\ j < LowerBound(list, x) => Under(list[j].position, x)
              /\ j >= LowerBound(list, x) => Under(x, list[j].position)
<1> DEFINE dst == LowerBound(list, x)
<1>1. /\ dst \in 1 .. Len(list) + 1
      /\ \A j \in 1 .. dst - 1 : Less(list[j].position, x)
      /\ dst <= Len(list) => ~Less(list[dst].position, x)
  BY LowerBoundProperties
<1> HIDE DEF dst
<1>2. ASSUME NEW j \in 1 .. Len(list), list[j].eid # c
      PROVE  /\ j < dst => Under(list[j].position, x)
             /\ j >= dst => Under(x, list[j].position)
  <2>1. /\ list[j].position \in Pos
        /\ Under(list[j].position, x) \/ Under(x, list[j].position)
    BY <1>2, EntryType DEF Apart
  <2>2. CASE j < dst
    <3>1. Less(list[j].position, x)
      BY <1>1, <2>2
    <3>2. ~Under(x, list[j].position)
      BY <2>1, <3>1, OrderAssumption
    <3> QED  BY <1>1, <2>1, <2>2, <3>2
  <2>3. CASE j >= dst
    <3>1. dst \in 1 .. Len(list) /\ ~Less(list[dst].position, x)
      BY <1>1, <2>3
    <3>2. list[dst].position \in Pos
      BY <3>1, EntryType
    <3>3. CASE j = dst
      BY <2>1, <3>1, <3>3, OrderAssumption
    <3>4. CASE j > dst
      <4>1. Under(list[dst].position, list[j].position)
        BY <3>1, <3>4 DEF Sorted
      <4>2. ~Under(list[j].position, x)
        BY <2>1, <3>1, <3>2, <4>1, OrderAssumption
      <4> QED  BY <1>1, <2>1, <2>3, <4>2
    <3> QED  BY <1>1, <2>3, <3>3, <3>4
  <2> QED  BY <1>1, <2>2, <2>3
<1> QED  BY <1>2 DEF dst

\* after() of the last child is over all of them.
LEMMA NextOverAll ==
    ASSUME NEW list \in Seq(ChildEntry), Sorted(list), list # <<>>,
           NextPos(Last(list).position) \in Pos
    PROVE  \A j \in 1 .. Len(list) :
              Under(list[j].position, NextPos(Last(list).position))
<1> DEFINE n == Len(list)
           x == NextPos(Last(list).position)
<1>1. n \in 1 .. Len(list) /\ Last(list) = list[n]
  BY EmptySeq DEF Last
<1>2. list[n].position \in Pos
  BY <1>1, EntryType
<1>3. Under(list[n].position, x)
  BY <1>1, <1>2, StepAssumption
<1> HIDE DEF x
<1>4. ASSUME NEW j \in 1 .. Len(list) PROVE Under(list[j].position, x)
  <2>1. CASE j = n
    BY <1>3, <2>1
  <2>2. CASE j < n
    <3>1. Under(list[j].position, list[n].position)
      BY <1>1, <2>2 DEF Sorted
    <3>2. list[j].position \in Pos
      BY EntryType
    <3> QED  BY <1>1, <1>2, <1>3, <3>1, <3>2, OrderAssumption DEF x
  <2> QED  BY <1>1, <2>1, <2>2
<1> QED  BY <1>4 DEF x

-----------------------------------------------------------------------------
(* Who stands in one list *)

\* Two lists have the same entries, apart from those of c.
SameOthers(new, old, c) ==
    /\ \A i \in 1 .. Len(new) : new[i].eid # c =>
          \E j \in 1 .. Len(old) : old[j] = new[i]
    /\ \A j \in 1 .. Len(old) : old[j].eid # c =>
          \E i \in 1 .. Len(new) : new[i] = old[j]

\* An insertion adds one entry.
LEMMA InsertOthers ==
    ASSUME NEW list \in Seq(ChildEntry), NEW i \in 1 .. Len(list) + 1,
           NEW entry \in ChildEntry
    PROVE  LET new == InsertAt(list, i, entry)
           IN  /\ SameOthers(new, list, entry.eid)
               /\ \E k \in 1 .. Len(new) : new[k] = entry
               /\ \A k \in 1 .. Len(new) :
                     new[k] = entry \/ \E j \in 1 .. Len(list) : list[j] = new[k]
<1> DEFINE new == InsertAt(list, i, entry)
<1>1. /\ Len(new) = Len(list) + 1 /\ Len(list) \in Nat
      /\ \A j \in 1 .. i - 1 : new[j] = list[j]
      /\ new[i] = entry
      /\ \A j \in i + 1 .. Len(list) + 1 : new[j] = list[j - 1]
  BY InsertAtProperties
<1> HIDE DEF new
<1>2. ASSUME NEW k \in 1 .. Len(new)
      PROVE  new[k] = entry \/ \E j \in 1 .. Len(list) : list[j] = new[k]
  <2>1. CASE k < i
    BY <1>1, <2>1
  <2>2. CASE k = i
    BY <1>1, <2>2
  <2>3. CASE k > i
    <3>1. k - 1 \in 1 .. Len(list) /\ new[k] = list[k - 1]
      BY <1>1, <2>3
    <3> QED  BY <3>1
  <2> QED  BY <1>1, <2>1, <2>2, <2>3
<1>3. ASSUME NEW j \in 1 .. Len(list)
      PROVE  \E k \in 1 .. Len(new) : new[k] = list[j]
  <2>1. CASE j < i
    BY <1>1, <2>1
  <2>2. CASE j >= i
    <3>1. j + 1 \in 1 .. Len(new) /\ new[j + 1] = list[j]
      BY <1>1, <2>2
    <3> QED  BY <3>1
  <2> QED  BY <1>1, <2>1, <2>2
<1>4. i \in 1 .. Len(new) /\ new[i] = entry
  BY <1>1
<1>5. SameOthers(new, list, entry.eid)
  BY <1>2, <1>3 DEF SameOthers
<1> QED  BY <1>2, <1>4, <1>5 DEF new

\* The entries of c stand at src and nowhere else.
OnlyAt(list, c, src) ==
    src \in 1 .. Len(list) /\ \A j \in 1 .. Len(list) : list[j].eid = c <=> j = src

\* A removal takes one entry.
LEMMA RemoveOthers ==
    ASSUME NEW list \in Seq(ChildEntry), NEW c, NEW src, OnlyAt(list, c, src)
    PROVE  LET new == RemoveAt(list, src)
           IN  /\ SameOthers(new, list, c)
               /\ \A k \in 1 .. Len(new) : new[k].eid # c
<1> DEFINE new == RemoveAt(list, src)
<1>0. src \in 1 .. Len(list)
  BY DEF OnlyAt
<1>1. /\ Len(new) = Len(list) - 1 /\ Len(list) \in Nat
      /\ \A j \in 1 .. src - 1 : new[j] = list[j]
      /\ \A j \in src .. Len(list) - 1 : new[j] = list[j + 1]
  BY <1>0, RemoveAtProperties
<1> HIDE DEF new
<1>2. ASSUME NEW k \in 1 .. Len(new)
      PROVE  new[k].eid # c /\ \E j \in 1 .. Len(list) : list[j] = new[k]
  <2> DEFINE from == IF k < src THEN k ELSE k + 1
  <2>1. from \in 1 .. Len(list) /\ from # src /\ new[k] = list[from]
    BY <1>0, <1>1
  <2> HIDE DEF from
  <2> QED  BY <2>1 DEF OnlyAt
<1>3. ASSUME NEW j \in 1 .. Len(list), list[j].eid # c
      PROVE  \E k \in 1 .. Len(new) : new[k] = list[j]
  <2> DEFINE to == IF j < src THEN j ELSE j - 1
  <2>1. j # src
    BY <1>3 DEF OnlyAt
  <2>2. to \in 1 .. Len(new) /\ new[to] = list[j]
    BY <1>0, <1>1, <2>1
  <2> QED  BY <2>2
<1>4. SameOthers(new, list, c)
  BY <1>2, <1>3 DEF SameOthers
<1> QED  BY <1>2, <1>4 DEF new

\* A rotation that rewrites the entry of c keeps the others.
LEMMA MovedOthers ==
    ASSUME NEW list \in Seq(ChildEntry), NEW src, NEW dst \in 1 .. Len(list) + 1,
           NEW entry \in ChildEntry, OnlyAt(list, entry.eid, src)
    PROVE  LET new == Moved(list, src, dst, entry)
           IN  /\ SameOthers(new, list, entry.eid)
               /\ \E k \in 1 .. Len(new) : new[k] = entry
               /\ \A k \in 1 .. Len(new) :
                     new[k].eid = entry.eid => new[k] = entry
<1> DEFINE rest == RemoveAt(list, src)
           at == IF dst > src THEN dst - 1 ELSE dst
           new == InsertAt(rest, at, entry)
<1>0. src \in 1 .. Len(list)
  BY DEF OnlyAt
<1>1. rest \in Seq(ChildEntry) /\ Len(rest) = Len(list) - 1
  BY <1>0, RemoveAtProperties
<1>2. /\ SameOthers(rest, list, entry.eid)
      /\ \A k \in 1 .. Len(rest) : rest[k].eid # entry.eid
  BY RemoveOthers
<1>3. at \in 1 .. Len(rest) + 1
  BY <1>0, <1>1
<1> HIDE DEF rest, at
<1>4. /\ SameOthers(new, rest, entry.eid)
      /\ \E k \in 1 .. Len(new) : new[k] = entry
      /\ \A k \in 1 .. Len(new) :
            new[k] = entry \/ \E j \in 1 .. Len(rest) : rest[j] = new[k]
  BY <1>1, <1>3, InsertOthers
<1> HIDE DEF new
<1>5. \A k \in 1 .. Len(new) : new[k].eid = entry.eid => new[k] = entry
  BY <1>2, <1>4
<1>6. SameOthers(new, list, entry.eid)
  BY <1>2, <1>4 DEF SameOthers
<1> QED  BY <1>4, <1>5, <1>6 DEF Moved, new, rest, at

-----------------------------------------------------------------------------
(* The two copies of the tree *)

SafeInv == TypeOK /\ CacheCoherent /\ StrictlySorted

\* The list of one parent, as the invariant gives it.
LEMMA ListFacts ==
    ASSUME SafeInv, NEW p \in Entity
    PROVE  /\ children[p] \in Seq(ChildEntry) /\ Sorted(children[p])
           /\ \A j \in 1 .. Len(children[p]) :
                 /\ children[p][j].eid \in Entity
                 /\ ParentOf(children[p][j].eid) = p
                 /\ connection[children[p][j].eid].position
                       = children[p][j].position
<1>1. children[p] \in Seq(ChildEntry)
  BY DEF SafeInv, TypeOK
<1>2. DOMAIN children[p] = 1 .. Len(children[p])
  BY <1>1, LenProperties
<1>3. Sorted(children[p])
  BY <1>2 DEF SafeInv, StrictlySorted, Sorted
<1>4. \A j \in 1 .. Len(children[p]) : children[p][j].eid \in Entity
  BY <1>1, EntryType
<1>5. ASSUME NEW j \in 1 .. Len(children[p])
      PROVE  connection[children[p][j].eid] =
                [parent |-> p, position |-> children[p][j].position]
  BY <1>2 DEF SafeInv, CacheCoherent, EntriesMatchComponents
<1>6. ASSUME NEW j \in 1 .. Len(children[p])
      PROVE  /\ ParentOf(children[p][j].eid) = p
             /\ connection[children[p][j].eid].position
                   = children[p][j].position
  <2> DEFINE e == children[p][j].eid
             x == children[p][j].position
  <2>1. connection[e] = [parent |-> p, position |-> x]
    BY <1>5
  <2> HIDE DEF e, x
  <2>2. connection[e].parent = p /\ connection[e].position = x
    BY <2>1
  <2> QED  BY <2>2 DEF ParentOf, e, x
<1> QED  BY <1>1, <1>3, <1>4, <1>6

\* Bisection for a child finds its entry, and no other entry is its own: what
\* unparent and the reorderings rely on.
LEMMA PlaceFound ==
    ASSUME SafeInv, NEW c \in Entity, InTree(c)
    PROVE  /\ ParentOf(c) \in Entity
           /\ OnlyAt(children[ParentOf(c)], c, Place(c, ParentOf(c)))
<1> DEFINE p == ParentOf(c)
           list == children[p]
           x == connection[c].position
           k == Place(c, p)
<1>1. p \in Entity /\ x \in Pos
  BY DEF SafeInv, TypeOK, Connection, InTree, ParentOf
<1>2. /\ list \in Seq(ChildEntry) /\ Sorted(list)
      /\ \A j \in 1 .. Len(list) :
            /\ list[j].eid \in Entity
            /\ connection[list[j].eid].position = list[j].position
  BY <1>1, ListFacts
<1>3. PICK m \in 1 .. Len(list) : list[m].eid = c
  <2>1. \E i \in DOMAIN list : list[i].eid = c
    BY DEF SafeInv, CacheCoherent, ChildrenAreListed
  <2> QED  BY <1>2, <2>1, LenProperties
<1> HIDE DEF list
<1>4. list[m].position = x
  BY <1>2, <1>3
<1>5. \A j \in 1 .. Len(list) : list[j].eid = c => j = m
  <2> SUFFICES ASSUME NEW j \in 1 .. Len(list), list[j].eid = c, j # m
               PROVE  FALSE
    OBVIOUS
  <2>1. list[j].position = x
    BY <1>2
  <2>2. Under(x, x)
    <3>1. j < m \/ m < j
      OBVIOUS
    <3> QED  BY <1>4, <2>1, <3>1, <1>2 DEF Sorted
  <2> QED  BY <1>1, <2>2, UnderIrreflexive
<1>6. /\ k \in 1 .. Len(list) + 1
      /\ \A j \in 1 .. k - 1 : EntryBelow(list[j], [eid |-> c, position |-> x])
      /\ k <= Len(list) => ~EntryBelow(list[k], [eid |-> c, position |-> x])
  BY <1>2, EntryLowerBoundProperties DEF Place, list
<1> HIDE DEF k
<1>7. ~(k < m)
  <2> SUFFICES ASSUME k < m PROVE FALSE
    OBVIOUS
  <2>1. k \in 1 .. Len(list)
    BY <1>6
  <2>2. Less(list[k].position, x)
    <3>1. Under(list[k].position, x)
      BY <1>2, <1>4, <2>1 DEF Sorted
    <3>2. list[k].position \in Pos
      BY <1>2, <2>1, EntryType
    <3> QED  BY <1>1, <3>1, <3>2, OrderAssumption
  <2> QED  BY <1>6, <2>1, <2>2 DEF EntryBelow
<1>8. ~(k > m)
  <2> SUFFICES ASSUME k > m PROVE FALSE
    OBVIOUS
  <2>1. EntryBelow(list[m], [eid |-> c, position |-> x])
    BY <1>6
  <2>2. ~Less(x, x)
    BY <1>1, OrderAssumption
  <2>3. ~(c < c)
    BY EntityAssumption
  <2> QED  BY <1>3, <1>4, <2>1, <2>2, <2>3 DEF EntryBelow
<1>9. k = m
  BY <1>6, <1>7, <1>8
<1> QED  BY <1>1, <1>3, <1>5, <1>9 DEF OnlyAt, k, list

\* A step that rewrites one connection, and in the lists only the entries of
\* that child, accordingly.
LEMMA CoherentStep ==
    ASSUME SafeInv, TypeOK', NEW c \in Entity, NEW now \in Connection,
           connection' = [connection EXCEPT ![c] = now],
           \A p \in Entity : SameOthers(children'[p], children[p], c),
           \A p \in Entity : \A i \in 1 .. Len(children'[p]) :
              children'[p][i].eid = c =>
                 p = now.parent /\ children'[p][i].position = now.position,
           now.parent # Null =>
              \E i \in 1 .. Len(children'[now.parent]) :
                 children'[now.parent][i].eid = c
    PROVE  CacheCoherent'
<1>1. /\ connection'[c] = now
      /\ \A e \in Entity \ {c} : connection'[e] = connection[e]
  BY DEF SafeInv, TypeOK
<1>2. now = [parent |-> now.parent, position |-> now.position]
  BY DEF Connection
<1>3. \A p \in Entity : DOMAIN children'[p] = 1 .. Len(children'[p])
  <2>1. \A p \in Entity : children'[p] \in Seq(ChildEntry)
    BY DEF TypeOK
  <2> QED  BY <2>1, LenProperties
<1>4. ASSUME NEW p \in Entity, NEW i \in 1 .. Len(children'[p])
      PROVE  connection'[children'[p][i].eid] =
                [parent |-> p, position |-> children'[p][i].position]
  <2>1. CASE children'[p][i].eid = c
    BY <1>1, <1>2, <1>4, <2>1
  <2>2. CASE children'[p][i].eid # c
    <3>1. PICK j \in 1 .. Len(children[p]) : children[p][j] = children'[p][i]
      BY <1>4, <2>2 DEF SameOthers
    <3>2. /\ children[p][j].eid \in Entity
          /\ connection[children[p][j].eid] =
                [parent |-> p, position |-> children[p][j].position]
      <4>1. children[p][j].eid \in Entity
        BY ListFacts
      <4>2. DOMAIN children[p] = 1 .. Len(children[p])
        BY ListFacts, LenProperties
      <4> QED
        BY <4>1, <4>2 DEF SafeInv, CacheCoherent, EntriesMatchComponents
    <3> QED  BY <1>1, <2>2, <3>1, <3>2
  <2> QED  BY <2>1, <2>2
<1>5. ASSUME NEW e \in Entity, connection'[e].parent # Null
      PROVE  \E i \in 1 .. Len(children'[connection'[e].parent]) :
                children'[connection'[e].parent][i].eid = e
  <2>1. CASE e = c
    BY <1>1, <1>5, <2>1
  <2>2. CASE e # c
    <3> DEFINE p == connection[e].parent
    <3>1. connection'[e].parent = p /\ p # Null
      BY <1>1, <1>5, <2>2
    <3>2. p \in Entity
      BY <3>1 DEF SafeInv, TypeOK, Connection
    <3>3. PICK i \in 1 .. Len(children[p]) : children[p][i].eid = e
      <4>1. \E i \in DOMAIN children[p] : children[p][i].eid = e
        BY <3>1 DEF SafeInv, CacheCoherent, ChildrenAreListed, InTree, ParentOf
      <4>2. DOMAIN children[p] = 1 .. Len(children[p])
        BY <3>2, ListFacts, LenProperties
      <4> QED  BY <4>1, <4>2
    <3>4. \E k \in 1 .. Len(children'[p]) : children'[p][k] = children[p][i]
      BY <2>2, <3>2, <3>3 DEF SameOthers
    <3> QED  BY <3>1, <3>3, <3>4
  <2> QED  BY <2>1, <2>2
<1>6. EntriesMatchComponents'
  BY <1>3, <1>4 DEF EntriesMatchComponents
<1>7. ChildrenAreListed'
  <2>1. ASSUME NEW e \in Entity, connection'[e].parent # Null
        PROVE  \E i \in DOMAIN children'[connection'[e].parent] :
                  children'[connection'[e].parent][i].eid = e
    <3>1. connection'[e].parent \in Entity
      BY <2>1 DEF TypeOK, Connection
    <3> QED  BY <1>3, <1>5, <2>1, <3>1
  <2> QED  BY <2>1 DEF ChildrenAreListed, InTree, ParentOf
<1> QED  BY <1>6, <1>7 DEF CacheCoherent

\* The order of the lists, in the form of the lemmas.
LEMMA SortedStep ==
    ASSUME TypeOK', \A p \in Entity : Sorted(children'[p])
    PROVE  StrictlySorted'
<1>1. \A p \in Entity : children'[p] \in Seq(ChildEntry)
  BY DEF TypeOK
<1>2. \A p \in Entity : DOMAIN children'[p] = 1 .. Len(children'[p])
  BY <1>1, LenProperties
<1> QED  BY <1>2 DEF StrictlySorted, Sorted

-----------------------------------------------------------------------------
(* The steps *)

\* A step that changes the list of the child's parent only.
LEMMA OneListStep ==
    ASSUME SafeInv, TypeOK', NEW c \in Entity, NEW p \in Entity, ParentOf(c) = p,
           NEW now \in Connection, connection' = [connection EXCEPT ![c] = now],
           now.parent \in {p, Null},
           \A q \in Entity \ {p} : children'[q] = children[q],
           Sorted(children'[p]),
           SameOthers(children'[p], children[p], c),
           \A i \in 1 .. Len(children'[p]) : children'[p][i].eid = c =>
              now.parent = p /\ children'[p][i].position = now.position,
           now.parent = p =>
              \E i \in 1 .. Len(children'[p]) : children'[p][i].eid = c
    PROVE  SafeInv'
<1>1. \A q \in Entity \ {p} : /\ Sorted(children[q])
                              /\ SameOthers(children[q], children[q], c)
                              /\ \A i \in 1 .. Len(children[q]) :
                                    children[q][i].eid # c
  BY ListFacts DEF SameOthers
<1>2. \A q \in Entity : Sorted(children'[q])
  BY <1>1
<1>3. \A q \in Entity : SameOthers(children'[q], children[q], c)
  BY <1>1
<1>4. \A q \in Entity : \A i \in 1 .. Len(children'[q]) :
         children'[q][i].eid = c =>
            q = now.parent /\ children'[q][i].position = now.position
  BY <1>1
<1>5. now.parent # Null =>
         \E i \in 1 .. Len(children'[now.parent]) :
            children'[now.parent][i].eid = c
  OBVIOUS
<1>6. CacheCoherent'
  BY <1>3, <1>4, <1>5, CoherentStep
<1>7. StrictlySorted'
  BY <1>2, SortedStep
<1> QED  BY <1>6, <1>7 DEF SafeInv

\* The list after a rotation that rewrites the entry of c.
LEMMA MovedList ==
    ASSUME NEW list \in Seq(ChildEntry), Sorted(list), NEW c \in Entity,
           NEW src, NEW dst \in 1 .. Len(list) + 1, NEW x \in Pos,
           OnlyAt(list, c, src), Around(list, src, dst, x), NEW moved,
           moved = Moved(list, src, dst, [eid |-> c, position |-> x])
    PROVE  /\ Sorted(moved)
           /\ SameOthers(moved, list, c)
           /\ \E k \in 1 .. Len(moved) : moved[k].eid = c
           /\ \A k \in 1 .. Len(moved) : moved[k].eid = c => moved[k].position = x
<1> DEFINE entry == [eid |-> c, position |-> x]
<1>1. entry \in ChildEntry /\ entry.eid = c /\ entry.position = x
  BY DEF ChildEntry
<1>2. src \in 1 .. Len(list)
  BY DEF OnlyAt
<1>3. moved = Moved(list, src, dst, entry)
  OBVIOUS
<1> HIDE DEF entry
<1>4. Sorted(moved)
  BY <1>1, <1>2, <1>3, MovedSorted
<1>5. /\ SameOthers(moved, list, entry.eid)
      /\ \E k \in 1 .. Len(moved) : moved[k] = entry
      /\ \A k \in 1 .. Len(moved) : moved[k].eid = entry.eid => moved[k] = entry
  <2>1. OnlyAt(list, entry.eid, src)
    BY <1>1
  <2>2. LET new == Moved(list, src, dst, entry)
        IN  /\ SameOthers(new, list, entry.eid)
            /\ \E k \in 1 .. Len(new) : new[k] = entry
            /\ \A k \in 1 .. Len(new) :
                  new[k].eid = entry.eid => new[k] = entry
    BY <1>1, <2>1, MovedOthers
  <2> QED  BY <1>3, <2>2
<1> QED  BY <1>1, <1>4, <1>5

\* One child of p gets position x and its entry the place before dst: right
\* if there is room for x.
LEMMA RepositionSafe ==
    ASSUME SafeInv, TypeOK', NEW c \in Entity, InTree(c), NEW x \in Pos,
           NEW dst \in 1 .. Len(children[ParentOf(c)]) + 1,
           Around(children[ParentOf(c)], Place(c, ParentOf(c)), dst, x),
           connection' = [connection EXCEPT ![c].position = x],
           children' = [children EXCEPT
                           ![ParentOf(c)] = Moved(@, Place(c, ParentOf(c)), dst,
                                                  [eid |-> c, position |-> x])]
    PROVE  SafeInv'
<1> DEFINE p == ParentOf(c)
           now == [parent |-> p, position |-> x]
<1>1. p \in Entity /\ OnlyAt(children[p], c, Place(c, p))
  BY PlaceFound
<1>2. children[p] \in Seq(ChildEntry) /\ Sorted(children[p])
  BY <1>1, ListFacts
<1>3. /\ children'[p] = Moved(children[p], Place(c, p), dst,
                              [eid |-> c, position |-> x])
      /\ \A q \in Entity \ {p} : children'[q] = children[q]
  BY <1>1 DEF SafeInv, TypeOK
<1>4. /\ Sorted(children'[p])
      /\ SameOthers(children'[p], children[p], c)
      /\ \E k \in 1 .. Len(children'[p]) : children'[p][k].eid = c
      /\ \A k \in 1 .. Len(children'[p]) :
            children'[p][k].eid = c => children'[p][k].position = x
  BY <1>1, <1>2, <1>3, MovedList
<1>5. connection' = [connection EXCEPT ![c] = now]
  <2>1. connection[c] \in Connection /\ connection[c].parent = p
    BY DEF SafeInv, TypeOK, ParentOf
  <2>2. [connection[c] EXCEPT !.position = x] = now
    BY <2>1 DEF Connection
  <2> QED  BY <2>2
<1>6. now \in Connection /\ now.parent = p /\ now.position = x
  BY <1>1 DEF Connection
<1> HIDE DEF now, p
<1>7. /\ \A i \in 1 .. Len(children'[p]) : children'[p][i].eid = c =>
            now.parent = p /\ children'[p][i].position = now.position
      /\ ParentOf(c) = p
  BY <1>4, <1>6 DEF p
<1> QED  BY <1>1, <1>3, <1>4, <1>5, <1>6, <1>7, OneListStep

\* Reorder is such a step.
LEMMA ReorderSafe ==
    ASSUME SafeInv, TypeOK', NEW c \in Entity, InTree(c), NEW x,
           NEW dst \in 1 .. Len(children[ParentOf(c)]) + 1,
           Reorder(c, Place(c, ParentOf(c)), dst, x),
           x \in Pos =>
              Around(children[ParentOf(c)], Place(c, ParentOf(c)), dst, x)
    PROVE  SafeInv'
<1>1. OnlyAt(children[ParentOf(c)], c, Place(c, ParentOf(c)))
  BY PlaceFound
<1>2. children[ParentOf(c)][Place(c, ParentOf(c))].eid = c
  BY <1>1 DEF OnlyAt
<1>3. /\ x \in Pos
      /\ connection' = [connection EXCEPT ![c].position = x]
      /\ children' = [children EXCEPT
                         ![ParentOf(c)] = Moved(@, Place(c, ParentOf(c)), dst,
                                                [eid |-> c, position |-> x])]
  BY <1>2 DEF Reorder
<1> QED  BY <1>3, RepositionSafe

\* A fresh number is apart from those of the siblings.
LEMMA FreshApart ==
    ASSUME SafeInv, Reuse = FALSE, NEW c \in Entity, NEW p \in Entity, NEW x,
           Fresh(c, p, x)
    PROVE  Apart(children[p], c, x)
BY ListFacts DEF Fresh, Apart

\* Room at the bisected place, except for the entry of c.
LEMMA ApartAround ==
    ASSUME SafeInv, NEW c \in Entity, InTree(c), NEW x \in Pos,
           Apart(children[ParentOf(c)], c, x)
    PROVE  Around(children[ParentOf(c)], Place(c, ParentOf(c)),
                  LowerBound(children[ParentOf(c)], x), x)
<1> DEFINE list == children[ParentOf(c)]
           src == Place(c, ParentOf(c))
           dst == LowerBound(list, x)
<1>1. ParentOf(c) \in Entity /\ OnlyAt(list, c, src)
  BY PlaceFound
<1>2. list \in Seq(ChildEntry) /\ Sorted(list)
  BY <1>1, ListFacts
<1>3. \A j \in 1 .. Len(list) : list[j].eid # c =>
         /\ j < dst => Under(list[j].position, x)
         /\ j >= dst => Under(x, list[j].position)
  BY <1>2, LowerBoundAround
<1> HIDE DEF src, dst, list
<1>4. Around(list, src, dst, x)
  BY <1>1, <1>3 DEF Around, OnlyAt
<1> QED  BY <1>4 DEF list, src, dst

\* A child whose position is over all of the list belongs behind the end.
LEMMA LastAround ==
    ASSUME NEW list \in Seq(ChildEntry), NEW src, NEW x,
           \A j \in 1 .. Len(list) : Under(list[j].position, x)
    PROVE  Around(list, src, Len(list) + 1, x)
BY DEF Around

\* A position over all of the list is apart from all.
LEMMA OverApart ==
    ASSUME NEW list \in Seq(ChildEntry), NEW c, NEW x,
           \A j \in 1 .. Len(list) : Under(list[j].position, x)
    PROVE  Apart(list, c, x)
BY DEF Apart

\* unparent
LEMMA UnparentSafe ==
    ASSUME SafeInv, TypeOK', NEW c \in Entity, Unparent(c)
    PROVE  SafeInv'
<1> DEFINE p == ParentOf(c)
           list == children[p]
           src == Place(c, p)
           rest == RemoveAt(list, src)
<1>1. p \in Entity /\ OnlyAt(list, c, src)
  BY PlaceFound DEF Unparent
<1>2. list \in Seq(ChildEntry) /\ Sorted(list) /\ src \in 1 .. Len(list)
  BY <1>1, ListFacts DEF OnlyAt
<1>3. children' = [children EXCEPT ![p] = rest]
  BY <1>2 DEF Unparent, Unlisted, Place, ParentOf
<1>4. connection' = [connection EXCEPT ![c] = NoPC]
  BY DEF Unparent
<1>5. NoPC \in Connection /\ NoPC.parent = Null
  BY PosAssumption DEF NoPC, Connection
<1>6. Sorted(rest)
  BY <1>2, RemoveSorted
<1>7. SameOthers(rest, list, c) /\ \A k \in 1 .. Len(rest) : rest[k].eid # c
  BY <1>1, <1>2, RemoveOthers
<1> HIDE DEF rest, src
<1>8. /\ children'[p] = rest
      /\ \A q \in Entity \ {p} : children'[q] = children[q]
  BY <1>1, <1>3 DEF SafeInv, TypeOK
<1>9. ParentOf(c) = p /\ NoPC.parent # p
  BY <1>1, <1>5, EntityAssumption
<1> HIDE DEF p
<1> QED  BY <1>1, <1>4, <1>5, <1>6, <1>7, <1>8, <1>9, OneListStep

\* set_parent with the parent the child has.  A fresh x can meet one entry
\* only, the child's own, and then the child stays between its neighbours.
LEMMA ResettleSafe ==
    ASSUME SafeInv, TypeOK', NEW c \in Entity, NEW p \in Entity, NEW x,
           NEW maybeDupe \in BOOLEAN, ParentOf(c) = p,
           Apart(children[p], c, x), Resettle(c, p, x, maybeDupe)
    PROVE  SafeInv'
<1> DEFINE list == children[p]
           src == Place(c, p)
           dst == LowerBound(list, x)
           marked == [list EXCEPT ![src].position = x]
           used == IF maybeDupe /\ dst # src THEN Deduped(marked, x, dst) ELSE x
<1>1. InTree(c) /\ OnlyAt(list, c, src)
  <2>1. InTree(c)
    BY EntityAssumption DEF InTree
  <2> QED  BY <2>1, PlaceFound
<1>2. list \in Seq(ChildEntry) /\ Sorted(list)
  BY ListFacts
<1>3. /\ x \in Pos /\ used \in Pos
      /\ connection' = [connection EXCEPT ![c].position = used]
      /\ children' = [children EXCEPT
                         ![p] = Moved(@, src, dst, [eid |-> list[src].eid,
                                                    position |-> used])]
  BY DEF Resettle, Place
<1>4. src \in 1 .. Len(list) /\ list[src].eid = c
  BY <1>1 DEF OnlyAt
<1>5. dst \in 1 .. Len(list) + 1
  BY <1>2, LowerBoundProperties
<1>6. Around(list, src, dst, x)
  BY <1>1, <1>3, ApartAround
<1>7. /\ Len(marked) = Len(list)
      /\ \A j \in 1 .. Len(list) :
            marked[j].position = IF j = src THEN x ELSE list[j].position
  <2>1. list[src] \in ChildEntry
    BY <1>2, <1>4, EntryType
  <2>2. [list[src] EXCEPT !.position = x].position = x
    BY <2>1 DEF ChildEntry
  <2> QED  BY <1>2, <1>4, <2>2
<1> HIDE DEF list, src, dst, marked
<1>8. \A j \in 1 .. Len(list) : list[j].position \in Pos
  BY <1>2, EntryType
<1>9. \A j \in 1 .. Len(list) : j # src => list[j].position # x
  BY <1>3, <1>6, <1>8, <1>5, UnderIrreflexive DEF Around
<1>10. ASSUME used = x PROVE Around(list, src, dst, used)
  BY <1>6, <1>10
<1>11. ASSUME used # x PROVE Around(list, src, dst, used)
  <2>1. /\ dst # src /\ Duped(marked, x, dst)
        /\ used = Deduped(marked, x, dst)
    BY <1>11 DEF Deduped
  <2>2. dst = src + 1 /\ marked[dst - 1].position = x
    <3>1. \/ dst > 1 /\ x = marked[dst - 1].position
          \/ dst <= Len(list) /\ x = marked[dst].position
      BY <1>7, <2>1 DEF Duped
    <3>2. ~(dst <= Len(list) /\ x = marked[dst].position)
      BY <1>5, <1>7, <1>9, <2>1
    <3>3. dst - 1 \in 1 .. Len(list)
      BY <1>2, <1>5, <3>1, <3>2
    <3>4. dst - 1 = src
      BY <1>7, <1>9, <3>1, <3>2, <3>3
    <3> QED  BY <1>4, <1>5, <3>1, <3>2, <3>4
  <2>3. dst > 1
    BY <1>4, <2>2
  <2>4. CASE dst <= Len(list)
    <3> DEFINE next == list[dst].position
    <3>1. dst \in 1 .. Len(list) /\ marked[dst].position = next /\ next \in Pos
      BY <1>4, <1>5, <1>7, <1>8, <2>2, <2>4
    <3>2. used = MidPos(x, next)
      BY <1>7, <2>1, <2>2, <2>3, <2>4, <3>1 DEF Deduped
    <3>3. Under(x, next)
      BY <1>4, <1>6, <2>2, <3>1 DEF Around
    <3> HIDE DEF next, used
    <3>4. Under(x, used) /\ Under(used, next)
      BY <1>3, <3>1, <3>2, <3>3, StepAssumption
    <3>5. ASSUME NEW j \in 1 .. Len(list), j # src
          PROVE  /\ j < dst => Under(list[j].position, used)
                 /\ j >= dst => Under(used, list[j].position)
      <4>1. list[j].position \in Pos
        BY <1>8
      <4>2. CASE j < dst
        <5>1. Under(list[j].position, x)
          BY <1>6, <3>5, <4>2 DEF Around
        <5> QED  BY <1>3, <1>5, <3>4, <4>1, <4>2, <5>1, OrderAssumption
      <4>3. CASE j = dst
        BY <3>4, <4>3 DEF next
      <4>4. CASE j > dst
        <5>1. Under(next, list[j].position)
          BY <1>2, <3>1, <4>4 DEF Sorted, next
        <5>2. Under(used, list[j].position)
          BY <1>3, <3>1, <3>4, <4>1, <5>1, OrderAssumption
        <5> QED  BY <1>5, <4>4, <5>2
      <4> QED  BY <1>5, <4>2, <4>3, <4>4
    <3> QED  BY <3>5 DEF Around
  <2>5. CASE dst > Len(list)
    <3>1. used = NextPos(x)
      BY <1>7, <2>1, <2>2, <2>3, <2>5 DEF Deduped
    <3> HIDE DEF used
    <3>2. Under(x, used)
      BY <1>3, <3>1, StepAssumption
    <3>3. ASSUME NEW j \in 1 .. Len(list), j # src
          PROVE  j < dst /\ Under(list[j].position, used)
      <4>1. list[j].position \in Pos
        BY <1>8
      <4>2. j < dst
        BY <1>5, <2>5
      <4>3. Under(list[j].position, x)
        BY <1>6, <3>3, <4>2 DEF Around
      <4> QED  BY <1>3, <3>2, <4>1, <4>2, <4>3, OrderAssumption
    <3> QED  BY <1>5, <3>3 DEF Around
  <2> QED  BY <1>2, <1>5, <2>4, <2>5
<1> HIDE DEF used
<1>12. Around(list, src, dst, used)
  BY <1>10, <1>11
<1>13. /\ children' = [children EXCEPT
                          ![ParentOf(c)] = Moved(@, Place(c, ParentOf(c)), dst,
                                                 [eid |-> c, position |-> used])]
       /\ Around(children[ParentOf(c)], Place(c, ParentOf(c)), dst, used)
       /\ dst \in 1 .. Len(children[ParentOf(c)]) + 1
  BY <1>3, <1>4, <1>5, <1>12 DEF list, src
<1> QED  BY <1>1, <1>3, <1>13, RepositionSafe

\* The lists after the child has left its old parent.
Freed(c) ==
    IF connection[c].parent = Null THEN children
    ELSE [children EXCEPT
             ![connection[c].parent] = Unlisted(@, c, connection[c].position)]

LEMMA FreedFacts ==
    ASSUME SafeInv, NEW c \in Entity
    PROVE  \A q \in Entity :
              /\ Freed(c)[q] \in Seq(ChildEntry) /\ Sorted(Freed(c)[q])
              /\ SameOthers(Freed(c)[q], children[q], c)
              /\ \A i \in 1 .. Len(Freed(c)[q]) : Freed(c)[q][i].eid # c
              /\ q # ParentOf(c) => Freed(c)[q] = children[q]
<1> DEFINE freed == Freed(c)
<1>1. \A q \in Entity : q # ParentOf(c) =>
         /\ children[q] \in Seq(ChildEntry) /\ Sorted(children[q])
         /\ SameOthers(children[q], children[q], c)
         /\ \A i \in 1 .. Len(children[q]) : children[q][i].eid # c
  BY ListFacts DEF SameOthers
<1>2. CASE ~InTree(c)
  <2>1. freed = children /\ ParentOf(c) \notin Entity
    BY <1>2, EntityAssumption DEF InTree, ParentOf, Freed
  <2> QED  BY <1>1, <2>1
<1>3. CASE InTree(c)
  <2> DEFINE p == ParentOf(c)
             src == Place(c, p)
             rest == RemoveAt(children[p], src)
  <2>1. p \in Entity /\ OnlyAt(children[p], c, src)
    BY <1>3, PlaceFound
  <2>2. /\ children[p] \in Seq(ChildEntry) /\ Sorted(children[p])
        /\ src \in 1 .. Len(children[p])
    BY <2>1, ListFacts DEF OnlyAt
  <2>3. freed = [children EXCEPT ![p] = rest]
    <3>1. freed = [children EXCEPT ![p] = Unlisted(@, c, connection[c].position)]
      BY <1>3 DEF InTree, ParentOf, Freed
    <3>2. Unlisted(children[p], c, connection[c].position) = rest
      BY <2>2 DEF Unlisted, Place
    <3> QED  BY <3>1, <3>2
  <2>4. rest \in Seq(ChildEntry) /\ Sorted(rest)
    BY <2>2, RemoveAtProperties, RemoveSorted
  <2>5. SameOthers(rest, children[p], c) /\ \A k \in 1 .. Len(rest) : rest[k].eid # c
    BY <2>1, <2>2, RemoveOthers
  <2> HIDE DEF rest, freed
  <2>6. freed[p] = rest /\ \A q \in Entity : q # p => freed[q] = children[q]
    BY <2>1, <2>3 DEF SafeInv, TypeOK
  <2> QED  BY <1>1, <2>4, <2>5, <2>6 DEF freed
<1> QED  BY <1>2, <1>3

\* A fresh position goes into the list of the new parent as it is.
LEMMA FreshUsed ==
    ASSUME SafeInv, NEW c \in Entity, NEW p \in Entity, NEW x \in Pos,
           ParentOf(c) # p, Apart(children[p], c, x), NEW maybeDupe
    PROVE  (IF maybeDupe
            THEN Deduped(Freed(c)[p], x, LowerBound(Freed(c)[p], x)) ELSE x) = x
<1> DEFINE list == children[p]
           dst == LowerBound(list, x)
<1>1. Freed(c)[p] = list /\ list \in Seq(ChildEntry) /\ Sorted(list)
  BY FreedFacts, ListFacts
<1>2. \A j \in 1 .. Len(list) : list[j].eid # c
  BY <1>1, FreedFacts
<1>3. /\ dst \in 1 .. Len(list) + 1
      /\ \A j \in 1 .. Len(list) :
            /\ j < dst => Under(list[j].position, x)
            /\ j >= dst => Under(x, list[j].position)
  BY <1>1, <1>2, LowerBoundProperties, LowerBoundAround
<1> HIDE DEF dst
<1>4. \A j \in 1 .. Len(list) : list[j].position # x
  BY <1>3, UnderIrreflexive
<1>5. ~Duped(list, x, dst)
  BY <1>1, <1>3, <1>4 DEF Duped
<1> QED  BY <1>1, <1>5 DEF Deduped, dst

\* set_parent with a new parent: the position is deduplicated after it was
\* written to the component, but a fresh one needs no deduplication.
LEMMA AdoptSafe ==
    ASSUME SafeInv, TypeOK', NEW c \in Entity, NEW p \in Entity, NEW x,
           NEW maybeDupe \in BOOLEAN, ParentOf(c) # p,
           Apart(children[p], c, x), Adopt(c, p, x, maybeDupe)
    PROVE  SafeInv'
<1> DEFINE freed == Freed(c)
           dst == LowerBound(freed[p], x)
           used == IF maybeDupe THEN Deduped(freed[p], x, dst) ELSE x
           entry == [eid |-> c, position |-> x]
           now == [parent |-> p, position |-> x]
<1>1. /\ x \in Pos
      /\ connection' = [connection EXCEPT ![c] = now]
      /\ children' = [freed EXCEPT ![p] = InsertAt(@, dst, [eid |-> c,
                                                            position |-> used])]
  BY DEF Adopt, Freed
<1>2. freed \in [Entity -> Seq(ChildEntry)]
  BY FreedType DEF SafeInv, Freed
<1> HIDE DEF freed
<1>3. \A q \in Entity :
         /\ freed[q] \in Seq(ChildEntry) /\ Sorted(freed[q])
         /\ SameOthers(freed[q], children[q], c)
         /\ \A i \in 1 .. Len(freed[q]) : freed[q][i].eid # c
         /\ q # ParentOf(c) => freed[q] = children[q]
  BY FreedFacts DEF freed
<1> DEFINE list == freed[p]
<1>4. list \in Seq(ChildEntry) /\ Sorted(list) /\ Apart(list, c, x)
  BY <1>3
<1>5. /\ dst \in 1 .. Len(list) + 1
      /\ \A j \in 1 .. Len(list) :
            /\ j < dst => Under(list[j].position, x)
            /\ j >= dst => Under(x, list[j].position)
  BY <1>1, <1>3, <1>4, LowerBoundProperties, LowerBoundAround
<1> HIDE DEF dst
<1>6. used = x
  BY <1>1, FreshUsed DEF dst, freed
<1>7. entry \in ChildEntry /\ entry.eid = c /\ entry.position = x
  BY <1>1 DEF ChildEntry
<1>8. now \in Connection /\ now.parent = p /\ now.position = x
  BY <1>1 DEF Connection
<1>9. children' = [freed EXCEPT ![p] = InsertAt(list, dst, entry)]
  BY <1>1, <1>6
<1> HIDE DEF entry, now
<1> DEFINE new == InsertAt(list, dst, entry)
<1>10. Sorted(new)
  <2>1. Around(list, 0, dst, entry.position)
    BY <1>5, <1>7 DEF Around
  <2> QED  BY <1>4, <1>5, <1>7, <2>1, InsertSorted
<1>11. /\ SameOthers(new, list, c)
       /\ \E k \in 1 .. Len(new) : new[k].eid = c
       /\ \A k \in 1 .. Len(new) : new[k].eid = c => new[k].position = x
  <2>1. /\ SameOthers(new, list, entry.eid)
        /\ \E k \in 1 .. Len(new) : new[k] = entry
        /\ \A k \in 1 .. Len(new) :
              new[k] = entry \/ \E j \in 1 .. Len(list) : list[j] = new[k]
    BY <1>4, <1>5, <1>7, InsertOthers
  <2> HIDE DEF new
  <2> QED  BY <1>3, <1>7, <2>1
<1> HIDE DEF new
<1>12. /\ children'[p] = new
       /\ \A q \in Entity \ {p} : children'[q] = freed[q]
  BY <1>2, <1>9 DEF new
<1>13. \A q \in Entity : Sorted(children'[q])
  BY <1>3, <1>10, <1>12
<1>14. \A q \in Entity : SameOthers(children'[q], children[q], c)
  <2>1. SameOthers(new, children[p], c)
    BY <1>3, <1>11
  <2> QED  BY <1>3, <1>12, <2>1
<1>15. \A q \in Entity : \A i \in 1 .. Len(children'[q]) :
          children'[q][i].eid = c =>
             q = now.parent /\ children'[q][i].position = now.position
  BY <1>3, <1>8, <1>11, <1>12
<1>16. now.parent # Null =>
          \E i \in 1 .. Len(children'[now.parent]) :
             children'[now.parent][i].eid = c
  BY <1>8, <1>11, <1>12
<1>17. connection' = [connection EXCEPT ![c] = now]
  BY <1>1
<1>18. CacheCoherent'
  BY <1>8, <1>14, <1>15, <1>16, <1>17, CoherentStep
<1>19. StrictlySorted'
  BY <1>13, SortedStep
<1> QED  BY <1>18, <1>19 DEF SafeInv

\* set_parent, called with a position that is apart from those of the siblings.
LEMMA SetParentSafe ==
    ASSUME SafeInv, TypeOK', NEW c \in Entity, NEW p \in Entity, NEW x,
           NEW maybeDupe \in BOOLEAN, Apart(children[p], c, x),
           SetParent(c, p, x, maybeDupe)
    PROVE  SafeInv'
BY ResettleSafe, AdoptSafe DEF SetParent

\* The position that set_parent(child, parent) makes is apart from the others.
LEMMA AtEndApart ==
    ASSUME SafeInv, NEW c \in Entity, NEW p \in Entity, NEW x,
           x = IF children[p] = <<>> THEN FirstPos
                                     ELSE NextPos(Last(children[p]).position),
           SetParent(c, p, x, FALSE)
    PROVE  Apart(children[p], c, x)
<1>1. children[p] \in Seq(ChildEntry) /\ Sorted(children[p])
  BY ListFacts
<1>2. x \in Pos
  BY DEF SetParent, Adopt, Resettle
<1>3. CASE children[p] = <<>>
  BY <1>3 DEF Apart
<1>4. CASE children[p] # <<>>
  BY <1>1, <1>2, <1>4, NextOverAll, OverApart
<1> QED  BY <1>3, <1>4

\* set_parent(child, parent)
LEMMA SetParentAtEndSafe ==
    ASSUME SafeInv, TypeOK', NEW c \in Entity, NEW p \in Entity,
           SetParentAtEnd(c, p)
    PROVE  SafeInv'
<1> DEFINE x == IF children[p] = <<>> THEN FirstPos
                ELSE NextPos(Last(children[p]).position)
<1>1. SetParent(c, p, x, FALSE)
  BY DEF SetParentAtEnd
<1>2. Apart(children[p], c, x)
  BY <1>1, AtEndApart
<1> HIDE DEF x
<1> QED  BY <1>1, <1>2, SetParentSafe

\* set_child_position
LEMMA SetChildPositionSafe ==
    ASSUME SafeInv, TypeOK', Reuse = FALSE, NEW c \in Entity,
           NEW x \in ExplicitPos, SetChildPosition(c, x)
    PROVE  SafeInv'
<1> DEFINE p == ParentOf(c)
           dst == LowerBound(children[p], x)
<1>1. InTree(c) /\ Fresh(c, p, x) /\ Reorder(c, Place(c, p), dst, x)
  BY DEF SetChildPosition
<1>2. p \in Entity /\ x \in Pos
  BY <1>1, PlaceFound, PosAssumption
<1>3. Apart(children[p], c, x)
  BY <1>1, <1>2, FreshApart
<1>4. Around(children[p], Place(c, p), dst, x)
  BY <1>1, <1>2, <1>3, ApartAround
<1>5. dst \in 1 .. Len(children[p]) + 1
  BY <1>2, ListFacts, LowerBoundProperties
<1> HIDE DEF dst
<1> QED  BY <1>1, <1>4, <1>5, ReorderSafe

\* order_child_before, with a sibling: half way between the neighbours, or
\* before the first child.
LEMMA OrderBeforeSiblingSafe ==
    ASSUME SafeInv, TypeOK', NEW c \in Entity, NEW before \in Entity,
           OrderBeforeSibling(c, before)
    PROVE  SafeInv'
<1> DEFINE p == ParentOf(c)
           list == children[p]
           next == Place(before, p)
           x == IF next = 1 THEN PrevPos(list[1].position)
                ELSE MidPos(list[next - 1].position, list[next].position)
<1>1. InTree(c) /\ next <= Len(list) /\ Reorder(c, Place(c, p), next, x)
  BY DEF OrderBeforeSibling
<1>2. p \in Entity
  BY <1>1, PlaceFound
<1>3. list \in Seq(ChildEntry) /\ Sorted(list)
  BY <1>2, ListFacts
<1>4. next \in 1 .. Len(list)
  <2>1. next \in 1 .. Len(list) + 1
    BY <1>2, PlaceType DEF SafeInv
  <2> QED  BY <1>1, <1>3, <2>1
<1> HIDE DEF next
<1>5. x \in Pos
  BY <1>1 DEF Reorder
<1>6. \A j \in 1 .. Len(list) : list[j].position \in Pos
  BY <1>3, EntryType
<1>7. /\ Under(x, list[next].position)
      /\ next > 1 => Under(list[next - 1].position, x)
  <2>1. CASE next = 1
    BY <1>4, <1>5, <1>6, <2>1, StepAssumption
  <2>2. CASE next # 1
    <3>1. next - 1 \in 1 .. Len(list) /\ next - 1 < next
      BY <1>4, <2>2
    <3>2. Under(list[next - 1].position, list[next].position)
      BY <1>3, <1>4, <3>1 DEF Sorted
    <3> QED  BY <1>4, <1>5, <1>6, <2>2, <3>1, <3>2, StepAssumption
  <2> QED  BY <2>1, <2>2
<1> HIDE DEF x
<1>8. ASSUME NEW j \in 1 .. Len(list)
      PROVE  /\ j < next => Under(list[j].position, x)
             /\ j >= next => Under(x, list[j].position)
  <2>1. CASE j < next
    <3>1. next - 1 \in 1 .. Len(list) /\ next > 1
      BY <1>4, <2>1
    <3>2. j = next - 1 \/ Under(list[j].position, list[next - 1].position)
      BY <1>3, <1>4, <2>1, <3>1 DEF Sorted
    <3>3. Under(list[j].position, x)
      BY <1>5, <1>6, <1>7, <3>1, <3>2, OrderAssumption
    <3> QED  BY <1>4, <2>1, <3>3
  <2>2. CASE j >= next
    <3>1. j = next \/ Under(list[next].position, list[j].position)
      BY <1>3, <1>4, <2>2 DEF Sorted
    <3>2. Under(x, list[j].position)
      BY <1>4, <1>5, <1>6, <1>7, <3>1, OrderAssumption
    <3> QED  BY <1>4, <2>2, <3>2
  <2> QED  BY <1>4, <2>1, <2>2
<1>9. Around(list, Place(c, p), next, x)
  BY <1>8 DEF Around
<1>10. next \in 1 .. Len(list) + 1
  BY <1>3, <1>4
<1> QED  BY <1>1, <1>9, <1>10, ReorderSafe

\* order_child_before, to the end.
LEMMA OrderToEndSafe ==
    ASSUME SafeInv, TypeOK', NEW c \in Entity, NEW before \in Entity,
           OrderToEnd(c, before)
    PROVE  SafeInv'
<1> DEFINE p == ParentOf(c)
           list == children[p]
           x == NextPos(Last(list).position)
           dst == Len(list) + 1
<1>1. InTree(c) /\ Reorder(c, Place(c, p), dst, x)
  BY DEF OrderToEnd
<1>2. p \in Entity /\ OnlyAt(list, c, Place(c, p))
  BY <1>1, PlaceFound
<1>3. list \in Seq(ChildEntry) /\ Sorted(list)
  BY <1>2, ListFacts
<1>4. list # <<>> /\ x \in Pos
  BY <1>1, <1>2, <1>3 DEF OnlyAt, Reorder
<1>5. \A j \in 1 .. Len(list) : Under(list[j].position, x)
  BY <1>3, <1>4, NextOverAll
<1> HIDE DEF x
<1>6. Around(list, Place(c, p), dst, x)
  BY <1>3, <1>5, LastAround
<1>7. dst \in 1 .. Len(list) + 1
  BY <1>3
<1> HIDE DEF dst
<1> QED  BY <1>1, <1>6, <1>7, ReorderSafe

\* Every step of clients that pass fresh positions keeps the invariant.
LEMMA NextSafe ==
    ASSUME Reuse = FALSE, SafeInv, [Next]_vars
    PROVE  SafeInv'
<1>1. TypeOK'
  BY NextType DEF SafeInv
<1>2. CASE UNCHANGED vars
  BY <1>1, <1>2
     DEF SafeInv, vars, CacheCoherent, EntriesMatchComponents,
         ChildrenAreListed, StrictlySorted, InTree, ParentOf
<1>3. ASSUME NEW c \in Entity, Unparent(c) PROVE SafeInv'
  BY <1>1, <1>3, UnparentSafe
<1>4. ASSUME NEW c \in Entity, NEW x \in ExplicitPos, SetChildPosition(c, x)
      PROVE  SafeInv'
  BY <1>1, <1>4, SetChildPositionSafe
<1>5. ASSUME NEW c \in Entity, NEW e \in Entity, SetParentAtEnd(c, e)
      PROVE  SafeInv'
  BY <1>1, <1>5, SetParentAtEndSafe
<1>6. ASSUME NEW c \in Entity, NEW e \in Entity, NEW x \in ExplicitPos,
             SetParentAt(c, e, x)
      PROVE  SafeInv'
  <2>1. Apart(children[e], c, x)
    BY <1>6, FreshApart DEF SetParentAt
  <2> QED  BY <1>1, <1>6, <2>1, SetParentSafe DEF SetParentAt
<1>7. ASSUME NEW c \in Entity, NEW e \in Entity, OrderBeforeSibling(c, e)
      PROVE  SafeInv'
  BY <1>1, <1>7, OrderBeforeSiblingSafe
<1>8. ASSUME NEW c \in Entity, NEW e \in Entity, OrderToEnd(c, e)
      PROVE  SafeInv'
  BY <1>1, <1>8, OrderToEndSafe
<1> QED  BY <1>2, <1>3, <1>4, <1>5, <1>6, <1>7, <1>8 DEF Next

\* Clients that pass fresh positions start and stay in SafeInv.
LEMMA SafeInvHolds == Reuse = FALSE => (Spec => []SafeInv)
<1>1. Init => SafeInv
  <2> SUFFICES ASSUME Init PROVE SafeInv
    OBVIOUS
  <2>1. TypeOK
    BY PosAssumption DEF Init, TypeOK, NoPC, Connection
  <2>2. \A e \in Entity : ~InTree(e) /\ DOMAIN children[e] = {}
    BY DEF Init, InTree, ParentOf, NoPC
  <2>3. CacheCoherent
    BY <2>2 DEF CacheCoherent, EntriesMatchComponents, ChildrenAreListed
  <2>4. StrictlySorted
    BY <2>2 DEF StrictlySorted
  <2> QED  BY <2>1, <2>3, <2>4 DEF SafeInv
<1> SUFFICES ASSUME Reuse = FALSE PROVE Spec => []SafeInv
  OBVIOUS
<1>2. SafeInv /\ [Next]_vars => SafeInv'
  BY NextSafe
<1> QED  BY <1>1, <1>2, PTL DEF Spec

\* The components and the child lists never disagree, if no client passes the
\* number of a sibling.
THEOREM CacheStaysCoherent == Reuse = FALSE => (Spec => []CacheCoherent)
<1> SUFFICES ASSUME Reuse = FALSE PROVE Spec => []CacheCoherent
  OBVIOUS
<1>1. Spec => []SafeInv
  BY SafeInvHolds
<1>2. SafeInv => CacheCoherent
  BY DEF SafeInv
<1> QED  BY <1>1, <1>2, PTL

\* Nor do siblings ever tie or stand out of order.
THEOREM ListsStaySorted == Reuse = FALSE => (Spec => []StrictlySorted)
<1> SUFFICES ASSUME Reuse = FALSE PROVE Spec => []StrictlySorted
  OBVIOUS
<1>1. Spec => []SafeInv
  BY SafeInvHolds
<1>2. SafeInv => StrictlySorted
  BY DEF SafeInv
<1> QED  BY <1>1, <1>2, PTL

-----------------------------------------------------------------------------
(* The promise *)

\* The children in a list, and those without c.
Ids(list) == [i \in DOMAIN list |-> list[i].eid]
Bare(list, c) == RemoveFirst(Ids(list), c)

LEMMA IdsType ==
    ASSUME NEW list \in Seq(ChildEntry)
    PROVE  /\ Ids(list) \in Seq(Entity) /\ Len(Ids(list)) = Len(list)
           /\ \A i \in 1 .. Len(list) : Ids(list)[i] = list[i].eid
<1>1. \A i \in 1 .. Len(list) : list[i].eid \in Entity
  BY EntryType
<1>2. Len(list) \in Nat /\ DOMAIN list = 1 .. Len(list)
  OBVIOUS
<1>3. Ids(list) = [i \in 1 .. Len(list) |-> list[i].eid]
  BY <1>2 DEF Ids
<1> QED  BY <1>1, <1>2, <1>3

\* A list without c is its own rest.
LEMMA BareOfNone ==
    ASSUME NEW list \in Seq(ChildEntry), NEW c,
           \A i \in 1 .. Len(list) : list[i].eid # c
    PROVE  Bare(list, c) = Ids(list)
<1>1. ~\E i \in 1 .. Len(Ids(list)) : Ids(list)[i] = c
  BY IdsType
<1> QED  BY <1>1 DEF Bare, RemoveFirst

\* The rest of a list that has c once.
LEMMA BareOfOne ==
    ASSUME NEW list \in Seq(ChildEntry), NEW c, NEW src, OnlyAt(list, c, src)
    PROVE  Bare(list, c) = Ids(RemoveAt(list, src))
<1> DEFINE s == Ids(list)
           rest == RemoveAt(list, src)
<1>1. /\ s \in Seq(Entity) /\ Len(s) = Len(list)
      /\ \A i \in 1 .. Len(list) : s[i] = list[i].eid
  BY IdsType
<1>2. src \in 1 .. Len(list) /\ \A i \in 1 .. Len(list) : s[i] = c <=> i = src
  BY <1>1 DEF OnlyAt
<1> HIDE DEF s
<1>3. {i \in 1 .. Len(s) : s[i] = c} = {src}
  BY <1>1, <1>2
<1>4. RemoveFirst(s, c) = RemoveAt(s, src)
  BY <1>1, <1>2, <1>3 DEF RemoveFirst, SelectInSeq, Min
<1>5. /\ rest \in Seq(ChildEntry) /\ Len(rest) = Len(list) - 1
      /\ \A j \in 1 .. src - 1 : rest[j] = list[j]
      /\ \A j \in src .. Len(list) - 1 : rest[j] = list[j + 1]
  BY <1>2, RemoveAtProperties
<1>6. /\ RemoveAt(s, src) \in Seq(Entity) /\ Len(RemoveAt(s, src)) = Len(list) - 1
      /\ \A j \in 1 .. src - 1 : RemoveAt(s, src)[j] = s[j]
      /\ \A j \in src .. Len(list) - 1 : RemoveAt(s, src)[j] = s[j + 1]
  BY <1>1, <1>2, RemoveAtProperties
<1> HIDE DEF rest
<1>7. /\ Ids(rest) \in Seq(Entity) /\ Len(Ids(rest)) = Len(list) - 1
      /\ \A j \in 1 .. Len(list) - 1 : Ids(rest)[j] = rest[j].eid
  BY <1>5, IdsType
<1>8. ASSUME NEW j \in 1 .. Len(list) - 1
      PROVE  RemoveAt(s, src)[j] = Ids(rest)[j]
  <2>1. j \in 1 .. Len(list) /\ j + 1 \in 1 .. Len(list) /\ Len(list) \in Nat
    OBVIOUS
  <2>2. CASE j < src
    <3>1. j \in 1 .. src - 1
      BY <1>2, <2>2
    <3> QED  BY <1>1, <1>5, <1>6, <1>7, <2>1, <3>1
  <2>3. CASE j >= src
    BY <1>1, <1>2, <1>5, <1>6, <1>7, <2>1, <2>3
  <2> QED  BY <1>2, <2>1, <2>2, <2>3
<1>9. RemoveAt(s, src) = Ids(rest)
  BY <1>6, <1>7, <1>8
<1> QED  BY <1>4, <1>9 DEF Bare, s, rest

\* An insertion of c adds c and moves no other child.
LEMMA BareOfInserted ==
    ASSUME NEW list \in Seq(ChildEntry), NEW dst \in 1 .. Len(list) + 1,
           NEW entry \in ChildEntry,
           \A i \in 1 .. Len(list) : list[i].eid # entry.eid
    PROVE  Bare(InsertAt(list, dst, entry), entry.eid) = Ids(list)
<1> DEFINE new == InsertAt(list, dst, entry)
           back == RemoveAt(new, dst)
<1>1. /\ new \in Seq(ChildEntry) /\ Len(new) = Len(list) + 1
      /\ \A j \in 1 .. dst - 1 : new[j] = list[j]
      /\ new[dst] = entry
      /\ \A j \in dst + 1 .. Len(list) + 1 : new[j] = list[j - 1]
  <2> HIDE DEF new
  <2>1. InsertAt(list, dst, entry) \in Seq(ChildEntry)
    BY InsertAtProperties
  <2> USE DEF new
  <2> QED  BY <2>1, InsertedEntries
<1> HIDE DEF new
<1>2. Len(list) \in Nat /\ dst \in 1 .. Len(new)
  BY <1>1
<1>3. OnlyAt(new, entry.eid, dst)
  <2>1. ASSUME NEW j \in 1 .. Len(new), j # dst PROVE new[j].eid # entry.eid
    <3>1. CASE j < dst
      BY <1>1, <1>2, <2>1, <3>1
    <3>2. CASE j > dst
      <4>1. j - 1 \in 1 .. Len(list) /\ j \in dst + 1 .. Len(list) + 1
        BY <1>1, <1>2, <3>2
      <4> QED  BY <1>1, <4>1
    <3> QED  BY <1>2, <2>1, <3>1, <3>2
  <2> QED  BY <1>1, <1>2, <2>1 DEF OnlyAt
<1>4. Bare(new, entry.eid) = Ids(back)
  BY <1>1, <1>3, BareOfOne
<1>5. /\ back \in Seq(ChildEntry) /\ Len(back) = Len(list)
      /\ \A j \in 1 .. dst - 1 : back[j] = new[j]
      /\ \A j \in dst .. Len(list) : back[j] = new[j + 1]
  <2>1. /\ back \in Seq(ChildEntry) /\ Len(back) = Len(new) - 1
        /\ \A j \in 1 .. dst - 1 : back[j] = new[j]
        /\ \A j \in dst .. Len(new) - 1 : back[j] = new[j + 1]
    BY <1>1, <1>2, RemoveAtProperties
  <2>2. Len(new) - 1 = Len(list)
    BY <1>1, <1>2
  <2> HIDE DEF back
  <2> QED  BY <2>1, <2>2
<1> HIDE DEF back
<1>6. ASSUME NEW j \in 1 .. Len(list) PROVE back[j] = list[j]
  <2>1. CASE j < dst
    BY <1>1, <1>2, <1>5, <2>1
  <2>2. CASE j >= dst
    <3>1. j + 1 \in dst + 1 .. Len(list) + 1 /\ j \in dst .. Len(list)
      BY <1>2, <2>2
    <3>2. new[j + 1] = list[(j + 1) - 1] /\ (j + 1) - 1 = j
      BY <1>1, <3>1
    <3> QED  BY <1>5, <3>1, <3>2
  <2> QED  BY <1>2, <2>1, <2>2
<1>7. back = list
  BY <1>5, <1>6
<1> QED  BY <1>4, <1>7 DEF new

\* A rotation moves c alone.
LEMMA BareOfMoved ==
    ASSUME NEW list \in Seq(ChildEntry), NEW src, NEW dst \in 1 .. Len(list) + 1,
           NEW entry \in ChildEntry, OnlyAt(list, entry.eid, src)
    PROVE  Bare(Moved(list, src, dst, entry), entry.eid) = Bare(list, entry.eid)
<1> DEFINE rest == RemoveAt(list, src)
           at == IF dst > src THEN dst - 1 ELSE dst
<1>1. src \in 1 .. Len(list)
  BY DEF OnlyAt
<1>2. rest \in Seq(ChildEntry) /\ Len(rest) = Len(list) - 1
  BY <1>1, RemoveAtProperties
<1>3. at \in 1 .. Len(rest) + 1
  BY <1>1, <1>2
<1>4. \A k \in 1 .. Len(rest) : rest[k].eid # entry.eid
  BY RemoveOthers
<1> HIDE DEF rest, at
<1>5. Bare(InsertAt(rest, at, entry), entry.eid) = Ids(rest)
  BY <1>2, <1>3, <1>4, BareOfInserted
<1>6. Bare(list, entry.eid) = Ids(rest)
  BY BareOfOne DEF rest
<1> QED  BY <1>5, <1>6 DEF Moved, rest, at

\* A step that leaves every child but c where it is.
SameBare(c) ==
    \A q \in Entity : Bare(children'[q], c) = Bare(children[q], c)

\* What c leaves behind.
LEMMA FreedBare ==
    ASSUME SafeInv, NEW c \in Entity, NEW q \in Entity
    PROVE  Bare(children[q], c) = Ids(Freed(c)[q])
<1>1. children[q] \in Seq(ChildEntry)
  BY ListFacts
<1>2. CASE q # ParentOf(c)
  <2>1. Freed(c)[q] = children[q] /\ \A i \in 1 .. Len(Freed(c)[q]) :
                                        Freed(c)[q][i].eid # c
    BY <1>2, FreedFacts
  <2> QED  BY <1>1, <2>1, BareOfNone
<1>3. CASE q = ParentOf(c)
  <2> DEFINE src == Place(c, q)
             rest == RemoveAt(children[q], src)
  <2>1. InTree(c)
    BY <1>3, EntityAssumption DEF InTree
  <2>2. OnlyAt(children[q], c, src)
    BY <1>3, <2>1, PlaceFound
  <2>3. src \in 1 .. Len(children[q])
    BY <2>2 DEF OnlyAt
  <2>4. Unlisted(children[q], c, connection[c].position) = rest
    BY <2>3 DEF Unlisted, Place
  <2>5. Freed(c)[q] = rest
    BY <1>3, <2>1, <2>4 DEF Freed, InTree, ParentOf, SafeInv, TypeOK
  <2> QED  BY <1>1, <2>2, <2>5, BareOfOne
<1> QED  BY <1>2, <1>3

\* The entry of c moves in the list of its parent.
LEMMA MoveBare ==
    ASSUME SafeInv, NEW c \in Entity, InTree(c), NEW x \in Pos,
           NEW dst \in 1 .. Len(children[ParentOf(c)]) + 1,
           children' = [children EXCEPT
                           ![ParentOf(c)] = Moved(@, Place(c, ParentOf(c)), dst,
                                                  [eid |-> c, position |-> x])]
    PROVE  SameBare(c)
<1> DEFINE p == ParentOf(c)
           entry == [eid |-> c, position |-> x]
<1>1. p \in Entity /\ OnlyAt(children[p], c, Place(c, p))
  BY PlaceFound
<1>2. children[p] \in Seq(ChildEntry)
  BY <1>1, ListFacts
<1>3. /\ children'[p] = Moved(children[p], Place(c, p), dst, entry)
      /\ \A q \in Entity \ {p} : children'[q] = children[q]
  BY <1>1 DEF SafeInv, TypeOK
<1>4. entry \in ChildEntry /\ entry.eid = c
  BY DEF ChildEntry
<1> HIDE DEF entry
<1>5. Bare(children'[p], c) = Bare(children[p], c)
  BY <1>1, <1>2, <1>3, <1>4, BareOfMoved
<1> QED  BY <1>3, <1>5 DEF SameBare

\* set_child_position and order_child_before move c alone,
LEMMA ReorderBare ==
    ASSUME SafeInv, NEW c \in Entity, InTree(c), NEW x,
           NEW dst \in 1 .. Len(children[ParentOf(c)]) + 1,
           Reorder(c, Place(c, ParentOf(c)), dst, x)
    PROVE  SameBare(c)
<1>1. OnlyAt(children[ParentOf(c)], c, Place(c, ParentOf(c)))
  BY PlaceFound
<1>2. children[ParentOf(c)][Place(c, ParentOf(c))].eid = c
  BY <1>1 DEF OnlyAt
<1>3. /\ x \in Pos
      /\ children' = [children EXCEPT
                         ![ParentOf(c)] = Moved(@, Place(c, ParentOf(c)), dst,
                                                [eid |-> c, position |-> x])]
  BY <1>2 DEF Reorder
<1> QED  BY <1>3, MoveBare

\* and so do unparent
LEMMA UnparentBare ==
    ASSUME SafeInv, NEW c \in Entity, Unparent(c)
    PROVE  SameBare(c)
<1>1. children' = Freed(c)
  BY DEF Unparent, Freed, InTree, ParentOf
<1>2. ASSUME NEW q \in Entity PROVE Bare(children'[q], c) = Bare(children[q], c)
  <2>1. /\ Freed(c)[q] \in Seq(ChildEntry)
        /\ \A i \in 1 .. Len(Freed(c)[q]) : Freed(c)[q][i].eid # c
    BY FreedFacts
  <2>2. Bare(Freed(c)[q], c) = Ids(Freed(c)[q])
    BY <2>1, BareOfNone
  <2> QED  BY <1>1, <2>2, FreedBare
<1> QED  BY <1>2 DEF SameBare

\* and set_parent.
LEMMA SetParentBare ==
    ASSUME SafeInv, NEW c \in Entity, NEW p \in Entity, NEW x, NEW maybeDupe,
           SetParent(c, p, x, maybeDupe)
    PROVE  SameBare(c)
<1>1. CASE ParentOf(c) = p
  <2> DEFINE src == Place(c, p)
             dst == LowerBound(children[p], x)
  <2>1. Resettle(c, p, x, maybeDupe)
    BY <1>1 DEF SetParent
  <2>2. InTree(c)
    BY <1>1, EntityAssumption DEF InTree
  <2>3. children[p] \in Seq(ChildEntry) /\ OnlyAt(children[p], c, src)
    BY <1>1, <2>2, PlaceFound, ListFacts
  <2>4. children[p][src].eid = c
    BY <2>3 DEF OnlyAt
  <2>5. dst \in 1 .. Len(children[p]) + 1
    BY <2>3, LowerBoundProperties
  <2>6. \E used \in Pos :
           children' = [children EXCEPT ![p] = Moved(@, src, dst,
                                           [eid |-> c, position |-> used])]
    BY <2>1, <2>4 DEF Resettle, Place
  <2> HIDE DEF dst
  <2> QED  BY <1>1, <2>2, <2>5, <2>6, MoveBare
<1>2. CASE ParentOf(c) # p
  <2> DEFINE freed == Freed(c)
             dst == LowerBound(freed[p], x)
  <2>1. Adopt(c, p, x, maybeDupe)
    BY <1>2 DEF SetParent
  <2>2. \E used \in Pos :
           children' = [freed EXCEPT ![p] = InsertAt(@, dst,
                                        [eid |-> c, position |-> used])]
    BY <2>1 DEF Adopt, Freed
  <2>3. PICK entry \in ChildEntry :
           entry.eid = c /\ children' = [freed EXCEPT ![p] = InsertAt(@, dst, entry)]
    BY <2>2 DEF ChildEntry
  <2>4. freed \in [Entity -> Seq(ChildEntry)]
    BY FreedType DEF SafeInv, Freed
  <2>5. \A q \in Entity : /\ \A i \in 1 .. Len(freed[q]) : freed[q][i].eid # c
                          /\ Bare(children[q], c) = Ids(freed[q])
    BY FreedFacts, FreedBare
  <2>6. dst \in 1 .. Len(freed[p]) + 1
    BY <2>4, LowerBoundProperties
  <2> HIDE DEF freed, dst
  <2>7. /\ children'[p] = InsertAt(freed[p], dst, entry)
        /\ \A q \in Entity \ {p} : children'[q] = freed[q]
    BY <2>3, <2>4
  <2>8. Bare(children'[p], c) = Ids(freed[p])
    BY <2>3, <2>4, <2>5, <2>6, <2>7, BareOfInserted
  <2>9. \A q \in Entity \ {p} : Bare(children'[q], c) = Ids(freed[q])
    BY <2>4, <2>5, <2>7, BareOfNone
  <2> QED  BY <2>5, <2>8, <2>9 DEF SameBare
<1> QED  BY <1>1, <1>2

\* So every call takes one child, gives it at most one link, and leaves all
\* others where they are.
LEMMA NextBare == SafeInv /\ Next => \E c \in Entity : OneLink(c) /\ SameBare(c)
<1> SUFFICES ASSUME SafeInv, Next
             PROVE  \E c \in Entity : OneLink(c) /\ SameBare(c)
  OBVIOUS
<1>1. TypeOK
  BY DEF SafeInv
<1>2. ASSUME NEW c \in Entity, NEW p \in Entity, NEW x, NEW maybeDupe,
             SetParent(c, p, x, maybeDupe)
      PROVE  OneLink(c) /\ SameBare(c)
  BY <1>1, <1>2, SetParentLink, SetParentBare
<1>3. ASSUME NEW c \in Entity, Unparent(c) PROVE OneLink(c) /\ SameBare(c)
  BY <1>1, <1>3, UnparentLink, UnparentBare
<1>4. ASSUME NEW c \in Entity, NEW dst, NEW x, InTree(c),
             Reorder(c, Place(c, ParentOf(c)), dst, x),
             dst \in 1 .. Len(children[ParentOf(c)]) + 1
      PROVE  OneLink(c) /\ SameBare(c)
  BY <1>1, <1>4, ReorderLink, ReorderBare
<1>5. ASSUME NEW c \in Entity, InTree(c)
      PROVE  /\ children[ParentOf(c)] \in Seq(ChildEntry)
             /\ Len(children[ParentOf(c)]) + 1 \in 1 .. Len(children[ParentOf(c)]) + 1
             /\ \A e : Place(e, ParentOf(c)) \in 1 .. Len(children[ParentOf(c)]) + 1
             /\ \A x : LowerBound(children[ParentOf(c)], x)
                          \in 1 .. Len(children[ParentOf(c)]) + 1
  <2>1. ParentOf(c) \in Entity
    BY <1>5, PlaceFound
  <2>2. children[ParentOf(c)] \in Seq(ChildEntry)
    BY <2>1, ListFacts
  <2> QED  BY <1>1, <2>1, <2>2, PlaceType, LowerBoundProperties
<1>6. ASSUME NEW c \in Entity, NEW x, SetChildPosition(c, x)
      PROVE  OneLink(c) /\ SameBare(c)
  BY <1>4, <1>5, <1>6 DEF SetChildPosition
<1>7. ASSUME NEW c \in Entity, NEW e \in Entity, OrderBeforeSibling(c, e)
      PROVE  OneLink(c) /\ SameBare(c)
  BY <1>4, <1>5, <1>7 DEF OrderBeforeSibling
<1>8. ASSUME NEW c \in Entity, NEW e \in Entity, OrderToEnd(c, e)
      PROVE  OneLink(c) /\ SameBare(c)
  BY <1>4, <1>5, <1>8 DEF OrderToEnd
<1> QED
  BY <1>2, <1>3, <1>6, <1>7, <1>8 DEF Next, SetParentAtEnd, SetParentAt

\* A child stands once in the list of its parent and in no other one.
ListedOnce(c) ==
    \A q \in Entity :
        /\ children[q] \in Seq(ChildEntry)
        /\ IF q = ParentOf(c)
           THEN OnlyAt(children[q], c, Place(c, q))
           ELSE \A i \in 1 .. Len(children[q]) : children[q][i].eid # c

LEMMA AllListedOnce == SafeInv => \A c \in Entity : ListedOnce(c)
<1> SUFFICES ASSUME SafeInv, NEW c \in Entity, NEW q \in Entity
             PROVE  /\ children[q] \in Seq(ChildEntry)
                    /\ IF q = ParentOf(c)
                       THEN OnlyAt(children[q], c, Place(c, q))
                       ELSE \A i \in 1 .. Len(children[q]) : children[q][i].eid # c
  BY DEF ListedOnce
<1>1. CASE q = ParentOf(c)
  <2>1. InTree(c)
    BY <1>1, EntityAssumption DEF InTree
  <2> QED  BY <1>1, <2>1, PlaceFound, ListFacts
<1>2. CASE q # ParentOf(c)
  BY <1>2, ListFacts
<1> QED  BY <1>1, <1>2

LEMMA StillListedOnce == SafeInv' => (\A c \in Entity : ListedOnce(c))'
BY AllListedOnce, PTL

\* The forest of the promise is made of the lists.
Kids == [p \in Entity |-> [i \in DOMAIN children[p] |-> children[p][i].eid]]

\* The list operators of the abstract module are those used here.
LEMMA ForestRest ==
    ASSUME NEW s, NEW e
    PROVE  Forest!RemoveFirst(s, e) = RemoveFirst(s, e)
BY DEF Forest!RemoveFirst, Forest!SelectInSeq, Forest!Min, Forest!RemoveAt,
       RemoveFirst, SelectInSeq, Min, RemoveAt

LEMMA KidsAre ==
    ASSUME NEW q \in Entity
    PROVE  Kids[q] = Ids(children[q]) /\ Kids'[q] = Ids(children'[q])
BY DEF Kids, Ids

LEMMA OthersAre ==
    ASSUME NEW c
    PROVE  /\ Forest!Others(c) = [q \in Entity |-> Bare(children[q], c)]
           /\ Forest!Others(c)' = [q \in Entity |-> Bare(children'[q], c)]
<1>1. Forest!Others(c) = [q \in Entity |-> RemoveFirst(Kids[q], c)]
  BY ForestRest DEF Forest!Others, Kids
<1>2. Forest!Others(c)' = [q \in Entity |-> RemoveFirst(Kids'[q], c)]
  BY ForestRest DEF Forest!Others, Kids
<1> QED  BY <1>1, <1>2, KidsAre DEF Bare

\* A link that may be made, or that is there, hangs no child below itself.
LEMMA LinkClear ==
    ASSUME SafeInv, Acyclic, NEW c \in Entity, OneLink(c), NEW p \in Entity,
           ParentOf(c)' = p
    PROVE  Forest!Clear(c, p)
<1>1. \E S \in SUBSET Entity :
         /\ UpClosed(S)
         /\ c \notin S /\ p \in S
  <2>1. CASE ParentOf(c) = p
    <3>1. PICK S \in SUBSET Entity : ParentOf(c) \in S \cup {Null} /\ UpClosed(S)
                                     /\ c \notin S
      BY DEF Acyclic, IsAncestorOf
    <3> QED  BY <2>1, <3>1, EntityAssumption
  <2>2. CASE ParentOf(c) # p
    <3>1. MayAdopt(c, p)
      BY <2>2, EntityAssumption DEF OneLink
    <3>2. PICK S \in SUBSET Entity : ParentOf(p) \in S \cup {Null} /\ UpClosed(S)
                                     /\ c \notin S
      BY <3>1 DEF MayAdopt, IsAncestorOf
    <3> DEFINE T == S \cup {p}
    <3>3. UpClosed(T) /\ c \notin T /\ p \in T /\ T \in SUBSET Entity
      BY <3>1, <3>2 DEF MayAdopt, UpClosed
    <3> QED  BY <3>3
  <2> QED  BY <2>1, <2>2
<1>2. PICK S \in SUBSET Entity : UpClosed(S) /\ c \notin S /\ p \in S
  BY <1>1
<1>3. ASSUME NEW q \in Entity \ S, NEW i \in DOMAIN children[q]
      PROVE  children[q][i].eid \notin S
  <2>1. children[q] \in Seq(ChildEntry) /\ i \in 1 .. Len(children[q])
    BY ListFacts
  <2>2. children[q][i].eid \in Entity /\ ParentOf(children[q][i].eid) = q
    BY <2>1, ListFacts
  <2> QED  BY <1>2, <2>2, EntityAssumption DEF UpClosed
<1>4. S \in SUBSET (Entity \ {c})
  BY <1>2
<1>5. ASSUME NEW q \in Entity \ S PROVE Forest!Range(Kids[q]) \cap S = {}
  <2> DEFINE ids == Ids(children[q])
  <2>1. q \in Entity /\ Kids[q] = ids
    BY KidsAre
  <2>2. DOMAIN ids = DOMAIN children[q] /\ \A i \in DOMAIN ids : ids[i] \notin S
    BY <1>3 DEF Ids
  <2> HIDE DEF ids
  <2>3. Forest!Range(ids) = {ids[i] : i \in DOMAIN ids}
    BY DEF Forest!Range
  <2> QED  BY <2>1, <2>2, <2>3
<1> QED  BY <1>2, <1>4, <1>5 DEF Forest!Clear, Kids

\* A call as the forest sees it.
LEMMA ForestStep ==
    ASSUME SafeInv, SafeInv', Acyclic, NEW c \in Entity, OneLink(c), SameBare(c)
    PROVE  Forest!Next
<1>1. ListedOnce(c)'
  <2>1. (\A e \in Entity : ListedOnce(e))'
    BY StillListedOnce
  <2> QED  BY <2>1
<1>2. \A q \in Entity :
         /\ children'[q] \in Seq(ChildEntry)
         /\ IF q = ParentOf(c)' THEN OnlyAt(children'[q], c, Place(c, q)')
            ELSE \A i \in 1 .. Len(children'[q]) : children'[q][i].eid # c
  BY <1>1 DEF ListedOnce, OnlyAt
<1>3. Forest!Others(c) = [q \in Entity |-> Bare(children[q], c)]
  BY OthersAre
<1>4. Forest!Others(c)' = [q \in Entity |-> Bare(children'[q], c)]
  BY OthersAre
<1>5. Forest!Others(c)' = Forest!Others(c)
  BY <1>3, <1>4 DEF SameBare
<1>6. Forest!Above(c)' = {q \in Entity : q = ParentOf(c)'}
  <2>1. Forest!Above(c)' = {q \in Entity :
                               \E i \in 1 .. Len(Ids(children'[q])) :
                                  Ids(children'[q])[i] = c}
    <3>1. Forest!Above(c)' = {q \in Entity :
                                 \E i \in 1 .. Len(Kids'[q]) : Kids'[q][i] = c}
      BY DEF Forest!Above, Forest!Contains, Kids
    <3> QED  BY <3>1, KidsAre
  <2>2. \A q \in Entity : (\E i \in 1 .. Len(Ids(children'[q])) :
                              Ids(children'[q])[i] = c) <=> q = ParentOf(c)'
    BY <1>2, IdsType DEF OnlyAt
  <2> QED  BY <2>1, <2>2
<1>7. CASE ParentOf(c)' \notin Entity
  BY <1>5, <1>6, <1>7 DEF Forest!Next, Forest!Detach
<1>8. ASSUME NEW p \in Entity, ParentOf(c)' = p PROVE Forest!Next
  <2>1. Forest!Above(c)' = {p}
    BY <1>6, <1>8
  <2>2. Forest!Clear(c, p)
    BY <1>8, LinkClear
  <2>3. Len(Ids(children'[p])) = Len(Forest!Others(c)[p]) + 1
    <3>1. PICK src : OnlyAt(children'[p], c, src)
      BY <1>2, <1>8
    <3>2. children'[p] \in Seq(ChildEntry) /\ src \in 1 .. Len(children'[p])
      BY <1>2, <3>1 DEF OnlyAt
    <3>3. Forest!Others(c)[p] = Ids(RemoveAt(children'[p], src))
      BY <1>3, <3>1, <3>2, BareOfOne DEF SameBare
    <3>4. /\ RemoveAt(children'[p], src) \in Seq(ChildEntry)
          /\ Len(RemoveAt(children'[p], src)) = Len(children'[p]) - 1
      BY <3>2, RemoveAtProperties
    <3> QED  BY <3>2, <3>3, <3>4, IdsType
  <2>4. Forest!Put(c, p)
    <3>1. Len(Kids'[p]) = Len(Forest!Others(c)[p]) + 1
      BY <2>3, KidsAre
    <3> QED  BY <2>1, <2>2, <3>1 DEF Forest!Put, Kids
  <2> QED  BY <1>5, <2>1, <2>4 DEF Forest!Next
<1> QED  BY <1>7, <1>8

\* Seen from outside the lists are an ordered forest: every call detaches one
\* child or puts it at one place, where it is not below itself, and every
\* other child keeps its parent and its place among the siblings.
THEOREM SeenAsForest == Reuse = FALSE => (Spec => ImplementsForest)
<1> SUFFICES ASSUME Reuse = FALSE PROVE Spec => ImplementsForest
  OBVIOUS
<1>1. Init => Forest!Init
  BY DEF Init, Forest!Init
<1>2. SafeInv /\ SafeInv' /\ Acyclic /\ [Next]_vars =>
         [Forest!Next]_Kids
  <2>1. CASE UNCHANGED vars
    BY <2>1 DEF vars, Kids
  <2>2. SafeInv /\ SafeInv' /\ Acyclic /\ Next => Forest!Next
    BY NextBare, ForestStep
  <2> QED  BY <2>1, <2>2
<1>3. Spec => []SafeInv
  BY SafeInvHolds
<1> QED  BY <1>1, <1>2, <1>3, NoCycles, PTL
         DEF Spec, ImplementsForest, Forest!Spec, Kids

-----------------------------------------------------------------------------
(* What a listener loses *)

\* c reports new; the listener's copy of every other entity stays.
LEMMA PublishHeard ==
    ASSUME TypeOK, NEW c \in Entity, NEW new, Publish(c, connection[c], new),
           NEW e \in Entity, heard[e] = connection[e]
    PROVE  heard'[e] = IF e = c THEN new ELSE connection[e]
BY DEF TypeOK, Publish

\* The signal has the stored connection, except when set_parent gave c, which
\* stays with its parent, another position than the one it was asked for.
LEMMA SetParentHeard ==
    ASSUME SafeInv, NEW c \in Entity, NEW p \in Entity, NEW x, NEW maybeDupe,
           Apart(children[p], c, x), SetParent(c, p, x, maybeDupe),
           NEW e \in Entity, heard[e] = connection[e],
           heard'[e] # connection'[e]
    PROVE  e = c /\ ParentOf(c) = p /\ maybeDupe
<1>0. TypeOK
  BY DEF SafeInv
<1>1. CASE ParentOf(c) = p
  <2>1. PICK used \in Pos :
           /\ ~maybeDupe => used = x
           /\ connection' = [connection EXCEPT ![c].position = used]
           /\ Publish(c, connection[c], [parent |-> p, position |-> x])
    BY <1>1 DEF SetParent, Resettle
  <2>2. [connection[c] EXCEPT !.position = used]
           = [parent |-> p, position |-> used]
    BY <1>0, <1>1 DEF TypeOK, Connection, ParentOf
  <2>3. connection' = [connection EXCEPT ![c] = [parent |-> p, position |-> used]]
    BY <2>1, <2>2
  <2>4. /\ connection'[e] = IF e = c THEN [parent |-> p, position |-> used]
                                     ELSE connection[e]
        /\ heard'[e] = IF e = c THEN [parent |-> p, position |-> x]
                                ELSE connection[e]
    <3>1. connection'[e] = IF e = c THEN [parent |-> p, position |-> used]
                                    ELSE connection[e]
      BY <1>0, <2>3 DEF TypeOK
    <3>2. heard'[e] = IF e = c THEN [parent |-> p, position |-> x]
                               ELSE connection[e]
      BY <1>0, <2>1, PublishHeard
    <3> QED  BY <3>1, <3>2
  <2> QED  BY <1>1, <2>1, <2>4
<1>2. CASE ParentOf(c) # p
  <2> DEFINE used == IF maybeDupe
                     THEN Deduped(Freed(c)[p], x, LowerBound(Freed(c)[p], x))
                     ELSE x
             now == [parent |-> p, position |-> x]
  <2>1. /\ x \in Pos
        /\ connection' = [connection EXCEPT ![c] = now]
        /\ Publish(c, connection[c], [parent |-> p, position |-> used])
    BY <1>2 DEF SetParent, Adopt, Freed
  <2>2. used = x
    BY <1>2, <2>1, FreshUsed
  <2> HIDE DEF used, now
  <2>3. Publish(c, connection[c], now)
    BY <2>1, <2>2 DEF now
  <2>4. connection'[e] = IF e = c THEN now ELSE connection[e]
    BY <1>0, <2>1 DEF TypeOK
  <2>5. heard'[e] = IF e = c THEN now ELSE connection[e]
    BY <1>0, <2>3, PublishHeard
  <2> QED  BY <2>4, <2>5
<1> QED  BY <1>1, <1>2

\* The other calls report what they store.
LEMMA ReorderHeard ==
    ASSUME TypeOK, NEW c \in Entity, NEW src, NEW dst, NEW x,
           Reorder(c, src, dst, x),
           NEW e \in Entity, heard[e] = connection[e]
    PROVE  heard'[e] = connection'[e]
<1> DEFINE now == connection'[c]
<1>1. connection'[e] = IF e = c THEN now ELSE connection[e]
  BY DEF TypeOK, Reorder
<1>2. Publish(c, connection[c], now)
  BY DEF Reorder
<1> HIDE DEF now
<1>3. heard'[e] = IF e = c THEN now ELSE connection[e]
  BY <1>2, PublishHeard
<1> QED  BY <1>1, <1>3

LEMMA UnparentHeard ==
    ASSUME TypeOK, NEW c \in Entity, Unparent(c),
           NEW e \in Entity, heard[e] = connection[e]
    PROVE  heard'[e] = connection'[e]
<1>1. connection'[e] = IF e = c THEN NoPC ELSE connection[e]
  BY DEF TypeOK, Unparent
<1>2. heard'[e] = IF e = c THEN NoPC ELSE connection[e]
  BY PublishHeard DEF Unparent
<1> QED  BY <1>1, <1>2

\* A listener that knows the connection of an entity knows it after the next
\* call too, unless that call is set_parent with an explicit position and the
\* parent the entity has.
THEOREM LosesOnlyByResettling ==
    Reuse = FALSE => (Spec => ListenerLosesOnlyByResettling)
<1> SUFFICES ASSUME Reuse = FALSE PROVE Spec => ListenerLosesOnlyByResettling
  OBVIOUS
<1> DEFINE Loses ==
        \A e \in Entity :
           heard[e] = connection[e] /\ heard'[e] # connection'[e]
              => \E x \in ExplicitPos : SetParentAt(e, ParentOf(e), x)
<1>1. SafeInv /\ [Next]_vars => [Loses]_vars
  <2> SUFFICES ASSUME SafeInv, Next, NEW e \in Entity,
                      heard[e] = connection[e], heard'[e] # connection'[e]
               PROVE  \E x \in ExplicitPos : SetParentAt(e, ParentOf(e), x)
    OBVIOUS
  <2>0. TypeOK
    BY DEF SafeInv
  <2>1. ASSUME NEW c \in Entity, NEW p \in Entity, SetParentAtEnd(c, p)
        PROVE  FALSE
    <3> DEFINE x == IF children[p] = <<>> THEN FirstPos
                    ELSE NextPos(Last(children[p]).position)
    <3>1. SetParent(c, p, x, FALSE)
      BY <2>1 DEF SetParentAtEnd
    <3>2. Apart(children[p], c, x)
      BY <3>1, AtEndApart
    <3> HIDE DEF x
    <3> QED  BY <3>1, <3>2, SetParentHeard
  <2>2. ASSUME NEW c \in Entity, NEW p \in Entity, NEW x \in ExplicitPos,
               SetParentAt(c, p, x)
        PROVE  c = e /\ p = ParentOf(e)
    <3>1. Apart(children[p], c, x)
      BY <2>2, FreshApart DEF SetParentAt
    <3> QED  BY <2>2, <3>1, SetParentHeard DEF SetParentAt
  <2>3. ASSUME NEW c \in Entity, Unparent(c) PROVE FALSE
    BY <2>0, <2>3, UnparentHeard
  <2>4. ASSUME NEW c \in Entity, NEW src, NEW dst, NEW x, Reorder(c, src, dst, x)
        PROVE  FALSE
    BY <2>0, <2>4, ReorderHeard
  <2>5. PICK c \in Entity, p \in Entity, x \in ExplicitPos : SetParentAt(c, p, x)
    BY <2>1, <2>3, <2>4
       DEF Next, SetChildPosition, OrderBeforeSibling, OrderToEnd
  <2> QED  BY <2>2, <2>5
<1>2. Spec => []SafeInv
  BY SafeInvHolds
<1> QED  BY <1>1, <1>2, PTL DEF Spec, ListenerLosesOnlyByResettling

-----------------------------------------------------------------------------
(* Where the calls put the child *)

\* After a rotation the entry stands right before the one it went before.
LEMMA MovedPlaces ==
    ASSUME NEW list \in Seq(ChildEntry), NEW src \in 1 .. Len(list),
           NEW dst \in 1 .. Len(list) + 1, NEW entry \in ChildEntry
    PROVE  LET new == Moved(list, src, dst, entry)
           IN  /\ dst = Len(list) + 1 => new[Len(new)] = entry
               /\ dst <= Len(list) /\ dst # src =>
                     \E i \in 2 .. Len(new) :
                        new[i - 1] = entry /\ new[i] = list[dst]
<1> DEFINE new == Moved(list, src, dst, entry)
           rest == RemoveAt(list, src)
           at == IF dst > src THEN dst - 1 ELSE dst
<1>1. /\ rest \in Seq(ChildEntry) /\ Len(rest) = Len(list) - 1
      /\ \A j \in 1 .. src - 1 : rest[j] = list[j]
      /\ \A j \in src .. Len(list) - 1 : rest[j] = list[j + 1]
  BY RemoveAtProperties
<1>2. new = InsertAt(rest, at, entry)
  BY DEF Moved
<1> HIDE DEF rest, new
<1>3. Len(list) \in Nat /\ src \in Nat /\ dst \in Nat
  OBVIOUS
<1>4. at \in 1 .. Len(rest) + 1
  BY <1>1, <1>3
<1> HIDE DEF at
<1>6. /\ Len(new) = Len(rest) + 1
      /\ new[at] = entry
      /\ \A j \in at + 1 .. Len(rest) + 1 : new[j] = rest[j - 1]
  BY <1>1, <1>2, <1>4, InsertedEntries
<1>7. Len(new) = Len(list)
  BY <1>1, <1>3, <1>6
<1>8. dst = Len(list) + 1 => at = Len(list)
  BY <1>3 DEF at
<1>9. ASSUME dst <= Len(list), dst # src
      PROVE  \E i \in 2 .. Len(new) : new[i - 1] = entry /\ new[i] = list[dst]
  <2>1. at \in 1 .. Len(list) - 1
    BY <1>3, <1>9 DEF at
  <2>2. rest[at] = list[dst]
    <3>1. CASE dst > src
      <4>1. at \in src .. Len(list) - 1 /\ at + 1 = dst
        BY <1>3, <1>9, <3>1 DEF at
      <4> QED  BY <1>1, <4>1
    <3>2. CASE dst < src
      <4>1. at \in 1 .. src - 1 /\ at = dst
        BY <1>3, <1>9, <3>2 DEF at
      <4> QED  BY <1>1, <4>1
    <3> QED  BY <1>3, <1>9, <3>1, <3>2
  <2>3. /\ at + 1 \in at + 1 .. Len(rest) + 1 /\ at + 1 \in 2 .. Len(new)
        /\ (at + 1) - 1 = at
    BY <1>1, <1>3, <1>7, <2>1
  <2> QED  BY <1>6, <2>2, <2>3
<1> QED  BY <1>6, <1>7, <1>8, <1>9 DEF new

\* The list of the parent after a call that moves c among its siblings.
LEMMA ReorderPlaces ==
    ASSUME SafeInv, NEW c \in Entity, InTree(c), NEW x,
           NEW dst \in 1 .. Len(children[ParentOf(c)]) + 1,
           Reorder(c, Place(c, ParentOf(c)), dst, x)
    PROVE  /\ ParentOf(c)' = ParentOf(c)
           /\ \E entry \in ChildEntry :
                 /\ entry.eid = c
                 /\ children'[ParentOf(c)] =
                       Moved(children[ParentOf(c)], Place(c, ParentOf(c)), dst, entry)
<1> DEFINE p == ParentOf(c)
           entry == [eid |-> c, position |-> x]
<1>1. p \in Entity /\ OnlyAt(children[p], c, Place(c, p))
  BY PlaceFound
<1>2. children[p][Place(c, p)].eid = c
  BY <1>1 DEF OnlyAt
<1>3. /\ x \in Pos
      /\ connection' = [connection EXCEPT ![c].position = x]
      /\ children' = [children EXCEPT ![p] = Moved(@, Place(c, p), dst, entry)]
  BY <1>2 DEF Reorder
<1>4. entry \in ChildEntry /\ entry.eid = c
  BY <1>3 DEF ChildEntry
<1>5. ParentOf(c)' = ParentOf(c)
  BY <1>3 DEF SafeInv, TypeOK, Connection, ParentOf
<1> HIDE DEF entry
<1>6. children'[p] = Moved(children[p], Place(c, p), dst, entry)
  BY <1>1, <1>3 DEF SafeInv, TypeOK
<1> QED  BY <1>4, <1>5, <1>6

\* order_child_before, with a sibling: right before it.
LEMMA BeforeSiblingPlaced ==
    ASSUME SafeInv, NEW c \in Entity, NEW e \in Entity, OrderBeforeSibling(c, e)
    PROVE  /\ ParentOf(c)' = ParentOf(c)
           /\ \E i \in 2 .. Len(children'[ParentOf(c)]) :
                 /\ children'[ParentOf(c)][i - 1].eid = c
                 /\ children'[ParentOf(c)][i].eid = e
<1> DEFINE p == ParentOf(c)
           list == children[p]
           src == Place(c, p)
           next == Place(e, p)
<1>1. /\ InTree(c) /\ c # e /\ ParentOf(e) = p
      /\ \E x : Reorder(c, src, next, x)
  BY DEF OrderBeforeSibling
<1>2. p \in Entity /\ OnlyAt(list, c, src) /\ OnlyAt(list, e, next)
  BY <1>1, PlaceFound DEF InTree
<1>3. list \in Seq(ChildEntry)
  BY <1>2, ListFacts
<1> HIDE DEF src, next, list, p
<1>4. /\ src \in 1 .. Len(list) /\ next \in 1 .. Len(list) /\ next # src
      /\ list[next].eid = e /\ next \in 1 .. Len(list) + 1
  BY <1>1, <1>2, <1>3 DEF OnlyAt
<1>5. ParentOf(c)' = p /\ \E entry \in ChildEntry :
         entry.eid = c /\ children'[p] = Moved(list, src, next, entry)
  BY <1>1, <1>4, ReorderPlaces DEF p, src, list
<1>6. PICK entry \in ChildEntry :
         entry.eid = c /\ children'[p] = Moved(list, src, next, entry)
  BY <1>5
<1>7. \E i \in 2 .. Len(children'[p]) :
         children'[p][i - 1] = entry /\ children'[p][i] = list[next]
  <2> DEFINE new == Moved(list, src, next, entry)
  <2>1. next <= Len(list)
    BY <1>3, <1>4
  <2>2. \E i \in 2 .. Len(new) : new[i - 1] = entry /\ new[i] = list[next]
    BY <1>3, <1>4, <2>1, MovedPlaces
  <2> QED  BY <1>6, <2>2
<1> QED  BY <1>4, <1>5, <1>6, <1>7 DEF p

\* order_child_before, with no sibling: last.
LEMMA ToEndPlaced ==
    ASSUME SafeInv, NEW c \in Entity, NEW e \in Entity, OrderToEnd(c, e)
    PROVE  ParentOf(c)' = ParentOf(c) /\ Last(children'[ParentOf(c)]).eid = c
<1> DEFINE p == ParentOf(c)
           list == children[p]
           src == Place(c, p)
           end == Len(list) + 1
<1>1. InTree(c) /\ \E x : Reorder(c, src, end, x)
  BY DEF OrderToEnd
<1>2. p \in Entity /\ OnlyAt(list, c, src)
  BY <1>1, PlaceFound
<1>3. list \in Seq(ChildEntry) /\ src \in 1 .. Len(list)
  BY <1>2, ListFacts DEF OnlyAt
<1> HIDE DEF src, list, p
<1>4. end \in 1 .. Len(list) + 1
  BY <1>3
<1>5. ParentOf(c)' = p /\ \E entry \in ChildEntry :
         entry.eid = c /\ children'[p] = Moved(list, src, end, entry)
  BY <1>1, <1>4, ReorderPlaces DEF p, src, list
<1>6. PICK entry \in ChildEntry :
         entry.eid = c /\ children'[p] = Moved(list, src, end, entry)
  BY <1>5
<1>7. children'[p][Len(children'[p])] = entry
  <2> DEFINE new == Moved(list, src, end, entry)
  <2>1. new[Len(new)] = entry
    BY <1>3, <1>4, MovedPlaces
  <2> QED  BY <1>6, <2>1
<1> QED  BY <1>5, <1>6, <1>7 DEF p, Last

\* set_parent(child, parent): last.
LEMMA AtEndPlaced ==
    ASSUME SafeInv, NEW c \in Entity, NEW p \in Entity, SetParentAtEnd(c, p)
    PROVE  Last(children'[p]).eid = c
<1> DEFINE list == children[p]
           x == IF list = <<>> THEN FirstPos ELSE NextPos(Last(list).position)
           dst == LowerBound(list, x)
           end == Len(list) + 1
<1>1. SetParent(c, p, x, FALSE)
  BY DEF SetParentAtEnd
<1>2. list \in Seq(ChildEntry) /\ Sorted(list)
  BY ListFacts
<1>3. x \in Pos
  BY <1>1 DEF SetParent, Adopt, Resettle
<1>4. dst = end
  <2>1. \A j \in 1 .. Len(list) : Under(list[j].position, x)
    <3>1. CASE list = <<>>
      BY <3>1
    <3>2. CASE list # <<>>
      BY <1>2, <1>3, <3>2, NextOverAll
    <3> QED  BY <3>1, <3>2
  <2>2. \A j \in 1 .. Len(list) : Less(list[j].position, x)
    BY <1>2, <1>3, <2>1, EntryType, OrderAssumption
  <2> HIDE DEF x
  <2>3. dst \in 1 .. Len(list) + 1 /\ (dst <= Len(list) => ~Less(list[dst].position, x))
    BY <1>2, LowerBoundProperties
  <2> QED  BY <1>2, <2>2, <2>3
<1> HIDE DEF x, dst
<1>5. CASE ParentOf(c) = p
  <2> DEFINE src == Place(c, p)
             entry == [eid |-> c, position |-> x]
  <2>1. InTree(c)
    BY <1>5, EntityAssumption DEF InTree
  <2>2. OnlyAt(list, c, src)
    BY <1>5, <2>1, PlaceFound
  <2>3. list[src].eid = c /\ src \in 1 .. Len(list)
    BY <2>2 DEF OnlyAt
  <2>4. children' = [children EXCEPT ![p] = Moved(@, src, dst, entry)]
    BY <1>1, <1>5, <2>3 DEF SetParent, Resettle, Place, dst
  <2>5. entry \in ChildEntry /\ entry.eid = c
    BY <1>3 DEF ChildEntry
  <2> HIDE DEF src, entry
  <2>6. children'[p] = Moved(list, src, end, entry)
    BY <1>4, <2>4 DEF SafeInv, TypeOK
  <2>7. children'[p][Len(children'[p])] = entry
    <3> DEFINE new == Moved(list, src, end, entry)
    <3>1. end \in 1 .. Len(list) + 1
      BY <1>2
    <3>2. new[Len(new)] = entry
      BY <1>2, <2>3, <2>5, <3>1, MovedPlaces
    <3> QED  BY <2>6, <3>2
  <2> QED  BY <2>5, <2>7 DEF Last
<1>6. CASE ParentOf(c) # p
  <2> DEFINE freed == Freed(c)
             entry == [eid |-> c, position |-> x]
  <2>1. freed[p] = list
    BY <1>6, FreedFacts
  <2>2. children' = [freed EXCEPT ![p] = InsertAt(@, LowerBound(freed[p], x), entry)]
    BY <1>1, <1>6 DEF SetParent, Adopt, Freed
  <2>3. freed \in [Entity -> Seq(ChildEntry)]
    BY FreedType DEF SafeInv, Freed
  <2>4. entry \in ChildEntry /\ entry.eid = c
    BY <1>3 DEF ChildEntry
  <2> HIDE DEF freed, entry
  <2>5. children'[p] = InsertAt(list, end, entry)
    BY <1>4, <2>1, <2>2, <2>3 DEF dst
  <2>6. Len(list) \in Nat /\ end \in 1 .. Len(list) + 1
    BY <1>2
  <2>7. Len(children'[p]) = end /\ children'[p][end] = entry
    BY <1>2, <2>4, <2>5, <2>6, InsertedEntries
  <2> QED  BY <2>4, <2>7 DEF Last
<1> QED  BY <1>5, <1>6

\* The calls put the child where they say: at the end of the list, or right
\* before the sibling, although they only choose a number for it and search.
THEOREM ChildrenPlacedAsAsked == Reuse = FALSE => (Spec => PlacedAsAsked)
<1> SUFFICES ASSUME Reuse = FALSE PROVE Spec => PlacedAsAsked
  OBVIOUS
<1> DEFINE Placed ==
        \A c \in Entity : connection'[c] # connection[c] /\ InTree(c)' =>
          LET list == children'[ParentOf(c)']
          IN  /\ \/ Last(list).eid = c
                 \/ /\ ~SetParentAtEnd(c, ParentOf(c)')
                    /\ ~\E e \in Entity : OrderToEnd(c, e)
              /\ \A e \in Entity :
                    \/ \E i \in 2 .. Len(list) :
                          list[i - 1].eid = c /\ list[i].eid = e
                    \/ ~OrderBeforeSibling(c, e)
<1>1. SafeInv /\ SafeInv' => Placed
  <2> SUFFICES ASSUME SafeInv, SafeInv', NEW c \in Entity, InTree(c)',
                      NEW p, p = ParentOf(c)'
               PROVE  /\ Last(children'[p]).eid # c =>
                            /\ ~SetParentAtEnd(c, ParentOf(c)')
                            /\ \A e \in Entity : ~OrderToEnd(c, e)
                      /\ \A e \in Entity : OrderBeforeSibling(c, e) =>
                            \E i \in 2 .. Len(children'[p]) :
                               children'[p][i - 1].eid = c /\ children'[p][i].eid = e
    OBVIOUS
  <2>1. p \in Entity
    BY DEF SafeInv, TypeOK, Connection, InTree, ParentOf
  <2>2. SetParentAtEnd(c, ParentOf(c)') => Last(children'[p]).eid = c
    BY <2>1, AtEndPlaced
  <2>3. \A e \in Entity : OrderToEnd(c, e) => Last(children'[p]).eid = c
    BY ToEndPlaced
  <2>4. \A e \in Entity : OrderBeforeSibling(c, e) =>
           \E i \in 2 .. Len(children'[p]) :
              children'[p][i - 1].eid = c /\ children'[p][i].eid = e
    BY BeforeSiblingPlaced
  <2> QED  BY <2>2, <2>3, <2>4
<1>2. Spec => []SafeInv
  BY SafeInvHolds
<1> QED  BY <1>1, <1>2, PTL DEF Spec, PlacedAsAsked

=============================================================================
