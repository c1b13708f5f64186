-------------------------- MODULE GeneratorsProofs --------------------------
(***************************************************************************)
(* Proofs about Generators, for any number of objects and frames, any      *)
(* coroutines and any calls.                                               *)
(***************************************************************************)
EXTENDS Generators, TLAPS

-----------------------------------------------------------------------------
(* What the records are *)

\* The fields of the object of a coroutine.
LEMMA Fields ==
    ASSUME NEW x \in Coroutine
    PROVE  /\ x.kind # "fixed" /\ x.has \in BOOLEAN
           /\ x.handle \in Frame \cup {Null} /\ x.ret \in BOOLEAN
           /\ x \notin Fixed /\ x # Dead
<1>1. x.kind # "fixed" /\ x.has \in BOOLEAN /\ x.ret \in BOOLEAN
      /\ x.handle \in Frame \cup {Null}
  BY DEF Coroutine
<1>2. x \notin Fixed
  BY DEF Coroutine, Fixed
<1>3. x # Dead
  BY DeadAssumption
<1> QED
  BY <1>1, <1>2, <1>3

LEMMA FixedFields ==
    ASSUME NEW x \in Fixed
    PROVE  x.kind = "fixed" /\ x \notin Coroutine /\ x # Dead
<1>1. x.kind = "fixed"
  BY DEF Fixed
<1>2. x \notin Coroutine
  BY <1>1, Fields
<1>3. x # Dead
  BY DeadAssumption
<1> QED
  BY <1>1, <1>2, <1>3

\* A new object has neither finished nor counted.
LEMMA Newborn ==
    ASSUME NEW k \in {"generator", "maybe"}, NEW h \in Frame \cup {Null}
    PROVE  /\ New(k, h) \in Coroutine
           /\ New(k, h).handle = h /\ New(k, h).has /\ ~New(k, h).ret
<1>1. 0 \in 0 .. MaxCount
  BY MaxCountAssumption
<1>2. New(k, h) = [kind |-> k, has |-> TRUE, handle |-> h, ret |-> FALSE, count |-> 0]
  BY DEF New
<1>3. New(k, h) \in Coroutine
  BY <1>1, <1>2 DEF Coroutine
<1>4. New(k, h).handle = h /\ New(k, h).has /\ ~New(k, h).ret
  BY <1>2
<1> QED
  BY <1>3, <1>4

LEMMA Absence ==
    Absent \in Coroutine /\ Absent.handle = Null /\ ~Absent.has /\ ~Absent.ret
<1>1. 0 \in 0 .. MaxCount
  BY MaxCountAssumption
<1>2. Absent \in Coroutine
  BY <1>1 DEF Absent, Coroutine
<1> QED
  BY <1>2 DEF Absent

\* A change of the handle leaves the rest alone.
LEMMA Rehandled ==
    ASSUME NEW x \in Coroutine, NEW h \in Frame \cup {Null}
    PROVE  /\ [x EXCEPT !.handle = h] \in Coroutine
           /\ [x EXCEPT !.handle = h].handle = h
           /\ [x EXCEPT !.handle = h].has = x.has
           /\ [x EXCEPT !.handle = h].ret = x.ret
<1>1. [x EXCEPT !.handle = h] \in Coroutine
  BY DEF Coroutine
<1>2. /\ [x EXCEPT !.handle = h].handle = h
      /\ [x EXCEPT !.handle = h].has = x.has
      /\ [x EXCEPT !.handle = h].ret = x.ret
  BY DEF Coroutine
<1> QED
  BY <1>1, <1>2

LEMMA Emptied ==
    ASSUME NEW x \in Coroutine
    PROVE  /\ Taken(x) \in Coroutine /\ Taken(x).handle = Null
           /\ Taken(x).has = x.has /\ Taken(x).ret = x.ret
<1>1. Taken(x) = [x EXCEPT !.handle = Null]
  BY Fields DEF Taken
<1> QED
  BY <1>1, Rehandled

LEMMA AtItsEnd ==
    ASSUME NEW x \in Coroutine
    PROVE  Finished(x) \in Coroutine /\ Finished(x).handle = Null
           /\ Finished(x).has = x.has
<1>1. Finished(x) \in Coroutine
  BY DEF Finished, Coroutine
<1>2. Finished(x).handle = Null /\ Finished(x).has = x.has
  BY DEF Finished, Coroutine
<1> QED
  BY <1>1, <1>2

LEMMA Counted ==
    ASSUME NEW x \in Coroutine, x.count < MaxCount
    PROVE  /\ [x EXCEPT !.count = @ + 1] \in Coroutine
           /\ [x EXCEPT !.count = @ + 1].handle = x.handle
           /\ [x EXCEPT !.count = @ + 1].has = x.has
           /\ [x EXCEPT !.count = @ + 1].ret = x.ret
<1>1. [x EXCEPT !.count = @ + 1] \in Coroutine
  BY MaxCountAssumption DEF Coroutine
<1>2. /\ [x EXCEPT !.count = @ + 1].handle = x.handle
      /\ [x EXCEPT !.count = @ + 1].has = x.has
      /\ [x EXCEPT !.count = @ + 1].ret = x.ret
  BY DEF Coroutine
<1> QED
  BY <1>1, <1>2

LEMMA Dropped ==
    ASSUME NEW x \in Fixed
    PROVE  [x EXCEPT !.item = None] \in Fixed /\ Taken(x) = x
<1>1. [x EXCEPT !.item = None] \in Fixed
  BY DEF Fixed
<1>2. Taken(x) = x
  BY FixedFields DEF Taken
<1> QED
  BY <1>1, <1>2

\* What moves make of the object of a coroutine: the handle goes over.  An
\* optional without a generator has no handle to give.
Tidy(x) == ~x.has => x.handle = Null

LEMMA BuiltByMove ==
    ASSUME NEW x \in Coroutine, Tidy(x)
    PROVE  /\ Constructed(x) \in Coroutine /\ Constructed(x).handle = x.handle
           /\ Tidy(Constructed(x))
           /\ Constructed(x).ret => ~x.has
<1>1. x.kind \in {"generator", "maybe"} /\ x.kind # "fixed" /\ x.handle \in Frame \cup {Null}
  BY DEF Coroutine
<1>2. CASE x.has
  <2>1. Constructed(x) = New(x.kind, x.handle)
    BY <1>1, <1>2 DEF Constructed
  <2> QED
    BY <2>1, <1>1, Newborn DEF Tidy
<1>3. CASE ~x.has
  <2>1. Constructed(x) = x
    BY <1>3 DEF Constructed
  <2> QED
    BY <2>1, <1>3
<1> QED
  BY <1>2, <1>3

LEMMA SetByMove ==
    ASSUME NEW x \in Coroutine, NEW y \in Coroutine, Tidy(x)
    PROVE  /\ Assigned(y, x) \in Coroutine /\ Assigned(y, x).handle = x.handle
           /\ Tidy(Assigned(y, x))
           /\ Assigned(y, x).ret => ~x.has \/ y.ret
<1>1. x.kind \in {"generator", "maybe"} /\ x.kind # "fixed" /\ x.handle \in Frame \cup {Null}
  BY DEF Coroutine
<1>2. CASE x.has /\ y.has
  <2>1. Assigned(y, x) = [y EXCEPT !.handle = x.handle]
    BY <1>1, <1>2 DEF Assigned
  <2> QED
    BY <2>1, <1>1, <1>2, Rehandled DEF Tidy
<1>3. CASE x.has /\ ~y.has
  <2>1. Assigned(y, x) = New(x.kind, x.handle)
    BY <1>1, <1>3 DEF Assigned
  <2> QED
    BY <2>1, <1>1, Newborn DEF Tidy
<1>4. CASE ~x.has
  <2>1. Assigned(y, x) = x
    BY <1>4 DEF Assigned
  <2> QED
    BY <2>1, <1>4
<1> QED
  BY <1>2, <1>3, <1>4

-----------------------------------------------------------------------------
(* Types *)

\* A destroyed frame is free, and no other.
LEMMA Released ==
    ASSUME TypeOK, NEW o \in Object
    PROVE  /\ Without(o) \in [Frame -> Seq(Item) \cup {Free}]
           /\ \A f \in Frame :
                 Without(o)[f] = IF Holds(o) /\ object[o].handle = f THEN Free
                                 ELSE frame[f]
<1>1. CASE Holds(o)
  <2>1. object[o].handle \in Frame
    BY <1>1, Fields DEF Holds
  <2> QED
    BY <1>1, <2>1 DEF Without, TypeOK
<1>2. CASE ~Holds(o)
  BY <1>2 DEF Without, TypeOK
<1> QED
  BY <1>1, <1>2

AllTidy == \A o \in Object : object[o] \in Coroutine => Tidy(object[o])

\* Moves keep objects what they are.
LEMMA MovedTypes ==
    ASSUME NEW x \in Coroutine \cup Fixed, x \in Coroutine => Tidy(x)
    PROVE  /\ Taken(x) \in Coroutine \cup Fixed
           /\ Taken(x) \in Coroutine => Tidy(Taken(x))
           /\ Constructed(x) \in Coroutine \cup Fixed
           /\ Constructed(x) \in Coroutine => Tidy(Constructed(x))
           /\ \A y \in Coroutine \cup Fixed :
                 y.kind = x.kind =>
                    /\ Assigned(y, x) \in Coroutine \cup Fixed
                    /\ Assigned(y, x) \in Coroutine => Tidy(Assigned(y, x))
<1>1. CASE x \in Coroutine
  <2>1. \A y \in Coroutine \cup Fixed : y.kind = x.kind => y \in Coroutine
    BY <1>1, Fields, FixedFields
  <2>2. Tidy(Taken(x))
    BY <1>1, Emptied DEF Tidy
  <2> QED
    BY <1>1, <2>1, <2>2, Emptied, BuiltByMove, SetByMove
<1>2. CASE x \in Fixed
  <2>1. Constructed(x) = x /\ \A y : Assigned(y, x) = x
    BY <1>2, FixedFields DEF Constructed, Assigned
  <2> QED
    BY <1>2, <2>1, Dropped, FixedFields
<1> QED
  BY <1>1, <1>2

TypeInv == TypeOK /\ AllTidy

LEMMA TypeInit == Init => TypeInv
<1> SUFFICES ASSUME Init PROVE TypeInv
  OBVIOUS
<1>1. TypeOK
  BY DEF Init, TypeOK
<1>2. AllTidy
  BY Fields DEF Init, AllTidy
<1> QED
  BY <1>1, <1>2 DEF TypeInv

LEMMA TypeStep == TypeInv /\ FramesOwnedOnce /\ [Next]_vars => TypeInv'
<1> SUFFICES ASSUME TypeInv, FramesOwnedOnce, [Next]_vars PROVE TypeInv'
  OBVIOUS
<1> DEFINE Any == Coroutine \cup Fixed \cup {Dead}
           Good(x) == x \in Any /\ (x \in Coroutine => Tidy(x))
<1>0. /\ TypeOK
      /\ frame \in [Frame -> Seq(Item) \cup {Free}]
      /\ object \in [Object -> Any]
      /\ \A o \in Object : Good(object[o])
  BY DEF TypeInv, TypeOK, AllTidy
<1>a. ASSUME frame' \in [Frame -> Seq(Item) \cup {Free}],
             object' \in [Object -> Any],
             \A o \in Object : Good(object'[o])
      PROVE  TypeInv'
  BY <1>a DEF TypeInv, TypeOK, AllTidy
<1>b. ASSUME frame' \in [Frame -> Seq(Item) \cup {Free}], NEW o \in Object, NEW x,
             object' = [object EXCEPT ![o] = x], Good(x)
      PROVE  TypeInv'
  <2>1. object' \in [Object -> Any]
    BY <1>0, <1>b
  <2>2. \A u \in Object : object'[u] = IF u = o THEN x ELSE object[u]
    BY <1>0, <1>b
  <2> HIDE DEF Good
  <2>3. \A u \in Object : Good(object'[u])
    BY <1>0, <1>b, <2>2
  <2> QED
    BY <1>a, <1>b, <2>1, <2>3
<1>c. ASSUME frame' \in [Frame -> Seq(Item) \cup {Free}],
             NEW o \in Object, NEW u \in Object, NEW x, NEW y,
             object' = [object EXCEPT ![o] = x, ![u] = y], Good(x), Good(y)
      PROVE  TypeInv'
  <2>1. object' \in [Object -> Any]
    BY <1>0, <1>c
  <2>2. \A v \in Object :
           object'[v] = IF v = u THEN y ELSE IF v = o THEN x ELSE object[v]
    BY <1>0, <1>c
  <2> HIDE DEF Good
  <2>3. \A v \in Object : Good(object'[v])
    BY <1>0, <1>c, <2>2
  <2> QED
    BY <1>a, <1>c, <2>1, <2>3
<1>1. ASSUME NEW o \in Object, NEW k \in {"generator", "maybe"}, NEW b \in Bodies,
             Call(o, k, b)
      PROVE TypeInv'
  <2>1. PICK f \in Frame :
           /\ frame' = [frame EXCEPT ![f] = b]
           /\ object' = [object EXCEPT ![o] = New(k, f)]
    BY <1>1 DEF Call
  <2>2. frame' \in [Frame -> Seq(Item) \cup {Free}]
    BY <1>0, <2>1, BodiesAssumption
  <2>3. Good(New(k, f))
    BY Newborn DEF Tidy
  <2> QED
    BY <1>b, <2>1, <2>2, <2>3
<1>2. ASSUME NEW o \in Object, Make(o) PROVE TypeInv'
  <2>1. PICK x \in {Absent} \cup Fixed : object' = [object EXCEPT ![o] = x]
    BY <1>2 DEF Make
  <2>2. Good(x)
    BY Absence, FixedFields DEF Tidy
  <2> QED
    BY <1>0, <1>2, <1>b, <2>1, <2>2 DEF Make
<1>3. ASSUME NEW o \in Object, Resume(o) PROVE TypeInv'
  <2> DEFINE h == object[o].handle
             x == [object[o] EXCEPT !.count = @ + 1]
  <2>1. object[o] \in Coroutine /\ h \in Frame /\ object[o].count < MaxCount
    BY <1>3, Fields DEF Resume, Holds
  <2>2. frame' = [frame EXCEPT ![h] = Tail(@)] /\ Len(frame[h]) > 1
        /\ object' = [object EXCEPT ![o] = x]
    BY <1>3 DEF Resume
  <2>3. Good(x)
    BY <1>0, <2>1, Counted DEF Tidy
  <2>4. frame[h] \in Seq(Item)
    BY <1>0, <2>1, <1>3 DEF Resume, FramesOwnedOnce
  <2>5. frame' \in [Frame -> Seq(Item) \cup {Free}]
    BY <1>0, <2>1, <2>2, <2>4
  <2> QED
    BY <1>b, <2>2, <2>3, <2>5
<1>4. ASSUME NEW o \in Object, Finish(o) PROVE TypeInv'
  <2>1. object[o] \in Coroutine
    BY <1>4 DEF Finish, Finishes, Holds
  <2>2. Good(Finished(object[o]))
    BY <2>1, AtItsEnd DEF Tidy
  <2>3. object' = [object EXCEPT ![o] = Finished(object[o])] /\ frame' = Without(o)
    BY <1>4 DEF Finish
  <2> QED
    BY <1>0, <1>b, <2>2, <2>3, Released
<1>5. ASSUME NEW o \in Object, DropItem(o) PROVE TypeInv'
  <2>1. object[o] \in Fixed
    BY <1>0, <1>5, Fields DEF DropItem, Alive
  <2>2. object' = [object EXCEPT ![o] = [object[o] EXCEPT !.item = None]]
        /\ frame' = frame
    BY <1>5 DEF DropItem
  <2>3. Good([object[o] EXCEPT !.item = None])
    BY <2>1, Dropped, FixedFields
  <2> QED
    BY <1>0, <1>b, <2>2, <2>3
<1>6. ASSUME NEW o \in Object, NEW from \in Object, MoveConstruct(o, from)
      PROVE TypeInv'
  <2>1. Good(Constructed(object[from])) /\ Good(Taken(object[from]))
    BY <1>0, <1>6, MovedTypes DEF MoveConstruct, Alive
  <2> HIDE DEF Good
  <2> QED
    BY <1>0, <1>6, <1>c, <2>1 DEF MoveConstruct
<1>7. ASSUME NEW o \in Object, NEW from \in Object, MoveAssign(o, from)
      PROVE TypeInv'
  <2>1. Good(Assigned(object[o], object[from])) /\ Good(Taken(object[from]))
    BY <1>0, <1>7, MovedTypes DEF MoveAssign, Alive
  <2>2. frame' \in [Frame -> Seq(Item) \cup {Free}]
    BY <1>0, <1>7, Released DEF MoveAssign, Replaced
  <2> HIDE DEF Good
  <2> QED
    BY <1>7, <1>c, <2>1, <2>2 DEF MoveAssign
<1>8. ASSUME NEW o \in Object, Destroy(o) PROVE TypeInv'
  <2>1. Good(Dead)
    BY Fields
  <2> QED
    BY <1>0, <1>8, <1>b, <2>1, Released DEF Destroy
<1>9. CASE UNCHANGED vars
  BY <1>0, <1>9, <1>a DEF vars
<1> QED
  BY <1>1, <1>2, <1>3, <1>4, <1>5, <1>6, <1>7, <1>8, <1>9 DEF Next

-----------------------------------------------------------------------------
(* Ownership *)

\* The frame that an object holds.
Held(x) == IF x \in Coroutine THEN x.handle ELSE Null

Holding == [o \in Object |-> Held(object[o])]

\* What FramesOwnedOnce says of frames fr held as H says.
OwnedAs(fr, H) ==
    /\ \A o \in Object : H[o] # Null => fr[H[o]] # Free
    /\ \A f \in Frame : fr[f] # Free => \E o \in Object : H[o] = f
    /\ \A o, u \in Object : H[o] # Null /\ H[o] = H[u] => o = u

LEMMA HoldingIs ==
    ASSUME TypeInv, NEW o \in Object
    PROVE  /\ Held(object[o]) \in Frame \cup {Null}
           /\ Holds(o) <=> Held(object[o]) # Null
           /\ Holds(o) => object[o].handle = Held(object[o])
<1>1. CASE object[o] \in Coroutine
  BY <1>1, Fields DEF Held, Holds, Alive
<1>2. CASE object[o] \notin Coroutine
  BY <1>2 DEF Held, Holds
<1> QED
  BY <1>1, <1>2

Owned == OwnedAs(frame, Holding)

LEMMA OwnedOnce == TypeInv => (FramesOwnedOnce <=> Owned)
<1> SUFFICES ASSUME TypeInv PROVE FramesOwnedOnce <=> OwnedAs(frame, Holding)
  BY DEF Owned
<1>1. \A o \in Object : Holding[o] = Held(object[o])
  BY DEF Holding
<1>2. ASSUME FramesOwnedOnce PROVE OwnedAs(frame, Holding)
  <2>1. \A f \in Frame : frame[f] # Free => \E o \in Object : Holding[o] = f
    BY <1>1, <1>2, HoldingIs DEF FramesOwnedOnce
  <2>2. \A o \in Object : Holding[o] # Null => frame[Holding[o]] # Free
    BY <1>1, <1>2, HoldingIs DEF FramesOwnedOnce
  <2>3. \A o, u \in Object : Holding[o] # Null /\ Holding[o] = Holding[u] => o = u
    <3>1. SUFFICES ASSUME NEW o \in Object, NEW u \in Object,
                          Holding[o] # Null, Holding[o] = Holding[u]
                   PROVE  o = u
      OBVIOUS
    <3>2. Holds(o) /\ Holds(u) /\ object[o].handle = object[u].handle
      BY <1>1, <3>1, HoldingIs
    <3> QED
      BY <1>2, <3>2 DEF FramesOwnedOnce
  <2> QED
    BY <2>1, <2>2, <2>3 DEF OwnedAs
<1>3. ASSUME OwnedAs(frame, Holding) PROVE FramesOwnedOnce
  <2>1. \A o \in Object : Holds(o) => frame[object[o].handle] # Free
    BY <1>1, <1>3, HoldingIs DEF OwnedAs
  <2>2. \A f \in Frame : frame[f] # Free => \E o \in Object : Holds(o) /\ object[o].handle = f
    <3>1. SUFFICES ASSUME NEW f \in Frame, frame[f] # Free
                   PROVE  \E o \in Object : Holds(o) /\ object[o].handle = f
      OBVIOUS
    <3>2. PICK o \in Object : Held(object[o]) = f
      BY <1>1, <1>3, <3>1 DEF OwnedAs
    <3>3. f # Null
      BY SentinelAssumption
    <3> QED
      BY <3>2, <3>3, HoldingIs
  <2>3. \A o, u \in Object :
           Holds(o) /\ Holds(u) /\ object[o].handle = object[u].handle => o = u
    <3>1. SUFFICES ASSUME NEW o \in Object, NEW u \in Object, Holds(o), Holds(u),
                          object[o].handle = object[u].handle
                   PROVE  o = u
      OBVIOUS
    <3>2. Held(object[o]) # Null /\ Held(object[o]) = Held(object[u])
      BY <3>1, HoldingIs
    <3> QED
      BY <1>1, <1>3, <3>2 DEF OwnedAs
  <2> QED
    BY <2>1, <2>2, <2>3 DEF FramesOwnedOnce
<1> QED
  BY <1>2, <1>3

\* o takes a frame that was free.
LEMMA TakesFrame ==
    ASSUME NEW fr, NEW gr, NEW H, NEW G, NEW o \in Object, NEW f \in Frame,
           OwnedAs(fr, H), \A u \in Object : H[u] \in Frame \cup {Null},
           fr[f] = Free, gr[f] # Free, \A e \in Frame \ {f} : gr[e] = fr[e],
           H[o] = Null, G[o] = f, \A u \in Object \ {o} : G[u] = H[u]
    PROVE  OwnedAs(gr, G)
<1>1. \A u \in Object : H[u] # f
  BY SentinelAssumption DEF OwnedAs
<1>2. \A u \in Object : G[u] # Null => gr[G[u]] # Free
  BY <1>1 DEF OwnedAs
<1>3. \A e \in Frame : gr[e] # Free => \E u \in Object : G[u] = e
  <2>1. SUFFICES ASSUME NEW e \in Frame, gr[e] # Free, e # f
                 PROVE  \E u \in Object : G[u] = e
    OBVIOUS
  <2>2. PICK u \in Object : H[u] = e
    BY <2>1 DEF OwnedAs
  <2>3. u # o
    BY <2>2, SentinelAssumption
  <2> QED
    BY <2>2, <2>3
<1>4. \A u, v \in Object : G[u] # Null /\ G[u] = G[v] => u = v
  BY <1>1 DEF OwnedAs
<1> QED
  BY <1>2, <1>3, <1>4 DEF OwnedAs

\* The frame of o is destroyed, and o gets that of another object, or none.
LEMMA GetsFrame ==
    ASSUME NEW fr, NEW gr, NEW H, NEW G, NEW o \in Object, NEW from \in Object,
           OwnedAs(fr, H), \A u \in Object : H[u] \in Frame \cup {Null},
           \A e \in Frame : gr[e] = IF e = H[o] THEN Free ELSE fr[e],
           G[o] = IF from = o THEN Null ELSE H[from],
           from # o => G[from] = Null,
           \A u \in Object \ {o, from} : G[u] = H[u]
    PROVE  OwnedAs(gr, G)
<1>1. \A u \in Object : G[u] # Null =>
         \E v \in Object : v # o /\ G[u] = H[v] /\ (u = o => v = from) /\ (u # o => v = u)
  OBVIOUS
<1>2. ASSUME NEW u \in Object, G[u] # Null PROVE gr[G[u]] # Free
  <2>1. PICK v \in Object : v # o /\ G[u] = H[v]
    BY <1>1, <1>2
  <2>2. H[v] # Null /\ H[v] \in Frame /\ fr[H[v]] # Free /\ H[v] # H[o]
    BY <1>2, <2>1 DEF OwnedAs
  <2> QED
    BY <2>1, <2>2
<1>3. ASSUME NEW e \in Frame, gr[e] # Free PROVE \E u \in Object : G[u] = e
  <2>1. fr[e] # Free /\ e # H[o]
    BY <1>3
  <2>2. PICK v \in Object : H[v] = e
    BY <2>1 DEF OwnedAs
  <2>3. v # o
    BY <2>1, <2>2
  <2> QED
    BY <2>2, <2>3
<1>i. \A w, x \in Object : H[w] # Null /\ H[w] = H[x] => w = x
  BY DEF OwnedAs
<1>4. ASSUME NEW u \in Object, NEW v \in Object, G[u] # Null, G[u] = G[v] PROVE u = v
  <2>1. PICK x \in Object : G[u] = H[x] /\ (u = o => x = from) /\ (u # o => x = u)
    BY <1>1, <1>4
  <2>2. PICK y \in Object : G[v] = H[y] /\ (v = o => y = from) /\ (v # o => y = v)
    BY <1>1, <1>4
  <2>3. x = y
    <3>1. H[x] # Null /\ H[x] = H[y]
      BY <1>4, <2>1, <2>2
    <3> QED
      BY <3>1, <1>i
  <2>4. \A w \in Object : G[w] # Null /\ w # o => w # from
    OBVIOUS
  <2>5. CASE u = o
    BY <1>4, <2>1, <2>2, <2>3, <2>4, <2>5
  <2>6. CASE u # o
    BY <1>4, <2>1, <2>2, <2>3, <2>4, <2>6
  <2> QED
    BY <2>5, <2>6
<1> QED
  BY <1>2, <1>3, <1>4 DEF OwnedAs

\* Nobody takes a frame or gives one up.
LEMMA SameFrames ==
    ASSUME NEW fr, NEW gr, NEW H, NEW G, OwnedAs(fr, H),
           \A u \in Object : H[u] \in Frame \cup {Null} /\ G[u] = H[u],
           \A e \in Frame : gr[e] = Free <=> fr[e] = Free
    PROVE  OwnedAs(gr, G)
BY DEF OwnedAs

\* Who holds what after a step.
LEMMA HeldIs ==
    /\ \A x \in Coroutine : Held(x) = x.handle
    /\ \A x \in Fixed : Held(x) = Null
    /\ Held(Dead) = Null
BY Fields, FixedFields DEF Held

LEMMA MovesHold ==
    ASSUME NEW x \in Coroutine \cup Fixed, x \in Coroutine => Tidy(x)
    PROVE  /\ Held(Constructed(x)) = Held(x) /\ Held(Taken(x)) = Null
           /\ \A y \in Coroutine \cup Fixed :
                 y.kind = x.kind => Held(Assigned(y, x)) = Held(x)
<1>1. CASE x \in Coroutine
  <2>1. \A y \in Coroutine \cup Fixed : y.kind = x.kind => y \in Coroutine
    BY <1>1, Fields, FixedFields
  <2>2. \A y \in Coroutine :
           Assigned(y, x) \in Coroutine /\ Assigned(y, x).handle = x.handle
    BY <1>1, SetByMove
  <2> QED
    BY <1>1, <2>1, <2>2, Emptied, BuiltByMove, HeldIs
<1>2. CASE x \in Fixed
  <2>1. Constructed(x) = x /\ Taken(x) = x /\ \A y : Assigned(y, x) = x
    BY <1>2, Dropped, FixedFields DEF Constructed, Assigned
  <2> QED
    BY <1>2, <2>1, HeldIs
<1> QED
  BY <1>1, <1>2

LEMMA OwnInit == Init => FramesOwnedOnce
<1> SUFFICES ASSUME Init PROVE FramesOwnedOnce
  OBVIOUS
<1>1. \A o \in Object : ~Holds(o)
  BY DEF Init, Holds, Alive
<1> QED
  BY <1>1 DEF Init, FramesOwnedOnce

LEMMA OwnStep == TypeInv /\ FramesOwnedOnce /\ [Next]_vars => FramesOwnedOnce'
<1> SUFFICES ASSUME TypeInv, FramesOwnedOnce, [Next]_vars PROVE FramesOwnedOnce'
  OBVIOUS
<1>t. TypeInv'
  BY TypeStep
<1>o. OwnedAs(frame, Holding)
  BY OwnedOnce DEF Owned
<1>p. SUFFICES OwnedAs(frame', Holding')
  <2>1. TypeInv' => (FramesOwnedOnce' <=> Owned')
    BY OwnedOnce, PTL
  <2> QED
    BY <1>t, <2>1 DEF Owned
<1>0. /\ TypeOK
      /\ object \in [Object -> Coroutine \cup Fixed \cup {Dead}]
      /\ frame \in [Frame -> Seq(Item) \cup {Free}]
      /\ \A o \in Object : object[o] \in Coroutine => Tidy(object[o])
  BY DEF TypeInv, TypeOK, AllTidy
<1>h. /\ \A u \in Object : Holding[u] = Held(object[u])
      /\ \A u \in Object : Holding'[u] = Held(object'[u])
      /\ \A u \in Object : Holding[u] \in Frame \cup {Null}
  BY HoldingIs DEF Holding
<1>w. ASSUME NEW o \in Object
      PROVE  \A e \in Frame :
                Without(o)[e] = IF e = Holding[o] THEN Free ELSE frame[e]
  BY <1>0, <1>h, HoldingIs, Released, SentinelAssumption
<1>g. ASSUME NEW o \in Object, NEW from \in Object,
             \A e \in Frame : frame'[e] = IF e = Holding[o] THEN Free ELSE frame[e],
             Holding'[o] = IF from = o THEN Null ELSE Holding[from],
             from # o => Holding'[from] = Null,
             \A u \in Object \ {o, from} : Holding'[u] = Holding[u]
      PROVE  OwnedAs(frame', Holding')
  <2>1. \A u \in Object : Holding[u] \in Frame \cup {Null}
    BY <1>h
  <2> HIDE DEF Holding
  <2> QED
    BY <1>o, <1>g, <2>1, GetsFrame
<1>k. ASSUME NEW o \in Object, NEW f \in Frame,
             frame[f] = Free, frame'[f] # Free,
             \A e \in Frame \ {f} : frame'[e] = frame[e],
             Holding[o] = Null, Holding'[o] = f,
             \A u \in Object \ {o} : Holding'[u] = Holding[u]
      PROVE  OwnedAs(frame', Holding')
  <2>1. \A u \in Object : Holding[u] \in Frame \cup {Null}
    BY <1>h
  <2> HIDE DEF Holding
  <2> QED
    BY <1>o, <1>k, <2>1, TakesFrame
<1> HIDE DEF Holding
<1>1. ASSUME NEW o \in Object, NEW k \in {"generator", "maybe"}, NEW b \in Bodies,
             Call(o, k, b)
      PROVE OwnedAs(frame', Holding')
  <2>1. PICK f \in Frame :
           /\ frame[f] = Free
           /\ frame' = [frame EXCEPT ![f] = b]
           /\ object' = [object EXCEPT ![o] = New(k, f)]
    BY <1>1 DEF Call
  <2>2. Holding'[o] = f /\ \A u \in Object \ {o} : Holding'[u] = Holding[u]
    BY <1>0, <1>h, <2>1, Newborn, HeldIs
  <2>3. Holding[o] = Null
    BY <1>1, <1>h, HeldIs DEF Call, Alive
  <2>4. frame'[f] # Free /\ \A e \in Frame \ {f} : frame'[e] = frame[e]
    BY <1>0, <2>1, BodiesAssumption, SentinelAssumption
  <2> QED
    BY <1>k, <2>1, <2>2, <2>3, <2>4
<1>2. ASSUME NEW o \in Object, Make(o) PROVE OwnedAs(frame', Holding')
  <2>1. PICK x \in {Absent} \cup Fixed : object' = [object EXCEPT ![o] = x]
    BY <1>2 DEF Make
  <2>2. Held(x) = Null /\ Holding[o] = Null
    BY <1>2, <1>h, Absence, HeldIs DEF Make, Alive
  <2>3. \A u \in Object : Holding'[u] = Holding[u]
    BY <1>0, <1>h, <2>1, <2>2
  <2> QED
    BY <1>2, <1>o, <1>h, <2>3, SameFrames DEF Make
<1>3. ASSUME NEW o \in Object, Resume(o) PROVE OwnedAs(frame', Holding')
  <2> DEFINE h == object[o].handle
             x == [object[o] EXCEPT !.count = @ + 1]
  <2>1. object[o] \in Coroutine /\ h \in Frame /\ object[o].count < MaxCount
    BY <1>3, Fields DEF Resume, Holds
  <2>2. frame' = [frame EXCEPT ![h] = Tail(@)] /\ Len(frame[h]) > 1
        /\ object' = [object EXCEPT ![o] = x]
    BY <1>3 DEF Resume
  <2>3. frame[h] \in Seq(Item)
    BY <1>0, <2>1, <1>3 DEF Resume, FramesOwnedOnce
  <2>4. Tail(frame[h]) \in Seq(Item)
    BY <2>2, <2>3
  <2>5. \A e \in Frame : frame'[e] = Free <=> frame[e] = Free
    BY <1>0, <2>1, <2>2, <2>3, <2>4, SentinelAssumption
  <2>6. Held(x) = Held(object[o])
    BY <2>1, Counted, HeldIs
  <2>7. \A u \in Object : Holding'[u] = Holding[u]
    BY <1>0, <1>h, <2>2, <2>6
  <2> QED
    BY <1>o, <1>h, <2>5, <2>7, SameFrames
<1>4. ASSUME NEW o \in Object, Finish(o) PROVE OwnedAs(frame', Holding')
  <2>1. Held(Finished(object[o])) = Null
    BY <1>4, AtItsEnd, HeldIs DEF Finish, Finishes, Holds
  <2>2. object' = [object EXCEPT ![o] = Finished(object[o])] /\ frame' = Without(o)
    BY <1>4 DEF Finish
  <2>3. Holding'[o] = Null /\ \A u \in Object \ {o} : Holding'[u] = Holding[u]
    BY <1>0, <1>h, <2>1, <2>2
  <2> QED
    BY <1>g, <1>w, <2>2, <2>3
<1>5. ASSUME NEW o \in Object, DropItem(o) PROVE OwnedAs(frame', Holding')
  <2>1. object[o] \in Fixed
    BY <1>0, <1>5, Fields DEF DropItem, Alive
  <2>2. object' = [object EXCEPT ![o] = [object[o] EXCEPT !.item = None]]
        /\ frame' = frame
    BY <1>5 DEF DropItem
  <2>3. Held([object[o] EXCEPT !.item = None]) = Held(object[o])
    BY <2>1, Dropped, HeldIs
  <2>4. \A u \in Object : Holding'[u] = Holding[u]
    BY <1>0, <1>h, <2>2, <2>3
  <2> QED
    BY <1>o, <1>h, <2>2, <2>4, SameFrames
<1>6. ASSUME NEW o \in Object, NEW from \in Object, MoveConstruct(o, from)
      PROVE OwnedAs(frame', Holding')
  <2>1. Held(Constructed(object[from])) = Holding[from] /\ Held(Taken(object[from])) = Null
    BY <1>0, <1>6, <1>h, MovesHold DEF MoveConstruct, Alive
  <2>2. o # from /\ Holding[o] = Null
    BY <1>6, <1>h, HeldIs DEF MoveConstruct, Alive
  <2>3. /\ object' = [object EXCEPT ![o] = Constructed(object[from]),
                                    ![from] = Taken(object[from])]
        /\ frame' = frame
    BY <1>6 DEF MoveConstruct
  <2>4. /\ Holding'[o] = Holding[from] /\ Holding'[from] = Null
        /\ \A u \in Object \ {o, from} : Holding'[u] = Holding[u]
    BY <1>0, <1>h, <2>1, <2>2, <2>3
  <2>5. \A e \in Frame : frame'[e] = IF e = Holding[o] THEN Free ELSE frame[e]
    BY <2>2, <2>3, SentinelAssumption
  <2> QED
    BY <1>g, <2>2, <2>4, <2>5
<1>7. ASSUME NEW o \in Object, NEW from \in Object, MoveAssign(o, from)
      PROVE OwnedAs(frame', Holding')
  <2>1. Held(Assigned(object[o], object[from])) = Holding[from]
        /\ Held(Taken(object[from])) = Null
    BY <1>0, <1>7, <1>h, MovesHold DEF MoveAssign, Alive
  <2>2. o # from
    BY <1>7 DEF MoveAssign
  <2>3. /\ object' = [object EXCEPT ![o] = Assigned(object[o], object[from]),
                                    ![from] = Taken(object[from])]
        /\ frame' = Without(o)
    BY <1>7 DEF MoveAssign, Replaced
  <2>4. /\ Holding'[o] = Holding[from] /\ Holding'[from] = Null
        /\ \A u \in Object \ {o, from} : Holding'[u] = Holding[u]
    BY <1>0, <1>h, <2>1, <2>2, <2>3
  <2> QED
    BY <1>g, <1>w, <2>2, <2>3, <2>4
<1>8. ASSUME NEW o \in Object, Destroy(o) PROVE OwnedAs(frame', Holding')
  <2>1. object' = [object EXCEPT ![o] = Dead] /\ frame' = Without(o)
    BY <1>8 DEF Destroy
  <2>2. Holding'[o] = Null /\ \A u \in Object \ {o} : Holding'[u] = Holding[u]
    BY <1>0, <1>h, <2>1, HeldIs
  <2> QED
    BY <1>g, <1>w, <2>1, <2>2
<1>9. CASE UNCHANGED vars
  <2>1. frame' = frame /\ \A u \in Object : Holding'[u] = Holding[u]
    BY <1>9, <1>h DEF vars
  <2> QED
    BY <1>o, <1>h, <2>1, SameFrames
<1> QED
  BY <1>1, <1>2, <1>3, <1>4, <1>5, <1>6, <1>7, <1>8, <1>9 DEF Next

-----------------------------------------------------------------------------
(* Theorems *)

LEMMA Joint == Spec => [](TypeInv /\ FramesOwnedOnce)
<1>1. Init => TypeInv /\ FramesOwnedOnce
  BY TypeInit, OwnInit
<1>2. TypeInv /\ FramesOwnedOnce /\ [Next]_vars => (TypeInv /\ FramesOwnedOnce)'
  BY TypeStep, OwnStep
<1> QED
  BY <1>1, <1>2, PTL DEF Spec

\* Every object is one of the kinds that generator.h declares, or is gone, and
\* every frame holds a coroutine or is free, after any sequence of calls.
THEOREM TypeCorrect == Spec => []TypeOK
<1>1. TypeInv => TypeOK
  BY DEF TypeInv
<1> QED
  BY Joint, <1>1, PTL

\* The destructor and the two moves of Generator neither leak a coroutine nor
\* leave two objects with one: every frame has exactly one owner.
THEOREM OneOwner == Spec => []FramesOwnedOnce
<1> QED
  BY Joint, PTL

-----------------------------------------------------------------------------
(* The end of a generator *)

\* Finality, object by object.
Over(x) == x \in Coroutine /\ x.ret => x.handle = Null

AllOver == \A o \in Object : Over(object[o])

LEMMA OverStep ==
    ASSUME ReuseFinished = FALSE, TypeInv, AllOver, [Next]_vars
    PROVE  AllOver'
<1>0. /\ object \in [Object -> Coroutine \cup Fixed \cup {Dead}]
      /\ \A o \in Object : object[o] \in Coroutine => Tidy(object[o])
      /\ \A o \in Object : Over(object[o])
  BY DEF TypeInv, TypeOK, AllTidy, AllOver
<1>b. ASSUME NEW o \in Object, NEW x, object' = [object EXCEPT ![o] = x], Over(x)
      PROVE  AllOver'
  <2>1. \A u \in Object : object'[u] = IF u = o THEN x ELSE object[u]
    BY <1>0, <1>b
  <2>2. \A u \in Object : Over(object'[u])
    BY <1>0, <1>b, <2>1
  <2> QED
    BY <2>2 DEF AllOver
<1>c. ASSUME NEW o \in Object, NEW u \in Object, NEW x, NEW y,
             object' = [object EXCEPT ![o] = x, ![u] = y], Over(x), Over(y)
      PROVE  AllOver'
  <2>1. \A v \in Object :
           object'[v] = IF v = u THEN y ELSE IF v = o THEN x ELSE object[v]
    BY <1>0, <1>c
  <2>2. \A v \in Object : Over(object'[v])
    BY <1>0, <1>c, <2>1
  <2> QED
    BY <2>2 DEF AllOver
<1>f. \A x \in Fixed : Over(x)
  BY FixedFields DEF Over
<1>g. \A x \in Coroutine \cup Fixed : Over(Taken(x))
  BY <1>f, Emptied, Dropped DEF Over
<1>1. ASSUME NEW o \in Object, NEW k \in {"generator", "maybe"}, NEW b \in Bodies,
             Call(o, k, b)
      PROVE AllOver'
  <2>1. PICK f \in Frame : object' = [object EXCEPT ![o] = New(k, f)]
    BY <1>1 DEF Call
  <2>2. Over(New(k, f))
    BY Newborn DEF Over
  <2> QED
    BY <1>b, <2>1, <2>2
<1>2. ASSUME NEW o \in Object, Make(o) PROVE AllOver'
  <2>1. PICK x \in {Absent} \cup Fixed : object' = [object EXCEPT ![o] = x]
    BY <1>2 DEF Make
  <2>2. Over(x)
    BY <1>f, Absence DEF Over
  <2> QED
    BY <1>b, <2>1, <2>2
<1>3. ASSUME NEW o \in Object, Resume(o) PROVE AllOver'
  <2>1. object[o] \in Coroutine /\ object[o].count < MaxCount
        /\ object' = [object EXCEPT ![o] = [object[o] EXCEPT !.count = @ + 1]]
    BY <1>3 DEF Resume, Holds
  <2>2. Over([object[o] EXCEPT !.count = @ + 1])
    BY <1>0, <2>1, Counted DEF Over
  <2> QED
    BY <1>b, <2>1, <2>2
<1>4. ASSUME NEW o \in Object, Finish(o) PROVE AllOver'
  <2>1. Over(Finished(object[o]))
    BY <1>4, AtItsEnd DEF Finish, Finishes, Holds, Over
  <2> QED
    BY <1>4, <1>b, <2>1 DEF Finish
<1>5. ASSUME NEW o \in Object, DropItem(o) PROVE AllOver'
  <2>1. Over([object[o] EXCEPT !.item = None])
    BY <1>0, <1>5, <1>f, Dropped, Fields DEF DropItem, Alive
  <2> QED
    BY <1>5, <1>b, <2>1 DEF DropItem
<1>6. ASSUME NEW o \in Object, NEW from \in Object, MoveConstruct(o, from)
      PROVE AllOver'
  <2>1. /\ object[from] \in Coroutine \cup Fixed
        /\ object[from] \in Coroutine => Tidy(object[from])
    BY <1>0, <1>6 DEF MoveConstruct, Alive
  <2>2. Over(Constructed(object[from]))
    <3>1. CASE object[from] \in Coroutine
      BY <2>1, <3>1, BuiltByMove DEF Over, Tidy
    <3>2. CASE object[from] \in Fixed
      BY <3>2, <1>f, FixedFields DEF Constructed
    <3> QED
      BY <2>1, <3>1, <3>2
  <2>3. Over(Taken(object[from]))
    BY <1>g, <2>1
  <2>4. object' = [object EXCEPT ![o] = Constructed(object[from]),
                                ![from] = Taken(object[from])]
    BY <1>6 DEF MoveConstruct
  <2> QED
    BY <1>c, <2>2, <2>3, <2>4
<1>7. ASSUME NEW o \in Object, NEW from \in Object, MoveAssign(o, from)
      PROVE AllOver'
  <2>1. /\ object[from] \in Coroutine \cup Fixed
        /\ object[o] \in Coroutine \cup Fixed
        /\ object[o].kind = object[from].kind
        /\ object[from] \in Coroutine => Tidy(object[from])
        /\ object[o].kind # "fixed" => ~object[o].ret
    BY <1>0, <1>7 DEF MoveAssign, Alive
  <2>2. Over(Assigned(object[o], object[from]))
    <3>1. CASE object[from] \in Coroutine
      <4>1. object[o] \in Coroutine /\ ~object[o].ret
        BY <2>1, <3>1, Fields, FixedFields
      <4> QED
        BY <2>1, <3>1, <4>1, SetByMove DEF Over, Tidy
    <3>2. CASE object[from] \in Fixed
      BY <3>2, <1>f, FixedFields DEF Assigned
    <3> QED
      BY <2>1, <3>1, <3>2
  <2>3. Over(Taken(object[from]))
    BY <1>g, <2>1
  <2>4. object' = [object EXCEPT ![o] = Assigned(object[o], object[from]),
                                ![from] = Taken(object[from])]
    BY <1>7 DEF MoveAssign
  <2> QED
    BY <1>c, <2>2, <2>3, <2>4
<1>8. ASSUME NEW o \in Object, Destroy(o) PROVE AllOver'
  <2>1. Over(Dead)
    BY Fields DEF Over
  <2> QED
    BY <1>8, <1>b, <2>1 DEF Destroy
<1>9. CASE UNCHANGED vars
  BY <1>0, <1>9 DEF vars, AllOver
<1> QED
  BY <1>1, <1>2, <1>3, <1>4, <1>5, <1>6, <1>7, <1>8, <1>9 DEF Next

\* A generator that says it has finished has no coroutine left to resume, as
\* long as no client assigns to a finished one, whose _ret operator= keeps.
THEOREM Finality ==
    ASSUME ReuseFinished = FALSE
    PROVE  Spec => []FinishedIsOver
<1>1. Init => AllOver
  BY Fields DEF Init, AllOver, Over
<1>2. TypeInv /\ AllOver /\ [Next]_vars => AllOver'
  BY OverStep
<1>3. AllOver => FinishedIsOver
  BY Fields DEF AllOver, Over, FinishedIsOver, Items, Alive, Holds
<1> QED
  BY Joint, <1>1, <1>2, <1>3, PTL DEF Spec

-----------------------------------------------------------------------------
(* Refinement *)

\* The items to come from an object x, with the frames fr.
Coming(x, fr) ==
    IF x = Dead THEN Dead
    ELSE IF x \in Fixed THEN IF x.item = None THEN <<>> ELSE <<x.item>>
    ELSE IF Held(x) # Null THEN fr[Held(x)] ELSE <<>>

LEMMA ItemsAreComing ==
    TypeInv => \A o \in Object : Items(o) = Coming(object[o], frame)
<1> SUFFICES ASSUME TypeInv, NEW o \in Object
             PROVE  Items(o) = Coming(object[o], frame)
  OBVIOUS
<1>1. object[o] \in Coroutine \cup Fixed \cup {Dead}
  BY DEF TypeInv, TypeOK
<1> QED
  BY <1>1, HoldingIs DEF Items, Alive, Coming

\* What an object gives depends on its own frame only.
LEMMA ComingFrom ==
    ASSUME NEW x, NEW fr, NEW gr, Held(x) # Null => fr[Held(x)] = gr[Held(x)]
    PROVE  Coming(x, fr) = Coming(x, gr)
BY DEF Coming

LEMMA ComingFields ==
    ASSUME NEW fr
    PROVE  /\ Coming(Dead, fr) = Dead
           /\ \A x \in Coroutine :
                 Coming(x, fr) = IF x.handle # Null THEN fr[x.handle] ELSE <<>>
           /\ \A x \in Fixed :
                 Coming(x, fr) = IF x.item = None THEN <<>> ELSE <<x.item>>
BY Fields, FixedFields DEF Coming, Held

\* A stream has items, or ends, unless there is no object.
LEMMA ComingType ==
    ASSUME NEW fr \in [Frame -> Seq(Item) \cup {Free}],
           NEW x \in Coroutine \cup Fixed, Held(x) # Null => fr[Held(x)] # Free
    PROVE  /\ Coming(x, fr) \in Seq(Item) /\ Coming(x, fr) # Dead
           /\ x \in Fixed => Len(Coming(x, fr)) <= 1
<1>1. CASE x \in Coroutine
  <2>1. Held(x) = x.handle /\ x.handle \in Frame \cup {Null}
    BY <1>1, HeldIs, Fields
  <2>2. Coming(x, fr) = IF x.handle # Null THEN fr[x.handle] ELSE <<>>
    BY <1>1, ComingFields
  <2>3. <<>> \in Seq(Item)
    OBVIOUS
  <2>4. x.handle # Null => fr[x.handle] \in Seq(Item)
    BY <2>1
  <2>5. Coming(x, fr) \in Seq(Item)
    BY <2>2, <2>3, <2>4
  <2> QED
    BY <1>1, <2>5, Fields, DeadAssumption
<1>2. CASE x \in Fixed
  <2>1. x.item \in Item \cup {None}
    BY <1>2 DEF Fixed
  <2>2. Coming(x, fr) = IF x.item = None THEN <<>> ELSE <<x.item>>
    BY <1>2, ComingFields
  <2>3. <<>> \in Seq(Item) /\ Len(<<>>) = 0
    OBVIOUS
  <2>4. x.item # None => <<x.item>> \in Seq(Item) /\ Len(<<x.item>>) = 1
    BY <2>1
  <2>5. Coming(x, fr) \in Seq(Item) /\ Len(Coming(x, fr)) <= 1
    BY <2>2, <2>3, <2>4
  <2> QED
    BY <2>5, DeadAssumption
<1> QED
  BY <1>1, <1>2

\* The move of a stream, and its copy when it is that of a fixed item.
LEMMA MovedStreams ==
    ASSUME NEW x \in Coroutine \cup Fixed, x \in Coroutine => Tidy(x), NEW fr
    PROVE  /\ Coming(Constructed(x), fr) = Coming(x, fr)
           /\ \A y \in Coroutine \cup Fixed :
                 y.kind = x.kind => Coming(Assigned(y, x), fr) = Coming(x, fr)
           /\ x \in Coroutine => Coming(Taken(x), fr) = <<>>
           /\ x \in Fixed => Taken(x) = x
<1>1. CASE x \in Coroutine
  <2>1. \A y \in Coroutine \cup Fixed : y.kind = x.kind => y \in Coroutine
    BY <1>1, Fields, FixedFields
  <2>2. \A y \in Coroutine :
           Assigned(y, x) \in Coroutine /\ Assigned(y, x).handle = x.handle
    BY <1>1, SetByMove
  <2>3. /\ Constructed(x) \in Coroutine /\ Constructed(x).handle = x.handle
        /\ Taken(x) \in Coroutine /\ Taken(x).handle = Null
    BY <1>1, Emptied, BuiltByMove
  <2> QED
    BY <1>1, <2>1, <2>2, <2>3, ComingFields, Fields
<1>2. CASE x \in Fixed
  <2>1. Constructed(x) = x /\ Taken(x) = x /\ \A y : Assigned(y, x) = x
    BY <1>2, Dropped, FixedFields DEF Constructed, Assigned
  <2> QED
    BY <1>2, <2>1, FixedFields
<1> QED
  BY <1>1, <1>2

\* The streams of the objects.
Streams == [o \in Object |-> Items(o)]

\* Every call is one of a stream, or changes none.
LEMMA StreamStep ==
    TypeInv /\ FramesOwnedOnce /\ [Next]_vars => [S!Next]_Streams
<1> SUFFICES ASSUME TypeInv, FramesOwnedOnce, [Next]_vars
             PROVE  S!Next \/ Streams' = Streams
  OBVIOUS
<1>t. TypeInv' /\ FramesOwnedOnce'
  BY TypeStep, OwnStep
<1>0. /\ TypeOK
      /\ object \in [Object -> Coroutine \cup Fixed \cup {Dead}]
      /\ frame \in [Frame -> Seq(Item) \cup {Free}]
      /\ frame' \in [Frame -> Seq(Item) \cup {Free}]
      /\ object' \in [Object -> Coroutine \cup Fixed \cup {Dead}]
      /\ \A o \in Object : object[o] \in Coroutine => Tidy(object[o])
  BY <1>t DEF TypeInv, TypeOK, AllTidy
<1>h. \A u \in Object : Held(object[u]) \in Frame \cup {Null}
  BY HoldingIs
<1>own. \A o, u \in Object :
           Held(object[o]) # Null /\ Held(object[o]) = Held(object[u]) => o = u
  BY OwnedOnce DEF Owned, OwnedAs, Holding
<1>live. \A o \in Object : Held(object[o]) # Null => frame[Held(object[o])] # Free
  BY OwnedOnce DEF Owned, OwnedAs, Holding
<1>w. ASSUME NEW o \in Object
      PROVE  \A e \in Frame :
                Without(o)[e] = IF e = Held(object[o]) THEN Free ELSE frame[e]
  BY <1>0, <1>h, HoldingIs, Released, SentinelAssumption
<1> DEFINE s == Streams
           t == Streams'
<1>s. /\ s = [o \in Object |-> Coming(object[o], frame)]
      /\ t = [o \in Object |-> Coming(object'[o], frame')]
  <2>1. (TypeInv => \A o \in Object : Items(o) = Coming(object[o], frame))'
    BY ItemsAreComing, PTL
  <2>2. \A o \in Object : Items(o)' = Coming(object'[o], frame')
    BY <1>t, <2>1
  <2> QED
    BY <2>2, ItemsAreComing DEF Streams
<1>d. \A o \in Object :
         IF object[o] = Dead THEN s[o] = Dead
         ELSE /\ s[o] \in Seq(Item) /\ s[o] # Dead
              /\ object[o] \in Fixed => Len(s[o]) <= 1
  BY <1>0, <1>s, <1>live, ComingType, ComingFields
\* The streams of objects that the step leaves alone.
<1>u. ASSUME NEW u \in Object, object'[u] = object[u],
             Held(object[u]) # Null => frame'[Held(object[u])] = frame[Held(object[u])]
      PROVE  t[u] = s[u]
  BY <1>s, <1>u, ComingFrom
<1>v. ASSUME NEW o \in Object, NEW from \in Object,
             \A u \in Object \ {o, from} : object'[u] = object[u],
             \A e \in Frame : frame'[e] = frame[e] \/ e = Held(object[o])
      PROVE  \A u \in Object \ {o, from} : t[u] = s[u]
  BY <1>v, <1>u, <1>h, <1>own
<1>f. /\ Streams = s /\ Streams' = t
      /\ s = [o \in Object |-> s[o]] /\ t = [o \in Object |-> t[o]]
  BY <1>s
<1> HIDE DEF s, t
<1>a. ASSUME NEW o \in Object, s[o] = Dead, t[o] \in Seq(Item),
             \A u \in Object \ {o} : t[u] = s[u]
      PROVE  S!Next
  <2>1. t = [s EXCEPT ![o] = t[o]]
    BY <1>f, <1>a
  <2>2. S!Open(o)
    BY <1>f, <1>a, <2>1 DEF S!Open, Streams
  <2> QED
    BY <2>2 DEF S!Next
<1>b. ASSUME NEW o \in Object, s[o] \notin {Dead, <<>>}, t[o] = Tail(s[o]),
             \A u \in Object \ {o} : t[u] = s[u]
      PROVE  S!Next
  <2>1. t = [s EXCEPT ![o] = Tail(s[o])]
    BY <1>f, <1>b
  <2>2. S!Advance(o)
    BY <1>f, <1>b, <2>1 DEF S!Advance, Streams
  <2> QED
    BY <2>2 DEF S!Next
<1>c. ASSUME NEW o \in Object, NEW from \in Object, o # from,
             s[from] # Dead, t[o] = s[from], t[from] = <<>>,
             \A u \in Object \ {o, from} : t[u] = s[u]
      PROVE  S!Next
  <2>1. t = [s EXCEPT ![o] = s[from], ![from] = <<>>]
    BY <1>f, <1>c
  <2>2. S!Move(o, from)
    BY <1>f, <1>c, <2>1 DEF S!Move, Streams
  <2> QED
    BY <2>2 DEF S!Next
<1>e. ASSUME NEW o \in Object, NEW from \in Object,
             s[from] # Dead, Len(s[from]) <= 1, t[o] = s[from],
             \A u \in Object \ {o} : t[u] = s[u]
      PROVE  S!Next
  <2>1. t = [s EXCEPT ![o] = s[from]]
    BY <1>f, <1>e
  <2>2. S!Copy(o, from)
    BY <1>f, <1>e, <2>1 DEF S!Copy, Streams
  <2> QED
    BY <2>2 DEF S!Next
<1>g. ASSUME NEW o \in Object, s[o] # Dead, t[o] = Dead,
             \A u \in Object \ {o} : t[u] = s[u]
      PROVE  S!Next
  <2>1. t = [s EXCEPT ![o] = Dead]
    BY <1>f, <1>g
  <2>2. S!Close(o)
    BY <1>f, <1>g, <2>1 DEF S!Close, Streams
  <2> QED
    BY <2>2 DEF S!Next
<1>z. ASSUME \A u \in Object : t[u] = s[u] PROVE Streams' = Streams
  BY <1>f, <1>z
<1>x. /\ \A o \in Object : s[o] = Coming(object[o], frame)
      /\ \A o \in Object : t[o] = Coming(object'[o], frame')
  BY <1>s
<1>1. ASSUME NEW o \in Object, NEW k \in {"generator", "maybe"}, NEW b \in Bodies,
             Call(o, k, b)
      PROVE  S!Next
  <2>1. PICK f \in Frame :
           /\ frame[f] = Free
           /\ frame' = [frame EXCEPT ![f] = b]
           /\ object' = [object EXCEPT ![o] = New(k, f)]
    BY <1>1 DEF Call
  <2>2. \A u \in Object \ {o} : t[u] = s[u]
    <3>1. ASSUME NEW u \in Object \ {o} PROVE t[u] = s[u]
      <4>1. object'[u] = object[u]
        BY <1>0, <2>1
      <4>2. Held(object[u]) # Null => frame'[Held(object[u])] = frame[Held(object[u])]
        BY <1>0, <1>h, <1>live, <2>1
      <4> QED
        BY <1>u, <4>1, <4>2
    <3> QED
      BY <3>1
  <2>3. t[o] = b
    <3>1. object'[o] = New(k, f) /\ frame'[f] = b
      BY <1>0, <2>1
    <3>2. f # Null
      BY SentinelAssumption
    <3> QED
      BY <1>x, <3>1, <3>2, Newborn, ComingFields
  <2> QED
    BY <1>1, <1>a, <1>d, <2>2, <2>3, BodiesAssumption DEF Call, Alive
<1>2. ASSUME NEW o \in Object, Make(o) PROVE S!Next
  <2>1. PICK x \in {Absent} \cup Fixed : object' = [object EXCEPT ![o] = x]
    BY <1>2 DEF Make
  <2>2. frame' = frame /\ object'[o] = x /\ \A u \in Object \ {o} : object'[u] = object[u]
    BY <1>0, <1>2, <2>1 DEF Make
  <2>3. \A u \in Object \ {o} : t[u] = s[u]
    BY <1>u, <2>2
  <2>4. Held(x) = Null /\ x \in Coroutine \cup Fixed
    BY Absence, HeldIs
  <2>5. t[o] \in Seq(Item)
    BY <1>0, <1>x, <2>2, <2>4, ComingType
  <2> QED
    BY <1>2, <1>a, <1>d, <2>3, <2>5 DEF Make, Alive
<1>3. ASSUME NEW o \in Object, Resume(o) PROVE S!Next
  <2> DEFINE h == object[o].handle
             x == [object[o] EXCEPT !.count = @ + 1]
  <2>1. object[o] \in Coroutine /\ h \in Frame /\ h # Null /\ object[o].count < MaxCount
    BY <1>3, Fields DEF Resume, Holds
  <2>2. frame' = [frame EXCEPT ![h] = Tail(@)] /\ Len(frame[h]) > 1
        /\ object' = [object EXCEPT ![o] = x]
    BY <1>3 DEF Resume
  <2>3. x \in Coroutine /\ x.handle = h /\ Held(object[o]) = h
    BY <2>1, Counted, HeldIs
  <2>4. object'[o] = x /\ frame'[h] = Tail(frame[h])
        /\ \A u \in Object \ {o} : object'[u] = object[u]
    BY <1>0, <2>1, <2>2
  <2>5. \A e \in Frame : frame'[e] = frame[e] \/ e = Held(object[o])
    BY <1>0, <2>1, <2>2, <2>3
  <2>6. \A u \in Object \ {o} : t[u] = s[u]
    BY <1>v, <2>4, <2>5
  <2>7. s[o] = frame[h] /\ t[o] = Tail(frame[h])
    <3> HIDE DEF h, x
    <3>1. Coming(object[o], frame) = frame[h] /\ Coming(x, frame') = frame'[h]
      BY <2>1, <2>3, ComingFields DEF h
    <3> QED
      BY <1>x, <2>4, <3>1
  <2>8. s[o] \notin {Dead, <<>>}
    BY <1>0, <1>d, <2>1, <2>2, <2>7, Fields
  <2> QED
    BY <1>b, <2>6, <2>7, <2>8
<1>4. ASSUME NEW o \in Object, Finish(o) PROVE S!Next \/ Streams' = Streams
  <2> DEFINE h == object[o].handle
  <2>1. object[o] \in Coroutine /\ h \in Frame /\ h # Null /\ Len(frame[h]) <= 1
    BY <1>4, Fields DEF Finish, Finishes, Holds
  <2>2. frame' = Without(o)
        /\ object'[o] = Finished(object[o])
        /\ \A u \in Object \ {o} : object'[u] = object[u]
    BY <1>0, <1>4 DEF Finish
  <2>3. \A u \in Object \ {o} : t[u] = s[u]
    BY <1>v, <1>w, <2>2
  <2>4. s[o] = frame[h] /\ t[o] = <<>>
    <3>1. /\ Coming(object[o], frame) = frame[h]
          /\ Coming(Finished(object[o]), frame') = <<>>
      BY <2>1, ComingFields, AtItsEnd
    <3> QED
      BY <1>x, <2>2, <3>1
  <2>5. s[o] \in Seq(Item) /\ s[o] # Dead
    BY <1>d, <2>1, Fields
  <2>6. CASE s[o] = <<>>
    BY <1>z, <2>3, <2>4, <2>6
  <2>7. CASE s[o] # <<>>
    <3>1. t[o] = Tail(s[o])
      BY <2>1, <2>4, <2>5, <2>7
    <3> QED
      BY <1>b, <2>3, <2>5, <2>7, <3>1
  <2> QED
    BY <2>6, <2>7
<1>5. ASSUME NEW o \in Object, DropItem(o) PROVE S!Next
  <2>1. object[o] \in Fixed /\ object[o].item # None
    BY <1>0, <1>5, Fields DEF DropItem, Alive
  <2>2. frame' = frame /\ object'[o] = [object[o] EXCEPT !.item = None]
        /\ \A u \in Object \ {o} : object'[u] = object[u]
    BY <1>0, <1>5 DEF DropItem
  <2>3. \A u \in Object \ {o} : t[u] = s[u]
    BY <1>u, <2>2
  <2>4. [object[o] EXCEPT !.item = None] \in Fixed
        /\ [object[o] EXCEPT !.item = None].item = None
    BY <2>1, Dropped DEF Fixed
  <2>5. s[o] = <<object[o].item>> /\ t[o] = <<>>
    <3>1. /\ Coming(object[o], frame) = <<object[o].item>>
          /\ Coming([object[o] EXCEPT !.item = None], frame') = <<>>
      BY <2>1, <2>4, ComingFields
    <3> QED
      BY <1>x, <2>2, <3>1
  <2>6. s[o] \notin {Dead, <<>>} /\ t[o] = Tail(s[o])
    BY <1>d, <2>1, <2>5, FixedFields
  <2> QED
    BY <1>b, <2>3, <2>6
<1>6. ASSUME NEW o \in Object, NEW from \in Object, MoveConstruct(o, from)
      PROVE  S!Next
  <2> DEFINE x == object[from]
  <2>1. o # from /\ x \in Coroutine \cup Fixed /\ (x \in Coroutine => Tidy(x))
        /\ s[from] # Dead
    BY <1>0, <1>6, <1>d DEF MoveConstruct, Alive
  <2>2. /\ frame' = frame /\ object'[o] = Constructed(x) /\ object'[from] = Taken(x)
        /\ \A u \in Object \ {o, from} : object'[u] = object[u]
    BY <1>0, <1>6, <2>1 DEF MoveConstruct
  <2>3. \A u \in Object \ {o, from} : t[u] = s[u]
    BY <1>u, <2>2
  <2>4. t[o] = s[from]
    BY <1>x, <2>1, <2>2, MovedStreams
  <2>5. CASE x \in Coroutine
    <3>1. t[from] = <<>>
      BY <1>x, <2>1, <2>2, <2>5, MovedStreams
    <3> QED
      BY <1>c, <2>1, <2>3, <2>4, <3>1
  <2>6. CASE x \in Fixed
    <3>1. t[from] = s[from]
      BY <1>u, <2>1, <2>2, <2>6, MovedStreams
    <3>2. Len(s[from]) <= 1
      BY <1>d, <2>1, <2>6, FixedFields
    <3>3. \A u \in Object \ {o} : t[u] = s[u]
      BY <2>3, <3>1
    <3> QED
      BY <1>e, <2>1, <2>4, <3>2, <3>3
  <2> QED
    BY <2>1, <2>5, <2>6
<1>7. ASSUME NEW o \in Object, NEW from \in Object, MoveAssign(o, from)
      PROVE  S!Next
  <2> DEFINE x == object[from]
             y == object[o]
  <2>1. o # from /\ x \in Coroutine \cup Fixed /\ (x \in Coroutine => Tidy(x))
        /\ s[from] # Dead /\ y \in Coroutine \cup Fixed /\ y.kind = x.kind
    BY <1>0, <1>7, <1>d DEF MoveAssign, Alive
  <2>2. /\ object'[o] = Assigned(y, x) /\ object'[from] = Taken(x)
        /\ \A u \in Object \ {o, from} : object'[u] = object[u]
        /\ \A e \in Frame : frame'[e] = frame[e] \/ e = Held(y)
    BY <1>0, <1>7, <1>w, <2>1 DEF MoveAssign, Replaced
  <2>3. \A u \in Object \ {o, from} : t[u] = s[u]
    BY <1>v, <2>2
  <2>4. Held(x) # Null => frame'[Held(x)] = frame[Held(x)]
    BY <1>h, <1>own, <2>1, <2>2
  <2>5. Coming(x, frame') = s[from]
    BY <1>x, <2>4, ComingFrom
  <2>6. t[o] = s[from]
    BY <1>x, <2>1, <2>2, <2>5, MovedStreams
  <2>7. CASE x \in Coroutine
    <3>1. t[from] = <<>>
      BY <1>x, <2>1, <2>2, <2>7, MovedStreams
    <3> QED
      BY <1>c, <2>1, <2>3, <2>6, <3>1
  <2>8. CASE x \in Fixed
    <3>1. t[from] = s[from]
      BY <1>x, <2>1, <2>2, <2>5, <2>8, MovedStreams
    <3>2. Len(s[from]) <= 1
      BY <1>d, <2>1, <2>8, FixedFields
    <3>3. \A u \in Object \ {o} : t[u] = s[u]
      BY <2>3, <3>1
    <3> QED
      BY <1>e, <2>1, <2>6, <3>2, <3>3
  <2> QED
    BY <2>1, <2>7, <2>8
<1>8. ASSUME NEW o \in Object, Destroy(o) PROVE S!Next
  <2>1. frame' = Without(o) /\ object'[o] = Dead
        /\ \A u \in Object \ {o} : object'[u] = object[u]
    BY <1>0, <1>8 DEF Destroy
  <2>2. \A u \in Object \ {o} : t[u] = s[u]
    BY <1>v, <1>w, <2>1
  <2>3. t[o] = Dead
    BY <1>x, <2>1, ComingFields
  <2> QED
    BY <1>8, <1>d, <1>g, <2>2, <2>3 DEF Destroy, Alive
<1>9. CASE UNCHANGED vars
  BY <1>9, <1>u, <1>z DEF vars
<1> QED
  BY <1>1, <1>2, <1>3, <1>4, <1>5, <1>6, <1>7, <1>8, <1>9 DEF Next

LEMMA StreamInit == Init => S!Init
<1> SUFFICES ASSUME Init PROVE S!Init
  OBVIOUS
<1>1. \A o \in Object : Items(o) = Dead
  BY DEF Init, Items, Alive
<1> QED
  BY <1>1 DEF S!Init

\* Every object gives the items of one coroutine in their order and each once,
\* through any sequence of moves, wrappings, endings and destructions: the
\* generators implement Stream.
THEOREM GivesEachOnce == Spec => ImplementsStream
<1>1. Init => S!Init
  BY StreamInit
<1>2. TypeInv /\ FramesOwnedOnce /\ [Next]_vars => [S!Next]_Streams
  BY StreamStep
<1>3. Spec => S!Init /\ [][S!Next]_Streams
  BY Joint, <1>1, <1>2, PTL DEF Spec
<1> QED
  BY <1>3, PTL DEF ImplementsStream, S!Spec, Streams

=============================================================================
