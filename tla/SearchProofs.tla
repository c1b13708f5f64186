----------------------------- MODULE SearchProofs -----------------------------
(***************************************************************************)
(* Proofs about the searches of BoundsSystem: for forests of any size, any *)
(* points, boxes, transforms, any number of edits between two results, and *)
(* every order in which children can stand.                                *)
(***************************************************************************)
EXTENDS Search, BoundsProofs, FiniteSetTheorems

-----------------------------------------------------------------------------
(* Forests *)

\* Every set of entities has one whose parent is not in it.
Climbs == \A T \in SUBSET Entity : T # {} => \E x \in T : parent[x] \notin T

\* A set that has every entity that is a root or whose parent it has.
LEMMA FromRootsDown ==
    ASSUME TypeOK, Climbs, NEW T,
           \A e \in Entity : (parent[e] = Null \/ parent[e] \in T) => e \in T
    PROVE  Entity \subseteq T
<1> DEFINE rest == Entity \ T
<1>1. SUFFICES ASSUME rest # {} PROVE FALSE
  OBVIOUS
<1>2. PICK x \in rest : parent[x] \notin rest
  BY <1>1 DEF Climbs
<1> QED  BY <1>2 DEF TypeOK

\* Nobody is above itself: those that cannot avoid to climb past e would have
\* all their parents among them.
LEMMA RootedIfClimbing ==
    ASSUME TypeOK, Climbs
    PROVE  Rooted
<1> SUFFICES ASSUME NEW e \in Entity
             PROVE  \E S \in SUBSET Entity :
                       UpClosed(S) /\ parent[e] \in S \cup {Null} /\ e \notin S
  BY DEF Rooted
<1> DEFINE T == {x \in Entity : \A S \in SUBSET Entity : UpClosed(S) /\ x \in S => e \in S}
<1>1. ASSUME NEW x \in T, x # e PROVE parent[x] \in T
  <2>1. parent[x] # Null
    <3>1. ASSUME parent[x] = Null PROVE FALSE
      <4>1. UpClosed({x}) /\ {x} \in SUBSET Entity /\ x \in {x}
        BY <3>1 DEF UpClosed
      <4>2. e \in {x}
        BY <4>1
      <4> QED  BY <1>1, <4>2
    <3> QED  BY <3>1
  <2>2. parent[x] \in Entity
    BY <2>1 DEF TypeOK
  <2>3. ASSUME NEW S \in SUBSET Entity, UpClosed(S), parent[x] \in S PROVE e \in S
    <3>1. UpClosed(S \cup {x}) /\ S \cup {x} \in SUBSET Entity /\ x \in S \cup {x}
      BY <2>3 DEF UpClosed
    <3>2. e \in S \cup {x}
      BY <3>1
    <3> QED  BY <1>1, <3>2
  <2> QED  BY <2>2, <2>3
<1>2. e \in T
  OBVIOUS
<1>3. parent[e] \notin T
  <2>1. PICK x \in T : parent[x] \notin T
    <3>1. T \in SUBSET Entity /\ T # {}
      BY <1>2
    <3> HIDE DEF T
    <3> QED  BY <3>1 DEF Climbs
  <2> QED  BY <1>1, <2>1
<1>4. CASE parent[e] = Null
  <2>1. UpClosed({}) /\ {} \in SUBSET Entity /\ e \notin {}
    BY DEF UpClosed
  <2> QED  BY <1>4, <2>1
<1>5. CASE parent[e] # Null
  <2>1. parent[e] \in Entity
    BY <1>5 DEF TypeOK
  <2>2. PICK S \in SUBSET Entity : UpClosed(S) /\ parent[e] \in S /\ e \notin S
    BY <1>3, <2>1
  <2> QED  BY <2>2
<1> QED  BY <1>4, <1>5

-----------------------------------------------------------------------------
(* Subtrees *)

LEMMA BelowFacts ==
    ASSUME TypeOK, NEW r \in Entity
    PROVE  /\ Below(r) \in SUBSET Entity /\ r \in Below(r)
           /\ \A e \in Below(r) : e # r => parent[e] \in Below(r)
           /\ \A e \in Entity : parent[e] \in Below(r) => e \in Below(r)
<1>1. Below(r) \in SUBSET Entity /\ r \in Below(r)
  BY DEF Below
<1>2. ASSUME NEW e \in Below(r), e # r PROVE parent[e] \in Below(r)
  <2>1. e \in Entity /\ parent[e] \in Entity \cup {Null}
    BY <1>1 DEF TypeOK
  <2>2. parent[e] # Null
    <3>1. ASSUME parent[e] = Null PROVE FALSE
      <4>1. e \in {e} /\ {e} \in SUBSET Entity
            /\ \A s \in {e} : parent[s] \in {e} \cup {Null}
        BY <2>1, <3>1
      <4>2. r \in {e}
        BY <4>1 DEF Below
      <4> QED  BY <1>2, <4>2
    <3> QED  BY <3>1
  <2>3. ASSUME NEW S \in SUBSET Entity, parent[e] \in S,
               \A s \in S : parent[s] \in S \cup {Null}
        PROVE  r \in S
    <3> DEFINE U == S \cup {e}
    <3>1. U \in SUBSET Entity /\ e \in U /\ \A s \in U : parent[s] \in U \cup {Null}
      BY <2>1, <2>3
    <3>2. r \in U
      BY <3>1 DEF Below
    <3> QED  BY <1>2, <3>2
  <2> QED  BY <2>1, <2>2, <2>3 DEF Below
<1>3. ASSUME NEW e \in Entity, parent[e] \in Below(r) PROVE e \in Below(r)
  <2>1. parent[e] \in Entity
    BY <1>1, <1>3
  <2>2. ASSUME NEW S \in SUBSET Entity, e \in S,
               \A s \in S : parent[s] \in S \cup {Null}
        PROVE  r \in S
    <3>1. parent[e] \in S
      BY <2>1, <2>2, EntityAssumption
    <3> QED  BY <1>3, <2>2, <3>1 DEF Below
  <2> QED  BY <2>2 DEF Below
<1> QED  BY <1>1, <1>2, <1>3

\* What is below a node of a subtree is in the subtree.
LEMMA BelowNests ==
    ASSUME TypeOK, NEW r \in Entity, NEW c \in Below(r)
    PROVE  Below(c) \subseteq Below(r)
<1>1. ASSUME NEW e \in Below(c) PROVE e \in Below(r)
  <2>1. c \in Entity
    BY BelowFacts
  <2>2. e \in Entity
    BY <2>1, BelowFacts
  <2>3. ASSUME NEW S \in SUBSET Entity, e \in S,
               \A s \in S : parent[s] \in S \cup {Null}
        PROVE  r \in S
    <3>1. c \in S
      BY <1>1, <2>3 DEF Below
    <3> QED  BY <2>3, <3>1 DEF Below
  <2> QED  BY <2>2, <2>3 DEF Below
<1> QED  BY <1>1

\* No descent comes back.
LEMMA NoReturn ==
    ASSUME TypeOK, Climbs, NEW r \in Entity, NEW c \in Entity, parent[c] \in Below(r)
    PROVE  c # r
<1>1. PICK S \in SUBSET Entity : UpClosed(S) /\ parent[c] \in S \cup {Null} /\ c \notin S
  BY RootedIfClimbing DEF Rooted
<1>2. parent[c] \in S
  BY <1>1, BelowFacts, EntityAssumption
<1> QED  BY <1>1, <1>2 DEF Below, UpClosed

\* Below an entity is itself and what is below its children.
LEMMA BelowSplits ==
    ASSUME TypeOK, Climbs, NEW r \in Entity, NEW e \in Below(r), e # r
    PROVE  \E c \in Children(r) : e \in Below(c)
<1> DEFINE Good(x) == (x \in Below(r) /\ x # r) => \E c \in Children(r) : x \in Below(c)
           T == {x \in Entity : Good(x)}
<1>1. ASSUME NEW x \in Entity, parent[x] = Null \/ parent[x] \in T PROVE Good(x)
  <2> SUFFICES ASSUME x \in Below(r), x # r
               PROVE  \E c \in Children(r) : x \in Below(c)
    OBVIOUS
  <2>1. parent[x] \in Below(r) /\ parent[x] \in Entity
    BY BelowFacts
  <2>2. CASE parent[x] = r
    <3>1. x \in Children(r) /\ x \in Below(x)
      BY <2>2, BelowFacts DEF Children
    <3> QED  BY <3>1
  <2>3. CASE parent[x] # r
    <3>1. parent[x] \in T
      BY <1>1, <2>1, EntityAssumption
    <3>2. PICK c \in Children(r) : parent[x] \in Below(c)
      BY <2>1, <2>3, <3>1
    <3>3. x \in Below(c)
      BY <3>2, BelowFacts DEF Children
    <3> QED  BY <3>3
  <2> QED  BY <2>2, <2>3
<1> HIDE DEF Good
<1>2. Entity \subseteq T
  BY <1>1, FromRootsDown
<1>3. Good(e)
  BY <1>2, BelowFacts
<1> QED  BY <1>3 DEF Good

\* In finite forests without cycles every descent ends: of any set, the one
\* with the fewest of the set below it has no child in it.
LEMMA BottomedOutIfClimbing ==
    ASSUME TypeOK, Climbs
    PROVE  BottomedOut
<1> SUFFICES ASSUME NEW T \in SUBSET Entity, T # {}
             PROVE  \E x \in T : Children(x) \cap T = {}
  BY DEF BottomedOut
<1> DEFINE size(x) == Cardinality(Below(x))
           R == {ss \in Nat \X Nat : ss[1] < ss[2]}
           sizes == {size(x) : x \in T}
<1>1. \A x \in Entity : IsFiniteSet(Below(x)) /\ size(x) \in Nat
  BY BelowFacts, EntitiesAssumption, FS_Subset, FS_CardinalityType
<1>2. PICK n \in sizes : \A m \in sizes : <<m, n>> \notin R
  <2>1. IsWellFoundedOn(R, Nat)
    BY NatLessThanWellFounded DEF OpToRel
  <2>2. sizes \subseteq Nat /\ sizes # {}
    BY <1>1
  <2> HIDE DEF R, sizes
  <2> QED  BY <2>1, <2>2, WFMin
<1>3. PICK x \in T : n = size(x)
  OBVIOUS
<1>4. ASSUME NEW c \in Children(x) \cap T PROVE FALSE
  <2>1. c \in Entity /\ x \in Entity /\ parent[c] = x
    BY DEF Children
  <2>2. Below(c) \subseteq Below(x)
    <3>1. c \in Below(x)
      BY <2>1, BelowFacts
    <3> QED  BY <2>1, <3>1, BelowNests
  <2>3. x \notin Below(c)
    BY <2>1, NoReturn
  <2>4. Below(c) # Below(x)
    BY <2>1, <2>3, BelowFacts
  <2>5. size(c) <= size(x) /\ size(c) # size(x)
    BY <1>1, <2>1, <2>2, <2>4, FS_Subset
  <2>6. size(c) \in Nat /\ size(x) \in Nat /\ size(c) \in sizes
    BY <1>1, <2>1
  <2> HIDE DEF size
  <2>7. size(c) < size(x)
    BY <2>5, <2>6
  <2> QED  BY <1>2, <1>3, <2>6, <2>7
<1> QED  BY <1>4

\* Each child is read once, in one of the orders.
LEMMA ChildrenOrders ==
    ASSUME NEW e \in Entity, NEW s \in SetToSeqs(Children(e))
    PROVE  s \in Seq(Entity) /\ {s[i] : i \in 1 .. Len(s)} = Children(e)
<1> DEFINE S == Children(e)
           n == Cardinality(S)
<1>1. S \in SUBSET Entity /\ IsFiniteSet(S) /\ n \in Nat
  BY EntitiesAssumption, FS_Subset, FS_CardinalityType DEF Children
<1>2. s \in [1 .. n -> S] /\ \A i, j \in 1 .. n : i # j => s[i] # s[j]
  BY DEF SetToSeqs
<1> HIDE DEF S, n
<1>3. IsFiniteSet(1 .. n) /\ Cardinality(1 .. n) = n
  <2>1. IsFiniteSet(1 .. n) /\ Cardinality(1 .. n) = IF 1 > n THEN 0 ELSE n - 1 + 1
    BY <1>1, FS_Interval
  <2> QED  BY <1>1, <2>1
<1>4. s \in Injection(1 .. n, S)
  BY <1>2 DEF Injection, IsInjective
<1>5. s \in Surjection(1 .. n, S)
  BY <1>1, <1>3, <1>4, FS_Injection DEF n
<1>6. \A c \in S : \E i \in 1 .. n : s[i] = c
  BY <1>5 DEF Surjection
<1>7. s \in Seq(Entity) /\ Len(s) = n
  BY <1>1, <1>2
<1>8. {s[i] : i \in 1 .. Len(s)} = S
  BY <1>2, <1>6, <1>7
<1> QED  BY <1>7, <1>8 DEF S

-----------------------------------------------------------------------------
(* What is sought, and the boxes it touches *)

LEMMA InChildType ==
    ASSUME NEW c \in Entity, NEW at \in SUBSET Point
    PROVE  InChild(c, at) \in SUBSET Point
BY DEF InChild

\* In the space of each node what is sought is what its parent sees of it.
LEMMA LocatedFacts ==
    ASSUME TypeOK, Climbs, NEW s, s.root \in Entity, s.at \in SUBSET Point
    PROVE  \A e \in Below(s.root) :
              /\ Located(s)[e] \in SUBSET Point
              /\ Located(s)[e] = IF e = s.root THEN s.at
                                 ELSE InChild(e, Located(s)[parent[e]])
<1> DEFINE E == Below(s.root)
           V == SUBSET Point
           F == [E -> V]
           R == {ss \in E \X E : parent[ss[2]] = ss[1]}
           val(g, x) == IF x = s.root THEN s.at ELSE InChild(x, g[parent[x]])
           step == [g \in F |-> [x \in E |-> val(g, x)]]
           at == CHOOSE at : at = [x \in E |-> val(at, x)]
<1>0. /\ E \in SUBSET Entity
      /\ \A x \in E : x # s.root => parent[x] \in E
  BY BelowFacts
<1> HIDE DEF E
<1>1. ASSUME NEW g \in F, NEW x \in E PROVE val(g, x) \in V
  BY <1>0, InChildType
<1>2. LooksDown(E, V, R, step)
  <2>1. step \in [F -> F]
    <3>1. \A g \in F : [x \in E |-> val(g, x)] \in F
      BY <1>1
    <3> HIDE DEF val
    <3> QED  BY <3>1
  <2>2. ASSUME NEW g \in F, NEW h \in F, NEW x \in E,
               \A d \in E : <<d, x>> \in R => g[d] = h[d]
        PROVE  step[g][x] = step[h][x]
    <3>1. x # s.root => g[parent[x]] = h[parent[x]]
      BY <1>0, <2>2
    <3>2. val(g, x) = val(h, x)
      BY <3>1
    <3> HIDE DEF val
    <3> QED  BY <3>2
  <2>3. V # {}
    OBVIOUS
  <2> HIDE DEF step, V, R
  <2> QED  BY <2>1, <2>2, <2>3 DEF LooksDown
<1>3. Grounded(R, E)
  <2>1. ASSUME NEW T \in SUBSET E, T # {}
        PROVE  \E x \in T : \A y \in T : <<y, x>> \notin R
    <3>1. PICK x \in T : parent[x] \notin T
      BY <1>0, <2>1 DEF Climbs
    <3> QED  BY <3>1
  <2> HIDE DEF R
  <2> QED  BY <2>1 DEF Grounded
<1>4. PICK g \in F : g = step[g]
  <2> HIDE DEF step, V, R
  <2> QED  BY <1>2, <1>3, RecursionHasSolution
<1>5. g = [x \in E |-> val(g, x)]
  <2> HIDE DEF val
  <2> QED  BY <1>4
<1>6. at = [x \in E |-> val(at, x)]
  <2> HIDE DEF val
  <2> QED  BY <1>5
<1> HIDE DEF at, step
<1>7. \A x \in E : at[x] = val(at, x)
  <2> HIDE DEF val
  <2> QED  BY <1>6
<1>8. Located(s) = at
  BY DEF Located, at, E
<1>9. \A x \in E : at[x] \in V
  <2> DEFINE T == {x \in Entity : x \in E => at[x] \in V}
  <2>1. ASSUME NEW x \in Entity, parent[x] = Null \/ parent[x] \in T PROVE x \in T
    <3> SUFFICES ASSUME x \in E PROVE at[x] \in V
      OBVIOUS
    <3>1. CASE x = s.root
      BY <1>7, <3>1
    <3>2. CASE x # s.root
      <4>1. parent[x] \in E /\ parent[x] # Null
        BY <1>0, <3>2, EntityAssumption
      <4>2. at[parent[x]] \in V
        BY <2>1, <4>1
      <4> QED  BY <1>7, <3>2, <4>2, InChildType
    <3> QED  BY <3>1, <3>2
  <2> HIDE DEF T
  <2>2. Entity \subseteq T
    BY <2>1, FromRootsDown
  <2> QED  BY <1>0, <2>2 DEF T
<1> QED  BY <1>7, <1>8, <1>9 DEF E

\* The box of a subtree holds the bounds of its root and the boxes of the
\* subtrees below, in its space.
LEMMA SubtreeBoxHolds ==
    ASSUME TypeOK, Climbs, NEW e \in Entity
    PROVE  /\ SubtreeBox[e] \in SUBSET Point
           /\ intrinsic[e] \subseteq SubtreeBox[e]
           /\ \A c \in Children(e) : InParent(c, SubtreeBox[c]) \subseteq SubtreeBox[e]
<1> DEFINE Around(x) == intrinsic[x] \cup
                           UNION {InParent(c, SubtreeBox[c]) : c \in Children(x)}
<1>1. \A x \in Entity : SubtreeBox[x] = Hull(Around(x))
  BY BottomedOutIfClimbing, SubtreeBoxEquation DEF BoxOver
<1>2. ASSUME NEW x \in Entity, \A c \in Children(x) : SubtreeBox[c] \in SUBSET Point
      PROVE  Around(x) \in SUBSET Point
  <2>1. \A c \in Children(x) : InParent(c, SubtreeBox[c]) \in SUBSET Point
    BY <1>2, InParentType DEF Children
  <2> QED  BY <2>1 DEF TypeOK
<1>3. \A x \in Entity : SubtreeBox[x] \in SUBSET Point
  <2> DEFINE wrong == {x \in Entity : SubtreeBox[x] \notin SUBSET Point}
  <2>1. SUFFICES ASSUME wrong # {} PROVE FALSE
    OBVIOUS
  <2>2. PICK x \in wrong : Children(x) \cap wrong = {}
    <3>1. wrong \in SUBSET Entity
      OBVIOUS
    <3> HIDE DEF wrong
    <3> QED  BY <2>1, <3>1, BottomedOutIfClimbing DEF BottomedOut
  <2>3. \A c \in Children(x) : SubtreeBox[c] \in SUBSET Point
    BY <2>2 DEF Children
  <2>4. Around(x) \in SUBSET Point
    BY <1>2, <2>3
  <2> HIDE DEF Around
  <2> QED  BY <1>1, <2>2, <2>4, HullAssumption
<1>4. Around(e) \in SUBSET Point
  <2>1. \A c \in Children(e) : SubtreeBox[c] \in SUBSET Point
    BY <1>3 DEF Children
  <2> QED  BY <1>2, <2>1
<1>5. Around(e) \subseteq SubtreeBox[e]
  <2> HIDE DEF Around
  <2> QED  BY <1>1, <1>4, HullAssumption
<1> QED  BY <1>3, <1>5

\* Whoever touches the box of a subtree touches those of all subtrees around it.
LEMMA TouchesAbove ==
    ASSUME TypeOK, Climbs, NEW s, s.root \in Entity, s.at \in SUBSET Point,
           NEW e \in Below(s.root), e # s.root,
           Touches(SubtreeBox[e], Located(s)[e])
    PROVE  Touches(SubtreeBox[parent[e]], Located(s)[parent[e]])
<1> DEFINE p == parent[e]
           L == Located(s)
           b == SubtreeBox[e]
<1>1. /\ e \in Entity /\ p \in Below(s.root) /\ p \in Entity /\ e \in Children(p)
  BY BelowFacts DEF Children
<1>2. L[e] = InChild(e, L[p]) /\ L[p] \in SUBSET Point
  BY <1>1, LocatedFacts
<1>3. PICK q : q \in b /\ q \in L[e]
  BY DEF Touches
<1>4. InParent(e, b) \subseteq SubtreeBox[p] /\ b \in SUBSET Point
  BY <1>1, SubtreeBoxHolds
<1> HIDE DEF p, L, b
<1>5. CASE xf[e] = NoXf
  <2>1. q \in SubtreeBox[p] /\ q \in L[p]
    BY <1>2, <1>3, <1>4, <1>5 DEF InParent, InChild
  <2> QED  BY <2>1 DEF Touches, p, L
<1>6. CASE xf[e] # NoXf
  <2>1. xf[e] \in Xf
    BY <1>1, <1>6 DEF TypeOK
  <2> DEFINE image == {Apply(xf[e], r) : r \in b}
  <2>2. image \in SUBSET Point
    BY <1>4, <2>1, XfAssumption
  <2>3. Apply(xf[e], q) \in L[p]
    BY <1>2, <1>3, <1>6 DEF InChild
  <2>4. Apply(xf[e], q) \in image
    BY <1>3
  <2> HIDE DEF image
  <2>5. image \subseteq Hull(image)
    BY <2>2, HullAssumption
  <2>6. Apply(xf[e], q) \in SubtreeBox[p]
    BY <1>4, <1>6, <2>4, <2>5 DEF InParent, image
  <2> QED  BY <2>3, <2>6 DEF Touches, p, L
<1> QED  BY <1>5, <1>6

\* So below a subtree whose box is not touched there is nothing to be found.
LEMMA NothingBelow ==
    ASSUME TypeOK, Climbs, NEW s, s.root \in Entity, s.at \in SUBSET Point,
           NEW c \in Below(s.root), ~Touches(SubtreeBox[c], Located(s)[c])
    PROVE  Below(c) \cap Wanted(s) = {}
<1> DEFINE Hit(x) == Touches(SubtreeBox[x], Located(s)[x])
           T == {x \in Entity : x \in Below(c) => ~Hit(x)}
<1>0. c \in Entity /\ Below(c) \subseteq Below(s.root)
  BY BelowFacts, BelowNests
<1>1. ASSUME NEW x \in Entity, parent[x] = Null \/ parent[x] \in T PROVE x \in T
  <2> SUFFICES ASSUME x \in Below(c), Hit(x) PROVE FALSE
    OBVIOUS
  <2>1. x # c
    OBVIOUS
  <2>2. parent[x] \in Below(c) /\ parent[x] \in Entity
    BY <1>0, <2>1, BelowFacts
  <2>3. x # s.root
    <3>1. parent[x] \in Below(s.root)
      BY <1>0, <2>2
    <3> QED  BY <3>1, NoReturn
  <2>4. Hit(parent[x])
    BY <1>0, <2>3, TouchesAbove
  <2>5. parent[x] \in T
    BY <1>1, <2>2, EntityAssumption
  <2> QED  BY <2>2, <2>4, <2>5
<1> HIDE DEF Hit
<1>2. Entity \subseteq T
  BY <1>1, FromRootsDown
<1>3. ASSUME NEW x \in Below(c), x \in Wanted(s) PROVE FALSE
  <2>1. x \in Entity /\ x \in Below(s.root)
    BY <1>0, BelowFacts
  <2>2. intrinsic[x] \subseteq SubtreeBox[x]
    BY <2>1, SubtreeBoxHolds
  <2>3. Hit(x)
    BY <1>3, <2>2 DEF Wanted, Touches, Hit
  <2> QED  BY <1>2, <2>1, <2>3
<1> QED  BY <1>3

-----------------------------------------------------------------------------
(* The bounds below a search *)

Ground ==
    TypeOK /\ Climbs /\ Rooted /\ IntrinsicIsBox /\ Cached /\ Calls

\* What a search and its client do to the bounds: the hierarchy stays.
BoundsStep ==
    \/ Recomputation
    \/ \E e \in Entity :
          \/ Query(e)
          \/ \E b \in Box : SetIntrinsic(e, b)
          \/ RemoveIntrinsic(e)
          \/ \E x \in Xf \cup {NoXf} : EditTransform(e, x)

\* A forest that has just been built has all its marks and no caches.
LEMMA GroundAtFirst == SearchInit => Ground
<1> SUFFICES ASSUME SearchInit PROVE Ground
  OBVIOUS
<1>1. /\ parent \in [Entity -> Entity \cup {Null}]
      /\ \A T \in SUBSET Entity : T # {} => \E x \in T : parent[x] \notin T
  BY ForestsAssumption DEF SearchInit
<1>2. intrinsic \in [Entity -> SUBSET Point] /\ IntrinsicIsBox
  <2>1. intrinsic \in [Entity -> Box \cup {{}}]
    BY DEF SearchInit
  <2>2. \A b \in Box \cup {{}} : b \in SUBSET Point /\ Hull(b) = b
    BY BoxAssumption, HullAssumption
  <2> QED  BY <2>1, <2>2 DEF IntrinsicIsBox
<1>3. TypeOK
  <2>1. stack \in Seq(Call)
    BY DEF SearchInit
  <2> QED  BY <1>1, <1>2, <2>1 DEF SearchInit, TypeOK
<1>4. Climbs
  BY <1>1 DEF Climbs
<1>5. DirtyUpToTheRoot
  BY <1>3 DEF SearchInit, DirtyUpToTheRoot, Children, TypeOK
<1>6. CleanFitsChildren
  <2>1. ASSUME NEW e \in Entity \ dirty PROVE computed[e] = BoxOverChildren(e)
    <3>1. intrinsic[e] = {} /\ Children(e) = {} /\ computed[e] = {}
      BY <2>1 DEF SearchInit
    <3>2. intrinsic[e] \cup UNION {InParent(c, computed[c]) : c \in Children(e)} = {}
      BY <3>1
    <3> QED  BY <3>1, <3>2, HullAssumption DEF BoxOverChildren
  <2> QED  BY <2>1 DEF CleanFitsChildren
<1>7. Calls
  <2>1. UpClosed({})
    BY DEF UpClosed
  <2>2. stack = <<>> /\ Len(stack) = 0
    BY DEF SearchInit
  <2> QED  BY <2>1, <2>2 DEF Calls, CallsOnTrack, CallsDescend, CallsBelowQuery
<1> QED  BY <1>2, <1>3, <1>4, <1>5, <1>6, <1>7, RootedIfClimbing DEF Ground, Cached

\* The clean are exact and stay so, for every client: nobody moves entities.
LEMMA GroundKept ==
    ASSUME Ground, BoundsStep \/ UNCHANGED vars
    PROVE  Ground' /\ UNCHANGED parent
<1>1. [Next]_vars
  BY DEF BoundsStep, Next
<1>2. UNCHANGED parent
  BY DEF BoundsStep, Recomputation, Return, VisitDirty, VisitClean, Query,
         SetIntrinsic, RemoveIntrinsic, EditTransform, vars
<1>3. TypeOK' /\ IntrinsicIsBox' /\ Rooted' /\ Calls'
  BY <1>1, TypeStep, RootedStep, CallsStep DEF Ground
<1>4. Climbs'
  BY <1>2 DEF Ground, Climbs
<1>5. Cached'
  <2>1. ASSUME UNCHANGED <<parent, xf, intrinsic, dirty, computed>> PROVE Cached'
    <3>1. \A e \in Entity : Children(e)' = Children(e) /\ Children(e) \in SUBSET Entity
      BY <2>1 DEF Children
    <3>2. ASSUME NEW e \in Entity PROVE BoxOverChildren(e)' = BoxOverChildren(e)
      BY <2>1, <3>1, BoxOverChildrenSame
    <3>3. CleanFitsChildren'
      BY <2>1, <3>2 DEF Ground, Cached, CleanFitsChildren
    <3> QED  BY <2>1, <3>3 DEF Ground, Cached, DirtyUpToTheRoot
  <2>2. CASE Recomputation
    BY <2>1, <2>2, CachedReturn DEF Ground, Recomputation, VisitDirty, VisitClean
  <2>3. CASE UNCHANGED vars
    BY <2>1, <2>3 DEF vars
  <2>4. ASSUME NEW e \in Entity, Query(e) PROVE Cached'
    BY <2>1, <2>4 DEF Query
  <2> QED  BY <2>2, <2>3, <2>4, CachedSetIntrinsic, CachedRemoveIntrinsic,
              CachedEditTransform DEF Ground, BoundsStep
<1> QED  BY <1>2, <1>3, <1>4, <1>5 DEF Ground

LEMMA GroundIsExact ==
    ASSUME Ground
    PROVE  CleanIsExact
BY BottomedOutIfClimbing, ExactIfFitting DEF Ground, Cached

\* Every step of a search or of its client is one of those.
LEMMA SearchStepsBounds ==
    ASSUME TypeOK, [SearchNext]_allVars
    PROVE  BoundsStep \/ UNCHANGED vars
<1>1. CASE UNCHANGED allVars
  BY <1>1 DEF allVars, vars
<1>2. CASE Recompute
  BY <1>2 DEF Recompute, BoundsStep
<1>3. CASE ReadRoot
  <2>1. CASE search.root \in dirty
    <3>1. Query(search.root) /\ search.root \in Entity
      BY <1>3, <2>1 DEF ReadRoot, Query, TypeOK
    <3> QED  BY <3>1 DEF BoundsStep
  <2>2. CASE search.root \notin dirty
    BY <1>3, <2>2 DEF ReadRoot, vars
  <2> QED  BY <2>1, <2>2
<1>4. CASE ReadChild
  <2>1. PICK i \in AtWork :
           LET c == Head(frames[i].unread)
           IN  IF c \in dirty THEN stack' = <<Called(c)>> ELSE UNCHANGED stack
    BY <1>4 DEF ReadChild
  <2> DEFINE c == Head(frames[i].unread)
  <2>2. Idle /\ UNCHANGED <<parent, xf, intrinsic, dirty, computed>>
    BY <1>4 DEF ReadChild
  <2> HIDE DEF c
  <2>3. CASE c \in dirty
    <3>1. Query(c) /\ c \in Entity
      BY <2>1, <2>2, <2>3 DEF Query, TypeOK, c
    <3> QED  BY <3>1 DEF BoundsStep
  <2>4. CASE c \notin dirty
    BY <2>1, <2>2, <2>4 DEF vars, c
  <2> QED  BY <2>3, <2>4
<1>5. CASE Exhaust \/ Visit \/ Descend \/ Ascend \/ End \/ Resume
  BY <1>5 DEF Exhaust, Visit, Descend, Ascend, End, Resume
<1>6. ASSUME NEW e \in Entity, Edit(e) PROVE BoundsStep
  BY <1>6 DEF Edit, BoundsStep
<1>7. ASSUME NEW e \in Entity, ClientQuery(e) PROVE BoundsStep
  BY <1>7 DEF ClientQuery, BoundsStep
<1>8. ASSUME NEW e, NEW s, NEW o, Begin(e, s, o) PROVE UNCHANGED vars
  BY <1>8 DEF Begin
<1> QED  BY <1>1, <1>2, <1>3, <1>4, <1>5, <1>6, <1>7, <1>8 DEF SearchNext, Run

-----------------------------------------------------------------------------
(* The invariant of a search *)

\* Below, for any parents.
BelowIn(par, r) ==
    {e \in Entity :
        \A S \in SUBSET Entity :
            e \in S /\ (\A s \in S : par[s] \in S \cup {Null}) => r \in S}

Searching ==
    [kind : {"point", "ray"}, at : SUBSET Point, root : Entity,
     order : {"ShallowFirst", "DeepFirst"}]

\* A frame reads below the root, sees what is sought where it is, and is at rest
\* only with an item or with no child left.
FrameFits(f, par, sub, at) ==
    /\ f \in Frame
    /\ f.read.node \in sub /\ f.read.at = at[f.read.node]
    /\ f.item # NoItem =>
          par[f.item.node] = f.read.node /\ f.item.at = at[f.item.node]
    /\ \A j \in 1 .. Len(f.unread) : par[f.unread[j]] = f.read.node
    /\ f.reading => f.item = NoItem
    /\ (~f.reading /\ f.item = NoItem) => f.unread = <<>>

StackFits(fs, m, par, sub, at) ==
    /\ fs \in Seq(Frame)
    /\ \A i \in 1 .. Len(fs) :
          /\ FrameFits(fs[i], par, sub, at)
          /\ i > 1 => par[fs[i].read.node] = fs[i - 1].read.node
          /\ fs[i].reading => m \in {"entering", "running"} /\ i \in {Len(fs) - 1, Len(fs)}

\* A copy lets through a node that is to be found, and no other.
Judged(r, kind, must, may) ==
    /\ r.node \in must => (kind = "point" => Touches(r.intrinsic, r.at))
    /\ (kind = "point" => Touches(r.intrinsic, r.at)) => r.node \in may

FrameJudged(f, kind, must, may) ==
    /\ Judged(f.read, kind, must, may)
    /\ f.item # NoItem => Judged(f.item, kind, must, may)

\* A frame has yet to come to e: below a child it has not read, or below its item.
Ahead(e, f, par) ==
    \/ \E j \in 1 .. Len(f.unread) : e \in BelowIn(par, f.unread[j])
    \/ f.item # NoItem /\ e \in BelowIn(par, f.item.node)

\* Or its own node is yet to be given.
Due(e, fs, m, order, par) ==
    \E i \in 1 .. Len(fs) :
        \/ Ahead(e, fs[i], par)
        \/ e = fs[i].read.node
           /\ (order = "DeepFirst" \/ (m = "entering" /\ i = Len(fs)))

Stages ==
    /\ mode \in {"none", "asked", "entering", "running", "given", "over"}
    /\ mode # "none" => search \in Searching
    /\ mode \in {"none", "asked", "over"} => frames = <<>>
    /\ mode \in {"none", "asked"} => found = {}
    /\ mode = "none" => steady = {} /\ ever = {}
    /\ mode = "entering" => frames # <<>>
    /\ edits \in 0 .. MaxEdits

Tracked ==
    /\ mode # "none" => /\ steady \subseteq Wanted(search)
                        /\ Wanted(search) \cup Tolerated(search) \subseteq ever
    /\ found \subseteq ever /\ ever \in SUBSET Entity /\ steady \in SUBSET Entity

Stacked ==
    mode # "none" =>
        /\ StackFits(frames, mode, parent, Below(search.root), Located(search))
        /\ \A i \in 1 .. Len(frames) :
              FrameJudged(frames[i], search.kind, steady, ever)

\* What is to be found has been, or is due.
Complete ==
    /\ mode \in {"entering", "running", "given"} =>
          \A e \in steady \ found : Due(e, frames, mode, search.order, parent)
    /\ FindsAll

SearchInv == Ground /\ Stages /\ Tracked /\ Stacked /\ Complete

-----------------------------------------------------------------------------
(* Stacks of frames *)

\* One frame changes, in what it has ahead.
LEMMA StackChanges ==
    ASSUME NEW par, NEW sub, NEW at, NEW m, NEW fs, StackFits(fs, m, par, sub, at),
           NEW i \in 1 .. Len(fs), NEW g, FrameFits(g, par, sub, at),
           g.read = fs[i].read, g.reading => fs[i].reading
    PROVE  LET new == [fs EXCEPT ![i] = g]
           IN  /\ StackFits(new, m, par, sub, at)
               /\ Len(new) = Len(fs) /\ new[i] = g
               /\ \A j \in 1 .. Len(fs) : j # i => new[j] = fs[j]
<1> DEFINE new == [fs EXCEPT ![i] = g]
<1>1. fs \in Seq(Frame) /\ g \in Frame
  BY DEF StackFits, FrameFits
<1>2. /\ new \in Seq(Frame) /\ Len(new) = Len(fs) /\ new[i] = g
      /\ \A j \in 1 .. Len(fs) : j # i => new[j] = fs[j]
  BY <1>1
<1> HIDE DEF new
<1>3. \A j \in 1 .. Len(fs) : new[j].read = fs[j].read /\ (new[j].reading => fs[j].reading)
  BY <1>2
<1>4. ASSUME NEW j \in 1 .. Len(fs)
      PROVE  /\ FrameFits(new[j], par, sub, at)
             /\ j > 1 => par[new[j].read.node] = new[j - 1].read.node
             /\ new[j].reading =>
                   m \in {"entering", "running"} /\ j \in {Len(fs) - 1, Len(fs)}
  <2>1. FrameFits(new[j], par, sub, at)
    BY <1>2 DEF StackFits
  <2>2. j > 1 => j - 1 \in 1 .. Len(fs)
    BY <1>1
  <2>3. j > 1 => par[new[j].read.node] = new[j - 1].read.node
    BY <1>3, <2>2 DEF StackFits
  <2> QED  BY <1>3, <2>1, <2>3 DEF StackFits
<1>5. StackFits(new, m, par, sub, at)
  BY <1>2, <1>4 DEF StackFits
<1> QED  BY <1>2, <1>5 DEF new

LEMMA FrontFits ==
    ASSUME NEW par, NEW sub, NEW at, NEW m, NEW fs, StackFits(fs, m, par, sub, at),
           fs # <<>>, \A i \in 1 .. Len(fs) : ~fs[i].reading, NEW n
    PROVE  /\ Len(fs) \in Nat \ {0} /\ Last(fs) = fs[Len(fs)] /\ Last(fs) \in Frame
           /\ StackFits(Front(fs), n, par, sub, at) /\ Len(Front(fs)) = Len(fs) - 1
           /\ \A i \in 1 .. Len(fs) - 1 : Front(fs)[i] = fs[i]
<1>1. fs \in Seq(Frame)
  BY DEF StackFits
<1>2. /\ Len(fs) \in Nat \ {0} /\ Last(fs) = fs[Len(fs)] /\ Last(fs) \in Frame
      /\ Front(fs) \in Seq(Frame) /\ Len(Front(fs)) = Len(fs) - 1
      /\ \A i \in 1 .. Len(fs) - 1 : Front(fs)[i] = fs[i]
  BY <1>1, FrontProperties
<1>3. ASSUME NEW i \in 1 .. Len(fs) - 1
      PROVE  /\ FrameFits(Front(fs)[i], par, sub, at)
             /\ i > 1 => par[Front(fs)[i].read.node] = Front(fs)[i - 1].read.node
             /\ ~Front(fs)[i].reading
  <2>1. i \in 1 .. Len(fs) /\ (i > 1 => i - 1 \in 1 .. Len(fs) - 1)
    BY <1>2
  <2> QED  BY <1>2, <2>1 DEF StackFits
<1>4. StackFits(Front(fs), n, par, sub, at)
  BY <1>2, <1>3 DEF StackFits
<1> QED  BY <1>2, <1>4

\* A frame is put on a stack that is at rest.
LEMMA StackGrows ==
    ASSUME NEW par, NEW sub, NEW at, NEW m, NEW fs,
           StackFits(fs, m, par, sub, at), fs # <<>>,
           \A i \in 1 .. Len(fs) : ~fs[i].reading,
           NEW g, FrameFits(g, par, sub, at), g.read = Last(fs).read,
           NEW h, FrameFits(h, par, sub, at), par[h.read.node] = g.read.node
    PROVE  LET new == Front(fs) \o <<g, h>>
               k == Len(fs)
           IN  /\ StackFits(new, "entering", par, sub, at)
               /\ k \in Nat \ {0} /\ Len(new) = k + 1 /\ new[k] = g /\ new[k + 1] = h
               /\ \A i \in 1 .. k - 1 : new[i] = fs[i]
<1> DEFINE low == Front(fs)
           new == low \o <<g, h>>
           k == Len(fs)
<1>1. /\ k \in Nat \ {0} /\ Last(fs) = fs[k] /\ fs \in Seq(Frame)
      /\ StackFits(low, "entering", par, sub, at) /\ Len(low) = k - 1
      /\ \A i \in 1 .. k - 1 : low[i] = fs[i]
  <2>1. fs \in Seq(Frame)
    BY DEF StackFits
  <2>2. /\ k \in Nat \ {0} /\ Last(fs) = fs[k] /\ Len(low) = k - 1
        /\ StackFits(low, "entering", par, sub, at)
        /\ \A i \in 1 .. k - 1 : low[i] = fs[i]
    BY FrontFits
  <2> QED  BY <2>1, <2>2
<1>2. low \in Seq(Frame) /\ g \in Frame /\ h \in Frame
  BY <1>1 DEF StackFits, FrameFits
<1> HIDE DEF low, k
<1>3. /\ new \in Seq(Frame) /\ Len(new) = k + 1 /\ new[k] = g /\ new[k + 1] = h
      /\ \A i \in 1 .. k - 1 : new[i] = low[i]
  <2>1. <<g, h>> \in Seq(Frame) /\ Len(<<g, h>>) = 2
        /\ <<g, h>>[1] = g /\ <<g, h>>[2] = h
    BY <1>2
  <2>2. Len(new) = k + 1 /\ new \in Seq(Frame)
    BY <1>1, <1>2, <2>1
  <2>3. \A i \in 1 .. k - 1 : new[i] = low[i]
    BY <1>1, <1>2, <2>1
  <2>4. new[k] = g /\ new[k + 1] = h
    BY <1>1, <1>2, <2>1
  <2> QED  BY <2>2, <2>3, <2>4
<1> HIDE DEF new
<1>4. ASSUME NEW i \in 1 .. k + 1
      PROVE  /\ FrameFits(new[i], par, sub, at)
             /\ i > 1 => par[new[i].read.node] = new[i - 1].read.node
             /\ new[i].reading => i \in {k, k + 1}
  <2>1. CASE i \in 1 .. k - 1
    <3>1. (i > 1 => i - 1 \in 1 .. k - 1) /\ i \in 1 .. k
      BY <1>1, <2>1
    <3>2. ~fs[i].reading
      BY <3>1 DEF k
    <3> QED  BY <1>1, <1>3, <2>1, <3>1, <3>2 DEF StackFits
  <2>2. CASE i = k
    <3>1. k > 1 => k - 1 \in 1 .. k - 1 /\ k \in 1 .. Len(fs)
      BY <1>1 DEF k
    <3>2. k > 1 => par[fs[k].read.node] = fs[k - 1].read.node
      BY <3>1 DEF StackFits
    <3> QED  BY <1>1, <1>3, <2>2, <3>1, <3>2
  <2>3. CASE i = k + 1
    <3>1. (k + 1) - 1 = k /\ k + 1 > 1
      BY <1>1
    <3> QED  BY <1>3, <2>3, <3>1
  <2> QED  BY <1>1, <2>1, <2>2, <2>3
<1>5. StackFits(new, "entering", par, sub, at)
  <2>1. Len(new) - 1 = k
    BY <1>1, <1>3
  <2> QED  BY <1>3, <1>4, <2>1 DEF StackFits
<1> QED  BY <1>1, <1>3, <1>5 DEF new, low, k

\* The mode does not matter to a stack at rest.
LEMMA RestFits ==
    ASSUME NEW par, NEW sub, NEW at, NEW m, NEW n, NEW fs, StackFits(fs, m, par, sub, at),
           \A i \in 1 .. Len(fs) : ~fs[i].reading
    PROVE  StackFits(fs, n, par, sub, at)
BY DEF StackFits

\* When no generator is the next to read, none is reading.
LEMMA AllAtRest ==
    ASSUME NEW par, NEW sub, NEW at, NEW m, StackFits(frames, m, par, sub, at),
           AtWork = {}
    PROVE  \A i \in 1 .. Len(frames) : ~frames[i].reading
<1> DEFINE k == Len(frames)
<1>1. k \in Nat /\ DOMAIN frames = 1 .. k
  BY DEF StackFits
<1>2. \A i \in 1 .. k : frames[i].reading => i = k - 1 \/ i = k
  BY DEF StackFits
<1> HIDE DEF k
<1>3. \A i \in 1 .. k : i = k - 1 => ~frames[i].reading
  <2>1. ASSUME NEW i \in 1 .. k, i = k - 1, frames[i].reading PROVE i \in AtWork
    <3>1. \A j \in 1 .. i - 1 : j \in 1 .. k /\ j # k - 1 /\ j # k
      BY <1>1, <2>1
    <3>2. \A j \in 1 .. i - 1 : ~frames[j].reading
      BY <1>2, <3>1
    <3> QED  BY <1>1, <2>1, <3>2 DEF AtWork
  <2> QED  BY <2>1
<1>4. \A i \in 1 .. k : i = k => ~frames[i].reading
  <2>1. ASSUME NEW i \in 1 .. k, i = k, frames[i].reading PROVE i \in AtWork
    <3>1. \A j \in 1 .. i - 1 : j \in 1 .. k /\ j # k
      BY <1>1, <2>1
    <3>2. \A j \in 1 .. i - 1 : ~frames[j].reading
      BY <1>2, <1>3, <3>1
    <3> QED  BY <1>1, <2>1, <3>2 DEF AtWork
  <2> QED  BY <2>1
<1> QED  BY <1>2, <1>3, <1>4 DEF k

LEMMA ItemsAreNodes ==
    /\ NoItem \notin Read
    /\ \A f \in Frame : f.item # NoItem => f.item \in Read
<1>1. NoItem.node = Null
  BY DEF NoItem
<1>2. NoItem \notin Read
  BY <1>1, EntityAssumption DEF Read
<1> QED  BY <1>2 DEF Frame

-----------------------------------------------------------------------------
(* What a read shows *)

\* The copy of a clean node tells whether to give it, and whether to go on.
LEMMA ReadOutcome ==
    ASSUME Ground, search \in Searching, Tracked, mode # "none",
           NEW c \in Below(search.root), c \notin dirty,
           NEW at, at = Located(search)[c]
    PROVE  /\ Reading(c, at) \in Read
           /\ Admits(Reading(c, at)) => Judged(Reading(c, at), search.kind, steady, ever)
           /\ ~Admits(Reading(c, at)) => Below(c) \cap steady = {}
<1> DEFINE r == Reading(c, at)
<1>1. TypeOK /\ Climbs /\ search.root \in Entity /\ search.at \in SUBSET Point
      /\ search.kind \in {"point", "ray"}
  BY DEF Ground, Searching
<1>2. c \in Entity /\ at \in SUBSET Point
  BY <1>1, BelowFacts, LocatedFacts
<1>3. r.node = c /\ r.at = at /\ r.intrinsic = intrinsic[c] /\ r.computed = SubtreeBox[c]
  <2>1. computed[c] = SubtreeBox[c]
    BY <1>2, GroundIsExact DEF CleanIsExact
  <2> QED  BY <2>1 DEF Reading
<1>4. r \in Read
  BY <1>1, <1>2 DEF Reading, Read, TypeOK
<1>5. steady \subseteq Wanted(search) /\ Wanted(search) \cup Tolerated(search) \subseteq ever
  BY DEF Tracked
<1> HIDE DEF r
<1>6. ASSUME Admits(r) PROVE Judged(r, search.kind, steady, ever)
  <2>1. ASSUME c \in steady, search.kind = "point" PROVE Touches(r.intrinsic, r.at)
    BY <1>3, <1>5, <2>1 DEF Wanted
  <2>2. ASSUME search.kind = "point" => Touches(r.intrinsic, r.at) PROVE c \in ever
    <3>1. CASE search.kind = "point"
      BY <1>3, <1>5, <2>2, <3>1 DEF Wanted
    <3>2. CASE search.kind = "ray" /\ SubtreeBox[c] = {}
      BY <1>5, <3>2 DEF Tolerated
    <3>3. CASE search.kind = "ray" /\ Touches(SubtreeBox[c], at)
      BY <1>5, <3>3 DEF Wanted
    <3> QED  BY <1>1, <1>3, <1>6, <3>1, <3>2, <3>3 DEF Admits
  <2> QED  BY <1>3, <2>1, <2>2 DEF Judged
<1>7. ASSUME ~Admits(r) PROVE Below(c) \cap steady = {}
  <2>1. ~Touches(SubtreeBox[c], Located(search)[c])
    BY <1>3, <1>7 DEF Admits
  <2>2. Below(c) \cap Wanted(search) = {}
    BY <1>1, <2>1, NothingBelow
  <2> QED  BY <1>5, <2>2
<1> QED  BY <1>4, <1>6, <1>7 DEF r

-----------------------------------------------------------------------------
(* Steps of a search *)

\* The subtree and what is to be found in it depend on the hierarchy, the
\* transforms and the bounds that entities have.
LEMMA SearchSeesTheSame ==
    /\ UNCHANGED <<parent, xf, search>> =>
          /\ Below(search.root)' = Below(search.root)
          /\ Located(search)' = Located(search)
    /\ UNCHANGED <<parent, xf, intrinsic, search>> =>
          /\ Wanted(search)' = Wanted(search)
          /\ Tolerated(search)' = Tolerated(search)
<1>1. ASSUME UNCHANGED <<parent, xf, search>>
      PROVE  /\ Below(search.root)' = Below(search.root)
             /\ Located(search)' = Located(search)
  BY <1>1 DEF Below, Located, InChild
<1>2. ASSUME UNCHANGED <<parent, xf, intrinsic, search>>
      PROVE  /\ Wanted(search)' = Wanted(search)
             /\ Tolerated(search)' = Tolerated(search)
  <2>1. SubtreeBox' = SubtreeBox
    BY <1>2 DEF SubtreeBox, Children, InParent
  <2> QED  BY <1>1, <1>2, <2>1 DEF Wanted, Tolerated
<1> QED  BY <1>1, <1>2

\* Steps that leave the search alone: recomputations and queries.
LEMMA SearchAlone ==
    ASSUME SearchInv, Ground', UNCHANGED <<parent, xf, intrinsic, searchVars>>
    PROVE  SearchInv'
<1>1. UNCHANGED <<search, mode, frames, found, steady, ever, edits>>
  BY DEF searchVars
<1>2. /\ Below(search.root)' = Below(search.root) /\ Located(search)' = Located(search)
      /\ Wanted(search)' = Wanted(search) /\ Tolerated(search)' = Tolerated(search)
  BY <1>1, SearchSeesTheSame
<1>3. Stages'
  BY <1>1 DEF SearchInv, Stages
<1>4. Tracked'
  BY <1>1, <1>2 DEF SearchInv, Tracked
<1>5. Stacked'
  BY <1>1, <1>2 DEF SearchInv, Stacked
<1>6. Complete'
  BY <1>1 DEF SearchInv, Complete, FindsAll
<1> QED  BY <1>3, <1>4, <1>5, <1>6 DEF SearchInv

LEMMA BeginStep ==
    ASSUME SearchInv, Ground', NEW root \in Entity, NEW s \in Sought,
           NEW o \in {"ShallowFirst", "DeepFirst"}, Begin(root, s, o)
    PROVE  SearchInv'
<1>1. /\ search' = [kind |-> s.kind, at |-> s.at, root |-> root, order |-> o]
      /\ mode' = "asked" /\ frames' = <<>> /\ found' = {} /\ edits' = edits
      /\ UNCHANGED <<parent, xf, intrinsic>>
      /\ steady' = Wanted(search') /\ ever' = Wanted(search') \cup Tolerated(search')
  BY DEF SearchInv, Stages, Begin, vars
<1>2. search' \in Searching
  BY <1>1, SoughtAssumption DEF Searching
<1>3. Wanted(search)' = Wanted(search') /\ Tolerated(search)' = Tolerated(search')
  <2>1. SubtreeBox' = SubtreeBox
    BY <1>1 DEF SubtreeBox, Children, InParent
  <2>2. Below(search.root)' = Below(search'.root) /\ Located(search)' = Located(search')
    BY <1>1 DEF Below, Located, InChild
  <2> QED  BY <1>1, <2>1, <2>2 DEF Wanted, Tolerated
<1>4. Wanted(search') \in SUBSET Entity /\ Tolerated(search') \in SUBSET Entity
  BY DEF Wanted, Tolerated, Below
<1>5. Stages'
  BY <1>1, <1>2 DEF SearchInv, Stages
<1>6. Tracked'
  BY <1>1, <1>3, <1>4 DEF Tracked
<1>7. Stacked'
  <2>1. <<>> \in Seq(Frame) /\ Len(<<>>) = 0
    OBVIOUS
  <2>2. StackFits(frames, mode, parent, Below(search.root), Located(search))'
    BY <1>1, <2>1 DEF StackFits
  <2> QED  BY <1>1, <2>1, <2>2 DEF Stacked
<1>8. Complete'
  BY <1>1 DEF Complete, FindsAll
<1> QED  BY <1>5, <1>6, <1>7, <1>8 DEF SearchInv

\* While a search goes on the client cannot edit transforms: what is left to
\* be found shrinks, and what it may give grows.
LEMMA EditStep ==
    ASSUME SearchInv, Ground', UNCHANGED parent, NEW e \in Entity, Edit(e)
    PROVE  SearchInv'
<1>1. /\ mode \in {"none", "given"} /\ UNCHANGED <<search, mode, frames, found>>
      /\ edits < MaxEdits /\ edits' = edits + 1
  BY DEF Edit, Free
<1>2. Stages'
  <2>1. edits' \in 0 .. MaxEdits
    BY <1>1, MaxEditsAssumption DEF SearchInv, Stages
  <2>2. mode = "none" => steady' = {} /\ ever' = {}
    BY DEF Edit, SearchInv, Stages
  <2> QED  BY <1>1, <2>1, <2>2 DEF SearchInv, Stages
<1>3. CASE mode = "none"
  <2>1. UNCHANGED <<steady, ever>>
    BY <1>3 DEF Edit
  <2>2. Tracked' /\ Stacked' /\ Complete'
    BY <1>1, <1>3, <2>1 DEF SearchInv, Tracked, Stacked, Complete, FindsAll
  <2> QED  BY <1>2, <2>2 DEF SearchInv
<1>4. CASE mode = "given"
  <2>1. xf' = xf
    BY <1>4 DEF Edit, SetIntrinsic, RemoveIntrinsic
  <2>2. steady' = steady \cap Wanted(search)'
        /\ ever' = ever \cup (Wanted(search) \cup Tolerated(search))'
    BY <1>4 DEF Edit
  <2>3. Below(search.root)' = Below(search.root) /\ Located(search)' = Located(search)
    BY <1>1, <2>1, SearchSeesTheSame
  <2>4. Wanted(search)' \in SUBSET Entity /\ Tolerated(search)' \in SUBSET Entity
    BY DEF Wanted, Tolerated, Below
  <2>5. Tracked'
    BY <1>1, <2>2, <2>4 DEF SearchInv, Tracked
  <2>6. steady' \subseteq steady /\ ever \subseteq ever'
    BY <2>2
  <2>7. Stacked'
    <3>1. /\ StackFits(frames, mode, parent, Below(search.root), Located(search))
          /\ \A i \in 1 .. Len(frames) : FrameJudged(frames[i], search.kind, steady, ever)
      BY <1>4 DEF SearchInv, Stacked
    <3>2. ASSUME NEW i \in 1 .. Len(frames)
          PROVE  FrameJudged(frames[i], search.kind, steady', ever')
      BY <2>6, <3>1 DEF FrameJudged, Judged
    <3> QED  BY <1>1, <2>3, <3>1, <3>2 DEF Stacked
  <2>8. Complete'
    BY <1>1, <1>4, <2>6 DEF SearchInv, Complete, FindsAll
  <2> QED  BY <1>2, <2>5, <2>7, <2>8 DEF SearchInv
<1> QED  BY <1>1, <1>3, <1>4

LEMMA ResumeStep ==
    ASSUME SearchInv, Ground', Resume
    PROVE  SearchInv'
<1>1. /\ mode = "given" /\ mode' = "running"
      /\ UNCHANGED <<parent, xf, intrinsic, search, frames, found, steady, ever, edits>>
  BY DEF Resume, vars
<1>2. /\ Below(search.root)' = Below(search.root) /\ Located(search)' = Located(search)
      /\ Wanted(search)' = Wanted(search) /\ Tolerated(search)' = Tolerated(search)
  BY <1>1, SearchSeesTheSame
<1>3. Stages'
  BY <1>1 DEF SearchInv, Stages
<1>4. Tracked'
  BY <1>1, <1>2 DEF SearchInv, Tracked
<1>5. Stacked'
  <2>1. /\ StackFits(frames, mode, parent, Below(search.root), Located(search))
        /\ \A i \in 1 .. Len(frames) : FrameJudged(frames[i], search.kind, steady, ever)
    BY <1>1 DEF SearchInv, Stacked
  <2>2. \A i \in 1 .. Len(frames) : ~frames[i].reading
    BY <1>1, <2>1 DEF StackFits
  <2>3. StackFits(frames, "running", parent, Below(search.root), Located(search))
    BY <2>1, <2>2, RestFits
  <2> QED  BY <1>1, <1>2, <2>1, <2>3 DEF Stacked
<1>6. Complete'
  <2>1. ASSUME NEW e \in steady \ found
        PROVE  Due(e, frames, "running", search.order, parent)
    <3>1. Due(e, frames, "given", search.order, parent)
      BY <1>1 DEF SearchInv, Complete
    <3> QED  BY <3>1 DEF Due
  <2> QED  BY <1>1, <2>1 DEF Complete, FindsAll
<1> QED  BY <1>3, <1>4, <1>5, <1>6 DEF SearchInv

LEMMA EndStep ==
    ASSUME SearchInv, Ground', End
    PROVE  SearchInv'
<1>1. /\ mode = "running" /\ mode' = "over" /\ frames = <<>>
      /\ UNCHANGED <<parent, xf, intrinsic, search, frames, found, steady, ever, edits>>
  BY DEF End, vars
<1>2. /\ Below(search.root)' = Below(search.root) /\ Located(search)' = Located(search)
      /\ Wanted(search)' = Wanted(search) /\ Tolerated(search)' = Tolerated(search)
  BY <1>1, SearchSeesTheSame
<1>3. Stages'
  BY <1>1 DEF SearchInv, Stages
<1>4. Tracked'
  BY <1>1, <1>2 DEF SearchInv, Tracked
<1>5. Stacked'
  <2>1. StackFits(frames, "over", parent, Below(search.root), Located(search))
    BY <1>1 DEF SearchInv, Stacked, StackFits
  <2> QED  BY <1>1, <1>2, <2>1 DEF Stacked
<1>6. Complete'
  <2>1. ASSUME NEW e \in steady \ found PROVE FALSE
    <3>1. Due(e, <<>>, "running", search.order, parent)
      BY <1>1 DEF SearchInv, Complete
    <3> QED  BY <3>1 DEF Due
  <2> QED  BY <1>1, <2>1 DEF Complete, FindsAll
<1> QED  BY <1>3, <1>4, <1>5, <1>6 DEF SearchInv

\* A search under way, that a step of dfs finds.
LEMMA UnderWay ==
    ASSUME SearchInv, mode \in {"asked", "entering", "running"}
    PROVE  /\ TypeOK /\ Climbs /\ search.root \in Entity /\ search.at \in SUBSET Point
           /\ search.kind \in {"point", "ray"}
           /\ search.order \in {"ShallowFirst", "DeepFirst"}
           /\ StackFits(frames, mode, parent, Below(search.root), Located(search))
           /\ \A i \in 1 .. Len(frames) : FrameJudged(frames[i], search.kind, steady, ever)
           /\ mode # "asked" =>
                 \A e \in steady \ found : Due(e, frames, mode, search.order, parent)
BY DEF SearchInv, Ground, Stages, Stacked, Complete, Searching

\* What a step of dfs has to show: it changes the mode, the stack, what is found.
LEMMA StepOfDfs ==
    ASSUME SearchInv, Ground', mode \in {"asked", "entering", "running"},
           UNCHANGED <<parent, xf, intrinsic, search, steady, ever, edits>>,
           mode' \in {"entering", "running", "given"}, mode' = "entering" => frames' # <<>>,
           found' \in SUBSET Entity, found' \subseteq ever,
           StackFits(frames', mode', parent, Below(search.root), Located(search)),
           \A i \in 1 .. Len(frames') : FrameJudged(frames'[i], search.kind, steady, ever),
           \A e \in steady \ found' : Due(e, frames', mode', search.order, parent)
    PROVE  SearchInv'
<1>1. /\ Below(search.root)' = Below(search.root) /\ Located(search)' = Located(search)
      /\ Wanted(search)' = Wanted(search) /\ Tolerated(search)' = Tolerated(search)
  BY SearchSeesTheSame
<1>2. Stages'
  BY DEF SearchInv, Stages
<1>3. Tracked'
  BY <1>1 DEF SearchInv, Tracked
<1>4. Stacked'
  BY <1>1 DEF SearchInv, Stacked
<1>5. Complete'
  BY DEF Complete, FindsAll
<1> QED  BY <1>2, <1>3, <1>4, <1>5 DEF SearchInv

\* A node that a judged copy stands for is given when it must be, and not when
\* it may not.
LEMMA YieldsRight ==
    ASSUME SearchInv, mode # "none", NEW r, Judged(r, search.kind, steady, ever), Yield(r)
    PROVE  /\ found' \in SUBSET Entity /\ found' \subseteq ever /\ found \subseteq found'
           /\ mode' \in {"running", "given"}
           /\ r.node \in steady => r.node \in found'
BY DEF SearchInv, Tracked, Judged, Yield, Gives

LEMMA VisitStep ==
    ASSUME SearchInv, Ground', Visit
    PROVE  SearchInv'
<1> DEFINE k == Len(frames)
           r == Last(frames).read
<1>1. /\ mode = "entering" /\ frames # <<>> /\ AtWork = {} /\ frames' = frames
      /\ UNCHANGED <<parent, xf, intrinsic, search, steady, ever, edits>>
  BY DEF Visit, AllRead, vars
<1>2. \A i \in 1 .. k : ~frames[i].reading
  BY <1>1, UnderWay, AllAtRest
<1>3. k \in Nat \ {0} /\ r = frames[k].read
  BY <1>1, <1>2, UnderWay, FrontFits
<1>4. Judged(r, search.kind, steady, ever)
  BY <1>1, <1>3, UnderWay DEF FrameJudged
<1>5. /\ found' \in SUBSET Entity /\ found' \subseteq ever /\ found \subseteq found'
      /\ mode' \in {"running", "given"}
      /\ search.order = "ShallowFirst" => (r.node \in steady => r.node \in found')
  <2>1. CASE search.order = "ShallowFirst"
    <3>1. Yield(r)
      BY <2>1 DEF Visit
    <3> QED  BY <1>1, <1>4, <3>1, YieldsRight
  <2>2. CASE search.order # "ShallowFirst"
    BY <2>2 DEF Visit, SearchInv, Tracked
  <2> QED  BY <2>1, <2>2
<1> HIDE DEF r
<1>6. StackFits(frames, mode', parent, Below(search.root), Located(search))
  BY <1>1, <1>2, UnderWay, RestFits
<1>7. ASSUME NEW e \in steady \ found'
      PROVE  Due(e, frames, mode', search.order, parent)
  <2>1. Due(e, frames, "entering", search.order, parent)
    BY <1>1, <1>5, <1>7, UnderWay
  <2>2. search.order = "DeepFirst" \/ e # r.node
    BY <1>1, <1>5, <1>7, UnderWay
  <2> QED  BY <1>3, <2>1, <2>2 DEF Due
<1> QED  BY <1>1, <1>5, <1>6, <1>7, UnderWay, StepOfDfs

LEMMA AscendStep ==
    ASSUME SearchInv, Ground', Ascend
    PROVE  SearchInv'
<1> DEFINE k == Len(frames)
           r == Last(frames).read
           low == Front(frames)
           sub == Below(search.root)
           at == Located(search)
<1>1. /\ mode = "running" /\ frames # <<>> /\ AtWork = {} /\ frames' = low
      /\ Last(frames).item = NoItem
      /\ UNCHANGED <<parent, xf, intrinsic, search, steady, ever, edits>>
  BY DEF Ascend, AllRead, vars
<1>2. \A i \in 1 .. k : ~frames[i].reading
  BY <1>1, UnderWay, AllAtRest
<1>3. /\ k \in Nat \ {0} /\ Last(frames) = frames[k]
      /\ \A n : StackFits(low, n, parent, sub, at)
      /\ Len(low) = k - 1 /\ \A i \in 1 .. k - 1 : low[i] = frames[i]
  BY <1>1, <1>2, UnderWay, FrontFits
<1>4. frames[k].unread = <<>>
  BY <1>1, <1>2, <1>3, UnderWay DEF StackFits, FrameFits
<1>5. Judged(r, search.kind, steady, ever)
  BY <1>1, <1>3, UnderWay DEF FrameJudged
<1>6. /\ found' \in SUBSET Entity /\ found' \subseteq ever /\ found \subseteq found'
      /\ mode' \in {"running", "given"}
      /\ search.order = "DeepFirst" => (r.node \in steady => r.node \in found')
  <2>1. CASE search.order = "DeepFirst"
    <3>1. Yield(r)
      BY <2>1 DEF Ascend
    <3> QED  BY <1>1, <1>5, <3>1, YieldsRight
  <2>2. CASE search.order # "DeepFirst"
    BY <1>1, <2>2 DEF Ascend, SearchInv, Tracked
  <2> QED  BY <2>1, <2>2
<1> HIDE DEF low, sub, at
<1>7. \A i \in 1 .. Len(low) : FrameJudged(low[i], search.kind, steady, ever)
  <2>1. ASSUME NEW i \in 1 .. Len(low) PROVE i \in 1 .. k - 1 /\ i \in 1 .. k
    BY <1>3
  <2> QED  BY <1>1, <1>3, <2>1, UnderWay
<1>8. ASSUME NEW e \in steady \ found'
      PROVE  Due(e, low, mode', search.order, parent)
  <2>1. Due(e, frames, "running", search.order, parent)
    BY <1>1, <1>6, <1>8, UnderWay
  <2>2. PICK i \in 1 .. k :
           \/ Ahead(e, frames[i], parent)
           \/ e = frames[i].read.node /\ search.order = "DeepFirst"
    BY <2>1 DEF Due
  <2>3. i # k
    <3>1. ASSUME i = k PROVE FALSE
      <4>1. ~Ahead(e, frames[k], parent)
        <5>1. 1 .. Len(frames[k].unread) = {}
          BY <1>4
        <5> QED  BY <1>1, <1>3, <5>1 DEF Ahead
      <4>2. e = r.node /\ search.order = "DeepFirst"
        BY <1>3, <2>2, <3>1, <4>1
      <4> QED  BY <1>6, <1>8, <4>2
    <3> QED  BY <3>1
  <2>4. i \in 1 .. k - 1 /\ i \in 1 .. Len(low) /\ low[i] = frames[i]
    BY <1>3, <2>3
  <2> QED  BY <2>2, <2>4 DEF Due
<1>9. StackFits(frames', mode', parent, Below(search.root), Located(search))
  BY <1>1, <1>3 DEF sub, at
<1> QED  BY <1>1, <1>6, <1>7, <1>8, <1>9, StepOfDfs

\* One frame changes; all that it had ahead it still has, but for what is not
\* to be found.
LEMMA FrameStep ==
    ASSUME SearchInv, Ground', mode \in {"entering", "running"},
           NEW i \in 1 .. Len(frames), NEW g,
           frames' = [frames EXCEPT ![i] = g],
           UNCHANGED <<parent, xf, intrinsic, search, mode, found, steady, ever, edits>>,
           FrameFits(g, parent, Below(search.root), Located(search)),
           g.read = frames[i].read, g.reading => frames[i].reading,
           g.item # NoItem => Judged(g.item, search.kind, steady, ever),
           \A e \in steady : Ahead(e, frames[i], parent) => Ahead(e, g, parent)
    PROVE  SearchInv'
<1> DEFINE k == Len(frames)
           sub == Below(search.root)
           at == Located(search)
<1>1. /\ StackFits(frames', mode, parent, sub, at) /\ Len(frames') = k /\ frames'[i] = g
      /\ \A j \in 1 .. k : j # i => frames'[j] = frames[j]
  <2>1. StackFits(frames, mode, parent, sub, at) /\ FrameFits(g, parent, sub, at)
    BY UnderWay
  <2> HIDE DEF sub, at
  <2>2. LET new == [frames EXCEPT ![i] = g]
        IN  /\ StackFits(new, mode, parent, sub, at) /\ Len(new) = k /\ new[i] = g
            /\ \A j \in 1 .. k : j # i => new[j] = frames[j]
    BY ONLY <2>1, StackChanges, i \in 1 .. Len(frames), g.read = frames[i].read,
            g.reading => frames[i].reading
  <2> QED  BY <2>2
<1>2. FrameJudged(g, search.kind, steady, ever)
  BY UnderWay DEF FrameJudged
<1>3. ASSUME NEW j \in 1 .. k
      PROVE  FrameJudged(frames'[j], search.kind, steady, ever)
  BY <1>1, <1>2, UnderWay
<1>4. ASSUME NEW e \in steady \ found
      PROVE  Due(e, frames', mode, search.order, parent)
  <2>1. Due(e, frames, mode, search.order, parent)
    BY UnderWay
  <2>2. PICK j \in 1 .. k :
           \/ Ahead(e, frames[j], parent)
           \/ e = frames[j].read.node
              /\ (search.order = "DeepFirst" \/ (mode = "entering" /\ j = k))
    BY <2>1 DEF Due
  <2>3. /\ Ahead(e, frames[j], parent) => Ahead(e, frames'[j], parent)
        /\ frames'[j].read = frames[j].read
    BY <1>1
  <2>4. j \in 1 .. Len(frames') /\ k = Len(frames')
    BY <1>1
  <2> HIDE DEF k
  <2>5. \/ Ahead(e, frames'[j], parent)
        \/ e = frames'[j].read.node
           /\ (search.order = "DeepFirst" \/ (mode = "entering" /\ j = Len(frames')))
    BY <2>2, <2>3, <2>4
  <2> QED  BY <2>4, <2>5 DEF Due
<1>5. frames' # <<>>
  BY <1>1
<1>6. found' \in SUBSET Entity /\ found' \subseteq ever
  BY DEF SearchInv, Tracked
<1>7. StackFits(frames', mode', parent, Below(search.root), Located(search))
  BY <1>1
<1> QED  BY <1>1, <1>3, <1>4, <1>5, <1>6, <1>7, StepOfDfs

LEMMA ReadingNow ==
    ASSUME SearchInv, mode # "none", NEW i \in AtWork
    PROVE  /\ i \in 1 .. Len(frames) /\ mode \in {"entering", "running"}
           /\ frames[i].reading /\ frames[i].item = NoItem
           /\ FrameFits(frames[i], parent, Below(search.root), Located(search))
<1>1. StackFits(frames, mode, parent, Below(search.root), Located(search))
  BY DEF SearchInv, Stacked
<1>2. i \in 1 .. Len(frames) /\ frames[i].reading
  BY <1>1 DEF AtWork, StackFits
<1> QED  BY <1>1, <1>2 DEF StackFits, FrameFits

LEMMA NotBegun == ASSUME SearchInv, mode = "none" PROVE AtWork = {}
BY DEF SearchInv, Stages, AtWork

LEMMA ExhaustStep ==
    ASSUME SearchInv, Ground', Exhaust
    PROVE  SearchInv'
<1>1. PICK i \in AtWork : /\ frames[i].unread = <<>>
                          /\ frames' = [frames EXCEPT ![i].reading = FALSE]
  BY DEF Exhaust
<1> DEFINE f == frames[i]
           g == [f EXCEPT !.reading = FALSE]
<1>2. UNCHANGED <<parent, xf, intrinsic, search, mode, found, steady, ever, edits>>
  BY DEF Exhaust, vars
<1>3. /\ i \in 1 .. Len(frames) /\ mode \in {"entering", "running"} /\ f.item = NoItem
      /\ FrameFits(f, parent, Below(search.root), Located(search))
  BY <1>1, NotBegun, ReadingNow
<1>4. /\ g \in Frame /\ g.read = f.read /\ g.item = NoItem /\ g.unread = <<>> /\ ~g.reading
  BY <1>1, <1>3 DEF FrameFits, Frame
<1>5. frames' = [frames EXCEPT ![i] = g]
  BY <1>1, <1>3
<1> HIDE DEF g
<1>6. FrameFits(g, parent, Below(search.root), Located(search))
  BY <1>1, <1>3, <1>4 DEF FrameFits
<1>7. \A e \in steady : Ahead(e, f, parent) => Ahead(e, g, parent)
  BY <1>1, <1>3, <1>4 DEF Ahead
<1> HIDE DEF f
<1>8. g.read = frames[i].read /\ ~g.reading /\ g.item = NoItem
  BY <1>4 DEF f
<1> QED  BY <1>2, <1>3, <1>5, <1>6, <1>7, <1>8, FrameStep DEF f

LEMMA ReadChildStep ==
    ASSUME SearchInv, Ground', ReadChild
    PROVE  SearchInv'
<1> DEFINE sub == Below(search.root)
           at == Located(search)
<1>1. PICK i \in AtWork :
         /\ frames[i].unread # <<>>
         /\ LET f == frames[i]
                c == Head(f.unread)
                r == Reading(c, InChild(c, f.read.at))
            IN  IF c \in dirty
                THEN stack' = <<Called(c)>> /\ UNCHANGED frames
                ELSE /\ frames' = [frames EXCEPT ![i] =
                             [f EXCEPT !.unread = Tail(@),
                                       !.item = IF Admits(r) THEN r ELSE NoItem,
                                       !.reading = ~Admits(r)]]
                     /\ UNCHANGED stack
  BY Zenon DEF ReadChild
<1> DEFINE f == frames[i]
           c == Head(f.unread)
           r == Reading(c, InChild(c, f.read.at))
           g == [f EXCEPT !.unread = Tail(@),
                          !.item = IF Admits(r) THEN r ELSE NoItem,
                          !.reading = ~Admits(r)]
<1>2. UNCHANGED <<parent, xf, intrinsic, search, mode, found, steady, ever, edits>>
  BY DEF ReadChild
<1>3. /\ i \in 1 .. Len(frames) /\ mode \in {"entering", "running"}
      /\ f.reading /\ f.item = NoItem /\ FrameFits(f, parent, sub, at)
  BY <1>1, NotBegun, ReadingNow
<1>4. CASE c \in dirty
  BY <1>1, <1>2, <1>4, SearchAlone DEF searchVars
<1>5. CASE c \notin dirty
  <2>1. frames' = [frames EXCEPT ![i] = g]
    BY <1>1, <1>5
  <2>2. /\ f \in Frame /\ f.unread \in Seq(Entity) /\ f.unread # <<>>
        /\ c = f.unread[1] /\ c \in Entity
        /\ Tail(f.unread) \in Seq(Entity) /\ Len(f.unread) \in Nat \ {0}
        /\ Len(Tail(f.unread)) = Len(f.unread) - 1
        /\ \A j \in 1 .. Len(f.unread) - 1 : Tail(f.unread)[j] = f.unread[j + 1]
    <3>1. f \in Frame /\ f.unread \in Seq(Entity) /\ f.unread # <<>>
      BY <1>1, <1>3 DEF FrameFits, Frame
    <3> HIDE DEF f
    <3> QED  BY <3>1
  <2>3. parent[c] = f.read.node /\ f.read.node \in sub /\ f.read.at = at[f.read.node]
    <3>1. 1 \in 1 .. Len(f.unread)
      BY <2>2
    <3> HIDE DEF f, c
    <3> QED  BY <1>3, <2>2, <3>1 DEF FrameFits
  <2>4. c \in sub /\ InChild(c, f.read.at) = at[c]
    <3>1. c \in sub
      BY <1>3, <2>2, <2>3, UnderWay, BelowFacts
    <3>2. c # search.root
      BY <1>3, <2>2, <2>3, UnderWay, NoReturn
    <3> HIDE DEF c, f
    <3> QED  BY <1>3, <2>3, <3>1, <3>2, UnderWay, LocatedFacts
  <2>5. /\ r \in Read
        /\ Admits(r) => Judged(r, search.kind, steady, ever)
        /\ ~Admits(r) => Below(c) \cap steady = {}
    <3>1. Ground /\ search \in Searching /\ Tracked /\ mode # "none"
      BY <1>3 DEF SearchInv, Stages
    <3> HIDE DEF c, f
    <3> QED  BY <1>5, <2>4, <3>1, ReadOutcome
  <2>6. r.node = c /\ r.at = at[c]
    BY <2>4 DEF Reading
  <2> HIDE DEF c, r
  <2>7. /\ g \in Frame /\ g.read = f.read /\ g.unread = Tail(f.unread)
        /\ g.item = (IF Admits(r) THEN r ELSE NoItem)
        /\ g.reading = ~Admits(r)
    BY <2>2, <2>5 DEF Frame, Admits, Touches
  <2> HIDE DEF f, g
  <2>8. FrameFits(g, parent, sub, at)
    <3>1. \A j \in 1 .. Len(g.unread) : parent[g.unread[j]] = g.read.node
      <4>1. ASSUME NEW j \in 1 .. Len(g.unread)
            PROVE  j \in 1 .. Len(f.unread) - 1 /\ j + 1 \in 1 .. Len(f.unread)
        BY <2>2, <2>7
      <4> QED  BY <1>3, <2>2, <2>7, <4>1 DEF FrameFits
    <3>2. r # NoItem
      BY <2>5, ItemsAreNodes
    <3>3. /\ g.item # NoItem =>
                parent[g.item.node] = g.read.node /\ g.item.at = at[g.item.node]
          /\ g.reading => g.item = NoItem
          /\ (~g.reading /\ g.item = NoItem) => g.unread = <<>>
      BY <2>3, <2>6, <2>7, <3>2
    <3> QED  BY <2>3, <2>7, <3>1, <3>3 DEF FrameFits
  <2>9. ASSUME NEW e \in steady, Ahead(e, f, parent) PROVE Ahead(e, g, parent)
    <3>1. PICK j \in 1 .. Len(f.unread) : e \in BelowIn(parent, f.unread[j])
      BY <1>3, <2>9 DEF Ahead, f
    <3>2. CASE j = 1
      <4>1. e \in Below(c)
        BY <2>2, <3>1, <3>2 DEF Below, BelowIn
      <4>2. g.item = r /\ r # NoItem
        BY <2>5, <2>7, <2>9, <4>1, ItemsAreNodes
      <4> QED  BY <2>2, <2>6, <3>1, <3>2, <4>2 DEF Ahead
    <3>3. CASE j # 1
      <4>1. j - 1 \in 1 .. Len(f.unread) - 1 /\ (j - 1) + 1 = j
        BY <2>2, <3>3
      <4>2. j - 1 \in 1 .. Len(g.unread) /\ g.unread[j - 1] = f.unread[j]
        BY <2>2, <2>7, <4>1
      <4> QED  BY <3>1, <4>2 DEF Ahead
    <3> QED  BY <3>2, <3>3
  <2>10. g.read = frames[i].read /\ (g.reading => frames[i].reading)
         /\ (g.item # NoItem => Judged(g.item, search.kind, steady, ever))
    BY <1>3, <2>5, <2>7 DEF f
  <2> QED  BY <1>2, <1>3, <2>1, <2>8, <2>9, <2>10, FrameStep DEF f
<1> QED  BY <1>4, <1>5

\* A frame that begins has all ahead that is below the node it is for.
LEMMA EnteredFits ==
    ASSUME TypeOK, Climbs, search.root \in Entity,
           NEW r \in Read, r.node \in Below(search.root), r.at = Located(search)[r.node],
           NEW f \in Entered(r)
    PROVE  /\ FrameFits(f, parent, Below(search.root), Located(search))
           /\ f.read = r /\ f.item = NoItem /\ f.reading
           /\ \A e \in Below(r.node) : e # r.node => Ahead(e, f, parent)
<1>1. PICK s \in SetToSeqs(Children(r.node)) :
         f = [read |-> r, item |-> NoItem, unread |-> s, reading |-> TRUE]
  BY DEF Entered
<1>2. r.node \in Entity
  BY DEF Read
<1>3. s \in Seq(Entity) /\ {s[i] : i \in 1 .. Len(s)} = Children(r.node)
  BY <1>2, ChildrenOrders
<1>4. /\ f \in Frame /\ f.read = r /\ f.item = NoItem /\ f.reading /\ f.unread = s
  BY <1>1, <1>3 DEF Frame
<1>5. \A j \in 1 .. Len(s) : parent[s[j]] = r.node
  <2>1. \A c \in {s[i] : i \in 1 .. Len(s)} : parent[c] = r.node
    BY <1>3 DEF Children
  <2> QED  BY <2>1
<1>6. FrameFits(f, parent, Below(search.root), Located(search))
  BY <1>4, <1>5 DEF FrameFits
<1>7. ASSUME NEW e \in Below(r.node), e # r.node PROVE Ahead(e, f, parent)
  <2>1. PICK c \in Children(r.node) : e \in Below(c)
    BY <1>2, <1>7, BelowSplits
  <2>2. PICK j \in 1 .. Len(s) : s[j] = c
    BY <1>3
  <2>3. e \in BelowIn(parent, s[j])
    BY <2>1, <2>2 DEF Below, BelowIn
  <2> QED  BY <1>4, <2>3 DEF Ahead
<1> QED  BY <1>4, <1>6, <1>7

LEMMA ReadRootStep ==
    ASSUME SearchInv, Ground', ReadRoot
    PROVE  SearchInv'
<1> DEFINE root == search.root
           r == Reading(root, search.at)
           sub == Below(root)
           at == Located(search)
<1>1. /\ mode = "asked" /\ frames = <<>> /\ found = {}
      /\ UNCHANGED <<parent, xf, intrinsic, search, found, steady, ever, edits>>
  BY DEF ReadRoot, SearchInv, Stages
<1>2. root \in Entity /\ root \in sub /\ at[root] = search.at
  BY <1>1, UnderWay, BelowFacts, LocatedFacts
<1>3. CASE root \in dirty
  <2>1. UNCHANGED <<mode, frames>>
    BY <1>3 DEF ReadRoot
  <2> QED  BY <1>1, <2>1, SearchAlone DEF searchVars
<1>4. CASE root \notin dirty
  <2>1. /\ r \in Read /\ r.node = root /\ r.at = at[root]
        /\ Admits(r) => Judged(r, search.kind, steady, ever)
        /\ ~Admits(r) => sub \cap steady = {}
    <3>1. Ground /\ search \in Searching /\ Tracked /\ mode # "none"
      BY <1>1 DEF SearchInv, Stages
    <3>2. r.node = root /\ r.at = search.at
      BY DEF Reading
    <3> QED  BY <1>2, <1>4, <3>1, <3>2, ReadOutcome
  <2>2. steady \subseteq sub
    BY <1>1 DEF SearchInv, Tracked, Wanted
  <2>3. CASE Admits(r)
    <3>1. PICK f \in Entered(r) : frames' = <<f>> /\ mode' = "entering"
      BY <1>4, <2>3 DEF ReadRoot
    <3> HIDE DEF r
    <3>2. /\ FrameFits(f, parent, sub, at)
          /\ f.read = r /\ f.item = NoItem /\ f.reading
          /\ \A e \in Below(r.node) : e # r.node => Ahead(e, f, parent)
      BY <1>1, <1>2, <2>1, UnderWay, EnteredFits
    <3>3. frames' \in Seq(Frame) /\ Len(frames') = 1 /\ frames'[1] = f
      BY <3>1, <3>2 DEF FrameFits
    <3> HIDE DEF sub, at
    <3>4. StackFits(frames', mode', parent, sub, at)
      <4>1. ASSUME NEW i \in 1 .. Len(frames') PROVE i = 1 /\ i = Len(frames')
        BY <3>3
      <4> QED  BY <3>1, <3>2, <3>3, <4>1 DEF StackFits
    <3>5. \A i \in 1 .. Len(frames') : FrameJudged(frames'[i], search.kind, steady, ever)
      BY <2>1, <2>3, <3>2, <3>3 DEF FrameJudged
    <3>6. ASSUME NEW e \in steady PROVE Due(e, frames', "entering", search.order, parent)
      <4>1. e = root \/ Ahead(e, f, parent)
        BY <2>1, <2>2, <3>2 DEF sub
      <4> QED  BY <2>1, <3>2, <3>3, <4>1 DEF Due
    <3>7. frames' # <<>>
      BY <3>1
    <3>8. found' \in SUBSET Entity /\ found' \subseteq ever
      BY <1>1
    <3>9. StackFits(frames', mode', parent, Below(search.root), Located(search))
      BY <3>4 DEF sub, at
    <3> QED  BY <1>1, <3>1, <3>5, <3>6, <3>7, <3>8, <3>9, StepOfDfs
  <2>4. CASE ~Admits(r)
    <3>1. mode' = "over" /\ frames' = frames
      BY <1>4, <2>4 DEF ReadRoot
    <3>2. steady = {}
      BY <2>1, <2>2, <2>4
    <3>3. /\ Below(search.root)' = Below(search.root) /\ Located(search)' = Located(search)
          /\ Wanted(search)' = Wanted(search) /\ Tolerated(search)' = Tolerated(search)
      BY <1>1, SearchSeesTheSame
    <3>4. Stages' /\ Tracked' /\ Complete'
      BY <1>1, <3>1, <3>2, <3>3 DEF SearchInv, Stages, Tracked, Complete, FindsAll
    <3>5. Stacked'
      <4>1. StackFits(frames, "over", parent, Below(search.root), Located(search))
        BY <1>1 DEF SearchInv, Stacked, StackFits
      <4> QED  BY <1>1, <3>1, <3>3, <4>1 DEF Stacked
    <3> QED  BY <3>4, <3>5 DEF SearchInv
  <2> QED  BY <2>3, <2>4
<1> QED  BY <1>3, <1>4

LEMMA DescendStep ==
    ASSUME SearchInv, Ground', Descend
    PROVE  SearchInv'
<1> DEFINE k == Len(frames)
           f == Last(frames)
           r == f.item
           g == Advanced(f)
           sub == Below(search.root)
           at == Located(search)
<1>1. /\ mode = "running" /\ frames # <<>> /\ AtWork = {} /\ r # NoItem
      /\ mode' = "entering"
      /\ UNCHANGED <<parent, xf, intrinsic, search, found, steady, ever, edits>>
  BY DEF Descend, AllRead, vars
<1>2. PICK h \in Entered(r) : frames' = Front(frames) \o <<g, h>>
  BY DEF Descend
<1>3. \A i \in 1 .. k : ~frames[i].reading
  BY <1>1, UnderWay, AllAtRest
<1>4. k \in Nat \ {0} /\ f = frames[k] /\ f \in Frame
  BY <1>1, <1>3, UnderWay, FrontFits
<1>5. FrameFits(f, parent, sub, at) /\ FrameJudged(f, search.kind, steady, ever)
  BY <1>1, <1>4, UnderWay DEF StackFits
<1> HIDE DEF f
<1>6. /\ g \in Frame /\ g.read = f.read /\ g.item = NoItem /\ g.unread = f.unread
      /\ g.reading
  BY <1>4 DEF Frame, Advanced
<1> HIDE DEF g
<1>7. FrameFits(g, parent, sub, at)
  BY <1>5, <1>6 DEF FrameFits
<1>8. /\ r \in Read /\ r.node \in sub /\ r.at = at[r.node] /\ parent[r.node] = f.read.node
      /\ Judged(r, search.kind, steady, ever)
  <2>1. /\ r \in Read /\ parent[r.node] = f.read.node /\ f.read.node \in sub
        /\ r.at = at[r.node] /\ Judged(r, search.kind, steady, ever)
    BY <1>1, <1>4, <1>5, ItemsAreNodes DEF FrameFits, FrameJudged
  <2>2. r.node \in Entity
    BY <2>1 DEF Read
  <2>3. r.node \in sub
    BY <1>1, <2>1, <2>2, UnderWay, BelowFacts
  <2> QED  BY <2>1, <2>3
<1> HIDE DEF r
<1>9. /\ FrameFits(h, parent, sub, at) /\ h.read = r /\ h.item = NoItem
      /\ \A e \in Below(r.node) : e # r.node => Ahead(e, h, parent)
  BY <1>1, <1>8, UnderWay, EnteredFits
<1>10. StackFits(frames, mode, parent, sub, at) /\ frames # <<>>
  BY <1>1, UnderWay
<1> HIDE DEF sub, at
<1>11. /\ StackFits(frames', "entering", parent, sub, at)
       /\ Len(frames') = k + 1 /\ frames'[k] = g /\ frames'[k + 1] = h
       /\ \A i \in 1 .. k - 1 : frames'[i] = frames[i]
  <2>1. g.read = Last(frames).read /\ parent[h.read.node] = g.read.node
    BY <1>6, <1>8, <1>9 DEF f
  <2>2. FrameFits(g, parent, sub, at) /\ FrameFits(h, parent, sub, at)
    BY <1>7, <1>9
  <2>3. LET new == Front(frames) \o <<g, h>>
        IN  /\ StackFits(new, "entering", parent, sub, at)
            /\ Len(new) = k + 1 /\ new[k] = g /\ new[k + 1] = h
            /\ \A i \in 1 .. k - 1 : new[i] = frames[i]
    BY ONLY <1>3, <1>10, <2>1, <2>2, StackGrows
  <2> QED  BY <1>2, <2>3
<1>12. FrameJudged(g, search.kind, steady, ever) /\ FrameJudged(h, search.kind, steady, ever)
  BY <1>5, <1>6, <1>8, <1>9 DEF FrameJudged
<1>13. ASSUME NEW i \in 1 .. Len(frames')
       PROVE  FrameJudged(frames'[i], search.kind, steady, ever)
  <2>1. (i \in 1 .. k - 1 /\ i \in 1 .. k) \/ i = k \/ i = k + 1
    BY <1>4, <1>11
  <2> QED  BY <1>1, <1>11, <1>12, <2>1, UnderWay
<1>14. ASSUME NEW e \in steady \ found'
       PROVE  Due(e, frames', "entering", search.order, parent)
  <2>1. Due(e, frames, "running", search.order, parent)
    BY <1>1, <1>14, UnderWay
  <2>2. PICK i \in 1 .. k :
           \/ Ahead(e, frames[i], parent)
           \/ e = frames[i].read.node /\ search.order = "DeepFirst"
    BY <2>1 DEF Due
  <2>3. i \in 1 .. Len(frames') /\ k \in 1 .. Len(frames') /\ k + 1 \in 1 .. Len(frames')
    BY <1>4, <1>11
  <2>4. CASE i # k
    <3>1. i \in 1 .. k - 1
      BY <1>4, <2>4
    <3> QED  BY <1>11, <2>2, <2>3, <3>1 DEF Due
  <2>5. CASE i = k /\ e = frames[k].read.node /\ search.order = "DeepFirst"
    BY <1>4, <1>6, <1>11, <2>3, <2>5 DEF Due
  <2>6. CASE Ahead(e, f, parent)
    <3>1. CASE \E j \in 1 .. Len(f.unread) : e \in BelowIn(parent, f.unread[j])
      <4>1. Ahead(e, g, parent)
        BY <1>6, <3>1 DEF Ahead
      <4> QED  BY <1>11, <2>3, <4>1 DEF Due
    <3>2. CASE e \in BelowIn(parent, r.node)
      <4>1. e \in Below(r.node)
        BY <3>2 DEF Below, BelowIn
      <4>2. e = r.node \/ Ahead(e, h, parent)
        BY <1>9, <4>1
      <4> QED  BY <1>9, <1>11, <2>3, <4>2 DEF Due
    <3> QED  BY <2>6, <3>1, <3>2 DEF Ahead, r
  <2> QED  BY <1>4, <2>2, <2>4, <2>5, <2>6
<1>15. frames' # <<>>
  BY <1>4, <1>11
<1>16. found' \in SUBSET Entity /\ found' \subseteq ever
  BY <1>1 DEF SearchInv, Tracked
<1>17. StackFits(frames', mode', parent, Below(search.root), Located(search))
  BY <1>1, <1>11 DEF sub, at
<1> QED  BY <1>1, <1>13, <1>14, <1>15, <1>16, <1>17, StepOfDfs

-----------------------------------------------------------------------------
(* Theorems *)

LEMMA SearchInvAtFirst == SearchInit => SearchInv
<1> SUFFICES ASSUME SearchInit PROVE SearchInv
  OBVIOUS
<1>1. Ground
  BY GroundAtFirst
<1>2. Stages
  BY MaxEditsAssumption DEF SearchInit, Stages
<1>3. Tracked /\ Stacked /\ Complete
  BY DEF SearchInit, Tracked, Stacked, Complete, FindsAll
<1> QED  BY <1>1, <1>2, <1>3 DEF SearchInv

LEMMA SearchInvKept == SearchInv /\ [SearchNext]_allVars => SearchInv'
<1> SUFFICES ASSUME SearchInv, [SearchNext]_allVars PROVE SearchInv'
  OBVIOUS
<1>1. Ground' /\ UNCHANGED parent
  <2>1. TypeOK
    BY DEF SearchInv, Ground
  <2> QED  BY <2>1, SearchStepsBounds, GroundKept DEF SearchInv
<1>2. CASE UNCHANGED allVars
  BY <1>1, <1>2, SearchAlone DEF allVars
<1>3. CASE Recompute
  <2>1. UNCHANGED <<parent, xf, intrinsic, searchVars>>
    BY <1>3 DEF Recompute, Recomputation, Return, VisitDirty, VisitClean
  <2> QED  BY <1>1, <2>1, SearchAlone
<1>4. CASE Run
  BY <1>1, <1>4, ReadRootStep, ReadChildStep, ExhaustStep, VisitStep, DescendStep,
     AscendStep, EndStep DEF Run
<1>5. CASE Resume
  BY <1>1, <1>5, ResumeStep
<1>6. ASSUME NEW e \in Entity, Edit(e) PROVE SearchInv'
  BY <1>1, <1>6, EditStep
<1>7. ASSUME NEW e \in Entity, ClientQuery(e) PROVE SearchInv'
  <2>1. UNCHANGED <<parent, xf, intrinsic, searchVars>>
    BY <1>7 DEF ClientQuery, Query
  <2> QED  BY <1>1, <2>1, SearchAlone
<1>8. ASSUME NEW e \in Entity, NEW s \in Sought, NEW o \in {"ShallowFirst", "DeepFirst"},
             Begin(e, s, o)
      PROVE  SearchInv'
  BY <1>1, <1>8, BeginStep
<1> QED  BY <1>2, <1>3, <1>4, <1>5, <1>6, <1>7, <1>8 DEF SearchNext

\* The frames of dfs (traverse.h:389-428) lie below one another in the hierarchy
\* at every step of a search, and only the two innermost generators ever read.
THEOREM SearchTypeCorrect == SearchSpec => []SearchTypeOK
<1>1. SearchInv => SearchTypeOK
  <2> SUFFICES ASSUME SearchInv PROVE SearchTypeOK
    OBVIOUS
  <2>1. TypeOK /\ mode \in {"none", "asked", "entering", "running", "given", "over"}
        /\ {found, steady, ever} \subseteq SUBSET Entity /\ edits \in 0 .. MaxEdits
    BY DEF SearchInv, Ground, Stages, Tracked
  <2>2. CASE mode = "none"
    <3>1. frames = <<>> /\ frames \in Seq(Frame) /\ DOMAIN frames = {}
      BY <2>2 DEF SearchInv, Stages
    <3> QED  BY <2>1, <3>1 DEF SearchTypeOK
  <2>3. CASE mode # "none"
    <3>1. StackFits(frames, mode, parent, Below(search.root), Located(search))
      BY <2>3 DEF SearchInv, Stacked
    <3>2. frames \in Seq(Frame) /\ DOMAIN frames = 1 .. Len(frames)
      BY <3>1 DEF StackFits
    <3>3. \A i \in 1 .. Len(frames) :
             /\ i > 1 => parent[frames[i].read.node] = frames[i - 1].read.node
             /\ frames[i].reading => mode \in {"entering", "running"}
                                     /\ i \in {Len(frames) - 1, Len(frames)}
      BY <3>1 DEF StackFits
    <3>4. \A i \in DOMAIN frames :
             /\ i > 1 => parent[frames[i].read.node] = frames[i - 1].read.node
             /\ frames[i].reading => mode \in {"entering", "running"}
                                     /\ i \in {Len(frames) - 1, Len(frames)}
      BY <3>2, <3>3, Zenon
    <3> QED  BY <2>1, <3>2, <3>4, Zenon DEF SearchTypeOK
  <2> QED  BY <2>2, <2>3
<1> QED  BY <1>1, SearchInvAtFirst, SearchInvKept, PTL DEF SearchSpec

\* A search that is over has given every node that was to be found all the
\* time, whatever was dirty and however the client edited bounds and queried
\* between two results: traverse_under_point, search_under_point,
\* traverse_along_ray and search_along_ray (bounding_hierarchy.h:225-335).
THEOREM SearchFindsAll == SearchSpec => []FindsAll
<1>1. SearchInv => FindsAll
  BY DEF SearchInv, Complete
<1> QED  BY <1>1, SearchInvAtFirst, SearchInvKept, PTL DEF SearchSpec

\* It gives no node that at no time of the search was to be found: a copy made
\* before an edit was right when it was made (bounding_hierarchy.h:225-335).
THEOREM SearchFindsOnly == SearchSpec => []FindsOnly
<1>1. SearchInv => FindsOnly
  BY DEF SearchInv, Tracked, FindsOnly
<1> QED  BY <1>1, SearchInvAtFirst, SearchInvKept, PTL DEF SearchSpec

=============================================================================
