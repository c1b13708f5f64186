-------------------------- MODULE TransformsProofs --------------------------
(***************************************************************************)
(* Proofs about the queries along paths, for any number of entities in any *)
(* forest that clients can build, and any group of transforms.             *)
(***************************************************************************)
EXTENDS Transforms, ListLemmas, FiniteSetTheorems

-----------------------------------------------------------------------------
(* Climbing *)

\* Every set of entities has one whose parent is not in it, so whoever climbs
\* comes to a root.
Climbs == \A T \in SUBSET Entity : T # {} => \E x \in T : parent[x] \notin T

Sound == TypeOK /\ Climbs

\* A set that has every root, and every entity whose parent it has.
LEMMA FromRootsDown ==
    ASSUME Sound, NEW T,
           \A e \in Entity : (parent[e] = Null \/ parent[e] \in T) => e \in T
    PROVE  Entity \subseteq T
<1> DEFINE rest == Entity \ T
<1>1. SUFFICES ASSUME rest # {} PROVE FALSE
  OBVIOUS
<1>2. PICK x \in rest : parent[x] \notin rest
  BY <1>1 DEF Sound, Climbs
<1> QED  BY <1>2 DEF Sound, TypeOK

\* A parent comes before its children.
Uplink == {ss \in Entity \X Entity : parent[ss[2]] = ss[1]}

LEMMA UplinkGrounded ==
    ASSUME Sound
    PROVE  Grounded(Uplink, Entity)
<1>1. ASSUME NEW T \in SUBSET Entity, T # {}
      PROVE  \E x \in T : \A y \in T : <<y, x>> \notin Uplink
  <2>1. PICK x \in T : parent[x] \notin T
    BY <1>1 DEF Sound, Climbs
  <2>2. \A y \in T : <<y, x>> \notin Uplink
    BY <2>1 DEF Uplink
  <2> QED  BY <2>2
<1> QED  BY <1>1 DEF Grounded

-----------------------------------------------------------------------------
(* The loops along the parents *)

LEMMA IsAncestorOfEquation ==
    ASSUME Sound, NEW a, NEW d \in Entity
    PROVE  /\ IsAncestorOf(a, d) \in BOOLEAN
           /\ IsAncestorOf(a, d) <=>
                 parent[d] # Null /\ (parent[d] = a \/ IsAncestorOf(a, parent[d]))
<1> DEFINE F == [Entity -> BOOLEAN]
           val(g, x) == parent[x] # Null /\ (parent[x] = a \/ g[parent[x]])
           step == [g \in F |-> [x \in Entity |-> val(g, x)]]
           below == CHOOSE below : below = [x \in Entity |-> val(below, x)]
<1>1. ASSUME NEW g \in F, NEW x \in Entity PROVE val(g, x) \in BOOLEAN
  OBVIOUS
<1>2. LooksDown(Entity, BOOLEAN, Uplink, step)
  <2>1. step \in [F -> F]
    <3>1. \A g \in F : [x \in Entity |-> val(g, x)] \in F
      BY <1>1
    <3> HIDE DEF val
    <3> QED  BY <3>1
  <2>2. ASSUME NEW g \in F, NEW h \in F, NEW e \in Entity,
               \A d1 \in Entity : <<d1, e>> \in Uplink => g[d1] = h[d1]
        PROVE  step[g][e] = step[h][e]
    <3>1. parent[e] # Null => g[parent[e]] = h[parent[e]]
      BY <2>2 DEF Uplink, Sound, TypeOK
    <3>2. val(g, e) = val(h, e)
      BY <3>1
    <3> HIDE DEF val
    <3> QED  BY <3>2
  <2> HIDE DEF step
  <2> QED  BY <2>1, <2>2 DEF LooksDown
<1>3. PICK g \in F : g = step[g]
  <2> HIDE DEF step
  <2> QED  BY <1>2, UplinkGrounded, RecursionHasSolution
<1> HIDE DEF val
<1>4. g = [x \in Entity |-> val(g, x)]
  BY <1>3
<1>5. below = [x \in Entity |-> val(below, x)]
  BY <1>4
<1> HIDE DEF below, step
<1>6. \A x \in Entity : below[x] = val(below, x)
  BY <1>5
<1> USE DEF val
<1>7. \A x \in Entity : IsAncestorOf(a, x) = below[x]
  BY DEF IsAncestorOf, below
<1>8. parent[d] # Null => parent[d] \in Entity
  BY DEF Sound, TypeOK
<1> QED  BY <1>6, <1>7, <1>8

LEMMA PathEquation ==
    ASSUME Sound, NEW e \in Entity
    PROVE  /\ Path(e) \in Seq(Entity)
           /\ parent[e] = Null => Path(e) = <<e>>
           /\ parent[e] # Null => /\ parent[e] \in Entity
                                  /\ Path(parent[e]) \in Seq(Entity)
                                  /\ Path(e) = Append(Path(parent[e]), e)
<1> DEFINE V == Seq(Entity)
           F == [Entity -> V]
           val(g, x) == IF parent[x] = Null THEN <<x>> ELSE Append(g[parent[x]], x)
           step == [g \in F |-> [x \in Entity |-> val(g, x)]]
           path == CHOOSE path : path = [x \in Entity |-> val(path, x)]
<1>1. ASSUME NEW g \in F, NEW x \in Entity PROVE val(g, x) \in V
  <2>1. parent[x] # Null => g[parent[x]] \in V
    BY DEF Sound, TypeOK
  <2> QED  BY <2>1
<1>2. LooksDown(Entity, V, Uplink, step)
  <2>1. step \in [F -> F]
    <3>1. \A g \in F : [x \in Entity |-> val(g, x)] \in F
      BY <1>1
    <3> HIDE DEF val
    <3> QED  BY <3>1
  <2>2. ASSUME NEW g \in F, NEW h \in F, NEW x \in Entity,
               \A d \in Entity : <<d, x>> \in Uplink => g[d] = h[d]
        PROVE  step[g][x] = step[h][x]
    <3>1. parent[x] # Null => g[parent[x]] = h[parent[x]]
      BY <2>2 DEF Uplink, Sound, TypeOK
    <3>2. val(g, x) = val(h, x)
      BY <3>1
    <3> HIDE DEF val
    <3> QED  BY <3>2
  <2>3. V # {}
    BY EmptySeq
  <2> HIDE DEF step, V
  <2> QED  BY <2>1, <2>2, <2>3 DEF LooksDown
<1>3. PICK g \in F : g = step[g]
  <2> HIDE DEF step, V
  <2> QED  BY <1>2, UplinkGrounded, RecursionHasSolution
<1>4. g = [x \in Entity |-> val(g, x)]
  <2> HIDE DEF val
  <2> QED  BY <1>3
<1>5. path = [x \in Entity |-> val(path, x)]
  <2> HIDE DEF val
  <2> QED  BY <1>4
<1> HIDE DEF path, step
<1>6. \A x \in Entity : path[x] = val(path, x)
  <2> HIDE DEF val
  <2> QED  BY <1>5
<1>7. \A x \in Entity : Path(x) = path[x]
  BY DEF Path, path
<1>8. \A x \in Entity : parent[x] # Null => parent[x] \in Entity
  BY DEF Sound, TypeOK
<1>9. \A x \in Entity : path[x] \in V
  <2> DEFINE T == {x \in Entity : path[x] \in V}
  <2>1. ASSUME NEW x \in Entity, parent[x] = Null \/ parent[x] \in T PROVE x \in T
    <3>1. CASE parent[x] = Null
      <4>1. path[x] = <<x>>
        BY <1>6, <3>1
      <4>2. <<x>> \in V
        OBVIOUS
      <4> QED  BY <4>1, <4>2, Zenon
    <3>2. CASE parent[x] # Null
      <4>1. path[parent[x]] \in V /\ path[x] = Append(path[parent[x]], x)
        BY <1>6, <2>1, <3>2
      <4>2. Append(path[parent[x]], x) \in V
        BY <4>1
      <4> QED  BY <4>1, <4>2, Zenon
    <3> QED  BY <3>1, <3>2
  <2> HIDE DEF T
  <2>2. Entity \subseteq T
    BY <2>1, FromRootsDown
  <2> QED  BY <2>2 DEF T
<1> QED  BY <1>6, <1>7, <1>8, <1>9

\* path ends with the entity, and every two neighbours on it are linked.
LEMMA PathFacts ==
    ASSUME Sound, NEW e \in Entity
    PROVE  /\ Path(e) \in Seq(Entity) /\ Len(Path(e)) \in Nat \ {0}
           /\ Path(e)[Len(Path(e))] = e
           /\ \A i \in 2 .. Len(Path(e)) : parent[Path(e)[i]] = Path(e)[i - 1]
<1> DEFINE Good(x) ==
              /\ Len(Path(x)) \in Nat \ {0}
              /\ Path(x)[Len(Path(x))] = x
              /\ \A i \in 2 .. Len(Path(x)) : parent[Path(x)[i]] = Path(x)[i - 1]
           T == {x \in Entity : Good(x)}
<1>1. ASSUME NEW x \in Entity, parent[x] = Null \/ parent[x] \in T PROVE Good(x)
  <2>1. CASE parent[x] = Null
    <3>1. Path(x) = <<x>>
      BY <2>1, PathEquation
    <3>2. Len(Path(x)) = 1 /\ Path(x)[1] = x /\ 2 .. 1 = {}
      BY <3>1
    <3> QED  BY <3>2
  <2>2. CASE parent[x] # Null
    <3> DEFINE p == Path(parent[x])
    <3>1. p \in Seq(Entity) /\ Path(x) = Append(p, x)
      BY <2>2, PathEquation
    <3>2. /\ Len(p) \in Nat \ {0} /\ p[Len(p)] = parent[x]
          /\ \A i \in 2 .. Len(p) : parent[p[i]] = p[i - 1]
      BY <1>1, <2>2
    <3> HIDE DEF p
    <3>3. Len(Path(x)) = Len(p) + 1 /\ Path(x)[Len(p) + 1] = x
      BY <3>1
    <3>4. \A i \in 1 .. Len(p) : Path(x)[i] = p[i]
      BY <3>1
    <3>5. ASSUME NEW i \in 2 .. Len(Path(x))
          PROVE  parent[Path(x)[i]] = Path(x)[i - 1]
      <4>1. i - 1 \in 1 .. Len(p) /\ (i \in 2 .. Len(p) \/ i = Len(p) + 1)
        BY <3>2, <3>3
      <4>2. CASE i = Len(p) + 1
        BY <3>2, <3>3, <3>4, <4>1, <4>2
      <4>3. CASE i \in 2 .. Len(p)
        BY <3>2, <3>4, <4>1, <4>3
      <4> QED  BY <4>1, <4>2, <4>3
    <3> QED  BY <3>2, <3>3, <3>5
  <2> QED  BY <2>1, <2>2
<1> HIDE DEF Good
<1>2. Entity \subseteq T
  BY <1>1, FromRootsDown
<1>3. Good(e)
  BY <1>2
<1> QED  BY <1>3, PathEquation DEF Good

\* The beginning of a path up to one of its nodes is the path of that node.
LEMMA PathOfNode ==
    ASSUME Sound, NEW e \in Entity, NEW k \in 1 .. Len(Path(e))
    PROVE  /\ Path(e)[k] \in Entity
           /\ Path(Path(e)[k]) = SubSeq(Path(e), 1, k)
<1> DEFINE Good(x) == \A n \in 1 .. Len(Path(x)) :
                         /\ Path(x)[n] \in Entity
                         /\ Path(Path(x)[n]) = SubSeq(Path(x), 1, n)
           T == {x \in Entity : Good(x)}
<1>1. ASSUME NEW x \in Entity, parent[x] = Null \/ parent[x] \in T PROVE Good(x)
  <2> SUFFICES ASSUME NEW n \in 1 .. Len(Path(x))
               PROVE  /\ Path(x)[n] \in Entity
                      /\ Path(Path(x)[n]) = SubSeq(Path(x), 1, n)
    OBVIOUS
  <2>0. /\ Path(x) \in Seq(Entity) /\ Len(Path(x)) \in Nat \ {0}
        /\ Path(x)[Len(Path(x))] = x
    BY PathFacts
  <2>1. CASE n = Len(Path(x))
    <3>1. SubSeq(Path(x), 1, Len(Path(x))) = Path(x)
      BY <2>0
    <3> QED  BY <2>0, <2>1, <3>1
  <2>2. CASE n # Len(Path(x))
    <3> DEFINE p == Path(parent[x])
    <3>1. parent[x] # Null
      <4>1. Len(Path(x)) # 1
        BY <2>0, <2>2
      <4> QED  BY <4>1, PathEquation
    <3>2. p \in Seq(Entity) /\ Path(x) = Append(p, x)
      BY <3>1, PathEquation
    <3>3. \A m \in 1 .. Len(p) : p[m] \in Entity /\ Path(p[m]) = SubSeq(p, 1, m)
      BY <1>1, <3>1
    <3> HIDE DEF p
    <3>4. n \in 1 .. Len(p) /\ Len(p) \in Nat
      BY <2>0, <2>2, <3>2
    <3>5. Path(x)[n] = p[n]
      BY <3>2, <3>4
    <3>6. SubSeq(Append(p, x), 1, n) = SubSeq(p, 1, n)
      BY <3>2, <3>4
    <3> QED  BY <3>2, <3>3, <3>4, <3>5, <3>6
  <2> QED  BY <2>1, <2>2
<1> HIDE DEF Good
<1>2. Entity \subseteq T
  BY <1>1, FromRootsDown
<1>3. Good(e)
  BY <1>2
<1> QED  BY <1>3 DEF Good

LEMMA AncestorsEquation ==
    ASSUME Sound, NEW e \in Entity
    PROVE  /\ parent[e] = Null => Ancestors(e) = <<>>
           /\ parent[e] # Null =>
                 Ancestors(e) = <<[node |-> e, parent |-> parent[e]]>>
                                   \o Ancestors(parent[e])
           /\ Ancestors(e) \in Seq([node : Entity, parent : Entity])
<1> DEFINE E == Entity \cup {Null}
           Link == [node : Entity, parent : Entity]
           V == Seq(Link)
           F == [E -> V]
           R == {ss \in E \X E : ss[2] # Null /\ parent[ss[2]] = ss[1]}
           val(g, x) == IF x = Null \/ parent[x] = Null THEN <<>>
                        ELSE <<[node |-> x, parent |-> parent[x]]>> \o g[parent[x]]
           step == [g \in F |-> [x \in E |-> val(g, x)]]
           above == CHOOSE above : above = [x \in E |-> val(above, x)]
<1>0. \A x \in E : x # Null => x \in Entity /\ parent[x] \in E
  BY DEF Sound, TypeOK
<1>1. ASSUME NEW g \in F, NEW x \in E PROVE val(g, x) \in V
  <2>1. CASE x = Null \/ parent[x] = Null
    BY <2>1, EmptySeq
  <2>2. CASE x # Null /\ parent[x] # Null
    <3>1. g[parent[x]] \in V /\ [node |-> x, parent |-> parent[x]] \in Link
      BY <1>0, <2>2
    <3> HIDE DEF Link
    <3> QED  BY <2>2, <3>1
  <2> QED  BY <2>1, <2>2
<1>2. LooksDown(E, V, R, step)
  <2>1. step \in [F -> F]
    <3>1. \A g \in F : [x \in E |-> val(g, x)] \in F
      BY <1>1
    <3> HIDE DEF val
    <3> QED  BY <3>1
  <2>2. ASSUME NEW g \in F, NEW h \in F, NEW x \in E,
               \A d \in E : <<d, x>> \in R => g[d] = h[d]
        PROVE  step[g][x] = step[h][x]
    <3>1. x # Null => g[parent[x]] = h[parent[x]]
      BY <1>0, <2>2
    <3>2. val(g, x) = val(h, x)
      BY <3>1
    <3> HIDE DEF val
    <3> QED  BY <3>2
  <2>3. V # {}
    BY EmptySeq
  <2> HIDE DEF step, V, R
  <2> QED  BY <2>1, <2>2, <2>3 DEF LooksDown
<1>3. Grounded(R, E)
  <2>1. ASSUME NEW T \in SUBSET E, T # {}
        PROVE  \E x \in T : \A y \in T : <<y, x>> \notin R
    <3>1. CASE Null \in T
      BY <3>1
    <3>2. CASE Null \notin T
      <4>1. PICK x \in T : parent[x] \notin T
        BY <2>1, <3>2 DEF Sound, Climbs
      <4> QED  BY <4>1
    <3> QED  BY <3>1, <3>2
  <2> HIDE DEF R, E
  <2> QED  BY <2>1 DEF Grounded
<1>4. PICK g \in F : g = step[g]
  <2> HIDE DEF step, V, R, E
  <2> QED  BY <1>2, <1>3, RecursionHasSolution
<1>5. g = [x \in E |-> val(g, x)]
  <2> HIDE DEF val
  <2> QED  BY <1>4
<1>6. above = [x \in E |-> val(above, x)]
  <2> HIDE DEF val
  <2> QED  BY <1>5
<1> HIDE DEF above, step
<1>7. \A x \in E : above[x] = val(above, x)
  <2> HIDE DEF val
  <2> QED  BY <1>6
<1>8. \A x \in E : Ancestors(x) = above[x]
  BY DEF Ancestors, above
<1>9. \A x \in Entity : above[x] \in V
  <2> DEFINE T == {x \in Entity : above[x] \in V}
  <2>1. ASSUME NEW x \in Entity, parent[x] = Null \/ parent[x] \in T PROVE x \in T
    <3>0. x # Null /\ x \in E
      BY EntityAssumption
    <3>1. CASE parent[x] = Null
      <4>1. above[x] = <<>>
        BY <1>7, <3>0, <3>1
      <4> QED  BY <4>1, EmptySeq
    <3>2. CASE parent[x] # Null
      <4>1. /\ above[parent[x]] \in V
            /\ above[x] = <<[node |-> x, parent |-> parent[x]]>> \o above[parent[x]]
        BY <1>7, <2>1, <3>0, <3>2
      <4>2. [node |-> x, parent |-> parent[x]] \in Link
        BY <2>1, <3>2
      <4> HIDE DEF Link
      <4>3. <<[node |-> x, parent |-> parent[x]]>> \o above[parent[x]] \in V
        BY <4>1, <4>2
      <4> QED  BY <4>1, <4>3, Zenon
    <3> QED  BY <3>1, <3>2
  <2> HIDE DEF T
  <2>2. Entity \subseteq T
    BY <2>1, FromRootsDown
  <2> QED  BY <2>2 DEF T
<1>10. e \in E /\ e # Null /\ parent[e] \in E
  BY <1>0, EntityAssumption
<1> HIDE DEF E, V
<1> QED  BY <1>7, <1>8, <1>9, <1>10 DEF V

-----------------------------------------------------------------------------
(* The queries of the hierarchy agree *)

\* A path begins with a root.
LEMMA PathBeginsAtRoot ==
    ASSUME Sound, NEW e \in Entity
    PROVE  parent[Path(e)[1]] = Null
<1> DEFINE p == Path(e)
<1>1. p \in Seq(Entity) /\ Len(p) \in Nat \ {0}
  BY PathFacts
<1>2. 1 \in 1 .. Len(p)
  BY <1>1
<1>3. p[1] \in Entity /\ Path(p[1]) = SubSeq(p, 1, 1)
  BY <1>2, PathOfNode
<1>4. Len(Path(p[1])) = 1
  BY <1>1, <1>2, <1>3
<1>5. ASSUME parent[p[1]] # Null PROVE FALSE
  <2>1. parent[p[1]] \in Entity /\ Path(p[1]) = Append(Path(parent[p[1]]), p[1])
    BY <1>3, <1>5, PathEquation
  <2>2. Path(parent[p[1]]) \in Seq(Entity) /\ Len(Path(parent[p[1]])) \in Nat \ {0}
    BY <2>1, PathFacts
  <2> QED  BY <1>4, <2>1, <2>2
<1> QED  BY <1>5

\* The nodes of the path are the entity and what is above it.
LEMMA PathIsAtOrAbove ==
    ASSUME Sound, NEW e \in Entity
    PROVE  Range(Path(e)) = AtOrAbove(e)
<1> DEFINE p == Path(e)
<1>1. /\ p \in Seq(Entity) /\ Len(p) \in Nat \ {0} /\ p[Len(p)] = e
      /\ \A i \in 2 .. Len(p) : parent[p[i]] = p[i - 1]
  BY PathFacts
<1>2. Range(p) = {p[i] : i \in 1 .. Len(p)}
  BY <1>1 DEF Range
<1>3. parent[p[1]] = Null
  BY PathBeginsAtRoot
<1> HIDE DEF p
<1>4. Range(p) \in SUBSET Entity
  <2>1. \A i \in 1 .. Len(p) : p[i] \in Entity
    BY <1>1, ElementOfSeq
  <2> QED  BY <1>2, <2>1
<1>5. ASSUME NEW a \in AtOrAbove(e) PROVE a \in Range(p)
  <2>1. e \in Range(p)
    BY <1>1, <1>2
  <2>2. ASSUME NEW s \in Range(p) PROVE parent[s] \in Range(p) \cup {Null}
    <3>1. PICK i \in 1 .. Len(p) : s = p[i]
      BY <1>2
    <3>2. CASE i = 1
      BY <1>3, <3>1, <3>2
    <3>3. CASE i # 1
      <4>1. i \in 2 .. Len(p) /\ i - 1 \in 1 .. Len(p)
        BY <1>1, <3>3
      <4> QED  BY <1>1, <1>2, <3>1, <4>1
    <3> QED  BY <3>2, <3>3
  <2> QED  BY <1>4, <2>1, <2>2 DEF AtOrAbove
<1>6. ASSUME NEW S \in SUBSET Entity, e \in S,
             \A s \in S : parent[s] \in S \cup {Null}
      PROVE  Range(p) \subseteq S
  <2> DEFINE n == Len(p)
             T == {k \in Nat : k < n => p[n - k] \in S}
  <2>1. 0 \in T
    BY <1>1, <1>6
  <2>2. ASSUME NEW k \in Nat, k \in T PROVE k + 1 \in T
    <3>1. CASE k + 1 < n
      <4>1. n - k \in 2 .. n /\ (n - k) - 1 = n - (k + 1) /\ k < n
            /\ n - (k + 1) \in 1 .. n
        BY <1>1, <3>1
      <4>2. p[n - k] \in S /\ parent[p[n - k]] = p[n - (k + 1)]
        BY <1>1, <2>2, <4>1
      <4>3. p[n - (k + 1)] \in Entity
        BY <1>1, <4>1, ElementOfSeq
      <4> QED  BY <1>6, <4>2, <4>3, EntityAssumption
    <3>2. CASE ~(k + 1 < n)
      BY <3>2
    <3> QED  BY <3>1, <3>2
  <2> HIDE DEF T
  <2>3. Nat \subseteq T
    BY <2>1, <2>2, NumbersBySteps
  <2>4. ASSUME NEW i \in 1 .. n PROVE p[i] \in S
    <3>1. n - i \in Nat /\ n - i < n /\ n - (n - i) = i
      BY <1>1
    <3> QED  BY <2>3, <3>1 DEF T
  <2> QED  BY <1>2, <2>4
<1>7. Range(p) \subseteq AtOrAbove(e)
  BY <1>4, <1>6 DEF AtOrAbove
<1> QED  BY <1>5, <1>7 DEF p

-----------------------------------------------------------------------------
(* No operation makes a cycle *)

LEMMA SoundAtFirst == Init => Sound
<1> SUFFICES ASSUME Init PROVE Sound
  OBVIOUS
<1>1. TypeOK
  BY DEF Init, TypeOK
<1>2. ASSUME NEW T \in SUBSET Entity, T # {} PROVE \E x \in T : parent[x] \notin T
  BY <1>2, EntityAssumption DEF Init
<1> QED  BY <1>1, <1>2 DEF Sound, Climbs

\* A set of which nobody has the parent outside would hold the new child and
\* its new parent; but the members that are not below the child climb past it.
LEMMA SetParentSound ==
    ASSUME Sound, NEW c \in Entity, NEW p \in Entity, SetParent(c, p)
    PROVE  Climbs'
<1>1. /\ c # p /\ ~IsAncestorOf(c, p)
      /\ parent' = [parent EXCEPT ![c] = p]
  BY DEF SetParent
<1>2. SUFFICES ASSUME NEW T \in SUBSET Entity, T # {},
                      \A x \in T : parent'[x] \in T
               PROVE  FALSE
  BY DEF Climbs
<1>3. /\ parent \in [Entity -> Entity \cup {Null}]
      /\ parent'[c] = p /\ \A x \in Entity : x # c => parent'[x] = parent[x]
  BY <1>1 DEF Sound, TypeOK
<1>4. c \in T
  <2>1. PICK x \in T : parent[x] \notin T
    BY <1>2 DEF Sound, Climbs
  <2> QED  BY <1>2, <1>3, <2>1
<1> DEFINE U == {x \in T : x # c /\ ~IsAncestorOf(c, x)}
<1>5. p \in U
  BY <1>1, <1>2, <1>3, <1>4
<1>6. PICK x \in U : parent[x] \notin U
  <2>1. U \in SUBSET Entity /\ U # {}
    BY <1>5
  <2> HIDE DEF U
  <2> QED  BY <2>1 DEF Sound, Climbs
<1>7. parent[x] \in T /\ parent[x] # Null
  BY <1>2, <1>3, <1>6, EntityAssumption
<1>8. parent[x] # c /\ ~IsAncestorOf(c, parent[x])
  BY <1>6, <1>7, IsAncestorOfEquation
<1> QED  BY <1>6, <1>7, <1>8

LEMMA SoundKept == Sound /\ [Next]_vars => Sound'
<1> SUFFICES ASSUME Sound, [Next]_vars PROVE TypeOK' /\ Climbs'
  BY DEF Sound
<1>1. ASSUME UNCHANGED parent PROVE Climbs'
  BY <1>1 DEF Sound, Climbs
<1>2. CASE UNCHANGED vars
  BY <1>1, <1>2 DEF Sound, TypeOK, vars
<1>3. ASSUME NEW e \in Entity, NEW x \in Xf, SetTransform(e, x)
      PROVE  TypeOK' /\ Climbs'
  BY <1>1, <1>3 DEF SetTransform, Sound, TypeOK
<1>4. ASSUME NEW e \in Entity, RemoveTransform(e) PROVE TypeOK' /\ Climbs'
  BY <1>1, <1>4 DEF RemoveTransform, Sound, TypeOK
<1>5. ASSUME NEW e \in Entity, NEW p \in Entity, SetParent(e, p)
      PROVE  TypeOK' /\ Climbs'
  <2>1. TypeOK'
    BY <1>5 DEF SetParent, Sound, TypeOK
  <2> QED  BY <1>5, <2>1, SetParentSound
<1>6. ASSUME NEW e \in Entity, Unparent(e) PROVE TypeOK' /\ Climbs'
  <2>1. parent' = [parent EXCEPT ![e] = Null] /\ UNCHANGED xf
    BY <1>6 DEF Unparent
  <2>2. TypeOK'
    BY <2>1 DEF Sound, TypeOK
  <2>3. ASSUME NEW T \in SUBSET Entity, T # {} PROVE \E x \in T : parent'[x] \notin T
    <3>1. PICK x \in T : parent[x] \notin T
      BY <2>3 DEF Sound, Climbs
    <3>2. parent'[x] \notin T
      BY <2>1, <3>1, EntityAssumption DEF Sound, TypeOK
    <3> QED  BY <3>2
  <2> QED  BY <2>2, <2>3 DEF Climbs
<1> QED  BY <1>2, <1>3, <1>4, <1>5, <1>6 DEF Next

LEMMA SoundAlways == Spec => []Sound
<1> QED  BY SoundAtFirst, SoundKept, PTL DEF Spec

\* Types hold in every state: a parent is an entity or none, and a transform is
\* one that a client set.
THEOREM TransformsTypeCorrect == Spec => []TypeOK
<1>1. Sound => TypeOK
  BY DEF Sound
<1> QED  BY <1>1, SoundAlways, PTL

-----------------------------------------------------------------------------
(* Ancestors and is_ancestor_of see the nodes of the path *)

\* From the entity upwards, without the root; each node with its parent.
LEMMA AncestorsClimbThePath ==
    ASSUME Sound, NEW e \in Entity
    PROVE  /\ Ancestors(e) \in Seq([node : Entity, parent : Entity])
           /\ Len(Ancestors(e)) = Len(Path(e)) - 1
           /\ \A i \in 1 .. Len(Path(e)) - 1 :
                 /\ Ancestors(e)[i].node = Path(e)[Len(Path(e)) - i + 1]
                 /\ Ancestors(e)[i].parent = parent[Path(e)[Len(Path(e)) - i + 1]]
<1> DEFINE Good(x) ==
              /\ Len(Ancestors(x)) = Len(Path(x)) - 1
              /\ \A i \in 1 .. Len(Path(x)) - 1 :
                    /\ Ancestors(x)[i].node = Path(x)[Len(Path(x)) - i + 1]
                    /\ Ancestors(x)[i].parent
                           = parent[Path(x)[Len(Path(x)) - i + 1]]
           T == {x \in Entity : Good(x)}
           Link == [node : Entity, parent : Entity]
<1>1. ASSUME NEW x \in Entity, parent[x] = Null \/ parent[x] \in T PROVE Good(x)
  <2>1. CASE parent[x] = Null
    <3>1. Path(x) = <<x>> /\ Ancestors(x) = <<>>
      BY <2>1, PathEquation, AncestorsEquation
    <3>2. Len(Path(x)) = 1 /\ Len(Ancestors(x)) = 0 /\ 1 .. 0 = {}
      BY <3>1
    <3> QED  BY <3>2
  <2>2. CASE parent[x] # Null
    <3> DEFINE p == Path(parent[x])
               up == Ancestors(parent[x])
               link == [node |-> x, parent |-> parent[x]]
    <3>1. /\ parent[x] \in Entity /\ p \in Seq(Entity) /\ Path(x) = Append(p, x)
          /\ up \in Seq(Link) /\ Ancestors(x) = <<link>> \o up
          /\ link \in Link /\ link.node = x /\ link.parent = parent[x]
      BY <2>2, PathEquation, AncestorsEquation
    <3>2. /\ Len(up) = Len(p) - 1
          /\ \A i \in 1 .. Len(p) - 1 :
                /\ up[i].node = p[Len(p) - i + 1]
                /\ up[i].parent = parent[p[Len(p) - i + 1]]
      BY <1>1, <2>2
    <3>3. Len(p) \in Nat \ {0}
      BY <3>1, PathFacts
    <3> HIDE DEF p, up, link, Link
    <3>4. Len(Path(x)) = Len(p) + 1 /\ Path(x)[Len(p) + 1] = x
      BY <3>1
    <3>5. \A i \in 1 .. Len(p) : Path(x)[i] = p[i]
      BY <3>1
    <3>6. Len(Ancestors(x)) = Len(up) + 1 /\ Ancestors(x)[1] = link
      BY <3>1
    <3>7. \A i \in 2 .. Len(up) + 1 : Ancestors(x)[i] = up[i - 1]
      BY <3>1
    <3>8. ASSUME NEW i \in 1 .. Len(Path(x)) - 1
          PROVE  /\ Ancestors(x)[i].node = Path(x)[Len(Path(x)) - i + 1]
                 /\ Ancestors(x)[i].parent
                        = parent[Path(x)[Len(Path(x)) - i + 1]]
      <4>1. CASE i = 1
        <5>1. Len(Path(x)) - i + 1 = Len(p) + 1
          BY <3>3, <3>4, <4>1
        <5> QED  BY <3>1, <3>4, <3>6, <4>1, <5>1
      <4>2. CASE i # 1
        <5>1. /\ i \in 2 .. Len(up) + 1 /\ i - 1 \in 1 .. Len(p) - 1
              /\ Len(p) - (i - 1) + 1 = Len(Path(x)) - i + 1
              /\ Len(Path(x)) - i + 1 \in 1 .. Len(p)
          BY <3>2, <3>3, <3>4, <4>2
        <5>2. Ancestors(x)[i] = up[i - 1]
          BY <3>7, <5>1
        <5>3. Path(x)[Len(Path(x)) - i + 1] = p[Len(p) - (i - 1) + 1]
          BY <3>5, <5>1
        <5>4. /\ up[i - 1].node = p[Len(p) - (i - 1) + 1]
              /\ up[i - 1].parent = parent[p[Len(p) - (i - 1) + 1]]
          BY <3>2, <5>1
        <5> QED  BY <5>2, <5>3, <5>4
      <4> QED  BY <4>1, <4>2
    <3>9. Len(Ancestors(x)) = Len(Path(x)) - 1
      BY <3>2, <3>3, <3>4, <3>6
    <3> QED  BY <3>8, <3>9
  <2> QED  BY <2>1, <2>2
<1> HIDE DEF Good
<1>2. Entity \subseteq T
  BY <1>1, FromRootsDown
<1>3. Good(e)
  BY <1>2
<1> QED  BY <1>3, AncestorsEquation DEF Good

\* An ancestor is on the path, before its end.
LEMMA AncestorIsOnPath ==
    ASSUME Sound, NEW a \in Entity, NEW e \in Entity
    PROVE  IsAncestorOf(a, e) <=> \E i \in 1 .. Len(Path(e)) - 1 : Path(e)[i] = a
<1> DEFINE Good(x) ==
              IsAncestorOf(a, x) <=> \E i \in 1 .. Len(Path(x)) - 1 : Path(x)[i] = a
           T == {x \in Entity : Good(x)}
<1>1. ASSUME NEW x \in Entity, parent[x] = Null \/ parent[x] \in T PROVE Good(x)
  <2>1. CASE parent[x] = Null
    <3>1. Path(x) = <<x>> /\ ~IsAncestorOf(a, x)
      BY <2>1, PathEquation, IsAncestorOfEquation
    <3>2. Len(Path(x)) = 1 /\ 1 .. 0 = {}
      BY <3>1
    <3> QED  BY <3>1, <3>2
  <2>2. CASE parent[x] # Null
    <3> DEFINE p == Path(parent[x])
    <3>1. /\ parent[x] \in Entity /\ p \in Seq(Entity) /\ Path(x) = Append(p, x)
          /\ IsAncestorOf(a, x) <=> (parent[x] = a \/ IsAncestorOf(a, parent[x]))
      BY <2>2, PathEquation, IsAncestorOfEquation
    <3>2. IsAncestorOf(a, parent[x]) <=> \E i \in 1 .. Len(p) - 1 : p[i] = a
      BY <1>1, <2>2
    <3>3. Len(p) \in Nat \ {0} /\ p[Len(p)] = parent[x]
      BY <3>1, PathFacts
    <3> HIDE DEF p
    <3>4. Len(Path(x)) - 1 = Len(p) /\ \A i \in 1 .. Len(p) : Path(x)[i] = p[i]
      BY <3>1
    <3>5. 1 .. Len(p) = (1 .. Len(p) - 1) \cup {Len(p)}
      BY <3>3
    <3> QED  BY <3>1, <3>2, <3>3, <3>4, <3>5
  <2> QED  BY <2>1, <2>2
<1> HIDE DEF Good
<1>2. Entity \subseteq T
  BY <1>1, FromRootsDown
<1> QED  BY <1>2 DEF Good

LEMMA QueriesAgreeWhenSound == Sound => QueriesAgree
<1> SUFFICES ASSUME Sound, NEW e \in Entity
             PROVE  LET path == Path(e)
                        climb == Ancestors(e)
                        up(i) == path[Len(path) + 1 - i]
                    IN  /\ Range(path) = AtOrAbove(e)
                        /\ \A i \in 2 .. Len(path) : parent[path[i]] = path[i - 1]
                        /\ \A i \in DOMAIN climb :
                              /\ climb[i].node = up(i)
                              /\ climb[i].parent = parent[up(i)]
                        /\ \A i \in DOMAIN path :
                              parent[up(i)] # Null => i \in DOMAIN climb
                        /\ \A a \in Entity :
                              IsAncestorOf(a, e) <=> a \in Range(Front(path))
  BY DEF QueriesAgree
<1> DEFINE p == Path(e)
           c == Ancestors(e)
<1>1. p \in Seq(Entity) /\ Len(p) \in Nat \ {0}
      /\ \A i \in 2 .. Len(p) : parent[p[i]] = p[i - 1]
  BY PathFacts
<1>2. \A a \in Entity : IsAncestorOf(a, e) <=> \E i \in 1 .. Len(p) - 1 : p[i] = a
  BY AncestorIsOnPath
<1>3. /\ c \in Seq([node : Entity, parent : Entity]) /\ Len(c) = Len(p) - 1
      /\ \A i \in 1 .. Len(p) - 1 :
            c[i].node = p[Len(p) - i + 1] /\ c[i].parent = parent[p[Len(p) - i + 1]]
  BY AncestorsClimbThePath
<1>4. Range(p) = AtOrAbove(e)
  BY PathIsAtOrAbove
<1>5. parent[p[1]] = Null
  BY PathBeginsAtRoot
<1> HIDE DEF p, c
<1>6. Range(Front(p)) = {p[i] : i \in 1 .. Len(p) - 1}
  <2>1. /\ Front(p) \in Seq(Entity) /\ Len(Front(p)) = Len(p) - 1
        /\ \A i \in 1 .. Len(p) - 1 : Front(p)[i] = p[i]
    <3>1. p # <<>>
      BY <1>1, EmptySeq
    <3> QED  BY <1>1, <3>1, FrontProperties
  <2>2. DOMAIN Front(p) = 1 .. Len(p) - 1
    BY <2>1
  <2> QED  BY <2>1, <2>2 DEF Range
<1>7. DOMAIN c = 1 .. Len(p) - 1 /\ DOMAIN p = 1 .. Len(p)
  BY <1>1, <1>3
<1>8. \A i \in DOMAIN p : Len(p) - i + 1 = Len(p) + 1 - i
  BY <1>1, <1>7
<1>9. ASSUME NEW i \in DOMAIN c
      PROVE  c[i].node = p[Len(p) + 1 - i] /\ c[i].parent = parent[p[Len(p) + 1 - i]]
  <2>1. i \in 1 .. Len(p) - 1 /\ i \in DOMAIN p
    BY <1>1, <1>7
  <2> QED  BY <1>3, <1>8, <2>1
\* Only the root has no parent.
<1>10. ASSUME NEW i \in DOMAIN p, parent[p[Len(p) + 1 - i]] # Null
       PROVE  i \in DOMAIN c
  <2>1. Len(p) + 1 - i # 1
    BY <1>5, <1>10
  <2> QED  BY <1>1, <1>7, <2>1
<1>11. \A a \in Entity : IsAncestorOf(a, e) <=> a \in Range(Front(p))
  BY <1>2, <1>6
<1> QED  BY <1>1, <1>4, <1>9, <1>10, <1>11 DEF p, c

\* Whatever forest clients build, the three loops along the parents see the same
\* nodes in the same order: path all that are at or above an entity, ancestors
\* all that have a parent, is_ancestor_of all but the entity.
THEOREM LoopsSeeTheSameNodes == Spec => []QueriesAgree
<1> QED  BY SoundAlways, QueriesAgreeWhenSound, PTL

-----------------------------------------------------------------------------
(* Where paths part *)

\* Shared is the length of the longest common beginning.
LEMMA SharedFacts ==
    ASSUME NEW S, NEW p \in Seq(S), NEW q \in Seq(S)
    PROVE  /\ Shared(p, q) \in Nat
           /\ Shared(p, q) <= Len(p) /\ Shared(p, q) <= Len(q)
           /\ \A i \in 1 .. Shared(p, q) : p[i] = q[i]
           /\ \A k \in Nat : (/\ k <= Len(p) /\ k <= Len(q)
                              /\ \A i \in 1 .. k : p[i] = q[i]) => k <= Shared(p, q)
<1> DEFINE B == {i \in Nat : ~(i <= Len(p) /\ i <= Len(q) /\ p[i] = q[i])}
           same == {i \in DOMAIN p \cap DOMAIN q : \A j \in 1 .. i : p[j] = q[j]}
<1>1. Len(p) \in Nat /\ Len(q) \in Nat
  OBVIOUS
<1>2. PICK i \in 1 .. Len(p) + 1 : /\ \A j \in 1 .. i - 1 : j \notin B
                                   /\ i <= Len(p) => i \in B
  <2> HIDE DEF B
  <2> QED  BY <1>1, FirstIndex
<1>3. /\ i - 1 \in Nat /\ i - 1 <= Len(p)
      /\ \A j \in 1 .. i - 1 : j <= Len(p) /\ j <= Len(q) /\ p[j] = q[j]
  BY <1>1, <1>2
<1>4. i - 1 <= Len(q)
  <2>1. CASE i = 1
    BY <1>1, <2>1
  <2>2. CASE i # 1
    <3>1. i - 1 \in 1 .. i - 1
      BY <1>2, <2>2
    <3> QED  BY <1>3, <3>1
  <2> QED  BY <2>1, <2>2
<1>5. ~(i <= Len(p) /\ i <= Len(q) /\ p[i] = q[i])
  BY <1>1, <1>2
<1>6. DOMAIN p = 1 .. Len(p) /\ DOMAIN q = 1 .. Len(q)
  OBVIOUS
<1>7. ASSUME NEW k \in Nat, k <= Len(p), k <= Len(q), \A j \in 1 .. k : p[j] = q[j]
      PROVE  k <= i - 1
  <2>1. SUFFICES ASSUME k >= i PROVE FALSE
    BY <1>1
  <2>2. i \in 1 .. k /\ i <= Len(p) /\ i <= Len(q)
    BY <1>1, <1>7, <2>1
  <2> QED  BY <1>5, <1>7, <2>2
<1>8. same = 1 .. i - 1
  <2>1. ASSUME NEW j \in 1 .. i - 1 PROVE j \in same
    <3>1. j \in 1 .. Len(p) /\ j \in 1 .. Len(q) /\ \A m \in 1 .. j : m \in 1 .. i - 1
      BY <1>1, <1>3, <1>4
    <3> QED  BY <1>3, <1>6, <3>1
  <2>2. ASSUME NEW j \in same PROVE j \in 1 .. i - 1
    <3>1. /\ j \in Nat /\ 1 <= j /\ j <= Len(p) /\ j <= Len(q)
          /\ \A m \in 1 .. j : p[m] = q[m]
      BY <1>1, <1>6
    <3> QED  BY <1>3, <1>7, <3>1
  <2> QED  BY <2>1, <2>2
<1>9. Shared(p, q) = i - 1
  <2>1. Cardinality(1 .. i - 1) = i - 1
    <3>1. 1 \in Int /\ i - 1 \in Int
      BY <1>3
    <3>2. Cardinality(1 .. i - 1) = IF 1 > i - 1 THEN 0 ELSE (i - 1) - 1 + 1
      BY <3>1, FS_Interval
    <3> QED  BY <1>3, <3>2
  <2> HIDE DEF same
  <2>2. Cardinality(same) = i - 1
    BY <1>8, <2>1
  <2> QED  BY <2>2 DEF Shared, same
<1> HIDE DEF B, same
<1> QED  BY <1>3, <1>4, <1>7, <1>9

\* Paths that have a node in common agree up to there.
LEMMA CommonNodeIsShared ==
    ASSUME Sound, NEW a \in Entity, NEW b \in Entity,
           NEW i \in 1 .. Len(Path(a)), NEW j \in 1 .. Len(Path(b)),
           Path(a)[i] = Path(b)[j]
    PROVE  i = j /\ i <= Shared(Path(a), Path(b))
<1> DEFINE p == Path(a)
           q == Path(b)
<1>1. p \in Seq(Entity) /\ Len(p) \in Nat /\ q \in Seq(Entity) /\ Len(q) \in Nat
  BY PathFacts
<1>2. SubSeq(p, 1, i) = SubSeq(q, 1, j)
  BY PathOfNode
<1> HIDE DEF p, q
<1>3. i \in 1 .. Len(p) /\ j \in 1 .. Len(q)
  BY DEF p, q
<1>4. Len(SubSeq(p, 1, i)) = i /\ Len(SubSeq(q, 1, j)) = j
  BY <1>1, <1>3
<1>5. i = j
  BY <1>2, <1>4
<1>6. ASSUME NEW k \in 1 .. i PROVE p[k] = q[k]
  <2>1. SubSeq(p, 1, i)[k] = p[k] /\ SubSeq(q, 1, j)[k] = q[k]
    BY <1>1, <1>3, <1>5
  <2> QED  BY <1>2, <2>1
<1>7. i <= Shared(p, q)
  <2>1. i \in Nat /\ i <= Len(p) /\ i <= Len(q)
    BY <1>1, <1>3, <1>5
  <2> QED  BY <1>1, <1>6, <2>1, SharedFacts
<1> QED  BY <1>5, <1>7 DEF p, q

\* What is at or above an entity, by its place on the path.
LEMMA AtOrAboveByPlace ==
    ASSUME Sound, NEW e \in Entity
    PROVE  AtOrAbove(e) = {Path(e)[i] : i \in 1 .. Len(Path(e))}
<1>1. Path(e) \in Seq(Entity)
  BY PathFacts
<1>2. DOMAIN Path(e) = 1 .. Len(Path(e))
  BY <1>1
<1>3. Range(Path(e)) = {Path(e)[i] : i \in 1 .. Len(Path(e))}
  BY <1>2 DEF Range
<1> QED  BY <1>3, PathIsAtOrAbove

LEMMA PathsMeetWhenSound == Sound => PathsMeet
<1> SUFFICES ASSUME Sound, NEW a \in Entity, NEW b \in Entity
             PROVE  LET common == AtOrAbove(a) \cap AtOrAbove(b)
                        meet == DeepestCommonAncestor(a, b)
                    IN  IF common = {} THEN meet = Null
                        ELSE meet \in common /\ common \subseteq AtOrAbove(meet)
  BY DEF PathsMeet
<1> DEFINE p == Path(a)
           q == Path(b)
           n == Shared(p, q)
           common == AtOrAbove(a) \cap AtOrAbove(b)
           meet == DeepestCommonAncestor(a, b)
<1>1. p \in Seq(Entity) /\ Len(p) \in Nat /\ q \in Seq(Entity) /\ Len(q) \in Nat
  BY PathFacts
<1>2. n \in Nat /\ n <= Len(p) /\ n <= Len(q) /\ \A i \in 1 .. n : p[i] = q[i]
  <2> HIDE DEF p, q
  <2> QED  BY <1>1, SharedFacts
<1>3. meet = IF n = 0 THEN Null ELSE p[n]
  BY DEF DeepestCommonAncestor
<1>4. AtOrAbove(a) = {p[i] : i \in 1 .. Len(p)} /\ AtOrAbove(b) = {q[i] : i \in 1 .. Len(q)}
  BY AtOrAboveByPlace
<1>5. ASSUME NEW x \in common PROVE \E i \in 1 .. n : x = p[i]
  <2>1. PICK i \in 1 .. Len(p), j \in 1 .. Len(q) : x = p[i] /\ x = q[j]
    BY <1>4
  <2>2. i <= n
    BY <2>1, CommonNodeIsShared
  <2> HIDE DEF p, q, n
  <2>3. i \in 1 .. n
    BY <1>1, <1>2, <2>2
  <2> QED  BY <2>1, <2>3
<1>6. ASSUME n # 0
      PROVE  /\ p[n] \in common
             /\ AtOrAbove(p[n]) = {p[i] : i \in 1 .. n}
  <2>1. n \in 1 .. Len(p) /\ n \in 1 .. Len(q) /\ p[n] = q[n]
    BY <1>1, <1>2, <1>6
  <2>2. p[n] \in Entity /\ Path(p[n]) = SubSeq(p, 1, n)
    BY <2>1, PathOfNode
  <2>3. AtOrAbove(p[n]) = {Path(p[n])[i] : i \in 1 .. Len(Path(p[n]))}
    BY <2>2, AtOrAboveByPlace
  <2> HIDE DEF p, q, n
  <2>4. Len(SubSeq(p, 1, n)) = n /\ \A i \in 1 .. n : SubSeq(p, 1, n)[i] = p[i]
    BY <1>1, <2>1
  <2>5. AtOrAbove(p[n]) = {p[i] : i \in 1 .. n}
    BY <2>2, <2>3, <2>4
  <2>6. p[n] \in common
    BY <1>4, <2>1
  <2> QED  BY <2>5, <2>6
<1> HIDE DEF p, q, n, common, meet
<1>7. common = {} => meet = Null
  BY <1>3, <1>6
<1>8. common # {} => meet \in common /\ common \subseteq AtOrAbove(meet)
  <2> SUFFICES ASSUME common # {} PROVE meet \in common /\ common \subseteq AtOrAbove(meet)
    OBVIOUS
  <2>1. n # 0
    BY <1>5
  <2> QED  BY <1>3, <1>5, <1>6, <2>1
<1> QED  BY <1>7, <1>8 DEF common, meet

\* deepest_common_ancestor is the deepest, and only nodes of different trees
\* have none.
THEOREM DeepestIsDeepest == Spec => []PathsMeet
<1> QED  BY SoundAlways, PathsMeetWhenSound, PTL

-----------------------------------------------------------------------------
(* Products along paths *)

LEMMA LocalIsMotion ==
    ASSUME Sound, NEW e \in Entity
    PROVE  Local(e) \in Motion
<1> QED  BY XfAssumption, GroupAssumption DEF Local, Sound, TypeOK

\* The products of all beginnings of s.
Products(u, s) ==
    /\ u \in [0 .. Len(s) -> Motion]
    /\ u[0] = Identity
    /\ \A i \in 1 .. Len(s) : u[i] = Times(u[i - 1], Local(s[i]))

LEMMA ChainProducts ==
    ASSUME Sound, NEW s \in Seq(Entity)
    PROVE  \E u : Products(u, s) /\ Chain(s) = u[Len(s)]
<1> DEFINE n == Len(s)
           val(g, i) == IF i = 0 THEN Identity ELSE Times(g[i - 1], Local(s[i]))
           next == [kv \in Nat \X Motion |->
                       IF kv[1] < n THEN Times(kv[2], Local(s[kv[1] + 1])) ELSE Identity]
           upTo == CHOOSE upTo : upTo = [i \in 0 .. n |-> val(upTo, i)]
<1>1. n \in Nat /\ \A i \in 1 .. n : s[i] \in Entity /\ Local(s[i]) \in Motion
  <2>1. n \in Nat /\ \A i \in 1 .. n : s[i] \in Entity
    BY ElementOfSeq
  <2> QED  BY <2>1, LocalIsMotion
<1>2. next \in [Nat \X Motion -> Motion]
  <2>1. ASSUME NEW kv \in Nat \X Motion
        PROVE  (IF kv[1] < n THEN Times(kv[2], Local(s[kv[1] + 1])) ELSE Identity)
                  \in Motion
    <3>1. kv[1] < n => kv[1] + 1 \in 1 .. n
      BY <1>1
    <3> QED  BY <1>1, <3>1, GroupAssumption
  <2> QED  BY <2>1
<1>3. PICK g : Iterates(g, Motion, Identity, next)
  <2> HIDE DEF next
  <2> QED  BY <1>2, NumberRecursion, GroupAssumption
<1> DEFINE h == [i \in 0 .. n |-> g[i]]
<1>4. \A i \in 0 .. n : g[i] = val(g, i)
  <2> SUFFICES ASSUME NEW i \in 0 .. n, i # 0
               PROVE  g[i] = Times(g[i - 1], Local(s[i]))
    BY <1>3 DEF Iterates
  <2>1. i - 1 \in Nat /\ i - 1 < n /\ (i - 1) + 1 = i
    BY <1>1
  <2>2. g[i] = next[<<i - 1, g[i - 1]>>] /\ g[i - 1] \in Motion
    BY <1>3, <2>1 DEF Iterates
  <2> QED  BY <2>1, <2>2
<1>5. h = [i \in 0 .. n |-> val(h, i)]
  <2>1. \A i \in 0 .. n : h[i] = val(h, i)
    <3> SUFFICES ASSUME NEW i \in 0 .. n PROVE h[i] = val(h, i)
      OBVIOUS
    <3>1. i # 0 => i - 1 \in 0 .. n
      BY <1>1
    <3>2. i # 0 => h[i - 1] = g[i - 1]
      BY <3>1
    <3>3. h[i] = g[i] /\ g[i] = val(g, i)
      BY <1>4
    <3> HIDE DEF h
    <3> QED  BY <3>2, <3>3
  <2> HIDE DEF val
  <2> QED  BY <2>1
<1>6. upTo = [i \in 0 .. n |-> val(upTo, i)]
  <2> HIDE DEF val, h
  <2> QED  BY <1>5
<1> HIDE DEF upTo, h, next
<1>7. \A i \in 0 .. n : upTo[i] = val(upTo, i)
  <2> HIDE DEF val
  <2> QED  BY <1>6
<1>8. Chain(s) = upTo[n]
  BY DEF Chain, upTo
<1>9. \A i \in 0 .. n : upTo[i] \in Motion
  <2> DEFINE T == {i \in Nat : i <= n => upTo[i] \in Motion}
  <2>1. 0 \in T
    BY <1>1, <1>7, GroupAssumption
  <2>2. ASSUME NEW i \in Nat, i \in T PROVE i + 1 \in T
    <3> SUFFICES ASSUME i + 1 <= n PROVE upTo[i + 1] \in Motion
      OBVIOUS
    <3>1. i + 1 \in 1 .. n /\ i <= n /\ (i + 1) - 1 = i /\ i + 1 # 0 /\ i + 1 \in 0 .. n
      BY <1>1
    <3>2. upTo[i + 1] = Times(upTo[i], Local(s[i + 1])) /\ upTo[i] \in Motion
      BY <1>7, <2>2, <3>1
    <3> QED  BY <1>1, <3>1, <3>2, GroupAssumption
  <2> HIDE DEF T
  <2>3. Nat \subseteq T
    BY <2>1, <2>2, NumbersBySteps
  <2> QED  BY <1>1, <2>3 DEF T
<1>10. Products(upTo, s)
  <2>1. upTo \in [0 .. n -> Motion]
    <3> HIDE DEF val
    <3> QED  BY <1>6, <1>9
  <2>2. upTo[0] = Identity
    BY <1>1, <1>7
  <2>3. \A i \in 1 .. n : i \in 0 .. n /\ i # 0
    BY <1>1
  <2> QED  BY <1>7, <2>1, <2>2, <2>3 DEF Products
<1> QED  BY <1>8, <1>10

\* The products of two sequences are the same as long as these are.
LEMMA ProductsAgree ==
    ASSUME NEW s \in Seq(Entity), NEW t \in Seq(Entity), NEW u, NEW w,
           Products(u, s), Products(w, t),
           NEW k \in Nat, k <= Len(s), k <= Len(t), \A i \in 1 .. k : s[i] = t[i]
    PROVE  u[k] = w[k]
<1> DEFINE T == {i \in Nat : i <= k => u[i] = w[i]}
<1>0. Len(s) \in Nat /\ Len(t) \in Nat
  OBVIOUS
<1>1. 0 \in T
  BY DEF Products
<1>2. ASSUME NEW i \in Nat, i \in T PROVE i + 1 \in T
  <2> SUFFICES ASSUME i + 1 <= k PROVE u[i + 1] = w[i + 1]
    OBVIOUS
  <2>1. /\ i + 1 \in 1 .. k /\ i + 1 \in 1 .. Len(s) /\ i + 1 \in 1 .. Len(t)
        /\ (i + 1) - 1 = i /\ i <= k
    BY <1>0
  <2>2. u[i + 1] = Times(u[i], Local(s[i + 1])) /\ w[i + 1] = Times(w[i], Local(t[i + 1]))
    BY <2>1 DEF Products
  <2> QED  BY <1>2, <2>1, <2>2
<1> HIDE DEF T
<1>3. Nat \subseteq T
  BY <1>1, <1>2, NumbersBySteps
<1> QED  BY <1>3 DEF T

LEMMA ChainOfNone ==
    ASSUME Sound
    PROVE  Chain(<<>>) = Identity
<1>1. <<>> \in Seq(Entity) /\ Len(<<>>) = 0
  OBVIOUS
<1>2. PICK u : Products(u, <<>>) /\ Chain(<<>>) = u[Len(<<>>)]
  BY <1>1, ChainProducts
<1> QED  BY <1>1, <1>2 DEF Products

LEMMA ChainIsMotion ==
    ASSUME Sound, NEW s \in Seq(Entity)
    PROVE  Chain(s) \in Motion
<1>1. PICK u : Products(u, s) /\ Chain(s) = u[Len(s)]
  BY ChainProducts
<1>2. Len(s) \in 0 .. Len(s)
  OBVIOUS
<1> QED  BY <1>1, <1>2 DEF Products

LEMMA ChainOfMore ==
    ASSUME Sound, NEW s \in Seq(Entity), NEW x \in Entity
    PROVE  Chain(Append(s, x)) = Times(Chain(s), Local(x))
<1> DEFINE t == Append(s, x)
<1>1. /\ t \in Seq(Entity) /\ Len(s) \in Nat /\ Len(t) = Len(s) + 1
      /\ t[Len(s) + 1] = x /\ \A i \in 1 .. Len(s) : t[i] = s[i]
  OBVIOUS
<1> HIDE DEF t
<1>2. PICK u : Products(u, s) /\ Chain(s) = u[Len(s)]
  BY ChainProducts
<1>3. PICK w : Products(w, t) /\ Chain(t) = w[Len(t)]
  BY <1>1, ChainProducts
<1>4. w[Len(s)] = u[Len(s)]
  <2>1. Len(s) <= Len(s) /\ Len(s) <= Len(t)
    BY <1>1
  <2> QED  BY <1>1, <1>2, <1>3, <2>1, ProductsAgree
<1>5. w[Len(s) + 1] = Times(w[Len(s)], Local(x))
  <2>1. Len(s) + 1 \in 1 .. Len(t) /\ (Len(s) + 1) - 1 = Len(s)
    BY <1>1
  <2> QED  BY <1>1, <1>3, <2>1 DEF Products
<1> QED  BY <1>1, <1>2, <1>3, <1>4, <1>5 DEF t

\* A product can be taken in two parts.
LEMMA ChainSplits ==
    ASSUME Sound, NEW s \in Seq(Entity), NEW n \in 0 .. Len(s)
    PROVE  /\ SubSeq(s, 1, n) \in Seq(Entity) /\ Beneath(s, n) \in Seq(Entity)
           /\ Chain(s) = Times(Chain(SubSeq(s, 1, n)), Chain(Beneath(s, n)))
<1> DEFINE Part(k) == SubSeq(s, n + 1, k)
           T == {m \in Nat : n + m <= Len(s) =>
                    Chain(SubSeq(s, 1, n + m))
                        = Times(Chain(SubSeq(s, 1, n)), Chain(Part(n + m)))}
<1>1. Len(s) \in Nat /\ n \in Nat /\ n <= Len(s)
  OBVIOUS
<1>2. \A k \in 0 .. Len(s) : SubSeq(s, 1, k) \in Seq(Entity)
  OBVIOUS
<1>3. \A k \in n .. Len(s) : Part(k) \in Seq(Entity)
  OBVIOUS
<1>4. ASSUME NEW k \in n .. Len(s) - 1
      PROVE  /\ s[k + 1] \in Entity
             /\ SubSeq(s, 1, k + 1) = Append(SubSeq(s, 1, k), s[k + 1])
             /\ Part(k + 1) = Append(Part(k), s[k + 1])
  <2>1. k \in Nat /\ k + 1 \in 1 .. Len(s)
    BY <1>1
  <2>2. s[k + 1] \in Entity
    BY <2>1, ElementOfSeq
  <2>3. SubSeq(s, 1, k + 1) = Append(SubSeq(s, 1, k), s[k + 1])
    BY <2>1, <2>2
  <2>4. SubSeq(s, n + 1, k + 1) = Append(SubSeq(s, n + 1, k), s[k + 1])
    BY <1>1, <2>1, <2>2
  <2> QED  BY <2>2, <2>3, <2>4
<1>5. Part(n) = <<>>
  BY <1>1
<1> HIDE DEF Part
<1>6. 0 \in T
  <2>1. n + 0 = n /\ SubSeq(s, 1, n) \in Seq(Entity)
    BY <1>1, <1>2
  <2>2. Times(Chain(SubSeq(s, 1, n)), Chain(Part(n))) = Chain(SubSeq(s, 1, n))
    BY <1>5, <2>1, ChainIsMotion, ChainOfNone, GroupAssumption
  <2> QED  BY <2>1, <2>2
<1>7. ASSUME NEW m \in Nat, m \in T PROVE m + 1 \in T
  <2> SUFFICES ASSUME n + (m + 1) <= Len(s)
               PROVE  Chain(SubSeq(s, 1, n + (m + 1)))
                        = Times(Chain(SubSeq(s, 1, n)), Chain(Part(n + (m + 1))))
    OBVIOUS
  <2>1. /\ n + m \in n .. Len(s) - 1 /\ n + (m + 1) = (n + m) + 1 /\ n + m <= Len(s)
        /\ n + m \in 0 .. Len(s) /\ n + m \in n .. Len(s) /\ n \in 0 .. Len(s)
    BY <1>1
  <2> DEFINE k == n + m
             x == s[k + 1]
             A == Chain(SubSeq(s, 1, n))
             B == Chain(Part(k))
  <2>2. Chain(SubSeq(s, 1, k)) = Times(A, B)
    BY <1>7, <2>1
  <2>3. x \in Entity /\ Local(x) \in Motion
    BY <1>4, <2>1, LocalIsMotion
  <2>4. /\ Chain(SubSeq(s, 1, k + 1)) = Times(Chain(SubSeq(s, 1, k)), Local(x))
        /\ Chain(Part(k + 1)) = Times(B, Local(x)) /\ B \in Motion /\ A \in Motion
    <3>1. SubSeq(s, 1, k) \in Seq(Entity) /\ Part(k) \in Seq(Entity)
          /\ SubSeq(s, 1, n) \in Seq(Entity)
      BY <1>2, <1>3, <2>1
    <3>2. /\ SubSeq(s, 1, k + 1) = Append(SubSeq(s, 1, k), x)
          /\ Part(k + 1) = Append(Part(k), x)
      BY <1>4, <2>1
    <3> HIDE DEF x, k
    <3> QED  BY <2>3, <3>1, <3>2, ChainOfMore, ChainIsMotion
  <2>5. Times(Times(A, B), Local(x)) = Times(A, Times(B, Local(x)))
    <3> HIDE DEF A, B, x
    <3> QED  BY <2>3, <2>4, GroupAssumption
  <2> HIDE DEF A, B, x
  <2> QED  BY <2>1, <2>2, <2>4, <2>5 DEF A
<1> HIDE DEF T
<1>8. Nat \subseteq T
  BY <1>6, <1>7, NumbersBySteps
<1>9. Len(s) - n \in Nat /\ n + (Len(s) - n) = Len(s) /\ Len(s) \in n .. Len(s)
  BY <1>1
<1>10. Chain(SubSeq(s, 1, Len(s)))
          = Times(Chain(SubSeq(s, 1, n)), Chain(Part(Len(s))))
  <2> DEFINE m == Len(s) - n
  <2>1. m \in T /\ n + m = Len(s) /\ n + m <= Len(s)
    BY <1>1, <1>8, <1>9
  <2> HIDE DEF m
  <2> QED  BY <2>1 DEF T
<1>11. SubSeq(s, 1, Len(s)) = s
  OBVIOUS
<1> QED  BY <1>2, <1>3, <1>9, <1>10, <1>11 DEF Beneath, Part

-----------------------------------------------------------------------------
(* Transforms along paths agree *)

\* object_to_world multiplies from the entity upwards and gets the same as going
\* down the path.
LEMMA WorldIsChain ==
    ASSUME Sound, NEW e \in Entity
    PROVE  ObjectToWorld(e) = Chain(Path(e))
<1> DEFINE p == Path(e)
           n == Len(p)
           climb == Reverse(p)
           val(g, i) == IF i = 0 THEN Identity ELSE Times(Local(climb[i]), g[i - 1])
           next == [kv \in Nat \X Motion |->
                       IF kv[1] < n THEN Times(Local(climb[kv[1] + 1]), kv[2])
                                    ELSE Identity]
           upTo == CHOOSE upTo : upTo = [i \in 0 .. Len(climb) |-> val(upTo, i)]
<1>1. p \in Seq(Entity) /\ n \in Nat
  BY PathFacts
<1> HIDE DEF p
<1>2. Len(climb) = n /\ \A i \in 1 .. n : climb[i] = p[(n - i) + 1]
  BY <1>1 DEF Reverse
<1>3. \A i \in 1 .. n : climb[i] \in Entity /\ Local(climb[i]) \in Motion
  <2>1. ASSUME NEW i \in 1 .. n PROVE climb[i] \in Entity
    <3>1. (n - i) + 1 \in 1 .. n
      BY <1>1
    <3> QED  BY <1>1, <1>2, <3>1, ElementOfSeq
  <2> QED  BY <2>1, LocalIsMotion
<1> HIDE DEF n, climb
<1>4. next \in [Nat \X Motion -> Motion]
  <2>1. ASSUME NEW kv \in Nat \X Motion
        PROVE  (IF kv[1] < n THEN Times(Local(climb[kv[1] + 1]), kv[2]) ELSE Identity)
                  \in Motion
    <3>1. kv[1] < n => kv[1] + 1 \in 1 .. n
      BY <1>1
    <3> QED  BY <1>3, <3>1, GroupAssumption
  <2> QED  BY <2>1
<1>5. PICK g : Iterates(g, Motion, Identity, next)
  <2> HIDE DEF next
  <2> QED  BY <1>4, NumberRecursion, GroupAssumption
<1> DEFINE h == [i \in 0 .. n |-> g[i]]
<1>6. \A i \in 0 .. n : g[i] = val(g, i)
  <2> SUFFICES ASSUME NEW i \in 0 .. n, i # 0
               PROVE  g[i] = Times(Local(climb[i]), g[i - 1])
    BY <1>5 DEF Iterates
  <2>1. i - 1 \in Nat /\ i - 1 < n /\ (i - 1) + 1 = i
    BY <1>1
  <2>2. g[i] = next[<<i - 1, g[i - 1]>>] /\ g[i - 1] \in Motion
    BY <1>5, <2>1 DEF Iterates
  <2> QED  BY <2>1, <2>2
<1>7. h = [i \in 0 .. Len(climb) |-> val(h, i)]
  <2>1. \A i \in 0 .. n : h[i] = val(h, i)
    <3> SUFFICES ASSUME NEW i \in 0 .. n PROVE h[i] = val(h, i)
      OBVIOUS
    <3>1. i # 0 => i - 1 \in 0 .. n
      BY <1>1
    <3>2. i # 0 => h[i - 1] = g[i - 1]
      BY <3>1
    <3>3. h[i] = g[i] /\ g[i] = val(g, i)
      BY <1>6
    <3> HIDE DEF h
    <3> QED  BY <3>2, <3>3
  <2> HIDE DEF val
  <2> QED  BY <1>2, <2>1
<1>8. upTo = [i \in 0 .. Len(climb) |-> val(upTo, i)]
  <2> HIDE DEF val, h
  <2> QED  BY <1>7
<1> HIDE DEF upTo, h, next
<1>9. \A i \in 0 .. n : upTo[i] = val(upTo, i)
  <2> HIDE DEF val
  <2> QED  BY <1>2, <1>8
<1>10. ObjectToWorld(e) = upTo[n]
  BY <1>2 DEF ObjectToWorld, upTo, climb, p
<1> DEFINE T == {i \in Nat : i <= n =>
                   /\ upTo[i] \in Motion
                   /\ Times(Chain(SubSeq(p, 1, n - i)), upTo[i]) = Chain(p)}
<1>11. 0 \in T
  <2>1. n - 0 = n /\ 0 \in 0 .. n
    BY <1>1
  <2>2. SubSeq(p, 1, n) = p
    BY <1>1 DEF n
  <2>3. upTo[0] = Identity
    BY <1>9, <2>1
  <2>4. Times(Chain(p), Identity) = Chain(p)
    BY <1>1, ChainIsMotion, GroupAssumption
  <2> QED  BY <2>1, <2>2, <2>3, <2>4, GroupAssumption
<1>12. ASSUME NEW i \in Nat, i \in T PROVE i + 1 \in T
  <2> SUFFICES ASSUME i + 1 <= n
               PROVE  /\ upTo[i + 1] \in Motion
                      /\ Times(Chain(SubSeq(p, 1, n - (i + 1))), upTo[i + 1]) = Chain(p)
    OBVIOUS
  <2> DEFINE k == n - (i + 1)
             A == Chain(SubSeq(p, 1, k))
             x == climb[i + 1]
  <2>1. /\ i + 1 \in 1 .. n /\ i + 1 \in 0 .. n /\ i + 1 # 0 /\ (i + 1) - 1 = i
        /\ i <= n /\ k \in Nat /\ k + 1 = n - i /\ (n - (i + 1)) + 1 = k + 1
        /\ k + 1 \in 1 .. n
    BY <1>1
  <2>2. /\ upTo[i] \in Motion
        /\ Times(Chain(SubSeq(p, 1, k + 1)), upTo[i]) = Chain(p)
    BY <1>12, <2>1
  <2>3. x = p[k + 1] /\ x \in Entity /\ Local(x) \in Motion
    BY <1>2, <1>3, <2>1
  <2>4. upTo[i + 1] = Times(Local(x), upTo[i])
    BY <1>9, <2>1
  <2>5. SubSeq(p, 1, k) \in Seq(Entity) /\ SubSeq(p, 1, k + 1) = Append(SubSeq(p, 1, k), x)
    <3> HIDE DEF k, x
    <3> QED  BY <1>1, <2>1, <2>3 DEF n
  <2> HIDE DEF k, x
  <2>6. Chain(SubSeq(p, 1, k + 1)) = Times(A, Local(x)) /\ A \in Motion
    BY <2>3, <2>5, ChainOfMore, ChainIsMotion
  <2> HIDE DEF A
  <2>7. /\ Times(Times(A, Local(x)), upTo[i]) = Times(A, Times(Local(x), upTo[i]))
        /\ Times(Local(x), upTo[i]) \in Motion
    <3> DEFINE L == Local(x)
               u == upTo[i]
    <3>1. A \in Motion /\ L \in Motion /\ u \in Motion
      BY <2>2, <2>3, <2>6
    <3> HIDE DEF L, u
    <3>2. Times(Times(A, L), u) = Times(A, Times(L, u)) /\ Times(L, u) \in Motion
      BY <3>1, GroupAssumption
    <3> QED  BY <3>2 DEF L, u
  <2> QED  BY <2>2, <2>4, <2>6, <2>7 DEF A, k
<1> HIDE DEF T
<1>13. n \in T
  BY <1>1, <1>11, <1>12, NumbersBySteps
<1>14. /\ upTo[n] \in Motion
       /\ Times(Chain(SubSeq(p, 1, 0)), upTo[n]) = Chain(p)
  <2>1. n <= n /\ n - n = 0
    BY <1>1
  <2> QED  BY <1>13, <2>1 DEF T
<1>15. SubSeq(p, 1, 0) = <<>>
  BY <1>1
<1>16. upTo[n] = Chain(p)
  BY <1>14, <1>15, ChainOfNone, GroupAssumption
<1> QED  BY <1>10, <1>16 DEF p

LEMMA XfBetweenWhenSound == Sound => XfBetweenIsExact
<1> SUFFICES ASSUME Sound, NEW a \in Entity, NEW b \in Entity
             PROVE  Times(ObjectToWorld(b), XfBetween(a, b)) = ObjectToWorld(a)
  BY DEF XfBetweenIsExact
<1> DEFINE p == Path(a)
           q == Path(b)
           n == Shared(p, q)
           A == Chain(SubSeq(p, 1, n))
           X == Chain(Beneath(p, n))
           Y == Chain(Beneath(q, n))
<1>1. p \in Seq(Entity) /\ Len(p) \in Nat /\ q \in Seq(Entity) /\ Len(q) \in Nat
  BY PathFacts
<1>2. ObjectToWorld(a) = Chain(p) /\ ObjectToWorld(b) = Chain(q)
  BY WorldIsChain
<1>3. XfBetween(a, b) = Times(Undo(Y), X)
  BY DEF XfBetween, Over
<1> HIDE DEF p, q
<1>4. n \in Nat /\ n <= Len(p) /\ n <= Len(q) /\ \A i \in 1 .. n : p[i] = q[i]
  BY <1>1, SharedFacts
<1> HIDE DEF n
<1>5. SubSeq(p, 1, n) = SubSeq(q, 1, n)
  BY <1>1, <1>4
<1>6. /\ SubSeq(p, 1, n) \in Seq(Entity)
      /\ Beneath(p, n) \in Seq(Entity) /\ Chain(p) = Times(A, X)
      /\ Beneath(q, n) \in Seq(Entity) /\ Chain(q) = Times(A, Y)
  <2>1. n \in 0 .. Len(p) /\ n \in 0 .. Len(q)
    BY <1>1, <1>4
  <2> QED  BY <1>1, <1>5, <2>1, ChainSplits
<1>7. A \in Motion /\ X \in Motion /\ Y \in Motion
  BY <1>6, ChainIsMotion
<1> HIDE DEF A, X, Y
<1>8. Times(Times(A, Y), Times(Undo(Y), X)) = Times(A, X)
  <2>1. Undo(Y) \in Motion /\ Times(Undo(Y), X) \in Motion
    BY <1>7, GroupAssumption
  <2>2. Times(Times(A, Y), Times(Undo(Y), X)) = Times(A, Times(Y, Times(Undo(Y), X)))
    BY <1>7, <2>1, GroupAssumption
  <2>3. Times(Y, Times(Undo(Y), X)) = Times(Times(Y, Undo(Y)), X)
    BY <1>7, <2>1, GroupAssumption
  <2>4. Times(Times(Y, Undo(Y)), X) = X
    BY <1>7, GroupAssumption
  <2> QED  BY <2>2, <2>3, <2>4
<1> QED  BY <1>2, <1>3, <1>6, <1>8

\* xf_between leads where the way over the world would.
THEOREM BetweenIsOverTheWorld == Spec => []XfBetweenIsExact
<1> QED  BY SoundAlways, XfBetweenWhenSound, PTL

-----------------------------------------------------------------------------
(* Traversals *)

\* Below a root, the path goes through the root.
LEMMA BelowRoot ==
    ASSUME Sound, NEW r \in Entity, NEW x \in Entity,
           x # r, IsAncestorOf(r, x)
    PROVE  /\ parent[x] \in Entity
           /\ parent[x] = r \/ IsAncestorOf(r, parent[x])
           /\ Path(parent[x]) \in Seq(Entity)
           /\ Path(x) = Append(Path(parent[x]), x)
           /\ Len(Path(r)) <= Len(Path(parent[x]))
<1>1. /\ parent[x] # Null
      /\ parent[x] = r \/ IsAncestorOf(r, parent[x])
  BY IsAncestorOfEquation
<1>2. /\ parent[x] \in Entity /\ Path(parent[x]) \in Seq(Entity)
      /\ Path(x) = Append(Path(parent[x]), x)
  BY <1>1, PathEquation
<1>3. Len(Path(r)) <= Len(Path(parent[x]))
  <2>1. CASE parent[x] = r
    BY <2>1, PathFacts
  <2>2. CASE IsAncestorOf(r, parent[x])
    <3> DEFINE q == Path(parent[x])
    <3>1. PICK i \in 1 .. Len(q) - 1 : q[i] = r
      BY <1>2, <2>2, AncestorIsOnPath
    <3>2. q \in Seq(Entity) /\ Len(q) \in Nat /\ i \in 1 .. Len(q)
      BY <1>2
    <3>3. Path(r) = SubSeq(q, 1, i)
      BY <1>2, <3>1, <3>2, PathOfNode
    <3> HIDE DEF q
    <3>4. Len(Path(r)) = i
      BY <3>2, <3>3
    <3> QED  BY <3>2, <3>4 DEF q
  <2> QED  BY <1>1, <2>1, <2>2
<1> QED  BY <1>1, <1>2, <1>3

\* What a traversal accumulates is the product along the path below its root.
LEMMA NodeToRootIsChain ==
    ASSUME Sound, NEW r \in Entity, NEW e \in Entity,
           e = r \/ IsAncestorOf(r, e)
    PROVE  NodeToRoot(r, e) = Chain(Beneath(Path(e), Len(Path(r))))
<1> DEFINE D == {x \in Entity : x = r \/ IsAncestorOf(r, x)}
           k == Len(Path(r))
           rest(x) == Beneath(Path(x), k)
           val(g, x) == IF x = r THEN AtTraversalRoot(r)
                        ELSE Times(g[parent[x]], Local(x))
           h == [x \in D |-> Chain(rest(x))]
           down == CHOOSE down : down = [x \in D |-> val(down, x)]
<1>1. Chain(rest(r)) = AtTraversalRoot(r)
  <2>1. Path(r) \in Seq(Entity) /\ k \in Nat
    BY PathFacts
  <2>2. SubSeq(Path(r), k + 1, k) = <<>>
    BY <2>1
  <2> QED  BY <2>2, ChainOfNone DEF Beneath, AtTraversalRoot
<1>2. ASSUME NEW x \in D, x # r
      PROVE  parent[x] \in D /\ Chain(rest(x)) = Times(Chain(rest(parent[x])), Local(x))
  <2> DEFINE q == Path(parent[x])
  <2>1. /\ x \in Entity /\ parent[x] \in D /\ q \in Seq(Entity)
        /\ Path(x) = Append(q, x) /\ k <= Len(q)
    BY <1>2, BelowRoot
  <2>2. k \in Nat
    BY PathFacts
  <2> HIDE DEF q, k
  <2>3. /\ Len(q) \in Nat /\ Len(Append(q, x)) = Len(q) + 1
        /\ SubSeq(q, k + 1, Len(q)) \in Seq(Entity)
    BY <2>1, <2>2
  <2>4. SubSeq(Append(q, x), k + 1, Len(q) + 1) = Append(SubSeq(q, k + 1, Len(q)), x)
    BY <2>1, <2>2, <2>3
  <2>5. Beneath(Path(x), k) = Append(Beneath(q, k), x) /\ Beneath(q, k) \in Seq(Entity)
    BY <2>1, <2>3, <2>4 DEF Beneath
  <2>6. Chain(Beneath(Path(x), k)) = Times(Chain(Beneath(q, k)), Local(x))
    BY <2>1, <2>5, ChainOfMore
  <2> QED  BY <2>1, <2>6 DEF q
<1> HIDE DEF rest
<1>3. h = [x \in D |-> val(h, x)]
  <2>1. ASSUME NEW x \in D PROVE h[x] = val(h, x)
    <3>1. CASE x = r
      BY <1>1, <3>1
    <3>2. CASE x # r
      <4>1. h[parent[x]] = Chain(rest(parent[x])) /\ h[x] = Chain(rest(x))
        BY <1>2, <3>2
      <4> QED  BY <1>2, <3>2, <4>1
    <3> QED  BY <3>1, <3>2
  <2> HIDE DEF val, D
  <2> QED  BY <2>1
<1>4. down = [x \in D |-> val(down, x)]
  <2> HIDE DEF val, h, D
  <2> QED  BY <1>3
<1> HIDE DEF down, h
<1>5. \A x \in D : down[x] = val(down, x)
  <2> HIDE DEF val, D
  <2> QED  BY <1>4
<1>6. NodeToRoot(r, e) = down[e]
  BY DEF NodeToRoot, down
<1> DEFINE T == {x \in Entity : x \in D => down[x] = Chain(rest(x))}
<1>7. ASSUME NEW x \in Entity, parent[x] = Null \/ parent[x] \in T PROVE x \in T
  <2> SUFFICES ASSUME x \in D PROVE down[x] = Chain(rest(x))
    OBVIOUS
  <2>1. CASE x = r
    BY <1>1, <1>5, <2>1
  <2>2. CASE x # r
    <3>1. parent[x] \in D /\ parent[x] # Null
      BY <1>2, <2>2, EntityAssumption
    <3>2. down[parent[x]] = Chain(rest(parent[x]))
      BY <1>7, <3>1
    <3> QED  BY <1>2, <1>5, <2>2, <3>2
  <2> QED  BY <2>1, <2>2
<1>8. Entity \subseteq T
  <2> HIDE DEF T
  <2> QED  BY <1>7, FromRootsDown
<1>9. e \in D
  OBVIOUS
<1>10. down[e] = Chain(rest(e))
  BY <1>8, <1>9
<1> QED  BY <1>6, <1>10 DEF rest

LEMMA NodeToRootWhenSound == Sound => NodeToRootAgrees
<1> SUFFICES ASSUME Sound, NEW r \in Entity, NEW e \in Entity, r \in AtOrAbove(e)
             PROVE  NodeToRoot(r, e) = XfBetween(e, r)
  BY DEF NodeToRootAgrees
<1> DEFINE p == Path(e)
           q == Path(r)
           k == Len(q)
<1>1. p \in Seq(Entity) /\ Len(p) \in Nat /\ q \in Seq(Entity) /\ k \in Nat
      /\ p[Len(p)] = e
  BY PathFacts
<1>2. PICK i \in 1 .. Len(p) : r = p[i]
  BY AtOrAboveByPlace
<1>3. q = SubSeq(p, 1, i)
  BY <1>2, PathOfNode
<1>4. e = r \/ IsAncestorOf(r, e)
  <2>1. CASE i = Len(p)
    BY <1>1, <1>2, <2>1
  <2>2. CASE i # Len(p)
    <3>1. i \in 1 .. Len(p) - 1
      BY <1>1, <2>2
    <3>2. IsAncestorOf(r, e)
      BY <1>2, <3>1, AncestorIsOnPath
    <3> QED  BY <3>2
  <2> QED  BY <2>1, <2>2
<1>5. NodeToRoot(r, e) = Chain(Beneath(p, k))
  BY <1>4, NodeToRootIsChain
<1> HIDE DEF p, q
<1>6. k = i /\ \A j \in 1 .. k : p[j] = q[j]
  BY <1>1, <1>3
<1>7. Shared(p, q) = k
  <2>1. k <= Len(p) /\ k <= Len(q)
    BY <1>1, <1>6
  <2>2. k <= Shared(p, q) /\ Shared(p, q) <= k /\ Shared(p, q) \in Nat
    BY <1>1, <1>6, <2>1, SharedFacts
  <2> QED  BY <1>1, <2>2
<1>8. XfBetween(e, r) = Times(Undo(Chain(Beneath(q, k))), Chain(Beneath(p, k)))
  BY <1>7 DEF XfBetween, Over, p, q
<1>9. Chain(Beneath(q, k)) = Identity
  <2>1. SubSeq(q, k + 1, Len(q)) = <<>>
    BY <1>1
  <2> QED  BY <2>1, ChainOfNone DEF Beneath
<1>10. Chain(Beneath(p, k)) \in Motion
  <2>1. SubSeq(p, k + 1, Len(p)) \in Seq(Entity)
    BY <1>1
  <2> QED  BY <2>1, ChainIsMotion DEF Beneath
<1>11. Undo(Identity) = Identity
  BY GroupAssumption
<1>12. Times(Identity, Chain(Beneath(p, k))) = Chain(Beneath(p, k))
  BY <1>10, GroupAssumption
<1> QED  BY <1>5, <1>8, <1>9, <1>11, <1>12

\* A traversal that accumulates transforms on its way down finds those of
\* xf_between on its way up.
THEOREM TraversalFindsBetween == Spec => []NodeToRootAgrees
<1> QED  BY SoundAlways, NodeToRootWhenSound, PTL

=============================================================================
