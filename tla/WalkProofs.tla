----------------------------- MODULE WalkProofs -----------------------------
(***************************************************************************)
(* Proofs about the walkers dfs and bfs: for every finite tree, whatever   *)
(* the filters admit, explore and throw on.                                *)
(***************************************************************************)
EXTENDS Walk, ListLemmas, FiniteSetTheorems

-----------------------------------------------------------------------------
(* A walk over the tree t with the walker w, as if nobody removed nodes *)

\* The successors of n in the order of the walker, before exclude_if.
Line(t, w, n) ==
    IF n \notin w.explore THEN <<>>
    ELSE IF w.siblings = "Forward" THEN t[n] ELSE Reverse(t[n])

\* exclude_if lets the i-th successor in the line s pass.
Passes(w, s, i) == s[i] \in w.admit /\ \A j \in 1 .. i : s[j] # w.throw

Piece(w, s, i) == IF Passes(w, s, i) THEN <<s[i]>> ELSE <<>>

\* What exclude_if lets pass of a line behind its place k.
Behind(w, s, k) == FlattenSeq([j \in 1 .. Len(s) - k |-> Piece(w, s, k + j)])

Births(t, w, n) == Behind(w, Line(t, w, n), 0)

\* The slot in which a generator finds the i-th of the line of n.
SlotOf(t, w, n, i) ==
    IF w.siblings = "Reversed" THEN Line(t, w, n)[i]
    ELSE IF w.siblings = "Forward" THEN i
    ELSE Len(Line(t, w, n)) + 1 - i

\* The place in the line that a generator read last.
Place(t, w, g) == Len(Line(t, w, g.of)) - Len(g.slots)

\* A generator will read the rest of the line of n.
Slotted(t, w, n, g) ==
    /\ g.of = n
    /\ Len(g.slots) <= Len(Line(t, w, n))
    /\ \A m \in 1 .. Len(g.slots) : g.slots[m] = SlotOf(t, w, n, Place(t, w, g) + m)

\* Its item is what it read last, and passes; without an item it is exhausted.
Fits(t, w, n, g) ==
    /\ Slotted(t, w, n, g)
    /\ g.item = None => g.slots = <<>>
    /\ g.item # None =>
          /\ Place(t, w, g) > 0
          /\ g.item = Line(t, w, n)[Place(t, w, g)]
          /\ Passes(w, Line(t, w, n), Place(t, w, g))

\* The places in the line of a generator that its walk is through with.
Done(t, w, g) == IF g.item = None THEN Place(t, w, g) ELSE Place(t, w, g) - 1

\* The nodes that a generator still has for its walk.
Coming(t, w, g) ==
    (IF g.item = None THEN <<>> ELSE <<g.item>>)
        \o Behind(w, Line(t, w, g.of), Place(t, w, g))

-----------------------------------------------------------------------------
(* The inductive invariant *)

\* Removals have left what the generator g will read where it was: k are the
\* children of the nodes as they are now.
Held(t, k, w, g) ==
    w.siblings # "Reversed" =>
        \A m \in 1 .. Len(g.slots) :
           /\ g.slots[m] \in DOMAIN k[g.of]
           /\ k[g.of][g.slots[m]] = t[g.of][g.slots[m]]

FramesFit(t, k, w, frames) ==
    \A i \in 1 .. Len(frames) :
        Fits(t, w, frames[i].node, frames[i].successors) /\ Held(t, k, w, frames[i].successors)

\* dfs is below each node once.
PathIsSimple(frames) ==
    \A i, j \in 1 .. Len(frames) : frames[i].node = frames[j].node => i = j

\* The nodes that dfs has come to.
Entered(frames, given) == Range(given) \cup {frames[i].node : i \in 1 .. Len(frames)}

\* A generator has still to give the node c.
Ahead(t, w, g, c) ==
    \E j \in Done(t, w, g) + 1 .. Len(Line(t, w, g.of)) : c = Line(t, w, g.of)[j]

\* What generators have still to give, dfs has not come to.
AheadIsNew(t, w, frames, given) ==
    \A i \in 1 .. Len(frames) : \A c \in Entered(frames, given) :
        ~Ahead(t, w, frames[i].successors, c)

\* dfs comes to no node before its parent.
ParentsFirst(t, frames, given) ==
    \A p \in Node : \A c \in Range(t[p]) :
        c \in Entered(frames, given) => p \in Entered(frames, given)

\* Nobody has removed children of a node that dfs has not come to.
NewIsWhole(t, k, frames, given) ==
    \A p \in Node : p \notin Entered(frames, given) => k[p] = t[p]

\* dfs gives the nodes of its path before it goes below them, or when it
\* leaves them.
PathIsGiven(w, frames, given) ==
    \A i \in 1 .. Len(frames) :
        w.visit = "ShallowFirst" <=> frames[i].node \in Range(given)

DepthOf(t, k, w, frames, given) ==
    /\ FramesFit(t, k, w, frames)
    /\ PathIsSimple(frames)
    /\ AheadIsNew(t, w, frames, given)
    /\ ParentsFirst(t, frames, given)
    /\ NewIsWhole(t, k, frames, given)
    /\ PathIsGiven(w, frames, given)
    /\ w.siblings = "Forward" => k = t
    /\ IsInjective(given)

\* bfs finds no node before it has given the parent, finds none twice, and
\* the nodes whose children were removed have been given.
BreadthOf(t, k, found, given) ==
    /\ IsInjective(given \o found)
    /\ \A p \in Node : \A c \in Range(t[p]) :
          c \in Range(given \o found) => p \in Range(given)
    /\ \A p \in Node : p \notin Range(given) => k[p] = t[p]

\* What is removed is gone, and nothing is added.
OnlyRemoved == \A p \in Node : Range(children[p]) \subseteq Range(tree[p])

Untouched == children = tree /\ stack = <<>> /\ queue = <<>> /\ yielded = <<>>

\* A walk is under way, or has ended after it was.
Walking == mode # "new" /\ Root \in walk.admit

\* The part that does not speak of the order.
Shape ==
    /\ OnlyRemoved
    /\ ~Walking => Untouched /\ mode \in {"new", "over"}
    /\ Walking /\ walk.visit # "Breadth" =>
          queue = <<>> /\ DepthOf(tree, children, walk, stack, yielded)
    /\ Walking /\ walk.visit = "Breadth" =>
          stack = <<>> /\ BreadthOf(tree, children, queue, yielded)
    /\ mode = "over" => stack = <<>> /\ queue = <<>>

-----------------------------------------------------------------------------
(* Lists *)

\* Reversed, a list has the same members, the other way round.
LEMMA ReverseProperties ==
    ASSUME NEW S, NEW s \in Seq(S)
    PROVE  /\ Reverse(s) \in Seq(S) /\ Len(Reverse(s)) = Len(s)
           /\ \A i \in 1 .. Len(s) : Reverse(s)[i] = s[Len(s) + 1 - i]
           /\ Range(Reverse(s)) = Range(s)
           /\ IsInjective(s) => IsInjective(Reverse(s))
<1> DEFINE n == Len(s)
           r == [i \in 1 .. n |-> s[(n - i) + 1]]
<1>1. n \in Nat /\ DOMAIN s = 1 .. n /\ \A i \in 1 .. n : s[i] \in S
  BY LenProperties, ElementOfSeq
<1>2. Reverse(s) = r
  BY DEF Reverse
<1> HIDE DEF n
<1>3. \A i \in 1 .. n : (n - i) + 1 \in 1 .. n /\ (n - i) + 1 = n + 1 - i
  BY <1>1
<1>4. r \in Seq(S) /\ Len(r) = n /\ DOMAIN r = 1 .. n
  <2>1. r \in [1 .. n -> S]
    BY <1>1, <1>3
  <2>2. r \in Seq(S)
    BY <1>1, <2>1, SeqDef
  <2>3. DOMAIN r = 1 .. n
    OBVIOUS
  <2> HIDE DEF r
  <2> QED  BY <1>1, <2>2, <2>3, LenProperties
<1>5. \A i \in 1 .. n : r[i] = s[n + 1 - i]
  BY <1>3
<1> HIDE DEF r
<1>6. Range(r) = Range(s)
  <2>1. ASSUME NEW x \in Range(s) PROVE x \in Range(r)
    <3>1. PICK i \in 1 .. n : x = s[i]
      BY <1>1 DEF Range
    <3>2. n + 1 - i \in 1 .. n /\ n + 1 - (n + 1 - i) = i
      BY <1>1
    <3>3. r[n + 1 - i] = x
      BY <1>5, <3>1, <3>2
    <3> QED  BY <1>4, <3>2, <3>3 DEF Range
  <2>2. ASSUME NEW x \in Range(r) PROVE x \in Range(s)
    <3>1. PICK i \in 1 .. n : x = r[i]
      BY <1>4 DEF Range
    <3>2. n + 1 - i \in 1 .. n /\ x = s[n + 1 - i]
      BY <1>1, <1>5, <3>1
    <3> QED  BY <1>1, <3>2 DEF Range
  <2> QED  BY <2>1, <2>2
<1>7. ASSUME IsInjective(s) PROVE IsInjective(r)
  <2>1. \A a, b \in 1 .. n : s[a] = s[b] => a = b
    BY <1>1, <1>7 DEF IsInjective
  <2>2. ASSUME NEW a \in 1 .. n, NEW b \in 1 .. n, r[a] = r[b] PROVE a = b
    <3>1. n + 1 - a \in 1 .. n /\ n + 1 - b \in 1 .. n
      BY <1>1
    <3>2. n + 1 - a = n + 1 - b
      BY <1>5, <2>1, <2>2, <3>1
    <3> QED  BY <1>1, <3>2
  <2> QED  BY <1>4, <2>2 DEF IsInjective
<1> QED  BY <1>2, <1>4, <1>5, <1>6, <1>7 DEF n

\* The range of a list is its members; a list is injective if it repeats none.
LEMMA InRange ==
    ASSUME NEW S, NEW s \in Seq(S)
    PROVE  /\ \A i \in 1 .. Len(s) : s[i] \in Range(s)
           /\ \A x \in Range(s) : \E i \in 1 .. Len(s) : x = s[i]
           /\ Range(s) \subseteq S
           /\ IsInjective(s) <=> \A i, j \in 1 .. Len(s) : s[i] = s[j] => i = j
<1>1. DOMAIN s = 1 .. Len(s)
  BY LenProperties
<1>2. Range(s) \in SUBSET S
  BY RangeOfSeq
<1> QED  BY <1>1, <1>2 DEF Range, IsInjective

\* A list of one.
LEMMA SingleSeq ==
    ASSUME NEW S, NEW e \in S
    PROVE  <<e>> \in Seq(S) /\ Len(<<e>>) = 1 /\ <<e>>[1] = e /\ Range(<<e>>) = {e}
<1>1. <<e>> \in Seq(S) /\ Len(<<e>>) = 1 /\ <<e>>[1] = e /\ DOMAIN <<e>> = {1}
  OBVIOUS
<1> QED  BY <1>1 DEF Range

\* One more member.
LEMMA AppendRange ==
    ASSUME NEW S, NEW s \in Seq(S), NEW e \in S
    PROVE  Range(Append(s, e)) = Range(s) \cup {e}
<1>1. Append(s, e) = s \o <<e>> /\ <<e>> \in Seq(S)
  BY AppendIsConcat
<1>2. Range(s \o <<e>>) = Range(s) \cup Range(<<e>>)
  BY <1>1, RangeConcatenation
<1>3. Range(<<e>>) = {e}
  BY SingleSeq
<1> QED  BY <1>1, <1>2, <1>3

\* A list without repetitions, one after another.
LEMMA InjectiveConcat ==
    ASSUME NEW S, NEW s \in Seq(S), NEW t \in Seq(S)
    PROVE  IsInjective(s \o t) <=>
              IsInjective(s) /\ IsInjective(t) /\ Range(s) \cap Range(t) = {}
<1> DEFINE u == s \o t
<1>0. Len(s) \in Nat /\ Len(t) \in Nat
  BY LenProperties
<1>1. /\ u \in Seq(S) /\ Len(u) = Len(s) + Len(t)
      /\ \A i \in 1 .. Len(s) + Len(t) : u[i] = IF i <= Len(s) THEN s[i] ELSE t[i - Len(s)]
  BY ConcatProperties
<1> HIDE DEF u
<1>2. IsInjective(u) <=> \A i, j \in 1 .. Len(s) + Len(t) : u[i] = u[j] => i = j
  BY <1>1, InRange
<1>3. /\ \A i \in 1 .. Len(s) : i \in 1 .. Len(s) + Len(t) /\ u[i] = s[i]
      /\ \A i \in 1 .. Len(t) : Len(s) + i \in 1 .. Len(s) + Len(t) /\ u[Len(s) + i] = t[i]
  <2>1. ASSUME NEW i \in 1 .. Len(t)
        PROVE  Len(s) + i \in 1 .. Len(s) + Len(t) /\ u[Len(s) + i] = t[i]
    <3>1. /\ Len(s) + i \in 1 .. Len(s) + Len(t)
          /\ ~ (Len(s) + i <= Len(s)) /\ (Len(s) + i) - Len(s) = i
      BY <1>0
    <3> QED  BY <1>1, <3>1
  <2> QED  BY <1>0, <1>1, <2>1
<1>4. ASSUME IsInjective(u)
      PROVE  IsInjective(s) /\ IsInjective(t) /\ Range(s) \cap Range(t) = {}
  <2>1. \A i, j \in 1 .. Len(s) : s[i] = s[j] => i = j
    BY <1>2, <1>3, <1>4
  <2>2. ASSUME NEW i \in 1 .. Len(t), NEW j \in 1 .. Len(t), t[i] = t[j] PROVE i = j
    <3>1. u[Len(s) + i] = u[Len(s) + j]
      BY <1>3, <2>2
    <3>2. Len(s) + i = Len(s) + j
      BY <1>2, <1>3, <1>4, <3>1
    <3> QED  BY <1>0, <3>2
  <2>3. ASSUME NEW i \in 1 .. Len(s), NEW j \in 1 .. Len(t), s[i] = t[j] PROVE FALSE
    <3>1. u[i] = u[Len(s) + j]
      BY <1>3, <2>3
    <3>2. i = Len(s) + j
      BY <1>2, <1>3, <1>4, <3>1
    <3> QED  BY <1>0, <3>2
  <2> QED  BY <2>1, <2>2, <2>3, InRange
<1>5. ASSUME IsInjective(s), IsInjective(t), Range(s) \cap Range(t) = {}
      PROVE  IsInjective(u)
  <2>1. /\ \A i, j \in 1 .. Len(s) : s[i] = s[j] => i = j
        /\ \A i, j \in 1 .. Len(t) : t[i] = t[j] => i = j
        /\ \A i \in 1 .. Len(s), j \in 1 .. Len(t) : s[i] # t[j]
    BY <1>5, InRange
  <2>2. ASSUME NEW i \in 1 .. Len(s) + Len(t), NEW j \in 1 .. Len(s) + Len(t), u[i] = u[j]
        PROVE  i = j
    <3>1. \A k \in 1 .. Len(s) + Len(t) :
             \/ k \in 1 .. Len(s) /\ u[k] = s[k]
             \/ k - Len(s) \in 1 .. Len(t) /\ u[k] = t[k - Len(s)]
      BY <1>0, <1>1
    <3>2. CASE i \in 1 .. Len(s) /\ u[i] = s[i]
      BY <2>1, <2>2, <3>1, <3>2
    <3>3. CASE i - Len(s) \in 1 .. Len(t) /\ u[i] = t[i - Len(s)]
      <4>1. j - Len(s) \in 1 .. Len(t) /\ u[j] = t[j - Len(s)]
        BY <2>1, <2>2, <3>1, <3>3
      <4>2. i - Len(s) = j - Len(s)
        BY <2>1, <2>2, <3>3, <4>1
      <4> QED  BY <1>0, <4>2
    <3> QED  BY <3>1, <3>2, <3>3
  <2> QED  BY <1>2, <2>2
<1> QED  BY <1>4, <1>5 DEF u

-----------------------------------------------------------------------------
(* Each of a list replaced by a list *)

Map(F, s) == [i \in DOMAIN s |-> F[s[i]]]

Flat(F, s) == FlattenSeq(Map(F, s))

\* F has a list of members of U for every member of S.
HasLists(F, S, U) == F \in [S -> Seq(U)]

\* Map goes member by member.
LEMMA MapLen ==
    ASSUME NEW S, NEW F, NEW s \in Seq(S)
    PROVE  Len(Map(F, s)) = Len(s) /\ \A i \in 1 .. Len(s) : Map(F, s)[i] = F[s[i]]
<1> DEFINE n == Len(s)
           m == [i \in 1 .. n |-> F[s[i]]]
           V == {F[s[i]] : i \in 1 .. n}
<1>1. n \in Nat /\ DOMAIN s = 1 .. n
  BY LenProperties
<1> HIDE DEF n
<1>2. m \in [1 .. n -> V]
  OBVIOUS
<1>3. m \in Seq(V) /\ DOMAIN m = 1 .. n
  BY <1>1, <1>2, SeqDef
<1>4. Len(m) = n
  <2> HIDE DEF m, V
  <2> QED  BY <1>1, <1>3, LenProperties
<1>5. Map(F, s) = m /\ \A i \in 1 .. n : m[i] = F[s[i]]
  BY <1>1 DEF Map
<1> QED  BY <1>4, <1>5 DEF n

\* Map gives a list of lists.
LEMMA MapType ==
    ASSUME NEW S, NEW U, NEW F, HasLists(F, S, U), NEW s \in Seq(S)
    PROVE  Map(F, s) \in Seq(Seq(U))
<1>1. Len(s) \in Nat /\ DOMAIN s = 1 .. Len(s) /\ \A i \in 1 .. Len(s) : s[i] \in S
  BY LenProperties, ElementOfSeq
<1>2. Map(F, s) \in [1 .. Len(s) -> Seq(U)]
  BY <1>1 DEF Map, HasLists
<1> QED  BY <1>1, <1>2, SeqDef

\* Flat gives a list.
LEMMA FlatType ==
    ASSUME NEW S, NEW U, NEW F, HasLists(F, S, U), NEW s \in Seq(S)
    PROVE  Flat(F, s) \in Seq(U)
<1>1. Map(F, s) \in Seq(Seq(U))
  BY MapType
<1>2. FlattenSeq(Map(F, s)) \in Seq(U)
  BY <1>1, FlattenType
<1> QED  BY <1>2 DEF Flat

\* Nothing flattens to nothing.
LEMMA FlatEmpty ==
    ASSUME NEW F
    PROVE  Flat(F, <<>>) = <<>>
<1>1. Map(F, <<>>) = <<>>
  BY DEF Map
<1> QED  BY <1>1, FlattenEmpty DEF Flat

\* The lists of s, then those of t.
LEMMA FlatConcat ==
    ASSUME NEW S, NEW U, NEW F, HasLists(F, S, U), NEW s \in Seq(S), NEW t \in Seq(S)
    PROVE  Flat(F, s \o t) = Flat(F, s) \o Flat(F, t)
<1> DEFINE u == s \o t
<1>0. Len(s) \in Nat /\ Len(t) \in Nat
  BY LenProperties
<1>1. /\ u \in Seq(S) /\ Len(u) = Len(s) + Len(t)
      /\ \A i \in 1 .. Len(s) + Len(t) : u[i] = IF i <= Len(s) THEN s[i] ELSE t[i - Len(s)]
  BY ConcatProperties
<1> HIDE DEF u
<1>2. /\ Map(F, s) \in Seq(Seq(U)) /\ Len(Map(F, s)) = Len(s)
      /\ \A i \in 1 .. Len(s) : Map(F, s)[i] = F[s[i]]
  BY MapType, MapLen
<1>3. /\ Map(F, t) \in Seq(Seq(U)) /\ Len(Map(F, t)) = Len(t)
      /\ \A i \in 1 .. Len(t) : Map(F, t)[i] = F[t[i]]
  BY MapType, MapLen
<1>4. /\ Map(F, u) \in Seq(Seq(U)) /\ Len(Map(F, u)) = Len(u)
      /\ \A i \in 1 .. Len(u) : Map(F, u)[i] = F[u[i]]
  BY <1>1, MapType, MapLen
<1>5. /\ Map(F, s) \o Map(F, t) \in Seq(Seq(U)) /\ Len(Map(F, s) \o Map(F, t)) = Len(s) + Len(t)
      /\ \A i \in 1 .. Len(s) + Len(t) :
            (Map(F, s) \o Map(F, t))[i] = IF i <= Len(s) THEN Map(F, s)[i] ELSE Map(F, t)[i - Len(s)]
  <2>1. /\ Map(F, s) \o Map(F, t) \in Seq(Seq(U)) /\ Len(Map(F, s) \o Map(F, t)) = Len(Map(F, s)) + Len(Map(F, t))
        /\ \A i \in 1 .. Len(Map(F, s)) + Len(Map(F, t)) :
              (Map(F, s) \o Map(F, t))[i] = IF i <= Len(Map(F, s)) THEN Map(F, s)[i] ELSE Map(F, t)[i - Len(Map(F, s))]
    BY ONLY <1>2, <1>3, ConcatProperties
  <2> QED  BY <1>2, <1>3, <2>1
<1>6. Map(F, u) = Map(F, s) \o Map(F, t)
  <2>1. ASSUME NEW i \in 1 .. Len(s) + Len(t)
        PROVE  Map(F, u)[i] = (Map(F, s) \o Map(F, t))[i]
    <3>1. CASE i <= Len(s)
      <4>1. i \in 1 .. Len(s)
        BY <1>0, <3>1
      <4>2. u[i] = s[i] /\ Map(F, u)[i] = F[u[i]] /\ (Map(F, s) \o Map(F, t))[i] = Map(F, s)[i]
        BY <1>1, <1>4, <1>5, <3>1
      <4> QED  BY <1>2, <4>1, <4>2
    <3>2. CASE ~ (i <= Len(s))
      <4>1. i - Len(s) \in 1 .. Len(t)
        BY <1>0, <3>2
      <4>2. u[i] = t[i - Len(s)] /\ Map(F, u)[i] = F[u[i]] /\ (Map(F, s) \o Map(F, t))[i] = Map(F, t)[i - Len(s)]
        BY <1>1, <1>4, <1>5, <3>2
      <4> QED  BY <1>3, <4>1, <4>2
    <3> QED  BY <3>1, <3>2
  <2>2. Len(Map(F, u)) = Len(s) + Len(t) /\ Len(Map(F, s) \o Map(F, t)) = Len(s) + Len(t)
    BY <1>1, <1>4, <1>5
  <2> QED  BY <1>4, <1>5, <2>1, <2>2, SeqEqual
<1>7. FlattenSeq(Map(F, s) \o Map(F, t)) = FlattenSeq(Map(F, s)) \o FlattenSeq(Map(F, t))
  BY ONLY <1>2, <1>3, FlattenConcat
<1> QED  BY <1>6, <1>7 DEF Flat, u

\* One member gives its own list.
LEMMA FlatSingle ==
    ASSUME NEW S, NEW U, NEW F, HasLists(F, S, U), NEW e \in S
    PROVE  Flat(F, <<e>>) = F[e]
<1>1. Map(F, <<e>>) = <<F[e]>>
  BY DEF Map
<1>2. <<F[e]>> = Append(<<>>, F[e]) /\ F[e] \in Seq(U)
  BY DEF HasLists
<1>3. FlattenSeq(Append(<<>>, F[e])) = FlattenSeq(<<>>) \o F[e]
  BY <1>2, EmptySeq, FlattenAppend
<1>4. FlattenSeq(<<>>) \o F[e] = F[e]
  BY <1>2, FlattenEmpty, ConcatEmptySeq
<1> QED  BY <1>1, <1>2, <1>3, <1>4 DEF Flat

\* One more member at the end, or at the front.
LEMMA FlatEnds ==
    ASSUME NEW S, NEW U, NEW F, HasLists(F, S, U), NEW s \in Seq(S), NEW e \in S,
           NEW one, one = <<e>>
    PROVE  /\ Flat(F, s \o one) = Flat(F, s) \o F[e]
           /\ Flat(F, one \o s) = F[e] \o Flat(F, s)
<1>1. one \in Seq(S) /\ s \in Seq(S) /\ HasLists(F, S, U)
  BY SingleSeq
<1>2. Flat(F, one) = F[e]
  BY FlatSingle
<1>3. Flat(F, s \o one) = Flat(F, s) \o Flat(F, one)
  BY ONLY <1>1, FlatConcat
<1>4. Flat(F, one \o s) = Flat(F, one) \o Flat(F, s)
  BY ONLY <1>1, FlatConcat
<1> QED  BY <1>2, <1>3, <1>4

\* What stands in the result stands in one of the lists.
LEMMA FlatRange ==
    ASSUME NEW S, NEW U, NEW F, HasLists(F, S, U), NEW s \in Seq(S), NEW x \in Range(Flat(F, s))
    PROVE  \E e \in Range(s) : x \in Range(F[e])
<1> DEFINE T == {q \in Seq(S) : \A y \in Range(Flat(F, q)) : \E e \in Range(q) : y \in Range(F[e])}
<1>1. <<>> \in T
  <2>1. Range(<<>>) = {} /\ <<>> \in Seq(S)
    BY EmptySeq DEF Range
  <2> QED  BY <2>1, FlatEmpty
<1>2. ASSUME NEW q \in Seq(S), NEW e \in S, q \in T PROVE Append(q, e) \in T
  <2>1. Append(q, e) = q \o <<e>> /\ <<e>> \in Seq(S) /\ Append(q, e) \in Seq(S)
    BY AppendIsConcat, SingleSeq, AppendProperties
  <2>2. Flat(F, q \o <<e>>) = Flat(F, q) \o F[e]
    <3>1. q \in Seq(S) /\ e \in S /\ HasLists(F, S, U)
      OBVIOUS
    <3> DEFINE one == <<e>>
    <3>2. one = <<e>>
      OBVIOUS
    <3> HIDE DEF one
    <3>3. Flat(F, q \o one) = Flat(F, q) \o F[e]
      BY ONLY <3>1, <3>2, FlatEnds
    <3> QED  BY <3>3 DEF one
  <2>3. F[e] \in Seq(U)
    BY DEF HasLists
  <2>9. Flat(F, q) \in Seq(U)
    BY FlatType
  <2>4. Range(Flat(F, q) \o F[e]) = Range(Flat(F, q)) \cup Range(F[e])
    BY <2>3, <2>9, RangeConcatenation
  <2>5. Range(Append(q, e)) = Range(q) \cup {e}
    BY AppendRange
  <2>6. \A y \in Range(Flat(F, q)) : \E d \in Range(q) : y \in Range(F[d])
    BY <1>2
  <2>7. Range(Flat(F, Append(q, e))) = Range(Flat(F, q)) \cup Range(F[e])
    BY <2>1, <2>2, <2>4
  <2>8. ASSUME NEW y \in Range(Flat(F, Append(q, e)))
        PROVE  \E d \in Range(Append(q, e)) : y \in Range(F[d])
    BY <2>5, <2>6, <2>7
  <2> QED  BY <2>1, <2>8
<1> HIDE DEF T
<1>3. Seq(S) \subseteq T
  BY <1>1, <1>2, SequencesByAppend
<1> QED  BY <1>3 DEF T

-----------------------------------------------------------------------------
(* What passes exclude_if *)

\* A piece is a list of nodes.
LEMMA PieceType ==
    ASSUME NEW w, NEW s \in Seq(Node), NEW i \in 1 .. Len(s)
    PROVE  Piece(w, s, i) \in Seq(Node)
<1>1. s[i] \in Node
  BY ElementOfSeq
<1>2. <<s[i]>> \in Seq(Node) /\ <<>> \in Seq(Node)
  BY <1>1, SingleSeq, EmptySeq
<1> QED  BY <1>2 DEF Piece

\* What passes a line is what passes its first place, then what passes the rest.
LEMMA BehindFacts ==
    ASSUME NEW w, NEW s \in Seq(Node)
    PROVE  /\ Behind(w, s, Len(s)) = <<>>
           /\ \A k \in 0 .. Len(s) : Behind(w, s, k) \in Seq(Node)
           /\ \A k \in 0 .. Len(s) - 1 :
                 Behind(w, s, k) = Piece(w, s, k + 1) \o Behind(w, s, k + 1)
<1> DEFINE V == Seq(Node)
           n == Len(s)
           pieces(k) == [j \in 1 .. n - k |-> Piece(w, s, k + j)]
<1>0. n \in Nat
  BY LenProperties
<1>1. ASSUME NEW k \in 0 .. n
      PROVE  pieces(k) \in Seq(V) /\ Len(pieces(k)) = n - k
  <2>1. n - k \in Nat /\ \A j \in 1 .. n - k : k + j \in 1 .. n
    BY <1>0
  <2>2. \A j \in 1 .. n - k : Piece(w, s, k + j) \in V
    BY <2>1, PieceType
  <2> HIDE DEF V, n
  <2>3. pieces(k) \in [1 .. n - k -> V]
    BY <2>2
  <2>4. pieces(k) \in Seq(V) /\ DOMAIN pieces(k) = 1 .. n - k
    BY <2>1, <2>3, SeqDef
  <2> HIDE DEF pieces
  <2> QED  BY <2>1, <2>4, LenProperties
<1>2. \A k \in 0 .. n : FlattenSeq(pieces(k)) \in Seq(Node)
  <2> HIDE DEF pieces, n
  <2> QED  BY <1>1, FlattenType DEF V
<1>3. pieces(n) = <<>>
  BY <1>0
<1>4. ASSUME NEW k \in 0 .. n - 1
      PROVE  FlattenSeq(pieces(k)) = Piece(w, s, k + 1) \o FlattenSeq(pieces(k + 1))
  <2> DEFINE p == Piece(w, s, k + 1)
  <2>1. k \in 0 .. n /\ k + 1 \in 0 .. n /\ k + 1 \in 1 .. n
    BY <1>0
  <2>2. p \in V
    BY <2>1, PieceType
  <2> HIDE DEF p
  <2>3. <<p>> \in Seq(V) /\ Len(<<p>>) = 1 /\ <<p>>[1] = p
    BY <2>2, SingleSeq
  <2>4. /\ pieces(k) \in Seq(V) /\ Len(pieces(k)) = n - k
        /\ pieces(k + 1) \in Seq(V) /\ Len(pieces(k + 1)) = n - (k + 1)
    BY <1>1, <2>1
  <2>5. /\ \A j \in 1 .. n - k : pieces(k)[j] = Piece(w, s, k + j)
        /\ \A j \in 1 .. n - (k + 1) : pieces(k + 1)[j] = Piece(w, s, (k + 1) + j)
    OBVIOUS
  <2> HIDE DEF pieces, V, n
  <2>6. /\ <<p>> \o pieces(k + 1) \in Seq(V) /\ Len(<<p>> \o pieces(k + 1)) = 1 + (n - (k + 1))
        /\ \A j \in 1 .. 1 + (n - (k + 1)) :
              (<<p>> \o pieces(k + 1))[j] = IF j <= 1 THEN <<p>>[j] ELSE pieces(k + 1)[j - 1]
    BY <2>3, <2>4, ConcatProperties
  <2>7. pieces(k) = <<p>> \o pieces(k + 1)
    <3>1. ASSUME NEW j \in 1 .. n - k PROVE pieces(k)[j] = (<<p>> \o pieces(k + 1))[j]
      <4>1. j \in 1 .. 1 + (n - (k + 1))
        BY <1>0, <2>1
      <4>2. CASE j = 1
        BY <2>3, <2>5, <2>6, <4>1, <4>2 DEF p
      <4>3. CASE j # 1
        <5>1. j - 1 \in 1 .. n - (k + 1) /\ (k + 1) + (j - 1) = k + j /\ ~ (j <= 1)
          BY <1>0, <2>1, <4>3
        <5> QED  BY <2>5, <2>6, <4>1, <5>1
      <4> QED  BY <4>2, <4>3
    <3>2. n - k = 1 + (n - (k + 1))
      BY <1>0, <2>1
    <3> QED  BY <2>4, <2>6, <3>1, <3>2, SeqEqual
  <2>8. FlattenSeq(<<p>> \o pieces(k + 1)) = FlattenSeq(<<p>>) \o FlattenSeq(pieces(k + 1))
    BY <2>3, <2>4, FlattenConcat DEF V
  <2>9. FlattenSeq(<<p>>) = p
    <3>1. <<p>> = Append(<<>>, p) /\ <<>> \in Seq(V)
      BY EmptySeq
    <3>2. FlattenSeq(Append(<<>>, p)) = FlattenSeq(<<>>) \o p
      BY <2>2, <3>1, FlattenAppend DEF V
    <3>3. <<>> \o p = p
      BY <2>2, ConcatEmptySeq DEF V
    <3> QED  BY <3>1, <3>2, <3>3, FlattenEmpty
  <2> QED  BY <2>7, <2>8, <2>9 DEF p
<1>5. \A k \in 0 .. n : Behind(w, s, k) = FlattenSeq(pieces(k))
  BY DEF Behind
<1>6. n \in 0 .. n /\ \A k \in 0 .. n - 1 : k \in 0 .. n /\ k + 1 \in 0 .. n
  BY <1>0
<1> HIDE DEF pieces
<1> QED  BY <1>2, <1>3, <1>4, <1>5, <1>6, FlattenEmpty DEF n

\* Places where nothing passes can be skipped.
LEMMA BehindSkips ==
    ASSUME NEW w, NEW s \in Seq(Node), NEW k \in 0 .. Len(s), NEW m \in k .. Len(s),
           \A j \in k + 1 .. m : ~Passes(w, s, j)
    PROVE  Behind(w, s, k) = Behind(w, s, m)
<1>0. Len(s) \in Nat
  BY LenProperties
<1> DEFINE T == {d \in Nat : k + d <= m => Behind(w, s, k) = Behind(w, s, k + d)}
<1>1. 0 \in T
  <2>1. k + 0 = k
    BY <1>0
  <2> QED  BY <2>1
<1>2. ASSUME NEW d \in Nat, d \in T PROVE d + 1 \in T
  <2> SUFFICES ASSUME k + (d + 1) <= m PROVE Behind(w, s, k) = Behind(w, s, k + (d + 1))
    OBVIOUS
  <2>1. /\ k + d <= m /\ k + (d + 1) = (k + d) + 1 /\ k + d \in 0 .. Len(s) - 1
        /\ (k + d) + 1 \in k + 1 .. m /\ (k + d) + 1 \in 0 .. Len(s)
    BY <1>0
  <2>2. Piece(w, s, (k + d) + 1) = <<>>
    BY <2>1 DEF Piece
  <2>3. Behind(w, s, k + d) = <<>> \o Behind(w, s, (k + d) + 1)
    BY <2>1, <2>2, BehindFacts
  <2>4. Behind(w, s, (k + d) + 1) \in Seq(Node)
    BY <2>1, BehindFacts
  <2>5. Behind(w, s, k + d) = Behind(w, s, (k + d) + 1)
    BY <2>3, <2>4, ConcatEmptySeq
  <2> QED  BY <1>2, <2>1, <2>5
<1> HIDE DEF T
<1>3. Nat \subseteq T
  BY <1>1, <1>2, NumbersBySteps
<1>4. m - k \in Nat /\ k + (m - k) = m /\ m <= m
  BY <1>0
<1> QED  BY <1>3, <1>4 DEF T

\* What passes stands in the line, once if it stands there once.
LEMMA BehindRange ==
    ASSUME NEW w, NEW s \in Seq(Node), NEW k \in 0 .. Len(s)
    PROVE  /\ \A x \in Range(Behind(w, s, k)) : \E j \in k + 1 .. Len(s) : x = s[j]
           /\ IsInjective(s) => IsInjective(Behind(w, s, k))
<1> DEFINE n == Len(s)
           Good(i) == /\ \A x \in Range(Behind(w, s, i)) : \E j \in i + 1 .. n : x = s[j]
                      /\ IsInjective(s) => IsInjective(Behind(w, s, i))
           T == {d \in Nat : d <= n => Good(n - d)}
<1>0. n \in Nat
  BY LenProperties
<1>1. 0 \in T
  <2>1. n - 0 = n
    BY <1>0
  <2>2. Behind(w, s, n) = <<>>
    BY BehindFacts
  <2>3. Range(<<>>) = {} /\ IsInjective(<<>>)
    BY DEF Range, IsInjective
  <2>4. Good(n)
    BY <2>2, <2>3
  <2> QED  BY <2>1, <2>4
<1>2. ASSUME NEW d \in Nat, d \in T PROVE d + 1 \in T
  <2> SUFFICES ASSUME d + 1 <= n PROVE Good(n - (d + 1))
    OBVIOUS
  <2> DEFINE i == n - (d + 1)
             b == Behind(w, s, i + 1)
             p == Piece(w, s, i + 1)
  <2>1. i \in 0 .. n - 1 /\ i + 1 \in 1 .. n /\ i + 1 \in 0 .. n /\ i + 1 = n - d /\ d <= n
    BY <1>0
  <2>2. Good(i + 1)
    BY <1>2, <2>1
  <2> HIDE DEF i
  <2>3. Behind(w, s, i) = p \o b /\ b \in Seq(Node) /\ p \in Seq(Node) /\ s[i + 1] \in Node
    BY <2>1, BehindFacts, PieceType, ElementOfSeq DEF n
  <2>4. /\ \A x \in Range(b) : \E j \in (i + 1) + 1 .. n : x = s[j]
        /\ IsInjective(s) => IsInjective(b)
    BY <2>2
  <2>5. Range(p) \subseteq {s[i + 1]} /\ IsInjective(p)
    <3>1. Range(<<s[i + 1]>>) = {s[i + 1]}
      BY <2>3, SingleSeq
    <3>2. Range(<<>>) = {} /\ IsInjective(<<>>) /\ IsInjective(<<s[i + 1]>>)
      BY DEF Range, IsInjective
    <3> QED  BY <3>1, <3>2 DEF Piece
  <2> HIDE DEF b, p
  <2>6. Range(p \o b) = Range(p) \cup Range(b)
    BY <2>3, RangeConcatenation
  <2>7. i + 1 \in i + 1 .. n /\ \A j \in (i + 1) + 1 .. n : j \in i + 1 .. n /\ j \in 1 .. n /\ j # i + 1
    BY <1>0, <2>1
  <2>8. \A x \in Range(p \o b) : \E j \in i + 1 .. n : x = s[j]
    BY <2>4, <2>5, <2>6, <2>7
  <2>9. ASSUME IsInjective(s) PROVE IsInjective(p \o b)
    <3>1. \A j, l \in 1 .. n : s[j] = s[l] => j = l
      BY <2>9, InRange DEF n
    <3>2. s[i + 1] \notin Range(b)
      BY <2>1, <2>4, <2>7, <3>1
    <3>3. Range(p) \cap Range(b) = {}
      BY <2>5, <3>2
    <3> QED  BY <2>3, <2>4, <2>5, <2>9, <3>3, InjectiveConcat
  <2>10. Good(i)
    BY <2>3, <2>8, <2>9
  <2> QED  BY <2>10 DEF i
<1> HIDE DEF T, Good
<1>3. Nat \subseteq T
  BY <1>1, <1>2, NumbersBySteps
<1>4. n - k \in Nat /\ n - (n - k) = k /\ n - k <= n
  BY <1>0
<1>5. Good(k)
  BY <1>3, <1>4 DEF T
<1> QED  BY <1>5 DEF Good, n

-----------------------------------------------------------------------------
(* Generators of successors *)

\* What TypeOK and the assumptions say of the tree and the walker.
LEMMA WalkFacts ==
    ASSUME TypeOK
    PROVE  /\ tree \in [Node -> Seq(Node)] /\ children \in [Node -> Seq(Node)]
           /\ walk.visit \in Visits /\ walk.siblings \in Siblings
           /\ walk.admit \subseteq Node /\ walk.throw \in Node \cup {None}
           /\ \A p \in Node : IsInjective(tree[p]) /\ Root \notin Range(tree[p])
           /\ \A p, q \in Node : \A c \in Range(tree[p]) : c \in Range(tree[q]) => p = q
  BY TreesAssumption DEF TypeOK

\* The line of a node is its children, forward or backward, or none.
LEMMA LineFacts ==
    ASSUME TypeOK, NEW n \in Node
    PROVE  LET s == Line(tree, walk, n)
           IN  /\ s \in Seq(Node) /\ Len(s) \in Nat /\ \A i \in 1 .. Len(s) : s[i] \in Node
               /\ IsInjective(s) /\ Range(s) \subseteq Range(tree[n])
               /\ n \notin walk.explore => s = <<>> /\ Len(s) = 0
               /\ n \in walk.explore =>
                     /\ Len(s) = Len(tree[n])
                     /\ \A i \in 1 .. Len(s) :
                           /\ walk.siblings = "Forward" => s[i] = tree[n][i]
                           /\ walk.siblings # "Forward" =>
                                 /\ Len(s) + 1 - i \in 1 .. Len(s)
                                 /\ s[i] = tree[n][Len(s) + 1 - i]
<1> DEFINE s == Line(tree, walk, n)
<1>1. tree[n] \in Seq(Node) /\ IsInjective(tree[n])
  BY WalkFacts
<1>2. CASE n \notin walk.explore
  <2>1. s = <<>>
    BY <1>2 DEF Line
  <2>2. <<>> \in Seq(Node) /\ Len(<<>>) = 0 /\ IsInjective(<<>>) /\ Range(<<>>) = {}
    BY EmptySeq DEF IsInjective, Range
  <2> QED  BY <1>2, <2>1, <2>2
<1>3. CASE n \in walk.explore
  <2> DEFINE r == Reverse(tree[n])
  <2>1. s = IF walk.siblings = "Forward" THEN tree[n] ELSE r
    BY <1>3 DEF Line
  <2>2. /\ r \in Seq(Node) /\ Len(r) = Len(tree[n])
        /\ \A i \in 1 .. Len(tree[n]) : r[i] = tree[n][Len(tree[n]) + 1 - i]
        /\ Range(r) = Range(tree[n]) /\ IsInjective(r)
    BY <1>1, ReverseProperties
  <2> HIDE DEF r, s
  <2>3. Len(tree[n]) \in Nat
    BY <1>1, LenProperties
  <2>4. s \in Seq(Node) /\ IsInjective(s) /\ Range(s) \subseteq Range(tree[n]) /\ Len(s) = Len(tree[n])
    BY <1>1, <2>1, <2>2
  <2>5. \A i \in 1 .. Len(s) : s[i] \in Node
    BY <2>4, ElementOfSeq
  <2>6. ASSUME NEW i \in 1 .. Len(s)
        PROVE  /\ walk.siblings = "Forward" => s[i] = tree[n][i]
               /\ walk.siblings # "Forward" =>
                     /\ Len(s) + 1 - i \in 1 .. Len(s)
                     /\ s[i] = tree[n][Len(s) + 1 - i]
    BY <2>1, <2>2, <2>3, <2>4
  <2> QED  BY <1>3, <2>3, <2>4, <2>5, <2>6 DEF s
<1> QED  BY <1>2, <1>3

\* g reads over items that are neither admitted nor thrown on.
Skips(g, m) ==
    \A j \in 1 .. m : \E x \in Reads(g.of, g.slots[j]) : x \notin walk.admit /\ ~Throws(x)

\* A generator that is advanced reads on to an item, or is exhausted.
LEMMA AdvancedIs ==
    ASSUME NEW g \in Generator, NEW h \in Advanced(g)
    PROVE  \/ \E k \in 1 .. Len(g.slots) :
                 /\ Skips(g, k - 1)
                 /\ h.item \in Reads(g.of, g.slots[k]) \cap walk.admit
                 /\ ~Throws(h.item)
                 /\ h = [of |-> g.of, slots |-> SubSeq(g.slots, k + 1, Len(g.slots)),
                         item |-> h.item]
           \/ /\ \/ Skips(g, Len(g.slots))
                 \/ \E k \in 1 .. Len(g.slots) :
                       /\ Skips(g, k - 1)
                       /\ \E x \in Reads(g.of, g.slots[k]) : Throws(x)
              /\ h = [of |-> g.of, slots |-> <<>>, item |-> None]
<1> DEFINE n == Len(g.slots)
           new(k, x) == [of |-> g.of, slots |-> SubSeq(g.slots, k + 1, Len(g.slots)), item |-> x]
           old(k, x) == [g EXCEPT !.slots = SubSeq(@, k + 1, Len(@)), !.item = x]
<1>1. n \in Nat /\ DOMAIN g.slots = 1 .. n
  BY LenProperties DEF Generator
<1>2. ASSUME NEW k, NEW x PROVE old(k, x) = new(k, x)
  <2> DEFINE a == SubSeq(g.slots, k + 1, Len(g.slots))
  <2>2. old(k, x) = [g EXCEPT !.slots = a, !.item = x]
    OBVIOUS
  <2> HIDE DEF a
  <2>3. [g EXCEPT !.slots = a, !.item = x] = [[g EXCEPT !.slots = a] EXCEPT !.item = x]
    BY DEF Generator
  <2>4. [g EXCEPT !.slots = a] = [of |-> g.of, slots |-> a, item |-> g.item]
    BY DEF Generator
  <2>5. [[of |-> g.of, slots |-> a, item |-> g.item] EXCEPT !.item = x]
            = [of |-> g.of, slots |-> a, item |-> x]
    OBVIOUS
  <2>6. [g EXCEPT !.slots = a, !.item = x] = [of |-> g.of, slots |-> a, item |-> x]
    BY ONLY <2>3, <2>4, <2>5
  <2> QED  BY <2>2, <2>6 DEF a
<1>3. \/ \E k \in 1 .. n : \E x \in Reads(g.of, g.slots[k]) \cap walk.admit :
            Skips(g, k - 1) /\ ~Throws(x) /\ h = old(k, x)
      \/ /\ \/ Skips(g, n)
            \/ \E k \in 1 .. n : Skips(g, k - 1) /\ \E x \in Reads(g.of, g.slots[k]) : Throws(x)
         /\ h = old(n, None)
  <2> DEFINE stops == {k \in DOMAIN g.slots : Skips(g, k - 1)}
             ends == \/ Skips(g, n)
                     \/ \E k \in stops : \E x \in Reads(g.of, g.slots[k]) : Throws(x)
             A == UNION {{old(k, x) : x \in {y \in Reads(g.of, g.slots[k]) \cap walk.admit : ~Throws(y)}} :
                            k \in stops}
             B == IF ends THEN {old(n, None)} ELSE {}
  <2>1. h \in A \cup B
    <3>1. h \in Advanced(g)
      OBVIOUS
    <3>2. Advanced(g) = A \cup B
      BY DEF Advanced, Skips
    <3> HIDE DEF A, B
    <3> QED  BY <3>1, <3>2
  <2>2. stops = {k \in 1 .. n : Skips(g, k - 1)}
    BY <1>1
  <2> HIDE DEF old
  <2>3. h \in A => \E k \in 1 .. n : \E x \in Reads(g.of, g.slots[k]) \cap walk.admit :
                       Skips(g, k - 1) /\ ~Throws(x) /\ h = old(k, x)
    BY <2>2
  <2>4. h \in B =>
           /\ \/ Skips(g, n)
              \/ \E k \in 1 .. n : Skips(g, k - 1) /\ \E x \in Reads(g.of, g.slots[k]) : Throws(x)
           /\ h = old(n, None)
    BY <2>2
  <2> HIDE DEF stops, ends, A, B
  <2>5. h \in A \/ h \in B
    BY <2>1
  <2> QED  BY ONLY <2>3, <2>4, <2>5, Zenon
<1>4. CASE \E k \in 1 .. n : \E x \in Reads(g.of, g.slots[k]) \cap walk.admit :
              Skips(g, k - 1) /\ ~Throws(x) /\ h = old(k, x)
  <2>1. PICK k \in 1 .. n : \E x \in Reads(g.of, g.slots[k]) \cap walk.admit :
              Skips(g, k - 1) /\ ~Throws(x) /\ h = new(k, x)
    BY <1>2, <1>4
  <2>2. PICK x \in Reads(g.of, g.slots[k]) \cap walk.admit :
              Skips(g, k - 1) /\ ~Throws(x) /\ h = new(k, x)
    BY <2>1
  <2>3. h.item = x
    BY <2>2
  <2> QED  BY <2>2, <2>3
<1>5. CASE /\ \/ Skips(g, n)
              \/ \E k \in 1 .. n : Skips(g, k - 1) /\ \E x \in Reads(g.of, g.slots[k]) : Throws(x)
           /\ h = old(n, None)
  <2>1. h = new(n, None)
    BY <1>2, <1>5
  <2>2. SubSeq(g.slots, n + 1, n) = <<>>
    BY <1>1, SubSeqEmpty
  <2> QED  BY <1>5, <2>1, <2>2
<1> QED  BY <1>3, <1>4, <1>5

\* ++ of a generator of n is a generator of n.
LEMMA AdvancedType ==
    ASSUME TypeOK, NEW g \in Generator, NEW h \in Advanced(g)
    PROVE  h \in Generator /\ h.of = g.of
<1>1. CASE h = [of |-> g.of, slots |-> <<>>, item |-> None]
  BY <1>1 DEF Generator
<1>2. ASSUME NEW k \in 1 .. Len(g.slots), h.item \in walk.admit,
             h = [of |-> g.of, slots |-> SubSeq(g.slots, k + 1, Len(g.slots)), item |-> h.item]
      PROVE  h \in Generator /\ h.of = g.of
  <2>1. g.slots \in Seq(Node \cup Nat) /\ Len(g.slots) \in Nat
    BY LenProperties DEF Generator
  <2>2. \A i \in k + 1 .. Len(g.slots) : g.slots[i] \in Node \cup Nat
    BY <2>1, ElementOfSeq
  <2>3. SubSeq(g.slots, k + 1, Len(g.slots)) \in Seq(Node \cup Nat)
    BY <2>1, <2>2, SubSeqProperties
  <2>4. h.item \in Node
    BY <1>2, WalkFacts
  <2> DEFINE rest == SubSeq(g.slots, k + 1, Len(g.slots))
  <2>5. g.of \in Node /\ rest \in Seq(Node \cup Nat)
    BY <2>3 DEF Generator
  <2>6. h = [of |-> g.of, slots |-> rest, item |-> h.item]
    BY <1>2
  <2> HIDE DEF rest
  <2> QED  BY <2>4, <2>5, <2>6 DEF Generator
<1> QED  BY <1>1, <1>2, AdvancedIs

\* A new generator over children that nobody removed has the whole line.
LEMMA NewGenerator ==
    ASSUME TypeOK, NEW n \in Node, NEW g, g = [of |-> n, slots |-> Slots(n), item |-> None]
    PROVE  /\ g \in Generator
           /\ children[n] = tree[n] =>
                 Slotted(tree, walk, n, g) /\ Held(tree, children, walk, g) /\ Place(tree, walk, g) = 0
<1> DEFINE L == Len(children[n])
           ids == [i \in 1 .. L |-> i]
           base == IF walk.siblings = "Reversed" THEN children[n] ELSE ids
           s == Line(tree, walk, n)
<1>0. g.of = n /\ g.slots = Slots(n) /\ g.item = None
  OBVIOUS
<1>1. /\ children[n] \in Seq(Node) /\ L \in Nat /\ DOMAIN children[n] = 1 .. L
      /\ \A i \in 1 .. L : children[n][i] \in Node
      /\ children[n] \in Seq(Node \cup Nat)
  <2>1. children[n] \in Seq(Node)
    BY WalkFacts
  <2>2. children[n] \in Seq(Node \cup Nat)
    BY <2>1, SeqMonotonic
  <2> QED  BY <2>1, <2>2, LenProperties, ElementOfSeq
<1>2. CASE n \notin walk.explore
  <2>1. g.slots = <<>>
    BY <1>0, <1>2 DEF Slots
  <2>2. Len(<<>>) = 0 /\ <<>> \in Seq(Node \cup Nat)
    BY EmptySeq
  <2>3. Len(s) = 0
    BY <1>2, LineFacts
  <2>4. g \in Generator
    BY <2>1, <2>2 DEF Generator
  <2>5. Place(tree, walk, g) = 0
    BY <1>0, <2>1, <2>2, <2>3 DEF Place
  <2>6. Len(g.slots) = 0 /\ \A m : m \notin 1 .. 0
    BY <2>1, <2>2
  <2>7. Slotted(tree, walk, n, g) /\ Held(tree, children, walk, g)
    BY <1>0, <2>3, <2>6 DEF Slotted, Held
  <2> QED  BY <2>4, <2>5, <2>7
<1>3. CASE n \in walk.explore
  <2>1. ids \in Seq(Node \cup Nat) /\ Len(ids) = L /\ \A i \in 1 .. L : ids[i] = i
    <3>1. ids \in [1 .. L -> Node \cup Nat] /\ DOMAIN ids = 1 .. L /\ \A i \in 1 .. L : ids[i] = i
      BY <1>1
    <3> HIDE DEF ids, L
    <3>2. ids \in Seq(Node \cup Nat)
      BY <1>1, <3>1, SeqDef
    <3> QED  BY <1>1, <3>1, <3>2, LenProperties
  <2>2. base \in Seq(Node \cup Nat) /\ Len(base) = L
    BY <1>1, <2>1
  <2>3. \A i \in 1 .. L : base[i] = IF walk.siblings = "Reversed" THEN children[n][i] ELSE i
    BY <2>1
  <2>4. Slots(n) = IF walk.siblings = "Forward" THEN base ELSE Reverse(base)
    BY <1>1, <1>3 DEF Slots, ChildSlots, InOrder
  <2> HIDE DEF base, ids
  <2>5. /\ Reverse(base) \in Seq(Node \cup Nat) /\ Len(Reverse(base)) = Len(base)
        /\ \A i \in 1 .. Len(base) : Reverse(base)[i] = base[Len(base) + 1 - i]
    BY <2>2, ReverseProperties
  <2>6. \A i \in 1 .. L : L + 1 - i \in 1 .. L
    BY <1>1
  <2>7. /\ Slots(n) \in Seq(Node \cup Nat) /\ Len(Slots(n)) = L
        /\ \A i \in 1 .. L :
              /\ walk.siblings = "Forward" => Slots(n)[i] = i
              /\ walk.siblings = "Reversed" => Slots(n)[i] = children[n][L + 1 - i]
              /\ walk.siblings = "Backward" => Slots(n)[i] = L + 1 - i
    <3>1. \A i \in 1 .. L : Slots(n)[i] = IF walk.siblings = "Forward" THEN base[i] ELSE base[L + 1 - i]
      BY <2>2, <2>4, <2>5
    <3>2. Slots(n) \in Seq(Node \cup Nat) /\ Len(Slots(n)) = L
      BY <2>2, <2>4, <2>5
    <3> HIDE DEF L
    <3> QED  BY <2>3, <2>6, <3>1, <3>2
  <2>8. g \in Generator
    BY <2>7 DEF Generator
  <2>9. ASSUME children[n] = tree[n]
        PROVE  Slotted(tree, walk, n, g) /\ Held(tree, children, walk, g) /\ Place(tree, walk, g) = 0
    <3>1. /\ Len(s) = L
          /\ \A i \in 1 .. L : walk.siblings # "Forward" => s[i] = children[n][L + 1 - i]
      BY <1>3, <2>9, LineFacts
    <3>2. walk.siblings \in Siblings
      BY WalkFacts
    <3>3. Place(tree, walk, g) = 0
      BY <1>0, <1>1, <2>7, <3>1 DEF Place
    <3>4. ASSUME NEW m \in 1 .. L PROVE Slots(n)[m] = SlotOf(tree, walk, n, m)
      BY <2>7, <3>1, <3>2 DEF SlotOf, Siblings
    <3>5. Slotted(tree, walk, n, g)
      <4>1. \A m \in 1 .. L : 0 + m = m
        BY <1>1
      <4> QED  BY <1>0, <1>1, <2>7, <3>1, <3>3, <3>4, <4>1 DEF Slotted
    <3>6. ASSUME walk.siblings # "Reversed", NEW k \in 1 .. L
          PROVE  Slots(n)[k] \in 1 .. L
      BY <2>6, <2>7, <3>2, <3>6 DEF Siblings
    <3>7. Held(tree, children, walk, g)
      BY <1>0, <1>1, <2>7, <2>9, <3>6 DEF Held
    <3> QED  BY <3>3, <3>5, <3>7
  <2> QED  BY <2>8, <2>9
<1> QED  BY <1>2, <1>3

\* The next item of a generator is the first of the rest of its line that
\* passes exclude_if, although nodes have been removed meanwhile.
LEMMA AdvanceStep ==
    ASSUME TypeOK, NEW n \in Node, NEW g \in Generator, Slotted(tree, walk, n, g), Held(tree, children, walk, g),
           \A j \in 1 .. Place(tree, walk, g) : Line(tree, walk, n)[j] # walk.throw,
           NEW h \in Advanced(g)
    PROVE  /\ h \in Generator /\ h.of = n
           /\ Fits(tree, walk, n, h)
           /\ Held(tree, children, walk, h)
           /\ Coming(tree, walk, h) = Behind(walk, Line(tree, walk, n), Place(tree, walk, g))
           /\ Done(tree, walk, h) >= Place(tree, walk, g)
<1> DEFINE s == Line(tree, walk, n)
           L == Len(s)
           m == Len(g.slots)
           p == Place(tree, walk, g)
<1>1. s \in Seq(Node) /\ L \in Nat /\ \A i \in 1 .. L : s[i] \in Node
  BY LineFacts
<1>2. /\ g.of = n /\ m <= L /\ \A k \in 1 .. m : g.slots[k] = SlotOf(tree, walk, n, p + k)
      /\ p = L - m
  BY DEF Slotted, Place
<1>3. g.slots \in Seq(Node \cup Nat) /\ m \in Nat
  BY LenProperties DEF Generator
<1>4. p \in 0 .. L /\ p + m = L /\ \A k \in 1 .. m : p + k \in 1 .. L
  BY <1>1, <1>2, <1>3
<1>5. h \in Generator /\ h.of = n
  BY <1>2, AdvancedType
<1>6. \A j \in 1 .. p : s[j] # walk.throw
  OBVIOUS
<1> HIDE DEF m, p
<1>7. ASSUME NEW k \in 1 .. m PROVE Reads(g.of, g.slots[k]) = {s[p + k]}
  <2>1. n \in walk.explore
    BY <1>2, <1>4, LineFacts
  <2>2. CASE walk.siblings = "Reversed"
    BY <1>2, <2>2 DEF Reads, SlotOf
  <2>3. CASE walk.siblings # "Reversed"
    <3>1. g.slots[k] \in DOMAIN children[n] /\ children[n][g.slots[k]] = tree[n][g.slots[k]]
      BY <1>2, <2>3 DEF Held, m
    <3>2. tree[n][g.slots[k]] = s[p + k]
      <4>1. walk.siblings = "Forward" => g.slots[k] = p + k
        BY <1>2, <2>3 DEF SlotOf
      <4>2. walk.siblings # "Forward" => g.slots[k] = L + 1 - (p + k)
        BY <1>2, <2>3 DEF SlotOf
      <4>3. /\ walk.siblings = "Forward" => s[p + k] = tree[n][p + k]
            /\ walk.siblings # "Forward" => s[p + k] = tree[n][L + 1 - (p + k)]
        BY <1>4, <2>1, LineFacts
      <4> QED  BY <4>1, <4>2, <4>3
    <3> QED  BY <1>2, <2>3, <3>1, <3>2 DEF Reads
  <2> QED  BY <2>2, <2>3
<1>8. ASSUME NEW k \in 0 .. m, Skips(g, k), NEW j \in p + 1 .. p + k
      PROVE  s[j] \notin walk.admit /\ s[j] # walk.throw
  <2>1. j - p \in 1 .. k /\ j - p \in 1 .. m /\ p + (j - p) = j
    BY <1>1, <1>3, <1>4
  <2>2. \E x \in Reads(g.of, g.slots[j - p]) : x \notin walk.admit /\ ~Throws(x)
    BY <1>8, <2>1 DEF Skips
  <2> QED  BY <1>7, <2>1, <2>2 DEF Throws
<1>9. ASSUME NEW k \in 1 .. m, Skips(g, k - 1),
             h.item \in Reads(g.of, g.slots[k]) \cap walk.admit, ~Throws(h.item),
             h = [of |-> g.of, slots |-> SubSeq(g.slots, k + 1, m), item |-> h.item]
      PROVE  /\ Fits(tree, walk, n, h) /\ Held(tree, children, walk, h)
             /\ Coming(tree, walk, h) = Behind(walk, s, p)
             /\ Done(tree, walk, h) >= p
  <2>1. h.item = s[p + k] /\ h.item \in Node /\ h.item # None /\ s[p + k] \in walk.admit
        /\ s[p + k] # walk.throw
    BY <1>1, <1>4, <1>7, <1>9, NodeAssumption DEF Throws
  <2>2. \A i \in k + 1 .. m : g.slots[i] \in Node \cup Nat
    BY <1>3, ElementOfSeq DEF m
  <2>3. /\ Len(h.slots) = m - k
        /\ \A i \in 1 .. m - k : h.slots[i] = g.slots[k + i]
    <3> DEFINE rest == SubSeq(g.slots, k + 1, m)
    <3>1. k + 1 \in Int /\ m \in Int
      BY <1>3
    <3>2. /\ Len(rest) = IF k + 1 <= m THEN m - (k + 1) + 1 ELSE 0
          /\ \A i \in 1 .. m - (k + 1) + 1 : rest[i] = g.slots[k + 1 + i - 1]
      BY <2>2, <3>1, SubSeqProperties
    <3>3. h.slots = rest
      BY <1>9
    <3>4. m - (k + 1) + 1 = m - k /\ \A i \in 1 .. m - k : k + 1 + i - 1 = k + i
      BY <1>3
    <3> HIDE DEF rest
    <3> QED  BY <1>3, <3>2, <3>3, <3>4
  <2>4. Place(tree, walk, h) = p + k
    <3>1. Place(tree, walk, h) = L - (m - k)
      BY <1>5, <2>3 DEF Place
    <3> QED  BY <1>1, <1>2, <1>3, <3>1
  <2>5. \A i \in 1 .. m - k : k + i \in 1 .. m /\ p + (k + i) = (p + k) + i
    BY <1>3, <1>4
  <2>6. Slotted(tree, walk, n, h)
    <3>1. m - k <= L
      BY <1>1, <1>2, <1>3
    <3>2. \A i \in 1 .. m - k : h.slots[i] = SlotOf(tree, walk, n, (p + k) + i)
      BY <1>2, <2>3, <2>5
    <3> QED  BY <1>5, <2>3, <2>4, <3>1, <3>2 DEF Slotted
  <2>7. \A j \in 1 .. p + k : s[j] # walk.throw
    <3>1. ASSUME NEW j \in 1 .. p + k PROVE s[j] # walk.throw
      <4>1. k - 1 \in 0 .. m /\ (j \in 1 .. p \/ j \in p + 1 .. p + (k - 1) \/ j = p + k)
        BY <1>3, <1>4
      <4> QED  BY <1>6, <1>8, <1>9, <2>1, <4>1
    <3> QED  BY <3>1
  <2>8. Passes(walk, s, p + k)
    BY <2>1, <2>7 DEF Passes
  <2>9. Fits(tree, walk, n, h)
    <3>1. p + k > 0
      BY <1>3, <1>4
    <3> QED  BY <2>1, <2>4, <2>6, <2>8, <3>1 DEF Fits
  <2>10. Held(tree, children, walk, h)
    BY <1>5, <1>2, <2>3, <2>5 DEF Held, m
  <2>11. Behind(walk, s, p) = Behind(walk, s, p + k - 1)
    <3>1. p + k - 1 \in p .. L /\ k - 1 \in 0 .. m /\ p + k - 1 = p + (k - 1)
      BY <1>1, <1>3, <1>4
    <3>2. \A j \in p + 1 .. p + k - 1 : ~Passes(walk, s, j)
      BY <1>8, <1>9, <3>1 DEF Passes
    <3> QED  BY <1>1, <1>4, <3>1, <3>2, BehindSkips
  <2>12. Behind(walk, s, p + k - 1) = <<s[p + k]>> \o Behind(walk, s, p + k)
    <3>1. p + k - 1 \in 0 .. L - 1 /\ (p + k - 1) + 1 = p + k
      BY <1>1, <1>3, <1>4
    <3>2. Piece(walk, s, p + k) = <<s[p + k]>>
      BY <2>8 DEF Piece
    <3>3. Behind(walk, s, p + k - 1) = Piece(walk, s, (p + k - 1) + 1) \o Behind(walk, s, (p + k - 1) + 1)
      BY <1>1, <3>1, BehindFacts
    <3> QED  BY <3>1, <3>2, <3>3
  <2>13. Coming(tree, walk, h) = <<s[p + k]>> \o Behind(walk, s, p + k)
    BY <1>5, <2>1, <2>4 DEF Coming
  <2>14. Done(tree, walk, h) = p + k - 1 /\ p + k - 1 >= p
    BY <1>3, <1>4, <2>1, <2>4 DEF Done
  <2> QED  BY <2>9, <2>10, <2>11, <2>12, <2>13, <2>14
<1>10. ASSUME \/ Skips(g, m)
              \/ \E k \in 1 .. m : Skips(g, k - 1) /\ \E x \in Reads(g.of, g.slots[k]) : Throws(x),
              h = [of |-> g.of, slots |-> <<>>, item |-> None]
       PROVE  /\ Fits(tree, walk, n, h) /\ Held(tree, children, walk, h)
              /\ Coming(tree, walk, h) = Behind(walk, s, p)
              /\ Done(tree, walk, h) >= p
  <2>1. h.slots = <<>> /\ Len(h.slots) = 0 /\ h.item = None
    BY <1>10
  <2>2. Place(tree, walk, h) = L
    BY <1>1, <1>5, <2>1 DEF Place
  <2>3. Fits(tree, walk, n, h) /\ Held(tree, children, walk, h)
    BY <1>1, <1>5, <2>1 DEF Fits, Slotted, Held
  <2>4. \A j \in p + 1 .. L : ~Passes(walk, s, j)
    <3>1. ASSUME Skips(g, m), NEW j \in p + 1 .. L PROVE ~Passes(walk, s, j)
      <4>1. m \in 0 .. m /\ j \in p + 1 .. p + m
        BY <1>3, <1>4
      <4> QED  BY <1>8, <3>1, <4>1 DEF Passes
    <3>2. ASSUME NEW k \in 1 .. m, Skips(g, k - 1), NEW x \in Reads(g.of, g.slots[k]), Throws(x),
                 NEW j \in p + 1 .. L
          PROVE  ~Passes(walk, s, j)
      <4>1. k - 1 \in 0 .. m /\ (j \in p + 1 .. p + (k - 1) \/ p + k \in 1 .. j)
        BY <1>1, <1>3, <1>4
      <4>2. s[p + k] = walk.throw
        BY <1>7, <3>2 DEF Throws
      <4> QED  BY <1>8, <3>2, <4>1, <4>2 DEF Passes
    <3> QED  BY <1>10, <3>1, <3>2
  <2>5. Behind(walk, s, p) = <<>> /\ Behind(walk, s, L) = <<>>
    <3>1. L \in p .. L
      BY <1>1, <1>4
    <3>2. Behind(walk, s, p) = Behind(walk, s, L)
      BY <1>1, <1>4, <2>4, <3>1, BehindSkips
    <3>3. Behind(walk, s, L) = <<>>
      BY <1>1, BehindFacts
    <3> QED  BY <3>2, <3>3
  <2>6. Coming(tree, walk, h) = <<>> \o <<>>
    BY <1>5, <2>1, <2>2, <2>5 DEF Coming
  <2>7. <<>> \o <<>> = <<>>
    OBVIOUS
  <2>8. Done(tree, walk, h) = L /\ L >= p
    BY <1>1, <1>4, <2>1, <2>2 DEF Done
  <2> QED  BY <2>3, <2>5, <2>6, <2>7, <2>8
<1>11. \/ \E k \in 1 .. m :
             /\ Skips(g, k - 1)
             /\ h.item \in Reads(g.of, g.slots[k]) \cap walk.admit
             /\ ~Throws(h.item)
             /\ h = [of |-> g.of, slots |-> SubSeq(g.slots, k + 1, m), item |-> h.item]
       \/ /\ \/ Skips(g, m)
             \/ \E k \in 1 .. m : Skips(g, k - 1) /\ \E x \in Reads(g.of, g.slots[k]) : Throws(x)
          /\ h = [of |-> g.of, slots |-> <<>>, item |-> None]
  BY AdvancedIs DEF m
<1> QED  BY <1>5, <1>9, <1>10, <1>11 DEF p

\* exclude_if lets pass, of a whole list, what passes behind its place 0.
LEMMA AdmittedIs ==
    ASSUME NEW s \in Seq(Node)
    PROVE  Admitted(s) = Behind(walk, s, 0) /\ Admitted(s) \in Seq(Node)
<1> DEFINE a == [i \in DOMAIN s |->
                    IF s[i] \in walk.admit /\ \A j \in 1 .. i : ~Throws(s[j]) THEN <<s[i]>> ELSE <<>>]
           b == [i \in 1 .. Len(s) - 0 |-> Piece(walk, s, 0 + i)]
<1>1. Len(s) \in Nat /\ DOMAIN s = 1 .. Len(s) /\ Len(s) - 0 = Len(s) /\ 0 \in 0 .. Len(s)
  BY LenProperties
<1>2. \A i \in 1 .. Len(s) : 0 + i = i
  BY <1>1
<1>3. a = b
  BY <1>1, <1>2 DEF Piece, Passes, Throws
<1>4. Admitted(s) = FlattenSeq(a) /\ Behind(walk, s, 0) = FlattenSeq(b)
  BY DEF Admitted, Behind
<1> HIDE DEF a, b
<1>5. Behind(walk, s, 0) \in Seq(Node)
  BY <1>1, BehindFacts
<1> QED  BY <1>3, <1>4, <1>5

\* The successors that bfs queues.
Found(n) == IF n \in walk.explore THEN Admitted(InOrder(children[n])) ELSE <<>>

\* What bfs finds below a node that has all its children is what is born there.
LEMMA FoundIs ==
    ASSUME TypeOK, NEW n \in Node
    PROVE  /\ Found(n) \in Seq(Node) /\ Born(n) \in Seq(Node)
           /\ Born(n) = Births(tree, walk, n)
           /\ children[n] = tree[n] => Found(n) = Births(tree, walk, n)
<1>1. tree[n] \in Seq(Node) /\ children[n] \in Seq(Node)
  BY WalkFacts
<1>2. InOrder(tree[n]) \in Seq(Node) /\ InOrder(children[n]) \in Seq(Node)
  BY <1>1, ReverseProperties DEF InOrder
<1>3. <<>> \in Seq(Node) /\ Behind(walk, <<>>, 0) = <<>>
  <2>1. <<>> \in Seq(Node) /\ Len(<<>>) = 0
    BY EmptySeq
  <2>2. Behind(walk, <<>>, Len(<<>>)) = <<>>
    BY <2>1, BehindFacts
  <2> QED  BY <2>1, <2>2
<1>4. CASE n \in walk.explore
  <2>1. Line(tree, walk, n) = InOrder(tree[n])
    BY <1>4 DEF Line, InOrder
  <2>2. Born(n) = Admitted(InOrder(tree[n])) /\ Found(n) = Admitted(InOrder(children[n]))
    BY <1>4 DEF Born, Found
  <2>3. /\ Admitted(InOrder(tree[n])) = Behind(walk, InOrder(tree[n]), 0)
        /\ Admitted(InOrder(tree[n])) \in Seq(Node)
        /\ Admitted(InOrder(children[n])) \in Seq(Node)
    BY <1>2, AdmittedIs
  <2>4. children[n] = tree[n] => InOrder(children[n]) = InOrder(tree[n])
    BY DEF InOrder
  <2> QED  BY <2>1, <2>2, <2>3, <2>4 DEF Births
<1>5. CASE n \notin walk.explore
  <2>1. Line(tree, walk, n) = <<>> /\ Born(n) = <<>> /\ Found(n) = <<>>
    BY <1>5 DEF Line, Born, Found
  <2> QED  BY <1>3, <2>1 DEF Births
<1> QED  BY <1>4, <1>5

-----------------------------------------------------------------------------
(* The steps *)

Frame == [node : Node, successors : Generator]

\* What going below c does to the path, whose frames were those of `below'.
Deeper(below, c) ==
    \E h \in Successors(c) :
        /\ stack' = Append(below, [node |-> c, successors |-> h])
        /\ h \in Generator
        /\ stack' \in Seq(Frame) /\ Len(stack') = Len(below) + 1
        /\ \A i \in 1 .. Len(below) : stack'[i] = below[i]
        /\ stack'[Len(below) + 1] = [node |-> c, successors |-> h]

\* Going below c puts one frame on the path, and gives c if parents come first.
LEMMA EnterIs ==
    ASSUME TypeOK, NEW below \in Seq(Frame), NEW c \in Node, Enter(below, c)
    PROVE  /\ Deeper(below, c)
           /\ queue' = queue
           /\ walk.visit = "ShallowFirst" => yielded' = Append(yielded, c) /\ mode' = "given"
           /\ walk.visit # "ShallowFirst" => yielded' = yielded /\ mode' = "running"
<1>1. PICK h \in Successors(c) : stack' = Append(below, [node |-> c, successors |-> h])
  BY DEF Enter
<1> DEFINE g == [of |-> c, slots |-> Slots(c), item |-> None]
           f == [node |-> c, successors |-> h]
<1>2. g \in Generator
  BY NewGenerator
<1>3. h \in Advanced(g)
  BY <1>1 DEF Successors
<1> HIDE DEF g
<1>4. h \in Generator
  BY <1>2, <1>3, AdvancedType
<1>5. f \in Frame
  BY <1>4 DEF Frame
<1> HIDE DEF f
<1>6. /\ Append(below, f) \in Seq(Frame) /\ Len(Append(below, f)) = Len(below) + 1
      /\ \A i \in 1 .. Len(below) : Append(below, f)[i] = below[i]
      /\ Append(below, f)[Len(below) + 1] = f
  BY <1>5, AppendProperties
<1>7. stack' = Append(below, f)
  BY <1>1 DEF f
<1>8. Deeper(below, c)
  <2>1. /\ stack' = Append(below, f) /\ h \in Generator
        /\ stack' \in Seq(Frame) /\ Len(stack') = Len(below) + 1
        /\ \A i \in 1 .. Len(below) : stack'[i] = below[i]
        /\ stack'[Len(below) + 1] = f
    BY <1>4, <1>6, <1>7
  <2> QED  BY <1>1, <2>1 DEF Deeper, f
<1> QED  BY <1>8 DEF Enter, Yield

\* The path when its last generator is advanced to g.
Moved(g) == Append(Front(stack), [Last(stack) EXCEPT !.successors = g])

\* Advancing the last generator changes the last frame only.
LEMMA MovedIs ==
    ASSUME TypeOK, stack # <<>>, NEW g \in Generator
    PROVE  /\ Len(stack) \in Nat \ {0} /\ Last(stack) = stack[Len(stack)]
           /\ stack[Len(stack)] \in Frame
           /\ Moved(g) \in Seq(Frame) /\ Len(Moved(g)) = Len(stack)
           /\ \A i \in 1 .. Len(stack) - 1 : Moved(g)[i] = stack[i]
           /\ Moved(g)[Len(stack)] = [node |-> stack[Len(stack)].node, successors |-> g]
           /\ Front(stack) \in Seq(Frame) /\ Len(Front(stack)) = Len(stack) - 1
           /\ \A i \in 1 .. Len(stack) - 1 : Front(stack)[i] = stack[i]
<1> DEFINE top == Last(stack)
           f == [node |-> top.node, successors |-> g]
<1>1. stack \in Seq(Frame)
  BY DEF TypeOK, Frame
<1>2. /\ Len(stack) \in Nat \ {0} /\ Last(stack) = stack[Len(stack)] /\ stack[Len(stack)] \in Frame
      /\ Front(stack) \in Seq(Frame) /\ Len(Front(stack)) = Len(stack) - 1
      /\ \A i \in 1 .. Len(stack) - 1 : Front(stack)[i] = stack[i]
  BY <1>1, FrontProperties
<1>3. [top EXCEPT !.successors = g] = f /\ f \in Frame
  BY <1>2 DEF Frame
<1> HIDE DEF f
<1>4. /\ Append(Front(stack), f) \in Seq(Frame)
      /\ Len(Append(Front(stack), f)) = Len(Front(stack)) + 1
      /\ \A i \in 1 .. Len(Front(stack)) : Append(Front(stack), f)[i] = Front(stack)[i]
      /\ Append(Front(stack), f)[Len(Front(stack)) + 1] = f
  BY <1>2, <1>3, AppendProperties
<1>5. Moved(g) = Append(Front(stack), f)
  BY <1>3 DEF Moved
<1>6. Len(Front(stack)) + 1 = Len(stack)
  BY <1>2
<1>7. f = [node |-> stack[Len(stack)].node, successors |-> g]
  BY <1>2 DEF f
<1>8. \A i \in 1 .. Len(stack) - 1 : Moved(g)[i] = stack[i]
  BY <1>2, <1>4, <1>5
<1> QED  BY <1>2, <1>4, <1>5, <1>6, <1>7, <1>8

\* Descend, step by step.
LEMMA DescendIs ==
    ASSUME TypeOK, Descend
    PROVE  /\ stack # <<>> /\ stack[Len(stack)].successors.item \in Node
           /\ \E g \in Advanced(stack[Len(stack)].successors) :
                 /\ g \in Generator
                 /\ Deeper(Moved(g), stack[Len(stack)].successors.item)
           /\ mode = "running"
           /\ UNCHANGED <<tree, children, walk, queue>>
           /\ walk.visit = "ShallowFirst" =>
                 /\ yielded' = Append(yielded, stack[Len(stack)].successors.item)
                 /\ mode' = "given"
           /\ walk.visit # "ShallowFirst" => yielded' = yielded /\ mode' = "running"
<1> DEFINE top == Last(stack)
           c == top.successors.item
<1>1. stack # <<>> /\ mode = "running" /\ HasItem(top.successors)
  BY DEF Descend
<1>2. PICK g \in Advanced(top.successors) :
         Enter(Append(Front(stack), [top EXCEPT !.successors = g]), c)
  BY DEF Descend
<1>3. Last(stack) = stack[Len(stack)] /\ stack[Len(stack)] \in Frame
  <2>1. stack \in Seq(Frame)
    BY DEF TypeOK, Frame
  <2> QED  BY <1>1, <2>1, FrontProperties
<1>4. top.successors \in Generator
  BY <1>3 DEF Frame
<1>5. c \in Node
  BY <1>1, <1>4 DEF HasItem, Generator
<1>6. g \in Generator
  BY <1>2, <1>4, AdvancedType
<1>7. Enter(Moved(g), c)
  BY <1>2 DEF Moved
<1>8. Moved(g) \in Seq(Frame)
  BY <1>1, <1>6, MovedIs
<1> HIDE DEF c
<1>9. /\ Deeper(Moved(g), c)
      /\ queue' = queue
      /\ walk.visit = "ShallowFirst" => yielded' = Append(yielded, c) /\ mode' = "given"
      /\ walk.visit # "ShallowFirst" => yielded' = yielded /\ mode' = "running"
  BY <1>5, <1>7, <1>8, EnterIs
<1>10. UNCHANGED <<tree, children, walk>>
  BY DEF Descend
<1> QED  BY <1>1, <1>2, <1>3, <1>5, <1>6, <1>9, <1>10 DEF c

\* Serve, with the queue taken apart.
LEMMA ServeIs ==
    ASSUME TypeOK, Serve
    PROVE  /\ queue # <<>> /\ Head(queue) \in Node /\ Tail(queue) \in Seq(Node)
           /\ mode = "running" /\ mode' = "given"
           /\ queue = <<Head(queue)>> \o Tail(queue)
           /\ queue' = Tail(queue) \o Found(Head(queue))
           /\ yielded' = Append(yielded, Head(queue))
           /\ UNCHANGED <<tree, children, walk, stack>>
<1>1. queue \in Seq(Node) /\ queue # <<>> /\ mode = "running"
  BY DEF TypeOK, Serve
<1>2. Head(queue) \in Node /\ Tail(queue) \in Seq(Node)
  BY <1>1, HeadTailProperties
<1>3. queue = <<Head(queue)>> \o Tail(queue)
  <2> DEFINE one == <<Head(queue)>>
  <2>1. one \in Seq(Node) /\ Len(one) = 1 /\ one[1] = Head(queue)
    BY <1>2, SingleSeq
  <2> HIDE DEF one
  <2>2. /\ one \o Tail(queue) \in Seq(Node) /\ Len(one \o Tail(queue)) = 1 + Len(Tail(queue))
        /\ \A i \in 1 .. 1 + Len(Tail(queue)) :
              (one \o Tail(queue))[i] = IF i <= 1 THEN one[i] ELSE Tail(queue)[i - 1]
    <3>1. /\ one \o Tail(queue) \in Seq(Node) /\ Len(one \o Tail(queue)) = Len(one) + Len(Tail(queue))
          /\ \A i \in 1 .. Len(one) + Len(Tail(queue)) :
                (one \o Tail(queue))[i] = IF i <= Len(one) THEN one[i] ELSE Tail(queue)[i - Len(one)]
      BY <1>2, <2>1, ConcatProperties
    <3> QED  BY <2>1, <3>1
  <2>3. /\ Len(Tail(queue)) = Len(queue) - 1 /\ Len(queue) \in Nat \ {0}
        /\ \A i \in 1 .. Len(Tail(queue)) : Tail(queue)[i] = queue[i + 1]
    BY <1>1, HeadTailProperties, EmptySeq
  <2>4. ASSUME NEW i \in 1 .. Len(queue) PROVE queue[i] = (one \o Tail(queue))[i]
    <3>1. CASE i = 1
      <4>1. Head(queue) = queue[1]
        BY <1>1
      <4> QED  BY <2>1, <2>2, <2>3, <3>1, <4>1
    <3>2. CASE i # 1
      <4>1. i - 1 \in 1 .. Len(Tail(queue)) /\ (i - 1) + 1 = i /\ ~ (i <= 1) /\ i \in 1 .. 1 + Len(Tail(queue))
        BY <2>3, <3>2
      <4> QED  BY <2>2, <2>3, <4>1
    <3> QED  BY <3>1, <3>2
  <2>5. Len(one \o Tail(queue)) = Len(queue)
    BY <2>2, <2>3
  <2>6. queue = one \o Tail(queue)
    BY <1>1, <2>2, <2>4, <2>5, SeqEqual
  <2> QED  BY <2>6 DEF one
<1>4. /\ queue' = Tail(queue) \o Found(Head(queue))
      /\ yielded' = Append(yielded, Head(queue)) /\ mode' = "given"
      /\ UNCHANGED <<tree, children, walk, stack>>
  BY DEF Serve, Queued, Found, Yield
<1> QED  BY <1>1, <1>2, <1>3, <1>4

\* TypeOK holds: whatever the client removes, and in whatever order.
LEMMA TypeStep ==
    ASSUME TypeOK, [Next]_vars
    PROVE  TypeOK'
<1> USE DEF TypeOK
<1>0. stack \in Seq(Frame) /\ <<>> \in Seq(Frame)
  BY EmptySeq DEF Frame
<1>1. CASE Begin
  <2>1. CASE Root \notin walk.admit
    BY <1>1, <2>1 DEF Begin
  <2>2. CASE Root \in walk.admit /\ walk.visit = "Breadth"
    <3>1. <<Root>> \in Seq(Node)
      BY NodeAssumption, SingleSeq
    <3> QED  BY <1>1, <2>2, <3>1 DEF Begin
  <2>3. CASE Root \in walk.admit /\ walk.visit # "Breadth"
    <3>1. Enter(<<>>, Root) /\ UNCHANGED <<tree, children, walk>>
      BY <1>1, <2>3 DEF Begin
    <3>2. /\ Deeper(<<>>, Root) /\ queue' = queue
          /\ \/ yielded' = Append(yielded, Root) /\ mode' = "given"
             \/ yielded' = yielded /\ mode' = "running"
      <4> HIDE DEF TypeOK
      <4> QED  BY <1>0, <3>1, NodeAssumption, EnterIs
    <3>3. stack' \in Seq(Frame)
      BY <3>2 DEF Deeper
    <3>4. Append(yielded, Root) \in Seq(Node)
      BY NodeAssumption, AppendProperties
    <3> QED  BY <3>1, <3>2, <3>3, <3>4 DEF Frame
  <2> QED  BY <2>1, <2>2, <2>3
<1>2. CASE Descend
  <2> DEFINE c == stack[Len(stack)].successors.item
  <2>1. /\ c \in Node /\ UNCHANGED <<tree, children, walk, queue>>
        /\ \E g \in Generator : Deeper(Moved(g), c)
        /\ (yielded' = Append(yielded, c) /\ mode' = "given") \/ (yielded' = yielded /\ mode' = "running")
    <3> HIDE DEF TypeOK
    <3> QED  BY <1>2, DescendIs
  <2>2. stack' \in Seq(Frame)
    BY <2>1 DEF Deeper
  <2> HIDE DEF c
  <2>3. Append(yielded, c) \in Seq(Node)
    BY <2>1, AppendProperties
  <2> QED  BY <2>1, <2>2, <2>3 DEF Frame
<1>3. CASE Ascend
  <2>1. Front(stack) \in Seq(Frame) /\ Last(stack).node \in Node
    <3>1. stack # <<>>
      BY <1>3 DEF Ascend
    <3>2. /\ Front(stack) \in Seq(Frame)
          /\ Last(stack) = stack[Len(stack)] /\ stack[Len(stack)] \in Frame
      BY <1>0, <3>1, FrontProperties
    <3> QED  BY <3>2 DEF Frame
  <2>2. Append(yielded, Last(stack).node) \in Seq(Node)
    BY <2>1, AppendProperties
  <2> QED  BY <1>3, <2>1, <2>2 DEF Ascend, Popped, Yield, Frame
<1>4. CASE Serve
  <2>1. /\ Head(queue) \in Node /\ Tail(queue) \in Seq(Node) /\ mode' = "given"
        /\ queue' = Tail(queue) \o Found(Head(queue))
        /\ yielded' = Append(yielded, Head(queue))
        /\ UNCHANGED <<tree, children, walk, stack>>
        /\ Found(Head(queue)) \in Seq(Node)
    <3> HIDE DEF TypeOK
    <3> QED  BY <1>4, ServeIs, FoundIs
  <2>2. Tail(queue) \o Found(Head(queue)) \in Seq(Node)
    BY <2>1, ConcatProperties
  <2>3. Append(yielded, Head(queue)) \in Seq(Node)
    BY <2>1, AppendProperties
  <2> QED  BY <2>1, <2>2, <2>3
<1>5. CASE End
  BY <1>5 DEF End
<1>6. CASE Resume
  BY <1>6 DEF Resume
<1>7. CASE \E p \in Node : \E i \in DOMAIN children[p] : Unparent(p, i)
  <2>1. PICK p \in Node : \E i \in DOMAIN children[p] : Unparent(p, i)
    BY <1>7
  <2>4. PICK i \in DOMAIN children[p] : Unparent(p, i)
    BY <2>1
  <2>2. children[p] \in Seq(Node) /\ i \in 1 .. Len(children[p])
    BY <2>1, LenProperties
  <2>3. RemoveAt(children[p], i) \in Seq(Node)
    BY <2>2, RemoveAtProperties
  <2> QED  BY <2>3, <2>4 DEF Unparent
<1>8. CASE UNCHANGED vars
  BY <1>8 DEF vars
<1> QED  BY <1>1, <1>2, <1>3, <1>4, <1>5, <1>6, <1>7, <1>8 DEF Next, Run

\* The first state.
LEMMA InitFacts ==
    ASSUME Init
    PROVE  TypeOK /\ Shape /\ mode = "new"
<1>1. /\ tree \in Trees /\ tree \in [Node -> Seq(Node)] /\ children = tree
      /\ <<>> \in Seq(Node) /\ <<>> \in Seq(Frame)
  BY TreesAssumption, EmptySeq DEF Init
<1>2. PICK v \in Visits, s \in Siblings, f \in Filters :
         walk = [visit |-> v, siblings |-> s,
                 admit |-> f.admit, explore |-> f.explore, throw |-> f.throw]
  BY DEF Init
<1>3. f \in [admit : SUBSET Node, explore : SUBSET Node, throw : (Node \ {Root}) \cup {None}]
  BY FiltersAssumption
<1>4. /\ f.admit \in SUBSET Node /\ f.explore \in SUBSET Node /\ f.throw \in Node \cup {None}
  BY <1>3
<1>5. walk \in [visit : Visits, siblings : Siblings, admit : SUBSET Node, explore : SUBSET Node,
                throw : Node \cup {None}]
  BY <1>2, <1>4
<1>6. TypeOK
  BY <1>1, <1>5 DEF Init, TypeOK, Frame
<1>7. Shape
  BY DEF Init, Shape, OnlyRemoved, Untouched, Walking
<1> QED  BY <1>6, <1>7 DEF Init

\* The variables of a walk keep their types, for every tree and every filter.
THEOREM WalkTypeCorrect == Spec => []TypeOK
<1>1. Init => TypeOK
  BY InitFacts
<1>2. TypeOK /\ [Next]_vars => TypeOK'
  BY TypeStep
<1> QED  BY <1>1, <1>2, PTL DEF Spec

-----------------------------------------------------------------------------
(* How dfs keeps its shape *)

\* What a generator has still to give is a child of its node, at a place of its line.
LEMMA AheadFacts ==
    ASSUME TypeOK, NEW n \in Node, NEW g, g.of = n, NEW c, Ahead(tree, walk, g, c),
           Fits(tree, walk, n, g), Len(g.slots) \in Nat
    PROVE  /\ c \in Range(tree[n]) /\ c \in Node
           /\ \E j \in 1 .. Len(Line(tree, walk, n)) :
                 j > Done(tree, walk, g) /\ c = Line(tree, walk, n)[j]
<1> DEFINE s == Line(tree, walk, n)
<1>1. /\ s \in Seq(Node) /\ Len(s) \in Nat /\ Range(s) \subseteq Range(tree[n])
      /\ \A i \in 1 .. Len(s) : s[i] \in Node
  BY LineFacts
<1>2. Done(tree, walk, g) \in Nat
  <2>1. Place(tree, walk, g) \in Nat
    BY <1>1 DEF Place, Fits, Slotted
  <2>2. g.item # None => Place(tree, walk, g) > 0
    BY DEF Fits
  <2> QED  BY <2>1, <2>2 DEF Done
<1>3. PICK j \in Done(tree, walk, g) + 1 .. Len(s) : c = s[j]
  BY DEF Ahead
<1>4. j \in 1 .. Len(s) /\ j > Done(tree, walk, g)
  BY <1>1, <1>2
<1>5. s[j] \in Range(s)
  BY <1>1, <1>4, InRange
<1> QED  BY <1>1, <1>3, <1>4, <1>5

\* dfs may go below a node that it has not come to, whose parent it has, and
\* that no generator has still to give.
LEMMA EnterDepth ==
    ASSUME TypeOK, NEW frames \in Seq(Frame), NEW given \in Seq(Node),
           DepthOf(tree, children, walk, frames, given),
           NEW c \in Node, c \notin Entered(frames, given),
           \A p \in Node : c \in Range(tree[p]) => p \in Entered(frames, given),
           \A i \in 1 .. Len(frames) : ~Ahead(tree, walk, frames[i].successors, c),
           NEW h \in Successors(c), NEW deeper \in Seq(Frame),
           Len(deeper) = Len(frames) + 1,
           \A i \in 1 .. Len(frames) : deeper[i] = frames[i],
           deeper[Len(frames) + 1] = [node |-> c, successors |-> h],
           NEW more, more = IF walk.visit = "ShallowFirst" THEN Append(given, c) ELSE given
    PROVE  /\ DepthOf(tree, children, walk, deeper, more)
           /\ Coming(tree, walk, h) = Births(tree, walk, c)
<1> DEFINE L == Len(frames)
           E == Entered(frames, given)
<1>0. L \in Nat /\ \A i \in 1 .. L : frames[i] \in Frame
  BY LenProperties, ElementOfSeq
<1>1. /\ FramesFit(tree, children, walk, frames) /\ PathIsSimple(frames)
      /\ AheadIsNew(tree, walk, frames, given) /\ ParentsFirst(tree, frames, given)
      /\ NewIsWhole(tree, children, frames, given) /\ PathIsGiven(walk, frames, given)
      /\ walk.siblings = "Forward" => children = tree
      /\ IsInjective(given)
  BY DEF DepthOf
<1>2. /\ \A i \in 1 .. L + 1 : i \in 1 .. L \/ i = L + 1
      /\ L + 1 \in 1 .. L + 1 /\ \A i \in 1 .. L : i \in 1 .. L + 1 /\ i # L + 1
  BY <1>0
<1>3. /\ \A i \in 1 .. L : deeper[i].node = frames[i].node /\ deeper[i].successors = frames[i].successors
      /\ deeper[L + 1].node = c /\ deeper[L + 1].successors = h
  OBVIOUS
<1>4. children[c] = tree[c]
  BY <1>1 DEF NewIsWhole
<1> DEFINE g == [of |-> c, slots |-> Slots(c), item |-> None]
<1>5. /\ g \in Generator /\ Slotted(tree, walk, c, g) /\ Held(tree, children, walk, g)
      /\ Place(tree, walk, g) = 0
  BY <1>4, NewGenerator
<1>6. h \in Advanced(g)
  BY DEF Successors
<1> HIDE DEF g
<1>7. /\ h \in Generator /\ h.of = c
      /\ Fits(tree, walk, c, h) /\ Held(tree, children, walk, h)
      /\ Coming(tree, walk, h) = Births(tree, walk, c)
  <2>1. \A j \in 1 .. Place(tree, walk, g) : Line(tree, walk, c)[j] # walk.throw
    BY <1>5
  <2>2. /\ h \in Generator /\ h.of = c
        /\ Fits(tree, walk, c, h) /\ Held(tree, children, walk, h)
        /\ Coming(tree, walk, h) = Behind(walk, Line(tree, walk, c), Place(tree, walk, g))
    BY <1>5, <1>6, <2>1, AdvanceStep
  <2> QED  BY <1>5, <2>2 DEF Births
<1>8. /\ more \in Seq(Node)
      /\ walk.visit = "ShallowFirst" => Range(more) = Range(given) \cup {c}
      /\ walk.visit # "ShallowFirst" => more = given
  BY AppendProperties, AppendRange
<1>9. Entered(deeper, more) = E \cup {c}
  <2>1. {deeper[i].node : i \in 1 .. L + 1} = {frames[i].node : i \in 1 .. L} \cup {c}
    <3>1. \A i \in 1 .. L + 1 :
             deeper[i].node \in {frames[j].node : j \in 1 .. L} \cup {c}
      BY <1>2, <1>3
    <3>2. \A i \in 1 .. L : frames[i].node \in {deeper[j].node : j \in 1 .. L + 1}
      <4>1. \A i \in 1 .. L : i \in 1 .. L + 1 /\ frames[i].node = deeper[i].node
        BY <1>2, <1>3
      <4> QED  BY <4>1
    <3>3. c \in {deeper[j].node : j \in 1 .. L + 1}
      <4>1. L + 1 \in 1 .. L + 1 /\ c = deeper[L + 1].node
        BY <1>2, <1>3
      <4> QED  BY <4>1
    <3> QED  BY <3>1, <3>2, <3>3
  <2> QED  BY <1>8, <2>1 DEF Entered
<1>10. \A i \in 1 .. L : frames[i].node \in E /\ frames[i].node # c
  BY DEF Entered
<1>11. FramesFit(tree, children, walk, deeper)
  BY <1>1, <1>2, <1>3, <1>7 DEF FramesFit
<1>12. PathIsSimple(deeper)
  BY <1>1, <1>2, <1>3, <1>10 DEF PathIsSimple
<1>13. AheadIsNew(tree, walk, deeper, more)
  <2>1. ASSUME NEW i \in 1 .. L, NEW x \in E \cup {c}
        PROVE  ~Ahead(tree, walk, deeper[i].successors, x)
    BY <1>1, <1>3 DEF AheadIsNew
  <2>2. ASSUME NEW x \in E \cup {c}, Ahead(tree, walk, h, x) PROVE FALSE
    <3>1. Len(h.slots) \in Nat
      BY <1>7, LenProperties DEF Generator
    <3>2. x \in Range(tree[c])
      BY <1>7, <2>2, <3>1, AheadFacts
    <3>3. c \in E
      BY <1>1, <3>2 DEF ParentsFirst
    <3> QED  BY <3>3
  <2> QED  BY <1>2, <1>3, <1>9, <2>1, <2>2 DEF AheadIsNew
<1>14. ParentsFirst(tree, deeper, more)
  BY <1>1, <1>9 DEF ParentsFirst
<1>15. NewIsWhole(tree, children, deeper, more)
  BY <1>1, <1>9 DEF NewIsWhole
<1>16. PathIsGiven(walk, deeper, more)
  <2>1. c \notin Range(given)
    BY DEF Entered
  <2> QED  BY <1>1, <1>2, <1>3, <1>8, <2>1 DEF PathIsGiven
<1>17. IsInjective(more)
  <2>1. c \notin Range(given)
    BY DEF Entered
  <2> DEFINE one == <<c>>
  <2>2. one \in Seq(Node) /\ Range(one) = {c} /\ Append(given, c) = given \o one
    BY SingleSeq, AppendIsConcat
  <2>3. IsInjective(one)
    BY DEF IsInjective
  <2> HIDE DEF one
  <2>4. IsInjective(given \o one)
    BY <1>1, <2>1, <2>2, <2>3, InjectiveConcat
  <2> QED  BY <1>1, <2>2, <2>4
<1>18. DepthOf(tree, children, walk, deeper, more)
  BY <1>1, <1>11, <1>12, <1>13, <1>14, <1>15, <1>16, <1>17 DEF DepthOf
<1> QED  BY <1>7, <1>18

\* The node to which dfs goes, when it has advanced the generator that gave it.
LEMMA MoveDepth ==
    ASSUME TypeOK, DepthOf(tree, children, walk, stack, yielded), stack # <<>>,
           stack[Len(stack)].successors.item \in Node,
           NEW g \in Advanced(stack[Len(stack)].successors)
    PROVE  LET c == stack[Len(stack)].successors.item
           IN  /\ g \in Generator
               /\ DepthOf(tree, children, walk, Moved(g), yielded)
               /\ c \notin Entered(Moved(g), yielded)
               /\ \A p \in Node : c \in Range(tree[p]) => p \in Entered(Moved(g), yielded)
               /\ \A i \in 1 .. Len(Moved(g)) : ~Ahead(tree, walk, Moved(g)[i].successors, c)
               /\ Coming(tree, walk, stack[Len(stack)].successors)
                      = <<c>> \o Coming(tree, walk, g)
<1> DEFINE L == Len(stack)
           E == Entered(stack, yielded)
           n == stack[L].node
           f == stack[L].successors
           c == f.item
           s == Line(tree, walk, n)
           p0 == Place(tree, walk, f)
<1>0. L \in Nat \ {0} /\ \A i \in 1 .. L : stack[i] \in Frame
  <2>1. stack \in Seq(Frame)
    BY DEF TypeOK, Frame
  <2> QED  BY <2>1, EmptySeq, ElementOfSeq
<1>1. /\ FramesFit(tree, children, walk, stack) /\ PathIsSimple(stack)
      /\ AheadIsNew(tree, walk, stack, yielded) /\ ParentsFirst(tree, stack, yielded)
      /\ NewIsWhole(tree, children, stack, yielded) /\ PathIsGiven(walk, stack, yielded)
      /\ walk.siblings = "Forward" => children = tree
      /\ IsInjective(yielded)
  BY DEF DepthOf
<1>2. L \in 1 .. L /\ \A i \in 1 .. L : i \in 1 .. L - 1 \/ i = L
  BY <1>0
<1>3. n \in Node /\ f \in Generator
  BY <1>0, <1>2 DEF Frame
<1>4. Fits(tree, walk, n, f) /\ Held(tree, children, walk, f)
  BY <1>1, <1>2 DEF FramesFit
<1>5. c \in Node /\ c # None
  BY NodeAssumption
<1> HIDE DEF n, f
<1>6. /\ Slotted(tree, walk, n, f) /\ f.of = n
      /\ p0 > 0 /\ c = s[p0] /\ Passes(walk, s, p0)
  BY <1>4, <1>5 DEF Fits, Slotted
<1>7. /\ s \in Seq(Node) /\ Len(s) \in Nat /\ Len(f.slots) \in Nat /\ p0 \in 1 .. Len(s)
      /\ IsInjective(s) /\ Range(s) \subseteq Range(tree[n])
  <2>1. s \in Seq(Node) /\ Len(s) \in Nat /\ IsInjective(s) /\ Range(s) \subseteq Range(tree[n])
    BY <1>3, LineFacts
  <2>2. Len(f.slots) \in Nat
    BY <1>3, LenProperties DEF Generator
  <2> QED  BY <1>6, <2>1, <2>2 DEF Place
<1>8. /\ g \in Generator /\ g.of = n
      /\ Fits(tree, walk, n, g) /\ Held(tree, children, walk, g)
      /\ Coming(tree, walk, g) = Behind(walk, s, p0)
      /\ Done(tree, walk, g) >= p0
  <2>1. \A j \in 1 .. p0 : s[j] # walk.throw
    BY <1>6 DEF Passes
  <2>2. g \in Advanced(f)
    BY DEF f
  <2> QED  BY <1>3, <1>4, <1>6, <2>1, <2>2, AdvanceStep
<1>9. Coming(tree, walk, f) = <<c>> \o Coming(tree, walk, g)
  BY <1>5, <1>6, <1>8 DEF Coming
<1>10. c \in Range(tree[n])
  BY <1>6, <1>7, InRange
<1>11. /\ Len(Moved(g)) = L
       /\ \A i \in 1 .. L - 1 : Moved(g)[i] = stack[i]
       /\ Moved(g)[L].node = n /\ Moved(g)[L].successors = g
       /\ \A i \in 1 .. L : Moved(g)[i].node = stack[i].node
  <2>1. /\ Len(Moved(g)) = L
        /\ \A i \in 1 .. L - 1 : Moved(g)[i] = stack[i]
        /\ Moved(g)[L] = [node |-> stack[L].node, successors |-> g]
    BY <1>8, MovedIs
  <2>2. Moved(g)[L].node = n /\ Moved(g)[L].successors = g
    BY <2>1 DEF n
  <2>3. \A i \in 1 .. L : Moved(g)[i].node = stack[i].node
    BY <1>2, <2>1, <2>2 DEF n
  <2> QED  BY <2>1, <2>2, <2>3
<1>12. Entered(Moved(g), yielded) = E
  BY <1>11 DEF Entered
<1>13. n \in E
  BY <1>2 DEF Entered, n
<1>14. Done(tree, walk, f) = p0 - 1
  BY <1>5 DEF Done
<1>15. Ahead(tree, walk, f, c)
  <2>1. p0 \in Done(tree, walk, f) + 1 .. Len(s)
    BY <1>7, <1>14
  <2> QED  BY <1>6, <2>1 DEF Ahead
<1>16. c \notin E
  BY <1>1, <1>2, <1>15 DEF AheadIsNew, f
<1>17. \A p \in Node : c \in Range(tree[p]) => p \in E
  BY <1>3, <1>10, <1>13, WalkFacts
<1>18. Len(g.slots) \in Nat
  BY <1>8, LenProperties DEF Generator
<1>19. ASSUME NEW x, Ahead(tree, walk, g, x) PROVE Ahead(tree, walk, f, x) /\ x # c
  <2>1. PICK j \in 1 .. Len(s) : j > Done(tree, walk, g) /\ x = s[j]
    BY <1>3, <1>8, <1>18, <1>19, AheadFacts
  <2>2. Done(tree, walk, g) \in Int
    BY <1>7, <1>8, <1>18 DEF Done, Place
  <2>3. j > p0 /\ j \in Done(tree, walk, f) + 1 .. Len(s)
    BY <1>7, <1>8, <1>14, <2>1, <2>2
  <2>4. Ahead(tree, walk, f, x)
    BY <1>6, <2>1, <2>3 DEF Ahead
  <2>5. x # c
    <3>1. \A a, b \in 1 .. Len(s) : s[a] = s[b] => a = b
      BY <1>7, InRange
    <3>2. s[j] = s[p0] => j = p0
      BY <1>7, <3>1
    <3> QED  BY <1>6, <1>7, <2>1, <2>3, <3>2
  <2> QED  BY <2>4, <2>5
<1>20. ASSUME NEW i \in 1 .. L PROVE ~Ahead(tree, walk, Moved(g)[i].successors, c)
  <2>1. CASE i = L
    BY <1>11, <1>19, <2>1
  <2>2. CASE i \in 1 .. L - 1
    <3> DEFINE m == stack[i].node
               q == stack[i].successors
    <3>1. m \in Node /\ q \in Generator /\ Fits(tree, walk, m, q)
      BY <1>0, <1>1 DEF Frame, FramesFit
    <3>2. m # n
      <4>1. L \in 1 .. L /\ i # L
        BY <1>0, <2>2
      <4> QED  BY <1>1, <4>1 DEF PathIsSimple, n
    <3>3. Moved(g)[i].successors = q
      BY <1>11, <2>2
    <3> HIDE DEF m, q
    <3>4. q.of = m /\ Len(q.slots) \in Nat
      BY <3>1, LenProperties DEF Fits, Slotted, Generator
    <3>5. Ahead(tree, walk, q, c) => c \in Range(tree[m])
      BY <3>1, <3>4, AheadFacts
    <3> QED  BY <1>3, <1>10, <3>1, <3>2, <3>3, <3>5, WalkFacts
  <2> QED  BY <1>2, <2>1, <2>2
<1>21. DepthOf(tree, children, walk, Moved(g), yielded)
  <2>1. FramesFit(tree, children, walk, Moved(g))
    BY <1>1, <1>2, <1>8, <1>11 DEF FramesFit
  <2>2. PathIsSimple(Moved(g))
    BY <1>1, <1>11 DEF PathIsSimple
  <2>3. AheadIsNew(tree, walk, Moved(g), yielded)
    <3>1. ASSUME NEW i \in 1 .. L, NEW x \in E, Ahead(tree, walk, Moved(g)[i].successors, x)
          PROVE  FALSE
      <4>1. Ahead(tree, walk, stack[i].successors, x)
        BY <1>2, <1>11, <1>19, <3>1 DEF f
      <4> QED  BY <1>1, <4>1 DEF AheadIsNew
    <3> QED  BY <1>11, <1>12, <3>1 DEF AheadIsNew
  <2>4. ParentsFirst(tree, Moved(g), yielded) /\ NewIsWhole(tree, children, Moved(g), yielded)
    BY <1>1, <1>12 DEF ParentsFirst, NewIsWhole
  <2>5. PathIsGiven(walk, Moved(g), yielded)
    BY <1>1, <1>11 DEF PathIsGiven
  <2> QED  BY <1>1, <2>1, <2>2, <2>3, <2>4, <2>5 DEF DepthOf
<1> QED  BY <1>8, <1>9, <1>11, <1>12, <1>16, <1>17, <1>20, <1>21 DEF f

\* dfs leaves the last node of its path.
LEMMA LeaveDepth ==
    ASSUME TypeOK, DepthOf(tree, children, walk, stack, yielded), stack # <<>>,
           walk.visit # "Breadth",
           NEW more, more = IF walk.visit = "DeepFirst" THEN Append(yielded, Last(stack).node)
                                                        ELSE yielded
    PROVE  DepthOf(tree, children, walk, Front(stack), more)
<1> DEFINE L == Len(stack)
           E == Entered(stack, yielded)
           n == stack[L].node
<1>0. /\ L \in Nat \ {0} /\ Last(stack) = stack[L] /\ stack[L] \in Frame
      /\ Front(stack) \in Seq(Frame) /\ Len(Front(stack)) = L - 1
      /\ \A i \in 1 .. L - 1 : Front(stack)[i] = stack[i]
  <2>1. stack \in Seq(Frame)
    BY DEF TypeOK, Frame
  <2> QED  BY <2>1, FrontProperties
<1>1. /\ FramesFit(tree, children, walk, stack) /\ PathIsSimple(stack)
      /\ AheadIsNew(tree, walk, stack, yielded) /\ ParentsFirst(tree, stack, yielded)
      /\ NewIsWhole(tree, children, stack, yielded) /\ PathIsGiven(walk, stack, yielded)
      /\ walk.siblings = "Forward" => children = tree
      /\ IsInjective(yielded)
  BY DEF DepthOf
<1>2. /\ L \in 1 .. L /\ \A i \in 1 .. L : i \in 1 .. L - 1 \/ i = L
      /\ \A i \in 1 .. L - 1 : i \in 1 .. L /\ i # L
  BY <1>0
<1>3. n \in Node /\ yielded \in Seq(Node)
  BY <1>0 DEF Frame, TypeOK
<1>4. walk.visit = "ShallowFirst" \/ walk.visit = "DeepFirst"
  BY WalkFacts DEF Visits
<1>5. /\ walk.visit = "ShallowFirst" => more = yielded /\ n \in Range(yielded)
      /\ walk.visit = "DeepFirst" => more = Append(yielded, n) /\ n \notin Range(yielded)
  BY <1>0, <1>1, <1>2 DEF PathIsGiven
<1>6. Range(Append(yielded, n)) = Range(yielded) \cup {n}
  BY <1>3, AppendRange
<1>7. Range(more) = Range(yielded) \cup {n}
  BY <1>4, <1>5, <1>6
<1>8. Entered(Front(stack), more) = E
  <2>1. {stack[i].node : i \in 1 .. L} = {Front(stack)[i].node : i \in 1 .. L - 1} \cup {n}
    BY <1>0, <1>2
  <2> QED  BY <1>0, <1>7, <2>1 DEF Entered
<1>9. FramesFit(tree, children, walk, Front(stack)) /\ PathIsSimple(Front(stack))
  BY <1>0, <1>1, <1>2 DEF FramesFit, PathIsSimple
<1>10. AheadIsNew(tree, walk, Front(stack), more)
  BY <1>0, <1>1, <1>2, <1>8 DEF AheadIsNew
<1>11. ParentsFirst(tree, Front(stack), more) /\ NewIsWhole(tree, children, Front(stack), more)
  BY <1>1, <1>8 DEF ParentsFirst, NewIsWhole
<1>12. PathIsGiven(walk, Front(stack), more)
  <2>1. \A i \in 1 .. L - 1 : stack[i].node # n
    BY <1>1, <1>2 DEF PathIsSimple
  <2>2. \A i \in 1 .. L - 1 : walk.visit = "ShallowFirst" <=> stack[i].node \in Range(yielded)
    BY <1>1, <1>2 DEF PathIsGiven
  <2> QED  BY <1>0, <1>7, <2>1, <2>2 DEF PathIsGiven
<1>13. IsInjective(more)
  <2> DEFINE one == <<n>>
  <2>1. one \in Seq(Node) /\ Range(one) = {n} /\ Append(yielded, n) = yielded \o one
    BY <1>3, SingleSeq, AppendIsConcat
  <2>2. IsInjective(one)
    BY DEF IsInjective
  <2> HIDE DEF one, n
  <2>3. n \notin Range(yielded) => IsInjective(yielded \o one)
    BY <1>1, <1>3, <2>1, <2>2, InjectiveConcat
  <2> QED  BY <1>1, <1>4, <1>5, <2>1, <2>3
<1> QED  BY <1>1, <1>9, <1>10, <1>11, <1>12, <1>13 DEF DepthOf

-----------------------------------------------------------------------------
(* What a removal between two values leaves *)

\* The children of the nodes when the i-th of p is removed.
Removed(p, i) == [children EXCEPT ![p] = RemoveAt(@, i)]

\* A removal takes one child of one node away and adds nothing.
LEMMA RemovedIs ==
    ASSUME TypeOK, OnlyRemoved, NEW p \in Node, NEW i \in DOMAIN children[p]
    PROVE  /\ children[p] \in Seq(Node) /\ i \in 1 .. Len(children[p])
           /\ Removed(p, i)[p] = RemoveAt(children[p], i)
           /\ \A q \in Node : q # p => Removed(p, i)[q] = children[q]
           /\ \A q \in Node : Range(Removed(p, i)[q]) \subseteq Range(tree[q])
           /\ children[p][i] \in Range(tree[p])
<1> DEFINE s == children[p]
           r == RemoveAt(s, i)
<1>1. s \in Seq(Node) /\ i \in 1 .. Len(s) /\ Len(s) \in Nat
  <2>1. s \in Seq(Node)
    BY WalkFacts
  <2> QED  BY <2>1, LenProperties
<1>2. /\ Removed(p, i)[p] = r
      /\ \A q \in Node : q # p => Removed(p, i)[q] = children[q]
  BY WalkFacts DEF Removed
<1>3. /\ r \in Seq(Node) /\ Len(r) = Len(s) - 1
      /\ \A j \in 1 .. i - 1 : r[j] = s[j]
      /\ \A j \in i .. Len(s) - 1 : r[j] = s[j + 1]
  BY <1>1, RemoveAtProperties
<1>4. \A j \in 1 .. Len(s) : s[j] \in Range(s)
  BY <1>1, InRange
<1> HIDE DEF s, r
<1>5. ASSUME NEW x \in Range(r) PROVE x \in Range(s)
  <2>1. PICK j \in 1 .. Len(r) : x = r[j]
    BY <1>3, InRange
  <2>2. CASE j \in 1 .. i - 1
    <3>1. j \in 1 .. Len(s)
      BY <1>1, <2>2
    <3> QED  BY <1>3, <1>4, <2>1, <2>2, <3>1
  <2>3. CASE j \in i .. Len(s) - 1
    <3>1. j + 1 \in 1 .. Len(s)
      BY <1>1, <2>3
    <3> QED  BY <1>3, <1>4, <2>1, <2>3, <3>1
  <2>4. j \in 1 .. i - 1 \/ j \in i .. Len(s) - 1
    BY <1>1, <1>3
  <2> QED  BY <2>2, <2>3, <2>4
<1>6. Range(s) \subseteq Range(tree[p]) /\ \A q \in Node : Range(children[q]) \subseteq Range(tree[q])
  BY DEF OnlyRemoved, s
<1>7. ASSUME NEW q \in Node PROVE Range(Removed(p, i)[q]) \subseteq Range(tree[q])
  BY <1>2, <1>5, <1>6
<1>8. children[p][i] \in Range(tree[p])
  BY <1>1, <1>4, <1>6 DEF s
<1> QED  BY <1>1, <1>2, <1>7, <1>8 DEF s, r

\* A list read backward.
LEMMA Mirror ==
    ASSUME NEW a \in Nat, NEW b \in Nat, b <= a, NEW p \in Int, p = a - b,
           NEW i \in Nat \ {0}, NEW m \in Nat \ {0}, i <= a + 1 - (p + m),
           NEW l, l = a + 1 - (p + i)
    PROVE  l \in 1 .. b /\ a + 1 - (p + l) = i /\ p + l \in 1 .. a /\ p \in Nat
OBVIOUS

\* Who removes a child that was given leaves alone what generators that go
\* backward will read: they stand before it in the list.
LEMMA RemoveDepth ==
    ASSUME TypeOK, OnlyRemoved, DepthOf(tree, children, walk, stack, yielded),
           walk.siblings # "Forward",
           NEW p \in Node, NEW i \in DOMAIN children[p], children[p][i] \in Range(yielded)
    PROVE  DepthOf(tree, Removed(p, i), walk, stack, yielded)
<1> DEFINE k == Removed(p, i)
           c == children[p][i]
           E == Entered(stack, yielded)
<1>0. \A j \in 1 .. Len(stack) : stack[j] \in Frame
  <2>1. stack \in Seq(Frame)
    BY DEF TypeOK, Frame
  <2> QED  BY <2>1, ElementOfSeq
<1>1. /\ FramesFit(tree, children, walk, stack) /\ PathIsSimple(stack)
      /\ AheadIsNew(tree, walk, stack, yielded) /\ ParentsFirst(tree, stack, yielded)
      /\ NewIsWhole(tree, children, stack, yielded) /\ PathIsGiven(walk, stack, yielded)
      /\ IsInjective(yielded)
  BY DEF DepthOf
<1>2. /\ children[p] \in Seq(Node) /\ i \in 1 .. Len(children[p])
      /\ k[p] = RemoveAt(children[p], i)
      /\ \A q \in Node : q # p => k[q] = children[q]
      /\ c \in Range(tree[p])
  BY RemovedIs
<1>3. c \in E /\ p \in E
  <2>1. c \in E
    BY DEF Entered
  <2> QED  BY <1>1, <1>2, <2>1 DEF ParentsFirst
<1> HIDE DEF k
<1>4. NewIsWhole(tree, k, stack, yielded)
  BY <1>1, <1>2, <1>3 DEF NewIsWhole
<1>5. /\ Len(children[p]) \in Nat /\ DOMAIN children[p] = 1 .. Len(children[p])
      /\ k[p] \in Seq(Node) /\ Len(k[p]) = Len(children[p]) - 1 /\ DOMAIN k[p] = 1 .. Len(k[p])
      /\ \A j \in 1 .. i - 1 : k[p][j] = children[p][j]
  BY <1>2, LenProperties, RemoveAtProperties
<1>6. ASSUME NEW j \in 1 .. Len(stack)
      PROVE  Held(tree, k, walk, stack[j].successors)
  <2> DEFINE n == stack[j].node
             g == stack[j].successors
             s == Line(tree, walk, n)
             p0 == Place(tree, walk, g)
  <2>1. n \in Node /\ g \in Generator /\ Fits(tree, walk, n, g) /\ Held(tree, children, walk, g)
    BY <1>0, <1>1 DEF Frame, FramesFit
  <2>2. ~Ahead(tree, walk, g, c)
    BY <1>1, <1>3 DEF AheadIsNew
  <2> HIDE DEF n, g
  <2>3. /\ g.of = n /\ Len(g.slots) <= Len(s) /\ p0 = Len(s) - Len(g.slots)
        /\ \A m \in 1 .. Len(g.slots) : g.slots[m] = SlotOf(tree, walk, n, p0 + m)
    BY <2>1 DEF Fits, Slotted, Place
  <2>4. s \in Seq(Node) /\ Len(s) \in Nat /\ Len(g.slots) \in Nat
    BY <2>1, LineFacts, LenProperties DEF Generator
  <2> SUFFICES ASSUME walk.siblings # "Reversed" PROVE Held(tree, k, walk, g)
    BY DEF Held, g
  <2>5. CASE n # p
    BY <1>2, <2>1, <2>3, <2>5 DEF Held
  <2>6. CASE n = p
    <3>1. \A m \in 1 .. Len(g.slots) :
             /\ g.slots[m] = Len(s) + 1 - (p0 + m)
             /\ g.slots[m] \in 1 .. Len(children[p])
             /\ children[p][g.slots[m]] = tree[p][g.slots[m]]
      BY <1>5, <2>1, <2>3, <2>6 DEF Held, SlotOf
    <3>2. ASSUME NEW m \in 1 .. Len(g.slots), i <= g.slots[m] PROVE FALSE
      <4> DEFINE l == Len(s) + 1 - (p0 + i)
      <4>0. /\ i \in Nat \ {0} /\ m \in Nat \ {0} /\ m <= Len(g.slots)
            /\ g.slots[m] = Len(s) + 1 - (p0 + m)
            /\ i <= Len(s) + 1 - (p0 + m)
            /\ Len(s) \in Nat /\ Len(g.slots) \in Nat /\ p0 = Len(s) - Len(g.slots)
            /\ Len(g.slots) <= Len(s)
        BY <1>2, <2>3, <2>4, <3>1, <3>2
      <4> HIDE DEF s, p0
      <4>1. /\ l \in 1 .. Len(g.slots) /\ Len(s) + 1 - (p0 + l) = i
            /\ p0 + l \in 1 .. Len(s)
            /\ p0 \in Nat
        <5>1. p0 \in Int
          BY ONLY <4>0
        <5> HIDE DEF l
        <5>2. l = Len(s) + 1 - (p0 + i)
          BY DEF l
        <5> DEFINE a == Len(s)
                   b == Len(g.slots)
        <5>3. /\ a \in Nat /\ b \in Nat /\ b <= a /\ p0 \in Int /\ p0 = a - b
              /\ i \in Nat \ {0} /\ m \in Nat \ {0} /\ i <= a + 1 - (p0 + m)
              /\ l = a + 1 - (p0 + i)
          BY ONLY <4>0, <5>1, <5>2
        <5> HIDE DEF a, b
        <5>4. l \in 1 .. b /\ a + 1 - (p0 + l) = i /\ p0 + l \in 1 .. a /\ p0 \in Nat
          BY ONLY <5>3, Mirror
        <5> QED  BY ONLY <5>4 DEF a, b
      <4> HIDE DEF l
      <4>2. c = tree[p][i]
        BY <3>1, <4>1
      <4>3. n \in walk.explore
        <5>1. n \notin walk.explore => Len(s) = 0
          BY <2>1, LineFacts DEF s
        <5> QED  BY <4>1, <5>1
      <4>4. s[p0 + l] = c
        <5>1. \A w \in 1 .. Len(s) : s[w] = tree[n][Len(s) + 1 - w]
          BY <2>1, <4>3, LineFacts DEF s
        <5>2. s[p0 + l] = tree[n][Len(s) + 1 - (p0 + l)]
          BY <4>1, <5>1
        <5> QED  BY <2>6, <4>1, <4>2, <5>2
      <4>5. p0 + l \in Done(tree, walk, g) + 1 .. Len(s)
        BY <2>4, <4>1 DEF Done, p0
      <4>6. Ahead(tree, walk, g, c)
        BY <2>3, <4>4, <4>5 DEF Ahead, s
      <4> QED  BY <2>2, <4>6
    <3>3. \A m \in 1 .. Len(g.slots) :
             g.slots[m] \in 1 .. i - 1 /\ g.slots[m] \in 1 .. Len(children[p]) - 1
      BY <1>2, <1>5, <3>1, <3>2
    <3> QED  BY <1>5, <2>3, <2>6, <3>1, <3>3 DEF Held
  <2> QED  BY <2>5, <2>6
<1>7. FramesFit(tree, k, walk, stack)
  BY <1>1, <1>6 DEF FramesFit
<1> QED  BY <1>1, <1>4, <1>7 DEF DepthOf, k

\* A removal of a node that was given does not concern what bfs has not come to.
LEMMA RemoveBreadth ==
    ASSUME TypeOK, OnlyRemoved, BreadthOf(tree, children, queue, yielded),
           NEW p \in Node, NEW i \in DOMAIN children[p], children[p][i] \in Range(yielded)
    PROVE  BreadthOf(tree, Removed(p, i), queue, yielded)
<1>1. children[p][i] \in Range(tree[p])
  BY RemovedIs
<1>2. children[p][i] \in Range(yielded \o queue)
  <2>1. yielded \in Seq(Node) /\ queue \in Seq(Node)
    BY DEF TypeOK
  <2>2. Range(yielded \o queue) = Range(yielded) \cup Range(queue)
    BY <2>1, RangeConcatenation
  <2> QED  BY <2>2
<1>3. p \in Range(yielded)
  BY <1>1, <1>2 DEF BreadthOf
<1>4. \A q \in Node : q # p => Removed(p, i)[q] = children[q]
  BY RemovedIs
<1> QED  BY <1>3, <1>4 DEF BreadthOf

-----------------------------------------------------------------------------
(* How bfs keeps its shape *)

\* bfs finds all successors of the node it gives, none of which it found before.
LEMMA ServeBreadth ==
    ASSUME TypeOK, BreadthOf(tree, children, queue, yielded), Serve
    PROVE  /\ BreadthOf(tree, children, queue', yielded')
           /\ Found(Head(queue)) = Births(tree, walk, Head(queue))
<1> DEFINE n == Head(queue)
           rest == Tail(queue)
           b == Births(tree, walk, n)
           s == Line(tree, walk, n)
           one == <<n>>
<1>1. /\ n \in Node /\ rest \in Seq(Node) /\ yielded \in Seq(Node) /\ queue \in Seq(Node)
      /\ queue = one \o rest /\ queue' = rest \o Found(n) /\ yielded' = Append(yielded, n)
  BY ServeIs DEF TypeOK
<1>2. one \in Seq(Node) /\ Range(one) = {n} /\ Append(yielded, n) = yielded \o one
  BY <1>1, SingleSeq, AppendIsConcat
<1> HIDE DEF n, rest, one
<1>3. /\ (yielded \o one) \o rest = yielded \o queue
      /\ yielded \o one \in Seq(Node)
      /\ Range(yielded \o one) = Range(yielded) \cup {n}
      /\ Range(queue) = {n} \cup Range(rest)
      /\ Range(yielded \o queue) = Range(yielded) \cup Range(queue)
  <2>1. (yielded \o one) \o rest = yielded \o (one \o rest)
    BY <1>1, <1>2, ConcatAssociative
  <2>2. yielded \o one \in Seq(Node)
    BY <1>1, <1>2, ConcatProperties
  <2>3. Range(yielded \o one) = Range(yielded) \cup Range(one)
    BY <1>1, <1>2, RangeConcatenation
  <2>4. Range(one \o rest) = Range(one) \cup Range(rest)
    BY <1>1, <1>2, RangeConcatenation
  <2>5. Range(yielded \o queue) = Range(yielded) \cup Range(queue)
    <3>1. yielded \in Seq(Node) /\ queue \in Seq(Node)
      BY DEF TypeOK
    <3> QED  BY ONLY <3>1, RangeConcatenation
  <2> QED  BY <1>1, <1>2, <2>1, <2>2, <2>3, <2>4, <2>5
<1>4. /\ IsInjective(yielded \o queue)
      /\ \A p \in Node : \A c \in Range(tree[p]) :
            c \in Range(yielded \o queue) => p \in Range(yielded)
      /\ \A p \in Node : p \notin Range(yielded) => children[p] = tree[p]
  BY DEF BreadthOf
<1>5. n \notin Range(yielded)
  <2>1. Range(yielded) \cap Range(queue) = {}
    BY <1>1, <1>4, InjectiveConcat
  <2> QED  BY <1>3, <2>1
<1>6. Found(n) = b /\ b \in Seq(Node)
  <2>1. children[n] = tree[n]
    BY <1>1, <1>4, <1>5
  <2> QED  BY <1>1, <2>1, FoundIs
<1>7. s \in Seq(Node) /\ IsInjective(s) /\ Range(s) \subseteq Range(tree[n]) /\ 0 \in 0 .. Len(s)
  BY <1>1, LineFacts
<1>8. IsInjective(b) /\ Range(b) \subseteq Range(tree[n])
  <2>1. \A x \in Range(b) : \E j \in 0 + 1 .. Len(s) : x = s[j]
    BY <1>7, BehindRange DEF Births
  <2>2. \A j \in 0 + 1 .. Len(s) : s[j] \in Range(s)
    BY <1>7, InRange
  <2> QED  BY <1>7, <2>1, <2>2, BehindRange DEF Births
<1> HIDE DEF b, s
<1> DEFINE found == yielded \o queue
<1>9. found \in Seq(Node)
  BY <1>1, ConcatProperties
<1>10. Range(found) \cap Range(b) = {}
  BY <1>1, <1>4, <1>5, <1>8
<1>11. yielded' \o queue' = found \o b
  <2>1. (yielded \o one) \o (rest \o b) = ((yielded \o one) \o rest) \o b
    <3> DEFINE pre == yielded \o one
    <3>1. pre \in Seq(Node) /\ rest \in Seq(Node) /\ b \in Seq(Node)
      BY <1>1, <1>3, <1>6
    <3> HIDE DEF pre
    <3>2. pre \o (rest \o b) = (pre \o rest) \o b
      BY ONLY <3>1, ConcatAssociative
    <3> QED  BY <3>2 DEF pre
  <2> QED  BY <1>1, <1>2, <1>3, <1>6, <2>1
<1> HIDE DEF found
<1>12. IsInjective(found \o b)
  BY <1>4, <1>6, <1>8, <1>9, <1>10, InjectiveConcat DEF found
<1>13. Range(found \o b) = Range(found) \cup Range(b)
  BY <1>6, <1>9, RangeConcatenation
<1>14. Range(yielded') = Range(yielded) \cup {n}
  BY <1>1, <1>2, <1>3
<1>15. ASSUME NEW p \in Node, NEW c \in Range(tree[p]), c \in Range(found \o b)
       PROVE  p \in Range(yielded) \cup {n}
  <2>1. CASE c \in Range(found)
    BY <1>4, <2>1 DEF found
  <2>2. CASE c \in Range(b)
    <3>1. c \in Range(tree[n])
      BY <1>8, <2>2
    <3> QED  BY <1>1, <3>1, WalkFacts
  <2> QED  BY <1>13, <1>15, <2>1, <2>2
<1>16. BreadthOf(tree, children, queue', yielded')
  BY <1>4, <1>11, <1>12, <1>14, <1>15 DEF BreadthOf
<1> QED  BY <1>6, <1>16 DEF n, b

-----------------------------------------------------------------------------
(* Each step keeps the shape *)

\* What dfs is below when it goes to c from a path whose last generator is
\* advanced to g; h is the new one.
Below(g, h, c) ==
    /\ g \in Generator /\ h \in Generator
    /\ stack' \in Seq(Frame) /\ Len(stack') = Len(stack) + 1
    /\ \A i \in 1 .. Len(stack) - 1 : stack'[i] = stack[i]
    /\ stack'[Len(stack)] = [node |-> stack[Len(stack)].node, successors |-> g]
    /\ stack'[Len(stack) + 1] = [node |-> c, successors |-> h]
    /\ Coming(tree, walk, stack[Len(stack)].successors) = <<c>> \o Coming(tree, walk, g)
    /\ Coming(tree, walk, h) = Births(tree, walk, c)

\* dfs begins with the root as its path.
LEMMA BeginDepth ==
    ASSUME TypeOK, Untouched, Begin, Root \in walk.admit, walk.visit # "Breadth"
    PROVE  /\ DepthOf(tree, children, walk, stack', yielded')
           /\ \E h \in Generator :
                 /\ stack' \in Seq(Frame) /\ Len(stack') = 1
                 /\ stack'[1] = [node |-> Root, successors |-> h]
                 /\ Coming(tree, walk, h) = Births(tree, walk, Root)
           /\ UNCHANGED <<tree, children, walk, queue>>
           /\ walk.visit = "ShallowFirst" => yielded' = <<Root>> /\ mode' = "given"
           /\ walk.visit # "ShallowFirst" => yielded' = <<>> /\ mode' = "running"
<1> DEFINE none == <<>>
<1>1. Enter(none, Root) /\ UNCHANGED <<tree, children, walk>> /\ yielded = none
  BY DEF Begin, Untouched
<1>2. none \in Seq(Frame) /\ none \in Seq(Node) /\ Len(none) = 0 /\ Range(none) = {}
  BY EmptySeq DEF Range
<1>3. Root \in Node
  BY NodeAssumption
<1>4. Append(none, Root) = <<Root>>
  OBVIOUS
<1> HIDE DEF none
<1>5. Entered(none, none) = {}
  BY <1>2 DEF Entered
<1>6. DepthOf(tree, children, walk, none, none)
  <2>1. children = tree
    BY DEF Untouched
  <2>2. IsInjective(none)
    BY <1>2, InRange
  <2> QED  BY <1>2, <1>5, <2>1, <2>2 DEF DepthOf, FramesFit, PathIsSimple, AheadIsNew, ParentsFirst,
              NewIsWhole, PathIsGiven
<1>7. /\ Deeper(none, Root)
      /\ queue' = queue
      /\ walk.visit = "ShallowFirst" => yielded' = Append(yielded, Root) /\ mode' = "given"
      /\ walk.visit # "ShallowFirst" => yielded' = yielded /\ mode' = "running"
  BY <1>1, <1>2, <1>3, EnterIs
<1>8. PICK h \in Successors(Root) :
         /\ h \in Generator
         /\ stack' \in Seq(Frame) /\ Len(stack') = Len(none) + 1
         /\ \A i \in 1 .. Len(none) : stack'[i] = none[i]
         /\ stack'[Len(none) + 1] = [node |-> Root, successors |-> h]
  BY <1>7 DEF Deeper
<1>9. \A p \in Node : Root \notin Range(tree[p])
  BY WalkFacts
<1> DEFINE more == IF walk.visit = "ShallowFirst" THEN Append(none, Root) ELSE none
<1>10. yielded' = more
  BY <1>1, <1>7
<1>11. Len(none) + 1 = 1
  BY <1>2
<1>12. /\ DepthOf(tree, children, walk, stack', more)
       /\ Coming(tree, walk, h) = Births(tree, walk, Root)
  <2>1. \A i \in 1 .. Len(none) : ~Ahead(tree, walk, none[i].successors, Root)
    BY <1>2
  <2> HIDE DEF more
  <2>2. more = IF walk.visit = "ShallowFirst" THEN Append(none, Root) ELSE none
    BY DEF more
  <2> QED  BY <1>2, <1>3, <1>5, <1>6, <1>8, <1>9, <2>1, <2>2, EnterDepth
<1> QED  BY <1>1, <1>4, <1>7, <1>8, <1>10, <1>11, <1>12 DEF none

\* Descend keeps the shape of the path, and splits what its last generator had to give.
LEMMA DescendDepth ==
    ASSUME TypeOK, DepthOf(tree, children, walk, stack, yielded), Descend
    PROVE  LET c == stack[Len(stack)].successors.item
           IN  /\ DepthOf(tree, children, walk, stack', yielded')
               /\ c \in Node /\ Len(stack) \in Nat \ {0}
               /\ \E g, h \in Generator : Below(g, h, c)
<1> DEFINE c == stack[Len(stack)].successors.item
<1>1. /\ stack # <<>> /\ c \in Node
      /\ walk.visit = "ShallowFirst" => yielded' = Append(yielded, c)
      /\ walk.visit # "ShallowFirst" => yielded' = yielded
  BY DescendIs
<1>2. PICK g \in Advanced(stack[Len(stack)].successors) :
         g \in Generator /\ Deeper(Moved(g), c)
  BY DescendIs
<1>3. /\ DepthOf(tree, children, walk, Moved(g), yielded)
      /\ c \notin Entered(Moved(g), yielded)
      /\ \A p \in Node : c \in Range(tree[p]) => p \in Entered(Moved(g), yielded)
      /\ \A i \in 1 .. Len(Moved(g)) : ~Ahead(tree, walk, Moved(g)[i].successors, c)
      /\ Coming(tree, walk, stack[Len(stack)].successors) = <<c>> \o Coming(tree, walk, g)
  BY <1>1, MoveDepth
<1> DEFINE frames == Moved(g)
<1>4. /\ Len(stack) \in Nat \ {0}
      /\ frames \in Seq(Frame) /\ Len(frames) = Len(stack)
      /\ \A i \in 1 .. Len(stack) - 1 : frames[i] = stack[i]
      /\ frames[Len(stack)] = [node |-> stack[Len(stack)].node, successors |-> g]
  BY <1>1, <1>2, MovedIs
<1> HIDE DEF c
<1>5. PICK h \in Successors(c) :
         /\ h \in Generator
         /\ stack' \in Seq(Frame) /\ Len(stack') = Len(frames) + 1
         /\ \A i \in 1 .. Len(frames) : stack'[i] = frames[i]
         /\ stack'[Len(frames) + 1] = [node |-> c, successors |-> h]
  BY <1>2 DEF Deeper
<1> DEFINE more == IF walk.visit = "ShallowFirst" THEN Append(yielded, c) ELSE yielded
<1>6. yielded' = more
  BY <1>1
<1>7. yielded \in Seq(Node)
  BY DEF TypeOK
<1>8. /\ DepthOf(tree, children, walk, frames, yielded)
      /\ c \notin Entered(frames, yielded)
      /\ \A p \in Node : c \in Range(tree[p]) => p \in Entered(frames, yielded)
      /\ \A i \in 1 .. Len(frames) : ~Ahead(tree, walk, frames[i].successors, c)
  BY <1>3
<1> HIDE DEF frames
<1>9. /\ DepthOf(tree, children, walk, stack', more)
      /\ Coming(tree, walk, h) = Births(tree, walk, c)
  <2> HIDE DEF more
  <2>1. more = IF walk.visit = "ShallowFirst" THEN Append(yielded, c) ELSE yielded
    BY DEF more
  <2> QED  BY <1>1, <1>4, <1>5, <1>7, <1>8, <2>1, EnterDepth
<1>10. Below(g, h, c)
  <2>1. \A i \in 1 .. Len(stack) - 1 : i \in 1 .. Len(frames)
    BY <1>4
  <2>2. Len(stack) \in 1 .. Len(frames)
    BY <1>4
  <2>3. /\ \A i \in 1 .. Len(stack) - 1 : stack'[i] = stack[i]
        /\ stack'[Len(stack)] = [node |-> stack[Len(stack)].node, successors |-> g]
    BY <1>4, <1>5, <2>1, <2>2
  <2> QED  BY <1>2, <1>3, <1>4, <1>5, <1>9, <2>3 DEF Below
<1> QED  BY <1>1, <1>2, <1>4, <1>5, <1>6, <1>9, <1>10 DEF c

\* A walk that begins has the shape: of dfs, of bfs, or of nothing.
LEMMA BeginShape ==
    ASSUME TypeOK, Shape, Begin
    PROVE  Shape'
<1>1. mode = "new" /\ Untouched /\ OnlyRemoved
  BY DEF Begin, Shape, Walking
<1>2. CASE Root \notin walk.admit
  <2>1. mode' = "over" /\ UNCHANGED <<tree, children, walk, stack, queue, yielded>>
    BY <1>2 DEF Begin
  <2>2. ~Walking' /\ Untouched' /\ OnlyRemoved'
    BY <1>1, <1>2, <2>1 DEF Walking, Untouched, OnlyRemoved
  <2>3. stack' = <<>> /\ queue' = <<>>
    BY <2>2 DEF Untouched
  <2> QED  BY <2>1, <2>2, <2>3 DEF Shape
<1>3. CASE Root \in walk.admit /\ walk.visit = "Breadth"
  <2> DEFINE one == <<Root>>
             none == <<>>
  <2>1. /\ queue' = one /\ mode' = "running" /\ yielded' = none /\ stack' = <<>>
        /\ UNCHANGED <<tree, children, walk>>
    BY <1>1, <1>3 DEF Begin, Untouched
  <2>2. one \in Seq(Node) /\ Range(one) = {Root} /\ Len(one) = 1 /\ one[1] = Root
    BY NodeAssumption, SingleSeq
  <2>3. none \in Seq(Node) /\ Range(none) = {}
    BY EmptySeq DEF Range
  <2> HIDE DEF one, none
  <2>4. none \o one = one
    BY <2>2, ConcatEmptySeq DEF none
  <2>5. IsInjective(one)
    BY <2>2, InRange
  <2>6. \A p \in Node : Root \notin Range(tree[p])
    BY WalkFacts
  <2>7. children = tree
    BY <1>1 DEF Untouched
  <2>8. BreadthOf(tree, children, one, none)
    BY <2>2, <2>4, <2>5, <2>6, <2>7 DEF BreadthOf
  <2>9. OnlyRemoved' /\ Walking' /\ walk'.visit = "Breadth"
    BY <1>1, <1>3, <2>1 DEF OnlyRemoved, Walking
  <2> QED  BY <2>1, <2>8, <2>9 DEF Shape
<1>4. CASE Root \in walk.admit /\ walk.visit # "Breadth"
  <2>1. /\ DepthOf(tree, children, walk, stack', yielded')
        /\ UNCHANGED <<tree, children, walk, queue>>
        /\ mode' \in {"given", "running"}
    BY <1>1, <1>4, BeginDepth
  <2>2. OnlyRemoved' /\ Walking' /\ walk'.visit # "Breadth" /\ queue' = <<>>
    BY <1>1, <1>4, <2>1 DEF OnlyRemoved, Walking, Untouched
  <2>3. DepthOf(tree', children', walk', stack', yielded')
    BY <2>1
  <2> QED  BY <2>1, <2>2, <2>3 DEF Shape
<1> QED  BY <1>2, <1>3, <1>4

\* A step of a walk that is under way and not over afterwards.
LEMMA UnderWay ==
    ASSUME Shape, mode \in {"running", "given"}
    PROVE  /\ Walking /\ OnlyRemoved
           /\ walk.visit # "Breadth" =>
                 queue = <<>> /\ DepthOf(tree, children, walk, stack, yielded)
           /\ walk.visit = "Breadth" =>
                 stack = <<>> /\ BreadthOf(tree, children, queue, yielded)
BY DEF Shape

\* Descend keeps the shape.
LEMMA DescendShape ==
    ASSUME TypeOK, Shape, Descend
    PROVE  Shape'
<1>1. /\ mode = "running" /\ stack # <<>> /\ mode' \in {"given", "running"}
      /\ UNCHANGED <<tree, children, walk, queue>>
  BY DescendIs
<1>2. /\ Walking /\ OnlyRemoved /\ walk.visit # "Breadth" /\ queue = <<>>
      /\ DepthOf(tree, children, walk, stack, yielded)
  BY <1>1, UnderWay
<1>3. DepthOf(tree, children, walk, stack', yielded')
  BY <1>2, DescendDepth
<1>4. OnlyRemoved' /\ Walking' /\ walk'.visit # "Breadth" /\ queue' = <<>>
  BY <1>1, <1>2 DEF OnlyRemoved, Walking
<1>5. DepthOf(tree', children', walk', stack', yielded')
  BY <1>1, <1>3
<1> QED  BY <1>1, <1>4, <1>5 DEF Shape

\* Ascend keeps the shape of the path; its last generator was exhausted.
LEMMA AscendDepth ==
    ASSUME TypeOK, Shape, Ascend
    PROVE  /\ Walking /\ OnlyRemoved /\ walk.visit # "Breadth" /\ queue = <<>>
           /\ stack # <<>> /\ stack' = Front(stack)
           /\ DepthOf(tree, children, walk, stack, yielded)
           /\ DepthOf(tree, children, walk, stack', yielded')
           /\ Last(stack).successors.item = None
           /\ walk.visit = "DeepFirst" => yielded' = Append(yielded, Last(stack).node)
           /\ walk.visit # "DeepFirst" => yielded' = yielded
           /\ mode' \in {"given", "running"}
           /\ UNCHANGED <<tree, children, walk, queue>>
<1>1. /\ mode = "running" /\ stack # <<>> /\ stack' = Front(stack)
      /\ Last(stack).successors.item = None
      /\ walk.visit = "DeepFirst" => yielded' = Append(yielded, Last(stack).node) /\ mode' = "given"
      /\ walk.visit # "DeepFirst" => yielded' = yielded /\ mode' = mode
      /\ UNCHANGED <<tree, children, walk, queue>>
  BY DEF Ascend, Popped, HasItem, Yield
<1>2. /\ Walking /\ OnlyRemoved /\ walk.visit # "Breadth" /\ queue = <<>>
      /\ DepthOf(tree, children, walk, stack, yielded)
  BY <1>1, UnderWay
<1> DEFINE more == IF walk.visit = "DeepFirst" THEN Append(yielded, Last(stack).node)
                                               ELSE yielded
<1>3. yielded' = more
  BY <1>1
<1>4. DepthOf(tree, children, walk, Front(stack), more)
  <2> HIDE DEF more
  <2>1. more = IF walk.visit = "DeepFirst" THEN Append(yielded, Last(stack).node)
                                           ELSE yielded
    BY DEF more
  <2> QED  BY <1>1, <1>2, <2>1, LeaveDepth
<1> HIDE DEF more
<1> QED  BY <1>1, <1>2, <1>3, <1>4

\* Ascend keeps the shape.
LEMMA AscendShape ==
    ASSUME TypeOK, Shape, Ascend
    PROVE  Shape'
<1>1. /\ Walking /\ OnlyRemoved /\ walk.visit # "Breadth" /\ queue = <<>>
      /\ DepthOf(tree, children, walk, stack', yielded')
      /\ mode' \in {"given", "running"}
      /\ UNCHANGED <<tree, children, walk, queue>>
  BY AscendDepth
<1>2. OnlyRemoved' /\ Walking' /\ walk'.visit # "Breadth" /\ queue' = <<>>
  BY <1>1 DEF OnlyRemoved, Walking
<1>3. DepthOf(tree', children', walk', stack', yielded')
  BY <1>1
<1> QED  BY <1>1, <1>2, <1>3 DEF Shape

\* Serve keeps the shape.
LEMMA ServeShape ==
    ASSUME TypeOK, Shape, Serve
    PROVE  Shape'
<1>1. /\ mode = "running" /\ queue # <<>> /\ mode' = "given"
      /\ UNCHANGED <<tree, children, walk, stack>>
  BY ServeIs
<1>2. /\ Walking /\ OnlyRemoved /\ walk.visit = "Breadth" /\ stack = <<>>
      /\ BreadthOf(tree, children, queue, yielded)
  BY <1>1, UnderWay
<1>3. BreadthOf(tree, children, queue', yielded')
  BY <1>2, ServeBreadth
<1>4. OnlyRemoved' /\ Walking' /\ walk'.visit = "Breadth" /\ stack' = <<>>
  BY <1>1, <1>2 DEF OnlyRemoved, Walking
<1>5. BreadthOf(tree', children', queue', yielded')
  BY <1>1, <1>3
<1> QED  BY <1>1, <1>4, <1>5 DEF Shape

\* A client that removes what it was given keeps the shape.
LEMMA UnparentShape ==
    ASSUME TypeOK, Shape, RemoveUnseen = FALSE,
           NEW p \in Node, NEW i \in DOMAIN children[p], Unparent(p, i)
    PROVE  Shape'
<1>1. /\ mode = "given" /\ mode' = "given"
      /\ walk.siblings # "Forward" \/ walk.visit = "Breadth"
      /\ children[p][i] \in Range(yielded)
      /\ children' = Removed(p, i)
      /\ UNCHANGED <<tree, walk, stack, queue, yielded>>
  BY DEF Unparent, Removed
<1>2. /\ Walking /\ OnlyRemoved
      /\ walk.visit # "Breadth" =>
            queue = <<>> /\ DepthOf(tree, children, walk, stack, yielded)
      /\ walk.visit = "Breadth" =>
            stack = <<>> /\ BreadthOf(tree, children, queue, yielded)
  BY <1>1, UnderWay
<1>3. OnlyRemoved'
  <2>1. \A q \in Node : Range(Removed(p, i)[q]) \subseteq Range(tree[q])
    BY <1>2, RemovedIs
  <2> QED  BY <1>1, <2>1 DEF OnlyRemoved
<1>4. Walking'
  BY <1>1, <1>2 DEF Walking
<1>5. CASE walk.visit # "Breadth"
  <2>1. DepthOf(tree, Removed(p, i), walk, stack, yielded)
    BY <1>1, <1>2, <1>5, RemoveDepth
  <2>2. DepthOf(tree', children', walk', stack', yielded')
    BY <1>1, <2>1
  <2> QED  BY <1>1, <1>2, <1>3, <1>4, <1>5, <2>2 DEF Shape
<1>6. CASE walk.visit = "Breadth"
  <2>1. BreadthOf(tree, Removed(p, i), queue, yielded)
    BY <1>1, <1>2, <1>6, RemoveBreadth
  <2>2. BreadthOf(tree', children', queue', yielded')
    BY <1>1, <2>1
  <2> QED  BY <1>1, <1>2, <1>3, <1>4, <1>6, <2>2 DEF Shape
<1> QED  BY <1>5, <1>6

\* The walk ends, is resumed, or nobody does anything.
LEMMA SameShape ==
    ASSUME Shape, End \/ Resume \/ UNCHANGED vars
    PROVE  Shape'
<1>1. UNCHANGED <<tree, children, walk, stack, queue, yielded>>
  BY DEF End, Resume, vars
<1>2. OnlyRemoved' <=> OnlyRemoved
  BY <1>1 DEF OnlyRemoved
<1>3. Untouched' <=> Untouched
  BY <1>1 DEF Untouched
<1>4. /\ DepthOf(tree, children, walk, stack, yielded)
             => DepthOf(tree', children', walk', stack', yielded')
      /\ BreadthOf(tree, children, queue, yielded)
             => BreadthOf(tree', children', queue', yielded')
  BY <1>1
<1>5. \/ mode = mode'
      \/ mode = "running" /\ mode' = "over" /\ stack = <<>> /\ queue = <<>>
      \/ mode = "given" /\ mode' = "running"
  BY DEF End, Resume, vars
<1>6. Walking' <=> Walking
  BY <1>1, <1>5 DEF Walking
<1>7. ~Walking => mode \in {"new", "over"} /\ mode' = mode
  BY <1>5 DEF Shape
<1> QED  BY <1>1, <1>2, <1>3, <1>4, <1>5, <1>6, <1>7 DEF Shape

\* All steps keep the shape, if clients remove only what they were given.
LEMMA ShapeStep ==
    ASSUME TypeOK, Shape, RemoveUnseen = FALSE, [Next]_vars
    PROVE  Shape'
<1>1. CASE \E p \in Node : \E i \in DOMAIN children[p] : Unparent(p, i)
  <2>1. PICK p \in Node : \E i \in DOMAIN children[p] : Unparent(p, i)
    BY <1>1
  <2>2. PICK i \in DOMAIN children[p] : Unparent(p, i)
    BY <2>1
  <2> QED  BY <2>2, UnparentShape
<1> QED  BY <1>1, BeginShape, DescendShape, AscendShape, ServeShape, SameShape DEF Next, Run

\* So it always holds.
LEMMA ShapeHolds ==
    ASSUME RemoveUnseen = FALSE
    PROVE  Spec => [](TypeOK /\ Shape)
<1>1. Init => TypeOK /\ Shape
  BY InitFacts
<1>2. TypeOK /\ Shape /\ [Next]_vars => (TypeOK /\ Shape)'
  BY TypeStep, ShapeStep
<1> QED  BY <1>1, <1>2, PTL DEF Spec

\* traverse.h:200-223 and hierarchy.h:347: a client that removes only what it
\* was given, in backward order or below a walk that reads ahead, finds that
\* the generators of the walk read on as if it had not.
THEOREM WalkKeepsItsPlaces ==
    ASSUME RemoveUnseen = FALSE
    PROVE  Spec => []SlotsHold
<1>1. TypeOK /\ Shape => SlotsHold
  <2> SUFFICES ASSUME TypeOK, Shape, walk.siblings # "Reversed", NEW j \in DOMAIN stack
               PROVE  LET g == stack[j].successors
                      IN  \A m \in DOMAIN g.slots :
                             /\ g.slots[m] \in DOMAIN children[g.of]
                             /\ children[g.of][g.slots[m]] = tree[g.of][g.slots[m]]
    BY DEF SlotsHold
  <2>1. stack \in Seq(Frame)
    BY DEF TypeOK, Frame
  <2>2. j \in 1 .. Len(stack) /\ stack[j] \in Frame
    BY <2>1, LenProperties, ElementOfSeq
  <2>3. stack # <<>>
    BY <2>1, <2>2, EmptySeq
  <2>4. DepthOf(tree, children, walk, stack, yielded)
    BY <2>3 DEF Shape, Untouched
  <2>5. Held(tree, children, walk, stack[j].successors)
    BY <2>2, <2>4 DEF DepthOf, FramesFit
  <2>6. DOMAIN stack[j].successors.slots = 1 .. Len(stack[j].successors.slots)
    BY <2>2, LenProperties DEF Frame, Generator
  <2> QED  BY <2>5, <2>6 DEF Held
<1>2. Spec => [](TypeOK /\ Shape)
  BY ShapeHolds
<1> QED  BY <1>1, <1>2, PTL

\* hierarchy.h:347: no walk gives a node twice when its client removes only
\* what it was given.  (The run walk_removals shows that it does when the client
\* removes what it was not given yet.)
THEOREM WalkGivesNoneTwice ==
    ASSUME RemoveUnseen = FALSE
    PROVE  Spec => []GivesNoneTwice
<1>1. TypeOK /\ Shape => GivesNoneTwice
  <2> SUFFICES ASSUME TypeOK, Shape PROVE IsInjective(yielded)
    BY DEF GivesNoneTwice
  <2>1. yielded \in Seq(Node) /\ queue \in Seq(Node)
    BY DEF TypeOK
  <2>2. CASE ~Walking
    <3>1. yielded = <<>>
      BY <2>2 DEF Shape, Untouched
    <3>2. Len(yielded) = 0
      BY <3>1
    <3>3. \A i, j \in 1 .. Len(yielded) : yielded[i] = yielded[j] => i = j
      BY <3>2
    <3> QED  BY <2>1, <3>3, InRange
  <2>3. CASE Walking /\ walk.visit = "Breadth"
    <3>1. IsInjective(yielded \o queue)
      BY <2>3 DEF Shape, BreadthOf
    <3> QED  BY <2>1, <3>1, InjectiveConcat
  <2>4. CASE Walking /\ walk.visit # "Breadth"
    BY <2>4 DEF Shape, DepthOf
  <2> QED  BY <2>2, <2>3, <2>4
<1>2. Spec => [](TypeOK /\ Shape)
  BY ShapeHolds
<1> QED  BY <1>1, <1>2, PTL

-----------------------------------------------------------------------------
(* The order of dfs *)

\* What a walk gives when it comes to n, and when it leaves n.
Start(w, n) == IF w.visit = "ShallowFirst" THEN <<n>> ELSE <<>>

Finish(w, n) == IF w.visit = "DeepFirst" THEN <<n>> ELSE <<>>

\* W[n] is n with all below it.
IsWhole(W, t, w) ==
    /\ HasLists(W, Node, Node)
    /\ \A n \in Node : W[n] = Start(w, n) \o (Flat(W, Births(t, w, n)) \o Finish(w, n))

\* rest[i] is what is still to be given when i frames are left on the path.
IsRest(W, t, w, frames, rest) ==
    /\ rest \in [0 .. Len(frames) -> Seq(Node)]
    /\ rest[0] = <<>>
    /\ \A i \in 1 .. Len(frames) :
          rest[i] = Flat(W, Coming(t, w, frames[i].successors))
                       \o (Finish(w, frames[i].node) \o rest[i - 1])

\* What was given and what is still to be given are all nodes, in order.
DepthOrder(t, w, frames, given) ==
    \A W : IsWhole(W, t, w) =>
        \E rest : /\ IsRest(W, t, w, frames, rest)
                  /\ given \o rest[Len(frames)] = W[Root]

\* What a walk gives before and after what is below a node are lists.
LEMMA StartFinishType ==
    ASSUME NEW w, NEW n \in Node
    PROVE  Start(w, n) \in Seq(Node) /\ Finish(w, n) \in Seq(Node)
<1>1. <<n>> \in Seq(Node) /\ <<>> \in Seq(Node)
  BY SingleSeq, EmptySeq
<1> QED  BY <1>1 DEF Start, Finish

\* The successors of a node are some of its children.
LEMMA BirthsType ==
    ASSUME TypeOK, NEW n \in Node
    PROVE  Births(tree, walk, n) \in Seq(Node) /\ Range(Births(tree, walk, n)) \subseteq Range(tree[n])
<1> DEFINE s == Line(tree, walk, n)
<1>1. s \in Seq(Node) /\ Range(s) \subseteq Range(tree[n]) /\ 0 \in 0 .. Len(s)
  BY LineFacts
<1>2. \A x \in Range(Births(tree, walk, n)) : \E j \in 0 + 1 .. Len(s) : x = s[j]
  BY <1>1, BehindRange DEF Births
<1>3. \A j \in 0 + 1 .. Len(s) : s[j] \in Range(s)
  BY <1>1, InRange
<1>4. Births(tree, walk, n) \in Seq(Node)
  BY <1>1, BehindFacts DEF Births
<1> QED  BY <1>1, <1>2, <1>3, <1>4

\* An exhausted generator has nothing to give.
LEMMA ComingFacts ==
    ASSUME TypeOK, NEW n \in Node, NEW g \in Generator, Fits(tree, walk, n, g)
    PROVE  /\ Coming(tree, walk, g) \in Seq(Node)
           /\ g.item = None => Coming(tree, walk, g) = <<>>
<1> DEFINE s == Line(tree, walk, n)
           p == Place(tree, walk, g)
<1>1. g.of = n /\ Len(g.slots) <= Len(s) /\ p = Len(s) - Len(g.slots)
  BY DEF Fits, Slotted, Place
<1>2. s \in Seq(Node) /\ Len(s) \in Nat /\ Len(g.slots) \in Nat /\ g.item \in Node \cup {None}
  BY LineFacts, LenProperties DEF Generator
<1>3. p \in 0 .. Len(s)
  BY <1>1, <1>2
<1>4. Behind(walk, s, p) \in Seq(Node) /\ Behind(walk, s, Len(s)) = <<>>
  BY <1>2, <1>3, BehindFacts
<1>5. Coming(tree, walk, g) = (IF g.item = None THEN <<>> ELSE <<g.item>>) \o Behind(walk, s, p)
  BY <1>1 DEF Coming
<1>6. CASE g.item = None
  <2>1. g.slots = <<>>
    BY <1>6 DEF Fits
  <2>2. p = Len(s)
    BY <1>1, <1>2, <2>1
  <2>3. <<>> \o <<>> = <<>>
    OBVIOUS
  <2> HIDE DEF p
  <2>4. Coming(tree, walk, g) = <<>>
    BY <1>4, <1>5, <1>6, <2>2, <2>3
  <2> QED  BY <2>4, EmptySeq
<1>7. CASE g.item # None
  <2> DEFINE one == <<g.item>>
  <2>1. one \in Seq(Node)
    BY <1>2, <1>7, SingleSeq
  <2> HIDE DEF one
  <2>2. Coming(tree, walk, g) = one \o Behind(walk, s, p)
    BY <1>5, <1>7 DEF one
  <2> QED  BY <1>4, <1>7, <2>1, <2>2, ConcatProperties
<1> QED  BY <1>6, <1>7

\* The whole of a node, piece by piece.
LEMMA WholeFacts ==
    ASSUME TypeOK, NEW W, IsWhole(W, tree, walk), NEW c \in Node, NEW y \in Seq(Node)
    PROVE  LET b == Flat(W, Births(tree, walk, c))
           IN  /\ W[c] \in Seq(Node) /\ b \in Seq(Node)
               /\ b \o (Finish(walk, c) \o y) \in Seq(Node)
               /\ W[c] \o y = Start(walk, c) \o (b \o (Finish(walk, c) \o y))
<1> DEFINE b == Flat(W, Births(tree, walk, c))
           st == Start(walk, c)
           fi == Finish(walk, c)
<1>1. HasLists(W, Node, Node) /\ W[c] = st \o (b \o fi)
  BY DEF IsWhole
<1>2. Births(tree, walk, c) \in Seq(Node) /\ st \in Seq(Node) /\ fi \in Seq(Node)
  BY BirthsType, StartFinishType
<1>3. b \in Seq(Node)
  BY <1>1, <1>2, FlatType
<1> HIDE DEF b, st, fi
<1>4. b \o fi \in Seq(Node) /\ fi \o y \in Seq(Node)
  BY <1>2, <1>3, ConcatProperties
<1>5. st \o (b \o fi) \in Seq(Node) /\ b \o (fi \o y) \in Seq(Node)
  BY <1>2, <1>3, <1>4, ConcatProperties
<1>6. (b \o fi) \o y = b \o (fi \o y)
  BY <1>2, <1>3, ConcatAssociative
<1>7. (st \o (b \o fi)) \o y = st \o ((b \o fi) \o y)
  <2> DEFINE u == b \o fi
  <2>1. u \in Seq(Node)
    BY <1>4
  <2> HIDE DEF u
  <2>2. (st \o u) \o y = st \o (u \o y)
    BY <1>2, <2>1, ConcatAssociative
  <2> QED  BY <2>2 DEF u
<1> QED  BY <1>1, <1>3, <1>5, <1>6, <1>7 DEF b, st, fi

\* At the beginning everything is still to be given, or everything behind the root.
LEMMA BeginOrder ==
    ASSUME TypeOK, Untouched, Begin, Root \in walk.admit, walk.visit # "Breadth"
    PROVE  DepthOrder(tree, walk, stack', yielded')
<1>1. PICK h \in Generator :
         /\ stack' \in Seq(Frame) /\ Len(stack') = 1
         /\ stack'[1] = [node |-> Root, successors |-> h]
         /\ Coming(tree, walk, h) = Births(tree, walk, Root)
  BY BeginDepth
<1>2. yielded' = Start(walk, Root)
  BY BeginDepth DEF Start
<1> SUFFICES ASSUME NEW W, IsWhole(W, tree, walk)
             PROVE  \E rest : /\ IsRest(W, tree, walk, stack', rest)
                              /\ yielded' \o rest[Len(stack')] = W[Root]
  BY DEF DepthOrder
<1> DEFINE none == <<>>
           b == Flat(W, Births(tree, walk, Root))
           all == b \o (Finish(walk, Root) \o none)
           rest == [i \in 0 .. 1 |-> IF i = 0 THEN none ELSE all]
<1>3. none \in Seq(Node) /\ Root \in Node
  BY EmptySeq, NodeAssumption
<1>4. W[Root] \in Seq(Node) /\ all \in Seq(Node) /\ W[Root] \o none = Start(walk, Root) \o all
  BY <1>3, WholeFacts
<1>5. W[Root] \o none = W[Root]
  BY <1>4, ConcatEmptySeq
<1>6. rest[0] = none /\ rest[1] = all
  OBVIOUS
<1>7. rest \in [0 .. 1 -> Seq(Node)]
  BY <1>3, <1>4
<1>8. stack'[1].node = Root /\ stack'[1].successors = h
  BY <1>1
<1>9. all = Flat(W, Coming(tree, walk, stack'[1].successors))
               \o (Finish(walk, stack'[1].node) \o none)
  BY <1>1, <1>8
<1> HIDE DEF all, rest
<1>10. IsRest(W, tree, walk, stack', rest)
  <2>1. ASSUME NEW i \in 1 .. 1
        PROVE  rest[i] = Flat(W, Coming(tree, walk, stack'[i].successors))
                            \o (Finish(walk, stack'[i].node) \o rest[i - 1])
    <3>1. i = 1 /\ i - 1 = 0
      OBVIOUS
    <3> QED  BY <1>6, <1>9, <3>1
  <2>2. rest[0] = <<>>
    BY <1>6 DEF none
  <2> HIDE DEF none
  <2> QED  BY <1>1, <1>7, <2>1, <2>2 DEF IsRest
<1>11. yielded' \o rest[Len(stack')] = W[Root]
  BY <1>1, <1>2, <1>4, <1>5, <1>6
<1> QED  BY <1>10, <1>11

\* Descend turns the item c of the last generator into c and the frame of c.
LEMMA DescendOrder ==
    ASSUME TypeOK, DepthOf(tree, children, walk, stack, yielded),
           DepthOrder(tree, walk, stack, yielded), Descend, walk.visit # "Breadth"
    PROVE  DepthOrder(tree, walk, stack', yielded')
<1> DEFINE L == Len(stack)
           c == stack[L].successors.item
           n == stack[L].node
<1>1. c \in Node /\ L \in Nat \ {0}
  BY DescendDepth
<1>2. PICK g \in Generator : \E h \in Generator : Below(g, h, c)
  BY DescendDepth
<1>3. PICK h \in Generator : Below(g, h, c)
  BY <1>2
<1>4. yielded' = yielded \o Start(walk, c) /\ yielded \in Seq(Node)
  <2>1. yielded \in Seq(Node)
    BY DEF TypeOK
  <2>2. Append(yielded, c) = yielded \o <<c>> /\ yielded \o <<>> = yielded
    BY <1>1, <2>1, AppendIsConcat, ConcatEmptySeq
  <2>3. /\ walk.visit = "ShallowFirst" => yielded' = Append(yielded, c)
        /\ walk.visit # "ShallowFirst" => yielded' = yielded
    BY DescendIs
  <2> QED  BY <2>1, <2>2, <2>3 DEF Start
<1>5. /\ Len(stack') = L + 1
      /\ \A i \in 1 .. L - 1 : stack'[i] = stack[i]
      /\ stack'[L].node = n /\ stack'[L].successors = g
      /\ stack'[L + 1].node = c /\ stack'[L + 1].successors = h
      /\ Coming(tree, walk, stack[L].successors) = <<c>> \o Coming(tree, walk, g)
      /\ Coming(tree, walk, h) = Births(tree, walk, c)
  BY <1>3 DEF Below
<1>6. stack[L] \in Frame
  <2>1. stack \in Seq(Frame) /\ L \in 1 .. Len(stack)
    BY <1>1 DEF TypeOK, Frame
  <2> QED  BY <2>1, ElementOfSeq
<1>7. n \in Node
  BY <1>6 DEF Frame
<1>8. Coming(tree, walk, g) \in Seq(Node)
  <2>1. L \in 1 .. Len(stack')
    BY <1>1, <1>5
  <2>2. DepthOf(tree, children, walk, stack', yielded')
    BY DescendDepth
  <2>3. Fits(tree, walk, stack'[L].node, stack'[L].successors)
    BY <2>1, <2>2 DEF DepthOf, FramesFit
  <2> QED  BY <1>5, <1>7, <2>3, ComingFacts
<1> HIDE DEF L, c, n
<1> SUFFICES ASSUME NEW W, IsWhole(W, tree, walk)
             PROVE  \E rest : /\ IsRest(W, tree, walk, stack', rest)
                              /\ yielded' \o rest[Len(stack')] = W[Root]
  BY DEF DepthOrder
<1>9. PICK old : /\ IsRest(W, tree, walk, stack, old)
                 /\ yielded \o old[Len(stack)] = W[Root]
  BY DEF DepthOrder
<1>10. /\ old \in [0 .. L -> Seq(Node)] /\ old[0] = <<>>
       /\ \A i \in 1 .. L :
             old[i] = Flat(W, Coming(tree, walk, stack[i].successors))
                         \o (Finish(walk, stack[i].node) \o old[i - 1])
       /\ yielded \o old[L] = W[Root]
  BY <1>9 DEF IsRest, L
<1> DEFINE go == Flat(W, Coming(tree, walk, g))
           x == Finish(walk, n) \o old[L - 1]
           y == go \o x
           b == Flat(W, Births(tree, walk, c))
           z == b \o (Finish(walk, c) \o y)
           rest == [i \in 0 .. L + 1 |-> IF i < L THEN old[i] ELSE IF i = L THEN y ELSE z]
<1>11. HasLists(W, Node, Node)
  BY DEF IsWhole
<1>12. go \in Seq(Node)
  BY <1>8, <1>11, FlatType
<1>13. x \in Seq(Node)
  <2>1. old[L - 1] \in Seq(Node) /\ Finish(walk, n) \in Seq(Node)
    BY <1>1, <1>7, <1>10, StartFinishType
  <2> QED  BY <2>1, ConcatProperties
<1>14. y \in Seq(Node)
  <2> HIDE DEF go, x
  <2> QED  BY <1>12, <1>13, ConcatProperties
<1>15. /\ W[c] \in Seq(Node) /\ z \in Seq(Node)
       /\ W[c] \o y = Start(walk, c) \o z
  <2> HIDE DEF y
  <2> QED  BY <1>1, <1>14, WholeFacts
<1>16. old[L] = W[c] \o y
  <2> DEFINE one == <<c>>
             com == Coming(tree, walk, g)
  <2>1. one = <<c>> /\ com \in Seq(Node)
    BY <1>8
  <2>2. old[L] = Flat(W, one \o com) \o x
    <3>1. L \in 1 .. L
      BY <1>1
    <3>2. stack[L].node = n
      BY DEF n
    <3> QED  BY <1>5, <1>10, <3>1, <3>2
  <2> HIDE DEF one, com, x
  <2>3. Flat(W, one \o com) = W[c] \o Flat(W, com)
    BY <1>1, <1>11, <2>1, FlatEnds
  <2>4. go = Flat(W, com)
    BY DEF com
  <2> HIDE DEF go
  <2>5. (W[c] \o go) \o x = W[c] \o (go \o x)
    <3> DEFINE whole == W[c]
    <3>1. whole \in Seq(Node) /\ go \in Seq(Node) /\ x \in Seq(Node)
      BY <1>12, <1>13, <1>15
    <3> HIDE DEF whole
    <3>2. (whole \o go) \o x = whole \o (go \o x)
      BY ONLY <3>1, ConcatAssociative
    <3> QED  BY <3>2 DEF whole
  <2> QED  BY <2>2, <2>3, <2>4, <2>5
<1>17. yielded' \o z = W[Root]
  <2> DEFINE st == Start(walk, c)
  <2>1. st \in Seq(Node)
    BY <1>1, StartFinishType
  <2> HIDE DEF st, z, y
  <2>2. (yielded \o st) \o z = yielded \o (st \o z)
    BY <1>4, <1>15, <2>1, ConcatAssociative
  <2> QED  BY <1>4, <1>10, <1>15, <1>16, <2>2 DEF st
<1>18. /\ \A i \in 0 .. L - 1 : rest[i] = old[i]
       /\ rest[L] = y /\ rest[L + 1] = z
  BY <1>1
<1>19. rest \in [0 .. L + 1 -> Seq(Node)]
  <2> HIDE DEF y, z
  <2>1. \A i \in 0 .. L + 1 : i < L => i \in 0 .. L
    BY <1>1
  <2> QED  BY <1>1, <1>10, <1>14, <1>15, <2>1
<1> HIDE DEF rest
<1>20. ASSUME NEW i \in 1 .. L + 1
       PROVE  rest[i] = Flat(W, Coming(tree, walk, stack'[i].successors))
                           \o (Finish(walk, stack'[i].node) \o rest[i - 1])
  <2>1. CASE i \in 1 .. L - 1
    <3>1. i \in 1 .. L /\ i \in 0 .. L - 1 /\ i - 1 \in 0 .. L - 1
      BY <1>1, <2>1
    <3> QED  BY <1>5, <1>10, <1>18, <2>1, <3>1
  <2>2. CASE i = L
    <3>1. L - 1 \in 0 .. L - 1
      BY <1>1
    <3>2. rest[L - 1] = old[L - 1]
      BY <1>18, <3>1
    <3> QED  BY <1>5, <1>18, <2>2, <3>2
  <2>3. CASE i = L + 1
    <3>1. i - 1 = L
      BY <1>1, <2>3
    <3> QED  BY <1>5, <1>18, <2>3, <3>1
  <2>4. i \in 1 .. L - 1 \/ i = L \/ i = L + 1
    BY <1>1
  <2> QED  BY <2>1, <2>2, <2>3, <2>4
<1>21. rest[0] = <<>>
  <2>1. 0 \in 0 .. L - 1
    BY <1>1
  <2> QED  BY <1>10, <1>18, <2>1
<1>22. IsRest(W, tree, walk, stack', rest)
  BY <1>5, <1>19, <1>20, <1>21 DEF IsRest
<1> QED  BY <1>5, <1>17, <1>18, <1>22

\* Ascend gives what was left of the last frame.
LEMMA AscendOrder ==
    ASSUME TypeOK, Shape, Ascend, DepthOrder(tree, walk, stack, yielded)
    PROVE  DepthOrder(tree, walk, stack', yielded')
<1> DEFINE L == Len(stack)
           n == stack[L].node
           g == stack[L].successors
<1>1. /\ stack # <<>> /\ stack' = Front(stack)
      /\ DepthOf(tree, children, walk, stack, yielded)
      /\ Last(stack).successors.item = None
      /\ walk.visit = "DeepFirst" => yielded' = Append(yielded, Last(stack).node)
      /\ walk.visit # "DeepFirst" => yielded' = yielded
  BY AscendDepth
<1>2. stack \in Seq(Frame) /\ yielded \in Seq(Node)
  BY DEF TypeOK, Frame
<1>3. /\ L \in Nat \ {0} /\ Last(stack) = stack[L] /\ stack[L] \in Frame
      /\ Len(stack') = L - 1
      /\ \A i \in 1 .. L - 1 : stack'[i] = stack[i]
  BY <1>1, <1>2, FrontProperties
<1>4. n \in Node /\ g \in Generator /\ g.item = None
  BY <1>1, <1>3 DEF Frame
<1>5. Coming(tree, walk, g) = <<>>
  <2>1. L \in 1 .. Len(stack)
    BY <1>3
  <2>2. Fits(tree, walk, n, g)
    BY <1>1, <2>1 DEF DepthOf, FramesFit
  <2> QED  BY <1>4, <2>2, ComingFacts
<1>6. yielded' = yielded \o Finish(walk, n)
  <2>1. Append(yielded, n) = yielded \o <<n>> /\ yielded \o <<>> = yielded
    BY <1>2, <1>4, AppendIsConcat, ConcatEmptySeq
  <2> QED  BY <1>1, <1>3, <2>1 DEF Finish
<1> HIDE DEF L, n, g
<1> SUFFICES ASSUME NEW W, IsWhole(W, tree, walk)
             PROVE  \E rest : /\ IsRest(W, tree, walk, stack', rest)
                              /\ yielded' \o rest[Len(stack')] = W[Root]
  BY DEF DepthOrder
<1>7. PICK old : /\ IsRest(W, tree, walk, stack, old)
                 /\ yielded \o old[Len(stack)] = W[Root]
  BY DEF DepthOrder
<1>8. /\ old \in [0 .. L -> Seq(Node)] /\ old[0] = <<>>
      /\ \A i \in 1 .. L :
            old[i] = Flat(W, Coming(tree, walk, stack[i].successors))
                        \o (Finish(walk, stack[i].node) \o old[i - 1])
      /\ yielded \o old[L] = W[Root]
  BY <1>7 DEF IsRest, L
<1> DEFINE fi == Finish(walk, n)
           r == old[L - 1]
           rest == [i \in 0 .. L - 1 |-> old[i]]
<1>9. fi \in Seq(Node) /\ r \in Seq(Node)
  BY <1>3, <1>4, <1>8, StartFinishType
<1>10. old[L] = fi \o r
  <2>1. L \in 1 .. L
    BY <1>3
  <2>2. old[L] = Flat(W, <<>>) \o (fi \o r)
    BY <1>5, <1>8, <2>1 DEF n, g
  <2>3. Flat(W, <<>>) = <<>>
    BY FlatEmpty
  <2> HIDE DEF fi, r
  <2>4. fi \o r \in Seq(Node)
    BY <1>9, ConcatProperties
  <2>5. <<>> \o (fi \o r) = fi \o r
    <3> DEFINE u == fi \o r
    <3>1. u \in Seq(Node)
      BY <2>4
    <3> HIDE DEF u
    <3>2. <<>> \o u = u
      BY <3>1, ConcatEmptySeq
    <3> QED  BY <3>2 DEF u
  <2> QED  BY <2>2, <2>3, <2>5
<1>11. yielded' \o r = W[Root]
  <2> HIDE DEF fi, r
  <2>1. (yielded \o fi) \o r = yielded \o (fi \o r)
    BY <1>2, <1>9, ConcatAssociative
  <2> QED  BY <1>6, <1>8, <1>10, <2>1 DEF fi
<1>12. rest[L - 1] = r /\ rest[0] = <<>>
  BY <1>3, <1>8
<1>13. rest \in [0 .. L - 1 -> Seq(Node)]
  <2>1. \A i \in 0 .. L - 1 : i \in 0 .. L
    BY <1>3
  <2> QED  BY <1>8, <2>1
<1>14. ASSUME NEW i \in 1 .. L - 1
       PROVE  rest[i] = Flat(W, Coming(tree, walk, stack'[i].successors))
                           \o (Finish(walk, stack'[i].node) \o rest[i - 1])
  <2>1. i \in 1 .. L /\ i \in 0 .. L - 1 /\ i - 1 \in 0 .. L - 1
    BY <1>3
  <2>2. rest[i] = old[i] /\ rest[i - 1] = old[i - 1]
    BY <2>1
  <2> HIDE DEF rest
  <2> QED  BY <1>3, <1>8, <2>1, <2>2
<1> HIDE DEF rest
<1>15. IsRest(W, tree, walk, stack', rest)
  BY <1>3, <1>12, <1>13, <1>14 DEF IsRest
<1> QED  BY <1>3, <1>11, <1>12, <1>15

-----------------------------------------------------------------------------
(* PreOrder and PostOrder *)

\* A parent and its child.
Bears == {cc \in Node \X Node : cc[1] \in Range(tree[cc[2]])}

\* Every set of nodes has one without a child in it.
LEMMA TreeIsGrounded ==
    ASSUME TypeOK
    PROVE  Grounded(Bears, Node)
<1> SUFFICES ASSUME NEW T \in SUBSET Node, T # {}
             PROVE  \E x \in T : \A y \in T : <<y, x>> \notin Bears
  BY DEF Grounded
<1>1. PICK x \in T : Range(tree[x]) \cap T = {}
  BY TreesAssumption DEF TypeOK
<1>2. \A y \in T : <<y, x>> \notin Bears
  BY <1>1 DEF Bears
<1> QED  BY <1>2

\* The successors of a node come before it in a recursion over the tree.
LEMMA BirthsAreBelow ==
    ASSUME TypeOK, NEW n \in Node
    PROVE  /\ Births(tree, walk, n) \in Seq(Node)
           /\ \A i \in DOMAIN Births(tree, walk, n) :
                 /\ Births(tree, walk, n)[i] \in Node
                 /\ <<Births(tree, walk, n)[i], n>> \in Bears
<1> DEFINE b == Births(tree, walk, n)
<1>1. b \in Seq(Node) /\ Range(b) \subseteq Range(tree[n])
  BY BirthsType
<1> HIDE DEF b
<1>2. DOMAIN b = 1 .. Len(b)
  BY <1>1, LenProperties
<1>3. \A i \in 1 .. Len(b) : b[i] \in Range(b) /\ b[i] \in Node
  BY <1>1, InRange, ElementOfSeq
<1>4. \A i \in 1 .. Len(b) : <<b[i], n>> \in Bears
  BY <1>1, <1>3 DEF Bears
<1> QED  BY <1>1, <1>2, <1>3, <1>4 DEF b

\* The equation of the whole order has a solution.
LEMMA WholeExists ==
    ASSUME TypeOK
    PROVE  \E W : IsWhole(W, tree, walk)
<1> DEFINE E == Node
           V == Seq(Node)
           F == [E -> V]
           R == Bears
           val(g, n) == Start(walk, n) \o (Flat(g, Births(tree, walk, n)) \o Finish(walk, n))
           step == [g \in F |-> [n \in E |-> val(g, n)]]
<1>1. ASSUME NEW g \in F, NEW n \in E PROVE val(g, n) \in V
  <2> DEFINE b == Flat(g, Births(tree, walk, n))
             st == Start(walk, n)
             fi == Finish(walk, n)
  <2>1. HasLists(g, Node, Node)
    BY DEF HasLists
  <2>2. b \in Seq(Node) /\ st \in Seq(Node) /\ fi \in Seq(Node)
    BY <2>1, BirthsType, FlatType, StartFinishType
  <2> HIDE DEF b, st, fi
  <2>3. b \o fi \in Seq(Node)
    BY <2>2, ConcatProperties
  <2>4. st \o (b \o fi) \in Seq(Node)
    <3> DEFINE u == b \o fi
    <3>1. u \in Seq(Node)
      BY <2>3
    <3> HIDE DEF u
    <3>2. st \o u \in Seq(Node)
      BY <2>2, <3>1, ConcatProperties
    <3> QED  BY <3>2 DEF u
  <2> QED  BY <2>4 DEF b, st, fi
<1>2. LooksDown(E, V, R, step)
  <2>1. step \in [F -> F]
    <3>1. \A g \in F : [n \in E |-> val(g, n)] \in F
      <4> HIDE DEF val
      <4> QED  BY <1>1
    <3> HIDE DEF val
    <3> QED  BY <3>1
  <2>2. ASSUME NEW g \in F, NEW h \in F, NEW n \in E,
               \A d \in E : <<d, n>> \in R => g[d] = h[d]
        PROVE  step[g][n] = step[h][n]
    <3> DEFINE b == Births(tree, walk, n)
    <3>1. \A i \in DOMAIN b : b[i] \in E /\ <<b[i], n>> \in R
      BY BirthsAreBelow
    <3> HIDE DEF b
    <3>2. \A i \in DOMAIN b : g[b[i]] = h[b[i]]
      BY <2>2, <3>1
    <3>3. Map(g, b) = Map(h, b)
      BY <3>2 DEF Map
    <3>4. val(g, n) = val(h, n)
      BY <3>3 DEF Flat, b
    <3> HIDE DEF val
    <3> QED  BY <3>4
  <2>3. V # {}
    BY EmptySeq
  <2> HIDE DEF step, V, R, E
  <2> QED  BY <2>1, <2>2, <2>3 DEF LooksDown
<1>3. Grounded(R, E)
  BY TreeIsGrounded
<1>4. PICK g \in F : g = step[g]
  <2> HIDE DEF step, V, R, E
  <2> QED  BY <1>2, <1>3, RecursionHasSolution
<1>5. \A n \in Node : g[n] = val(g, n)
  <2> HIDE DEF val
  <2>1. g = [n \in E |-> val(g, n)]
    BY <1>4
  <2> QED  BY <2>1
<1>6. HasLists(g, Node, Node)
  BY DEF HasLists
<1> HIDE DEF F
<1>7. IsWhole(g, tree, walk)
  BY <1>5, <1>6 DEF IsWhole
<1> QED  BY <1>7

\* Two functions with the same values for the nodes below a node as values for
\* it are the same.
LEMMA WholesAgree ==
    ASSUME TypeOK, NEW f, NEW g,
           DOMAIN f = Node, DOMAIN g = Node,
           f = [n \in Node |-> f[n]], g = [n \in Node |-> g[n]],
           \A n \in Node :
              (\A i \in DOMAIN Births(tree, walk, n) :
                  f[Births(tree, walk, n)[i]] = g[Births(tree, walk, n)[i]])
              => f[n] = g[n]
    PROVE  f = g
<1> DEFINE T == {n \in Node : f[n] # g[n]}
<1>1. SUFFICES ASSUME T # {} PROVE FALSE
  OBVIOUS
<1>2. PICK x \in T : \A y \in T : <<y, x>> \notin Bears
  <2>1. T \in SUBSET Node
    OBVIOUS
  <2> HIDE DEF T
  <2> QED  BY <1>1, <2>1, TreeIsGrounded DEF Grounded
<1>3. \A i \in DOMAIN Births(tree, walk, x) :
         f[Births(tree, walk, x)[i]] = g[Births(tree, walk, x)[i]]
  BY <1>2, BirthsAreBelow
<1> QED  BY <1>2, <1>3

\* PreOrder satisfies it for a walk with the parents first.
LEMMA PreOrderIsWhole ==
    ASSUME TypeOK, walk.visit = "ShallowFirst"
    PROVE  IsWhole(PreOrder, tree, walk)
<1> DEFINE val(f, n) == <<n>> \o FlattenSeq([i \in DOMAIN Born(n) |-> f[Born(n)[i]]])
           below == CHOOSE below : below = [n \in Node |-> val(below, n)]
<1>1. PICK g : IsWhole(g, tree, walk)
  BY WholeExists
<1>2. ASSUME NEW n \in Node PROVE Born(n) = Births(tree, walk, n)
  BY FoundIs
<1>3. HasLists(g, Node, Node) /\ g = [n \in Node |-> g[n]] /\ DOMAIN g = Node
  <2>1. g \in [Node -> Seq(Node)]
    BY <1>1 DEF IsWhole, HasLists
  <2> QED  BY <2>1 DEF HasLists
<1>4. ASSUME NEW n \in Node PROVE g[n] = val(g, n)
  <2> DEFINE b == Births(tree, walk, n)
  <2>1. g[n] = <<n>> \o (Flat(g, b) \o <<>>)
    BY <1>1 DEF IsWhole, Start, Finish
  <2>2. Flat(g, b) \in Seq(Node)
    BY <1>3, BirthsType, FlatType
  <2>3. Flat(g, b) \o <<>> = Flat(g, b)
    BY <2>2, ConcatEmptySeq
  <2>4. Flat(g, b) = FlattenSeq([i \in DOMAIN b |-> g[b[i]]])
    BY DEF Flat, Map
  <2> HIDE DEF b
  <2>5. b = Born(n)
    BY <1>2 DEF b
  <2> QED  BY <2>1, <2>3, <2>4, <2>5
<1>5. g = [n \in Node |-> val(g, n)]
  <2> HIDE DEF val
  <2> QED  BY <1>3, <1>4
<1>6. below = [n \in Node |-> val(below, n)]
  <2> HIDE DEF val
  <2> QED  BY <1>5
<1>7. PreOrder = below
  BY DEF PreOrder
<1> HIDE DEF below
<1>8. \A n \in Node : below[n] = val(below, n)
  <2> HIDE DEF val
  <2> QED  BY <1>6
<1>9. ASSUME NEW n \in Node,
             \A i \in DOMAIN Births(tree, walk, n) :
                below[Births(tree, walk, n)[i]] = g[Births(tree, walk, n)[i]]
      PROVE  below[n] = g[n]
  <2>1. [i \in DOMAIN Born(n) |-> below[Born(n)[i]]] = [i \in DOMAIN Born(n) |-> g[Born(n)[i]]]
    BY <1>2, <1>9
  <2>2. val(below, n) = val(g, n)
    BY <2>1
  <2> HIDE DEF val
  <2> QED  BY <1>4, <1>8, <2>2
<1>10. DOMAIN below = Node /\ below = [n \in Node |-> below[n]]
  <2> HIDE DEF val
  <2> QED  BY <1>6
<1>11. below = g
  BY <1>3, <1>9, <1>10, WholesAgree
<1> QED  BY <1>1, <1>7, <1>11

\* PostOrder satisfies it for a walk with the children first.
LEMMA PostOrderIsWhole ==
    ASSUME TypeOK, walk.visit = "DeepFirst"
    PROVE  IsWhole(PostOrder, tree, walk)
<1> DEFINE val(f, n) == FlattenSeq([i \in DOMAIN Born(n) |-> f[Born(n)[i]]]) \o <<n>>
           below == CHOOSE below : below = [n \in Node |-> val(below, n)]
<1>1. PICK g : IsWhole(g, tree, walk)
  BY WholeExists
<1>2. ASSUME NEW n \in Node PROVE Born(n) = Births(tree, walk, n)
  BY FoundIs
<1>3. HasLists(g, Node, Node) /\ g = [n \in Node |-> g[n]] /\ DOMAIN g = Node
  <2>1. g \in [Node -> Seq(Node)]
    BY <1>1 DEF IsWhole, HasLists
  <2> QED  BY <2>1 DEF HasLists
<1>4. ASSUME NEW n \in Node PROVE g[n] = val(g, n)
  <2> DEFINE b == Births(tree, walk, n)
             all == Flat(g, b) \o <<n>>
  <2>1. g[n] = <<>> \o all
    BY <1>1 DEF IsWhole, Start, Finish
  <2>2. all \in Seq(Node)
    <3>1. Flat(g, b) \in Seq(Node) /\ <<n>> \in Seq(Node)
      BY <1>3, BirthsType, FlatType, SingleSeq
    <3> QED  BY <3>1, ConcatProperties
  <2> HIDE DEF all
  <2>3. <<>> \o all = all
    BY <2>2, ConcatEmptySeq
  <2>4. all = FlattenSeq([i \in DOMAIN b |-> g[b[i]]]) \o <<n>>
    BY DEF Flat, Map, all
  <2> HIDE DEF b
  <2>5. b = Born(n)
    BY <1>2 DEF b
  <2> QED  BY <2>1, <2>3, <2>4, <2>5
<1>5. g = [n \in Node |-> val(g, n)]
  <2> HIDE DEF val
  <2> QED  BY <1>3, <1>4
<1>6. below = [n \in Node |-> val(below, n)]
  <2> HIDE DEF val
  <2> QED  BY <1>5
<1>7. PostOrder = below
  BY DEF PostOrder
<1> HIDE DEF below
<1>8. \A n \in Node : below[n] = val(below, n)
  <2> HIDE DEF val
  <2> QED  BY <1>6
<1>9. ASSUME NEW n \in Node,
             \A i \in DOMAIN Births(tree, walk, n) :
                below[Births(tree, walk, n)[i]] = g[Births(tree, walk, n)[i]]
      PROVE  below[n] = g[n]
  <2>1. [i \in DOMAIN Born(n) |-> below[Born(n)[i]]] = [i \in DOMAIN Born(n) |-> g[Born(n)[i]]]
    BY <1>2, <1>9
  <2>2. val(below, n) = val(g, n)
    BY <2>1
  <2> HIDE DEF val
  <2> QED  BY <1>4, <1>8, <2>2
<1>10. DOMAIN below = Node /\ below = [n \in Node |-> below[n]]
  <2> HIDE DEF val
  <2> QED  BY <1>6
<1>11. below = g
  BY <1>3, <1>9, <1>10, WholesAgree
<1> QED  BY <1>1, <1>7, <1>11

-----------------------------------------------------------------------------
(* The order of bfs *)

Bearing(t, w) == [n \in Node |-> Births(t, w, n)]

\* bfs has queued the successors of what it gave, and nothing else; a list of
\* which the same is true begins with what it gave.
BreadthOrder(t, w, found, given) ==
    /\ given \o found = <<Root>> \o Flat(Bearing(t, w), given)
    /\ \A L \in Seq(Node) : L = <<Root>> \o Flat(Bearing(t, w), L) =>
          \E r \in Seq(Node) : L = given \o r

\* The successors of all nodes as a function.
LEMMA BearingFacts ==
    ASSUME TypeOK
    PROVE  /\ HasLists(Bearing(tree, walk), Node, Node)
           /\ \A n \in Node : Bearing(tree, walk)[n] = Births(tree, walk, n)
           /\ \A n \in Node : Range(Bearing(tree, walk)[n]) \subseteq Range(tree[n])
<1>1. \A n \in Node : /\ Births(tree, walk, n) \in Seq(Node)
                      /\ Range(Births(tree, walk, n)) \subseteq Range(tree[n])
  BY BirthsType
<1>2. \A n \in Node : Bearing(tree, walk)[n] = Births(tree, walk, n)
  BY DEF Bearing
<1>3. Bearing(tree, walk) \in [Node -> Seq(Node)]
  BY <1>1 DEF Bearing
<1> QED  BY <1>1, <1>2, <1>3 DEF HasLists

\* bfs begins with the root in the queue.
LEMMA BeginBreadthOrder ==
    ASSUME TypeOK
    PROVE  BreadthOrder(tree, walk, <<Root>>, <<>>)
<1> DEFINE B == Bearing(tree, walk)
           one == <<Root>>
           none == <<>>
<1>1. one \in Seq(Node) /\ none \in Seq(Node) /\ HasLists(B, Node, Node)
  BY NodeAssumption, SingleSeq, EmptySeq, BearingFacts
<1>2. Flat(B, none) = none
  BY FlatEmpty
<1> HIDE DEF B, one
<1>3. none \o one = one /\ one \o none = one /\ \A L \in Seq(Node) : none \o L = L
  BY <1>1, ConcatEmptySeq
<1>4. \A L \in Seq(Node) : \E r \in Seq(Node) : L = none \o r
  BY <1>3
<1> HIDE DEF none
<1>5. none \o one = one \o Flat(B, none)
  BY <1>2, <1>3
<1> QED  BY <1>4, <1>5 DEF BreadthOrder, B, one, none

\* The node that is given moves from the front of the queue to the end of what was given, and its
\* successors to the end of the queue.
LEMMA ServeOrder ==
    ASSUME TypeOK, BreadthOf(tree, children, queue, yielded),
           BreadthOrder(tree, walk, queue, yielded), Serve
    PROVE  BreadthOrder(tree, walk, queue', yielded')
<1> DEFINE B == Bearing(tree, walk)
           n == Head(queue)
           rest == Tail(queue)
           one == <<n>>
           root == <<Root>>
           b == B[n]
<1>1. /\ n \in Node /\ rest \in Seq(Node) /\ yielded \in Seq(Node) /\ queue \in Seq(Node)
      /\ queue = one \o rest /\ queue' = rest \o b /\ yielded' = yielded \o one
  <2>1. /\ n \in Node /\ rest \in Seq(Node) /\ queue = one \o rest
        /\ queue' = rest \o Found(n) /\ yielded' = Append(yielded, n)
    BY ServeIs
  <2>2. Found(n) = b
    BY <2>1, ServeBreadth, BearingFacts
  <2>3. yielded \in Seq(Node) /\ queue \in Seq(Node)
    BY DEF TypeOK
  <2>4. Append(yielded, n) = yielded \o one
    BY <2>1, <2>3, AppendIsConcat
  <2> QED  BY <2>1, <2>2, <2>3, <2>4
<1>2. HasLists(B, Node, Node) /\ b \in Seq(Node) /\ one \in Seq(Node) /\ root \in Seq(Node)
  <2>1. HasLists(B, Node, Node)
    BY BearingFacts
  <2> QED  BY <1>1, <2>1, NodeAssumption, SingleSeq DEF HasLists
<1>3. yielded \o queue = root \o Flat(B, yielded)
  BY DEF BreadthOrder
<1>4. \A L \in Seq(Node) : L = root \o Flat(B, L) => \E r \in Seq(Node) : L = yielded \o r
  BY DEF BreadthOrder
<1>5. one = <<n>>
  OBVIOUS
<1> HIDE DEF B, n, rest, one, root, b
<1>6. Flat(B, yielded \o one) = Flat(B, yielded) \o b
  BY <1>1, <1>2, <1>5, FlatEnds DEF b
<1>7. Flat(B, yielded) \in Seq(Node)
  BY <1>1, <1>2, FlatType
<1> DEFINE fy == Flat(B, yielded)
           pre == yielded \o one
<1>8. fy \in Seq(Node) /\ pre \in Seq(Node)
  BY <1>1, <1>2, <1>7, ConcatProperties
<1>9. pre \o rest = yielded \o queue
  BY <1>1, <1>2, ConcatAssociative
<1> HIDE DEF fy, pre
<1>0. /\ pre \in Seq(Node) /\ rest \in Seq(Node) /\ b \in Seq(Node)
      /\ root \in Seq(Node) /\ fy \in Seq(Node)
  BY <1>1, <1>2, <1>8
<1>10. pre \o (rest \o b) = (pre \o rest) \o b
  BY ONLY <1>0, ConcatAssociative
<1>11. (root \o fy) \o b = root \o (fy \o b)
  BY ONLY <1>0, ConcatAssociative
<1>12. yielded' \o queue' = root \o Flat(B, yielded')
  <2>1. yielded' = pre /\ queue' = rest \o b
    BY <1>1 DEF pre
  <2>2. Flat(B, pre) = fy \o b
    BY <1>6 DEF fy, pre
  <2>3. yielded \o queue = root \o fy
    BY <1>3 DEF fy
  <2> QED  BY <1>9, <1>10, <1>11, <2>1, <2>2, <2>3
<1>13. ASSUME NEW L \in Seq(Node), L = root \o Flat(B, L)
       PROVE  \E r \in Seq(Node) : L = yielded' \o r
  <2>1. PICK r \in Seq(Node) : L = yielded \o r
    BY <1>4, <1>13
  <2> DEFINE fr == Flat(B, r)
             more == rest \o fr
  <2>4. fr \in Seq(Node)
    BY <1>2, FlatType
  <2>3. r = queue \o fr
    <3> DEFINE fg == Flat(B, yielded)
    <3>0. HasLists(B, Node, Node)
      BY <1>2
    <3>1. /\ root \in Seq(Node) /\ yielded \in Seq(Node) /\ queue \in Seq(Node)
          /\ r \in Seq(Node) /\ fg \in Seq(Node) /\ fr \in Seq(Node)
      BY <1>1, <1>2, <1>7, <2>4
    <3>2. Flat(B, yielded \o r) = fg \o fr
      <4>1. HasLists(B, Node, Node) /\ yielded \in Seq(Node) /\ r \in Seq(Node)
        BY <3>0, <3>1
      <4>2. Flat(B, yielded \o r) = Flat(B, yielded) \o Flat(B, r)
        BY ONLY <4>1, FlatConcat
      <4> QED  BY <4>2
    <3>3. yielded \o queue = root \o fg /\ yielded \o r = root \o (fg \o fr)
      BY <1>3, <1>13, <2>1, <3>2
    <3> HIDE DEF fg, fr
    <3>4. root \o (fg \o fr) = (root \o fg) \o fr
      <4>1. root \in Seq(Node) /\ fg \in Seq(Node) /\ fr \in Seq(Node)
        BY <3>1
      <4> HIDE DEF fg, fr
      <4> QED  BY ONLY <4>1, ConcatAssociative
    <3>5. (yielded \o queue) \o fr = yielded \o (queue \o fr)
      <4>1. yielded \in Seq(Node) /\ queue \in Seq(Node) /\ fr \in Seq(Node)
        BY <3>1
      <4> HIDE DEF fr
      <4> QED  BY ONLY <4>1, ConcatAssociative
    <3>6. queue \o fr \in Seq(Node)
      BY ONLY <3>1, ConcatProperties
    <3> DEFINE u == queue \o fr
    <3>7. /\ yielded \in Seq(Node) /\ r \in Seq(Node) /\ u \in Seq(Node)
          /\ yielded \o r = yielded \o u
      BY <3>1, <3>3, <3>4, <3>5, <3>6
    <3> HIDE DEF u
    <3>8. r = u
      BY ONLY <3>7, ConcatSimplifications
    <3> QED  BY <3>8 DEF u
  <2> HIDE DEF fr
  <2>5. more \in Seq(Node)
    BY <1>1, <2>4, ConcatProperties
  <2>6. (one \o rest) \o fr = one \o (rest \o fr)
    <3>1. one \in Seq(Node) /\ rest \in Seq(Node) /\ fr \in Seq(Node)
      BY <1>1, <1>2, <2>4
    <3> QED  BY ONLY <3>1, ConcatAssociative
  <2>7. r = one \o more
    BY <1>1, <2>3, <2>6
  <2> HIDE DEF more
  <2>8. (yielded \o one) \o more = yielded \o (one \o more)
    <3>1. yielded \in Seq(Node) /\ one \in Seq(Node) /\ more \in Seq(Node)
      BY <1>1, <1>2, <2>5
    <3> QED  BY ONLY <3>1, ConcatAssociative
  <2>9. L = yielded' \o more
    BY <1>1, <2>1, <2>7, <2>8
  <2> QED  BY <2>5, <2>9
<1> QED  BY <1>12, <1>13 DEF BreadthOrder, B, root

\* Levels below which there are only levels of children come to an end: there
\* are nodes with as many generations below them as there are levels.
LEMMA LevelsEnd ==
    ASSUME TypeOK, NEW lev \in [Nat -> Seq(Node)],
           \A k \in Nat : lev[k + 1] = Flat(Bearing(tree, walk), lev[k])
    PROVE  Cardinality(Node) \in Nat /\ lev[Cardinality(Node)] = <<>>
<1> DEFINE V == SUBSET Node
           N == Cardinality(Node)
           up(S) == {n \in Node : Range(tree[n]) \cap S # {}}
           next == [ks \in Nat \X V |-> up(ks[2])]
<1>1. Node \in V /\ next \in [Nat \X V -> V]
  OBVIOUS
<1>2. PICK U : Iterates(U, V, Node, next)
  <2> HIDE DEF V, next
  <2> QED  BY <1>1, NumberRecursion
<1>3. /\ U \in [Nat -> V] /\ U[0] = Node
      /\ \A k \in Nat : U[k + 1] = up(U[k])
  <2>1. \A k \in Nat : U[k + 1] = next[<<k, U[k]>>] /\ <<k, U[k]>> \in Nat \X V
    BY <1>2 DEF Iterates
  <2>2. \A k \in Nat : U[k + 1] = up(U[k])
    BY <2>1
  <2> QED  BY <1>2, <2>2 DEF Iterates
<1>4. N \in Nat
  BY NodeAssumption, FS_CardinalityType
<1>5. \A k \in Nat : U[k] \subseteq Node /\ IsFiniteSet(U[k]) /\ Cardinality(U[k]) \in Nat
  <2>1. \A k \in Nat : U[k] \subseteq Node
    BY <1>3
  <2>2. \A k \in Nat : IsFiniteSet(U[k])
    BY <2>1, NodeAssumption, FS_Subset
  <2> QED  BY <2>1, <2>2, FS_CardinalityType
<1> HIDE DEF V, next, N
<1>6. \A k \in Nat : U[k + 1] \subseteq U[k]
  <2> DEFINE T == {k \in Nat : U[k + 1] \subseteq U[k]}
  <2>1. 0 \in T
    <3>1. 0 + 1 \in Nat /\ U[0 + 1] \subseteq Node
      BY <1>5
    <3> QED  BY <1>3, <3>1
  <2>2. ASSUME NEW k \in Nat, k \in T PROVE k + 1 \in T
    <3>1. k + 1 \in Nat /\ U[k + 1] \subseteq U[k]
      <4>1. k + 1 \in Nat
        OBVIOUS
      <4> QED  BY <2>2, <4>1
    <3>2. U[k + 1] = up(U[k]) /\ U[(k + 1) + 1] = up(U[k + 1])
      BY <1>3, <3>1
    <3>3. up(U[k + 1]) \subseteq up(U[k])
      BY <3>1
    <3> QED  BY <3>1, <3>2, <3>3
  <2> HIDE DEF T
  <2>3. Nat \subseteq T
    BY <2>1, <2>2, NumbersBySteps
  <2> QED  BY <2>3 DEF T
<1>7. \A k \in Nat : U[k] = {} \/ Cardinality(U[k]) + k <= N
  <2> DEFINE T == {k \in Nat : U[k] = {} \/ Cardinality(U[k]) + k <= N}
  <2>1. 0 \in T
    BY <1>3, <1>4 DEF N
  <2>2. ASSUME NEW k \in Nat, k \in T PROVE k + 1 \in T
    <3>0. k + 1 \in Nat
      OBVIOUS
    <3> SUFFICES ASSUME U[k + 1] # {} PROVE Cardinality(U[k + 1]) + (k + 1) <= N
      <4> DEFINE P(m) == U[m] = {} \/ Cardinality(U[m]) + m <= N
      <4> SUFFICES P(k + 1)
        <5> HIDE DEF P
        <5>1. T = {m \in Nat : P(m)}
          BY DEF P
        <5> QED  BY <3>0, <5>1
      <4> QED  OBVIOUS
    <3>1. U[k + 1] \subseteq U[k] /\ U[k] # {}
      <4>1. U[k + 1] \subseteq U[k]
        BY <1>6
      <4> QED  BY <4>1
    <3>2. PICK n \in U[k] : Range(tree[n]) \cap U[k] = {}
      BY <1>5, <3>1, TreesAssumption DEF TypeOK
    <3>3. n \notin U[k + 1]
      <4>1. U[k + 1] = up(U[k])
        BY <1>3
      <4> QED  BY <3>2, <4>1
    <3>4. Cardinality(U[k + 1]) < Cardinality(U[k])
      <4> DEFINE A == U[k + 1]
                 C == U[k]
      <4>1. IsFiniteSet(C) /\ A \in SUBSET C /\ A # C
        BY <1>5, <3>1, <3>2, <3>3
      <4> HIDE DEF A, C
      <4>2. Cardinality(A) < Cardinality(C)
        <5>1. Cardinality(A) <= Cardinality(C) /\ Cardinality(C) # Cardinality(A)
          BY ONLY <4>1, FS_Subset
        <5>2. Cardinality(A) \in Nat /\ Cardinality(C) \in Nat
          BY <1>5, <3>0 DEF A, C
        <5> QED  BY ONLY <5>1, <5>2
      <4> QED  BY <4>2 DEF A, C
    <3>5. Cardinality(U[k]) + k <= N
      BY <2>2, <3>1
    <3>6. Cardinality(U[k + 1]) \in Nat /\ Cardinality(U[k]) \in Nat
      BY <1>5, <3>0
    <3> DEFINE a == Cardinality(U[k + 1])
               c == Cardinality(U[k])
    <3> HIDE DEF a, c
    <3>7. a \in Nat /\ c \in Nat /\ a < c /\ c + k <= N
      BY <3>4, <3>5, <3>6 DEF a, c
    <3>8. a + (k + 1) <= N
      BY ONLY <1>4, <3>7, k \in Nat
    <3> QED  BY <3>8 DEF a
  <2> HIDE DEF T
  <2>3. Nat \subseteq T
    BY <2>1, <2>2, NumbersBySteps
  <2> QED  BY <2>3 DEF T
<1>8. U[N] = {}
  <2>1. ASSUME Cardinality(U[N]) + N <= N PROVE U[N] = {}
    <3> DEFINE a == Cardinality(U[N])
    <3>0. a \in Nat /\ a + N <= N
      BY <1>4, <1>5, <2>1
    <3> HIDE DEF a
    <3>2. a = 0
      BY ONLY <1>4, <3>0
    <3>1. Cardinality(U[N]) = 0
      BY <3>2 DEF a
    <3> QED  BY <1>4, <1>5, <3>1, FS_EmptySet
  <2> QED  BY <1>4, <1>7, <2>1
<1>9. \A k \in Nat : lev[k] \in Seq(Node) /\ (lev[k] # <<>> => Range(lev[k]) # {})
  <2> SUFFICES ASSUME NEW k \in Nat, lev[k] # <<>> PROVE Range(lev[k]) # {}
    OBVIOUS
  <2> DEFINE s == lev[k]
  <2>1. s \in Seq(Node) /\ s # <<>>
    OBVIOUS
  <2> HIDE DEF s
  <2>2. 1 \in 1 .. Len(s)
    BY <2>1, EmptySeq
  <2>3. s[1] \in Range(s)
    BY <2>1, <2>2, InRange
  <2> QED  BY <2>3 DEF s
<1>10. \A j \in Nat : \A k \in Nat : lev[k + j] # <<>> => Range(lev[k]) \cap U[j] # {}
  <2> DEFINE T == {j \in Nat : \A k \in Nat : lev[k + j] # <<>> => Range(lev[k]) \cap U[j] # {}}
  <2>1. 0 \in T
    <3> SUFFICES ASSUME NEW k \in Nat, lev[k + 0] # <<>> PROVE Range(lev[k]) \cap U[0] # {}
      OBVIOUS
    <3>1. k + 0 = k
      OBVIOUS
    <3>2. Range(lev[k]) # {} /\ Range(lev[k]) \subseteq Node
      BY <1>9, <3>1, InRange
    <3> QED  BY <1>3, <3>2
  <2>2. ASSUME NEW j \in Nat, j \in T PROVE j + 1 \in T
    <3> SUFFICES ASSUME NEW k \in Nat, lev[k + (j + 1)] # <<>>
                 PROVE  Range(lev[k]) \cap U[j + 1] # {}
      <4>1. j + 1 \in Nat
        OBVIOUS
      <4> QED  BY <4>1
    <3>1. k + 1 \in Nat /\ (k + 1) + j = k + (j + 1)
      OBVIOUS
    <3>2. PICK x \in Range(lev[k + 1]) : x \in U[j]
      BY <2>2, <3>1
    <3>3. lev[k + 1] = Flat(Bearing(tree, walk), lev[k]) /\ lev[k] \in Seq(Node)
      OBVIOUS
    <3>4. PICK e \in Range(lev[k]) : x \in Range(Bearing(tree, walk)[e])
      <4> DEFINE B == Bearing(tree, walk)
                 s == lev[k]
      <4>1. HasLists(B, Node, Node) /\ s \in Seq(Node) /\ x \in Range(Flat(B, s))
        BY <3>2, <3>3, BearingFacts
      <4> HIDE DEF B, s
      <4>2. \E e \in Range(s) : x \in Range(B[e])
        BY <4>1, FlatRange
      <4> QED  BY <4>2 DEF B, s
    <3>5. e \in Node
      BY <3>3, <3>4, InRange
    <3>6. x \in Range(tree[e])
      BY <3>4, <3>5, BearingFacts
    <3>7. e \in U[j + 1]
      BY <1>3, <3>2, <3>5, <3>6
    <3> QED  BY <3>4, <3>7
  <2> HIDE DEF T
  <2>3. Nat \subseteq T
    BY <2>1, <2>2, NumbersBySteps
  <2> QED  BY <2>3 DEF T
<1>11. lev[N] = <<>>
  <2>1. 0 + N = N
    BY <1>4
  <2> QED  BY <1>4, <1>8, <1>10, <2>1
<1> QED  BY <1>4, <1>11 DEF N

-----------------------------------------------------------------------------
(* LevelOrder *)

\* The lists before the m-th, one after another.
UpTo(g, m) == FlattenSeq([k \in 1 .. m |-> g[k - 1]])

\* One more list.
LEMMA UpToFacts ==
    ASSUME NEW S, NEW g \in [Nat -> Seq(S)]
    PROVE  /\ UpTo(g, 0) = <<>>
           /\ \A m \in Nat : UpTo(g, m) \in Seq(S) /\ UpTo(g, m + 1) = UpTo(g, m) \o g[m]
<1> DEFINE V == Seq(S)
           ss(m) == [k \in 1 .. m |-> g[k - 1]]
<1>1. ASSUME NEW m \in Nat
      PROVE  /\ ss(m) \in Seq(V) /\ Len(ss(m)) = m
             /\ \A k \in 1 .. m : ss(m)[k] = g[k - 1]
  <2>1. \A k \in 1 .. m : g[k - 1] \in V
    OBVIOUS
  <2> HIDE DEF V
  <2>2. ss(m) \in Seq(V)
    BY <2>1
  <2>3. Len(ss(m)) = m
    BY <2>1
  <2> QED  BY <2>2, <2>3
<1>2. ss(0) = <<>>
  <2>1. ss(0) \in Seq(V) /\ Len(ss(0)) = 0
    BY <1>1
  <2> HIDE DEF ss
  <2> QED  BY <2>1, EmptySeq
<1>3. ASSUME NEW m \in Nat
      PROVE  ss(m + 1) = Append(ss(m), g[m])
  <2> DEFINE s == ss(m)
             t == ss(m + 1)
             e == g[m]
  <2>1. /\ s \in Seq(V) /\ Len(s) = m /\ \A k \in 1 .. m : s[k] = g[k - 1]
    BY <1>1
  <2>2. /\ t \in Seq(V) /\ Len(t) = m + 1 /\ \A k \in 1 .. m + 1 : t[k] = g[k - 1]
    <3>1. m + 1 \in Nat
      OBVIOUS
    <3> HIDE DEF ss, V
    <3> QED  BY <1>1, <3>1
  <2>3. e \in V
    OBVIOUS
  <2> HIDE DEF s, t, V
  <2>4. /\ Append(s, e) \in Seq(V) /\ Len(Append(s, e)) = Len(s) + 1
        /\ \A k \in 1 .. Len(s) : Append(s, e)[k] = s[k]
        /\ Append(s, e)[Len(s) + 1] = e
    <3> HIDE DEF e
    <3>1. s \in Seq(V) /\ e \in V
      BY <2>1, <2>3
    <3> QED  BY ONLY <3>1, AppendProperties
  <2>5. \A k \in 1 .. m + 1 : t[k] = Append(s, e)[k]
    <3>1. ASSUME NEW k \in 1 .. m + 1 PROVE t[k] = Append(s, e)[k]
      <4>1. CASE k \in 1 .. m
        BY <2>1, <2>2, <2>4, <4>1
      <4>2. CASE k = m + 1
        <5>1. (m + 1) - 1 = m /\ m + 1 \in 1 .. m + 1
          OBVIOUS
        <5> QED  BY <2>1, <2>2, <2>4, <4>2, <5>1
      <4>3. k \in 1 .. m \/ k = m + 1
        OBVIOUS
      <4> QED  BY <4>1, <4>2, <4>3
    <3> QED  BY <3>1
  <2>6. t = Append(s, e)
    <3> DEFINE u == Append(s, e)
    <3>1. t \in Seq(V) /\ u \in Seq(V) /\ Len(t) = Len(u) /\ \A k \in 1 .. Len(t) : t[k] = u[k]
      BY <2>1, <2>2, <2>4, <2>5
    <3> HIDE DEF u
    <3>2. t = u
      BY ONLY <3>1, SeqEqual
    <3> QED  BY <3>2 DEF u
  <2> QED  BY <2>6 DEF s, t
<1>4. \A m \in Nat : UpTo(g, m) = FlattenSeq(ss(m))
  BY DEF UpTo
<1>5. UpTo(g, 0) = <<>>
  <2> HIDE DEF ss
  <2> QED  BY <1>2, <1>4, FlattenEmpty
<1>6. ASSUME NEW m \in Nat
      PROVE  UpTo(g, m) \in Seq(S) /\ UpTo(g, m + 1) = UpTo(g, m) \o g[m]
  <2> DEFINE s == ss(m)
             e == g[m]
  <2>1. s \in Seq(Seq(S)) /\ e \in Seq(S)
    BY <1>1
  <2>2. m + 1 \in Nat
    OBVIOUS
  <2>3. ss(m + 1) = Append(s, e)
    BY <1>3
  <2> HIDE DEF ss, e
  <2>4. UpTo(g, m) = FlattenSeq(s) /\ UpTo(g, m + 1) = FlattenSeq(Append(s, e))
    BY <1>4, <2>2, <2>3
  <2> HIDE DEF s
  <2>5. FlattenSeq(s) \in Seq(S) /\ FlattenSeq(Append(s, e)) = FlattenSeq(s) \o e
    BY <2>1, FlattenType, FlattenAppend
  <2> QED  BY <2>4, <2>5 DEF e
<1> QED  BY <1>5, <1>6

\* The levels of LevelOrder are those one gets by taking all successors again and again.
LEMMA LevelsFacts ==
    ASSUME TypeOK
    PROVE  \E lev \in [Nat -> Seq(Node)] :
              /\ lev[0] = <<Root>>
              /\ \A k \in Nat : lev[k + 1] = Flat(Bearing(tree, walk), lev[k])
              /\ LevelOrder = UpTo(lev, Cardinality(Node))
<1> DEFINE B == Bearing(tree, walk)
           V == Seq(Node)
           a == <<Root>>
           next == [ks \in Nat \X V |-> Flat(B, ks[2])]
           all(s) == FlattenSeq([i \in DOMAIN s |-> Born(s[i])])
           new(f, k) == IF k = 0 THEN a ELSE all(f[k - 1])
           level == CHOOSE level : level = [k \in Nat |-> new(level, k)]
<1>0. /\ HasLists(B, Node, Node) /\ a \in V
      /\ \A n \in Node : B[n] = Born(n)
  BY BearingFacts, FoundIs, NodeAssumption, SingleSeq
<1>1. ASSUME NEW s \in V PROVE Flat(B, s) = all(s) /\ Flat(B, s) \in V
  <2>1. Flat(B, s) \in V
    BY <1>0, FlatType
  <2>2. \A i \in DOMAIN s : s[i] \in Node
    BY LenProperties, ElementOfSeq
  <2>3. [i \in DOMAIN s |-> B[s[i]]] = [i \in DOMAIN s |-> Born(s[i])]
    <3> HIDE DEF B
    <3> QED  BY <1>0, <2>2
  <2> QED  BY <2>1, <2>3 DEF Flat, Map
<1> HIDE DEF B, all
<1>2. next \in [Nat \X V -> V]
  BY <1>1
<1>3. PICK g : Iterates(g, V, a, next)
  <2> HIDE DEF V, a, next
  <2> QED  BY <1>0, <1>2, NumberRecursion
<1>4. /\ g \in [Nat -> V] /\ g[0] = a
      /\ \A k \in Nat : g[k + 1] = Flat(B, g[k])
  <2>1. g \in [Nat -> V] /\ g[0] = a
    BY <1>3 DEF Iterates
  <2>2. \A k \in Nat : g[k + 1] = next[<<k, g[k]>>] /\ <<k, g[k]>> \in Nat \X V
    <3> HIDE DEF V, next
    <3> QED  BY <1>3, <2>1 DEF Iterates
  <2>3. \A k \in Nat : g[k + 1] = Flat(B, g[k])
    <3> HIDE DEF V
    <3> QED  BY <2>2
  <2> QED  BY <2>1, <2>3
<1> HIDE DEF V, a, next
<1>5. \A k \in Nat : g[k] = new(g, k)
  <2> SUFFICES ASSUME NEW k \in Nat PROVE g[k] = new(g, k)
    OBVIOUS
  <2>1. CASE k = 0
    BY <1>4, <2>1
  <2>2. CASE k # 0
    <3>1. k - 1 \in Nat /\ (k - 1) + 1 = k
      BY <2>2
    <3>2. g[k] = Flat(B, g[k - 1]) /\ g[k - 1] \in V
      BY <1>4, <3>1
    <3>3. g[k] = all(g[k - 1])
      BY <1>1, <3>2
    <3> QED  BY <2>2, <3>3
  <2> QED  BY <2>1, <2>2
<1>6. g = [k \in Nat |-> new(g, k)]
  <2>1. g = [k \in Nat |-> g[k]]
    BY <1>4
  <2> HIDE DEF new
  <2> QED  BY <1>5, <2>1
<1>7. level = [k \in Nat |-> new(level, k)]
  <2> HIDE DEF new
  <2> QED  BY <1>6
<1>8. LevelOrder = FlattenSeq([k \in 1 .. Cardinality(Node) |-> level[k - 1]])
  BY DEF LevelOrder, all, a
<1> HIDE DEF level
<1>9. \A k \in Nat : level[k] = new(level, k)
  <2> HIDE DEF new
  <2> QED  BY <1>7
<1>10. \A k \in Nat : level[k] = g[k]
  <2> DEFINE T == {k \in Nat : level[k] = g[k]}
  <2>1. 0 \in T
    BY <1>5, <1>9
  <2>2. ASSUME NEW k \in Nat, k \in T PROVE k + 1 \in T
    <3>1. k + 1 \in Nat /\ (k + 1) - 1 = k /\ k + 1 # 0
      OBVIOUS
    <3>2. level[k + 1] = all(level[k]) /\ g[k + 1] = all(g[k])
      BY <1>5, <1>9, <3>1
    <3> QED  BY <2>2, <3>1, <3>2
  <2> HIDE DEF T
  <2>3. Nat \subseteq T
    BY <2>1, <2>2, NumbersBySteps
  <2> QED  BY <2>3 DEF T
<1>11. LevelOrder = UpTo(g, Cardinality(Node))
  <2>1. \A k \in 1 .. Cardinality(Node) : k - 1 \in Nat
    BY NodeAssumption, FS_CardinalityType
  <2>2. [k \in 1 .. Cardinality(Node) |-> level[k - 1]] = [k \in 1 .. Cardinality(Node) |-> g[k - 1]]
    BY <1>10, <2>1
  <2> QED  BY <1>8, <2>2 DEF UpTo
<1> QED  BY <1>4, <1>11 DEF B, V, a

\* One more level below what there is.
LEMMA OneMoreLevel ==
    ASSUME NEW B, HasLists(B, Node, Node), NEW root \in Seq(Node),
           NEW p \in Seq(Node), NEW l \in Seq(Node)
    PROVE  (root \o Flat(B, p)) \o Flat(B, l) = root \o Flat(B, p \o l)
<1> DEFINE fp == Flat(B, p)
           fl == Flat(B, l)
<1>1. fp \in Seq(Node)
  BY FlatType
<1>2. fl \in Seq(Node)
  BY FlatType
<1>3. Flat(B, p \o l) = fp \o fl
  <2>1. Flat(B, p \o l) = Flat(B, p) \o Flat(B, l)
    BY FlatConcat
  <2> QED  BY <2>1
<1>4. root \in Seq(Node)
  OBVIOUS
<1> HIDE DEF fp, fl
<1>5. (root \o fp) \o fl = root \o (fp \o fl)
  BY ONLY <1>1, <1>2, <1>4, ConcatAssociative
<1> QED  BY <1>3, <1>5 DEF fp, fl

\* LevelOrder is the root and all successors of its members.
LEMMA LevelOrderIs ==
    ASSUME TypeOK
    PROVE  /\ LevelOrder \in Seq(Node)
           /\ LevelOrder = <<Root>> \o Flat(Bearing(tree, walk), LevelOrder)
<1> DEFINE B == Bearing(tree, walk)
           N == Cardinality(Node)
           root == <<Root>>
<1>3. HasLists(B, Node, Node) /\ root \in Seq(Node)
  BY BearingFacts, NodeAssumption, SingleSeq
<1>0. \A p, l \in Seq(Node) :
         (root \o Flat(B, p)) \o Flat(B, l) = root \o Flat(B, p \o l)
  <2> HIDE DEF B, root
  <2> SUFFICES ASSUME NEW p \in Seq(Node), NEW l \in Seq(Node)
               PROVE  (root \o Flat(B, p)) \o Flat(B, l) = root \o Flat(B, p \o l)
    OBVIOUS
  <2>1. HasLists(B, Node, Node) /\ root \in Seq(Node) /\ p \in Seq(Node) /\ l \in Seq(Node)
    BY <1>3
  <2> QED  BY ONLY <2>1, OneMoreLevel
<1>1. PICK lev \in [Nat -> Seq(Node)] :
         /\ lev[0] = root
         /\ \A k \in Nat : lev[k + 1] = Flat(B, lev[k])
         /\ LevelOrder = UpTo(lev, N)
  BY LevelsFacts
<1>2. N \in Nat /\ lev[N] = <<>>
  BY <1>1, LevelsEnd
<1>4. /\ UpTo(lev, 0) = <<>>
      /\ \A m \in Nat : UpTo(lev, m) \in Seq(Node) /\ UpTo(lev, m + 1) = UpTo(lev, m) \o lev[m]
  BY UpToFacts
<1> HIDE DEF B, N, root
<1>5. \A m \in Nat : UpTo(lev, m + 1) = root \o Flat(B, UpTo(lev, m))
  <2> DEFINE T == {m \in Nat : UpTo(lev, m + 1) = root \o Flat(B, UpTo(lev, m))}
  <2>1. 0 \in T
    <3>1. UpTo(lev, 0 + 1) = <<>> \o root
      BY <1>1, <1>4
    <3>2. <<>> \o root = root /\ root \o <<>> = root
      BY <1>3, ConcatEmptySeq
    <3>3. Flat(B, UpTo(lev, 0)) = <<>>
      BY <1>4, FlatEmpty
    <3> QED  BY <3>1, <3>2, <3>3
  <2>2. ASSUME NEW m \in Nat, m \in T PROVE m + 1 \in T
    <3> DEFINE p == UpTo(lev, m)
               q == UpTo(lev, m + 1)
               l == lev[m]
               fp == Flat(B, p)
               fl == Flat(B, l)
    <3>0. m + 1 \in Nat
      OBVIOUS
    <3>1. m + 1 \in Nat /\ q = root \o fp
      BY <2>2, <3>0
    <3>2. p \in Seq(Node) /\ l \in Seq(Node) /\ q = p \o l
      BY <1>4
    <3>3. UpTo(lev, (m + 1) + 1) = q \o lev[m + 1] /\ lev[m + 1] = fl
      BY <1>1, <1>4, <3>1
    <3>4. (root \o Flat(B, p)) \o Flat(B, l) = root \o Flat(B, q)
      <4> HIDE DEF p, l, q, T
      <4> QED  BY ONLY <1>0, <3>2
    <3> HIDE DEF p, q, l
    <3>7. UpTo(lev, (m + 1) + 1) = root \o Flat(B, q)
      BY <3>1, <3>3, <3>4
    <3> QED  BY <3>1, <3>7 DEF q
  <2> HIDE DEF T
  <2>3. Nat \subseteq T
    BY <2>1, <2>2, NumbersBySteps
  <2> QED  BY <2>3 DEF T
<1>6. UpTo(lev, N + 1) = UpTo(lev, N) \o <<>> /\ UpTo(lev, N) \in Seq(Node)
  BY <1>2, <1>4
<1>7. UpTo(lev, N) \o <<>> = UpTo(lev, N)
  BY <1>6, ConcatEmptySeq
<1>8. UpTo(lev, N) = root \o Flat(B, UpTo(lev, N))
  BY <1>2, <1>5, <1>6, <1>7
<1> QED  BY <1>1, <1>6, <1>8 DEF B, root

\* No list is the list of all successors of its members.
LEMMA NoEndlessRest ==
    ASSUME TypeOK, NEW r \in Seq(Node), r = Flat(Bearing(tree, walk), r)
    PROVE  r = <<>>
<1> DEFINE lev == [k \in Nat |-> r]
<1>1. lev \in [Nat -> Seq(Node)]
  OBVIOUS
<1>2. \A k \in Nat : lev[k] = r
  OBVIOUS
<1>3. \A k \in Nat : k + 1 \in Nat
  OBVIOUS
<1> HIDE DEF lev
<1>4. \A k \in Nat : lev[k + 1] = Flat(Bearing(tree, walk), lev[k])
  BY <1>2, <1>3
<1>5. Cardinality(Node) \in Nat /\ lev[Cardinality(Node)] = <<>>
  BY <1>1, <1>4, LevelsEnd
<1> QED  BY <1>2, <1>5

-----------------------------------------------------------------------------
(* The order of a walk *)

Order ==
    /\ Walking /\ walk.visit # "Breadth" => DepthOrder(tree, walk, stack, yielded)
    /\ Walking /\ walk.visit = "Breadth" => BreadthOrder(tree, walk, queue, yielded)

\* Begin establishes the order.
LEMMA BeginsInOrder ==
    ASSUME TypeOK, Shape, Begin
    PROVE  Order'
<1>1. mode = "new" /\ Untouched /\ UNCHANGED <<tree, children, walk>>
  BY DEF Begin, Shape, Walking
<1>2. CASE Root \notin walk.admit
  BY <1>1, <1>2 DEF Order, Walking
<1>3. CASE Root \in walk.admit /\ walk.visit = "Breadth"
  <2>1. queue' = <<Root>> /\ yielded' = <<>>
    BY <1>1, <1>3 DEF Begin, Untouched
  <2>2. BreadthOrder(tree, walk, <<Root>>, <<>>)
    BY BeginBreadthOrder
  <2>3. BreadthOrder(tree', walk', queue', yielded')
    BY <1>1, <2>1, <2>2
  <2> QED  BY <1>1, <1>3, <2>3 DEF Order
<1>4. CASE Root \in walk.admit /\ walk.visit # "Breadth"
  <2>1. DepthOrder(tree, walk, stack', yielded')
    BY <1>1, <1>4, BeginOrder
  <2>2. DepthOrder(tree', walk', stack', yielded')
    BY <1>1, <2>1
  <2> QED  BY <1>1, <1>4, <2>2 DEF Order
<1> QED  BY <1>2, <1>3, <1>4

\* The other steps of a walk keep it.
LEMMA GoesOnInOrder ==
    ASSUME TypeOK, Shape, Order, Descend \/ Ascend \/ Serve
    PROVE  Order'
<1>1. CASE Descend
  <2>1. mode = "running" /\ UNCHANGED <<tree, children, walk, queue>> /\ stack # <<>>
    BY <1>1, DescendIs
  <2>2. /\ Walking /\ walk.visit # "Breadth"
        /\ DepthOf(tree, children, walk, stack, yielded)
    BY <2>1, UnderWay
  <2>3. DepthOrder(tree, walk, stack, yielded)
    BY <2>2 DEF Order
  <2>4. DepthOrder(tree, walk, stack', yielded')
    BY <1>1, <2>2, <2>3, DescendOrder
  <2>5. DepthOrder(tree', walk', stack', yielded')
    BY <2>1, <2>4
  <2> QED  BY <2>1, <2>2, <2>5 DEF Order
<1>2. CASE Ascend
  <2>1. Walking /\ walk.visit # "Breadth" /\ UNCHANGED <<tree, children, walk, queue>>
    BY <1>2, AscendDepth
  <2>2. DepthOrder(tree, walk, stack, yielded)
    BY <2>1 DEF Order
  <2>3. DepthOrder(tree, walk, stack', yielded')
    BY <1>2, <2>2, AscendOrder
  <2>4. DepthOrder(tree', walk', stack', yielded')
    BY <2>1, <2>3
  <2> QED  BY <2>1, <2>4 DEF Order
<1>3. CASE Serve
  <2>1. mode = "running" /\ queue # <<>> /\ UNCHANGED <<tree, children, walk, stack>>
    BY <1>3, ServeIs
  <2>2. /\ Walking /\ walk.visit = "Breadth"
        /\ BreadthOf(tree, children, queue, yielded)
    BY <2>1, UnderWay
  <2>3. BreadthOrder(tree, walk, queue, yielded)
    BY <2>2 DEF Order
  <2>4. BreadthOrder(tree, walk, queue', yielded')
    BY <1>3, <2>2, <2>3, ServeOrder
  <2>5. BreadthOrder(tree', walk', queue', yielded')
    BY <2>1, <2>4
  <2> QED  BY <2>1, <2>2, <2>5 DEF Order
<1> QED  BY <1>1, <1>2, <1>3

\* Clients, who do not touch what the walk holds, keep it.
LEMMA StaysInOrder ==
    ASSUME Shape, Order,
           \/ End \/ Resume \/ UNCHANGED vars
           \/ \E p \in Node : \E i \in DOMAIN children[p] : Unparent(p, i)
    PROVE  Order'
<1>1. UNCHANGED <<tree, walk, stack, queue, yielded>>
  BY DEF End, Resume, vars, Unparent
<1>2. mode = mode' \/ mode # "new"
  BY DEF End, Resume, vars, Unparent
<1>3. Walking' => Walking
  BY <1>1, <1>2 DEF Walking
<1>4. /\ DepthOrder(tree, walk, stack, yielded) => DepthOrder(tree', walk', stack', yielded')
      /\ BreadthOrder(tree, walk, queue, yielded) => BreadthOrder(tree', walk', queue', yielded')
  BY <1>1
<1> QED  BY <1>1, <1>3, <1>4 DEF Order

\* So it always holds, if clients remove only what they were given.
LEMMA OrderHolds ==
    ASSUME RemoveUnseen = FALSE
    PROVE  Spec => [](TypeOK /\ Shape /\ Order)
<1>1. Init => TypeOK /\ Shape /\ Order
  BY InitFacts DEF Order, Walking
<1>2. TypeOK /\ Shape /\ Order /\ [Next]_vars => (TypeOK /\ Shape /\ Order)'
  <2> SUFFICES ASSUME TypeOK, Shape, Order, [Next]_vars PROVE (TypeOK /\ Shape /\ Order)'
    OBVIOUS
  <2>1. TypeOK' /\ Shape'
    BY TypeStep, ShapeStep
  <2>2. Order'
    BY BeginsInOrder, GoesOnInOrder, StaysInOrder DEF Next, Run
  <2> QED  BY <2>1, <2>2
<1> QED  BY <1>1, <1>2, PTL DEF Spec

\* A list is a prefix of its continuation.
LEMMA PrefixOfConcat ==
    ASSUME NEW S, NEW s \in Seq(S), NEW r \in Seq(S)
    PROVE  IsPrefix(s, s \o r)
<1> DEFINE u == s \o r
<1>1. /\ u \in Seq(S) /\ Len(u) = Len(s) + Len(r) /\ Len(s) \in Nat /\ Len(r) \in Nat
      /\ \A i \in 1 .. Len(s) + Len(r) : u[i] = IF i <= Len(s) THEN s[i] ELSE r[i - Len(s)]
  BY ConcatProperties, LenProperties
<1> HIDE DEF u
<1>2. \A i \in 1 .. Len(s) : s[i] \in S /\ u[i] = s[i]
  BY <1>1, ElementOfSeq
<1> DEFINE a == SubSeq(s, 1, Len(s))
           b == SubSeq(u, 1, Len(s))
<1>3. a \in Seq(S) /\ Len(a) = Len(s) /\ \A i \in 1 .. Len(s) : a[i] = s[i]
  <2>1. /\ a \in Seq(S) /\ Len(a) = (IF 1 <= Len(s) THEN Len(s) - 1 + 1 ELSE 0)
        /\ \A i \in 1 .. Len(s) - 1 + 1 : a[i] = s[1 + i - 1]
    BY <1>1, <1>2, SubSeqProperties
  <2> HIDE DEF a
  <2> QED  BY <1>1, <2>1
<1>4. b \in Seq(S) /\ Len(b) = Len(s) /\ \A i \in 1 .. Len(s) : b[i] = u[i]
  <2>1. /\ b \in Seq(S) /\ Len(b) = (IF 1 <= Len(s) THEN Len(s) - 1 + 1 ELSE 0)
        /\ \A i \in 1 .. Len(s) - 1 + 1 : b[i] = u[1 + i - 1]
    BY <1>1, <1>2, SubSeqProperties
  <2> HIDE DEF b
  <2> QED  BY <1>1, <2>1
<1> HIDE DEF a, b
<1>5. a = b
  BY <1>2, <1>3, <1>4, SeqEqual
<1> QED  BY <1>1, <1>5 DEF a, b, u, IsPrefix

\* What was given goes on to what was expected; after the end there is nothing
\* left to give.
LEMMA GivenIsExpected ==
    ASSUME TypeOK, Shape, Order
    PROVE  /\ \E r \in Seq(Node) : Expected = yielded \o r
           /\ mode = "over" => yielded = Expected
<1>1. yielded \in Seq(Node) /\ queue \in Seq(Node)
  BY DEF TypeOK
<1>2. walk.visit \in {"ShallowFirst", "DeepFirst", "Breadth"}
  BY WalkFacts DEF Visits
<1> DEFINE whole == CASE walk.visit = "ShallowFirst" -> PreOrder
                      [] walk.visit = "DeepFirst"    -> PostOrder
<1>3. ASSUME walk.visit # "Breadth" PROVE IsWhole(whole, tree, walk)
  <2>1. CASE walk.visit = "ShallowFirst"
    <3>1. whole = PreOrder
      BY <2>1
    <3> QED  BY <2>1, <3>1, PreOrderIsWhole
  <2>2. CASE walk.visit = "DeepFirst"
    <3>1. whole = PostOrder
      BY <2>2
    <3> QED  BY <2>2, <3>1, PostOrderIsWhole
  <2> QED  BY <1>2, <1>3, <2>1, <2>2
<1>4. ASSUME walk.visit # "Breadth", Root \in walk.admit PROVE Expected = whole[Root]
  BY <1>2, <1>4 DEF Expected
<1> HIDE DEF whole
<1>5. ASSUME NEW e \in Seq(Node), e = Expected, yielded = <<>>
      PROVE  \E r \in Seq(Node) : Expected = yielded \o r
  <2>1. <<>> \o e = e
    BY ConcatEmptySeq
  <2> QED  BY <1>5, <2>1
<1>6. CASE ~Walking
  <2>1. yielded = <<>> /\ mode \in {"new", "over"}
    BY <1>6 DEF Shape, Untouched
  <2>2. CASE Root \notin walk.admit
    <3>1. Expected = <<>>
      BY <2>2 DEF Expected
    <3> QED  BY <1>5, <2>1, <3>1, EmptySeq
  <2>3. CASE Root \in walk.admit
    <3>1. mode = "new"
      BY <1>6, <2>3 DEF Walking
    <3>2. Expected \in Seq(Node)
      <4>1. CASE walk.visit = "Breadth"
        BY <2>3, <4>1, LevelOrderIs DEF Expected
      <4>2. CASE walk.visit # "Breadth"
        <5>1. whole[Root] \in Seq(Node)
          BY <1>3, <4>2, NodeAssumption DEF IsWhole, HasLists
        <5> QED  BY <1>4, <2>3, <4>2, <5>1
      <4> QED  BY <4>1, <4>2
    <3> QED  BY <1>5, <2>1, <3>1, <3>2
  <2> QED  BY <2>2, <2>3
<1>7. CASE Walking /\ walk.visit # "Breadth"
  <2>1. PICK rest : /\ IsRest(whole, tree, walk, stack, rest)
                    /\ yielded \o rest[Len(stack)] = whole[Root]
    BY <1>3, <1>7 DEF Order, DepthOrder
  <2>2. Expected = yielded \o rest[Len(stack)]
    BY <1>4, <1>7, <2>1 DEF Walking
  <2>3. Len(stack) \in Nat
    BY LenProperties DEF TypeOK
  <2>4. rest[Len(stack)] \in Seq(Node)
    <3>1. rest \in [0 .. Len(stack) -> Seq(Node)]
      BY <2>1 DEF IsRest
    <3>2. Len(stack) \in 0 .. Len(stack)
      BY <2>3
    <3> QED  BY <3>1, <3>2
  <2>5. ASSUME mode = "over" PROVE yielded = Expected
    <3>1. Len(stack) = 0
      BY <2>5 DEF Shape
    <3>2. rest[Len(stack)] = <<>>
      BY <2>1, <3>1 DEF IsRest
    <3>3. yielded \o <<>> = yielded
      BY <1>1, ConcatEmptySeq
    <3> QED  BY <2>2, <3>2, <3>3
  <2> QED  BY <2>2, <2>4, <2>5
<1>8. CASE Walking /\ walk.visit = "Breadth"
  <2> DEFINE B == Bearing(tree, walk)
             root == <<Root>>
  <2>1. /\ LevelOrder \in Seq(Node) /\ LevelOrder = root \o Flat(B, LevelOrder)
        /\ HasLists(B, Node, Node) /\ root \in Seq(Node)
    BY LevelOrderIs, BearingFacts, NodeAssumption, SingleSeq
  <2>2. /\ yielded \o queue = root \o Flat(B, yielded)
        /\ \E r \in Seq(Node) : LevelOrder = yielded \o r
    BY <1>8, <2>1 DEF Order, BreadthOrder
  <2>3. Expected = LevelOrder
    BY <1>8 DEF Expected, Walking
  <2>4. PICK r \in Seq(Node) : LevelOrder = yielded \o r
    BY <2>2
  <2> HIDE DEF B, root
  <2>5. ASSUME mode = "over" PROVE yielded = Expected
    <3> DEFINE fr == Flat(B, r)
    <3>1. yielded \o queue = yielded
      <4>1. queue = <<>>
        BY <2>5 DEF Shape
      <4> QED  BY <1>1, <4>1, ConcatEmptySeq
    <3>2. (root \o Flat(B, yielded)) \o fr = root \o Flat(B, yielded \o r)
      <4>1. /\ HasLists(B, Node, Node) /\ root \in Seq(Node)
            /\ yielded \in Seq(Node) /\ r \in Seq(Node)
        BY <1>1, <2>1
      <4> QED  BY ONLY <4>1, OneMoreLevel
    <3>3. yielded \o r = yielded \o fr
      BY <2>1, <2>2, <2>4, <3>1, <3>2
    <3>4. fr \in Seq(Node)
      BY <2>1, FlatType
    <3> HIDE DEF fr
    <3>5. r = fr
      BY <1>1, <3>3, <3>4, ConcatSimplifications
    <3>6. r = <<>>
      BY <3>5, NoEndlessRest DEF fr, B
    <3>7. yielded \o <<>> = yielded
      BY <1>1, ConcatEmptySeq
    <3> QED  BY <2>3, <2>4, <3>6, <3>7
  <2> QED  BY <2>3, <2>4, <2>5
<1> QED  BY <1>6, <1>7, <1>8

\* traverse.h:388-453: each walk gives the nodes in the order it is named for,
\* for every finite tree and filter, although its generators read ahead and a
\* client that removes what it was given shrinks the lists under them.
THEOREM WalkYieldsInOrder ==
    ASSUME RemoveUnseen = FALSE
    PROVE  Spec => []YieldsInOrder
<1>1. TypeOK /\ Shape /\ Order => YieldsInOrder
  <2> SUFFICES ASSUME TypeOK, Shape, Order PROVE IsPrefix(yielded, Expected)
    BY DEF YieldsInOrder
  <2>1. PICK r \in Seq(Node) : Expected = yielded \o r
    BY GivenIsExpected
  <2>2. yielded \in Seq(Node)
    BY DEF TypeOK
  <2>3. IsPrefix(yielded, yielded \o r)
    BY <2>2, PrefixOfConcat
  <2> QED  BY <2>1, <2>3
<1>2. Spec => [](TypeOK /\ Shape /\ Order)
  BY OrderHolds
<1> QED  BY <1>1, <1>2, PTL

\* traverse.h:388-453, generator.h: a walk that is over has given all nodes of
\* its order.  What an exception in a filter cost is what Admitted leaves out.
THEOREM WalkMissesNothing ==
    ASSUME RemoveUnseen = FALSE
    PROVE  Spec => []MissesNothing
<1>1. TypeOK /\ Shape /\ Order => MissesNothing
  BY GivenIsExpected DEF MissesNothing
<1>2. Spec => [](TypeOK /\ Shape /\ Order)
  BY OrderHolds
<1> QED  BY <1>1, <1>2, PTL

=============================================================================
