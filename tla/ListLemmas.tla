----------------------------- MODULE ListLemmas -----------------------------
(***************************************************************************)
(* What insertion and removal do to a list, whatever its elements, and     *)
(* where a search for the first index of a kind ends: the facts about the  *)
(* child list vectors that the proofs about the hierarchy rest on.         *)
(***************************************************************************)
EXTENDS Integers, SequencesExt, SequenceTheorems,
        WellFoundedInduction, TLAPS

\* vector::insert shifts what stands at the place and behind it to the right.
LEMMA InsertAtProperties ==
    ASSUME NEW S, NEW s \in Seq(S), NEW i \in 1 .. Len(s) + 1, NEW e \in S
    PROVE  /\ InsertAt(s, i, e) \in Seq(S)
           /\ Len(InsertAt(s, i, e)) = Len(s) + 1
           /\ \A j \in 1 .. i - 1 : InsertAt(s, i, e)[j] = s[j]
           /\ InsertAt(s, i, e)[i] = e
           /\ \A j \in i + 1 .. Len(s) + 1 : InsertAt(s, i, e)[j] = s[j - 1]
<1> DEFINE front == SubSeq(s, 1, i - 1)
           back == SubSeq(s, i, Len(s))
<1>1. /\ front \in Seq(S) /\ Len(front) = i - 1
      /\ \A j \in 1 .. i - 1 : front[j] = s[j]
  <2>1. \A j \in 1 .. i - 1 : s[j] \in S
    BY ElementOfSeq
  <2> QED  BY <2>1, SubSeqProperties
<1>2. /\ back \in Seq(S) /\ Len(back) = Len(s) - i + 1
      /\ \A j \in 1 .. Len(s) - i + 1 : back[j] = s[i + j - 1]
  <2>1. \A j \in i .. Len(s) : s[j] \in S
    BY ElementOfSeq
  <2> QED  BY <2>1, SubSeqProperties
<1>3. <<e>> \in Seq(S) /\ Len(<<e>>) = 1 /\ <<e>>[1] = e
  OBVIOUS
<1> HIDE DEF front, back
<1>4. /\ front \o <<e>> \in Seq(S) /\ Len(front \o <<e>>) = i
      /\ \A j \in 1 .. i :
            (front \o <<e>>)[j] = IF j <= i - 1 THEN s[j] ELSE e
  BY <1>1, <1>3, ConcatProperties
<1>5. /\ (front \o <<e>>) \o back \in Seq(S)
      /\ Len((front \o <<e>>) \o back) = Len(s) + 1
      /\ \A j \in 1 .. Len(s) + 1 :
            ((front \o <<e>>) \o back)[j] =
                IF j < i THEN s[j] ELSE IF j = i THEN e ELSE s[j - 1]
  BY <1>2, <1>4, ConcatProperties
<1> DEFINE new == (front \o <<e>>) \o back
<1>6. /\ \A j \in 1 .. i - 1 : new[j] = s[j]
      /\ new[i] = e
      /\ \A j \in i + 1 .. Len(s) + 1 : new[j] = s[j - 1]
  BY <1>5
<1> QED  BY <1>5, <1>6 DEF InsertAt, front, back

\* vector::erase shifts what stands behind the place to the left.
LEMMA RemoveAtProperties ==
    ASSUME NEW S, NEW s \in Seq(S), NEW i \in 1 .. Len(s)
    PROVE  /\ RemoveAt(s, i) \in Seq(S)
           /\ Len(RemoveAt(s, i)) = Len(s) - 1
           /\ \A j \in 1 .. i - 1 : RemoveAt(s, i)[j] = s[j]
           /\ \A j \in i .. Len(s) - 1 : RemoveAt(s, i)[j] = s[j + 1]
<1> DEFINE front == SubSeq(s, 1, i - 1)
           back == SubSeq(s, i + 1, Len(s))
<1>1. /\ front \in Seq(S) /\ Len(front) = i - 1
      /\ \A j \in 1 .. i - 1 : front[j] = s[j]
  <2>1. \A j \in 1 .. i - 1 : s[j] \in S
    BY ElementOfSeq
  <2> QED  BY <2>1, SubSeqProperties
<1>2. /\ back \in Seq(S) /\ Len(back) = Len(s) - i
      /\ \A j \in 1 .. Len(s) - i : back[j] = s[i + j]
  <2>1. \A j \in i + 1 .. Len(s) : s[j] \in S
    BY ElementOfSeq
  <2>2. /\ back \in Seq(S)
        /\ Len(back) = IF i + 1 <= Len(s) THEN Len(s) - (i + 1) + 1 ELSE 0
        /\ \A j \in 1 .. Len(s) - (i + 1) + 1 : back[j] = s[(i + 1) + j - 1]
    BY <2>1, SubSeqProperties
  <2> QED  BY <2>2
<1> HIDE DEF front, back
<1>3. /\ front \o back \in Seq(S) /\ Len(front \o back) = Len(s) - 1
      /\ \A j \in 1 .. i - 1 : (front \o back)[j] = s[j]
      /\ \A j \in i .. Len(s) - 1 : (front \o back)[j] = s[j + 1]
  <2>1. /\ front \o back \in Seq(S) /\ Len(front \o back) = Len(s) - 1
        /\ \A j \in 1 .. Len(s) - 1 :
              (front \o back)[j] = IF j <= i - 1 THEN front[j]
                                   ELSE back[j - (i - 1)]
    BY <1>1, <1>2, ConcatProperties
  <2>2. \A j \in i .. Len(s) - 1 :
           j - (i - 1) \in 1 .. Len(s) - i /\ i + (j - (i - 1)) = j + 1
    OBVIOUS
  <2>3. \A j \in i .. Len(s) - 1 : back[j - (i - 1)] = s[j + 1]
    BY <1>2, <2>2
  <2> QED  BY <1>1, <2>1, <2>3
<1> QED  BY <1>3 DEF RemoveAt, front, back

\* Front drops the last element.
LEMMA FrontProperties ==
    ASSUME NEW S, NEW s \in Seq(S), s # <<>>
    PROVE  /\ Len(s) \in Nat \ {0} /\ Last(s) = s[Len(s)] /\ s[Len(s)] \in S
           /\ Front(s) \in Seq(S) /\ Len(Front(s)) = Len(s) - 1
           /\ \A i \in 1 .. Len(s) - 1 : Front(s)[i] = s[i]
<1>1. Len(s) \in Nat \ {0}
  BY EmptySeq
<1>2. \A i \in 1 .. Len(s) : s[i] \in S
  BY <1>1, ElementOfSeq
<1>3. Len(s) \in 1 .. Len(s) /\ \A i \in 1 .. Len(s) - 1 : s[i] \in S
  BY <1>1, <1>2
<1>4. /\ Front(s) = SubSeq(s, 1, Len(s) - 1)
      /\ Last(s) = s[Len(s)]
  BY DEF Front, Last
<1> DEFINE n == Len(s) - 1
<1>5. /\ SubSeq(s, 1, n) \in Seq(S)
      /\ Len(SubSeq(s, 1, n)) = n
      /\ \A i \in 1 .. n : SubSeq(s, 1, n)[i] = s[i]
  <2>1. n \in Nat /\ \A i \in 1 .. n : s[i] \in S
    BY <1>1, <1>3
  <2> HIDE DEF n
  <2> QED  BY <2>1, SubSeqProperties
<1> QED  BY <1>1, <1>2, <1>3, <1>4, <1>5

\* A search through the indexes 1 .. n for a member of B ends, at the first
\* one or right behind the last index.
LEMMA FirstIndex ==
    ASSUME NEW n \in Nat, NEW B
    PROVE  \E i \in 1 .. n + 1 :
              /\ \A j \in 1 .. i - 1 : j \notin B
              /\ i <= n => i \in B
<1> DEFINE T == {i \in 1 .. n + 1 : i \in B \/ i = n + 1}
<1>1. T \subseteq Nat /\ n + 1 \in T
  OBVIOUS
<1> DEFINE R == {ss \in Nat \X Nat : ss[1] < ss[2]}
<1>2. IsWellFoundedOn(R, Nat)
  BY NatLessThanWellFounded DEF OpToRel
<1>3. PICK i \in T : \A j \in T : <<j, i>> \notin R
  BY <1>1, <1>2, WFMin
<1>4. \A j \in T : ~ (j < i)
  BY <1>1, <1>3
<1> QED  BY <1>4

-----------------------------------------------------------------------------
(* Induction and recursion, with sets in the place of predicates *)

\* A set of numbers that has 0 and with each number the next has them all.
LEMMA NumbersBySteps ==
    ASSUME NEW T, 0 \in T, \A n \in Nat : n \in T => n + 1 \in T
    PROVE  Nat \subseteq T
<1> DEFINE U == Nat \ T
           R == {ss \in Nat \X Nat : ss[1] < ss[2]}
<1>1. SUFFICES ASSUME U # {} PROVE FALSE
  OBVIOUS
<1>2. IsWellFoundedOn(R, Nat)
  BY NatLessThanWellFounded DEF OpToRel
<1>3. PICK x \in U : \A y \in U : <<y, x>> \notin R
  <2>1. U \subseteq Nat
    OBVIOUS
  <2> HIDE DEF U, R
  <2> QED  BY <1>1, <1>2, <2>1, WFMin
<1>4. x # 0 /\ x - 1 \in Nat /\ x - 1 < x /\ x = (x - 1) + 1
  BY <1>3
<1>5. x - 1 \in U
  BY <1>4
<1> QED  BY <1>3, <1>4, <1>5

\* A set of sequences that has the empty one and with each all that are longer
\* by one has them all.
LEMMA SequencesByAppend ==
    ASSUME NEW S, NEW T, <<>> \in T,
           \A s \in Seq(S), e \in S : s \in T => Append(s, e) \in T
    PROVE  Seq(S) \subseteq T
<1> DEFINE U == {n \in Nat : \A s \in Seq(S) : Len(s) = n => s \in T}
<1>1. 0 \in U
  <2>1. \A s \in Seq(S) : Len(s) = 0 => s = <<>>
    BY EmptySeq
  <2> QED  BY <2>1
<1>2. ASSUME NEW n \in Nat, n \in U PROVE n + 1 \in U
  <2> SUFFICES ASSUME NEW s \in Seq(S), Len(s) = n + 1 PROVE s \in T
    OBVIOUS
  <2>1. s # <<>>
    BY EmptySeq
  <2>2. PICK r \in Seq(S), e \in S : s = Append(r, e)
    BY <2>1, SequenceEmptyOrAppend
  <2>3. Len(r) \in Nat /\ Len(s) = Len(r) + 1
    BY <2>2, LenProperties, AppendProperties
  <2>4. r \in T
    BY <1>2, <2>3
  <2> QED  BY <2>2, <2>4
<1> HIDE DEF U
<1>3. Nat \subseteq U
  BY <1>1, <1>2, NumbersBySteps
<1> QED  BY <1>3, LenProperties DEF U

\* Every set of E has a member that R leads to from no other one: what an
\* induction from the smaller to the larger along R needs.
Grounded(R, E) ==
    \A T \in SUBSET E : T # {} => \E x \in T : \A y \in T : <<y, x>> \notin R

\* g follows the recursive definition step on S, which has with each member
\* the smaller ones that its value depends on.
Follows(g, S, E, V, R, step) ==
    /\ g \in [E -> V]
    /\ S \in SUBSET E
    /\ \A e \in S, d \in E : <<d, e>> \in R => d \in S
    /\ \A e \in S : g[e] = step[g][e]

\* What a value depends on is the values of the smaller members.
LooksDown(E, V, R, step) ==
    /\ V # {}
    /\ step \in [[E -> V] -> [E -> V]]
    /\ \A g, h \in [E -> V], e \in E :
          (\A d \in E : <<d, e>> \in R => g[d] = h[d])
              => step[g][e] = step[h][e]

\* Two functions that follow a recursive definition agree where both do.
LEMMA FollowersAgree ==
    ASSUME NEW E, NEW V, NEW R, NEW step, Grounded(R, E), LooksDown(E, V, R, step),
           NEW g, NEW h, NEW S, NEW T,
           Follows(g, S, E, V, R, step), Follows(h, T, E, V, R, step)
    PROVE  \A e \in S \cap T : g[e] = h[e]
<1> DEFINE D == {e \in S \cap T : g[e] # h[e]}
<1>1. SUFFICES ASSUME D # {} PROVE FALSE
  OBVIOUS
<1>2. PICK x \in D : \A y \in D : <<y, x>> \notin R
  <2>1. D \in SUBSET E
    BY DEF Follows
  <2> QED  BY <1>1, <2>1 DEF Grounded
<1>3. \A d \in E : <<d, x>> \in R => g[d] = h[d]
  BY <1>2 DEF Follows
<1>4. step[g][x] = step[h][x]
  BY <1>2, <1>3 DEF LooksDown, Follows
<1> QED  BY <1>2, <1>4 DEF Follows

\* A recursive definition over a grounded relation has a solution.
LEMMA RecursionHasSolution ==
    ASSUME NEW E, NEW V, NEW R, NEW step, Grounded(R, E), LooksDown(E, V, R, step)
    PROVE  \E g \in [E -> V] : g = step[g]
<1> DEFINE Good(g, S) == Follows(g, S, E, V, R, step)
           D == {e \in E : \E g, S : Good(g, S) /\ e \in S}
           H == [e \in E |->
                    IF e \in D
                    THEN CHOOSE v \in V : \E g, S : Good(g, S) /\ e \in S /\ v = g[e]
                    ELSE CHOOSE v \in V : TRUE]
<1>1. ASSUME NEW g, NEW S, Good(g, S), NEW e \in S
      PROVE  H[e] = g[e]
  <2>1. e \in E /\ e \in D /\ g[e] \in V
    BY <1>1 DEF Follows
  <2>2. \E v \in V : \E k, T : Good(k, T) /\ e \in T /\ v = k[e]
    BY <1>1, <2>1
  <2>3. \E k, T : Good(k, T) /\ e \in T /\ H[e] = k[e]
    BY <2>1, <2>2
  <2>4. PICK k, T : Good(k, T) /\ e \in T /\ H[e] = k[e]
    BY <2>3
  <2> QED  BY <1>1, <2>4, FollowersAgree
<1>2. H \in [E -> V]
  <2>1. ASSUME NEW e \in E
        PROVE  H[e] \in V
    <3>1. CASE e \in D
      <4>1. PICK g, S : Good(g, S) /\ e \in S
        BY <3>1
      <4>2. H[e] = g[e]
        BY <1>1, <4>1
      <4> QED  BY <4>1, <4>2 DEF Follows
    <3>2. CASE e \notin D
      BY <3>2 DEF LooksDown
    <3> QED  BY <3>1, <3>2
  <2>2. H = [e \in E |-> H[e]]
    OBVIOUS
  <2> HIDE DEF H
  <2> QED  BY <2>1, <2>2
<1>3. \A g, S : Good(g, S) => S \subseteq D
  BY DEF Follows
<1>4. Good(H, D)
  <2>1. ASSUME NEW e \in D
        PROVE  /\ \A d \in E : <<d, e>> \in R => d \in D
               /\ H[e] = step[H][e]
    <3>1. PICK g, S : Good(g, S) /\ e \in S
      OBVIOUS
    <3>2. \A d \in E : <<d, e>> \in R => d \in S /\ H[d] = g[d]
      <4>1. \A d \in E : <<d, e>> \in R => d \in S
        BY <3>1 DEF Follows
      <4>2. \A d \in S : H[d] = g[d]
        BY <3>1, <1>1
      <4> QED  BY <4>1, <4>2
    <3>3. g \in [E -> V] /\ g[e] = step[g][e] /\ e \in E
      BY <3>1 DEF Follows
    <3>4. H[e] = g[e]
      BY <3>1, <1>1
    <3>5. step[H][e] = step[g][e]
      <4> HIDE DEF H
      <4> QED  BY <1>2, <3>2, <3>3 DEF LooksDown
    <3>6. \A d \in E : <<d, e>> \in R => d \in D
      BY <3>1, <3>2, <1>3
    <3> QED  BY <3>3, <3>4, <3>5, <3>6
  <2> HIDE DEF H
  <2> QED  BY <1>2, <2>1 DEF Follows
<1>5. D = E
  <2>1. SUFFICES ASSUME E \ D # {} PROVE FALSE
    OBVIOUS
  <2>2. PICK x \in E \ D : \A y \in E \ D : <<y, x>> \notin R
    BY <2>1 DEF Grounded
  <2> HIDE DEF H, D
  <2> DEFINE K == [H EXCEPT ![x] = step[H][x]]
  <2>3. K \in [E -> V] /\ K[x] = step[H][x] /\ \A e \in E \ {x} : K[e] = H[e]
    BY <1>2 DEF LooksDown
  <2> HIDE DEF K
  <2>4. \A e \in D \cup {x}, d \in E : <<d, e>> \in R => d \in D
    BY <1>4, <2>2 DEF Follows
  <2>5. ASSUME NEW e \in D \cup {x}
        PROVE  K[e] = step[K][e]
    <3>1. e \in E /\ \A d \in E : <<d, e>> \in R => K[d] = H[d]
      BY <1>4, <2>2, <2>3, <2>4 DEF Follows
    <3>2. step[K][e] = step[H][e]
      BY <1>2, <2>3, <3>1 DEF LooksDown
    <3> QED  BY <1>4, <2>2, <2>3, <3>1, <3>2 DEF Follows
  <2>6. Good(K, D \cup {x})
    BY <1>4, <2>2, <2>3, <2>4, <2>5 DEF Follows
  <2>7. D \cup {x} \subseteq D
    BY <1>3, <2>6
  <2> QED  BY <2>2, <2>7
<1>6. H = step[H]
  <2> HIDE DEF H, D
  <2>1. step[H] \in [E -> V] /\ \A e \in E : H[e] = step[H][e]
    BY <1>2, <1>4, <1>5 DEF LooksDown, Follows
  <2> QED  BY <1>2, <2>1
<1> QED  BY <1>2, <1>6

\* The values of g come from a value for 0 and from one value to the next.
Iterates(g, V, a, next) ==
    /\ g \in [Nat -> V]
    /\ g[0] = a
    /\ \A n \in Nat : g[n + 1] = next[<<n, g[n]>>]

\* A recursion along the numbers has a solution.
LEMMA NumberRecursion ==
    ASSUME NEW V, NEW a, NEW next, a \in V, next \in [Nat \X V -> V]
    PROVE  \E g : Iterates(g, V, a, next)
<1> DEFINE R == {ss \in Nat \X Nat : ss[1] < ss[2]}
           new(g, n) == IF n = 0 THEN a ELSE next[<<n - 1, g[n - 1]>>]
           step == [g \in [Nat -> V] |-> [n \in Nat |-> new(g, n)]]
<1>1. Grounded(R, Nat)
  <2>1. IsWellFoundedOn(R, Nat)
    BY NatLessThanWellFounded DEF OpToRel
  <2> HIDE DEF R
  <2> QED  BY <2>1, WFMin DEF Grounded
<1>2. ASSUME NEW g \in [Nat -> V], NEW n \in Nat
      PROVE  new(g, n) \in V
  <2>1. n # 0 => n - 1 \in Nat
    OBVIOUS
  <2> QED  BY <2>1
<1>3. LooksDown(Nat, V, R, step)
  <2>1. step \in [[Nat -> V] -> [Nat -> V]]
    BY <1>2
  <2>2. ASSUME NEW g \in [Nat -> V], NEW h \in [Nat -> V], NEW n \in Nat,
               \A m \in Nat : <<m, n>> \in R => g[m] = h[m]
        PROVE  step[g][n] = step[h][n]
    <3>1. n # 0 => n - 1 \in Nat /\ <<n - 1, n>> \in R
      OBVIOUS
    <3>2. new(g, n) = new(h, n)
      BY <2>2, <3>1
    <3> QED  BY <3>2
  <2> HIDE DEF step, R
  <2> QED  BY <2>1, <2>2 DEF LooksDown
<1>4. PICK g \in [Nat -> V] : g = step[g]
  <2> HIDE DEF step, R
  <2> QED  BY <1>1, <1>3, RecursionHasSolution
<1>5. \A n \in Nat : g[n] = new(g, n)
  BY <1>4
<1>6. ASSUME NEW n \in Nat
      PROVE  g[n + 1] = next[<<n, g[n]>>]
  <2>1. n + 1 \in Nat /\ n + 1 # 0 /\ (n + 1) - 1 = n
    OBVIOUS
  <2>2. g[n + 1] = next[<<(n + 1) - 1, g[(n + 1) - 1]>>]
    BY <1>5, <2>1
  <2> QED  BY <2>1, <2>2
<1>7. g[0] = a
  BY <1>5
<1>8. Iterates(g, V, a, next)
  <2> HIDE DEF step, R
  <2> QED  BY <1>4, <1>6, <1>7 DEF Iterates
<1> QED  BY <1>8

-----------------------------------------------------------------------------
(* Sequences of sequences *)

\* The empty sequence flattens to itself.
LEMMA FlattenEmpty == FlattenSeq(<<>>) = <<>>
  BY DEF FlattenSeq

\* A sequence of sequences flattens to their concatenation, piece by piece.
LEMMA FlattenBySteps ==
    ASSUME NEW S, NEW ss \in Seq(Seq(S)), ss # <<>>
    PROVE  \E f \in [1 .. Len(ss) -> Seq(S)] :
              /\ f[1] = ss[1]
              /\ \A i \in 2 .. Len(ss) : f[i] = f[i - 1] \o ss[i]
              /\ FlattenSeq(ss) = f[Len(ss)]
<1> DEFINE E == 1 .. Len(ss)
           V == Seq(S)
           F == [E -> V]
           R == {dd \in E \X E : dd[1] < dd[2]}
           val(g, i) == IF i = 1 THEN ss[i] ELSE g[i - 1] \o ss[i]
           step == [g \in F |-> [i \in E |-> val(g, i)]]
           flatten == CHOOSE flatten : flatten = [i \in 1 .. Len(ss) |-> val(flatten, i)]
<1>0. /\ Len(ss) \in Nat \ {0}
      /\ \A i \in E : ss[i] \in V
  <2>1. Len(ss) \in Nat \ {0}
    BY EmptySeq
  <2>2. \A i \in 1 .. Len(ss) : ss[i] \in Seq(S)
    BY ElementOfSeq
  <2> QED  BY <2>1, <2>2
<1>1. ASSUME NEW g \in F, NEW i \in E PROVE val(g, i) \in V
  <2>1. CASE i = 1
    BY <1>0, <2>1
  <2>2. CASE i # 1
    <3>1. i - 1 \in E
      BY <1>0, <2>2
    <3>2. g[i - 1] \in Seq(S) /\ ss[i] \in Seq(S)
      BY <1>0, <3>1
    <3>3. g[i - 1] \o ss[i] \in Seq(S)
      BY <3>2, ConcatProperties
    <3> QED  BY <2>2, <3>3
  <2> QED  BY <2>1, <2>2
<1>2. LooksDown(E, V, R, step)
  <2>1. step \in [F -> F]
    <3>1. \A g \in F : [i \in E |-> val(g, i)] \in F
      BY <1>1
    <3> HIDE DEF val
    <3> QED  BY <3>1
  <2>2. ASSUME NEW g \in F, NEW h \in F, NEW i \in E,
               \A d \in E : <<d, i>> \in R => g[d] = h[d]
        PROVE  step[g][i] = step[h][i]
    <3>1. i # 1 => (i - 1 \in E /\ <<i - 1, i>> \in R)
      BY <1>0
    <3>3. i # 1 => g[i - 1] = h[i - 1]
      <4> HIDE DEF E, R
      <4> QED  BY <2>2, <3>1
    <3>2. val(g, i) = val(h, i)
      BY <3>3
    <3> HIDE DEF val
    <3> QED  BY <3>2
  <2>3. V # {}
    BY EmptySeq
  <2> HIDE DEF step, V, R, E
  <2> QED  BY <2>1, <2>2, <2>3 DEF LooksDown
<1>3. Grounded(R, E)
  <2> DEFINE N == {dd \in Nat \X Nat : dd[1] < dd[2]}
  <2>1. IsWellFoundedOn(N, Nat)
    BY NatLessThanWellFounded DEF OpToRel
  <2>2. ASSUME NEW T \in SUBSET E, T # {}
        PROVE  \E x \in T : \A y \in T : <<y, x>> \notin R
    <3>1. T \subseteq Nat
      BY <1>0
    <3>2. PICK x \in T : \A y \in T : <<y, x>> \notin N
      <4> HIDE DEF N
      <4> QED  BY <2>1, <2>2, <3>1, WFMin
    <3>3. \A y \in T : <<y, x>> \notin R
      BY <1>0, <3>2
    <3> QED  BY <3>3
  <2> HIDE DEF R
  <2> QED  BY <2>2 DEF Grounded
<1>4. PICK g \in F : g = step[g]
  <2> HIDE DEF step, V, R, E
  <2> QED  BY <1>2, <1>3, RecursionHasSolution
<1>5. g = [i \in E |-> val(g, i)]
  <2> HIDE DEF val
  <2> QED  BY <1>4
<1>6. flatten = [i \in E |-> val(flatten, i)]
  <2> HIDE DEF val
  <2> QED  BY <1>5
<1>7. FlattenSeq(ss) = flatten[Len(ss)]
  BY <1>0 DEF FlattenSeq
<1> HIDE DEF flatten
<1>8. \A i \in E : flatten[i] = val(flatten, i)
  <2> HIDE DEF val
  <2> QED  BY <1>6
<1>9. \A n \in Nat : n + 1 \in E => flatten[n + 1] \in V
  <2> DEFINE T == {n \in Nat : n + 1 \in E => flatten[n + 1] \in V}
  <2>1. 0 \in T
    BY <1>0, <1>8
  <2>2. ASSUME NEW n \in Nat, n \in T PROVE n + 1 \in T
    <3> SUFFICES ASSUME n + 2 \in E PROVE flatten[n + 2] \in V
      OBVIOUS
    <3>1. n + 1 \in E /\ n + 2 # 1 /\ (n + 2) - 1 = n + 1
      BY <1>0
    <3>2. flatten[n + 1] \in Seq(S) /\ ss[n + 2] \in Seq(S)
      BY <1>0, <2>2, <3>1
    <3>3. flatten[n + 1] \o ss[n + 2] \in Seq(S)
      BY <3>2, ConcatProperties
    <3> QED  BY <1>8, <3>1, <3>3
  <2> HIDE DEF T
  <2>3. Nat \subseteq T
    BY <2>1, <2>2, NumbersBySteps
  <2> QED  BY <2>3 DEF T
<1>10. \A i \in E : flatten[i] \in V
  <2>1. ASSUME NEW i \in E PROVE flatten[i] \in V
    <3>1. i - 1 \in Nat /\ (i - 1) + 1 = i
      BY <1>0
    <3> QED  BY <1>9, <3>1
  <2> QED  BY <2>1
<1>11. flatten \in F
  <2> HIDE DEF val
  <2> QED  BY <1>6, <1>10
<1>12. flatten[1] = ss[1] /\ \A i \in 2 .. Len(ss) : flatten[i] = flatten[i - 1] \o ss[i]
  <2>1. 1 \in E /\ \A i \in 2 .. Len(ss) : i \in E /\ i # 1
    BY <1>0
  <2> QED  BY <1>8, <2>1
<1> QED  BY <1>7, <1>11, <1>12

\* What flattening gives.
LEMMA FlattenType ==
    ASSUME NEW S, NEW ss \in Seq(Seq(S))
    PROVE  FlattenSeq(ss) \in Seq(S)
<1>1. CASE ss = <<>>
  BY <1>1, FlattenEmpty, EmptySeq
<1>2. CASE ss # <<>>
  <2>1. Len(ss) \in 1 .. Len(ss)
    BY <1>2, EmptySeq
  <2>2. PICK f \in [1 .. Len(ss) -> Seq(S)] : FlattenSeq(ss) = f[Len(ss)]
    BY <1>2, FlattenBySteps
  <2> QED  BY <2>1, <2>2
<1> QED  BY <1>1, <1>2

\* One more sequence is one more piece.
LEMMA FlattenAppend ==
    ASSUME NEW S, NEW ss \in Seq(Seq(S)), NEW s \in Seq(S)
    PROVE  FlattenSeq(Append(ss, s)) = FlattenSeq(ss) \o s
<1> DEFINE more == Append(ss, s)
<1>1. /\ more \in Seq(Seq(S)) /\ more # <<>> /\ Len(more) = Len(ss) + 1
      /\ \A i \in 1 .. Len(ss) : more[i] = ss[i]
      /\ more[Len(ss) + 1] = s
  BY AppendProperties
<1>2. Len(ss) \in Nat
  BY LenProperties
<1> HIDE DEF more
<1>3. PICK g \in [1 .. Len(more) -> Seq(S)] :
         /\ g[1] = more[1]
         /\ \A i \in 2 .. Len(more) : g[i] = g[i - 1] \o more[i]
         /\ FlattenSeq(more) = g[Len(more)]
  BY <1>1, FlattenBySteps
<1>4. CASE ss = <<>>
  <2>1. Len(more) = 1 /\ more[1] = s
    BY <1>1, <1>4, EmptySeq
  <2>2. FlattenSeq(more) = s
    BY <1>3, <2>1
  <2>3. FlattenSeq(ss) = <<>>
    BY <1>4, FlattenEmpty
  <2> QED  BY <2>2, <2>3, ConcatEmptySeq DEF more
<1>5. CASE ss # <<>>
  <2>1. PICK f \in [1 .. Len(ss) -> Seq(S)] :
           /\ f[1] = ss[1]
           /\ \A i \in 2 .. Len(ss) : f[i] = f[i - 1] \o ss[i]
           /\ FlattenSeq(ss) = f[Len(ss)]
    BY <1>5, FlattenBySteps
  <2>2. Len(ss) \in Nat \ {0}
    BY <1>5, EmptySeq
  <2> DEFINE T == {n \in Nat : n + 1 \in 1 .. Len(ss) => f[n + 1] = g[n + 1]}
  <2>3. 0 \in T
    <3>1. g[1] = f[1]
      BY <1>1, <1>3, <2>1, <2>2
    <3> QED  BY <3>1
  <2>4. ASSUME NEW n \in Nat, n \in T PROVE n + 1 \in T
    <3> SUFFICES ASSUME n + 2 \in 1 .. Len(ss) PROVE f[n + 2] = g[n + 2]
      OBVIOUS
    <3>1. /\ n + 1 \in 1 .. Len(ss) /\ n + 2 \in 2 .. Len(ss) /\ n + 2 \in 2 .. Len(more)
          /\ (n + 2) - 1 = n + 1
      BY <1>1, <1>2
    <3>2. f[n + 1] = g[n + 1]
      BY <2>4, <3>1
    <3>3. f[n + 2] = f[n + 1] \o ss[n + 2] /\ g[n + 2] = g[n + 1] \o more[n + 2]
      BY <1>3, <2>1, <3>1
    <3> QED  BY <1>1, <3>2, <3>3
  <2> HIDE DEF T
  <2>5. Nat \subseteq T
    BY <2>3, <2>4, NumbersBySteps
  <2>6. f[Len(ss)] = g[Len(ss)]
    <3>1. Len(ss) - 1 \in Nat /\ (Len(ss) - 1) + 1 = Len(ss)
      BY <2>2
    <3>2. (Len(ss) - 1) + 1 \in 1 .. Len(ss)
      BY <2>2
    <3> QED  BY <2>5, <3>1, <3>2 DEF T
  <2>7. g[Len(more)] = g[Len(ss)] \o s
    <3>1. Len(ss) + 1 \in 2 .. Len(more) /\ (Len(ss) + 1) - 1 = Len(ss)
      BY <1>1, <2>2
    <3>2. g[Len(ss) + 1] = g[(Len(ss) + 1) - 1] \o more[Len(ss) + 1]
      BY <1>3, <3>1
    <3> QED  BY <1>1, <3>1, <3>2
  <2> QED  BY <1>3, <2>1, <2>6, <2>7 DEF more
<1> QED  BY <1>4, <1>5

\* Flattening one list of sequences after another.
LEMMA FlattenConcat ==
    ASSUME NEW S, NEW ss \in Seq(Seq(S)), NEW tt \in Seq(Seq(S))
    PROVE  FlattenSeq(ss \o tt) = FlattenSeq(ss) \o FlattenSeq(tt)
<1> DEFINE V == Seq(S)
           T == {uu \in Seq(V) : FlattenSeq(ss \o uu) = FlattenSeq(ss) \o FlattenSeq(uu)}
<1>0. FlattenSeq(ss) \in Seq(S)
  BY FlattenType
<1>1. <<>> \in T
  <2>1. ss \o <<>> = ss /\ FlattenSeq(ss) \o <<>> = FlattenSeq(ss) /\ <<>> \in Seq(V)
    BY <1>0, ConcatEmptySeq, EmptySeq
  <2> QED  BY <2>1, FlattenEmpty
<1>2. ASSUME NEW uu \in Seq(V), NEW e \in V, uu \in T PROVE Append(uu, e) \in T
  <2>1. /\ Append(uu, e) \in Seq(V) /\ Append(uu, e) = uu \o <<e>>
        /\ ss \o uu \in Seq(V) /\ <<e>> \in Seq(V)
    BY AppendProperties, AppendIsConcat, ConcatProperties
  <2>2. ss \o Append(uu, e) = Append(ss \o uu, e)
    <3>1. (ss \o uu) \o <<e>> = ss \o (uu \o <<e>>)
      BY <2>1, ConcatAssociative
    <3>2. Append(ss \o uu, e) = (ss \o uu) \o <<e>>
      BY <2>1, AppendIsConcat
    <3> QED  BY <2>1, <3>1, <3>2
  <2>3. /\ FlattenSeq(Append(ss \o uu, e)) = FlattenSeq(ss \o uu) \o e
        /\ FlattenSeq(Append(uu, e)) = FlattenSeq(uu) \o e
    BY <2>1, FlattenAppend
  <2>4. (FlattenSeq(ss) \o FlattenSeq(uu)) \o e = FlattenSeq(ss) \o (FlattenSeq(uu) \o e)
    <3>1. FlattenSeq(uu) \in Seq(S)
      BY FlattenType
    <3> QED  BY <1>0, <3>1, ConcatAssociative
  <2>5. FlattenSeq(ss \o uu) = FlattenSeq(ss) \o FlattenSeq(uu)
    BY <1>2
  <2> QED  BY <2>1, <2>2, <2>3, <2>4, <2>5
<1> HIDE DEF T, V
<1>3. Seq(V) \subseteq T
  BY <1>1, <1>2, SequencesByAppend
<1> QED  BY <1>3 DEF T, V

=============================================================================
