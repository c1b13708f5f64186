--------------------------- MODULE PositionProofs ---------------------------
(***************************************************************************)
(* Proofs about Position and its client PositionWalk, for every even base  *)
(* and every width of the size: what the digit loops of position.cpp       *)
(* compute is compared with the numbers that the positions stand for.      *)
(***************************************************************************)
EXTENDS PositionWalk, ListLemmas

-----------------------------------------------------------------------------
(* Symbols *)

LEMMA BaseFacts ==
    /\ Base \in Nat /\ Base >= 2
    /\ HIGH_BIT \in Nat /\ HIGH_BIT >= 1 /\ 2 * HIGH_BIT = Base
    /\ FULL_SYMBOL = Base - 1 /\ HIGH_BIT \in Symbol /\ 0 \in Symbol
    /\ SizeMod \in Nat /\ SizeMod >= 4
<1>1. Base \in Nat /\ Base >= 2 /\ Base % 2 = 0
  BY BaseAssumption
<1>2. HIGH_BIT \in Nat /\ 2 * HIGH_BIT = Base
  BY <1>1 DEF HIGH_BIT
<1> QED
  BY <1>1, <1>2, SizeModAssumption DEF FULL_SYMBOL, Symbol

\* What one symbol becomes when it is incremented or decremented.
LEMMA SymbolSteps ==
    ASSUME NEW d \in Symbol
    PROVE  /\ (d + 1) % Base = IF d = FULL_SYMBOL THEN 0 ELSE d + 1
           /\ (d - 1) % Base = IF d = 0 THEN FULL_SYMBOL ELSE d - 1
<1>1. d \in Int /\ 0 <= d /\ d <= Base - 1 /\ Base \in Nat /\ Base >= 2
      /\ FULL_SYMBOL = Base - 1
  BY BaseFacts DEF Symbol
<1>2. d # FULL_SYMBOL => (d + 1) % Base = d + 1
  BY <1>1
<1>3. d = FULL_SYMBOL => (d + 1) % Base = 0
  BY <1>1
<1>4. d # 0 => (d - 1) % Base = d - 1
  BY <1>1
<1>5. d = 0 => (d - 1) % Base = FULL_SYMBOL
  BY <1>1
<1> QED
  BY <1>2, <1>3, <1>4, <1>5

\* A digit is a symbol, wherever it is read.
LEMMA DigitType ==
    ASSUME NEW s \in Seq(Symbol), NEW i \in Int
    PROVE  /\ Digit(s, i) \in Symbol /\ Digit(s, i) \in Nat
           /\ i \in 1 .. Len(s) => Digit(s, i) = s[i]
           /\ i \notin 1 .. Len(s) => Digit(s, i) = 0
<1>1. DOMAIN s = 1 .. Len(s) /\ \A j \in 1 .. Len(s) : s[j] \in Symbol
  BY ElementOfSeq
<1> QED
  BY <1>1, BaseFacts DEF Digit, Symbol

-----------------------------------------------------------------------------
(* Numbers *)

\* The number gains one digit at a time.
LEMMA ValueSteps ==
    ASSUME NEW s \in Seq(Symbol)
    PROVE  /\ Value(s, 0) = 0
           /\ \A n \in Nat : /\ Value(s, n) \in Nat
                             /\ Value(s, n + 1) = Base * Value(s, n) + Digit(s, n + 1)
<1> DEFINE next == [x \in Nat \X Nat |-> Base * x[2] + Digit(s, x[1] + 1)]
           sumUpTo(n) == CHOOSE f : f = [i \in 0 .. n |->
                            IF i = 0 THEN 0 ELSE Base * f[i - 1] + Digit(s, i)]
<1>1. next \in [Nat \X Nat -> Nat]
  <2>1. ASSUME NEW x \in Nat \X Nat
        PROVE  Base * x[2] + Digit(s, x[1] + 1) \in Nat
    <3>1. x[1] \in Nat /\ x[2] \in Nat /\ x[1] + 1 \in Int
      OBVIOUS
    <3>2. Digit(s, x[1] + 1) \in Nat
      BY <3>1, DigitType
    <3>3. Base * x[2] \in Nat
      BY <3>1, BaseFacts
    <3> QED
      BY <3>2, <3>3
  <2> QED
    BY <2>1
<1>2. PICK g \in [Nat -> Nat] :
         g[0] = 0 /\ \A n \in Nat : g[n + 1] = next[<<n, g[n]>>]
  <2> HIDE DEF next
  <2>1. \E g : Iterates(g, Nat, 0, next)
    BY <1>1, NumberRecursion
  <2> QED
    BY <2>1 DEF Iterates
<1>3. \A n \in Nat : g[n + 1] = Base * g[n] + Digit(s, n + 1)
  BY <1>2
<1> HIDE DEF next
<1>4. ASSUME NEW n \in Nat
      PROVE  Value(s, n) = g[n]
  <2> DEFINE f == sumUpTo(n)
             h == [i \in 0 .. n |-> g[i]]
  <2>1. h = [i \in 0 .. n |-> IF i = 0 THEN 0 ELSE Base * h[i - 1] + Digit(s, i)]
    <3>1. \A i \in 0 .. n :
             g[i] = IF i = 0 THEN 0 ELSE Base * g[i - 1] + Digit(s, i)
      <4>1. ASSUME NEW i \in 1 .. n
            PROVE  g[i] = Base * g[i - 1] + Digit(s, i)
        <5>1. i - 1 \in Nat /\ (i - 1) + 1 = i
          OBVIOUS
        <5>2. g[(i - 1) + 1] = Base * g[i - 1] + Digit(s, (i - 1) + 1)
          BY <1>3, <5>1
        <5> QED
          BY <5>1, <5>2
      <4>2. \A i \in 0 .. n : i = 0 \/ i \in 1 .. n
        OBVIOUS
      <4> QED
        BY <1>2, <4>1, <4>2
    <3>2. \A i \in 1 .. n : h[i - 1] = g[i - 1]
      OBVIOUS
    <3> QED
      BY <3>1, <3>2
  <2>2. f = [i \in 0 .. n |-> IF i = 0 THEN 0 ELSE Base * f[i - 1] + Digit(s, i)]
    <3> HIDE DEF h
    <3> QED
      BY <2>1
  <2> HIDE DEF f
  <2> DEFINE T == {i \in Nat : i <= n => f[i] = g[i]}
  <2>f. /\ f[0] = 0
        /\ \A i \in 1 .. n : f[i] = Base * f[i - 1] + Digit(s, i)
    <3>1. \A i \in 0 .. n :
             f[i] = IF i = 0 THEN 0 ELSE Base * f[i - 1] + Digit(s, i)
      BY <2>2
    <3>2. 0 \in 0 .. n /\ \A i \in 1 .. n : i \in 0 .. n /\ i # 0
      OBVIOUS
    <3> QED
      BY <3>1, <3>2
  <2>3. 0 \in T
    BY <1>2, <2>f
  <2>4. ASSUME NEW i \in Nat, i \in T
        PROVE  i + 1 \in T
    <3>1. CASE i + 1 <= n
      <4>1. i + 1 \in 1 .. n /\ (i + 1) - 1 = i /\ i <= n
        BY <3>1
      <4>2. f[i + 1] = Base * f[(i + 1) - 1] + Digit(s, i + 1)
        BY <2>f, <4>1
      <4>3. f[i] = g[i]
        BY <2>4, <4>1
      <4>4. f[i + 1] = Base * g[i] + Digit(s, i + 1)
        BY <4>1, <4>2, <4>3
      <4> QED
        BY <1>3, <4>4
    <3>2. CASE ~ (i + 1 <= n)
      BY <3>2
    <3> QED
      BY <3>1, <3>2
  <2>5. n \in T
    <3> HIDE DEF T
    <3> QED
      BY <2>3, <2>4, NumbersBySteps
  <2>6. Value(s, n) = f[n]
    BY DEF Value, f
  <2> QED
    BY <2>5, <2>6
<1>5. Value(s, 0) = 0
  BY <1>2, <1>4
<1>6. ASSUME NEW n \in Nat
      PROVE  /\ Value(s, n) \in Nat
             /\ Value(s, n + 1) = Base * Value(s, n) + Digit(s, n + 1)
  <2>1. n + 1 \in Nat /\ g[n] \in Nat
    BY <1>2
  <2>2. Value(s, n) = g[n] /\ Value(s, n + 1) = g[n + 1]
    BY <1>4, <2>1
  <2> QED
    BY <1>3, <2>1, <2>2
<1> QED
  BY <1>5, <1>6

\* Digit by digit the same is the same number.
LEMMA SameDigits ==
    ASSUME NEW s \in Seq(Symbol), NEW t \in Seq(Symbol), NEW n \in Nat,
           \A i \in 1 .. n : Digit(s, i) = Digit(t, i)
    PROVE  Value(s, n) = Value(t, n)
<1> DEFINE T == {k \in Nat : k <= n => Value(s, k) = Value(t, k)}
<1>1. 0 \in T
  BY ValueSteps
<1>2. ASSUME NEW k \in Nat, k \in T
      PROVE  k + 1 \in T
  <2>1. CASE k + 1 <= n
    <3>1. k + 1 \in 1 .. n /\ k <= n
      BY <2>1
    <3>2. Value(s, k) = Value(t, k) /\ Digit(s, k + 1) = Digit(t, k + 1)
      BY <1>2, <3>1
    <3>3. Value(s, k + 1) = Value(t, k + 1)
      BY <3>2, ValueSteps
    <3> QED
      BY <3>3
  <2>2. CASE ~ (k + 1 <= n)
    BY <2>2
  <2> QED
    BY <2>1, <2>2
<1>3. n \in T
  <2> HIDE DEF T
  <2> QED
    BY <1>1, <1>2, NumbersBySteps
<1> QED
  BY <1>3

\* One unit of a digit outweighs all digits after it.
LEMMA UnitOutweighs ==
    ASSUME NEW v \in Nat, NEW w \in Nat, NEW c \in Symbol, NEW d \in Symbol, v < w
    PROVE  Base * v + c < Base * w + d
<1>1. PICK k \in Nat : w = v + 1 + k
  <2>1. w - v - 1 \in Nat /\ w = v + 1 + (w - v - 1)
    OBVIOUS
  <2> QED
    BY <2>1
<1>2. Base * w = Base * v + Base + Base * k
  BY <1>1, BaseFacts
<1>3. Base * v \in Nat /\ Base * k \in Nat /\ Base * w \in Nat
  BY <1>1, BaseFacts
<1>4. c \in Nat /\ d \in Nat /\ c < Base
  BY BaseFacts DEF Symbol
<1> QED
  BY <1>2, <1>3, <1>4, BaseFacts

\* The first digit that differs decides which number is the lower one.
LEMMA LowerDigit ==
    ASSUME NEW s \in Seq(Symbol), NEW t \in Seq(Symbol), NEW i \in Nat \ {0},
           Digit(s, i) < Digit(t, i),
           \A j \in 1 .. i - 1 : Digit(s, j) = Digit(t, j),
           NEW n \in Nat, i <= n
    PROVE  Value(s, n) < Value(t, n)
<1> DEFINE T == {k \in Nat : Value(s, i + k) < Value(t, i + k)}
<1>1. 0 \in T
  <2>1. i - 1 \in Nat /\ (i - 1) + 1 = i /\ i + 0 = i
    OBVIOUS
  <2>2. Value(s, i - 1) = Value(t, i - 1)
    BY <2>1, SameDigits
  <2>3. /\ Value(s, i) = Base * Value(s, i - 1) + Digit(s, i)
        /\ Value(t, i) = Base * Value(t, i - 1) + Digit(t, i)
        /\ Value(s, i - 1) \in Nat
    BY <2>1, ValueSteps
  <2>4. Base * Value(s, i - 1) \in Nat /\ Digit(s, i) \in Nat /\ Digit(t, i) \in Nat
    <3>1. i \in Int
      OBVIOUS
    <3>2. Digit(s, i) \in Nat /\ Digit(t, i) \in Nat
      BY <3>1, DigitType
    <3> QED
      BY <2>3, <3>2, BaseFacts
  <2>5. Value(s, i) < Value(t, i)
    BY <2>2, <2>3, <2>4
  <2> QED
    BY <2>1, <2>5
<1>2. ASSUME NEW k \in Nat, k \in T
      PROVE  k + 1 \in T
  <2>1. i + k \in Nat /\ i + (k + 1) = (i + k) + 1
    OBVIOUS
  <2>2. Value(s, i + k) < Value(t, i + k)
    BY <1>2
  <2>3. Value(s, (i + k) + 1) < Value(t, (i + k) + 1)
    <3> DEFINE l == i + k
    <3>1. l \in Nat /\ l + 1 \in Int
      BY <2>1
    <3>2. Value(s, l) \in Nat /\ Value(t, l) \in Nat /\ Value(s, l) < Value(t, l)
      BY <2>2, <3>1, ValueSteps
    <3> HIDE DEF l
    <3>3. Digit(s, l + 1) \in Symbol /\ Digit(t, l + 1) \in Symbol
      BY <3>1, DigitType
    <3>4. /\ Value(s, l + 1) = Base * Value(s, l) + Digit(s, l + 1)
          /\ Value(t, l + 1) = Base * Value(t, l) + Digit(t, l + 1)
      BY <3>1, ValueSteps
    <3>5. Value(s, l + 1) < Value(t, l + 1)
      BY <3>2, <3>3, <3>4, UnitOutweighs
    <3> QED
      BY <3>5 DEF l
  <2> QED
    BY <2>1, <2>3
<1>3. n - i \in Nat /\ i + (n - i) = n
  OBVIOUS
<1>4. n - i \in T
  <2> HIDE DEF T
  <2> QED
    BY <1>1, <1>2, <1>3, NumbersBySteps
<1> QED
  BY <1>3, <1>4

\* Two strings are digit by digit the same, or there is a first difference.
LEMMA FirstDifference ==
    ASSUME NEW s \in Seq(Symbol), NEW t \in Seq(Symbol), NEW n \in Nat
    PROVE  \/ \A i \in 1 .. n : Digit(s, i) = Digit(t, i)
           \/ \E i \in 1 .. n :
                 /\ Digit(s, i) # Digit(t, i)
                 /\ \A j \in 1 .. i - 1 : Digit(s, j) = Digit(t, j)
<1> DEFINE B == {i \in 1 .. n : Digit(s, i) # Digit(t, i)}
<1>1. PICK i \in 1 .. n + 1 : /\ \A j \in 1 .. i - 1 : j \notin B
                              /\ i <= n => i \in B
  <2> HIDE DEF B
  <2> QED
    BY FirstIndex
<1>2. \A j \in 1 .. i - 1 : j \in 1 .. n /\ Digit(s, j) = Digit(t, j)
  BY <1>1
<1>3. CASE i <= n
  BY <1>1, <1>2, <1>3
<1>4. CASE i = n + 1
  BY <1>2, <1>4
<1> QED
  BY <1>3, <1>4

LEMMA LargerIs ==
    ASSUME NEW m \in Nat, NEW n \in Nat
    PROVE  Larger(m, n) \in Nat /\ m <= Larger(m, n) /\ n <= Larger(m, n)
           /\ (Larger(m, n) = m \/ Larger(m, n) = n)
BY DEF Larger

\* Below is the order of the numbers.
LEMMA BelowIsLess ==
    ASSUME NEW s \in Seq(Symbol), NEW t \in Seq(Symbol), NEW n \in Nat,
           Len(s) <= n, Len(t) <= n
    PROVE  Below(s, t) <=> Value(s, n) < Value(t, n)
<1> DEFINE m == Larger(Len(s), Len(t))
<1>0. Len(s) \in Nat /\ Len(t) \in Nat /\ m \in Nat /\ m <= n
      /\ Len(s) <= m /\ Len(t) <= m
  <2>1. Len(s) \in Nat /\ Len(t) \in Nat
    BY LenProperties
  <2> QED
    BY <2>1, LargerIs
<1> HIDE DEF m
<1>1. ASSUME Below(s, t) PROVE Value(s, n) < Value(t, n)
  <2>1. PICK i \in 1 .. m : /\ Digit(s, i) < Digit(t, i)
                            /\ \A j \in 1 .. i - 1 : Digit(s, j) = Digit(t, j)
    BY <1>1 DEF Below, m
  <2>2. i \in Nat \ {0} /\ i <= n
    BY <1>0
  <2> QED
    BY <2>1, <2>2, LowerDigit
<1>2. ASSUME Value(s, n) < Value(t, n) PROVE Below(s, t)
  <2>1. Value(s, n) \in Nat /\ Value(t, n) \in Nat
    BY ValueSteps
  <2>2. ~ \A i \in 1 .. n : Digit(s, i) = Digit(t, i)
    BY <1>2, <2>1, SameDigits
  <2>3. PICK i \in 1 .. n : /\ Digit(s, i) # Digit(t, i)
                            /\ \A j \in 1 .. i - 1 : Digit(s, j) = Digit(t, j)
    BY <2>2, FirstDifference
  <2>4. Digit(s, i) \in Nat /\ Digit(t, i) \in Nat /\ i \in Nat \ {0} /\ i <= n
    <3>1. i \in Nat \ {0} /\ i \in Int /\ i <= n
      OBVIOUS
    <3> QED
      BY <3>1, DigitType
  <2>5. ~ (Digit(t, i) < Digit(s, i))
    <3>1. ASSUME Digit(t, i) < Digit(s, i) PROVE Value(t, n) < Value(s, n)
      BY <2>3, <2>4, <3>1, LowerDigit
    <3> QED
      BY <1>2, <2>1, <3>1
  <2>6. Digit(s, i) < Digit(t, i)
    BY <2>3, <2>4, <2>5
  <2>7. i \in 1 .. m
    <3>1. i \in 1 .. Len(t)
      BY <2>4, <2>6, DigitType
    <3> QED
      BY <1>0, <3>1
  <2> QED
    BY <2>3, <2>6, <2>7 DEF Below, m
<1> QED
  BY <1>1, <1>2

-----------------------------------------------------------------------------
(* The order of strings *)

\* A lower number sorts earlier.
LEMMA BelowPrecedes ==
    ASSUME NEW s \in Seq(Symbol), NEW t \in Seq(Symbol), Below(s, t)
    PROVE  Precedes(s, t)
<1>0. Len(s) \in Nat /\ Len(t) \in Nat
  BY LenProperties
<1>1. PICK i \in 1 .. Larger(Len(s), Len(t)) :
         /\ Digit(s, i) < Digit(t, i)
         /\ \A j \in 1 .. i - 1 : Digit(s, j) = Digit(t, j)
  BY DEF Below
<1>2. i \in Int /\ 1 <= i
  BY <1>0, LargerIs
<1>3. i \in 1 .. Len(t)
  <2>1. Digit(s, i) \in Nat
    BY <1>2, DigitType
  <2> QED
    BY <1>1, <1>2, <2>1, DigitType
<1>4. \A j \in 1 .. i - 1 : j \in 1 .. Len(s) => s[j] = t[j]
  <2>1. ASSUME NEW j \in 1 .. i - 1, j \in 1 .. Len(s)
        PROVE  s[j] = t[j]
    <3>1. j \in 1 .. Len(t) /\ j \in Int
      BY <1>0, <1>3
    <3>2. Digit(s, j) = s[j] /\ Digit(t, j) = t[j]
      BY <2>1, <3>1, DigitType
    <3> QED
      BY <1>1, <3>2
  <2> QED
    BY <2>1
<1>5. CASE i <= Len(s)
  <2>1. i \in 1 .. Len(s)
    BY <1>0, <1>2, <1>5
  <2>2. s[i] < t[i]
    BY <1>1, <1>2, <1>3, <2>1, DigitType
  <2>3. \A j \in 1 .. i - 1 : j <= Len(s) /\ s[j] = t[j]
    BY <1>0, <1>2, <1>4, <1>5
  <2> QED
    BY <1>3, <2>2, <2>3 DEF Precedes
<1>6. CASE Len(s) < i
  <2> DEFINE k == Len(s) + 1
  <2>1. k \in 1 .. Len(t) /\ ~ (k <= Len(s)) /\ k <= i
    BY <1>0, <1>2, <1>3, <1>6
  <2>2. \A j \in 1 .. k - 1 : j <= Len(s) /\ s[j] = t[j]
    BY <1>0, <1>2, <1>4, <1>6
  <2> QED
    BY <2>1, <2>2 DEF Precedes
<1> QED
  BY <1>0, <1>2, <1>5, <1>6

\* No string sorts before itself, nor two before one another.
LEMMA PrecedesOneWay ==
    ASSUME NEW s \in Seq(Symbol), NEW t \in Seq(Symbol), Precedes(s, t)
    PROVE  s # t /\ ~ Precedes(t, s)
<1>0. /\ Len(s) \in Nat /\ Len(t) \in Nat
      /\ \A i \in 1 .. Len(s) : s[i] \in Int
      /\ \A i \in 1 .. Len(t) : t[i] \in Int
  BY LenProperties, ElementOfSeq, BaseFacts DEF Symbol
<1>1. PICK i \in 1 .. Len(t) : /\ \A j \in 1 .. i - 1 : j <= Len(s) /\ s[j] = t[j]
                               /\ i <= Len(s) => s[i] < t[i]
  BY DEF Precedes
<1>2. s # t
  BY <1>0, <1>1
<1>3. ASSUME NEW k \in 1 .. Len(s),
             \A j \in 1 .. k - 1 : j <= Len(t) /\ t[j] = s[j],
             k <= Len(t) => t[k] < s[k]
      PROVE  FALSE
  <2>1. CASE i < k
    <3>1. i \in 1 .. k - 1 /\ i \in 1 .. Len(s)
      BY <1>0, <2>1
    <3> QED
      BY <1>0, <1>1, <1>3, <3>1
  <2>2. CASE k < i
    <3>1. k \in 1 .. i - 1 /\ k \in 1 .. Len(t)
      BY <1>0, <2>2
    <3> QED
      BY <1>0, <1>1, <1>3, <3>1
  <2>3. CASE k = i
    <3>1. k <= Len(t) /\ i <= Len(s) /\ k \in 1 .. Len(t)
      BY <1>0, <2>3
    <3> QED
      BY <1>0, <1>1, <1>3, <2>3, <3>1
  <2> QED
    BY <1>0, <2>1, <2>2, <2>3
<1> QED
  BY <1>2, <1>3 DEF Precedes

\* Of two different strings one sorts before the other.
LEMMA PrecedesTotal ==
    ASSUME NEW s \in Seq(Symbol), NEW t \in Seq(Symbol), s # t
    PROVE  Precedes(s, t) \/ Precedes(t, s)
<1> DEFINE m == Len(s)
           n == Len(t)
<1>0. /\ m \in Nat /\ n \in Nat
      /\ \A i \in 1 .. m : s[i] \in Int
      /\ \A i \in 1 .. n : t[i] \in Int
  BY LenProperties, ElementOfSeq, BaseFacts DEF Symbol
<1>1. CASE \E i \in 1 .. m : i <= n /\ s[i] # t[i]
  <2> DEFINE B == {i \in 1 .. m : i <= n /\ s[i] # t[i]}
  <2>1. PICK i \in 1 .. m + 1 : /\ \A j \in 1 .. i - 1 : j \notin B
                                /\ i <= m => i \in B
    <3> HIDE DEF B
    <3> QED
      BY <1>0, FirstIndex
  <2>2. i \in B
    BY <1>0, <1>1, <2>1
  <2>3. i \in 1 .. m /\ i \in 1 .. n /\ s[i] # t[i]
    BY <1>0, <2>2
  <2>4. \A j \in 1 .. i - 1 : j <= m /\ j <= n /\ s[j] = t[j]
    BY <1>0, <2>1, <2>3
  <2>5. s[i] < t[i] \/ t[i] < s[i]
    BY <1>0, <2>3
  <2> HIDE DEF B
  <2> QED
    BY <2>3, <2>4, <2>5 DEF Precedes
<1>2. CASE \A i \in 1 .. m : i <= n => s[i] = t[i]
  <2>1. CASE m < n
    <3>1. m + 1 \in 1 .. n /\ ~ (m + 1 <= m)
          /\ \A j \in 1 .. (m + 1) - 1 : j <= m /\ s[j] = t[j]
      BY <1>0, <1>2, <2>1
    <3> QED
      BY <3>1 DEF Precedes
  <2>2. CASE n < m
    <3>1. n + 1 \in 1 .. m /\ ~ (n + 1 <= n)
          /\ \A j \in 1 .. (n + 1) - 1 : j <= n /\ t[j] = s[j]
      BY <1>0, <1>2, <2>2
    <3> QED
      BY <3>1 DEF Precedes
  <2>3. CASE m = n
    <3>1. \A i \in 1 .. m : s[i] = t[i]
      BY <1>0, <1>2, <2>3
    <3> QED
      BY <2>3, <3>1, SeqEqual
  <2> QED
    BY <1>0, <2>1, <2>2, <2>3
<1> QED
  BY <1>1, <1>2

-----------------------------------------------------------------------------
(* Sizes *)

\* A string whose size fits is what it was; one symbol too much leaves none.
LEMMA SizedIs ==
    ASSUME NEW s \in Seq(Symbol)
    PROVE  /\ Sized(s) \in Seq(Symbol) /\ Len(Sized(s)) \in Nat /\ Len(Sized(s)) < SizeMod
           /\ Len(s) < SizeMod => Sized(s) = s
           /\ Len(s) = SizeMod => Sized(s) = <<>>
<1> DEFINE n == Len(s) % SizeMod
<1>1. /\ Len(s) \in Nat /\ n \in Nat /\ n < SizeMod /\ n <= Len(s)
      /\ Len(s) < SizeMod => n = Len(s)
      /\ Len(s) = SizeMod => n = 0
  <2>1. Len(s) \in Nat /\ SizeMod \in Nat /\ SizeMod >= 4
    BY BaseFacts, LenProperties
  <2> QED
    BY <2>1
<1>2. Sized(s) = SubSeq(s, 1, n)
  BY DEF Sized
<1>3. \A i \in 1 .. n : s[i] \in Symbol
  BY <1>1, ElementOfSeq
<1> HIDE DEF n
<1>4. /\ SubSeq(s, 1, n) \in Seq(Symbol) /\ Len(SubSeq(s, 1, n)) = n
      /\ \A i \in 1 .. n : SubSeq(s, 1, n)[i] = s[i]
  BY <1>1, <1>3, SubSeqProperties
<1>5. Len(s) < SizeMod => Sized(s) = s
  BY <1>1, <1>2, <1>4, SeqEqual
<1>6. Len(s) = SizeMod => Sized(s) = <<>>
  BY <1>1, <1>2, <1>4, EmptySeq
<1> QED
  BY <1>1, <1>2, <1>4, <1>5, <1>6

LEMMA PushBackIs ==
    ASSUME NEW s \in Seq(Symbol), NEW d \in Symbol, Len(s) < SizeMod
    PROVE  /\ PushBack(s, d) \in Seq(Symbol) /\ Len(PushBack(s, d)) < SizeMod
           /\ ~ Room(s) => PushBack(s, d) = <<>>
           /\ Room(s) => /\ Len(PushBack(s, d)) = Len(s) + 1
                         /\ \A i \in 1 .. Len(s) : PushBack(s, d)[i] = s[i]
                         /\ PushBack(s, d)[Len(s) + 1] = d
<1>0. Len(s) \in Nat /\ SizeMod \in Nat
  BY BaseFacts, LenProperties
<1>1. /\ Append(s, d) \in Seq(Symbol) /\ Len(Append(s, d)) = Len(s) + 1
      /\ \A i \in 1 .. Len(s) : Append(s, d)[i] = s[i]
      /\ Append(s, d)[Len(s) + 1] = d
  BY AppendProperties
<1>2. PushBack(s, d) = Sized(Append(s, d))
  BY DEF PushBack
<1>3. ~ Room(s) => Len(Append(s, d)) = SizeMod
  BY <1>0, <1>1 DEF Room
<1>4. Room(s) => Len(Append(s, d)) < SizeMod
  BY <1>1 DEF Room
<1> HIDE DEF Room
<1> QED
  BY <1>1, <1>2, <1>3, <1>4, SizedIs

\* A further symbol is the next digit, and no further symbol is a zero.
LEMMA ValuePushed ==
    ASSUME NEW s \in Seq(Symbol), NEW t \in Seq(Symbol), NEW n \in Nat, n = Len(s),
           Len(t) = n + 1, \A i \in 1 .. n : t[i] = s[i]
    PROVE  /\ Value(t, n + 1) = Base * Value(s, n) + t[n + 1]
           /\ Value(s, n + 1) = Base * Value(s, n)
<1>1. Value(t, n) = Value(s, n)
  <2>1. \A i \in 1 .. n : Digit(t, i) = Digit(s, i)
    <3>1. ASSUME NEW i \in 1 .. n
          PROVE  Digit(t, i) = Digit(s, i)
      <4>1. i \in Int /\ i \in 1 .. Len(s) /\ i \in 1 .. Len(t)
        OBVIOUS
      <4>2. Digit(t, i) = t[i] /\ Digit(s, i) = s[i]
        BY <4>1, DigitType
      <4> QED
        BY <4>2
    <3> QED
      BY <3>1
  <2> QED
    BY <2>1, SameDigits
<1>2. n + 1 \in Int /\ n + 1 \in 1 .. Len(t) /\ n + 1 \notin 1 .. Len(s)
  OBVIOUS
<1>3. Digit(t, n + 1) = t[n + 1] /\ Digit(s, n + 1) = 0
  BY <1>2, DigitType
<1>4. Value(s, n) \in Nat
  BY ValueSteps
<1>5. Base * Value(s, n) \in Nat
  BY <1>4, BaseFacts
<1>6. /\ Value(t, n + 1) = Base * Value(t, n) + Digit(t, n + 1)
      /\ Value(s, n + 1) = Base * Value(s, n) + Digit(s, n + 1)
  BY ValueSteps
<1> QED
  BY <1>1, <1>3, <1>5, <1>6

\* Only zeros are the number zero.
LEMMA ZeroDigits ==
    ASSUME NEW s \in Seq(Symbol), NEW n \in Nat, n = Len(s)
    PROVE  (\A i \in 1 .. n : s[i] = 0) <=> Value(s, n) = 0
<1> DEFINE T == {k \in Nat : k <= n => (Value(s, k) = 0 <=> \A i \in 1 .. k : s[i] = 0)}
<1>1. 0 \in T
  BY ValueSteps
<1>2. ASSUME NEW k \in Nat, k \in T
      PROVE  k + 1 \in T
  <2>1. CASE k + 1 <= n
    <3>1. k + 1 \in 1 .. Len(s) /\ k + 1 \in Int /\ k <= n
      BY <2>1
    <3>2. Digit(s, k + 1) = s[k + 1] /\ s[k + 1] \in Nat
      BY <3>1, DigitType
    <3>3. Value(s, k) \in Nat /\ Value(s, k + 1) = Base * Value(s, k) + s[k + 1]
      BY <3>2, ValueSteps
    <3>4. Value(s, k + 1) = 0 <=> Value(s, k) = 0 /\ s[k + 1] = 0
      <4> DEFINE v == Value(s, k)
      <4>1. v = 0 => Base * v = 0
        BY BaseFacts
      <4>2. v # 0 => Base * v > 0
        BY <3>3, BaseFacts
      <4>3. v = 0 \/ v # 0
        OBVIOUS
      <4>4. Base * v \in Nat
        BY <3>3, BaseFacts
      <4> QED
        BY <3>2, <3>3, <4>1, <4>2, <4>4
    <3>5. (\A i \in 1 .. k + 1 : s[i] = 0) <=> (\A i \in 1 .. k : s[i] = 0) /\ s[k + 1] = 0
      OBVIOUS
    <3> QED
      BY <1>2, <3>1, <3>4, <3>5
  <2>2. CASE ~ (k + 1 <= n)
    BY <2>2
  <2> QED
    BY <2>1, <2>2
<1>3. n \in T
  <2> HIDE DEF T
  <2> QED
    BY <1>1, <1>2, NumbersBySteps
<1> QED
  BY <1>3

-----------------------------------------------------------------------------
(* The next position *)

\* All digits behind i are full.
Carried(p, i) == \A j \in i + 1 .. Len(p) : p[j] = FULL_SYMBOL

\* The digits after the carry.
Sum(p) ==
    [i \in DOMAIN p |-> IF Carried(p, i) THEN (p[i] + 1) % Base ELSE p[i]]

LEMMA SumType ==
    ASSUME NEW p \in Seq(Symbol)
    PROVE  /\ Sum(p) \in Seq(Symbol) /\ Len(Sum(p)) = Len(p)
           /\ \A i \in 1 .. Len(p) :
                 Sum(p)[i] = IF Carried(p, i)
                             THEN IF p[i] = FULL_SYMBOL THEN 0 ELSE p[i] + 1
                             ELSE p[i]
<1> DEFINE n == Len(p)
<1>1. n \in Nat /\ DOMAIN p = 1 .. n /\ \A i \in 1 .. n : p[i] \in Symbol
  BY LenProperties, ElementOfSeq
<1>2. \A i \in 1 .. n :
         Sum(p)[i] = IF Carried(p, i)
                     THEN IF p[i] = FULL_SYMBOL THEN 0 ELSE p[i] + 1
                     ELSE p[i]
  BY <1>1, SymbolSteps DEF Sum
<1>3. \A i \in 1 .. n : Sum(p)[i] \in Symbol
  BY <1>1, <1>2, BaseFacts DEF Symbol
<1>4. Sum(p) = [i \in 1 .. n |-> Sum(p)[i]]
  BY <1>1 DEF Sum
<1>5. Sum(p) \in [1 .. n -> Symbol]
  BY <1>3, <1>4
<1>6. Sum(p) \in Seq(Symbol) /\ Len(Sum(p)) = n
  BY <1>1, <1>5, IsASeq, LenProperties
<1> QED
  BY <1>2, <1>6

LEMMA CarriedStep ==
    ASSUME NEW p \in Seq(Symbol), NEW i \in Nat, i + 1 <= Len(p)
    PROVE  Carried(p, i) <=> Carried(p, i + 1) /\ p[i + 1] = FULL_SYMBOL
BY LenProperties DEF Carried

\* The loop adds one unit in the last place, unless all digits are full.
LEMMA SumAddsOne ==
    ASSUME NEW p \in Seq(Symbol), NEW n \in Nat, n = Len(p), ~ Carried(p, 0)
    PROVE  Value(Sum(p), n) = Value(p, n) + 1
<1> DEFINE s == Sum(p)
           T == {k \in Nat : k <= n =>
                    Value(s, k) = IF Carried(p, k) THEN Value(p, k) + 1 ELSE Value(p, k)}
<1>0. s \in Seq(Symbol) /\ Len(s) = n
  BY SumType
<1> HIDE DEF s
<1>1. 0 \in T
  BY <1>0, ValueSteps
<1>2. ASSUME NEW k \in Nat, k \in T
      PROVE  k + 1 \in T
  <2>1. CASE k + 1 <= n
    <3> DEFINE l == k + 1
    <3>1. l \in 1 .. n /\ l \in Int /\ k <= n /\ l \in 1 .. Len(s) /\ l \in 1 .. Len(p)
      BY <1>0, <2>1
    <3> HIDE DEF l
    <3>2. Digit(s, l) = s[l] /\ Digit(p, l) = p[l] /\ p[l] \in Nat /\ s[l] \in Nat
      BY <1>0, <3>1, DigitType
    <3>3. /\ Value(s, k + 1) = Base * Value(s, k) + Digit(s, k + 1)
          /\ Value(p, k + 1) = Base * Value(p, k) + Digit(p, k + 1)
          /\ Value(p, k) \in Nat
      BY <1>0, ValueSteps
    <3>4. s[l] = IF Carried(p, l) THEN IF p[l] = FULL_SYMBOL THEN 0 ELSE p[l] + 1
                 ELSE p[l]
      BY <3>1, SumType DEF s
    <3>5. Value(s, k) = IF Carried(p, k) THEN Value(p, k) + 1 ELSE Value(p, k)
      BY <1>2, <3>1
    <3>6. Carried(p, k) <=> Carried(p, l) /\ p[l] = FULL_SYMBOL
      BY <2>1, CarriedStep DEF l
    <3>7. Base * (Value(p, k) + 1) = Base * Value(p, k) + Base
          /\ Base * Value(p, k) \in Nat
      BY <3>3, BaseFacts
    <3>8. Value(s, l) = IF Carried(p, l) THEN Value(p, l) + 1 ELSE Value(p, l)
      <4>0. Value(s, l) = Base * Value(s, k) + s[l]
            /\ Value(p, l) = Base * Value(p, k) + p[l]
        BY <3>2, <3>3 DEF l
      <4>1. CASE Carried(p, l) /\ p[l] = FULL_SYMBOL
        BY <3>2, <3>4, <3>5, <3>6, <3>7, <4>0, <4>1, BaseFacts
      <4>2. CASE Carried(p, l) /\ p[l] # FULL_SYMBOL
        BY <3>2, <3>4, <3>5, <3>6, <3>7, <4>0, <4>2
      <4>3. CASE ~ Carried(p, l)
        BY <3>4, <3>5, <3>6, <4>0, <4>3
      <4> QED
        BY <4>1, <4>2, <4>3
    <3> QED
      BY <3>8 DEF l
  <2>2. CASE ~ (k + 1 <= n)
    BY <2>2
  <2> QED
    BY <2>1, <2>2
<1>3. n \in T
  <2> HIDE DEF T
  <2> QED
    BY <1>1, <1>2, NumbersBySteps
<1>4. Carried(p, n)
  BY DEF Carried
<1> QED
  BY <1>3, <1>4 DEF s

\* after() either adds the unit or, where all digits are full, one symbol.
LEMMA AfterIs ==
    ASSUME NEW p \in Seq(Symbol), Len(p) < SizeMod
    PROVE  /\ Carried(p, 0) => After(p) = PushBack(p, HIGH_BIT)
           /\ ~ Carried(p, 0) => After(p) = Sum(p)
<1> DEFINE n == Len(p)
<1>0. n \in Nat /\ DOMAIN p = 1 .. n /\ \A i \in 1 .. n : p[i] \in Symbol
  BY LenProperties, ElementOfSeq
<1>1. Sum(p) \in Seq(Symbol) /\ Len(Sum(p)) = n
      /\ \A i \in 1 .. n :
            Sum(p)[i] = IF Carried(p, i)
                        THEN IF p[i] = FULL_SYMBOL THEN 0 ELSE p[i] + 1
                        ELSE p[i]
  BY SumType
<1>2. After(p) = IF \A i \in DOMAIN p : Sum(p)[i] = 0
                 THEN PushBack([i \in DOMAIN p |-> FULL_SYMBOL], HIGH_BIT)
                 ELSE Sized(Sum(p))
  BY DEF After, Sum, Carried
<1>3. ASSUME Carried(p, 0)
      PROVE  After(p) = PushBack(p, HIGH_BIT)
  <2>1. \A i \in 1 .. n : p[i] = FULL_SYMBOL /\ Carried(p, i)
    BY <1>0, <1>3 DEF Carried
  <2>2. \A i \in 1 .. n : Sum(p)[i] = 0
    BY <1>1, <2>1
  <2>3. p = [i \in DOMAIN p |-> FULL_SYMBOL]
    <3>1. p = [i \in 1 .. n |-> p[i]]
      BY <1>0, LenProperties
    <3> QED
      BY <1>0, <2>1, <3>1
  <2> QED
    BY <1>0, <1>2, <2>2, <2>3
<1>4. ASSUME ~ Carried(p, 0)
      PROVE  After(p) = Sum(p)
  <2>1. Value(Sum(p), n) = Value(p, n) + 1 /\ Value(p, n) \in Nat
    BY <1>0, <1>4, SumAddsOne, ValueSteps
  <2>2. ~ \A i \in 1 .. n : Sum(p)[i] = 0
    BY <1>0, <1>1, <2>1, ZeroDigits
  <2> QED
    BY <1>0, <1>1, <1>2, <2>2, SizedIs
<1> QED
  BY <1>3, <1>4

\* after() as the number it makes.
LEMMA AfterValue ==
    ASSUME NEW p \in Seq(Symbol), Len(p) < SizeMod, p # <<>>
    PROVE  /\ After(p) \in Seq(Symbol) /\ Len(After(p)) < SizeMod
           /\ After(p) # <<>> => \E i \in 1 .. Len(After(p)) : After(p)[i] # 0
           /\ Room(p) =>
                 /\ Len(After(p)) <= Len(p) + 1
                 /\ Value(After(p), Len(p) + 1) =
                        Value(p, Len(p) + 1)
                            + IF Len(After(p)) = Len(p) THEN Base ELSE HIGH_BIT
<1> DEFINE n == Len(p)
<1>0. n \in Nat /\ Value(p, n) \in Nat
  <2>1. n \in Nat
    BY LenProperties
  <2> QED
    BY <2>1, ValueSteps
<1>1. CASE Carried(p, 0)
  <2> DEFINE a == PushBack(p, HIGH_BIT)
  <2>1. After(p) = a
    BY <1>1, AfterIs
  <2>2. /\ a \in Seq(Symbol) /\ Len(a) < SizeMod
        /\ ~ Room(p) => a = <<>>
        /\ Room(p) => Len(a) = n + 1 /\ (\A i \in 1 .. n : a[i] = p[i])
                      /\ a[n + 1] = HIGH_BIT
    BY PushBackIs, BaseFacts
  <2> HIDE DEF a
  <2>3. Room(p) => /\ Value(a, n + 1) = Base * Value(p, n) + HIGH_BIT
                   /\ Value(p, n + 1) = Base * Value(p, n)
    BY <1>0, <2>2, ValuePushed
  <2>4. a # <<>> => \E i \in 1 .. Len(a) : a[i] # 0
    BY <1>0, <2>2, BaseFacts
  <2>5. Room(p) => Len(a) <= n + 1 /\ Len(a) # n
    BY <1>0, <2>2
  <2> QED
    BY <1>0, <2>1, <2>2, <2>3, <2>4, <2>5
<1>2. CASE ~ Carried(p, 0)
  <2> DEFINE a == Sum(p)
  <2>1. After(p) = a
    BY <1>2, AfterIs
  <2>2. a \in Seq(Symbol) /\ Len(a) = n
    BY SumType
  <2>3. Value(a, n) = Value(p, n) + 1
    BY <1>0, <1>2, SumAddsOne
  <2> HIDE DEF a
  <2>4. Value(a, n) # 0
    BY <1>0, <2>3
  <2>5. \E i \in 1 .. Len(a) : a[i] # 0
    BY <1>0, <2>2, <2>4, ZeroDigits
  <2>6. Value(a, n + 1) = Value(p, n + 1) + Base
    <3>1. n + 1 \in Int /\ n + 1 \notin 1 .. Len(p) /\ n + 1 \notin 1 .. Len(a)
      BY <1>0, <2>2
    <3>2. Digit(p, n + 1) = 0 /\ Digit(a, n + 1) = 0
      BY <2>2, <3>1, DigitType
    <3>3. /\ Value(a, n + 1) = Base * Value(a, n) + Digit(a, n + 1)
          /\ Value(p, n + 1) = Base * Value(p, n) + Digit(p, n + 1)
      BY <1>0, <2>2, ValueSteps
    <3>4. Base * (Value(p, n) + 1) = Base * Value(p, n) + Base
          /\ Base * Value(p, n) \in Nat
      BY <1>0, BaseFacts
    <3> QED
      BY <2>3, <3>2, <3>3, <3>4, BaseFacts
  <2> QED
    BY <1>0, <2>1, <2>2, <2>5, <2>6
<1> QED
  BY <1>1, <1>2

-----------------------------------------------------------------------------
(* The position before *)

\* All digits behind i are zero.
Borrowed(p, i) == \A j \in i + 1 .. Len(p) : p[j] = 0

\* The digits after the borrow.
Difference(p) ==
    [i \in DOMAIN p |-> IF Borrowed(p, i) THEN (p[i] - 1) % Base ELSE p[i]]

LEMMA DifferenceType ==
    ASSUME NEW p \in Seq(Symbol)
    PROVE  /\ Difference(p) \in Seq(Symbol) /\ Len(Difference(p)) = Len(p)
           /\ \A i \in 1 .. Len(p) :
                 Difference(p)[i] = IF Borrowed(p, i)
                                    THEN IF p[i] = 0 THEN FULL_SYMBOL ELSE p[i] - 1
                                    ELSE p[i]
<1> DEFINE n == Len(p)
<1>1. n \in Nat /\ DOMAIN p = 1 .. n /\ \A i \in 1 .. n : p[i] \in Symbol
  BY LenProperties, ElementOfSeq
<1>2. \A i \in 1 .. n :
         Difference(p)[i] = IF Borrowed(p, i)
                            THEN IF p[i] = 0 THEN FULL_SYMBOL ELSE p[i] - 1
                            ELSE p[i]
  BY <1>1, SymbolSteps DEF Difference
<1>3. \A i \in 1 .. n : Difference(p)[i] \in Symbol
  BY <1>1, <1>2, BaseFacts DEF Symbol
<1>4. Difference(p) = [i \in 1 .. n |-> Difference(p)[i]]
  BY <1>1 DEF Difference
<1>5. Difference(p) \in [1 .. n -> Symbol]
  BY <1>3, <1>4
<1>6. Difference(p) \in Seq(Symbol) /\ Len(Difference(p)) = n
  BY <1>1, <1>5, IsASeq, LenProperties
<1> QED
  BY <1>2, <1>6

LEMMA BorrowedStep ==
    ASSUME NEW p \in Seq(Symbol), NEW i \in Nat, i + 1 <= Len(p)
    PROVE  Borrowed(p, i) <=> Borrowed(p, i + 1) /\ p[i + 1] = 0
BY LenProperties DEF Borrowed

\* The loop takes one unit in the last place away, unless there is none.
LEMMA DifferenceTakesOne ==
    ASSUME NEW p \in Seq(Symbol), NEW n \in Nat, n = Len(p), ~ Borrowed(p, 0)
    PROVE  Value(p, n) = Value(Difference(p), n) + 1
<1> DEFINE s == Difference(p)
           T == {k \in Nat : k <= n =>
                    Value(p, k) = IF Borrowed(p, k) THEN Value(s, k) + 1 ELSE Value(s, k)}
<1>0. s \in Seq(Symbol) /\ Len(s) = n
  BY DifferenceType
<1> HIDE DEF s
<1>1. 0 \in T
  BY <1>0, ValueSteps
<1>2. ASSUME NEW k \in Nat, k \in T
      PROVE  k + 1 \in T
  <2>1. CASE k + 1 <= n
    <3> DEFINE l == k + 1
    <3>1. l \in 1 .. n /\ l \in Int /\ k <= n /\ l \in 1 .. Len(s) /\ l \in 1 .. Len(p)
      BY <1>0, <2>1
    <3> HIDE DEF l
    <3>2. Digit(s, l) = s[l] /\ Digit(p, l) = p[l] /\ p[l] \in Nat /\ s[l] \in Nat
      BY <1>0, <3>1, DigitType
    <3>3. /\ Value(s, k + 1) = Base * Value(s, k) + Digit(s, k + 1)
          /\ Value(p, k + 1) = Base * Value(p, k) + Digit(p, k + 1)
          /\ Value(s, k) \in Nat
      BY <1>0, ValueSteps
    <3>4. s[l] = IF Borrowed(p, l) THEN IF p[l] = 0 THEN FULL_SYMBOL ELSE p[l] - 1
                 ELSE p[l]
      BY <3>1, DifferenceType DEF s
    <3>5. Value(p, k) = IF Borrowed(p, k) THEN Value(s, k) + 1 ELSE Value(s, k)
      BY <1>2, <3>1
    <3>6. Borrowed(p, k) <=> Borrowed(p, l) /\ p[l] = 0
      BY <2>1, BorrowedStep DEF l
    <3>7. Base * (Value(s, k) + 1) = Base * Value(s, k) + Base
          /\ Base * Value(s, k) \in Nat
      BY <3>3, BaseFacts
    <3>8. Value(p, l) = IF Borrowed(p, l) THEN Value(s, l) + 1 ELSE Value(s, l)
      <4>0. Value(s, l) = Base * Value(s, k) + s[l]
            /\ Value(p, l) = Base * Value(p, k) + p[l]
        BY <3>2, <3>3 DEF l
      <4>1. CASE Borrowed(p, l) /\ p[l] = 0
        BY <3>2, <3>4, <3>5, <3>6, <3>7, <4>0, <4>1, BaseFacts
      <4>2. CASE Borrowed(p, l) /\ p[l] # 0
        BY <3>2, <3>4, <3>5, <3>6, <3>7, <4>0, <4>2
      <4>3. CASE ~ Borrowed(p, l)
        BY <3>4, <3>5, <3>6, <4>0, <4>3
      <4> QED
        BY <4>1, <4>2, <4>3
    <3> QED
      BY <3>8 DEF l
  <2>2. CASE ~ (k + 1 <= n)
    BY <2>2
  <2> QED
    BY <2>1, <2>2
<1>3. n \in T
  <2> HIDE DEF T
  <2> QED
    BY <1>1, <1>2, NumbersBySteps
<1>4. Borrowed(p, n)
  BY DEF Borrowed
<1> QED
  BY <1>3, <1>4 DEF s

\* before() either takes the unit away or, where that leaves zero, half of it.
LEMMA BeforeValue ==
    ASSUME NEW p \in Seq(Symbol), Len(p) < SizeMod, \E i \in 1 .. Len(p) : p[i] # 0
    PROVE  /\ Before(p) \in Seq(Symbol) /\ Len(Before(p)) < SizeMod
           /\ Before(p) # <<>> => \E i \in 1 .. Len(Before(p)) : Before(p)[i] # 0
           /\ Room(p) =>
                 /\ Len(Before(p)) <= Len(p) + 1
                 /\ Value(p, Len(p) + 1) =
                        Value(Before(p), Len(p) + 1)
                            + IF Len(Before(p)) = Len(p) THEN Base ELSE HIGH_BIT
<1> DEFINE n == Len(p)
           d == Difference(p)
<1>0. n \in Nat /\ DOMAIN p = 1 .. n
  BY LenProperties
<1>1. d \in Seq(Symbol) /\ Len(d) = n
  BY DifferenceType
<1>2. Decremented(p) = d
  <2>1. Decremented(p) = Sized(d)
    BY DEF Decremented, Difference, Borrowed
  <2> QED
    BY <1>1, <2>1, SizedIs
<1>3. Before(p) = IF \A i \in 1 .. n : d[i] = 0 THEN PushBack(d, HIGH_BIT) ELSE d
  BY <1>0, <1>2 DEF Before
<1>4. ~ Borrowed(p, 0)
  BY <1>0 DEF Borrowed
<1>5. Value(p, n) = Value(d, n) + 1 /\ Value(d, n) \in Nat
  BY <1>0, <1>1, <1>4, DifferenceTakesOne, ValueSteps
<1> HIDE DEF d
<1>6. Value(p, n + 1) = Base * Value(d, n) + Base /\ Base * Value(d, n) \in Nat
  <2>1. n + 1 \in Int /\ n + 1 \notin 1 .. Len(p)
    BY <1>0
  <2>2. Digit(p, n + 1) = 0
    BY <2>1, DigitType
  <2>3. Value(p, n + 1) = Base * Value(p, n) + Digit(p, n + 1)
    BY <1>0, ValueSteps
  <2>4. Base * (Value(d, n) + 1) = Base * Value(d, n) + Base
        /\ Base * Value(d, n) \in Nat
    BY <1>5, BaseFacts
  <2> QED
    BY <1>5, <2>2, <2>3, <2>4, BaseFacts
<1>7. CASE \A i \in 1 .. n : d[i] = 0
  <2> DEFINE a == PushBack(d, HIGH_BIT)
  <2>1. Before(p) = a
    BY <1>3, <1>7
  <2>2. /\ a \in Seq(Symbol) /\ Len(a) < SizeMod
        /\ ~ Room(d) => a = <<>>
        /\ Room(d) => Len(a) = n + 1 /\ (\A i \in 1 .. n : a[i] = d[i])
                      /\ a[n + 1] = HIGH_BIT
    <3>1. Len(d) < SizeMod /\ Len(d) = n /\ HIGH_BIT \in Symbol
      BY <1>1, BaseFacts
    <3>2. /\ a \in Seq(Symbol) /\ Len(a) < SizeMod
          /\ ~ Room(d) => a = <<>>
          /\ Room(d) => Len(a) = Len(d) + 1 /\ (\A i \in 1 .. Len(d) : a[i] = d[i])
                        /\ a[Len(d) + 1] = HIGH_BIT
      BY <1>1, <3>1, PushBackIs
    <3> HIDE DEF a, n
    <3> QED
      BY <3>1, <3>2
  <2>3. Room(p) <=> Room(d)
    BY <1>1 DEF Room
  <2> HIDE DEF a
  <2>4. Room(p) => Value(a, n + 1) = Base * Value(d, n) + HIGH_BIT
    BY <1>0, <1>1, <2>2, <2>3, ValuePushed
  <2>5. a # <<>> => \E i \in 1 .. Len(a) : a[i] # 0
    BY <1>0, <2>2, BaseFacts
  <2>6. Room(p) => Len(a) <= n + 1 /\ Len(a) # n
    <3>1. Room(p) => Len(a) = n + 1
      BY <2>2, <2>3
    <3>2. Len(a) = n + 1 => Len(a) <= n + 1 /\ Len(a) # n
      <4>1. n \in Nat
        BY <1>0
      <4> HIDE DEF n
      <4> QED
        BY <4>1
    <3> QED
      BY <3>1, <3>2
  <2>7. Room(p) => Value(p, n + 1) = Value(a, n + 1) + HIGH_BIT
    <3> DEFINE b == Base * Value(d, n)
    <3>1. b + Base = (b + HIGH_BIT) + HIGH_BIT
      BY <1>6, BaseFacts
    <3> HIDE DEF b
    <3>2. Value(p, n + 1) = b + Base /\ (Room(p) => Value(a, n + 1) = b + HIGH_BIT)
      BY <1>6, <2>4 DEF b
    <3> QED
      BY <3>1, <3>2
  <2> QED
    BY <2>1, <2>2, <2>5, <2>6, <2>7
<1>8. CASE ~ \A i \in 1 .. n : d[i] = 0
  <2>1. Before(p) = d
    BY <1>3, <1>8
  <2>2. n + 1 \in Int /\ n + 1 \notin 1 .. Len(d)
    BY <1>0, <1>1
  <2>3. Digit(d, n + 1) = 0
    BY <1>1, <2>2, DigitType
  <2>4. Value(d, n + 1) = Base * Value(d, n) + Digit(d, n + 1)
    BY <1>0, <1>1, ValueSteps
  <2>5. Value(p, n + 1) = Value(d, n + 1) + Base
    BY <1>6, <2>3, <2>4, BaseFacts
  <2> QED
    BY <1>0, <1>1, <1>8, <2>1, <2>5
<1> QED
  BY <1>7, <1>8
-----------------------------------------------------------------------------
(* The position between *)

\* Half a digit, without the bit that falls out of it and with the one that
\* falls out of the digit on its left.
LEMMA HalfIs ==
    ASSUME NEW p \in Seq(Symbol), NEW i \in Int
    PROVE  /\ Half(p, i) \in Nat
           /\ Digit(p, i) % 2 \in {0, 1}
           /\ 2 * Half(p, i) = (Digit(p, i) - (Digit(p, i) % 2)) + Base * (Digit(p, i - 1) % 2)
           /\ Half(p, i) <= Base - 1
           /\ Digit(p, i - 1) = 0 => Half(p, i) <= HIGH_BIT - 1
<1> DEFINE d == Digit(p, i)
           e == Digit(p, i - 1)
<1>1. d \in Nat /\ d <= Base - 1 /\ e \in Nat
  <2>1. d \in Symbol /\ e \in Symbol
    BY DigitType
  <2> QED
    BY <2>1, BaseFacts DEF Symbol
<1>2. Half(p, i) = d \div 2 + HIGH_BIT * (e % 2)
  BY DEF Half
<1> HIDE DEF d, e
<1>3. /\ d \div 2 \in Nat /\ d % 2 \in {0, 1} /\ e % 2 \in {0, 1}
      /\ 2 * (d \div 2) = d - (d % 2)
  BY <1>1
<1>4. d \div 2 <= HIGH_BIT - 1
  BY <1>1, <1>3, BaseFacts
<1>5. e = 0 => e % 2 = 0
  OBVIOUS
<1>6. CASE e % 2 = 0
  BY <1>2, <1>3, <1>4, <1>6, BaseFacts DEF d, e
<1>7. CASE e % 2 = 1
  <2>1. HIGH_BIT * (e % 2) = HIGH_BIT /\ Base * (e % 2) = Base
    BY <1>7, BaseFacts
  <2> QED
    BY <1>2, <1>3, <1>4, <1>5, <1>7, <2>1, BaseFacts DEF d, e
<1> QED
  BY <1>3, <1>6, <1>7

LEMMA Division ==
    ASSUME NEW a \in Nat
    PROVE  /\ a \div Base \in Nat /\ a % Base \in Symbol
           /\ a = Base * (a \div Base) + (a % Base)
           /\ a < Base => a \div Base = 0
           /\ a < 2 * Base => a \div Base \in {0, 1}
<1>0. Base \in Nat /\ Base >= 2 /\ Symbol = 0 .. Base - 1
  BY BaseFacts DEF Symbol
<1>1. a \div Base \in Nat /\ a % Base \in Symbol /\ a = Base * (a \div Base) + (a % Base)
  BY <1>0
<1>2. a < Base => a \div Base = 0
  BY <1>0
<1>3. a < 2 * Base => a \div Base \in {0, 1}
  <2> DEFINE x == a \div Base
  <2>1. x \in Nat /\ a >= Base * x
    BY <1>0, <1>1
  <2> HIDE DEF x
  <2>2. x >= 2 => Base * x >= 2 * Base
    BY <1>0, <2>1
  <2>3. a < 2 * Base => x < 2
    BY <1>0, <2>1, <2>2
  <2> QED
    BY <2>1, <2>3 DEF x
<1> QED
  BY <1>1, <1>2, <1>3

\* What the addition of two halves carries out of the digits.
Carries(c, p, q, n) ==
    /\ MeanDigits(p, q, n) = [i \in 1 .. n |-> (Half(p, i) + Half(q, i) + c[i]) % Base]
    /\ c[n] = 0
    /\ \A i \in 0 .. n : c[i] \in {0, 1}
    /\ \A i \in 1 .. n : c[i - 1] = (Half(p, i) + Half(q, i) + c[i]) \div Base
    /\ n > 0 => c[0] = 0

LEMMA CarryIs ==
    ASSUME NEW p \in Seq(Symbol), NEW q \in Seq(Symbol), NEW n \in Nat
    PROVE  \E c : Carries(c, p, q, n)
<1> DEFINE h(i) == Half(p, i) + Half(q, i)
           next == [x \in Nat \X Nat |-> (h(n - x[1]) + x[2]) \div Base]
           c == CHOOSE f : f = [i \in 0 .. n |->
                    IF i = n THEN 0
                    ELSE (Half(p, i + 1) + Half(q, i + 1) + f[i + 1]) \div Base]
<1>0. \A i \in Int : h(i) \in Nat /\ h(i) <= (2 * Base) - 2
  <2>1. ASSUME NEW i \in Int
        PROVE  h(i) \in Nat /\ h(i) <= (2 * Base) - 2
    <3> DEFINE a == Half(p, i)
               b == Half(q, i)
    <3>1. a \in Nat /\ b \in Nat /\ a <= Base - 1 /\ b <= Base - 1
      BY HalfIs
    <3> HIDE DEF a, b
    <3>2. a + b \in Nat /\ a + b <= (2 * Base) - 2
      BY <3>1, BaseFacts
    <3> QED
      BY <3>2 DEF a, b
  <2> QED
    BY <2>1
<1>1. next \in [Nat \X Nat -> Nat]
  <2>1. ASSUME NEW x \in Nat \X Nat
        PROVE  (h(n - x[1]) + x[2]) \div Base \in Nat
    <3>1. x[1] \in Nat /\ x[2] \in Nat /\ n - x[1] \in Int
      OBVIOUS
    <3> HIDE DEF h
    <3>2. h(n - x[1]) \in Nat
      BY <1>0, <3>1
    <3>3. h(n - x[1]) + x[2] \in Nat
      BY <3>1, <3>2
    <3> QED
      BY <3>3, Division
  <2> QED
    BY <2>1
<1>2. PICK g : Iterates(g, Nat, 0, next)
  <2> HIDE DEF next
  <2> QED
    BY <1>1, NumberRecursion
<1>3. g[0] = 0 /\ \A k \in Nat : g[k + 1] = (h(n - k) + g[k]) \div Base
  BY <1>2 DEF Iterates
<1> HIDE DEF next
\* The recursive definition has a solution, which c therefore is.
<1>4. c = [i \in 0 .. n |->
              IF i = n THEN 0
              ELSE (Half(p, i + 1) + Half(q, i + 1) + c[i + 1]) \div Base]
  <2> DEFINE f == [i \in 0 .. n |-> g[n - i]]
  <2>1. f = [i \in 0 .. n |->
                IF i = n THEN 0
                ELSE (Half(p, i + 1) + Half(q, i + 1) + f[i + 1]) \div Base]
    <3>1. ASSUME NEW i \in 0 .. n
          PROVE  g[n - i] = IF i = n THEN 0
                            ELSE (Half(p, i + 1) + Half(q, i + 1) + f[i + 1]) \div Base
      <4>1. CASE i = n
        BY <1>3, <4>1
      <4>2. CASE i # n
        <5> DEFINE k == n - (i + 1)
        <5>1. k \in Nat /\ n - i = k + 1 /\ n - k = i + 1 /\ i + 1 \in 0 .. n
          BY <4>2
        <5>2. f[i + 1] = g[k]
          BY <5>1
        <5> HIDE DEF k, f
        <5>3. g[k + 1] = (h(n - k) + g[k]) \div Base
          BY <1>3, <5>1
        <5> QED
          BY <4>2, <5>1, <5>2, <5>3
      <4> QED
        BY <4>1, <4>2
    <3> QED
      BY <3>1
  <2> HIDE DEF f
  <2> QED
    BY <2>1
<1>5. MeanDigits(p, q, n) =
         [i \in 1 .. n |-> (Half(p, i) + Half(q, i) + c[i]) % Base]
  BY DEF MeanDigits
<1> HIDE DEF c
<1>6. c[n] = 0
  BY <1>4
<1>7. \A i \in 1 .. n : c[i - 1] = (h(i) + c[i]) \div Base
  <2>1. ASSUME NEW i \in 1 .. n
        PROVE  c[i - 1] = (h(i) + c[i]) \div Base
    <3>1. i - 1 \in 0 .. n /\ i - 1 # n /\ (i - 1) + 1 = i
      OBVIOUS
    <3>2. \A j \in 0 .. n : j # n =>
             c[j] = (Half(p, j + 1) + Half(q, j + 1) + c[j + 1]) \div Base
      BY <1>4
    <3>3. c[i - 1] = (Half(p, (i - 1) + 1) + Half(q, (i - 1) + 1) + c[(i - 1) + 1]) \div Base
      BY <3>1, <3>2
    <3> QED
      BY <3>1, <3>3
  <2> QED
    BY <2>1
<1>8. \A i \in 0 .. n : c[i] \in {0, 1}
  <2> DEFINE T == {k \in Nat : k <= n => c[n - k] \in {0, 1}}
  <2>1. 0 \in T
    BY <1>6
  <2>2. ASSUME NEW k \in Nat, k \in T
        PROVE  k + 1 \in T
    <3>1. CASE k + 1 <= n
      <4> DEFINE i == n - k
      <4>1. i \in 1 .. n /\ i \in Int /\ n - (k + 1) = i - 1 /\ c[i] \in {0, 1}
        BY <2>2, <3>1
      <4> HIDE DEF i
      <4>2. h(i) \in Nat /\ h(i) <= (2 * Base) - 2
        BY <1>0, <4>1
      <4> HIDE DEF h
      <4>3. h(i) + c[i] \in Nat /\ h(i) + c[i] < 2 * Base
        BY <4>1, <4>2, BaseFacts
      <4>4. c[i - 1] \in {0, 1}
        BY <1>7, <4>1, <4>3, Division
      <4> QED
        BY <4>1, <4>4
    <3>2. CASE ~ (k + 1 <= n)
      BY <3>2
    <3> QED
      BY <3>1, <3>2
  <2>3. Nat \subseteq T
    <3> HIDE DEF T
    <3> QED
      BY <2>1, <2>2, NumbersBySteps
  <2>4. \A i \in 0 .. n : n - i \in Nat /\ n - i <= n /\ n - (n - i) = i
    OBVIOUS
  <2> QED
    BY <2>3, <2>4
\* No digit stands before the first, so that nothing is carried past it.
<1>9. n > 0 => c[0] = 0
  <2>1. ASSUME n > 0
        PROVE  c[0] = 0
    <3>1. 1 \in 1 .. n /\ 1 \in 0 .. n /\ 1 - 1 = 0 /\ 1 \in Int /\ 0 \in Int
          /\ 0 \notin 1 .. Len(p) /\ 0 \notin 1 .. Len(q)
      BY <2>1
    <3>2. Digit(p, 0) = 0 /\ Digit(q, 0) = 0
      BY <3>1, DigitType
    <3>3. Half(p, 1) \in Nat /\ Half(p, 1) <= HIGH_BIT - 1
      BY <3>1, <3>2, HalfIs
    <3>4. Half(q, 1) \in Nat /\ Half(q, 1) <= HIGH_BIT - 1
      BY <3>1, <3>2, HalfIs
    <3>5. h(1) + c[1] \in Nat /\ h(1) + c[1] < Base
      BY <1>8, <3>1, <3>3, <3>4, BaseFacts
    <3>6. c[0] = (h(1) + c[1]) \div Base
      BY <1>7, <3>1
    <3> QED
      BY <3>5, <3>6, Division
  <2> QED
    BY <2>1
<1>10. Carries(c, p, q, n)
  BY <1>5, <1>6, <1>7, <1>8, <1>9 DEF Carries
<1> QED
  BY <1>10

\* The digits of the mean are those of the mean of the numbers.
LEMMA MeanDigitsAreExact ==
    ASSUME NEW p \in Seq(Symbol), NEW q \in Seq(Symbol), NEW n \in Nat,
           Len(p) < n, Len(q) < n
    PROVE  /\ MeanDigits(p, q, n) \in Seq(Symbol) /\ Len(MeanDigits(p, q, n)) = n
           /\ 2 * Value(MeanDigits(p, q, n), n) = Value(p, n) + Value(q, n)
<1> DEFINE M == MeanDigits(p, q, n)
           out(s, i) == Digit(s, i) % 2
           h(i) == Half(p, i) + Half(q, i)
<1>0. n \in Nat /\ n > 0
  BY LenProperties
<1>c. PICK c : Carries(c, p, q, n)
  BY CarryIs
<1>1. /\ M = [i \in 1 .. n |-> (h(i) + c[i]) % Base]
      /\ c[n] = 0
      /\ \A i \in 0 .. n : c[i] \in {0, 1}
      /\ \A i \in 1 .. n : c[i - 1] = (h(i) + c[i]) \div Base
      /\ n > 0 => c[0] = 0
  BY <1>c DEF Carries
<1>2. ASSUME NEW i \in 1 .. n
      PROVE  /\ M[i] \in Symbol
             /\ h(i) + c[i] = Base * c[i - 1] + M[i]
  <2>1. Half(p, i) \in Nat /\ Half(q, i) \in Nat /\ c[i] \in Nat
    <3>1. i \in Int /\ i \in 0 .. n
      OBVIOUS
    <3>2. c[i] \in {0, 1}
      BY <1>1, <3>1
    <3>3. Half(p, i) \in Nat /\ Half(q, i) \in Nat
      BY <3>1, HalfIs
    <3> QED
      BY <3>2, <3>3
  <2>2. h(i) + c[i] \in Nat
    BY <2>1
  <2>3. M[i] = (h(i) + c[i]) % Base /\ c[i - 1] = (h(i) + c[i]) \div Base
    BY <1>1
  <2> HIDE DEF h, M
  <2> QED
    BY <2>2, <2>3, Division
<1>3. M \in Seq(Symbol) /\ Len(M) = n
  <2>1. M = [i \in 1 .. n |-> M[i]]
    BY <1>1
  <2> HIDE DEF M
  <2>2. M \in [1 .. n -> Symbol]
    BY <1>2, <2>1
  <2> QED
    BY <1>0, <2>2, IsASeq, LenProperties
<1> HIDE DEF M
<1> DEFINE T == {k \in Nat : k <= n =>
                    2 * Value(M, k) = (Value(p, k) - out(p, k)) + (Value(q, k) - out(q, k))
                                          + 2 * c[k]}
<1>4. \A s \in Seq(Symbol) : s = p \/ s = q => Digit(s, 0) = 0 /\ Digit(s, n) = 0
  <2>1. ASSUME NEW s \in Seq(Symbol), s = p \/ s = q
        PROVE  Digit(s, 0) = 0 /\ Digit(s, n) = 0
    <3>1. 0 \in Int /\ n \in Int /\ 0 \notin 1 .. Len(s) /\ n \notin 1 .. Len(s)
      BY <2>1, LenProperties
    <3> QED
      BY <3>1, DigitType
  <2> QED
    BY <2>1
<1>5. 0 \in T
  <2>1. out(p, 0) = 0 /\ out(q, 0) = 0
    BY <1>4
  <2>2. Value(M, 0) = 0 /\ Value(p, 0) = 0 /\ Value(q, 0) = 0 /\ c[0] = 0
    BY <1>0, <1>1, <1>3, ValueSteps
  <2> HIDE DEF out
  <2> QED
    BY <2>1, <2>2
<1>6. ASSUME NEW k \in Nat, k \in T
      PROVE  k + 1 \in T
  <2>1. CASE k + 1 <= n
    <3> DEFINE l == k + 1
    <3>1. l \in 1 .. n /\ l \in Int /\ k \in Int /\ k <= n /\ l \in 1 .. Len(M)
          /\ l - 1 = k /\ k \in 0 .. n /\ l \in 0 .. n
      BY <1>3, <2>1
    <3>2. /\ Value(M, k + 1) = Base * Value(M, k) + Digit(M, k + 1)
          /\ Value(p, k + 1) = Base * Value(p, k) + Digit(p, k + 1)
          /\ Value(q, k + 1) = Base * Value(q, k) + Digit(q, k + 1)
          /\ Value(M, k) \in Nat /\ Value(p, k) \in Nat /\ Value(q, k) \in Nat
      BY <1>3, ValueSteps
    <3> HIDE DEF l
    <3>3. Digit(M, l) = M[l] /\ M[l] \in Int
      <4>1. Digit(M, l) = M[l] /\ Digit(M, l) \in Nat
        BY <1>3, <3>1, DigitType
      <4> QED
        BY <4>1
    <3>4. /\ Half(p, l) \in Nat /\ out(p, l) \in {0, 1}
          /\ 2 * Half(p, l) = (Digit(p, l) - out(p, l)) + Base * (Digit(p, l - 1) % 2)
          /\ Half(q, l) \in Nat /\ out(q, l) \in {0, 1}
          /\ 2 * Half(q, l) = (Digit(q, l) - out(q, l)) + Base * (Digit(q, l - 1) % 2)
      BY <3>1, HalfIs
    <3>5. /\ 2 * Half(p, l) = (Digit(p, l) - out(p, l)) + Base * out(p, k)
          /\ 2 * Half(q, l) = (Digit(q, l) - out(q, l)) + Base * out(q, k)
      BY <3>1, <3>4
    <3>6. out(p, k) \in {0, 1} /\ out(q, k) \in {0, 1}
      BY <3>1, HalfIs
    <3>7. Half(p, l) + Half(q, l) + c[l] = Base * c[k] + M[l]
      BY <1>2, <3>1
    <3>8. Digit(p, l) \in Nat /\ Digit(q, l) \in Nat
      BY <3>1, DigitType
    <3>9. c[k] \in Int /\ c[l] \in Int
      <4>1. c[k] \in {0, 1} /\ c[l] \in {0, 1}
        BY <1>1, <3>1
      <4> QED
        BY <4>1
    <3>10. 2 * Value(M, k) = (Value(p, k) - out(p, k)) + (Value(q, k) - out(q, k))
                                 + 2 * c[k]
      BY <1>6, <3>1
    <3> HIDE DEF out
    <3>11. /\ out(p, k) \in Int /\ out(q, k) \in Int /\ out(p, l) \in Int /\ out(q, l) \in Int
           /\ Half(p, l) \in Int /\ Half(q, l) \in Int
           /\ Digit(p, l) \in Int /\ Digit(q, l) \in Int
           /\ Value(M, k) \in Int /\ Value(p, k) \in Int /\ Value(q, k) \in Int
      BY <3>2, <3>4, <3>6, <3>8
    <3>12. 2 * (Base * Value(M, k) + M[l])
               = ((Base * Value(p, k) + Digit(p, l)) - out(p, l))
                     + ((Base * Value(q, k) + Digit(q, l)) - out(q, l)) + 2 * c[l]
      <4> DEFINE v == Value(p, k)
                 w == Value(q, k)
                 m == Value(M, k)
                 a == out(p, k)
                 b == out(q, k)
                 d == Digit(p, l) - out(p, l)
                 e == Digit(q, l) - out(q, l)
                 x == Half(p, l)
                 y == Half(q, l)
                 c0 == c[k]
                 c1 == c[l]
                 z == M[l]
      <4>1. /\ v \in Int /\ w \in Int /\ m \in Int /\ a \in Int /\ b \in Int /\ d \in Int
            /\ e \in Int /\ x \in Int /\ y \in Int /\ c0 \in Int /\ c1 \in Int /\ z \in Int
        BY <3>3, <3>9, <3>11
      <4>2. /\ 2 * m = (v - a) + (w - b) + 2 * c0
            /\ 2 * x = d + Base * a
            /\ 2 * y = e + Base * b
            /\ x + y + c1 = Base * c0 + z
        BY <3>5, <3>7, <3>10
      <4>3. 2 * (Base * m + z) = (Base * v + d) + (Base * w + e) + 2 * c1
        <5> HIDE DEF v, w, m, a, b, d, e, x, y, c0, c1, z
        <5>1. 2 * (Base * m) = ((Base * v - Base * a) + (Base * w - Base * b)) + 2 * (Base * c0)
          BY <4>1, <4>2, BaseFacts
        <5>2. (2 * x + 2 * y) + 2 * c1 = 2 * (Base * c0) + 2 * z
          BY <4>1, <4>2, BaseFacts
        <5>3. /\ Base * v \in Int /\ Base * w \in Int /\ Base * a \in Int
              /\ Base * b \in Int /\ Base * c0 \in Int /\ Base * m \in Int
          BY <4>1, BaseFacts
        <5> DEFINE bv == Base * v
                   bw == Base * w
                   ba == Base * a
                   bb == Base * b
                   bc == Base * c0
                   bm == Base * m
        <5>4. 2 * (bm + z) = 2 * bm + 2 * z
          BY <4>1, <5>3
        <5>5. /\ 2 * bm = ((bv - ba) + (bw - bb)) + 2 * bc
              /\ (2 * x + 2 * y) + 2 * c1 = 2 * bc + 2 * z
              /\ 2 * x = d + ba /\ 2 * y = e + bb
              /\ bv \in Int /\ bw \in Int /\ ba \in Int /\ bb \in Int /\ bc \in Int
              /\ bm \in Int
          BY <4>2, <5>1, <5>2, <5>3
        <5> HIDE DEF bv, bw, ba, bb, bc, bm
        <5>6. 2 * bm + 2 * z = (bv + d) + (bw + e) + 2 * c1
          BY <4>1, <5>5
        <5> QED
          BY <5>4, <5>6 DEF bv, bw, bm
      <4>4. Base * v \in Int /\ Base * w \in Int
        <5> HIDE DEF v, w
        <5> QED
          BY <4>1, BaseFacts
      <4> QED
        BY <3>11, <4>1, <4>3, <4>4
    <3>13. 2 * Value(M, l) = (Value(p, l) - out(p, l)) + (Value(q, l) - out(q, l)) + 2 * c[l]
      BY <3>2, <3>3, <3>12 DEF l
    <3> QED
      BY <3>13 DEF l, out
  <2>2. CASE ~ (k + 1 <= n)
    BY <2>2
  <2> QED
    BY <2>1, <2>2
<1>7. n \in T
  <2> HIDE DEF T
  <2> QED
    BY <1>5, <1>6, NumbersBySteps
<1>8. out(p, n) = 0 /\ out(q, n) = 0
  BY <1>4
<1>9. 2 * Value(M, n) = Value(p, n) + Value(q, n)
  <2>1. 2 * Value(M, n) = (Value(p, n) - out(p, n)) + (Value(q, n) - out(q, n)) + 2 * c[n]
    BY <1>7
  <2>2. Value(p, n) \in Nat /\ Value(q, n) \in Nat
    BY ValueSteps
  <2> HIDE DEF out
  <2> QED
    BY <1>1, <1>8, <2>1, <2>2
<1> QED
  BY <1>3, <1>9 DEF M

\* The test for one more symbol holds of all symbols, so that between() always
\* takes one.
LEMMA BetweenIs ==
    ASSUME NEW p \in Seq(Symbol), NEW q \in Seq(Symbol)
    PROVE  Between(p, q) = Sized(MeanDigits(p, q, Larger(Len(p), Len(q)) + 1))
<1> DEFINE m == Larger(Len(p), Len(q))
<1>1. m \in Int
  <2>1. Len(p) \in Nat /\ Len(q) \in Nat
    BY LenProperties
  <2> QED
    BY <2>1, LargerIs
<1>2. Digit(p, m) \in Nat /\ Digit(q, m) \in Nat
  BY <1>1, DigitType
<1>3. NeedsSymbol(Digit(p, m), Digit(q, m))
  BY <1>2 DEF NeedsSymbol
<1> QED
  BY <1>3 DEF Between

\* between() as the number it makes.
LEMMA BetweenValue ==
    ASSUME NEW p \in Seq(Symbol), NEW q \in Seq(Symbol), NEW n \in Nat,
           Len(p) < SizeMod, Len(q) < SizeMod, n = Larger(Len(p), Len(q)) + 1,
           \E i \in 1 .. Len(p) : p[i] # 0
    PROVE  /\ Between(p, q) \in Seq(Symbol) /\ Len(Between(p, q)) < SizeMod
           /\ Between(p, q) # <<>> =>
                 \E i \in 1 .. Len(Between(p, q)) : Between(p, q)[i] # 0
           /\ n < SizeMod =>
                 /\ Len(Between(p, q)) = n
                 /\ 2 * Value(Between(p, q), n) = Value(p, n) + Value(q, n)
<1> DEFINE M == MeanDigits(p, q, n)
           b == Between(p, q)
<1>0. /\ Len(p) \in Nat /\ Len(q) \in Nat /\ Len(p) < n /\ Len(q) < n /\ n <= SizeMod
      /\ SizeMod \in Nat
  <2>1. Len(p) \in Nat /\ Len(q) \in Nat
    BY LenProperties
  <2> DEFINE l == Larger(Len(p), Len(q))
  <2>2. l \in Nat /\ Len(p) <= l /\ Len(q) <= l /\ (l = Len(p) \/ l = Len(q))
    BY <2>1, LargerIs
  <2>3. n = l + 1
    OBVIOUS
  <2> HIDE DEF l
  <2> QED
    BY <2>1, <2>2, <2>3, BaseFacts
<1>1. M \in Seq(Symbol) /\ Len(M) = n /\ 2 * Value(M, n) = Value(p, n) + Value(q, n)
  BY <1>0, MeanDigitsAreExact
<1>2. b = Sized(M)
  BY BetweenIs
<1> HIDE DEF M, b
<1>3. b \in Seq(Symbol) /\ Len(b) < SizeMod
      /\ (n < SizeMod => b = M) /\ (n = SizeMod => b = <<>>)
  BY <1>1, <1>2, SizedIs
<1>4. Value(p, n) > 0
  <2>1. PICK i \in 1 .. Len(p) : p[i] # 0
    OBVIOUS
  <2>2. Value(p, Len(p)) # 0
    BY <1>0, <2>1, ZeroDigits
  <2> DEFINE l == Len(p)
             T == {k \in Nat : Value(p, l + k) # 0}
  <2>3. 0 \in T
    BY <1>0, <2>2
  <2>4. ASSUME NEW k \in Nat, k \in T
        PROVE  k + 1 \in T
    <3>1. l + k \in Nat /\ l + (k + 1) = (l + k) + 1 /\ (l + k) + 1 \in Int
      BY <1>0
    <3> DEFINE v == Value(p, l + k)
    <3>2. v \in Nat /\ v # 0 /\ Digit(p, (l + k) + 1) \in Nat
      BY <2>4, <3>1, ValueSteps, DigitType
    <3>3. Value(p, (l + k) + 1) = Base * v + Digit(p, (l + k) + 1)
      BY <3>1, ValueSteps
    <3> HIDE DEF v
    <3>4. Base * v \in Nat /\ Base * v > 0
      BY <3>2, BaseFacts
    <3>5. Value(p, (l + k) + 1) # 0
      BY <3>2, <3>3, <3>4
    <3> QED
      BY <3>1, <3>5
  <2>5. n - l \in Nat /\ l + (n - l) = n
    BY <1>0
  <2>6. n - l \in T
    <3> HIDE DEF T
    <3> QED
      BY <2>3, <2>4, <2>5, NumbersBySteps
  <2>7. Value(p, n) # 0
    BY <2>5, <2>6
  <2>8. Value(p, n) \in Nat
    BY ValueSteps
  <2> QED
    BY <2>7, <2>8
<1>5. Value(M, n) # 0
  <2>1. Value(p, n) \in Nat /\ Value(q, n) \in Nat /\ Value(M, n) \in Nat
    BY <1>1, ValueSteps
  <2> QED
    BY <1>1, <1>4, <2>1
<1>6. \E i \in 1 .. Len(M) : M[i] # 0
  BY <1>1, <1>5, ZeroDigits
<1>7. b # <<>> => b = M
  BY <1>0, <1>3
<1> QED
  BY <1>1, <1>3, <1>6, <1>7 DEF b

-----------------------------------------------------------------------------
(* The walk *)

\* What every string is that a client can make.
Sound(s) ==
    /\ s \in Seq(Symbol) /\ Len(s) < SizeMod
    /\ s # <<>> => \E i \in 1 .. Len(s) : s[i] # 0

BothSound == Sound(held) /\ Sound(other)

LEMMA DefaultSound == Sound(DefaultPosition)
<1>1. DefaultPosition = <<0, HIGH_BIT>>
  BY DEF DefaultPosition
<1>2. <<0, HIGH_BIT>> \in Seq(Symbol)
  BY BaseFacts
<1>3. Len(<<0, HIGH_BIT>>) = 2 /\ <<0, HIGH_BIT>>[2] = HIGH_BIT /\ HIGH_BIT # 0
  BY BaseFacts
<1> QED
  BY <1>1, <1>2, <1>3, BaseFacts DEF Sound

LEMMA RestoredSound ==
    ASSUME NEW s \in Bytes
    PROVE  Sound(FromBytes(s))
<1>1. CASE s = <<>>
  BY <1>1, DefaultSound DEF FromBytes
<1>2. CASE s # <<>>
  <2>1. PICK n \in 1 .. MaxBytes : s \in [1 .. n -> Symbol]
    BY <1>2 DEF Bytes
  <2>2. PICK i \in DOMAIN s : s[i] # 0
    BY <1>2 DEF Bytes
  <2>3. n \in Nat /\ n < SizeMod
    BY MaxBytesAssumption, BaseFacts
  <2>4. s \in Seq(Symbol) /\ Len(s) = n
    BY <2>1, <2>3, IsASeq, LenProperties
  <2>5. FromBytes(s) = s
    BY <1>2, <2>3, <2>4, SizedIs DEF FromBytes
  <2>6. i \in 1 .. Len(s)
    BY <2>1, <2>4
  <2> QED
    BY <2>2, <2>3, <2>4, <2>5, <2>6 DEF Sound
<1> QED
  BY <1>1, <1>2

LEMMA SoundPositive ==
    ASSUME NEW s, Sound(s), s # <<>>
    PROVE  s \in Seq(Symbol) /\ Len(s) < SizeMod /\ \E i \in 1 .. Len(s) : s[i] # 0
BY DEF Sound

LEMMA InitSound == Init => BothSound
BY DefaultSound DEF Init, BothSound

LEMMA StepSound == BothSound /\ [Next]_vars => BothSound'
<1> SUFFICES ASSUME BothSound, [Next]_vars PROVE BothSound'
  OBVIOUS
<1>0. Sound(held) /\ Sound(other)
  BY DEF BothSound
<1>1. SUFFICES Sound(held') /\ Sound(other')
  BY DEF BothSound, Sound
<1>2. CASE StepAfter
  <2>1. held # <<>> /\ held' = After(held) /\ other' = other
    BY <1>2 DEF StepAfter, Usable
  <2> QED
    BY <1>0, <2>1, SoundPositive, AfterValue DEF Sound
<1>3. CASE StepBefore
  <2>1. held # <<>> /\ held' = Before(held) /\ other' = other
    BY <1>3 DEF StepBefore, Usable
  <2> QED
    BY <1>0, <2>1, SoundPositive, BeforeValue DEF Sound
<1>4. CASE StepBetween
  <2>1. held # <<>> /\ other # <<>> /\ held' = Between(held, other) /\ other' = other
    BY <1>4 DEF StepBetween, Usable
  <2> DEFINE n == Larger(Len(held), Len(other)) + 1
  <2>2. n \in Nat
    <3>1. Len(held) \in Nat /\ Len(other) \in Nat
      BY <1>0, LenProperties DEF Sound
    <3>2. Larger(Len(held), Len(other)) \in Nat
      BY <3>1, LargerIs
    <3> QED
      BY <3>2
  <2> QED
    BY <1>0, <2>1, <2>2, SoundPositive, BetweenValue DEF Sound
<1>5. CASE Copy
  BY <1>0, <1>5 DEF Copy
<1>6. CASE Restore
  BY <1>0, <1>6, RestoredSound DEF Restore
<1>7. CASE UNCHANGED vars
  BY <1>0, <1>7 DEF vars
<1> QED
  BY <1>2, <1>3, <1>4, <1>5, <1>6, <1>7 DEF Next

LEMMA SoundHolds == Spec => []BothSound
BY InitSound, StepSound, PTL DEF Spec

-----------------------------------------------------------------------------
(* Theorems *)

\* The symbol strings that the operations make are symbol strings whose size
\* fits the 16 bits of Position, whatever the calls.
THEOREM PositionTypeCorrect == Spec => []TypeOK
<1>1. BothSound => TypeOK
  <2>1. \A s : Sound(s) => Len(s) < SizeMod /\ \A i \in DOMAIN s : s[i] \in Symbol
    BY LenProperties, ElementOfSeq DEF Sound
  <2> QED
    BY <2>1 DEF BothSound, TypeOK
<1> QED
  BY SoundHolds, <1>1, PTL

\* No sequence of after(), before() and between() builds a position whose
\* number is zero, so that before() never borrows past the point.
THEOREM NumbersArePositive == Spec => []NeverZero
<1>1. BothSound => NeverZero
  <2>1. \A s : Sound(s) /\ s # <<>> => \E i \in DOMAIN s : s[i] # 0
    BY LenProperties DEF Sound
  <2> QED
    BY <2>1 DEF BothSound, NeverZero
<1> QED
  BY SoundHolds, <1>1, PTL

\* Where both strings have their say, a lower number sorts earlier.
LEMMA LessPrecedes ==
    ASSUME NEW s \in Seq(Symbol), NEW t \in Seq(Symbol), NEW n \in Nat,
           Len(s) <= n, Len(t) <= n, Value(s, n) < Value(t, n)
    PROVE  Below(s, t) /\ Precedes(s, t)
BY BelowIsLess, BelowPrecedes

\* after() makes the next number of the same precision, or half a unit where
\* there is none, and it sorts later.
THEOREM AfterIsNext == Spec => []AfterIsNextUp
<1>1. ASSUME Sound(held), Usable, Room(held)
      PROVE  LET n == Len(held) + 1
                 rise == Value(After(held), n) - Value(held, n)
             IN  /\ rise = IF Len(After(held)) = Len(held) THEN Base ELSE HIGH_BIT
                 /\ Precedes(held, After(held))
  <2> DEFINE a == After(held)
             n == Len(held) + 1
             gap == IF Len(a) = Len(held) THEN Base ELSE HIGH_BIT
  <2>1. held \in Seq(Symbol) /\ Len(held) < SizeMod /\ held # <<>>
    BY <1>1 DEF Sound, Usable
  <2>2. a \in Seq(Symbol) /\ Len(a) <= n /\ Value(a, n) = Value(held, n) + gap
    BY <1>1, <2>1, AfterValue
  <2>3. n \in Nat /\ Len(held) <= n
    BY <2>1, LenProperties
  <2>4. Value(held, n) \in Nat /\ Value(a, n) \in Nat /\ gap \in Nat /\ gap > 0
    BY <2>1, <2>2, <2>3, ValueSteps, BaseFacts
  <2> HIDE DEF a, n, gap
  <2>5. Value(held, n) < Value(a, n) /\ Value(a, n) - Value(held, n) = gap
    BY <2>2, <2>4
  <2>6. Precedes(held, a)
    BY <2>1, <2>2, <2>3, <2>5, LessPrecedes
  <2> QED
    BY <2>5, <2>6 DEF a, n, gap
<1>2. BothSound => AfterIsNextUp
  BY <1>1 DEF BothSound, AfterIsNextUp
<1> QED
  BY SoundHolds, <1>2, PTL

\* before() makes the next lower number, or half a unit less where that would
\* be zero, and it sorts earlier.
THEOREM BeforeIsNext == Spec => []BeforeIsNextDown
<1>1. ASSUME Sound(held), Usable, Room(held)
      PROVE  LET n == Len(held) + 1
                 fall == Value(held, n) - Value(Before(held), n)
             IN  /\ fall = IF Len(Before(held)) = Len(held) THEN Base ELSE HIGH_BIT
                 /\ Precedes(Before(held), held)
  <2> DEFINE b == Before(held)
             n == Len(held) + 1
             gap == IF Len(b) = Len(held) THEN Base ELSE HIGH_BIT
  <2>1. held \in Seq(Symbol) /\ Len(held) < SizeMod /\ \E i \in 1 .. Len(held) : held[i] # 0
    BY <1>1, SoundPositive DEF Usable
  <2>2. b \in Seq(Symbol) /\ Len(b) <= n /\ Value(held, n) = Value(b, n) + gap
    BY <1>1, <2>1, BeforeValue
  <2>3. n \in Nat /\ Len(held) <= n
    BY <2>1, LenProperties
  <2>4. Value(held, n) \in Nat /\ Value(b, n) \in Nat /\ gap \in Nat /\ gap > 0
    BY <2>1, <2>2, <2>3, ValueSteps, BaseFacts
  <2> HIDE DEF b, n, gap
  <2>5. Value(b, n) < Value(held, n) /\ Value(held, n) - Value(b, n) = gap
    BY <2>2, <2>4
  <2>6. Precedes(b, held)
    BY <2>1, <2>2, <2>3, <2>5, LessPrecedes
  <2> QED
    BY <2>5, <2>6 DEF b, n, gap
<1>2. BothSound => BeforeIsNextDown
  BY <1>1 DEF BothSound, BeforeIsNextDown
<1> QED
  BY SoundHolds, <1>2, PTL

\* The mean of two strings with room for one symbol more.
LEMMA MeanWithRoom ==
    ASSUME NEW a, NEW b, Sound(a), Sound(b), a # <<>>, b # <<>>, Room(a), Room(b),
           NEW n, n = Larger(Len(a), Len(b)) + 1
    PROVE  /\ n \in Nat /\ Len(a) <= n /\ Len(b) <= n
           /\ Between(a, b) \in Seq(Symbol) /\ Len(Between(a, b)) = n
           /\ 2 * Value(Between(a, b), n) = Value(a, n) + Value(b, n)
<1>1. /\ a \in Seq(Symbol) /\ Len(a) < SizeMod /\ \E i \in 1 .. Len(a) : a[i] # 0
      /\ b \in Seq(Symbol) /\ Len(b) < SizeMod
  BY SoundPositive
<1>2. Len(a) \in Nat /\ Len(b) \in Nat
  BY <1>1, LenProperties
<1> DEFINE l == Larger(Len(a), Len(b))
<1>3. l \in Nat /\ Len(a) <= l /\ Len(b) <= l /\ (l = Len(a) \/ l = Len(b))
  BY <1>2, LargerIs
<1>4. l + 1 < SizeMod
  BY <1>3 DEF Room
<1>5. n = l + 1
  OBVIOUS
<1>6. n \in Nat /\ Len(a) <= n /\ Len(b) <= n /\ n < SizeMod
  <2> HIDE DEF l
  <2> QED
    BY <1>2, <1>3, <1>4, <1>5
<1> QED
  BY <1>1, <1>6, BetweenValue

\* between() is the exact mean of the two numbers.
THEOREM BetweenIsMean == Spec => []MeanIsExact
<1>1. BothSound => MeanIsExact
  BY MeanWithRoom DEF BothSound, MeanIsExact, Usable
<1> QED
  BY SoundHolds, <1>1, PTL

\* between() finds a position strictly inside, as a string and as a number,
\* for any two numbers that differ.
THEOREM BetweenSeparates == Spec => []MeanSeparates
<1>1. ASSUME NEW a, NEW b, Sound(a), Sound(b), a # <<>>, b # <<>>, Room(a), Room(b),
             Below(a, b)
      PROVE  LET mean == Between(a, b)
             IN  /\ Precedes(a, mean) /\ Precedes(mean, b)
                 /\ Below(a, mean) /\ Below(mean, b)
  <2> DEFINE mean == Between(a, b)
             n == Larger(Len(a), Len(b)) + 1
  <2>1. /\ n \in Nat /\ Len(a) <= n /\ Len(b) <= n
        /\ mean \in Seq(Symbol) /\ Len(mean) = n
        /\ 2 * Value(mean, n) = Value(a, n) + Value(b, n)
    BY <1>1, MeanWithRoom
  <2>2. a \in Seq(Symbol) /\ b \in Seq(Symbol)
    BY <1>1 DEF Sound
  <2> HIDE DEF mean, n
  <2>3. Value(a, n) < Value(b, n)
    BY <1>1, <2>1, <2>2, BelowIsLess
  <2>4. Value(a, n) \in Nat /\ Value(b, n) \in Nat /\ Value(mean, n) \in Nat
    BY <2>1, <2>2, ValueSteps
  <2>5. Value(a, n) < Value(mean, n) /\ Value(mean, n) < Value(b, n) /\ Len(mean) <= n
    BY <2>1, <2>3, <2>4
  <2>6. Below(a, mean) /\ Precedes(a, mean) /\ Below(mean, b) /\ Precedes(mean, b)
    BY <2>1, <2>2, <2>5, LessPrecedes
  <2> QED
    BY <2>6 DEF mean
<1>2. BothSound => MeanSeparates
  BY <1>1 DEF BothSound, MeanSeparates, Usable
<1> QED
  BY SoundHolds, <1>2, PTL

\* operator<=> never contradicts the numbers, and tells any two different
\* strings apart one way only.
THEOREM OrderIsSound == Spec => []OrderFollowsNumbers
<1>1. BothSound => OrderFollowsNumbers
  <2>1. ASSUME BothSound PROVE OrderFollowsNumbers
    <3>1. held \in Seq(Symbol) /\ other \in Seq(Symbol)
      BY <2>1 DEF BothSound, Sound
    <3>2. Below(held, other) => Precedes(held, other)
      BY <3>1, BelowPrecedes
    <3>3. held # other => Precedes(held, other) \/ Precedes(other, held)
      BY <3>1, PrecedesTotal
    <3>4. Precedes(held, other) => held # other /\ ~ Precedes(other, held)
      BY <3>1, PrecedesOneWay
    <3>5. Precedes(other, held) => other # held
      BY <3>1, PrecedesOneWay
    <3> QED
      BY <3>2, <3>3, <3>4, <3>5 DEF OrderFollowsNumbers
  <2> QED
    BY <2>1
<1> QED
  BY SoundHolds, <1>1, PTL

\* The numbers are ordered as numbers are.
LEMMA BelowTransitive ==
    ASSUME NEW p \in Seq(Symbol), NEW q \in Seq(Symbol), NEW r \in Seq(Symbol),
           Below(p, q), Below(q, r)
    PROVE  Below(p, r)
<1> DEFINE n == Len(p) + Len(q) + Len(r)
<1>1. n \in Nat /\ Len(p) <= n /\ Len(q) <= n /\ Len(r) <= n
  <2>1. Len(p) \in Nat /\ Len(q) \in Nat /\ Len(r) \in Nat
    BY LenProperties
  <2> QED
    BY <2>1
<1> HIDE DEF n
<1>2. Value(p, n) < Value(q, n) /\ Value(q, n) < Value(r, n)
  BY <1>1, BelowIsLess
<1>3. Value(p, n) \in Nat /\ Value(q, n) \in Nat /\ Value(r, n) \in Nat
  BY <1>1, ValueSteps
<1>4. Value(p, n) < Value(r, n)
  BY <1>2, <1>3
<1> QED
  BY <1>1, <1>4, BelowIsLess

\* Position keeps what HierarchySystem relies on: for any set of positions
\* that are short of the longest by one symbol, the assumptions OrderAssumption
\* and StepAssumption of Hierarchy hold of its operations.
THEOREM PositionsOrderSiblings ==
    ASSUME NEW Pos, \A p \in Pos : Sound(p) /\ p # <<>> /\ Room(p)
    PROVE  /\ \A p, q \in Pos : Precedes(p, q) => ~ Precedes(q, p)
           /\ \A p, q \in Pos : Below(p, q) => Precedes(p, q)
           /\ \A p, q, r \in Pos : Below(p, q) /\ Below(q, r) => Below(p, r)
           /\ \A p \in Pos : Below(p, After(p))
           /\ \A p \in Pos : Below(Before(p), p)
           /\ \A p, q \in Pos :
                 Below(p, q) => Below(p, Between(p, q)) /\ Below(Between(p, q), q)
<1>0. \A p \in Pos : /\ p \in Seq(Symbol) /\ Len(p) < SizeMod /\ Room(p) /\ p # <<>>
                     /\ \E i \in 1 .. Len(p) : p[i] # 0
  BY SoundPositive
<1>1. \A p, q \in Pos : Precedes(p, q) => ~ Precedes(q, p)
  BY <1>0, PrecedesOneWay
<1>2. \A p, q \in Pos : Below(p, q) => Precedes(p, q)
  BY <1>0, BelowPrecedes
<1>3. \A p, q, r \in Pos : Below(p, q) /\ Below(q, r) => Below(p, r)
  BY <1>0, BelowTransitive
<1>4. ASSUME NEW p \in Pos, NEW s \in Seq(Symbol), Len(s) <= Len(p) + 1,
             NEW gap \in {Base, HIGH_BIT}
      PROVE  /\ Value(s, Len(p) + 1) = Value(p, Len(p) + 1) + gap => Below(p, s)
             /\ Value(p, Len(p) + 1) = Value(s, Len(p) + 1) + gap => Below(s, p)
  <2> DEFINE n == Len(p) + 1
  <2>1. n \in Nat /\ Len(p) <= n /\ p \in Seq(Symbol)
    BY <1>0, LenProperties
  <2>2. Value(s, n) \in Nat /\ Value(p, n) \in Nat /\ gap \in Nat /\ gap > 0
    <3>1. gap \in Nat /\ gap > 0
      BY BaseFacts
    <3> HIDE DEF n
    <3> QED
      BY <2>1, <3>1, ValueSteps
  <2>3. Len(s) <= n
    BY <1>4
  <2> HIDE DEF n
  <2>4. /\ Value(s, n) = Value(p, n) + gap => Value(p, n) < Value(s, n)
        /\ Value(p, n) = Value(s, n) + gap => Value(s, n) < Value(p, n)
    BY <2>2
  <2>5. /\ Value(s, n) = Value(p, n) + gap => Below(p, s)
        /\ Value(p, n) = Value(s, n) + gap => Below(s, p)
    BY <2>1, <2>3, <2>4, BelowIsLess
  <2> QED
    BY <2>5 DEF n
<1>5. \A p \in Pos : Below(p, After(p))
  <2>1. ASSUME NEW p \in Pos PROVE Below(p, After(p))
    BY <1>0, <1>4, AfterValue
  <2> QED
    BY <2>1
<1>6. \A p \in Pos : Below(Before(p), p)
  <2>1. ASSUME NEW p \in Pos PROVE Below(Before(p), p)
    BY <1>0, <1>4, BeforeValue
  <2> QED
    BY <2>1
<1>7. ASSUME NEW p \in Pos, NEW q \in Pos, Below(p, q)
      PROVE  Below(p, Between(p, q)) /\ Below(Between(p, q), q)
  <2> DEFINE mean == Between(p, q)
             n == Larger(Len(p), Len(q)) + 1
  <2>1. /\ n \in Nat /\ Len(p) <= n /\ Len(q) <= n
        /\ mean \in Seq(Symbol) /\ Len(mean) = n
        /\ 2 * Value(mean, n) = Value(p, n) + Value(q, n)
    BY MeanWithRoom
  <2>2. p \in Seq(Symbol) /\ q \in Seq(Symbol)
    BY <1>0
  <2> HIDE DEF mean, n
  <2>3. Value(p, n) < Value(q, n)
    BY <1>7, <2>1, <2>2, BelowIsLess
  <2>4. Value(p, n) \in Nat /\ Value(q, n) \in Nat /\ Value(mean, n) \in Nat
    BY <2>1, <2>2, ValueSteps
  <2>5. Value(p, n) < Value(mean, n) /\ Value(mean, n) < Value(q, n) /\ Len(mean) <= n
    BY <2>1, <2>3, <2>4
  <2>6. Below(p, mean) /\ Below(mean, q)
    BY <2>1, <2>2, <2>5, LessPrecedes
  <2> QED
    BY <2>6 DEF mean
<1> QED
  BY <1>1, <1>2, <1>3, <1>5, <1>6, <1>7

=============================================================================
