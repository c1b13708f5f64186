------------------------------ MODULE Position ------------------------------
(***************************************************************************)
(* Position: the fractional index that orders siblings                     *)
(* (include/entttree/position.h, src/position.cpp).                        *)
(*                                                                         *)
(* A position is the sequence of its symbols, most significant first: the  *)
(* digits of a number in [0, 1) to the right of the point.  The storage    *)
(* (14 symbols inline, more on the heap) is abstracted away; the width of  *)
(* its uint16_t size is kept, as the modulus SizeMod.                      *)
(*                                                                         *)
(* PositionWalk is a client of these operations, Hierarchy their user.      *)
(***************************************************************************)
EXTENDS Integers, Sequences

CONSTANTS
    Base,       \* symbols per digit: 256 in the code (symbol_t = uint8_t)
    SizeMod     \* sizes are kept modulo this: 2^16 in the code (uint16_t)

ASSUME BaseAssumption == Base \in Nat /\ Base >= 2 /\ Base % 2 = 0
ASSUME SizeModAssumption == SizeMod \in Nat /\ SizeMod >= 4

Symbol == 0 .. Base - 1
HIGH_BIT == Base \div 2
FULL_SYMBOL == Base - 1

\* operator[]: a digit beyond the last symbol reads as zero.
Digit(p, i) == IF i \in DOMAIN p THEN p[i] ELSE 0

\* Position(size_t): what is left of a symbol string once its length went
\* through uint16_t.
Sized(p) == SubSeq(p, 1, Len(p) % SizeMod)

PushBack(p, s) == Sized(Append(p, s))

DefaultPosition == <<0, HIGH_BIT>>

\* from_bytes(): without symbols it falls back to the default position.
FromBytes(s) == IF s = <<>> THEN DefaultPosition ELSE Sized(s)

Larger(m, n) == IF m < n THEN n ELSE m

-----------------------------------------------------------------------------
(* Ordering *)

SizeFirst(p, q) ==                                              \* mutant
    \/ Len(p) < Len(q)
    \/ /\ Len(p) = Len(q)
       /\ \E i \in 1 .. Len(p) :
             p[i] < q[i] /\ \A j \in 1 .. i - 1 : p[j] = q[j]

\* operator<=> says "less": the first differing symbol decides, and a proper
\* prefix comes before the longer string.
Precedes(p, q) ==
    \E i \in 1 .. Len(q) :
        /\ \A j \in 1 .. i - 1 : j <= Len(p) /\ p[j] = q[j]
        /\ i <= Len(p) => p[i] < q[i]

\* The order of the two numbers: trailing zeros do not count, so that two
\* strings such as <<1>> and <<1, 0>> are twins, neither below the other.
Below(p, q) ==
    \E i \in 1 .. Larger(Len(p), Len(q)) :
        /\ Digit(p, i) < Digit(q, i)
        /\ \A j \in 1 .. i - 1 : Digit(p, j) = Digit(q, j)

-----------------------------------------------------------------------------
(* Making new positions *)

NoCarryOut(p) ==                                                \* mutant
    Sized([p EXCEPT ![Len(p)] = (@ + 1) % Base])

\* after(): add one to the last symbol, carrying to the left; a string that
\* was full everywhere is kept full and grows by one symbol.
After(p) ==
    LET carried(i) == \A j \in i + 1 .. Len(p) : p[j] = FULL_SYMBOL
        sum == [i \in DOMAIN p |->
                   IF carried(i) THEN (p[i] + 1) % Base ELSE p[i]]
    IN  IF \A i \in DOMAIN p : sum[i] = 0
        THEN PushBack([i \in DOMAIN p |-> FULL_SYMBOL], HIGH_BIT)
        ELSE Sized(sum)

SignedSymbols(p) ==                                             \* mutant
    Sized([i \in DOMAIN p |-> IF \A j \in i + 1 .. Len(p) : p[j] = 0
                              THEN p[i] - 1 ELSE p[i]])

\* The difference p - 1 unit in the last place, borrowing from the left.
Decremented(p) ==
    Sized([i \in DOMAIN p |-> IF \A j \in i + 1 .. Len(p) : p[j] = 0
                              THEN (p[i] - 1) % Base ELSE p[i]])

ReachesZero(p) == Decremented(p)                                \* mutant

\* before(): a string that became zero everywhere grows by one symbol.
Before(p) ==
    IF \A i \in DOMAIN p : Decremented(p)[i] = 0
    THEN PushBack(Decremented(p), HIGH_BIT)
    ELSE Decremented(p)

\* Digit i of p / 2: the symbol shifted right, with the bit that falls out
\* of the symbol on its left.
Half(p, i) == Digit(p, i) \div 2 + HIGH_BIT * (Digit(p, i - 1) % 2)

\* The test that decides whether the mean needs one symbol more than the
\* longer operand, on the last symbols a and b of both.
NeedsSymbol(a, b) == a - b <= 1 \/ b - a <= 1

\* The digits of (p + q) / 2 up to the n-th, added from the right.
MeanDigits(p, q, n) ==
    LET carry[i \in 0 .. n] ==
            IF i = n THEN 0
            ELSE (Half(p, i + 1) + Half(q, i + 1) + carry[i + 1]) \div Base
    IN  [i \in 1 .. n |-> (Half(p, i) + Half(q, i) + carry[i]) % Base]

NeverGrows(p, q) == Sized(MeanDigits(p, q, Larger(Len(p), Len(q)))) \* mutant

NoCarry(p, q) ==                                                \* mutant
    Sized([i \in 1 .. Larger(Len(p), Len(q)) + 1 |->
              (Half(p, i) + Half(q, i)) % Base])

\* between(): the mean of the two numbers.
Between(p, q) ==
    LET m == Larger(Len(p), Len(q))
        n == IF NeedsSymbol(Digit(p, m), Digit(q, m)) THEN m + 1 ELSE m
    IN  Sized(MeanDigits(p, q, n))

=============================================================================
