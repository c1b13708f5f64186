---------------------------- MODULE PositionWalk ----------------------------
(***************************************************************************)
(* A client that holds two positions and makes new ones with the public    *)
(* operations, or reads them from bytes it has kept, so that the           *)
(* properties range over the positions a program can really build.         *)
(***************************************************************************)
EXTENDS Position

CONSTANT MaxBytes   \* bound: symbols in what from_bytes() is given

ASSUME MaxBytesAssumption == MaxBytes \in 0 .. SizeMod - 1

VARIABLES
    held,   \* the position worked on
    other   \* another one, the second operand of between()

vars == <<held, other>>

Init == held = DefaultPosition /\ other = DefaultPosition

\* Bound of the model: the walk ends at an empty string, which is what a
\* wrapped size leaves (the code reads out of bounds from there on).
Usable == held # <<>> /\ other # <<>>

StepAfter == Usable /\ held' = After(held) /\ UNCHANGED other

StepBefore == Usable /\ held' = Before(held) /\ UNCHANGED other

StepBetween == Usable /\ held' = Between(held, other) /\ UNCHANGED other

\* operator=: keep a copy.
Copy == Usable /\ other' = held /\ UNCHANGED held

\* The strings that a client may pass: a position is between 0 and 1, both
\* excluded (position.h:17-18), so not all of its symbols are zero.
Bytes ==
    {<<>>} \cup {s \in UNION {[1 .. n -> Symbol] : n \in 1 .. MaxBytes} :
                    \E i \in DOMAIN s : s[i] # 0}

Restore == \E s \in Bytes : held' = FromBytes(s) /\ UNCHANGED other

Next == StepAfter \/ StepBefore \/ StepBetween \/ Copy \/ Restore

Spec == Init /\ [][Next]_vars

-----------------------------------------------------------------------------
(* Reference definitions *)

\* The number a string stands for, in units of Base^-n.
Value(s, n) ==
    LET sum[i \in 0 .. n] ==
            IF i = 0 THEN 0 ELSE Base * sum[i - 1] + Digit(s, i)
    IN  sum[n]

\* Room for one more symbol: past it the 16-bit size wraps to zero.
Room(s) == Len(s) + 1 < SizeMod

-----------------------------------------------------------------------------
(* Properties *)

\* Both positions are symbol strings whose size fits the counter.
TypeOK ==
    \A s \in {held, other} :
        Len(s) < SizeMod /\ \A i \in DOMAIN s : s[i] \in Symbol

\* No sequence of calls builds a position whose number is zero.  before() of
\* such a position would borrow past the point and wrap to the far end of the
\* order, so this is what makes before() safe to call on any first child.
NeverZero ==
    \A s \in {held, other} : s # <<>> => \E i \in DOMAIN s : s[i] # 0

\* after() moves one unit up in the last place, so that no position of the
\* same precision is skipped and the move sorts strictly later.  Where the
\* unit would reach 1, it moves up by half a unit (HIGH_BIT of the next
\* place) instead.
AfterIsNextUp ==
    (Usable /\ Room(held)) =>
        LET n == Len(held) + 1
            rise == Value(After(held), n) - Value(held, n)
        IN  /\ rise = IF Len(After(held)) = Len(held) THEN Base ELSE HIGH_BIT
            /\ Precedes(held, After(held))

\* before() likewise moves one unit down, or half a unit where the whole one
\* would reach zero, and the result sorts strictly earlier.
BeforeIsNextDown ==
    (Usable /\ Room(held)) =>
        LET n == Len(held) + 1
            fall == Value(held, n) - Value(Before(held), n)
        IN  /\ fall = IF Len(Before(held)) = Len(held) THEN Base ELSE HIGH_BIT
            /\ Precedes(Before(held), held)

\* between() is the exact mean of the two numbers: nothing is rounded away
\* and no carry is lost across symbols, whatever the two lengths.
MeanIsExact ==
    (Usable /\ Room(held) /\ Room(other)) =>
        LET n == Larger(Len(held), Len(other)) + 1
        IN  2 * Value(Between(held, other), n)
                = Value(held, n) + Value(other, n)

\* Between two positions that stand for different numbers between() finds a
\* position strictly inside, both as a string and as a number: the new child
\* sorts between its neighbours, and a later between() can split again.
MeanSeparates ==
    \A a, b \in {held, other} :
        (Usable /\ Room(a) /\ Room(b) /\ Below(a, b)) =>
            LET mean == Between(a, b)
            IN  /\ Precedes(a, mean) /\ Precedes(mean, b)
                /\ Below(a, mean) /\ Below(mean, b)

\* operator<=> never contradicts the numbers, and tells any two different
\* strings apart one way only.
OrderFollowsNumbers ==
    /\ Below(held, other) => Precedes(held, other)
    /\ (Precedes(held, other) \/ Precedes(other, held)) <=> held # other
    /\ ~(Precedes(held, other) /\ Precedes(other, held))

=============================================================================
