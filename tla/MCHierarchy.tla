---------------------------- MODULE MCHierarchy ----------------------------
(***************************************************************************)
(* Hierarchy with the positions of Position: one-bit symbols, at most three *)
(* of them (a fourth is refused by the bound Pos), and never the number 0,  *)
(* which PositionWalk!NeverZero shows is not reached.  A position is the    *)
(* number of its string in Strings; the operations are tables.              *)
(***************************************************************************)
EXTENDS Hierarchy

P == INSTANCE Position WITH Base <- 2, SizeMod <- 4

Strings ==
    FoldSet(LAMBDA s, list : Append(list, s), <<>>,
            {s \in UNION {[1 .. n -> {0, 1}] : n \in 1 .. 3} :
                1 \in {s[i] : i \in DOMAIN s}})

MCPos == DOMAIN Strings

\* No position: a string that the bound refuses.
Refused == 0

Numbered(s) ==
    IF Contains(Strings, s) THEN CHOOSE i \in MCPos : Strings[i] = s ELSE Refused

MCExplicitPos == {Numbered(<<1>>), Numbered(<<0, 1>>)}

Lesser == [p \in MCPos |-> [q \in MCPos |-> P!Precedes(Strings[p], Strings[q])]]
Lower  == [p \in MCPos |-> [q \in MCPos |-> P!Below(Strings[p], Strings[q])]]
After  == [p \in MCPos |-> Numbered(P!After(Strings[p]))]
Before == [p \in MCPos |-> Numbered(P!Before(Strings[p]))]
Mean   == [p \in MCPos |->
              [q \in MCPos |-> Numbered(P!Between(Strings[p], Strings[q]))]]

MCLess(p, q) == Lesser[p][q]
MCUnder(p, q) == Lower[p][q]
MCNextPos(p) == After[p]
MCPrevPos(p) == Before[p]
MCMidPos(p, q) == Mean[p][q]
MCFirstPos == Numbered(P!DefaultPosition)

=============================================================================
