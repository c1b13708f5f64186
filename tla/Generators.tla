----------------------------- MODULE Generators -----------------------------
(***************************************************************************)
(* The objects of include/entttree/generator.h: Generator, which owns the  *)
(* frame of a coroutine, MaybeGenerator, an optional Generator, and        *)
(* FixedItemGenerator, an item with a flag.  A client makes, advances,     *)
(* moves and destroys them in any order.                                   *)
(*                                                                         *)
(* A coroutine runs up to its first co_yield when it is made.  How it ends *)
(* the object does not know: unhandled_exception() is empty, so that one   *)
(* that throws looks like one that returns.                                *)
(***************************************************************************)
EXTENDS Integers, Sequences

CONSTANTS
    Object,
    Frame,          \* coroutine frames
    Null,           \* no frame
    Dead,           \* no object
    Free,           \* no coroutine
    Item,
    None,           \* no item
    Bodies,         \* what a coroutine yields before it returns or throws
    MaxCount,       \* bound: values of _count
    ReuseFinished   \* clients assign to generators that have finished

ASSUME SentinelAssumption ==
    Null \notin Frame /\ None \notin Item /\ Free \notin Seq(Item)
ASSUME BodiesAssumption == Bodies \subseteq Seq(Item)
ASSUME MaxCountAssumption == MaxCount \in Nat
ASSUME ReuseFinishedAssumption == ReuseFinished \in BOOLEAN

VARIABLES
    frame,          \* of each frame: the value it holds and those to come
    object

vars == <<frame, object>>

\* has: the optional of a MaybeGenerator is engaged.  ret: _ret is set.
Coroutine == [kind : {"generator", "maybe"}, has : BOOLEAN,
              handle : Frame \cup {Null}, ret : BOOLEAN, count : 0 .. MaxCount]

Fixed == [kind : {"fixed"}, item : Item \cup {None}]

ASSUME DeadAssumption == Dead \notin Coroutine \cup Fixed \cup Seq(Item)

New(kind, h) ==
    [kind |-> kind, has |-> TRUE, handle |-> h, ret |-> FALSE, count |-> 0]

Absent ==
    [kind |-> "maybe", has |-> FALSE, handle |-> Null, ret |-> FALSE, count |-> 0]

Alive(o) == object[o] # Dead

Holds(o) == Alive(o) /\ object[o] \in Coroutine /\ object[o].handle # Null

\* The frame of o is destroyed, if it has one.
Without(o) ==
    IF Holds(o) THEN [frame EXCEPT ![object[o].handle] = Free] ELSE frame

-----------------------------------------------------------------------------
(* Operations *)

Init ==
    /\ frame = [f \in Frame |-> Free]
    /\ object = [o \in Object |-> Dead]

\* A coroutine is called: its frame is made, and the object for it.
Call(o, kind, body) ==
    /\ ~Alive(o)
    /\ \E f \in Frame :
          /\ frame[f] = Free
          /\ frame' = [frame EXCEPT ![f] = body]
          /\ object' = [object EXCEPT ![o] = New(kind, f)]

\* MaybeGenerator() and the two constructors of FixedItemGenerator
Make(o) ==
    /\ ~Alive(o)
    /\ \E x \in {Absent} \cup Fixed : object' = [object EXCEPT ![o] = x]
    /\ UNCHANGED frame

\* next: the coroutine comes to another value.
Resume(o) ==
    /\ Holds(o)
    /\ LET h == object[o].handle
       IN  /\ Len(frame[h]) > 1
           /\ frame' = [frame EXCEPT ![h] = Tail(@)]
           /\ object[o].count < MaxCount
           /\ object' = [object EXCEPT ![o].count = @ + 1]

FinishesEarly(o) == Holds(o) /\ Len(frame[object[o].handle]) <= 2 \* mutant

\* The coroutine is done, or is when it is resumed.
Finishes(o) == Holds(o) /\ Len(frame[object[o].handle]) <= 1

KeepsHandle(x) == [x EXCEPT !.ret = TRUE]                       \* mutant

CountsTheEnd(x) ==                                              \* mutant
    [x EXCEPT !.handle = Null, !.ret = TRUE, !.count = @ + 1]

Finished(x) == [x EXCEPT !.handle = Null, !.ret = TRUE]

\* next: _maybe_finish destroys the frame.
Finish(o) ==
    /\ Finishes(o)
    /\ frame' = Without(o)
    /\ object' = [object EXCEPT ![o] = Finished(@)]

\* FixedItemGenerator::next
DropItem(o) ==
    /\ Alive(o) /\ object[o].kind = "fixed"
    /\ object[o].item # None
    /\ object' = [object EXCEPT ![o].item = None]
    /\ UNCHANGED frame

NotTaken(x) == x                                                \* mutant

\* The source of a move, which has given up its handle.  (That of a
\* MaybeGenerator still has its generator.)
Taken(x) == IF x.kind = "fixed" THEN x ELSE [x EXCEPT !.handle = Null]

\* What a move constructor makes of x: _ret and _count start anew.
Constructed(x) ==
    IF x.kind = "fixed" \/ ~x.has THEN x ELSE New(x.kind, x.handle)

MoveConstruct(o, from) ==
    /\ ~Alive(o) /\ Alive(from)
    /\ object' = [object EXCEPT ![o] = Constructed(object[from]),
                               ![from] = Taken(object[from])]
    /\ UNCHANGED frame

KeepsFrame(o) == frame                                          \* mutant

\* What an assignment to o does with the frame that o had.
Replaced(o) == Without(o)

\* What a move assignment of x makes of y: _ret and _count stay those of y,
\* unless an optional had or gets no generator.
Assigned(y, x) ==
    IF x.kind = "fixed" \/ ~x.has THEN x
    ELSE IF y.has THEN [y EXCEPT !.handle = x.handle]
    ELSE New(x.kind, x.handle)

MoveAssign(o, from) ==
    /\ Alive(o) /\ Alive(from) /\ o # from
    /\ object[o].kind = object[from].kind
    /\ object[o].kind # "fixed" => ReuseFinished \/ ~object[o].ret
    /\ object' = [object EXCEPT ![o] = Assigned(@, object[from]),
                               ![from] = Taken(object[from])]
    /\ frame' = Replaced(o)

\* The destructor
Destroy(o) ==
    /\ Alive(o)
    /\ frame' = Without(o)
    /\ object' = [object EXCEPT ![o] = Dead]

Next ==
    \E o \in Object :
        \/ \E k \in {"generator", "maybe"}, b \in Bodies : Call(o, k, b)
        \/ Make(o)
        \/ Resume(o) \/ Finish(o) \/ DropItem(o)
        \/ \E from \in Object : MoveConstruct(o, from) \/ MoveAssign(o, from)
        \/ Destroy(o)

Spec == Init /\ [][Next]_vars

-----------------------------------------------------------------------------
(* Properties *)

TypeOK ==
    /\ frame \in [Frame -> Seq(Item) \cup {Free}]
    /\ object \in [Object -> Coroutine \cup Fixed \cup {Dead}]

\* Every coroutine has exactly one owner, and owners hold only live frames:
\* no frame leaks, none is destroyed or resumed through a second handle.
FramesOwnedOnce ==
    /\ \A o \in Object : Holds(o) => frame[object[o].handle] # Free
    /\ \A f \in Frame : frame[f] # Free => \E o \in Object : Holds(o) /\ object[o].handle = f
    /\ \A o, u \in Object :
          Holds(o) /\ Holds(u) /\ object[o].handle = object[u].handle => o = u

\* The items to come from o.
Items(o) ==
    IF ~Alive(o) THEN Dead
    ELSE IF object[o] \in Fixed
    THEN IF object[o].item = None THEN <<>> ELSE <<object[o].item>>
    ELSE IF Holds(o) THEN frame[object[o].handle] ELSE <<>>

\* "Returns `true` if the coroutine has finished (reached `co_return`)"
\* (generator.h:148): a generator that says so has no value and gets none.
FinishedIsOver ==
    \A o \in Object :
        Alive(o) /\ object[o] \in Coroutine /\ object[o].ret => Items(o) = <<>>

S == INSTANCE Stream WITH stream <- [o \in Object |-> Items(o)]

\* Whatever is moved, wrapped, finished and destroyed in whatever order, each
\* object gives the items of one coroutine in order, each once.
ImplementsStream == S!Spec

=============================================================================
