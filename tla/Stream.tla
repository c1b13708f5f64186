------------------------------- MODULE Stream -------------------------------
(***************************************************************************)
(* What the generators of include/entttree/generator.h promise: an object  *)
(* is a stream of items, of which the first can be read; ++ drops it.      *)
(* Objects are moved, and no item is lost or given twice on the way.       *)
(***************************************************************************)
EXTENDS Integers, Sequences

CONSTANTS Object, Item, Dead

VARIABLE stream         \* the items to come; Dead for no object

Open(o) ==
    /\ stream[o] = Dead
    /\ stream'[o] \in Seq(Item)
    /\ stream' = [stream EXCEPT ![o] = stream'[o]]

Advance(o) ==
    /\ stream[o] \notin {Dead, <<>>}
    /\ stream' = [stream EXCEPT ![o] = Tail(@)]

\* A construction or an assignment; what o was about to give is dropped.
Move(o, from) ==
    /\ o # from /\ stream[from] # Dead
    /\ stream' = [stream EXCEPT ![o] = stream[from], ![from] = <<>>]

\* FixedItemGenerator, which owns nothing, is copied.
Copy(o, from) ==
    /\ stream[from] # Dead /\ Len(stream[from]) <= 1
    /\ stream' = [stream EXCEPT ![o] = stream[from]]

Close(o) ==
    /\ stream[o] # Dead
    /\ stream' = [stream EXCEPT ![o] = Dead]

Next ==
    \E o \in Object :
        \/ Open(o) \/ Advance(o)
        \/ \E from \in Object : Move(o, from) \/ Copy(o, from)
        \/ Close(o)

Init == stream = [o \in Object |-> Dead]

Spec == Init /\ [][Next]_stream

=============================================================================
