---------------------------- MODULE MCGenerators ----------------------------
(***************************************************************************)
(* Generators with coroutines that yield up to three of two items.         *)
(***************************************************************************)
EXTENDS Generators, SequencesExt, TLC

MCBodies == BoundedSeq(Item, 3)

Renaming == Permutations(Object) \cup Permutations(Frame) \cup Permutations(Item)

=============================================================================
