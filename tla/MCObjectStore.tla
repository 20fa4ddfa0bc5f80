---------------------------- MODULE MCObjectStore ----------------------------
(* Model-checking instances of ObjectStore: all objects share a directory. *)
EXTENDS ObjectStore, TLC

CONSTANT Shared

OneDirectory == [o \in Object |-> Shared]

Symmetry == Permutations(Process) \cup Permutations(Object)
=============================================================================
