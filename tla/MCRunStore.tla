---------------------------- MODULE MCRunStore ----------------------------
(* Model-checking instances of RunStore: identities are interchangeable.   *)
EXTENDS RunStore, TLC

Symmetry == Permutations(Runs) \cup Permutations(Snapshots)
=============================================================================
