---------------------------- MODULE MCRecorder ----------------------------
(* Model-checking instances of Recorder: snapshots are interchangeable.    *)
EXTENDS Recorder, TLC

Symmetry == Permutations(Runs) \cup Permutations(Snapshots)
=============================================================================
