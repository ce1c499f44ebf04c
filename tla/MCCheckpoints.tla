---------------------------- MODULE MCCheckpoints ----------------------------
(* Model checking of Checkpoints; the bounds are given in the cfg file. *)
EXTENDS Checkpoints, TLC

\* Hashes are interchangeable, and so are tasks.
CheckpointSymmetry == Permutations(Hashes) \union Permutations(Tasks)
=============================================================================
