---------------------------- MODULE MCConfigStore ----------------------------
(* Model checking of ConfigStore; the posts and markers are given in the cfg files. *)
EXTENDS ConfigStore, TLC

\* Posts are interchangeable.
PostSymmetry == Permutations(Requests)
=============================================================================
