--------------------------- MODULE MCHeliosRuntime ---------------------------
(* Model checking of HeliosRuntime; the bounds are given in the cfg files. *)
EXTENDS HeliosRuntime, TLC

\* Lookups are interchangeable in every safety property.
LookupSymmetry == Permutations(Lookups)
=============================================================================
