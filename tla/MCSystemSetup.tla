---------------------------- MODULE MCSystemSetup ----------------------------
(* Model checking of SystemSetup; ports and bounds are given in the cfg files. *)
EXTENDS SystemSetup
=============================================================================
