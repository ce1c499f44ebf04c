---------------------------- MODULE MCKuboManager ----------------------------
(* Model checking of KuboManager; the bounds are given in the cfg file. *)
EXTENDS KuboManager
=============================================================================
