---------------------------- MODULE MCActionPlane ----------------------------
(* The ActionPlane alone, for TLC: liveness is checked, so no symmetry.    *)
EXTENDS ActionPlane, TLC
=============================================================================
