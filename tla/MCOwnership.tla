---------------------------- MODULE MCOwnership ----------------------------
(* Instance of Ownership for TLC: model values as the cfg gives them.      *)
EXTENDS Ownership

CONSTANTS v1, r1, c1, c2, t1
============================================================================
