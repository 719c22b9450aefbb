----------------------------- MODULE MCRestore -----------------------------
(* One wallet, the archives a user may restore over it, two rollback volumes. *)
EXTENDS Restore

CONSTANTS old, arc, v1, v2
=============================================================================
