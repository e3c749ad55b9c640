---------------------------- MODULE MCProjection ----------------------------
(* Small instances of Projection for TLC. *)
EXTENDS Projection

CONSTANTS n1, e1, f
=============================================================================
