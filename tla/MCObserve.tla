----------------------------- MODULE MCObserve -----------------------------
(* Small instances of ObserveStream for TLC. *)
EXTENDS ObserveStream

CONSTANTS o1, o2
=============================================================================
