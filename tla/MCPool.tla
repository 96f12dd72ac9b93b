------------------------------- MODULE MCPool -------------------------------
(* A small instance of HanaPool: symmetric workers are told apart by the      *)
(* liveness properties, so no symmetry is used.                               *)
EXTENDS HanaPool
=============================================================================
