------------------------------- MODULE MCKyma -------------------------------
(* Small instances of KymaMapping. *)
EXTENDS KymaMapping
=============================================================================
