------------------------- MODULE MCRealtimeBilling -------------------------
(* Instances of RealtimeBilling for TLC. *)
EXTENDS RealtimeBilling
=============================================================================
