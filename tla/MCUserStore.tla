---------------------------- MODULE MCUserStore ----------------------------
(* Instances of UserStore for TLC. *)
EXTENDS UserStore

CONSTANTS c1, c2, f1, w1

SpendAndReturn == {-2, 1}
=============================================================================
