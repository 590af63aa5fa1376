---------------------------- MODULE MCPlayground ----------------------------
(* Instances of Playground for TLC; all its constants are plain values. *)
EXTENDS Playground, TLC
=============================================================================
