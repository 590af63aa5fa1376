-------------------------- MODULE MCUpstreamModels --------------------------
(* Instance of UpstreamModels for TLC. *)
EXTENDS UpstreamModels

CONSTANTS m1, m2, j1, j2

\* No mapping, or m1 is an alias of m2.
OneAlias == {{}, {<<m1, m2>>}}
=============================================================================
