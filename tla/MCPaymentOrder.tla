--------------------------- MODULE MCPaymentOrder ---------------------------
(* Instances of PaymentOrder for TLC. *)
EXTENDS PaymentOrder

CONSTANTS h1, h2, h3, n1, n2

\* Everybody on one node, or the first handler on another one.
OneOrTwo ==
    {[h \in Handlers |-> n1], [h \in Handlers |-> IF h = h1 THEN n2 ELSE n1]}
=============================================================================
