------------------------ MODULE MCSubscriptionQuota ------------------------
(* Instances of SubscriptionQuota for TLC. *)
EXTENDS SubscriptionQuota

CONSTANTS r1, r2

\* Two subscriptions and a fee where transactions are serialised; one
\* subscription where they interleave.
BothKinds ==
    {[isolated |-> TRUE, active |-> {1, 2}, fee |-> 1],
     [isolated |-> FALSE, active |-> {1}, fee |-> 0]}
=============================================================================
