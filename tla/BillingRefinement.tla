------------------------- MODULE BillingRefinement -------------------------
(***************************************************************************)
(* BillingSession implements RequestCharge: although a session takes from  *)
(* its token and its funding source by separate statements, interleaved    *)
(* with those of other requests, each of its operations looks like one     *)
(* atomic change of both accounts.  Between operations the mapping reads   *)
(* the real charges; within an operation it shows the hold the session had *)
(* when the operation began.                                               *)
(***************************************************************************)
EXTENDS BillingSession

Asking == {"new", "hasSub", "wallet", "tokenCheck", "tokenTake", "fundTake",
           "undoReject", "undoFallback"}
Between == {"open", "closed", "rejected"}

PhaseOf(r) ==
    IF ~Clean(r) THEN "failed"
    ELSE IF pc[r] \in Asking THEN "asking"
    ELSE IF pc[r] = "rejected" THEN "rejected"
    ELSE IF sess[r].settled THEN "charged"
    ELSE IF pc[r] # "closed" THEN "held"
    ELSE IF sess[r].refunded THEN "released" ELSE "kept"

\* What an account shows: its real charge between operations, what the session
\* held when the operation began within one.
Shown(r, charged, held) ==
    IF ~Clean(r) \/ pc[r] \in Asking THEN 0
    ELSE IF pc[r] \in Between THEN charged ELSE held

FundShown(r)  == Shown(r, FundCharged(r), sess[r].pre)
TokenShown(r) == Shown(r, tokenCharged[r], TokenShare(r, sess[r].pre))
ExemptShown(r) ==
    Clean(r) /\ pc[r] \notin Asking \cup {"rejected"} /\ sess[r].playground

phaseBar  == [r \in Requests |-> PhaseOf(r)]
fundBar   == [r \in Requests |-> FundShown(r)]
tokenBar  == [r \in Requests |-> TokenShown(r)]
exemptBar == [r \in Requests |-> ExemptShown(r)]

Abstract == INSTANCE RequestCharge WITH
    phase <- phaseBar, fund <- fundBar, token <- tokenBar, exempt <- exemptBar

\* The billing session behaves like an atomic account: a request is rejected
\* free of charge, or held, charged, released or kept in one step each, funding
\* source and token by the same amount, and what has ended stays as it is.
ImplementsCharge == Abstract!Spec
=============================================================================
