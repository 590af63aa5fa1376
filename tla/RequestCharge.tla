--------------------------- MODULE RequestCharge ---------------------------
(***************************************************************************)
(* What the billing of a relay request promises, without its steps: a      *)
(* request is rejected at no cost, or it takes a hold, may raise it, and   *)
(* ends charged, released or with its hold kept.  The funding source and   *)
(* the token change together, by the same amount (an exempt request has no *)
(* token), and an ended request never changes again.  A request one of     *)
(* whose statements failed is promised nothing.                            *)
(*                                                                         *)
(* Amounts are chosen by constraining the next value, so that a detailed   *)
(* specification can be checked against any amount.                        *)
(***************************************************************************)
EXTENDS Naturals

CONSTANT Requests

VARIABLES
    phase,      \* where a request is
    fund,       \* what its funding source has paid
    token,      \* what its token has paid
    exempt      \* requests without a token

vars == <<phase, fund, token, exempt>>

Running == {"asking", "held"}
Ended == {"rejected", "charged", "released", "kept"}

Share(r, q) == IF exempt'[r] THEN 0 ELSE q

\* Request r goes from one phase to another and pays q, nobody else changes.
Move(r, from, to, q) ==
    /\ phase[r] = from /\ phase' = [phase EXCEPT ![r] = to]
    /\ fund' = [fund EXCEPT ![r] = q]
    /\ token' = [token EXCEPT ![r] = Share(r, q)]

Init ==
    /\ phase = [r \in Requests |-> "asking"]
    /\ fund = [r \in Requests |-> 0]
    /\ token = [r \in Requests |-> 0]
    /\ exempt = [r \in Requests |-> FALSE]

Reject(r) == Move(r, "asking", "rejected", 0) /\ UNCHANGED exempt

Hold(r) ==
    /\ exempt'[r] \in BOOLEAN /\ exempt' = [exempt EXCEPT ![r] = exempt'[r]]
    /\ fund'[r] \in Nat
    /\ Move(r, "asking", "held", fund'[r])

Raise(r) ==
    /\ fund'[r] \in Nat /\ fund'[r] > fund[r]
    /\ Move(r, "held", "held", fund'[r])
    /\ UNCHANGED exempt

Charge(r) ==
    /\ fund'[r] \in Nat
    /\ Move(r, "held", "charged", fund'[r])
    /\ UNCHANGED exempt

Release(r) == Move(r, "held", "released", 0) /\ UNCHANGED exempt

Keep(r) == Move(r, "held", "kept", fund[r]) /\ UNCHANGED exempt

Fail(r) ==
    /\ \E from \in Running : Move(r, from, "failed", 0)
    /\ exempt' = [exempt EXCEPT ![r] = FALSE]

Next ==
    \E r \in Requests :
        Reject(r) \/ Hold(r) \/ Raise(r) \/ Charge(r) \/ Release(r) \/ Keep(r) \/ Fail(r)

Spec == Init /\ [][Next]_vars
=============================================================================
