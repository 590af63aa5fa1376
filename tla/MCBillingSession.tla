-------------------------- MODULE MCBillingSession --------------------------
(* Instances of BillingSession for TLC. *)
EXTENDS BillingRefinement, TLC

CONSTANTS r1, r2

Profile(pref, ask, playground, force) ==
    [pref |-> pref, ask |-> ask, playground |-> playground, force |-> force]

\* Two sources, one of them empty first: every fallback of NewBillingSession.  The
\* token cannot carry two large requests, but may pass the checks of both.
FallbackProfiles ==
    {Profile(pref, ask, FALSE, FALSE) :
        pref \in {"wallet_first", "subscription_first"}, ask \in {1, 2}}

\* The remaining kinds of request: zero price, playground, forced pre-consume.
SingleProfiles ==
    {Profile(pref, ask, playground, force) :
        pref \in Preferences, ask \in {0, 2}, playground \in BOOLEAN,
        force \in BOOLEAN}

SubProfiles == {Profile("subscription_only", 1, FALSE, FALSE)}

Symmetry == Permutations(Requests)
=============================================================================
