------------------------ MODULE BillingSessionProofs ------------------------
(***************************************************************************)
(* Proofs about BillingSession, for any number of requests, any profiles   *)
(* and amounts, and any number of failing statements.                      *)
(*                                                                         *)
(* The invariants the runs check speak of the moments between operations.  *)
(* The inductive invariant IInv says, for every step of every operation,   *)
(* how the charges of a request relate to the fields of its session.       *)
(*                                                                         *)
(* The refinement: IInv gives the charges as a function of the session's   *)
(* fields (Accounts), so that each action is compared with the one of      *)
(* RequestCharge on those fields alone (one lemma per group of actions),   *)
(* and Lift carries the comparison to the mapped variables.                *)
(*                                                                         *)
(* The last part is about RealtimeBilling, the charges a realtime session  *)
(* makes around its billing session.                                       *)
(***************************************************************************)
EXTENDS BillingRefinement, RealtimeBilling, FiniteSums, TLAPS

\* The steps before a session exists.
PreSteps ==
    {"new", "hasSub", "wallet", "tokenCheck", "tokenTake", "fundTake",
     "undoReject", "undoFallback", "rejected"}

\* The steps in the middle of a Reserve whose funding part is done.
RsvSteps == {"rsvCheck", "rsvToken", "rsvUndo"}

\* The steps at which the hold of an unsettled session is complete.
HoldSteps == {"open", "rsvFund", "setFund", "closed"}

\* The control part: which fields may be set at which step.
ControlInv(r) ==
    /\ pc[r] \in PreSteps =>
         /\ sess[r].pre = 0 /\ sess[r].consumed = 0 /\ sess[r].extra = 0
         /\ sess[r].attempts = 0 /\ sess[r].settledAt = NotSettled
         /\ ~sess[r].settled /\ ~sess[r].fundingSettled /\ ~sess[r].refunded
         /\ record[r] = "none"
    /\ pc[r] \in {"new", "hasSub", "wallet", "tokenCheck", "tokenTake", "rejected"} =>
         sess[r].tokenConsumed = 0
    /\ pc[r] \in {"tokenCheck", "tokenTake", "fundTake"} => sess[r].delta >= 0
    /\ pc[r] \in {"undoFallback", "refMark", "refExtra"} => sess[r].src = "sub"
    /\ pc[r] = "fundTake" => sess[r].tokenConsumed = sess[r].delta
    /\ pc[r] \notin PreSteps => sess[r].tokenConsumed = sess[r].pre
    /\ pc[r] \in {"rsvFund"} \cup RsvSteps =>
         /\ sess[r].delta > 0
         /\ ~sess[r].settled /\ ~sess[r].fundingSettled /\ ~sess[r].refunded
    /\ pc[r] \in {"tokenTake", "rsvToken"} => ~sess[r].playground
    /\ pc[r] = "setFund" =>
         /\ ~sess[r].settled /\ ~sess[r].fundingSettled /\ ~sess[r].refunded
    /\ pc[r] \in {"setFund", "setToken"} =>
         /\ sess[r].settledAt \in Nat
         /\ sess[r].delta = sess[r].settledAt - sess[r].pre
    /\ pc[r] = "setToken" =>
         sess[r].fundingSettled /\ ~sess[r].settled /\ ~sess[r].refunded
                                /\ ~sess[r].playground
    /\ sess[r].settled => pc[r] \in {"open", "closed"} /\ sess[r].settledAt \in Nat
    /\ pc[r] = "open" => ~sess[r].refunded
    /\ pc[r] \in {"open", "closed"} /\ sess[r].fundingSettled => sess[r].settled
    /\ pc[r] \in RefundSteps =>
         sess[r].refunded /\ ~sess[r].settled /\ ~sess[r].fundingSettled
    /\ sess[r].settled => ~sess[r].refunded
    /\ ~sess[r].refunded => sess[r].attempts = 0
    /\ pc[r] \in {"refFund", "refMark"} => sess[r].attempts < MaxAttempts
    /\ record[r] = "refunded" => pc[r] \in {"refExtra", "refToken", "closed"}

\* The funding source, with or without faults: only the chosen source is
\* charged, and the wallet exactly what the session knows.
FundInv(r) ==
    /\ pc[r] \in PreSteps => userCharged[r] = 0 /\ subCharged[r] = 0
    /\ sess[r].src = "wallet" => subCharged[r] = 0
    /\ sess[r].src = "sub" => userCharged[r] = 0
    /\ userCharged[r] >= 0
    /\ sess[r].src = "wallet" => sess[r].consumed >= sess[r].pre
    /\ (sess[r].src = "wallet" /\ pc[r] \in RsvSteps) =>
         /\ userCharged[r] = sess[r].consumed
         /\ sess[r].consumed >= sess[r].pre + sess[r].delta
    /\ (sess[r].src = "wallet" /\ pc[r] \in HoldSteps
          /\ ~sess[r].settled /\ ~sess[r].refunded) =>
         userCharged[r] = sess[r].consumed
    /\ (sess[r].src = "wallet" /\ pc[r] = "refFund") =>
         userCharged[r] = sess[r].consumed

\* The token, with or without faults: never below what the session may return.
TokenInv(r) ==
    /\ sess[r].playground \/ pc[r] = "new" => tokenCharged[r] = 0
    /\ tokenCharged[r] >= 0
    /\ (pc[r] # "closed" /\ ~sess[r].settled /\ ~sess[r].playground) =>
         tokenCharged[r] >= sess[r].tokenConsumed

\* The exact charges of a request none of whose statements failed.
CleanInv(r) == Clean(r) =>
    /\ pc[r] \in PreSteps => tokenCharged[r] = TokenShare(r, sess[r].tokenConsumed)
    /\ ((pc[r] \in HoldSteps /\ ~sess[r].settled /\ ~sess[r].refunded)
          \/ pc[r] = "refFund") =>
         /\ FundCharged(r) = sess[r].pre
         /\ tokenCharged[r] = TokenShare(r, sess[r].pre)
    /\ pc[r] \in RsvSteps =>
         /\ FundCharged(r) = sess[r].pre + sess[r].delta
         /\ tokenCharged[r] = TokenShare(r, sess[r].pre)
    /\ pc[r] \notin PreSteps =>
         /\ sess[r].src = "sub" => sess[r].consumed + sess[r].extra = sess[r].pre
         /\ (sess[r].src = "wallet" /\ pc[r] \notin RsvSteps) =>
               sess[r].consumed = sess[r].pre
         /\ (sess[r].src = "wallet" /\ pc[r] \in RsvSteps) =>
               sess[r].consumed = sess[r].pre + sess[r].delta
    /\ pc[r] = "setToken" =>
         /\ FundCharged(r) = sess[r].settledAt
         /\ tokenCharged[r] = TokenShare(r, sess[r].pre)
    /\ sess[r].settled =>
         /\ FundCharged(r) = sess[r].settledAt
         /\ tokenCharged[r] = TokenShare(r, sess[r].settledAt)
    /\ pc[r] \in {"refMark", "refExtra"} =>
         /\ FundCharged(r) = sess[r].extra
         /\ tokenCharged[r] = TokenShare(r, sess[r].pre)
    /\ pc[r] = "refToken" =>
         FundCharged(r) = 0 /\ tokenCharged[r] = TokenShare(r, sess[r].pre)
    /\ (pc[r] = "closed" /\ sess[r].refunded) =>
         FundCharged(r) = 0 /\ tokenCharged[r] = 0

SessionInv(r) == ControlInv(r) /\ FundInv(r) /\ TokenInv(r) /\ CleanInv(r)

IInv == TypeOK /\ \A r \in Requests : SessionInv(r)

\* What a step of request r leaves alone: every other request.
Others(r) ==
    \A q \in Requests \ {r} :
        /\ pc'[q] = pc[q] /\ sess'[q] = sess[q] /\ record'[q] = record[q]
        /\ userCharged'[q] = userCharged[q] /\ tokenCharged'[q] = tokenCharged[q]
        /\ subCharged'[q] = subCharged[q] /\ faults'[q] = faults[q]

-----------------------------------------------------------------------------
(* One lemma per action: it preserves the types and its request's invariant. *)

USE DEF vars, stores, charges, Fault, NoStatement, Goto, NotSettled
USE DEF PreSteps, RsvSteps, HoldSteps, RefundSteps

\* Start keeps its session's invariant and touches no other request.
LEMMA StartPreserves ==
    ASSUME TypeOK, NEW r \in Requests, SessionInv(r), Start(r)
    PROVE  TypeOK' /\ SessionInv(r)' /\ Others(r)
<1>1. PICK s \in SessionType, step \in {"wallet", "tokenCheck", "hasSub"} :
         /\ sess' = [sess EXCEPT ![r] = s] /\ pc' = [pc EXCEPT ![r] = step]
         /\ s.pre = 0 /\ s.consumed = 0 /\ s.extra = 0 /\ s.attempts = 0
         /\ s.tokenConsumed = 0 /\ s.settledAt = NotSettled /\ s.delta >= 0
         /\ ~s.settled /\ ~s.fundingSettled /\ ~s.refunded
  <2> DEFINE S(p, src, f, d) == NewSession(p, tokenQuota, src, f, d)
  <2>1. PICK p \in Profiles :
          \/ /\ sess' = [sess EXCEPT ![r] = S(p, "wallet", FALSE, 0)]
             /\ pc' = [pc EXCEPT ![r] = "wallet"]
          \/ /\ sess' = [sess EXCEPT ![r] = S(p, "wallet", TRUE, 0)]
             /\ pc' = [pc EXCEPT ![r] = "wallet"]
          \/ /\ sess' = [sess EXCEPT ![r] = S(p, "sub", FALSE, SubConsume(p.ask))]
             /\ pc' = [pc EXCEPT ![r] = "tokenCheck"]
          \/ /\ sess' = [sess EXCEPT ![r] = S(p, "wallet", FALSE, 0)]
             /\ pc' = [pc EXCEPT ![r] = "hasSub"]
    BY DEF Start
  <2>2. /\ p.pref \in Preferences /\ p.ask \in Nat
        /\ p.playground \in BOOLEAN /\ p.force \in BOOLEAN /\ tokenQuota \in Int
    BY ProfilesAssumption DEF TypeOK
  <2>3. \A src \in {"wallet", "sub"}, d \in Nat :
          S(p, src, FALSE, d) \in SessionType /\ S(p, src, TRUE, d) \in SessionType
    BY <2>2, BoundsAssumption DEF SessionType, NewSession
  <2>4. SubConsume(p.ask) \in Nat
    BY <2>2 DEF SubConsume
  <2>5. /\ S(p, "wallet", FALSE, 0) \in SessionType
        /\ S(p, "wallet", TRUE, 0) \in SessionType
        /\ S(p, "sub", FALSE, SubConsume(p.ask)) \in SessionType
    BY <2>3, <2>4
  <2> DEFINE Fresh(s) ==
          /\ s.pre = 0 /\ s.consumed = 0 /\ s.extra = 0 /\ s.attempts = 0
          /\ s.tokenConsumed = 0 /\ s.settledAt = NotSettled /\ s.delta >= 0
          /\ ~s.settled /\ ~s.fundingSettled /\ ~s.refunded
  <2>6. Fresh(S(p, "wallet", FALSE, 0)) /\ Fresh(S(p, "wallet", TRUE, 0))
    BY DEF NewSession
  <2>7. Fresh(S(p, "sub", FALSE, SubConsume(p.ask)))
    BY <2>4 DEF NewSession
  <2> HIDE DEF S
  <2> QED BY <2>1, <2>5, <2>6, <2>7
<1>2. /\ pc[r] = "new" /\ UNCHANGED <<userQuota, tokenQuota, subUsed, subActive,
            record, userCharged, tokenCharged, subCharged, faults>>
    BY DEF Start
<1>3. TypeOK'
  <2>1. sess' \in [Requests -> SessionType]
    BY <1>1, Zenon DEF TypeOK
  <2> QED BY <1>1, <1>2, <2>1 DEF TypeOK, Steps
<1>4. Others(r)
    BY <1>1, <1>2 DEF TypeOK, Others
<1>5. sess'[r] = s /\ pc'[r] = step
    BY <1>1 DEF TypeOK
<1>6. ControlInv(r)' /\ FundInv(r)'
    BY <1>1, <1>2, <1>5, BoundsAssumption DEF SessionInv, ControlInv, FundInv
<1>7. TokenInv(r)' /\ CleanInv(r)'
  <2>1. tokenCharged[r] >= 0 /\ (Clean(r) => tokenCharged[r] = 0)
    BY <1>2 DEF SessionInv, ControlInv, TokenInv, CleanInv, TokenShare
  <2> QED BY <1>1, <1>2, <1>5, <2>1
          DEF TypeOK, SessionInv, TokenInv, CleanInv, Clean, TokenShare
<1> QED BY <1>3, <1>4, <1>6, <1>7 DEF SessionInv

\* HasActiveUserSubscription keeps its session's invariant and touches no other request.
LEMMA HasActiveUserSubscriptionPreserves ==
    ASSUME TypeOK, NEW r \in Requests, SessionInv(r), HasActiveUserSubscription(r)
    PROVE  TypeOK' /\ SessionInv(r)' /\ Others(r)
<1> USE DEF HasActiveUserSubscription, TrySubscription, SubConsume
<1>1. sess[r] \in SessionType
    BY DEF TypeOK
<1>2. \E s \in SessionType : sess' = [sess EXCEPT ![r] = s]
    BY <1>1, BoundsAssumption
    DEF TypeOK, SessionType, SessionInv, ControlInv, FundInv
<1>3. TypeOK'
  <2>1. sess' \in [Requests -> SessionType]
    BY <1>2, Zenon DEF TypeOK
  <2>2. pc' \in [Requests -> Steps] /\ faults' \in [Requests -> 0..MaxFaults]
    BY BoundsAssumption DEF TypeOK, Steps
  <2>3. /\ userQuota' \in Int /\ tokenQuota' \in Int /\ subUsed' \in Nat
        /\ userCharged' \in [Requests -> Int] /\ tokenCharged' \in [Requests -> Int]
        /\ subCharged' \in [Requests -> Int]
    BY <1>1 DEF TypeOK, SessionType
  <2>4. subActive' \in BOOLEAN
        /\ record' \in [Requests -> {"none", "consumed", "refunded"}]
    BY DEF TypeOK
  <2> QED BY <2>1, <2>2, <2>3, <2>4 DEF TypeOK
<1>4. Others(r)
    BY <1>1 DEF TypeOK, Others
<1>5. ControlInv(r)'
    BY <1>1, BoundsAssumption, AmountsAssumption
    DEF TypeOK, SessionType, SessionInv, ControlInv, FundInv
<1>6. FundInv(r)'
    BY <1>1 DEF TypeOK, SessionType, SessionInv, ControlInv, FundInv
<1>7. TokenInv(r)'
    BY <1>1 DEF TypeOK, SessionType, SessionInv, ControlInv, TokenInv
<1>8. CleanInv(r)'
    BY <1>1 DEF TypeOK, SessionType, SessionInv, ControlInv, FundInv, TokenInv, CleanInv,
        Clean, FundCharged, TokenShare
<1> QED BY <1>3, <1>4, <1>5, <1>6, <1>7, <1>8 DEF SessionInv

\* TryWallet keeps its session's invariant and touches no other request.
LEMMA TryWalletPreserves ==
    ASSUME TypeOK, NEW r \in Requests, SessionInv(r), TryWallet(r)
    PROVE  TypeOK' /\ SessionInv(r)' /\ Others(r)
<1> USE DEF TryWallet, TrySubscription, SubConsume, WalletInsufficient, ShouldTrust
<1>1. sess[r] \in SessionType
    BY DEF TypeOK
<1>2. \E s \in SessionType : sess' = [sess EXCEPT ![r] = s]
    BY <1>1, BoundsAssumption
    DEF TypeOK, SessionType, SessionInv, ControlInv, FundInv
<1>3. TypeOK'
  <2>1. sess' \in [Requests -> SessionType]
    BY <1>2, Zenon DEF TypeOK
  <2>2. pc' \in [Requests -> Steps] /\ faults' \in [Requests -> 0..MaxFaults]
    BY BoundsAssumption DEF TypeOK, Steps
  <2>3. /\ userQuota' \in Int /\ tokenQuota' \in Int /\ subUsed' \in Nat
        /\ userCharged' \in [Requests -> Int] /\ tokenCharged' \in [Requests -> Int]
        /\ subCharged' \in [Requests -> Int]
    BY <1>1 DEF TypeOK, SessionType
  <2>4. subActive' \in BOOLEAN
        /\ record' \in [Requests -> {"none", "consumed", "refunded"}]
    BY DEF TypeOK
  <2> QED BY <2>1, <2>2, <2>3, <2>4 DEF TypeOK
<1>4. Others(r)
    BY <1>1 DEF TypeOK, Others
<1>5. ControlInv(r)'
    BY <1>1, BoundsAssumption, AmountsAssumption
    DEF TypeOK, SessionType, SessionInv, ControlInv, FundInv
<1>6. FundInv(r)'
    BY <1>1 DEF TypeOK, SessionType, SessionInv, ControlInv, FundInv
<1>7. TokenInv(r)'
    BY <1>1 DEF TypeOK, SessionType, SessionInv, ControlInv, TokenInv
<1>8. CleanInv(r)'
    BY <1>1 DEF TypeOK, SessionType, SessionInv, ControlInv, FundInv, TokenInv, CleanInv,
        Clean, FundCharged, TokenShare
<1> QED BY <1>3, <1>4, <1>5, <1>6, <1>7, <1>8 DEF SessionInv

\* PreConsumeTokenCheck keeps its session's invariant and touches no other request.
LEMMA PreConsumeTokenCheckPreserves ==
    ASSUME TypeOK, NEW r \in Requests, SessionInv(r), PreConsumeTokenCheck(r)
    PROVE  TypeOK' /\ SessionInv(r)' /\ Others(r)
<1> USE DEF PreConsumeTokenCheck
<1>1. sess[r] \in SessionType
    BY DEF TypeOK
<1>2. \E s \in SessionType : sess' = [sess EXCEPT ![r] = s]
    BY <1>1, BoundsAssumption
    DEF TypeOK, SessionType, SessionInv, ControlInv, FundInv
<1>3. TypeOK'
  <2>1. sess' \in [Requests -> SessionType]
    BY <1>2, Zenon DEF TypeOK
  <2>2. pc' \in [Requests -> Steps] /\ faults' \in [Requests -> 0..MaxFaults]
    BY BoundsAssumption DEF TypeOK, Steps
  <2>3. /\ userQuota' \in Int /\ tokenQuota' \in Int /\ subUsed' \in Nat
        /\ userCharged' \in [Requests -> Int] /\ tokenCharged' \in [Requests -> Int]
        /\ subCharged' \in [Requests -> Int]
    BY <1>1 DEF TypeOK, SessionType
  <2>4. subActive' \in BOOLEAN
        /\ record' \in [Requests -> {"none", "consumed", "refunded"}]
    BY DEF TypeOK
  <2> QED BY <2>1, <2>2, <2>3, <2>4 DEF TypeOK
<1>4. Others(r)
    BY <1>1 DEF TypeOK, Others
<1>5. ControlInv(r)'
    BY <1>1, BoundsAssumption, AmountsAssumption
    DEF TypeOK, SessionType, SessionInv, ControlInv, FundInv
<1>6. FundInv(r)'
    BY <1>1 DEF TypeOK, SessionType, SessionInv, ControlInv, FundInv
<1>7. TokenInv(r)'
    BY <1>1 DEF TypeOK, SessionType, SessionInv, ControlInv, TokenInv
<1>8. CleanInv(r)'
    BY <1>1 DEF TypeOK, SessionType, SessionInv, ControlInv, FundInv, TokenInv, CleanInv,
        Clean, FundCharged, TokenShare
<1> QED BY <1>3, <1>4, <1>5, <1>6, <1>7, <1>8 DEF SessionInv

\* PreConsumeTokenQuota keeps its session's invariant and touches no other request.
LEMMA PreConsumeTokenQuotaPreserves ==
    ASSUME TypeOK, NEW r \in Requests, SessionInv(r), PreConsumeTokenQuota(r)
    PROVE  TypeOK' /\ SessionInv(r)' /\ Others(r)
<1>1. sess[r] \in SessionType
    BY DEF TypeOK
<1>2. \E s \in SessionType : sess' = [sess EXCEPT ![r] = s]
    BY <1>1, BoundsAssumption
    DEF PreConsumeTokenQuota, DecreaseTokenQuota,
        TypeOK, SessionType, SessionInv, ControlInv, FundInv
<1>3. TypeOK'
  <2>1. sess' \in [Requests -> SessionType]
    BY <1>2, Zenon DEF TypeOK
  <2>2. pc' \in [Requests -> Steps] /\ faults' \in [Requests -> 0..MaxFaults]
    BY BoundsAssumption DEF PreConsumeTokenQuota, DecreaseTokenQuota,
        TypeOK, Steps
  <2>3. /\ userQuota' \in Int /\ tokenQuota' \in Int /\ subUsed' \in Nat
        /\ userCharged' \in [Requests -> Int] /\ tokenCharged' \in [Requests -> Int]
        /\ subCharged' \in [Requests -> Int]
    BY <1>1 DEF PreConsumeTokenQuota, DecreaseTokenQuota,
        TypeOK, SessionType
  <2>4. subActive' \in BOOLEAN
        /\ record' \in [Requests -> {"none", "consumed", "refunded"}]
    BY DEF PreConsumeTokenQuota, DecreaseTokenQuota,
        TypeOK
  <2> QED BY <2>1, <2>2, <2>3, <2>4 DEF TypeOK
<1>4. Others(r)
    BY <1>1 DEF PreConsumeTokenQuota, DecreaseTokenQuota,
        TypeOK, Others
<1>5. pc[r] = "tokenTake"
    BY DEF PreConsumeTokenQuota
<1> DEFINE
      Done == /\ pc'[r] = "fundTake"
               /\ sess'[r] = [sess[r] EXCEPT !.tokenConsumed = sess[r].delta]
               /\ userCharged'[r] = userCharged[r]
               /\ subCharged'[r] = subCharged[r] /\ record'[r] = record[r]
               /\ faults'[r] = faults[r]
               /\ tokenCharged'[r] = tokenCharged[r] + sess[r].delta
      Failed == /\ pc'[r] = "rejected" /\ sess'[r] = sess[r]
                 /\ userCharged'[r] = userCharged[r]
                 /\ tokenCharged'[r] = tokenCharged[r]
                 /\ subCharged'[r] = subCharged[r] /\ record'[r] = record[r]
                 /\ faults'[r] = faults[r] + 1
<1>6. Done \/ Failed
    BY <1>1, <1>5 DEF PreConsumeTokenQuota, DecreaseTokenQuota,
        TypeOK, SessionInv, ControlInv
<1>7. ControlInv(r)'
  <2>1. CASE Done
    BY <1>1, <1>5, <2>1, BoundsAssumption DEF SessionType, SessionInv, ControlInv, FundInv
  <2>2. CASE Failed
    BY <1>1, <1>5, <2>2, BoundsAssumption DEF SessionType, SessionInv, ControlInv, FundInv
  <2> QED BY <1>6, <2>1, <2>2
<1>8. FundInv(r)'
  <2>1. CASE Done
    BY <1>1, <1>5, <2>1, BoundsAssumption DEF TypeOK, SessionType, SessionInv, ControlInv, FundInv
  <2>2. CASE Failed
    BY <1>1, <1>5, <2>2, BoundsAssumption DEF TypeOK, SessionType, SessionInv, ControlInv, FundInv
  <2> QED BY <1>6, <2>1, <2>2
<1>9. TokenInv(r)'
  <2>1. CASE Done
    BY <1>1, <1>5, <2>1, BoundsAssumption DEF TypeOK, SessionType, SessionInv, ControlInv, TokenInv
  <2>2. CASE Failed
    BY <1>1, <1>5, <2>2, BoundsAssumption DEF TypeOK, SessionType, SessionInv, ControlInv, TokenInv
  <2> QED BY <1>6, <2>1, <2>2
<1>10. CleanInv(r)'
  <2>1. CASE Done
    BY <1>1, <1>5, <2>1, BoundsAssumption DEF TypeOK, SessionType, SessionInv, ControlInv, FundInv, TokenInv, CleanInv,
        Clean, FundCharged, TokenShare
  <2>2. CASE Failed
    BY <1>1, <1>5, <2>2, BoundsAssumption DEF TypeOK, SessionType, SessionInv, ControlInv, FundInv, TokenInv, CleanInv,
        Clean, FundCharged, TokenShare
  <2> QED BY <1>6, <2>1, <2>2
<1> QED BY <1>3, <1>4, <1>7, <1>8, <1>9, <1>10 DEF SessionInv

\* WalletPreConsume keeps its session's invariant and touches no other request.
LEMMA WalletPreConsumePreserves ==
    ASSUME TypeOK, NEW r \in Requests, SessionInv(r), WalletPreConsume(r)
    PROVE  TypeOK' /\ SessionInv(r)' /\ Others(r)
<1> USE DEF WalletPreConsume, DecreaseUserQuota
<1>1. sess[r] \in SessionType
    BY DEF TypeOK
<1>2. \E s \in SessionType : sess' = [sess EXCEPT ![r] = s]
    BY <1>1, BoundsAssumption
    DEF TypeOK, SessionType, SessionInv, ControlInv, FundInv
<1>3. TypeOK'
  <2>1. sess' \in [Requests -> SessionType]
    BY <1>2, Zenon DEF TypeOK
  <2>2. pc' \in [Requests -> Steps] /\ faults' \in [Requests -> 0..MaxFaults]
    BY BoundsAssumption DEF TypeOK, Steps
  <2>3. /\ userQuota' \in Int /\ tokenQuota' \in Int /\ subUsed' \in Nat
        /\ userCharged' \in [Requests -> Int] /\ tokenCharged' \in [Requests -> Int]
        /\ subCharged' \in [Requests -> Int]
    BY <1>1 DEF TypeOK, SessionType
  <2>4. subActive' \in BOOLEAN
        /\ record' \in [Requests -> {"none", "consumed", "refunded"}]
    BY DEF TypeOK
  <2> QED BY <2>1, <2>2, <2>3, <2>4 DEF TypeOK
<1>4. Others(r)
    BY <1>1 DEF TypeOK, Others
<1>5. ControlInv(r)'
    BY <1>1, BoundsAssumption, AmountsAssumption
    DEF TypeOK, SessionType, SessionInv, ControlInv, FundInv
<1>6. FundInv(r)'
    BY <1>1 DEF TypeOK, SessionType, SessionInv, ControlInv, FundInv
<1>7. TokenInv(r)'
    BY <1>1 DEF TypeOK, SessionType, SessionInv, ControlInv, TokenInv
<1>8. CleanInv(r)'
    BY <1>1 DEF TypeOK, SessionType, SessionInv, ControlInv, FundInv, TokenInv, CleanInv,
        Clean, FundCharged, TokenShare
<1> QED BY <1>3, <1>4, <1>5, <1>6, <1>7, <1>8 DEF SessionInv

\* SubscriptionPreConsume keeps its session's invariant and touches no other request.
LEMMA SubscriptionPreConsumePreserves ==
    ASSUME TypeOK, NEW r \in Requests, SessionInv(r), SubscriptionPreConsume(r)
    PROVE  TypeOK' /\ SessionInv(r)' /\ Others(r)
<1> USE DEF SubscriptionPreConsume, BookSubscription
<1>1. sess[r] \in SessionType
    BY DEF TypeOK
<1>2. \E s \in SessionType : sess' = [sess EXCEPT ![r] = s]
    BY <1>1, BoundsAssumption
    DEF TypeOK, SessionType, SessionInv, ControlInv, FundInv
<1>3. TypeOK'
  <2>1. sess' \in [Requests -> SessionType]
    BY <1>2, Zenon DEF TypeOK
  <2>2. pc' \in [Requests -> Steps] /\ faults' \in [Requests -> 0..MaxFaults]
    BY BoundsAssumption DEF TypeOK, Steps
  <2>3. /\ userQuota' \in Int /\ tokenQuota' \in Int /\ subUsed' \in Nat
        /\ userCharged' \in [Requests -> Int] /\ tokenCharged' \in [Requests -> Int]
        /\ subCharged' \in [Requests -> Int]
    BY <1>1 DEF TypeOK, SessionType
  <2>4. subActive' \in BOOLEAN
        /\ record' \in [Requests -> {"none", "consumed", "refunded"}]
    BY DEF TypeOK
  <2> QED BY <2>1, <2>2, <2>3, <2>4 DEF TypeOK
<1>4. Others(r)
    BY <1>1 DEF TypeOK, Others
<1>5. ControlInv(r)'
    BY <1>1, BoundsAssumption, AmountsAssumption
    DEF TypeOK, SessionType, SessionInv, ControlInv, FundInv
<1>6. FundInv(r)'
    BY <1>1 DEF TypeOK, SessionType, SessionInv, ControlInv, FundInv
<1>7. TokenInv(r)'
    BY <1>1 DEF TypeOK, SessionType, SessionInv, ControlInv, TokenInv
<1>8. CleanInv(r)'
    BY <1>1 DEF TypeOK, SessionType, SessionInv, ControlInv, FundInv, TokenInv, CleanInv,
        Clean, FundCharged, TokenShare
<1> QED BY <1>3, <1>4, <1>5, <1>6, <1>7, <1>8 DEF SessionInv

\* RollbackToken keeps its session's invariant and touches no other request.
LEMMA RollbackTokenPreserves ==
    ASSUME TypeOK, NEW r \in Requests, SessionInv(r), RollbackToken(r)
    PROVE  TypeOK' /\ SessionInv(r)' /\ Others(r)
<1> USE DEF RollbackToken, DecreaseTokenQuota, AfterUndo
<1>1. sess[r] \in SessionType
    BY DEF TypeOK
<1>2. \E s \in SessionType : sess' = [sess EXCEPT ![r] = s]
    BY <1>1, BoundsAssumption
    DEF TypeOK, SessionType, SessionInv, ControlInv, FundInv
<1>3. TypeOK'
  <2>1. sess' \in [Requests -> SessionType]
    BY <1>2, Zenon DEF TypeOK
  <2>2. pc' \in [Requests -> Steps] /\ faults' \in [Requests -> 0..MaxFaults]
    BY BoundsAssumption DEF TypeOK, Steps
  <2>3. /\ userQuota' \in Int /\ tokenQuota' \in Int /\ subUsed' \in Nat
        /\ userCharged' \in [Requests -> Int] /\ tokenCharged' \in [Requests -> Int]
        /\ subCharged' \in [Requests -> Int]
    BY <1>1 DEF TypeOK, SessionType
  <2>4. subActive' \in BOOLEAN
        /\ record' \in [Requests -> {"none", "consumed", "refunded"}]
    BY DEF TypeOK
  <2> QED BY <2>1, <2>2, <2>3, <2>4 DEF TypeOK
<1>4. Others(r)
    BY <1>1 DEF TypeOK, Others
<1>5. ControlInv(r)'
    BY <1>1, BoundsAssumption, AmountsAssumption
    DEF TypeOK, SessionType, SessionInv, ControlInv, FundInv
<1>6. FundInv(r)'
    BY <1>1 DEF TypeOK, SessionType, SessionInv, ControlInv, FundInv
<1>7. TokenInv(r)'
    BY <1>1 DEF TypeOK, SessionType, SessionInv, ControlInv, TokenInv
<1>8. CleanInv(r)'
    BY <1>1 DEF TypeOK, SessionType, SessionInv, ControlInv, FundInv, TokenInv, CleanInv,
        Clean, FundCharged, TokenShare
<1> QED BY <1>3, <1>4, <1>5, <1>6, <1>7, <1>8 DEF SessionInv

\* Reserve keeps its session's invariant and touches no other request.
LEMMA ReservePreserves ==
    ASSUME TypeOK, NEW r \in Requests, NEW target \in Targets, SessionInv(r), Reserve(r, target)
    PROVE  TypeOK' /\ SessionInv(r)' /\ Others(r)
<1> USE DEF Reserve
<1>1. sess[r] \in SessionType
    BY DEF TypeOK
<1>2. \E s \in SessionType : sess' = [sess EXCEPT ![r] = s]
  <2>1. [sess[r] EXCEPT !.delta = target - sess[r].pre] \in SessionType
    BY <1>1, AmountsAssumption DEF SessionType, Reserve
  <2> QED BY <1>1, <2>1 DEF TypeOK
<1>3. TypeOK'
  <2>1. sess' \in [Requests -> SessionType]
    BY <1>2, Zenon DEF TypeOK
  <2>2. pc' \in [Requests -> Steps] /\ faults' \in [Requests -> 0..MaxFaults]
    BY BoundsAssumption DEF TypeOK, Steps
  <2>3. /\ userQuota' \in Int /\ tokenQuota' \in Int /\ subUsed' \in Nat
        /\ userCharged' \in [Requests -> Int] /\ tokenCharged' \in [Requests -> Int]
        /\ subCharged' \in [Requests -> Int]
    BY <1>1 DEF TypeOK, SessionType
  <2>4. subActive' \in BOOLEAN
        /\ record' \in [Requests -> {"none", "consumed", "refunded"}]
    BY DEF TypeOK
  <2> QED BY <2>1, <2>2, <2>3, <2>4 DEF TypeOK
<1>4. Others(r)
    BY <1>1 DEF TypeOK, Others
<1>5. ControlInv(r)'
    BY <1>1, BoundsAssumption, AmountsAssumption
    DEF TypeOK, SessionType, SessionInv, ControlInv, FundInv
<1>6. FundInv(r)'
    BY <1>1 DEF TypeOK, SessionType, SessionInv, ControlInv, FundInv
<1>7. TokenInv(r)'
    BY <1>1 DEF TypeOK, SessionType, SessionInv, ControlInv, TokenInv
<1>8. CleanInv(r)'
    BY <1>1 DEF TypeOK, SessionType, SessionInv, ControlInv, FundInv, TokenInv, CleanInv,
        Clean, FundCharged, TokenShare
<1> QED BY <1>3, <1>4, <1>5, <1>6, <1>7, <1>8 DEF SessionInv

\* ReserveFunding keeps its session's invariant and touches no other request.
LEMMA ReserveFundingPreserves ==
    ASSUME TypeOK, NEW r \in Requests, SessionInv(r), ReserveFunding(r)
    PROVE  TypeOK' /\ SessionInv(r)' /\ Others(r)
<1>1. sess[r] \in SessionType
    BY DEF TypeOK
<1>2. \E s \in SessionType : sess' = [sess EXCEPT ![r] = s]
    BY <1>1, BoundsAssumption
    DEF ReserveFunding, DecreaseUserQuota, PostConsumeUserSubscriptionDelta, BookSubscription,
        TypeOK, SessionType, SessionInv, ControlInv, FundInv
<1>3. TypeOK'
  <2>1. sess' \in [Requests -> SessionType]
    BY <1>2, Zenon DEF TypeOK
  <2>2. pc' \in [Requests -> Steps] /\ faults' \in [Requests -> 0..MaxFaults]
    BY BoundsAssumption DEF ReserveFunding, DecreaseUserQuota, PostConsumeUserSubscriptionDelta, BookSubscription,
        TypeOK, Steps
  <2>3. /\ userQuota' \in Int /\ tokenQuota' \in Int /\ subUsed' \in Nat
        /\ userCharged' \in [Requests -> Int] /\ tokenCharged' \in [Requests -> Int]
        /\ subCharged' \in [Requests -> Int]
    BY <1>1 DEF ReserveFunding, DecreaseUserQuota, PostConsumeUserSubscriptionDelta, BookSubscription,
        TypeOK, SessionType
  <2>4. subActive' \in BOOLEAN
        /\ record' \in [Requests -> {"none", "consumed", "refunded"}]
    BY DEF ReserveFunding, DecreaseUserQuota, PostConsumeUserSubscriptionDelta, BookSubscription,
        TypeOK
  <2> QED BY <2>1, <2>2, <2>3, <2>4 DEF TypeOK
<1>4. Others(r)
    BY <1>1 DEF ReserveFunding, DecreaseUserQuota, PostConsumeUserSubscriptionDelta, BookSubscription,
        TypeOK, Others
<1>5. pc[r] = "rsvFund"
    BY DEF ReserveFunding
<1> DEFINE
      Wallet == /\ sess[r].src = "wallet" /\ pc'[r] = "rsvCheck"
                 /\ sess'[r] = [sess[r] EXCEPT !.consumed = sess[r].consumed + sess[r].delta]
                 /\ userCharged'[r] = userCharged[r] + sess[r].delta
                 /\ tokenCharged'[r] = tokenCharged[r]
                 /\ subCharged'[r] = subCharged[r] /\ record'[r] = record[r]
                 /\ faults'[r] = faults[r]
      Sub == /\ sess[r].src = "sub" /\ pc'[r] = "rsvCheck"
              /\ sess'[r] = sess[r] /\ userCharged'[r] = userCharged[r]
              /\ tokenCharged'[r] = tokenCharged[r]
              /\ subCharged'[r] = subCharged[r] + sess[r].delta
              /\ record'[r] = record[r] /\ faults'[r] = faults[r]
      Failed == /\ pc'[r] = "open" /\ sess'[r] = sess[r]
                 /\ userCharged'[r] = userCharged[r]
                 /\ tokenCharged'[r] = tokenCharged[r]
                 /\ subCharged'[r] = subCharged[r] /\ record'[r] = record[r]
                 /\ faults'[r] \in {faults[r], faults[r] + 1}
<1>6. Wallet \/ Sub \/ Failed
    BY <1>1, <1>5 DEF ReserveFunding, DecreaseUserQuota, PostConsumeUserSubscriptionDelta, BookSubscription,
        TypeOK, SessionInv, ControlInv
<1>7. ControlInv(r)'
  <2>1. CASE Wallet
    BY <1>1, <1>5, <2>1, BoundsAssumption DEF SessionType, SessionInv, ControlInv, FundInv
  <2>2. CASE Sub
    BY <1>1, <1>5, <2>2, BoundsAssumption DEF SessionType, SessionInv, ControlInv, FundInv
  <2>3. CASE Failed
    BY <1>1, <1>5, <2>3, BoundsAssumption DEF SessionType, SessionInv, ControlInv, FundInv
  <2> QED BY <1>6, <2>1, <2>2, <2>3
<1>8. FundInv(r)'
  <2>1. CASE Wallet
    BY <1>1, <1>5, <2>1, BoundsAssumption DEF TypeOK, SessionType, SessionInv, ControlInv, FundInv
  <2>2. CASE Sub
    BY <1>1, <1>5, <2>2, BoundsAssumption DEF TypeOK, SessionType, SessionInv, ControlInv, FundInv
  <2>3. CASE Failed
    BY <1>1, <1>5, <2>3, BoundsAssumption DEF TypeOK, SessionType, SessionInv, ControlInv, FundInv
  <2> QED BY <1>6, <2>1, <2>2, <2>3
<1>9. TokenInv(r)'
  <2>1. CASE Wallet
    BY <1>1, <1>5, <2>1, BoundsAssumption DEF TypeOK, SessionType, SessionInv, ControlInv, TokenInv
  <2>2. CASE Sub
    BY <1>1, <1>5, <2>2, BoundsAssumption DEF TypeOK, SessionType, SessionInv, ControlInv, TokenInv
  <2>3. CASE Failed
    BY <1>1, <1>5, <2>3, BoundsAssumption DEF TypeOK, SessionType, SessionInv, ControlInv, TokenInv
  <2> QED BY <1>6, <2>1, <2>2, <2>3
<1>10. CleanInv(r)'
  <2>1. CASE Wallet
    BY <1>1, <1>5, <2>1, BoundsAssumption DEF TypeOK, SessionType, SessionInv, ControlInv, FundInv, TokenInv, CleanInv,
        Clean, FundCharged, TokenShare
  <2>2. CASE Sub
    BY <1>1, <1>5, <2>2, BoundsAssumption DEF TypeOK, SessionType, SessionInv, ControlInv, FundInv, TokenInv, CleanInv,
        Clean, FundCharged, TokenShare
  <2>3. CASE Failed
    BY <1>1, <1>5, <2>3, BoundsAssumption DEF TypeOK, SessionType, SessionInv, ControlInv, FundInv, TokenInv, CleanInv,
        Clean, FundCharged, TokenShare
  <2> QED BY <1>6, <2>1, <2>2, <2>3
<1> QED BY <1>3, <1>4, <1>7, <1>8, <1>9, <1>10 DEF SessionInv

\* ReserveTokenCheck keeps its session's invariant and touches no other request.
LEMMA ReserveTokenCheckPreserves ==
    ASSUME TypeOK, NEW r \in Requests, SessionInv(r), ReserveTokenCheck(r)
    PROVE  TypeOK' /\ SessionInv(r)' /\ Others(r)
<1> USE DEF ReserveTokenCheck, Reserved
<1>1. sess[r] \in SessionType
    BY DEF TypeOK
<1>2. \E s \in SessionType : sess' = [sess EXCEPT ![r] = s]
    BY <1>1, BoundsAssumption
    DEF TypeOK, SessionType, SessionInv, ControlInv, FundInv
<1>3. TypeOK'
  <2>1. sess' \in [Requests -> SessionType]
    BY <1>2, Zenon DEF TypeOK
  <2>2. pc' \in [Requests -> Steps] /\ faults' \in [Requests -> 0..MaxFaults]
    BY BoundsAssumption DEF TypeOK, Steps
  <2>3. /\ userQuota' \in Int /\ tokenQuota' \in Int /\ subUsed' \in Nat
        /\ userCharged' \in [Requests -> Int] /\ tokenCharged' \in [Requests -> Int]
        /\ subCharged' \in [Requests -> Int]
    BY <1>1 DEF TypeOK, SessionType
  <2>4. subActive' \in BOOLEAN
        /\ record' \in [Requests -> {"none", "consumed", "refunded"}]
    BY DEF TypeOK
  <2> QED BY <2>1, <2>2, <2>3, <2>4 DEF TypeOK
<1>4. Others(r)
    BY <1>1 DEF TypeOK, Others
<1>5. ControlInv(r)'
    BY <1>1, BoundsAssumption, AmountsAssumption
    DEF TypeOK, SessionType, SessionInv, ControlInv, FundInv
<1>6. FundInv(r)'
    BY <1>1 DEF TypeOK, SessionType, SessionInv, ControlInv, FundInv
<1>7. TokenInv(r)'
    BY <1>1 DEF TypeOK, SessionType, SessionInv, ControlInv, TokenInv
<1>8. CleanInv(r)'
    BY <1>1 DEF TypeOK, SessionType, SessionInv, ControlInv, FundInv, TokenInv, CleanInv,
        Clean, FundCharged, TokenShare
<1> QED BY <1>3, <1>4, <1>5, <1>6, <1>7, <1>8 DEF SessionInv

\* ReserveToken keeps its session's invariant and touches no other request.
LEMMA ReserveTokenPreserves ==
    ASSUME TypeOK, NEW r \in Requests, SessionInv(r), ReserveToken(r)
    PROVE  TypeOK' /\ SessionInv(r)' /\ Others(r)
<1> USE DEF ReserveToken, DecreaseTokenQuota, Reserved
<1>1. sess[r] \in SessionType
    BY DEF TypeOK
<1>2. \E s \in SessionType : sess' = [sess EXCEPT ![r] = s]
    BY <1>1, BoundsAssumption
    DEF TypeOK, SessionType, SessionInv, ControlInv, FundInv
<1>3. TypeOK'
  <2>1. sess' \in [Requests -> SessionType]
    BY <1>2, Zenon DEF TypeOK
  <2>2. pc' \in [Requests -> Steps] /\ faults' \in [Requests -> 0..MaxFaults]
    BY BoundsAssumption DEF TypeOK, Steps
  <2>3. /\ userQuota' \in Int /\ tokenQuota' \in Int /\ subUsed' \in Nat
        /\ userCharged' \in [Requests -> Int] /\ tokenCharged' \in [Requests -> Int]
        /\ subCharged' \in [Requests -> Int]
    BY <1>1 DEF TypeOK, SessionType
  <2>4. subActive' \in BOOLEAN
        /\ record' \in [Requests -> {"none", "consumed", "refunded"}]
    BY DEF TypeOK
  <2> QED BY <2>1, <2>2, <2>3, <2>4 DEF TypeOK
<1>4. Others(r)
    BY <1>1 DEF TypeOK, Others
<1>5. ControlInv(r)'
    BY <1>1, BoundsAssumption, AmountsAssumption
    DEF TypeOK, SessionType, SessionInv, ControlInv, FundInv
<1>6. FundInv(r)'
    BY <1>1 DEF TypeOK, SessionType, SessionInv, ControlInv, FundInv
<1>7. TokenInv(r)'
    BY <1>1 DEF TypeOK, SessionType, SessionInv, ControlInv, TokenInv
<1>8. CleanInv(r)'
    BY <1>1 DEF TypeOK, SessionType, SessionInv, ControlInv, FundInv, TokenInv, CleanInv,
        Clean, FundCharged, TokenShare
<1> QED BY <1>3, <1>4, <1>5, <1>6, <1>7, <1>8 DEF SessionInv

\* RollbackFundingReserve keeps its session's invariant and touches no other request.
LEMMA RollbackFundingReservePreserves ==
    ASSUME TypeOK, NEW r \in Requests, SessionInv(r), RollbackFundingReserve(r)
    PROVE  TypeOK' /\ SessionInv(r)' /\ Others(r)
<1>1. sess[r] \in SessionType
    BY DEF TypeOK
<1>2. \E s \in SessionType : sess' = [sess EXCEPT ![r] = s]
    BY <1>1, BoundsAssumption
    DEF RollbackFundingReserve, DecreaseUserQuota, PostConsumeUserSubscriptionDelta, BookSubscription,
        TypeOK, SessionType, SessionInv, ControlInv, FundInv
<1>3. TypeOK'
  <2>1. sess' \in [Requests -> SessionType]
    BY <1>2, Zenon DEF TypeOK
  <2>2. pc' \in [Requests -> Steps] /\ faults' \in [Requests -> 0..MaxFaults]
    BY BoundsAssumption DEF RollbackFundingReserve, DecreaseUserQuota, PostConsumeUserSubscriptionDelta, BookSubscription,
        TypeOK, Steps
  <2>3. /\ userQuota' \in Int /\ tokenQuota' \in Int /\ subUsed' \in Nat
        /\ userCharged' \in [Requests -> Int] /\ tokenCharged' \in [Requests -> Int]
        /\ subCharged' \in [Requests -> Int]
    BY <1>1 DEF RollbackFundingReserve, DecreaseUserQuota, PostConsumeUserSubscriptionDelta, BookSubscription,
        TypeOK, SessionType
  <2>4. subActive' \in BOOLEAN
        /\ record' \in [Requests -> {"none", "consumed", "refunded"}]
    BY DEF RollbackFundingReserve, DecreaseUserQuota, PostConsumeUserSubscriptionDelta, BookSubscription,
        TypeOK
  <2> QED BY <2>1, <2>2, <2>3, <2>4 DEF TypeOK
<1>4. Others(r)
    BY <1>1 DEF RollbackFundingReserve, DecreaseUserQuota, PostConsumeUserSubscriptionDelta, BookSubscription,
        TypeOK, Others
<1>5. pc[r] = "rsvUndo"
    BY DEF RollbackFundingReserve
<1> DEFINE
      Wallet == /\ sess[r].src = "wallet" /\ pc'[r] = "open"
                 /\ sess'[r] = [sess[r] EXCEPT !.consumed = sess[r].consumed - sess[r].delta]
                 /\ userCharged'[r] = userCharged[r] - sess[r].delta
                 /\ tokenCharged'[r] = tokenCharged[r]
                 /\ subCharged'[r] = subCharged[r] /\ record'[r] = record[r]
                 /\ faults'[r] = faults[r]
      Sub == /\ sess[r].src = "sub" /\ pc'[r] = "open" /\ sess'[r] = sess[r]
              /\ userCharged'[r] = userCharged[r]
              /\ tokenCharged'[r] = tokenCharged[r]
              /\ subCharged'[r] = subCharged[r] - sess[r].delta
              /\ record'[r] = record[r] /\ faults'[r] = faults[r]
      Failed == /\ pc'[r] = "open" /\ sess'[r] = sess[r]
                 /\ userCharged'[r] = userCharged[r]
                 /\ tokenCharged'[r] = tokenCharged[r]
                 /\ subCharged'[r] = subCharged[r] /\ record'[r] = record[r]
                 /\ faults'[r] = faults[r] + 1
<1>6. Wallet \/ Sub \/ Failed
    BY <1>1, <1>5 DEF RollbackFundingReserve, DecreaseUserQuota, PostConsumeUserSubscriptionDelta, BookSubscription,
        TypeOK, SessionInv, ControlInv
<1>7. ControlInv(r)'
  <2>1. CASE Wallet
    BY <1>1, <1>5, <2>1, BoundsAssumption DEF SessionType, SessionInv, ControlInv, FundInv
  <2>2. CASE Sub
    BY <1>1, <1>5, <2>2, BoundsAssumption DEF SessionType, SessionInv, ControlInv, FundInv
  <2>3. CASE Failed
    BY <1>1, <1>5, <2>3, BoundsAssumption DEF SessionType, SessionInv, ControlInv, FundInv
  <2> QED BY <1>6, <2>1, <2>2, <2>3
<1>8. FundInv(r)'
  <2>1. CASE Wallet
    BY <1>1, <1>5, <2>1, BoundsAssumption DEF TypeOK, SessionType, SessionInv, ControlInv, FundInv
  <2>2. CASE Sub
    BY <1>1, <1>5, <2>2, BoundsAssumption DEF TypeOK, SessionType, SessionInv, ControlInv, FundInv
  <2>3. CASE Failed
    BY <1>1, <1>5, <2>3, BoundsAssumption DEF TypeOK, SessionType, SessionInv, ControlInv, FundInv
  <2> QED BY <1>6, <2>1, <2>2, <2>3
<1>9. TokenInv(r)'
  <2>1. CASE Wallet
    BY <1>1, <1>5, <2>1, BoundsAssumption DEF TypeOK, SessionType, SessionInv, ControlInv, TokenInv
  <2>2. CASE Sub
    BY <1>1, <1>5, <2>2, BoundsAssumption DEF TypeOK, SessionType, SessionInv, ControlInv, TokenInv
  <2>3. CASE Failed
    BY <1>1, <1>5, <2>3, BoundsAssumption DEF TypeOK, SessionType, SessionInv, ControlInv, TokenInv
  <2> QED BY <1>6, <2>1, <2>2, <2>3
<1>10. CleanInv(r)'
  <2>1. CASE Wallet
    BY <1>1, <1>5, <2>1, BoundsAssumption DEF TypeOK, SessionType, SessionInv, ControlInv, FundInv, TokenInv, CleanInv,
        Clean, FundCharged, TokenShare
  <2>2. CASE Sub
    BY <1>1, <1>5, <2>2, BoundsAssumption DEF TypeOK, SessionType, SessionInv, ControlInv, FundInv, TokenInv, CleanInv,
        Clean, FundCharged, TokenShare
  <2>3. CASE Failed
    BY <1>1, <1>5, <2>3, BoundsAssumption DEF TypeOK, SessionType, SessionInv, ControlInv, FundInv, TokenInv, CleanInv,
        Clean, FundCharged, TokenShare
  <2> QED BY <1>6, <2>1, <2>2, <2>3
<1> QED BY <1>3, <1>4, <1>7, <1>8, <1>9, <1>10 DEF SessionInv

\* Settle keeps its session's invariant and touches no other request.
LEMMA SettlePreserves ==
    ASSUME TypeOK, NEW r \in Requests, NEW actual \in Actuals, SessionInv(r), Settle(r, actual)
    PROVE  TypeOK' /\ SessionInv(r)' /\ Others(r)
<1> USE DEF Settle
<1>1. sess[r] \in SessionType
    BY DEF TypeOK
<1>2. \E s \in SessionType : sess' = [sess EXCEPT ![r] = s]
  <2> actual \in Nat /\ actual - sess[r].pre \in Int
    BY <1>1, AmountsAssumption DEF SessionType
  <2>1. [sess[r] EXCEPT !.settledAt = actual, !.settled = TRUE] \in SessionType
    BY <1>1 DEF SessionType
  <2>2. [sess[r] EXCEPT !.settledAt = actual, !.delta = actual - sess[r].pre] \in SessionType
    BY <1>1 DEF SessionType
  <2> QED BY <1>1, <2>1, <2>2 DEF TypeOK
<1>3. TypeOK'
  <2>1. sess' \in [Requests -> SessionType]
    BY <1>2, Zenon DEF TypeOK
  <2>2. pc' \in [Requests -> Steps] /\ faults' \in [Requests -> 0..MaxFaults]
    BY BoundsAssumption DEF TypeOK, Steps
  <2>3. /\ userQuota' \in Int /\ tokenQuota' \in Int /\ subUsed' \in Nat
        /\ userCharged' \in [Requests -> Int] /\ tokenCharged' \in [Requests -> Int]
        /\ subCharged' \in [Requests -> Int]
    BY <1>1 DEF TypeOK, SessionType
  <2>4. subActive' \in BOOLEAN
        /\ record' \in [Requests -> {"none", "consumed", "refunded"}]
    BY DEF TypeOK
  <2> QED BY <2>1, <2>2, <2>3, <2>4 DEF TypeOK
<1>4. Others(r)
    BY <1>1 DEF TypeOK, Others
<1>5. ControlInv(r)'
    BY <1>1, BoundsAssumption, AmountsAssumption
    DEF TypeOK, SessionType, SessionInv, ControlInv, FundInv
<1>6. FundInv(r)'
    BY <1>1 DEF TypeOK, SessionType, SessionInv, ControlInv, FundInv
<1>7. TokenInv(r)'
    BY <1>1 DEF TypeOK, SessionType, SessionInv, ControlInv, TokenInv
<1>8. CleanInv(r)'
    BY <1>1 DEF TypeOK, SessionType, SessionInv, ControlInv, FundInv, TokenInv, CleanInv,
        Clean, FundCharged, TokenShare
<1> QED BY <1>3, <1>4, <1>5, <1>6, <1>7, <1>8 DEF SessionInv

\* SettleFunding keeps its session's invariant and touches no other request.
LEMMA SettleFundingPreserves ==
    ASSUME TypeOK, NEW r \in Requests, SessionInv(r), SettleFunding(r)
    PROVE  TypeOK' /\ SessionInv(r)' /\ Others(r)
<1>1. sess[r] \in SessionType
    BY DEF TypeOK
<1>2. \E s \in SessionType : sess' = [sess EXCEPT ![r] = s]
  <2>1. \A b \in BOOLEAN : [sess[r] EXCEPT !.fundingSettled = TRUE, !.settled = b] \in SessionType
    BY <1>1, AmountsAssumption DEF SessionType
  <2>2. sess[r].playground \in BOOLEAN
    BY <1>1 DEF SessionType
  <2> QED BY <1>1, <2>1, <2>2 DEF TypeOK, SettleFunding, DecreaseUserQuota, PostConsumeUserSubscriptionDelta, BookSubscription
<1>3. TypeOK'
  <2>1. sess' \in [Requests -> SessionType]
    BY <1>2, Zenon DEF TypeOK
  <2>2. pc' \in [Requests -> Steps] /\ faults' \in [Requests -> 0..MaxFaults]
    BY BoundsAssumption DEF SettleFunding, DecreaseUserQuota, PostConsumeUserSubscriptionDelta, BookSubscription,
        TypeOK, Steps
  <2>3. /\ userQuota' \in Int /\ tokenQuota' \in Int /\ subUsed' \in Nat
        /\ userCharged' \in [Requests -> Int] /\ tokenCharged' \in [Requests -> Int]
        /\ subCharged' \in [Requests -> Int]
    BY <1>1 DEF SettleFunding, DecreaseUserQuota, PostConsumeUserSubscriptionDelta, BookSubscription,
        TypeOK, SessionType
  <2>4. subActive' \in BOOLEAN
        /\ record' \in [Requests -> {"none", "consumed", "refunded"}]
    BY DEF SettleFunding, DecreaseUserQuota, PostConsumeUserSubscriptionDelta, BookSubscription,
        TypeOK
  <2> QED BY <2>1, <2>2, <2>3, <2>4 DEF TypeOK
<1>4. Others(r)
    BY <1>1 DEF SettleFunding, DecreaseUserQuota, PostConsumeUserSubscriptionDelta, BookSubscription,
        TypeOK, Others
<1>5. pc[r] = "setFund"
    BY DEF SettleFunding
<1> DEFINE
      Wallet == /\ sess[r].src = "wallet"
                 /\ userCharged'[r] = userCharged[r] + sess[r].delta
                 /\ subCharged'[r] = subCharged[r]
                 /\ tokenCharged'[r] = tokenCharged[r] /\ record'[r] = record[r]
                 /\ faults'[r] = faults[r]
                 /\ sess'[r] = [sess[r] EXCEPT !.fundingSettled = TRUE, !.settled = sess[r].playground]
                 /\ pc'[r] = (IF sess[r].playground THEN "open" ELSE "setToken")
      Sub == /\ sess[r].src = "sub"
              /\ subCharged'[r] = subCharged[r] + sess[r].delta
              /\ userCharged'[r] = userCharged[r]
              /\ tokenCharged'[r] = tokenCharged[r] /\ record'[r] = record[r]
              /\ faults'[r] = faults[r]
              /\ sess'[r] = [sess[r] EXCEPT !.fundingSettled = TRUE, !.settled = sess[r].playground]
              /\ pc'[r] = (IF sess[r].playground THEN "open" ELSE "setToken")
      Failed == /\ pc'[r] = "open" /\ sess'[r] = sess[r]
                 /\ userCharged'[r] = userCharged[r]
                 /\ tokenCharged'[r] = tokenCharged[r]
                 /\ subCharged'[r] = subCharged[r] /\ record'[r] = record[r]
                 /\ faults'[r] \in {faults[r], faults[r] + 1}
<1>6. Wallet \/ Sub \/ Failed
    BY <1>1, <1>5 DEF SettleFunding, DecreaseUserQuota, PostConsumeUserSubscriptionDelta, BookSubscription,
        TypeOK, SessionInv, ControlInv
<1>7. ControlInv(r)'
  <2>1. CASE Wallet
    BY <1>1, <1>5, <2>1, BoundsAssumption DEF SessionType, SessionInv, ControlInv, FundInv
  <2>2. CASE Sub
    BY <1>1, <1>5, <2>2, BoundsAssumption DEF SessionType, SessionInv, ControlInv, FundInv
  <2>3. CASE Failed
    BY <1>1, <1>5, <2>3, BoundsAssumption DEF SessionType, SessionInv, ControlInv, FundInv
  <2> QED BY <1>6, <2>1, <2>2, <2>3
<1>8. FundInv(r)'
  <2>1. CASE Wallet
    BY <1>1, <1>5, <2>1, BoundsAssumption DEF TypeOK, SessionType, SessionInv, ControlInv, FundInv
  <2>2. CASE Sub
    BY <1>1, <1>5, <2>2, BoundsAssumption DEF TypeOK, SessionType, SessionInv, ControlInv, FundInv
  <2>3. CASE Failed
    BY <1>1, <1>5, <2>3, BoundsAssumption DEF TypeOK, SessionType, SessionInv, ControlInv, FundInv
  <2> QED BY <1>6, <2>1, <2>2, <2>3
<1>9. TokenInv(r)'
  <2>1. CASE Wallet
    BY <1>1, <1>5, <2>1, BoundsAssumption DEF TypeOK, SessionType, SessionInv, ControlInv, TokenInv
  <2>2. CASE Sub
    BY <1>1, <1>5, <2>2, BoundsAssumption DEF TypeOK, SessionType, SessionInv, ControlInv, TokenInv
  <2>3. CASE Failed
    BY <1>1, <1>5, <2>3, BoundsAssumption DEF TypeOK, SessionType, SessionInv, ControlInv, TokenInv
  <2> QED BY <1>6, <2>1, <2>2, <2>3
<1>10. CleanInv(r)'
  <2>1. CASE Wallet
    BY <1>1, <1>5, <2>1, BoundsAssumption DEF TypeOK, SessionType, SessionInv, ControlInv, FundInv, TokenInv, CleanInv,
        Clean, FundCharged, TokenShare
  <2>2. CASE Sub
    BY <1>1, <1>5, <2>2, BoundsAssumption DEF TypeOK, SessionType, SessionInv, ControlInv, FundInv, TokenInv, CleanInv,
        Clean, FundCharged, TokenShare
  <2>3. CASE Failed
    BY <1>1, <1>5, <2>3, BoundsAssumption DEF TypeOK, SessionType, SessionInv, ControlInv, FundInv, TokenInv, CleanInv,
        Clean, FundCharged, TokenShare
  <2> QED BY <1>6, <2>1, <2>2, <2>3
<1> QED BY <1>3, <1>4, <1>7, <1>8, <1>9, <1>10 DEF SessionInv

\* SettleToken keeps its session's invariant and touches no other request.
LEMMA SettleTokenPreserves ==
    ASSUME TypeOK, NEW r \in Requests, SessionInv(r), SettleToken(r)
    PROVE  TypeOK' /\ SessionInv(r)' /\ Others(r)
<1> USE DEF SettleToken, DecreaseTokenQuota
<1>1. sess[r] \in SessionType
    BY DEF TypeOK
<1>2. \E s \in SessionType : sess' = [sess EXCEPT ![r] = s]
    BY <1>1, BoundsAssumption
    DEF TypeOK, SessionType, SessionInv, ControlInv, FundInv
<1>3. TypeOK'
  <2>1. sess' \in [Requests -> SessionType]
    BY <1>2, Zenon DEF TypeOK
  <2>2. pc' \in [Requests -> Steps] /\ faults' \in [Requests -> 0..MaxFaults]
    BY BoundsAssumption DEF TypeOK, Steps
  <2>3. /\ userQuota' \in Int /\ tokenQuota' \in Int /\ subUsed' \in Nat
        /\ userCharged' \in [Requests -> Int] /\ tokenCharged' \in [Requests -> Int]
        /\ subCharged' \in [Requests -> Int]
    BY <1>1 DEF TypeOK, SessionType
  <2>4. subActive' \in BOOLEAN
        /\ record' \in [Requests -> {"none", "consumed", "refunded"}]
    BY DEF TypeOK
  <2> QED BY <2>1, <2>2, <2>3, <2>4 DEF TypeOK
<1>4. Others(r)
    BY <1>1 DEF TypeOK, Others
<1>5. ControlInv(r)'
    BY <1>1, BoundsAssumption, AmountsAssumption
    DEF TypeOK, SessionType, SessionInv, ControlInv, FundInv
<1>6. FundInv(r)'
    BY <1>1 DEF TypeOK, SessionType, SessionInv, ControlInv, FundInv
<1>7. TokenInv(r)'
    BY <1>1 DEF TypeOK, SessionType, SessionInv, ControlInv, TokenInv
<1>8. CleanInv(r)'
    BY <1>1 DEF TypeOK, SessionType, SessionInv, ControlInv, FundInv, TokenInv, CleanInv,
        Clean, FundCharged, TokenShare
<1> QED BY <1>3, <1>4, <1>5, <1>6, <1>7, <1>8 DEF SessionInv

\* Refund keeps its session's invariant and touches no other request.
LEMMA RefundPreserves ==
    ASSUME TypeOK, NEW r \in Requests, SessionInv(r), Refund(r)
    PROVE  TypeOK' /\ SessionInv(r)' /\ Others(r)
<1> USE DEF Refund, NeedsRefund
<1>1. sess[r] \in SessionType
    BY DEF TypeOK
<1>2. \E s \in SessionType : sess' = [sess EXCEPT ![r] = s]
    BY <1>1, BoundsAssumption
    DEF TypeOK, SessionType, SessionInv, ControlInv, FundInv
<1>3. TypeOK'
  <2>1. sess' \in [Requests -> SessionType]
    BY <1>2, Zenon DEF TypeOK
  <2>2. pc' \in [Requests -> Steps] /\ faults' \in [Requests -> 0..MaxFaults]
    BY BoundsAssumption DEF TypeOK, Steps
  <2>3. /\ userQuota' \in Int /\ tokenQuota' \in Int /\ subUsed' \in Nat
        /\ userCharged' \in [Requests -> Int] /\ tokenCharged' \in [Requests -> Int]
        /\ subCharged' \in [Requests -> Int]
    BY <1>1 DEF TypeOK, SessionType
  <2>4. subActive' \in BOOLEAN
        /\ record' \in [Requests -> {"none", "consumed", "refunded"}]
    BY DEF TypeOK
  <2> QED BY <2>1, <2>2, <2>3, <2>4 DEF TypeOK
<1>4. Others(r)
    BY <1>1 DEF TypeOK, Others
<1>5. ControlInv(r)'
    BY <1>1, BoundsAssumption, AmountsAssumption
    DEF TypeOK, SessionType, SessionInv, ControlInv, FundInv
<1>6. FundInv(r)'
    BY <1>1 DEF TypeOK, SessionType, SessionInv, ControlInv, FundInv
<1>7. TokenInv(r)'
    BY <1>1 DEF TypeOK, SessionType, SessionInv, ControlInv, TokenInv
<1>8. CleanInv(r)'
    BY <1>1 DEF TypeOK, SessionType, SessionInv, ControlInv, FundInv, TokenInv, CleanInv,
        Clean, FundCharged, TokenShare
<1> QED BY <1>3, <1>4, <1>5, <1>6, <1>7, <1>8 DEF SessionInv

\* WalletRefund keeps its session's invariant and touches no other request.
LEMMA WalletRefundPreserves ==
    ASSUME TypeOK, NEW r \in Requests, SessionInv(r), WalletRefund(r)
    PROVE  TypeOK' /\ SessionInv(r)' /\ Others(r)
<1> USE DEF WalletRefund, DecreaseUserQuota
<1>1. sess[r] \in SessionType
    BY DEF TypeOK
<1>2. \E s \in SessionType : sess' = [sess EXCEPT ![r] = s]
    BY <1>1, BoundsAssumption
    DEF TypeOK, SessionType, SessionInv, ControlInv, FundInv
<1>3. TypeOK'
  <2>1. sess' \in [Requests -> SessionType]
    BY <1>2, Zenon DEF TypeOK
  <2>2. pc' \in [Requests -> Steps] /\ faults' \in [Requests -> 0..MaxFaults]
    BY BoundsAssumption DEF TypeOK, Steps
  <2>3. /\ userQuota' \in Int /\ tokenQuota' \in Int /\ subUsed' \in Nat
        /\ userCharged' \in [Requests -> Int] /\ tokenCharged' \in [Requests -> Int]
        /\ subCharged' \in [Requests -> Int]
    BY <1>1 DEF TypeOK, SessionType
  <2>4. subActive' \in BOOLEAN
        /\ record' \in [Requests -> {"none", "consumed", "refunded"}]
    BY DEF TypeOK
  <2> QED BY <2>1, <2>2, <2>3, <2>4 DEF TypeOK
<1>4. Others(r)
    BY <1>1 DEF TypeOK, Others
<1>5. ControlInv(r)'
    BY <1>1, BoundsAssumption, AmountsAssumption
    DEF TypeOK, SessionType, SessionInv, ControlInv, FundInv
<1>6. FundInv(r)'
    BY <1>1 DEF TypeOK, SessionType, SessionInv, ControlInv, FundInv
<1>7. TokenInv(r)'
    BY <1>1 DEF TypeOK, SessionType, SessionInv, ControlInv, TokenInv
<1>8. CleanInv(r)'
    BY <1>1 DEF TypeOK, SessionType, SessionInv, ControlInv, FundInv, TokenInv, CleanInv,
        Clean, FundCharged, TokenShare
<1> QED BY <1>3, <1>4, <1>5, <1>6, <1>7, <1>8 DEF SessionInv

\* SubscriptionRefund keeps its session's invariant and touches no other request.
LEMMA SubscriptionRefundPreserves ==
    ASSUME TypeOK, NEW r \in Requests, SessionInv(r), SubscriptionRefund(r)
    PROVE  TypeOK' /\ SessionInv(r)' /\ Others(r)
<1>1. sess[r] \in SessionType
    BY DEF TypeOK
<1>2. \E s \in SessionType : sess' = [sess EXCEPT ![r] = s]
    BY <1>1, BoundsAssumption
    DEF SubscriptionRefund, PostConsumeUserSubscriptionDelta, BookSubscription, RetryRefund,
        TypeOK, SessionType, SessionInv, ControlInv, FundInv
<1>3. TypeOK'
  <2>1. sess' \in [Requests -> SessionType]
    BY <1>2, Zenon DEF TypeOK
  <2>2. pc' \in [Requests -> Steps] /\ faults' \in [Requests -> 0..MaxFaults]
    BY BoundsAssumption DEF SubscriptionRefund, PostConsumeUserSubscriptionDelta, BookSubscription, RetryRefund,
        TypeOK, Steps
  <2>3. /\ userQuota' \in Int /\ tokenQuota' \in Int /\ subUsed' \in Nat
        /\ userCharged' \in [Requests -> Int] /\ tokenCharged' \in [Requests -> Int]
        /\ subCharged' \in [Requests -> Int]
    BY <1>1 DEF SubscriptionRefund, PostConsumeUserSubscriptionDelta, BookSubscription, RetryRefund,
        TypeOK, SessionType
  <2>4. subActive' \in BOOLEAN
        /\ record' \in [Requests -> {"none", "consumed", "refunded"}]
    BY DEF SubscriptionRefund, PostConsumeUserSubscriptionDelta, BookSubscription, RetryRefund,
        TypeOK
  <2> QED BY <2>1, <2>2, <2>3, <2>4 DEF TypeOK
<1>4. Others(r)
    BY <1>1 DEF SubscriptionRefund, PostConsumeUserSubscriptionDelta, BookSubscription, RetryRefund,
        TypeOK, Others
<1>5. pc[r] = "refFund" /\ sess[r].src = "sub"
    BY DEF SubscriptionRefund
<1> DEFINE
      Done == /\ pc'[r] = "refMark" /\ sess'[r] = sess[r]
               /\ userCharged'[r] = userCharged[r]
               /\ tokenCharged'[r] = tokenCharged[r]
               /\ subCharged'[r] = subCharged[r] - sess[r].consumed
               /\ record'[r] = record[r] /\ faults'[r] = faults[r]
      Failed == /\ pc'[r] = (IF sess[r].attempts + 1 < MaxAttempts THEN "refFund" ELSE "refExtra")
                 /\ sess'[r] = [sess[r] EXCEPT !.attempts = sess[r].attempts + 1]
                 /\ userCharged'[r] = userCharged[r]
                 /\ tokenCharged'[r] = tokenCharged[r]
                 /\ subCharged'[r] = subCharged[r] /\ record'[r] = record[r]
                 /\ faults'[r] = faults[r] + 1
<1>6. Done \/ Failed
    BY <1>1, <1>5 DEF SubscriptionRefund, PostConsumeUserSubscriptionDelta, BookSubscription, RetryRefund,
        TypeOK, SessionInv, ControlInv
<1>7. ControlInv(r)'
  <2>1. CASE Done
    BY <1>1, <1>5, <2>1, BoundsAssumption DEF SessionType, SessionInv, ControlInv, FundInv
  <2>2. CASE Failed
    BY <1>1, <1>5, <2>2, BoundsAssumption DEF SessionType, SessionInv, ControlInv, FundInv
  <2> QED BY <1>6, <2>1, <2>2
<1>8. FundInv(r)'
  <2>1. CASE Done
    BY <1>1, <1>5, <2>1, BoundsAssumption DEF TypeOK, SessionType, SessionInv, ControlInv, FundInv
  <2>2. CASE Failed
    BY <1>1, <1>5, <2>2, BoundsAssumption DEF TypeOK, SessionType, SessionInv, ControlInv, FundInv
  <2> QED BY <1>6, <2>1, <2>2
<1>9. TokenInv(r)'
  <2>1. CASE Done
    BY <1>1, <1>5, <2>1, BoundsAssumption DEF TypeOK, SessionType, SessionInv, ControlInv, TokenInv
  <2>2. CASE Failed
    BY <1>1, <1>5, <2>2, BoundsAssumption DEF TypeOK, SessionType, SessionInv, ControlInv, TokenInv
  <2> QED BY <1>6, <2>1, <2>2
<1>10. CleanInv(r)'
  <2>1. CASE Done
    BY <1>1, <1>5, <2>1, BoundsAssumption DEF TypeOK, SessionType, SessionInv, ControlInv, FundInv, TokenInv, CleanInv,
        Clean, FundCharged, TokenShare
  <2>2. CASE Failed
    BY <1>1, <1>5, <2>2, BoundsAssumption DEF TypeOK, SessionType, SessionInv, ControlInv, FundInv, TokenInv, CleanInv,
        Clean, FundCharged, TokenShare
  <2> QED BY <1>6, <2>1, <2>2
<1> QED BY <1>3, <1>4, <1>7, <1>8, <1>9, <1>10 DEF SessionInv

\* MarkRefunded keeps its session's invariant and touches no other request.
LEMMA MarkRefundedPreserves ==
    ASSUME TypeOK, NEW r \in Requests, SessionInv(r), MarkRefunded(r)
    PROVE  TypeOK' /\ SessionInv(r)' /\ Others(r)
<1>1. sess[r] \in SessionType
    BY DEF TypeOK
<1>2. \E s \in SessionType : sess' = [sess EXCEPT ![r] = s]
    BY <1>1, BoundsAssumption
    DEF MarkRefunded, RetryRefund,
        TypeOK, SessionType, SessionInv, ControlInv, FundInv
<1>3. TypeOK'
  <2>1. sess' \in [Requests -> SessionType]
    BY <1>2, Zenon DEF TypeOK
  <2>2. pc' \in [Requests -> Steps] /\ faults' \in [Requests -> 0..MaxFaults]
    BY BoundsAssumption DEF MarkRefunded, RetryRefund,
        TypeOK, Steps
  <2>3. /\ userQuota' \in Int /\ tokenQuota' \in Int /\ subUsed' \in Nat
        /\ userCharged' \in [Requests -> Int] /\ tokenCharged' \in [Requests -> Int]
        /\ subCharged' \in [Requests -> Int]
    BY <1>1 DEF MarkRefunded, RetryRefund,
        TypeOK, SessionType
  <2>4. subActive' \in BOOLEAN
        /\ record' \in [Requests -> {"none", "consumed", "refunded"}]
    BY DEF MarkRefunded, RetryRefund,
        TypeOK
  <2> QED BY <2>1, <2>2, <2>3, <2>4 DEF TypeOK
<1>4. Others(r)
    BY <1>1 DEF MarkRefunded, RetryRefund,
        TypeOK, Others
<1>5. pc[r] = "refMark"
    BY DEF MarkRefunded
<1> DEFINE
      Done == /\ pc'[r] = "refExtra" /\ sess'[r] = sess[r]
               /\ userCharged'[r] = userCharged[r]
               /\ tokenCharged'[r] = tokenCharged[r]
               /\ subCharged'[r] = subCharged[r] /\ record'[r] = "refunded"
               /\ faults'[r] = faults[r]
      Failed == /\ pc'[r] = (IF sess[r].attempts + 1 < MaxAttempts THEN "refFund" ELSE "refExtra")
                 /\ sess'[r] = [sess[r] EXCEPT !.attempts = sess[r].attempts + 1]
                 /\ userCharged'[r] = userCharged[r]
                 /\ tokenCharged'[r] = tokenCharged[r]
                 /\ subCharged'[r] = subCharged[r] /\ record'[r] = record[r]
                 /\ faults'[r] = faults[r] + 1
<1>6. Done \/ Failed
    BY <1>1, <1>5 DEF MarkRefunded, RetryRefund,
        TypeOK, SessionInv, ControlInv
<1>7. ControlInv(r)'
  <2>1. CASE Done
    BY <1>1, <1>5, <2>1, BoundsAssumption DEF SessionType, SessionInv, ControlInv, FundInv
  <2>2. CASE Failed
    BY <1>1, <1>5, <2>2, BoundsAssumption DEF SessionType, SessionInv, ControlInv, FundInv
  <2> QED BY <1>6, <2>1, <2>2
<1>8. FundInv(r)'
  <2>1. CASE Done
    BY <1>1, <1>5, <2>1, BoundsAssumption DEF TypeOK, SessionType, SessionInv, ControlInv, FundInv
  <2>2. CASE Failed
    BY <1>1, <1>5, <2>2, BoundsAssumption DEF TypeOK, SessionType, SessionInv, ControlInv, FundInv
  <2> QED BY <1>6, <2>1, <2>2
<1>9. TokenInv(r)'
  <2>1. CASE Done
    BY <1>1, <1>5, <2>1, BoundsAssumption DEF TypeOK, SessionType, SessionInv, ControlInv, TokenInv
  <2>2. CASE Failed
    BY <1>1, <1>5, <2>2, BoundsAssumption DEF TypeOK, SessionType, SessionInv, ControlInv, TokenInv
  <2> QED BY <1>6, <2>1, <2>2
<1>10. CleanInv(r)'
  <2>1. CASE Done
    BY <1>1, <1>5, <2>1, BoundsAssumption DEF TypeOK, SessionType, SessionInv, ControlInv, FundInv, TokenInv, CleanInv,
        Clean, FundCharged, TokenShare
  <2>2. CASE Failed
    BY <1>1, <1>5, <2>2, BoundsAssumption DEF TypeOK, SessionType, SessionInv, ControlInv, FundInv, TokenInv, CleanInv,
        Clean, FundCharged, TokenShare
  <2> QED BY <1>6, <2>1, <2>2
<1> QED BY <1>3, <1>4, <1>7, <1>8, <1>9, <1>10 DEF SessionInv

\* RefundExtraReserved keeps its session's invariant and touches no other request.
LEMMA RefundExtraReservedPreserves ==
    ASSUME TypeOK, NEW r \in Requests, SessionInv(r), RefundExtraReserved(r)
    PROVE  TypeOK' /\ SessionInv(r)' /\ Others(r)
<1> USE DEF RefundExtraReserved, PostConsumeUserSubscriptionDelta, BookSubscription
<1>1. sess[r] \in SessionType
    BY DEF TypeOK
<1>2. \E s \in SessionType : sess' = [sess EXCEPT ![r] = s]
    BY <1>1, BoundsAssumption
    DEF TypeOK, SessionType, SessionInv, ControlInv, FundInv
<1>3. TypeOK'
  <2>1. sess' \in [Requests -> SessionType]
    BY <1>2, Zenon DEF TypeOK
  <2>2. pc' \in [Requests -> Steps] /\ faults' \in [Requests -> 0..MaxFaults]
    BY BoundsAssumption DEF TypeOK, Steps
  <2>3. /\ userQuota' \in Int /\ tokenQuota' \in Int /\ subUsed' \in Nat
        /\ userCharged' \in [Requests -> Int] /\ tokenCharged' \in [Requests -> Int]
        /\ subCharged' \in [Requests -> Int]
    BY <1>1 DEF TypeOK, SessionType
  <2>4. subActive' \in BOOLEAN
        /\ record' \in [Requests -> {"none", "consumed", "refunded"}]
    BY DEF TypeOK
  <2> QED BY <2>1, <2>2, <2>3, <2>4 DEF TypeOK
<1>4. Others(r)
    BY <1>1 DEF TypeOK, Others
<1>5. ControlInv(r)'
    BY <1>1, BoundsAssumption, AmountsAssumption
    DEF TypeOK, SessionType, SessionInv, ControlInv, FundInv
<1>6. FundInv(r)'
    BY <1>1 DEF TypeOK, SessionType, SessionInv, ControlInv, FundInv
<1>7. TokenInv(r)'
    BY <1>1 DEF TypeOK, SessionType, SessionInv, ControlInv, TokenInv
<1>8. CleanInv(r)'
    BY <1>1 DEF TypeOK, SessionType, SessionInv, ControlInv, FundInv, TokenInv, CleanInv,
        Clean, FundCharged, TokenShare
<1> QED BY <1>3, <1>4, <1>5, <1>6, <1>7, <1>8 DEF SessionInv

\* RefundToken keeps its session's invariant and touches no other request.
LEMMA RefundTokenPreserves ==
    ASSUME TypeOK, NEW r \in Requests, SessionInv(r), RefundToken(r)
    PROVE  TypeOK' /\ SessionInv(r)' /\ Others(r)
<1> USE DEF RefundToken, DecreaseTokenQuota
<1>1. sess[r] \in SessionType
    BY DEF TypeOK
<1>2. \E s \in SessionType : sess' = [sess EXCEPT ![r] = s]
    BY <1>1, BoundsAssumption
    DEF TypeOK, SessionType, SessionInv, ControlInv, FundInv
<1>3. TypeOK'
  <2>1. sess' \in [Requests -> SessionType]
    BY <1>2, Zenon DEF TypeOK
  <2>2. pc' \in [Requests -> Steps] /\ faults' \in [Requests -> 0..MaxFaults]
    BY BoundsAssumption DEF TypeOK, Steps
  <2>3. /\ userQuota' \in Int /\ tokenQuota' \in Int /\ subUsed' \in Nat
        /\ userCharged' \in [Requests -> Int] /\ tokenCharged' \in [Requests -> Int]
        /\ subCharged' \in [Requests -> Int]
    BY <1>1 DEF TypeOK, SessionType
  <2>4. subActive' \in BOOLEAN
        /\ record' \in [Requests -> {"none", "consumed", "refunded"}]
    BY DEF TypeOK
  <2> QED BY <2>1, <2>2, <2>3, <2>4 DEF TypeOK
<1>4. Others(r)
    BY <1>1 DEF TypeOK, Others
<1>5. ControlInv(r)'
    BY <1>1, BoundsAssumption, AmountsAssumption
    DEF TypeOK, SessionType, SessionInv, ControlInv, FundInv
<1>6. FundInv(r)'
    BY <1>1 DEF TypeOK, SessionType, SessionInv, ControlInv, FundInv
<1>7. TokenInv(r)'
    BY <1>1 DEF TypeOK, SessionType, SessionInv, ControlInv, TokenInv
<1>8. CleanInv(r)'
    BY <1>1 DEF TypeOK, SessionType, SessionInv, ControlInv, FundInv, TokenInv, CleanInv,
        Clean, FundCharged, TokenShare
<1> QED BY <1>3, <1>4, <1>5, <1>6, <1>7, <1>8 DEF SessionInv

\* Finish keeps its session's invariant and touches no other request.
LEMMA FinishPreserves ==
    ASSUME TypeOK, NEW r \in Requests, SessionInv(r), Finish(r)
    PROVE  TypeOK' /\ SessionInv(r)' /\ Others(r)
<1> USE DEF Finish, NeedsRefund
<1>1. sess[r] \in SessionType
    BY DEF TypeOK
<1>2. \E s \in SessionType : sess' = [sess EXCEPT ![r] = s]
    BY <1>1, BoundsAssumption
    DEF TypeOK, SessionType, SessionInv, ControlInv, FundInv
<1>3. TypeOK'
  <2>1. sess' \in [Requests -> SessionType]
    BY <1>2, Zenon DEF TypeOK
  <2>2. pc' \in [Requests -> Steps] /\ faults' \in [Requests -> 0..MaxFaults]
    BY BoundsAssumption DEF TypeOK, Steps
  <2>3. /\ userQuota' \in Int /\ tokenQuota' \in Int /\ subUsed' \in Nat
        /\ userCharged' \in [Requests -> Int] /\ tokenCharged' \in [Requests -> Int]
        /\ subCharged' \in [Requests -> Int]
    BY <1>1 DEF TypeOK, SessionType
  <2>4. subActive' \in BOOLEAN
        /\ record' \in [Requests -> {"none", "consumed", "refunded"}]
    BY DEF TypeOK
  <2> QED BY <2>1, <2>2, <2>3, <2>4 DEF TypeOK
<1>4. Others(r)
    BY <1>1 DEF TypeOK, Others
<1>5. ControlInv(r)'
    BY <1>1, BoundsAssumption, AmountsAssumption
    DEF TypeOK, SessionType, SessionInv, ControlInv, FundInv
<1>6. FundInv(r)'
    BY <1>1 DEF TypeOK, SessionType, SessionInv, ControlInv, FundInv
<1>7. TokenInv(r)'
    BY <1>1 DEF TypeOK, SessionType, SessionInv, ControlInv, TokenInv
<1>8. CleanInv(r)'
    BY <1>1 DEF TypeOK, SessionType, SessionInv, ControlInv, FundInv, TokenInv, CleanInv,
        Clean, FundCharged, TokenShare
<1> QED BY <1>3, <1>4, <1>5, <1>6, <1>7, <1>8 DEF SessionInv

-----------------------------------------------------------------------------
(* The invariant is inductive. *)

\* The invariant holds initially.
LEMMA InitIInv == Init => IInv
<1> SUFFICES ASSUME Init PROVE IInv
    OBVIOUS
<1>1. NewSession(NoProfile, 0, "wallet", FALSE, 0) \in SessionType
    BY BoundsAssumption DEF NewSession, NoProfile, SessionType, Preferences
<1>2. TypeOK
  <2>1. sess \in [Requests -> SessionType]
    BY <1>1 DEF Init
  <2>2. faults \in [Requests -> 0..MaxFaults] /\ pc \in [Requests -> Steps]
    BY BoundsAssumption DEF Init, Steps
  <2>3. userQuota \in Int /\ tokenQuota \in Int /\ subUsed \in Nat /\ subActive \in BOOLEAN
    BY AmountsAssumption DEF Init
  <2>4. /\ record \in [Requests -> {"none", "consumed", "refunded"}]
        /\ userCharged \in [Requests -> Int] /\ tokenCharged \in [Requests -> Int]
        /\ subCharged \in [Requests -> Int]
    BY DEF Init
  <2> QED BY <2>1, <2>2, <2>3, <2>4 DEF TypeOK
<1>3. ASSUME NEW r \in Requests PROVE SessionInv(r)
  <2>1. /\ pc[r] = "new" /\ record[r] = "none" /\ userCharged[r] = 0
        /\ tokenCharged[r] = 0 /\ subCharged[r] = 0
        /\ sess[r] = NewSession(NoProfile, 0, "wallet", FALSE, 0)
    BY DEF Init
  <2> QED BY <2>1, BoundsAssumption
          DEF NewSession, NoProfile, SessionInv, ControlInv, FundInv, TokenInv,
              CleanInv, TokenShare
<1> QED BY <1>2, <1>3 DEF IInv

\* A request's step preserves its own invariant and touches no other request.
LEMMA StepPreserves ==
    ASSUME IInv, NEW r \in Requests, Step(r)
    PROVE  TypeOK' /\ SessionInv(r)' /\ Others(r)
<1> TypeOK /\ SessionInv(r)
    BY DEF IInv
<1>1. CASE PreConsumeStep(r)
    BY <1>1, StartPreserves, HasActiveUserSubscriptionPreserves, TryWalletPreserves,
       PreConsumeTokenCheckPreserves, PreConsumeTokenQuotaPreserves,
       WalletPreConsumePreserves, SubscriptionPreConsumePreserves,
       RollbackTokenPreserves DEF PreConsumeStep
<1>2. CASE ReserveStep(r)
    BY <1>2, ReservePreserves, ReserveFundingPreserves, ReserveTokenCheckPreserves,
       ReserveTokenPreserves, RollbackFundingReservePreserves DEF ReserveStep
<1>3. CASE SettleStep(r)
    BY <1>3, SettlePreserves, SettleFundingPreserves, SettleTokenPreserves
    DEF SettleStep
<1>4. CASE Refund(r) \/ RefundStep(r) \/ Finish(r)
    BY <1>4, RefundPreserves, WalletRefundPreserves, SubscriptionRefundPreserves,
       MarkRefundedPreserves, RefundExtraReservedPreserves, RefundTokenPreserves,
       FinishPreserves DEF RefundStep
<1> QED BY <1>1, <1>2, <1>3, <1>4 DEF Step

\* The invariant of a request only looks at that request.
LEMMA Frame ==
    ASSUME NEW q, SessionInv(q),
           pc'[q] = pc[q], sess'[q] = sess[q], record'[q] = record[q],
           userCharged'[q] = userCharged[q], tokenCharged'[q] = tokenCharged[q],
           subCharged'[q] = subCharged[q], faults'[q] = faults[q]
    PROVE  SessionInv(q)'
<1>1. ControlInv(q)'
    BY DEF SessionInv, ControlInv
<1>2. FundInv(q)' /\ TokenInv(q)'
    BY DEF SessionInv, FundInv, TokenInv
<1>3. CleanInv(q)'
    BY DEF SessionInv, CleanInv, Clean, FundCharged, TokenShare
<1> QED BY <1>1, <1>2, <1>3 DEF SessionInv

\* Every step preserves the invariant.
LEMMA NextIInv == IInv /\ [Next]_vars => IInv'
<1> SUFFICES ASSUME IInv, [Next]_vars PROVE IInv'
    OBVIOUS
<1>1. ASSUME NEW r \in Requests, Step(r) PROVE IInv'
  <2>1. TypeOK' /\ SessionInv(r)' /\ Others(r)
    BY <1>1, StepPreserves
  <2>2. ASSUME NEW q \in Requests, q # r PROVE SessionInv(q)'
    BY <2>1, <2>2, Frame DEF Others, IInv
  <2> QED BY <2>1, <2>2 DEF IInv
<1>2. CASE ExpireSubscription
  <2>1. TypeOK'
    BY <1>2 DEF ExpireSubscription, IInv, TypeOK
  <2>2. ASSUME NEW q \in Requests PROVE SessionInv(q)'
    BY <1>2, Frame DEF ExpireSubscription, IInv
  <2> QED BY <2>1, <2>2 DEF IInv
<1>3. CASE UNCHANGED vars
  <2>1. TypeOK'
    BY <1>3 DEF IInv, TypeOK
  <2>2. ASSUME NEW q \in Requests PROVE SessionInv(q)'
    BY <1>3, Frame DEF IInv
  <2> QED BY <2>1, <2>2 DEF IInv
<1> QED BY <1>1, <1>2, <1>3 DEF Next, Terminating

\* The invariant holds in every reachable state.
LEMMA SpecIInv == Spec => []IInv
BY InitIInv, NextIInv, PTL DEF Spec

-----------------------------------------------------------------------------
(* The theorems. *)

\* Every reachable state is well typed: in particular the holds a session
\* records never become negative, whatever fails.
THEOREM TypeCorrect == Spec => []TypeOK
<1>1. IInv => TypeOK
    BY DEF IInv
<1> QED BY <1>1, SpecIInv, PTL

\* A settled request whose statements all succeeded has paid exactly its cost.
THEOREM SettledExactlyHolds == Spec => []SettledExactly
<1>1. IInv => SettledExactly
    BY DEF IInv, SessionInv, CleanInv, SettledExactly
<1> QED BY <1>1, SpecIInv, PTL

\* An open session holds exactly preConsumedQuota; a rejected or refunded
\* request has paid nothing.
THEOREM HoldAccountedHolds == Spec => []HoldAccounted
<1>1. IInv => HoldAccounted
  <2> SUFFICES ASSUME IInv, NEW r \in Requests, Clean(r)
               PROVE  /\ (pc[r] \in {"open", "closed"} /\ ~sess[r].settled
                            /\ ~sess[r].refunded) =>
                           /\ FundCharged(r) = sess[r].pre
                           /\ tokenCharged[r] = TokenShare(r, sess[r].pre)
                      /\ (pc[r] = "rejected"
                            \/ (pc[r] = "closed" /\ sess[r].refunded)) =>
                           /\ userCharged[r] = 0 /\ subCharged[r] = 0
                           /\ tokenCharged[r] = 0
    BY DEF HoldAccounted
  <2>1. SessionInv(r) /\ TypeOK
    BY DEF IInv
  <2>2. sess[r] \in SessionType
    BY <2>1 DEF TypeOK
  <2>3. (pc[r] \in {"open", "closed"} /\ ~sess[r].settled /\ ~sess[r].refunded) =>
           FundCharged(r) = sess[r].pre /\ tokenCharged[r] = TokenShare(r, sess[r].pre)
    BY <2>1 DEF SessionInv, CleanInv
  <2>4. pc[r] = "rejected" =>
           userCharged[r] = 0 /\ subCharged[r] = 0 /\ tokenCharged[r] = 0
    BY <2>1 DEF SessionInv, ControlInv, FundInv, CleanInv, TokenShare
  <2>5. (pc[r] = "closed" /\ sess[r].refunded) =>
           userCharged[r] = 0 /\ subCharged[r] = 0 /\ tokenCharged[r] = 0
    BY <2>1, <2>2 DEF TypeOK, SessionType, SessionInv, FundInv, CleanInv, FundCharged
  <2> QED BY <2>3, <2>4, <2>5
<1> QED BY <1>1, SpecIInv, PTL

\* Whatever fails, a request is charged to at most one source.
THEOREM OneSourceHolds == Spec => []OneSource
<1>1. IInv => OneSource
    BY DEF IInv, TypeOK, SessionType, SessionInv, FundInv, OneSource
<1> QED BY <1>1, SpecIInv, PTL

\* Whatever fails, a wallet session knows exactly what the wallet was charged.
THEOREM WalletHoldKnownHolds == Spec => []WalletHoldKnown
<1>1. IInv => WalletHoldKnown
    BY DEF IInv, SessionInv, ControlInv, FundInv, WalletHoldKnown
<1> QED BY <1>1, SpecIInv, PTL

\* Whatever fails, neither wallet nor token gets back more than was taken.
THEOREM NeverOverRefundedHolds == Spec => []NeverOverRefunded
<1>1. IInv => NeverOverRefunded
    BY DEF IInv, SessionInv, FundInv, TokenInv, NeverOverRefunded
<1> QED BY <1>1, SpecIInv, PTL

\* A request books on the subscription only what the total admits, or returns
\* quota to it.
LEMMA StepWithinTotal ==
    ASSUME TypeOK, SubWithinTotal, NEW r \in Requests, Step(r)
    PROVE  SubWithinTotal'
<1> USE DEF SubWithinTotal, BookSubscription, SubAccepts,
            PostConsumeUserSubscriptionDelta, DecreaseUserQuota, DecreaseTokenQuota
<1>1. subUsed \in Nat /\ SubTotal \in Nat /\ sess[r].delta \in Int
      /\ sess[r].consumed \in Nat /\ sess[r].extra \in Nat
    BY AmountsAssumption DEF TypeOK, SessionType
<1>2. CASE PreConsumeStep(r)
  <2>1. CASE SubscriptionPreConsume(r)
    BY <1>1, <2>1 DEF SubscriptionPreConsume
  <2>2. CASE Start(r) \/ HasActiveUserSubscription(r) \/ TryWallet(r)
    BY <2>2 DEF Start, HasActiveUserSubscription, TryWallet
  <2>3. CASE PreConsumeTokenCheck(r) \/ PreConsumeTokenQuota(r)
               \/ WalletPreConsume(r) \/ RollbackToken(r)
    BY <2>3 DEF PreConsumeTokenCheck, PreConsumeTokenQuota, WalletPreConsume,
                RollbackToken
  <2> QED BY <1>2, <2>1, <2>2, <2>3 DEF PreConsumeStep
<1>3. CASE ReserveStep(r)
    BY <1>1, <1>3 DEF ReserveStep, Reserve, ReserveFunding, ReserveTokenCheck,
       ReserveToken, RollbackFundingReserve
<1>4. CASE SettleStep(r)
  <2>1. CASE SettleFunding(r)
    BY <1>1, <2>1 DEF SettleFunding
  <2>2. CASE SettleToken(r)
    BY <2>2 DEF SettleToken
  <2>3. ASSUME NEW actual \in Actuals, Settle(r, actual) PROVE SubWithinTotal'
    BY <2>3 DEF Settle
  <2> QED BY <1>4, <2>1, <2>2, <2>3 DEF SettleStep
<1>5. CASE RefundStep(r)
    BY <1>1, <1>5 DEF RefundStep, WalletRefund, SubscriptionRefund, MarkRefunded,
       RefundExtraReserved, RefundToken
<1>6. CASE Refund(r) \/ Finish(r)
    BY <1>6 DEF Refund, Finish
<1> QED BY <1>2, <1>3, <1>4, <1>5, <1>6 DEF Step

\* Whatever fails, the usage of a limited subscription stays within its total.
THEOREM SubWithinTotalHolds == Spec => []SubWithinTotal
<1>1. Init => SubWithinTotal
    BY AmountsAssumption DEF Init, SubWithinTotal
<1>2. IInv /\ SubWithinTotal /\ [Next]_vars => SubWithinTotal'
  <2> SUFFICES ASSUME IInv, SubWithinTotal, [Next]_vars PROVE SubWithinTotal'
    OBVIOUS
  <2>1. ASSUME NEW r \in Requests, Step(r) PROVE SubWithinTotal'
    BY <2>1, StepWithinTotal DEF IInv
  <2>2. CASE ExpireSubscription \/ Terminating \/ UNCHANGED vars
    BY <2>2 DEF ExpireSubscription, Terminating, SubWithinTotal
  <2> QED BY <2>1, <2>2 DEF Next
<1> QED BY <1>1, <1>2, SpecIInv, PTL DEF Spec

\* A step of a request books some amount of its own on the subscription, clamped at
\* zero, or nothing; and no step makes a request clean.
LEMMA StepBooks ==
    ASSUME TypeOK, NEW r \in Requests, Step(r)
    PROVE  /\ \/ UNCHANGED <<subUsed, subCharged>>
              \/ \E d \in Int : /\ subUsed' = IF subUsed + d < 0 THEN 0 ELSE subUsed + d
                                /\ subCharged' = [subCharged EXCEPT ![r] = @ + d]
           /\ \A q \in Requests : Clean(q)' => Clean(q)
<1> USE DEF BookSubscription, PostConsumeUserSubscriptionDelta, DecreaseUserQuota,
            DecreaseTokenQuota, Clean
<1>1. sess[r].delta \in Int /\ -sess[r].delta \in Int
      /\ -sess[r].consumed \in Int /\ -sess[r].extra \in Int
      /\ \A q \in Requests : faults[q] \in Nat
    BY DEF TypeOK, SessionType
<1>2. \A q \in Requests : Clean(q)' => Clean(q)
  <2>1. UNCHANGED faults \/ Fault(r)
    BY DEF Step, PreConsumeStep, ReserveStep, SettleStep, RefundStep, Start,
           HasActiveUserSubscription, TryWallet, PreConsumeTokenCheck,
           PreConsumeTokenQuota, WalletPreConsume, SubscriptionPreConsume,
           RollbackToken, Reserve, ReserveFunding, ReserveTokenCheck,
           ReserveToken, RollbackFundingReserve, Settle, SettleFunding,
           SettleToken, Refund, WalletRefund, SubscriptionRefund, MarkRefunded,
           RefundExtraReserved, RefundToken, Finish
  <2> QED BY <1>1, <2>1 DEF TypeOK
<1>3. CASE PreConsumeStep(r)
  <2>1. CASE SubscriptionPreConsume(r)
    BY <1>1, <1>2, <2>1 DEF SubscriptionPreConsume
  <2>2. CASE Start(r) \/ HasActiveUserSubscription(r) \/ TryWallet(r)
    BY <1>2, <2>2 DEF Start, HasActiveUserSubscription, TryWallet
  <2>3. CASE PreConsumeTokenCheck(r) \/ PreConsumeTokenQuota(r)
               \/ WalletPreConsume(r) \/ RollbackToken(r)
    BY <1>2, <2>3 DEF PreConsumeTokenCheck, PreConsumeTokenQuota, WalletPreConsume,
                RollbackToken
  <2> QED BY <1>3, <2>1, <2>2, <2>3 DEF PreConsumeStep
<1>4. CASE ReserveStep(r)
    BY <1>1, <1>2, <1>4 DEF ReserveStep, Reserve, ReserveFunding, ReserveTokenCheck,
       ReserveToken, RollbackFundingReserve
<1>5. CASE SettleStep(r)
    BY <1>1, <1>2, <1>5 DEF SettleStep, Settle, SettleFunding, SettleToken
<1>6. CASE RefundStep(r)
    BY <1>1, <1>2, <1>6 DEF RefundStep, WalletRefund, SubscriptionRefund, MarkRefunded,
       RefundExtraReserved, RefundToken
<1>7. CASE Refund(r) \/ Finish(r)
    BY <1>2, <1>7 DEF Refund, Finish
<1> QED BY <1>3, <1>4, <1>5, <1>6, <1>7 DEF Step

\* A request none of whose statements failed never has more returned to the subscription
\* than it took from it.
CleanTakes == \A r \in Requests : Clean(r) => subCharged[r] \in Nat

LEMMA CleanTakesHolds == IInv => CleanTakes
<1> SUFFICES ASSUME TypeOK, NEW r \in Requests, SessionInv(r), Clean(r)
             PROVE  subCharged[r] \in Nat
    BY DEF IInv, CleanTakes
<1>1. /\ subCharged[r] \in Int /\ userCharged[r] \in Int /\ sess[r].pre \in Nat /\ sess[r].extra \in Nat
      /\ sess[r].delta \in Int /\ sess[r].src \in {"wallet", "sub"} /\ pc[r] \in Steps
      /\ sess[r].settled \in BOOLEAN /\ sess[r].refunded \in BOOLEAN
    BY DEF TypeOK, SessionType
<1>2. CASE pc[r] \in PreSteps \/ sess[r].src = "wallet"
    BY <1>1, <1>2 DEF SessionInv, FundInv
<1>3. CASE pc[r] \notin PreSteps /\ sess[r].src = "sub"
  <2>1. FundCharged(r) = subCharged[r]
    BY <1>1, <1>3 DEF SessionInv, FundInv, FundCharged
  <2>2. FundCharged(r) \in Nat
    BY <1>1, <1>3 DEF SessionInv, ControlInv, CleanInv, Steps
  <2> QED BY <2>1, <2>2
<1> QED BY <1>1, <1>2, <1>3

\* The booking of a subscription by the requests that share it: without failing
\* statements its usage is the sum of what they hold or have paid, so that the clamp at
\* zero of PostConsumeUserSubscriptionDelta never swallows part of a release.
THEOREM SubscriptionConservedHolds == Spec => []SubscriptionConserved
<1> DEFINE Total == SumFunctionOnSet(subCharged, Requests)
<1>1. Init => SubscriptionConserved
  <2> SUFFICES ASSUME Init PROVE SubscriptionConserved
    OBVIOUS
  <2>1. TypeOK
    BY InitIInv DEF IInv
  <2>2. Total = 0
    BY FiniteAssumption, SumZero DEF Init
  <2> QED BY <2>1, <2>2 DEF Init, SubscriptionConserved
<1>2. IInv /\ CleanTakes' /\ SubscriptionConserved /\ [Next]_vars => SubscriptionConserved'
  <2> SUFFICES ASSUME IInv, CleanTakes', SubscriptionConserved, [Next]_vars,
                      \A q \in Requests : Clean(q)'
               PROVE  subUsed' = Total'
    BY NextIInv DEF SubscriptionConserved, IInv
  <2>0. IInv' /\ TypeOK /\ TypeOK'
    BY NextIInv DEF IInv
  <2>1. ASSUME NEW r \in Requests, Step(r) PROVE subUsed' = Total'
    <3>1. \A q \in Requests : Clean(q)
      BY <2>0, <2>1, StepBooks
    <3>2. subUsed = Total
      BY <3>1 DEF SubscriptionConserved
    <3>3. CASE UNCHANGED <<subUsed, subCharged>>
      BY <3>2, <3>3
    <3>4. ASSUME NEW d \in Int, subUsed' = IF subUsed + d < 0 THEN 0 ELSE subUsed + d,
                 subCharged' = [subCharged EXCEPT ![r] = @ + d]
          PROVE  subUsed' = Total'
      <4>1. \A q \in Requests : subCharged'[q] \in Nat
        BY DEF CleanTakes
      <4>2. Total' = Total + d
        <5>1. \A q \in Requests : subCharged[q] \in Int /\ subCharged'[q] \in Int
          BY <2>0 DEF TypeOK
        <5>2. \A q \in Requests \ {r} : subCharged'[q] = subCharged[q]
          BY <2>0, <3>4 DEF TypeOK
        <5>3. subCharged'[r] = subCharged[r] + d
          BY <2>0, <3>4 DEF TypeOK
        <5>4. Total' = Total + subCharged'[r] - subCharged[r]
          BY <5>1, <5>2, FiniteAssumption, SumChange
        <5>5. Total \in Int
          BY <5>1, FiniteAssumption, SumType
        <5> HIDE DEF Total
        <5> QED BY <5>1, <5>3, <5>4, <5>5
      <4>3. Total' \in Nat
        BY <4>1, FiniteAssumption, SumBound
      <4>4. subUsed \in Nat
        BY <2>0 DEF TypeOK
      <4> HIDE DEF Total
      <4> QED BY <3>2, <3>4, <4>2, <4>3, <4>4
    <3> HIDE DEF Total
    <3> QED BY <2>0, <2>1, <3>3, <3>4, StepBooks
  <2>2. CASE ExpireSubscription \/ Terminating \/ UNCHANGED vars
    BY <2>2 DEF ExpireSubscription, Terminating, SubscriptionConserved, Clean
  <2> QED BY <2>1, <2>2 DEF Next
<1> QED BY <1>1, <1>2, CleanTakesHolds, SpecIInv, PTL DEF Spec

\* No later operation moves the quota of a settled request.
THEOREM SettledIsFinalHolds == Spec => SettledIsFinal
<1> DEFINE Final(r) == sess[r].settled =>
              /\ sess'[r].settled
              /\ userCharged'[r] = userCharged[r]
              /\ subCharged'[r] = subCharged[r]
              /\ tokenCharged'[r] = tokenCharged[r]
<1>1. IInv /\ [Next]_vars => [\A r \in Requests : Final(r)]_vars
  <2> SUFFICES ASSUME IInv, Next, NEW r \in Requests PROVE Final(r)
    BY DEF vars
  <2>1. ASSUME NEW q \in Requests, Step(q), q # r PROVE Final(r)
    BY <2>1, StepPreserves DEF Others
  <2>2. ASSUME Step(r), sess[r].settled PROVE Finish(r)
    <3>1. pc[r] \in {"open", "closed"} /\ ~sess[r].refunded
      BY <2>2 DEF IInv, SessionInv, ControlInv
    <3> QED BY <2>2, <3>1
            DEF Step, PreConsumeStep, ReserveStep, SettleStep, RefundStep, Start,
                HasActiveUserSubscription, TryWallet, PreConsumeTokenCheck,
                PreConsumeTokenQuota, WalletPreConsume, SubscriptionPreConsume,
                RollbackToken, Reserve, ReserveFunding, ReserveTokenCheck,
                ReserveToken, RollbackFundingReserve, Settle, SettleFunding,
                SettleToken, Refund, WalletRefund, SubscriptionRefund, MarkRefunded,
                RefundExtraReserved, RefundToken
  <2>3. ASSUME Step(r) PROVE Final(r)
    BY <2>2, <2>3 DEF Finish
  <2>4. CASE ExpireSubscription \/ Terminating
    BY <2>4 DEF ExpireSubscription, Terminating
  <2> QED BY <2>1, <2>3, <2>4 DEF Next
<1> QED BY <1>1, SpecIInv, PTL DEF Spec, SettledIsFinal

-----------------------------------------------------------------------------
(* The refinement *)

\* What the accounts of a request show, by the fields of its session.
Due(r) ==
    IF ~Clean(r) \/ pc[r] \in Asking \cup {"rejected"} \/ (pc[r] = "closed" /\ sess[r].refunded)
    THEN 0
    ELSE IF sess[r].settled THEN sess[r].settledAt ELSE sess[r].pre

Same(r) ==
    PhaseOf(r)' = PhaseOf(r) /\ Due(r)' = Due(r) /\ ExemptShown(r)' = ExemptShown(r)

\* One step of request r, seen through its phase, its amount and its exemption.
Local(r) ==
    \/ Same(r)
    \/ /\ PhaseOf(r) = "asking" /\ PhaseOf(r)' = "rejected"
       /\ Due(r)' = 0 /\ ExemptShown(r)' = ExemptShown(r)
    \/ /\ PhaseOf(r) = "asking" /\ PhaseOf(r)' = "held"
    \/ /\ PhaseOf(r) = "held" /\ ExemptShown(r)' = ExemptShown(r)
       /\ \/ PhaseOf(r)' = "held" /\ Due(r)' > Due(r)
          \/ PhaseOf(r)' = "charged"
          \/ PhaseOf(r)' = "released" /\ Due(r)' = 0
          \/ PhaseOf(r)' = "kept" /\ Due(r)' = Due(r)
    \/ /\ PhaseOf(r) \in {"asking", "held"} /\ PhaseOf(r)' = "failed"
       /\ Due(r)' = 0 /\ ExemptShown(r)' = FALSE

USE DEF Asking, Between

\* The invariant determines the charges.
LEMMA Accounts ==
    ASSUME TypeOK, NEW r \in Requests, SessionInv(r)
    PROVE  /\ FundShown(r) = Due(r) /\ Due(r) \in Nat
           /\ TokenShown(r) = IF ExemptShown(r) THEN 0 ELSE Due(r)
           /\ ExemptShown(r) \in BOOLEAN
<1>1. sess[r] \in SessionType /\ pc[r] \in Steps
    BY DEF TypeOK
<1>2. Due(r) \in Nat
    BY <1>1 DEF Due, SessionType, SessionInv, ControlInv
<1>3. FundShown(r) = Due(r)
    BY <1>1 DEF Due, FundShown, Shown, SessionType, SessionInv, ControlInv, FundInv,
                CleanInv, Clean, FundCharged, Steps
<1>4. TokenShown(r) = IF ExemptShown(r) THEN 0 ELSE Due(r)
    BY <1>1 DEF Due, TokenShown, Shown, ExemptShown, TokenShare, SessionType, SessionInv,
                ControlInv, TokenInv, CleanInv, Clean, Steps
<1>5. ExemptShown(r) \in BOOLEAN
    BY <1>1 DEF ExemptShown, SessionType
<1> QED BY <1>2, <1>3, <1>4, <1>5

USE DEF Local, Same, PhaseOf, Due, ExemptShown, Clean

\* Seen from outside, the actions of NewBillingSession and preConsume are atomic.
LEMMA PreConsumeLocal ==
    ASSUME TypeOK, NEW r \in Requests, SessionInv(r), PreConsumeStep(r)
    PROVE  Local(r)
<1>1. sess[r] \in SessionType /\ pc[r] \in Steps /\ faults[r] \in Nat
      /\ sess \in [Requests -> SessionType] /\ pc \in [Requests -> Steps]
      /\ faults \in [Requests -> 0..MaxFaults]
    BY BoundsAssumption DEF TypeOK
<1>2. ControlInv(r)
    BY DEF SessionInv
<1> USE <1>1, <1>2 DEF SessionType, ControlInv, DecreaseUserQuota, DecreaseTokenQuota, BookSubscription,
               PostConsumeUserSubscriptionDelta
<1>3. CASE Start(r)
  <2>1. pc'[r] \in {"wallet", "tokenCheck", "hasSub"} /\ faults' = faults
    BY <1>3 DEF Start
  <2> QED BY <1>3, <2>1 DEF Start
<1>4. CASE HasActiveUserSubscription(r)
    BY <1>4 DEF HasActiveUserSubscription, TrySubscription
<1>5. CASE TryWallet(r)
    BY <1>5 DEF TryWallet, TrySubscription
<1>6. CASE PreConsumeTokenCheck(r)
    BY <1>6 DEF PreConsumeTokenCheck
<1>7. CASE PreConsumeTokenQuota(r)
    BY <1>7 DEF PreConsumeTokenQuota
<1>8. CASE WalletPreConsume(r)
    BY <1>8 DEF WalletPreConsume
<1>9. CASE SubscriptionPreConsume(r)
    BY <1>9 DEF SubscriptionPreConsume
<1>10. CASE RollbackToken(r)
    BY <1>10 DEF RollbackToken, AfterUndo
<1> QED BY <1>3, <1>4, <1>5, <1>6, <1>7, <1>8, <1>9, <1>10 DEF PreConsumeStep

\* Seen from outside, the actions of Reserve are atomic.
LEMMA ReserveLocal ==
    ASSUME TypeOK, NEW r \in Requests, SessionInv(r), ReserveStep(r)
    PROVE  Local(r)
<1>1. sess[r] \in SessionType /\ pc[r] \in Steps /\ faults[r] \in Nat
      /\ sess \in [Requests -> SessionType] /\ pc \in [Requests -> Steps]
      /\ faults \in [Requests -> 0..MaxFaults]
    BY BoundsAssumption DEF TypeOK
<1>2. ControlInv(r)
    BY DEF SessionInv
<1> USE <1>1, <1>2 DEF SessionType, ControlInv, DecreaseUserQuota, DecreaseTokenQuota, BookSubscription,
               PostConsumeUserSubscriptionDelta
<1>3. ASSUME NEW target \in Targets, Reserve(r, target) PROVE Local(r)
    BY <1>3 DEF Reserve
<1>4. CASE ReserveFunding(r)
    BY <1>4 DEF ReserveFunding
<1>5. CASE ReserveTokenCheck(r)
    BY <1>5 DEF ReserveTokenCheck, Reserved
<1>6. CASE ReserveToken(r)
    BY <1>6 DEF ReserveToken, Reserved
<1>7. CASE RollbackFundingReserve(r)
    BY <1>7 DEF RollbackFundingReserve
<1> QED BY <1>3, <1>4, <1>5, <1>6, <1>7 DEF ReserveStep

\* Seen from outside, the actions of Settle are atomic.
LEMMA SettleLocal ==
    ASSUME TypeOK, NEW r \in Requests, SessionInv(r), SettleStep(r)
    PROVE  Local(r)
<1>1. sess[r] \in SessionType /\ pc[r] \in Steps /\ faults[r] \in Nat
      /\ sess \in [Requests -> SessionType] /\ pc \in [Requests -> Steps]
      /\ faults \in [Requests -> 0..MaxFaults]
    BY BoundsAssumption DEF TypeOK
<1>2. ControlInv(r)
    BY DEF SessionInv
<1> USE <1>1, <1>2 DEF SessionType, ControlInv, DecreaseUserQuota, DecreaseTokenQuota, BookSubscription,
               PostConsumeUserSubscriptionDelta
<1>3. ASSUME NEW actual \in Actuals, Settle(r, actual) PROVE Local(r)
    BY <1>3 DEF Settle
<1>4. CASE SettleFunding(r)
    BY <1>4 DEF SettleFunding
<1>5. CASE SettleToken(r)
    BY <1>5 DEF SettleToken
<1> QED BY <1>3, <1>4, <1>5 DEF SettleStep

\* Seen from outside, the actions of Refund are atomic.
LEMMA RefundLocal ==
    ASSUME TypeOK, NEW r \in Requests, SessionInv(r), RefundStep(r)
    PROVE  Local(r)
<1>1. sess[r] \in SessionType /\ pc[r] \in Steps /\ faults[r] \in Nat
      /\ sess \in [Requests -> SessionType] /\ pc \in [Requests -> Steps]
      /\ faults \in [Requests -> 0..MaxFaults]
    BY BoundsAssumption DEF TypeOK
<1>2. ControlInv(r)
    BY DEF SessionInv
<1> USE <1>1, <1>2 DEF SessionType, ControlInv, DecreaseUserQuota, DecreaseTokenQuota, BookSubscription,
               PostConsumeUserSubscriptionDelta
<1>3. CASE WalletRefund(r)
    BY <1>3 DEF WalletRefund
<1>4. CASE SubscriptionRefund(r)
    BY <1>4 DEF SubscriptionRefund, RetryRefund
<1>5. CASE MarkRefunded(r)
    BY <1>5 DEF MarkRefunded, RetryRefund
<1>6. CASE RefundExtraReserved(r)
    BY <1>6 DEF RefundExtraReserved
<1>7. CASE RefundToken(r)
    BY <1>7 DEF RefundToken
<1> QED BY <1>3, <1>4, <1>5, <1>6, <1>7 DEF RefundStep

\* Refund starts and Finish ends a session.
LEMMA EndLocal ==
    ASSUME TypeOK, NEW r \in Requests, SessionInv(r), Refund(r) \/ Finish(r)
    PROVE  Local(r)
<1>1. sess[r] \in SessionType /\ pc[r] \in Steps
      /\ sess \in [Requests -> SessionType] /\ pc \in [Requests -> Steps]
    BY DEF TypeOK
<1>2. ControlInv(r)
    BY DEF SessionInv
<1>3. CASE Refund(r)
    BY <1>1, <1>2, <1>3 DEF SessionType, ControlInv, Refund, NeedsRefund
<1>4. CASE Finish(r)
    BY <1>1, <1>2, <1>4 DEF SessionType, ControlInv, Finish
<1> QED BY <1>3, <1>4

\* A step of a request, seen through the mapping.
LEMMA StepLocal ==
    ASSUME TypeOK, NEW r \in Requests, SessionInv(r), Step(r)
    PROVE  Local(r)
BY PreConsumeLocal, ReserveLocal, SettleLocal, RefundLocal, EndLocal DEF Step

\* The accounts of every request, as Accounts gives them.
dueBar == [r \in Requests |-> Due(r)]

AllAccounts ==
    /\ fundBar = dueBar /\ dueBar \in [Requests -> Nat]
    /\ tokenBar = [r \in Requests |-> IF exemptBar[r] THEN 0 ELSE dueBar[r]]
    /\ exemptBar \in [Requests -> BOOLEAN]

\* A step that request r alone takes changes the mapped variables at r alone.
LEMMA Lift ==
    ASSUME AllAccounts, AllAccounts', NEW r \in Requests, Local(r), Others(r)
    PROVE  [Abstract!Next]_(Abstract!vars)
<1> DEFINE d == Due(r)'
           x == ExemptShown(r)'
<1>1. ASSUME NEW q \in Requests, q # r
      PROVE  phaseBar'[q] = phaseBar[q] /\ dueBar'[q] = dueBar[q] /\ exemptBar'[q] = exemptBar[q]
    BY <1>1 DEF Others, phaseBar, dueBar, exemptBar
<1>2. /\ phaseBar[r] = PhaseOf(r) /\ phaseBar'[r] = PhaseOf(r)'
      /\ dueBar[r] = Due(r) /\ dueBar'[r] = d
      /\ exemptBar[r] = ExemptShown(r) /\ exemptBar'[r] = x
    BY DEF phaseBar, dueBar, exemptBar
<1>3. /\ phaseBar' = [phaseBar EXCEPT ![r] = PhaseOf(r)']
      /\ fundBar' = [fundBar EXCEPT ![r] = d]
      /\ tokenBar' = [tokenBar EXCEPT ![r] = IF x THEN 0 ELSE d]
      /\ exemptBar' = [exemptBar EXCEPT ![r] = x]
  <2>1. /\ phaseBar = [q \in Requests |-> phaseBar[q]]
        /\ phaseBar' = [q \in Requests |-> phaseBar'[q]]
    BY DEF phaseBar
  <2> HIDE DEF PhaseOf, Due, ExemptShown, Local, d, x
  <2>2. phaseBar' = [phaseBar EXCEPT ![r] = PhaseOf(r)']
    BY <1>1, <1>2, <2>1
  <2>3. dueBar' = [dueBar EXCEPT ![r] = d] /\ exemptBar' = [exemptBar EXCEPT ![r] = x]
    BY <1>1, <1>2 DEF AllAccounts
  <2>4. tokenBar' = [tokenBar EXCEPT ![r] = IF x THEN 0 ELSE d]
    BY <1>1, <1>2 DEF AllAccounts
  <2> QED BY <2>2, <2>3, <2>4 DEF AllAccounts
<1>a. fundBar[r] = Due(r) /\ fundBar'[r] = d /\ d \in Nat /\ x \in BOOLEAN
    BY <1>2 DEF AllAccounts
<1> HIDE DEF PhaseOf, Due, ExemptShown
<1>4. CASE Same(r)
  <2>1. UNCHANGED <<phaseBar, fundBar, tokenBar, exemptBar>>
    <3>1. phaseBar' = phaseBar
      <4> phaseBar = [q \in Requests |-> phaseBar[q]]
        BY DEF phaseBar
      <4> QED BY <1>2, <1>3, <1>4
    <3>2. dueBar' = dueBar
      BY <1>2, <1>3, <1>4 DEF AllAccounts
    <3>3. exemptBar' = exemptBar
      BY <1>2, <1>3, <1>4 DEF AllAccounts
    <3> QED BY <3>1, <3>2, <3>3 DEF AllAccounts
  <2> QED BY <2>1 DEF Abstract!vars
<1>5. ASSUME ExemptShown(r)' = ExemptShown(r) PROVE UNCHANGED exemptBar
    BY <1>2, <1>3, <1>5 DEF exemptBar
<1> USE DEF Abstract!Move, Abstract!Share, Abstract!Next
<1>6. CASE /\ PhaseOf(r) = "asking" /\ PhaseOf(r)' = "rejected"
           /\ d = 0 /\ x = ExemptShown(r)
  <2>1. Abstract!Reject(r)
    BY <1>2, <1>3, <1>a, <1>5, <1>6 DEF Abstract!Reject
  <2> QED BY <2>1
<1>7. CASE PhaseOf(r) = "asking" /\ PhaseOf(r)' = "held"
  <2>1. Abstract!Hold(r)
    BY <1>2, <1>3, <1>a, <1>7 DEF Abstract!Hold
  <2> QED BY <2>1
<1>8. CASE PhaseOf(r) = "held" /\ x = ExemptShown(r) /\ PhaseOf(r)' = "held" /\ d > Due(r)
  <2>1. Abstract!Raise(r)
    BY <1>2, <1>3, <1>a, <1>5, <1>8 DEF Abstract!Raise
  <2> QED BY <2>1
<1>9. CASE PhaseOf(r) = "held" /\ x = ExemptShown(r) /\ PhaseOf(r)' = "charged"
  <2>1. Abstract!Charge(r)
    BY <1>2, <1>3, <1>a, <1>5, <1>9 DEF Abstract!Charge
  <2> QED BY <2>1
<1>10. CASE PhaseOf(r) = "held" /\ x = ExemptShown(r) /\ PhaseOf(r)' = "released" /\ d = 0
  <2>1. Abstract!Release(r)
    BY <1>2, <1>3, <1>a, <1>5, <1>10 DEF Abstract!Release
  <2> QED BY <2>1
<1>11. CASE PhaseOf(r) = "held" /\ x = ExemptShown(r) /\ PhaseOf(r)' = "kept" /\ d = Due(r)
  <2>1. Abstract!Keep(r)
    BY <1>2, <1>3, <1>a, <1>5, <1>11 DEF Abstract!Keep
  <2> QED BY <2>1
<1>12. CASE PhaseOf(r) \in {"asking", "held"} /\ PhaseOf(r)' = "failed" /\ d = 0 /\ x = FALSE
  <2>1. Abstract!Fail(r)
    BY <1>2, <1>3, <1>a, <1>12 DEF Abstract!Fail, Abstract!Running
  <2> QED BY <2>1
<1> HIDE DEF Same
<1> QED BY <1>4, <1>6, <1>7, <1>8, <1>9, <1>10, <1>11, <1>12

\* The mapped initial state is the abstract one.
LEMMA InitMaps == Init => Abstract!Init
<1> SUFFICES ASSUME Init PROVE Abstract!Init
    OBVIOUS
<1>1. pc = [r \in Requests |-> "new"] /\ faults = [r \in Requests |-> 0]
    BY DEF Init
<1>2. phaseBar = [r \in Requests |-> "asking"]
    BY <1>1 DEF phaseBar
<1>3. fundBar = [r \in Requests |-> 0]
    BY <1>1 DEF fundBar, FundShown, Shown, FundCharged
<1>4. tokenBar = [r \in Requests |-> 0]
    BY <1>1 DEF tokenBar, TokenShown, Shown, TokenShare
<1>5. exemptBar = [r \in Requests |-> FALSE]
    BY <1>1 DEF exemptBar
<1> QED BY <1>2, <1>3, <1>4, <1>5 DEF Abstract!Init

\* Every step of the billing sessions is a step of the abstract specification or
\* changes nothing it sees.
LEMMA NextMaps ==
    IInv /\ AllAccounts /\ AllAccounts' /\ [Next]_vars => [Abstract!Next]_(Abstract!vars)
<1> SUFFICES ASSUME IInv, AllAccounts, AllAccounts', [Next]_vars
             PROVE  [Abstract!Next]_(Abstract!vars)
    OBVIOUS
<1>1. ASSUME NEW r \in Requests, Step(r) PROVE [Abstract!Next]_(Abstract!vars)
  <2>1. Local(r) /\ Others(r)
    BY <1>1, StepLocal, StepPreserves DEF IInv
  <2> QED BY <2>1, Lift
<1>2. CASE ExpireSubscription \/ Terminating \/ UNCHANGED vars
  <2>1. UNCHANGED <<pc, sess, faults, userCharged, subCharged, tokenCharged>>
    BY <1>2 DEF ExpireSubscription, Terminating
  <2>2. UNCHANGED <<phaseBar, fundBar, tokenBar, exemptBar>>
    BY <2>1 DEF phaseBar, fundBar, tokenBar, exemptBar, FundShown, TokenShown, Shown,
                FundCharged, TokenShare
  <2> QED BY <2>2 DEF Abstract!vars
<1> QED BY <1>1, <1>2 DEF Next

\* The billing session implements the atomic account of RequestCharge, for any
\* requests, amounts, preferences and faults (billing_session.go: preConsume,
\* Reserve, Settle and Refund with their roll-backs).
THEOREM Refinement == Spec => ImplementsCharge
<1>1. IInv => AllAccounts
    BY Accounts DEF IInv, AllAccounts, fundBar, tokenBar, exemptBar, dueBar
<1> QED BY <1>1, InitMaps, NextMaps, SpecIInv, PTL DEF Spec, ImplementsCharge, Abstract!Spec
-----------------------------------------------------------------------------
(***************************************************************************)
(* The realtime session, for any amounts, hold and number of messages.     *)
(* The reader and the handler may overwrite each other's updates of the    *)
(* sum, and a charge is computed from what the counter holds when it is    *)
(* made, so the invariant ties the bill of a reported usage to the object  *)
(* only the reader writes (UsageBill), and is about lower bounds:          *)
(* SumCovers for every value of the sum that is stored or about to be,     *)
(* UsagePaid for what the charges took.                                    *)
(***************************************************************************)

\* The reader is charging a reported usage.
Billing == at.reader \in BillSteps /\ bill["reader"].counter = "usage"

\* The bill of a reported usage is for the object usage points to, which only the
\* reader writes: what is summed and what is charged are what it holds.
UsageBill ==
    Billing =>
        /\ bill["reader"].object = Pointer("usage")
        /\ at.reader = "store" => bill["reader"].counted = Latest("usage")
        /\ at.reader = "charge" => bill["reader"].amount = Latest("usage")

\* Every value of the sum that is stored, or will be stored by a bill under way,
\* covers the finished responses; while the handler waits, the bill the reader has
\* added is in the sum although it is not finished.
SumCovers ==
    /\ sumUsage >= finished
    /\ \A t \in Threads : at[t] = "store" => bill[t].seen >= finished
    /\ at.main = "select" /\ Billing /\ at.reader \in {"lookup", "check", "charge"} =>
          sumUsage >= finished + Latest("usage")
    /\ at.main \in {"settling", "settled", "closed"} => bill["main"].amount >= finished

\* What the charges took: the hold is not yet in it before the settlement.
Taken == IF at.main \in {"settled", "closed"} THEN Paid ELSE Paid - Hold

\* The reported usage the reader has not taken yet.
Unpaid == IF Billing THEN Latest("usage") ELSE 0

\* Unless a charge was refused, usage holds what the reader is charging and
\* nothing else, and the reported usage is taken up to that.
UsagePaid ==
    ~refused =>
        /\ Latest("usage") = 0 \/ Billing \/ at.reader = "clearUsage"
        /\ Taken + Unpaid >= reported

RealtimeInv == RealtimeTypeOK /\ UsageBill /\ SumCovers /\ UsagePaid

BillType ==
    [counter : Counters, object : Nat, seen : Nat, counted : Nat, userQuota : Int, amount : Nat]

-----------------------------------------------------------------------------
(* The objects of the counters. *)

\* What the steps below may use of the types.
LEMMA ObjectTypes ==
  ASSUME RealtimeTypeOK
  PROVE  /\ \A c \in Counters : objects[c] \in Seq(Nat) /\ Pointer(c) \in Nat \ {0} /\ Latest(c) \in Nat
         /\ \A t \in Threads : bill[t] \in BillType /\ Tokens(t) \in Nat
  <1>1. ASSUME NEW c \in Counters PROVE objects[c] \in Seq(Nat) /\ Pointer(c) \in Nat \ {0}
    BY DEF RealtimeTypeOK, Pointer
  <1>2. ASSUME NEW c \in Counters PROVE Latest(c) \in Nat
    BY <1>1 DEF Latest, Pointer
  <1>3. ASSUME NEW t \in Threads PROVE bill[t] \in BillType
    BY DEF RealtimeTypeOK, BillType
  <1>4. ASSUME NEW t \in Threads PROVE Tokens(t) \in Nat
    <2>1. bill[t].counter \in Counters /\ bill[t].object \in 1 .. Pointer(bill[t].counter)
      BY <1>3 DEF RealtimeTypeOK, BillType
    <2>2. QED
      BY <1>1, <2>1 DEF Tokens, Pointer
  <1>5. QED
    BY <1>1, <1>2, <1>3, <1>4

\* A fresh object is the last of its counter.
LEMMA Replaced ==
  ASSUME RealtimeTypeOK, NEW c \in Counters, Replace(c)
  PROVE  /\ objects' \in [Counters -> Seq(Nat)] /\ \A d \in Counters : objects'[d] # <<>>
         /\ \A d \in Counters : Pointer(d)' >= Pointer(d)
         /\ Latest(c)' = 0
         /\ \A d \in Counters \ {c} : objects'[d] = objects[d]
  <1>1. objects \in [Counters -> Seq(Nat)] /\ \A d \in Counters : objects[d] # <<>>
    BY DEF RealtimeTypeOK
  <1>2. \A d \in Counters \ {c} : objects'[d] = objects[d]
    BY <1>1 DEF Replace
  <1>3. PICK s \in Seq(Nat) : s = objects[c]
    BY <1>1
  <1>4. objects'[c] = Append(s, 0)
    BY <1>1, <1>3 DEF Replace
  <1>5. Append(s, 0) \in Seq(Nat) /\ Len(Append(s, 0)) = Len(s) + 1 /\ Append(s, 0)[Len(s) + 1] = 0
    OBVIOUS
  <1>6. objects' \in [Counters -> Seq(Nat)]
    BY <1>1, <1>2, <1>4, <1>5 DEF Replace
  <1>7. objects'[c] # <<>> /\ Pointer(c)' = Pointer(c) + 1 /\ Latest(c)' = 0 /\ Pointer(c) \in Nat
    BY <1>3, <1>4, <1>5 DEF Pointer, Latest
  <1>8. ASSUME NEW d \in Counters PROVE objects'[d] # <<>> /\ Pointer(d)' >= Pointer(d)
    <2>1. CASE d = c
      BY <1>7, <2>1
    <2>2. CASE d # c
      <3>1. objects'[d] = objects[d] /\ Len(objects[d]) \in Nat
        BY <1>1, <1>2, <2>2
      <3>2. QED
        BY <1>1, <3>1 DEF Pointer
    <2>3. QED
      BY <2>1, <2>2
  <1>9. QED
    BY <1>2, <1>6, <1>7, <1>8

\* An object that is written keeps its place.
LEMMA Written ==
  ASSUME RealtimeTypeOK, NEW c \in Counters, NEW k \in Nat, NEW v \in Nat,
         objects' = [objects EXCEPT ![c][k] = v]
  PROVE  /\ objects' \in [Counters -> Seq(Nat)] /\ \A d \in Counters : objects'[d] # <<>>
         /\ \A d \in Counters : Pointer(d)' = Pointer(d)
         /\ k = Pointer(c) => Latest(c)' = v
         /\ \A d \in Counters \ {c} : objects'[d] = objects[d]
  <1>1. objects \in [Counters -> Seq(Nat)] /\ \A d \in Counters : objects[d] # <<>>
    BY DEF RealtimeTypeOK
  <1>2. \A d \in Counters \ {c} : objects'[d] = objects[d]
    BY <1>1
  <1>3. PICK s \in Seq(Nat) : s = objects[c]
    BY <1>1
  <1>4. PICK u : u = [s EXCEPT ![k] = v]
    OBVIOUS
  <1>5. objects'[c] = u
    BY <1>1, <1>3, <1>4
  <1>6. u \in Seq(Nat) /\ Len(u) = Len(s)
    <2>1. s \in [1 .. Len(s) -> Nat] /\ Len(s) \in Nat
      OBVIOUS
    <2>2. u \in [1 .. Len(s) -> Nat]
      BY <1>4, <2>1
    <2>3. QED
      BY <2>1, <2>2
  <1>7. k \in 1 .. Len(s) => u[k] = v
    BY <1>4
  <1>8. Len(s) \in Nat /\ Len(s) # 0
    BY <1>1, <1>3
  <1>9. objects' \in [Counters -> Seq(Nat)]
    BY <1>1, <1>2, <1>5, <1>6
  <1>10. Pointer(c)' = Pointer(c) /\ Pointer(c) = Len(s) /\ objects'[c] # <<>>
    BY <1>3, <1>5, <1>6, <1>8 DEF Pointer
  <1>11. k = Pointer(c) => Latest(c)' = v
    <2>1. Latest(c)' = u[Len(s)]
      BY <1>5, <1>10 DEF Latest
    <2>2. QED
      BY <1>7, <1>8, <1>10, <2>1
  <1>12. ASSUME NEW d \in Counters PROVE objects'[d] # <<>> /\ Pointer(d)' = Pointer(d)
    BY <1>1, <1>2, <1>10 DEF Pointer
  <1>13. QED
    BY <1>2, <1>9, <1>11, <1>12

-----------------------------------------------------------------------------
(* Types, one lemma per group of actions. *)

AddType == [object : 0 .. Pointer("localUsage"), total : Nat]

\* The session starts with nothing counted and the hold taken.
LEMMA RealtimeStarts == ASSUME RealtimeInit PROVE RealtimeInv
  <1> USE TokensAssumption DEF RealtimeInit, Threads, Counters, NoBill, NoAdd
  <1>1. objects \in [Counters -> Seq(Nat)] /\ \A c \in Counters : objects[c] # <<>>
    OBVIOUS
  <1>2. Pointer("usage") = 1 /\ Pointer("localUsage") = 1 /\ Latest("usage") = 0
    BY DEF Pointer, Latest
  <1>3. RealtimeTypeOK
    <2>1. bill \in [Threads -> BillType] /\ \A t \in Threads : bill[t].object \in 1 .. Pointer(bill[t].counter)
      BY <1>2 DEF BillType
    <2>2. at \in [reader : ReaderSteps, main : MainSteps]
      BY DEF ReaderSteps, MainSteps
    <2>3. adding \in [{"client", "reader"} -> AddType]
      BY <1>2 DEF AddType
    <2>4. quota \in Nat /\ Hold \in Nat
      OBVIOUS
    <2>5. wallet \in Int
      BY <2>4
    <2>6. QED
      BY <1>1, <2>1, <2>2, <2>3, <2>4, <2>5 DEF RealtimeTypeOK, BillType, AddType
  <1>4. ~Billing
    BY DEF Billing, BillSteps
  <1>5. SumCovers /\ UsageBill
    BY <1>4 DEF SumCovers, UsageBill
  <1>6. UsagePaid
    BY <1>2, <1>4 DEF UsagePaid, Unpaid, Taken, Paid
  <1>7. QED
    BY <1>3, <1>5, <1>6 DEF RealtimeInv

\* The counters may grow: what is added to or billed stays an object.
LEMMA TypedObjects ==
  ASSUME RealtimeTypeOK,
         objects' \in [Counters -> Seq(Nat)], \A c \in Counters : objects'[c] # <<>>,
         \A c \in Counters : Pointer(c)' >= Pointer(c),
         adding' \in [{"client", "reader"} -> AddType],
         bill' \in [Threads -> BillType],
         \A t \in Threads : bill'[t].object \in 1 .. Len(objects[bill'[t].counter]),
         {sumUsage, quota, received, reported, finished}' \subseteq Nat,
         wallet' \in Int, at' \in [reader : ReaderSteps, main : MainSteps], refused' \in BOOLEAN
  PROVE  RealtimeTypeOK'
  <1> USE DEF Counters, Threads
  <1>1. ASSUME NEW c \in Counters
        PROVE  Len(objects[c]) \in Nat /\ Len(objects'[c]) \in Nat /\ Len(objects'[c]) >= Len(objects[c])
    <2>1. objects[c] \in Seq(Nat) /\ objects'[c] \in Seq(Nat)
      BY DEF RealtimeTypeOK
    <2>2. Len(objects[c]) \in Nat /\ Len(objects'[c]) \in Nat
      BY <2>1
    <2>3. Pointer(c) = Len(objects[c]) /\ Pointer(c)' = Len(objects'[c]) /\ Pointer(c)' >= Pointer(c)
      BY DEF Pointer
    <2>4. QED
      BY <2>2, <2>3
  <1>2. adding' \in [{"client", "reader"} -> AddType']
    <2>1. AddType \subseteq AddType'
      <3>1. 0 .. Len(objects["localUsage"]) \subseteq 0 .. Len(objects'["localUsage"])
        BY <1>1
      <3>2. PICK S, T : S = 0 .. Len(objects["localUsage"]) /\ T = 0 .. Len(objects'["localUsage"])
        OBVIOUS
      <3>3. AddType = [object : S, total : Nat] /\ AddType' = [object : T, total : Nat] /\ S \subseteq T
        BY <3>1, <3>2 DEF AddType, Pointer
      <3>4. QED
        BY <3>3
    <2>2. QED
      BY <2>1
  <1>3. ASSUME NEW t \in Threads PROVE bill'[t].object \in 1 .. Len(objects'[bill'[t].counter])
    <2>1. bill'[t].counter \in Counters
      BY DEF BillType
    <2>2. PICK c \in Counters : c = bill'[t].counter
      BY <2>1
    <2>3. bill'[t].object \in 1 .. Len(objects[c])
      BY <2>2
    <2>4. bill'[t].object \in 1 .. Len(objects'[c])
      BY <1>1, <2>3
    <2>5. QED
      BY <2>2, <2>4
  <1>4. adding' \in [{"client", "reader"} -> [object : 0 .. Pointer("localUsage")', total : Nat]]
    BY <1>2 DEF AddType
  <1>5. QED
    BY <1>3, <1>4 DEF RealtimeTypeOK, BillType, Pointer

\* A bill that is made out or changed is for an object of its counter.
LEMMA TypedBillOf ==
  ASSUME RealtimeTypeOK, NEW t \in Threads, NEW b \in BillType,
         b.object \in 1 .. Len(objects[b.counter]), bill' = [bill EXCEPT ![t] = b]
  PROVE  /\ bill' \in [Threads -> BillType]
         /\ \A u \in Threads : bill'[u].object \in 1 .. Len(objects[bill'[u].counter])
  <1>1. bill \in [Threads -> BillType] /\ \A u \in Threads : bill[u].object \in 1 .. Len(objects[bill[u].counter])
    BY DEF RealtimeTypeOK, BillType, Pointer
  <1>2. bill' \in [Threads -> BillType] /\ \A u \in Threads : bill'[u] = IF u = t THEN b ELSE bill[u]
    BY <1>1
  <1>3. QED
    BY <1>1, <1>2

\* A bill is started for the object a counter points to.
LEMMA TypedStart ==
  ASSUME RealtimeTypeOK, NEW t \in Threads, NEW c \in Counters, StartBill(t, c, Pointer(c))
  PROVE  /\ bill' \in [Threads -> BillType]
         /\ \A u \in Threads : bill'[u].object \in 1 .. Len(objects[bill'[u].counter])
         /\ bill'[t].counter = c /\ bill'[t].object = Pointer(c)
         /\ \A u \in Threads \ {t} : bill'[u] = bill[u] /\ at'[u] = at[u]
         /\ at'[t] = "add" /\ at' \in [reader : ReaderSteps, main : MainSteps]
  <1>1. PICK k : k = Pointer(c)
    OBVIOUS
  <1>2. k \in Nat /\ k \in 1 .. Len(objects[c])
    BY <1>1, ObjectTypes DEF Pointer
  <1>3. PICK b : b = [NoBill EXCEPT !.counter = c, !.object = k]
    OBVIOUS
  <1>4. b \in BillType /\ b.counter = c /\ b.object = k
    <2>1. b = [counter |-> c, object |-> k, seen |-> 0, counted |-> 0, userQuota |-> 0, amount |-> 0]
      BY <1>3 DEF NoBill
    <2>2. QED
      BY <1>2, <2>1 DEF BillType
  <1>5. bill' = [bill EXCEPT ![t] = b] /\ at' = [at EXCEPT ![t] = "add"]
    BY <1>1, <1>3 DEF StartBill
  <1>6. bill \in [Threads -> BillType]
    BY DEF RealtimeTypeOK, BillType
  <1>7. /\ \A u \in Threads \ {t} : at'[u] = at[u]
        /\ at'[t] = "add" /\ at' \in [reader : ReaderSteps, main : MainSteps]
    BY <1>5 DEF Threads, ReaderSteps, MainSteps, BillSteps, RealtimeTypeOK
  <1>8. \A u \in Threads \ {t} : bill'[u] = bill[u]
    BY <1>5, <1>6
  <1>9. bill'[t] = b
    BY <1>5, <1>6
  <1>10. QED
    BY <1>1, <1>2, <1>4, <1>5, <1>7, <1>8, <1>9, TypedBillOf

\* The increments under way.
LEMMA TypedAdding ==
  ASSUME RealtimeTypeOK
  PROVE  /\ adding \in [{"client", "reader"} -> AddType]
         /\ NoAdd \in AddType
         /\ \A w \in {"client", "reader"} : adding[w].object \in Nat /\ adding[w].total \in Nat
  <1>1. adding \in [{"client", "reader"} -> AddType]
    BY DEF RealtimeTypeOK, AddType
  <1>2. PICK P \in Nat : P = Pointer("localUsage")
    BY ObjectTypes DEF Counters
  <1>3. AddType = [object : 0 .. P, total : Nat]
    BY <1>2 DEF AddType
  <1>4. NoAdd \in AddType
    BY <1>3 DEF NoAdd
  <1>5. QED
    BY <1>1, <1>3, <1>4

\* A message is counted: only the increment under way changes.
LEMMA TypedCounts ==
  ASSUME RealtimeTypeOK, NEW n \in Nat,
         ClientMessage(n) \/ OutputDelta(n) \/ ResponseUnreported(n)
  PROVE  RealtimeTypeOK'
  <1> USE DEF Counters, Threads
  <1>1. PICK w \in {"client", "reader"} : Load(w, n)
    BY DEF ClientMessage, OutputDelta, ResponseUnreported, ReaderCounts
  <1>2. UNCHANGED <<objects, sumUsage, account, bill, reported, finished, refused>>
    BY DEF ClientMessage, OutputDelta, ResponseUnreported, ReaderCounts
  <1>3. received' = received + 1
    BY DEF ClientMessage, OutputDelta, ResponseUnreported, ReaderCounts
  <1>4. at' \in [reader : ReaderSteps, main : MainSteps]
    BY DEF ClientMessage, OutputDelta, ResponseUnreported, ReaderCounts, ReaderSteps, RealtimeTypeOK
  <1>5. Pointer("localUsage") \in Nat /\ Latest("localUsage") + n \in Nat
    BY ObjectTypes
  <1>6. adding' \in [{"client", "reader"} -> AddType]
    <2>1. PICK a : a = [object |-> Pointer("localUsage"), total |-> Latest("localUsage") + n]
      OBVIOUS
    <2>2. a \in AddType
      BY <1>5, <2>1 DEF AddType
    <2>3. adding' = [adding EXCEPT ![w] = a]
      BY <1>1, <2>1 DEF Load
    <2>4. QED
      BY <2>2, <2>3, TypedAdding
  <1>7. \A c \in Counters : Pointer(c)' >= Pointer(c)
    BY <1>2, ObjectTypes DEF Pointer
  <1>8. bill' \in [Threads -> BillType] /\ \A t \in Threads : bill'[t].object \in 1 .. Len(objects[bill'[t].counter])
    BY <1>2 DEF RealtimeTypeOK, BillType, Pointer
  <1>9. {sumUsage, quota, received, reported, finished}' \subseteq Nat
    <2>1. sumUsage \in Nat /\ quota \in Nat /\ received \in Nat /\ reported \in Nat /\ finished \in Nat
      BY DEF RealtimeTypeOK
    <2>2. QED
      BY <1>2, <1>3, <2>1 DEF account
  <1>10. wallet' \in Int /\ refused' \in BOOLEAN
    BY <1>2 DEF RealtimeTypeOK, account
  <1>11. objects' \in [Counters -> Seq(Nat)] /\ \A c \in Counters : objects'[c] # <<>>
    BY <1>2 DEF RealtimeTypeOK
  <1>12. QED
    BY <1>4, <1>6, <1>7, <1>8, <1>9, <1>10, <1>11, TypedObjects

\* An increment is stored.
LEMMA TypedStores ==
  ASSUME RealtimeTypeOK, ClientStore \/ DeltaStore \/ UnreportedStore
  PROVE  RealtimeTypeOK' /\ objects'["usage"] = objects["usage"]
  <1> USE DEF Counters, Threads
  <1>1. PICK w \in {"client", "reader"} : Store(w)
    BY DEF ClientStore, DeltaStore, UnreportedStore
  <1>2. adding[w].object \in Nat /\ adding[w].total \in Nat
    BY TypedAdding
  <1>3. /\ objects' \in [Counters -> Seq(Nat)] /\ \A d \in Counters : objects'[d] # <<>>
        /\ \A d \in Counters : Pointer(d)' = Pointer(d)
        /\ objects'["usage"] = objects["usage"]
    BY <1>1, <1>2, Written DEF Store
  <1>4. adding' \in [{"client", "reader"} -> AddType]
    BY <1>1, TypedAdding DEF Store
  <1>5. /\ UNCHANGED <<sumUsage, account, history>>
        /\ UNCHANGED bill \/ StartBill("reader", "localUsage", Pointer("localUsage"))
    BY DEF ClientStore, DeltaStore, UnreportedStore
  <1>6. bill' \in [Threads -> BillType] /\ \A t \in Threads : bill'[t].object \in 1 .. Len(objects[bill'[t].counter])
    <2>1. CASE UNCHANGED bill
      BY <2>1 DEF RealtimeTypeOK, BillType, Pointer
    <2>2. CASE StartBill("reader", "localUsage", Pointer("localUsage"))
      BY <2>2, TypedStart
    <2>3. QED
      BY <1>5, <2>1, <2>2
  <1>7. at' \in [reader : ReaderSteps, main : MainSteps]
    BY DEF ClientStore, DeltaStore, UnreportedStore, StartBill, ReaderSteps, BillSteps, RealtimeTypeOK
  <1>8. \A c \in Counters : Pointer(c)' >= Pointer(c)
    BY <1>3, ObjectTypes
  <1>9. QED
    BY <1>3, <1>4, <1>5, <1>6, <1>7, <1>8, TypedObjects DEF RealtimeTypeOK, account, history

\* A reported usage is added to the object usage points to, and billed.
LEMMA TypedResponse ==
  ASSUME RealtimeTypeOK, NEW n \in Nat, ResponseDone(n)
  PROVE  /\ RealtimeTypeOK'
         /\ Pointer("usage")' = Pointer("usage") /\ Latest("usage")' = Latest("usage") + n
  <1> USE DEF Counters, Threads
  <1>1. Pointer("usage") \in Nat /\ Latest("usage") + n \in Nat
    BY ObjectTypes
  <1>2. objects' = [objects EXCEPT !["usage"][Pointer("usage")] = Latest("usage") + n]
    BY DEF ResponseDone, Latest, RealtimeTypeOK
  <1>3. /\ objects' \in [Counters -> Seq(Nat)] /\ \A d \in Counters : objects'[d] # <<>>
        /\ \A d \in Counters : Pointer(d)' = Pointer(d)
        /\ Latest("usage")' = Latest("usage") + n
    BY <1>1, <1>2, Written
  <1>4. bill' \in [Threads -> BillType] /\ \A t \in Threads : bill'[t].object \in 1 .. Len(objects[bill'[t].counter])
    BY TypedStart DEF ResponseDone
  <1>5. at' \in [reader : ReaderSteps, main : MainSteps]
    BY DEF ResponseDone, StartBill, ReaderSteps, BillSteps, RealtimeTypeOK
  <1>6. \A c \in Counters : Pointer(c)' >= Pointer(c)
    BY <1>3, ObjectTypes
  <1>7. adding' \in [{"client", "reader"} -> AddType]
    BY TypedAdding DEF ResponseDone
  <1>8. {sumUsage, quota, received, reported, finished}' \subseteq Nat
    <2>1. received' = received + 1 /\ reported' = reported + n /\ UNCHANGED <<sumUsage, quota, finished>>
      BY DEF ResponseDone, account
    <2>2. sumUsage \in Nat /\ quota \in Nat /\ received \in Nat /\ reported \in Nat /\ finished \in Nat
      BY DEF RealtimeTypeOK
    <2>3. QED
      BY <2>1, <2>2
  <1>9. wallet' \in Int /\ refused' \in BOOLEAN
    BY DEF RealtimeTypeOK, account, ResponseDone
  <1>10. QED
    BY <1>3, <1>4, <1>5, <1>6, <1>7, <1>8, <1>9, TypedObjects

\* A counter is replaced.
LEMMA TypedClear ==
  ASSUME RealtimeTypeOK, ClearUsage \/ ClearLocal
  PROVE  /\ RealtimeTypeOK'
         /\ ClearUsage => Latest("usage")' = 0
         /\ ClearLocal => objects'["usage"] = objects["usage"]
  <1> USE DEF Counters, Threads
  <1>1. PICK c \in Counters : Replace(c) /\ (ClearUsage => c = "usage") /\ (ClearLocal => c = "localUsage")
    BY DEF ClearUsage, ClearLocal
  <1>2. at' \in [reader : ReaderSteps, main : MainSteps]
    BY DEF ClearUsage, ClearLocal, ReaderSteps, RealtimeTypeOK
  <1>3. UNCHANGED <<adding, sumUsage, account, bill, history>>
    BY DEF ClearUsage, ClearLocal
  <1>4. adding' \in [{"client", "reader"} -> AddType]
    BY <1>3 DEF RealtimeTypeOK, AddType
  <1>5. bill' \in [Threads -> BillType] /\ \A t \in Threads : bill'[t].object \in 1 .. Len(objects[bill'[t].counter])
    BY <1>3 DEF RealtimeTypeOK, BillType, Pointer
  <1>6. RealtimeTypeOK'
    BY <1>1, <1>2, <1>3, <1>4, <1>5, Replaced, TypedObjects DEF RealtimeTypeOK, account, history
  <1>7. QED
    BY <1>1, <1>6, Replaced

\* The steps of the handler between its bills.
LEMMA TypedMain ==
  ASSUME RealtimeTypeOK,
         Wake \/ TestUsage \/ FlushUsage \/ TestLocal \/ FlushLocal \/ PostWssConsumeQuota \/ SettleBilling \/ Close
  PROVE  RealtimeTypeOK'
  <1> USE DEF Counters, Threads
  <1>1. UNCHANGED <<counters, quota, history>>
    BY DEF Wake, TestUsage, FlushUsage, TestLocal, FlushLocal, PostWssConsumeQuota, SettleBilling, Close, account
  <1>2. bill \in [Threads -> BillType] /\ \A t \in Threads : bill[t].object \in 1 .. Len(objects[bill[t].counter])
    BY DEF RealtimeTypeOK, BillType, Pointer
  <1>3. bill' \in [Threads -> BillType] /\ \A t \in Threads : bill'[t].object \in 1 .. Len(objects[bill'[t].counter])
    <2>1. CASE FlushUsage
      BY <2>1, TypedStart DEF FlushUsage
    <2>2. CASE FlushLocal
      BY <2>2, TypedStart DEF FlushLocal
    <2>3. CASE PostWssConsumeQuota
      <3>1. PICK b : b = [NoBill EXCEPT !.amount = sumUsage]
        OBVIOUS
      <3>2. b = [counter |-> "localUsage", object |-> 1, seen |-> 0, counted |-> 0, userQuota |-> 0, amount |-> sumUsage]
        BY <3>1 DEF NoBill
      <3>3. sumUsage \in Nat /\ 1 \in 1 .. Len(objects["localUsage"])
        BY ObjectTypes DEF RealtimeTypeOK, Pointer
      <3>4. b \in BillType /\ b.object \in 1 .. Len(objects[b.counter])
        BY <3>2, <3>3 DEF BillType
      <3>5. bill' = [bill EXCEPT !["main"] = b]
        BY <2>3, <3>1 DEF PostWssConsumeQuota
      <3>6. QED
        BY <3>4, <3>5, TypedBillOf
    <2>4. CASE Wake \/ TestUsage \/ TestLocal \/ SettleBilling \/ Close
      BY <1>2, <2>4 DEF Wake, TestUsage, TestLocal, SettleBilling, Close
    <2>5. QED
      BY <2>1, <2>2, <2>3, <2>4
  <1>4. at' \in [reader : ReaderSteps, main : MainSteps]
    BY DEF Wake, TestUsage, FlushUsage, TestLocal, FlushLocal, PostWssConsumeQuota, SettleBilling, Close,
           StartBill, MainSteps, BillSteps, RealtimeTypeOK
  <1>5. wallet' \in Int
    <2>1. wallet \in Int /\ bill["main"].amount \in Nat /\ Hold \in Nat
      BY <1>2, TokensAssumption DEF RealtimeTypeOK, BillType
    <2>2. QED
      BY <2>1 DEF Wake, TestUsage, FlushUsage, TestLocal, FlushLocal, PostWssConsumeQuota, SettleBilling, Close, account
  <1>6. \A c \in Counters : Pointer(c)' >= Pointer(c)
    BY <1>1, ObjectTypes DEF Pointer, counters
  <1>7. objects' \in [Counters -> Seq(Nat)] /\ (\A c \in Counters : objects'[c] # <<>>) /\ refused' \in BOOLEAN
    BY <1>1 DEF RealtimeTypeOK, counters, history
  <1>8. adding' \in [{"client", "reader"} -> AddType]
    BY <1>1, TypedAdding DEF counters
  <1>9. {sumUsage, quota, received, reported, finished}' \subseteq Nat
    BY <1>1 DEF RealtimeTypeOK, counters, history
  <1>10. QED
    BY <1>3, <1>4, <1>5, <1>6, <1>7, <1>8, <1>9, TypedObjects

\* The steps of a bill.
LEMMA TypedBill ==
  ASSUME RealtimeTypeOK, NEW t \in Threads, Bill(t)
  PROVE  RealtimeTypeOK'
  <1> USE DEF Counters, Threads
  <1>1. UNCHANGED <<objects, adding, quota, received, reported>>
    BY DEF Bill, AddLoad, AddStore, Lookup, Check, Charge, ChargeFails, Refuse, counters, account, history
  <1>2. /\ bill \in [Threads -> BillType] /\ bill[t] \in BillType
        /\ \A u \in Threads : bill[u].object \in 1 .. Len(objects[bill[u].counter])
    BY DEF RealtimeTypeOK, BillType, Pointer
  <1>3. sumUsage \in Nat /\ finished \in Nat /\ wallet \in Int /\ refused \in BOOLEAN /\ Tokens(t) \in Nat
    BY ObjectTypes DEF RealtimeTypeOK
  <1>4. bill' \in [Threads -> BillType] /\ \A u \in Threads : bill'[u].object \in 1 .. Len(objects[bill'[u].counter])
    <2>1. CASE EndBill(t, TRUE) \/ EndBill(t, FALSE)
      <3>1. NoBill \in BillType /\ NoBill.object \in 1 .. Len(objects[NoBill.counter])
        BY ObjectTypes DEF NoBill, BillType, Pointer
      <3>2. bill' = [bill EXCEPT ![t] = NoBill]
        BY <2>1 DEF EndBill
      <3>3. QED
        BY <3>1, <3>2, TypedBillOf
    <2>2. CASE AddLoad(t)
      <3>1. PICK b : b = [bill[t] EXCEPT !.seen = sumUsage, !.counted = Tokens(t)]
        OBVIOUS
      <3>2. bill' = [bill EXCEPT ![t] = b]
        BY <1>2, <2>2, <3>1 DEF AddLoad
      <3>3. b \in BillType /\ b.object = bill[t].object /\ b.counter = bill[t].counter
        BY <1>2, <1>3, <3>1 DEF BillType
      <3>4. QED
        BY <1>2, <3>2, <3>3, TypedBillOf
    <2>3. CASE AddStore(t)
      <3>1. PICK b : b = [bill[t] EXCEPT !.seen = 0, !.counted = 0]
        OBVIOUS
      <3>2. bill' = [bill EXCEPT ![t] = b]
        BY <1>2, <2>3, <3>1 DEF AddStore
      <3>3. b \in BillType /\ b.object = bill[t].object /\ b.counter = bill[t].counter
        BY <1>2, <3>1 DEF BillType
      <3>4. QED
        BY <1>2, <3>2, <3>3, TypedBillOf
    <2>4. CASE bill' = [bill EXCEPT ![t].userQuota = wallet]
      <3>1. PICK b : b = [bill[t] EXCEPT !.userQuota = wallet]
        OBVIOUS
      <3>2. bill' = [bill EXCEPT ![t] = b]
        BY <1>2, <2>4, <3>1
      <3>3. b \in BillType /\ b.object = bill[t].object /\ b.counter = bill[t].counter
        BY <1>2, <1>3, <3>1 DEF BillType
      <3>4. QED
        BY <1>2, <3>2, <3>3, TypedBillOf
    <2>5. CASE bill' = [bill EXCEPT ![t].amount = Tokens(t), ![t].userQuota = 0]
      <3>1. PICK b : b = [bill[t] EXCEPT !.amount = Tokens(t), !.userQuota = 0]
        OBVIOUS
      <3>2. bill' = [bill EXCEPT ![t] = b]
        BY <1>2, <2>5, <3>1
      <3>3. b \in BillType /\ b.object = bill[t].object /\ b.counter = bill[t].counter
        <4>1. PICK k : k = Tokens(t)
          OBVIOUS
        <4>2. b = [bill[t] EXCEPT !.amount = k, !.userQuota = 0] /\ k \in Nat /\ 0 \in Int
          BY <1>3, <3>1, <4>1
        <4>3. QED
          BY <1>2, <4>2 DEF BillType
      <3>4. QED
        BY <1>2, <3>2, <3>3, TypedBillOf
    <2>6. QED
      BY <2>1, <2>2, <2>3, <2>4, <2>5 DEF Bill, Lookup, Check, Charge, ChargeFails, Refuse
  <1>5. at' \in [reader : ReaderSteps, main : MainSteps]
    <2>1. AfterBill(t, TRUE) \in IF t = "reader" THEN ReaderSteps ELSE MainSteps
      BY DEF AfterBill, ReaderSteps, MainSteps
    <2>2. AfterBill(t, FALSE) \in IF t = "reader" THEN ReaderSteps ELSE MainSteps
      <3>1. CASE t = "reader"
        BY <3>1 DEF AfterBill, ReaderSteps
      <3>2. CASE t = "main"
        BY <3>2 DEF AfterBill, MainSteps
      <3>3. QED
        BY <3>1, <3>2
    <2>3. PICK next : at' = [at EXCEPT ![t] = next] /\ next \in IF t = "reader" THEN ReaderSteps ELSE MainSteps
      BY <2>1, <2>2 DEF Bill, AddLoad, AddStore, Lookup, Check, Charge, ChargeFails, Refuse, EndBill,
                        ReaderSteps, MainSteps, BillSteps
    <2>4. QED
      BY <2>3 DEF RealtimeTypeOK
  <1>. PICK m \in Nat : m = bill[t].amount
    BY <1>2 DEF BillType
  <1>6. wallet' \in Int
    <2>1. wallet' \in {wallet, wallet - m}
      BY DEF Bill, AddLoad, AddStore, Lookup, Check, Charge, ChargeFails, account
    <2>2. QED
      BY <1>3, <2>1
  <1>7. sumUsage' \in Nat
    <2>1. sumUsage' \in {sumUsage, bill[t].seen + bill[t].counted}
      BY DEF Bill, AddLoad, AddStore, Lookup, Check, Charge, ChargeFails, counters
    <2>2. bill[t].seen \in Nat /\ bill[t].counted \in Nat
      BY <1>2 DEF BillType
    <2>3. QED
      BY <1>3, <2>1, <2>2
  <1>8. finished' \in Nat
    <2>1. finished' \in {finished, finished + m}
      BY DEF Bill, AddLoad, AddStore, Lookup, Check, Charge, ChargeFails, Refuse, history
    <2>2. QED
      BY <1>3, <2>1
  <1>9. refused' \in BOOLEAN
    BY <1>3 DEF Bill, AddLoad, AddStore, Lookup, Check, Charge, ChargeFails, Refuse, history
  <1>10. \A c \in Counters : Pointer(c)' >= Pointer(c)
    BY <1>1, ObjectTypes DEF Pointer
  <1>11. objects' \in [Counters -> Seq(Nat)] /\ \A c \in Counters : objects'[c] # <<>>
    BY <1>1 DEF RealtimeTypeOK
  <1>12. adding' \in [{"client", "reader"} -> AddType]
    BY <1>1, TypedAdding
  <1>13. {sumUsage, quota, received, reported, finished}' \subseteq Nat
    BY <1>1, <1>7, <1>8 DEF RealtimeTypeOK
  <1>14. QED
    BY <1>4, <1>5, <1>6, <1>9, <1>10, <1>11, <1>12, <1>13, TypedObjects

-----------------------------------------------------------------------------
(* The bills, the sum and the payments. *)

\* The facts about numbers that the steps use.
LEMMA Numbers ==
  ASSUME RealtimeTypeOK
  PROVE  /\ sumUsage \in Nat /\ finished \in Nat /\ reported \in Nat /\ quota \in Nat
         /\ wallet \in Int /\ Hold \in Nat /\ Taken \in Int /\ Latest("usage") \in Nat
         /\ \A t \in Threads : {bill[t].seen, bill[t].counted, bill[t].amount} \subseteq Nat
  <1>1. /\ sumUsage \in Nat /\ finished \in Nat /\ reported \in Nat /\ quota \in Nat
        /\ wallet \in Int /\ Hold \in Nat
    BY TokensAssumption DEF RealtimeTypeOK
  <1>2. Taken \in Int
    BY <1>1 DEF Taken, Paid
  <1>3. Latest("usage") \in Nat
    BY ObjectTypes DEF Counters
  <1>4. \A t \in Threads : {bill[t].seen, bill[t].counted, bill[t].amount} \subseteq Nat
    BY ObjectTypes DEF BillType
  <1>5. QED
    BY <1>1, <1>2, <1>3, <1>4

\* The reader moves while it bills nothing reported: it counts, stores, clears, or
\* starts to bill what was counted here.
LEMMA ReaderMoves ==
  ASSUME RealtimeInv, RealtimeTypeOK', ~Billing, ~Billing', at'.reader # "store",
         at'.main = at.main, bill'["main"] = bill["main"],
         Latest("usage")' = 0 \/ (Latest("usage")' = Latest("usage") /\ at.reader # "clearUsage"),
         UNCHANGED <<sumUsage, finished, wallet, quota, reported, refused>>
  PROVE  RealtimeInv'
  <1>1. SumCovers'
    BY DEF RealtimeInv, SumCovers, Threads
  <1>2. UsageBill'
    BY DEF UsageBill
  <1>3. Taken' = Taken /\ Unpaid' = Unpaid
    BY DEF Taken, Paid, Unpaid
  <1>4. UsagePaid'
    BY <1>3 DEF RealtimeInv, UsagePaid
  <1>5. QED
    BY <1>1, <1>2, <1>4 DEF RealtimeInv

\* A step that leaves the reader and the reported usage alone.
LEMMA OthersMove ==
  ASSUME RealtimeInv, objects'["usage"] = objects["usage"],
         at'.reader = at.reader, bill'["reader"] = bill["reader"]
  PROVE  /\ (Billing' <=> Billing) /\ Unpaid' = Unpaid
         /\ Pointer("usage")' = Pointer("usage") /\ Latest("usage")' = Latest("usage")
         /\ UsageBill'
  <1>1. Pointer("usage")' = Pointer("usage") /\ Latest("usage")' = Latest("usage")
    BY DEF Pointer, Latest
  <1>2. Billing' <=> Billing
    BY DEF Billing
  <1>3. Unpaid' = Unpaid
    BY <1>1, <1>2 DEF Unpaid
  <1>4. UsageBill'
    BY <1>1, <1>2 DEF RealtimeInv, UsageBill
  <1>5. QED
    BY <1>1, <1>2, <1>3, <1>4

\* Steps of the readers other than a bill.
LEMMA ReaderKeeps ==
  ASSUME RealtimeInv, NEW n \in Nat,
         \/ ClientMessage(n) \/ OutputDelta(n) \/ ResponseUnreported(n) \/ ResponseDone(n)
         \/ ClientStore \/ DeltaStore \/ UnreportedStore \/ ClearUsage \/ ClearLocal
  PROVE  RealtimeInv'
  <1> USE DEF Threads, Counters
  <1>1. RealtimeTypeOK
    BY DEF RealtimeInv
  <1>2. RealtimeTypeOK'
    BY <1>1, TypedCounts, TypedResponse, TypedStores, TypedClear
  <1>3. bill \in [Threads -> BillType] /\ at \in [reader : ReaderSteps, main : MainSteps]
    BY <1>1 DEF RealtimeTypeOK, BillType
  <1>4. CASE ClientMessage(n) \/ ClientStore
    <2>1. objects'["usage"] = objects["usage"]
      BY <1>1, <1>4, TypedStores DEF ClientMessage
    <2>2. UNCHANGED <<sumUsage, wallet, quota, at, bill, reported, finished, refused>>
      BY <1>4 DEF ClientMessage, ClientStore, account, history
    <2>3. /\ (Billing' <=> Billing) /\ Unpaid' = Unpaid
          /\ Latest("usage")' = Latest("usage") /\ UsageBill'
      BY <2>1, <2>2, OthersMove
    <2>4. Taken' = Taken
      BY <2>2 DEF Taken, Paid
    <2>5. SumCovers'
      BY <2>2, <2>3 DEF RealtimeInv, SumCovers
    <2>6. UsagePaid'
      BY <2>2, <2>3, <2>4 DEF RealtimeInv, UsagePaid
    <2>7. QED
      BY <1>2, <2>3, <2>5, <2>6 DEF RealtimeInv
  <1>5. CASE OutputDelta(n) \/ ResponseUnreported(n)
    <2>1. at.reader = "read" /\ at'.reader \in {"delta", "unreported"} /\ at'.main = at.main
      BY <1>3, <1>5 DEF OutputDelta, ResponseUnreported, ReaderCounts
    <2>2. UNCHANGED <<objects, sumUsage, finished, wallet, quota, reported, refused, bill>>
      BY <1>5 DEF OutputDelta, ResponseUnreported, ReaderCounts, account
    <2>3. Latest("usage")' = Latest("usage") /\ ~Billing /\ ~Billing'
      BY <2>1, <2>2 DEF Latest, Pointer, Billing, BillSteps
    <2>4. QED
      BY <1>2, <2>1, <2>2, <2>3, ReaderMoves
  <1>6. CASE DeltaStore \/ UnreportedStore \/ ClearLocal
    <2>1. objects'["usage"] = objects["usage"]
      BY <1>1, <1>6, TypedStores, TypedClear
    <2>2. at.reader \in {"delta", "unreported", "clearLocal"} /\ at'.reader \in {"read", "add"} /\ at'.main = at.main
      BY <1>3, <1>6 DEF DeltaStore, UnreportedStore, ClearLocal, StartBill
    <2>3. UNCHANGED <<sumUsage, finished, wallet, quota, reported, refused>>
      BY <1>6 DEF DeltaStore, UnreportedStore, ClearLocal, account, history
    <2>4. bill'["main"] = bill["main"] /\ (at'.reader = "add" => bill'["reader"].counter = "localUsage")
      <3>1. CASE UnreportedStore
        BY <1>1, <3>1, TypedStart DEF UnreportedStore
      <3>2. CASE DeltaStore \/ ClearLocal
        BY <1>3, <3>2 DEF DeltaStore, ClearLocal
      <3>3. QED
        BY <1>6, <3>1, <3>2
    <2>5. Latest("usage")' = Latest("usage") /\ ~Billing /\ ~Billing'
      BY <2>1, <2>2, <2>4 DEF Latest, Pointer, Billing, BillSteps
    <2>6. QED
      BY <1>2, <2>2, <2>3, <2>4, <2>5, ReaderMoves
  <1>7. CASE ClearUsage
    <2>1. Latest("usage")' = 0
      BY <1>1, <1>7, TypedClear
    <2>2. at.reader = "clearUsage" /\ at'.reader = "clearLocal" /\ at'.main = at.main
      BY <1>3, <1>7 DEF ClearUsage
    <2>3. UNCHANGED <<sumUsage, finished, wallet, quota, reported, refused, bill>>
      BY <1>7 DEF ClearUsage, account, history
    <2>4. ~Billing /\ ~Billing'
      BY <2>2 DEF Billing, BillSteps
    <2>5. QED
      BY <1>2, <2>1, <2>2, <2>3, <2>4, ReaderMoves
  <1>8. CASE ResponseDone(n)
    <2>1. Pointer("usage")' = Pointer("usage") /\ Latest("usage")' = Latest("usage") + n
      BY <1>1, <1>8, TypedResponse
    <2>2. StartBill("reader", "usage", Pointer("usage")) /\ at.reader = "read"
      BY <1>8 DEF ResponseDone
    <2>3. /\ bill'["reader"].counter = "usage" /\ bill'["reader"].object = Pointer("usage")
          /\ bill'["main"] = bill["main"] /\ at'.main = at.main /\ at'.reader = "add"
      BY <1>1, <2>2, TypedStart
    <2>4. UNCHANGED <<sumUsage, finished, wallet, quota, refused>> /\ reported' = reported + n
      BY <1>8 DEF ResponseDone, account
    <2>5. Billing' /\ ~Billing
      BY <2>2, <2>3 DEF Billing, BillSteps
    <2>6. UsageBill'
      BY <2>1, <2>3 DEF UsageBill
    <2>7. SumCovers'
      BY <2>3, <2>4 DEF RealtimeInv, SumCovers
    <2>8. UsagePaid'
      <3>1. Taken' = Taken
        BY <2>3, <2>4 DEF Taken, Paid
      <3>2. Unpaid' = Latest("usage") + n /\ Unpaid = 0
        BY <2>1, <2>5 DEF Unpaid
      <3>3. QED
        BY <1>1, <2>4, <2>5, <3>1, <3>2, Numbers DEF RealtimeInv, UsagePaid
    <2>9. QED
      BY <1>2, <2>6, <2>7, <2>8 DEF RealtimeInv
  <1>9. QED
    BY <1>4, <1>5, <1>6, <1>7, <1>8

\* Steps of the handler: it may overwrite the sum and take more, but it never lowers
\* the sum below what is finished.
LEMMA MainKeeps ==
  ASSUME RealtimeInv,
         \/ Wake \/ TestUsage \/ FlushUsage \/ TestLocal \/ FlushLocal
         \/ PostWssConsumeQuota \/ SettleBilling \/ Close \/ Bill("main")
  PROVE  RealtimeInv'
  <1> USE DEF Threads, Counters
  <1>1. RealtimeTypeOK
    BY DEF RealtimeInv
  <1>2. RealtimeTypeOK'
    BY <1>1, TypedMain, TypedBill
  <1>3. bill \in [Threads -> BillType] /\ at \in [reader : ReaderSteps, main : MainSteps]
    BY <1>1 DEF RealtimeTypeOK, BillType
  <1>4. objects' = objects /\ UNCHANGED <<quota, reported, finished>>
    BY DEF Wake, TestUsage, FlushUsage, TestLocal, FlushLocal, PostWssConsumeQuota, SettleBilling, Close,
           Bill, AddLoad, AddStore, Lookup, Check, Charge, ChargeFails, Refuse, counters, account, history
  <1>5. at'.reader = at.reader /\ bill'["reader"] = bill["reader"]
    BY <1>3 DEF Wake, TestUsage, FlushUsage, TestLocal, FlushLocal, PostWssConsumeQuota, SettleBilling, Close,
           StartBill, Bill, AddLoad, AddStore, Lookup, Check, Charge, ChargeFails, Refuse, EndBill
  <1>6. (Billing' <=> Billing) /\ Unpaid' = Unpaid /\ Latest("usage")' = Latest("usage") /\ UsageBill'
    BY <1>4, <1>5, OthersMove
  <1>7. /\ sumUsage \in Nat /\ finished \in Nat /\ reported \in Nat /\ quota \in Nat
        /\ wallet \in Int /\ Hold \in Nat /\ Taken \in Int /\ Latest("usage") \in Nat
        /\ {bill["main"].seen, bill["main"].counted, bill["main"].amount} \subseteq Nat
    BY <1>1, Numbers
  <1>8. at'.main # "select"
    BY <1>3 DEF Wake, TestUsage, FlushUsage, TestLocal, FlushLocal, PostWssConsumeQuota, SettleBilling, Close,
           StartBill, Bill, AddLoad, AddStore, Lookup, Check, Charge, ChargeFails, Refuse, EndBill, AfterBill
  <1>9. sumUsage' >= finished
    <2>1. CASE AddStore("main")
      BY <1>7, <2>1 DEF AddStore, RealtimeInv, SumCovers
    <2>2. CASE ~AddStore("main")
      <3>1. sumUsage' = sumUsage
        BY <2>2 DEF Wake, TestUsage, FlushUsage, TestLocal, FlushLocal, PostWssConsumeQuota, SettleBilling, Close,
           Bill, AddLoad, Lookup, Check, Charge, ChargeFails, counters
      <3>2. QED
        BY <3>1 DEF RealtimeInv, SumCovers
    <2>3. QED
      BY <2>1, <2>2
  <1>10. at'.main = "store" => bill'["main"].seen >= finished
    <2>1. CASE AddLoad("main")
      <3>1. bill'["main"].seen = sumUsage
        BY <1>3, <2>1 DEF AddLoad, BillType
      <3>2. QED
        BY <3>1 DEF RealtimeInv, SumCovers
    <2>2. CASE ~AddLoad("main")
      BY <1>3, <2>2 DEF Wake, TestUsage, FlushUsage, TestLocal, FlushLocal, PostWssConsumeQuota, SettleBilling, Close,
           StartBill, Bill, AddStore, Lookup, Check, Charge, ChargeFails, Refuse, EndBill, AfterBill
    <2>3. QED
      BY <2>1, <2>2
  <1>11. at'.main \in {"settling", "settled", "closed"} => bill'["main"].amount >= finished
    <2>1. CASE PostWssConsumeQuota
      <3>1. bill'["main"].amount = sumUsage
        BY <1>3, <2>1 DEF PostWssConsumeQuota, NoBill
      <3>2. QED
        BY <3>1 DEF RealtimeInv, SumCovers
    <2>2. CASE SettleBilling \/ Close
      BY <1>3, <2>2 DEF SettleBilling, Close, RealtimeInv, SumCovers
    <2>3. CASE Wake \/ TestUsage \/ FlushUsage \/ TestLocal \/ FlushLocal \/ Bill("main")
      <3>1. at'.main \notin {"settling", "settled", "closed"}
        BY <1>3, <2>3 DEF Wake, TestUsage, FlushUsage, TestLocal, FlushLocal, StartBill,
           Bill, AddLoad, AddStore, Lookup, Check, Charge, ChargeFails, Refuse, EndBill, AfterBill
      <3>2. QED
        BY <3>1
    <2>4. QED
      BY <2>1, <2>2, <2>3
  <1>12. SumCovers'
    BY <1>4, <1>5, <1>8, <1>9, <1>10, <1>11 DEF RealtimeInv, SumCovers
  <1>13. Taken' >= Taken
    <2>1. CASE SettleBilling
      <3>1. at.main = "settling" /\ at'.main = "settled" /\ wallet' \in {wallet, wallet - (bill["main"].amount - Hold)}
        BY <1>3, <2>1 DEF SettleBilling
      <3>2. Taken = quota - wallet - Hold /\ Taken' = quota - wallet'
        BY <1>4, <1>7, <3>1 DEF Taken, Paid
      <3>3. PICK m \in Nat : m = bill["main"].amount
        BY <1>7
      <3>4. wallet' = wallet \/ wallet' = wallet - (m - Hold)
        BY <3>1, <3>3
      <3>5. QED
        BY <1>7, <3>2, <3>4
    <2>2. CASE ~SettleBilling
      <3>1. wallet' \in {wallet, wallet - bill["main"].amount}
        BY <2>2 DEF Wake, TestUsage, FlushUsage, TestLocal, FlushLocal, PostWssConsumeQuota, Close,
           Bill, AddLoad, AddStore, Lookup, Check, Charge, ChargeFails, account
      <3>2. at'.main \in {"settled", "closed"} <=> at.main \in {"settled", "closed"}
        BY <1>3, <2>2 DEF Wake, TestUsage, FlushUsage, TestLocal, FlushLocal, PostWssConsumeQuota, Close,
           StartBill, Bill, AddLoad, AddStore, Lookup, Check, Charge, ChargeFails, Refuse, EndBill, AfterBill
      <3>3. quota - wallet' >= quota - wallet /\ wallet' \in Int
        <4>1. PICK m \in Nat : m = bill["main"].amount
          BY <1>7
        <4>2. wallet' = wallet \/ wallet' = wallet - m
          BY <3>1, <4>1
        <4>3. wallet \in Int /\ quota \in Nat
          BY <1>7
        <4>4. QED
          BY <4>2, <4>3
      <3>4. QED
        BY <1>4, <1>7, <3>2, <3>3 DEF Taken, Paid
    <2>3. QED
      BY <2>1, <2>2
  <1>14. refused => refused'
    BY DEF Wake, TestUsage, FlushUsage, TestLocal, FlushLocal, PostWssConsumeQuota, SettleBilling, Close,
           Bill, AddLoad, AddStore, Lookup, Check, Charge, ChargeFails, Refuse, history
  <1>15. UsagePaid'
    <2>1. wallet' \in Int /\ quota' \in Nat
      BY <1>2 DEF RealtimeTypeOK
    <2>2. Taken' \in Int
      BY <1>7, <2>1 DEF Taken, Paid
    <2>3. Unpaid \in Nat
      BY <1>7 DEF Unpaid
    <2>4. Taken + Unpaid >= reported => Taken' + Unpaid' >= reported'
      <3>1. PICK u \in Nat : u = Unpaid /\ u = Unpaid'
        BY <1>6, <2>3
      <3>2. PICK k \in Nat : k = reported /\ k = reported'
        BY <1>4, <1>7
      <3>3. ASSUME NEW x \in Int, NEW y \in Int, y >= x PROVE x + u >= k => y + u >= k
        BY <3>3
      <3>4. Taken + u >= k => Taken' + u >= k
        BY <1>7, <1>13, <2>2, <3>3
      <3>5. QED
        BY <3>1, <3>2, <3>4
    <2>5. QED
      BY <1>5, <1>6, <1>14, <2>4 DEF RealtimeInv, UsagePaid
  <1>16. QED
    BY <1>2, <1>6, <1>12, <1>15 DEF RealtimeInv

\* The steps of the reader's own bill.
LEMMA ReaderBills ==
  ASSUME RealtimeInv, Bill("reader")
  PROVE  RealtimeInv'
  <1> USE DEF Threads, Counters
  <1>1. RealtimeTypeOK
    BY DEF RealtimeInv
  <1>2. RealtimeTypeOK'
    BY <1>1, TypedBill
  <1>3. bill \in [Threads -> BillType] /\ at \in [reader : ReaderSteps, main : MainSteps]
    BY <1>1 DEF RealtimeTypeOK, BillType
  <1>4. objects' = objects /\ UNCHANGED <<quota, reported>>
    BY DEF Bill, AddLoad, AddStore, Lookup, Check, Charge, ChargeFails, Refuse, counters, account, history
  <1>5. Pointer("usage")' = Pointer("usage") /\ Latest("usage")' = Latest("usage")
    BY <1>4 DEF Pointer, Latest
  <1>6. at'.main = at.main /\ bill'["main"] = bill["main"]
    BY <1>3 DEF Bill, AddLoad, AddStore, Lookup, Check, Charge, ChargeFails, Refuse, EndBill
  <1>7. /\ sumUsage \in Nat /\ finished \in Nat /\ reported \in Nat /\ quota \in Nat
        /\ wallet \in Int /\ Hold \in Nat /\ Taken \in Int /\ Latest("usage") \in Nat
        /\ bill["reader"].seen \in Nat /\ bill["reader"].counted \in Nat /\ bill["reader"].amount \in Nat
    BY <1>1, Numbers
  <1>8. Billing => Tokens("reader") = Latest("usage")
    BY DEF RealtimeInv, UsageBill, Billing, Tokens, Latest
  <1>9. CASE Refuse("reader") /\ sumUsage' = sumUsage
    <2>1. at'.reader = "stopped" /\ finished' = finished /\ refused'
      BY <1>3, <1>9 DEF Refuse, EndBill, AfterBill
    <2>2. ~Billing'
      BY <2>1 DEF Billing, BillSteps
    <2>3. SumCovers'
      BY <1>6, <1>9, <2>1, <2>2 DEF RealtimeInv, SumCovers
    <2>4. QED
      BY <1>2, <2>1, <2>2, <2>3 DEF RealtimeInv, UsageBill, UsagePaid
  <1>10. ASSUME UNCHANGED <<wallet, refused>>, Billing' <=> Billing, at.reader \in BillSteps, at'.reader \in BillSteps
         PROVE  UsagePaid'
    <2>1. Taken' = Taken /\ Unpaid' = Unpaid
      BY <1>4, <1>5, <1>6, <1>10 DEF Taken, Paid, Unpaid
    <2>2. at.reader # "clearUsage"
      BY <1>10 DEF BillSteps
    <2>3. QED
      BY <1>4, <1>5, <1>10, <2>1, <2>2 DEF RealtimeInv, UsagePaid
  <1>11. CASE AddLoad("reader")
    <2>1. /\ at.reader = "add" /\ at'.reader = "store"
          /\ bill'["reader"] = [bill["reader"] EXCEPT !.seen = sumUsage, !.counted = Tokens("reader")]
          /\ UNCHANGED <<sumUsage, finished, wallet, refused>>
      BY <1>3, <1>11 DEF AddLoad, counters, account, history
    <2>2. /\ bill'["reader"].seen = sumUsage /\ bill'["reader"].counted = Tokens("reader")
          /\ bill'["reader"].counter = bill["reader"].counter /\ bill'["reader"].object = bill["reader"].object
      BY <1>3, <2>1 DEF BillType
    <2>3. Billing' <=> Billing
      BY <2>1, <2>2 DEF Billing, BillSteps
    <2>4. UsageBill'
      BY <1>5, <1>8, <2>1, <2>2, <2>3 DEF RealtimeInv, UsageBill
    <2>5. SumCovers'
      BY <1>6, <2>1, <2>2 DEF RealtimeInv, SumCovers
    <2>6. UsagePaid'
      BY <1>10, <2>1, <2>3 DEF BillSteps
    <2>7. QED
      BY <1>2, <2>4, <2>5, <2>6 DEF RealtimeInv
  <1>12. CASE AddStore("reader")
    <2>1. /\ at.reader = "store" /\ at'.reader = "lookup"
          /\ sumUsage' = bill["reader"].seen + bill["reader"].counted
          /\ bill'["reader"] = [bill["reader"] EXCEPT !.seen = 0, !.counted = 0]
          /\ UNCHANGED <<finished, wallet, refused>>
      BY <1>3, <1>12 DEF AddStore, account, history
    <2>2. bill'["reader"].counter = bill["reader"].counter /\ bill'["reader"].object = bill["reader"].object
      BY <1>3, <2>1 DEF BillType
    <2>3. Billing' <=> Billing
      BY <2>1, <2>2 DEF Billing, BillSteps
    <2>4. UsageBill'
      BY <1>5, <2>1, <2>2, <2>3 DEF RealtimeInv, UsageBill
    <2>5. SumCovers'
      <3>1. bill["reader"].seen >= finished /\ (Billing => bill["reader"].counted = Latest("usage"))
        BY <2>1 DEF RealtimeInv, SumCovers, UsageBill
      <3>2. sumUsage' >= finished /\ (Billing => sumUsage' >= finished + Latest("usage"))
        BY <1>7, <2>1, <3>1
      <3>3. QED
        BY <1>5, <1>6, <2>1, <2>3, <3>2 DEF RealtimeInv, SumCovers
    <2>6. UsagePaid'
      BY <1>10, <2>1, <2>3 DEF BillSteps
    <2>7. QED
      BY <1>2, <2>4, <2>5, <2>6 DEF RealtimeInv
  <1>13. CASE Lookup("reader") /\ bill' = [bill EXCEPT !["reader"].userQuota = wallet] /\ UNCHANGED history
              /\ at' = [at EXCEPT !["reader"] = "check"]
    <2>1. /\ at.reader = "lookup" /\ at'.reader = "check"
          /\ bill'["reader"] = [bill["reader"] EXCEPT !.userQuota = wallet]
          /\ UNCHANGED <<sumUsage, finished, wallet, refused>>
      BY <1>3, <1>13 DEF Lookup, counters, account, history
    <2>2. bill'["reader"].counter = bill["reader"].counter /\ bill'["reader"].object = bill["reader"].object
      BY <1>3, <2>1 DEF BillType
    <2>3. Billing' <=> Billing
      BY <2>1, <2>2 DEF Billing, BillSteps
    <2>4. UsageBill'
      BY <1>5, <2>1, <2>2, <2>3 DEF RealtimeInv, UsageBill
    <2>5. SumCovers'
      BY <1>5, <1>6, <2>1, <2>3 DEF RealtimeInv, SumCovers
    <2>6. UsagePaid'
      BY <1>10, <2>1, <2>3 DEF BillSteps
    <2>7. QED
      BY <1>2, <2>4, <2>5, <2>6 DEF RealtimeInv
  <1>14. CASE Check("reader") /\ bill' = [bill EXCEPT !["reader"].amount = Tokens("reader"), !["reader"].userQuota = 0]
              /\ UNCHANGED history /\ at' = [at EXCEPT !["reader"] = "charge"]
    <2>1. /\ at.reader = "check" /\ at'.reader = "charge"
          /\ bill'["reader"] = [bill["reader"] EXCEPT !.amount = Tokens("reader"), !.userQuota = 0]
          /\ UNCHANGED <<sumUsage, finished, wallet, refused>>
      BY <1>3, <1>14 DEF Check, counters, account, history
    <2>2. /\ bill'["reader"].counter = bill["reader"].counter /\ bill'["reader"].object = bill["reader"].object
          /\ bill'["reader"].amount = Tokens("reader")
      BY <1>3, <2>1 DEF BillType
    <2>3. Billing' <=> Billing
      BY <2>1, <2>2 DEF Billing, BillSteps
    <2>4. UsageBill'
      BY <1>5, <1>8, <2>1, <2>2, <2>3 DEF RealtimeInv, UsageBill
    <2>5. SumCovers'
      BY <1>5, <1>6, <2>1, <2>3 DEF RealtimeInv, SumCovers
    <2>6. UsagePaid'
      BY <1>10, <2>1, <2>3 DEF BillSteps
    <2>7. QED
      BY <1>2, <2>4, <2>5, <2>6 DEF RealtimeInv
  <1>15. CASE Charge("reader")
    <2>1. /\ at.reader = "charge" /\ wallet' = wallet - bill["reader"].amount
          /\ at'.reader = IF bill["reader"].counter = "usage" THEN "clearUsage" ELSE "clearLocal"
          /\ UNCHANGED <<sumUsage, refused>>
      BY <1>3, <1>15 DEF Charge, EndBill, AfterBill, counters
    <2>2. finished' = IF Billing /\ at.main = "select" THEN finished + bill["reader"].amount ELSE finished
      BY <1>15, <2>1 DEF Charge, Billing, BillSteps
    <2>3. ~Billing' /\ (Billing => at'.reader = "clearUsage")
      BY <2>1 DEF Billing, BillSteps
    <2>4. Billing => bill["reader"].amount = Latest("usage")
      BY <2>1 DEF RealtimeInv, UsageBill
    <2>5. SumCovers'
      <3>1. CASE Billing /\ at.main = "select"
        <4>1. sumUsage >= finished + Latest("usage") /\ finished' = finished + Latest("usage")
          BY <2>1, <2>2, <2>4, <3>1 DEF RealtimeInv, SumCovers
        <4>2. QED
          BY <1>6, <2>1, <2>3, <3>1, <4>1 DEF SumCovers
      <3>2. CASE ~(Billing /\ at.main = "select")
        BY <1>6, <2>1, <2>2, <2>3, <3>2 DEF RealtimeInv, SumCovers
      <3>3. QED
        BY <3>1, <3>2
    <2>6. UsagePaid'
      <3>1. Taken' = Taken + bill["reader"].amount
        BY <1>4, <1>6, <1>7, <2>1 DEF Taken, Paid
      <3>2. Unpaid' = 0 /\ Unpaid <= bill["reader"].amount /\ Unpaid \in Nat
        BY <1>7, <2>3, <2>4 DEF Unpaid
      <3>3. Taken + Unpaid >= reported => Taken' + Unpaid' >= reported
        BY <1>7, <3>1, <3>2
      <3>4. at.reader # "clearUsage"
        BY <2>1
      <3>5. QED
        BY <1>4, <1>5, <2>1, <2>3, <3>3, <3>4 DEF RealtimeInv, UsagePaid
    <2>7. QED
      BY <1>2, <2>3, <2>5, <2>6 DEF RealtimeInv, UsageBill
  <1>16. QED
    <2>1. sumUsage' = sumUsage \/ AddStore("reader")
      BY DEF Bill, AddLoad, AddStore, Lookup, Check, Charge, ChargeFails, counters
    <2>2. CASE Lookup("reader")
      BY <1>9, <1>13, <2>2 DEF Lookup, counters
    <2>3. CASE Check("reader")
      BY <1>9, <1>14, <2>3 DEF Check, counters
    <2>4. CASE ChargeFails("reader")
      BY <1>9, <2>4 DEF ChargeFails, counters
    <2>5. QED
      BY <1>11, <1>12, <1>15, <2>2, <2>3, <2>4 DEF Bill

\* The inductive invariant behind the two theorems below.
LEMMA RealtimeInductive ==
    RealtimeSpec => []RealtimeInv
  <1>1. RealtimeInit => RealtimeInv
    BY RealtimeStarts
  <1>2. ASSUME RealtimeInv, [RealtimeNext]_realtimeVars PROVE RealtimeInv'
    <2>1. ASSUME NEW n \in Amounts,
                 ClientMessage(n) \/ OutputDelta(n) \/ ResponseDone(n) \/ ResponseUnreported(n)
          PROVE  RealtimeInv'
      BY <1>2, <2>1, ReaderKeeps, TokensAssumption
    <2>2. CASE ClientStore \/ DeltaStore \/ UnreportedStore \/ ClearUsage \/ ClearLocal
      BY <1>2, <2>2, ReaderKeeps, 0 \in Nat
    <2>3. CASE Bill("reader")
      BY <1>2, <2>3, ReaderBills
    <2>4. CASE Main \/ Wake
      BY <1>2, <2>4, MainKeeps DEF Main
    <2>5. CASE UNCHANGED realtimeVars
      BY <1>2, <2>5 DEF realtimeVars, RealtimeInv, RealtimeTypeOK, UsageBill, SumCovers, UsagePaid, Billing,
                        Pointer, Latest, Taken, Paid, Unpaid
    <2>6. QED
      BY <1>2, <2>1, <2>2, <2>3, <2>4, <2>5 DEF RealtimeNext, Reader
  <1>3. QED
    BY <1>1, <1>2, PTL DEF RealtimeSpec

\* Whatever updates of the sum the reader and the handler lose to each other, the
\* settlement asks for every reported usage the reader charged before a connection
\* ended, and the types are kept, for any amounts and any number of messages
\* (preConsumeUsage, relay-openai.go; PreWssConsumeQuota, service/quota.go).
THEOREM SettlementCoversHolds ==
    RealtimeSpec => []SettlementCovers
  <1>1. RealtimeInv => SettlementCovers
    BY DEF RealtimeInv, SumCovers, SettlementCovers
  <1>2. QED
    BY RealtimeInductive, <1>1, PTL

\* Once the session is closed and its threads are done, the user paid at least what the
\* provider reported, also if the settlement failed, unless a charge was refused or
\* failed (PreWssConsumeQuota and PostWssConsumeQuota, service/quota.go).
THEOREM NothingFreeHolds ==
    RealtimeSpec => []NothingFree
  <1>1. ASSUME RealtimeInv PROVE NothingFree
    <2>1. ~refused => Taken + Unpaid >= reported
      BY <1>1 DEF RealtimeInv, UsagePaid
    <2>2. Quiet => Taken = Paid /\ Unpaid = 0
      BY DEF Quiet, Taken, Unpaid, Billing, BillSteps
    <2>3. Taken \in Int /\ reported \in Nat
      BY <1>1, Numbers DEF RealtimeInv
    <2>4. QED
      BY <2>1, <2>2, <2>3 DEF NothingFree
  <1>2. QED
    BY RealtimeInductive, <1>1, PTL
=============================================================================
