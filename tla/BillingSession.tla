--------------------------- MODULE BillingSession ---------------------------
(***************************************************************************)
(* The billing session of one relay request (service/billing_session.go,   *)
(* service/funding_source.go): quota is taken from the request's token and *)
(* from one funding source (the user's wallet or a subscription) before    *)
(* the upstream call, topped up by Reserve, and either adjusted to the     *)
(* actual cost by Settle or given back by Refund.                          *)
(*                                                                         *)
(* Every statement sent to the database is a step of its own, so the steps *)
(* of several requests of the same user and token interleave between a     *)
(* check and the update it guards.  A statement may fail without effect    *)
(* (a fault); the code's reaction to the error is part of the action.      *)
(*                                                                         *)
(* The owner of a session (controller.Relay, controller.RelayTask) may     *)
(* call Reserve, Settle and Refund in any order and repeatedly, with one   *)
(* restriction that all owners keep: Refund is called from a deferred      *)
(* function, so neither Reserve nor Settle follows it.                     *)
(***************************************************************************)
EXTENDS Integers, FiniteSets, Functions

CONSTANTS
    Requests,           \* relay requests of one user with one token
    Profiles,           \* what a request may ask for, see ProfilesAssumption
    Targets,            \* arguments of Reserve
    Actuals,            \* arguments of Settle
    InitialUserQuota,   \* users.quota
    InitialTokenQuota,  \* tokens.remain_quota
    TokenUnlimited,     \* tokens.unlimited_quota
    SubTotal,           \* amount_total of the subscription, 0 = unlimited
    TrustQuota,         \* common.GetTrustQuota()
    MaxFaults,          \* bound: failing statements per request
    MaxAttempts         \* attempts of refundWithRetry

Preferences ==
    {"subscription_only", "wallet_only", "wallet_first", "subscription_first"}

ASSUME FiniteAssumption == IsFiniteSet(Requests)

ASSUME ProfilesAssumption ==
    Profiles \subseteq [pref : Preferences, ask : Nat,
                        playground : BOOLEAN, force : BOOLEAN]

ASSUME AmountsAssumption ==
    /\ Targets \subseteq Nat
    /\ Actuals \subseteq Nat
    /\ InitialUserQuota \in Int
    /\ InitialTokenQuota \in Int
    /\ SubTotal \in Nat
    /\ TrustQuota \in Int
    /\ TokenUnlimited \in BOOLEAN

ASSUME BoundsAssumption ==
    /\ MaxFaults \in Nat
    /\ MaxAttempts \in Nat \ {0}

VARIABLES
    userQuota,     \* the wallet
    tokenQuota,    \* the token's remaining quota
    subUsed,       \* amount_used of the user's subscription
    subActive,     \* is the subscription active
    record,        \* status of the pre-consume record of each request id
    pc,            \* where the session's current operation is
    sess,          \* the fields of the BillingSession and of its funding source
    userCharged,   \* history: net amount taken from the wallet
    tokenCharged,  \* history: net amount taken from the token
    subCharged,    \* history: net amount taken from the subscription
    faults         \* history: failing statements of each request

stores  == <<userQuota, tokenQuota, subUsed, record>>
charges == <<userCharged, tokenCharged, subCharged>>
vars    == <<userQuota, tokenQuota, subUsed, subActive, record, pc, sess,
             userCharged, tokenCharged, subCharged, faults>>

NotSettled == -1    \* no Settle call yet

RefundSteps == {"refFund", "refMark", "refExtra", "refToken"}

Steps ==
    {"new", "hasSub", "wallet", "tokenCheck", "tokenTake", "fundTake",
     "undoReject", "undoFallback", "open", "rsvFund", "rsvCheck", "rsvToken",
     "rsvUndo", "setFund", "setToken", "closed", "rejected"} \cup RefundSteps

\* A session about to try source src for a request with profile p; seen is the
\* token_quota the authentication put in the context.
NewSession(p, seen, src, fallback, delta) ==
    [pref |-> p.pref, ask |-> p.ask, playground |-> p.playground,
     force |-> p.force, seenToken |-> seen, src |-> src, fallback |-> fallback,
     delta |-> delta, pre |-> 0, tokenConsumed |-> 0, consumed |-> 0, extra |-> 0,
     trusted |-> FALSE, fundingSettled |-> FALSE, settled |-> FALSE,
     refunded |-> FALSE, attempts |-> 0, settledAt |-> NotSettled]

NoProfile ==
    [pref |-> "wallet_only", ask |-> 0, playground |-> FALSE, force |-> FALSE]

Init ==
    /\ userQuota = InitialUserQuota
    /\ tokenQuota = InitialTokenQuota
    /\ subUsed = 0
    /\ subActive \in BOOLEAN
    /\ record = [r \in Requests |-> "none"]
    /\ pc = [r \in Requests |-> "new"]
    /\ sess = [r \in Requests |-> NewSession(NoProfile, 0, "wallet", FALSE, 0)]
    /\ userCharged = [r \in Requests |-> 0]
    /\ tokenCharged = [r \in Requests |-> 0]
    /\ subCharged = [r \in Requests |-> 0]
    /\ faults = [r \in Requests |-> 0]

-----------------------------------------------------------------------------
(* The database statements.  Each names what it leaves alone. *)

\* users.quota - q; q < 0 gives quota back.
DecreaseUserQuota(r, q) ==
    /\ userQuota' = userQuota - q
    /\ userCharged' = [userCharged EXCEPT ![r] = @ + q]
    /\ UNCHANGED <<tokenQuota, tokenCharged, subUsed, subCharged, subActive, record,
                   faults>>

\* tokens.remain_quota - q; q < 0 gives quota back.
DecreaseTokenQuota(r, q) ==
    /\ tokenQuota' = tokenQuota - q
    /\ tokenCharged' = [tokenCharged EXCEPT ![r] = @ + q]
    /\ UNCHANGED <<userQuota, userCharged, subUsed, subCharged, subActive, record,
                   faults>>

\* Mutant: off by one.
SubAcceptsOneMore(d) == SubTotal = 0 \/ subUsed + d =< SubTotal + 1

\* amount_used + d may not exceed the total of a limited subscription; the
\* update itself clamps at zero.
SubAccepts(d) == SubTotal = 0 \/ subUsed + d =< SubTotal
BookSubscription(r, d) ==
    /\ subUsed' = IF subUsed + d < 0 THEN 0 ELSE subUsed + d
    /\ subCharged' = [subCharged EXCEPT ![r] = @ + d]
    /\ UNCHANGED <<userQuota, userCharged, tokenQuota, tokenCharged, subActive, faults>>

PostConsumeUserSubscriptionDelta(r, d) ==
    /\ SubAccepts(d)
    /\ BookSubscription(r, d)
    /\ UNCHANGED record

TokenInsufficient(q) == ~TokenUnlimited /\ tokenQuota < q

\* The statement of request r fails without effect.
Fault(r) ==
    /\ faults[r] < MaxFaults
    /\ faults' = [faults EXCEPT ![r] = @ + 1]
    /\ UNCHANGED <<stores, charges, subActive>>

NoStatement == UNCHANGED <<stores, charges, subActive, faults>>

Goto(r, step) == pc' = [pc EXCEPT ![r] = step]

-----------------------------------------------------------------------------
(* NewBillingSession and preConsume. *)

\* A subscription is asked for at least 1 (subConsume).
SubConsume(ask) == IF ask = 0 THEN 1 ELSE ask

\* The request is authenticated and its billing preference picks the source to
\* try first, and whether the other one may be tried after it.
Start(r) ==
    /\ pc[r] = "new"
    /\ \E p \in Profiles :
         LET Begin(src, fallback, delta) ==
               sess' = [sess EXCEPT ![r] =
                          NewSession(p, tokenQuota, src, fallback, delta)]
         IN CASE p.pref = "wallet_only" ->
                   Begin("wallet", FALSE, 0) /\ Goto(r, "wallet")
              [] p.pref = "wallet_first" ->
                   Begin("wallet", TRUE, 0) /\ Goto(r, "wallet")
              [] p.pref = "subscription_only" ->
                   Begin("sub", FALSE, SubConsume(p.ask)) /\ Goto(r, "tokenCheck")
              [] OTHER ->
                   Begin("wallet", FALSE, 0) /\ Goto(r, "hasSub")
    /\ NoStatement

\* trySubscription: pre-consumes at least 1.
TrySubscription(r, mayFallBack) ==
    /\ sess' = [sess EXCEPT ![r].src = "sub", ![r].fallback = mayFallBack,
                   ![r].delta = SubConsume(sess[r].ask)]
    /\ Goto(r, "tokenCheck")

\* subscription_first asks whether there is an active subscription.
HasActiveUserSubscription(r) ==
    /\ pc[r] = "hasSub"
    /\ \/ /\ subActive
          /\ TrySubscription(r, TRUE)
          /\ NoStatement
       \/ /\ ~subActive
          /\ Goto(r, "wallet")
          /\ NoStatement /\ UNCHANGED sess
       \/ Fault(r) /\ Goto(r, "rejected") /\ UNCHANGED sess

WalletInsufficient(r) == userQuota =< 0 \/ userQuota < sess[r].ask

\* The trust bypass of a wallet session; token_quota is the value seen when
\* the request was authenticated.
ShouldTrust(r) ==
    /\ ~sess[r].force
    /\ TrustQuota > 0
    /\ TokenUnlimited \/ sess[r].seenToken > TrustQuota
    /\ userQuota > TrustQuota

\* tryWallet: read the wallet, decide, and enter preConsume.
TryWallet(r) ==
    /\ pc[r] = "wallet"
    /\ \/ /\ WalletInsufficient(r)
          /\ IF sess[r].fallback
               THEN TrySubscription(r, FALSE)
               ELSE Goto(r, "rejected") /\ UNCHANGED sess
          /\ NoStatement
       \/ /\ ~WalletInsufficient(r)
          /\ LET effective == IF ShouldTrust(r) THEN 0 ELSE sess[r].ask
             IN /\ sess' = [sess EXCEPT ![r].src = "wallet",
                              ![r].trusted = ShouldTrust(r),
                              ![r].delta = effective]
                /\ Goto(r, IF effective > 0 THEN "tokenCheck" ELSE "fundTake")
          /\ NoStatement
       \/ Fault(r) /\ Goto(r, "rejected") /\ UNCHANGED sess

\* PreConsumeTokenQuota, the check; a playground request has no token.
PreConsumeTokenCheck(r) ==
    /\ pc[r] = "tokenCheck"
    /\ \/ /\ sess[r].playground
          /\ sess' = [sess EXCEPT ![r].tokenConsumed = sess[r].delta]
          /\ Goto(r, "fundTake")
          /\ NoStatement
       \/ /\ ~sess[r].playground
          /\ Goto(r, IF TokenInsufficient(sess[r].delta)
                       THEN "rejected" ELSE "tokenTake")
          /\ NoStatement /\ UNCHANGED sess
       \/ /\ ~sess[r].playground
          /\ Fault(r) /\ Goto(r, "rejected") /\ UNCHANGED sess

\* PreConsumeTokenQuota, the update.
PreConsumeTokenQuota(r) ==
    /\ pc[r] = "tokenTake"
    /\ \/ /\ DecreaseTokenQuota(r, sess[r].delta)
          /\ sess' = [sess EXCEPT ![r].tokenConsumed = sess[r].delta]
          /\ Goto(r, "fundTake")
       \/ Fault(r) /\ Goto(r, "rejected") /\ UNCHANGED sess

\* WalletFunding.PreConsume; zero is not written.
WalletPreConsume(r) ==
    /\ pc[r] = "fundTake" /\ sess[r].src = "wallet"
    /\ \/ /\ DecreaseUserQuota(r, sess[r].delta)
          /\ sess' = [sess EXCEPT ![r].consumed = sess[r].delta,
                                  ![r].pre = sess[r].delta]
          /\ Goto(r, "open")
       \/ /\ sess[r].delta > 0
          /\ Fault(r) /\ Goto(r, "undoReject") /\ UNCHANGED sess

\* SubscriptionFunding.PreConsume: one transaction that books the amount and
\* creates the record; without an active subscription or with too little left
\* it fails and the session may fall back to the wallet.  A failing query of
\* the subscriptions is reported as "no active subscription" as well.
SubscriptionPreConsume(r) ==
    /\ pc[r] = "fundTake" /\ sess[r].src = "sub"
    /\ \/ /\ subActive /\ SubAccepts(sess[r].delta)
          /\ BookSubscription(r, sess[r].delta)
          /\ record' = [record EXCEPT ![r] = "consumed"]
          /\ sess' = [sess EXCEPT ![r].consumed = sess[r].delta,
                                  ![r].pre = sess[r].delta]
          /\ Goto(r, "open")
       \/ /\ ~(subActive /\ SubAccepts(sess[r].delta))
          /\ Goto(r, "undoFallback")
          /\ NoStatement /\ UNCHANGED sess
       \/ /\ Fault(r)
          /\ \E next \in {"undoReject", "undoFallback"} : Goto(r, next)
          /\ UNCHANGED sess

\* Where a failed preConsume leads once the token is rolled back.
AfterUndo(r) ==
    IF pc[r] = "undoFallback" /\ sess[r].fallback THEN "wallet" ELSE "rejected"

\* preConsume rolls the token back; a failing rollback is only logged.  The
\* session object is dropped; a fallback starts with a new one.
RollbackToken(r) ==
    /\ pc[r] \in {"undoReject", "undoFallback"}
    /\ LET q == IF sess[r].playground THEN 0 ELSE sess[r].tokenConsumed
       IN \/ DecreaseTokenQuota(r, -q)
          \/ q > 0 /\ Fault(r)
    /\ Goto(r, AfterUndo(r))
    /\ sess' = [sess EXCEPT ![r].tokenConsumed = 0, ![r].fallback = FALSE,
                            ![r].delta = 0]

-----------------------------------------------------------------------------
(* Reserve. *)

\* Reserve(target) raises the hold before the upstream request is sent.
Reserve(r, target) ==
    /\ pc[r] = "open"
    /\ ~sess[r].settled /\ ~sess[r].refunded /\ ~sess[r].trusted
    /\ target > sess[r].pre
    /\ sess' = [sess EXCEPT ![r].delta = target - sess[r].pre]
    /\ Goto(r, "rsvFund")
    /\ NoStatement

\* reserveFunding; an error leaves the session as it was.
ReserveFunding(r) ==
    /\ pc[r] = "rsvFund"
    /\ \/ /\ sess[r].src = "wallet"
          /\ DecreaseUserQuota(r, sess[r].delta)
          /\ sess' = [sess EXCEPT ![r].consumed = @ + sess[r].delta]
          /\ Goto(r, "rsvCheck")
       \/ /\ sess[r].src = "sub"
          /\ PostConsumeUserSubscriptionDelta(r, sess[r].delta)
          /\ Goto(r, "rsvCheck")
          /\ UNCHANGED sess
       \/ /\ sess[r].src = "sub" /\ ~SubAccepts(sess[r].delta)
          /\ Goto(r, "open")
          /\ NoStatement /\ UNCHANGED sess
       \/ Fault(r) /\ Goto(r, "open") /\ UNCHANGED sess

\* Mutant: preConsumedQuota is not raised.
ReservedKeepsPre(r) ==
    sess' = [sess EXCEPT ![r].tokenConsumed = @ + sess[r].delta,
                         ![r].extra = @ + sess[r].delta]

\* The fields Reserve assigns when both parts succeeded.
Reserved(r) ==
    sess' = [sess EXCEPT ![r].pre = @ + sess[r].delta,
                         ![r].tokenConsumed = @ + sess[r].delta,
                         ![r].extra = @ + sess[r].delta]

\* reserveToken, the check.
ReserveTokenCheck(r) ==
    /\ pc[r] = "rsvCheck"
    /\ \/ /\ sess[r].playground
          /\ Reserved(r) /\ Goto(r, "open")
          /\ NoStatement
       \/ /\ ~sess[r].playground
          /\ Goto(r, IF TokenInsufficient(sess[r].delta)
                       THEN "rsvUndo" ELSE "rsvToken")
          /\ NoStatement /\ UNCHANGED sess
       \/ /\ ~sess[r].playground
          /\ Fault(r) /\ Goto(r, "rsvUndo") /\ UNCHANGED sess

\* reserveToken, the update.
ReserveToken(r) ==
    /\ pc[r] = "rsvToken"
    /\ \/ /\ DecreaseTokenQuota(r, sess[r].delta)
          /\ Reserved(r) /\ Goto(r, "open")
       \/ Fault(r) /\ Goto(r, "rsvUndo") /\ UNCHANGED sess

\* Mutant: `consumed` is lowered also when the rollback failed.
RollbackFundingReserveForgets(r) ==
    /\ pc[r] = "rsvUndo" /\ sess[r].src = "wallet"
    /\ Goto(r, "open")
    /\ DecreaseUserQuota(r, -sess[r].delta) \/ Fault(r)
    /\ sess' = [sess EXCEPT ![r].consumed = @ - sess[r].delta]

\* rollbackFundingReserve: the wallet keeps `consumed` when the rollback fails,
\* so that Refund still returns it; the subscription remembers nothing.
RollbackFundingReserve(r) ==
    /\ pc[r] = "rsvUndo"
    /\ Goto(r, "open")
    /\ \/ /\ sess[r].src = "wallet"
          /\ DecreaseUserQuota(r, -sess[r].delta)
          /\ sess' = [sess EXCEPT ![r].consumed = @ - sess[r].delta]
       \/ /\ sess[r].src = "sub"
          /\ PostConsumeUserSubscriptionDelta(r, -sess[r].delta)
          /\ UNCHANGED sess
       \/ Fault(r) /\ UNCHANGED sess

-----------------------------------------------------------------------------
(* Settle. *)

\* Mutant: a settled session is settled again.
SettleAgain(r, actual) ==
    /\ pc[r] = "open"
    /\ sess' = [sess EXCEPT ![r].settledAt = actual, ![r].delta = actual - sess[r].pre]
    /\ Goto(r, "setFund")
    /\ NoStatement

\* Settle(actual); an exact hold is settled at once.
Settle(r, actual) ==
    /\ pc[r] = "open"
    /\ ~sess[r].refunded
    /\ ~sess[r].settled
    /\ \/ /\ actual = sess[r].pre
          /\ sess' = [sess EXCEPT ![r].settledAt = actual, ![r].settled = TRUE]
          /\ UNCHANGED pc
       \/ /\ actual # sess[r].pre
          /\ sess' = [sess EXCEPT ![r].settledAt = actual,
                                  ![r].delta = actual - sess[r].pre]
          /\ Goto(r, "setFund")
    /\ NoStatement

\* Settle, step 1: the funding source.  An error leaves the session unsettled.
\* A playground request has no token to adjust and is settled here.
SettleFunding(r) ==
    /\ pc[r] = "setFund"
    /\ \/ /\ \/ /\ sess[r].src = "wallet"
                /\ DecreaseUserQuota(r, sess[r].delta)
             \/ /\ sess[r].src = "sub"
                /\ PostConsumeUserSubscriptionDelta(r, sess[r].delta)
          /\ sess' = [sess EXCEPT ![r].fundingSettled = TRUE,
                                  ![r].settled = sess[r].playground]
          /\ Goto(r, IF sess[r].playground THEN "open" ELSE "setToken")
       \/ /\ sess[r].src = "sub" /\ ~SubAccepts(sess[r].delta)
          /\ Goto(r, "open")
          /\ NoStatement /\ UNCHANGED sess
       \/ Fault(r) /\ Goto(r, "open") /\ UNCHANGED sess

\* Settle, step 2: the token.  An error is logged and the session is settled
\* all the same.
SettleToken(r) ==
    /\ pc[r] = "setToken"
    /\ \/ DecreaseTokenQuota(r, sess[r].delta)
       \/ Fault(r)
    /\ sess' = [sess EXCEPT ![r].settled = TRUE]
    /\ Goto(r, "open")

-----------------------------------------------------------------------------
(* Refund. *)

NeedsRefund(r) ==
    /\ ~sess[r].settled /\ ~sess[r].refunded /\ ~sess[r].fundingSettled
    /\ \/ sess[r].tokenConsumed > 0
       \/ sess[r].src = "sub" /\ sess[r].consumed > 0

\* Mutant: a second call of Refund starts a second goroutine.
RefundTwice(r) ==
    /\ pc[r] \in {"open"} \cup RefundSteps
    /\ ~sess[r].settled /\ sess[r].tokenConsumed > 0
    /\ sess' = [sess EXCEPT ![r].refunded = TRUE]
    /\ Goto(r, "refFund")
    /\ NoStatement

\* Refund marks the session and starts the goroutine that gives everything
\* back.  It may be called again while that runs.
Refund(r) ==
    /\ pc[r] \in {"open"} \cup RefundSteps
    /\ ~sess[r].settled /\ ~sess[r].refunded /\ NeedsRefund(r)
    /\ sess' = [sess EXCEPT ![r].refunded = TRUE]
    /\ Goto(r, "refFund")
    /\ NoStatement

\* Mutant: the goroutine ends after the wallet.
WalletRefundOnly(r) ==
    /\ pc[r] = "refFund" /\ sess[r].src = "wallet"
    /\ DecreaseUserQuota(r, -sess[r].consumed)
    /\ Goto(r, "closed")
    /\ UNCHANGED sess

\* WalletFunding.Refund: one attempt, an error is only logged.
WalletRefund(r) ==
    /\ pc[r] = "refFund" /\ sess[r].src = "wallet"
    /\ \/ DecreaseUserQuota(r, -sess[r].consumed)
       \/ sess[r].consumed > 0 /\ Fault(r)
    /\ Goto(r, "refToken")
    /\ UNCHANGED sess

\* One failed attempt of refundWithRetry.
RetryRefund(r) ==
    /\ sess' = [sess EXCEPT ![r].attempts = @ + 1]
    /\ Goto(r, IF sess[r].attempts + 1 < MaxAttempts THEN "refFund" ELSE "refExtra")

\* RefundSubscriptionPreConsume up to and including the call that returns the
\* amount: that call is a database transaction of its own, committed before
\* the record is marked.
SubscriptionRefund(r) ==
    /\ pc[r] = "refFund" /\ sess[r].src = "sub"
    /\ \/ /\ record[r] = "refunded"
          /\ Goto(r, "refExtra")
          /\ NoStatement /\ UNCHANGED sess
       \/ /\ record[r] # "refunded"
          /\ PostConsumeUserSubscriptionDelta(r, -sess[r].consumed)
          /\ Goto(r, "refMark")
          /\ UNCHANGED sess
       \/ Fault(r) /\ RetryRefund(r)

\* The rest of the outer transaction: save the record as refunded and commit.
MarkRefunded(r) ==
    /\ pc[r] = "refMark"
    /\ \/ /\ record' = [record EXCEPT ![r] = "refunded"]
          /\ Goto(r, "refExtra")
          /\ UNCHANGED <<userQuota, tokenQuota, subUsed, subActive, charges, faults, sess>>
       \/ Fault(r) /\ RetryRefund(r)

\* Mutant: what Reserve added is not returned.
RefundExtraForgotten(r) ==
    /\ pc[r] = "refExtra"
    /\ NoStatement
    /\ Goto(r, "refToken")
    /\ UNCHANGED sess

\* Mutant: the whole hold is returned once more.
RefundExtraWholeHold(r) ==
    /\ pc[r] = "refExtra"
    /\ PostConsumeUserSubscriptionDelta(r, -sess[r].pre)
    /\ Goto(r, "refToken")
    /\ UNCHANGED sess

\* What Reserve added to a subscription is not in the record.
RefundExtraReserved(r) ==
    /\ pc[r] = "refExtra"
    /\ \/ PostConsumeUserSubscriptionDelta(r, -sess[r].extra)
       \/ sess[r].extra > 0 /\ Fault(r)
    /\ Goto(r, "refToken")
    /\ UNCHANGED sess

\* The token comes last, whatever happened to the funding source.
RefundToken(r) ==
    /\ pc[r] = "refToken"
    /\ LET q == IF sess[r].playground THEN 0 ELSE sess[r].tokenConsumed
       IN \/ DecreaseTokenQuota(r, -q)
          \/ q > 0 /\ Fault(r)
    /\ Goto(r, "closed")
    /\ UNCHANGED sess

\* The owner returns: after Settle was called, or with nothing to give back.
Finish(r) ==
    /\ pc[r] = "open"
    /\ sess[r].settledAt # NotSettled \/ ~NeedsRefund(r)
    /\ Goto(r, "closed")
    /\ NoStatement /\ UNCHANGED sess

-----------------------------------------------------------------------------
\* The subscription ends or is cancelled at any time; holds on it stay booked.
ExpireSubscription ==
    /\ subActive
    /\ subActive' = FALSE
    /\ UNCHANGED <<stores, charges, pc, sess, faults>>

Terminating ==
    /\ \A r \in Requests : pc[r] \in {"closed", "rejected"}
    /\ UNCHANGED vars

PreConsumeStep(r) ==
    \/ Start(r) \/ HasActiveUserSubscription(r) \/ TryWallet(r)
    \/ PreConsumeTokenCheck(r) \/ PreConsumeTokenQuota(r)
    \/ WalletPreConsume(r) \/ SubscriptionPreConsume(r) \/ RollbackToken(r)

ReserveStep(r) ==
    \/ \E target \in Targets : Reserve(r, target)
    \/ ReserveFunding(r) \/ ReserveTokenCheck(r) \/ ReserveToken(r)
    \/ RollbackFundingReserve(r)

SettleStep(r) ==
    \/ \E actual \in Actuals : Settle(r, actual)
    \/ SettleFunding(r) \/ SettleToken(r)

RefundStep(r) ==
    \/ WalletRefund(r) \/ SubscriptionRefund(r) \/ MarkRefunded(r)
    \/ RefundExtraReserved(r) \/ RefundToken(r)

Step(r) ==
    PreConsumeStep(r) \/ ReserveStep(r) \/ SettleStep(r)
        \/ Refund(r) \/ RefundStep(r) \/ Finish(r)

Next == (\E r \in Requests : Step(r)) \/ ExpireSubscription \/ Terminating

Spec == Init /\ [][Next]_vars

\* The refund goroutine is scheduled and its statements return.
FairSpec == Spec /\ \A r \in Requests : WF_vars(RefundStep(r))

-----------------------------------------------------------------------------
(* Properties. *)

FundCharged(r) == userCharged[r] + subCharged[r]
TokenShare(r, q) == IF sess[r].playground THEN 0 ELSE q
Clean(r) == faults[r] = 0

SessionType ==
    [pref : Preferences, ask : Nat, playground : BOOLEAN, force : BOOLEAN,
     seenToken : Int, src : {"wallet", "sub"}, fallback : BOOLEAN, delta : Int,
     pre : Nat, tokenConsumed : Nat, consumed : Nat, extra : Nat,
     trusted : BOOLEAN, fundingSettled : BOOLEAN, settled : BOOLEAN,
     refunded : BOOLEAN, attempts : 0..MaxAttempts, settledAt : Nat \cup {NotSettled}]

\* Every variable has its type; in particular no hold recorded in a session
\* ever becomes negative and refundWithRetry stays within its attempts.
TypeOK ==
    /\ userQuota \in Int /\ tokenQuota \in Int
    /\ subUsed \in Nat /\ subActive \in BOOLEAN
    /\ record \in [Requests -> {"none", "consumed", "refunded"}]
    /\ pc \in [Requests -> Steps]
    /\ sess \in [Requests -> SessionType]
    /\ userCharged \in [Requests -> Int]
    /\ tokenCharged \in [Requests -> Int]
    /\ subCharged \in [Requests -> Int]
    /\ faults \in [Requests -> 0..MaxFaults]

\* A settled request without a failed statement has paid exactly its actual
\* cost, to one source, and its token the same amount: over-holds are returned
\* and under-holds collected, whatever was reserved in between.
SettledExactly ==
    \A r \in Requests : Clean(r) /\ sess[r].settled =>
        /\ FundCharged(r) = sess[r].settledAt
        /\ tokenCharged[r] = TokenShare(r, sess[r].settledAt)

\* Between its operations an open session has taken exactly preConsumedQuota,
\* and a request that was rejected, or refunded to the end, has taken nothing.
HoldAccounted ==
    \A r \in Requests : Clean(r) =>
        /\ (pc[r] \in {"open", "closed"} /\ ~sess[r].settled /\ ~sess[r].refunded) =>
              /\ FundCharged(r) = sess[r].pre
              /\ tokenCharged[r] = TokenShare(r, sess[r].pre)
        /\ (pc[r] = "rejected" \/ (pc[r] = "closed" /\ sess[r].refunded)) =>
              userCharged[r] = 0 /\ subCharged[r] = 0 /\ tokenCharged[r] = 0

\* Whatever statements fail, a request is never charged to both sources: the
\* fallback of wallet_first and subscription_first leaves nothing behind.
OneSource ==
    \A r \in Requests : userCharged[r] = 0 \/ subCharged[r] = 0

\* Whatever statements fail, WalletFunding.consumed is exactly what the wallet
\* was charged, so Refund returns all of it; in particular after a Reserve
\* whose rollback failed.
WalletHoldKnown ==
    \A r \in Requests :
        (pc[r] = "open" /\ sess[r].src = "wallet" /\ ~sess[r].settled) =>
            userCharged[r] = sess[r].consumed

\* Whatever statements fail, neither wallet nor token ever gets back more than
\* the request took from it.
NeverOverRefunded ==
    \A r \in Requests : userCharged[r] >= 0 /\ tokenCharged[r] >= 0

\* The usage of a limited subscription stays within its total.
SubWithinTotal == SubTotal > 0 => subUsed =< SubTotal

\* Without failed statements the subscription's usage is the sum of what the
\* requests hold or paid: no release is swallowed by the clamp at zero in
\* PostConsumeUserSubscriptionDelta, in any interleaving.
SubscriptionConserved ==
    /\ TypeOK
    /\ (\A r \in Requests : Clean(r)) => subUsed = SumFunctionOnSet(subCharged, Requests)

\* Once settled, a request's charges never change again: neither a second
\* Settle nor a Refund nor a Reserve after it moves quota.
SettledIsFinal ==
    [][\A r \in Requests : sess[r].settled =>
          /\ sess'[r].settled
          /\ userCharged'[r] = userCharged[r]
          /\ subCharged'[r] = subCharged[r]
          /\ tokenCharged'[r] = tokenCharged[r]]_vars

\* A refund that was started runs to its end, retries included, and when none of
\* the request's statements failed it has returned everything to both.
RefundCompletes ==
    \A r \in Requests :
        sess[r].refunded ~>
            /\ pc[r] = "closed"
            /\ Clean(r) => FundCharged(r) = 0 /\ tokenCharged[r] = 0

\* "RefundSubscriptionPreConsume is idempotent" (model/subscription.go:1188) and
\* may therefore be retried (service/funding_source.go:62): a subscription never
\* gets back more than the request took from it.
SubscriptionRefundedOnce ==
    \A r \in Requests : subCharged[r] >= 0

=============================================================================
