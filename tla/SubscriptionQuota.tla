------------------------- MODULE SubscriptionQuota -------------------------
(***************************************************************************)
(* The subscriptions of one user (model/subscription.go): requests hold,   *)
(* settle and return quota, each with a transaction that reads a row and   *)
(* saves the whole row again, while the reset task starts new periods and  *)
(* administrators or the expiry task end subscriptions.  A failed request  *)
(* may be charged a violation fee (service/violation_fee.go) while the     *)
(* goroutine of its refund runs.                                           *)
(*                                                                         *)
(* The transactions ask for row locks through an option that the GORM      *)
(* version in use ignores.  isolated says whether the database serialises  *)
(* them all the same, as SQLite with its single writer does.  A row's      *)
(* period stands for its reset times: a reset is due while the clock is    *)
(* ahead of it.  Failing statements are in BillingSession.                 *)
(***************************************************************************)
EXTENDS Integers, FiniteSets, FiniteSetsExt

CONSTANTS
    Requests,
    SubCount,       \* the user's subscriptions, in the order they end
    Total,          \* amount_total of each
    Amounts,        \* what a request may cost
    Resets,         \* the plan has a quota reset period
    Settings,       \* deployments considered: [isolated, active, fee], whether
                    \* transactions are serialised, the subscriptions not yet
                    \* ended, the violation fee (0 if disabled)
    MaxClock        \* bound: periods

ASSUME FiniteAssumption == IsFiniteSet(Requests)

ASSUME AmountsAssumption ==
    /\ SubCount \in Nat /\ Total \in Nat /\ MaxClock \in Nat
    /\ Amounts \subseteq Nat \ {0}

ASSUME SettingsAssumption ==
    /\ Resets \in BOOLEAN
    /\ Settings \subseteq [isolated : BOOLEAN, active : SUBSET (1..SubCount), fee : Nat]

VARIABLES
    setting,    \* the deployment, which never changes
    clock,      \* the current period
    sub,        \* user_subscriptions: [used, status, period]
    phase,      \* of each request
    hold,       \* its pre-consume record: [sub, amount, period]
    due,        \* the delta each actor has still to book, 0 if none
    fee,        \* what became of each request's violation fee
    tx,         \* the rows each actor's open transaction read, or NoTx
    locked,     \* the actor whose transaction is open, if serialised
    todo,       \* what a round of the reset task has still to reset
    booked,     \* history: what each request took from the period of its hold
    late        \* history: subscriptions with a delta for an earlier period

vars == <<setting, clock, sub, phase, hold, due, fee, tx, locked, todo, booked, late>>

Subs == 1..SubCount
Actors == (Requests \X {"main", "refund"}) \cup {<<"task", "reset">>}
Resetter == <<"task", "reset">>
Nobody == <<"nobody", "none">>
NoTx == [rows |-> <<>>, now |-> 0]
NoHold == [sub |-> 0, amount |-> 0, period |-> 0]

Init ==
    /\ setting \in Settings
    /\ clock = 0
    /\ sub = [s \in Subs |->
                 [used |-> 0, period |-> 0,
                  status |-> IF s \in setting.active THEN "active" ELSE "ended"]]
    /\ phase = [r \in Requests |-> "new"]
    /\ hold = [r \in Requests |-> NoHold]
    /\ due = [a \in Actors |-> 0]
    /\ fee = [r \in Requests |-> "none"]
    /\ tx = [a \in Actors |-> NoTx]
    /\ locked = Nobody
    /\ todo = {}
    /\ booked = [r \in Requests |-> 0]
    /\ late = {}

-----------------------------------------------------------------------------
(* Transactions *)

\* Mutant: a transaction reads without waiting for the others.
BeginUnlocked(a) ==
    /\ tx[a] = NoTx
    /\ tx' = [tx EXCEPT ![a] = [rows |-> sub, now |-> clock]]
    /\ UNCHANGED locked

Begin(a) ==
    /\ tx[a] = NoTx
    /\ setting.isolated => locked = Nobody
    /\ tx' = [tx EXCEPT ![a] = [rows |-> sub, now |-> clock]]
    /\ locked' = IF setting.isolated THEN a ELSE locked

End(a) ==
    /\ tx' = [tx EXCEPT ![a] = NoTx]
    /\ locked' = IF locked = a THEN Nobody ELSE locked

ResetDue(row, now) == Resets /\ row.period < now

\* Mutant: the usage is not cleared.
AfterResetKeepsUsage(row, now) ==
    IF ResetDue(row, now) THEN [row EXCEPT !.period = now] ELSE row

\* maybeResetUserSubscriptionWithPlanTx
AfterReset(row, now) ==
    IF ResetDue(row, now) THEN [row EXCEPT !.used = 0, !.period = now] ELSE row

\* Mutant: the comparison is off by one.
FitsOneMore(used) == used <= Total + 1

\* The usage leaves no more than the total (amount_total 0, unlimited, is left out).
Fits(used) == used <= Total

\* History: a row whose period begins has no late deltas.
LateAfter(rows) == {s \in late : rows[s].period = sub[s].period}

-----------------------------------------------------------------------------
(* Requests *)

\* PreConsumeUserSubscription reads the user's active subscriptions...
PreConsume(r, n) ==
    /\ phase[r] = "new"
    /\ Begin(<<r, "main">>)
    /\ phase' = [phase EXCEPT ![r] = "pre"]
    /\ hold' = [hold EXCEPT ![r].amount = n]
    /\ UNCHANGED <<setting, clock, sub, due, fee, todo, booked, late>>

\* ...and books the amount on the first that has room, after the resets that are
\* due on it and on those before it.  If none has, the resets are rolled back too.
PreConsumeCommit(r) ==
    LET a      == <<r, "main">>
        n      == hold[r].amount
        row(s) == AfterReset(tx[a].rows[s], tx[a].now)
        active == {s \in Subs : tx[a].rows[s].status = "active"}
        fits   == {s \in active : Fits(row(s).used + n)}
        first  == Min(fits)
        saved  == [s \in Subs |->
                     CASE s = first -> [row(s) EXCEPT !.used = @ + n]
                       [] s < first /\ s \in active /\ ResetDue(tx[a].rows[s], tx[a].now) -> row(s)
                       [] OTHER -> sub[s]]
    IN  /\ phase[r] = "pre"
        /\ End(a)
        /\ IF fits = {}
           THEN /\ phase' = [phase EXCEPT ![r] = "rejected"]
                /\ UNCHANGED <<sub, hold, booked, late>>
           ELSE /\ sub' = saved
                /\ phase' = [phase EXCEPT ![r] = "held"]
                /\ hold' = [hold EXCEPT ![r].sub = first, ![r].period = saved[first].period]
                /\ booked' = [booked EXCEPT ![r] = n]
                /\ late' = LateAfter(saved)
        /\ UNCHANGED <<setting, clock, due, fee, todo>>

\* The request succeeds with its actual cost.
Settle(r, cost) ==
    /\ phase[r] = "held"
    /\ phase' = [phase EXCEPT ![r] = "settled"]
    /\ due' = [due EXCEPT ![<<r, "main">>] = cost - hold[r].amount]
    /\ UNCHANGED <<setting, clock, sub, hold, fee, tx, locked, todo, booked, late>>

\* The request fails: Refund starts its goroutine; the fee is next in the handler.
Fail(r, violation) ==
    /\ phase[r] = "held"
    /\ phase' = [phase EXCEPT ![r] = "refunded"]
    /\ due' = [due EXCEPT ![<<r, "refund">>] = -hold[r].amount,
                          ![<<r, "main">>] = IF violation THEN setting.fee ELSE 0]
    /\ fee' = [fee EXCEPT ![r] = IF violation THEN "due" ELSE "none"]
    /\ UNCHANGED <<setting, clock, sub, hold, tx, locked, todo, booked, late>>

\* PostConsumeUserSubscriptionDelta reads the row...
Delta(r, thread) ==
    /\ due[<<r, thread>>] # 0
    /\ Begin(<<r, thread>>)
    /\ UNCHANGED <<setting, clock, sub, phase, hold, due, fee, todo, booked, late>>

\* The row with the delta booked, never below zero.
Booked(row, d) == [row EXCEPT !.used = Max({@ + d, 0})]

\* ...and saves it, unless the total is exceeded.
DeltaCommit(r, thread) ==
    LET a     == <<r, thread>>
        s     == hold[r].sub
        saved == Booked(tx[a].rows[s], due[a])
        isFee == thread = "main" /\ fee[r] = "due"
    IN  /\ due[a] # 0 /\ tx[a] # NoTx
        /\ End(a)
        /\ due' = [due EXCEPT ![a] = 0]
        /\ fee' = [fee EXCEPT ![r] = IF ~isFee THEN @
                                     ELSE IF Fits(saved.used) THEN "charged" ELSE "refused"]
        /\ IF Fits(saved.used)
           THEN /\ sub' = [sub EXCEPT ![s] = saved]
                /\ IF saved.period = hold[r].period
                   THEN booked' = [booked EXCEPT ![r] = @ + due[a]] /\ UNCHANGED late
                   ELSE late' = late \cup {s} /\ UNCHANGED booked
           ELSE UNCHANGED <<sub, booked, late>>
        /\ UNCHANGED <<setting, clock, phase, hold, todo>>

-----------------------------------------------------------------------------
(* Periods and ends *)

\* A period passes.
Tick ==
    /\ clock < MaxClock
    /\ clock' = clock + 1
    /\ UNCHANGED <<setting, sub, phase, hold, due, fee, tx, locked, todo, booked, late>>

\* Mutant: only subscriptions nobody uses are listed.
ResetListUnused ==
    /\ todo = {}
    /\ todo' = {s \in Subs : sub[s].used = 0 /\ sub[s].status = "active" /\ ResetDue(sub[s], clock)}
    /\ todo' # {}
    /\ UNCHANGED <<setting, clock, sub, phase, hold, due, fee, tx, locked, booked, late>>

\* ResetDueSubscriptions lists the active subscriptions whose reset is due...
ResetList ==
    /\ todo = {}
    /\ todo' = {s \in Subs : sub[s].status = "active" /\ ResetDue(sub[s], clock)}
    /\ todo' # {}
    /\ UNCHANGED <<setting, clock, sub, phase, hold, due, fee, tx, locked, booked, late>>

\* ...and for each reads it again...
Reset ==
    /\ todo # {}
    /\ Begin(Resetter)
    /\ UNCHANGED <<setting, clock, sub, phase, hold, due, fee, todo, booked, late>>

\* ...and saves it if its reset is still due, whatever its status is by now.
ResetCommit(s) ==
    LET read  == tx[Resetter]
        saved == [sub EXCEPT ![s] = AfterReset(read.rows[s], read.now)]
    IN  /\ s \in todo /\ read # NoTx
        /\ End(Resetter)
        /\ todo' = todo \ {s}
        /\ IF ResetDue(read.rows[s], read.now)
           THEN sub' = saved /\ late' = LateAfter(saved)
           ELSE UNCHANGED <<sub, late>>
        /\ UNCHANGED <<setting, clock, phase, hold, due, fee, booked>>

\* AdminInvalidateUserSubscription and ExpireDueSubscriptions write the columns
\* of the end only.
EndSubscription(s) ==
    /\ sub[s].status = "active"
    /\ locked = Nobody
    /\ sub' = [sub EXCEPT ![s].status = "ended"]
    /\ UNCHANGED <<setting, clock, phase, hold, due, fee, tx, locked, todo, booked, late>>

Step(r) ==
    \/ PreConsumeCommit(r)
    \/ \E cost \in Amounts : Settle(r, cost)
    \/ \E violation \in BOOLEAN : Fail(r, violation)
    \/ \E thread \in {"main", "refund"} : Delta(r, thread) \/ DeltaCommit(r, thread)

ResetTask == ResetList \/ Reset \/ \E s \in Subs : ResetCommit(s)

Next ==
    \/ Tick
    \/ ResetTask
    \/ \E r \in Requests : Step(r) \/ \E n \in Amounts : PreConsume(r, n)
    \/ \E s \in Subs : EndSubscription(s)

Spec == Init /\ [][Next]_vars

\* Transactions end, requests are answered, and the reset task runs every minute.
FairSpec == Spec /\ WF_vars(ResetTask) /\ \A r \in Requests : WF_vars(Step(r))

-----------------------------------------------------------------------------
(* Properties *)

\* Type invariant of the rows, the requests and the open transactions; the usage
\* of a subscription is never negative.
TypeOK ==
    /\ clock \in 0..MaxClock
    /\ sub \in [Subs -> [used : Nat, status : {"active", "ended"}, period : 0..MaxClock]]
    /\ phase \in [Requests -> {"new", "pre", "rejected", "held", "settled", "refunded"}]
    /\ hold \in [Requests -> [sub : 0..SubCount, amount : Amounts \cup {0}, period : 0..MaxClock]]
    /\ due \in [Actors -> Int]
    /\ fee \in [Requests -> {"none", "due", "charged", "refused"}]
    /\ \A a \in Actors : tx[a] = NoTx \/ (DOMAIN tx[a].rows = Subs /\ tx[a].now \in 0..MaxClock)
    /\ locked \in Actors \cup {Nobody}
    /\ todo \subseteq Subs /\ late \subseteq Subs
    /\ booked \in [Requests -> Int]

\* No subscription is used beyond its total, whatever transactions interleave.
WithinTotal == TypeOK /\ \A s \in Subs : sub[s].used <= Total

\* What a subscription's current period was charged according to its requests.
Charged(s) ==
    SumFunctionOnSet(booked,
        {r \in Requests : hold[r].sub = s /\ hold[r].period = sub[s].period})

\* The usage of a subscription is what the requests of its period hold or paid,
\* until a delta of an earlier period is booked on it: no update is lost, a reset
\* clears neither too much nor too little.  It takes transactions that are
\* serialised: without, a save overwrites what another one committed since.
UsageExplained == setting.isolated => \A s \in Subs \ late : sub[s].used = Charged(s)

\* With serialised transactions nothing is undone by a request or a reset that
\* saves the row it read: a cancelled or expired subscription is not revived, and
\* a new period does not give way to the old one.
NothingUndone ==
    [][setting.isolated => \A s \in Subs :
          /\ sub[s].status = "ended" => sub'[s].status = "ended"
          /\ sub'[s].period >= sub[s].period]_vars

\* A due reset happens, or the subscription ends.
ResetHappens ==
    \A s \in Subs :
        sub[s].status = "active" /\ ResetDue(sub[s], clock)
            ~> sub[s].status = "ended" \/ ~ResetDue(sub[s], clock)
=============================================================================
