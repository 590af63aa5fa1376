---------------------------- MODULE PaymentOrder ----------------------------
(***************************************************************************)
(* One payment order, a top-up (model/topup.go) or a subscription order    *)
(* (model/subscription.go), and the handlers that complete, fail or expire *)
(* it: webhooks of the payment providers, delivered any number of times    *)
(* and to any node, and the administrator's "complete order".              *)
(*                                                                         *)
(* Handlers of one process exclude each other through LockOrder, a map of  *)
(* reference-counted mutexes (controller/topup.go); the transactions ask   *)
(* for a row lock besides, through an option that the GORM version in use  *)
(* ignores: rowLocks says whether the database isolates them all the same. *)
(* A mutex is named after the handler that created it.                     *)
(***************************************************************************)
EXTENDS Integers, FiniteSets

CONSTANTS
    Handlers,       \* deliveries of webhooks and administrator's requests
    NoHandler,
    Nodes,          \* processes
    Placements,     \* where the handlers may run
    Kinds,          \* kinds of order considered
    Failures,       \* statements may fail
    Crashes         \* processes may crash

ASSUME HandlersAssumption == NoHandler \notin Handlers /\ Placements \subseteq [Handlers -> Nodes]

ASSUME FiniteAssumption == IsFiniteSet(Handlers)

ASSUME KindsAssumption == Kinds \subseteq {"epay", "stripe", "waffo", "subscription"}

ASSUME SwitchesAssumption == {Failures, Crashes} \subseteq BOOLEAN

VARIABLES
    nodeOf,     \* where each handler runs
    rowLocks,   \* FOR UPDATE takes effect
    kind,       \* what the order is; Creem top-ups are handled as "stripe",
                \* Waffo Pancake ones as "waffo" without failures
    outcome,    \* what became of the payment at the provider
    status,     \* the order's status
    credit,     \* how often the order was credited to the user
    at,         \* each handler's next step
    event,      \* what each handler was called for
    mutex,      \* each handler's mutex
    orderLocks, \* each node's entry for the order
    refCount,   \* of each mutex
    holder,     \* of each mutex
    row,        \* the transaction that holds the row, with rowLocks
    faulty      \* history: a handler met a failing statement or a crash

lockVars == <<mutex, orderLocks, refCount, holder>>
setting == <<nodeOf, rowLocks, kind, outcome>>
vars == <<nodeOf, rowLocks, kind, outcome, status, credit, at, event, mutex, orderLocks, refCount, holder, row, faulty>>

Events == {"paid", "failed", "expired", "admin"}
Steps == {"idle", "enter", "lock", "read", "write", "credit", "release", "leave", "done"}

Outcomes(k) ==
    CASE k = "epay"         -> {"paid"}
      [] k = "stripe"       -> {"paid", "failed", "expired"}
      [] k = "waffo"        -> {"paid", "failed"}
      [] k = "subscription" -> {"paid", "expired"}

\* What a handler may be called for.  Waffo also reports payments that are not
\* final yet, which handleWaffoPayment takes for failed ones.
Notices ==
    {outcome} \cup (IF kind = "subscription" THEN {} ELSE {"admin"})
              \cup (IF kind = "waffo" THEN {"failed"} ELSE {})

\* handleWaffoPayment marks an order that was not paid without LockOrder.
Locked(e) == ~(kind = "waffo" /\ e = "failed")

\* EpayNotify and sessionAsyncPaymentFailed read and save outside a transaction.
Transactional(e) == ~(kind = "epay" /\ e = "paid") /\ ~(kind = "stripe" /\ e = "failed")

Target(e) == IF e \in {"paid", "admin"} THEN "success" ELSE e

Init ==
    /\ nodeOf \in Placements /\ rowLocks \in BOOLEAN
    /\ kind \in Kinds /\ outcome \in Outcomes(kind)
    /\ status = "pending" /\ credit = 0
    /\ at = [h \in Handlers |-> "idle"]
    /\ event = [h \in Handlers |-> "admin"]
    /\ mutex = [h \in Handlers |-> NoHandler]
    /\ orderLocks = [n \in Nodes |-> NoHandler]
    /\ refCount = [h \in Handlers |-> 0]
    /\ holder = [h \in Handlers |-> NoHandler]
    /\ row = NoHandler
    /\ faulty = FALSE

-----------------------------------------------------------------------------
(* LockOrder and UnlockOrder *)

Deliver(h, e) ==
    /\ at[h] = "idle"
    /\ e \in Notices
    /\ event' = [event EXCEPT ![h] = e]
    /\ at' = [at EXCEPT ![h] = IF Locked(e) THEN "enter" ELSE "read"]
    /\ UNCHANGED <<setting, status, credit, row, faulty, lockVars>>

\* Under createLock: find or store the mutex, and count the reference.
Enter(h) ==
    LET n == nodeOf[h]
        m == IF orderLocks[n] = NoHandler THEN h ELSE orderLocks[n]
    IN  /\ at[h] = "enter"
        /\ orderLocks' = [orderLocks EXCEPT ![n] = m]
        /\ refCount' = [refCount EXCEPT ![m] = @ + 1]
        /\ mutex' = [mutex EXCEPT ![h] = m]
        /\ at' = [at EXCEPT ![h] = "lock"]
        /\ UNCHANGED <<setting, status, credit, event, holder, row, faulty>>

Acquire(h) ==
    /\ at[h] = "lock"
    /\ holder[mutex[h]] = NoHandler
    /\ holder' = [holder EXCEPT ![mutex[h]] = h]
    /\ at' = [at EXCEPT ![h] = "read"]
    /\ UNCHANGED <<setting, status, credit, event, mutex, orderLocks, refCount, row, faulty>>

\* Mutant: a handler that finds the map's entry returns without unlocking.
ReleaseKeepsHolder(h) ==
    /\ at[h] = "release"
    /\ mutex' = [mutex EXCEPT ![h] = orderLocks[nodeOf[h]]]
    /\ at' = [at EXCEPT ![h] = IF mutex'[h] = NoHandler THEN "done" ELSE "leave"]
    /\ UNCHANGED <<setting, status, credit, event, orderLocks, refCount, holder, row, faulty>>

\* UnlockOrder takes the mutex from the map, not from its caller.
Release(h) ==
    LET m == orderLocks[nodeOf[h]] IN
    /\ at[h] = "release"
    /\ IF m = NoHandler
       THEN at' = [at EXCEPT ![h] = "done"] /\ UNCHANGED <<holder, mutex>>
       ELSE /\ holder' = [holder EXCEPT ![m] = NoHandler]
            /\ mutex' = [mutex EXCEPT ![h] = m]
            /\ at' = [at EXCEPT ![h] = "leave"]
    /\ UNCHANGED <<setting, status, credit, event, orderLocks, refCount, row, faulty>>

\* Mutant: the entry is deleted by everyone who leaves.
LeaveDeletes(h) ==
    /\ at[h] = "leave"
    /\ refCount' = [refCount EXCEPT ![mutex[h]] = @ - 1]
    /\ orderLocks' = [orderLocks EXCEPT ![nodeOf[h]] = NoHandler]
    /\ at' = [at EXCEPT ![h] = "done"]
    /\ mutex' = [mutex EXCEPT ![h] = NoHandler]
    /\ UNCHANGED <<setting, status, credit, event, holder, row, faulty>>

\* Under createLock: the last one deletes the entry.
Leave(h) ==
    /\ at[h] = "leave"
    /\ refCount' = [refCount EXCEPT ![mutex[h]] = @ - 1]
    /\ orderLocks' = [orderLocks EXCEPT ![nodeOf[h]] =
                          IF refCount[mutex[h]] = 1 THEN NoHandler ELSE @]
    /\ at' = [at EXCEPT ![h] = "done"]
    /\ mutex' = [mutex EXCEPT ![h] = NoHandler]
    /\ UNCHANGED <<setting, status, credit, event, holder, row, faulty>>

-----------------------------------------------------------------------------
(* The order *)

Exit(h) == at' = [at EXCEPT ![h] = IF Locked(event[h]) THEN "release" ELSE "done"]

\* Mutant: a completed order is not refused.
ReadAny(h) ==
    /\ at[h] = "read"
    /\ rowLocks /\ Transactional(event[h]) => row = NoHandler
    /\ at' = [at EXCEPT ![h] = "write"]
    /\ row' = IF rowLocks /\ Transactional(event[h]) THEN h ELSE row
    /\ UNCHANGED <<setting, status, credit, event, faulty, lockVars>>

\* The order is read; only a pending one is worth going on.
Read(h) ==
    /\ at[h] = "read"
    /\ rowLocks /\ Transactional(event[h]) => row = NoHandler
    /\ IF status = "pending"
       THEN /\ at' = [at EXCEPT ![h] = "write"]
            /\ row' = IF rowLocks /\ Transactional(event[h]) THEN h ELSE row
       ELSE Exit(h) /\ UNCHANGED row
    /\ UNCHANGED <<setting, status, credit, event, faulty, lockVars>>

\* Mutant: the status is saved but nothing is credited.
WriteForgetsCredit(h) ==
    /\ at[h] = "write"
    /\ row \in {h, NoHandler}
    /\ status' = Target(event[h])
    /\ Exit(h)
    /\ row' = NoHandler
    /\ UNCHANGED <<setting, credit, event, faulty, lockVars>>

\* Save writes the whole order.  A transaction credits the user (or creates the
\* subscription) with it; EpayNotify does so next.
Write(h) ==
    /\ at[h] = "write"
    /\ row \in {h, NoHandler}
    /\ status' = Target(event[h])
    /\ IF Target(event[h]) = "success" /\ ~Transactional(event[h])
       THEN at' = [at EXCEPT ![h] = "credit"] /\ UNCHANGED credit
       ELSE /\ Exit(h)
            /\ credit' = IF Target(event[h]) = "success" THEN credit + 1 ELSE credit
    /\ row' = NoHandler
    /\ UNCHANGED <<setting, event, faulty, lockVars>>

\* IncreaseUserQuota of EpayNotify.
Credit(h) ==
    /\ at[h] = "credit"
    /\ credit' = credit + 1
    /\ Exit(h)
    /\ UNCHANGED <<setting, status, event, row, faulty, lockVars>>

\* A statement fails: a transaction is rolled back, the handler returns.
StatementError(h) ==
    /\ Failures
    /\ at[h] \in {"read", "write", "credit"}
    /\ Exit(h)
    /\ row' = IF row = h THEN NoHandler ELSE row
    /\ faulty' = TRUE
    /\ UNCHANGED <<setting, status, credit, event, lockVars>>

Running(h) == at[h] \notin {"idle", "done"}

\* A process dies with its handlers and its mutexes.
Crash(n) ==
    LET gone == {h \in Handlers : nodeOf[h] = n /\ Running(h)} IN
    /\ Crashes
    /\ gone # {}
    /\ at' = [h \in Handlers |-> IF h \in gone THEN "done" ELSE at[h]]
    /\ mutex' = [h \in Handlers |-> IF h \in gone THEN NoHandler ELSE mutex[h]]
    /\ orderLocks' = [orderLocks EXCEPT ![n] = NoHandler]
    /\ refCount' = [h \in Handlers |-> IF nodeOf[h] = n THEN 0 ELSE refCount[h]]
    /\ holder' = [h \in Handlers |-> IF nodeOf[h] = n THEN NoHandler ELSE holder[h]]
    /\ row' = IF row \in gone THEN NoHandler ELSE row
    /\ faulty' = TRUE
    /\ UNCHANGED <<setting, status, credit, event>>

Handle(h) ==
    \/ Enter(h) \/ Acquire(h) \/ Read(h) \/ Write(h) \/ Credit(h)
    \/ StatementError(h) \/ Release(h) \/ Leave(h)

Next ==
    \/ \E h \in Handlers : Handle(h) \/ \E e \in Events : Deliver(h, e)
    \/ \E n \in Nodes : Crash(n)

Spec == Init /\ [][Next]_vars

\* A handler that was called goes on: the statements return.
FairSpec == Spec /\ \A h \in Handlers : WF_vars(Handle(h))

-----------------------------------------------------------------------------
(* Properties *)

\* Type invariant of the order, its handlers and their mutexes.
TypeOK ==
    /\ nodeOf \in [Handlers -> Nodes] /\ rowLocks \in BOOLEAN
    /\ kind \in Kinds /\ outcome \in Outcomes(kind)
    /\ status \in {"pending", "success", "failed", "expired"}
    /\ credit \in Nat
    /\ at \in [Handlers -> Steps] /\ event \in [Handlers -> Events]
    /\ mutex \in [Handlers -> Handlers \cup {NoHandler}]
    /\ orderLocks \in [Nodes -> Handlers \cup {NoHandler}]
    /\ refCount \in [Handlers -> Nat]
    /\ holder \in [Handlers -> Handlers \cup {NoHandler}]
    /\ row \in Handlers \cup {NoHandler}
    /\ faulty \in BOOLEAN

InOrder(h) == at[h] \in {"read", "write", "credit", "release"} /\ Locked(event[h])

\* LockOrder: no two handlers of one process are between LockOrder and
\* UnlockOrder of the same order, however entries are deleted and created anew;
\* and the map does not grow, once nobody works on the order its entry is gone.
LockOrderSound ==
    /\ TypeOK
    /\ \A g, h \in Handlers :
         InOrder(g) /\ InOrder(h) /\ nodeOf[g] = nodeOf[h] => g = h
    /\ (\A h \in Handlers : ~Running(h)) => \A n \in Nodes : orderLocks[n] = NoHandler

OneNode == \A g, h \in Handlers : nodeOf[g] = nodeOf[h]

\* What keeps the handlers of the order apart: LockOrder when all of them take it
\* in one process, or row locks when all of them work in transactions.
Guarded ==
    \/ OneNode /\ kind # "waffo"
    \/ rowLocks /\ kind \in {"waffo", "subscription"}

\* A guarded order is credited at most once, however often it is reported; without
\* failures its status tells whether it was.
CreditedOnce ==
    Guarded =>
        /\ credit <= 1
        /\ ~faulty /\ (\A h \in Handlers : at[h] # "credit")
             => credit = IF status = "success" THEN 1 ELSE 0

\* A payment that was reported, and whose handlers met no failure, is credited,
\* also where nothing keeps the handlers apart, unless a report from before the
\* payment was handled, too.
PaidIsCredited ==
    ( /\ \E h \in Handlers : at[h] = "done" /\ event[h] = "paid"
      /\ \A h \in Handlers : at[h] # "credit" /\ event[h] # "failed"
      /\ ~faulty /\ outcome = "paid" )
        => credit >= 1

\* Every delivery is answered: nobody waits for a mutex for ever.
DeliveriesEnd == \A h \in Handlers : Running(h) ~> ~Running(h)
=============================================================================
