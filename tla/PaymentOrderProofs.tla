------------------------- MODULE PaymentOrderProofs -------------------------
(***************************************************************************)
(* Proofs about PaymentOrder, for any number of handlers and nodes: the    *)
(* reference-counted mutexes of LockOrder exclude each other's holders and *)
(* are deleted, a guarded order is credited once, and a payment that was   *)
(* reported is credited.                                                   *)
(***************************************************************************)
EXTENDS PaymentOrder, FiniteSetTheorems, TLAPS

-----------------------------------------------------------------------------
(* The inductive invariants *)

Users(m) == {h \in Handlers : mutex[h] = m}

\* A handler has a mutex exactly between the two halves of LockOrder's and of
\* UnlockOrder's work, and it is the one in the map of its process.
MutexKnown ==
    /\ \A h \in Handlers : mutex[h] # NoHandler <=> at[h] \in {"lock", "leave"} \/ InOrder(h)
    /\ \A h \in Handlers : mutex[h] # NoHandler => mutex[h] = orderLocks[nodeOf[h]]
    /\ \A h \in Handlers : at[h] \in {"enter", "lock", "release", "leave"} => Locked(event[h])

\* An entry of the map belongs to its process and is in use.
EntryUsed ==
    \A n \in Nodes : orderLocks[n] # NoHandler =>
        nodeOf[orderLocks[n]] = n /\ Users(orderLocks[n]) # {}

\* The reference count is exact.
CountExact == \A m \in Handlers : refCount[m] = Cardinality(Users(m))

\* A mutex is held by exactly the handler that works on the order with it.
HeldInOrder ==
    /\ \A h \in Handlers : InOrder(h) => holder[mutex[h]] = h
    /\ \A m \in Handlers : holder[m] # NoHandler =>
         InOrder(holder[m]) /\ mutex[holder[m]] = m

LockInv == TypeOK /\ MutexKnown /\ EntryUsed /\ CountExact /\ HeldInOrder

\* With row locks, a transaction that has read the order holds its row.
RowHeld ==
    \A h \in Handlers : at[h] = "write" /\ rowLocks /\ Transactional(event[h]) => row = h

\* Only EpayNotify credits in a step of its own.
CreditApart == \A h \in Handlers : at[h] = "credit" => ~Transactional(event[h])

\* In a guarded order one handler at a time is past its check of the status, and
\* what it has found is still so when it writes.
OneWriter ==
    Guarded =>
        /\ \A g, h \in Handlers : {at[g], at[h]} \subseteq {"write", "credit"} => g = h
        /\ \A h \in Handlers : at[h] = "write" => status = "pending"
        /\ \A h \in Handlers : at[h] = "credit" => status = "success" /\ credit = 0

CreditFollows ==
    Guarded =>
        /\ status # "success" => credit = 0
        /\ credit \in {0, 1}
        /\ ~faulty /\ status = "success" /\ (\A h \in Handlers : at[h] # "credit") => credit = 1

CreditInv == RowHeld /\ CreditApart /\ OneWriter /\ CreditFollows

\* With nothing but reports of the payment and no failure, an order that is no longer
\* pending is credited or about to be, and whoever has returned has seen that.
ReportsLand ==
    /\ \A h \in Handlers : at[h] = "idle" => event[h] = "admin"
    /\ outcome = "paid" /\ ~faulty /\ (\A h \in Handlers : event[h] # "failed") =>
         /\ \A h \in Handlers : event[h] \in {"paid", "admin"}
         /\ status \in {"pending", "success"}
         /\ status = "success" => credit >= 1 \/ \E h \in Handlers : at[h] = "credit"
         /\ \A h \in Handlers : at[h] \in {"credit", "release", "leave", "done"} => status = "success"

-----------------------------------------------------------------------------
(* LockOrder *)

LEMMA InitLock == Init => LockInv
  <1> SUFFICES ASSUME Init PROVE LockInv
    OBVIOUS
  <1>1. TypeOK
    BY HandlersAssumption DEF Init, TypeOK, Steps, Events
  <1>2. MutexKnown /\ EntryUsed /\ HeldInOrder
    BY DEF Init, MutexKnown, EntryUsed, HeldInOrder, InOrder
  <1>3. ASSUME NEW m \in Handlers PROVE Users(m) = {}
    BY HandlersAssumption DEF Init, Users
  <1>4. CountExact
    BY <1>3, FS_EmptySet DEF Init, CountExact
  <1>5. QED
    BY <1>1, <1>2, <1>4 DEF LockInv

\* The sets of users are finite, and change by one handler at a time.
LEMMA UsersFinite ==
    ASSUME NEW m
    PROVE  IsFiniteSet(Users(m)) /\ Cardinality(Users(m)) \in Nat
  BY FiniteAssumption, FS_Subset, FS_CardinalityType DEF Users

\* A mutex belongs to the process of everyone who uses it.
LEMMA UserHome ==
    ASSUME LockInv, NEW h \in Handlers, mutex[h] # NoHandler
    PROVE  /\ mutex[h] \in Handlers /\ nodeOf[h] \in Nodes
           /\ nodeOf[mutex[h]] = nodeOf[h] /\ orderLocks[nodeOf[h]] = mutex[h]
  BY DEF LockInv, TypeOK, MutexKnown, EntryUsed

LEMMA TypeStep ==
    ASSUME LockInv, [Next]_vars
    PROVE  TypeOK'
  <1> USE DEF LockInv
  <1>1. ASSUME NEW h \in Handlers, NEW e \in Events, Deliver(h, e) PROVE TypeOK'
    BY <1>1 DEF TypeOK, Deliver, Steps, setting, lockVars
  <1>2. ASSUME NEW h \in Handlers, Enter(h) PROVE TypeOK'
    BY <1>2 DEF TypeOK, Enter, Steps, setting
  <1>3. ASSUME NEW h \in Handlers, Acquire(h) PROVE TypeOK'
    BY <1>3 DEF TypeOK, Acquire, Steps, setting
  <1>4. ASSUME NEW h \in Handlers, Read(h) PROVE TypeOK'
    BY <1>4 DEF TypeOK, Read, Exit, Steps, setting, lockVars
  <1>5. ASSUME NEW h \in Handlers, Write(h) PROVE TypeOK'
    BY <1>5 DEF TypeOK, Write, Exit, Target, Steps, Events, setting, lockVars
  <1>6. ASSUME NEW h \in Handlers, Credit(h) PROVE TypeOK'
    BY <1>6 DEF TypeOK, Credit, Exit, Steps, setting, lockVars
  <1>7. ASSUME NEW h \in Handlers, StatementError(h) PROVE TypeOK'
    BY <1>7 DEF TypeOK, StatementError, Exit, Steps, setting, lockVars
  <1>8. ASSUME NEW h \in Handlers, Release(h) PROVE TypeOK'
    BY <1>8 DEF TypeOK, Release, Steps, setting
  <1>9. ASSUME NEW h \in Handlers, Leave(h) PROVE TypeOK'
    <2>1. mutex[h] \in Handlers
      BY <1>9, UserHome DEF Leave, MutexKnown
    <2>2. h \in Users(mutex[h])
      BY DEF Users
    <2>3. Users(mutex[h]) # {}
      BY <2>2
    <2>4. refCount[mutex[h]] \in Nat \ {0}
      BY <2>1, <2>3, UsersFinite, FS_EmptySet DEF CountExact
    <2>5. refCount[mutex[h]] - 1 \in Nat
      BY <2>4
    <2>6. QED
      BY <1>9, <2>1, <2>5 DEF TypeOK, Leave, Steps, setting
  <1>10. ASSUME NEW n \in Nodes, Crash(n) PROVE TypeOK'
    BY <1>10 DEF TypeOK, Crash, Steps, setting
  <1>11. CASE UNCHANGED vars
    BY <1>11 DEF TypeOK, vars
  <1>12. QED
    BY <1>1, <1>2, <1>3, <1>4, <1>5, <1>6, <1>7, <1>8, <1>9, <1>10, <1>11 DEF Next, Handle

\* Steps between the two ends of the work on the order leave the locks alone.
LEMMA WorkKeepsLock ==
    ASSUME LockInv, NEW h \in Handlers, UNCHANGED <<setting, event, lockVars>>,
           at[h] \in {"read", "write", "credit"},
           \E a \in {"read", "write", "credit", IF Locked(event[h]) THEN "release" ELSE "done"} :
               at' = [at EXCEPT ![h] = a]
    PROVE  MutexKnown' /\ EntryUsed' /\ CountExact' /\ HeldInOrder'
  <1>0. UNCHANGED <<nodeOf, rowLocks, kind, outcome, event, mutex, orderLocks, refCount, holder>>
    BY DEF setting, lockVars
  <1>1. \A g \in Handlers : InOrder(g)' <=> InOrder(g)
    BY <1>0 DEF LockInv, TypeOK, InOrder, Locked
  <1>2. MutexKnown'
    BY <1>0, <1>1 DEF LockInv, TypeOK, MutexKnown, Locked
  <1>3. \A m : Users(m)' = Users(m)
    BY <1>0 DEF Users
  <1>4. EntryUsed' /\ CountExact'
    BY <1>0, <1>3 DEF LockInv, TypeOK, EntryUsed, CountExact
  <1>5. HeldInOrder'
    BY <1>0, <1>1 DEF LockInv, TypeOK, HeldInOrder
  <1>6. QED
    BY <1>2, <1>4, <1>5

LEMMA DeliverKeepsLock ==
    ASSUME LockInv, NEW h \in Handlers, NEW e \in Events, Deliver(h, e)
    PROVE  MutexKnown' /\ EntryUsed' /\ CountExact' /\ HeldInOrder'
  <1>0. /\ UNCHANGED <<nodeOf, rowLocks, kind, outcome, mutex, orderLocks, refCount, holder>>
        /\ at[h] = "idle" /\ event' = [event EXCEPT ![h] = e]
        /\ at' = [at EXCEPT ![h] = IF Locked(e) THEN "enter" ELSE "read"]
    BY DEF Deliver, setting, lockVars
  <1>1. \A g \in Handlers : InOrder(g)' <=> InOrder(g)
    BY <1>0 DEF LockInv, TypeOK, InOrder, Locked
  <1>2. MutexKnown'
    BY <1>0, <1>1 DEF LockInv, TypeOK, MutexKnown, Locked
  <1>3. \A m : Users(m)' = Users(m)
    BY <1>0 DEF Users
  <1>4. EntryUsed' /\ CountExact'
    BY <1>0, <1>3 DEF LockInv, TypeOK, EntryUsed, CountExact
  <1>5. HeldInOrder'
    BY <1>0, <1>1 DEF LockInv, TypeOK, HeldInOrder
  <1>6. QED
    BY <1>2, <1>4, <1>5

LEMMA EnterKeepsLock ==
    ASSUME LockInv, NEW h \in Handlers, Enter(h)
    PROVE  MutexKnown' /\ EntryUsed' /\ CountExact' /\ HeldInOrder'
  <1> PICK n, m : n = nodeOf[h] /\ m = IF orderLocks[n] = NoHandler THEN h ELSE orderLocks[n]
    OBVIOUS
  <1>0. /\ UNCHANGED <<nodeOf, rowLocks, kind, outcome, event, holder>>
        /\ at[h] = "enter" /\ at' = [at EXCEPT ![h] = "lock"]
        /\ orderLocks' = [orderLocks EXCEPT ![n] = m]
        /\ refCount' = [refCount EXCEPT ![m] = @ + 1]
        /\ mutex' = [mutex EXCEPT ![h] = m]
    BY DEF Enter, setting
  <1>1. n \in Nodes /\ m \in Handlers /\ m # NoHandler /\ nodeOf[m] = n
    BY HandlersAssumption DEF LockInv, TypeOK, EntryUsed
  <1>2. mutex[h] = NoHandler /\ ~InOrder(h)
    BY <1>0 DEF LockInv, MutexKnown, InOrder
  <1>3. \A g \in Handlers : InOrder(g)' <=> InOrder(g)
    BY <1>0 DEF LockInv, TypeOK, InOrder, Locked
  <1>4. ASSUME NEW g \in Handlers, mutex[g] # NoHandler, nodeOf[g] = n
        PROVE  orderLocks[n] = m /\ mutex[g] = m
    BY <1>4, UserHome
  <1>5. MutexKnown'
    <2>1. \A g \in Handlers : mutex'[g] # NoHandler <=> at'[g] \in {"lock", "leave"} \/ InOrder(g)'
      BY <1>0, <1>1, <1>2, <1>3 DEF LockInv, TypeOK, MutexKnown
    <2>2. \A g \in Handlers : mutex'[g] # NoHandler => mutex'[g] = orderLocks'[nodeOf[g]]
      BY <1>0, <1>1, <1>4 DEF LockInv, TypeOK, MutexKnown
    <2>3. \A g \in Handlers : at'[g] \in {"enter", "lock", "release", "leave"} => Locked(event[g])'
      BY <1>0 DEF LockInv, TypeOK, MutexKnown, Locked
    <2>4. QED
      BY <1>0, <2>1, <2>2, <2>3 DEF MutexKnown
  <1>6. Users(m)' = Users(m) \cup {h} /\ h \notin Users(m)
    BY <1>0, <1>1, <1>2 DEF LockInv, TypeOK, Users
  <1>7. \A k \in Handlers : k # m => Users(k)' = Users(k)
    BY <1>0, <1>1, <1>2, HandlersAssumption DEF LockInv, TypeOK, Users
  <1>8. EntryUsed'
    <2> SUFFICES ASSUME NEW k \in Nodes, orderLocks'[k] # NoHandler
                 PROVE  nodeOf[orderLocks'[k]] = k /\ Users(orderLocks[k])' # {}
      BY <1>0 DEF EntryUsed
    <2>1. CASE k = n
      BY <1>0, <1>1, <1>6, <2>1 DEF LockInv, TypeOK
    <2>2. CASE k # n
      <3>1. orderLocks'[k] = orderLocks[k]
        BY <1>0, <2>2 DEF LockInv, TypeOK
      <3>2. orderLocks[k] \in Handlers /\ nodeOf[orderLocks[k]] = k /\ Users(orderLocks[k]) # {}
        BY <3>1 DEF LockInv, TypeOK, EntryUsed
      <3>3. orderLocks[k] # m
        BY <1>1, <2>2, <3>2
      <3>4. QED
        BY <1>7, <3>1, <3>2, <3>3
    <2>3. QED
      BY <2>1, <2>2
  <1>9. CountExact'
    <2>1. Cardinality(Users(m)') = Cardinality(Users(m)) + 1
      BY <1>6, UsersFinite, FS_AddElement
    <2>2. QED
      BY <1>0, <1>1, <1>7, <2>1 DEF LockInv, TypeOK, CountExact
  <1>10. HeldInOrder'
    BY <1>0, <1>1, <1>2, <1>3 DEF LockInv, TypeOK, HeldInOrder
  <1>11. QED
    BY <1>5, <1>8, <1>9, <1>10

LEMMA AcquireKeepsLock ==
    ASSUME LockInv, NEW h \in Handlers, Acquire(h)
    PROVE  MutexKnown' /\ EntryUsed' /\ CountExact' /\ HeldInOrder'
  <1>0. /\ UNCHANGED <<nodeOf, rowLocks, kind, outcome, event, mutex, orderLocks, refCount>>
        /\ at[h] = "lock" /\ at' = [at EXCEPT ![h] = "read"]
        /\ holder[mutex[h]] = NoHandler /\ holder' = [holder EXCEPT ![mutex[h]] = h]
    BY DEF Acquire, setting
  <1>1. mutex[h] \in Handlers /\ mutex[h] # NoHandler /\ Locked(event[h]) /\ ~InOrder(h)
    BY <1>0, UserHome DEF LockInv, MutexKnown, InOrder
  <1>2. \A g \in Handlers : InOrder(g)' <=> InOrder(g) \/ g = h
    BY <1>0, <1>1 DEF LockInv, TypeOK, InOrder, Locked
  <1>3. MutexKnown'
    BY <1>0, <1>1, <1>2 DEF LockInv, TypeOK, MutexKnown, Locked
  <1>4. \A m : Users(m)' = Users(m)
    BY <1>0 DEF Users
  <1>5. EntryUsed' /\ CountExact'
    BY <1>0, <1>4 DEF LockInv, TypeOK, EntryUsed, CountExact
  <1>6. \A g \in Handlers : InOrder(g)' => holder'[mutex'[g]] = g
    <2> SUFFICES ASSUME NEW g \in Handlers, InOrder(g)' PROVE holder'[mutex[g]] = g
      BY <1>0
    <2>1. CASE g = h
      BY <1>0, <1>1, <2>1 DEF LockInv, TypeOK
    <2>2. CASE g # h
      <3>1. InOrder(g) /\ holder[mutex[g]] = g /\ g # NoHandler
        BY <1>2, <2>2, HandlersAssumption DEF LockInv, HeldInOrder
      <3>2. mutex[g] # mutex[h]
        BY <1>0, <3>1
      <3>3. mutex[g] \in Handlers
        BY <3>1, UserHome DEF LockInv, MutexKnown
      <3>4. QED
        BY <1>0, <3>1, <3>2, <3>3 DEF LockInv, TypeOK
    <2>3. QED
      BY <2>1, <2>2
  <1>7. \A m \in Handlers : holder'[m] # NoHandler => InOrder(holder[m])' /\ mutex'[holder'[m]] = m
    <2> SUFFICES ASSUME NEW m \in Handlers, holder'[m] # NoHandler
                 PROVE  InOrder(holder[m])' /\ mutex[holder'[m]] = m
      BY <1>0
    <2>1. CASE m = mutex[h]
      <3>1. holder'[m] = h
        BY <1>0, <1>1, <2>1 DEF LockInv, TypeOK
      <3>2. QED
        BY <1>0, <1>1, <2>1, <3>1 DEF LockInv, TypeOK, InOrder, Locked
    <2>2. CASE m # mutex[h]
      <3>1. holder'[m] = holder[m]
        BY <1>0, <1>1, <2>2 DEF LockInv, TypeOK
      <3>2. holder[m] \in Handlers /\ InOrder(holder[m]) /\ mutex[holder[m]] = m
        BY <3>1 DEF LockInv, TypeOK, HeldInOrder
      <3>3. QED
        BY <1>0, <3>1, <3>2 DEF LockInv, TypeOK, InOrder, Locked
    <2>3. QED
      BY <2>1, <2>2
  <1>8. QED
    BY <1>3, <1>5, <1>6, <1>7 DEF HeldInOrder

LEMMA ReleaseKeepsLock ==
    ASSUME LockInv, NEW h \in Handlers, Release(h)
    PROVE  MutexKnown' /\ EntryUsed' /\ CountExact' /\ HeldInOrder'
  <1> DEFINE m == mutex[h]
  <1>1. at[h] = "release" /\ InOrder(h)
    BY DEF Release, LockInv, MutexKnown, InOrder
  <1>2. m \in Handlers /\ m # NoHandler /\ orderLocks[nodeOf[h]] = m /\ holder[m] = h
    BY <1>1, UserHome DEF LockInv, MutexKnown, HeldInOrder
  <1>3. /\ UNCHANGED <<nodeOf, rowLocks, kind, outcome, event, orderLocks, refCount>>
        /\ holder' = [holder EXCEPT ![m] = NoHandler]
        /\ mutex' = [mutex EXCEPT ![h] = m]
        /\ at' = [at EXCEPT ![h] = "leave"]
    BY <1>2 DEF Release, setting
  <1>4. mutex' = mutex
    BY <1>3 DEF LockInv, TypeOK
  <1>5. \A g \in Handlers : InOrder(g)' <=> InOrder(g) /\ g # h
    BY <1>3 DEF LockInv, TypeOK, InOrder, Locked
  <1>6. MutexKnown'
    BY <1>1, <1>2, <1>3, <1>4, <1>5 DEF LockInv, TypeOK, MutexKnown, Locked
  <1>7. \A k : Users(k)' = Users(k)
    BY <1>4 DEF Users
  <1>8. EntryUsed' /\ CountExact'
    BY <1>3, <1>7 DEF LockInv, TypeOK, EntryUsed, CountExact
  <1>9. \A g \in Handlers : InOrder(g)' => holder'[mutex'[g]] = g
    <2> SUFFICES ASSUME NEW g \in Handlers, InOrder(g), g # h PROVE holder'[mutex[g]] = g
      BY <1>4, <1>5
    <2>1. holder[mutex[g]] = g /\ mutex[g] \in Handlers
      BY UserHome DEF LockInv, MutexKnown, HeldInOrder
    <2>2. mutex[g] # m
      BY <1>2, <2>1
    <2>3. QED
      BY <1>3, <2>1, <2>2 DEF LockInv, TypeOK
  <1>10. \A k \in Handlers : holder'[k] # NoHandler => InOrder(holder[k])' /\ mutex'[holder'[k]] = k
    <2> SUFFICES ASSUME NEW k \in Handlers, holder'[k] # NoHandler
                 PROVE  InOrder(holder[k])' /\ mutex[holder'[k]] = k
      BY <1>4
    <2>1. k # m /\ holder'[k] = holder[k]
      BY <1>2, <1>3 DEF LockInv, TypeOK
    <2>2. holder[k] \in Handlers /\ InOrder(holder[k]) /\ mutex[holder[k]] = k
      BY <2>1 DEF LockInv, TypeOK, HeldInOrder
    <2>3. holder[k] # h
      BY <2>1, <2>2
    <2>4. QED
      BY <1>3, <2>1, <2>2, <2>3 DEF LockInv, TypeOK, InOrder, Locked
  <1>11. QED
    BY <1>6, <1>8, <1>9, <1>10 DEF HeldInOrder

LEMMA LeaveKeepsLock ==
    ASSUME LockInv, NEW h \in Handlers, Leave(h)
    PROVE  MutexKnown' /\ EntryUsed' /\ CountExact' /\ HeldInOrder'
  <1> PICK n, m : n = nodeOf[h] /\ m = mutex[h]
    OBVIOUS
  <1>0. /\ UNCHANGED <<nodeOf, rowLocks, kind, outcome, event, holder>>
        /\ at[h] = "leave" /\ at' = [at EXCEPT ![h] = "done"]
        /\ refCount' = [refCount EXCEPT ![m] = @ - 1]
        /\ orderLocks' = [orderLocks EXCEPT ![n] = IF refCount[m] = 1 THEN NoHandler ELSE @]
        /\ mutex' = [mutex EXCEPT ![h] = NoHandler]
    BY DEF Leave, setting
  <1>1. /\ m \in Handlers /\ m # NoHandler /\ n \in Nodes
        /\ nodeOf[m] = n /\ orderLocks[n] = m /\ ~InOrder(h)
    BY <1>0, UserHome DEF LockInv, MutexKnown, InOrder
  <1>2. \A g \in Handlers : InOrder(g)' <=> InOrder(g)
    BY <1>0 DEF LockInv, TypeOK, InOrder, Locked
  <1>3. h \in Users(m) /\ Users(m)' = Users(m) \ {h}
    BY <1>0, <1>1 DEF LockInv, TypeOK, Users
  <1>4. \A k \in Handlers : k # m => Users(k)' = Users(k)
    BY <1>0, <1>1, HandlersAssumption DEF LockInv, TypeOK, Users
  <1>5. Cardinality(Users(m)') = Cardinality(Users(m)) - 1
    BY <1>3, UsersFinite, FS_RemoveElement
  <1>6. refCount[m] = 1 <=> Users(m)' = {}
    <2>1. refCount[m] = Cardinality(Users(m)) /\ Cardinality(Users(m)) \in Nat
      BY <1>1, UsersFinite DEF LockInv, CountExact
    <2>2. IsFiniteSet(Users(m)')
      BY <1>3, UsersFinite, FS_Subset
    <2>3. Cardinality(Users(m)') = 0 <=> Users(m)' = {}
      BY <2>2, FS_EmptySet
    <2>4. QED
      BY <1>5, <2>1, <2>3
  <1>7. MutexKnown'
    <2>1. \A g \in Handlers : mutex'[g] # NoHandler <=> at'[g] \in {"lock", "leave"} \/ InOrder(g)'
      BY <1>0, <1>1, <1>2 DEF LockInv, TypeOK, MutexKnown
    <2>2. ASSUME NEW g \in Handlers, mutex'[g] # NoHandler PROVE mutex'[g] = orderLocks'[nodeOf[g]]
      <3>1. g # h /\ mutex'[g] = mutex[g]
        BY <1>0, <2>2 DEF LockInv, TypeOK
      <3>2. mutex[g] = orderLocks[nodeOf[g]] /\ nodeOf[g] \in Nodes
        BY <2>2, <3>1 DEF LockInv, TypeOK, MutexKnown
      <3>3. CASE nodeOf[g] = n
        <4>1. g \in Users(m)'
          BY <1>1, <3>1, <3>2, <3>3 DEF Users
        <4>2. orderLocks'[n] = orderLocks[n]
          BY <1>0, <1>1, <1>6, <4>1 DEF LockInv, TypeOK
        <4>3. QED
          BY <3>1, <3>2, <3>3, <4>2
      <3>4. CASE nodeOf[g] # n
        BY <1>0, <3>1, <3>2, <3>4 DEF LockInv, TypeOK
      <3>5. QED
        BY <3>3, <3>4
    <2>3. \A g \in Handlers : at'[g] \in {"enter", "lock", "release", "leave"} => Locked(event[g])'
      BY <1>0 DEF LockInv, TypeOK, MutexKnown, Locked
    <2>4. QED
      BY <1>0, <2>1, <2>2, <2>3 DEF MutexKnown
  <1>8. EntryUsed'
    <2> SUFFICES ASSUME NEW k \in Nodes, orderLocks'[k] # NoHandler
                 PROVE  nodeOf[orderLocks'[k]] = k /\ Users(orderLocks[k])' # {}
      BY <1>0 DEF EntryUsed
    <2>1. CASE k = n
      BY <1>0, <1>1, <1>6, <2>1 DEF LockInv, TypeOK
    <2>2. CASE k # n
      <3>1. orderLocks'[k] = orderLocks[k]
        BY <1>0, <2>2 DEF LockInv, TypeOK
      <3>2. orderLocks[k] \in Handlers /\ nodeOf[orderLocks[k]] = k /\ Users(orderLocks[k]) # {}
        BY <3>1 DEF LockInv, TypeOK, EntryUsed
      <3>3. orderLocks[k] # m
        BY <1>1, <2>2, <3>2
      <3>4. QED
        BY <1>4, <3>1, <3>2, <3>3
    <2>3. QED
      BY <2>1, <2>2
  <1>9. CountExact'
    BY <1>0, <1>1, <1>4, <1>5 DEF LockInv, TypeOK, CountExact
  <1>10. HeldInOrder'
    BY <1>0, <1>1, <1>2 DEF LockInv, TypeOK, HeldInOrder
  <1>11. QED
    BY <1>7, <1>8, <1>9, <1>10

LEMMA CrashKeepsLock ==
    ASSUME LockInv, NEW n \in Nodes, Crash(n)
    PROVE  MutexKnown' /\ EntryUsed' /\ CountExact' /\ HeldInOrder'
  <1> DEFINE gone == {h \in Handlers : nodeOf[h] = n /\ Running(h)}
  <1>0. /\ UNCHANGED <<nodeOf, rowLocks, kind, outcome, event>>
        /\ at' = [h \in Handlers |-> IF h \in gone THEN "done" ELSE at[h]]
        /\ mutex' = [h \in Handlers |-> IF h \in gone THEN NoHandler ELSE mutex[h]]
        /\ orderLocks' = [orderLocks EXCEPT ![n] = NoHandler]
        /\ refCount' = [h \in Handlers |-> IF nodeOf[h] = n THEN 0 ELSE refCount[h]]
        /\ holder' = [h \in Handlers |-> IF nodeOf[h] = n THEN NoHandler ELSE holder[h]]
    BY DEF Crash, setting
  <1>1. \A h \in Handlers : mutex[h] # NoHandler /\ nodeOf[h] = n => h \in gone
    BY DEF LockInv, MutexKnown, InOrder, Running
  <1>2. \A h \in Handlers : InOrder(h)' <=> InOrder(h) /\ nodeOf[h] # n
    BY <1>0, <1>1 DEF LockInv, TypeOK, MutexKnown, InOrder, Locked
  <1>3. \A h \in Handlers : mutex'[h] = IF nodeOf[h] = n THEN NoHandler ELSE mutex[h]
    BY <1>0, <1>1 DEF LockInv, TypeOK
  <1>4. \A h \in Handlers : nodeOf[h] # n => at'[h] = at[h]
    BY <1>0 DEF LockInv, TypeOK
  <1>5. \A h \in Handlers : nodeOf[h] = n => at'[h] \in {"idle", "done"}
    BY <1>0 DEF LockInv, TypeOK, Running
  <1> HIDE DEF gone
  <1>6. MutexKnown'
    <2>1. \A g \in Handlers : mutex'[g] # NoHandler <=> at'[g] \in {"lock", "leave"} \/ InOrder(g)'
      BY <1>2, <1>3, <1>4, <1>5 DEF LockInv, MutexKnown
    <2>2. \A g \in Handlers : mutex'[g] # NoHandler => mutex'[g] = orderLocks'[nodeOf[g]]
      BY <1>0, <1>3 DEF LockInv, TypeOK, MutexKnown
    <2>3. \A g \in Handlers : at'[g] \in {"enter", "lock", "release", "leave"} => Locked(event[g])'
      BY <1>0, <1>4, <1>5 DEF LockInv, TypeOK, MutexKnown, Locked
    <2>4. QED
      BY <1>0, <2>1, <2>2, <2>3 DEF MutexKnown
  <1>7. \A m \in Handlers : nodeOf[m] = n => Users(m)' = {}
    <2> SUFFICES ASSUME NEW m \in Handlers, nodeOf[m] = n, NEW g \in Handlers, mutex'[g] = m
                 PROVE  FALSE
      BY DEF Users
    <2>1. nodeOf[g] # n /\ mutex[g] = m /\ mutex[g] # NoHandler
      BY <1>3, HandlersAssumption
    <2>2. QED
      BY <2>1, UserHome
  <1>8. \A m \in Handlers : nodeOf[m] # n => Users(m)' = Users(m)
    <2> SUFFICES ASSUME NEW m \in Handlers, nodeOf[m] # n, NEW g \in Handlers
                 PROVE  mutex'[g] = m <=> mutex[g] = m
      BY DEF Users
    <2>1. mutex[g] = m => nodeOf[g] # n
      BY UserHome, HandlersAssumption
    <2>2. QED
      BY <1>3, <2>1, HandlersAssumption
  <1>9. EntryUsed'
    <2> SUFFICES ASSUME NEW k \in Nodes, orderLocks'[k] # NoHandler
                 PROVE  nodeOf[orderLocks'[k]] = k /\ Users(orderLocks[k])' # {}
      BY <1>0 DEF EntryUsed
    <2>1. k # n /\ orderLocks'[k] = orderLocks[k]
      BY <1>0 DEF LockInv, TypeOK
    <2>2. orderLocks[k] \in Handlers /\ nodeOf[orderLocks[k]] = k /\ Users(orderLocks[k]) # {}
      BY <2>1 DEF LockInv, TypeOK, EntryUsed
    <2>3. QED
      BY <1>8, <2>1, <2>2
  <1>10. CountExact'
    BY <1>0, <1>7, <1>8, FS_EmptySet DEF LockInv, CountExact
  <1>11. \A g \in Handlers : InOrder(g)' => holder'[mutex'[g]] = g
    <2> SUFFICES ASSUME NEW g \in Handlers, InOrder(g), nodeOf[g] # n PROVE holder'[mutex[g]] = g
      BY <1>2, <1>3
    <2>1. mutex[g] # NoHandler /\ holder[mutex[g]] = g
      BY DEF LockInv, MutexKnown, HeldInOrder
    <2>2. QED
      BY <1>0, <2>1, UserHome
  <1>12. \A k \in Handlers : holder'[k] # NoHandler => InOrder(holder[k])' /\ mutex'[holder'[k]] = k
    <2> SUFFICES ASSUME NEW k \in Handlers, holder'[k] # NoHandler
                 PROVE  InOrder(holder[k])' /\ mutex'[holder'[k]] = k
      OBVIOUS
    <2>1. nodeOf[k] # n /\ holder'[k] = holder[k]
      BY <1>0
    <2>2. holder[k] \in Handlers /\ InOrder(holder[k]) /\ mutex[holder[k]] = k
      BY <2>1 DEF LockInv, TypeOK, HeldInOrder
    <2>3. nodeOf[holder[k]] # n
      BY <2>1, <2>2, UserHome, HandlersAssumption
    <2>4. mutex'[holder[k]] = k /\ at'[holder[k]] = at[holder[k]]
      BY <1>3, <1>4, <2>2, <2>3
    <2>5. QED
      BY <1>0, <2>1, <2>2, <2>4 DEF InOrder, Locked
  <1>13. QED
    BY <1>6, <1>9, <1>10, <1>11, <1>12 DEF HeldInOrder

LEMMA NextLock ==
    ASSUME LockInv, [Next]_vars
    PROVE  LockInv'
  <1> DEFINE Goal == MutexKnown' /\ EntryUsed' /\ CountExact' /\ HeldInOrder'
  <1>1. ASSUME NEW h \in Handlers, NEW e \in Events, Deliver(h, e) PROVE Goal
    BY <1>1, DeliverKeepsLock
  <1>2. ASSUME NEW h \in Handlers, Enter(h) PROVE Goal
    BY <1>2, EnterKeepsLock
  <1>3. ASSUME NEW h \in Handlers, Acquire(h) PROVE Goal
    BY <1>3, AcquireKeepsLock
  <1>4. ASSUME NEW h \in Handlers, Read(h) PROVE Goal
    BY <1>4, WorkKeepsLock DEF Read, Exit
  <1>5. ASSUME NEW h \in Handlers, Write(h) PROVE Goal
    BY <1>5, WorkKeepsLock DEF Write, Exit
  <1>6. ASSUME NEW h \in Handlers, Credit(h) PROVE Goal
    BY <1>6, WorkKeepsLock DEF Credit, Exit
  <1>7. ASSUME NEW h \in Handlers, StatementError(h) PROVE Goal
    BY <1>7, WorkKeepsLock DEF StatementError, Exit
  <1>8. ASSUME NEW h \in Handlers, Release(h) PROVE Goal
    BY <1>8, ReleaseKeepsLock
  <1>9. ASSUME NEW h \in Handlers, Leave(h) PROVE Goal
    BY <1>9, LeaveKeepsLock
  <1>10. ASSUME NEW n \in Nodes, Crash(n) PROVE Goal
    BY <1>10, CrashKeepsLock
  <1>11. ASSUME UNCHANGED vars PROVE Goal
    <2>0. UNCHANGED <<nodeOf, kind, at, event, mutex, orderLocks, refCount, holder>>
      BY <1>11 DEF vars
    <2>1. MutexKnown' /\ HeldInOrder'
      BY <2>0 DEF LockInv, MutexKnown, HeldInOrder, InOrder, Locked
    <2>2. \A m : Users(m)' = Users(m)
      BY <2>0 DEF Users
    <2>3. EntryUsed' /\ CountExact'
      BY <2>0, <2>2 DEF LockInv, EntryUsed, CountExact
    <2>4. QED
      BY <2>1, <2>3
  <1> HIDE DEF Goal
  <1>12. Goal
    BY <1>1, <1>2, <1>3, <1>4, <1>5, <1>6, <1>7, <1>8, <1>9, <1>10, <1>11 DEF Next, Handle
  <1>13. QED
    BY <1>12, TypeStep DEF LockInv, Goal

LEMMA LockInvHolds == Spec => []LockInv
  BY InitLock, NextLock, PTL DEF Spec

\* Handlers of one process that are in the order are the same one.
LEMMA LockExcludes ==
    ASSUME LockInv, NEW g \in Handlers, NEW h \in Handlers,
           InOrder(g), InOrder(h), nodeOf[g] = nodeOf[h]
    PROVE  g = h
  <1>1. mutex[g] = mutex[h]
    BY DEF LockInv, MutexKnown
  <1>2. QED
    BY <1>1 DEF LockInv, HeldInOrder

\* LockOrder and UnlockOrder of controller/topup.go: handlers of one process exclude
\* each other on an order, and the entry of an order nobody works on is deleted.
THEOREM LockOrderSoundHolds == Spec => []LockOrderSound
  <1>1. ASSUME LockInv PROVE LockOrderSound
    <2>1. ASSUME \A h \in Handlers : ~Running(h), NEW n \in Nodes PROVE orderLocks[n] = NoHandler
      <3>1. \A h \in Handlers : mutex[h] = NoHandler
        BY <1>1, <2>1 DEF LockInv, MutexKnown, InOrder, Running
      <3>2. \A m \in Handlers : Users(m) = {}
        BY <3>1, HandlersAssumption DEF Users
      <3>3. QED
        BY <1>1, <3>2 DEF LockInv, TypeOK, EntryUsed
    <2>2. QED
      BY <1>1, <2>1, LockExcludes DEF LockOrderSound, LockInv
  <1>2. QED
    BY <1>1, LockInvHolds, PTL
-----------------------------------------------------------------------------
(* Credits *)

LEMMA SettingKept ==
    ASSUME Next
    PROVE  UNCHANGED <<nodeOf, rowLocks, kind, outcome>> /\ (Guarded' <=> Guarded)
  <1>1. UNCHANGED <<nodeOf, rowLocks, kind, outcome>>
    BY DEF Next, Handle, Deliver, Enter, Acquire, Read, Write, Credit, StatementError, Release,
           Leave, Crash, setting
  <1>2. QED
    BY <1>1 DEF Guarded, OneNode

\* A handler that comes to its check of a guarded order finds nobody past it.
LEMMA ReaderAlone ==
    ASSUME LockInv, CreditInv, Guarded, NEW h \in Handlers, at[h] = "read",
           rowLocks /\ Transactional(event[h]) => row = NoHandler,
           NEW g \in Handlers
    PROVE  at[g] \notin {"write", "credit"}
  <1> SUFFICES ASSUME at[g] \in {"write", "credit"} PROVE FALSE
    OBVIOUS
  <1>1. CASE OneNode /\ kind # "waffo"
    <2>1. InOrder(g) /\ InOrder(h) /\ nodeOf[g] = nodeOf[h]
      BY <1>1 DEF InOrder, Locked, OneNode
    <2>2. g = h
      BY <2>1, LockExcludes
    <2>3. QED
      BY <2>2
  <1>2. CASE rowLocks /\ kind \in {"waffo", "subscription"}
    <2>1. Transactional(event[g]) /\ Transactional(event[h])
      BY <1>2 DEF Transactional
    <2>2. row = g
      BY <1>2, <2>1 DEF CreditInv, RowHeld, CreditApart
    <2>3. QED
      BY <1>2, <2>1, <2>2, HandlersAssumption
  <1>3. QED
    BY <1>1, <1>2 DEF Guarded

\* Steps that save and credit nothing and move nobody past the check.
LEMMA QuietKeepsCredit ==
    ASSUME LockInv, CreditInv, UNCHANGED <<nodeOf, rowLocks, kind, status, credit>>,
           Guarded' <=> Guarded,
           \A h \in Handlers : at'[h] \in {"write", "credit"} => at'[h] = at[h] /\ event'[h] = event[h],
           (\E h \in Handlers : at[h] = "credit" /\ at'[h] # "credit") => faulty',
           faulty => faulty',
           \A h \in Handlers : at'[h] = "write" /\ row = h => row' = h
    PROVE  CreditInv'
  <1>1. RowHeld' /\ CreditApart'
    BY DEF CreditInv, RowHeld, CreditApart, Transactional
  <1>2. OneWriter'
    <2> SUFFICES ASSUME Guarded
                 PROVE  /\ \A g, h \in Handlers : {at'[g], at'[h]} \subseteq {"write", "credit"} => g = h
                        /\ \A h \in Handlers : at'[h] = "write" => status' = "pending"
                        /\ \A h \in Handlers : at'[h] = "credit" => status' = "success" /\ credit' = 0
      BY DEF OneWriter
    <2>1. /\ \A g, h \in Handlers : {at[g], at[h]} \subseteq {"write", "credit"} => g = h
          /\ \A h \in Handlers : at[h] = "write" => status = "pending"
          /\ \A h \in Handlers : at[h] = "credit" => status = "success" /\ credit = 0
      BY DEF CreditInv, OneWriter
    <2>2. QED
      BY <2>1
  <1>3. CreditFollows'
    BY DEF CreditInv, CreditFollows
  <1>4. QED
    BY <1>1, <1>2, <1>3 DEF CreditInv

LEMMA ReadKeepsCredit ==
    ASSUME LockInv, CreditInv, NEW h \in Handlers, Read(h), Guarded' <=> Guarded
    PROVE  CreditInv'
  <1>0. /\ UNCHANGED <<nodeOf, rowLocks, kind, status, credit, event, faulty>> /\ at[h] = "read"
        /\ rowLocks /\ Transactional(event[h]) => row = NoHandler
    BY DEF Read, setting
  <1>1. CASE status = "pending"
    <2>1. /\ at' = [at EXCEPT ![h] = "write"]
          /\ row' = IF rowLocks /\ Transactional(event[h]) THEN h ELSE row
      BY <1>1 DEF Read
    <2>2. RowHeld'
      <3> SUFFICES ASSUME NEW g \in Handlers, at'[g] = "write", rowLocks, Transactional(event[g])
                   PROVE  row' = g
        BY <1>0 DEF RowHeld, Transactional
      <3>1. CASE g = h
        BY <2>1, <3>1
      <3>2. CASE g # h
        <4>1. at[g] = "write"
          BY <2>1, <3>2 DEF LockInv, TypeOK
        <4>2. row = g
          BY <4>1 DEF CreditInv, RowHeld
        <4>3. row # NoHandler
          BY <4>2, HandlersAssumption
        <4>4. QED
          BY <1>0, <2>1, <4>2, <4>3
      <3>3. QED
        BY <3>1, <3>2
    <2>3. CreditApart'
      BY <1>0, <2>1 DEF CreditInv, CreditApart, LockInv, TypeOK, Transactional
    <2>4. OneWriter'
      <3> SUFFICES ASSUME Guarded
                   PROVE  /\ \A f, g \in Handlers : {at'[f], at'[g]} \subseteq {"write", "credit"} => f = g
                          /\ \A g \in Handlers : at'[g] = "write" => status' = "pending"
                          /\ \A g \in Handlers : at'[g] = "credit" => status' = "success" /\ credit' = 0
        BY DEF OneWriter
      <3>1. \A g \in Handlers : at[g] \notin {"write", "credit"}
        BY <1>0, ReaderAlone
      <3>2. QED
        BY <1>0, <1>1, <2>1, <3>1 DEF LockInv, TypeOK
    <2>5. CreditFollows'
      BY <1>0, <1>1, <2>1 DEF CreditInv, CreditFollows
    <2>6. QED
      BY <2>2, <2>3, <2>4, <2>5 DEF CreditInv
  <1>2. CASE status # "pending"
    <2>1. /\ at' = [at EXCEPT ![h] = IF Locked(event[h]) THEN "release" ELSE "done"]
          /\ row' = row
      BY <1>2 DEF Read, Exit
    <2>2. /\ \A g \in Handlers : at'[g] \in {"write", "credit"} => at'[g] = at[g]
          /\ \A g \in Handlers : at[g] = "credit" => at'[g] = "credit"
      BY <1>0, <2>1 DEF LockInv, TypeOK
    <2>3. QED
      BY <1>0, <2>1, <2>2, QuietKeepsCredit
  <1>3. QED
    BY <1>1, <1>2

LEMMA WriteKeepsCredit ==
    ASSUME LockInv, CreditInv, NEW h \in Handlers, Write(h), Guarded' <=> Guarded
    PROVE  CreditInv'
  <1> DEFINE apart == Target(event[h]) = "success" /\ ~Transactional(event[h])
  <1>0. /\ UNCHANGED <<nodeOf, rowLocks, kind, event, faulty>> /\ at[h] = "write"
        /\ row \in {h, NoHandler} /\ row' = NoHandler
        /\ status' = Target(event[h])
    BY DEF Write, setting
  <1>1. /\ at' = [at EXCEPT ![h] = IF apart THEN "credit"
                                   ELSE IF Locked(event[h]) THEN "release" ELSE "done"]
        /\ credit' = IF Target(event[h]) = "success" /\ ~apart THEN credit + 1 ELSE credit
    BY DEF Write, Exit
  <1>2. at'[h] # "write" /\ (at'[h] = "credit" <=> apart)
    BY <1>1 DEF LockInv, TypeOK
  <1>3. \A g \in Handlers : g # h => at'[g] = at[g]
    BY <1>1 DEF LockInv, TypeOK
  <1>4. RowHeld'
    <2> SUFFICES ASSUME NEW g \in Handlers, at'[g] = "write", rowLocks, Transactional(event[g])
                 PROVE  FALSE
      BY <1>0 DEF RowHeld, Transactional
    <2>1. g # h /\ at[g] = "write"
      BY <1>2, <1>3
    <2>2. row = g
      BY <2>1 DEF CreditInv, RowHeld
    <2>3. QED
      BY <1>0, <2>1, <2>2, HandlersAssumption
  <1>5. CreditApart'
    BY <1>0, <1>2, <1>3 DEF CreditInv, CreditApart, Transactional
  <1>6. ASSUME Guarded
        PROVE  status = "pending" /\ credit = 0 /\ \A g \in Handlers : g # h => at[g] \notin {"write", "credit"}
    <2>1. status = "pending"
      BY <1>0, <1>6 DEF CreditInv, OneWriter
    <2>2. \A g \in Handlers : {at[g], at[h]} \subseteq {"write", "credit"} => g = h
      BY <1>6 DEF CreditInv, OneWriter
    <2>3. QED
      BY <1>0, <1>6, <2>1, <2>2 DEF CreditInv, CreditFollows
  <1>7. OneWriter'
    <2> SUFFICES ASSUME Guarded
                 PROVE  /\ \A f, g \in Handlers : {at'[f], at'[g]} \subseteq {"write", "credit"} => f = g
                        /\ \A g \in Handlers : at'[g] = "write" => status' = "pending"
                        /\ \A g \in Handlers : at'[g] = "credit" => status' = "success" /\ credit' = 0
      BY DEF OneWriter
    <2>1. \A g \in Handlers : at'[g] \in {"write", "credit"} => g = h /\ apart
      BY <1>2, <1>3, <1>6
    <2>2. apart => status' = "success" /\ credit' = 0
      BY <1>0, <1>1, <1>6
    <2>3. QED
      BY <1>2, <2>1, <2>2
  <1>8. CreditFollows'
    <2> SUFFICES ASSUME Guarded
                 PROVE  /\ status' # "success" => credit' = 0
                        /\ credit' \in {0, 1}
                        /\ status' = "success" /\ (\A g \in Handlers : at'[g] # "credit") => credit' = 1
      BY DEF CreditFollows
    <2>1. credit = 0
      BY <1>6
    <2>2. QED
      BY <1>0, <1>1, <1>2, <2>1
  <1>9. QED
    BY <1>4, <1>5, <1>7, <1>8 DEF CreditInv

LEMMA CreditKeepsCredit ==
    ASSUME LockInv, CreditInv, NEW h \in Handlers, Credit(h), Guarded' <=> Guarded
    PROVE  CreditInv'
  <1>0. /\ UNCHANGED <<nodeOf, rowLocks, kind, status, event, row, faulty>>
        /\ at[h] = "credit" /\ credit' = credit + 1
        /\ at' = [at EXCEPT ![h] = IF Locked(event[h]) THEN "release" ELSE "done"]
    BY DEF Credit, Exit, setting
  <1>1. at'[h] \notin {"write", "credit"} /\ \A g \in Handlers : g # h => at'[g] = at[g]
    BY <1>0 DEF LockInv, TypeOK
  <1>2. RowHeld' /\ CreditApart'
    BY <1>0, <1>1 DEF CreditInv, RowHeld, CreditApart, Transactional
  <1>3. ASSUME Guarded
        PROVE  /\ status = "success" /\ credit' = 1
               /\ \A g \in Handlers : at'[g] \notin {"write", "credit"}
    <2>1. status = "success" /\ credit = 0
      BY <1>0, <1>3 DEF CreditInv, OneWriter
    <2>2. \A g \in Handlers : {at[g], at[h]} \subseteq {"write", "credit"} => g = h
      BY <1>3 DEF CreditInv, OneWriter
    <2>3. QED
      BY <1>0, <1>1, <2>1, <2>2
  <1>4. OneWriter'
    BY <1>0, <1>3 DEF OneWriter
  <1>5. CreditFollows'
    BY <1>0, <1>3 DEF CreditFollows
  <1>6. QED
    BY <1>2, <1>4, <1>5 DEF CreditInv

LEMMA NextCredit ==
    ASSUME LockInv, CreditInv, Next
    PROVE  CreditInv'
  <1>0. /\ UNCHANGED <<nodeOf, rowLocks, kind>> /\ (Guarded' <=> Guarded)
    BY SettingKept
  <1>1. ASSUME NEW h \in Handlers, NEW e \in Events, Deliver(h, e) PROVE CreditInv'
    <2>1. UNCHANGED <<status, credit, row, faulty>>
      BY <1>1 DEF Deliver
    <2>2. \A g \in Handlers : /\ at'[g] \in {"write", "credit"} => at'[g] = at[g] /\ event'[g] = event[g]
                              /\ at[g] = "credit" => at'[g] = "credit"
      BY <1>1 DEF Deliver, LockInv, TypeOK
    <2>3. QED
      BY <1>0, <2>1, <2>2, QuietKeepsCredit
  <1>2. ASSUME NEW h \in Handlers, Enter(h) \/ Acquire(h) \/ Release(h) \/ Leave(h) PROVE CreditInv'
    <2>1. UNCHANGED <<status, credit, event, row, faulty>>
      BY <1>2 DEF Enter, Acquire, Release, Leave
    <2>2. \A g \in Handlers : /\ at'[g] \in {"write", "credit"} => at'[g] = at[g]
                              /\ at[g] = "credit" => at'[g] = "credit"
      BY <1>2 DEF Enter, Acquire, Release, Leave, LockInv, TypeOK
    <2>3. QED
      BY <1>0, <2>1, <2>2, QuietKeepsCredit
  <1>3. ASSUME NEW h \in Handlers, Read(h) PROVE CreditInv'
    BY <1>0, <1>3, ReadKeepsCredit
  <1>4. ASSUME NEW h \in Handlers, Write(h) PROVE CreditInv'
    BY <1>0, <1>4, WriteKeepsCredit
  <1>5. ASSUME NEW h \in Handlers, Credit(h) PROVE CreditInv'
    BY <1>0, <1>5, CreditKeepsCredit
  <1>6. ASSUME NEW h \in Handlers, StatementError(h) PROVE CreditInv'
    <2>1. UNCHANGED <<status, credit, event>> /\ faulty'
      BY <1>6 DEF StatementError
    <2>2. \A g \in Handlers : /\ at'[g] \in {"write", "credit"} => at'[g] = at[g]
                              /\ at'[g] = "write" /\ row = g => row' = g
      BY <1>6 DEF StatementError, Exit, LockInv, TypeOK
    <2>3. QED
      BY <1>0, <2>1, <2>2, QuietKeepsCredit
  <1>7. ASSUME NEW n \in Nodes, Crash(n) PROVE CreditInv'
    <2>1. UNCHANGED <<status, credit, event>> /\ faulty'
      BY <1>7 DEF Crash
    <2>2. \A g \in Handlers : /\ at'[g] \in {"write", "credit"} => at'[g] = at[g]
                              /\ at'[g] = "write" /\ row = g => row' = g
      BY <1>7 DEF Crash, LockInv, TypeOK
    <2>3. QED
      BY <1>0, <2>1, <2>2, QuietKeepsCredit
  <1>8. QED
    BY <1>1, <1>2, <1>3, <1>4, <1>5, <1>6, <1>7 DEF Next, Handle

LEMMA CreditInvHolds == Spec => []CreditInv
  <1>1. Init => CreditInv
    BY DEF Init, CreditInv, RowHeld, CreditApart, OneWriter, CreditFollows
  <1>2. LockInv /\ CreditInv /\ [Next]_vars => CreditInv'
    <2>1. ASSUME CreditInv, UNCHANGED vars PROVE CreditInv'
      BY <2>1 DEF CreditInv, RowHeld, CreditApart, OneWriter, CreditFollows, Guarded, OneNode,
                  Transactional, vars
    <2>2. QED
      BY <2>1, NextCredit
  <1>3. QED
    BY <1>1, <1>2, LockInvHolds, PTL DEF Spec

\* The completions of model/topup.go, model/subscription.go and EpayNotify: where LockOrder
\* or row locks keep all handlers of an order apart, any number of webhooks and requests
\* of the administrator credit it once, and its status tells whether they did.
THEOREM CreditedOnceHolds == Spec => []CreditedOnce
  <1>1. ASSUME LockInv, CreditInv PROVE CreditedOnce
    BY <1>1 DEF CreditInv, CreditFollows, CreditedOnce
  <1>2. QED
    BY <1>1, LockInvHolds, CreditInvHolds, PTL

-----------------------------------------------------------------------------
(* Reports *)

LEMMA NextReports ==
    ASSUME TypeOK, ReportsLand, Next
    PROVE  ReportsLand'
  <1>0. UNCHANGED <<nodeOf, rowLocks, kind, outcome>>
    BY SettingKept
  <1>1. event \in [Handlers -> Events] /\ at \in [Handlers -> Steps] /\ credit \in Nat
    BY DEF TypeOK
  <1>2. ASSUME NEW h \in Handlers, NEW e \in Events, Deliver(h, e) PROVE ReportsLand'
    <2>1. /\ UNCHANGED <<status, credit, faulty>> /\ event' = [event EXCEPT ![h] = e]
          /\ at[h] = "idle" /\ e \in Notices
          /\ at' = [at EXCEPT ![h] = IF Locked(e) THEN "enter" ELSE "read"]
      BY <1>2 DEF Deliver
    <2>2. \A g \in Handlers : at'[g] = "idle" => event'[g] = "admin"
      BY <1>1, <2>1 DEF ReportsLand
    <2>3. ASSUME outcome = "paid", ~faulty, \A g \in Handlers : event'[g] # "failed"
          PROVE  /\ \A g \in Handlers : event[g] # "failed"
                 /\ e \in {"paid", "admin"}
      <3>1. event[h] = "admin" /\ event'[h] = e
        BY <1>1, <2>1 DEF ReportsLand
      <3>2. e \in {"paid", "admin", "failed"}
        BY <2>1, <2>3 DEF Notices
      <3>3. QED
        BY <1>1, <2>1, <2>3, <3>1, <3>2
    <2>4. ASSUME outcome = "paid", ~faulty, \A g \in Handlers : event'[g] # "failed"
          PROVE  /\ \A g \in Handlers : event'[g] \in {"paid", "admin"}
                 /\ status \in {"pending", "success"}
                 /\ status = "success" => credit >= 1 \/ \E g \in Handlers : at'[g] = "credit"
                 /\ \A g \in Handlers : at'[g] \in {"credit", "release", "leave", "done"} => status = "success"
      BY <1>1, <2>1, <2>3, <2>4 DEF ReportsLand
    <2>5. QED
      BY <1>0, <2>1, <2>2, <2>4 DEF ReportsLand
  <1>3. ASSUME NEW h \in Handlers, Enter(h) \/ Acquire(h) \/ Release(h) \/ Leave(h)
        PROVE  ReportsLand'
    <2>1. UNCHANGED <<status, credit, event, faulty>>
      BY <1>3 DEF Enter, Acquire, Release, Leave
    <2>2. \A g \in Handlers : /\ at'[g] = "idle" => at[g] = "idle"
                              /\ at[g] = "credit" => at'[g] = "credit"
                              /\ at'[g] \in {"credit", "release", "leave", "done"} =>
                                   at[g] \in {"credit", "release", "leave", "done"}
      BY <1>1, <1>3 DEF Enter, Acquire, Release, Leave
    <2>3. QED
      BY <1>0, <2>1, <2>2 DEF ReportsLand
  <1>4. ASSUME NEW h \in Handlers, Read(h) PROVE ReportsLand'
    <2>1. UNCHANGED <<status, credit, event, faulty>>
      BY <1>4 DEF Read
    <2>2. \A g \in Handlers : /\ at'[g] = "idle" => at[g] = "idle"
                              /\ at[g] = "credit" => at'[g] = "credit"
                              /\ at'[g] \in {"credit", "release", "leave", "done"} =>
                                   at[g] \in {"credit", "release", "leave", "done"} \/ status # "pending"
      BY <1>1, <1>4 DEF Read, Exit
    <2>3. QED
      BY <1>0, <2>1, <2>2 DEF ReportsLand
  <1>5. ASSUME NEW h \in Handlers, Write(h) PROVE ReportsLand'
    <2>1. UNCHANGED <<event, faulty>> /\ status' = Target(event[h])
      BY <1>5 DEF Write
    <2>2. \A g \in Handlers : at'[g] = "idle" => at[g] = "idle"
      BY <1>1, <1>5 DEF Write, Exit
    <2>3. Target(event[h]) = "success" => credit' >= 1 \/ at'[h] = "credit"
      BY <1>1, <1>5 DEF Write, Exit
    <2>4. event[h] \in {"paid", "admin"} => Target(event[h]) = "success"
      BY DEF Target
    <2>5. QED
      BY <1>0, <2>1, <2>2, <2>3, <2>4 DEF ReportsLand
  <1>6. ASSUME NEW h \in Handlers, Credit(h) PROVE ReportsLand'
    <2>1. UNCHANGED <<status, event, faulty>> /\ credit' = credit + 1 /\ credit' >= 1
      BY <1>1, <1>6 DEF Credit
    <2>2. \A g \in Handlers : /\ at'[g] = "idle" => at[g] = "idle"
                              /\ g # h => at'[g] = at[g]
      BY <1>1, <1>6 DEF Credit, Exit
    <2>3. at[h] = "credit"
      BY <1>6 DEF Credit
    <2>4. QED
      BY <1>0, <2>1, <2>2, <2>3 DEF ReportsLand
  <1>7. ASSUME NEW h \in Handlers, StatementError(h) PROVE ReportsLand'
    <2>1. event' = event /\ faulty'
      BY <1>7 DEF StatementError
    <2>2. \A g \in Handlers : at'[g] = "idle" => at[g] = "idle"
      BY <1>1, <1>7 DEF StatementError, Exit
    <2>3. QED
      BY <2>1, <2>2 DEF ReportsLand
  <1>8. ASSUME NEW n \in Nodes, Crash(n) PROVE ReportsLand'
    <2>1. event' = event /\ faulty'
      BY <1>8 DEF Crash
    <2>2. \A g \in Handlers : at'[g] = "idle" => at[g] = "idle"
      BY <1>1, <1>8 DEF Crash
    <2>3. QED
      BY <2>1, <2>2 DEF ReportsLand
  <1>9. QED
    BY <1>2, <1>3, <1>4, <1>5, <1>6, <1>7, <1>8 DEF Next, Handle

\* EpayNotify, Recharge, RechargeWaffo, CompleteSubscriptionOrder: when a report of the
\* payment has been handled and nothing failed, the order was credited, whether or not
\* anything keeps its handlers apart.
THEOREM PaidIsCreditedHolds == Spec => []PaidIsCredited
  <1>1. Init => ReportsLand
    BY DEF Init, ReportsLand
  <1>2. LockInv /\ ReportsLand /\ [Next]_vars => ReportsLand'
    <2>1. ASSUME ReportsLand, UNCHANGED vars PROVE ReportsLand'
      BY <2>1 DEF ReportsLand, vars
    <2>2. QED
      BY <2>1, NextReports DEF LockInv
  <1>3. ReportsLand => PaidIsCredited
    BY DEF ReportsLand, PaidIsCredited
  <1>4. QED
    BY <1>1, <1>2, <1>3, LockInvHolds, PTL DEF Spec
=============================================================================
