--------------------------- MODULE UserStoreProofs ---------------------------
(***************************************************************************)
(* Proofs about UserStore for any changes, readers, writers and amounts.   *)
(***************************************************************************)
EXTENDS UserStore, FiniteSums, TLAPS

\* No handler has yet written back a whole row it read before.
NoWholeRowWritten ==
    \A w \in Writers : writer[w].step \in {"idle", "loaded", "reread"} \/ writer[w].kind = "override"

\* A writer under way is of a kind of Kinds and holds the rows it read.
WriterKinds ==
    \A w \in Writers :
        /\ writer[w].step \notin {"idle", "finished"} =>
              writer[w].kind \in Kinds /\ writer[w].row \in Rows
        /\ writer[w].step \in {"reread", "cache", "drop"} => writer[w].again \in Rows

Accounted == row.quota + pending + taken + lost = InitialQuota + ledger

LEMMA InitConserved == Init => Conserved /\ WriterKinds
  <1> SUFFICES ASSUME Init PROVE Conserved /\ WriterKinds
    OBVIOUS
  <1> USE KindsAssumption, AmountsAssumption, SwitchesAssumption
      DEF Init, Rows, Copies, NoHash, Unused, Idle
  <1>1. TypeOK
    BY DEF TypeOK
  <1>2. row.quota + pending + taken + lost = InitialQuota + ledger
    OBVIOUS
  <1>3. WriterKinds
    BY DEF WriterKinds
  <1>4. QED
    BY <1>1, <1>2, <1>3 DEF Conserved

\* The steps of a quota change and of the batch updater.
LEMMA TypeChanges ==
    ASSUME TypeOK,
           \/ \E c \in Changes : ChangeStep(c) \/ \E d \in Deltas : StartChange(c, d)
           \/ BatchTake \/ BatchWrite \/ BatchError
    PROVE  TypeOK'
  <1> USE AmountsAssumption
  <1>1. ASSUME NEW c \in Changes, NEW d \in Deltas, StartChange(c, d) PROVE TypeOK'
    BY <1>1 DEF StartChange, TypeOK
  <1>2. ASSUME NEW c \in Changes, Book(c) PROVE TypeOK'
    <2>1. row' \in Rows /\ pending' \in Int /\ ledger' \in Int
      BY <1>2 DEF Book, TypeOK, Rows
    <2>2. QED
      BY <1>2, <2>1 DEF Book, TypeOK
  <1>3. ASSUME NEW c \in Changes, BookError(c) PROVE TypeOK'
    BY <1>3 DEF BookError, TypeOK
  <1>4. ASSUME NEW c \in Changes, IncrCheck(c) PROVE TypeOK'
    BY <1>4 DEF IncrCheck, TypeOK
  <1>5. ASSUME NEW c \in Changes, IncrApply(c) PROVE TypeOK'
    <2>1. copy' \in Copies
      BY <1>5 DEF IncrApply, TypeOK, Copies, NoHash
    <2>2. QED
      BY <1>5, <2>1 DEF IncrApply, TypeOK
  <1>5a. ASSUME NEW c \in Changes, IncrError(c) PROVE TypeOK'
    BY <1>5a DEF IncrError, TypeOK
  <1>6. CASE BatchTake
    BY <1>6 DEF BatchTake, TypeOK
  <1>7. CASE BatchWrite
    <2>1. row' \in Rows
      BY <1>7 DEF BatchWrite, TypeOK, Rows
    <2>2. QED
      BY <1>7, <2>1 DEF BatchWrite, TypeOK
  <1>8. CASE BatchError
    BY <1>8 DEF BatchError, TypeOK
  <1>9. QED
    BY <1>1, <1>2, <1>3, <1>4, <1>5, <1>5a, <1>6, <1>7, <1>8 DEF ChangeStep

WriterStates ==
    [step : {"idle", "loaded", "reread", "cache", "drop", "finished"},
     kind : Kinds \cup {"none", "override"}, row : Rows \cup {NoHash},
     again : Rows \cup {NoHash}]

\* What the writers keep.
LEMMA TypeWriters ==
    ASSUME TypeOK, WriterKinds, NEW w \in Writers, WriterStep(w)
    PROVE  TypeOK' /\ WriterKinds'
  <1> USE KindsAssumption, AmountsAssumption
  <1>0. /\ writer \in [Writers -> WriterStates] /\ writer[w] \in WriterStates
        /\ row \in Rows /\ copy \in Copies /\ NoHash \in Copies
    BY DEF TypeOK, WriterStates, Copies
  <1>a. ASSUME NEW k \in Kinds \cup {"none", "override"}
        PROVE  /\ Finished(k) \in WriterStates /\ Finished(k).step = "finished"
               /\ Finished(k).kind = k
    BY DEF Finished, Idle, WriterStates
  <1>b. ASSUME NEW x \in WriterStates, writer' = [writer EXCEPT ![w] = x],
               x.step \notin {"idle", "finished"} => x.kind \in Kinds /\ x.row \in Rows,
               x.step \in {"reread", "cache", "drop"} => x.again \in Rows
        PROVE  writer' \in [Writers -> WriterStates] /\ WriterKinds'
    <2>1. writer' \in [Writers -> WriterStates]
      BY <1>0, <1>b
    <2>2. \A v \in Writers : writer'[v] = IF v = w THEN x ELSE writer[v]
      BY <1>0, <1>b
    <2>3. WriterKinds'
      BY <1>b, <2>2 DEF WriterKinds
    <2>4. QED
      BY <2>1, <2>3
  <1>c. ASSUME NEW base \in Rows, writer[w].row \in Rows PROVE Updated(w, base) \in Rows
    BY <1>c DEF Updated, Rows
  <1>1. ASSUME NEW k \in Kinds, LoadUser(w, k) PROVE TypeOK' /\ WriterKinds'
    <2> DEFINE x == [step |-> "loaded", kind |-> k, row |-> row, again |-> NoHash]
    <2>1. x \in WriterStates
      BY <1>0 DEF WriterStates
    <2>2. writer' = [writer EXCEPT ![w] = x]
      BY <1>1 DEF LoadUser
    <2>3. writer' \in [Writers -> WriterStates] /\ WriterKinds'
      BY <1>0, <1>b, <2>1, <2>2
    <2>4. QED
      BY <1>1, <2>3 DEF LoadUser, TypeOK, WriterStates
  <1>2. ASSUME NEW q \in Overrides, OverrideQuota(w, q) PROVE TypeOK' /\ WriterKinds'
    <2>1. row' \in Rows /\ ledger' \in Int
      BY <1>2 DEF OverrideQuota, TypeOK, Rows
    <2>2. writer' = [writer EXCEPT ![w] = Finished("override")]
      BY <1>2 DEF OverrideQuota
    <2>3. writer' \in [Writers -> WriterStates] /\ WriterKinds'
      BY <1>a, <1>b, <2>2
    <2>4. QED
      BY <1>2, <2>1, <2>3 DEF OverrideQuota, TypeOK, WriterStates
  <1>3. CASE RereadUser(w)
    <2> DEFINE x == [writer[w] EXCEPT !.step = "reread", !.again = row]
    <2>1. x \in WriterStates /\ x.step = "reread" /\ x.again \in Rows /\ x.kind = writer[w].kind
          /\ x.row = writer[w].row
      BY <1>0 DEF WriterStates
    <2>2. writer' = [writer EXCEPT ![w] = x]
      BY <1>3 DEF RereadUser
    <2>3. writer[w].kind \in Kinds /\ writer[w].row \in Rows
      BY <1>3 DEF RereadUser, WriterKinds
    <2>4. writer' \in [Writers -> WriterStates] /\ WriterKinds'
      BY <1>b, <2>1, <2>2, <2>3
    <2>5. QED
      BY <1>3, <2>4 DEF RereadUser, TypeOK, WriterStates
  <1>4. CASE StoreUser(w)
    <2>1. writer[w].kind \in Kinds /\ writer[w].row \in Rows /\ writer[w].again \in Rows
      BY <1>4 DEF StoreUser, WriterKinds
    <2> DEFINE x == [writer[w] EXCEPT !.step = "cache", !.again = Updated(w, writer[w].again)]
    <2>2. x \in WriterStates /\ x.step = "cache" /\ x.again \in Rows /\ x.kind = writer[w].kind
          /\ x.row = writer[w].row
      BY <1>0, <1>c, <2>1 DEF WriterStates
    <2>3. writer' = [writer EXCEPT ![w] = x]
      BY <1>4 DEF StoreUser
    <2>4. writer' \in [Writers -> WriterStates] /\ WriterKinds'
      BY <1>b, <2>1, <2>2, <2>3
    <2>5. row' \in Rows
      BY <1>0, <1>4, <1>c, <2>1 DEF StoreUser
    <2>6. QED
      BY <1>4, <2>4, <2>5 DEF StoreUser, TypeOK, WriterStates
  <1>5. CASE SaveTransfer(w)
    <2>1. writer[w].kind \in Kinds /\ writer[w].row \in Rows
      BY <1>5 DEF SaveTransfer, WriterKinds
    <2>2. row' \in Rows
      BY <1>5, <2>1 DEF SaveTransfer, Rows
    <2>3. writer' = [writer EXCEPT ![w] = Finished(writer[w].kind)]
      BY <1>5 DEF SaveTransfer
    <2>4. writer' \in [Writers -> WriterStates] /\ WriterKinds'
      BY <1>a, <1>b, <2>1, <2>3
    <2>5. QED
      BY <1>5, <2>2, <2>4 DEF SaveTransfer, TypeOK, WriterStates
  <1>6. CASE CacheUser(w)
    <2>1. writer[w].kind \in Kinds /\ writer[w].row \in Rows /\ writer[w].again \in Rows
      BY <1>6 DEF CacheUser, WriterKinds
    <2>2. copy' \in Copies
      BY <1>6, <2>1 DEF CacheUser, Copies, Rows
    <2> DEFINE x == [writer[w] EXCEPT !.step = "drop"]
    <2>3. x \in WriterStates /\ x.step = "drop" /\ x.again = writer[w].again
          /\ x.kind = writer[w].kind /\ x.row = writer[w].row
      BY <1>0 DEF WriterStates
    <2>4. CASE writer[w].kind = "disable"
      <3>1. writer' = [writer EXCEPT ![w] = x]
        BY <1>6, <2>4 DEF CacheUser
      <3>2. writer' \in [Writers -> WriterStates] /\ WriterKinds'
        BY <1>b, <2>1, <2>3, <3>1
      <3>3. QED
        BY <1>6, <2>2, <3>2 DEF CacheUser, TypeOK, WriterStates
    <2>5. CASE writer[w].kind # "disable"
      <3>1. writer' = [writer EXCEPT ![w] = Finished(writer[w].kind)]
        BY <1>6, <2>5 DEF CacheUser
      <3>2. writer' \in [Writers -> WriterStates] /\ WriterKinds'
        BY <1>a, <1>b, <2>1, <3>1
      <3>3. QED
        BY <1>6, <2>2, <3>2 DEF CacheUser, TypeOK, WriterStates
    <2>6. QED
      BY <2>4, <2>5
  <1>7. CASE DropUser(w)
    <2>1. writer[w].kind \in Kinds
      BY <1>7 DEF DropUser, WriterKinds
    <2>2. writer' = [writer EXCEPT ![w] = Finished(writer[w].kind)]
      BY <1>7 DEF DropUser
    <2>3. writer' \in [Writers -> WriterStates] /\ WriterKinds'
      BY <1>a, <1>b, <2>1, <2>2
    <2>4. QED
      BY <1>0, <1>7, <2>3 DEF DropUser, TypeOK, WriterStates
  <1>8. QED
    BY <1>1, <1>2, <1>3, <1>4, <1>5, <1>6, <1>7 DEF WriterStep

LEMMA TypeRest ==
    ASSUME TypeOK, WriterKinds,
           \/ \E f \in Fills : FillRead(f) \/ FillWrite(f)
           \/ Expire \/ Crash \/ UNCHANGED vars
    PROVE  TypeOK' /\ WriterKinds'
  <1>1. ASSUME NEW f \in Fills, FillRead(f) PROVE TypeOK' /\ WriterKinds'
    BY <1>1 DEF FillRead, TypeOK, WriterKinds
  <1>2. ASSUME NEW f \in Fills, FillWrite(f) PROVE TypeOK' /\ WriterKinds'
    <2>1. fill[f] \in Rows
      BY <1>2 DEF FillWrite, TypeOK
    <2>2. copy' \in Copies
      BY <1>2, <2>1 DEF FillWrite, Copies, Rows
    <2>3. QED
      BY <1>2, <2>2 DEF FillWrite, TypeOK, WriterKinds
  <1>3. CASE Expire
    BY <1>3 DEF Expire, TypeOK, WriterKinds, Copies
  <1>4. CASE Crash
    <2>1. change' \in [Changes -> [delta : Int, book : {"none", "due", "done"},
                                   incr : {"none", "due", "checked", "done"}]]
      BY <1>4 DEF Crash, TypeOK, Unused
    <2>2. \A w \in Writers : Finished(writer[w].kind) \in WriterStates
      BY DEF Finished, Idle, TypeOK, WriterStates
    <2>3. writer' \in [Writers -> WriterStates]
      BY <1>4, <2>2 DEF Crash, TypeOK, WriterStates
    <2>4. \A w \in Writers : writer'[w].step \in {"idle", "finished"}
      BY <1>4 DEF Crash, Writing, Finished, Idle
    <2>5. WriterKinds'
      BY <2>4 DEF WriterKinds
    <2>6. lost' \in Int /\ pending' \in Int /\ taken' \in Int /\ fill' \in [Fills -> Rows \cup {NoHash}]
      <3>1. lost' = lost + pending + taken /\ pending' = 0 /\ taken' = 0 /\ fill' = [f \in Fills |-> NoHash]
        BY <1>4 DEF Crash
      <3>2. lost \in Int /\ pending \in Int /\ taken \in Int
        BY DEF TypeOK
      <3>3. QED
        BY <3>1, <3>2
    <2>7. QED
      BY <1>4, <2>1, <2>3, <2>5, <2>6 DEF Crash, TypeOK, WriterStates
  <1>5. CASE UNCHANGED vars
    BY <1>5 DEF vars, TypeOK, WriterKinds
  <1>6. QED
    BY <1>1, <1>2, <1>3, <1>4, <1>5

LEMMA TypeStep ==
    ASSUME TypeOK, WriterKinds, [Next]_vars
    PROVE  TypeOK' /\ WriterKinds'
  <1>1. ASSUME \/ \E c \in Changes : ChangeStep(c) \/ \E d \in Deltas : StartChange(c, d)
               \/ BatchTake \/ BatchWrite \/ BatchError
        PROVE  TypeOK' /\ WriterKinds'
    <2>1. UNCHANGED writer
      BY <1>1 DEF ChangeStep, StartChange, Book, BookError, IncrCheck, IncrApply, IncrError,
                  BatchTake, BatchWrite, BatchError
    <2>2. QED
      BY <1>1, <2>1, TypeChanges DEF WriterKinds
  <1>2. QED
    BY <1>1, TypeWriters, TypeRest DEF Next

\* The accounting.  A step that writes a whole row falsifies NoWholeRowWritten for
\* good, every other step moves an amount from one side to the other.
LEMMA ConservedStep ==
    ASSUME Conserved, WriterKinds, [Next]_vars
    PROVE  NoWholeRowWritten' => Accounted'
  <1> SUFFICES ASSUME NoWholeRowWritten' PROVE Accounted'
    OBVIOUS
  <1> USE KindsAssumption, AmountsAssumption
  <1>0. TypeOK /\ (NoWholeRowWritten => Accounted)
    BY DEF Conserved, NoWholeRowWritten, Accounted
  <1>k. \A k \in Kinds : k # "override"
    OBVIOUS
  <1>t. /\ row.quota \in Int /\ pending \in Int /\ taken \in Int /\ ledger \in Int /\ lost \in Int
        /\ \A c \in Changes : change[c].delta \in Int
    BY <1>0 DEF TypeOK, Rows
  <1>c. Accounted /\ Crash => Accounted'
    <2> SUFFICES ASSUME Accounted, Crash PROVE Accounted'
      OBVIOUS
    <2>1. lost' = lost + pending + taken /\ pending' = 0 /\ taken' = 0 /\ row' = row /\ ledger' = ledger
      BY DEF Crash
    <2>2. QED
      BY <1>t, <2>1 DEF Accounted
  <1>1. CASE UNCHANGED writer
    <2>1. Accounted
      BY <1>0, <1>1 DEF NoWholeRowWritten
    <2>2. ASSUME NEW c \in Changes, NEW d \in Deltas, StartChange(c, d) PROVE Accounted'
      BY <2>1, <2>2 DEF StartChange, Accounted
    <2>3. ASSUME NEW c \in Changes, Book(c) PROVE Accounted'
      <3>1. row'.quota + pending' = row.quota + pending + change[c].delta
        <4>1. CASE pending' = pending + change[c].delta /\ row' = row
          BY <1>t, <4>1
        <4>2. CASE row' = [row EXCEPT !.quota = @ + change[c].delta] /\ pending' = pending
          <5>1. row'.quota = row.quota + change[c].delta
            BY <1>0, <4>2 DEF TypeOK, Rows
          <5>2. QED
            BY <1>t, <4>2, <5>1
        <4>3. QED
          BY <2>3, <4>1, <4>2 DEF Book
      <3>2. row'.quota \in Int /\ pending' \in Int
        BY <1>0, <2>3 DEF Book, TypeOK, Rows
      <3>3. ledger' = ledger + change[c].delta /\ taken' = taken /\ lost' = lost
        BY <2>3 DEF Book
      <3>4. QED
        BY <1>t, <2>1, <3>1, <3>2, <3>3 DEF Accounted
    <2>4. ASSUME NEW c \in Changes, BookError(c) \/ IncrCheck(c) \/ IncrApply(c) \/ IncrError(c)
          PROVE  Accounted'
      BY <2>1, <2>4 DEF BookError, IncrCheck, IncrApply, IncrError, Accounted
    <2>5. CASE BatchTake
      BY <1>0, <2>1, <2>5 DEF BatchTake, Accounted, TypeOK, Rows
    <2>6. CASE BatchWrite
      BY <1>0, <2>1, <2>6 DEF BatchWrite, Accounted, TypeOK, Rows
    <2>7. CASE BatchError
      BY <1>0, <2>1, <2>7 DEF BatchError, Accounted, TypeOK, Rows
    <2>8. ASSUME NEW f \in Fills, FillRead(f) \/ FillWrite(f) PROVE Accounted'
      BY <2>1, <2>8 DEF FillRead, FillWrite, Accounted
    <2>9. CASE Expire
      BY <2>1, <2>9 DEF Expire, Accounted
    <2>10. CASE Crash
      BY <1>c, <2>1, <2>10
    <2>11. CASE UNCHANGED vars
      BY <2>1, <2>11 DEF vars, Accounted
    <2>12. ASSUME NEW w \in Writers, WriterStep(w) PROVE Accounted'
      <3>1. writer[w] \in [step : {"idle", "loaded", "reread", "cache", "drop", "finished"},
                           kind : Kinds \cup {"none", "override"}, row : Rows \cup {NoHash},
                           again : Rows \cup {NoHash}]
        BY <1>0 DEF TypeOK
      <3>2. writer'[w].step # writer[w].step
        <4>1. \A k : Finished(k).step = "finished"
          BY DEF Finished, Idle
        <4>2. CASE \/ \E k \in Kinds : LoadUser(w, k)
                   \/ \E q \in Overrides : OverrideQuota(w, q)
          BY <1>0, <4>1, <4>2 DEF LoadUser, OverrideQuota, Idle, TypeOK
        <4>3. CASE RereadUser(w) \/ StoreUser(w)
          BY <1>0, <4>3 DEF RereadUser, StoreUser, TypeOK
        <4>4. CASE SaveTransfer(w) \/ DropUser(w)
          BY <1>0, <4>1, <4>4 DEF SaveTransfer, DropUser, TypeOK
        <4>5. CASE CacheUser(w)
          <5>1. writer'[w].step \in {"drop", "finished"}
            BY <1>0, <4>1, <4>5 DEF CacheUser, TypeOK
          <5>2. QED
            BY <4>5, <5>1 DEF CacheUser
        <4>6. QED
          BY <2>12, <4>2, <4>3, <4>4, <4>5 DEF WriterStep
      <3>3. QED
        BY <1>1, <3>2
    <2>13. QED
      BY <2>2, <2>3, <2>4, <2>5, <2>6, <2>7, <2>8, <2>9, <2>10, <2>11, <2>12 DEF Next, ChangeStep
  <1>2. ASSUME NEW w \in Writers, WriterStep(w) PROVE Accounted'
    <2>1. \A v \in Writers \ {w} : writer'[v] = writer[v]
      BY <1>0, <1>2 DEF WriterStep, LoadUser, OverrideQuota, RereadUser, StoreUser, SaveTransfer,
                        CacheUser, DropUser, TypeOK
    <2>2. writer'[w].step \in {"idle", "loaded", "reread"} \/ writer'[w].kind = "override"
      BY DEF NoWholeRowWritten
    <2>3. ASSUME writer[w].step \in {"idle", "loaded", "reread"} PROVE Accounted
      BY <1>0, <2>1, <2>3 DEF NoWholeRowWritten
    <2>4. ASSUME NEW k \in Kinds, LoadUser(w, k) PROVE Accounted'
      BY <2>3, <2>4 DEF LoadUser, Accounted, Idle
    <2>5. ASSUME NEW q \in Overrides, OverrideQuota(w, q) PROVE Accounted'
      <3>1. Accounted
        BY <2>3, <2>5 DEF OverrideQuota, Idle
      <3>2. row'.quota = q
        BY <1>0, <2>5 DEF OverrideQuota, TypeOK, Rows
      <3>3. QED
        <4>1. /\ q \in Int /\ ledger' = ledger + q - row.quota
              /\ pending' = pending /\ taken' = taken /\ lost' = lost
          BY <2>5 DEF OverrideQuota
        <4>2. QED
          BY <1>t, <3>1, <3>2, <4>1 DEF Accounted
    <2>6. CASE RereadUser(w)
      BY <2>3, <2>6 DEF RereadUser, Accounted
    <2>7. CASE StoreUser(w)
      <3>1. writer'[w].step = "cache" /\ writer'[w].kind = writer[w].kind
        BY <1>0, <2>7 DEF StoreUser, TypeOK
      <3>2. writer[w].kind \in Kinds
        BY <2>7 DEF StoreUser, WriterKinds
      <3>3. QED
        BY <1>k, <2>2, <3>1, <3>2
    <2>8. CASE SaveTransfer(w)
      <3>1. writer'[w].step = "finished" /\ writer'[w].kind = "transfer"
        BY <1>0, <2>8 DEF SaveTransfer, Finished, Idle, TypeOK
      <3>2. QED
        BY <2>2, <3>1
    <2>9. CASE CacheUser(w) \/ DropUser(w)
      <3>1. writer'[w].step \in {"drop", "finished"} /\ writer'[w].kind = writer[w].kind
        <4>1. \A k : Finished(k).step = "finished" /\ Finished(k).kind = k
          BY DEF Finished, Idle
        <4>2. CASE CacheUser(w)
          BY <1>0, <4>1, <4>2 DEF CacheUser, TypeOK
        <4>3. CASE DropUser(w)
          BY <1>0, <4>1, <4>3 DEF DropUser, TypeOK
        <4>4. QED
          BY <2>9, <4>2, <4>3
      <3>2. writer[w].kind \in Kinds
        BY <2>9 DEF CacheUser, DropUser, WriterKinds
      <3>3. QED
        BY <1>k, <2>2, <3>1, <3>2
    <2>10. QED
      BY <1>2, <2>4, <2>5, <2>6, <2>7, <2>8, <2>9 DEF WriterStep
  <1>3. CASE Crash
    <2>1. \A w \in Writers : writer[w].step \in {"idle", "loaded", "reread"} \/ writer[w].kind = "override"
      <3> SUFFICES ASSUME NEW w \in Writers,
                          writer[w].step \notin {"idle", "loaded", "reread"}, writer[w].kind # "override"
                   PROVE  FALSE
        OBVIOUS
      <3>1. writer'[w].step = "finished" /\ writer'[w].kind = writer[w].kind
        BY <1>0, <1>3 DEF Crash, Writing, Finished, Idle, TypeOK
      <3>2. QED
        BY <3>1 DEF NoWholeRowWritten
    <2>2. Accounted
      BY <1>0, <2>1 DEF NoWholeRowWritten
    <2>3. QED
      BY <1>3, <1>c, <2>2
  <1>4. QED
    <2>1. ASSUME ~(\E w \in Writers : WriterStep(w)), ~Crash PROVE UNCHANGED writer
      BY <2>1 DEF Next, ChangeStep, StartChange, Book, BookError, IncrCheck, IncrApply, IncrError, BatchTake,
                  BatchWrite, BatchError, FillRead, FillWrite, Expire, vars
    <2>2. QED
      BY <1>1, <1>2, <1>3, <2>1

\* However flushes, crashes, failing statements and overrides interleave with the
\* quota changes, the row and the memory of the batch updater (IncreaseUserQuota,
\* batchUpdate) hold every booked change exactly once or count it as lost.
THEOREM ConservedHolds == Spec => []Conserved
  <1>1. Conserved /\ WriterKinds /\ [Next]_vars => (Conserved /\ WriterKinds)'
    <2> SUFFICES ASSUME Conserved, WriterKinds, [Next]_vars PROVE (Conserved /\ WriterKinds)'
      OBVIOUS
    <2>1. TypeOK' /\ WriterKinds'
      BY TypeStep DEF Conserved
    <2>2. NoWholeRowWritten' => Accounted'
      BY ConservedStep
    <2>3. QED
      BY <2>1, <2>2 DEF Conserved, NoWholeRowWritten, Accounted
  <1>2. QED
    BY <1>1, InitConserved, PTL DEF Spec

-----------------------------------------------------------------------------
(* The copy in Redis. *)

\* What a change has still to add to the copy, less what it has still to book.
Owed == [c \in Changes |->
            (IF change[c].incr \in {"due", "checked"} THEN change[c].delta ELSE 0)
          - (IF change[c].book = "due" THEN change[c].delta ELSE 0)]

\* With every goroutine done, the copy will equal the row with the batch flushed.
CopyOnItsWay ==
    /\ copy.status = row.status
    /\ copy.quota + SumFunctionOnSet(Owed, Changes) = row.quota + pending + taken

\* Who read the row holds what it still is, and is alone with it.
WindowsAlone ==
    /\ Filling # {} \/ Writing # {} => ~Unbooked
    /\ Filling = {} \/ Writing = {}
    /\ \A f \in Filling : fill[f] = row
    /\ \A v, w \in Writing : v = w
    /\ \A w \in Writing :
          /\ writer[w].step \in {"loaded", "reread"} => writer[w].row = row
          /\ writer[w].step \in {"reread", "cache"} => writer[w].again = row

\* The copy is missing, or overtaken by a writer between the row and the copy, or
\* on its way.
CopyPlaced ==
    copy # NoHash /\ (\A w \in Writing : writer[w].step # "cache") => CopyOnItsWay

CopyFollows == causes = {} => WindowsAlone /\ CopyPlaced

LEMMA OwedSum ==
    ASSUME TypeOK
    PROVE  /\ \A c \in Changes : Owed[c] \in Int
           /\ SumFunctionOnSet(Owed, Changes) \in Int
           /\ ~Unbooked => SumFunctionOnSet(Owed, Changes) = 0
  <1> USE FiniteAssumption
  <1>1. \A c \in Changes : Owed[c] \in Int
    BY DEF Owed, TypeOK
  <1>2. SumFunctionOnSet(Owed, Changes) \in Int
    BY <1>1, SumType
  <1>3. ASSUME ~Unbooked PROVE SumFunctionOnSet(Owed, Changes) = 0
    <2>1. \A c \in Changes : Owed[c] = 0
      BY <1>3 DEF Unbooked, UnderWay, Owed
    <2>2. QED
      BY <2>1, SumZero
  <1>4. QED
    BY <1>1, <1>2, <1>3

\* A step of one change alters the sum by what it alters that change.
LEMMA OwedChange ==
    ASSUME TypeOK, TypeOK', NEW c \in Changes,
           \A e \in Changes \ {c} : change'[e] = change[e]
    PROVE  SumFunctionOnSet(Owed, Changes)' =
             SumFunctionOnSet(Owed, Changes) + Owed'[c] - Owed[c]
  <1> USE FiniteAssumption
  <1>1. \A e \in Changes : Owed[e] \in Int /\ Owed'[e] \in Int
    BY DEF Owed, TypeOK
  <1>2. \A e \in Changes \ {c} : Owed'[e] = Owed[e]
    BY DEF Owed
  <1>3. QED
    BY <1>1, <1>2, SumChange

LEMMA NoWindows == Filling = {} /\ Writing = {} => WindowsAlone
  BY DEF WindowsAlone

\* While something is unbooked there is no window.
LEMMA UnbookedAlone ==
    ASSUME CopyFollows, causes = {}, Unbooked
    PROVE  Filling = {} /\ Writing = {} /\ (copy # NoHash => CopyOnItsWay)
  BY DEF CopyFollows, WindowsAlone, CopyPlaced

LEMMA CopyChanges ==
    ASSUME TypeOK, TypeOK', CopyFollows, NEW c \in Changes,
           ChangeStep(c) \/ \E d \in Deltas : StartChange(c, d)
    PROVE  CopyFollows'
  <1> SUFFICES ASSUME causes' = {} PROVE WindowsAlone' /\ CopyPlaced'
    BY DEF CopyFollows
  <1> USE AmountsAssumption
  <1>t. /\ row \in Rows /\ copy \in Copies /\ row.quota \in Int /\ copy.quota \in Int
        /\ pending \in Int /\ taken \in Int
        /\ SumFunctionOnSet(Owed, Changes) \in Int
        /\ change \in [Changes -> [delta : Int, book : {"none", "due", "done"},
                                   incr : {"none", "due", "checked", "done"}]]
    BY OwedSum DEF TypeOK, Rows, Copies, NoHash
  <1>1. ASSUME NEW d \in Deltas, StartChange(c, d) PROVE WindowsAlone' /\ CopyPlaced'
    <2>1. causes = {} /\ Filling = {} /\ Writing = {}
      BY <1>1 DEF StartChange, Overlap
    <2>2. Filling' = {} /\ Writing' = {}
      BY <1>1, <2>1 DEF StartChange, Filling, Writing
    <2>3. change' = [change EXCEPT ![c] = [delta |-> d, book |-> "due", incr |-> "due"]] /\ change[c] = Unused
      BY <1>1 DEF StartChange
    <2>4. Owed'[c] = 0 /\ Owed[c] = 0
      BY <1>t, <2>3 DEF Owed, Unused
    <2>5. SumFunctionOnSet(Owed, Changes)' = SumFunctionOnSet(Owed, Changes)
      BY <1>t, <2>3, <2>4, OwedChange
    <2>6. ASSUME copy # NoHash PROVE CopyOnItsWay
      BY <2>1, <2>6 DEF CopyFollows, CopyPlaced
    <2>7. CopyPlaced'
      BY <1>1, <2>5, <2>6 DEF StartChange, CopyPlaced, CopyOnItsWay
    <2>8. QED
      BY <2>2, <2>7, NoWindows DEF WindowsAlone
  <1>2. CASE Book(c)
    <2>0. change[c].book = "due" /\ causes = {}
      BY <1>2 DEF Book
    <2>1. Filling = {} /\ Writing = {} /\ (copy # NoHash => CopyOnItsWay)
      BY <2>0, UnbookedAlone DEF Unbooked, UnderWay
    <2>2. Filling' = {} /\ Writing' = {}
      BY <1>2, <2>1 DEF Book, Filling, Writing
    <2>3. change' = [change EXCEPT ![c].book = "done"] /\ copy' = copy /\ taken' = taken
      BY <1>2 DEF Book
    <2>4. Owed'[c] = Owed[c] + change[c].delta /\ change[c].delta \in Int
      BY <1>t, <2>0, <2>3 DEF Owed
    <2>5. SumFunctionOnSet(Owed, Changes)' = SumFunctionOnSet(Owed, Changes) + change[c].delta
      <3>1. SumFunctionOnSet(Owed, Changes)' =
              SumFunctionOnSet(Owed, Changes) + Owed'[c] - Owed[c]
        BY <1>t, <2>3, OwedChange
      <3>2. QED
        BY <1>t, <2>4, <3>1, OwedSum
    <2>6. /\ row'.quota + pending' = row.quota + pending + change[c].delta
          /\ row'.quota \in Int /\ pending' \in Int /\ row'.status = row.status
      <3>1. CASE pending' = pending + change[c].delta /\ row' = row
        BY <1>t, <2>4, <3>1
      <3>2. CASE row' = [row EXCEPT !.quota = row.quota + change[c].delta] /\ pending' = pending
        <4>1. row'.quota = row.quota + change[c].delta /\ row'.status = row.status
          BY <1>t, <3>2 DEF Rows
        <4>2. QED
          BY <1>t, <2>4, <3>2, <4>1
      <3>3. QED
        BY <1>2, <3>1, <3>2 DEF Book
    <2>7. CopyPlaced'
      <3> SUFFICES ASSUME copy # NoHash PROVE CopyOnItsWay'
        BY <2>3 DEF CopyPlaced
      <3>1. CopyOnItsWay
        BY <2>1
      <3>2. copy.quota + SumFunctionOnSet(Owed, Changes) = row.quota + pending + taken
        BY <3>1 DEF CopyOnItsWay
      <3>3. copy.quota + SumFunctionOnSet(Owed, Changes) + change[c].delta
              = row'.quota + pending' + taken
        BY <1>t, <2>4, <2>6, <3>2
      <3>4. copy'.quota + SumFunctionOnSet(Owed, Changes)' = row'.quota + pending' + taken'
        BY <1>t, <2>3, <2>4, <2>5, <3>3
      <3>5. QED
        BY <2>3, <2>6, <3>1, <3>4 DEF CopyOnItsWay
    <2>8. QED
      BY <2>2, <2>7, NoWindows DEF WindowsAlone
  <1>3. CASE BookError(c) \/ IncrError(c)
    BY <1>3 DEF BookError, IncrError
  <1>4. CASE IncrCheck(c)
    <2>0. change[c].incr = "due" /\ causes = {}
      BY <1>4 DEF IncrCheck
    <2>1. Filling = {} /\ Writing = {} /\ (copy # NoHash => CopyOnItsWay)
      BY <2>0, UnbookedAlone DEF Unbooked, UnderWay
    <2>2. Filling' = {} /\ Writing' = {}
      BY <1>4, <2>1 DEF IncrCheck, Filling, Writing
    <2>3. CopyPlaced'
      <3> SUFFICES ASSUME copy # NoHash PROVE CopyOnItsWay'
        BY <1>4 DEF IncrCheck, CopyPlaced
      <3>1. change' = [change EXCEPT ![c].incr = "checked"]
        BY <1>4 DEF IncrCheck
      <3>2. Owed' = Owed
        BY <1>t, <2>0, <3>1 DEF Owed
      <3>3. QED
        BY <1>4, <2>1, <3>2 DEF IncrCheck, CopyOnItsWay
    <2>4. QED
      BY <2>2, <2>3, NoWindows DEF WindowsAlone
  <1>5. CASE IncrApply(c)
    <2>0. /\ change[c].incr = "checked" /\ causes = {} /\ copy # NoHash
          /\ copy' = [copy EXCEPT !.quota = copy.quota + change[c].delta]
          /\ row' = row /\ pending' = pending /\ taken' = taken
      BY <1>5 DEF IncrApply
    <2>1. Filling = {} /\ Writing = {} /\ CopyOnItsWay
      BY <2>0, UnbookedAlone DEF Unbooked, UnderWay
    <2>2. Filling' = {} /\ Writing' = {}
      BY <1>5, <2>1 DEF IncrApply, Filling, Writing
    <2>3. change' = [change EXCEPT ![c].incr = "done"]
      BY <1>5 DEF IncrApply
    <2>4. Owed'[c] = Owed[c] - change[c].delta /\ change[c].delta \in Int
      BY <1>t, <2>0, <2>3 DEF Owed
    <2>5. SumFunctionOnSet(Owed, Changes)' = SumFunctionOnSet(Owed, Changes) - change[c].delta
      <3>1. SumFunctionOnSet(Owed, Changes)' =
              SumFunctionOnSet(Owed, Changes) + Owed'[c] - Owed[c]
        BY <1>t, <2>3, OwedChange
      <3>2. QED
        BY <1>t, <2>4, <3>1, OwedSum
    <2>6. copy'.quota = copy.quota + change[c].delta /\ copy'.status = copy.status
      BY <1>t, <2>0 DEF Copies, NoHash
    <2>7. CopyOnItsWay'
      BY <1>t, <2>0, <2>1, <2>4, <2>5, <2>6 DEF CopyOnItsWay
    <2>8. QED
      BY <2>2, <2>7, NoWindows DEF WindowsAlone, CopyPlaced
  <1>6. QED
    BY <1>1, <1>2, <1>3, <1>4, <1>5 DEF ChangeStep

LEMMA CopyBatch ==
    ASSUME TypeOK, CopyFollows, BatchTake \/ BatchWrite \/ BatchError
    PROVE  CopyFollows'
  <1> SUFFICES ASSUME causes' = {} PROVE WindowsAlone' /\ CopyPlaced'
    BY DEF CopyFollows
  <1>t. /\ row \in Rows /\ row.quota \in Int /\ copy.quota \in Int
        /\ pending \in Int /\ taken \in Int
        /\ SumFunctionOnSet(Owed, Changes) \in Int
    BY OwedSum DEF TypeOK, Rows, Copies, NoHash
  <1>0. causes = {} /\ Unbooked /\ ~BatchError
    BY DEF BatchTake, BatchWrite, BatchError, Unbooked
  <1>1. Filling = {} /\ Writing = {} /\ (copy # NoHash => CopyOnItsWay)
    BY <1>0, UnbookedAlone
  <1>2. Filling' = {} /\ Writing' = {} /\ Owed' = Owed /\ copy' = copy
    BY <1>0, <1>1 DEF BatchTake, BatchWrite, Filling, Writing, Owed
  <1>3. /\ row'.quota + pending' + taken' = row.quota + pending + taken
        /\ row'.status = row.status
    <2>1. CASE BatchTake
      BY <1>t, <2>1 DEF BatchTake
    <2>2. CASE BatchWrite
      <3>1. row' = [row EXCEPT !.quota = row.quota + taken] /\ taken' = 0 /\ pending' = pending
        BY <2>2 DEF BatchWrite
      <3>2. row'.quota = row.quota + taken /\ row'.status = row.status
        BY <1>t, <3>1 DEF Rows
      <3>3. QED
        BY <1>t, <3>1, <3>2
    <2>3. QED
      BY <1>0, <2>1, <2>2
  <1>4. CopyPlaced'
    BY <1>1, <1>2, <1>3 DEF CopyPlaced, CopyOnItsWay
  <1>5. QED
    BY <1>2, <1>4, NoWindows DEF WindowsAlone

LEMMA CopyReaders ==
    ASSUME TypeOK, CopyFollows,
           (\E f \in Fills : FillRead(f) \/ FillWrite(f)) \/ Expire \/ Crash \/ UNCHANGED vars
    PROVE  CopyFollows'
  <1> SUFFICES ASSUME causes' = {} PROVE WindowsAlone' /\ CopyPlaced'
    BY DEF CopyFollows
  <1>1. ASSUME NEW f \in Fills, FillRead(f) PROVE WindowsAlone' /\ CopyPlaced'
    <2>1. causes = {} /\ ~Unbooked /\ Writing = {}
      BY <1>1 DEF FillRead
    <2>2. Writing' = {} /\ ~Unbooked' /\ writer' = writer
      BY <1>1, <2>1 DEF FillRead, Writing, Unbooked, UnderWay
    <2>3. WindowsAlone /\ CopyPlaced
      BY <2>1 DEF CopyFollows
    <2>4. \A g \in Filling' : fill'[g] = row'
      BY <1>1, <2>3 DEF FillRead, Filling, WindowsAlone, TypeOK
    <2>5. CopyPlaced'
      BY <1>1, <2>2, <2>3 DEF FillRead, CopyPlaced, CopyOnItsWay, Owed, Writing
    <2>6. QED
      BY <2>2, <2>4, <2>5 DEF WindowsAlone
  <1>2. ASSUME NEW f \in Fills, FillWrite(f) PROVE WindowsAlone' /\ CopyPlaced'
    <2>1. causes = {} /\ f \in Filling /\ copy' = fill[f]
      BY <1>2 DEF FillWrite, Filling
    <2>2. WindowsAlone
      BY <2>1 DEF CopyFollows
    <2>3. ~Unbooked /\ Writing = {} /\ copy' = row
      BY <2>1, <2>2 DEF WindowsAlone
    <2>4. Writing' = {} /\ ~Unbooked' /\ row' = row
      BY <1>2, <2>3 DEF FillWrite, Writing, Unbooked, UnderWay
    <2>5. \A g \in Filling' : fill'[g] = row'
      BY <1>2, <2>2, <2>4 DEF FillWrite, Filling, WindowsAlone, TypeOK
    <2>6. CopyOnItsWay'
      <3>1. pending' = 0 /\ taken' = 0 /\ SumFunctionOnSet(Owed, Changes)' = 0
        <4>1. Owed' = Owed /\ pending' = pending /\ taken' = taken
          BY <1>2 DEF FillWrite, Owed
        <4>2. QED
          BY <2>3, <4>1, OwedSum DEF Unbooked
      <3>2. row.quota \in Int
        BY DEF TypeOK, Rows
      <3>3. QED
        BY <2>3, <2>4, <3>1, <3>2 DEF CopyOnItsWay
    <2>7. QED
      BY <2>4, <2>5, <2>6 DEF WindowsAlone, CopyPlaced
  <1>3. CASE Expire
    <2>1. CASE causes = {}
      <3>1. WindowsAlone
        BY <2>1 DEF CopyFollows
      <3>2. WindowsAlone' /\ copy' = NoHash
        BY <1>3, <3>1 DEF Expire, WindowsAlone, Filling, Writing, Unbooked, UnderWay
      <3>3. QED
        BY <3>2 DEF CopyPlaced
    <2>2. CASE causes # {}
      <3>1. Filling = {} /\ Writing = {} /\ copy' = NoHash
        BY <1>3, <2>2 DEF Expire
      <3>2. Filling' = {} /\ Writing' = {}
        BY <1>3, <3>1 DEF Expire, Filling, Writing
      <3>3. QED
        BY <3>1, <3>2 DEF CopyPlaced, WindowsAlone
    <2>3. QED
      BY <2>1, <2>2
  <1>4. CASE Crash
    <2>1. causes' = causes \cup {"crash"}
      BY <1>4 DEF Crash
    <2>2. QED
      BY <2>1
  <1>5. CASE UNCHANGED vars
    <2>1. causes = {}
      BY <1>5 DEF vars
    <2>2. WindowsAlone /\ CopyPlaced
      BY <2>1 DEF CopyFollows
    <2>3. QED
      BY <1>5, <2>2 DEF vars, WindowsAlone, CopyPlaced, CopyOnItsWay, Owed, Filling, Writing,
                        Unbooked, UnderWay
  <1>6. QED
    BY <1>1, <1>2, <1>3, <1>4, <1>5

\* A writer that no reason explains is alone from its first read to its last write,
\* so the row is still what it read.
LEMMA CopyWriters ==
    ASSUME TypeOK, WriterKinds, CopyFollows, NEW w \in Writers, WriterStep(w)
    PROVE  CopyFollows'
  <1> SUFFICES ASSUME causes' = {} PROVE WindowsAlone' /\ CopyPlaced'
    BY DEF CopyFollows
  <1>t. /\ writer \in [Writers -> WriterStates] /\ row \in Rows /\ row.quota \in Int
    BY DEF TypeOK, WriterStates, Rows
  <1>a. \A v \in Writers \ {w} : writer'[v] = writer[v]
    BY DEF WriterStep, LoadUser, OverrideQuota, RereadUser, StoreUser, SaveTransfer, CacheUser,
           DropUser, TypeOK
  <1>b. causes = {} /\ WindowsAlone /\ CopyPlaced
    <2>1. causes = {}
      BY DEF WriterStep, LoadUser, OverrideQuota, RereadUser, StoreUser, SaveTransfer, CacheUser,
             DropUser
    <2>2. QED
      BY <2>1 DEF CopyFollows
  <1>c. Filling' = Filling /\ Unbooked' = Unbooked /\ Owed' = Owed
    BY DEF WriterStep, LoadUser, OverrideQuota, RereadUser, StoreUser, SaveTransfer, CacheUser,
           DropUser, Filling, Unbooked, UnderWay, Owed
  <1>d. ASSUME w \in Writing
        PROVE  Filling = {} /\ ~Unbooked /\ Writing = {w} /\ Filling' = {} /\ ~Unbooked'
               /\ (Writing' = {w} \/ Writing' = {})
    <2>1. Filling = {} /\ ~Unbooked /\ Writing = {w}
      BY <1>b, <1>d DEF WindowsAlone
    <2>2. Writing' \subseteq {w}
      BY <1>a, <2>1 DEF Writing
    <2>3. QED
      BY <1>c, <2>1, <2>2
  <1>e. ~Unbooked => pending = 0 /\ taken = 0 /\ SumFunctionOnSet(Owed, Changes) = 0
    BY OwedSum DEF Unbooked
  <1>1. ASSUME NEW k \in Kinds, LoadUser(w, k) PROVE WindowsAlone' /\ CopyPlaced'
    <2>1. ~Unbooked /\ Filling = {} /\ Writing \ {w} = {} /\ writer[w] = Idle
      BY <1>1 DEF LoadUser, Overlap
    <2>2. writer'[w].step = "loaded" /\ writer'[w].row = row /\ row' = row /\ copy' = copy
      BY <1>1, <1>t DEF LoadUser
    <2>3. Writing' = {w} /\ Writing = {}
      BY <1>a, <2>1, <2>2 DEF Writing, Idle
    <2>4. WindowsAlone'
      BY <1>c, <2>1, <2>2, <2>3 DEF WindowsAlone
    <2>5. CopyPlaced'
      BY <1>1, <1>b, <1>c, <2>2, <2>3 DEF LoadUser, CopyPlaced, CopyOnItsWay
    <2>6. QED
      BY <2>4, <2>5
  <1>2. ASSUME NEW q \in Overrides, OverrideQuota(w, q) PROVE WindowsAlone' /\ CopyPlaced'
    BY <1>2 DEF OverrideQuota
  <1>3. CASE RereadUser(w)
    <2>1. w \in Writing /\ writer[w].step = "loaded" /\ row' = row /\ copy' = copy
      BY <1>3 DEF RereadUser, Writing
    <2>2. writer'[w].step = "reread" /\ writer'[w].again = row /\ writer'[w].row = writer[w].row
      BY <1>3, <1>t DEF RereadUser, WriterStates
    <2>3. writer[w].row = row
      BY <1>b, <2>1 DEF WindowsAlone
    <2>4. Writing' = {w}
      BY <1>d, <2>1, <2>2 DEF Writing
    <2>5. WindowsAlone'
      BY <1>d, <2>1, <2>2, <2>3, <2>4 DEF WindowsAlone
    <2>6. CopyPlaced'
      BY <1>3, <1>b, <1>c, <1>d, <2>1, <2>4 DEF RereadUser, CopyPlaced, CopyOnItsWay
    <2>7. QED
      BY <2>5, <2>6
  <1>4. CASE StoreUser(w)
    <2>1. w \in Writing /\ writer[w].step = "reread" /\ row' = Updated(w, row)
      BY <1>4 DEF StoreUser, Writing
    <2>2. writer[w].again = row
      BY <1>b, <2>1 DEF WindowsAlone
    <2>3. writer'[w].step = "cache" /\ writer'[w].again = Updated(w, writer[w].again)
      BY <1>4, <1>t DEF StoreUser, WriterStates
    <2>4. Writing' = {w}
      BY <1>d, <2>1, <2>3 DEF Writing
    <2>5. WindowsAlone'
      BY <1>d, <2>1, <2>2, <2>3, <2>4 DEF WindowsAlone
    <2>6. CopyPlaced'
      BY <2>3, <2>4 DEF CopyPlaced
    <2>7. QED
      BY <2>5, <2>6
  <1>5. CASE SaveTransfer(w)
    BY <1>5 DEF SaveTransfer
  <1>6. CASE CacheUser(w)
    <2>1. w \in Writing /\ writer[w].step = "cache" /\ copy' = writer[w].again /\ row' = row
      BY <1>6 DEF CacheUser, Writing
    <2>2. copy' = row
      BY <1>b, <2>1 DEF WindowsAlone
    <2>3. writer'[w].step \in {"drop", "finished"}
      BY <1>6, <1>t DEF CacheUser, WriterStates, Finished, Idle
    <2>4. WindowsAlone'
      BY <1>d, <2>1, <2>3 DEF WindowsAlone
    <2>5. CopyOnItsWay'
      <3>1. pending' = 0 /\ taken' = 0 /\ SumFunctionOnSet(Owed, Changes)' = 0
        BY <1>6, <1>c, <1>d, <1>e, <2>1 DEF CacheUser
      <3>2. QED
        BY <1>t, <2>1, <2>2, <3>1 DEF CopyOnItsWay
    <2>6. QED
      BY <2>4, <2>5 DEF CopyPlaced
  <1>7. CASE DropUser(w)
    <2>1. w \in Writing /\ copy' = NoHash
      BY <1>7 DEF DropUser, Writing
    <2>2. writer'[w].step = "finished"
      BY <1>7, <1>t DEF DropUser, Finished, Idle
    <2>3. WindowsAlone'
      BY <1>d, <2>1, <2>2 DEF WindowsAlone
    <2>4. QED
      BY <2>1, <2>3 DEF CopyPlaced
  <1>8. QED
    BY <1>1, <1>2, <1>3, <1>4, <1>5, <1>6, <1>7 DEF WriterStep

\* With nothing under way and nothing to explain a difference, the hash in Redis
\* (updateUserCache, cacheIncrUserQuota) equals the row: any number of concurrent
\* changes, in any order of their statements, keep it exact.
THEOREM CopyExplainedHolds == Spec => []CopyExplained
  <1> DEFINE IInv == TypeOK /\ WriterKinds /\ CopyFollows
  <1>1. Init => IInv
    <2> SUFFICES ASSUME Init PROVE IInv
      OBVIOUS
    <2>1. TypeOK /\ WriterKinds
      BY InitConserved DEF Conserved
    <2>2. Filling = {} /\ Writing = {} /\ copy = NoHash
      BY DEF Init, Filling, Writing, Idle
    <2>3. QED
      BY <2>1, <2>2 DEF CopyFollows, WindowsAlone, CopyPlaced
  <1>2. IInv /\ [Next]_vars => IInv'
    <2> SUFFICES ASSUME IInv, [Next]_vars PROVE IInv'
      OBVIOUS
    <2>1. TypeOK' /\ WriterKinds'
      BY TypeStep
    <2>2. CopyFollows'
      BY <2>1, CopyChanges, CopyBatch, CopyReaders, CopyWriters DEF Next
    <2>3. QED
      BY <2>1, <2>2
  <1>3. IInv => CopyExplained
    <2> SUFFICES ASSUME IInv, Quiet, causes = {}, copy # NoHash PROVE copy = row
      BY DEF CopyExplained
    <2>1. CopyOnItsWay
      BY DEF CopyFollows, CopyPlaced, Quiet
    <2>2. pending = 0 /\ taken = 0 /\ SumFunctionOnSet(Owed, Changes) = 0
      BY OwedSum DEF Quiet, Unbooked
    <2>3. copy.quota = row.quota /\ copy.status = row.status
      BY <2>1, <2>2 DEF CopyOnItsWay, TypeOK, Rows, Copies, NoHash
    <2>4. QED
      BY <2>3 DEF TypeOK, Rows, Copies, NoHash
  <1>4. QED
    BY <1>1, <1>2, <1>3, PTL DEF Spec
=============================================================================
