----------------------- MODULE SubscriptionQuotaProofs -----------------------
(***************************************************************************)
(* Proofs about SubscriptionQuota for any requests, subscriptions, amounts *)
(* and deployments.  WithinTotal holds with and without serialised         *)
(* transactions, because what is saved is what was checked; the rest needs *)
(* that a serialised transaction reads the rows it overwrites.             *)
(***************************************************************************)
EXTENDS SubscriptionQuota, FiniteSums, TLAPS

Row == [used : 0..Total, status : {"active", "ended"}, period : 0..MaxClock]
Reads == [rows : [Subs -> Row], now : 0..MaxClock]

\* The rows, and those that open transactions read, are within the total; what is
\* due belongs to a request that has its hold.
RowsSound ==
    /\ setting \in Settings
    /\ sub \in [Subs -> Row]
    /\ tx \in [Actors -> Reads \cup {NoTx}]
    /\ \A r \in Requests : phase[r] = "pre" => tx[<<r, "main">>] \in Reads
    /\ \A r \in Requests : phase[r] \in {"new", "pre", "rejected"} <=> hold[r].sub = 0
    /\ \A r \in Requests, t \in {"main", "refund"} :
          due[<<r, t>>] # 0 => phase[r] \in {"settled", "refunded"}

\* A serialised transaction is alone and has read the rows as they are.
Serial ==
    setting.isolated =>
        /\ \A a \in Actors : tx[a] # NoTx => locked = a
        /\ \A r \in Requests : phase[r] = "pre" => locked = <<r, "main">>
        /\ locked # Nobody => tx[locked].rows = sub /\ tx[locked].now <= clock

\* What a request has still to give back it was charged before: no delta takes the
\* usage below zero.
PaysBack(paid, main, refund) ==
    /\ paid >= 0 /\ refund <= 0 /\ paid + refund >= 0
    /\ main >= 0 \/ (refund = 0 /\ paid + main >= 0)

Covered(r) ==
    /\ PaysBack(booked[r], due[<<r, "main">>], due[<<r, "refund">>])
    /\ phase[r] = "held" => booked[r] = hold[r].amount
    /\ hold[r].sub # 0 => hold[r].period <= sub[hold[r].sub].period

Accounts == setting.isolated => \A r \in Requests : Covered(r)

-----------------------------------------------------------------------------
(* Operators *)

LEMMA ActorFacts ==
    /\ Resetter \in Actors /\ Nobody \notin Actors
    /\ \A r \in Requests, t \in {"main", "refund"} :
          <<r, t>> \in Actors /\ <<r, t>> # Resetter /\ <<r, t>> # Nobody
    /\ \A r, t, q, u : <<r, t>> = <<q, u>> <=> r = q /\ t = u
  BY DEF Resetter, Actors, Nobody

LEMMA MaxZero == \A x \in Int : Max({x, 0}) = IF x >= 0 THEN x ELSE 0
  <1> SUFFICES ASSUME NEW x \in Int PROVE Max({x, 0}) = IF x >= 0 THEN x ELSE 0
    OBVIOUS
  <1> DEFINE m == IF x >= 0 THEN x ELSE 0
  <1>1. m \in {x, 0} /\ \A y \in {x, 0} : m >= y
    OBVIOUS
  <1>2. \A k \in {x, 0} : (\A y \in {x, 0} : k >= y) => k = m
    OBVIOUS
  <1>3. QED
    BY <1>1, <1>2 DEF Max

LEMMA MinFirst ==
    ASSUME NEW S \in SUBSET Subs, S # {}
    PROVE  Min(S) \in S /\ \A s \in S : Min(S) <= s
  <1>1. S \subseteq Nat
    BY DEF Subs
  <1>2. \E n \in S : \A m \in S : n <= m
    BY <1>1, LeastElement
  <1>3. QED
    BY <1>2 DEF Min

LEMMA AfterResetRow ==
    ASSUME NEW row \in Row, NEW now \in 0..MaxClock
    PROVE  /\ AfterReset(row, now) \in Row
           /\ AfterReset(row, now).status = row.status
           /\ ResetDue(row, now) => /\ AfterReset(row, now).used = 0
                                    /\ AfterReset(row, now).period = now
                                    /\ row.period < now
           /\ ~ResetDue(row, now) => AfterReset(row, now) = row
           /\ AfterReset(row, now).period >= row.period
  <1> USE AmountsAssumption, SettingsAssumption
  <1>1. CASE ResetDue(row, now)
    <2>1. AfterReset(row, now) = [row EXCEPT !.used = 0, !.period = now]
      BY <1>1 DEF AfterReset
    <2>2. row.period < now /\ row.period \in Int /\ now \in Int
      BY <1>1 DEF ResetDue, Row
    <2>3. 0 \in 0..Total
      OBVIOUS
    <2>4. AfterReset(row, now) \in Row
      BY <2>1, <2>3 DEF Row
    <2>5. /\ AfterReset(row, now).status = row.status
          /\ AfterReset(row, now).used = 0 /\ AfterReset(row, now).period = now
      BY <2>1 DEF Row
    <2>6. QED
      BY <1>1, <2>2, <2>4, <2>5
  <1>2. CASE ~ResetDue(row, now)
    <2>1. AfterReset(row, now) = row
      BY <1>2 DEF AfterReset
    <2>2. QED
      BY <1>2, <2>1 DEF Row
  <1>3. QED
    BY <1>1, <1>2

LEMMA BookedRow ==
    ASSUME NEW row \in Row, NEW d \in Int
    PROVE  /\ Booked(row, d).used \in Nat
           /\ Booked(row, d).used = IF row.used + d >= 0 THEN row.used + d ELSE 0
           /\ Booked(row, d).status = row.status
           /\ Booked(row, d).period = row.period
           /\ Fits(Booked(row, d).used) => Booked(row, d) \in Row
  <1> USE AmountsAssumption
  <1>1. row.used \in Int /\ row.used + d \in Int
    BY DEF Row
  <1>2. Max({row.used + d, 0}) = IF row.used + d >= 0 THEN row.used + d ELSE 0
    BY <1>1, MaxZero
  <1>3. Booked(row, d) = [row EXCEPT !.used = IF row.used + d >= 0 THEN row.used + d ELSE 0]
    BY <1>2 DEF Booked
  <1>4. QED
    BY <1>1, <1>3 DEF Row, Fits

LEMMA BeginReads ==
    ASSUME TypeOK, RowsSound, NEW a \in Actors, Begin(a)
    PROVE  /\ tx' \in [Actors -> Reads \cup {NoTx}]
           /\ tx'[a] = [rows |-> sub, now |-> clock] /\ tx'[a] \in Reads
           /\ \A b \in Actors \ {a} : tx'[b] = tx[b]
           /\ locked' \in Actors \cup {Nobody}
  <1>1. [rows |-> sub, now |-> clock] \in Reads
    BY DEF Reads, RowsSound, TypeOK
  <1>2. QED
    BY <1>1 DEF Begin, RowsSound, TypeOK

LEMMA EndForgets ==
    ASSUME TypeOK, RowsSound, NEW a \in Actors, End(a)
    PROVE  /\ tx' \in [Actors -> Reads \cup {NoTx}] /\ tx'[a] = NoTx
           /\ \A b \in Actors \ {a} : tx'[b] = tx[b]
           /\ locked' \in Actors \cup {Nobody}
  BY DEF End, RowsSound, TypeOK

\* The parts of TypeOK that RowsSound does not give.
Typed ==
    /\ clock \in 0..MaxClock
    /\ phase \in [Requests -> {"new", "pre", "rejected", "held", "settled", "refunded"}]
    /\ hold \in [Requests -> [sub : 0..SubCount, amount : Amounts \cup {0}, period : 0..MaxClock]]
    /\ due \in [Actors -> Int]
    /\ fee \in [Requests -> {"none", "due", "charged", "refused"}]
    /\ locked \in Actors \cup {Nobody}
    /\ todo \subseteq Subs /\ late \subseteq Subs
    /\ booked \in [Requests -> Int]

LEMMA AmountNat == ASSUME Typed, NEW r \in Requests PROVE hold[r].amount \in Nat
  <1>1. hold[r] \in [sub : 0..SubCount, amount : Amounts \cup {0}, period : 0..MaxClock]
    BY DEF Typed
  <1>2. hold[r].amount \in Amounts \cup {0}
    BY <1>1
  <1>3. \A n \in Amounts \cup {0} : n \in Nat
    BY AmountsAssumption
  <1>4. QED
    BY <1>2, <1>3

LEMMA TypedRows == RowsSound /\ Typed => TypeOK
  <1> SUFFICES ASSUME RowsSound, Typed PROVE TypeOK
    OBVIOUS
  <1>1. sub \in [Subs -> [used : Nat, status : {"active", "ended"}, period : 0..MaxClock]]
    BY AmountsAssumption DEF RowsSound, Row
  <1>2. \A a \in Actors : tx[a] = NoTx \/ (DOMAIN tx[a].rows = Subs /\ tx[a].now \in 0..MaxClock)
    BY DEF RowsSound, Reads
  <1>3. QED
    BY <1>1, <1>2 DEF TypeOK, Typed

-----------------------------------------------------------------------------
(* Rows and types *)

LEMMA InitRows == Init => RowsSound /\ Typed
  <1> SUFFICES ASSUME Init PROVE RowsSound /\ Typed
    OBVIOUS
  <1> USE AmountsAssumption, SettingsAssumption, ActorFacts DEF Init
  <1>1. 0 \in 0..Total /\ 0 \in 0..MaxClock /\ 0 \in 0..SubCount
    OBVIOUS
  <1>2. sub \in [Subs -> Row]
    BY <1>1 DEF Row
  <1>3. RowsSound
    BY <1>2 DEF RowsSound, NoHold
  <1>4. Typed
    BY <1>1 DEF Typed, NoHold
  <1>5. QED
    BY <1>3, <1>4

LEMMA PreConsumeRows ==
    ASSUME TypeOK, RowsSound, Typed, NEW r \in Requests, NEW n \in Amounts, PreConsume(r, n)
    PROVE  RowsSound' /\ Typed'
  <1> DEFINE a == <<r, "main">>
  <1>1. a \in Actors
    BY ActorFacts
  <1>2. /\ tx' \in [Actors -> Reads \cup {NoTx}] /\ tx'[a] \in Reads
        /\ \A b \in Actors \ {a} : tx'[b] = tx[b]
        /\ locked' \in Actors \cup {Nobody}
    BY <1>1, BeginReads DEF PreConsume
  <1>3. /\ phase' = [phase EXCEPT ![r] = "pre"] /\ hold' = [hold EXCEPT ![r].amount = n]
        /\ phase[r] = "new" /\ UNCHANGED <<setting, clock, sub, due, fee, todo, booked, late>>
    BY DEF PreConsume
  <1>4. Typed'
    BY <1>2, <1>3 DEF Typed
  <1>5. \A q \in Requests : hold'[q].sub = hold[q].sub
    BY <1>3 DEF Typed
  <1>6. \A q \in Requests : phase'[q] = IF q = r THEN "pre" ELSE phase[q]
    BY <1>3 DEF Typed
  <1>7. \A q \in Requests : phase'[q] = "pre" => tx'[<<q, "main">>] \in Reads
    BY <1>2, <1>6, ActorFacts DEF RowsSound
  <1>8. RowsSound'
    BY <1>2, <1>3, <1>5, <1>6, <1>7 DEF RowsSound
  <1>9. QED
    BY <1>4, <1>8

LEMMA CommitRows ==
    ASSUME TypeOK, RowsSound, Typed, NEW r \in Requests, PreConsumeCommit(r)
    PROVE  RowsSound' /\ Typed'
  <1> DEFINE a == <<r, "main">>
             n == hold[r].amount
             row(s) == AfterReset(tx[a].rows[s], tx[a].now)
             active == {s \in Subs : tx[a].rows[s].status = "active"}
             fits == {s \in active : Fits(row(s).used + n)}
             first == Min(fits)
             saved == [s \in Subs |->
                         CASE s = first -> [row(s) EXCEPT !.used = @ + n]
                           [] s < first /\ s \in active /\ ResetDue(tx[a].rows[s], tx[a].now) -> row(s)
                           [] OTHER -> sub[s]]
  <1>1. a \in Actors
    BY ActorFacts
  <1>2. /\ tx' \in [Actors -> Reads \cup {NoTx}]
        /\ \A b \in Actors \ {a} : tx'[b] = tx[b]
        /\ locked' \in Actors \cup {Nobody}
    BY <1>1, EndForgets DEF PreConsumeCommit
  <1>3. phase[r] = "pre" /\ tx[a] \in Reads /\ n \in Nat /\ hold[r].sub = 0
    <2>1. phase[r] = "pre"
      BY DEF PreConsumeCommit
    <2>2. n \in Nat
      BY AmountNat
    <2>3. QED
      BY <2>1, <2>2 DEF RowsSound
  <1>4. \A s \in Subs : row(s) \in Row
    BY <1>3, AfterResetRow DEF Reads
  <1>5. UNCHANGED <<setting, clock, due, fee, todo>>
    BY DEF PreConsumeCommit
  <1>6. CASE fits = {}
    <2>1. phase' = [phase EXCEPT ![r] = "rejected"] /\ UNCHANGED <<sub, hold, booked, late>>
      BY <1>6 DEF PreConsumeCommit
    <2>2. Typed'
      BY <1>2, <1>5, <2>1 DEF Typed
    <2>3. \A q \in Requests : phase'[q] = IF q = r THEN "rejected" ELSE phase[q]
      BY <2>1 DEF Typed
    <2>4. \A q \in Requests : phase'[q] = "pre" => tx'[<<q, "main">>] \in Reads
      BY <1>2, <2>3, ActorFacts DEF RowsSound
    <2>5. \A q \in Requests, t \in {"main", "refund"} :
             due'[<<q, t>>] # 0 => phase'[q] \in {"settled", "refunded"}
      BY <1>3, <1>5, <2>3 DEF RowsSound
    <2>6. RowsSound'
      BY <1>2, <1>3, <1>5, <2>1, <2>3, <2>4, <2>5 DEF RowsSound
    <2>7. QED
      BY <2>2, <2>6
  <1>7. CASE fits # {}
    <2>1. /\ sub' = saved /\ phase' = [phase EXCEPT ![r] = "held"]
          /\ hold' = [hold EXCEPT ![r].sub = first, ![r].period = saved[first].period]
          /\ booked' = [booked EXCEPT ![r] = n] /\ late' = LateAfter(saved)
      BY <1>7 DEF PreConsumeCommit
    <2>2. first \in fits
      BY <1>7, MinFirst
    <2>3. first \in Subs /\ Fits(row(first).used + n)
      BY <2>2
    <2> HIDE DEF first, fits, active
    <2>4. [row(first) EXCEPT !.used = @ + n] \in Row
      <3>1. row(first).used + n \in 0..Total
        BY <1>3, <1>4, <2>3, AmountsAssumption DEF Fits, Row
      <3>2. QED
        BY <1>4, <2>3, <3>1 DEF Row
    <2>5. saved \in [Subs -> Row]
      <3> HIDE DEF row
      <3> SUFFICES ASSUME NEW s \in Subs PROVE saved[s] \in Row
        OBVIOUS
      <3>1. sub[s] \in Row /\ row(s) \in Row
        BY <1>4 DEF RowsSound
      <3>2. QED
        BY <2>4, <3>1
    <2> HIDE DEF saved, row
    <2>6. saved[first].period \in 0..MaxClock /\ first \in 0..SubCount /\ first # 0
      BY <2>3, <2>5, AmountsAssumption DEF Row, Subs
    <2>7. \A q \in Requests : /\ phase'[q] = IF q = r THEN "held" ELSE phase[q]
                              /\ hold'[q].sub = IF q = r THEN first ELSE hold[q].sub
      BY <2>1 DEF Typed
    <2>8. hold' \in [Requests -> [sub : 0..SubCount, amount : Amounts \cup {0}, period : 0..MaxClock]]
      BY <2>1, <2>6 DEF Typed
    <2>9. Typed'
      BY <1>2, <1>3, <1>5, <2>1, <2>8 DEF Typed, LateAfter
    <2>10. \A q \in Requests : phase'[q] = "pre" => tx'[<<q, "main">>] \in Reads
      BY <1>2, <2>7, ActorFacts DEF RowsSound
    <2>11. \A q \in Requests, t \in {"main", "refund"} :
             due'[<<q, t>>] # 0 => phase'[q] \in {"settled", "refunded"}
      BY <1>3, <1>5, <2>7 DEF RowsSound
    <2>12. \A q \in Requests : phase'[q] \in {"new", "pre", "rejected"} <=> hold'[q].sub = 0
      BY <2>6, <2>7 DEF RowsSound
    <2>13. RowsSound'
      BY <1>2, <1>5, <2>1, <2>5, <2>10, <2>11, <2>12 DEF RowsSound
    <2>14. QED
      BY <2>9, <2>13
  <1>8. QED
    BY <1>6, <1>7

LEMMA OutcomeRows ==
    ASSUME TypeOK, RowsSound, Typed, NEW r \in Requests,
           (\E cost \in Amounts : Settle(r, cost)) \/ (\E violation \in BOOLEAN : Fail(r, violation))
    PROVE  RowsSound' /\ Typed'
  <1> USE AmountsAssumption
  <1>0. /\ <<r, "main">> \in Actors /\ <<r, "refund">> \in Actors /\ setting.fee \in Nat
        /\ hold[r].amount \in Nat
    <2>1. <<r, "main">> \in Actors /\ <<r, "refund">> \in Actors
      BY ActorFacts
    <2>2. setting.fee \in Nat
      BY SettingsAssumption DEF RowsSound
    <2>3. hold[r].amount \in Nat
      BY AmountNat
    <2>4. QED
      BY <2>1, <2>2, <2>3
  <1>1. /\ phase[r] = "held"
        /\ \E p \in {"settled", "refunded"} : phase' = [phase EXCEPT ![r] = p]
        /\ UNCHANGED <<setting, clock, sub, hold, tx, locked, todo, booked, late>>
    BY DEF Settle, Fail
  <1>2. /\ due' \in [Actors -> Int]
        /\ \A q \in Requests \ {r}, t \in {"main", "refund"} : due'[<<q, t>>] = due[<<q, t>>]
    <2>1. ASSUME NEW cost \in Amounts, Settle(r, cost)
          PROVE  /\ due' \in [Actors -> Int]
                 /\ \A q \in Requests \ {r}, t \in {"main", "refund"} : due'[<<q, t>>] = due[<<q, t>>]
      BY <1>0, <2>1, ActorFacts DEF Settle, Typed
    <2>2. ASSUME NEW violation \in BOOLEAN, Fail(r, violation)
          PROVE  /\ due' \in [Actors -> Int]
                 /\ \A q \in Requests \ {r}, t \in {"main", "refund"} : due'[<<q, t>>] = due[<<q, t>>]
      <3>1. (IF violation THEN setting.fee ELSE 0) \in Int /\ -hold[r].amount \in Int
        BY <1>0
      <3>2. \E v \in Int : due' = [due EXCEPT ![<<r, "refund">>] = -hold[r].amount,
                                               ![<<r, "main">>] = v]
        BY <2>2, <3>1 DEF Fail
      <3>3. PICK v \in Int : due' = [due EXCEPT ![<<r, "refund">>] = -hold[r].amount,
                                                ![<<r, "main">>] = v]
        BY <3>2
      <3>4. due' \in [Actors -> Int]
        BY <1>0, <3>1, <3>3 DEF Typed
      <3>5. \A q \in Requests \ {r}, t \in {"main", "refund"} : due'[<<q, t>>] = due[<<q, t>>]
        BY <1>0, <3>3, ActorFacts DEF Typed
      <3>6. QED
        BY <3>4, <3>5
    <2>3. QED
      BY <2>1, <2>2
  <1>3. fee' \in [Requests -> {"none", "due", "charged", "refused"}]
    BY DEF Settle, Fail, Typed
  <1>4. Typed'
    BY <1>1, <1>2, <1>3 DEF Typed
  <1>5. /\ \A q \in Requests \ {r} : phase'[q] = phase[q]
        /\ phase'[r] \in {"settled", "refunded"}
    BY <1>1 DEF Typed
  <1>6. \A q \in Requests, t \in {"main", "refund"} :
           due'[<<q, t>>] # 0 => phase'[q] \in {"settled", "refunded"}
    BY <1>2, <1>5 DEF RowsSound
  <1>7. RowsSound'
    BY <1>1, <1>5, <1>6 DEF RowsSound
  <1>8. QED
    BY <1>4, <1>7

LEMMA DeltaRows ==
    ASSUME TypeOK, RowsSound, Typed, NEW r \in Requests, NEW t \in {"main", "refund"},
           Delta(r, t) \/ DeltaCommit(r, t)
    PROVE  RowsSound' /\ Typed'
  <1> DEFINE a == <<r, t>>
  <1>0. a \in Actors /\ due[a] # 0 /\ due[a] \in Int
    BY ActorFacts DEF Delta, DeltaCommit, Typed
  <1>1. phase[r] \in {"settled", "refunded"} /\ hold[r].sub \in Subs
    <2>1. phase[r] \in {"settled", "refunded"}
      BY <1>0 DEF RowsSound
    <2>2. hold[r].sub # 0 /\ hold[r].sub \in 0..SubCount
      BY <2>1 DEF RowsSound, Typed
    <2>3. QED
      BY <2>1, <2>2, AmountsAssumption DEF Subs
  <1>2. CASE Delta(r, t)
    <2>1. /\ tx' \in [Actors -> Reads \cup {NoTx}] /\ locked' \in Actors \cup {Nobody}
          /\ \A b \in Actors \ {a} : tx'[b] = tx[b]
      BY <1>0, <1>2, BeginReads DEF Delta
    <2>2. UNCHANGED <<setting, clock, sub, phase, hold, due, fee, todo, booked, late>>
      BY <1>2 DEF Delta
    <2>3. \A q \in Requests : phase'[q] = "pre" => tx'[<<q, "main">>] \in Reads
      BY <1>1, <2>1, <2>2, ActorFacts DEF RowsSound
    <2>4. RowsSound'
      BY <2>1, <2>2, <2>3 DEF RowsSound
    <2>5. Typed'
      BY <2>1, <2>2 DEF Typed
    <2>6. QED
      BY <2>4, <2>5
  <1>3. CASE DeltaCommit(r, t)
    <2> DEFINE saved == Booked(tx[a].rows[hold[r].sub], due[a])
    <2>1. /\ tx' \in [Actors -> Reads \cup {NoTx}] /\ locked' \in Actors \cup {Nobody}
          /\ \A b \in Actors \ {a} : tx'[b] = tx[b]
      BY <1>0, <1>3, EndForgets DEF DeltaCommit
    <2>2. UNCHANGED <<setting, clock, phase, hold, todo>> /\ due' = [due EXCEPT ![a] = 0]
      BY <1>3 DEF DeltaCommit
    <2>3. tx[a] \in Reads /\ tx[a].rows[hold[r].sub] \in Row
      BY <1>0, <1>1, <1>3 DEF DeltaCommit, RowsSound, Reads
    <2>4. Fits(saved.used) => saved \in Row
      BY <1>0, <2>3, BookedRow
    <2>5. sub' = IF Fits(saved.used) THEN [sub EXCEPT ![hold[r].sub] = saved] ELSE sub
      BY <1>3 DEF DeltaCommit
    <2>6. sub' \in [Subs -> Row]
      <3> HIDE DEF saved
      <3>1. QED
        BY <1>1, <2>4, <2>5 DEF RowsSound
    <2>7. fee' \in [Requests -> {"none", "due", "charged", "refused"}]
      <3> HIDE DEF saved
      <3> DEFINE v == IF ~(t = "main" /\ fee[r] = "due") THEN fee[r]
                      ELSE IF Fits(saved.used) THEN "charged" ELSE "refused"
      <3>1. fee' = [fee EXCEPT ![r] = v]
        BY <1>3 DEF DeltaCommit, saved
      <3>2. v \in {"none", "due", "charged", "refused"}
        BY DEF Typed
      <3>3. QED
        BY <3>1, <3>2 DEF Typed
    <2>8. booked' \in [Requests -> Int] /\ late' \subseteq Subs
      <3>1. \/ booked' = [booked EXCEPT ![r] = booked[r] + due[a]] /\ late' = late
            \/ late' = late \cup {hold[r].sub} /\ booked' = booked
            \/ late' = late /\ booked' = booked
        BY <1>3 DEF DeltaCommit
      <3>2. QED
        BY <1>0, <1>1, <3>1 DEF Typed
    <2>9. Typed'
      BY <1>0, <2>1, <2>2, <2>7, <2>8 DEF Typed
    <2>10. \A q \in Requests : phase'[q] = "pre" => tx'[<<q, "main">>] \in Reads
      BY <1>1, <2>1, <2>2, ActorFacts DEF RowsSound
    <2>11. \A q \in Requests, u \in {"main", "refund"} :
              due'[<<q, u>>] # 0 => phase'[q] \in {"settled", "refunded"}
      <3>1. \A b \in Actors : due'[b] = IF b = a THEN 0 ELSE due[b]
        BY <2>2 DEF Typed
      <3>2. ASSUME NEW q \in Requests, NEW u \in {"main", "refund"}, due'[<<q, u>>] # 0
            PROVE  phase'[q] \in {"settled", "refunded"}
        <4>1. <<q, u>> \in Actors
          BY ActorFacts
        <4>2. due[<<q, u>>] # 0
          BY <3>1, <3>2, <4>1
        <4>3. QED
          BY <2>2, <4>2 DEF RowsSound
      <3>3. QED
        BY <3>2
    <2>12. RowsSound'
      BY <2>1, <2>2, <2>6, <2>10, <2>11 DEF RowsSound
    <2>13. QED
      BY <2>9, <2>12
  <1>4. QED
    BY <1>2, <1>3

LEMMA PeriodRows ==
    ASSUME TypeOK, RowsSound, Typed,
           \/ Tick \/ ResetTask \/ \E s \in Subs : EndSubscription(s)
           \/ UNCHANGED vars
    PROVE  RowsSound' /\ Typed'
  <1> USE AmountsAssumption
  <1>1. CASE Tick
    <2>1. clock' \in 0..MaxClock
      BY <1>1 DEF Tick, Typed
    <2>2. QED
      BY <1>1, <2>1 DEF Tick, RowsSound, Typed
  <1>2. CASE ResetList
    <2>1. todo' \subseteq Subs
      BY <1>2 DEF ResetList
    <2>2. QED
      BY <1>2, <2>1 DEF ResetList, RowsSound, Typed
  <1>3. CASE Reset
    <2>1. /\ tx' \in [Actors -> Reads \cup {NoTx}] /\ locked' \in Actors \cup {Nobody}
          /\ \A b \in Actors \ {Resetter} : tx'[b] = tx[b]
      BY <1>3, ActorFacts, BeginReads DEF Reset
    <2>2. UNCHANGED <<setting, clock, sub, phase, hold, due, fee, todo, booked, late>>
      BY <1>3 DEF Reset
    <2>3. \A q \in Requests : phase'[q] = "pre" => tx'[<<q, "main">>] \in Reads
      BY <2>1, <2>2, ActorFacts DEF RowsSound
    <2>4. RowsSound'
      BY <2>1, <2>2, <2>3 DEF RowsSound
    <2>5. Typed'
      BY <2>1, <2>2 DEF Typed
    <2>6. QED
      BY <2>4, <2>5
  <1>4. ASSUME NEW s \in Subs, ResetCommit(s) PROVE RowsSound' /\ Typed'
    <2> DEFINE read == tx[Resetter]
               saved == [sub EXCEPT ![s] = AfterReset(read.rows[s], read.now)]
    <2>1. /\ tx' \in [Actors -> Reads \cup {NoTx}] /\ locked' \in Actors \cup {Nobody}
          /\ \A b \in Actors \ {Resetter} : tx'[b] = tx[b]
      BY <1>4, ActorFacts, EndForgets DEF ResetCommit
    <2>2. UNCHANGED <<setting, clock, phase, hold, due, fee, booked>> /\ todo' = todo \ {s}
      BY <1>4 DEF ResetCommit
    <2>3. \A q \in Requests : phase'[q] = "pre" => tx'[<<q, "main">>] \in Reads
      BY <2>1, <2>2, ActorFacts DEF RowsSound
    <2>4. read \in Reads
      BY <1>4, ActorFacts DEF ResetCommit, RowsSound
    <2>5. AfterReset(read.rows[s], read.now) \in Row
      BY <2>4, AfterResetRow DEF Reads
    <2>6. (sub' = saved /\ late' = LateAfter(saved)) \/ (sub' = sub /\ late' = late)
      BY <1>4 DEF ResetCommit
    <2>7. sub' \in [Subs -> Row] /\ late' \subseteq Subs
      BY <2>5, <2>6 DEF RowsSound, Typed, LateAfter
    <2>8. RowsSound'
      BY <2>1, <2>2, <2>3, <2>7 DEF RowsSound
    <2>9. Typed'
      BY <2>1, <2>2, <2>7 DEF Typed
    <2>10. QED
      BY <2>8, <2>9
  <1>5. ASSUME NEW s \in Subs, EndSubscription(s) PROVE RowsSound' /\ Typed'
    <2>1. sub' \in [Subs -> Row]
      BY <1>5 DEF EndSubscription, RowsSound, Row
    <2>2. QED
      BY <1>5, <2>1 DEF EndSubscription, RowsSound, Typed
  <1>6. CASE UNCHANGED vars
    BY <1>6 DEF vars, RowsSound, Typed
  <1>7. QED
    BY <1>1, <1>2, <1>3, <1>4, <1>5, <1>6 DEF ResetTask

LEMMA RowsStep ==
    ASSUME RowsSound, Typed, [Next]_vars
    PROVE  RowsSound' /\ Typed'
  <1>1. TypeOK
    BY TypedRows
  <1>2. QED
    BY <1>1, PreConsumeRows, CommitRows, OutcomeRows, DeltaRows, PeriodRows DEF Next, Step

\* No subscription is used beyond its total: PreConsumeUserSubscription and
\* PostConsumeUserSubscriptionDelta save only what they checked, so this holds
\* although the transactions of the code are not serialised by their row locks.
THEOREM WithinTotalHolds == Spec => []WithinTotal
  <1>1. RowsSound /\ Typed /\ [Next]_vars => (RowsSound /\ Typed)'
    BY RowsStep
  <1>2. RowsSound /\ Typed => WithinTotal
    <2> SUFFICES ASSUME RowsSound, Typed PROVE WithinTotal
      OBVIOUS
    <2>1. \A s \in Subs : sub[s].used <= Total
      BY AmountsAssumption DEF RowsSound, Row
    <2>2. QED
      BY <2>1, TypedRows DEF WithinTotal
  <1>3. QED
    BY <1>1, <1>2, InitRows, PTL DEF Spec

-----------------------------------------------------------------------------
(* Serialised transactions *)

LEMMA BeginSerial ==
    ASSUME RowsSound, Typed, Serial, NEW a \in Actors, Begin(a),
           setting' = setting, sub' = sub, clock' = clock,
           \A q \in Requests : phase'[q] = "pre" => phase[q] = "pre" \/ <<q, "main">> = a
    PROVE  Serial'
  <1> SUFFICES ASSUME setting.isolated
               PROVE  /\ \A b \in Actors : tx'[b] # NoTx => locked' = b
                      /\ \A r \in Requests : phase'[r] = "pre" => locked' = <<r, "main">>
                      /\ locked' # Nobody => tx'[locked'].rows = sub' /\ tx'[locked'].now <= clock'
    BY DEF Serial
  <1>1. locked = Nobody /\ locked' = a
    BY DEF Begin
  <1>2. /\ \A b \in Actors \ {a} : tx'[b] = tx[b]
        /\ tx'[a] = [rows |-> sub, now |-> clock]
    BY TypedRows, BeginReads
  <1>3. \A b \in Actors : tx[b] = NoTx
    BY <1>1, ActorFacts DEF Serial
  <1>4. \A q \in Requests : phase[q] # "pre"
    BY <1>1, ActorFacts DEF Serial
  <1>5. clock <= clock
    BY AmountsAssumption DEF Typed
  <1>6. QED
    BY <1>1, <1>2, <1>3, <1>4, <1>5

LEMMA EndSerial ==
    ASSUME RowsSound, Typed, Serial, NEW a \in Actors, End(a), setting' = setting,
           setting.isolated => locked = a,
           \A q \in Requests : phase'[q] = "pre" => phase[q] = "pre" /\ <<q, "main">> # a
    PROVE  Serial'
  <1> SUFFICES ASSUME setting.isolated
               PROVE  /\ \A b \in Actors : tx'[b] # NoTx => locked' = b
                      /\ \A r \in Requests : phase'[r] = "pre" => locked' = <<r, "main">>
                      /\ locked' # Nobody => tx'[locked'].rows = sub' /\ tx'[locked'].now <= clock'
    BY DEF Serial
  <1>1. locked = a /\ locked' = Nobody
    BY DEF End
  <1>2. tx'[a] = NoTx /\ \A b \in Actors \ {a} : tx'[b] = tx[b]
    BY TypedRows, EndForgets
  <1>3. \A b \in Actors \ {a} : tx[b] = NoTx
    BY <1>1 DEF Serial
  <1>4. \A q \in Requests : phase'[q] # "pre"
    BY <1>1 DEF Serial
  <1>5. QED
    BY <1>1, <1>2, <1>3, <1>4

LEMMA SerialStep ==
    ASSUME RowsSound, Typed, Serial, [Next]_vars
    PROVE  Serial'
  <1>1. ASSUME NEW r \in Requests, NEW n \in Amounts, PreConsume(r, n) PROVE Serial'
    <2>1. <<r, "main">> \in Actors
      BY ActorFacts
    <2>2. \A q \in Requests : phase'[q] = "pre" => phase[q] = "pre" \/ <<q, "main">> = <<r, "main">>
      BY <1>1 DEF PreConsume, Typed
    <2>3. QED
      BY <1>1, <2>1, <2>2, BeginSerial DEF PreConsume
  <1>2. ASSUME NEW r \in Requests, PreConsumeCommit(r) PROVE Serial'
    <2>1. <<r, "main">> \in Actors /\ phase[r] = "pre" /\ End(<<r, "main">>) /\ setting' = setting
      BY <1>2, ActorFacts DEF PreConsumeCommit
    <2>2. setting.isolated => locked = <<r, "main">>
      BY <2>1 DEF Serial
    <2>3. \E p \in {"rejected", "held"} : phase' = [phase EXCEPT ![r] = p]
      BY <1>2 DEF PreConsumeCommit
    <2>4. \A q \in Requests : phase'[q] = "pre" => phase[q] = "pre" /\ <<q, "main">> # <<r, "main">>
      BY <2>3, ActorFacts DEF Typed
    <2>5. QED
      BY <2>1, <2>2, <2>4, EndSerial
  <1>3. ASSUME NEW r \in Requests,
               (\E cost \in Amounts : Settle(r, cost)) \/ (\E violation \in BOOLEAN : Fail(r, violation))
        PROVE  Serial'
    <2>1. /\ \E p \in {"settled", "refunded"} : phase' = [phase EXCEPT ![r] = p]
          /\ UNCHANGED <<setting, clock, sub, tx, locked>>
      BY <1>3 DEF Settle, Fail
    <2>2. \A q \in Requests : phase'[q] = "pre" => phase[q] = "pre"
      BY <2>1 DEF Typed
    <2>3. QED
      BY <2>1, <2>2 DEF Serial
  <1>4. ASSUME NEW r \in Requests, NEW t \in {"main", "refund"}, Delta(r, t) PROVE Serial'
    <2>1. <<r, t>> \in Actors
      BY ActorFacts
    <2>2. QED
      BY <1>4, <2>1, BeginSerial DEF Delta
  <1>5. ASSUME NEW r \in Requests, NEW t \in {"main", "refund"}, DeltaCommit(r, t) PROVE Serial'
    <2>1. /\ <<r, t>> \in Actors /\ End(<<r, t>>) /\ setting' = setting /\ phase' = phase
          /\ due[<<r, t>>] # 0 /\ tx[<<r, t>>] # NoTx
      BY <1>5, ActorFacts DEF DeltaCommit
    <2>2. setting.isolated => locked = <<r, t>>
      BY <2>1 DEF Serial
    <2>3. phase[r] # "pre"
      BY <2>1 DEF RowsSound
    <2>4. \A q \in Requests : phase'[q] = "pre" => phase[q] = "pre" /\ <<q, "main">> # <<r, t>>
      BY <2>1, <2>3, ActorFacts
    <2>5. QED
      BY <2>1, <2>2, <2>4, EndSerial
  <1>6. CASE Tick
    <2>1. clock' = clock + 1 /\ UNCHANGED <<setting, sub, phase, tx, locked>>
      BY <1>6 DEF Tick
    <2>2. clock \in Int /\ (locked # Nobody => tx[locked].now \in Int)
      <3>1. clock \in Int /\ locked \in Actors \cup {Nobody}
        BY AmountsAssumption DEF Typed
      <3>2. \A a \in Actors : tx[a].now \in Int
        BY AmountsAssumption DEF RowsSound, Reads, NoTx
      <3>3. QED
        BY <3>1, <3>2
    <2>3. QED
      BY <2>1, <2>2 DEF Serial
  <1>7. CASE ResetList
    BY <1>7 DEF ResetList, Serial
  <1>8. CASE Reset
    BY <1>8, ActorFacts, BeginSerial DEF Reset
  <1>9. ASSUME NEW s \in Subs, ResetCommit(s) PROVE Serial'
    <2>1. /\ End(Resetter) /\ setting' = setting /\ phase' = phase /\ tx[Resetter] # NoTx
      BY <1>9 DEF ResetCommit
    <2>2. setting.isolated => locked = Resetter
      BY <2>1, ActorFacts DEF Serial
    <2>3. \A q \in Requests : phase'[q] = "pre" => phase[q] = "pre" /\ <<q, "main">> # Resetter
      BY <2>1, ActorFacts
    <2>4. QED
      BY <2>1, <2>2, <2>3, ActorFacts, EndSerial
  <1>10. ASSUME NEW s \in Subs, EndSubscription(s) PROVE Serial'
    BY <1>10 DEF EndSubscription, Serial
  <1>11. CASE UNCHANGED vars
    BY <1>11 DEF vars, Serial
  <1>12. QED
    BY <1>1, <1>2, <1>3, <1>4, <1>5, <1>6, <1>7, <1>8, <1>9, <1>10, <1>11 DEF Next, Step, ResetTask

\* The effect of a commit that has read the rows as they are.  A row begins a new
\* period with a usage of its own, or keeps its period.
Renewed(s, n) == sub'[s].used = n /\ sub'[s].period > sub[s].period
Grown(s, n) == sub'[s].used = sub[s].used + n /\ sub'[s].period = sub[s].period

LEMMA CommitEffect ==
    ASSUME RowsSound, Typed, Serial, setting.isolated, NEW r \in Requests, PreConsumeCommit(r)
    PROVE  \/ UNCHANGED <<sub, hold, booked, late>> /\ phase' = [phase EXCEPT ![r] = "rejected"]
           \/ \E f \in Subs :
                /\ phase' = [phase EXCEPT ![r] = "held"]
                /\ hold' = [hold EXCEPT ![r].sub = f, ![r].period = sub'[f].period]
                /\ booked' = [booked EXCEPT ![r] = hold[r].amount]
                /\ late' = {s \in late : sub'[s].period = sub[s].period}
                /\ \A s \in Subs : sub'[s].status = sub[s].status
                /\ Renewed(f, hold[r].amount) \/ Grown(f, hold[r].amount)
                /\ \A s \in Subs \ {f} : Renewed(s, 0) \/ Grown(s, 0)
  <1> DEFINE a == <<r, "main">>
             n == hold[r].amount
             row(s) == AfterReset(tx[a].rows[s], tx[a].now)
             active == {s \in Subs : tx[a].rows[s].status = "active"}
             fits == {s \in active : Fits(row(s).used + n)}
             first == Min(fits)
             saved == [s \in Subs |->
                         CASE s = first -> [row(s) EXCEPT !.used = @ + n]
                           [] s < first /\ s \in active /\ ResetDue(tx[a].rows[s], tx[a].now) -> row(s)
                           [] OTHER -> sub[s]]
  <1>1. phase[r] = "pre"
    BY DEF PreConsumeCommit
  <1>2. tx[a].rows = sub /\ tx[a] \in Reads
    <2>1. locked = a /\ a # Nobody
      BY <1>1, ActorFacts DEF Serial
    <2>2. QED
      BY <1>1, <2>1 DEF Serial, RowsSound
  <1>3. n \in Nat
    BY AmountNat
  <1>4. CASE fits = {}
    BY <1>4 DEF PreConsumeCommit
  <1>5. CASE fits # {}
    <2>1. /\ sub' = saved /\ phase' = [phase EXCEPT ![r] = "held"]
          /\ hold' = [hold EXCEPT ![r].sub = first, ![r].period = saved[first].period]
          /\ booked' = [booked EXCEPT ![r] = n] /\ late' = LateAfter(saved)
      BY <1>5 DEF PreConsumeCommit
    <2>2. first \in fits
      BY <1>5, MinFirst
    <2>3. first \in Subs
      BY <2>2
    <2>4. ASSUME NEW s \in Subs
          PROVE  /\ row(s) \in Row /\ row(s).status = sub[s].status
                 /\ \/ row(s).used = 0 /\ row(s).period > sub[s].period
                    \/ row(s) = sub[s]
                 /\ sub[s] \in Row /\ sub[s].used \in Int /\ row(s).used \in Int
                 /\ sub[s].period \in Int
                 /\ ResetDue(tx[a].rows[s], tx[a].now) => row(s).used = 0 /\ row(s).period > sub[s].period
      <3>1. sub[s] \in Row /\ tx[a].rows[s] = sub[s] /\ tx[a].now \in 0..MaxClock
        BY <1>2 DEF Reads, RowsSound
      <3>2. row(s) \in Row /\ sub[s].used \in Int /\ row(s).used \in Int
            /\ sub[s].period \in Int /\ tx[a].now \in Int
        <4>1. row(s) \in Row
          BY <3>1, AfterResetRow
        <4>2. \A x \in Row : x.used \in Int /\ x.period \in Int
          BY AmountsAssumption DEF Row
        <4>3. tx[a].now \in Int
          BY <3>1, AmountsAssumption
        <4> HIDE DEF row
        <4>4. QED
          BY <3>1, <4>1, <4>2, <4>3
      <3>3. QED
        BY <3>1, <3>2, AfterResetRow
    <2> HIDE DEF first, fits, active, row
    <2>5. /\ saved[first].used = row(first).used + n /\ saved[first].period = row(first).period
          /\ saved[first].status = row(first).status
      <3>0. ~(first < first)
        BY <2>3, AmountsAssumption DEF Subs
      <3>1. saved[first] = [row(first) EXCEPT !.used = row(first).used + n]
        BY <2>3, <3>0
      <3>2. row(first) \in Row
        BY <2>3, <2>4
      <3>3. QED
        BY <3>1, <3>2 DEF Row
    <2>6. ASSUME NEW s \in Subs \ {first}
          PROVE  saved[s] = sub[s] \/ (saved[s] = row(s) /\ ResetDue(tx[a].rows[s], tx[a].now))
      OBVIOUS
    <2> HIDE DEF saved
    <2>7. Renewed(first, n) \/ Grown(first, n)
      BY <1>3, <2>1, <2>3, <2>4, <2>5 DEF Renewed, Grown
    <2>8. \A s \in Subs \ {first} : Renewed(s, 0) \/ Grown(s, 0)
      BY <2>1, <2>4, <2>6 DEF Renewed, Grown
    <2>9. \A s \in Subs : sub'[s].status = sub[s].status
      BY <2>1, <2>3, <2>4, <2>5, <2>6
    <2>10. late' = {s \in late : sub'[s].period = sub[s].period}
      BY <2>1 DEF LateAfter
    <2>11. QED
      BY <2>1, <2>3, <2>7, <2>8, <2>9, <2>10
  <1>6. QED
    BY <1>4, <1>5

LEMMA DeltaEffect ==
    ASSUME RowsSound, Typed, Serial, setting.isolated, NEW r \in Requests,
           NEW t \in {"main", "refund"}, DeltaCommit(r, t)
    PROVE  LET s == hold[r].sub
               d == due[<<r, t>>]
           IN  /\ s \in Subs /\ d \in Int /\ d # 0 /\ phase[r] \in {"settled", "refunded"}
               /\ due' = [due EXCEPT ![<<r, t>>] = 0] /\ hold' = hold /\ phase' = phase
               /\ \A q \in Subs : sub'[q].status = sub[q].status /\ sub'[q].period = sub[q].period
               /\ \A q \in Subs \ {s} : sub'[q] = sub[q]
               /\ \/ UNCHANGED <<sub, booked, late>>
                  \/ /\ sub'[s].used = IF sub[s].used + d >= 0 THEN sub[s].used + d ELSE 0
                     /\ \/ /\ sub[s].period = hold[r].period
                           /\ booked' = [booked EXCEPT ![r] = booked[r] + d] /\ late' = late
                        \/ late' = late \cup {s} /\ booked' = booked
  <1> DEFINE a == <<r, t>>
             s == hold[r].sub
             saved == Booked(tx[a].rows[s], due[a])
  <1>1. /\ a \in Actors /\ a # Nobody /\ due[a] # 0 /\ tx[a] # NoTx /\ hold' = hold /\ phase' = phase
        /\ due' = [due EXCEPT ![a] = 0]
    BY ActorFacts DEF DeltaCommit
  <1>2. due[a] \in Int
    BY <1>1 DEF Typed
  <1>3. phase[r] \in {"settled", "refunded"} /\ s \in Subs
    <2>1. phase[r] \in {"settled", "refunded"}
      BY <1>1 DEF RowsSound
    <2>2. hold[r].sub # 0 /\ hold[r].sub \in 0..SubCount
      BY <2>1 DEF RowsSound, Typed
    <2>3. QED
      BY <2>1, <2>2, AmountsAssumption DEF Subs
  <1>4. tx[a].rows = sub
    BY <1>1 DEF Serial
  <1>5. sub[s] \in Row /\ sub \in [Subs -> Row]
    BY <1>3 DEF RowsSound
  <1>6. /\ saved.used = IF sub[s].used + due[a] >= 0 THEN sub[s].used + due[a] ELSE 0
        /\ saved.status = sub[s].status /\ saved.period = sub[s].period
    BY <1>2, <1>4, <1>5, BookedRow
  <1>7. \/ UNCHANGED <<sub, booked, late>>
        \/ /\ sub' = [sub EXCEPT ![s] = saved]
           /\ \/ /\ saved.period = hold[r].period
                 /\ booked' = [booked EXCEPT ![r] = booked[r] + due[a]] /\ late' = late
              \/ late' = late \cup {s} /\ booked' = booked
    BY DEF DeltaCommit
  <1> HIDE DEF saved, s, a
  <1>8. \A q \in Subs : sub'[q].status = sub[q].status /\ sub'[q].period = sub[q].period
    BY <1>3, <1>5, <1>6, <1>7
  <1>9. \A q \in Subs \ {s} : sub'[q] = sub[q]
    BY <1>5, <1>7
  <1>10. \/ UNCHANGED <<sub, booked, late>>
         \/ /\ sub'[s].used = IF sub[s].used + due[a] >= 0 THEN sub[s].used + due[a] ELSE 0
            /\ \/ /\ sub[s].period = hold[r].period
                  /\ booked' = [booked EXCEPT ![r] = booked[r] + due[a]] /\ late' = late
               \/ late' = late \cup {s} /\ booked' = booked
    BY <1>3, <1>5, <1>6, <1>7
  <1>11. QED
    BY <1>1, <1>2, <1>3, <1>8, <1>9, <1>10 DEF s, a

LEMMA ResetEffect ==
    ASSUME RowsSound, Typed, Serial, setting.isolated, NEW s \in Subs, ResetCommit(s)
    PROVE  /\ UNCHANGED <<hold, due, phase, booked>>
           /\ \A q \in Subs : sub'[q].status = sub[q].status
           /\ \A q \in Subs : Renewed(q, 0) \/ sub'[q] = sub[q]
           /\ late' = {q \in late : sub'[q].period = sub[q].period}
  <1> DEFINE read == tx[Resetter]
             new == AfterReset(read.rows[s], read.now)
             saved == [sub EXCEPT ![s] = new]
  <1>1. read # NoTx /\ UNCHANGED <<hold, due, phase, booked>>
    BY DEF ResetCommit
  <1>2. read.rows = sub /\ read \in Reads
    BY <1>1, ActorFacts DEF Serial, RowsSound
  <1>3. sub[s] \in Row /\ read.now \in 0..MaxClock /\ sub \in [Subs -> Row]
    BY <1>2 DEF RowsSound, Reads
  <1>4. sub[s].period \in Int /\ read.now \in Int
    BY <1>3, AmountsAssumption DEF Row
  <1>5. CASE ResetDue(sub[s], read.now)
    <2>1. sub' = saved /\ late' = LateAfter(saved)
      BY <1>2, <1>5 DEF ResetCommit
    <2>2. new.status = sub[s].status /\ new.used = 0 /\ new.period > sub[s].period
      BY <1>2, <1>3, <1>4, <1>5, AfterResetRow
    <2> HIDE DEF new
    <2>3. \A q \in Subs : sub'[q] = IF q = s THEN new ELSE sub[q]
      BY <1>3, <2>1
    <2>4. late' = {q \in late : sub'[q].period = sub[q].period}
      BY <2>1 DEF LateAfter
    <2>5. QED
      BY <1>1, <2>2, <2>3, <2>4 DEF Renewed
  <1>6. CASE ~ResetDue(sub[s], read.now)
    <2>1. sub' = sub /\ late' = late
      BY <1>2, <1>6 DEF ResetCommit
    <2>2. QED
      BY <1>1, <2>1
  <1>7. QED
    BY <1>5, <1>6

\* Nothing but an administrator or the expiry task ends a subscription, and no
\* step takes a row back to an earlier period.
LEMMA UndoneStep ==
    ASSUME RowsSound, Typed, Serial, [Next]_vars, setting.isolated, NEW s \in Subs
    PROVE  /\ sub[s].status = "ended" => sub'[s].status = "ended"
           /\ sub'[s].period >= sub[s].period
  <1>0. sub \in [Subs -> Row] /\ sub' \in [Subs -> Row]
    BY RowsStep DEF RowsSound
  <1>1. sub[s].period \in Int /\ sub'[s].period \in Int
    BY <1>0, AmountsAssumption DEF Row
  <1>2. ASSUME NEW r \in Requests, PreConsumeCommit(r)
        PROVE  sub'[s].status = sub[s].status /\ sub'[s].period >= sub[s].period
    <2>1. \/ sub' = sub
          \/ sub'[s].status = sub[s].status /\ \E n : Renewed(s, n) \/ Grown(s, n)
      BY <1>2, CommitEffect
    <2>2. QED
      BY <1>1, <2>1 DEF Renewed, Grown
  <1>3. ASSUME NEW r \in Requests, NEW t \in {"main", "refund"}, DeltaCommit(r, t)
        PROVE  sub'[s].status = sub[s].status /\ sub'[s].period >= sub[s].period
    <2>1. sub'[s].status = sub[s].status /\ sub'[s].period = sub[s].period
      BY <1>3, DeltaEffect, Zenon
    <2>2. QED
      BY <1>1, <2>1
  <1>4. ASSUME NEW q \in Subs, ResetCommit(q)
        PROVE  sub'[s].status = sub[s].status /\ sub'[s].period >= sub[s].period
    BY <1>1, <1>4, ResetEffect DEF Renewed
  <1>5. ASSUME NEW q \in Subs, EndSubscription(q)
        PROVE  /\ sub[s].status = "ended" => sub'[s].status = "ended"
               /\ sub'[s].period = sub[s].period
    BY <1>0, <1>5 DEF EndSubscription, Row
  <1>6. CASE sub' = sub
    BY <1>1, <1>6
  <1>7. QED
    <2>1. ASSUME NEW r \in Requests, Step(r) \/ \E n \in Amounts : PreConsume(r, n)
          PROVE  \/ sub' = sub \/ PreConsumeCommit(r)
                 \/ \E t \in {"main", "refund"} : DeltaCommit(r, t)
      BY <2>1 DEF Step, PreConsume, Settle, Fail, Delta
    <2>2. ASSUME ResetTask PROVE sub' = sub \/ \E q \in Subs : ResetCommit(q)
      BY <2>2 DEF ResetTask, ResetList, Reset
    <2>3. ASSUME Tick \/ UNCHANGED vars PROVE sub' = sub
      BY <2>3 DEF Tick, vars
    <2>4. QED
      BY <1>1, <1>2, <1>3, <1>4, <1>5, <1>6, <2>1, <2>2, <2>3 DEF Next

\* Where the database serialises the transactions, a request or a reset that saves
\* the row it read neither revives an ended subscription nor brings back an old
\* period (PostConsumeUserSubscriptionDelta, ResetDueSubscriptions).
THEOREM NothingUndoneHolds == Spec => NothingUndone
  <1> DEFINE IInv == RowsSound /\ Typed /\ Serial
  <1>1. Init => IInv
    <2> SUFFICES ASSUME Init PROVE Serial
      BY InitRows
    <2>1. QED
      BY DEF Init, Serial
  <1>2. IInv /\ [Next]_vars => IInv'
    BY RowsStep, SerialStep
  <1>3. IInv /\ [Next]_vars =>
          [setting.isolated => \A s \in Subs :
             /\ sub[s].status = "ended" => sub'[s].status = "ended"
             /\ sub'[s].period >= sub[s].period]_vars
    BY UndoneStep
  <1>4. QED
    BY <1>1, <1>2, <1>3, PTL DEF Spec, NothingUndone

-----------------------------------------------------------------------------
(* The usage of a period *)

LEMMA AccountsStep ==
    ASSUME RowsSound, Typed, Serial, Accounts, [Next]_vars
    PROVE  Accounts'
  <1> SUFFICES ASSUME setting.isolated, NEW q \in Requests PROVE Covered(q)'
    <2>1. setting' = setting
      BY DEF Next, Step, ResetTask, Tick, ResetList, Reset, ResetCommit, EndSubscription, PreConsume,
             PreConsumeCommit, Settle, Fail, Delta, DeltaCommit, vars
    <2>2. QED
      BY <2>1 DEF Accounts
  <1> DEFINE M == <<q, "main">>
             F == <<q, "refund">>
  <1>0. Covered(q) /\ RowsSound' /\ Typed'
    BY RowsStep DEF Accounts
  <1>1. /\ M \in Actors /\ F \in Actors /\ M # F
        /\ due[M] \in Int /\ due[F] \in Int /\ booked[q] \in Int
    BY ActorFacts DEF Typed
  <1>2. ASSUME hold'[q].sub = hold[q].sub, hold'[q].period = hold[q].period
        PROVE  hold'[q].sub # 0 => hold'[q].period <= sub'[hold'[q].sub].period
    <2> SUFFICES ASSUME hold[q].sub # 0 PROVE hold[q].period <= sub'[hold[q].sub].period
      BY <1>2
    <2>1. hold[q].sub \in Subs
      BY AmountsAssumption DEF Typed, Subs
    <2>2. hold[q].period <= sub[hold[q].sub].period /\ sub'[hold[q].sub].period >= sub[hold[q].sub].period
      BY <1>0, <2>1, UndoneStep DEF Covered
    <2>3. /\ hold[q].period \in Int /\ sub[hold[q].sub].period \in Int
          /\ sub'[hold[q].sub].period \in Int
      BY <1>0, <2>1, AmountsAssumption DEF Typed, RowsSound, Row
    <2>4. QED
      BY <2>2, <2>3
  <1>3. ASSUME due'[M] = due[M], due'[F] = due[F], booked'[q] = booked[q],
               hold'[q].sub = hold[q].sub, hold'[q].period = hold[q].period,
               phase'[q] = "held" => phase[q] = "held" /\ hold'[q] = hold[q]
        PROVE  Covered(q)'
    <2>1. PaysBack(booked'[q], due'[M], due'[F])
      BY <1>0, <1>3 DEF Covered
    <2>2. phase'[q] = "held" => booked'[q] = hold'[q].amount
      BY <1>0, <1>3 DEF Covered
    <2>3. hold'[q].sub # 0 => hold'[q].period <= sub'[hold'[q].sub].period
      BY <1>2, <1>3
    <2>4. QED
      BY <2>1, <2>2, <2>3 DEF Covered
  <1>4. CASE UNCHANGED <<due, booked, hold, phase>>
    BY <1>3, <1>4
  <1>5. ASSUME NEW r \in Requests, NEW n \in Amounts, PreConsume(r, n) PROVE Covered(q)'
    <2>1. UNCHANGED <<due, booked>> /\ hold' = [hold EXCEPT ![r].amount = n]
          /\ phase' = [phase EXCEPT ![r] = "pre"]
      BY <1>5 DEF PreConsume
    <2>2. /\ hold'[q].sub = hold[q].sub /\ hold'[q].period = hold[q].period
          /\ phase'[q] = "held" => phase[q] = "held" /\ hold'[q] = hold[q]
      BY <2>1 DEF Typed
    <2>3. QED
      BY <1>3, <2>1, <2>2
  <1>6. ASSUME NEW r \in Requests, PreConsumeCommit(r) PROVE Covered(q)'
    <2>1. due' = due /\ phase[r] = "pre"
      BY <1>6 DEF PreConsumeCommit
    <2>2. CASE UNCHANGED <<sub, hold, booked, late>> /\ phase' = [phase EXCEPT ![r] = "rejected"]
      <3>1. phase'[q] = "held" => phase[q] = "held"
        BY <2>2 DEF Typed
      <3>2. QED
        BY <1>3, <2>1, <2>2, <3>1
    <2>3. ASSUME NEW f \in Subs,
                 phase' = [phase EXCEPT ![r] = "held"],
                 hold' = [hold EXCEPT ![r].sub = f, ![r].period = sub'[f].period],
                 booked' = [booked EXCEPT ![r] = hold[r].amount]
          PROVE  Covered(q)'
      <3>1. CASE q # r
        <4>1. phase'[q] = phase[q] /\ hold'[q] = hold[q] /\ booked'[q] = booked[q]
          BY <2>3, <3>1 DEF Typed
        <4>2. QED
          BY <1>3, <2>1, <4>1
      <3>2. CASE q = r
        <4>1. due'[M] = 0 /\ due'[F] = 0
          BY <2>1, <3>2 DEF RowsSound
        <4>2. /\ booked'[q] = hold[q].amount /\ hold'[q].amount = hold[q].amount
              /\ hold'[q].sub = f /\ hold'[q].period = sub'[f].period
          BY <2>3, <3>2 DEF Typed
        <4>3. hold[q].amount \in Nat /\ sub'[f].period \in Int
          BY <1>0, AmountNat, AmountsAssumption DEF RowsSound, Row
        <4>4. PaysBack(booked'[q], due'[M], due'[F])
          BY <4>1, <4>2, <4>3 DEF PaysBack
        <4>5. hold'[q].period <= sub'[hold'[q].sub].period
          BY <4>2, <4>3
        <4>6. QED
          BY <4>2, <4>4, <4>5 DEF Covered
      <3>3. QED
        BY <3>1, <3>2
    <2>4. QED
      BY <1>6, <2>2, <2>3, CommitEffect
  <1>7. ASSUME NEW r \in Requests,
               (\E cost \in Amounts : Settle(r, cost)) \/ (\E violation \in BOOLEAN : Fail(r, violation))
        PROVE  Covered(q)'
    <2>1. /\ phase[r] = "held" /\ UNCHANGED <<sub, hold, booked>>
          /\ \E p \in {"settled", "refunded"} : phase' = [phase EXCEPT ![r] = p]
      BY <1>7 DEF Settle, Fail
    <2>2. CASE q # r
      <3>1. phase'[q] = phase[q]
        BY <2>1, <2>2 DEF Typed
      <3>2. M # <<r, "main">> /\ M # <<r, "refund">> /\ F # <<r, "main">> /\ F # <<r, "refund">>
        BY <2>2
      <3>3. due'[M] = due[M] /\ due'[F] = due[F]
        BY <1>1, <1>7, <3>2 DEF Settle, Fail, Typed
      <3>4. QED
        BY <1>3, <2>1, <3>1, <3>3
    <2>3. CASE q = r
      <3>1. due[M] = 0 /\ due[F] = 0 /\ booked[q] = hold[q].amount /\ hold[q].amount \in Nat
        BY <1>0, <2>1, <2>3, AmountNat DEF RowsSound, Covered
      <3>2. phase'[q] # "held"
        BY <2>1, <2>3 DEF Typed
      <3>3. PaysBack(booked'[q], due'[M], due'[F])
        <4>1. ASSUME NEW cost \in Amounts, Settle(r, cost) PROVE PaysBack(booked'[q], due'[M], due'[F])
          <5>1. due'[M] = cost - hold[q].amount /\ due'[F] = 0 /\ cost \in Nat
            BY <1>1, <2>3, <3>1, <4>1, AmountsAssumption DEF Settle, Typed
          <5>2. QED
            BY <2>1, <3>1, <5>1 DEF PaysBack
        <4>2. ASSUME NEW violation \in BOOLEAN, Fail(r, violation)
              PROVE  PaysBack(booked'[q], due'[M], due'[F])
          <5>1. (IF violation THEN setting.fee ELSE 0) \in Nat
            BY SettingsAssumption DEF RowsSound
          <5>2. due'[F] = -hold[q].amount /\ due'[M] = IF violation THEN setting.fee ELSE 0
            BY <1>1, <2>3, <4>2 DEF Fail, Typed
          <5>3. due'[M] \in Nat
            BY <5>1, <5>2
          <5>4. QED
            BY <2>1, <3>1, <5>2, <5>3 DEF PaysBack
        <4>3. QED
          BY <1>7, <4>1, <4>2
      <3>4. hold'[q].sub # 0 => hold'[q].period <= sub'[hold'[q].sub].period
        BY <1>2, <2>1
      <3>5. QED
        BY <3>2, <3>3, <3>4 DEF Covered
    <2>4. QED
      BY <2>2, <2>3
  <1>8. ASSUME NEW r \in Requests, NEW t \in {"main", "refund"}, DeltaCommit(r, t) PROVE Covered(q)'
    <2> DEFINE d == due[<<r, t>>]
    <2>1. /\ hold' = hold /\ phase' = phase /\ due' = [due EXCEPT ![<<r, t>>] = 0]
          /\ phase[r] \in {"settled", "refunded"} /\ d \in Int /\ d # 0
          /\ booked' = booked \/ booked' = [booked EXCEPT ![r] = booked[r] + d]
      BY <1>8, DeltaEffect, Zenon
    <2>2. CASE q # r
      <3>1. M # <<r, t>> /\ F # <<r, t>>
        BY <2>2
      <3>2. due'[M] = due[M] /\ due'[F] = due[F] /\ booked'[q] = booked[q]
        BY <1>1, <2>1, <2>2, <3>1 DEF Typed
      <3>3. QED
        BY <1>3, <2>1, <3>2
    <2>3. CASE q = r
      <3>1. \/ /\ t = "main" /\ d = due[M] /\ due'[M] = 0 /\ due'[F] = due[F]
            \/ /\ t = "refund" /\ d = due[F] /\ due'[F] = 0 /\ due'[M] = due[M]
        BY <1>1, <2>1, <2>3 DEF Typed
      <3>2. booked'[q] = booked[q] \/ booked'[q] = booked[q] + d
        BY <2>1, <2>3 DEF Typed
      <3>3. PaysBack(booked[q], due[M], due[F])
        BY <1>0 DEF Covered
      <3> HIDE DEF M, F, d
      <3>4. PaysBack(booked'[q], due'[M], due'[F])
        BY <1>1, <2>1, <3>1, <3>2, <3>3 DEF PaysBack
      <3>5. hold'[q].sub # 0 => hold'[q].period <= sub'[hold'[q].sub].period
        BY <1>2, <2>1
      <3>6. QED
        BY <2>1, <2>3, <3>4, <3>5 DEF Covered, M, F
    <2>4. QED
      BY <2>2, <2>3
  <1>9. QED
    <2>1. ASSUME Tick \/ ResetTask \/ (\E s \in Subs : EndSubscription(s)) \/ UNCHANGED vars
          PROVE  UNCHANGED <<due, booked, hold, phase>>
      BY <2>1 DEF Tick, ResetTask, ResetList, Reset, ResetCommit, EndSubscription, vars
    <2>2. ASSUME NEW r \in Requests, NEW t \in {"main", "refund"}, Delta(r, t)
          PROVE  UNCHANGED <<due, booked, hold, phase>>
      BY <2>2 DEF Delta
    <2>3. QED
      BY <1>4, <1>5, <1>6, <1>7, <1>8, <2>1, <2>2 DEF Next, Step

\* The requests whose hold is of the current period of a subscription.
Payers(s) == {r \in Requests : hold[r].sub = s /\ hold[r].period = sub[s].period}

LEMMA PayersFinite == \A s : IsFiniteSet(Payers(s))
  BY FiniteAssumption, FS_Subset DEF Payers

\* The sum stays when neither the payers nor their bookings change.
LEMMA ChargedSame ==
    ASSUME Typed, Typed', NEW s, Payers(s)' = Payers(s),
           \A r \in Payers(s) : booked'[r] = booked[r]
    PROVE  Charged(s)' = Charged(s)
  <1>1. \A r \in Payers(s) : booked[r] \in Int /\ booked'[r] = booked[r]
    BY DEF Typed, Payers
  <1>2. SumFunctionOnSet(booked', Payers(s)) = SumFunctionOnSet(booked, Payers(s))
    BY <1>1, PayersFinite, SumSame
  <1>3. Charged(s) = SumFunctionOnSet(booked, Payers(s)) /\ Charged(s)' = SumFunctionOnSet(booked', Payers(s)')
    BY DEF Charged, Payers
  <1>4. QED
    BY <1>2, <1>3

\* No hold is of a period that has just begun.
LEMMA NewPeriod ==
    ASSUME RowsSound, Typed, RowsSound', Accounts, setting.isolated, NEW s \in Subs,
           sub'[s].period > sub[s].period, NEW q \in Requests, hold[q].sub = s
    PROVE  hold[q].period # sub'[s].period
  <1>1. hold[q].period <= sub[s].period
    <2>1. s # 0
      BY AmountsAssumption DEF Subs
    <2>2. Covered(q)
      BY DEF Accounts
    <2>3. QED
      BY <2>1, <2>2 DEF Covered
  <1>2. hold[q].period \in Int /\ sub[s].period \in Int /\ sub'[s].period \in Int
    BY AmountsAssumption DEF Typed, RowsSound, Row
  <1>3. QED
    BY <1>1, <1>2

LEMMA UsageStep ==
    ASSUME RowsSound, Typed, Serial, Accounts, UsageExplained, [Next]_vars
    PROVE  UsageExplained'
  <1> USE DEF Payers
  <1>0. RowsSound' /\ Typed'
    BY RowsStep
  <1> SUFFICES ASSUME setting.isolated, NEW s \in Subs, s \notin late'
               PROVE  sub'[s].used = Charged(s)'
    <2>1. setting' = setting
      BY DEF Next, Step, ResetTask, Tick, ResetList, Reset, ResetCommit, EndSubscription, PreConsume,
             PreConsumeCommit, Settle, Fail, Delta, DeltaCommit, vars
    <2>2. QED
      BY <2>1 DEF UsageExplained
  <1>1. s \notin late => sub[s].used = Charged(s)
    BY DEF UsageExplained
  <1>2. Charged(s) = SumFunctionOnSet(booked, Payers(s)) /\ Charged(s)' = SumFunctionOnSet(booked', Payers(s)')
    BY DEF Charged
  <1>3. IsFiniteSet(Payers(s)) /\ IsFiniteSet(Payers(s)')
    BY FiniteAssumption, FS_Subset
  <1>t. /\ \A r \in Requests : booked[r] \in Int /\ booked'[r] \in Int
        /\ sub[s].used \in Nat /\ sub[s].period \in Int /\ sub'[s].period \in Int
        /\ hold \in [Requests -> [sub : 0..SubCount, amount : Amounts \cup {0}, period : 0..MaxClock]]
        /\ booked \in [Requests -> Int]
    BY <1>0, AmountsAssumption DEF Typed, RowsSound, Row
  <1>4. ASSUME booked' = booked, late' = late,
               sub'[s].used = sub[s].used, sub'[s].period = sub[s].period,
               \A q \in Requests : hold'[q].sub = hold[q].sub /\ hold'[q].period = hold[q].period
        PROVE  sub'[s].used = Charged(s)'
    <2>1. Payers(s)' = Payers(s)
      BY <1>4
    <2>2. QED
      BY <1>0, <1>1, <1>4, <2>1, ChargedSame
  <1>5. ASSUME NEW r \in Requests, PreConsumeCommit(r) PROVE sub'[s].used = Charged(s)'
    <2>0. hold[r].sub = 0 /\ 0 \notin Subs /\ hold[r].amount \in Nat
      <3>1. phase[r] = "pre"
        BY <1>5 DEF PreConsumeCommit
      <3>2. hold[r].sub = 0
        BY <3>1 DEF RowsSound
      <3>3. 0 \notin Subs
        BY AmountsAssumption DEF Subs
      <3>4. QED
        BY <3>2, <3>3, AmountNat
    <2>1. CASE UNCHANGED <<sub, hold, booked, late>>
      BY <1>4, <2>1
    <2>2. ASSUME NEW f \in Subs,
                 hold' = [hold EXCEPT ![r].sub = f, ![r].period = sub'[f].period],
                 booked' = [booked EXCEPT ![r] = hold[r].amount],
                 late' = {q \in late : sub'[q].period = sub[q].period},
                 Renewed(f, hold[r].amount) \/ Grown(f, hold[r].amount),
                 \A q \in Subs \ {f} : Renewed(q, 0) \/ Grown(q, 0)
          PROVE  sub'[s].used = Charged(s)'
      <3>1. /\ \A q \in Requests \ {r} : hold'[q] = hold[q] /\ booked'[q] = booked[q]
            /\ hold'[r].sub = f /\ hold'[r].period = sub'[f].period /\ booked'[r] = hold[r].amount
        BY <1>t, <2>2
      <3>2. CASE s # f /\ Renewed(s, 0)
        <4>1. Payers(s)' = {}
          BY <1>0, <3>1, <3>2, NewPeriod DEF Renewed
        <4>2. Charged(s)' = 0
          BY <1>2, <1>3, <4>1, SumZero
        <4>3. QED
          BY <3>2, <4>2 DEF Renewed
      <3>3. CASE s # f /\ Grown(s, 0)
        <4>1. sub'[s].period = sub[s].period /\ sub'[s].used = sub[s].used
          BY <1>t, <3>3 DEF Grown
        <4>2. Payers(s)' = Payers(s) /\ r \notin Payers(s)
          BY <2>0, <3>1, <3>3, <4>1
        <4>3. \A q \in Payers(s) : booked'[q] = booked[q]
          BY <3>1, <4>2
        <4>4. s \notin late
          BY <2>2, <4>1
        <4>5. QED
          BY <1>0, <1>1, <4>1, <4>2, <4>3, <4>4, ChargedSame
      <3>4. CASE s = f /\ Renewed(s, hold[r].amount)
        <4>1. Payers(s)' = {r}
          <5>1. r \in Payers(s)'
            BY <3>1, <3>4
          <5>2. \A q \in Requests \ {r} : q \notin Payers(s)'
            BY <1>0, <3>1, <3>4, NewPeriod DEF Renewed
          <5>3. QED
            BY <5>1, <5>2
        <4>2. Charged(s)' = booked'[r] + SumFunctionOnSet(booked', {r} \ {r})
          BY <1>2, <1>3, <1>t, <4>1, SumTake
        <4>3. SumFunctionOnSet(booked', {r} \ {r}) = 0
          BY FS_EmptySet, SumZero
        <4>4. QED
          BY <2>0, <3>1, <3>4, <4>2, <4>3 DEF Renewed
      <3>5. CASE s = f /\ Grown(s, hold[r].amount)
        <4>1. sub'[s].period = sub[s].period /\ sub'[s].used = sub[s].used + hold[r].amount
          BY <3>5 DEF Grown
        <4>2. r \in Payers(s)' /\ Payers(s)' \ {r} = Payers(s) /\ r \notin Payers(s)
          BY <2>0, <3>1, <3>5, <4>1
        <4>3. Charged(s)' = booked'[r] + SumFunctionOnSet(booked', Payers(s))
          <5>1. \A q \in Payers(s)' : booked'[q] \in Int
            BY <1>t
          <5>2. Charged(s)' = booked'[r] + SumFunctionOnSet(booked', Payers(s)' \ {r})
            <6>1. \A S : IsFiniteSet(S) /\ (\A q \in S : booked'[q] \in Int) /\ r \in S =>
                     SumFunctionOnSet(booked', S) = booked'[r] + SumFunctionOnSet(booked', S \ {r})
              BY SumTake
            <6>2. QED
              BY <1>2, <1>3, <4>2, <5>1, <6>1, Zenon
          <5>3. QED
            BY <4>2, <5>2
        <4>4. SumFunctionOnSet(booked', Payers(s)) = SumFunctionOnSet(booked, Payers(s))
          <5>1. \A q \in Payers(s) : booked[q] \in Int /\ booked'[q] = booked[q]
            BY <1>t, <3>1, <4>2
          <5>2. QED
            BY <1>3, <5>1, SumSame
        <4>5. sub[s].used = SumFunctionOnSet(booked, Payers(s))
          BY <1>1, <1>2, <2>2, <4>1
        <4>6. QED
          BY <1>t, <2>0, <3>1, <4>1, <4>3, <4>4, <4>5
      <3>6. QED
        BY <2>2, <3>2, <3>3, <3>4, <3>5
    <2>3. QED
      BY <1>5, <2>1, <2>2, CommitEffect
  <1>6. ASSUME NEW r \in Requests, NEW t \in {"main", "refund"}, DeltaCommit(r, t)
        PROVE  sub'[s].used = Charged(s)'
    <2> DEFINE d == due[<<r, t>>]
               h == hold[r].sub
    <2>1. /\ h \in Subs /\ d \in Int /\ hold' = hold
          /\ \A q \in Subs : sub'[q].period = sub[q].period
          /\ \A q \in Subs \ {h} : sub'[q] = sub[q]
          /\ \/ UNCHANGED <<sub, booked, late>>
             \/ /\ sub'[h].used = IF sub[h].used + d >= 0 THEN sub[h].used + d ELSE 0
                /\ \/ /\ sub[h].period = hold[r].period
                      /\ booked' = [booked EXCEPT ![r] = booked[r] + d] /\ late' = late
                   \/ late' = late \cup {h} /\ booked' = booked
      BY <1>6, DeltaEffect, Zenon
    <2>2. PaysBack(booked[r], due[<<r, "main">>], due[<<r, "refund">>])
          /\ \A q \in Requests : booked[q] >= 0
      BY DEF Accounts, Covered, PaysBack
    <2>3. booked[r] + d >= 0
      <3>1. due[<<r, "main">>] \in Int /\ due[<<r, "refund">>] \in Int /\ booked[r] \in Int
        BY ActorFacts DEF Typed
      <3>2. CASE t = "main"
        BY <2>2, <3>1, <3>2 DEF PaysBack
      <3>3. CASE t = "refund"
        BY <2>2, <3>1, <3>3 DEF PaysBack
      <3>4. QED
        BY <3>2, <3>3
    <2> HIDE DEF d
    <2>4. Payers(s)' = Payers(s)
      BY <2>1
    <2>5. CASE s # h
      <3>1. r \notin Payers(s) /\ sub'[s] = sub[s] /\ s \notin late
        BY <2>1, <2>5
      <3>2. \A q \in Payers(s) : booked'[q] = booked[q]
        BY <1>t, <2>1, <3>1
      <3>3. QED
        BY <1>0, <1>1, <2>4, <3>1, <3>2, ChargedSame
    <2>6. CASE s = h /\ UNCHANGED <<sub, booked, late>>
      BY <1>4, <2>1, <2>6
    <2>7. CASE /\ s = h /\ sub[h].period = hold[r].period
               /\ sub'[h].used = IF sub[h].used + d >= 0 THEN sub[h].used + d ELSE 0
               /\ booked' = [booked EXCEPT ![r] = booked[r] + d] /\ late' = late
      <3>1. r \in Payers(s) /\ booked'[r] = booked[r] + d
            /\ \A q \in Payers(s) \ {r} : booked'[q] = booked[q]
        BY <1>t, <2>7
      <3>2. Charged(s)' = Charged(s) + booked'[r] - booked[r]
        <4>1. \A q \in Payers(s) : booked[q] \in Int /\ booked'[q] \in Int
          BY <1>t
        <4>2. SumFunctionOnSet(booked', Payers(s))
                = SumFunctionOnSet(booked, Payers(s)) + booked'[r] - booked[r]
          <5>1. \A S : /\ IsFiniteSet(S) /\ (\A q \in S : booked[q] \in Int /\ booked'[q] \in Int)
                       /\ r \in S /\ (\A q \in S \ {r} : booked'[q] = booked[q])
                   => SumFunctionOnSet(booked', S) = SumFunctionOnSet(booked, S) + booked'[r] - booked[r]
            BY SumChange
          <5>2. QED
            BY <1>3, <3>1, <4>1, <5>1, Zenon
        <4>3. QED
          BY <1>2, <2>4, <4>2
      <3>3. booked[r] <= Charged(s)
        <4>1. \A q \in Payers(s) : booked[q] \in Nat
          BY <1>t, <2>2
        <4>2. QED
          BY <1>2, <1>3, <3>1, <4>1, SumBound
      <3>4. sub[s].used = Charged(s)
        BY <1>1, <2>7
      <3>5. booked[r] \in Int /\ d \in Int
        BY <1>t, <2>1
      <3>6. QED
        BY <1>t, <2>3, <2>7, <3>1, <3>2, <3>3, <3>4, <3>5
    <2>8. QED
      BY <2>1, <2>5, <2>6, <2>7
  <1>7. ASSUME NEW q \in Subs, ResetCommit(q) PROVE sub'[s].used = Charged(s)'
    <2>1. /\ hold' = hold /\ booked' = booked /\ late' = {x \in late : sub'[x].period = sub[x].period}
          /\ Renewed(s, 0) \/ sub'[s] = sub[s]
      BY <1>7, ResetEffect
    <2>2. CASE Renewed(s, 0)
      <3>1. Payers(s)' = {}
        BY <1>0, <2>1, <2>2, NewPeriod DEF Renewed
      <3>2. Charged(s)' = 0
        BY <1>2, <1>3, <3>1, SumZero
      <3>3. QED
        BY <2>2, <3>2 DEF Renewed
    <2>3. CASE sub'[s] = sub[s]
      <3>1. s \notin late /\ Payers(s)' = Payers(s)
        BY <2>1, <2>3
      <3>2. QED
        BY <1>0, <1>1, <2>1, <2>3, <3>1, ChargedSame
    <2>4. QED
      BY <2>1, <2>2, <2>3
  <1>8. ASSUME NEW q \in Subs, EndSubscription(q) PROVE sub'[s].used = Charged(s)'
    <2>1. sub'[s].used = sub[s].used /\ sub'[s].period = sub[s].period
      BY <1>8 DEF EndSubscription, RowsSound, Row
    <2>2. QED
      BY <1>4, <1>8, <2>1 DEF EndSubscription
  <1>9. ASSUME NEW r \in Requests, NEW n \in Amounts, PreConsume(r, n) PROVE sub'[s].used = Charged(s)'
    <2>1. \A q \in Requests : hold'[q].sub = hold[q].sub /\ hold'[q].period = hold[q].period
      BY <1>9, <1>t DEF PreConsume
    <2>2. QED
      BY <1>4, <1>9, <2>1 DEF PreConsume
  <1>10. QED
    <2>1. ASSUME Tick \/ ResetList \/ Reset \/ UNCHANGED vars PROVE UNCHANGED <<sub, hold, booked, late>>
      BY <2>1 DEF Tick, ResetList, Reset, vars
    <2>2. ASSUME NEW r \in Requests,
                 \/ \E cost \in Amounts : Settle(r, cost)
                 \/ \E violation \in BOOLEAN : Fail(r, violation)
                 \/ \E t \in {"main", "refund"} : Delta(r, t)
          PROVE  UNCHANGED <<sub, hold, booked, late>>
      BY <2>2 DEF Settle, Fail, Delta
    <2>3. CASE UNCHANGED <<sub, hold, booked, late>>
      BY <1>4, <2>3
    <2>4. QED
      BY <1>5, <1>6, <1>7, <1>8, <1>9, <2>1, <2>2, <2>3 DEF Next, Step, ResetTask

\* Where the transactions are serialised, the usage of a subscription is exactly
\* what the requests of its period hold or paid, whatever holds, settlements,
\* refunds, fees and resets interleave, until a delta of an earlier period is booked
\* on it: in particular the clamp at zero of PostConsumeUserSubscriptionDelta never
\* swallows a part of a refund.
THEOREM UsageExplainedHolds == Spec => []UsageExplained
  <1> DEFINE IInv == RowsSound /\ Typed /\ Serial /\ Accounts /\ UsageExplained
  <1>1. Init => IInv
    <2> SUFFICES ASSUME Init PROVE IInv
      OBVIOUS
    <2>1. RowsSound /\ Typed
      BY InitRows
    <2>2. Serial
      BY DEF Init, Serial
    <2>3. Accounts
      <3> SUFFICES ASSUME NEW r \in Requests PROVE Covered(r)
        BY DEF Accounts
      <3>1. /\ booked[r] = 0 /\ due[<<r, "main">>] = 0 /\ due[<<r, "refund">>] = 0
            /\ hold[r].sub = 0 /\ phase[r] = "new"
        BY ActorFacts DEF Init, NoHold
      <3>2. QED
        BY <3>1 DEF Covered, PaysBack
    <2>4. UsageExplained
      <3> SUFFICES ASSUME NEW s \in Subs PROVE sub[s].used = Charged(s)
        BY DEF UsageExplained
      <3>1. Payers(s) = {} /\ sub[s].used = 0
        BY AmountsAssumption DEF Init, NoHold, Payers, Subs
      <3>2. Charged(s) = SumFunctionOnSet(booked, Payers(s))
        BY DEF Charged, Payers
      <3>3. SumFunctionOnSet(booked, Payers(s)) = 0
        BY <3>1, FS_EmptySet, SumZero
      <3>4. QED
        BY <3>1, <3>2, <3>3
    <2>5. QED
      BY <2>1, <2>2, <2>3, <2>4
  <1>2. IInv /\ [Next]_vars => IInv'
    BY RowsStep, SerialStep, AccountsStep, UsageStep
  <1>3. QED
    BY <1>1, <1>2, PTL DEF Spec
=============================================================================
