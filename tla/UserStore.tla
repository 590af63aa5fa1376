----------------------------- MODULE UserStore -----------------------------
(***************************************************************************)
(* The row of one user, its copy in Redis and the batch updater            *)
(* (model/user.go, model/user_cache.go, model/utils.go, common/redis.go).  *)
(* Quota changes add to the row (or, with batch updates, to a map in       *)
(* memory that a loop flushes) and to the copy, from a goroutine of their  *)
(* own.  Readers fill the copy from the row when it is missing.  Some      *)
(* handlers read the whole row and later write it back.                    *)
(*                                                                         *)
(* Each database statement and each Redis command is a step.  Of the row   *)
(* only quota and status are kept: the aff quota a transfer takes from is  *)
(* left out.  Tokens are stored, cached and batched the same way           *)
(* (model/token.go).                                                       *)
(***************************************************************************)
EXTENDS Integers, FiniteSets

CONSTANTS
    Changes,        \* quota changes: requests charging or returning quota
    Deltas,         \* their amounts
    Fills,          \* readers of the copy that may find it missing
    Writers,        \* handlers that write the row itself, once each (a bound)
    Kinds,          \* those that read the row and write it back
    Overrides,      \* quotas an administrator may set
    Failures,       \* statements may fail
    Crashes,        \* the process may crash
    InitialQuota,
    AffMoved        \* amount of an aff transfer

ASSUME KindsAssumption == Kinds \subseteq {"profile", "disable", "transfer"}

ASSUME AmountsAssumption ==
    /\ Deltas \subseteq Int /\ Overrides \subseteq Int
    /\ InitialQuota \in Int /\ AffMoved \in Int

ASSUME FiniteAssumption == IsFiniteSet(Changes)

ASSUME SwitchesAssumption == {Failures, Crashes} \subseteq BOOLEAN

VARIABLES
    batch,      \* BATCH_UPDATE_ENABLED
    row,        \* users: [quota, status]
    copy,       \* the hash in Redis, or NoHash
    change,     \* each change: [delta, book, incr]
    fill,       \* each reader: the row it read and has not yet written, or NoHash
    writer,     \* each writer: [step, kind, row, again], the row it read first
                \* and the one it read again (then: what it caches)
    pending,    \* batchUpdateStores[BatchUpdateTypeUserQuota]
    taken,      \* what a running batchUpdate swapped out
    ledger,     \* history: what the changes booked so far add up to
    lost,       \* history: what crashes and failed flushes lost
    causes      \* history: why the copy may differ from the row

vars == <<batch, row, copy, change, fill, writer, pending, taken, ledger, lost, causes>>

Rows == [quota : Int, status : {"on", "off"}]
NoHash == [quota |-> 0, status |-> "none"]

Unused == [delta |-> 0, book |-> "none", incr |-> "none"]
Idle == [step |-> "idle", kind |-> "none", row |-> NoHash, again |-> NoHash]
Finished(kind) == [Idle EXCEPT !.step = "finished", !.kind = kind]

Init ==
    /\ batch \in BOOLEAN
    /\ row = [quota |-> InitialQuota, status |-> "on"]
    /\ copy = NoHash
    /\ change = [c \in Changes |-> Unused]
    /\ fill = [f \in Fills |-> NoHash]
    /\ writer = [w \in Writers |-> Idle]
    /\ pending = 0 /\ taken = 0 /\ ledger = 0 /\ lost = 0 /\ causes = {}

-----------------------------------------------------------------------------
(* What overlaps.  A window is the time between reading the row and writing *)
(* the copy of it (or the row itself).                                      *)

Filling == {f \in Fills : fill[f] # NoHash}
Writing == {w \in Writers : writer[w].step \notin {"idle", "finished"}}
UnderWay(c) == change[c].book = "due" \/ change[c].incr \in {"due", "checked"}
Unbooked == pending # 0 \/ taken # 0 \/ \E c \in Changes : UnderWay(c)

\* The reason a change of row or copy adds when the windows ws are open.
Overlap(ws) == IF ws # {} THEN {"overlap"} ELSE {}

-----------------------------------------------------------------------------
(* Quota changes: IncreaseUserQuota and DecreaseUserQuota. *)

\* The call starts the goroutine for the copy.
StartChange(c, d) ==
    /\ change[c] = Unused
    /\ change' = [change EXCEPT ![c] = [delta |-> d, book |-> "due", incr |-> "due"]]
    /\ causes' = causes \cup Overlap(Filling \cup Writing)
    /\ UNCHANGED <<batch, row, copy, fill, writer, pending, taken, ledger, lost>>

\* addNewRecord under its lock, or one UPDATE: without batch updates, and for the
\* callers that ask for it (db).
Book(c) ==
    /\ change[c].book = "due"
    /\ \/ batch /\ pending' = pending + change[c].delta /\ UNCHANGED row
       \/ row' = [row EXCEPT !.quota = @ + change[c].delta] /\ UNCHANGED pending
    /\ ledger' = ledger + change[c].delta
    /\ change' = [change EXCEPT ![c].book = "done"]
    /\ UNCHANGED <<batch, copy, fill, writer, taken, lost, causes>>

\* The statement fails: the caller sees the error, the goroutine does not.
BookError(c) ==
    /\ Failures
    /\ change[c].book = "due"
    /\ change' = [change EXCEPT ![c].book = "done"]
    /\ causes' = causes \cup {"failed"}
    /\ UNCHANGED <<batch, row, copy, fill, writer, pending, taken, ledger, lost>>

\* RedisHIncrBy, the TTL: a missing hash is left alone.
IncrCheck(c) ==
    /\ change[c].incr = "due"
    /\ change' = [change EXCEPT ![c].incr = IF copy = NoHash THEN "done" ELSE "checked"]
    /\ UNCHANGED <<batch, row, copy, fill, writer, pending, taken, ledger, lost, causes>>

\* Mutant: the copy is set from the row instead of incremented.
IncrApplySets(c) ==
    /\ change[c].incr = "checked"
    /\ copy' = row
    /\ change' = [change EXCEPT ![c].incr = "done"]
    /\ UNCHANGED <<batch, row, fill, writer, pending, taken, ledger, lost, causes>>

\* RedisHIncrBy, the increment: HINCRBY creates a missing hash with one field.
IncrApply(c) ==
    /\ change[c].incr = "checked"
    /\ change' = [change EXCEPT ![c].incr = "done"]
    /\ IF copy = NoHash
       THEN /\ copy' = [quota |-> change[c].delta, status |-> "missing"]
            /\ causes' = causes \cup {"torn"}
       ELSE /\ copy' = [copy EXCEPT !.quota = @ + change[c].delta]
            /\ UNCHANGED causes
    /\ UNCHANGED <<batch, row, fill, writer, pending, taken, ledger, lost>>

\* Redis fails in either command: the goroutine logs it and ends.
IncrError(c) ==
    /\ Failures
    /\ change[c].incr \in {"due", "checked"}
    /\ change' = [change EXCEPT ![c].incr = "done"]
    /\ causes' = causes \cup {"failed"}
    /\ UNCHANGED <<batch, row, copy, fill, writer, pending, taken, ledger, lost>>

-----------------------------------------------------------------------------
(* The batch updater. *)

\* Mutant: the map is emptied only when it is taken the next time.
BatchTakeKeeps ==
    /\ batch
    /\ taken = 0 /\ pending # 0
    /\ taken' = pending
    /\ UNCHANGED <<batch, row, copy, change, fill, writer, pending, ledger, lost, causes>>

\* batchUpdate swaps the maps under the lock...
BatchTake ==
    /\ batch
    /\ taken = 0 /\ pending # 0
    /\ taken' = pending /\ pending' = 0
    /\ UNCHANGED <<batch, row, copy, change, fill, writer, ledger, lost, causes>>

\* Mutant: the flush waits for the next change.
BatchWriteLate ==
    /\ taken # 0 /\ pending # 0
    /\ row' = [row EXCEPT !.quota = @ + taken]
    /\ taken' = 0
    /\ UNCHANGED <<batch, copy, change, fill, writer, pending, ledger, lost, causes>>

\* ...and adds what it took to the row.
BatchWrite ==
    /\ taken # 0
    /\ row' = [row EXCEPT !.quota = @ + taken]
    /\ taken' = 0
    /\ UNCHANGED <<batch, copy, change, fill, writer, pending, ledger, lost, causes>>

\* A failing statement is logged and its amount forgotten.
BatchError ==
    /\ Failures
    /\ taken # 0
    /\ lost' = lost + taken /\ taken' = 0
    /\ causes' = causes \cup {"failed"}
    /\ UNCHANGED <<batch, row, copy, change, fill, writer, pending, ledger>>

-----------------------------------------------------------------------------
(* The copy. *)

\* GetUserCache has found no hash, or Redis failed, and reads the row; the hash may
\* be there again...
FillRead(f) ==
    /\ fill[f] = NoHash
    /\ fill' = [fill EXCEPT ![f] = row]
    /\ causes' = causes \cup (IF Unbooked \/ Writing # {} THEN {"overlap"} ELSE {})
    /\ UNCHANGED <<batch, row, copy, change, writer, pending, taken, ledger, lost>>

\* ...and writes the hash from a goroutine.
FillWrite(f) ==
    /\ fill[f] # NoHash
    /\ copy' = fill[f]
    /\ fill' = [fill EXCEPT ![f] = NoHash]
    /\ UNCHANGED <<batch, row, change, writer, pending, taken, ledger, lost, causes>>

\* Its time to live is over.  The reasons for its errors go with it, unless
\* something under way may bring them back.
Expire ==
    /\ copy # NoHash
    /\ copy' = NoHash
    /\ causes' = IF Unbooked \/ Filling # {} \/ Writing # {} THEN causes ELSE {}
    /\ UNCHANGED <<batch, row, change, fill, writer, pending, taken, ledger, lost>>

-----------------------------------------------------------------------------
(* Handlers that write the whole row. *)

\* The handler loads the user; the FOR UPDATE of the aff transfer is an option
\* that GORM ignores.
LoadUser(w, kind) ==
    /\ writer[w] = Idle
    /\ writer' = [writer EXCEPT ![w] = [step |-> "loaded", kind |-> kind, row |-> row,
                                                again |-> NoHash]]
    /\ causes' = causes \cup (IF Unbooked THEN {"overlap"} ELSE {})
                        \cup Overlap(Filling \cup (Writing \ {w}))
    /\ UNCHANGED <<batch, row, copy, change, fill, pending, taken, ledger, lost>>

\* user.Update reads the row again, into the user it will cache...
RereadUser(w) ==
    /\ writer[w].step = "loaded" /\ writer[w].kind # "transfer"
    /\ writer' = [writer EXCEPT ![w].step = "reread", ![w].again = row]
    /\ UNCHANGED <<batch, row, copy, change, fill, pending, taken, ledger, lost, causes>>

\* What Updates makes of a row: the fields of the first read that are not zero
\* replace those of the row.
Updated(w, base) ==
    LET seen == writer[w].row IN
    [quota  |-> IF seen.quota = 0 THEN base.quota ELSE seen.quota,
     status |-> IF writer[w].kind = "disable" THEN "off" ELSE seen.status]

\* ...and writes it, with the same effect on the user to be cached.
StoreUser(w) ==
    /\ writer[w].step = "reread"
    /\ row' = Updated(w, row)
    /\ writer' = [writer EXCEPT ![w].step = "cache", ![w].again = Updated(w, @)]
    /\ UNCHANGED <<batch, copy, change, fill, pending, taken, ledger, lost, causes>>

\* TransferAffQuotaToQuota saves the whole row it read and leaves the copy alone.
SaveTransfer(w) ==
    /\ writer[w].step = "loaded" /\ writer[w].kind = "transfer"
    /\ row' = [writer[w].row EXCEPT !.quota = @ + AffMoved]
    /\ writer' = [writer EXCEPT ![w] = Finished(@.kind)]
    /\ ledger' = ledger + AffMoved
    /\ causes' = causes \cup {"transfer"}
    /\ UNCHANGED <<batch, copy, change, fill, pending, taken, lost>>

\* updateUserCache; after disabling a user the hash is deleted next.
CacheUser(w) ==
    /\ writer[w].step = "cache"
    /\ copy' = writer[w].again
    /\ writer' = [writer EXCEPT ![w] = IF @.kind = "disable" THEN [@ EXCEPT !.step = "drop"]
                                       ELSE Finished(@.kind)]
    /\ UNCHANGED <<batch, row, change, fill, pending, taken, ledger, lost, causes>>

\* InvalidateUserCache.
DropUser(w) ==
    /\ writer[w].step = "drop"
    /\ copy' = NoHash
    /\ writer' = [writer EXCEPT ![w] = Finished(@.kind)]
    /\ UNCHANGED <<batch, row, change, fill, pending, taken, ledger, lost, causes>>

\* ManageUser, add_quota in mode override: the row alone, to a fixed value.
OverrideQuota(w, q) ==
    /\ writer[w] = Idle
    /\ row' = [row EXCEPT !.quota = q]
    /\ writer' = [writer EXCEPT ![w] = Finished("override")]
    /\ ledger' = ledger + q - row.quota
    /\ causes' = causes \cup {"override"}
    /\ UNCHANGED <<batch, copy, change, fill, pending, taken, lost>>

-----------------------------------------------------------------------------
\* The process dies: memory and goroutines are gone, the row and the copy stay.
Crash ==
    /\ Crashes
    /\ lost' = lost + pending + taken
    /\ pending' = 0 /\ taken' = 0
    /\ change' = [c \in Changes |-> IF change[c] = Unused THEN Unused
                                    ELSE [change[c] EXCEPT !.book = "done", !.incr = "done"]]
    /\ fill' = [f \in Fills |-> NoHash]
    /\ writer' = [w \in Writers |-> IF w \in Writing THEN Finished(writer[w].kind) ELSE writer[w]]
    /\ causes' = causes \cup {"crash"}
    /\ <<change', fill', writer', pending', taken'>> # <<change, fill, writer, pending, taken>>
    /\ UNCHANGED <<batch, row, copy, ledger>>

ChangeStep(c) == Book(c) \/ BookError(c) \/ IncrCheck(c) \/ IncrApply(c) \/ IncrError(c)
WriterStep(w) ==
    \/ \E kind \in Kinds : LoadUser(w, kind)
    \/ \E q \in Overrides : OverrideQuota(w, q)
    \/ RereadUser(w) \/ StoreUser(w) \/ SaveTransfer(w) \/ CacheUser(w) \/ DropUser(w)

Next ==
    \/ \E c \in Changes : ChangeStep(c) \/ \E d \in Deltas : StartChange(c, d)
    \/ BatchTake \/ BatchWrite \/ BatchError
    \/ \E f \in Fills : FillRead(f) \/ FillWrite(f)
    \/ Expire
    \/ \E w \in Writers : WriterStep(w)
    \/ Crash

Spec == Init /\ [][Next]_vars

\* The loop of InitBatchUpdater runs for ever and its statements return.
FairSpec == Spec /\ WF_vars(BatchTake) /\ WF_vars(BatchWrite)

-----------------------------------------------------------------------------
(* Properties *)

Copies == [quota : Int, status : {"on", "off", "missing"}] \cup {NoHash}

\* Type invariant of the row, the copy and what is under way.
TypeOK ==
    /\ batch \in BOOLEAN /\ row \in Rows /\ copy \in Copies
    /\ change \in [Changes -> [delta : Int, book : {"none", "due", "done"},
                               incr : {"none", "due", "checked", "done"}]]
    /\ fill \in [Fills -> Rows \cup {NoHash}]
    /\ writer \in [Writers -> [step : {"idle", "loaded", "reread", "cache", "drop", "finished"},
                               kind : Kinds \cup {"none", "override"}, row : Rows \cup {NoHash},
                               again : Rows \cup {NoHash}]]
    /\ pending \in Int /\ taken \in Int /\ ledger \in Int /\ lost \in Int

\* The row and the batch updater's memory together hold every booked change
\* exactly once, however the flush interleaves with new changes; what a crash or
\* a failing flush loses is exactly what had not reached the row.  Only a handler
\* that writes a whole row it read before may overwrite a change.
Conserved ==
    /\ TypeOK
    /\ (\A w \in Writers : writer[w].step \in {"idle", "loaded", "reread"} \/ writer[w].kind = "override") =>
        row.quota + pending + taken + lost = InitialQuota + ledger

Quiet == ~Unbooked /\ Filling = {} /\ Writing = {}

\* With nothing under way the copy equals the row, unless a fill or a whole-row
\* write overlapped a change, the hash went between the TTL and the increment, a
\* statement failed, the process crashed, or a handler wrote the row alone.  In
\* particular concurrent changes, in any order of their statements, keep it exact.
CopyExplained == Quiet /\ causes = {} /\ copy # NoHash => copy = row

\* What is booked in memory leaves it: it reaches the row, or a crash or a failed
\* flush loses it (and Conserved says how much).
BatchLands == pending # 0 ~> pending = 0 /\ taken = 0
=============================================================================
