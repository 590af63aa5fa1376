-------------------------- MODULE RealtimeBilling --------------------------
(***************************************************************************)
(* The billing of one realtime session (OpenaiRealtimeHandler in           *)
(* relay/channel/openai/relay-openai.go, PreWssConsumeQuota and            *)
(* PostWssConsumeQuota in service/quota.go).  Two goroutines forward the   *)
(* messages of client and provider and count tokens; the provider's also   *)
(* charges every finished response.  When a connection ends, the handler   *)
(* charges what is left and settles the sum of all.                        *)
(*                                                                         *)
(* The three threads share the counters without a lock.  usage and         *)
(* localUsage point to objects; a thread goes on with the object it has    *)
(* when the pointer is replaced.  Where two threads write a counter, += is *)
(* a step that loads and a step that stores, and a bill reads its object   *)
(* again after it has looked up the quota: updates may be lost, and a      *)
(* charge may differ from what was added to the sum.  The fields of a      *)
(* counter, which the code updates one after the other in the same way,    *)
(* are one number here.  A token costs one unit of quota; sessions with a  *)
(* fixed price, which are not charged per response, are left out.  The     *)
(* token's quota is looked up, checked and charged as the wallet's is.     *)
(***************************************************************************)
EXTENDS Integers, Sequences

CONSTANTS
    Amounts,        \* tokens of a message or response
    Hold,           \* what the billing session pre-consumed
    Quotas,         \* what the user's quota may be before the session
    MaxMessages     \* bound: messages and responses of a session

ASSUME TokensAssumption ==
    Amounts \subseteq Nat \ {0} /\ Hold \in Nat /\ Quotas \subseteq Nat /\ MaxMessages \in Nat

VARIABLES
    objects,        \* of "usage" (reported by the provider) and "localUsage" (counted
                    \* here): the counters so far, the last is the one pointed to
    adding,         \* of "client" and "reader": [object, total], a localUsage += n under way
    sumUsage,       \* what the settlement is about
    wallet,         \* the user's quota
    quota,          \* the user's quota before the session
    at,             \* next step of "reader" (provider's messages) and "main"
    bill,           \* of each: what it is charging or settling
    received,       \* messages so far
    reported,       \* history: usage the provider reported
    finished,       \* history: reported usage charged before a connection ended
    refused         \* history: a charge was refused or failed

counters == <<objects, adding, sumUsage>>
account == <<wallet, quota>>
history == <<received, reported, finished, refused>>
realtimeVars == <<objects, adding, sumUsage, wallet, quota, at, bill, received, reported, finished, refused>>

Threads == {"reader", "main"}
Counters == {"usage", "localUsage"}
NoBill == [counter |-> "localUsage", object |-> 1, seen |-> 0, counted |-> 0, userQuota |-> 0, amount |-> 0]
NoAdd == [object |-> 0, total |-> 0]

RealtimeInit ==
    /\ objects = [c \in Counters |-> <<0>>]
    /\ adding = [w \in {"client", "reader"} |-> NoAdd]
    /\ sumUsage = 0
    /\ quota \in Quotas /\ wallet = quota - Hold
    /\ at = [reader |-> "read", main |-> "select"]
    /\ bill = [t \in Threads |-> NoBill]
    /\ received = 0 /\ reported = 0 /\ finished = 0 /\ refused = FALSE

-----------------------------------------------------------------------------
(* Counters *)

\* The object a counter points to, and its tokens.
Pointer(c) == Len(objects[c])
Latest(c) == objects[c][Pointer(c)]

\* A counter is made to point to a fresh object.
Replace(c) == objects' = [objects EXCEPT ![c] = Append(@, 0)]

\* localUsage += n by w loads the counter...
Load(w, n) == adding' = [adding EXCEPT ![w] = [object |-> Pointer("localUsage"), total |-> Latest("localUsage") + n]]

\* ...and stores it, in an object that may have been replaced meanwhile.
Store(w) ==
    /\ objects' = [objects EXCEPT !["localUsage"][adding[w].object] = adding[w].total]
    /\ adding' = [adding EXCEPT ![w] = NoAdd]

-----------------------------------------------------------------------------
(* Client reader *)

\* A message is counted.
ClientMessage(n) ==
    /\ adding["client"] = NoAdd /\ received < MaxMessages
    /\ Load("client", n)
    /\ received' = received + 1
    /\ UNCHANGED <<objects, sumUsage, account, at, bill, reported, finished, refused>>

ClientStore ==
    /\ adding["client"] # NoAdd
    /\ Store("client")
    /\ UNCHANGED <<sumUsage, account, at, bill, history>>

-----------------------------------------------------------------------------
(* preConsumeUsage and PreWssConsumeQuota, by either thread *)

\* What the object of a bill holds now.
Tokens(t) == objects[bill[t].counter][bill[t].object]

\* The bill is for the object its counter points to now.
StartBill(t, c, object) ==
    /\ bill' = [bill EXCEPT ![t] = [NoBill EXCEPT !.counter = c, !.object = object]]
    /\ at' = [at EXCEPT ![t] = "add"]

\* sumUsage += usage loads both...
AddLoad(t) ==
    /\ at[t] = "add"
    /\ bill' = [bill EXCEPT ![t].seen = sumUsage, ![t].counted = Tokens(t)]
    /\ at' = [at EXCEPT ![t] = "store"]
    /\ UNCHANGED <<counters, account, history>>

\* Mutant: the sum is overwritten by the bill.
AddStoreOverwrites(t) ==
    /\ at[t] = "store"
    /\ sumUsage' = bill[t].counted
    /\ bill' = [bill EXCEPT ![t].seen = 0, ![t].counted = 0]
    /\ at' = [at EXCEPT ![t] = "lookup"]
    /\ UNCHANGED <<objects, adding, account, history>>

\* ...and stores the sum.
AddStore(t) ==
    /\ at[t] = "store"
    /\ sumUsage' = bill[t].seen + bill[t].counted
    /\ bill' = [bill EXCEPT ![t].seen = 0, ![t].counted = 0]
    /\ at' = [at EXCEPT ![t] = "lookup"]
    /\ UNCHANGED <<objects, adding, account, history>>

\* Mutant: the reader goes on after a refusal.
AfterBillGoesOn(t, paid) ==
    CASE t = "main"              -> IF bill[t].counter = "usage" THEN "testLocal" ELSE "settle"
      [] t = "reader" /\ ~paid   -> "read"
      [] t = "reader" /\ paid    -> IF bill[t].counter = "usage" THEN "clearUsage" ELSE "clearLocal"

\* Where a thread goes on after a bill that was paid, or refused.  The handler
\* ignores a refusal.
AfterBill(t, paid) ==
    CASE t = "main"              -> IF bill[t].counter = "usage" THEN "testLocal" ELSE "settle"
      [] t = "reader" /\ ~paid   -> "stopped"
      [] t = "reader" /\ paid    -> IF bill[t].counter = "usage" THEN "clearUsage" ELSE "clearLocal"

\* The bill is forgotten.
EndBill(t, paid) ==
    /\ at' = [at EXCEPT ![t] = AfterBill(t, paid)]
    /\ bill' = [bill EXCEPT ![t] = NoBill]

Refuse(t) ==
    /\ refused' = TRUE
    /\ EndBill(t, FALSE)
    /\ UNCHANGED <<received, reported, finished>>

\* GetUserQuota and GetTokenByKey, either of which may fail.
Lookup(t) ==
    /\ at[t] = "lookup"
    /\ \/ /\ bill' = [bill EXCEPT ![t].userQuota = wallet]
          /\ at' = [at EXCEPT ![t] = "check"]
          /\ UNCHANGED history
       \/ Refuse(t)
    /\ UNCHANGED <<counters, account>>

\* The quota is computed from what the object holds now, and compared with what was
\* looked up.
Check(t) ==
    /\ at[t] = "check"
    /\ IF bill[t].userQuota < Tokens(t)
       THEN Refuse(t)
       ELSE /\ bill' = [bill EXCEPT ![t].amount = Tokens(t), ![t].userQuota = 0]
            /\ at' = [at EXCEPT ![t] = "charge"]
            /\ UNCHANGED history
    /\ UNCHANGED <<counters, account>>

\* Mutant: the quota is compared but not taken.
ChargeNothing(t) ==
    /\ at[t] = "charge"
    /\ EndBill(t, TRUE)
    /\ UNCHANGED <<counters, account, history>>

\* PostConsumeQuota takes the quota...
Charge(t) ==
    /\ at[t] = "charge"
    /\ wallet' = wallet - bill[t].amount
    /\ finished' = IF t = "reader" /\ bill[t].counter = "usage" /\ at.main = "select"
                   THEN finished + bill[t].amount ELSE finished
    /\ EndBill(t, TRUE)
    /\ UNCHANGED <<counters, quota, received, reported, refused>>

\* ...or fails, at the wallet or after it at the token.
ChargeFails(t) ==
    /\ at[t] = "charge"
    /\ wallet' \in {wallet, wallet - bill[t].amount}
    /\ Refuse(t)
    /\ UNCHANGED <<counters, quota>>

-----------------------------------------------------------------------------
(* Reader of the provider's messages *)

\* A part of a response is counted, or a response that is done without a usage: it
\* loads the counter...
ReaderCounts(n, next) ==
    /\ at.reader = "read" /\ received < MaxMessages
    /\ Load("reader", n)
    /\ at' = [at EXCEPT !.reader = next]
    /\ received' = received + 1
    /\ UNCHANGED <<objects, sumUsage, account, bill, reported, finished, refused>>

OutputDelta(n) == ReaderCounts(n, "delta")
ResponseUnreported(n) == ReaderCounts(n, "unreported")

\* ...and stores it.
DeltaStore ==
    /\ at.reader = "delta"
    /\ Store("reader")
    /\ at' = [at EXCEPT !.reader = "read"]
    /\ UNCHANGED <<sumUsage, account, bill, history>>

\* What was counted is charged.
UnreportedStore ==
    /\ at.reader = "unreported"
    /\ Store("reader")
    /\ StartBill("reader", "localUsage", Pointer("localUsage"))
    /\ UNCHANGED <<sumUsage, account, history>>

\* A response is done and reports its usage, which only the reader writes.
ResponseDone(n) ==
    /\ at.reader = "read" /\ received < MaxMessages
    /\ objects' = [objects EXCEPT !["usage"][Pointer("usage")] = @ + n]
    /\ received' = received + 1 /\ reported' = reported + n
    /\ StartBill("reader", "usage", Pointer("usage"))
    /\ UNCHANGED <<adding, sumUsage, account, finished, refused>>

\* The counters are replaced by fresh ones, usage first.
ClearUsage ==
    /\ at.reader = "clearUsage"
    /\ Replace("usage")
    /\ at' = [at EXCEPT !.reader = "clearLocal"]
    /\ UNCHANGED <<adding, sumUsage, account, bill, history>>

ClearLocal ==
    /\ at.reader = "clearLocal"
    /\ Replace("localUsage")
    /\ at' = [at EXCEPT !.reader = "read"]
    /\ UNCHANGED <<adding, sumUsage, account, bill, history>>

-----------------------------------------------------------------------------
(* The handler *)

\* A connection is closed, or a reader reports an error.
Wake ==
    /\ at.main = "select"
    /\ at' = [at EXCEPT !.main = "testUsage"]
    /\ UNCHANGED <<counters, account, bill, history>>

\* usage is tested...
TestUsage ==
    /\ at.main = "testUsage"
    /\ at' = [at EXCEPT !.main = IF Latest("usage") # 0 THEN "flushUsage" ELSE "testLocal"]
    /\ UNCHANGED <<counters, account, bill, history>>

\* ...and billed, whatever it points to by then.
FlushUsage ==
    /\ at.main = "flushUsage"
    /\ StartBill("main", "usage", Pointer("usage"))
    /\ UNCHANGED <<counters, account, history>>

TestLocal ==
    /\ at.main = "testLocal"
    /\ at' = [at EXCEPT !.main = IF Latest("localUsage") # 0 THEN "flushLocal" ELSE "settle"]
    /\ UNCHANGED <<counters, account, bill, history>>

FlushLocal ==
    /\ at.main = "flushLocal"
    /\ StartBill("main", "localUsage", Pointer("localUsage"))
    /\ UNCHANGED <<counters, account, history>>

\* PostWssConsumeQuota computes the quota of the sum...
PostWssConsumeQuota ==
    /\ at.main = "settle"
    /\ bill' = [bill EXCEPT !["main"] = [NoBill EXCEPT !.amount = sumUsage]]
    /\ at' = [at EXCEPT !.main = "settling"]
    /\ UNCHANGED <<counters, account, history>>

\* ...and settles the session for it, which may fail.
SettleBilling ==
    /\ at.main = "settling"
    /\ wallet' \in {wallet, wallet - (bill["main"].amount - Hold)}
    /\ at' = [at EXCEPT !.main = "settled"]
    /\ UNCHANGED <<counters, quota, bill, history>>

\* WssHelper returns and closes the connections.
Close ==
    /\ at.main = "settled"
    /\ at' = [at EXCEPT !.main = "closed"]
    /\ UNCHANGED <<counters, account, bill, history>>

Bill(t) == AddLoad(t) \/ AddStore(t) \/ Lookup(t) \/ Check(t) \/ Charge(t) \/ ChargeFails(t)

Reader == DeltaStore \/ UnreportedStore \/ ClearUsage \/ ClearLocal \/ Bill("reader")

Main ==
    \/ TestUsage \/ FlushUsage \/ TestLocal \/ FlushLocal
    \/ PostWssConsumeQuota \/ SettleBilling \/ Close \/ Bill("main")

RealtimeNext ==
    \/ ClientStore \/ Reader \/ Main \/ Wake
    \/ \E n \in Amounts :
           /\ at.main # "closed"
           /\ ClientMessage(n) \/ OutputDelta(n) \/ ResponseDone(n) \/ ResponseUnreported(n)

RealtimeSpec == RealtimeInit /\ [][RealtimeNext]_realtimeVars

\* The threads run, and a reader that stopped wakes the handler.
RealtimeFairSpec ==
    /\ RealtimeSpec
    /\ WF_realtimeVars(ClientStore) /\ WF_realtimeVars(Reader) /\ WF_realtimeVars(Main)
    /\ WF_realtimeVars(at.reader = "stopped" /\ Wake)

-----------------------------------------------------------------------------
(* Properties *)

BillSteps == {"add", "store", "lookup", "check", "charge"}
ReaderSteps == BillSteps \union {"read", "delta", "unreported", "clearUsage", "clearLocal", "stopped"}
MainSteps == BillSteps \union {"select", "testUsage", "flushUsage", "testLocal", "flushLocal",
                               "settle", "settling", "settled", "closed"}

\* Type invariant of the counters, the bills and the threads; what is being added or
\* billed is an object of its counter.
RealtimeTypeOK ==
    /\ objects \in [Counters -> Seq(Nat)]
    /\ \A c \in Counters : objects[c] # <<>>
    /\ adding \in [{"client", "reader"} -> [object : 0 .. Pointer("localUsage"), total : Nat]]
    /\ {sumUsage, quota, received, reported, finished} \subseteq Nat
    /\ wallet \in Int
    /\ at \in [reader : ReaderSteps, main : MainSteps]
    /\ bill \in [Threads -> [counter : Counters, object : Nat, seen : Nat, counted : Nat, userQuota : Int, amount : Nat]]
    /\ \A t \in Threads : bill[t].object \in 1 .. Pointer(bill[t].counter)
    /\ refused \in BOOLEAN

Quiet == at.main = "closed" /\ at.reader \in {"read", "stopped"} /\ adding["client"] = NoAdd
Paid == quota - wallet

\* Whatever updates of the sum the reader and the handler lose to each other
\* (totalUsage += in preConsumeUsage), the settlement asks for every reported usage
\* that the reader charged before a connection ended.  It says nothing of what was
\* counted here: a bill of localUsage may be charged for more than was summed.
SettlementCovers ==
    RealtimeTypeOK /\ (at.main \in {"settling", "settled", "closed"} => bill["main"].amount >= finished)

\* The usage the provider reports is paid, also for a response that is done while
\* the session is settled, and if the settlement fails, unless a charge was refused
\* or failed.
NothingFree == Quiet /\ ~refused => Paid >= reported

\* A refused charge ends the session.
RefusedEnds == refused ~> at.main = "closed"
=============================================================================
