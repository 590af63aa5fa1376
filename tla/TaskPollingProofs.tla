------------------------- MODULE TaskPollingProofs -------------------------
(***************************************************************************)
(* Proofs about TaskPolling, for any number of tasks, polling processes    *)
(* and user requests, any amounts and any number of failing statements and *)
(* crashes: an ended task stays ended, its outcome is charged exactly, and *)
(* no task is refunded more than it was charged.                           *)
(***************************************************************************)
EXTENDS TaskPolling, FiniteSetTheorems, TLAPS

-----------------------------------------------------------------------------
(* The inductive invariant *)

Submitted == DOMAIN setting.channelOf

\* The local state of a loop: it works on rows it loaded in an active status, it has
\* a batch only while it polls, and what it bills is a task of the kind its step says.
RecordSound(p, v) ==
    /\ v.pc = "idle" => v.todo = {} /\ v.batch = {}
    /\ v.pc # "idle" => p \in setting.loops
    /\ \A t \in v.todo \cup v.batch : t \in Submitted /\ v.seen[t] \in ActiveStatuses
    /\ v.todo \cap v.batch = {}
    /\ v.pc = "sweep" => v.batch = {} /\ (v.todo # {} => setting.timeout)
    /\ v.pc \in BillingSteps =>
         /\ v.cur \in Submitted
         /\ v.back \in {"sweep", "poll", "save"}
         /\ v.back = "sweep" => v.batch = {} /\ (v.todo # {} => setting.timeout)
         /\ v.back = "poll" => ~IsSuno(v.cur)
         /\ v.back = "save" => IsSuno(v.cur) /\ v.cur \in v.batch /\ v.resp[v.cur] # None
    /\ v.pc = "save" => v.back = "save"

LoopSound(p) == RecordSound(p, poller[p])

\* A user's request is for a task of a Gemini or Vertex channel.
FetchSound(f) ==
    /\ fetcher[f].task = None => fetcher[f].resp = None
    /\ fetcher[f].task # None =>
         /\ f \in setting.fetchers /\ fetcher[f].task \in Submitted
         /\ ChannelOf(fetcher[f].task) \in RealtimeChannels
         /\ fetcher[f].seen # None

\* Where nothing but the provider's word ends a task, whatever says it has ended
\* agrees with the provider.
Agrees(t) ==
    ~(setting.timeout \/ setting.vanish \/ setting.errors) /\ ChannelOf(t) \in RealtimeChannels =>
        /\ status[t] \in Terminal => upstream[t] = status[t]
        /\ \A p \in Pollers : poller[p].resp[t] \in Terminal => upstream[t] = poller[p].resp[t]
        /\ \A f \in Fetchers : fetcher[f].task = t =>
             /\ fetcher[f].resp \in Terminal => upstream[t] = fetcher[f].resp
             /\ fetcher[f].seen \in Terminal =>
                  upstream[t] = fetcher[f].seen /\ fetcher[f].resp \in {None, fetcher[f].seen}

\* The only loop that polls a Suno task has it in an active status until it is done.
Alone(t) ==
    IsSuno(t) => \A p \in Pollers :
        t \in poller[p].todo \cup poller[p].batch => status[t] \in ActiveStatuses

\* The charges of task t while the loop with local state v bills it.
Booked(t, v) ==
    /\ v.pc = "fund" => fund[t] = Quota[t]
    /\ v.pc = "token" => fund[t] = Quota[t] + v.delta
    /\ v.pc \in {"fund", "token"} =>
         /\ token[t] = Quota[t] /\ Quota[t] + v.delta >= 0
         /\ v.back = "save" => v.delta = -Quota[t] /\ v.resp[t] = "FAILURE"
         /\ v.back # "save" /\ t \notin silent => Quota[t] + v.delta = Owed(t)
    /\ v.pc = "save" =>
         /\ fund[t] = IF v.resp[t] = "FAILURE" THEN 0 ELSE Quota[t]
         /\ token[t] = fund[t]

\* The charges of task t while nobody bills it.
Unbilled(t) ==
    /\ status[t] \in ActiveStatuses => fund[t] = Quota[t] /\ token[t] = Quota[t]
    /\ status[t] \in Terminal =>
         /\ fund[t] >= 0 /\ token[t] >= 0
         /\ Clean(t) /\ t \notin silent => fund[t] = Owed(t) /\ token[t] = Owed(t)

\* The charges of a task at every step of its billing.  Of a Suno task nothing is
\* claimed after a failing statement: its refund may be repeated.
Accounts(t) ==
    /\ \A p, q \in Pollers : Billing(p, t) /\ Billing(q, t) => p = q
    /\ status[t] = None =>
         /\ fund[t] \in {0, Quota[t]} /\ token[t] = fund[t]
         /\ \A p \in Pollers : ~Billing(p, t)
    /\ IsSuno(t) /\ status[t] # None => due[t] = Quota[t]
    /\ \A p \in Pollers : Billing(p, t) /\ poller[p].back # "save" => status[t] \in Terminal
    /\ (IsSuno(t) => Clean(t)) =>
         /\ \A p \in Pollers : Billing(p, t) => Booked(t, poller[p])
         /\ (\A p \in Pollers : ~Billing(p, t)) => Unbilled(t)

\* The rows, and the local states of the loops and of the users' requests.
ShapeInv ==
    /\ TypeOK
    /\ \A t \in Tasks : status[t] # None => t \in Submitted
    /\ \A p \in Pollers : LoopSound(p)
    /\ \A f \in Fetchers : FetchSound(f)

TaskInv ==
    /\ ShapeInv
    /\ \A t \in OrderedTasks : Agrees(t) /\ Alone(t) /\ Accounts(t)
-----------------------------------------------------------------------------
(* What the steps have in common *)

LEMMA SettingFacts ==
    ASSUME setting' = setting
    PROVE  /\ Submitted' = Submitted /\ OrderedTasks' = OrderedTasks
           /\ \A t : (IsSuno(t)' <=> IsSuno(t)) /\ ChannelOf(t)' = ChannelOf(t)
  BY DEF Submitted, OrderedTasks, Ordered, IsSuno, ChannelOf

LEMMA OrderedIsTask ==
    ASSUME ShapeInv
    PROVE  Submitted \subseteq Tasks /\ OrderedTasks \subseteq Submitted /\ OrderedTasks \subseteq Tasks
  BY TaskSettingsAssumption DEF ShapeInv, TypeOK, Submitted, OrderedTasks

LEMMA NotNone ==
    /\ None \notin ActiveStatuses /\ None \notin Terminal /\ None \notin Statuses
    /\ ActiveStatuses \cap Terminal = {} /\ ActiveStatuses \subseteq Statuses
    /\ Statuses = ActiveStatuses \cup Terminal /\ "NOT_START" \in ActiveStatuses
    /\ "SUCCESS" \notin ActiveStatuses /\ "FAILURE" \notin ActiveStatuses
  BY StatusAssumption DEF None, Terminal, Statuses

\* A process that polls Suno tasks in order is the only one that polls.
LEMMA SunoLoop ==
    ASSUME ShapeInv, NEW t \in OrderedTasks, IsSuno(t), NEW p \in setting.loops,
           NEW q \in Pollers, q # p
    PROVE  /\ poller[q].pc = "idle" /\ poller[q].todo = {} /\ poller[q].batch = {}
           /\ ~Billing(q, t)
  <1>1. setting.loops \subseteq Pollers
    BY TaskSettingsAssumption DEF ShapeInv, TypeOK
  <1>2. IsFiniteSet(setting.loops)
    BY <1>1, FiniteAssumption, FS_Subset
  <1>3. Cardinality(setting.loops) = 1
    BY DEF OrderedTasks, Ordered
  <1>4. q \notin setting.loops
    <2>1. PICK x : setting.loops = {x}
      BY <1>2, <1>3, FS_Singleton
    <2>2. QED
      BY <2>1
  <1>5. QED
    BY <1>4 DEF ShapeInv, LoopSound, RecordSound, Billing, BillingSteps

\* Somebody bills t in a step that does not save.
LEMMA BillerKnown ==
    ASSUME TaskInv, NEW t \in OrderedTasks, NEW q \in Pollers, Billing(q, t)
    PROVE  /\ poller[q].cur = t /\ q \in setting.loops
           /\ poller[q].back = "save" => IsSuno(t) /\ poller[q].resp[t] # None
                                           /\ status[t] \in ActiveStatuses
           /\ poller[q].back # "save" => status[t] \in Terminal /\ poller[q].pc \in {"fund", "token"}
  <1>1. LoopSound(q) /\ Accounts(t) /\ Alone(t)
    BY DEF TaskInv, ShapeInv
  <1>2. QED
    BY <1>1 DEF LoopSound, RecordSound, Billing, BillingSteps, Accounts, Alone

\* Nobody bills a task that is active, but for the loop that saves a Suno task.
LEMMA ActiveUnbilled ==
    ASSUME TaskInv, NEW t \in OrderedTasks, status[t] \notin Terminal,
           NEW p \in Pollers, p \in setting.loops, ~Billing(p, t)
    PROVE  /\ \A q \in Pollers : ~Billing(q, t)
           /\ status[t] \in ActiveStatuses /\ (IsSuno(t) => Clean(t)) =>
                fund[t] = Quota[t] /\ token[t] = Quota[t]
  <1>1. ASSUME NEW q \in Pollers, Billing(q, t) PROVE FALSE
    <2>1. q # p
      BY <1>1
    <2>2. ~IsSuno(t)
      BY <1>1, <2>1, SunoLoop DEF TaskInv
    <2>3. QED
      BY <1>1, <2>2, BillerKnown
  <1>2. QED
    BY <1>1 DEF TaskInv, Accounts, Unbilled

\* The charges of a task that a step does not concern.
LEMMA AccountsFrame ==
    ASSUME NEW t, Accounts(t), setting' = setting, status'[t] = status[t],
           fund'[t] = fund[t], token'[t] = token[t], due'[t] = due[t],
           Clean(t)' => Clean(t), t \in silent => t \in silent',
           \A p \in Pollers : /\ Billing(p, t)' <=> Billing(p, t)
                              /\ Billing(p, t) => poller'[p] = poller[p]
    PROVE  Accounts(t)'
  <1>1. (IsSuno(t)' <=> IsSuno(t)) /\ Owed(t)' = Owed(t)
    BY SettingFacts DEF Owed
  <1>2. \A p, q \in Pollers : Billing(p, t)' /\ Billing(q, t)' => p = q
    BY DEF Accounts
  <1>3. status'[t] = None =>
         /\ fund'[t] \in {0, Quota[t]} /\ token'[t] = fund'[t]
         /\ \A p \in Pollers : ~Billing(p, t)'
    BY DEF Accounts
  <1>4. IsSuno(t)' /\ status'[t] # None => due'[t] = Quota[t]
    BY <1>1 DEF Accounts
  <1>5. \A p \in Pollers : Billing(p, t)' /\ poller'[p].back # "save" => status'[t] \in Terminal
    BY DEF Accounts
  <1>6. ASSUME IsSuno(t)' => Clean(t)', NEW p \in Pollers, Billing(p, t)'
        PROVE  Booked(t, poller[p])'
    <2>1. Booked(t, poller[p]) /\ poller'[p] = poller[p]
      BY <1>1, <1>6 DEF Accounts
    <2>2. QED
      BY <1>1, <2>1 DEF Booked
  <1>7. ASSUME IsSuno(t)' => Clean(t)', \A p \in Pollers : ~Billing(p, t)'
        PROVE  Unbilled(t)'
    <2>1. Unbilled(t)
      BY <1>1, <1>7 DEF Accounts
    <2>2. QED
      BY <1>1, <2>1 DEF Unbilled
  <1>8. QED
    BY <1>2, <1>3, <1>4, <1>5, <1>6, <1>7 DEF Accounts

\* A loop takes a step.
LEMMA LoopUpdate ==
    ASSUME ShapeInv, NEW p \in Pollers, NEW v \in PollerType, poller' = [poller EXCEPT ![p] = v]
    PROVE  /\ poller' \in [Pollers -> PollerType] /\ poller'[p] = v
           /\ \A q \in Pollers : q # p => poller'[q] = poller[q]
           /\ \A q \in Pollers : q # p => \A t : (Billing(q, t)' <=> Billing(q, t))
           /\ \A t : Billing(p, t)' <=> (v.pc \in BillingSteps /\ v.cur = t)
  <1>1. poller \in [Pollers -> PollerType]
    BY DEF ShapeInv, TypeOK
  <1>2. QED
    BY <1>1 DEF Billing

\* The charges of a task that a step of loop p does not concern.
LEMMA AccountsApart ==
    ASSUME TaskInv, NEW t \in OrderedTasks, NEW p \in Pollers, NEW v \in PollerType,
           poller' = [poller EXCEPT ![p] = v], setting' = setting, status'[t] = status[t],
           fund'[t] = fund[t], token'[t] = token[t], due'[t] = due[t],
           Clean(t)' => Clean(t), t \in silent => t \in silent',
           ~Billing(p, t), ~(v.pc \in BillingSteps /\ v.cur = t)
    PROVE  Accounts(t)'
  <1>1. \A q \in Pollers : /\ Billing(q, t)' <=> Billing(q, t)
                           /\ Billing(q, t) => poller'[q] = poller[q]
    <2>1. /\ \A q \in Pollers : q # p => poller'[q] = poller[q]
          /\ \A q \in Pollers : q # p => (Billing(q, t)' <=> Billing(q, t))
          /\ ~Billing(p, t)'
      BY LoopUpdate DEF TaskInv
    <2>2. QED
      BY <2>1
  <1>2. Accounts(t)
    BY DEF TaskInv
  <1>3. QED
    BY <1>1, <1>2, AccountsFrame

\* What a step of loop p has to show for the whole invariant.
LEMMA LoopStep ==
    ASSUME TaskInv, NEW p \in Pollers, p \in setting.loops, NEW v \in PollerType,
           poller' = [poller EXCEPT ![p] = v],
           UNCHANGED <<setting, upstream, timedOut, fetcher>>,
           status' \in [Tasks -> Statuses \cup {None}], complete' \in [Tasks -> BOOLEAN],
           fund' \in [Tasks -> Int], token' \in [Tasks -> Int], due' \in [Tasks -> Int],
           silent' \subseteq Tasks, faults' \in [Tasks -> 0..MaxFaults], crashes' \in 0..MaxCrashes,
           \A t \in Tasks : status'[t] # None => t \in Submitted,
           RecordSound(p, v),
           \A t \in OrderedTasks :
               /\ ~(setting.timeout \/ setting.vanish \/ setting.errors)
                    /\ ChannelOf(t) \in RealtimeChannels =>
                      /\ status'[t] \in Terminal => status'[t] = status[t] \/ status'[t] = upstream[t]
                      /\ v.resp[t] \in Terminal => v.resp[t] = poller[p].resp[t] \/ v.resp[t] = upstream[t]
               /\ IsSuno(t) /\ t \in v.todo \cup v.batch => status'[t] \in ActiveStatuses
               /\ Accounts(t)'
    PROVE  TaskInv'
  <1>1. /\ Submitted' = Submitted /\ OrderedTasks' = OrderedTasks
        /\ \A t : (IsSuno(t)' <=> IsSuno(t)) /\ ChannelOf(t)' = ChannelOf(t)
    BY SettingFacts
  <1>2. /\ poller' \in [Pollers -> PollerType] /\ poller'[p] = v
        /\ \A q \in Pollers : q # p => poller'[q] = poller[q]
    BY LoopUpdate DEF TaskInv
  <1>3. TypeOK'
    BY <1>2 DEF TaskInv, ShapeInv, TypeOK
  <1>4. \A q, w : RecordSound(q, w)' <=> RecordSound(q, w)
    BY <1>1 DEF RecordSound
  <1>5. ASSUME NEW q \in Pollers PROVE LoopSound(q)'
    <2>1. RecordSound(q, poller'[q])
      BY <1>2 DEF TaskInv, ShapeInv, LoopSound
    <2>2. QED
      BY <1>1, <2>1 DEF LoopSound, RecordSound
  <1>6. ASSUME NEW f \in Fetchers PROVE FetchSound(f)'
    BY <1>1 DEF TaskInv, ShapeInv, FetchSound
  <1>7. ShapeInv'
    BY <1>1, <1>3, <1>5, <1>6 DEF ShapeInv
  <1>8. ASSUME NEW t \in OrderedTasks PROVE Agrees(t)'
    <2> SUFFICES ASSUME ~(setting.timeout \/ setting.vanish \/ setting.errors),
                        ChannelOf(t) \in RealtimeChannels
                 PROVE  Agrees(t)'
      BY <1>1 DEF Agrees
    <2>1. /\ status[t] \in Terminal => upstream[t] = status[t]
          /\ \A q \in Pollers : poller[q].resp[t] \in Terminal => upstream[t] = poller[q].resp[t]
          /\ \A f \in Fetchers : fetcher[f].task = t =>
               /\ fetcher[f].resp \in Terminal => upstream[t] = fetcher[f].resp
               /\ fetcher[f].seen \in Terminal =>
                    upstream[t] = fetcher[f].seen /\ fetcher[f].resp \in {None, fetcher[f].seen}
      BY DEF TaskInv, Agrees
    <2>2. \A q \in Pollers : poller'[q].resp[t] \in Terminal => upstream[t] = poller'[q].resp[t]
      BY <1>2, <2>1
    <2>3. status'[t] \in Terminal => upstream[t] = status'[t]
      BY <2>1
    <2>4. QED
      BY <2>1, <2>2, <2>3 DEF Agrees
  <1>9. ASSUME NEW t \in OrderedTasks PROVE Alone(t)'
    <2> SUFFICES ASSUME IsSuno(t), NEW q \in Pollers, t \in poller'[q].todo \cup poller'[q].batch
                 PROVE  status'[t] \in ActiveStatuses
      BY <1>1 DEF Alone
    <2>1. q = p
      BY <1>2, SunoLoop DEF TaskInv
    <2>2. QED
      BY <1>2, <2>1
  <1>10. QED
    BY <1>1, <1>7, <1>8, <1>9 DEF TaskInv

\* What a loop's local state looks like.
LEMMA Local ==
    ASSUME TaskInv, NEW p \in Pollers, NEW r, r = poller[p]
    PROVE  /\ poller \in [Pollers -> PollerType] /\ r \in PollerType
           /\ r.pc \in {"idle", "sweep", "poll"} \cup BillingSteps
           /\ r.todo \subseteq Tasks /\ r.batch \subseteq Tasks
           /\ r.seen \in [Tasks -> ActiveStatuses \cup {None}]
           /\ r.resp \in [Tasks -> Statuses \cup {None}]
           /\ r.cur \in Tasks \cup {None} /\ r.delta \in Int
           /\ r.back \in {"idle", "sweep", "poll", "save"}
           /\ RecordSound(p, r) /\ (r.pc # "idle" => p \in setting.loops)
  <1>1. poller \in [Pollers -> PollerType] /\ RecordSound(p, r)
    BY DEF TaskInv, ShapeInv, TypeOK, LoopSound
  <1>2. r \in PollerType
    BY <1>1
  <1>3. QED
    BY <1>1, <1>2 DEF PollerType, RecordSound

\* A step of loop p that neither bills nor writes.
LEMMA QuietStep ==
    ASSUME TaskInv, NEW p \in Pollers, p \in setting.loops, NEW v \in PollerType,
           poller' = [poller EXCEPT ![p] = v],
           UNCHANGED <<rows, env, fetcher, charges, silent, fails>>,
           poller[p].pc \notin BillingSteps, v.pc \notin BillingSteps,
           RecordSound(p, v),
           \A t \in OrderedTasks :
               /\ ~(setting.timeout \/ setting.vanish \/ setting.errors) =>
                      (v.resp[t] \in Terminal => v.resp[t] = poller[p].resp[t] \/ v.resp[t] = upstream[t])
               /\ IsSuno(t) /\ t \in v.todo \cup v.batch => status[t] \in ActiveStatuses
    PROVE  TaskInv'
  <1>1. UNCHANGED <<setting, upstream, timedOut, fetcher, status, complete, fund, token, due,
                    silent, faults, crashes>>
    BY DEF rows, env, charges, fails
  <1>2. ASSUME NEW t \in OrderedTasks PROVE Accounts(t)'
    <2>1. ~Billing(p, t) /\ (Clean(t)' <=> Clean(t))
      BY <1>1 DEF Billing, Clean
    <2>2. QED
      BY <1>1, <2>1, AccountsApart
  <1>3. TypeOK /\ \A t \in Tasks : status[t] # None => t \in Submitted
    BY DEF TaskInv, ShapeInv
  <1>4. /\ status' \in [Tasks -> Statuses \cup {None}] /\ complete' \in [Tasks -> BOOLEAN]
        /\ fund' \in [Tasks -> Int] /\ token' \in [Tasks -> Int] /\ due' \in [Tasks -> Int]
        /\ silent' \subseteq Tasks /\ faults' \in [Tasks -> 0..MaxFaults]
        /\ crashes' \in 0..MaxCrashes
        /\ \A t \in Tasks : status'[t] # None => t \in Submitted
    BY <1>1, <1>3 DEF TypeOK
  <1>5. \A t \in OrderedTasks :
          /\ ~(setting.timeout \/ setting.vanish \/ setting.errors)
               /\ ChannelOf(t) \in RealtimeChannels =>
                 /\ status'[t] \in Terminal => status'[t] = status[t] \/ status'[t] = upstream[t]
                 /\ v.resp[t] \in Terminal => v.resp[t] = poller[p].resp[t] \/ v.resp[t] = upstream[t]
          /\ IsSuno(t) /\ t \in v.todo \cup v.batch => status'[t] \in ActiveStatuses
          /\ Accounts(t)'
    BY <1>1, <1>2
  <1>6. QED
    BY <1>1, <1>4, <1>5, LoopStep

-----------------------------------------------------------------------------
(* The steps of a loop that only change its local state *)

LEMMA LoadTimedOutKeeps ==
    ASSUME TaskInv, NEW p \in Pollers, LoadTimedOut(p) PROVE TaskInv'
  <1>1. PICK r : r = poller[p]
    OBVIOUS
  <1>2. PICK ts : ts = {t \in Tasks : setting.timeout /\ Unfinished(t) /\ timedOut[t]}
    OBVIOUS
  <1>3. PICK seen : seen = [t \in Tasks |-> IF t \in ts THEN status[t] ELSE None]
    OBVIOUS
  <1>4. PICK v : v = [r EXCEPT !.pc = "sweep", !.todo = ts, !.seen = seen]
    OBVIOUS
  <1>5. poller' = [poller EXCEPT ![p] = v] /\ r.pc = "idle" /\ p \in setting.loops
    BY <1>1, <1>2, <1>3, <1>4, Local DEF LoadTimedOut, Load
  <1>6. \A t \in ts : t \in Submitted /\ setting.timeout /\ status[t] \in ActiveStatuses
    BY <1>2, NotNone DEF TaskInv, ShapeInv, Unfinished
  <1>7. ts \subseteq Tasks /\ seen \in [Tasks -> ActiveStatuses \cup {None}]
    BY <1>2, <1>3, <1>6
  <1>8. /\ v \in PollerType /\ v.pc = "sweep" /\ v.todo = ts /\ v.seen = seen
        /\ v.batch = r.batch /\ v.resp = r.resp
    <2>1. r \in PollerType
      BY <1>1, Local
    <2>2. QED
      BY <2>1, <1>4, <1>7 DEF PollerType
  <1>9. r.batch = {}
    BY <1>1, <1>5, Local DEF RecordSound
  <1>10. RecordSound(p, v)
    BY <1>3, <1>5, <1>6, <1>7, <1>8, <1>9 DEF RecordSound, BillingSteps
  <1>11. v.pc \notin BillingSteps /\ r.pc \notin BillingSteps
    BY <1>5, <1>8 DEF BillingSteps
  <1>12. QED
    BY <1>1, <1>5, <1>6, <1>8, <1>9, <1>10, <1>11, QuietStep DEF LoadTimedOut

LEMMA LoadUnfinishedKeeps ==
    ASSUME TaskInv, NEW p \in Pollers, LoadUnfinished(p) PROVE TaskInv'
  <1>1. PICK r : r = poller[p]
    OBVIOUS
  <1>2. PICK ts : ts = {t \in Tasks : Unfinished(t)}
    OBVIOUS
  <1>3. PICK seen : seen = [t \in Tasks |-> IF t \in ts THEN status[t] ELSE None]
    OBVIOUS
  <1>4. PICK v : v = [r EXCEPT !.pc = "poll", !.todo = ts, !.seen = seen]
    OBVIOUS
  <1>5. poller' = [poller EXCEPT ![p] = v] /\ r.pc = "sweep" /\ p \in setting.loops
    BY <1>1, <1>2, <1>3, <1>4, Local DEF LoadUnfinished, Load
  <1>6. \A t \in ts : t \in Submitted /\ status[t] \in ActiveStatuses
    BY <1>2, NotNone DEF TaskInv, ShapeInv, Unfinished
  <1>7. ts \subseteq Tasks /\ seen \in [Tasks -> ActiveStatuses \cup {None}]
    BY <1>2, <1>3, <1>6
  <1>8. /\ v \in PollerType /\ v.pc = "poll" /\ v.todo = ts /\ v.seen = seen
        /\ v.batch = r.batch /\ v.resp = r.resp
    <2>1. r \in PollerType
      BY <1>1, Local
    <2>2. QED
      BY <2>1, <1>4, <1>7 DEF PollerType
  <1>9. r.batch = {}
    BY <1>1, <1>5, Local DEF RecordSound
  <1>10. RecordSound(p, v)
    BY <1>3, <1>5, <1>6, <1>7, <1>8, <1>9 DEF RecordSound, BillingSteps
  <1>11. v.pc \notin BillingSteps /\ r.pc \notin BillingSteps
    BY <1>5, <1>8 DEF BillingSteps
  <1>12. QED
    BY <1>1, <1>5, <1>6, <1>8, <1>9, <1>10, <1>11, QuietStep DEF LoadUnfinished

LEMMA OpenChannelKeeps ==
    ASSUME TaskInv, NEW p \in Pollers, NEW c, OpenChannel(p, c) PROVE TaskInv'
  <1>1. PICK r : r = poller[p]
    OBVIOUS
  <1>2. PICK ts : ts = ToDo(p, c)
    OBVIOUS
  <1>3. PICK v : v = [r EXCEPT !.batch = ts, !.todo = @ \ ts]
    OBVIOUS
  <1>4. /\ poller' = [poller EXCEPT ![p] = v] /\ r.pc = "poll" /\ r.batch = {}
        /\ p \in setting.loops
    BY <1>1, <1>2, <1>3, Local DEF OpenChannel, Between
  <1>5. ts \subseteq r.todo
    BY <1>1, <1>2 DEF ToDo
  <1>6. /\ v \in PollerType /\ v.pc = "poll" /\ v.todo = r.todo \ ts /\ v.batch = ts
        /\ v.seen = r.seen /\ v.resp = r.resp
    <2>1. r \in PollerType
      BY <1>1, Local
    <2>2. QED
      BY <2>1, <1>3, <1>4, <1>5 DEF PollerType
  <1>7. RecordSound(p, v)
    BY <1>1, <1>4, <1>5, <1>6, Local DEF RecordSound, BillingSteps
  <1>8. v.pc \notin BillingSteps /\ r.pc \notin BillingSteps
    BY <1>4, <1>6 DEF BillingSteps
  <1>9. ASSUME NEW t \in OrderedTasks, IsSuno(t), t \in v.todo \cup v.batch
        PROVE  status[t] \in ActiveStatuses
    BY <1>1, <1>5, <1>6, <1>9 DEF TaskInv, Alone
  <1>10. QED
    BY <1>1, <1>4, <1>6, <1>7, <1>8, <1>9, QuietStep DEF OpenChannel

LEMMA FetchVideoKeeps ==
    ASSUME TaskInv, NEW p \in Pollers, NEW t \in Tasks, FetchVideo(p, t) PROVE TaskInv'
  <1>1. PICK r : r = poller[p]
    OBVIOUS
  <1>2. r.pc = "poll" /\ t \in r.batch /\ p \in setting.loops
    BY <1>1, Local DEF FetchVideo, Waiting
  <1>3. r.pc \notin BillingSteps
    BY <1>2 DEF BillingSteps
  <1>4. ASSUME NEW u \in OrderedTasks, IsSuno(u), u \in r.todo \cup r.batch
        PROVE  status[u] \in ActiveStatuses
    BY <1>1, <1>4 DEF TaskInv, Alone
  <1>5. ASSUME NEW a \in Answers(t), poller' = [poller EXCEPT ![p].resp[t] = a] PROVE TaskInv'
    <2>1. PICK v : v = [r EXCEPT !.resp[t] = a]
      OBVIOUS
    <2>2. a \in Statuses
      BY DEF Answers, TaskInv, ShapeInv, TypeOK, Statuses, Terminal
    <2>3. PICK f : f = [r.resp EXCEPT ![t] = a]
      OBVIOUS
    <2>4. f \in [Tasks -> Statuses \cup {None}]
      BY <1>1, <2>2, <2>3, Local
    <2>5. poller' = [poller EXCEPT ![p] = v]
      BY <1>1, <1>5, <2>1, Local
    <2>6. /\ v \in PollerType /\ v.pc = "poll" /\ v.todo = r.todo /\ v.batch = r.batch
          /\ v.seen = r.seen /\ v.resp = f
      <3>1. r \in PollerType
        BY <1>1, Local
      <3>2. QED
        BY <3>1, <1>2, <2>1, <2>3, <2>4 DEF PollerType
    <2>7. RecordSound(p, v)
      BY <1>1, <1>2, <2>6, Local DEF RecordSound, BillingSteps
    <2>8. v.pc \notin BillingSteps
      BY <2>6 DEF BillingSteps
    <2>9. ASSUME NEW u \in OrderedTasks, ~(setting.timeout \/ setting.vanish \/ setting.errors)
          PROVE  v.resp[u] = r.resp[u] \/ v.resp[u] = upstream[u]
      BY <1>1, <2>3, <2>6, <2>9, Local, OrderedIsTask DEF Answers, TaskInv
    <2>10. \A u \in OrderedTasks :
             /\ ~(setting.timeout \/ setting.vanish \/ setting.errors) =>
                  (v.resp[u] \in Terminal => v.resp[u] = poller[p].resp[u] \/ v.resp[u] = upstream[u])
             /\ IsSuno(u) /\ u \in v.todo \cup v.batch => status[u] \in ActiveStatuses
      BY <1>1, <1>4, <2>6, <2>9
    <2>11. UNCHANGED <<rows, env, fetcher, charges, silent, fails>>
      BY DEF FetchVideo
    <2>12. QED
      BY <1>1, <1>2, <1>3, <2>5, <2>6, <2>7, <2>8, <2>10, <2>11, QuietStep
  <1>6. ASSUME poller' = [poller EXCEPT ![p].batch = @ \ {t}] PROVE TaskInv'
    <2>1. PICK v : v = [r EXCEPT !.batch = @ \ {t}]
      OBVIOUS
    <2>2. poller' = [poller EXCEPT ![p] = v]
      BY <1>1, <1>6, <2>1, Local
    <2>3. /\ v \in PollerType /\ v.pc = "poll" /\ v.todo = r.todo /\ v.batch = r.batch \ {t}
          /\ v.seen = r.seen /\ v.resp = r.resp
      <3>1. r \in PollerType
        BY <1>1, Local
      <3>2. QED
        BY <3>1, <1>2, <2>1 DEF PollerType
    <2>4. RecordSound(p, v)
      BY <1>1, <1>2, <2>3, Local DEF RecordSound, BillingSteps
    <2>5. v.pc \notin BillingSteps
      BY <2>3 DEF BillingSteps
    <2>6. QED
      BY <1>1, <1>2, <1>3, <1>4, <2>2, <2>3, <2>4, <2>5, QuietStep DEF FetchVideo
  <1>7. QED
    BY <1>5, <1>6 DEF FetchVideo

LEMMA FetchSunoKeeps ==
    ASSUME TaskInv, NEW p \in Pollers, FetchSuno(p) PROVE TaskInv'
  <1>1. PICK r : r = poller[p]
    OBVIOUS
  <1>2. PICK ts \in SUBSET r.batch :
          poller' = [poller EXCEPT ![p].batch = ts,
                       ![p].resp = [t \in Tasks |-> IF t \in ts THEN upstream[t] ELSE None]]
    BY <1>1 DEF FetchSuno
  <1>3. PICK f : f = [t \in Tasks |-> IF t \in ts THEN upstream[t] ELSE None]
    OBVIOUS
  <1>4. PICK v : v = [r EXCEPT !.batch = ts, !.resp = f]
    OBVIOUS
  <1>5. r.pc = "poll" /\ p \in setting.loops
    BY <1>1, Local DEF FetchSuno, Waiting
  <1>6. poller' = [poller EXCEPT ![p] = v]
    BY <1>1, <1>2, <1>3, <1>4, Local
  <1>7. f \in [Tasks -> Statuses \cup {None}]
    BY <1>3 DEF TaskInv, ShapeInv, TypeOK
  <1>8. /\ v \in PollerType /\ v.pc = "poll" /\ v.todo = r.todo /\ v.batch = ts
        /\ v.seen = r.seen /\ v.resp = f
    <2>1. r \in PollerType
      BY <1>1, Local
    <2>2. QED
      BY <2>1, <1>4, <1>5, <1>7 DEF PollerType
  <1>9. RecordSound(p, v)
    BY <1>1, <1>2, <1>5, <1>8, Local DEF RecordSound, BillingSteps
  <1>10. v.pc \notin BillingSteps /\ r.pc \notin BillingSteps
    BY <1>5, <1>8 DEF BillingSteps
  <1>11. ASSUME NEW t \in OrderedTasks, IsSuno(t), t \in v.todo \cup v.batch
         PROVE  status[t] \in ActiveStatuses
    BY <1>1, <1>2, <1>8, <1>11 DEF TaskInv, Alone
  <1>12. ASSUME NEW t \in OrderedTasks, v.resp[t] \in Terminal PROVE v.resp[t] = upstream[t]
    BY <1>3, <1>8, <1>12, OrderedIsTask, NotNone DEF TaskInv
  <1>13. QED
    BY <1>1, <1>5, <1>6, <1>8, <1>9, <1>10, <1>11, <1>12, QuietStep DEF FetchSuno

LEMMA EndRoundKeeps ==
    ASSUME TaskInv, NEW p \in Pollers, EndRound(p) PROVE TaskInv'
  <1>1. p \in setting.loops /\ poller[p].pc \notin BillingSteps
    BY Local DEF EndRound, Between, BillingSteps
  <1>2. PICK v : v = Idle
    OBVIOUS
  <1>3. /\ v \in PollerType /\ v.pc = "idle" /\ v.todo = {} /\ v.batch = {}
        /\ \A t \in Tasks : v.resp[t] = None
    BY <1>2 DEF Idle, PollerType
  <1>4. RecordSound(p, v) /\ v.pc \notin BillingSteps
    BY <1>3 DEF RecordSound, BillingSteps
  <1>5. \A t \in OrderedTasks : v.resp[t] \notin Terminal
    BY <1>3, NotNone, OrderedIsTask DEF TaskInv
  <1>6. QED
    BY <1>1, <1>2, <1>3, <1>4, <1>5, QuietStep DEF EndRound

-----------------------------------------------------------------------------
(* The steps of a loop that bill or write one task *)

\* The charges of the task that loop p, and no other, may bill.
LEMMA AccountsMine ==
    ASSUME TaskInv, NEW t \in OrderedTasks, NEW p \in Pollers, NEW v \in PollerType,
           poller' = [poller EXCEPT ![p] = v], setting' = setting,
           \A q \in Pollers : q # p => ~Billing(q, t),
           status'[t] # None, IsSuno(t) => due'[t] = Quota[t],
           v.pc \in BillingSteps /\ v.cur = t /\ v.back # "save" => status'[t] \in Terminal,
           (IsSuno(t) => Clean(t)') =>
               IF v.pc \in BillingSteps /\ v.cur = t THEN Booked(t, v)' ELSE Unbilled(t)'
    PROVE  Accounts(t)'
  <1>1. IsSuno(t)' <=> IsSuno(t)
    BY SettingFacts
  <1>2. /\ poller'[p] = v
        /\ \A q \in Pollers : q # p => ~Billing(q, t)'
        /\ Billing(p, t)' <=> (v.pc \in BillingSteps /\ v.cur = t)
    BY LoopUpdate DEF TaskInv
  <1>3. \A q \in Pollers : Billing(q, t)' => q = p
    BY <1>2
  <1>4. ASSUME IsSuno(t)' => Clean(t)', NEW q \in Pollers, Billing(q, t)'
        PROVE  Booked(t, poller[q])'
    <2>1. Booked(t, v)' /\ poller'[q] = v
      BY <1>1, <1>2, <1>3, <1>4
    <2>2. QED
      BY <2>1 DEF Booked
  <1>5. ASSUME IsSuno(t)' => Clean(t)', \A q \in Pollers : ~Billing(q, t)'
        PROVE  Unbilled(t)'
    BY <1>1, <1>2, <1>5
  <1>6. \A q \in Pollers : Billing(q, t)' /\ poller'[q].back # "save" => status'[t] \in Terminal
    BY <1>2, <1>3
  <1>7. QED
    BY <1>1, <1>3, <1>4, <1>5, <1>6 DEF Accounts

\* A step that writes or charges no task but t.
Touches(t) ==
    /\ UNCHANGED <<setting, upstream, timedOut, fetcher, crashes>>
    /\ status' \in [Tasks -> Statuses \cup {None}] /\ complete' \in [Tasks -> BOOLEAN]
    /\ fund' \in [Tasks -> Int] /\ token' \in [Tasks -> Int] /\ due' \in [Tasks -> Int]
    /\ silent' \subseteq Tasks /\ faults' \in [Tasks -> 0..MaxFaults]
    /\ \A u \in Tasks \ {t} :
         /\ status'[u] = status[u] /\ fund'[u] = fund[u] /\ token'[u] = token[u]
         /\ due'[u] = due[u] /\ faults'[u] = faults[u] /\ (u \in silent => u \in silent')

\* Loop p goes on from local state r to v with nothing new to do but billing t.
Continues(p, t, r, v) ==
    /\ r.pc # "idle"
    /\ r.pc \in BillingSteps => r.cur = t
    /\ v.pc \in BillingSteps => v.cur = t
    /\ RecordSound(p, v) /\ v.todo \subseteq r.todo /\ v.batch \subseteq r.batch
    /\ \A u \in Tasks : v.resp[u] \in {r.resp[u], None}

\* What the step has to show of t.
Kept(t, v) ==
    /\ ~(setting.timeout \/ setting.vanish \/ setting.errors) /\ ChannelOf(t) \in RealtimeChannels =>
         (status'[t] \in Terminal => status'[t] = status[t] \/ status'[t] = upstream[t])
    /\ IsSuno(t) /\ t \in v.todo \cup v.batch => status'[t] \in ActiveStatuses
    /\ Accounts(t)'

\* A step of loop p about task t.
LEMMA TaskStep ==
    ASSUME TaskInv, NEW p \in Pollers, NEW r, r = poller[p], NEW v \in PollerType,
           poller' = [poller EXCEPT ![p] = v], NEW t \in Submitted,
           Touches(t), Continues(p, t, r, v), t \in OrderedTasks => Kept(t, v)
    PROVE  TaskInv'
  <1> USE DEF Touches, Continues, Kept
  <1>1. UNCHANGED <<setting, upstream, timedOut, fetcher>> /\ crashes' = crashes
    OBVIOUS
  <1>2. p \in setting.loops
    BY Local
  <1>3. TypeOK /\ \A u \in Tasks : status[u] # None => u \in Submitted
    BY DEF TaskInv, ShapeInv
  <1>4. crashes' \in 0..MaxCrashes /\ \A u \in Tasks : status'[u] # None => u \in Submitted
    BY <1>1, <1>3 DEF TypeOK
  <1>5. OrderedTasks \subseteq Tasks
    BY OrderedIsTask DEF TaskInv
  <1>6. ASSUME NEW u \in OrderedTasks, u # t PROVE Accounts(u)'
    <2>1. ~Billing(p, u) /\ ~(v.pc \in BillingSteps /\ v.cur = u)
      BY <1>6 DEF Billing
    <2>2. Clean(u)' <=> Clean(u)
      BY <1>5, <1>6 DEF Clean
    <2>3. /\ status'[u] = status[u] /\ fund'[u] = fund[u] /\ token'[u] = token[u]
          /\ due'[u] = due[u] /\ (u \in silent => u \in silent')
      BY <1>5, <1>6
    <2>4. QED
      BY <1>1, <2>1, <2>2, <2>3, AccountsApart
  <1>7. ASSUME NEW u \in OrderedTasks, u # t
        PROVE  /\ status'[u] = status[u]
               /\ IsSuno(u) /\ u \in v.todo \cup v.batch => status'[u] \in ActiveStatuses
    BY <1>5, <1>7 DEF TaskInv, Alone
  <1>8. \A u \in OrderedTasks : v.resp[u] \in Terminal => v.resp[u] = poller[p].resp[u]
    BY <1>5, NotNone
  <1>9. \A u \in OrderedTasks :
          /\ ~(setting.timeout \/ setting.vanish \/ setting.errors)
               /\ ChannelOf(u) \in RealtimeChannels =>
                 /\ status'[u] \in Terminal => status'[u] = status[u] \/ status'[u] = upstream[u]
                 /\ v.resp[u] \in Terminal => v.resp[u] = poller[p].resp[u] \/ v.resp[u] = upstream[u]
          /\ IsSuno(u) /\ u \in v.todo \cup v.batch => status'[u] \in ActiveStatuses
          /\ Accounts(u)'
    BY <1>6, <1>7, <1>8
  <1>10. QED
    BY <1>1, <1>2, <1>4, <1>9, LoopStep

\* A write that ends a task and does not bill it.
LEMMA AccountsSilent ==
    ASSUME TaskInv, NEW t \in OrderedTasks, setting' = setting,
           \A q \in Pollers : /\ Billing(q, t)' <=> Billing(q, t)
                              /\ Billing(q, t) => poller'[q] = poller[q],
           status'[t] \in Terminal, t \in silent', fund'[t] = fund[t], token'[t] = token[t],
           due'[t] = due[t], Clean(t)' => Clean(t), IsSuno(t) => status[t] # None
    PROVE  Accounts(t)'
  <1>1. (IsSuno(t)' <=> IsSuno(t)) /\ Accounts(t) /\ status'[t] # None
    BY SettingFacts, NotNone DEF TaskInv
  <1>2. t \in Tasks /\ Quota[t] \in Nat /\ status[t] \in Statuses \cup {None}
    BY OrderedIsTask, TaskAmountsAssumption DEF TaskInv, ShapeInv, TypeOK
  <1>3. ASSUME IsSuno(t)' => Clean(t)', NEW q \in Pollers, Billing(q, t)'
        PROVE  Booked(t, poller[q])'
    <2>1. Booked(t, poller[q]) /\ poller'[q] = poller[q]
      BY <1>1, <1>3 DEF Accounts
    <2>2. QED
      BY <2>1 DEF Booked
  <1>4. ASSUME IsSuno(t)' => Clean(t)', \A q \in Pollers : ~Billing(q, t)'
        PROVE  Unbilled(t)'
    <2>1. fund[t] >= 0 /\ token[t] >= 0
      BY <1>1, <1>2, <1>4, NotNone DEF Accounts, Unbilled
    <2>2. QED
      BY <2>1, NotNone DEF Unbilled
  <1>5. QED
    BY <1>1, <1>3, <1>4 DEF Accounts

LEMMA WriteFacts ==
    ASSUME TaskInv, NEW t \in Tasks, NEW s \in Statuses, Write(t, s)
    PROVE  /\ status' \in [Tasks -> Statuses \cup {None}] /\ complete' \in [Tasks -> BOOLEAN]
           /\ status'[t] = s /\ \A u \in Tasks \ {t} : status'[u] = status[u]
  BY DEF Write, TaskInv, ShapeInv, TypeOK

LEMMA FaultFacts ==
    ASSUME TaskInv, NEW t \in Tasks, Fault(t)
    PROVE  /\ faults' \in [Tasks -> 0..MaxFaults] /\ ~Clean(t)'
           /\ \A u \in Tasks \ {t} : faults'[u] = faults[u]
  <1>1. faults \in [Tasks -> 0..MaxFaults] /\ MaxFaults \in Nat
    BY TaskAmountsAssumption DEF TaskInv, ShapeInv, TypeOK
  <1>2. faults[t] + 1 \in 0..MaxFaults /\ faults[t] + 1 # 0 /\ faults' = [faults EXCEPT ![t] = faults[t] + 1]
    BY <1>1 DEF Fault
  <1>3. QED
    BY <1>1, <1>2 DEF Clean

LEMMA TypeFacts ==
    ASSUME TaskInv
    PROVE  /\ status \in [Tasks -> Statuses \cup {None}] /\ complete \in [Tasks -> BOOLEAN]
           /\ fund \in [Tasks -> Int] /\ token \in [Tasks -> Int] /\ due \in [Tasks -> Int]
           /\ silent \subseteq Tasks /\ faults \in [Tasks -> 0..MaxFaults]
           /\ Quota \in [Tasks -> Nat] /\ Submitted \subseteq Tasks
           /\ OrderedTasks \subseteq Submitted
  BY TaskAmountsAssumption, OrderedIsTask DEF TaskInv, ShapeInv, TypeOK

LEMMA BillFacts ==
    ASSUME NEW q \in PollerType, NEW t \in Tasks, NEW delta \in Int,
           NEW back \in {"idle", "sweep", "poll", "save"}, NEW v, v = Bill(q, t, delta, back)
    PROVE  /\ v \in PollerType /\ v.pc = IF delta = 0 THEN back ELSE "fund"
           /\ v.cur = t /\ v.delta = delta /\ v.back = back
           /\ v.todo = q.todo /\ v.batch = q.batch /\ v.seen = q.seen /\ v.resp = q.resp
  BY DEF PollerType, Bill, BillingSteps

LEMMA DoneFacts ==
    ASSUME NEW p, NEW r \in PollerType, r = poller[p], NEW t \in Tasks, NEW v, v = DoneWith(p, t)
    PROVE  /\ v \in PollerType /\ v.pc = r.pc /\ v.todo = r.todo /\ v.batch = r.batch \ {t}
           /\ v.seen = r.seen /\ v.cur = r.cur /\ v.delta = r.delta /\ v.back = r.back
           /\ \A u \in Tasks : v.resp[u] \in {r.resp[u], None}
  <1>1. PICK f : f = [r.resp EXCEPT ![t] = None]
    OBVIOUS
  <1>2. r.resp \in [Tasks -> Statuses \cup {None}]
    BY DEF PollerType
  <1>3. /\ f \in [Tasks -> Statuses \cup {None}]
        /\ \A u \in Tasks : f[u] \in {r.resp[u], None}
    BY <1>1, <1>2
  <1>4. v = [r EXCEPT !.batch = r.batch \ {t}, !.resp = f]
    BY <1>1 DEF DoneWith
  <1>5. r.batch \ {t} \in SUBSET Tasks
    BY DEF PollerType
  <1>6. PICK b : b = r.batch \ {t}
    OBVIOUS
  <1>7. v = [r EXCEPT !.batch = b, !.resp = f]
    BY <1>4, <1>6
  <1>8. b \in SUBSET Tasks /\ f \in [Tasks -> Statuses \cup {None}]
    BY <1>3, <1>5, <1>6
  <1>9. /\ v \in PollerType /\ v.pc = r.pc /\ v.todo = r.todo /\ v.batch = b
        /\ v.seen = r.seen /\ v.cur = r.cur /\ v.delta = r.delta /\ v.back = r.back
        /\ v.resp = f
    BY <1>7, <1>8 DEF PollerType
  <1>10. QED
    BY <1>3, <1>6, <1>9

LEMMA MovedFacts ==
    ASSUME NEW r \in PollerType, NEW pc \in {"idle", "sweep", "poll"} \cup BillingSteps,
           NEW v, v = [r EXCEPT !.pc = pc]
    PROVE  /\ v \in PollerType /\ v.pc = pc /\ v.todo = r.todo /\ v.batch = r.batch
           /\ v.seen = r.seen /\ v.cur = r.cur /\ v.delta = r.delta /\ v.back = r.back
           /\ v.resp = r.resp
  BY DEF PollerType

\* What is known of the task that a loop bills.
LEMMA BilledTask ==
    ASSUME TaskInv, NEW p \in Pollers, NEW r, r = poller[p], r.pc \in BillingSteps
    PROVE  /\ r.cur \in Submitted
           /\ r.cur \in OrderedTasks =>
                /\ \A q \in Pollers : q # p => ~Billing(q, r.cur)
                /\ status[r.cur] # None /\ (IsSuno(r.cur) => due[r.cur] = Quota[r.cur])
                /\ r.back # "save" => status[r.cur] \in Terminal
                /\ (IsSuno(r.cur) => Clean(r.cur)) => Booked(r.cur, r)
  <1>1. r.cur \in Submitted
    BY Local DEF RecordSound
  <1>2. Billing(p, r.cur)
    BY DEF Billing
  <1>3. QED
    BY <1>1, <1>2 DEF TaskInv, Accounts

\* A step back from billing to the step the loop continues at.
LEMMA BackSound ==
    ASSUME TaskInv, NEW p \in Pollers, NEW r, r = poller[p], r.pc \in {"fund", "token"},
           NEW v, v = [r EXCEPT !.pc = r.back]
    PROVE  /\ v \in PollerType /\ v.pc = r.back /\ v.todo = r.todo /\ v.batch = r.batch
           /\ v.cur = r.cur /\ v.delta = r.delta /\ v.back = r.back /\ v.resp = r.resp
           /\ RecordSound(p, v)
           /\ v.pc \in BillingSteps <=> r.back = "save"
           /\ ~IsSuno(r.cur) => r.back # "save"
  <1>1. r.pc \in BillingSteps /\ r \in PollerType /\ RecordSound(p, r)
    BY Local DEF BillingSteps
  <1>2. r.back \in {"sweep", "poll", "save"} /\ (~IsSuno(r.cur) => r.back # "save")
    BY <1>1 DEF RecordSound
  <1>3. r.back \in {"idle", "sweep", "poll"} \cup BillingSteps
    BY <1>2 DEF BillingSteps
  <1>4. /\ v \in PollerType /\ v.pc = r.back /\ v.todo = r.todo /\ v.batch = r.batch
        /\ v.seen = r.seen /\ v.cur = r.cur /\ v.delta = r.delta /\ v.back = r.back
        /\ v.resp = r.resp
    BY <1>1, <1>3, MovedFacts
  <1>5. RecordSound(p, v)
    BY <1>1, <1>2, <1>4 DEF RecordSound, BillingSteps
  <1>6. QED
    BY <1>2, <1>4, <1>5 DEF BillingSteps

LEMMA TaskAdjustFundingKeeps ==
    ASSUME TaskInv, NEW p \in Pollers, TaskAdjustFunding(p) PROVE TaskInv'
  <1>1. PICK r : r = poller[p]
    OBVIOUS
  <1>2. PICK t : t = r.cur
    OBVIOUS
  <1>3. r.pc = "fund" /\ r.pc \in BillingSteps /\ r.pc # "idle"
    BY <1>1 DEF TaskAdjustFunding, BillingSteps
  <1>4. /\ t \in Submitted
        /\ t \in OrderedTasks =>
             /\ \A q \in Pollers : q # p => ~Billing(q, t)
             /\ status[t] # None /\ (IsSuno(t) => due[t] = Quota[t])
             /\ r.back # "save" => status[t] \in Terminal
             /\ (IsSuno(t) => Clean(t)) => Booked(t, r)
    BY <1>1, <1>2, <1>3, BilledTask
  <1>5. t \in Tasks /\ fund \in [Tasks -> Int] /\ Quota[t] \in Nat
    BY <1>4, TypeFacts
  <1>6. UNCHANGED <<status, complete, setting, upstream, timedOut, fetcher, token, due, silent, crashes>>
    BY DEF TaskAdjustFunding, rows, env
  <1>7. r \in PollerType /\ RecordSound(p, r) /\ poller \in [Pollers -> PollerType] /\ r.delta \in Int
    BY <1>1, Local
  <1>8. ASSUME fund' = [fund EXCEPT ![t] = @ + r.delta], poller' = [poller EXCEPT ![p].pc = "token"],
               faults' = faults
        PROVE  TaskInv'
    <2>1. PICK v : v = [r EXCEPT !.pc = "token"]
      OBVIOUS
    <2>2. poller' = [poller EXCEPT ![p] = v]
      BY <1>1, <1>7, <1>8, <2>1
    <2>3. /\ v \in PollerType /\ v.pc = "token" /\ v.todo = r.todo /\ v.batch = r.batch
          /\ v.seen = r.seen /\ v.cur = r.cur /\ v.delta = r.delta /\ v.back = r.back
          /\ v.resp = r.resp
      BY <1>7, <2>1, MovedFacts DEF BillingSteps
    <2>4. RecordSound(p, v)
      BY <1>3, <1>7, <2>3 DEF RecordSound, BillingSteps
    <2>5. /\ fund' \in [Tasks -> Int] /\ fund'[t] = fund[t] + r.delta
          /\ \A u \in Tasks \ {t} : fund'[u] = fund[u]
      BY <1>5, <1>7, <1>8
    <2>6. ASSUME t \in OrderedTasks PROVE Accounts(t)'
      <3>1. ASSUME IsSuno(t) => Clean(t)' PROVE Booked(t, v)'
        <4>1. Booked(t, r) /\ Owed(t)' = Owed(t)
          BY <1>4, <1>6, <1>8, <2>6, <3>1 DEF Clean, Owed
        <4>2. QED
          BY <1>3, <1>5, <1>6, <1>7, <2>3, <2>5, <4>1 DEF Booked
      <3>2. v.pc \in BillingSteps /\ v.cur = t
        BY <1>2, <2>3 DEF BillingSteps
      <3>3. QED
        BY <1>4, <1>6, <2>2, <2>3, <2>6, <3>1, <3>2, AccountsMine
    <2>7. ASSUME t \in OrderedTasks, IsSuno(t), t \in v.todo \cup v.batch PROVE status'[t] \in ActiveStatuses
      BY <1>1, <1>6, <2>3, <2>7 DEF TaskInv, Alone
    <2>8. t \in OrderedTasks => Kept(t, v)
      BY <1>6, <2>6, <2>7 DEF Kept
    <2>9. Touches(t)
      BY <1>6, <1>8, <2>5, TypeFacts DEF Touches
    <2>10. Continues(p, t, r, v)
      BY <1>2, <1>3, <2>3, <2>4 DEF Continues
    <2>11. QED
      BY <1>1, <1>4, <2>2, <2>3, <2>8, <2>9, <2>10, TaskStep
  <1>9. ASSUME Fault(t), poller' = [poller EXCEPT ![p].pc = r.back], fund' = fund
        PROVE  TaskInv'
    <2>1. PICK v : v = [r EXCEPT !.pc = r.back]
      OBVIOUS
    <2>2. poller' = [poller EXCEPT ![p] = v]
      BY <1>1, <1>7, <1>9, <2>1
    <2>3. /\ v \in PollerType /\ v.pc = r.back /\ v.todo = r.todo /\ v.batch = r.batch
          /\ v.cur = r.cur /\ v.delta = r.delta /\ v.back = r.back /\ v.resp = r.resp
          /\ RecordSound(p, v)
          /\ v.pc \in BillingSteps <=> r.back = "save"
          /\ ~IsSuno(t) => r.back # "save"
      BY <1>1, <1>2, <1>3, <2>1, BackSound
    <2>4. /\ faults' \in [Tasks -> 0..MaxFaults] /\ ~Clean(t)'
          /\ \A u \in Tasks \ {t} : faults'[u] = faults[u]
      BY <1>5, <1>9, FaultFacts
    <2>5. ASSUME t \in OrderedTasks PROVE Accounts(t)'
      <3>1. ASSUME ~IsSuno(t) PROVE Unbilled(t)'
        <4>1. Booked(t, r) /\ status[t] \in Terminal
          BY <1>4, <2>3, <2>5, <3>1
        <4>2. fund[t] >= 0 /\ token[t] >= 0
          BY <1>3, <1>5, <4>1 DEF Booked
        <4>3. QED
          BY <1>6, <1>9, <2>4, <4>1, <4>2, NotNone DEF Unbilled
      <3>2. (IsSuno(t) => Clean(t)') =>
              IF v.pc \in BillingSteps /\ v.cur = t THEN Booked(t, v)' ELSE Unbilled(t)'
        BY <2>3, <2>4, <3>1
      <3>3. QED
        BY <1>4, <1>6, <2>2, <2>3, <2>5, <3>2, AccountsMine
    <2>6. ASSUME t \in OrderedTasks, IsSuno(t), t \in v.todo \cup v.batch PROVE status'[t] \in ActiveStatuses
      BY <1>1, <1>6, <2>3, <2>6 DEF TaskInv, Alone
    <2>7. t \in OrderedTasks => Kept(t, v)
      BY <1>6, <2>5, <2>6 DEF Kept
    <2>8. Touches(t)
      BY <1>6, <1>9, <2>4, TypeFacts DEF Touches
    <2>9. Continues(p, t, r, v)
      BY <1>2, <1>3, <2>3 DEF Continues
    <2>10. QED
      BY <1>1, <1>4, <2>2, <2>3, <2>7, <2>8, <2>9, TaskStep
  <1>10. QED
    BY <1>1, <1>2, <1>8, <1>9 DEF TaskAdjustFunding

LEMMA TaskAdjustTokenQuotaKeeps ==
    ASSUME TaskInv, NEW p \in Pollers, TaskAdjustTokenQuota(p) PROVE TaskInv'
  <1>1. PICK r : r = poller[p]
    OBVIOUS
  <1>2. PICK t : t = r.cur
    OBVIOUS
  <1>3. r.pc = "token" /\ r.pc \in BillingSteps /\ r.pc # "idle"
    BY <1>1 DEF TaskAdjustTokenQuota, BillingSteps
  <1>4. /\ t \in Submitted
        /\ t \in OrderedTasks =>
             /\ \A q \in Pollers : q # p => ~Billing(q, t)
             /\ status[t] # None /\ (IsSuno(t) => due[t] = Quota[t])
             /\ r.back # "save" => status[t] \in Terminal
             /\ (IsSuno(t) => Clean(t)) => Booked(t, r)
    BY <1>1, <1>2, <1>3, BilledTask
  <1>5. t \in Tasks /\ token \in [Tasks -> Int] /\ Quota[t] \in Nat
    BY <1>4, TypeFacts
  <1>6. UNCHANGED <<status, complete, setting, upstream, timedOut, fetcher, fund, due, silent, crashes>>
    BY DEF TaskAdjustTokenQuota, rows, env
  <1>7. r \in PollerType /\ poller \in [Pollers -> PollerType] /\ r.delta \in Int
    BY <1>1, Local
  <1>8. PICK v : v = [r EXCEPT !.pc = r.back]
    OBVIOUS
  <1>9. poller' = [poller EXCEPT ![p] = v]
    BY <1>1, <1>7, <1>8 DEF TaskAdjustTokenQuota
  <1>10. /\ v \in PollerType /\ v.pc = r.back /\ v.todo = r.todo /\ v.batch = r.batch
         /\ v.cur = r.cur /\ v.delta = r.delta /\ v.back = r.back /\ v.resp = r.resp
         /\ RecordSound(p, v)
         /\ v.pc \in BillingSteps <=> r.back = "save"
         /\ ~IsSuno(t) => r.back # "save"
    BY <1>1, <1>2, <1>3, <1>8, BackSound
  <1>11. Continues(p, t, r, v)
    BY <1>2, <1>3, <1>10 DEF Continues
  <1>12. ASSUME t \in OrderedTasks, IsSuno(t), t \in v.todo \cup v.batch
         PROVE  status'[t] \in ActiveStatuses
    BY <1>1, <1>6, <1>10, <1>12 DEF TaskInv, Alone
  <1>13. ASSUME token' = [token EXCEPT ![t] = @ + r.delta], faults' = faults
         PROVE  TaskInv'
    <2>1. /\ token' \in [Tasks -> Int] /\ token'[t] = token[t] + r.delta
          /\ \A u \in Tasks \ {t} : token'[u] = token[u]
      BY <1>5, <1>7, <1>13
    <2>2. ASSUME t \in OrderedTasks PROVE Accounts(t)'
      <3>1. Owed(t)' = Owed(t) /\ (Clean(t)' <=> Clean(t))
        BY <1>6, <1>13 DEF Clean, Owed
      <3>2. ASSUME IsSuno(t) => Clean(t)', r.back = "save" PROVE Booked(t, v)'
        <4>1. Booked(t, r)
          BY <1>4, <2>2, <3>1, <3>2
        <4>2. QED
          BY <1>3, <1>5, <1>6, <1>7, <1>10, <2>1, <3>2, <4>1 DEF Booked
      <3>3. ASSUME IsSuno(t) => Clean(t)', r.back # "save" PROVE Unbilled(t)'
        <4>1. Booked(t, r) /\ status[t] \in Terminal
          BY <1>4, <2>2, <3>1, <3>3
        <4>2. /\ fund'[t] = Quota[t] + r.delta /\ token'[t] = Quota[t] + r.delta
              /\ Quota[t] + r.delta >= 0
              /\ t \notin silent => Quota[t] + r.delta = Owed(t)
          BY <1>3, <1>6, <2>1, <3>3, <4>1 DEF Booked
        <4>3. QED
          BY <1>6, <3>1, <4>1, <4>2, NotNone DEF Unbilled
      <3>4. (IsSuno(t) => Clean(t)') =>
              IF v.pc \in BillingSteps /\ v.cur = t THEN Booked(t, v)' ELSE Unbilled(t)'
        BY <1>2, <1>10, <3>2, <3>3
      <3>5. QED
        BY <1>4, <1>6, <1>9, <1>10, <2>2, <3>4, AccountsMine
    <2>3. t \in OrderedTasks => Kept(t, v)
      BY <1>6, <1>12, <2>2 DEF Kept
    <2>4. Touches(t)
      BY <1>6, <1>13, <2>1, TypeFacts DEF Touches
    <2>5. QED
      BY <1>1, <1>4, <1>9, <1>10, <1>11, <2>3, <2>4, TaskStep
  <1>14. ASSUME Fault(t), token' = token PROVE TaskInv'
    <2>1. /\ faults' \in [Tasks -> 0..MaxFaults] /\ ~Clean(t)'
          /\ \A u \in Tasks \ {t} : faults'[u] = faults[u]
      BY <1>5, <1>14, FaultFacts
    <2>2. ASSUME t \in OrderedTasks PROVE Accounts(t)'
      <3>1. ASSUME ~IsSuno(t) PROVE Unbilled(t)'
        <4>1. Booked(t, r) /\ status[t] \in Terminal
          BY <1>4, <1>10, <2>2, <3>1
        <4>2. fund[t] >= 0 /\ token[t] >= 0
          BY <1>3, <1>5, <4>1 DEF Booked
        <4>3. QED
          BY <1>6, <1>14, <2>1, <4>1, <4>2, NotNone DEF Unbilled
      <3>2. (IsSuno(t) => Clean(t)') =>
              IF v.pc \in BillingSteps /\ v.cur = t THEN Booked(t, v)' ELSE Unbilled(t)'
        BY <1>10, <2>1, <3>1
      <3>3. QED
        BY <1>4, <1>6, <1>9, <1>10, <2>2, <3>2, AccountsMine
    <2>3. t \in OrderedTasks => Kept(t, v)
      BY <1>6, <1>12, <2>2 DEF Kept
    <2>4. Touches(t)
      BY <1>6, <1>14, <2>1, TypeFacts DEF Touches
    <2>5. QED
      BY <1>1, <1>4, <1>9, <1>10, <1>11, <2>3, <2>4, TaskStep
  <1>15. QED
    BY <1>1, <1>2, <1>13, <1>14 DEF TaskAdjustTokenQuota

\* A step of loop p that drops t: nothing but a failing statement happens to t.
LEMMA DropStep ==
    ASSUME TaskInv, NEW p \in Pollers, NEW r, r = poller[p], NEW v \in PollerType,
           poller' = [poller EXCEPT ![p] = v], NEW t \in Submitted,
           UNCHANGED <<status, complete, setting, upstream, timedOut, fetcher, fund, token, due,
                       silent, crashes>>,
           faults' = faults \/ Fault(t),
           r.pc \notin BillingSteps, v.pc \notin BillingSteps, Continues(p, t, r, v)
    PROVE  TaskInv'
  <1>1. t \in Tasks
    BY TypeFacts
  <1>2. /\ faults' \in [Tasks -> 0..MaxFaults] /\ (Clean(t)' => Clean(t))
        /\ \A u \in Tasks \ {t} : faults'[u] = faults[u]
    BY <1>1, TypeFacts, FaultFacts DEF Clean
  <1>3. Touches(t)
    BY <1>2, TypeFacts DEF Touches
  <1>4. ASSUME t \in OrderedTasks PROVE Kept(t, v)
    <2>1. Accounts(t)'
      <3>1. ~Billing(p, t) /\ ~(v.pc \in BillingSteps /\ v.cur = t)
        BY DEF Billing
      <3>2. QED
        BY <1>2, <1>4, <3>1, AccountsApart
    <2>2. IsSuno(t) /\ t \in v.todo \cup v.batch => status'[t] \in ActiveStatuses
      BY <1>4 DEF TaskInv, Alone, Continues
    <2>3. QED
      BY <2>1, <2>2 DEF Kept
  <1>5. QED
    BY <1>3, <1>4, TaskStep

\* A loop ends t by a compare and swap from the active status it loaded and bills
\* the difference to the cost of the outcome, if there is any.
LEMMA EndStep ==
    ASSUME TaskInv, NEW p \in Pollers, NEW r, r = poller[p], NEW v \in PollerType,
           poller' = [poller EXCEPT ![p] = v], NEW t \in OrderedTasks,
           UNCHANGED <<setting, fund, token, faults>>, r.pc # "idle", r.pc \notin BillingSteps,
           status[t] \in ActiveStatuses, status'[t] \in Terminal,
           IsSuno(t) => due'[t] = Quota[t],
           NEW delta \in Int, Quota[t] + delta >= 0,
           t \notin silent' => Quota[t] + delta = Owed(t)',
           v.pc = IF delta = 0 THEN v.back ELSE "fund",
           v.cur = t, v.delta = delta, v.back \in {"sweep", "poll"}
    PROVE  Accounts(t)'
  <1>1. p \in setting.loops /\ ~Billing(p, t) /\ status[t] \notin Terminal
    BY Local, NotNone DEF Billing
  <1>2. /\ \A q \in Pollers : ~Billing(q, t)
        /\ (IsSuno(t) => Clean(t)) => fund[t] = Quota[t] /\ token[t] = Quota[t]
    BY <1>1, ActiveUnbilled
  <1>3. Clean(t)' <=> Clean(t)
    BY DEF Clean
  <1>4. Quota[t] \in Nat
    BY TypeFacts
  <1>5. ASSUME IsSuno(t) => Clean(t)', delta # 0 PROVE Booked(t, v)'
    BY <1>2, <1>3, <1>4, <1>5 DEF Booked
  <1>6. ASSUME IsSuno(t) => Clean(t)', delta = 0 PROVE Unbilled(t)'
    BY <1>2, <1>3, <1>4, <1>6, NotNone DEF Unbilled
  <1>7. v.pc \in BillingSteps <=> delta # 0
    BY DEF BillingSteps
  <1>8. (IsSuno(t) => Clean(t)') =>
          IF v.pc \in BillingSteps /\ v.cur = t THEN Booked(t, v)' ELSE Unbilled(t)'
    BY <1>5, <1>6, <1>7
  <1>9. status'[t] # None
    BY NotNone
  <1>10. QED
    BY <1>2, <1>8, <1>9, AccountsMine

LEMMA SweepTaskKeeps ==
    ASSUME TaskInv, NEW p \in Pollers, NEW t \in Tasks, SweepTask(p, t) PROVE TaskInv'
  <1>1. PICK r : r = poller[p]
    OBVIOUS
  <1>2. PICK q : q = [r EXCEPT !.todo = @ \ {t}]
    OBVIOUS
  <1>3. /\ r.pc = "sweep" /\ t \in r.todo /\ r.pc # "idle" /\ r.pc \notin BillingSteps
        /\ r \in PollerType /\ RecordSound(p, r)
    BY <1>1, Local DEF SweepTask, BillingSteps
  <1>4. /\ q \in PollerType /\ q.pc = "sweep" /\ q.todo = r.todo \ {t} /\ q.batch = r.batch
        /\ q.seen = r.seen /\ q.resp = r.resp
    BY <1>2, <1>3 DEF PollerType
  <1>5. t \in Submitted /\ r.seen[t] \in ActiveStatuses /\ r.batch = {} /\ setting.timeout
    BY <1>3 DEF RecordSound
  <1>6. /\ UNCHANGED <<setting, upstream, timedOut, fetcher, fund, token, due, crashes>>
        /\ Quota[t] \in Nat
    BY TypeFacts DEF SweepTask, env, charges
  <1>7. ASSUME UpdateWithStatus(t, r.seen[t], "FAILURE"), faults' = faults,
               silent' = IF t \in Legacy THEN silent \cup {t} ELSE silent,
               poller' = [poller EXCEPT ![p] =
                            Bill(q, t, IF t \in Legacy THEN 0 ELSE -Quota[t], "sweep")]
        PROVE  TaskInv'
    <2>1. PICK delta : delta = IF t \in Legacy THEN 0 ELSE -Quota[t]
      OBVIOUS
    <2>2. delta \in Int
      BY <1>6, <2>1
    <2>3. PICK v : v = Bill(q, t, delta, "sweep")
      OBVIOUS
    <2>4. poller' = [poller EXCEPT ![p] = v]
      BY <1>7, <2>1, <2>3
    <2>5. /\ v \in PollerType /\ v.pc = IF delta = 0 THEN "sweep" ELSE "fund"
          /\ v.cur = t /\ v.delta = delta /\ v.back = "sweep"
          /\ v.todo = r.todo \ {t} /\ v.batch = r.batch /\ v.seen = r.seen /\ v.resp = r.resp
      BY <1>4, <2>2, <2>3, BillFacts
    <2>6. RecordSound(p, v)
      BY <1>3, <1>5, <2>5 DEF RecordSound, BillingSteps
    <2>7. Continues(p, t, r, v)
      BY <1>3, <2>5, <2>6 DEF Continues
    <2>8. /\ status' \in [Tasks -> Statuses \cup {None}] /\ complete' \in [Tasks -> BOOLEAN]
          /\ status'[t] = "FAILURE" /\ status[t] = r.seen[t]
          /\ \A u \in Tasks \ {t} : status'[u] = status[u]
      BY <1>7, WriteFacts DEF UpdateWithStatus, Statuses, Terminal
    <2>9. silent' \subseteq Tasks /\ silent \subseteq silent'
      BY <1>7, TypeFacts
    <2>10. Touches(t)
      BY <1>6, <1>7, <2>8, <2>9, TypeFacts DEF Touches
    <2>11. ASSUME t \in OrderedTasks PROVE Accounts(t)'
      <3>1. Owed(t)' = 0 /\ status'[t] \in Terminal /\ status[t] \in ActiveStatuses
        BY <1>5, <2>8 DEF Owed, Terminal
      <3>2. Quota[t] + delta >= 0 /\ (t \notin silent' => Quota[t] + delta = Owed(t)')
        BY <1>6, <1>7, <2>1, <3>1
      <3>3. IsSuno(t) => due'[t] = Quota[t]
        BY <1>6, <2>11, <3>1, NotNone DEF TaskInv, Accounts
      <3>4. QED
        BY <1>1, <1>3, <1>6, <1>7, <2>2, <2>4, <2>5, <2>11, <3>1, <3>2, <3>3, EndStep
    <2>12. t \in OrderedTasks => Kept(t, v)
      BY <1>5, <2>5, <2>11 DEF Kept
    <2>13. QED
      BY <1>1, <1>5, <2>4, <2>5, <2>7, <2>10, <2>12, TaskStep
  <1>8. ASSUME poller' = [poller EXCEPT ![p] = q], UNCHANGED <<rows, silent>>,
               faults' = faults \/ Fault(t)
        PROVE  TaskInv'
    <2>1. UNCHANGED <<status, complete, silent>>
      BY <1>8 DEF rows
    <2>2. RecordSound(p, q) /\ q.pc \notin BillingSteps
      BY <1>3, <1>4, <1>5 DEF RecordSound, BillingSteps
    <2>3. Continues(p, t, r, q)
      BY <1>3, <1>4, <2>2 DEF Continues
    <2>4. QED
      BY <1>1, <1>3, <1>4, <1>5, <1>6, <1>8, <2>1, <2>2, <2>3, DropStep
  <1>9. QED
    <2>1. q = [poller[p] EXCEPT !.todo = @ \ {t}] /\ q.seen[t] = r.seen[t]
      BY <1>1, <1>2, <1>4
    <2>2. QED
      BY <1>7, <1>8, <2>1 DEF SweepTask

LEMMA UpdateVideoSingleTaskKeeps ==
    ASSUME TaskInv, NEW p \in Pollers, NEW t \in Tasks, UpdateVideoSingleTask(p, t) PROVE TaskInv'
  <1>1. PICK r : r = poller[p]
    OBVIOUS
  <1>2. PICK q : q = DoneWith(p, t)
    OBVIOUS
  <1>3. PICK s : s = r.resp[t]
    OBVIOUS
  <1>4. /\ r.pc = "poll" /\ t \in r.batch /\ ~IsSuno(t) /\ r.pc # "idle"
        /\ r.pc \notin BillingSteps /\ s \in Statuses
        /\ r \in PollerType /\ RecordSound(p, r)
    BY <1>1, <1>3, Local DEF UpdateVideoSingleTask, BillingSteps
  <1>5. /\ q \in PollerType /\ q.pc = "poll" /\ q.todo = r.todo /\ q.batch = r.batch \ {t}
        /\ q.seen = r.seen /\ \A u \in Tasks : q.resp[u] \in {r.resp[u], None}
    BY <1>1, <1>2, <1>4, DoneFacts
  <1>6. t \in Submitted /\ r.seen[t] \in ActiveStatuses
    BY <1>4 DEF RecordSound
  <1>7. /\ UNCHANGED <<setting, upstream, timedOut, fetcher, fund, token, silent, crashes>>
        /\ Quota[t] \in Nat
    BY TypeFacts DEF UpdateVideoSingleTask, env
  <1>8. ASSUME t \in OrderedTasks, ~(setting.timeout \/ setting.vanish \/ setting.errors),
               ChannelOf(t) \in RealtimeChannels, s \in Terminal
        PROVE  s = upstream[t]
    BY <1>1, <1>3, <1>8 DEF TaskInv, Agrees
  <1>9. ASSUME UpdateWithStatus(t, r.seen[t], s), s \in Terminal, NEW delta \in Int,
               poller' = [poller EXCEPT ![p] = Bill(q, t, delta, "poll")],
               due' \in [Tasks -> Int], \A u \in Tasks \ {t} : due'[u] = due[u], faults' = faults,
               Quota[t] + delta >= 0, Quota[t] + delta = Owed(t)'
        PROVE  TaskInv'
    <2>1. PICK v : v = Bill(q, t, delta, "poll")
      OBVIOUS
    <2>2. poller' = [poller EXCEPT ![p] = v]
      BY <1>9, <2>1
    <2>3. /\ v \in PollerType /\ v.pc = IF delta = 0 THEN "poll" ELSE "fund"
          /\ v.cur = t /\ v.delta = delta /\ v.back = "poll"
          /\ v.todo = r.todo /\ v.batch = r.batch \ {t} /\ v.seen = r.seen /\ v.resp = q.resp
      <3>1. /\ v \in PollerType /\ v.pc = IF delta = 0 THEN "poll" ELSE "fund"
            /\ v.cur = t /\ v.delta = delta /\ v.back = "poll"
            /\ v.todo = q.todo /\ v.batch = q.batch /\ v.seen = q.seen /\ v.resp = q.resp
        BY <1>5, <2>1, BillFacts
      <3>2. QED
        BY <1>5, <3>1
    <2>4. RecordSound(p, v)
      BY <1>4, <1>6, <2>3 DEF RecordSound, BillingSteps
    <2>5. Continues(p, t, r, v)
      BY <1>4, <1>5, <2>3, <2>4 DEF Continues
    <2>6. /\ status' \in [Tasks -> Statuses \cup {None}] /\ complete' \in [Tasks -> BOOLEAN]
          /\ status'[t] = s /\ status[t] = r.seen[t]
          /\ \A u \in Tasks \ {t} : status'[u] = status[u]
      BY <1>4, <1>9, WriteFacts DEF UpdateWithStatus
    <2>7. Touches(t)
      BY <1>7, <1>9, <2>6, TypeFacts DEF Touches
    <2>8. ASSUME t \in OrderedTasks PROVE Accounts(t)'
      BY <1>1, <1>4, <1>6, <1>7, <1>9, <2>2, <2>3, <2>6, <2>8, EndStep
    <2>9. t \in OrderedTasks => Kept(t, v)
      BY <1>4, <1>8, <1>9, <2>6, <2>8 DEF Kept
    <2>10. QED
      BY <1>1, <1>6, <2>2, <2>3, <2>5, <2>7, <2>9, TaskStep
  <1>10. ASSUME s = "FAILURE", UpdateWithStatus(t, r.seen[t], s),
                poller' = [poller EXCEPT ![p] = Bill(q, t, -Quota[t], "poll")],
                UNCHANGED <<due, faults>>
         PROVE  TaskInv'
    <2>1. Owed(t)' = 0 /\ s \in Terminal
      BY <1>10, WriteFacts, <1>4 DEF Owed, UpdateWithStatus, Terminal
    <2>2. -Quota[t] \in Int /\ Quota[t] + (-Quota[t]) = 0
      BY <1>7
    <2>3. due' \in [Tasks -> Int] /\ \A u \in Tasks \ {t} : due'[u] = due[u]
      BY <1>10, TypeFacts
    <2>4. PICK delta : delta = -Quota[t]
      OBVIOUS
    <2>5. delta \in Int /\ Quota[t] + delta >= 0 /\ Quota[t] + delta = Owed(t)'
      BY <2>1, <2>2, <2>4
    <2>6. poller' = [poller EXCEPT ![p] = Bill(q, t, delta, "poll")]
      BY <1>10, <2>4
    <2>7. QED
      BY <1>9, <1>10, <2>1, <2>3, <2>5, <2>6
  <1>11. ASSUME s = "SUCCESS", UpdateWithStatus(t, r.seen[t], s), NEW a \in Actuals,
                poller' = [poller EXCEPT ![p] = Bill(q, t, SettleDelta(t, a), "poll")],
                due' = [due EXCEPT ![t] = Quota[t] + SettleDelta(t, a)], faults' = faults
         PROVE  TaskInv'
    <2>1. PICK delta : delta = SettleDelta(t, a)
      OBVIOUS
    <2>2. delta \in Int /\ Quota[t] + delta >= 0 /\ Quota[t] + delta \in Int
      BY <1>7, <2>1, TaskAmountsAssumption DEF SettleDelta
    <2>3. /\ due' \in [Tasks -> Int] /\ due'[t] = Quota[t] + delta
          /\ \A u \in Tasks \ {t} : due'[u] = due[u]
      BY <1>11, <2>1, <2>2, TypeFacts
    <2>4. Owed(t)' = Quota[t] + delta /\ s \in Terminal
      BY <1>4, <1>11, <2>3, WriteFacts DEF Owed, UpdateWithStatus, Terminal
    <2>5. poller' = [poller EXCEPT ![p] = Bill(q, t, delta, "poll")]
      BY <1>11, <2>1
    <2>6. QED
      BY <1>9, <1>11, <2>2, <2>3, <2>4, <2>5
  <1>12. RecordSound(p, q) /\ q.pc \notin BillingSteps
    BY <1>4, <1>5 DEF RecordSound, BillingSteps
  <1>13. Continues(p, t, r, q)
    BY <1>4, <1>5, <1>12 DEF Continues
  <1>14. ASSUME s \notin Terminal, status[t] = r.seen[t], Write(t, s),
                poller' = [poller EXCEPT ![p] = q], UNCHANGED <<due, faults>>
         PROVE  TaskInv'
    <2>1. /\ status' \in [Tasks -> Statuses \cup {None}] /\ complete' \in [Tasks -> BOOLEAN]
          /\ status'[t] = s /\ s \in ActiveStatuses
          /\ \A u \in Tasks \ {t} : status'[u] = status[u]
      BY <1>4, <1>14, WriteFacts, NotNone
    <2>2. Touches(t)
      BY <1>7, <1>14, <2>1, TypeFacts DEF Touches
    <2>3. ASSUME t \in OrderedTasks PROVE Accounts(t)'
      <3>1. status[t] \notin Terminal /\ ~Billing(p, t) /\ p \in setting.loops
        BY <1>1, <1>4, <1>6, <1>14, NotNone, Local DEF Billing
      <3>2. /\ \A x \in Pollers : ~Billing(x, t)
            /\ fund[t] = Quota[t] /\ token[t] = Quota[t]
        BY <1>4, <1>6, <1>14, <2>3, <3>1, ActiveUnbilled
      <3>3. Unbilled(t)'
        BY <1>7, <2>1, <3>2, NotNone DEF Unbilled
      <3>4. status'[t] # None
        BY <2>1, NotNone
      <3>5. QED
        BY <1>4, <1>5, <1>7, <1>12, <1>14, <2>3, <3>2, <3>3, <3>4, AccountsMine
    <2>4. t \in OrderedTasks => Kept(t, q)
      BY <1>4, <1>14, <2>1, <2>3 DEF Kept
    <2>5. QED
      BY <1>1, <1>5, <1>6, <1>13, <1>14, <2>2, <2>4, TaskStep
  <1>15. ASSUME poller' = [poller EXCEPT ![p] = q], UNCHANGED <<rows, due>>,
                faults' = faults \/ Fault(t)
         PROVE  TaskInv'
    <2>1. UNCHANGED <<status, complete, due>>
      BY <1>15 DEF rows
    <2>2. QED
      BY <1>1, <1>4, <1>5, <1>6, <1>7, <1>12, <1>13, <1>15, <2>1, DropStep
  <1>16. QED
    BY <1>1, <1>2, <1>3, <1>10, <1>11, <1>14, <1>15 DEF UpdateVideoSingleTask

LEMMA UpdateSunoTaskKeeps ==
    ASSUME TaskInv, NEW p \in Pollers, NEW t \in Tasks, UpdateSunoTask(p, t) PROVE TaskInv'
  <1>1. PICK r : r = poller[p]
    OBVIOUS
  <1>2. PICK delta : delta = IF r.resp[t] = "FAILURE" THEN -Quota[t] ELSE 0
    OBVIOUS
  <1>3. /\ r.pc = "poll" /\ t \in r.batch /\ IsSuno(t) /\ r.pc # "idle"
        /\ r.pc \notin BillingSteps /\ r.resp[t] # None
        /\ r \in PollerType /\ RecordSound(p, r) /\ p \in setting.loops
    BY <1>1, Local DEF UpdateSunoTask, BillingSteps
  <1>4. t \in Submitted
    BY <1>3 DEF RecordSound
  <1>5. /\ UNCHANGED <<status, complete, setting, upstream, timedOut, fetcher, fund, token, due,
                       silent, faults, crashes>>
        /\ Quota[t] \in Nat /\ delta \in Int
    BY <1>2, TypeFacts DEF UpdateSunoTask, rows, env, charges, fails
  <1>6. ASSUME poller' = [poller EXCEPT ![p] = Bill(r, t, delta, "save")] PROVE TaskInv'
    <2>1. PICK v : v = Bill(r, t, delta, "save")
      OBVIOUS
    <2>2. poller' = [poller EXCEPT ![p] = v]
      BY <1>6, <2>1
    <2>3. /\ v \in PollerType /\ v.pc = IF delta = 0 THEN "save" ELSE "fund"
          /\ v.cur = t /\ v.delta = delta /\ v.back = "save"
          /\ v.todo = r.todo /\ v.batch = r.batch /\ v.seen = r.seen /\ v.resp = r.resp
      <3>1. r \in PollerType /\ delta \in Int
        BY <1>3, <1>5
      <3>2. QED
        BY <2>1, <3>1, BillFacts
    <2>4. RecordSound(p, v)
      BY <1>3, <1>4, <2>3 DEF RecordSound, BillingSteps
    <2>5. Continues(p, t, r, v)
      BY <1>3, <2>3, <2>4 DEF Continues
    <2>6. Touches(t)
      BY <1>5, TypeFacts DEF Touches
    <2>7. ASSUME t \in OrderedTasks PROVE status[t] \in ActiveStatuses /\ Accounts(t)'
      <3>1. status[t] \in ActiveStatuses
        BY <1>1, <1>3, <2>7 DEF TaskInv, Alone
      <3>2. status[t] \notin Terminal /\ status[t] # None /\ ~Billing(p, t)
        BY <1>1, <1>3, <3>1, NotNone DEF Billing
      <3>3. /\ \A x \in Pollers : ~Billing(x, t)
            /\ Clean(t) => fund[t] = Quota[t] /\ token[t] = Quota[t]
        BY <1>3, <2>7, <3>1, <3>2, ActiveUnbilled
      <3>4. due[t] = Quota[t]
        BY <1>3, <2>7, <3>2 DEF TaskInv, Accounts
      <3>5. ASSUME Clean(t)' PROVE Booked(t, v)'
        <4>1. Clean(t)
          BY <1>5, <3>5 DEF Clean
        <4>2. QED
          BY <1>2, <1>5, <2>3, <3>3, <4>1 DEF Booked
      <3>6. v.pc \in BillingSteps /\ v.cur = t
        BY <2>3 DEF BillingSteps
      <3>7. QED
        BY <1>3, <1>5, <2>2, <2>3, <2>7, <3>1, <3>2, <3>3, <3>4, <3>5, <3>6, AccountsMine
    <2>8. t \in OrderedTasks => Kept(t, v)
      BY <1>5, <2>7 DEF Kept
    <2>9. QED
      BY <1>1, <1>4, <2>2, <2>3, <2>5, <2>6, <2>8, TaskStep
  <1>7. ASSUME poller' = [poller EXCEPT ![p] = DoneWith(p, t)] PROVE TaskInv'
    <2>1. PICK q : q = DoneWith(p, t)
      OBVIOUS
    <2>2. /\ q \in PollerType /\ q.pc = "poll" /\ q.todo = r.todo /\ q.batch = r.batch \ {t}
          /\ q.seen = r.seen /\ \A u \in Tasks : q.resp[u] \in {r.resp[u], None}
      BY <1>1, <1>3, <2>1, DoneFacts
    <2>3. RecordSound(p, q) /\ q.pc \notin BillingSteps
      BY <1>3, <2>2 DEF RecordSound, BillingSteps
    <2>4. Continues(p, t, r, q)
      BY <1>3, <2>2, <2>3 DEF Continues
    <2>5. QED
      BY <1>1, <1>3, <1>4, <1>5, <1>7, <2>1, <2>2, <2>3, <2>4, DropStep
  <1>8. QED
    BY <1>1, <1>2, <1>6, <1>7 DEF UpdateSunoTask

LEMMA SaveSunoTaskKeeps ==
    ASSUME TaskInv, NEW p \in Pollers, SaveSunoTask(p) PROVE TaskInv'
  <1>1. PICK r : r = poller[p]
    OBVIOUS
  <1>2. PICK t : t = r.cur
    OBVIOUS
  <1>3. /\ r.pc = "save" /\ r.pc \in BillingSteps /\ r.pc # "idle" /\ r.back = "save"
        /\ r \in PollerType /\ RecordSound(p, r)
    BY <1>1, Local DEF SaveSunoTask, BillingSteps, RecordSound
  <1>4. IsSuno(t) /\ t \in r.batch /\ r.resp[t] # None
    BY <1>2, <1>3 DEF RecordSound
  <1>5. /\ t \in Submitted
        /\ t \in OrderedTasks =>
             /\ \A q \in Pollers : q # p => ~Billing(q, t)
             /\ status[t] # None /\ (IsSuno(t) => due[t] = Quota[t])
             /\ (IsSuno(t) => Clean(t)) => Booked(t, r)
    BY <1>1, <1>2, <1>3, BilledTask
  <1>6. t \in Tasks /\ Quota[t] \in Nat /\ r.resp[t] \in Statuses
    BY <1>1, <1>4, <1>5, TypeFacts, Local
  <1>7. UNCHANGED <<setting, upstream, timedOut, fetcher, fund, token, due, silent, crashes>>
    BY DEF SaveSunoTask, env, charges
  <1>8. PICK q : q = DoneWith(p, t)
    OBVIOUS
  <1>9. /\ q \in PollerType /\ q.todo = r.todo /\ q.batch = r.batch \ {t} /\ q.cur = r.cur
        /\ q.seen = r.seen /\ \A u \in Tasks : q.resp[u] \in {r.resp[u], None}
    BY <1>1, <1>3, <1>6, <1>8, DoneFacts
  <1>10. PICK v : v = [q EXCEPT !.pc = "poll"]
    OBVIOUS
  <1>11. /\ v \in PollerType /\ v.pc = "poll" /\ v.todo = r.todo /\ v.batch = r.batch \ {t}
         /\ v.seen = r.seen /\ \A u \in Tasks : v.resp[u] \in {r.resp[u], None}
    BY <1>9, <1>10, MovedFacts
  <1>12. poller' = [poller EXCEPT ![p] = v]
    BY <1>1, <1>2, <1>8, <1>10 DEF SaveSunoTask
  <1>13. RecordSound(p, v) /\ v.pc \notin BillingSteps
    BY <1>3, <1>11 DEF RecordSound, BillingSteps
  <1>14. Continues(p, t, r, v)
    BY <1>2, <1>3, <1>11, <1>13 DEF Continues
  <1>15. t \notin v.todo \cup v.batch /\ ChannelOf(t) \notin RealtimeChannels
    BY <1>3, <1>4, <1>11, TasksAssumption DEF RecordSound, IsSuno
  <1>16. ASSUME Write(t, r.resp[t]), faults' = faults PROVE TaskInv'
    <2>1. /\ status' \in [Tasks -> Statuses \cup {None}] /\ complete' \in [Tasks -> BOOLEAN]
          /\ status'[t] = r.resp[t] /\ \A u \in Tasks \ {t} : status'[u] = status[u]
      BY <1>6, <1>16, WriteFacts
    <2>2. Touches(t)
      BY <1>7, <1>16, <2>1, TypeFacts DEF Touches
    <2>3. ASSUME t \in OrderedTasks PROVE Accounts(t)'
      <3>1. ASSUME Clean(t)' PROVE Unbilled(t)'
        <4>1. Clean(t)
          BY <1>16, <3>1 DEF Clean
        <4>2. fund[t] = (IF r.resp[t] = "FAILURE" THEN 0 ELSE Quota[t]) /\ token[t] = fund[t]
          BY <1>3, <1>5, <2>3, <4>1 DEF Booked
        <4>3. r.resp[t] \in Terminal => Owed(t)' = fund[t]
          BY <1>4, <1>5, <1>7, <2>1, <2>3, <4>2 DEF Owed, Terminal
        <4>4. QED
          BY <1>6, <1>7, <2>1, <4>2, <4>3, NotNone DEF Unbilled
      <3>2. QED
        BY <1>4, <1>5, <1>7, <1>11, <1>12, <1>13, <2>1, <2>3, <3>1, AccountsMine
    <2>4. t \in OrderedTasks => Kept(t, v)
      BY <1>15, <2>3 DEF Kept
    <2>5. QED
      BY <1>1, <1>5, <1>11, <1>12, <1>14, <2>2, <2>4, TaskStep
  <1>17. ASSUME Fault(t), UNCHANGED rows PROVE TaskInv'
    <2>1. /\ faults' \in [Tasks -> 0..MaxFaults] /\ ~Clean(t)'
          /\ \A u \in Tasks \ {t} : faults'[u] = faults[u]
      BY <1>6, <1>17, FaultFacts
    <2>2. UNCHANGED <<status, complete>>
      BY <1>17 DEF rows
    <2>3. Touches(t)
      BY <1>7, <2>1, <2>2, TypeFacts DEF Touches
    <2>4. ASSUME t \in OrderedTasks PROVE Accounts(t)'
      BY <1>4, <1>5, <1>7, <1>11, <1>12, <1>13, <2>1, <2>2, <2>4, AccountsMine
    <2>5. t \in OrderedTasks => Kept(t, v)
      BY <1>15, <2>4 DEF Kept
    <2>6. QED
      BY <1>1, <1>5, <1>11, <1>12, <1>14, <2>3, <2>5, TaskStep
  <1>18. QED
    BY <1>1, <1>2, <1>16, <1>17 DEF SaveSunoTask

LEMMA TaskBulkUpdateByIDKeeps ==
    ASSUME TaskInv, NEW p \in Pollers, NEW c, TaskBulkUpdateByID(p, c) PROVE TaskInv'
  <1>1. PICK r : r = poller[p]
    OBVIOUS
  <1>2. PICK ts : ts = ToDo(p, c)
    OBVIOUS
  <1>3. PICK v : v = [r EXCEPT !.todo = @ \ ts]
    OBVIOUS
  <1>4. /\ r.pc = "poll" /\ r.batch = {} /\ r \in PollerType /\ RecordSound(p, r)
        /\ p \in setting.loops /\ r.pc \notin BillingSteps
        /\ poller \in [Pollers -> PollerType]
    BY <1>1, Local DEF TaskBulkUpdateByID, Between, BillingSteps
  <1>5. poller' = [poller EXCEPT ![p] = v]
    BY <1>1, <1>2, <1>3, <1>4 DEF TaskBulkUpdateByID
  <1>6. /\ v \in PollerType /\ v.pc = "poll" /\ v.todo = r.todo \ ts /\ v.batch = {}
        /\ v.seen = r.seen /\ v.resp = r.resp
    BY <1>3, <1>4 DEF PollerType
  <1>7. RecordSound(p, v) /\ v.pc \notin BillingSteps
    BY <1>4, <1>6 DEF RecordSound, BillingSteps
  <1>8. ts \subseteq r.todo /\ ts \subseteq Submitted /\ \A t \in ts : ChannelOf(t) = c
    BY <1>1, <1>2, <1>4 DEF ToDo, RecordSound
  <1>9. UNCHANGED <<setting, upstream, timedOut, fetcher, fund, token, due, crashes>>
    BY DEF TaskBulkUpdateByID, env, charges
  <1>10. crashes' \in 0..MaxCrashes /\ \A t \in Tasks : status[t] # None => t \in Submitted
    BY <1>9 DEF TaskInv, ShapeInv, TypeOK
  <1>11. ASSUME NEW t \in OrderedTasks
         PROVE  /\ \A q \in Pollers : /\ Billing(q, t)' <=> Billing(q, t)
                                      /\ Billing(q, t) => poller'[q] = poller[q]
                /\ ~Billing(p, t) /\ ~(v.pc \in BillingSteps /\ v.cur = t)
    <2>1. /\ \A q \in Pollers : q # p => poller'[q] = poller[q]
          /\ \A q \in Pollers : q # p => (Billing(q, t)' <=> Billing(q, t))
          /\ Billing(p, t)' <=> (v.pc \in BillingSteps /\ v.cur = t)
      BY <1>5, <1>6, LoopUpdate DEF TaskInv
    <2>2. ~Billing(p, t)
      BY <1>1, <1>4 DEF Billing
    <2>3. QED
      BY <1>7, <2>1, <2>2
  <1>12. ASSUME status' = [t \in Tasks |-> IF t \in ts THEN "FAILURE" ELSE status[t]],
                complete' = [t \in Tasks |-> t \in ts \/ complete[t]],
                silent' = silent \cup ts, faults' = faults
         PROVE  TaskInv'
    <2>1. /\ status' \in [Tasks -> Statuses \cup {None}] /\ complete' \in [Tasks -> BOOLEAN]
          /\ silent' \subseteq Tasks
          /\ \A t \in Tasks : status'[t] # None => t \in Submitted
      BY <1>8, <1>10, <1>12, TypeFacts DEF Statuses, Terminal
    <2>2. fund' \in [Tasks -> Int] /\ token' \in [Tasks -> Int] /\ due' \in [Tasks -> Int]
          /\ faults' \in [Tasks -> 0..MaxFaults]
      BY <1>9, <1>12, TypeFacts
    <2>3. ASSUME NEW t \in OrderedTasks
          PROVE  /\ ~(setting.timeout \/ setting.vanish \/ setting.errors)
                      /\ ChannelOf(t) \in RealtimeChannels => status'[t] = status[t]
                 /\ IsSuno(t) /\ t \in v.todo \cup v.batch => status'[t] \in ActiveStatuses
                 /\ Accounts(t)'
      <3>1. t \in Tasks
        BY <2>3, TypeFacts
      <3>2. Clean(t)' <=> Clean(t)
        BY <1>12 DEF Clean
      <3>3. CASE t \in ts
        <4>1. status'[t] = "FAILURE" /\ t \in silent' /\ t \notin v.todo \cup v.batch
          BY <1>6, <1>12, <3>1, <3>3
        <4>2. setting.vanish \/ ChannelOf(t) \notin RealtimeChannels
          BY <1>8, <3>3, TasksAssumption DEF TaskBulkUpdateByID
        <4>3. IsSuno(t) => status[t] # None
          BY <1>1, <1>8, <2>3, <3>3, NotNone DEF TaskInv, Alone
        <4>4. Accounts(t)'
          BY <1>9, <1>11, <2>3, <3>2, <4>1, <4>3, AccountsSilent DEF Terminal
        <4>5. QED
          BY <4>1, <4>2, <4>4
      <3>4. CASE t \notin ts
        <4>1. status'[t] = status[t] /\ (t \in silent => t \in silent')
          BY <1>12, <3>1, <3>4
        <4>2. Accounts(t)'
          BY <1>5, <1>6, <1>9, <1>11, <2>3, <3>2, <4>1, AccountsApart
        <4>3. IsSuno(t) /\ t \in v.todo \cup v.batch => status'[t] \in ActiveStatuses
          BY <1>1, <1>6, <2>3, <4>1 DEF TaskInv, Alone
        <4>4. QED
          BY <4>1, <4>2, <4>3
      <3>5. QED
        BY <3>3, <3>4
    <2>4. \A t \in OrderedTasks :
            /\ ~(setting.timeout \/ setting.vanish \/ setting.errors)
                 /\ ChannelOf(t) \in RealtimeChannels =>
                   /\ status'[t] \in Terminal => status'[t] = status[t] \/ status'[t] = upstream[t]
                   /\ v.resp[t] \in Terminal => v.resp[t] = poller[p].resp[t] \/ v.resp[t] = upstream[t]
            /\ IsSuno(t) /\ t \in v.todo \cup v.batch => status'[t] \in ActiveStatuses
            /\ Accounts(t)'
      BY <1>1, <1>6, <2>3
    <2>5. QED
      BY <1>4, <1>5, <1>6, <1>7, <1>9, <1>10, <2>1, <2>2, <2>4, LoopStep
  <1>13. ASSUME NEW t \in ts, Fault(t), UNCHANGED <<rows, silent>> PROVE TaskInv'
    <2>1. t \in Submitted
      BY <1>8
    <2>2. Continues(p, t, r, v)
      BY <1>4, <1>6, <1>7 DEF Continues
    <2>3. UNCHANGED <<status, complete, silent>>
      BY <1>13 DEF rows
    <2>4. QED
      BY <1>1, <1>4, <1>5, <1>6, <1>7, <1>9, <1>13, <2>1, <2>2, <2>3, DropStep
  <1>14. QED
    BY <1>2, <1>12, <1>13 DEF TaskBulkUpdateByID

LEMMA CrashKeeps ==
    ASSUME TaskInv, NEW p \in Pollers, Crash(p) PROVE TaskInv'
  <1>1. PICK r : r = poller[p]
    OBVIOUS
  <1>2. PICK v : v = Idle
    OBVIOUS
  <1>3. r.pc # "idle" /\ p \in setting.loops /\ poller' = [poller EXCEPT ![p] = v]
    BY <1>1, <1>2, Local DEF Crash
  <1>4. /\ v \in PollerType /\ v.pc = "idle" /\ v.todo = {} /\ v.batch = {}
        /\ \A t \in Tasks : v.resp[t] = None
    BY <1>2 DEF Idle, PollerType
  <1>5. RecordSound(p, v) /\ v.pc \notin BillingSteps
    BY <1>4 DEF RecordSound, BillingSteps
  <1>6. UNCHANGED <<status, complete, setting, upstream, timedOut, fetcher, fund, token, due, silent>>
    BY DEF Crash, rows, env, charges
  <1>7. crashes' \in 0..MaxCrashes
    BY TaskAmountsAssumption DEF Crash, TaskInv, ShapeInv, TypeOK
  <1>8. r.pc \in BillingSteps => r.cur \in Submitted /\ r.cur \in Tasks /\ Fault(r.cur)
    BY <1>1, BilledTask, TypeFacts DEF Crash, BillingSteps
  <1>9. r.pc \notin BillingSteps => faults' = faults
    BY <1>1 DEF Crash, BillingSteps
  <1>10. faults' \in [Tasks -> 0..MaxFaults] /\ \A t \in Tasks : Clean(t)' => Clean(t)
    <2>1. CASE r.pc \in BillingSteps
      <3>1. /\ faults' \in [Tasks -> 0..MaxFaults] /\ ~Clean(r.cur)'
            /\ \A u \in Tasks \ {r.cur} : faults'[u] = faults[u]
        BY <1>8, <2>1, FaultFacts
      <3>2. QED
        BY <3>1 DEF Clean
    <2>2. CASE r.pc \notin BillingSteps
      BY <1>9, <2>2, TypeFacts DEF Clean
    <2>3. QED
      BY <2>1, <2>2
  <1>11. ASSUME NEW t \in OrderedTasks PROVE Accounts(t)'
    <2>1. CASE Billing(p, t)
      <3>1. r.pc \in BillingSteps /\ r.cur = t
        BY <1>1, <2>1 DEF Billing
      <3>2. t \in Tasks /\ Quota[t] \in Nat
        BY <1>8, <3>1, TypeFacts
      <3>3. ~Clean(t)'
        BY <1>8, <3>1, FaultFacts
      <3>4. /\ \A q \in Pollers : q # p => ~Billing(q, t)
            /\ status[t] # None /\ (IsSuno(t) => due[t] = Quota[t])
            /\ r.back # "save" => status[t] \in Terminal
            /\ (IsSuno(t) => Clean(t)) => Booked(t, r)
        BY <1>1, <1>11, <3>1, BilledTask
      <3>5. ASSUME ~IsSuno(t) PROVE Unbilled(t)'
        <4>1. r.back # "save" /\ r.pc \in {"fund", "token"}
          BY <1>1, <3>1, <3>5, Local DEF RecordSound, BillingSteps
        <4>2. fund[t] >= 0 /\ token[t] >= 0 /\ status[t] \in Terminal
          BY <3>2, <3>4, <3>5, <4>1 DEF Booked
        <4>3. QED
          BY <1>6, <3>3, <4>2, NotNone DEF Unbilled
      <3>6. QED
        BY <1>3, <1>4, <1>5, <1>6, <1>11, <3>3, <3>4, <3>5, AccountsMine
    <2>2. CASE ~Billing(p, t)
      <3>1. Clean(t)' => Clean(t)
        BY <1>10, <1>11, TypeFacts
      <3>2. QED
        BY <1>3, <1>4, <1>5, <1>6, <1>11, <2>2, <3>1, AccountsApart
    <2>3. QED
      BY <2>1, <2>2
  <1>12. \A t \in OrderedTasks :
           /\ ~(setting.timeout \/ setting.vanish \/ setting.errors)
                /\ ChannelOf(t) \in RealtimeChannels =>
                  /\ status'[t] \in Terminal => status'[t] = status[t] \/ status'[t] = upstream[t]
                  /\ v.resp[t] \in Terminal => v.resp[t] = poller[p].resp[t] \/ v.resp[t] = upstream[t]
           /\ IsSuno(t) /\ t \in v.todo \cup v.batch => status'[t] \in ActiveStatuses
           /\ Accounts(t)'
    BY <1>4, <1>6, <1>11, NotNone, TypeFacts
  <1>13. /\ status' \in [Tasks -> Statuses \cup {None}] /\ complete' \in [Tasks -> BOOLEAN]
         /\ fund' \in [Tasks -> Int] /\ token' \in [Tasks -> Int] /\ due' \in [Tasks -> Int]
         /\ silent' \subseteq Tasks
         /\ \A t \in Tasks : status'[t] # None => t \in Submitted
    BY <1>6, TypeFacts DEF TaskInv, ShapeInv
  <1>14. QED
    BY <1>3, <1>4, <1>5, <1>6, <1>7, <1>10, <1>12, <1>13, LoopStep

-----------------------------------------------------------------------------
(* The steps that are not a loop's *)

\* What a step that leaves the loops alone has to show.
LEMMA OutsideStep ==
    ASSUME TaskInv, UNCHANGED <<setting, poller>>, TypeOK',
           \A t \in Tasks : status'[t] # None => t \in Submitted,
           \A f \in Fetchers : FetchSound(f)',
           \A t \in OrderedTasks : Agrees(t)' /\ Alone(t)' /\ Accounts(t)'
    PROVE  TaskInv'
  <1>1. /\ Submitted' = Submitted /\ OrderedTasks' = OrderedTasks
        /\ \A t : (IsSuno(t)' <=> IsSuno(t)) /\ ChannelOf(t)' = ChannelOf(t)
    BY SettingFacts
  <1>2. ASSUME NEW p \in Pollers PROVE LoopSound(p)'
    <2>1. RecordSound(p, poller[p])
      BY DEF TaskInv, ShapeInv, LoopSound
    <2>2. QED
      BY <1>1, <2>1 DEF LoopSound, RecordSound
  <1>3. QED
    BY <1>1, <1>2 DEF TaskInv, ShapeInv

\* The charges of a task that such a step does not concern.
LEMMA AccountsOutside ==
    ASSUME TaskInv, UNCHANGED <<setting, poller>>, NEW t \in OrderedTasks,
           status'[t] = status[t], fund'[t] = fund[t], token'[t] = token[t], due'[t] = due[t],
           Clean(t)' => Clean(t), t \in silent => t \in silent'
    PROVE  Accounts(t)'
  <1>1. \A p \in Pollers : Billing(p, t)' <=> Billing(p, t)
    BY DEF Billing
  <1>2. Accounts(t)
    BY DEF TaskInv
  <1>3. QED
    BY <1>1, <1>2, AccountsFrame

\* The requests of the users, in a step that leaves them alone.
LEMMA FetchersApart ==
    ASSUME TaskInv, UNCHANGED <<setting, fetcher>>
    PROVE  \A f \in Fetchers : FetchSound(f)'
  BY SettingFacts DEF TaskInv, ShapeInv, FetchSound

LEMMA SubmitKeeps ==
    ASSUME TaskInv, NEW t \in Tasks, Submit(t) PROVE TaskInv'
  <1>1. /\ t \in Submitted /\ status[t] = None /\ fund[t] = 0 /\ Quota[t] \in Nat
        /\ UNCHANGED <<setting, upstream, timedOut, poller, fetcher, silent, crashes>>
    BY TypeFacts DEF Submit, Submitted, env
  <1>2. /\ fund' \in [Tasks -> Int] /\ token' \in [Tasks -> Int] /\ due' \in [Tasks -> Int]
        /\ fund'[t] = Quota[t] /\ token'[t] = Quota[t] /\ due'[t] = Quota[t]
        /\ \A u \in Tasks \ {t} : fund'[u] = fund[u] /\ token'[u] = token[u] /\ due'[u] = due[u]
    BY <1>1, TypeFacts DEF Submit
  <1>3. /\ status' \in [Tasks -> Statuses \cup {None}] /\ complete' \in [Tasks -> BOOLEAN]
        /\ status'[t] \in {None, "NOT_START"} /\ \A u \in Tasks \ {t} : status'[u] = status[u]
        /\ faults' \in [Tasks -> 0..MaxFaults]
        /\ \A u \in Tasks \ {t} : faults'[u] = faults[u]
    <2>1. CASE Write(t, "NOT_START") /\ UNCHANGED faults
      BY <2>1, WriteFacts, TypeFacts, NotNone
    <2>2. CASE Fault(t) /\ UNCHANGED rows
      BY <1>1, <2>2, FaultFacts, TypeFacts DEF rows
    <2>3. QED
      BY <2>1, <2>2 DEF Submit
  <1>4. TypeOK'
    BY <1>1, <1>2, <1>3 DEF TaskInv, ShapeInv, TypeOK
  <1>5. \A u \in Tasks : status'[u] # None => u \in Submitted
    BY <1>1, <1>3 DEF TaskInv, ShapeInv
  <1>6. status'[t] \notin Terminal /\ (status'[t] # None => status'[t] \in ActiveStatuses)
    BY <1>3, NotNone
  <1>7. ASSUME NEW u \in OrderedTasks PROVE Agrees(u)' /\ Alone(u)' /\ Accounts(u)'
    <2>1. u \in Tasks /\ Agrees(u) /\ Alone(u) /\ Accounts(u)
      BY <1>7, TypeFacts DEF TaskInv
    <2>2. (IsSuno(u)' <=> IsSuno(u)) /\ ChannelOf(u)' = ChannelOf(u)
      BY <1>1, SettingFacts
    <2>3. status'[u] \in Terminal => status[u] = status'[u]
      BY <1>3, <1>6, <2>1
    <2>4. Agrees(u)'
      BY <1>1, <2>1, <2>2, <2>3 DEF Agrees
    <2>5. Alone(u)'
      <3>1. status[u] \in ActiveStatuses => status'[u] = status[u]
        BY <1>1, <1>3, <2>1, NotNone
      <3>2. QED
        BY <1>1, <2>1, <2>2, <3>1 DEF Alone
    <2>6. CASE u # t
      <3>1. Clean(u)' <=> Clean(u)
        BY <1>3, <2>1, <2>6 DEF Clean
      <3>2. Accounts(u)'
        BY <1>1, <1>2, <1>3, <1>7, <2>1, <2>6, <3>1, AccountsOutside
      <3>3. QED
        BY <2>4, <2>5, <3>2
    <2>7. CASE u = t
      <3>1. \A p \in Pollers : ~Billing(p, t)'
        BY <1>1, <2>1, <2>7 DEF Accounts, Billing
      <3>2. Unbilled(t)'
        BY <1>2, <1>6 DEF Unbilled
      <3>3. Accounts(t)'
        BY <1>2, <3>1, <3>2 DEF Accounts
      <3>4. QED
        BY <2>4, <2>5, <2>7, <3>3
    <2>8. QED
      BY <2>6, <2>7
  <1>8. QED
    BY <1>1, <1>4, <1>5, <1>7, FetchersApart, OutsideStep

\* A step that changes neither a row nor a charge.
LEMMA CalmStep ==
    ASSUME TaskInv, UNCHANGED <<setting, status, complete, poller, fund, token, due, silent, faults, crashes>>,
           upstream' \in [Tasks -> Statuses], timedOut' \in [Tasks -> BOOLEAN],
           fetcher' \in [Fetchers -> FetcherType], \A f \in Fetchers : FetchSound(f)',
           \A t \in OrderedTasks : Agrees(t)'
    PROVE  TaskInv'
  <1>1. TypeOK'
    BY DEF TaskInv, ShapeInv, TypeOK
  <1>2. ASSUME NEW t \in OrderedTasks PROVE Alone(t)' /\ Accounts(t)'
    <2>1. Accounts(t)'
      BY <1>2, AccountsOutside DEF Clean
    <2>2. Alone(t)'
      BY SettingFacts DEF TaskInv, Alone
    <2>3. QED
      BY <2>1, <2>2
  <1>3. \A t \in Tasks : status'[t] # None => t \in Submitted
    BY DEF TaskInv, ShapeInv
  <1>4. QED
    BY <1>1, <1>2, <1>3, OutsideStep

LEMMA TimeOutKeeps ==
    ASSUME TaskInv, NEW t \in Tasks, TimeOut(t) PROVE TaskInv'
  <1>1. UNCHANGED <<setting, status, complete, upstream, poller, fetcher, fund, token, due, silent,
                    faults, crashes>>
    BY DEF TimeOut, rows, charges, fails
  <1>2. /\ timedOut' \in [Tasks -> BOOLEAN] /\ upstream' \in [Tasks -> Statuses]
        /\ fetcher' \in [Fetchers -> FetcherType]
    BY <1>1 DEF TimeOut, TaskInv, ShapeInv, TypeOK
  <1>3. \A u \in OrderedTasks : Agrees(u)'
    BY <1>1, SettingFacts DEF TaskInv, Agrees
  <1>4. QED
    BY <1>1, <1>2, <1>3, FetchersApart, CalmStep

LEMMA UpstreamMovesKeeps ==
    ASSUME TaskInv, NEW t \in Tasks, NEW s \in Statuses, UpstreamMoves(t, s) PROVE TaskInv'
  <1>1. /\ UNCHANGED <<setting, status, complete, timedOut, poller, fetcher, fund, token, due, silent,
                       faults, crashes>>
        /\ upstream[t] \notin Terminal
    BY DEF UpstreamMoves, rows, charges, fails
  <1>2. /\ timedOut' \in [Tasks -> BOOLEAN] /\ upstream' \in [Tasks -> Statuses]
        /\ fetcher' \in [Fetchers -> FetcherType]
        /\ \A u \in Tasks \ {t} : upstream'[u] = upstream[u]
    BY <1>1 DEF UpstreamMoves, TaskInv, ShapeInv, TypeOK
  <1>3. ASSUME NEW u \in OrderedTasks PROVE Agrees(u)'
    <2>1. u \in Tasks /\ Agrees(u) /\ ChannelOf(u)' = ChannelOf(u)
      BY <1>1, <1>3, TypeFacts, SettingFacts DEF TaskInv
    <2>2. upstream[u] \in Terminal => upstream'[u] = upstream[u]
      BY <1>1, <1>2, <2>1
    <2>3. QED
      BY <1>1, <2>1, <2>2 DEF Agrees
  <1>4. QED
    BY <1>1, <1>2, <1>3, FetchersApart, CalmStep

LEMMA FetchLoadKeeps ==
    ASSUME TaskInv, NEW f \in Fetchers, NEW t \in Tasks, FetchLoad(f, t) PROVE TaskInv'
  <1>1. PICK v : v = [task |-> t, seen |-> status[t], resp |-> None]
    OBVIOUS
  <1>2. /\ UNCHANGED <<setting, status, complete, upstream, timedOut, poller, fund, token, due, silent,
                       faults, crashes>>
        /\ f \in setting.fetchers /\ status[t] # None /\ ChannelOf(t) \in RealtimeChannels
        /\ fetcher' = [fetcher EXCEPT ![f] = v]
    BY <1>1 DEF FetchLoad, rows, env, charges, fails
  <1>3. v \in FetcherType /\ v.task = t /\ v.seen = status[t] /\ v.resp = None
    BY <1>1, TypeFacts DEF FetcherType
  <1>4. fetcher \in [Fetchers -> FetcherType]
    BY DEF TaskInv, ShapeInv, TypeOK
  <1>5. /\ timedOut' \in [Tasks -> BOOLEAN] /\ upstream' \in [Tasks -> Statuses]
        /\ fetcher' \in [Fetchers -> FetcherType] /\ fetcher'[f] = v
        /\ \A g \in Fetchers : g # f => fetcher'[g] = fetcher[g]
    BY <1>2, <1>3, <1>4 DEF TaskInv, ShapeInv, TypeOK
  <1>6. t \in Submitted /\ t # None
    BY <1>2, TasksAssumption DEF TaskInv, ShapeInv
  <1>7. ASSUME NEW g \in Fetchers PROVE FetchSound(g)'
    <2>1. Submitted' = Submitted /\ \A u : ChannelOf(u)' = ChannelOf(u)
      BY <1>2, SettingFacts
    <2>2. FetchSound(g)
      BY DEF TaskInv, ShapeInv
    <2>3. QED
      BY <1>2, <1>3, <1>5, <1>6, <2>1, <2>2 DEF FetchSound
  <1>8. ASSUME NEW u \in OrderedTasks PROVE Agrees(u)'
    <2>1. Agrees(u) /\ ChannelOf(u)' = ChannelOf(u)
      BY <1>2, <1>8, SettingFacts DEF TaskInv
    <2>2. v.task = u => v.resp \notin Terminal /\ v.seen = status[u] /\ v.resp = None
      BY <1>3, NotNone
    <2>3. QED
      BY <1>2, <1>5, <2>1, <2>2 DEF Agrees
  <1>9. QED
    BY <1>2, <1>5, <1>7, <1>8, CalmStep

\* A request of a user ends.
LEMMA FetchEnds ==
    ASSUME TaskInv, NEW f \in Fetchers, fetcher' = [fetcher EXCEPT ![f] = NoFetch]
    PROVE  /\ fetcher' \in [Fetchers -> FetcherType]
           /\ fetcher'[f].task = None /\ fetcher'[f].resp = None
           /\ \A g \in Fetchers : g # f => fetcher'[g] = fetcher[g]
  <1>1. fetcher \in [Fetchers -> FetcherType]
    BY DEF TaskInv, ShapeInv, TypeOK
  <1>2. NoFetch \in FetcherType /\ NoFetch.task = None /\ NoFetch.resp = None
    BY DEF NoFetch, FetcherType
  <1>3. QED
    BY <1>1, <1>2

LEMMA FetchAnswerKeeps ==
    ASSUME TaskInv, NEW f \in Fetchers, FetchAnswer(f) PROVE TaskInv'
  <1>1. /\ UNCHANGED <<setting, status, complete, upstream, timedOut, poller, fund, token, due, silent,
                       faults, crashes>>
        /\ fetcher[f].task # None
    BY DEF FetchAnswer, rows, env, charges, fails
  <1>2. timedOut' \in [Tasks -> BOOLEAN] /\ upstream' \in [Tasks -> Statuses]
    BY <1>1 DEF TaskInv, ShapeInv, TypeOK
  <1>3. fetcher \in [Fetchers -> FetcherType] /\ fetcher[f].task \in Tasks
    BY <1>1 DEF TaskInv, ShapeInv, TypeOK, FetcherType
  <1>4. Submitted' = Submitted /\ \A u : ChannelOf(u)' = ChannelOf(u)
    BY <1>1, SettingFacts
  <1>5. ASSUME NEW a \in Answers(fetcher[f].task), fetcher' = [fetcher EXCEPT ![f].resp = a]
        PROVE  TaskInv'
    <2>1. a \in Statuses
      BY <1>3 DEF Answers, TaskInv, ShapeInv, TypeOK, Statuses, Terminal
    <2>2. PICK r : r = fetcher[f]
      OBVIOUS
    <2>3. PICK v : v = [r EXCEPT !.resp = a]
      OBVIOUS
    <2>4. v \in FetcherType /\ v.task = r.task /\ v.seen = r.seen /\ v.resp = a
      BY <1>3, <2>1, <2>2, <2>3 DEF FetcherType
    <2>5. fetcher' = [fetcher EXCEPT ![f] = v]
      BY <1>3, <1>5, <2>2, <2>3
    <2>6. /\ fetcher' \in [Fetchers -> FetcherType] /\ fetcher'[f] = v
          /\ \A g \in Fetchers : g # f => fetcher'[g] = fetcher[g]
      BY <1>3, <2>4, <2>5
    <2>7. ASSUME NEW g \in Fetchers PROVE FetchSound(g)'
      <3>1. FetchSound(g)
        BY DEF TaskInv, ShapeInv
      <3>2. QED
        BY <1>1, <1>4, <2>2, <2>4, <2>6, <3>1 DEF FetchSound
    <2>8. ASSUME NEW u \in OrderedTasks PROVE Agrees(u)'
      <3>1. Agrees(u)
        BY <2>8 DEF TaskInv
      <3>2. ~setting.errors /\ r.task = u => a = upstream[u]
        BY <1>5, <2>2 DEF Answers
      <3>3. QED
        BY <1>1, <1>4, <2>2, <2>4, <2>6, <3>1, <3>2 DEF Agrees
    <2>9. QED
      BY <1>1, <1>2, <2>6, <2>7, <2>8, CalmStep
  <1>6. ASSUME fetcher' = [fetcher EXCEPT ![f] = NoFetch] PROVE TaskInv'
    <2>1. /\ fetcher' \in [Fetchers -> FetcherType]
          /\ fetcher'[f].task = None /\ fetcher'[f].resp = None
          /\ \A g \in Fetchers : g # f => fetcher'[g] = fetcher[g]
      BY <1>6, FetchEnds
    <2>2. ASSUME NEW g \in Fetchers PROVE FetchSound(g)'
      <3>1. FetchSound(g)
        BY DEF TaskInv, ShapeInv
      <3>2. QED
        BY <1>1, <1>4, <2>1, <3>1 DEF FetchSound
    <2>3. ASSUME NEW u \in OrderedTasks PROVE Agrees(u)'
      <3>1. Agrees(u) /\ u # None
        BY <2>3, TypeFacts, TasksAssumption DEF TaskInv
      <3>2. QED
        BY <1>1, <1>4, <2>1, <3>1 DEF Agrees
    <2>4. QED
      BY <1>1, <1>2, <2>1, <2>2, <2>3, CalmStep
  <1>7. QED
    BY <1>5, <1>6 DEF FetchAnswer

LEMMA TryRealtimeFetchKeeps ==
    ASSUME TaskInv, NEW f \in Fetchers, TryRealtimeFetch(f)
    PROVE  /\ TaskInv'
           /\ \A u \in OrderedTasks : status[u] \in Terminal => status'[u] = status[u]
  <1>1. PICK r : r = fetcher[f]
    OBVIOUS
  <1>2. PICK t : t = r.task
    OBVIOUS
  <1>3. PICK s : s = r.resp
    OBVIOUS
  <1>4. /\ UNCHANGED <<setting, upstream, timedOut, poller, fund, token, due, crashes>>
        /\ fetcher' = [fetcher EXCEPT ![f] = NoFetch] /\ s # None
    BY <1>1, <1>3 DEF TryRealtimeFetch, env, charges
  <1>5. /\ r \in FetcherType /\ FetchSound(f)
    BY <1>1 DEF TaskInv, ShapeInv, TypeOK
  <1>6. /\ f \in setting.fetchers /\ t \in Submitted /\ t \in Tasks /\ t # None
        /\ ChannelOf(t) \in RealtimeChannels /\ r.seen # None /\ s \in Statuses
        /\ r.seen \in Statuses
    BY <1>1, <1>2, <1>3, <1>4, <1>5, TypeFacts, TasksAssumption DEF FetchSound, FetcherType
  <1>7. /\ fetcher' \in [Fetchers -> FetcherType]
        /\ fetcher'[f].task = None /\ fetcher'[f].resp = None
        /\ \A g \in Fetchers : g # f => fetcher'[g] = fetcher[g]
    BY <1>4, FetchEnds
  <1>8. Submitted' = Submitted /\ \A u : ChannelOf(u)' = ChannelOf(u) /\ (IsSuno(u)' <=> IsSuno(u))
    BY <1>4, SettingFacts
  <1>9. ~IsSuno(t)
    BY <1>6, TasksAssumption DEF IsSuno
  <1>10. ASSUME NEW g \in Fetchers PROVE FetchSound(g)'
    <2>1. FetchSound(g)
      BY DEF TaskInv, ShapeInv
    <2>2. QED
      BY <1>4, <1>7, <1>8, <2>1 DEF FetchSound
  <1>11. ASSUME t \in OrderedTasks
         PROVE  /\ s \in Terminal => upstream[t] = s
                /\ r.seen \in Terminal => s = r.seen
    <2>1. ~(setting.timeout \/ setting.vanish \/ setting.errors)
      BY <1>6, <1>11 DEF OrderedTasks, Ordered
    <2>2. QED
      BY <1>1, <1>2, <1>3, <1>4, <1>6, <1>11, <2>1 DEF TaskInv, Agrees
  <1>12. ASSUME status' \in [Tasks -> Statuses \cup {None}], complete' \in [Tasks -> BOOLEAN],
                silent' \subseteq Tasks, faults' \in [Tasks -> 0..MaxFaults],
                \A u \in Tasks \ {t} : /\ status'[u] = status[u] /\ (u \in silent => u \in silent')
                                       /\ faults'[u] = faults[u],
                t \in OrderedTasks => Accounts(t)' /\ (status'[t] = status[t] \/ status'[t] = s)
         PROVE  TaskInv'
    <2>1. TypeOK'
      BY <1>4, <1>7, <1>12 DEF TaskInv, ShapeInv, TypeOK
    <2>2. \A u \in Tasks : status'[u] # None => u \in Submitted
      BY <1>6, <1>12 DEF TaskInv, ShapeInv
    <2>3. ASSUME NEW u \in OrderedTasks PROVE Agrees(u)' /\ Alone(u)' /\ Accounts(u)'
      <3>1. /\ Agrees(u) /\ Alone(u) /\ Accounts(u) /\ u \in Tasks /\ u # None
        BY <2>3, TypeFacts, TasksAssumption DEF TaskInv
      <3>2. status'[u] \in Terminal => status'[u] = status[u] \/ upstream[u] = status'[u]
        BY <1>11, <1>12, <2>3, <3>1
      <3>3. Agrees(u)'
        BY <1>4, <1>7, <1>8, <3>1, <3>2 DEF Agrees
      <3>4. Alone(u)'
        BY <1>4, <1>8, <1>9, <1>12, <3>1 DEF Alone
      <3>5. u # t => Accounts(u)'
        <4>1. u # t => (Clean(u)' <=> Clean(u))
          BY <1>12, <3>1 DEF Clean
        <4>2. QED
          BY <1>4, <1>12, <2>3, <3>1, <4>1, AccountsOutside
      <3>6. QED
        BY <1>12, <2>3, <3>3, <3>4, <3>5
    <2>4. QED
      BY <1>4, <1>10, <2>1, <2>2, <2>3, OutsideStep
  <1>13. ASSUME s # r.seen, UpdateWithStatus(t, r.seen, s),
                silent' = IF s \in Terminal THEN silent \cup {t} ELSE silent, faults' = faults
         PROVE  /\ TaskInv'
                /\ \A u \in OrderedTasks : status[u] \in Terminal => status'[u] = status[u]
    <2>1. /\ status' \in [Tasks -> Statuses \cup {None}] /\ complete' \in [Tasks -> BOOLEAN]
          /\ status'[t] = s /\ \A u \in Tasks \ {t} : status'[u] = status[u]
          /\ status[t] = r.seen
      BY <1>6, <1>13, WriteFacts DEF UpdateWithStatus
    <2>2. /\ silent' \subseteq Tasks /\ silent \subseteq silent'
          /\ faults' \in [Tasks -> 0..MaxFaults] /\ (Clean(t)' <=> Clean(t))
      BY <1>6, <1>13, TypeFacts DEF Clean
    <2>3. ASSUME t \in OrderedTasks PROVE Accounts(t)' /\ status[t] \notin Terminal
      <3>1. status[t] \in ActiveStatuses /\ status[t] \notin Terminal
        BY <1>6, <1>11, <1>13, <2>1, <2>3, NotNone
      <3>2. \A q \in Pollers : (Billing(q, t)' <=> Billing(q, t)) /\ poller'[q] = poller[q]
        BY <1>4 DEF Billing
      <3>3. CASE s \in Terminal
        <4>1. t \in silent'
          BY <1>13, <3>3
        <4>2. Accounts(t)'
          BY <1>4, <1>9, <2>1, <2>2, <2>3, <3>2, <3>3, <4>1, AccountsSilent
        <4>3. QED
          BY <3>1, <4>2
      <3>4. CASE s \notin Terminal
        <4>1. \A q \in Pollers : ~Billing(q, t)
          BY <1>9, <2>3, <3>1, BillerKnown
        <4>2. fund[t] = Quota[t] /\ token[t] = Quota[t]
          BY <1>9, <2>3, <3>1, <4>1 DEF TaskInv, Accounts, Unbilled
        <4>3. Unbilled(t)'
          BY <1>4, <2>1, <3>4, <4>2 DEF Unbilled
        <4>4. Accounts(t)'
          BY <1>4, <1>8, <1>9, <2>1, <3>2, <4>1, <4>3 DEF Accounts
        <4>5. QED
          BY <3>1, <4>4
      <3>5. QED
        BY <3>3, <3>4
    <2>4. TaskInv'
      BY <1>12, <1>13, <2>1, <2>2, <2>3
    <2>5. QED
      BY <2>1, <2>3, <2>4, TypeFacts
  <1>14. ASSUME UNCHANGED <<rows, silent>>, faults' = faults \/ Fault(t)
         PROVE  /\ TaskInv'
                /\ \A u \in OrderedTasks : status[u] \in Terminal => status'[u] = status[u]
    <2>1. UNCHANGED <<status, complete, silent>>
      BY <1>14 DEF rows
    <2>2. /\ faults' \in [Tasks -> 0..MaxFaults] /\ (Clean(t)' => Clean(t))
          /\ \A u \in Tasks \ {t} : faults'[u] = faults[u]
      BY <1>6, <1>14, TypeFacts, FaultFacts DEF Clean
    <2>3. t \in OrderedTasks => Accounts(t)'
      BY <1>4, <2>1, <2>2, AccountsOutside
    <2>4. status' \in [Tasks -> Statuses \cup {None}] /\ complete' \in [Tasks -> BOOLEAN]
          /\ silent' \subseteq Tasks
      BY <2>1, TypeFacts
    <2>5. QED
      BY <1>12, <2>1, <2>2, <2>3, <2>4
  <1>15. QED
    BY <1>1, <1>2, <1>3, <1>13, <1>14 DEF TryRealtimeFetch

-----------------------------------------------------------------------------
(* The theorems *)

LEMMA InitTaskInv ==
    ASSUME Init PROVE TaskInv
  <1>1. Idle \in PollerType /\ Idle.pc = "idle" /\ Idle.todo = {} /\ Idle.batch = {}
        /\ \A t \in Tasks : Idle.resp[t] = None
    BY DEF Idle, PollerType
  <1>2. NoFetch \in FetcherType /\ NoFetch.task = None /\ NoFetch.resp = None
    BY DEF NoFetch, FetcherType
  <1>3. TypeOK
    BY <1>1, <1>2, TaskAmountsAssumption, NotNone DEF Init, TypeOK
  <1>4. \A t \in Tasks : status[t] = None
    BY DEF Init
  <1>5. ASSUME NEW p \in Pollers PROVE LoopSound(p)
    <2>1. poller[p] = Idle
      BY DEF Init
    <2>2. QED
      BY <1>1, <2>1 DEF LoopSound, RecordSound, BillingSteps
  <1>6. ASSUME NEW f \in Fetchers PROVE FetchSound(f)
    BY <1>2 DEF Init, FetchSound
  <1>7. ShapeInv
    BY <1>3, <1>4, <1>5, <1>6 DEF ShapeInv
  <1>8. ASSUME NEW t \in OrderedTasks PROVE Agrees(t) /\ Alone(t) /\ Accounts(t)
    <2>1. t \in Tasks /\ t # None
      BY <1>7, OrderedIsTask, TasksAssumption
    <2>2. /\ status[t] = None /\ fund[t] = 0 /\ token[t] = 0
          /\ \A p \in Pollers : poller[p] = Idle
          /\ \A f \in Fetchers : fetcher[f] = NoFetch
      BY <2>1 DEF Init
    <2>3. \A p \in Pollers : ~Billing(p, t)
      BY <1>1, <2>2 DEF Billing, BillingSteps
    <2>4. Agrees(t)
      BY <1>1, <1>2, <2>1, <2>2, NotNone DEF Agrees
    <2>5. Alone(t)
      BY <1>1, <2>2 DEF Alone
    <2>6. Accounts(t)
      BY <2>2, <2>3, NotNone DEF Accounts, Unbilled
    <2>7. QED
      BY <2>4, <2>5, <2>6
  <1>9. QED
    BY <1>7, <1>8 DEF TaskInv

LEMMA NextTaskInv ==
    ASSUME TaskInv, [Next]_vars PROVE TaskInv'
  <1>1. ASSUME NEW p \in Pollers, PollerStep(p) \/ Crash(p) PROVE TaskInv'
    BY <1>1, TaskAdjustFundingKeeps, TaskAdjustTokenQuotaKeeps, LoadTimedOutKeeps,
       LoadUnfinishedKeeps, SweepTaskKeeps, FetchVideoKeeps, UpdateVideoSingleTaskKeeps,
       UpdateSunoTaskKeeps, OpenChannelKeeps, TaskBulkUpdateByIDKeeps, FetchSunoKeeps,
       SaveSunoTaskKeeps, EndRoundKeeps, CrashKeeps DEF PollerStep
  <1>2. ASSUME NEW f \in Fetchers, FetcherStep(f) PROVE TaskInv'
    BY <1>2, FetchLoadKeeps, FetchAnswerKeeps, TryRealtimeFetchKeeps DEF FetcherStep
  <1>3. ASSUME UNCHANGED vars PROVE TaskInv'
    <2>1. /\ UNCHANGED <<setting, status, complete, upstream, timedOut, poller, fetcher, fund, token,
                         due, silent, faults, crashes>>
      BY <1>3 DEF vars
    <2>2. /\ timedOut' \in [Tasks -> BOOLEAN] /\ upstream' \in [Tasks -> Statuses]
          /\ fetcher' \in [Fetchers -> FetcherType]
      BY <2>1 DEF TaskInv, ShapeInv, TypeOK
    <2>3. \A u \in OrderedTasks : Agrees(u)'
      BY <2>1, SettingFacts DEF TaskInv, Agrees
    <2>4. QED
      BY <2>1, <2>2, <2>3, FetchersApart, CalmStep
  <1>4. QED
    BY <1>1, <1>2, <1>3, SubmitKeeps, TimeOutKeeps, UpstreamMovesKeeps DEF Next

\* Every variable keeps its type; a loop works only on rows it loaded in an active
\* status.
THEOREM TaskTypeCorrect == Spec => []TypeOK
  <1>1. TaskInv => TypeOK
    BY DEF TaskInv, ShapeInv
  <1>2. QED
    BY <1>1, InitTaskInv, NextTaskInv, PTL DEF Spec

\* However the sweep, the polls of several processes and late answers interleave, a
\* task that nobody bills has been charged exactly what its status asks for
\* (sweepTimedOutTasks, updateVideoSingleTask, updateSunoTasks, RefundTaskQuota,
\* RecalculateTaskQuota): whatever the number of tasks, loops and rounds.
THEOREM OutcomeChargedHolds == Spec => []OutcomeCharged
  <1>1. ASSUME TaskInv PROVE OutcomeCharged
    <2> SUFFICES ASSUME NEW t \in OrderedTasks, status[t] # None, Clean(t), t \notin silent,
                        \A p \in Pollers : ~Billing(p, t)
                 PROVE  fund[t] = Owed(t) /\ token[t] = Owed(t)
      BY DEF OutcomeCharged
    <2>1. Unbilled(t) /\ t \in Tasks /\ status[t] \in Statuses
      BY <1>1, TypeFacts DEF TaskInv, Accounts
    <2>2. status[t] \in ActiveStatuses => Owed(t) = Quota[t]
      BY NotNone DEF Owed
    <2>3. QED
      BY <2>1, <2>2, NotNone DEF Unbilled
  <1>2. QED
    BY <1>1, InitTaskInv, NextTaskInv, PTL DEF Spec

\* Whatever statement fails and wherever a process stops, a task is never refunded
\* more than it was charged (RefundTaskQuota, taskAdjustFunding, taskAdjustTokenQuota).
THEOREM NeverOverRefundedHolds == Spec => []NeverOverRefunded
  <1>1. ASSUME TaskInv PROVE NeverOverRefunded
    <2>1. ASSUME NEW t \in OrderedTasks, ~(IsSuno(t) /\ ~Clean(t))
          PROVE  fund[t] >= 0 /\ token[t] >= 0
      <3>1. /\ Accounts(t) /\ t \in Tasks /\ status[t] \in Statuses \cup {None}
            /\ Quota[t] \in Nat
        BY <1>1, <2>1, TypeFacts DEF TaskInv
      <3>2. CASE \A p \in Pollers : ~Billing(p, t)
        BY <2>1, <3>1, <3>2, NotNone DEF Accounts, Unbilled
      <3>3. ASSUME NEW p \in Pollers, Billing(p, t) PROVE fund[t] >= 0 /\ token[t] >= 0
        <4>1. Booked(t, poller[p]) /\ poller[p].pc \in {"fund", "token", "save"}
          BY <2>1, <3>1, <3>3 DEF Accounts, Billing, BillingSteps
        <4>2. QED
          BY <3>1, <4>1 DEF Booked
      <3>4. QED
        BY <3>2, <3>3
    <2>2. QED
      BY <1>1, <2>1 DEF NeverOverRefunded, TaskInv, ShapeInv
  <1>2. QED
    BY <1>1, InitTaskInv, NextTaskInv, PTL DEF Spec

\* An ended task stays ended: no loop, no user's fetch and no late answer rewrites an
\* outcome, but for the bulk failure of a channel's tasks (Task.UpdateWithStatus,
\* Task.Update, TaskBulkUpdateByID).
THEOREM EndedStaysEndedHolds == Spec => EndedStaysEnded
  <1> DEFINE Keeps == \A t \in OrderedTasks : status[t] \in Terminal /\ status'[t] # status[t] =>
                         t \in silent'
  <1>1. ASSUME TaskInv, [Next]_vars PROVE Keeps
    <2> SUFFICES ASSUME NEW u \in OrderedTasks, status[u] \in Terminal, status'[u] # status[u]
                 PROVE  u \in silent'
      OBVIOUS
    <2>1. u \in Tasks /\ status \in [Tasks -> Statuses \cup {None}]
      BY <1>1, TypeFacts
    <2>3. ASSUME NEW p \in Pollers, NEW t \in Tasks, SweepTask(p, t) PROVE u \in silent'
      <3>1. PICK r : r = poller[p]
        OBVIOUS
      <3>2. t \in r.todo /\ RecordSound(p, r)
        BY <1>1, <2>3, <3>1, Local DEF SweepTask
      <3>3. r.seen[t] \in ActiveStatuses
        BY <3>2 DEF RecordSound
      <3>4. status' = status \/ (status[t] = r.seen[t] /\ status' = [status EXCEPT ![t] = "FAILURE"])
        BY <1>1, <2>3, <3>1, Local DEF SweepTask, UpdateWithStatus, Write, rows, PollerType
      <3>5. QED
        BY <2>1, <3>3, <3>4, NotNone
    <2>4. ASSUME NEW p \in Pollers, NEW t \in Tasks, UpdateVideoSingleTask(p, t) PROVE u \in silent'
      <3>1. PICK r : r = poller[p]
        OBVIOUS
      <3>2. t \in r.batch /\ RecordSound(p, r)
        BY <1>1, <2>4, <3>1, Local DEF UpdateVideoSingleTask
      <3>3. r.seen[t] \in ActiveStatuses
        BY <3>2 DEF RecordSound
      <3>4. status' = status \/ (status[t] = r.seen[t] /\ status' = [status EXCEPT ![t] = r.resp[t]])
        BY <2>4, <3>1 DEF UpdateVideoSingleTask, UpdateWithStatus, Write, rows
      <3>5. QED
        BY <2>1, <3>3, <3>4, NotNone
    <2>5. ASSUME NEW p \in Pollers, SaveSunoTask(p) PROVE u \in silent'
      <3>1. PICK r : r = poller[p]
        OBVIOUS
      <3>2. r.pc = "save" /\ r.pc \in BillingSteps /\ RecordSound(p, r)
        BY <1>1, <2>5, <3>1, Local DEF SaveSunoTask, BillingSteps
      <3>3. IsSuno(r.cur) /\ r.cur \in r.batch
        BY <3>2 DEF RecordSound
      <3>4. status' = status \/ status' = [status EXCEPT ![r.cur] = r.resp[r.cur]]
        BY <2>5, <3>1 DEF SaveSunoTask, Write, rows
      <3>5. u = r.cur => status[u] \in ActiveStatuses
        BY <1>1, <3>1, <3>3 DEF TaskInv, Alone
      <3>6. QED
        BY <2>1, <3>4, <3>5, NotNone
    <2>6. ASSUME NEW p \in Pollers, NEW c, TaskBulkUpdateByID(p, c) PROVE u \in silent'
      BY <2>1, <2>6 DEF TaskBulkUpdateByID, rows
    <2>7. ASSUME NEW f \in Fetchers, TryRealtimeFetch(f) PROVE u \in silent'
      BY <1>1, <2>7, TryRealtimeFetchKeeps
    <2>8. ASSUME NEW t \in Tasks, Submit(t) PROVE u \in silent'
      BY <2>1, <2>8, NotNone DEF Submit, Write, rows
    <2>9. ASSUME UNCHANGED rows PROVE u \in silent'
      BY <2>9 DEF rows
    <2>10. ASSUME NEW p \in Pollers, PollerStep(p) \/ Crash(p) PROVE u \in silent'
      BY <2>3, <2>4, <2>5, <2>6, <2>9, <2>10
         DEF PollerStep, Crash, TaskAdjustFunding, TaskAdjustTokenQuota, LoadTimedOut,
             LoadUnfinished, FetchVideo, UpdateSunoTask, OpenChannel, FetchSuno, EndRound
    <2>11. ASSUME NEW f \in Fetchers, FetcherStep(f) PROVE u \in silent'
      BY <2>7, <2>9, <2>11 DEF FetcherStep, FetchLoad, FetchAnswer
    <2>12. ASSUME NEW t \in Tasks, TimeOut(t) \/ \E s \in Statuses : UpstreamMoves(t, s)
           PROVE  u \in silent'
      BY <2>9, <2>12 DEF TimeOut, UpstreamMoves
    <2>13. ASSUME UNCHANGED vars PROVE u \in silent'
      BY <2>13 DEF vars
    <2>14. QED
      BY <1>1, <2>8, <2>10, <2>11, <2>12, <2>13 DEF Next
  <1>2. TaskInv /\ [Next]_vars => [Keeps]_vars
    BY <1>1
  <1>3. QED
    BY <1>2, InitTaskInv, NextTaskInv, PTL DEF Spec, EndedStaysEnded
=============================================================================
