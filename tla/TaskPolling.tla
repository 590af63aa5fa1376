---------------------------- MODULE TaskPolling ----------------------------
(***************************************************************************)
(* Asynchronous tasks (service/task_polling.go, service/task_billing.go,   *)
(* model/task.go, relay/relay_task.go).  A task is charged when it is      *)
(* submitted.  Every master node runs TaskPollingLoop: it fails the tasks  *)
(* that timed out, then asks the upstream for the others, writes the new   *)
(* status to the task's row and, when the task ended, refunds it or        *)
(* settles the difference to its actual cost.  A user's GET of a Gemini or *)
(* Vertex task also asks the upstream and writes the row.                  *)
(*                                                                         *)
(* A loop works on the rows it loaded at the start of the round; the rows  *)
(* change under it.  Each statement is a step, and may fail (a fault).     *)
(***************************************************************************)
EXTENDS Integers, FiniteSets

CONSTANTS
    Tasks,
    Pollers,            \* processes that may run TaskPollingLoop
    Fetchers,           \* user requests that may be served by tryRealtimeFetch
    Channels,           \* channels of tasks that have an upstream id
    SunoChannels,       \* polled in batches by updateSunoTasks
    RealtimeChannels,   \* Gemini and Vertex
    Settings,           \* the deployments: see the variable setting
    Legacy,             \* tasks submitted before legacyTaskCutoff
    Quota,              \* task.Quota, what was charged at submission
    Actuals,            \* actual costs computed on success; 0 = keep the charge
    ActiveStatuses,     \* the statuses of a running task, NOT_START among them
    MaxFaults,          \* bound: failing statements per task
    MaxCrashes          \* bound: crashes

NoChannel == "no channel"
Terminal == {"SUCCESS", "FAILURE"}
Statuses == ActiveStatuses \cup Terminal
None == "none"

ASSUME TasksAssumption ==
    /\ SunoChannels \subseteq Channels /\ RealtimeChannels \subseteq Channels
    /\ SunoChannels \cap RealtimeChannels = {}
    /\ NoChannel \notin Channels
    /\ Legacy \subseteq Tasks /\ None \notin Tasks

ASSUME FiniteAssumption == IsFiniteSet(Pollers)

ASSUME TaskSettingsAssumption ==
    \A g \in Settings :
        /\ DOMAIN g.channelOf \subseteq Tasks
        /\ \A t \in DOMAIN g.channelOf : g.channelOf[t] \in Channels \cup {NoChannel}
        /\ g.loops \subseteq Pollers /\ g.fetchers \subseteq Fetchers
        /\ {g.timeout, g.vanish, g.errors} \subseteq BOOLEAN

ASSUME TaskAmountsAssumption ==
    /\ Quota \in [Tasks -> Nat] /\ Actuals \subseteq Nat
    /\ MaxFaults \in Nat /\ MaxCrashes \in Nat

ASSUME StatusAssumption ==
    /\ "NOT_START" \in ActiveStatuses
    /\ ActiveStatuses \cap (Terminal \cup {None}) = {}

VARIABLES
    setting,    \* never changes: the submitted tasks' channels (channelOf), the
                \* processes that poll (loops), the users that fetch (fetchers),
                \* TaskTimeoutMinutes > 0 (timeout), CacheGetChannel may fail
                \* (vanish), the upstream may answer with an error (errors)
    status,     \* the status column, None before the row is inserted
    complete,   \* progress = "100%"
    upstream,   \* the status of the task at the provider
    timedOut,   \* submit_time is before the cutoff
    poller,     \* the local state of each polling loop
    fetcher,    \* the local state of each user request
    fund,       \* history: net amount taken from the funding source
    token,      \* history: net amount taken from the token
    due,        \* history: the cost a settlement aimed at
    silent,     \* history: tasks whose row was ended by a write without billing
    faults,     \* history: failing statements of each task
    crashes     \* history: the number of crashes

rows    == <<status, complete>>
env     == <<setting, upstream, timedOut>>
fails   == <<faults, crashes>>
charges == <<fund, token, due>>
vars    == <<setting, status, complete, upstream, timedOut, poller, fetcher, fund,
             token, due, silent, faults, crashes>>

\* A loop between two rounds.
Idle ==
    [pc |-> "idle", todo |-> {}, batch |-> {}, seen |-> [t \in Tasks |-> None],
     resp |-> [t \in Tasks |-> None], cur |-> None, delta |-> 0, back |-> "idle"]

NoFetch == [task |-> None, seen |-> None, resp |-> None]

Init ==
    /\ setting \in Settings
    /\ status = [t \in Tasks |-> None]
    /\ complete = [t \in Tasks |-> FALSE]
    /\ upstream = [t \in Tasks |-> "NOT_START"]
    /\ timedOut = [t \in Tasks |-> FALSE]
    /\ poller = [p \in Pollers |-> Idle]
    /\ fetcher = [f \in Fetchers |-> NoFetch]
    /\ fund = [t \in Tasks |-> 0]
    /\ token = [t \in Tasks |-> 0]
    /\ due = [t \in Tasks |-> 0]
    /\ silent = {}
    /\ faults = [t \in Tasks |-> 0]
    /\ crashes = 0

-----------------------------------------------------------------------------
(* The statements on the tasks table. *)

Unfinished(t) == status[t] \in ActiveStatuses /\ ~complete[t]

\* Write the status of t; a terminal status goes with progress 100%.
Write(t, s) ==
    /\ status' = [status EXCEPT ![t] = s]
    /\ complete' = [complete EXCEPT ![t] = s \in Terminal]

\* Mutant: an unconditional save.
SaveAnyStatus(t, from, s) == Write(t, s)

\* Task.UpdateWithStatus: a compare and swap on the status column.
UpdateWithStatus(t, from, s) == status[t] = from /\ Write(t, s)

\* A statement about task t fails without effect.
Fault(t) ==
    /\ faults[t] < MaxFaults
    /\ faults' = [faults EXCEPT ![t] = @ + 1]

\* The channel of a submitted task.
ChannelOf(t) == setting.channelOf[t]

-----------------------------------------------------------------------------
(* Submission, the upstream and the clock. *)

\* RelayTask: the request is settled at its quota, then the row is inserted.
\* An insert that fails is only logged.
Submit(t) ==
    /\ t \in DOMAIN setting.channelOf
    /\ status[t] = None /\ fund[t] = 0 /\ faults[t] = 0
    /\ fund' = [fund EXCEPT ![t] = Quota[t]]
    /\ token' = [token EXCEPT ![t] = Quota[t]]
    /\ due' = [due EXCEPT ![t] = Quota[t]]
    /\ \/ Write(t, "NOT_START") /\ UNCHANGED faults
       \/ Fault(t) /\ UNCHANGED rows
    /\ UNCHANGED <<env, poller, fetcher, silent, crashes>>

\* The provider works on the task; an ended task stays ended.
UpstreamMoves(t, s) ==
    /\ status[t] # None
    /\ upstream[t] \notin Terminal /\ s \notin {upstream[t], "NOT_START"}
    /\ upstream' = [upstream EXCEPT ![t] = s]
    /\ UNCHANGED <<rows, setting, timedOut, poller, fetcher, charges, silent, fails>>

TimeOut(t) ==
    /\ setting.timeout /\ status[t] # None /\ ~timedOut[t]
    /\ timedOut' = [timedOut EXCEPT ![t] = TRUE]
    /\ UNCHANGED <<rows, setting, upstream, poller, fetcher, charges, silent, fails>>

\* What the provider may answer: the task's status, or an error message, which
\* is taken for the failure of the task.
Answers(t) == {upstream[t]} \cup IF setting.errors THEN {"FAILURE"} ELSE {}

-----------------------------------------------------------------------------
(* Billing of an ended task, inside a polling loop. *)

\* Mutant: only refunds are billed.
BillRefundsOnly(p, t, delta, back) ==
    [p EXCEPT !.pc = IF delta >= 0 THEN back ELSE "fund",
              !.cur = t, !.delta = delta, !.back = back]

\* Mutant: only additional charges are billed.
BillChargesOnly(p, t, delta, back) ==
    [p EXCEPT !.pc = IF delta =< 0 THEN back ELSE "fund",
              !.cur = t, !.delta = delta, !.back = back]

\* Leave the loop at step `back` and bill delta for t first, if there is any.
\* After a refund or a settlement the loop goes on at step back.
Bill(p, t, delta, back) ==
    [p EXCEPT !.pc = IF delta = 0 THEN back ELSE "fund",
              !.cur = t, !.delta = delta, !.back = back]

\* taskAdjustFunding; an error ends the refund or the settlement.
TaskAdjustFunding(p) ==
    /\ poller[p].pc = "fund"
    /\ LET t == poller[p].cur
       IN \/ /\ fund' = [fund EXCEPT ![t] = @ + poller[p].delta]
             /\ poller' = [poller EXCEPT ![p].pc = "token"]
             /\ UNCHANGED faults
          \/ /\ Fault(t)
             /\ poller' = [poller EXCEPT ![p].pc = poller[p].back]
             /\ UNCHANGED fund
    /\ UNCHANGED <<rows, env, fetcher, token, due, silent, crashes>>

\* taskAdjustTokenQuota; an error, or a deleted token, is only logged.
TaskAdjustTokenQuota(p) ==
    /\ poller[p].pc = "token"
    /\ LET t == poller[p].cur
       IN \/ /\ token' = [token EXCEPT ![t] = @ + poller[p].delta]
             /\ UNCHANGED faults
          \/ Fault(t) /\ UNCHANGED token
    /\ poller' = [poller EXCEPT ![p].pc = poller[p].back]
    /\ UNCHANGED <<rows, env, fetcher, fund, due, silent, crashes>>

\* RecalculateTaskQuota: no actual cost, no adjustment.
SettleDelta(t, actual) == IF actual > 0 THEN actual - Quota[t] ELSE 0

-----------------------------------------------------------------------------
(* TaskPollingLoop: sweepTimedOutTasks. *)

\* Load rows ts into the loop's local state and continue at step pc.
Load(p, ts, pc) ==
    poller' = [poller EXCEPT ![p].pc = pc, ![p].todo = ts,
                 ![p].seen = [t \in Tasks |-> IF t \in ts THEN status[t] ELSE None]]

\* Mutant: only tasks that never started time out.
LoadUnstarted(p) ==
    /\ p \in setting.loops /\ poller[p].pc = "idle"
    /\ Load(p, {t \in Tasks : status[t] = "NOT_START" /\ timedOut[t]}, "sweep")
    /\ UNCHANGED <<rows, env, fetcher, charges, silent, fails>>

LoadTimedOut(p) ==
    /\ p \in setting.loops /\ poller[p].pc = "idle"
    /\ Load(p, {t \in Tasks : setting.timeout /\ Unfinished(t) /\ timedOut[t]}, "sweep")
    /\ UNCHANGED <<rows, env, fetcher, charges, silent, fails>>

\* One timed out task: the winner of the compare and swap refunds, except for
\* a legacy task.
SweepTask(p, t) ==
    /\ poller[p].pc = "sweep" /\ t \in poller[p].todo
    /\ LET q == [poller[p] EXCEPT !.todo = @ \ {t}]
       IN \/ /\ UpdateWithStatus(t, q.seen[t], "FAILURE")
             /\ poller' = [poller EXCEPT ![p] =
                    Bill(q, t, IF t \in Legacy THEN 0 ELSE -Quota[t], "sweep")]
             /\ silent' = IF t \in Legacy THEN silent \cup {t} ELSE silent
             /\ UNCHANGED faults
          \/ /\ status[t] # q.seen[t]
             /\ poller' = [poller EXCEPT ![p] = q]
             /\ UNCHANGED <<rows, silent, faults>>
          \/ /\ Fault(t)
             /\ poller' = [poller EXCEPT ![p] = q]
             /\ UNCHANGED <<rows, silent>>
    /\ UNCHANGED <<env, fetcher, charges, crashes>>

-----------------------------------------------------------------------------
(* TaskPollingLoop: the updates by platform and channel. *)

LoadUnfinished(p) ==
    /\ poller[p].pc = "sweep" /\ poller[p].todo = {}
    /\ Load(p, {t \in Tasks : Unfinished(t)}, "poll")
    /\ UNCHANGED <<rows, env, fetcher, charges, silent, fails>>

\* The loaded tasks of channel c, once the channel before it is done.
ToDo(p, c) == {t \in poller[p].todo : ChannelOf(t) = c}
Between(p) == poller[p].pc = "poll" /\ poller[p].batch = {}

OpenChannel(p, c) ==
    /\ Between(p) /\ ToDo(p, c) # {} /\ c # NoChannel
    /\ poller' = [poller EXCEPT ![p].batch = ToDo(p, c), ![p].todo = @ \ ToDo(p, c)]
    /\ UNCHANGED <<rows, env, fetcher, charges, silent, fails>>

\* TaskBulkUpdateByID fails all tasks of a channel that cannot be loaded, and
\* the tasks without an upstream id: no compare and swap, no refund.
TaskBulkUpdateByID(p, c) ==
    /\ Between(p) /\ ToDo(p, c) # {} /\ (c = NoChannel \/ setting.vanish)
    /\ LET ts == ToDo(p, c)
       IN /\ \/ /\ status' = [t \in Tasks |-> IF t \in ts THEN "FAILURE" ELSE status[t]]
                /\ complete' = [t \in Tasks |-> t \in ts \/ complete[t]]
                /\ silent' = silent \cup ts
                /\ UNCHANGED faults
             \/ /\ \E t \in ts : Fault(t)
                /\ UNCHANGED <<rows, silent>>
          /\ poller' = [poller EXCEPT ![p].todo = @ \ ts]
    /\ UNCHANGED <<env, fetcher, charges, crashes>>

IsSuno(t) == ChannelOf(t) \in SunoChannels
Waiting(p) == poller[p].pc = "poll" /\ \A t \in poller[p].batch : poller[p].resp[t] = None

\* The fetch of one video task, or no usable answer (network, 429, unknown status).
FetchVideo(p, t) ==
    /\ Waiting(p) /\ t \in poller[p].batch /\ ~IsSuno(t)
    /\ \/ \E a \in Answers(t) : poller' = [poller EXCEPT ![p].resp[t] = a]
       \/ poller' = [poller EXCEPT ![p].batch = @ \ {t}]
    /\ UNCHANGED <<rows, env, fetcher, charges, silent, fails>>

\* The fetch of all Suno tasks of a channel; the answer covers some of them, or
\* none when it is unusable.
FetchSuno(p) ==
    /\ Waiting(p) /\ poller[p].batch # {} /\ \A t \in poller[p].batch : IsSuno(t)
    /\ \E ts \in SUBSET poller[p].batch :
         poller' = [poller EXCEPT ![p].batch = ts,
                      ![p].resp = [t \in Tasks |-> IF t \in ts THEN upstream[t] ELSE None]]
    /\ UNCHANGED <<rows, env, fetcher, charges, silent, fails>>

\* The loop is done with task t.
DoneWith(p, t) == [poller[p] EXCEPT !.batch = @ \ {t}, !.resp[t] = None]

\* updateVideoSingleTask with the answer: a compare and swap from the loaded
\* status; only its winner bills.
UpdateVideoSingleTask(p, t) ==
    /\ poller[p].pc = "poll" /\ t \in poller[p].batch /\ ~IsSuno(t)
    /\ poller[p].resp[t] # None
    /\ LET s == poller[p].resp[t]
           seen == poller[p].seen[t]
           q == DoneWith(p, t)
       IN \/ /\ s \notin Terminal
             /\ IF status[t] = seen THEN Write(t, s) ELSE UNCHANGED rows
             /\ poller' = [poller EXCEPT ![p] = q]
             /\ UNCHANGED <<due, faults>>
          \/ /\ s = "FAILURE" /\ UpdateWithStatus(t, seen, s)
             /\ poller' = [poller EXCEPT ![p] = Bill(q, t, -Quota[t], "poll")]
             /\ UNCHANGED <<due, faults>>
          \/ /\ s = "SUCCESS" /\ UpdateWithStatus(t, seen, s)
             /\ \E a \in Actuals :
                  /\ poller' = [poller EXCEPT ![p] = Bill(q, t, SettleDelta(t, a), "poll")]
                  /\ due' = [due EXCEPT ![t] = Quota[t] + SettleDelta(t, a)]
             /\ UNCHANGED faults
          \/ /\ s \in Terminal /\ status[t] # seen
             /\ poller' = [poller EXCEPT ![p] = q]
             /\ UNCHANGED <<rows, due, faults>>
          \/ /\ Fault(t)
             /\ poller' = [poller EXCEPT ![p] = q]
             /\ UNCHANGED <<rows, due>>
    /\ UNCHANGED <<env, fetcher, fund, token, silent, crashes>>

\* updateSunoTasks with the answer for t: a failure is refunded first and the
\* row is saved afterwards, whatever it holds by then.  An answer with the known
\* status is saved as well if its times or data are new, and skipped otherwise.
UpdateSunoTask(p, t) ==
    /\ poller[p].pc = "poll" /\ t \in poller[p].batch /\ IsSuno(t)
    /\ poller[p].resp[t] # None
    /\ LET s == poller[p].resp[t]
           refund == IF s = "FAILURE" THEN -Quota[t] ELSE 0
       IN \/ poller' = [poller EXCEPT ![p] = Bill(poller[p], t, refund, "save")]
          \/ /\ s = poller[p].seen[t]
             /\ poller' = [poller EXCEPT ![p] = DoneWith(p, t)]
    /\ UNCHANGED <<rows, env, fetcher, charges, silent, fails>>

\* Task.Update
SaveSunoTask(p) ==
    /\ poller[p].pc = "save"
    /\ LET t == poller[p].cur
       IN /\ \/ Write(t, poller[p].resp[t]) /\ UNCHANGED faults
             \/ Fault(t) /\ UNCHANGED rows
          /\ poller' = [poller EXCEPT ![p] = [DoneWith(p, t) EXCEPT !.pc = "poll"]]
    /\ UNCHANGED <<env, fetcher, charges, silent, crashes>>

EndRound(p) ==
    /\ Between(p) /\ poller[p].todo = {}
    /\ poller' = [poller EXCEPT ![p] = Idle]
    /\ UNCHANGED <<rows, env, fetcher, charges, silent, fails>>

\* The process stops and starts again; nothing remembers what it was billing.
Crash(p) ==
    /\ poller[p].pc # "idle" /\ crashes < MaxCrashes
    /\ crashes' = crashes + 1
    /\ IF poller[p].pc \in {"fund", "token", "save"}
         THEN Fault(poller[p].cur) ELSE UNCHANGED faults
    /\ poller' = [poller EXCEPT ![p] = Idle]
    /\ UNCHANGED <<rows, env, fetcher, charges, silent>>

-----------------------------------------------------------------------------
(* tryRealtimeFetch: a user asks for a Gemini or Vertex task. *)

FetchLoad(f, t) ==
    /\ f \in setting.fetchers /\ fetcher[f].task = None /\ status[t] # None
     /\ ChannelOf(t) \in RealtimeChannels
    /\ fetcher' = [fetcher EXCEPT ![f] = [task |-> t, seen |-> status[t], resp |-> None]]
    /\ UNCHANGED <<rows, env, poller, charges, silent, fails>>

FetchAnswer(f) ==
    /\ fetcher[f].task # None /\ fetcher[f].resp = None
    /\ \/ \E a \in Answers(fetcher[f].task) : fetcher' = [fetcher EXCEPT ![f].resp = a]
       \/ fetcher' = [fetcher EXCEPT ![f] = NoFetch]
    /\ UNCHANGED <<rows, env, poller, charges, silent, fails>>

\* The row is written by compare and swap from whatever status was loaded, an
\* ended one included, and nothing is billed.
TryRealtimeFetch(f) ==
    /\ fetcher[f].resp # None
    /\ LET t == fetcher[f].task
           s == fetcher[f].resp
       IN \/ /\ s # fetcher[f].seen /\ UpdateWithStatus(t, fetcher[f].seen, s)
             /\ silent' = IF s \in Terminal THEN silent \cup {t} ELSE silent
             /\ UNCHANGED faults
          \/ /\ s = fetcher[f].seen \/ status[t] # fetcher[f].seen
             /\ UNCHANGED <<rows, silent, faults>>
          \/ /\ s # fetcher[f].seen /\ Fault(t)
             /\ UNCHANGED <<rows, silent>>
    /\ fetcher' = [fetcher EXCEPT ![f] = NoFetch]
    /\ UNCHANGED <<env, poller, charges, crashes>>

-----------------------------------------------------------------------------
PollerStep(p) ==
    \/ TaskAdjustFunding(p) \/ TaskAdjustTokenQuota(p)
    \/ LoadTimedOut(p) \/ LoadUnfinished(p)
    \/ \E t \in Tasks : SweepTask(p, t) \/ FetchVideo(p, t)
                          \/ UpdateVideoSingleTask(p, t) \/ UpdateSunoTask(p, t)
    \/ \E c \in Channels \cup {NoChannel} : OpenChannel(p, c) \/ TaskBulkUpdateByID(p, c)
    \/ FetchSuno(p) \/ SaveSunoTask(p) \/ EndRound(p)

FetcherStep(f) ==
    (\E t \in Tasks : FetchLoad(f, t)) \/ FetchAnswer(f) \/ TryRealtimeFetch(f)

Next ==
    \/ \E t \in Tasks : Submit(t) \/ TimeOut(t)
                          \/ \E s \in Statuses : UpstreamMoves(t, s)
    \/ \E p \in Pollers : PollerStep(p) \/ Crash(p)
    \/ \E f \in Fetchers : FetcherStep(f)

Spec == Init /\ [][Next]_vars

\* Time passes, and a loop that runs takes its next step.
FairSpec ==
    /\ Spec
    /\ \A p \in Pollers : WF_vars(PollerStep(p))
    /\ \A t \in Tasks : WF_vars(TimeOut(t))

-----------------------------------------------------------------------------
(* Properties. *)

BillingSteps == {"fund", "token", "save"}
Billing(p, t) == poller[p].pc \in BillingSteps /\ poller[p].cur = t
Clean(t) == faults[t] = 0

PollerType ==
    [pc : {"idle", "sweep", "poll"} \cup BillingSteps, todo : SUBSET Tasks,
     batch : SUBSET Tasks, seen : [Tasks -> ActiveStatuses \cup {None}],
     resp : [Tasks -> Statuses \cup {None}], cur : Tasks \cup {None}, delta : Int,
     back : {"idle", "sweep", "poll", "save"}]

FetcherType ==
    [task : Tasks \cup {None}, seen : Statuses \cup {None}, resp : Statuses \cup {None}]

\* Every variable has its type; in particular a loop only ever works on rows it
\* loaded in an active status.
TypeOK ==
    /\ setting \in Settings
    /\ status \in [Tasks -> Statuses \cup {None}]
    /\ complete \in [Tasks -> BOOLEAN]
    /\ upstream \in [Tasks -> Statuses]
    /\ timedOut \in [Tasks -> BOOLEAN]
    /\ poller \in [Pollers -> PollerType]
    /\ fetcher \in [Fetchers -> FetcherType]
    /\ fund \in [Tasks -> Int] /\ token \in [Tasks -> Int] /\ due \in [Tasks -> Int]
    /\ silent \subseteq Tasks
    /\ faults \in [Tasks -> 0..MaxFaults] /\ crashes \in 0..MaxCrashes

\* What a task costs its user by its status: nothing when it failed, the
\* settled cost when it succeeded, what was charged at submission before.
Owed(t) ==
    CASE status[t] = "FAILURE" -> 0
      [] status[t] = "SUCCESS" -> due[t]
      [] OTHER -> Quota[t]

\* Every write that ends t and bills it is a compare and swap from a row that
\* was not ended, or the only writer: Suno tasks are saved unconditionally, so
\* only one process may poll them, and a user's fetch may reopen a task only if the
\* loop ended it against the provider's word.
Ordered(t) ==
    /\ IsSuno(t) => Cardinality(setting.loops) = 1
    /\ setting.fetchers = {} \/ ~(setting.timeout \/ setting.vanish \/ setting.errors)

OrderedTasks == {t \in DOMAIN setting.channelOf : Ordered(t)}

\* Whenever no loop is billing a task, the user and the token have paid exactly
\* what its status asks for: however the sweep, the polls of several processes
\* and late answers interleave, a failure is refunded once and a success is
\* settled once.  Tasks with a failed statement, or ended by a write that does
\* not bill, are excluded.
OutcomeCharged ==
    \A t \in OrderedTasks :
        (status[t] # None /\ Clean(t) /\ t \notin silent
           /\ \A p \in Pollers : ~Billing(p, t)) =>
            fund[t] = Owed(t) /\ token[t] = Owed(t)

\* Whatever fails or crashes, RefundTaskQuota returns no more than what the
\* task was charged ("returns the pre-consumed quota to the user",
\* service/task_billing.go:151).  The save of a refunded Suno task must not
\* fail: the next round would refund it again.
NeverOverRefunded ==
    TypeOK /\ \A t \in OrderedTasks :
        ~(IsSuno(t) /\ ~Clean(t)) => fund[t] >= 0 /\ token[t] >= 0

\* A finished task keeps its outcome; only the writes that do not bill
\* (TaskBulkUpdateByID) may overwrite it.
EndedStaysEnded ==
    [][\A t \in OrderedTasks : status[t] \in Terminal /\ status'[t] # status[t] =>
          t \in silent']_vars

\* "When an asynchronous task fails, the pre-consumed quota is returned to the
\* user" (service/task_billing.go:151).
FailureIsRefunded ==
    \A t \in Tasks : (status[t] = "FAILURE") ~> (fund[t] = 0)

\* A failure that a loop found out is refunded in the end, unless a statement
\* of the task failed or the process stopped in the middle of its billing.
FoundFailureRefunded ==
    \A t \in Tasks :
        (status[t] = "FAILURE") ~> (fund[t] = 0 \/ t \in silent \/ ~Clean(t))

\* With the timeout sweep on, every submitted task ends, also when the provider
\* never answers.
TaskEnds ==
    \A t \in Tasks :
        (status[t] # None /\ setting.timeout) ~> (status[t] \in Terminal)

=============================================================================
