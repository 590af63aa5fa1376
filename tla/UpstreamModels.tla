--------------------------- MODULE UpstreamModels ---------------------------
(***************************************************************************)
(* The model list of one channel and what keeps it in step with the        *)
(* provider (controller/channel_upstream_update.go, the channel page of    *)
(* web/default, model/ability.go, model/channel_cache.go).  A task and     *)
(* administrators ask the provider for its models and note the differences *)
(* in the channel's settings; administrators apply, ignore or edit; every  *)
(* change goes to the row, to the abilities and to the cache that requests *)
(* are routed by.                                                          *)
(*                                                                         *)
(* A job is one handler's work on the channel.  It loads the row, computes *)
(* and writes whole columns back; the row may change in between.  The      *)
(* handlers that go through all channels load them in batches, so the time *)
(* from load to write is arbitrary here as it is there.  Lists are sets:   *)
(* every list goes through normalizeModelNames or its twin in the page.    *)
(***************************************************************************)
EXTENDS Integers, FiniteSets

CONSTANTS
    Models,
    Mappings,       \* values of model_mapping, as sets of pairs <<alias, model>>
    Jobs,           \* handlers that may run at the same time
    MaxStarts,      \* bound: handlers started and channel queries failed
    MaxEdits        \* bound: models changed in one use of the form

ASSUME UpstreamAssumption ==
    /\ Mappings \subseteq SUBSET (Models \X Models)
    /\ MaxStarts \in Nat /\ MaxEdits \in Nat

VARIABLES
    auto,       \* UpstreamModelUpdateAutoSyncEnabled; never changes
    redirects,  \* the channel's model_mapping; never changes
    row,        \* models, and of the settings: detected, removed and ignored models
    abilities,  \* the models of the channel in the abilities table
    cache,      \* the models of the channel in group2model2channels
    job,        \* the local state of each handler
    typed,      \* history: models a form saved as ignored while they were pending
    diverged,   \* history: the last write of the abilities failed or was out of date
    starts

config == <<auto, redirects>>
table  == <<row, abilities>>
vars   == <<auto, redirects, row, abilities, cache, job, typed, diverged, starts>>

Kinds == {"task", "detect", "apply", "applyAll", "edit"}
None == "none"

\* asked: the models whose state the administrator wants changed;
\* behind: the row was written since it was loaded;
\* crossed: the model list was written since this job wrote it.
Idle ==
    [kind |-> None, pc |-> "idle", changed |-> FALSE, asked |-> {}, behind |-> FALSE,
     crossed |-> FALSE, row |-> [models |-> {}, add |-> {}, rem |-> {}, ignored |-> {}]]

\* A job at step pc that only needs the model list ms from here on.
Carry(pc, ms) == [Idle EXCEPT !.pc = pc, !.row.models = ms]

Init ==
    /\ auto \in BOOLEAN /\ redirects \in Mappings
    /\ \E ms \in SUBSET Models \ {{}} :
         /\ row = [models |-> ms, add |-> {}, rem |-> {}, ignored |-> {}]
         /\ abilities = ms /\ cache = ms
    /\ job = [j \in Jobs |-> Idle]
    /\ typed = {} /\ diverged = FALSE
    /\ starts = 0

-----------------------------------------------------------------------------
(* What the handlers compute. *)

Aliases == {r[1] : r \in redirects}
Targets == {r[2] : r \in redirects}

\* Mutant: the ignored models are offered again.
PendingWithIgnored(r, us) ==
    [add |-> us \ (r.models \cup Targets), rem |-> r.models \ (us \cup Aliases)]

\* collectPendingUpstreamModelChangesFromModels
Pending(r, us) ==
    [add |-> us \ (r.models \cup Targets \cup r.ignored),
     rem |-> r.models \ (us \cup Aliases)]

\* checkAndPersistChannelUpstreamModelUpdates: the row to write after an answer
\* of the provider; the task adds the new models itself if auto sync is on.
Checked(r, us, applies) ==
    LET p == Pending(r, us)
    IN  IF applies
          THEN [r EXCEPT !.models = @ \cup p.add, !.add = {}, !.rem = p.rem]
          ELSE [r EXCEPT !.add = p.add, !.rem = p.rem]

\* Mutant: an ignored model stays pending.
AppliedKeepsIgnored(r, add, ign, rem) ==
    LET a == add \cap r.add
        i == ign \cap r.add
        d == (rem \cap r.rem) \ a
    IN  [models |-> (r.models \cup a) \ d, add |-> r.add \ a, rem |-> r.rem \ d,
         ignored |-> (r.ignored \cup i) \ a]

\* applyChannelUpstreamModelUpdates: only what is still pending is applied, and
\* a model that is both to be added and to be removed is added.
Applied(r, add, ign, rem) ==
    LET a == add \cap r.add
        i == ign \cap r.add
        d == (rem \cap r.rem) \ a
    IN  [models |-> (r.models \cup a) \ d, add |-> r.add \ (a \cup i), rem |-> r.rem \ d,
         ignored |-> (r.ignored \cup i) \ a]

-----------------------------------------------------------------------------
(* Handlers. *)

\* A handler of kind k starts in job j: it goes on at step pc with row r.
Start(j, k, pc, r, asked) ==
    /\ job[j].pc = "idle" /\ starts < MaxStarts
    /\ starts' = starts + 1
    /\ job' = [job EXCEPT ![j] = [Idle EXCEPT !.kind = k, !.pc = pc, !.row = r,
                                    !.changed = r.models # row.models, !.asked = asked]]
    /\ UNCHANGED <<config, table, cache, typed, diverged>>

\* The task, or the detection of one or all channels, loads the channel.  (The
\* task may also skip a channel it has checked a short time ago.)
LoadToCheck(j, k) == k \in {"task", "detect"} /\ Start(j, k, "fetch", row, {})

\* ApplyChannelUpstreamModelUpdates with what the dialog of the page sends: the
\* selected models, and the others it shows as ignored.  The dialog shows the
\* lists of an earlier load, and keeps its selection from one use to the next.
Apply(j) ==
    \E add, rem \in SUBSET Models : \E ign \in SUBSET (Models \ add) :
        Start(j, "apply", "persist", Applied(row, add, ign, rem),
              (add \cap row.add) \cup (rem \cap row.rem))

\* ApplyAllChannelUpstreamModelUpdates: a channel with nothing pending is left alone.
ApplyAll(j) ==
    /\ row.add \cup row.rem # {}
    /\ Start(j, "applyAll", "persist", Applied(row, row.add, {}, row.rem),
             row.add \cup row.rem)

\* The channel form is opened: the page has the row.
OpenForm(j) == Start(j, "edit", "form", row, {})

Diff(s, t) == (s \ t) \cup (t \ s)

\* The form is submitted: the model list and the ignored models as the
\* administrator left them, the pending models as they were loaded.
SubmitForm(j) ==
    /\ job[j].pc = "form"
    /\ \E ms, is \in SUBSET Models :
         LET p == job[j]
             edits == Diff(ms, p.row.models) \cup Diff(is, p.row.ignored)
         IN  /\ ms # {} /\ Cardinality(edits) =< MaxEdits
             /\ job' = [job EXCEPT ![j] = [p EXCEPT !.pc = "persist", !.row.models = ms,
                           !.row.ignored = is, !.changed = TRUE, !.asked = edits]]
    /\ UNCHANGED <<config, table, cache, typed, diverged, starts>>

\* collectPendingUpstreamModelChanges: the provider answers with the models it
\* has by now, or fails; after a failure the settings are written as they were
\* loaded, with a new check time.
Fetch(j) ==
    /\ job[j].pc = "fetch"
    /\ \/ \E us \in SUBSET Models :
            LET r == Checked(job[j].row, us, job[j].kind = "task" /\ auto)
            IN  job' = [job EXCEPT ![j].pc = "persist", ![j].row = r,
                          ![j].changed = r.models # job[j].row.models]
       \/ job' = [job EXCEPT ![j].pc = "persist"]
    /\ UNCHANGED <<config, table, cache, typed, diverged, starts>>

\* The other jobs that work with the row they loaded, or with the model list
\* they wrote, once the row is written.
Overtaken(next) ==
    [k \in Jobs |->
        [job[k] EXCEPT
           !.behind = @ \/ (next # row /\ job[k].pc \in {"fetch", "form", "persist"}),
           !.crossed = @ \/ (next.models # row.models /\ job[k].pc = "abilities")]]

\* updateChannelUpstreamModelSettings, and the first statement of Channel.Update:
\* the whole settings column, and the model list if it is to change.
Persist(j) ==
    /\ job[j].pc = "persist"
    /\ LET r == job[j].row
           next == IF job[j].changed THEN r ELSE [r EXCEPT !.models = row.models]
           pc == IF ~job[j].changed THEN "idle"
                 ELSE IF job[j].kind = "edit" THEN "reload" ELSE "abilities"
       IN \/ /\ row' = next
             /\ job' = [Overtaken(next) EXCEPT
                          ![j] = IF pc = "idle" THEN Idle ELSE Carry(pc, r.models)]
             /\ typed' = IF job[j].kind = "edit" THEN typed \cup (r.add \cap r.ignored)
                         ELSE typed
          \/ /\ job' = [job EXCEPT ![j] = Idle]
             /\ UNCHANGED <<row, typed>>
    /\ UNCHANGED <<config, abilities, cache, diverged, starts>>

\* Channel.Update reads the row again.
Reload(j) ==
    /\ job[j].pc = "reload"
    /\ job' = [job EXCEPT ![j] = Carry("abilities", row.models)]
    /\ UNCHANGED <<config, table, cache, typed, diverged, starts>>

\* Mutant: abilities of removed models are not deleted.
AddAbilities(j) ==
    /\ job[j].pc = "abilities"
    /\ abilities' = abilities \cup job[j].row.models
    /\ diverged' = job[j].crossed
    /\ job' = [job EXCEPT ![j] = Carry("read", {})]
    /\ UNCHANGED <<config, row, cache, typed, starts>>

\* Channel.UpdateAbilities: one transaction replaces the channel's abilities by
\* those of the list the job wrote, or fails; then the handler ends.
UpdateAbilities(j) ==
    /\ job[j].pc = "abilities"
    /\ \/ /\ abilities' = job[j].row.models
          /\ diverged' = job[j].crossed
          /\ job' = [job EXCEPT ![j] = Carry("read", {})]
       \/ /\ diverged' = TRUE
          /\ job' = [job EXCEPT ![j] = Idle]
          /\ UNCHANGED abilities
    /\ UNCHANGED <<config, row, cache, typed, starts>>

-----------------------------------------------------------------------------
(* InitChannelCache: the channels are read, then the maps are replaced. *)

ReadChannels(j) ==
    /\ job[j].pc = "read"
    /\ job' = [job EXCEPT ![j] = Carry("swap", row.models)]
    /\ UNCHANGED <<config, table, cache, typed, diverged, starts>>

\* The query fails, which nobody looks at: the maps will be empty.
FailChannels(j) ==
    /\ job[j].pc = "read" /\ starts < MaxStarts
    /\ starts' = starts + 1
    /\ job' = [job EXCEPT ![j] = Carry("swap", {})]
    /\ UNCHANGED <<config, table, cache, typed, diverged>>

\* Mutant: the old maps are completed.
MergeCache(j) ==
    /\ job[j].pc = "swap"
    /\ cache' = cache \cup job[j].row.models
    /\ job' = [job EXCEPT ![j] = Idle]
    /\ UNCHANGED <<config, table, typed, diverged, starts>>

SwapCache(j) ==
    /\ job[j].pc = "swap"
    /\ cache' = job[j].row.models
    /\ job' = [job EXCEPT ![j] = Idle]
    /\ UNCHANGED <<config, table, typed, diverged, starts>>

\* SyncChannelCache does the same every SyncFrequency seconds.
SyncChannelCache(j) ==
    /\ job[j].pc = "idle"
    /\ job' = [job EXCEPT ![j] = Carry("read", {})]
    /\ UNCHANGED <<config, table, cache, typed, diverged, starts>>

-----------------------------------------------------------------------------
JobStep(j) ==
    \/ Fetch(j) \/ SubmitForm(j) \/ Persist(j) \/ Reload(j) \/ UpdateAbilities(j)
    \/ ReadChannels(j) \/ FailChannels(j) \/ SwapCache(j)

Next ==
    \E j \in Jobs : \/ \E k \in Kinds : LoadToCheck(j, k)
                    \/ Apply(j) \/ ApplyAll(j) \/ OpenForm(j)
                    \/ JobStep(j) \/ SyncChannelCache(j)

Spec == Init /\ [][Next]_vars

\* A handler takes its next step, and the cache is synchronised again and again.
FairSpec ==
    /\ Spec
    /\ \A j \in Jobs : WF_vars(JobStep(j))
    /\ WF_vars(\E j \in Jobs : SyncChannelCache(j))

-----------------------------------------------------------------------------
(* Properties. *)

\* Every variable has its type; an alias of model_mapping is never offered for
\* removal, although the provider does not have it.
TypeOK ==
    /\ auto \in BOOLEAN /\ redirects \in Mappings
    /\ abilities \subseteq Models /\ cache \subseteq Models
    /\ row.rem \cap Aliases = {}
    /\ row \in [models : SUBSET Models, add : SUBSET Models, rem : SUBSET Models,
                ignored : SUBSET Models]
    /\ typed \subseteq Models /\ diverged \in BOOLEAN
    /\ starts \in 0..MaxStarts

\* What administrators ignored is not pending: neither a detection, however old
\* the row it works on, nor an apply leaves a model in both lists, as the two
\* lists are written together.  Only a form may, as it saves the pending models
\* untouched.
PendingNotIgnored == TypeOK /\ row.add \cap row.ignored \subseteq typed

\* Between the handlers, requests find exactly the models of the channel's list
\* in the abilities, unless the last write of the abilities failed or another
\* job wrote the list while it was under way.
ServedMatches ==
    (\A j \in Jobs : job[j].pc \notin {"reload", "abilities"}) =>
        abilities = row.models \/ diverged

\* Job j writes the row with good reason to change m: it was asked to, it is the
\* task and adds a model nobody ignored, or it worked on an outdated row.
MayChange(j, m) ==
    /\ job[j].pc = "persist" /\ job'[j] # job[j]
    /\ \/ m \in job[j].asked \/ job[j].behind
       \/ job[j].kind = "task" /\ auto /\ m \in row'.models \ row.ignored

\* No handler adds, removes or stops to ignore a model on its own account, with
\* the exception of the task; the rest is due to a row loaded before another
\* handler's write.
ChangesAsked ==
    [][\A m \in Models :
          (m \in row.models) # (m \in row'.models) \/ m \in row.ignored \ row'.ignored =>
              \E j \in Jobs : MayChange(j, m)]_vars

\* Whatever order refreshes end in and whatever fails, the cache requests are
\* routed by agrees with the row once the handlers are done.
CacheConverges == <>[](cache = row.models)
=============================================================================
