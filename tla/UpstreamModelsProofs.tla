------------------------ MODULE UpstreamModelsProofs ------------------------
(***************************************************************************)
(* Proofs about UpstreamModels, for any set of models, any mapping, any    *)
(* number of handlers and any bounds: what is ignored is not pending, the  *)
(* abilities match the list, and nobody changes the list unasked.          *)
(***************************************************************************)
EXTENDS UpstreamModels, TLAPS

-----------------------------------------------------------------------------
(* The inductive invariant *)

Rows ==
    [models : SUBSET Models, add : SUBSET Models, rem : SUBSET Models, ignored : SUBSET Models]

JobRecords ==
    [kind : Kinds \cup {None},
     pc : {"idle", "fetch", "form", "persist", "reload", "abilities", "read", "swap"},
     changed : BOOLEAN, asked : SUBSET Models, behind : BOOLEAN, crossed : BOOLEAN, row : Rows]

\* What the job p has loaded or wants to write agrees with the lists of the row as
\* far as nobody has overtaken it.
InStep(p) ==
    /\ p.pc = "abilities" /\ ~p.crossed => p.row.models = row.models
    /\ p.pc \in {"fetch", "form"} /\ ~p.behind => p.row = row

\* Unless it was overtaken, a job wants to change only what it was asked to, or is the
\* task that adds models nobody ignores.
Justified(p) ==
    p.pc = "persist" /\ ~p.behind =>
        \A m \in Models :
            (m \in row.models) # (m \in p.row.models) \/ m \in row.ignored \ p.row.ignored =>
                \/ m \in p.asked
                \/ p.kind = "task" /\ auto /\ m \in p.row.models \ row.ignored

\* A job carries no model that is both pending and ignored, but for a form's own edits.
Carries(p) ==
    /\ p.row.rem \cap Aliases = {}
    /\ p.pc \in {"fetch", "form"} \/ (p.pc = "persist" /\ p.kind # "edit") =>
         p.row.add \cap p.row.ignored \subseteq typed

JobSound(p) ==
    /\ p \in JobRecords
    /\ p.pc = "form" => p.kind = "edit"
    /\ p.pc = "fetch" => p.kind # "edit"
    /\ InStep(p) /\ Justified(p) /\ Carries(p)

JobsSound == job \in [Jobs -> JobRecords] /\ \A j \in Jobs : JobSound(job[j])

UpstreamInv == PendingNotIgnored /\ ServedMatches /\ JobsSound

-----------------------------------------------------------------------------
(* What the handlers compute *)

LEMMA AliasesKept ==
    ASSUME redirects' = redirects
    PROVE  Aliases' = Aliases
  BY DEF Aliases

LEMMA CheckedRow ==
    ASSUME NEW r \in Rows, NEW us \in SUBSET Models, NEW b \in BOOLEAN
    PROVE  LET c == Checked(r, us, b)
           IN  /\ c \in Rows /\ c.ignored = r.ignored /\ c.rem \cap Aliases = {}
               /\ c.add \cap c.ignored = {}
               /\ r.models \subseteq c.models
               /\ c.models # r.models => b /\ \A m \in c.models \ r.models : m \notin r.ignored
  <1>1. CASE b
    BY <1>1 DEF Checked, Pending, Rows
  <1>2. CASE ~b
    BY <1>2 DEF Checked, Pending, Rows
  <1>3. QED
    BY <1>1, <1>2

LEMMA AppliedRow ==
    ASSUME NEW r \in Rows, NEW add \in SUBSET Models, NEW ign \in SUBSET Models,
           NEW rem \in SUBSET Models
    PROVE  LET c == Applied(r, add, ign, rem)
           IN  /\ c \in Rows /\ c.rem \subseteq r.rem
               /\ c.add \cap c.ignored \subseteq r.add \cap r.ignored
               /\ \A m \in Models :
                    (m \in r.models) # (m \in c.models) \/ m \in r.ignored \ c.ignored =>
                        m \in (add \cap r.add) \cup (rem \cap r.rem)
  BY DEF Applied, Rows

-----------------------------------------------------------------------------
(* Steps of one job that leave the row alone *)

LEMMA IdleSound == JobSound(Idle)
  BY DEF JobSound, JobRecords, Idle, None, Rows, InStep, Justified, Carries

LEMMA CarrySound ==
    ASSUME NEW ms \in SUBSET Models, NEW pc \in {"read", "swap", "abilities", "reload"},
           pc = "abilities" => ms = row.models
    PROVE  JobSound(Carry(pc, ms))
  BY DEF Carry, JobSound, JobRecords, Idle, None, Rows, InStep, Justified, Carries

LEMMA OneJob ==
    ASSUME UpstreamInv, UNCHANGED <<auto, redirects, row, typed>>, starts' \in 0..MaxStarts,
           abilities' \subseteq Models, cache' \subseteq Models, diverged' \in BOOLEAN,
           NEW j \in Jobs, NEW v, JobSound(v), job' = [job EXCEPT ![j] = v],
           ServedMatches'
    PROVE  UpstreamInv'
  <1>1. Aliases' = Aliases
    BY AliasesKept
  <1>2. PendingNotIgnored'
    BY <1>1 DEF UpstreamInv, PendingNotIgnored, TypeOK
  <1>3. \A p : JobSound(p)' <=> JobSound(p)
    BY <1>1 DEF JobSound, InStep, Justified, Carries
  <1>4. \A k \in Jobs : JobSound(job'[k])
    BY DEF UpstreamInv, JobsSound
  <1>5. \A k \in Jobs : JobSound(job[k])'
    BY <1>1, <1>4 DEF JobSound, InStep, Justified, Carries
  <1>6. v \in JobRecords
    BY DEF JobSound
  <1>7. JobsSound'
    BY <1>5, <1>6 DEF UpstreamInv, JobsSound
  <1>8. QED
    BY <1>2, <1>7 DEF UpstreamInv

\* The row a handler starts with.
LEMMA StartKeeps ==
    ASSUME UpstreamInv, NEW j \in Jobs, NEW k \in Kinds, NEW pc \in {"fetch", "form", "persist"},
           NEW r \in Rows, NEW asked \in SUBSET Models, Start(j, k, pc, r, asked),
           pc = "form" => k = "edit", pc = "fetch" => k # "edit",
           r.rem \cap Aliases = {}, r.add \cap r.ignored \subseteq typed,
           pc \in {"fetch", "form"} => r = row,
           pc = "persist" => \A m \in Models :
               (m \in row.models) # (m \in r.models) \/ m \in row.ignored \ r.ignored => m \in asked
    PROVE  UpstreamInv'
  <1> PICK v : v = [Idle EXCEPT !.kind = k, !.pc = pc, !.row = r,
                                !.changed = r.models # row.models, !.asked = asked]
    OBVIOUS
  <1>1. /\ v \in JobRecords /\ v.kind = k /\ v.pc = pc /\ v.row = r /\ v.asked = asked
    BY DEF Idle, JobRecords, None
  <1>2. JobSound(v)
    BY <1>1 DEF JobSound, InStep, Justified, Carries
  <1>3. /\ UNCHANGED <<auto, redirects, row, abilities, cache, typed, diverged>>
        /\ starts < MaxStarts /\ starts' = starts + 1 /\ job[j].pc = "idle"
        /\ job' = [job EXCEPT ![j] = v]
    BY DEF Start, config, table
  <1>4. ServedMatches'
    <2>1. \A i \in Jobs : job'[i].pc \notin {"reload", "abilities"} =>
                            job[i].pc \notin {"reload", "abilities"}
      BY <1>3 DEF UpstreamInv, JobsSound
    <2>2. QED
      BY <1>3, <2>1 DEF UpstreamInv, ServedMatches
  <1>5. starts' \in 0..MaxStarts /\ abilities' \subseteq Models /\ cache' \subseteq Models
        /\ diverged' \in BOOLEAN
    BY <1>3, UpstreamAssumption DEF UpstreamInv, PendingNotIgnored, TypeOK
  <1>6. QED
    BY <1>2, <1>3, <1>4, <1>5, OneJob
LEMMA FetchKeeps ==
    ASSUME UpstreamInv, NEW j \in Jobs, Fetch(j)
    PROVE  UpstreamInv'
  <1>0. /\ UNCHANGED <<auto, redirects, row, abilities, cache, typed, diverged, starts>>
        /\ job[j].pc = "fetch"
    BY DEF Fetch, config, table
  <1>1. JobSound(job[j]) /\ auto \in BOOLEAN
    BY DEF UpstreamInv, JobsSound, PendingNotIgnored, TypeOK
  <1>2. ASSUME NEW v, v = job'[j], job' = [job EXCEPT ![j] = v], v.pc = "persist", JobSound(v)
        PROVE  UpstreamInv'
    <2>1. ServedMatches'
      <3>1. \A i \in Jobs : job'[i].pc \notin {"reload", "abilities"} =>
                              job[i].pc \notin {"reload", "abilities"}
        BY <1>0, <1>2 DEF UpstreamInv, JobsSound
      <3>2. QED
        BY <1>0, <3>1 DEF UpstreamInv, ServedMatches
    <2>2. starts' \in 0..MaxStarts /\ abilities' \subseteq Models /\ cache' \subseteq Models
          /\ diverged' \in BOOLEAN
      BY <1>0 DEF UpstreamInv, PendingNotIgnored, TypeOK
    <2>3. QED
      BY <1>0, <1>2, <2>1, <2>2, OneJob
  <1>3. ASSUME NEW us \in SUBSET Models, NEW r,
               r = Checked(job[j].row, us, job[j].kind = "task" /\ auto),
               job' = [job EXCEPT ![j].pc = "persist", ![j].row = r,
                          ![j].changed = r.models # job[j].row.models]
        PROVE  UpstreamInv'
    <2> PICK p : p = job[j]
      OBVIOUS
    <2> PICK v : v = [p EXCEPT !.pc = "persist", !.row = r, !.changed = r.models # p.row.models]
      OBVIOUS
    <2>1. job' = [job EXCEPT ![j] = v]
      BY <1>3 DEF UpstreamInv, JobsSound
    <2>2. p \in JobRecords /\ p.row \in Rows /\ p.kind # "edit" /\ (~p.behind => p.row = row)
      BY <1>0, <1>1 DEF JobSound, JobRecords, InStep
    <2>3. /\ r \in Rows /\ r.ignored = p.row.ignored /\ r.rem \cap Aliases = {}
          /\ r.add \cap r.ignored = {} /\ p.row.models \subseteq r.models
          /\ r.models # p.row.models =>
               p.kind = "task" /\ auto /\ \A m \in r.models \ p.row.models : m \notin p.row.ignored
      BY <1>1, <1>3, <2>2, CheckedRow
    <2>4. /\ v \in JobRecords /\ v.pc = "persist" /\ v.row = r /\ v.kind = p.kind
          /\ v.behind = p.behind /\ v.asked = p.asked
      BY <2>2, <2>3 DEF JobRecords
    <2>5. Justified(v)
      BY <2>2, <2>3, <2>4 DEF Justified
    <2>6. JobSound(v)
      BY <2>2, <2>3, <2>4, <2>5 DEF JobSound, InStep, Carries
    <2>7. v = job'[j]
      BY <2>1 DEF UpstreamInv, JobsSound
    <2>8. QED
      BY <1>2, <2>1, <2>4, <2>6, <2>7
  <1>4. ASSUME job' = [job EXCEPT ![j].pc = "persist"]
        PROVE  UpstreamInv'
    <2> PICK p : p = job[j]
      OBVIOUS
    <2> PICK v : v = [p EXCEPT !.pc = "persist"]
      OBVIOUS
    <2>1. job' = [job EXCEPT ![j] = v] /\ v = job'[j]
      BY <1>4 DEF UpstreamInv, JobsSound
    <2>2. p \in JobRecords /\ p.pc = "fetch" /\ JobSound(p)
      BY <1>0, <1>1 DEF JobSound
    <2>3. /\ v \in JobRecords /\ v.pc = "persist" /\ v.row = p.row /\ v.kind = p.kind
          /\ v.behind = p.behind /\ v.asked = p.asked
      BY <2>2 DEF JobRecords
    <2>4. JobSound(v)
      BY <2>2, <2>3 DEF JobSound, InStep, Justified, Carries
    <2>5. QED
      BY <1>2, <2>1, <2>3, <2>4
  <1>5. QED
    BY <1>3, <1>4 DEF Fetch

LEMMA SubmitKeeps ==
    ASSUME UpstreamInv, NEW j \in Jobs, SubmitForm(j)
    PROVE  UpstreamInv'
  <1>0. /\ UNCHANGED <<auto, redirects, row, abilities, cache, typed, diverged, starts>>
        /\ job[j].pc = "form"
    BY DEF SubmitForm, config, table
  <1> PICK p : p = job[j]
    OBVIOUS
  <1>1. JobSound(p)
    BY DEF UpstreamInv, JobsSound
  <1>2. PICK ms \in SUBSET Models, is \in SUBSET Models :
          job' = [job EXCEPT ![j] = [p EXCEPT !.pc = "persist", !.row.models = ms,
                        !.row.ignored = is, !.changed = TRUE,
                        !.asked = Diff(ms, p.row.models) \cup Diff(is, p.row.ignored)]]
    BY DEF SubmitForm
  <1> PICK v : v = [p EXCEPT !.pc = "persist", !.row.models = ms, !.row.ignored = is, !.changed = TRUE,
                             !.asked = Diff(ms, p.row.models) \cup Diff(is, p.row.ignored)]
    OBVIOUS
  <1>3. p \in JobRecords /\ p.row \in Rows /\ p.kind = "edit" /\ (~p.behind => p.row = row)
    BY <1>0, <1>1 DEF JobSound, JobRecords, InStep
  <1>4. /\ v \in JobRecords /\ v.pc = "persist" /\ v.kind = p.kind /\ v.behind = p.behind
        /\ v.row.models = ms /\ v.row.ignored = is /\ v.row.add = p.row.add /\ v.row.rem = p.row.rem
        /\ v.asked = Diff(ms, p.row.models) \cup Diff(is, p.row.ignored)
    <2> PICK q : q = [p.row EXCEPT !.models = ms, !.ignored = is]
      OBVIOUS
    <2> PICK d : d = Diff(ms, p.row.models) \cup Diff(is, p.row.ignored)
      OBVIOUS
    <2>1. /\ q \in Rows /\ q.models = ms /\ q.ignored = is /\ q.add = p.row.add
          /\ q.rem = p.row.rem /\ d \in SUBSET Models
      BY <1>3 DEF Rows, Diff
    <2>2. v = [p EXCEPT !.pc = "persist", !.row = q, !.changed = TRUE, !.asked = d]
      BY <1>3 DEF JobRecords
    <2>3. /\ v \in JobRecords /\ v.pc = "persist" /\ v.kind = p.kind /\ v.behind = p.behind
          /\ v.row = q /\ v.asked = d
      BY <1>3, <2>1, <2>2 DEF JobRecords
    <2>4. QED
      BY <2>1, <2>3
  <1>5. Justified(v)
    BY <1>3, <1>4 DEF Justified, Diff
  <1>6. JobSound(v)
    BY <1>1, <1>3, <1>4, <1>5 DEF JobSound, InStep, Carries
  <1>7. ServedMatches'
    <2>1. \A i \in Jobs : job'[i].pc \notin {"reload", "abilities"} =>
                            job[i].pc \notin {"reload", "abilities"}
      BY <1>0, <1>2 DEF UpstreamInv, JobsSound
    <2>2. QED
      BY <1>0, <2>1 DEF UpstreamInv, ServedMatches
  <1>8. starts' \in 0..MaxStarts /\ abilities' \subseteq Models /\ cache' \subseteq Models
        /\ diverged' \in BOOLEAN
    BY <1>0 DEF UpstreamInv, PendingNotIgnored, TypeOK
  <1>9. job' = [job EXCEPT ![j] = v]
    BY <1>2
  <1>10. QED
    BY <1>0, <1>6, <1>7, <1>8, <1>9, OneJob

\* Steps after the write: the job carries at most the model list.
LEMMA CarryKeeps ==
    ASSUME UpstreamInv, UNCHANGED <<auto, redirects, row, typed>>, NEW j \in Jobs,
           starts' = starts \/ (starts < MaxStarts /\ starts' = starts + 1),
           abilities' \subseteq Models, cache' \subseteq Models, diverged' \in BOOLEAN,
           NEW v, job' = [job EXCEPT ![j] = v],
           v = Idle \/ (\E ms \in SUBSET Models, pc \in {"read", "swap", "abilities"} :
                           v = Carry(pc, ms) /\ (pc = "abilities" => ms = row.models)),
           ServedMatches'
    PROVE  UpstreamInv'
  <1>1. JobSound(v)
    BY IdleSound, CarrySound
  <1>2. starts' \in 0..MaxStarts
    BY UpstreamAssumption DEF UpstreamInv, PendingNotIgnored, TypeOK
  <1>3. QED
    BY <1>1, <1>2, OneJob

\* Nobody stops to be busy between the row and the abilities.
LEMMA StillServed ==
    ASSUME UpstreamInv, UNCHANGED <<row, abilities, diverged>>, NEW j \in Jobs, NEW v,
           job' = [job EXCEPT ![j] = v],
           job[j].pc \in {"reload", "abilities"} => v.pc \in {"reload", "abilities"}
    PROVE  ServedMatches'
  <1>1. \A i \in Jobs : job'[i].pc \notin {"reload", "abilities"} =>
                          job[i].pc \notin {"reload", "abilities"}
    BY DEF UpstreamInv, JobsSound
  <1>2. QED
    BY <1>1 DEF UpstreamInv, ServedMatches

LEMMA UpdateKeeps ==
    ASSUME UpstreamInv, NEW j \in Jobs, UpdateAbilities(j)
    PROVE  UpstreamInv'
  <1>0. UNCHANGED <<auto, redirects, row, cache, typed, starts>> /\ job[j].pc = "abilities"
    BY DEF UpdateAbilities, config
  <1>1. JobSound(job[j]) /\ cache \subseteq Models /\ abilities \subseteq Models
    BY DEF UpstreamInv, JobsSound, PendingNotIgnored, TypeOK
  <1>2. CASE /\ abilities' = job[j].row.models /\ diverged' = job[j].crossed
             /\ job' = [job EXCEPT ![j] = Carry("read", {})]
    <2>1. job[j].row.models \subseteq Models /\ job[j].crossed \in BOOLEAN
      BY <1>1 DEF JobSound, JobRecords, Rows
    <2>2. ServedMatches'
      BY <1>0, <1>1, <1>2, <2>1 DEF JobSound, InStep, ServedMatches
    <2>3. QED
      BY <1>0, <1>1, <1>2, <2>1, <2>2, CarryKeeps
  <1>3. CASE diverged' = TRUE /\ job' = [job EXCEPT ![j] = Idle] /\ abilities' = abilities
    <2>1. ServedMatches'
      BY <1>3 DEF ServedMatches
    <2>2. QED
      BY <1>0, <1>1, <1>3, <2>1, CarryKeeps
  <1>4. QED
    BY <1>2, <1>3 DEF UpdateAbilities

\* Reading the row again, and the refresh of the cache.
LEMMA RefreshKeeps ==
    ASSUME UpstreamInv, NEW j \in Jobs,
           Reload(j) \/ ReadChannels(j) \/ FailChannels(j) \/ SwapCache(j) \/ SyncChannelCache(j)
    PROVE  UpstreamInv'
  <1>1. row.models \subseteq Models /\ abilities \subseteq Models /\ cache \subseteq Models
        /\ diverged \in BOOLEAN
    BY DEF UpstreamInv, PendingNotIgnored, TypeOK
  <1>2. JobSound(job[j])
    BY DEF UpstreamInv, JobsSound
  <1>3. \A ms, pc : Carry(pc, ms).pc = pc
    BY DEF Carry, Idle
  <1>4. CASE Reload(j)
    <2>1. /\ UNCHANGED <<auto, redirects, row, abilities, cache, typed, diverged, starts>>
          /\ job' = [job EXCEPT ![j] = Carry("abilities", row.models)]
      BY <1>4 DEF Reload, config, table
    <2>2. ServedMatches'
      BY <1>3, <2>1, StillServed
    <2>3. QED
      BY <1>1, <2>1, <2>2, CarryKeeps
  <1>5. CASE ReadChannels(j)
    <2>1. /\ UNCHANGED <<auto, redirects, row, abilities, cache, typed, diverged, starts>>
          /\ job' = [job EXCEPT ![j] = Carry("swap", row.models)] /\ job[j].pc = "read"
      BY <1>5 DEF ReadChannels, config, table
    <2>2. ServedMatches'
      BY <2>1, StillServed
    <2>3. QED
      BY <1>1, <2>1, <2>2, CarryKeeps
  <1>5a. CASE FailChannels(j)
    <2>1. /\ UNCHANGED <<auto, redirects, row, abilities, cache, typed, diverged>>
          /\ starts < MaxStarts /\ starts' = starts + 1
          /\ job' = [job EXCEPT ![j] = Carry("swap", {})] /\ job[j].pc = "read"
      BY <1>5a DEF FailChannels, config, table
    <2>2. ServedMatches'
      BY <2>1, StillServed
    <2>3. QED
      BY <1>1, <2>1, <2>2, CarryKeeps
  <1>6. CASE SwapCache(j)
    <2>1. /\ UNCHANGED <<auto, redirects, row, abilities, typed, diverged, starts>>
          /\ cache' = job[j].row.models
          /\ job' = [job EXCEPT ![j] = Idle] /\ job[j].pc = "swap"
      BY <1>6 DEF SwapCache, config, table
    <2>2. ServedMatches'
      BY <2>1, StillServed
    <2>3. cache' \subseteq Models
      BY <1>2, <2>1 DEF JobSound, JobRecords, Rows
    <2>4. QED
      BY <1>1, <2>1, <2>2, <2>3, CarryKeeps
  <1>7. CASE SyncChannelCache(j)
    <2>1. /\ UNCHANGED <<auto, redirects, row, abilities, cache, typed, diverged, starts>>
          /\ job' = [job EXCEPT ![j] = Carry("read", {})] /\ job[j].pc = "idle"
      BY <1>7 DEF SyncChannelCache, config, table
    <2>2. ServedMatches'
      BY <2>1, StillServed
    <2>3. QED
      BY <1>1, <2>1, <2>2, CarryKeeps
  <1>8. QED
    BY <1>4, <1>5, <1>5a, <1>6, <1>7
-----------------------------------------------------------------------------
(* The write of the row *)

\* What the write of the job's record p puts into the row.
Written(p) == IF p.changed THEN p.row ELSE [p.row EXCEPT !.models = row.models]

LEMMA WrittenRow ==
    ASSUME UpstreamInv, NEW j \in Jobs
    PROVE  LET p == job[j]
           IN  /\ p.row \in Rows /\ row \in Rows /\ Written(p) \in Rows
               /\ Written(p).add = p.row.add /\ Written(p).rem = p.row.rem
               /\ Written(p).ignored = p.row.ignored
               /\ Written(p).models = IF p.changed THEN p.row.models ELSE row.models
  <1>1. job[j].row \in Rows /\ job[j].changed \in BOOLEAN
    BY DEF UpstreamInv, JobsSound, JobRecords
  <1>2. row \in Rows
    BY DEF UpstreamInv, PendingNotIgnored, TypeOK, Rows
  <1>3. QED
    BY <1>1, <1>2 DEF Written, Rows

\* A successful write in terms of the records.
LEMMA PersistStep ==
    ASSUME UpstreamInv, NEW j \in Jobs, Persist(j), ~(job' = [job EXCEPT ![j] = Idle] /\ UNCHANGED <<row, typed>>)
    PROVE  /\ row' = Written(job[j])
           /\ typed' = IF job[j].kind = "edit" THEN typed \cup (job[j].row.add \cap job[j].row.ignored)
                       ELSE typed
           /\ job' \in [Jobs -> JobRecords]
           /\ job'[j] = IF ~job[j].changed THEN Idle
                        ELSE IF job[j].kind = "edit" THEN Carry("reload", job[j].row.models)
                        ELSE Carry("abilities", job[j].row.models)
           /\ \A k \in Jobs \ {j} :
                /\ job'[k].kind = job[k].kind /\ job'[k].pc = job[k].pc /\ job'[k].row = job[k].row
                /\ job'[k].changed = job[k].changed /\ job'[k].asked = job[k].asked
                /\ job'[k].behind =
                     (job[k].behind \/ (row' # row /\ job[k].pc \in {"fetch", "form", "persist"}))
                /\ job'[k].crossed =
                     (job[k].crossed \/ (row'.models # row.models /\ job[k].pc = "abilities"))
  <1> PICK r, next, pc :
        /\ r = job[j].row
        /\ next = IF job[j].changed THEN r ELSE [r EXCEPT !.models = row.models]
        /\ pc = IF ~job[j].changed THEN "idle"
                ELSE IF job[j].kind = "edit" THEN "reload" ELSE "abilities"
    OBVIOUS
  <1>1. /\ row' = next
        /\ job' = [Overtaken(next) EXCEPT ![j] = IF pc = "idle" THEN Idle ELSE Carry(pc, r.models)]
        /\ typed' = IF job[j].kind = "edit" THEN typed \cup (r.add \cap r.ignored) ELSE typed
    BY DEF Persist
  <1> PICK over : over = Overtaken(next)
    OBVIOUS
  <1>2. job \in [Jobs -> JobRecords]
    BY DEF UpstreamInv, JobsSound
  <1>3. ASSUME NEW k \in Jobs
        PROVE  /\ over[k] \in JobRecords
               /\ over[k].kind = job[k].kind /\ over[k].pc = job[k].pc /\ over[k].row = job[k].row
               /\ over[k].changed = job[k].changed /\ over[k].asked = job[k].asked
               /\ over[k].behind =
                    (job[k].behind \/ (next # row /\ job[k].pc \in {"fetch", "form", "persist"}))
               /\ over[k].crossed =
                    (job[k].crossed \/ (next.models # row.models /\ job[k].pc = "abilities"))
    <2> PICK p, b, c :
          /\ p = job[k]
          /\ b = (p.behind \/ (next # row /\ p.pc \in {"fetch", "form", "persist"}))
          /\ c = (p.crossed \/ (next.models # row.models /\ p.pc = "abilities"))
      OBVIOUS
    <2>1. p \in JobRecords /\ b \in BOOLEAN /\ c \in BOOLEAN
      BY <1>2 DEF JobRecords
    <2>2. over[k] = [p EXCEPT !.behind = b, !.crossed = c]
      BY <2>1 DEF Overtaken, JobRecords
    <2>3. QED
      BY <2>1, <2>2 DEF JobRecords
  <1>4. over \in [Jobs -> JobRecords]
    BY <1>3 DEF Overtaken
  <1>5. r.models \in SUBSET Models
    BY WrittenRow DEF Rows
  <1>6. Idle \in JobRecords /\ (pc # "idle" => Carry(pc, r.models) \in JobRecords)
    BY <1>5 DEF Idle, Carry, JobRecords, None, Rows
  <1>7. job' \in [Jobs -> JobRecords] /\ \A k \in Jobs \ {j} : job'[k] = over[k]
    BY <1>1, <1>4, <1>6
  <1>8. job'[j] = IF ~job[j].changed THEN Idle
                  ELSE IF job[j].kind = "edit" THEN Carry("reload", job[j].row.models)
                  ELSE Carry("abilities", job[j].row.models)
    BY <1>1, <1>4
  <1>9. row' = Written(job[j])
    BY <1>1 DEF Written
  <1>10. ASSUME NEW k \in Jobs \ {j}
         PROVE  /\ job'[k].kind = job[k].kind /\ job'[k].pc = job[k].pc /\ job'[k].row = job[k].row
                /\ job'[k].changed = job[k].changed /\ job'[k].asked = job[k].asked
                /\ job'[k].behind =
                     (job[k].behind \/ (row' # row /\ job[k].pc \in {"fetch", "form", "persist"}))
                /\ job'[k].crossed =
                     (job[k].crossed \/ (row'.models # row.models /\ job[k].pc = "abilities"))
    BY <1>1, <1>3, <1>7
  <1>11. QED
    BY <1>1, <1>7, <1>8, <1>9, <1>10

LEMMA PersistKeeps ==
    ASSUME UpstreamInv, NEW j \in Jobs, Persist(j)
    PROVE  UpstreamInv'
  <1>0. UNCHANGED <<auto, redirects, abilities, cache, diverged, starts>> /\ job[j].pc = "persist"
    BY DEF Persist, config
  <1>1. Aliases' = Aliases
    BY <1>0, AliasesKept
  <1>2. TypeOK /\ JobSound(job[j]) /\ row.add \cap row.ignored \subseteq typed
    BY DEF UpstreamInv, JobsSound, PendingNotIgnored
  <1>3. CASE job' = [job EXCEPT ![j] = Idle] /\ UNCHANGED <<row, typed>>
    <2>1. ServedMatches'
      BY <1>0, <1>3, StillServed
    <2>2. QED
      BY <1>0, <1>2, <1>3, <2>1, CarryKeeps DEF TypeOK
  <1>4. CASE ~(job' = [job EXCEPT ![j] = Idle] /\ UNCHANGED <<row, typed>>)
    <2> PICK p : p = job[j]
      OBVIOUS
    <2>1. /\ p.row \in Rows /\ row \in Rows /\ row' = Written(p) /\ row' \in Rows
          /\ row'.add = p.row.add /\ row'.rem = p.row.rem /\ row'.ignored = p.row.ignored
          /\ row'.models = IF p.changed THEN p.row.models ELSE row.models
      BY <1>4, PersistStep, WrittenRow
    <2>2. typed' = IF p.kind = "edit" THEN typed \cup (p.row.add \cap p.row.ignored) ELSE typed
      BY <1>4, PersistStep
    <2>3. typed \subseteq typed' /\ typed' \subseteq Models
      BY <1>2, <2>1, <2>2 DEF TypeOK, Rows
    <2>4. p.pc = "persist" /\ p.row.rem \cap Aliases = {}
          /\ (p.kind # "edit" => p.row.add \cap p.row.ignored \subseteq typed)
      BY <1>0, <1>2 DEF JobSound, Carries
    <2>5. row'.add \cap row'.ignored \subseteq typed'
      BY <2>1, <2>2, <2>4
    <2>6. TypeOK'
      BY <1>0, <1>1, <1>2, <2>1, <2>3, <2>4 DEF TypeOK, Rows
    <2>7. ASSUME NEW k \in Jobs, k # j PROVE JobSound(job[k])'
      <3> PICK q : q = job[k]
        OBVIOUS
      <3> PICK t : t = job'[k]
        OBVIOUS
      <3>1. /\ t \in JobRecords
            /\ t.kind = q.kind /\ t.pc = q.pc /\ t.changed = q.changed /\ t.asked = q.asked /\ t.row = q.row
            /\ t.behind = (q.behind \/ (row' # row /\ q.pc \in {"fetch", "form", "persist"}))
            /\ t.crossed = (q.crossed \/ (row'.models # row.models /\ q.pc = "abilities"))
        BY <1>4, <2>7, PersistStep
      <3>2. JobSound(q)
        BY DEF UpstreamInv, JobsSound
      <3>3. InStep(job[k])'
        BY <3>1, <3>2 DEF JobSound, InStep
      <3>4. Justified(job[k])'
        BY <1>0, <3>1, <3>2 DEF JobSound, Justified
      <3>5. Carries(job[k])'
        BY <1>1, <2>3, <3>1, <3>2 DEF JobSound, Carries
      <3>6. QED
        BY <3>1, <3>2, <3>3, <3>4, <3>5 DEF JobSound
    <2>8. job' \in [Jobs -> JobRecords]
          /\ job'[j] = IF ~p.changed THEN Idle
                       ELSE IF p.kind = "edit" THEN Carry("reload", p.row.models)
                       ELSE Carry("abilities", p.row.models)
      BY <1>4, PersistStep
    <2>9. \A pc, ms : /\ Carry(pc, ms).pc = pc /\ Carry(pc, ms).row.models = ms
                      /\ Carry(pc, ms).row.rem = {} /\ Idle.row.rem = {} /\ Idle.pc = "idle"
      BY DEF Carry, Idle
    <2>10. JobSound(job[j])'
      <3> PICK t : t = job'[j]
        OBVIOUS
      <3>1. /\ t \in JobRecords /\ t.row.rem = {}
            /\ t.pc \in {"idle", "reload", "abilities"}
            /\ t.pc = "abilities" => t.row.models = row'.models
        BY <2>1, <2>8, <2>9
      <3>2. QED
        BY <3>1 DEF JobSound, InStep, Justified, Carries
    <2>11. ServedMatches'
      <3>1. CASE p.changed
        <4>1. job'[j].pc \in {"reload", "abilities"}
          BY <2>8, <2>9, <3>1
        <4>2. QED
          BY <4>1 DEF ServedMatches
      <3>2. CASE ~p.changed
        <4>1. \A i \in Jobs \ {j} : job'[i].pc = job[i].pc
          BY <1>4, PersistStep
        <4>2. QED
          BY <1>0, <2>1, <3>2, <4>1 DEF UpstreamInv, ServedMatches
      <3>3. QED
        BY <3>1, <3>2
    <2>12. QED
      BY <2>5, <2>6, <2>7, <2>8, <2>10, <2>11 DEF UpstreamInv, PendingNotIgnored, JobsSound
  <1>5. QED
    BY <1>3, <1>4

-----------------------------------------------------------------------------
(* The theorems *)

LEMMA InitUpstream == Init => UpstreamInv
  <1> SUFFICES ASSUME Init PROVE UpstreamInv
    OBVIOUS
  <1>1. PendingNotIgnored /\ ServedMatches
    <2>1. PICK ms \in SUBSET Models : /\ row = [models |-> ms, add |-> {}, rem |-> {}, ignored |-> {}]
                                      /\ abilities = ms /\ cache = ms
      BY DEF Init
    <2>2. row.add = {} /\ row.rem = {} /\ row.ignored = {} /\ row.models = ms /\ row \in Rows
      BY <2>1 DEF Rows
    <2>3. starts \in 0..MaxStarts
      BY UpstreamAssumption DEF Init
    <2>4. QED
      BY <2>1, <2>2, <2>3 DEF Init, PendingNotIgnored, TypeOK, ServedMatches, Rows
  <1>2. JobsSound
    BY IdleSound DEF Init, JobsSound, JobSound
  <1>3. QED
    BY <1>1, <1>2 DEF UpstreamInv

LEMMA NextUpstream ==
    ASSUME UpstreamInv, [Next]_vars
    PROVE  UpstreamInv'
  <1>0. row \in Rows /\ row.rem \cap Aliases = {} /\ row.add \cap row.ignored \subseteq typed
    BY DEF UpstreamInv, PendingNotIgnored, TypeOK, Rows
  <1>1. ASSUME NEW j \in Jobs, NEW k \in Kinds, LoadToCheck(j, k) PROVE UpstreamInv'
    BY <1>0, <1>1, StartKeeps DEF LoadToCheck
  <1>2. ASSUME NEW j \in Jobs, Apply(j) PROVE UpstreamInv'
    <2>1. PICK add \in SUBSET Models, rem \in SUBSET Models, ign \in SUBSET Models :
            Start(j, "apply", "persist", Applied(row, add, ign, rem),
                  (add \cap row.add) \cup (rem \cap row.rem))
      BY <1>2 DEF Apply
    <2> PICK c, asked : c = Applied(row, add, ign, rem)
                        /\ asked = (add \cap row.add) \cup (rem \cap row.rem)
      OBVIOUS
    <2>2. /\ c \in Rows /\ c.rem \subseteq row.rem
          /\ c.add \cap c.ignored \subseteq row.add \cap row.ignored
          /\ \A m \in Models :
               (m \in row.models) # (m \in c.models) \/ m \in row.ignored \ c.ignored => m \in asked
      BY <1>0, AppliedRow
    <2>3. asked \in SUBSET Models /\ c.rem \cap Aliases = {} /\ c.add \cap c.ignored \subseteq typed
      BY <1>0, <2>2 DEF Rows
    <2>4. Start(j, "apply", "persist", c, asked) /\ "apply" \in Kinds
      BY <2>1 DEF Kinds
    <2>5. QED
      BY <2>2, <2>3, <2>4, StartKeeps
  <1>3. ASSUME NEW j \in Jobs, ApplyAll(j) PROVE UpstreamInv'
    <2> PICK c, asked : c = Applied(row, row.add, {}, row.rem) /\ asked = row.add \cup row.rem
      OBVIOUS
    <2>1. row.add \in SUBSET Models /\ row.rem \in SUBSET Models
      BY <1>0 DEF Rows
    <2>2. /\ c \in Rows /\ c.rem \subseteq row.rem
          /\ c.add \cap c.ignored \subseteq row.add \cap row.ignored
          /\ \A m \in Models :
               (m \in row.models) # (m \in c.models) \/ m \in row.ignored \ c.ignored => m \in asked
      BY <1>0 DEF Applied, Rows
    <2>3. asked \in SUBSET Models /\ c.rem \cap Aliases = {} /\ c.add \cap c.ignored \subseteq typed
      BY <1>0, <2>1, <2>2
    <2>4. Start(j, "applyAll", "persist", c, asked) /\ "applyAll" \in Kinds
      BY <1>3 DEF ApplyAll, Kinds
    <2>5. QED
      BY <2>2, <2>3, <2>4, StartKeeps
  <1>4. ASSUME NEW j \in Jobs, OpenForm(j) PROVE UpstreamInv'
    BY <1>0, <1>4, StartKeeps DEF OpenForm, Kinds
  <1>5. ASSUME NEW j \in Jobs, JobStep(j) \/ SyncChannelCache(j) PROVE UpstreamInv'
    BY <1>5, FetchKeeps, SubmitKeeps, PersistKeeps, UpdateKeeps, RefreshKeeps DEF JobStep
  <1>6. CASE UNCHANGED vars
    <2>1. UNCHANGED <<auto, redirects, row, abilities, cache, job, typed, diverged, starts>>
      BY <1>6 DEF vars
    <2>2. Aliases' = Aliases
      BY <2>1, AliasesKept
    <2>3. QED
      BY <2>1, <2>2 DEF UpstreamInv, PendingNotIgnored, TypeOK, ServedMatches, JobsSound, JobSound,
                        InStep, Justified, Carries
  <1>7. QED
    BY <1>1, <1>2, <1>3, <1>4, <1>5, <1>6 DEF Next

LEMMA UpstreamInvHolds == Spec => []UpstreamInv
  BY InitUpstream, NextUpstream, PTL DEF Spec

\* controller/channel_upstream_update.go: however stale the rows that detections, applies
\* and forms write back, a model administrators ignored is not pending, but for the ones a
\* form itself saved in both lists.
THEOREM PendingNotIgnoredHolds == Spec => []PendingNotIgnored
  BY UpstreamInvHolds, PTL DEF UpstreamInv

\* Channel.UpdateAbilities: once no handler is between its write of the model list and
\* that of the abilities, the two agree, unless the last write failed or was overtaken.
THEOREM ServedMatchesHolds == Spec => []ServedMatches
  BY UpstreamInvHolds, PTL DEF UpstreamInv

LEMMA ChangeJustified ==
    ASSUME UpstreamInv, Next, NEW m \in Models,
           (m \in row.models) # (m \in row'.models) \/ m \in row.ignored \ row'.ignored
    PROVE  \E j \in Jobs : MayChange(j, m)
  <1>1. PICK j \in Jobs : Persist(j) /\ row' # row
    <2>1. row' # row
      OBVIOUS
    <2>2. QED
      BY <2>1 DEF Next, JobStep, LoadToCheck, Apply, ApplyAll, OpenForm, Start, Fetch, SubmitForm,
                  Reload, UpdateAbilities, ReadChannels, FailChannels, SwapCache, SyncChannelCache, table
  <1> PICK p : p = job[j]
    OBVIOUS
  <1>2. JobSound(p) /\ p.pc = "persist"
    BY <1>1 DEF UpstreamInv, JobsSound, Persist
  <1>3. ~(job' = [job EXCEPT ![j] = Idle] /\ UNCHANGED <<row, typed>>)
    BY <1>1
  <1>4. job'[j] # job[j]
    <2>1. job'[j] = IF ~p.changed THEN Idle
                    ELSE IF p.kind = "edit" THEN Carry("reload", p.row.models)
                    ELSE Carry("abilities", p.row.models)
      BY <1>1, <1>3, PersistStep
    <2>2. job'[j].pc # "persist"
      BY <2>1 DEF Carry, Idle
    <2>3. QED
      BY <1>2, <2>2
  <1>5. /\ row'.ignored = p.row.ignored
        /\ row'.models = IF p.changed THEN p.row.models ELSE row.models
    BY <1>1, <1>3, PersistStep, WrittenRow
  <1>6. \/ m \in p.asked \/ p.behind
        \/ p.kind = "task" /\ auto /\ m \in row'.models \ row.ignored
    BY <1>2, <1>5 DEF JobSound, Justified
  <1>7. QED
    BY <1>2, <1>4, <1>6 DEF MayChange

\* controller/channel_upstream_update.go, the page's dialog and form: only the task adds a
\* model on its own account; every other change of the list, and every model that stops to
\* be ignored, was asked for, or comes from a row another handler has written since.
THEOREM ChangesAskedHolds == Spec => ChangesAsked
  <1>1. ASSUME UpstreamInv, [Next]_vars
        PROVE  [\A m \in Models :
                  (m \in row.models) # (m \in row'.models) \/ m \in row.ignored \ row'.ignored =>
                      \E j \in Jobs : MayChange(j, m)]_vars
    BY <1>1, ChangeJustified
  <1>2. QED
    BY <1>1, UpstreamInvHolds, PTL DEF Spec, ChangesAsked
=============================================================================
