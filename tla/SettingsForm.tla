---------------------------- MODULE SettingsForm ----------------------------
(***************************************************************************)
(* A section of the system settings pages of the web front end             *)
(* (web/default/src/features/system-settings): the query cache of the      *)
(* options, the form hook useSettingsForm, the loop that saves the changed *)
(* fields one request after another, and the server that keeps the         *)
(* options, one process.  Another administrator may write them too.  The   *)
(* page shows one of the three sections that use the hook.                 *)
(*                                                                         *)
(* baseline stands for defaultValuesRef, baselineRef,                      *)
(* serializedDefaultsRef and the defaults of react-hook-form, which the    *)
(* hook always sets together; a field is dirty when it differs from them.  *)
(* Nested values are flattened to one field per option key.  The Save      *)
(* button is disabled while a save runs; the inputs are not.               *)
(***************************************************************************)
EXTENDS FiniteSets

CONSTANTS
    Fields,         \* the option keys of the section
    NoField,        \* no option key
    Values,         \* the values a field may hold
    Trim,           \* a value without the trailing slashes
    Refusable,      \* the options of the quota section that need a confirmed compliance
    Failures,       \* requests or their answers may be lost
    Others          \* the options another administrator writes

ASSUME SettingsFormAssumption ==
    /\ NoField \notin Fields
    /\ Trim \in [Values -> Values]
    /\ \A v \in Values : Trim[Trim[v]] = Trim[v]
    /\ Failures \in BOOLEAN /\ Refusable \subseteq Fields /\ Others \subseteq Fields

Options == [Fields -> Values]

\* A section builds its defaults at its own renders (fresh) or takes those that the
\* page built when it rendered, trims what it sends, has a Reset button, and has
\* options the server may refuse ({success: false}).
SystemInfo == [fresh |-> TRUE, trims |-> TRUE, resets |-> TRUE, rejects |-> FALSE]
Quota == [fresh |-> FALSE, trims |-> FALSE, resets |-> FALSE, rejects |-> TRUE]
Pricing == [fresh |-> FALSE, trims |-> FALSE, resets |-> TRUE, rejects |-> FALSE]
Sections == {SystemInfo, Quota, Pricing}

VARIABLES
    section,    \* the section shown
    server,     \* the options on the server
    data,       \* the options in the query cache
    fresh,      \* the page rendered with new data and the form's effect has not run
                \* since (a section that builds its defaults compares values only)
    form,       \* the values shown in the form
    baseline,   \* the values the form was last reset to
    submit,     \* handleSubmit: [active, values, changed, todo]
    put,        \* the PUT in flight: [state, field]
    get,        \* the GET in flight, shared by all callers: [state, value]; the value
                \* is the cached one until the server has read its own
    typed,      \* history: fields typed in since the form was last reset
    asked,      \* history: the dirty fields that had been typed in when the save began
    behind,     \* history: since the server was last read, a request was lost, a
                \* refetch joined an older GET, or somebody else wrote
    untold      \* history: fields whose value on the server the form may not be told:
                \* it waits for a render of the page

formVars == <<section, server, data, fresh, form, baseline, submit, put, get, typed, asked, behind, untold>>

Idle(request) == request.state = "none"

\* No save runs.
NoSave == [active |-> FALSE, values |-> [f \in Fields |-> CHOOSE v \in Values : TRUE], changed |-> {}, todo |-> {}]

\* A section that builds its defaults is told at its next render.
Untold(fs) == IF section.fresh THEN {} ELSE untold \cup fs

FormInit ==
    /\ section \in Sections
    /\ server \in Options
    /\ data = server /\ form = server /\ baseline = server
    /\ fresh = FALSE
    /\ submit = NoSave
    /\ put = [state |-> "none", field |-> NoField]
    /\ get = [state |-> "none", value |-> server]
    /\ typed = {} /\ asked = {} /\ behind = FALSE /\ untold = {}

-----------------------------------------------------------------------------
(* The form *)

Dirty == {f \in Fields : form[f] # baseline[f]}

Type(f, v) ==
    /\ form[f] # v
    /\ form' = [form EXCEPT ![f] = v]
    /\ typed' = typed \cup {f}
    /\ UNCHANGED <<section, server, data, fresh, baseline, submit, put, get, asked, behind, untold>>

\* form.reset: values and defaults together.
ResetTo(values) ==
    /\ form' = values /\ baseline' = values
    /\ typed' = {}

\* handleReset, offered while no save runs.
HandleReset ==
    /\ section.resets /\ ~submit.active
    /\ ResetTo(baseline)
    /\ UNCHANGED <<section, server, data, fresh, submit, put, get, asked, behind, untold>>

\* The effect runs after a render that brought new defaults: those of the page,
\* which renders when data is new, or the section's own.
EffectDue == IF section.fresh THEN data # baseline ELSE fresh

\* Fields a running save will reset to older values than the effect brings now.
Overtaken == {f \in Fields \ submit.changed : data[f] # submit.values[f]}

\* Mutant: the effect keeps what the form shows and only moves the baseline.
EffectKeepsForm ==
    /\ EffectDue
    /\ baseline' = data /\ fresh' = FALSE
    /\ untold' = IF submit.active THEN Untold(Overtaken) ELSE {}
    /\ UNCHANGED <<section, server, data, form, typed, submit, put, get, asked, behind>>

\* The effect of the hook: it does nothing when the defaults are the last ones.
Effect ==
    /\ EffectDue
    /\ IF data = baseline THEN UNCHANGED <<form, baseline, typed>> ELSE ResetTo(data)
    /\ fresh' = FALSE
    /\ untold' = IF submit.active THEN Untold(Overtaken) ELSE {}
    /\ UNCHANGED <<section, server, data, submit, put, get, asked, behind>>

\* handleSubmit, up to the first request.
Submit ==
    /\ ~submit.active
    /\ Dirty # {}
    /\ submit' = [active |-> TRUE, values |-> form, changed |-> Dirty, todo |-> Dirty]
    /\ asked' = typed \cap Dirty
    /\ UNCHANGED <<section, server, data, fresh, form, baseline, put, get, typed, behind, untold>>

\* The loop of onSubmit: the next changed field.
SendPut(f) ==
    /\ submit.active /\ Idle(put)
    /\ f \in submit.todo
    /\ put' = [state |-> "sent", field |-> f]
    /\ submit' = [submit EXCEPT !.todo = @ \ {f}]
    /\ UNCHANGED <<section, server, data, fresh, form, baseline, get, typed, asked, behind, untold>>

\* Mutant: the hook forgets to move the baseline after a save.
SubmitEndKeepsBaseline ==
    /\ submit.active /\ Idle(put) /\ submit.todo = {}
    /\ submit' = NoSave
    /\ asked' = {}
    /\ form' = submit.values /\ typed' = {}
    /\ UNCHANGED <<section, server, data, fresh, put, get, behind, baseline, untold>>

\* onSubmit has returned: the submitted values become the baseline.
SubmitEnd ==
    /\ submit.active /\ Idle(put) /\ submit.todo = {}
    /\ submit' = NoSave
    /\ asked' = {}
    /\ ResetTo(submit.values)
    /\ UNCHANGED <<section, server, data, fresh, put, get, behind, untold>>

-----------------------------------------------------------------------------
(* Requests *)

\* What onSubmit sends for a value.
Sent(v) == IF section.trims THEN Trim[v] ELSE v

\* PUT /api/option/ on the server, which stores the option.
PutApply ==
    /\ put.state = "sent"
    /\ server' = [server EXCEPT ![put.field] = Sent(submit.values[put.field])]
    /\ put' = [put EXCEPT !.state = "applied"]
    /\ UNCHANGED <<section, data, fresh, form, baseline, submit, get, typed, asked, behind, untold>>

\* The server refuses the value and keeps its own.
PutReject ==
    /\ section.rejects /\ put.field \in Refusable
    /\ put.state = "sent"
    /\ put' = [put EXCEPT !.state = "rejected"]
    /\ untold' = Untold({put.field})
    /\ UNCHANGED <<section, server, data, fresh, form, baseline, submit, get, typed, asked, behind>>

\* api.get: a request already in flight answers this caller too.
Refetch ==
    IF Idle(get)
    THEN get' = [get EXCEPT !.state = "sent"] /\ UNCHANGED behind
    ELSE behind' = TRUE /\ UNCHANGED get

\* Mutant: a saved option does not invalidate the query.
PutAnswerNoRefetch ==
    /\ put.state \in {"applied", "rejected"}
    /\ put' = [state |-> "none", field |-> NoField]
    /\ UNCHANGED <<section, server, data, fresh, form, baseline, submit, typed, asked, get, behind, untold>>

\* onSuccess of the mutation: {success: false} resolves it as well.
PutAnswer ==
    /\ put.state \in {"applied", "rejected"}
    /\ put' = [state |-> "none", field |-> NoField]
    /\ IF put.state = "applied" THEN Refetch ELSE UNCHANGED <<get, behind>>
    /\ UNCHANGED <<section, server, data, fresh, form, baseline, submit, typed, asked, untold>>

\* onError: mutateAsync rejects, onSubmit throws and handleSubmit ends without
\* touching the form.  The server may have applied the value all the same.
PutError ==
    /\ Failures
    /\ ~Idle(put)
    /\ put' = [state |-> "none", field |-> NoField]
    /\ submit' = NoSave
    /\ asked' = {}
    /\ behind' = TRUE
    /\ untold' = Untold(submit.changed)
    /\ UNCHANGED <<section, server, data, fresh, form, baseline, get, typed>>

\* The window gets the focus and the cached options are stale.
FocusRefetch ==
    /\ Idle(get)
    /\ get' = [get EXCEPT !.state = "sent"]
    /\ UNCHANGED <<section, server, data, fresh, form, baseline, submit, put, typed, asked, behind, untold>>

\* GET /api/option/ on the server.
ServerRead ==
    /\ get.state = "sent"
    /\ get' = [state |-> "read", value |-> server]
    /\ behind' = FALSE
    /\ UNCHANGED <<section, server, data, fresh, form, baseline, submit, put, typed, asked, untold>>

\* The answer reaches the cache.  The server lists the options in any order: equal
\* options may be new data or keep their identity, different ones are new.
GetDone ==
    /\ get.state = "read"
    /\ data' = get.value
    /\ \/ ~section.fresh /\ fresh' = TRUE
       \/ (section.fresh \/ get.value = data) /\ fresh' = fresh
    /\ get' = [get EXCEPT !.state = "none"]
    /\ UNCHANGED <<section, server, form, baseline, submit, put, typed, asked, behind, untold>>

\* The query fails after its retries: the cache keeps the old options.
GetError ==
    /\ Failures
    /\ ~Idle(get)
    /\ get' = [state |-> "none", value |-> data]
    /\ behind' = TRUE
    /\ UNCHANGED <<section, server, data, fresh, form, baseline, submit, put, typed, asked, untold>>

OtherAdmin(f, v) ==
    /\ f \in Others
    /\ server[f] # v
    /\ server' = [server EXCEPT ![f] = v]
    /\ behind' = TRUE
    /\ untold' = Untold({f})
    /\ UNCHANGED <<section, data, fresh, form, baseline, submit, put, get, typed, asked>>

Page == Effect \/ (\E f \in Fields : SendPut(f)) \/ SubmitEnd
Transport == PutApply \/ PutReject \/ PutAnswer \/ PutError \/ ServerRead \/ GetDone \/ GetError

FormNext ==
    \/ \E f \in Fields, v \in Values : Type(f, v) \/ OtherAdmin(f, v)
    \/ HandleReset \/ Submit \/ FocusRefetch
    \/ Page \/ Transport

FormSpec == FormInit /\ [][FormNext]_formVars

\* React runs the effects and the promises of the page, and every request ends.
FormFairSpec == FormSpec /\ WF_formVars(Page) /\ WF_formVars(PutApply \/ PutAnswer) /\ WF_formVars(ServerRead \/ GetDone)

-----------------------------------------------------------------------------
(* Properties *)

\* Type invariant of the page, its cache and the requests.
FormTypeOK ==
    /\ section \in Sections
    /\ server \in Options /\ data \in Options /\ form \in Options /\ baseline \in Options
    /\ fresh \in BOOLEAN
    /\ submit \in [active : BOOLEAN, values : Options, changed : SUBSET Fields, todo : SUBSET Fields]
    /\ put \in [state : {"none", "sent", "applied", "rejected"}, field : Fields \cup {NoField}]
    /\ Idle(put) <=> put.field = NoField
    /\ get \in [state : {"none", "sent", "read"}, value : Options]
    /\ typed \subseteq Fields /\ asked \subseteq Fields
    /\ behind \in BOOLEAN /\ untold \subseteq Fields

Settled == ~submit.active /\ Idle(put) /\ Idle(get)
Quiet == Settled /\ ~EffectDue

\* A save writes only fields the administrator typed in since the form last
\* showed saved values: the resets by the effect, by a save that ends and by the
\* Reset button never make a stale field look changed, so that a save cannot
\* undo what somebody else stored in another field.
WritesOnlyTyped ==
    submit.active => submit.todo \cup ({put.field} \ {NoField}) \subseteq asked

\* With no request under way the cache holds the server's options, unless one of
\* three things happened since the server was last read: another administrator
\* wrote, a request was lost, or the refetch after a save joined a GET that the
\* server had already answered.
StaleHasCause == Settled /\ ~behind => data = server

\* A form nobody typed in since its last reset shows the server's options: in the
\* system information section always, also after a save whose value was trimmed; in
\* the quota and pricing sections, which wait for the page to render, up to fields
\* that were refused, written by another administrator, part of a save that broke
\* off, or reset to older values by a save, since the effect last ran without a save.
ShownIsSaved ==
    /\ FormTypeOK
    /\ Quiet /\ ~behind /\ typed = {} =>
          \A f \in Fields : form[f] = server[f] \/ f \in untold

\* An administrator who stops typing ends up looking at the stored options, in the
\* quota and pricing sections if no such field is left.
FormConverges ==
    <>[](typed = {} /\ ~behind /\ untold = {}) => <>[](form = server)
=============================================================================
