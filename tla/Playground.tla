----------------------------- MODULE Playground -----------------------------
(***************************************************************************)
(* The chat playground of the web front end                                *)
(* (web/default/src/features/playground).  The page keeps a list of        *)
(* messages; sending one appends a user message and a loading assistant    *)
(* message and opens a server-sent-event stream whose events update the    *)
(* LAST assistant message.  All streams of the page share two refs: the    *)
(* current source and the flag "stream complete".                          *)
(*                                                                         *)
(* Stream events change the list through functional updates and are        *)
(* rendered later; a handler of a click reads the list and isGenerating of *)
(* the last render, and its own update is rendered before the next event.  *)
(* The updater of a change also saves the list to localStorage, at the     *)
(* latest when the change is rendered: the stored list is msgs as it is, or*)
(* as it was at some moment since the last render.  Nothing else of the    *)
(* page outlives a reload, so a reload that finds an older list is the     *)
(* reload at that moment, before the changes that are missing from it;     *)
(* Reload therefore takes msgs.  config.stream is TRUE: no control of the  *)
(* page changes it.                                                        *)
(***************************************************************************)
EXTENDS Integers, Sequences, FiniteSets

CONSTANTS
    MaxSends,       \* bound: streams opened by the page
    MaxChunks,      \* bound: chunks of one stream
    Truncation      \* a proxy may end a stream without its [DONE] line

ASSUME PlaygroundAssumption ==
    MaxSends \in Nat /\ MaxChunks \in Nat /\ Truncation \in BOOLEAN

Sids == 1..MaxSends
NoStream == 0
NoKey == 0
Keys == 1..(2 * MaxSends)

VARIABLES
    msgs,       \* the messages
    view,       \* the messages of the last render
    gen,        \* isGenerating of the last render
    editing,    \* editingMessageKey
    ref,        \* sseSourceRef.current
    complete,   \* isStreamCompleteRef.current
    source,     \* each stream: "unused", "open" or "closed"
    chunks,     \* chunks each stream has delivered
    owner,      \* history: the assistant message each stream was opened for
    unfinished, \* history: a payload held a message still loading or streaming
    interrupted \* history: a control that should wait was used while generating

streamVars == <<ref, complete, source, chunks, owner>>
vars == <<msgs, view, gen, editing, ref, complete, source, chunks, owner, unfinished, interrupted>>

-----------------------------------------------------------------------------
(* Messages.  A piece of content is a chunk <<stream, number>> or one of   *)
(* the marks below; text itself is abstracted away.                        *)

Typed  == <<0, 1>>      \* what the user typed
Edited == <<0, 2>>      \* what the user changed a message to
Failed == <<0, 3>>      \* the text of an error

Active == {"loading", "streaming"}

UserMessage(k) ==
    [key |-> k, from |-> "user", status |-> "none", content |-> <<Typed>>,
     reasoning |-> <<>>, thinking |-> FALSE]

LoadingMessage(k) ==
    [key |-> k, from |-> "assistant", status |-> "loading", content |-> <<>>,
     reasoning |-> <<>>, thinking |-> FALSE]

\* finalizeMessage: the reasoning collected from the stream is kept.
Finalize(m) == [m EXCEPT !.thinking = FALSE]

\* The list in which the last message, if it is the assistant's, is what it is
\* in updated.
UpdateLastAssistant(list, updated) ==
    [i \in DOMAIN list |->
        IF i = Len(list) /\ list[i].from = "assistant" THEN updated[i] ELSE list[i]]

WithError(list) ==
    UpdateLastAssistant(list, [i \in DOMAIN list |->
        [list[i] EXCEPT !.content = <<Failed>>, !.status = "error", !.thinking = FALSE]])

\* isValidMessage: which messages a request carries.
IsValid(m) == m.from = "assistant" => m.content # <<>>

\* sanitizeMessagesOnLoad: the last unfinished assistant message.
Stuck(list) == {i \in DOMAIN list : list[i].from = "assistant" /\ list[i].status \in Active}

Sanitized(m) ==
    IF m.content # <<>> \/ m.reasoning # <<>>
    THEN [Finalize(m) EXCEPT !.status = "complete"]
    ELSE [Finalize(m) EXCEPT !.status = "error", !.content = <<Failed>>]

\* Mutant: only messages that already streamed are repaired.
SanitizeStreamingOnly(list) ==
    LET streaming == {i \in Stuck(list) : list[i].status = "streaming"}
    IN  [i \in DOMAIN list |-> IF i \in streaming THEN Sanitized(list[i]) ELSE list[i]]

SanitizeOnLoad(list) ==
    IF Stuck(list) = {} THEN list
    ELSE LET last == CHOOSE i \in Stuck(list) : \A j \in Stuck(list) : j <= i
         IN  [list EXCEPT ![last] = Sanitized(@)]

\* filter: the list without the message of key k.
Without(list, k) ==
    LET kept[n \in 0..Len(list)] ==
            IF n = 0 THEN <<>>
            ELSE IF list[n].key = k THEN kept[n - 1] ELSE Append(kept[n - 1], list[n])
    IN  kept[Len(list)]

\* A message offers its buttons once it shows an error or some content.
ShowsActions(m) == m.status = "error" \/ (m.content # <<>> /\ ~m.thinking)

-----------------------------------------------------------------------------
Init ==
    /\ msgs = <<>> /\ view = <<>> /\ gen = FALSE /\ editing = NoKey
    /\ ref = NoStream /\ complete = FALSE
    /\ source = [s \in Sids |-> "unused"]
    /\ chunks = [s \in Sids |-> 0]
    /\ owner = [s \in Sids |-> NoKey]
    /\ unfinished = FALSE /\ interrupted = FALSE

Used == {s \in Sids : source[s] # "unused"}
FreshKey == 2 * Cardinality(Used)   \* a send uses two keys: this and the next

\* The update of a click is rendered at once, with the updates before it.
RenderNow == view' = msgs' /\ gen' = (ref' # NoStream)

\* sendStreamRequest: the new source replaces the ref whatever it held; start()
\* may throw, which marks the message and clears the ref.
OpenStream(list) ==
    LET s == Cardinality(Used) + 1 IN
    /\ Cardinality(Used) < MaxSends
    /\ complete' = FALSE
    /\ owner' = [owner EXCEPT ![s] = list[Len(list)].key]
    /\ unfinished' = (unfinished \/ \E i \in DOMAIN list : list[i].status \in Active /\ IsValid(list[i]))
    /\ \/ /\ msgs' = list /\ ref' = s
          /\ source' = [source EXCEPT ![s] = "open"]
       \/ /\ msgs' = WithError(list) /\ ref' = NoStream
          /\ source' = [source EXCEPT ![s] = "closed"]
    /\ UNCHANGED chunks
    /\ RenderNow

\* Mutant: the input stays enabled while an answer is generated.
SendUnguarded ==
    /\ OpenStream(view \o <<UserMessage(FreshKey + 1), LoadingMessage(FreshKey + 2)>>)
    /\ UNCHANGED <<editing, interrupted>>

\* handleSendMessage, reached from the input, which is disabled while generating...
Send ==
    /\ ~gen
    /\ OpenStream(view \o <<UserMessage(FreshKey + 1), LoadingMessage(FreshKey + 2)>>)
    /\ UNCHANGED <<editing, interrupted>>

\* ...and from the suggestion buttons, which are not.
ClickSuggestion ==
    /\ interrupted' = (interrupted \/ gen)
    /\ OpenStream(view \o <<UserMessage(FreshKey + 1), LoadingMessage(FreshKey + 2)>>)
    /\ UNCHANGED editing

Regenerate(i) ==
    /\ ~gen
    /\ view[i].from = "assistant" /\ view[i].status \notin Active
    /\ ShowsActions(view[i]) /\ view[i].key # editing
    /\ OpenStream(SubSeq(view, 1, i - 1) \o <<LoadingMessage(FreshKey + 2)>>)
    /\ UNCHANGED <<editing, interrupted>>

Delete(i) ==
    /\ ~gen
    /\ ShowsActions(view[i]) /\ view[i].key # editing
    /\ msgs' = Without(view, view[i].key)
    /\ UNCHANGED <<editing, ref, complete, source, chunks, owner, unfinished, interrupted>>
    /\ RenderNow

OpenEdit(i) ==
    /\ ~gen
    /\ ShowsActions(view[i]) /\ view[i].content # <<>>
    /\ editing # view[i].key
    /\ editing' = view[i].key
    /\ UNCHANGED <<msgs, unfinished, interrupted, streamVars>>
    /\ RenderNow

CancelEdit ==
    /\ editing # NoKey
    /\ editing' = NoKey
    /\ UNCHANGED <<msgs, unfinished, interrupted, streamVars>>
    /\ RenderNow

\* applyEdit: neither button of the editor looks at isGenerating.
Edit(i) == [view EXCEPT ![i].content = <<Edited>>]

SaveEdit(i) ==
    /\ interrupted' = (interrupted \/ gen)
    /\ view[i].key = editing
    /\ editing' = NoKey
    /\ msgs' = Edit(i)
    /\ UNCHANGED <<unfinished, streamVars>>
    /\ RenderNow

SubmitEdit(i) ==
    /\ interrupted' = (interrupted \/ gen)
    /\ view[i].key = editing /\ view[i].from = "user"
    /\ editing' = NoKey
    /\ OpenStream(SubSeq(Edit(i), 1, i) \o <<LoadingMessage(FreshKey + 2)>>)

\* Mutant: the message is finished but the source is forgotten, not closed.
StopWithoutClose ==
    /\ gen
    /\ ref' = NoStream
    /\ LET Updater(m) == IF m.status \in Active
                         THEN [Finalize(m) EXCEPT !.status = "complete"] ELSE m
       IN  msgs' = UpdateLastAssistant(msgs, [i \in DOMAIN msgs |-> Updater(msgs[i])])
    /\ UNCHANGED <<editing, complete, chunks, owner, unfinished, interrupted, source>>
    /\ RenderNow

\* stopGeneration: offered while generating; the flag is left alone.
Stop ==
    /\ gen
    /\ IF ref = NoStream THEN UNCHANGED <<ref, source>>
       ELSE source' = [source EXCEPT ![ref] = "closed"] /\ ref' = NoStream
    /\ LET Updater(m) == IF m.status \in Active
                         THEN [Finalize(m) EXCEPT !.status = "complete"] ELSE m
       IN  msgs' = UpdateLastAssistant(msgs, [i \in DOMAIN msgs |-> Updater(msgs[i])])
    /\ UNCHANGED <<editing, complete, chunks, owner, unfinished, interrupted>>
    /\ RenderNow

-----------------------------------------------------------------------------
(* Events of an open stream; they are rendered later.                      *)

Later == UNCHANGED <<view, gen, editing, owner, unfinished, interrupted>>

\* closeSource: closes this stream, and clears the ref whichever stream it names.
CloseSource(s) == source' = [source EXCEPT ![s] = "closed"] /\ ref' = NoStream

\* A chunk of text (message event).
ContentChunk(s) ==
    /\ source[s] = "open" /\ chunks[s] < MaxChunks
    /\ chunks' = [chunks EXCEPT ![s] = @ + 1]
    /\ LET Updater(m) == IF m.status = "error" THEN m
                         ELSE [m EXCEPT !.content = Append(@, <<s, chunks[s] + 1>>),
                                        !.thinking = FALSE, !.status = "streaming"]
       IN  msgs' = UpdateLastAssistant(msgs, [i \in DOMAIN msgs |-> Updater(msgs[i])])
    /\ UNCHANGED <<ref, complete, source>>
    /\ Later

\* A chunk of reasoning_content.
ReasoningChunk(s) ==
    /\ source[s] = "open" /\ chunks[s] < MaxChunks
    /\ chunks' = [chunks EXCEPT ![s] = @ + 1]
    /\ LET Updater(m) == IF m.status = "error" THEN m
                         ELSE [m EXCEPT !.reasoning = Append(@, <<s, chunks[s] + 1>>),
                                        !.thinking = TRUE, !.status = "streaming"]
       IN  msgs' = UpdateLastAssistant(msgs, [i \in DOMAIN msgs |-> Updater(msgs[i])])
    /\ UNCHANGED <<ref, complete, source>>
    /\ Later

\* The [DONE] line.
Done(s) ==
    /\ source[s] = "open"
    /\ complete' = TRUE
    /\ CloseSource(s)
    /\ LET Updater(m) == IF m.status \in {"complete", "error"} THEN m
                         ELSE [Finalize(m) EXCEPT !.status = "complete"]
       IN  msgs' = UpdateLastAssistant(msgs, [i \in DOMAIN msgs |-> Updater(msgs[i])])
    /\ UNCHANGED chunks
    /\ Later

\* A chunk that does not parse: handleError, which does nothing once the shared
\* flag is set, not even close the stream.
BadChunk(s) ==
    /\ source[s] = "open"
    /\ IF complete THEN UNCHANGED <<msgs, ref, source>>
       ELSE msgs' = WithError(msgs) /\ CloseSource(s)
    /\ UNCHANGED <<complete, chunks>>
    /\ Later

\* Mutant: an error closes the stream and is not shown.
FailSilently(s) ==
    /\ source[s] = "open"
    /\ source' = [source EXCEPT ![s] = "closed"]
    /\ ref' = NoStream
    /\ UNCHANGED <<msgs, complete, chunks>>
    /\ Later

\* An error event, or a final state with a status other than 200.  The library
\* has closed the source when the listeners return.
Fail(s) ==
    /\ source[s] = "open"
    /\ source' = [source EXCEPT ![s] = "closed"]
    /\ IF complete THEN UNCHANGED <<msgs, ref>>
       ELSE msgs' = WithError(msgs) /\ ref' = NoStream
    /\ UNCHANGED <<complete, chunks>>
    /\ Later

\* The body ends without [DONE]: the library closes the source, nobody listens.
Truncate(s) ==
    /\ Truncation
    /\ source[s] = "open"
    /\ source' = [source EXCEPT ![s] = "closed"]
    /\ UNCHANGED <<msgs, ref, complete, chunks>>
    /\ Later

Render ==
    /\ <<view, gen>> # <<msgs, ref # NoStream>>
    /\ view' = msgs /\ gen' = (ref # NoStream)
    /\ UNCHANGED <<msgs, editing, unfinished, interrupted, streamVars>>

\* The page is loaded again, from the stored list: the streams die with the old one.
Reload ==
    /\ msgs' = SanitizeOnLoad(msgs)
    /\ source' = [s \in Sids |-> IF source[s] = "open" THEN "closed" ELSE source[s]]
    /\ ref' = NoStream /\ complete' = FALSE /\ editing' = NoKey
    /\ UNCHANGED <<chunks, owner, unfinished, interrupted>>
    /\ RenderNow

StreamEvent(s) ==
    ContentChunk(s) \/ ReasoningChunk(s) \/ Done(s) \/ BadChunk(s) \/ Fail(s) \/ Truncate(s)

Next ==
    \/ Send \/ ClickSuggestion
    \/ \E i \in DOMAIN view :
          Regenerate(i) \/ Delete(i) \/ OpenEdit(i) \/ SaveEdit(i) \/ SubmitEdit(i)
    \/ CancelEdit \/ Stop
    \/ \E s \in Sids : StreamEvent(s)
    \/ Render \/ Reload

Spec == Init /\ [][Next]_vars

\* The gateway ends every stream it serves, with [DONE] or an error, and React
\* renders what was updated.
FairSpec ==
    /\ Spec
    /\ \A s \in Sids : WF_vars(Done(s) \/ Fail(s))
    /\ WF_vars(Render)

-----------------------------------------------------------------------------
(* Properties.  The controls that open a stream are disabled while an answer  *)
(* is generated, except the suggestions and the buttons of an editor that was *)
(* open before.  Most properties hold until one of those is used then, and    *)
(* fail after: the callbacks of two streams meet in one list and one ref.     *)

Pieces == {Typed, Edited, Failed} \cup (Sids \X (1..MaxChunks))
Message ==
    [key : Keys, from : {"user", "assistant"},
     status : {"none", "loading", "streaming", "complete", "error"},
     content : Seq(Pieces), reasoning : Seq(Pieces), thinking : BOOLEAN]

\* Type invariant of the page's state and refs.
TypeOK ==
    /\ msgs \in Seq(Message) /\ view \in Seq(Message)
    /\ gen \in BOOLEAN /\ complete \in BOOLEAN
    /\ unfinished \in BOOLEAN /\ interrupted \in BOOLEAN
    /\ editing \in Keys \cup {NoKey}
    /\ ref \in Sids \cup {NoStream}
    /\ source \in [Sids -> {"unused", "open", "closed"}]
    /\ chunks \in [Sids -> 0..MaxChunks]
    /\ owner \in [Sids -> Keys \cup {NoKey}]

Elems(seq) == {seq[i] : i \in DOMAIN seq}
Received(m) == Elems(m.content) \cup Elems(m.reasoning)

\* Every answer consists of the chunks of the stream that was opened for it, all
\* of them and in the order of arrival, although the stream callbacks address
\* "the last assistant message" and not a key: no chunk lands in another answer
\* and none is overwritten by a handler that read an older list.  No request
\* carries an answer that is still being written.
AnswersAreOwn ==
    ~interrupted => ~unfinished /\ \A i \in DOMAIN msgs : LET m == msgs[i] IN m.from = "assistant" =>
        /\ \A p \in Received(m) : p[1] # 0 => owner[p[1]] = m.key
        /\ \A s \in Sids : owner[s] = m.key /\ {Edited, Failed} \cap Received(m) = {}
              => /\ Received(m) = {s} \X (1..chunks[s])
                 /\ Len(m.content) + Len(m.reasoning) = chunks[s]
        /\ \A a, b \in DOMAIN m.content : a < b => m.content[a][2] < m.content[b][2]

\* The ref knows what goes on: every open stream is the one it holds, and a
\* message that is loading or streaming is the last one and waits for that stream.
\* So Stop is shown while there is something to stop and ends it, the guarded
\* controls wait for it, and no reload leaves a message without a stream behind.
StreamsTracked ==
    /\ TypeOK
    /\ ~interrupted =>
         /\ \A s \in Sids : source[s] = "open" => ref = s
         /\ \A i \in DOMAIN msgs : msgs[i].status \in Active =>
               i = Len(msgs) /\ ref # NoStream /\ owner[ref] = msgs[i].key

\* An answer that ended (completed, stopped or failed) is not revived by a late
\* event, and a failed one is not turned into a completed one.
EndedStaysEnded ==
    [][~interrupted' => \A i \in DOMAIN msgs, j \in DOMAIN msgs' :
          msgs[i].key = msgs'[j].key /\ msgs[i].status \in {"complete", "error"}
             => msgs'[j].status = msgs[i].status]_vars

\* Every answer ends: the page does not load or stream for ever, unless the
\* stream closed without [DONE] or error, which nobody tells the page.
Generating == \E i \in DOMAIN msgs : msgs[i].status \in Active
CutOff == ref # NoStream /\ source[ref] = "closed"
AnswersEnd == Generating ~> ~Generating \/ CutOff \/ interrupted
=============================================================================
