--------------------------- MODULE MCTaskPolling ---------------------------
(* Instances of TaskPolling for TLC. *)
EXTENDS TaskPolling

CONSTANTS t1, t2, p1, p2, f1, video, suno, gemini

\* Two processes poll a video task, with every fault the loop can meet.
TwoLoops ==
    [channelOf |-> [t \in {t1} |-> video], loops |-> {p1, p2}, fetchers |-> {},
     timeout |-> TRUE, vanish |-> TRUE, errors |-> TRUE]

\* One process polls a batch of Suno tasks, one of them without an upstream id.
SunoBatch ==
    [channelOf |-> [t \in {t1, t2} |-> IF t = t1 THEN suno ELSE NoChannel],
     loops |-> {p1}, fetchers |-> {}, timeout |-> TRUE, vanish |-> FALSE, errors |-> FALSE]

\* A user fetches a Gemini task that two processes poll.
UserFetch ==
    [channelOf |-> [t \in {t1} |-> gemini], loops |-> {p1, p2}, fetchers |-> {f1},
     timeout |-> FALSE, vanish |-> FALSE, errors |-> FALSE]

\* One process polls a video task.
OneLoop ==
    [TwoLoops EXCEPT !.loops = {p1}, !.errors = FALSE]

Deployments == {TwoLoops, SunoBatch, UserFetch}
SingleLoop == {OneLoop}

TwoEach == [t \in Tasks |-> 2]
=============================================================================
