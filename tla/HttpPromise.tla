---------------------------- MODULE HttpPromise ----------------------------
(***************************************************************************)
(* What http.request promises to scripts, without libcurl and the frame:   *)
(* a request that was accepted waits until its callback is called, once,   *)
(* or until it is dropped.  Requests are dropped when the runtime ends,    *)
(* and, when memory runs out, with the step that failed; nothing is called *)
(* after the runtime has ended.                                            *)
(***************************************************************************)
EXTENDS Naturals

CONSTANTS Ids, Faults

VARIABLES
    waiting,   \* the requests that were accepted and not answered yet
    answers,   \* how often the callback of a request was called
    dropped,   \* the requests that will not be answered
    running    \* the runtime runs scripts

vars == <<waiting, answers, dropped, running>>

Init ==
    /\ waiting = {} /\ dropped = {}
    /\ answers = [id \in Ids |-> 0]
    /\ running = TRUE

Accept(id) ==
    /\ running
    /\ id \notin waiting \cup dropped /\ answers[id] = 0
    /\ waiting' = waiting \cup {id}
    /\ UNCHANGED <<answers, dropped, running>>

Answer(id) ==
    /\ running
    /\ id \in waiting
    /\ waiting' = waiting \ {id}
    /\ answers' = [answers EXCEPT ![id] = @ + 1]
    /\ UNCHANGED <<dropped, running>>

Drop(ids) ==
    /\ waiting' = waiting \ ids
    /\ dropped' = dropped \cup ids
    /\ UNCHANGED answers

\* A step fails and takes the requests it works on with it, and sometimes the
\* runtime.
Fail(ids) ==
    /\ Faults /\ running
    /\ Drop(ids)
    /\ running' \in BOOLEAN

Close ==
    /\ running
    /\ Drop(waiting)
    /\ running' = FALSE

Next ==
    \/ \E id \in Ids : Accept(id) \/ Answer(id)
    \/ \E ids \in SUBSET waiting : Fail(ids)
    \/ Close

Spec == Init /\ [][Next]_vars
=============================================================================
