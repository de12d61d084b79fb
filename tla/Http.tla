-------------------------------- MODULE Http --------------------------------
(***************************************************************************)
(* The HTTP client (modules/http.cpp) inside the server frame that drives  *)
(* it (core/frame_pump.cpp, Runtime::Frame): due timers, finished          *)
(* requests, one Copas step, then onServerFrame.  Scripts start requests   *)
(* whenever Lua runs, in the callbacks of other requests too.  What a      *)
(* request asks for is in HttpRequest, what its response holds in          *)
(* HttpResponse.                                                           *)
(***************************************************************************)
EXTENDS Integers, FiniteSets, Sequences, Functions

CONSTANTS
    MaxPending,   \* Http::kMaxPending
    MaxRequests,  \* bound: the ids that Start hands out
    Faults        \* memory can run out: a step throws, or Lua panics

ASSUME PendingAssumption == MaxPending \in Nat \ {0}
ASSUME RequestsAssumption == MaxRequests \in Nat
ASSUME FaultsAssumption == Faults \in BOOLEAN

VARIABLES
    transfers,  \* the ids in transfers_
    multi,      \* the ids whose easy handle is in the multi handle
    messages,   \* libcurl's DONE messages that were not read yet
    done,       \* what is left of the local `done` of Pump
    next_id,    \* next_id_
    at,         \* the step of the frame, "callback" in another callback
    lua,        \* a script runs in that step
    deferred,   \* a shutdown waits for the end of the callback
    dead,       \* a Lua panic happened
    closed,     \* the runtime was shut down
    accepted,   \* history: the ids whose Start returned
    called,     \* history: how often the callback of a request was called
    lost,       \* history: requests dropped without a callback
    fresh,      \* history: requests started since the last Pump collected
    released    \* history: C++ released a Lua reference after a panic

curlVars == <<multi, messages>>
frameVars == <<at, lua, deferred, dead, closed>>
history == <<accepted, called, lost, fresh, released>>
vars == <<transfers, curlVars, done, next_id, frameVars, history>>

Ids == 1..MaxRequests
Steps == {"timers", "http", "copas", "event"}

TypeOK ==
    /\ transfers \subseteq Ids /\ multi \subseteq Ids
    /\ messages \in Seq(Ids) /\ done \in Seq(Ids)
    /\ next_id \in 1..(MaxRequests + 1)
    /\ at \in Steps \cup {"idle", "completing", "callback"}
    /\ lua \in BOOLEAN /\ deferred \in BOOLEAN /\ dead \in BOOLEAN /\ closed \in BOOLEAN
    /\ accepted \subseteq Ids /\ lost \subseteq Ids /\ fresh \subseteq Ids
    /\ called \in [Ids -> Nat]
    /\ released \in BOOLEAN

Init ==
    /\ transfers = {} /\ multi = {} /\ messages = <<>> /\ done = <<>>
    /\ next_id = 1
    /\ at = "idle" /\ lua = FALSE /\ deferred = FALSE /\ dead = FALSE /\ closed = FALSE
    /\ accepted = {} /\ lost = {} /\ fresh = {}
    /\ called = [id \in Ids |-> 0]
    /\ released = FALSE

Usable == ~closed /\ ~dead

\* The steps in the order in which Runtime's constructor adds them.
After(step) == [timers |-> "http", http |-> "copas", completing |-> "copas",
                copas |-> "event", event |-> "idle", callback |-> "idle"][step]

-----------------------------------------------------------------------------

\* Start took the request: it is in the multi handle and in transfers_.
Start(id) ==
    /\ multi' = multi \cup {id}
    /\ transfers' = transfers \cup {id}
    /\ accepted' = accepted \cup {id}
    /\ fresh' = fresh \cup {id}

\* More than kMaxPending requests are refused (the call raises an error).
Admits == Cardinality(transfers) < MaxPending

(***************************************************************************)
(* A script calls http.request.  The id is used up before libcurl is asked *)
(* for a handle and its options, so a request that curl refuses leaves a   *)
(* gap: its Transfer dies outside the multi handle.  If transfers_.emplace *)
(* throws, the Transfer leaves the multi handle as it dies.                *)
(***************************************************************************)
Request(accepts) ==
    /\ lua /\ Usable
    /\ Admits
    /\ next_id <= MaxRequests
    /\ next_id' = next_id + 1
    /\ IF accepts THEN Start(next_id)
                  ELSE UNCHANGED <<transfers, multi, accepted, fresh>>
    /\ UNCHANGED <<messages, done, frameVars, called, lost, released>>

\* libcurl is through with a transfer: an answer, an error or the timeout.
Perform(id) ==
    /\ id \in multi /\ id \notin Range(messages)
    /\ messages' = Append(messages, id)
    /\ UNCHANGED <<transfers, multi, done, next_id, frameVars, history>>

-----------------------------------------------------------------------------

\* OnServerFrame -> Runtime::Frame; any other callback that dispatches to Lua.
Callback(step) ==
    /\ at = "idle" /\ Usable /\ ~deferred
    /\ at' = step
    /\ UNCHANGED <<transfers, curlVars, done, next_id, lua, deferred, dead, closed, history>>

Frame == Callback("timers")
OtherCallback == Callback("callback")

\* A step calls Lua, or has nothing to call: no due timer, no handler.
Run(calls) ==
    /\ at \in {"timers", "copas", "event", "callback"} /\ ~lua
    /\ calls \/ at # "copas"
    /\ lua' = calls
    /\ at' = IF calls THEN at ELSE After(at)
    /\ UNCHANGED <<transfers, curlVars, done, next_id, deferred, dead, closed, history>>

\* The messages' transfers leave the multi handle and transfers_.
Collect ==
    /\ multi' = multi \ Range(messages)
    /\ transfers' = transfers \ Range(messages)

\* Pump: collects every finished transfer, then completes them.
Pump ==
    /\ at = "http"
    /\ Collect
    /\ done' = messages
    /\ messages' = <<>>
    /\ at' = IF messages = <<>> THEN After(at) ELSE "completing"
    /\ fresh' = {}
    /\ UNCHANGED <<next_id, lua, deferred, dead, closed, accepted, called, lost, released>>

(***************************************************************************)
(* done.push_back throws for the k-th message: the transfers collected     *)
(* before it die with the local `done', and the k-th has left the multi    *)
(* handle but not transfers_.  Nothing will finish that one: it holds its  *)
(* place until Clear.                                                      *)
(***************************************************************************)
PumpThrows(k) ==
    LET collected == Range(SubSeq(messages, 1, k - 1))
    IN  /\ Faults
        /\ at = "http" /\ k \in 1..Len(messages)
        /\ multi' = multi \ (collected \cup {messages[k]})
        /\ transfers' = transfers \ collected
        /\ lost' = lost \cup collected
        /\ messages' = SubSeq(messages, k + 1, Len(messages))
        /\ at' = "idle"
        /\ fresh' = {}
        /\ UNCHANGED <<done, next_id, lua, deferred, dead, closed, accepted, called, released>>

\* Mutant: what finished meanwhile is completed in the same Pump.
Complete_Collects ==
    /\ at = "completing" /\ ~lua /\ done # <<>>
    /\ called' = [called EXCEPT ![Head(done)] = @ + 1]
    /\ done' = Tail(done) \o messages
    /\ messages' = <<>>
    /\ Collect
    /\ lua' = TRUE
    /\ UNCHANGED <<next_id, at, deferred, dead, closed, accepted, lost, fresh, released>>

\* Complete: the callback of the next finished transfer is called.
Complete ==
    /\ at = "completing" /\ ~lua /\ done # <<>>
    /\ called' = [called EXCEPT ![Head(done)] = @ + 1]
    /\ done' = Tail(done)
    /\ lua' = TRUE
    /\ UNCHANGED <<transfers, curlVars, next_id, at, deferred, dead, closed,
                   accepted, lost, fresh, released>>

\* Mutant: only the first of the collected transfers is completed.
Returns_AfterOne ==
    /\ lua
    /\ lua' = FALSE
    /\ done' = <<>>
    /\ at' = After(at)
    /\ UNCHANGED <<transfers, curlVars, next_id, deferred, dead, closed, history>>

\* The script's function returns, or raises an error, which is logged.
Returns ==
    /\ lua
    /\ lua' = FALSE
    /\ at' = IF done # <<>> THEN at ELSE After(at)
    /\ UNCHANGED <<transfers, curlVars, done, next_id, deferred, dead, closed, history>>

-----------------------------------------------------------------------------

\* An exception leaves the step, FramePump::Run and Frame; the callback
\* boundary logs it.  The local `done` is destroyed with its transfers.
Unwind ==
    /\ at' = "idle"
    /\ done' = <<>>
    /\ lost' = lost \cup Range(done)
    /\ UNCHANGED <<transfers, curlVars, next_id, lua, deferred, closed, accepted, called, fresh>>

\* "Lua stack overflow", bad_alloc: thrown before the script is called.
Throws ==
    /\ Faults
    /\ at \in {"timers", "completing", "copas", "event", "callback"} /\ ~lua
    /\ Unwind
    /\ UNCHANGED <<dead, released>>

(***************************************************************************)
(* Lua runs out of memory while C++ pushes arguments, outside a protected  *)
(* call.  Panic marks the runtime dead and throws.  The transfers in       *)
(* `done` hold references to their callbacks, the ones already completed   *)
(* included, and release them.                                             *)
(***************************************************************************)
Panic ==
    /\ Faults
    /\ at \in {"timers", "completing", "copas", "event", "callback"} /\ ~lua
    /\ dead' = TRUE
    /\ released' = (at = "completing")
    /\ Unwind

\* Clear: every transfer is destroyed, which takes it out of the multi handle.
Clear ==
    /\ transfers' = {} /\ multi' = {} /\ messages' = <<>>
    /\ lost' = lost \cup transfers
    /\ UNCHANGED called

\* OnServerShutdown inside a call into Lua (a script made the server stop).
DeferShutdown ==
    /\ lua /\ Usable
    /\ deferred' = TRUE
    /\ UNCHANGED <<transfers, curlVars, done, next_id, at, lua, dead, closed, history>>

\* Runtime::Shutdown, at once or from AfterCallback.  A dead runtime is leaked
\* with all its transfers.
Shutdown ==
    /\ at = "idle" /\ ~closed
    /\ closed' = TRUE
    /\ deferred' = FALSE
    /\ IF dead THEN UNCHANGED <<transfers, curlVars, called, lost>> ELSE Clear
    /\ UNCHANGED <<done, next_id, at, lua, dead, accepted, fresh, released>>

Next ==
    \/ \E accepts \in BOOLEAN : Request(accepts)
    \/ \E id \in Ids : Perform(id)
    \/ Frame \/ OtherCallback
    \/ \E calls \in BOOLEAN : Run(calls)
    \/ Pump \/ Complete \/ Returns
    \/ \E k \in 1..Len(messages) : PumpThrows(k)
    \/ Throws \/ Panic
    \/ DeferShutdown \/ Shutdown

Spec == Init /\ [][Next]_vars

(***************************************************************************)
(* The server sends frames between its other callbacks, a script's         *)
(* function returns, AfterCallback follows the callback, and the timeout   *)
(* of every transfer ends it.                                              *)
(***************************************************************************)
Fairness ==
    /\ SF_vars(Frame)
    /\ WF_vars(\E calls \in BOOLEAN : Run(calls))
    /\ WF_vars(Pump) /\ WF_vars(Complete) /\ WF_vars(Returns)
    /\ WF_vars(deferred /\ Shutdown)
    /\ \A id \in Ids : WF_vars(Perform(id))

FairSpec == Spec /\ Fairness

-----------------------------------------------------------------------------

(***************************************************************************)
(* What is in the multi handle is in transfers_, and a message names what  *)
(* is in the multi handle: Pump dereferences what the handle's             *)
(* CURLINFO_PRIVATE points to and what transfers_.find finds.              *)
(***************************************************************************)
HandlesOwned == multi \subseteq transfers /\ Range(messages) \subseteq multi

\* The requests that a fault left in transfers_ alone.
Stranded == transfers \ multi

(***************************************************************************)
(* Every accepted request is in one place: in transfers_, collected,       *)
(* answered once, or dropped.  None is answered twice, or answered after   *)
(* it was dropped.                                                         *)
(***************************************************************************)
Accounted ==
    \A id \in accepted :
        Cardinality({p \in {"pending", "collected", "dropped"} :
                        \/ p = "pending" /\ id \in transfers
                        \/ p = "collected" /\ id \in Range(done)
                        \/ p = "dropped" /\ id \in lost}) + called[id] = 1

(***************************************************************************)
(* kMaxPending bounds transfers_ only: while callbacks run, the collected  *)
(* requests do not count, so nearly twice as many can be unanswered.       *)
(***************************************************************************)
UnansweredBound ==
    /\ Cardinality(transfers) <= MaxPending
    /\ Cardinality(transfers) + Len(done) <= 2 * MaxPending - 1

(***************************************************************************)
(* "runs from a later Pump()": no callback runs in the Pump during which   *)
(* its request was started, and none once the runtime is closed or dead.   *)
(***************************************************************************)
CalledLater ==
    [][\A id \in Ids : called'[id] # called[id] =>
            id \notin fresh /\ ~closed' /\ ~dead']_vars

(***************************************************************************)
(* A step that throws, in the HTTP step or before it, ends the frame, but  *)
(* the requests that have not finished stay in transfers_ and in the multi *)
(* handle.                                                                 *)
(***************************************************************************)
ThrowSparesPending ==
    [][~closed' => /\ transfers \subseteq transfers' \cup Range(done') \cup Range(messages)
                   /\ multi \subseteq multi' \cup Range(messages)]_vars

(***************************************************************************)
(* Every accepted request is answered, dropped or stranded, or the runtime *)
(* ends: no callback is forgotten however requests, frames, callbacks and  *)
(* faults interleave, unless memory runs out in the very step that         *)
(* collects it.  Only frames that throw again and again before their HTTP  *)
(* step can keep it waiting.                                               *)
(***************************************************************************)
Answered ==
    \A id \in Ids :
        \/ []<><<Throws /\ at = "timers">>_vars
        \/ id \in accepted ~> called[id] = 1 \/ id \in lost \cup Stranded \/ ~Usable

Promise == INSTANCE HttpPromise WITH
    waiting <- transfers \cup Range(done),
    answers <- called,
    dropped <- lost,
    running <- Usable

(***************************************************************************)
(* The client implements HttpPromise: a request moves from waiting to      *)
(* answered or dropped and nowhere else, without faults only the end of    *)
(* the runtime drops requests, and then nothing is called any more.        *)
(***************************************************************************)
ImplementsPromise == Promise!Spec

(***************************************************************************)
(* Runtime::Shutdown: "After a panic the Lua state is inconsistent: not    *)
(* even releasing a reference is safe."                                    *)
(***************************************************************************)
NothingReleasedAfterPanic == ~released
=============================================================================
