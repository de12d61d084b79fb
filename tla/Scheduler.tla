----------------------------- MODULE Scheduler -----------------------------
(***************************************************************************)
(* Timers (src/core/scheduler.cpp and the Timer class of the bindings).    *)
(* A tick, once per server frame, collects the ids that are due and then   *)
(* calls them one by one; the callbacks create and destroy timers, the one *)
(* that is running included.  Time passes all along, also inside a tick.   *)
(***************************************************************************)
EXTENDS Integers

CONSTANTS
    Intervals,   \* the intervals that scripts ask for, in milliseconds
    Repeats,     \* the repeat counts: kForever or positive
    CallsThrow,  \* Invoker::Call may throw (Lua stack overflow)
    MaxTimers,   \* bound: timers that one runtime creates
    MaxTime,     \* bound: the clock
    MaxRuns      \* bound: where the history variable `runs' stops counting

kForever == -1

ASSUME IntervalsAssumption == Intervals \subseteq Nat
ASSUME RepeatsAssumption == Repeats \subseteq (Nat \ {0}) \cup {kForever}
ASSUME ThrowAssumption == CallsThrow \in BOOLEAN
ASSUME BoundsAssumption ==
    MaxTimers \in Nat /\ MaxTime \in Nat /\ MaxRuns \in Nat

Ids == 1..MaxTimers

VARIABLES
    clock,       \* what clock_() reads
    next_id,     \* next_id_
    timers,      \* the ids in timers_; the fields of Timer are functions of id
    interval, remaining, due, destroyed,
    ticking,     \* Tick is active
    now,         \* when it started
    pending,     \* the ids in its list `due' that it has not come to
    running,     \* the timer whose callback runs, 0 when there is none
    runs,        \* history: how often its callback was called
    ran, before, \* history: when it was called last and the time before that;
                 \* the creation counts as both
    repeats,     \* history: the repeat count it was created with
    settled      \* history: called or created in this tick

fieldVars == <<interval, remaining, due, destroyed>>
tickVars == <<ticking, now, pending, running>>
historyVars == <<runs, ran, before, repeats, settled>>
vars == <<clock, next_id, timers, fieldVars, tickVars, historyVars>>

TypeOK ==
    /\ clock \in Nat
    /\ next_id \in 1..(MaxTimers + 1)
    /\ timers \in SUBSET Ids
    /\ interval \in [Ids -> Nat]
    /\ remaining \in [Ids -> Nat \cup {kForever}]
    /\ due \in [Ids -> Nat]
    /\ destroyed \in [Ids -> BOOLEAN]
    /\ ticking \in BOOLEAN
    /\ now \in Nat
    /\ pending \in SUBSET Ids
    /\ running \in 0..MaxTimers
    /\ runs \in [Ids -> Nat]
    /\ ran \in [Ids -> Nat] /\ before \in [Ids -> Nat]
    /\ repeats \in [Ids -> Nat \cup {kForever}]
    /\ settled \in SUBSET Ids

Zero == [id \in Ids |-> 0]

Init ==
    /\ clock = 0
    /\ next_id = 1
    /\ timers = {}
    /\ interval = Zero /\ remaining = Zero /\ due = Zero
    /\ destroyed = [id \in Ids |-> FALSE]
    /\ ticking = FALSE /\ now = 0 /\ pending = {} /\ running = 0
    /\ runs = Zero /\ ran = Zero /\ before = Zero /\ repeats = Zero /\ settled = {}

-----------------------------------------------------------------------------
Exists(id) == id \in timers /\ ~destroyed[id]

\* Scripts run: in a timer's callback or outside the tick, but not between two
\* callbacks of one tick.
LuaRuns == ticking => running # 0

TimePasses ==
    /\ clock < MaxTime
    /\ clock' = clock + 1
    /\ UNCHANGED <<next_id, timers, fieldVars, tickVars, historyVars>>

\* Timer.create.  Ids are never used again.
Create(ms, count) ==
    /\ LuaRuns /\ next_id <= MaxTimers
    /\ next_id' = next_id + 1
    /\ timers' = timers \cup {next_id}
    /\ interval' = [interval EXCEPT ![next_id] = ms]
    /\ remaining' = [remaining EXCEPT ![next_id] = count]
    /\ due' = [due EXCEPT ![next_id] = clock + ms]
    /\ destroyed' = [destroyed EXCEPT ![next_id] = FALSE]
    /\ runs' = [runs EXCEPT ![next_id] = 0]
    /\ ran' = [ran EXCEPT ![next_id] = clock]
    /\ before' = [before EXCEPT ![next_id] = clock]
    /\ repeats' = [repeats EXCEPT ![next_id] = count]
    /\ settled' = IF ticking THEN settled \cup {next_id} ELSE settled
    /\ UNCHANGED <<clock, tickVars>>

\* timer:destroy().  The timer that is running is only marked.
Destroy(id) ==
    /\ LuaRuns /\ Exists(id)
    /\ IF running = id
       THEN destroyed' = [destroyed EXCEPT ![id] = TRUE] /\ UNCHANGED timers
       ELSE timers' = timers \ {id} /\ UNCHANGED destroyed
    /\ UNCHANGED <<clock, next_id, interval, remaining, due, tickVars, historyVars>>

\* Tick collects the due timers.  Without any timer it returns at once.
Tick ==
    /\ ~ticking /\ timers # {}
    /\ ticking' = TRUE
    /\ now' = clock
    /\ pending' = {id \in timers : ~destroyed[id] /\ due[id] <= clock}
    /\ settled' = {}
    /\ UNCHANGED <<clock, next_id, timers, fieldVars, running, runs, ran, before, repeats>>

-----------------------------------------------------------------------------
\* Earliest first; ids break ties.  Only Run changes `due', so the order in
\* which Tick sorted the list is still the order of the timers left in it.
Before(a, b) == due[a] < due[b] \/ (due[a] = due[b] /\ a < b)

IsNext(id) ==
    /\ id \in pending /\ Exists(id)
    /\ \A other \in pending \ {id} : Exists(other) => Before(id, other)

\* Mutant: a timer that fell behind catches up.
Rescheduled_CatchesUp(id) == due[id] + interval[id]

\* Fixed rate, but a timer that fell behind keeps its rate from now on.
Rescheduled(id) ==
    IF due[id] + interval[id] <= now THEN now + interval[id] ELSE due[id] + interval[id]

\* Run, up to the call: the timer counts down and is rescheduled.
Counted(id) ==
    /\ remaining' = [remaining EXCEPT ![id] = IF @ > 0 THEN @ - 1 ELSE @]
    /\ due' = [due EXCEPT ![id] = Rescheduled(id)]
    /\ UNCHANGED <<clock, next_id, timers, interval, destroyed, now, repeats>>

\* Mutant: the tick walks the timers themselves, not the list it collected.
Run_Uncollected(id) ==
    /\ ticking /\ running = 0
    /\ Exists(id) /\ due[id] <= now
    /\ Counted(id)
    /\ pending' = pending \ {id}
    /\ running' = id
    /\ runs' = [runs EXCEPT ![id] = IF @ < MaxRuns THEN @ + 1 ELSE @]
    /\ ran' = [ran EXCEPT ![id] = now] /\ before' = [before EXCEPT ![id] = ran[id]]
    /\ settled' = settled \cup {id}
    /\ UNCHANGED ticking

\* The callback of the next timer is called.  Timers that an earlier callback
\* destroyed are skipped.
Run(id) ==
    /\ ticking /\ running = 0
    /\ IsNext(id)
    /\ Counted(id)
    /\ pending' = pending \ {id}
    /\ running' = id
    /\ runs' = [runs EXCEPT ![id] = IF @ < MaxRuns THEN @ + 1 ELSE @]
    /\ ran' = [ran EXCEPT ![id] = now] /\ before' = [before EXCEPT ![id] = ran[id]]
    /\ settled' = settled \cup {id}
    /\ UNCHANGED ticking

\* Invoker::Call, or the RunningScope before it, throws instead of calling: the
\* timer stays, counted down, and the rest of the list waits for the next tick.
RunThrows(id) ==
    /\ CallsThrow
    /\ ticking /\ running = 0
    /\ IsNext(id)
    /\ Counted(id)
    /\ pending' = {} /\ ticking' = FALSE
    /\ UNCHANGED <<running, runs, ran, before, settled>>

\* Mutant: the last run does not end the timer.
CallbackReturns_KeepsFinished ==
    /\ running # 0
    /\ timers' = IF destroyed[running] THEN timers \ {running} ELSE timers
    /\ running' = 0
    /\ UNCHANGED <<clock, next_id, fieldVars, ticking, now, pending, historyVars>>

CallbackReturns ==
    /\ running # 0
    /\ timers' = IF destroyed[running] \/ remaining[running] = 0
                 THEN timers \ {running} ELSE timers
    /\ running' = 0
    /\ UNCHANGED <<clock, next_id, fieldVars, ticking, now, pending, historyVars>>

\* Mutant: the tick stops after its first callback.
TickEnds_AfterOne ==
    /\ ticking /\ running = 0
    /\ pending' = {} /\ ticking' = FALSE
    /\ UNCHANGED <<clock, next_id, timers, fieldVars, now, running, historyVars>>

TickEnds ==
    /\ ticking /\ running = 0
    /\ \A id \in pending : ~Exists(id)
    /\ pending' = {} /\ ticking' = FALSE
    /\ UNCHANGED <<clock, next_id, timers, fieldVars, now, running, historyVars>>

\* Runtime::Shutdown, never inside a tick, and the scheduler of the runtime that
\* a reload puts in its place.
Clear ==
    /\ ~ticking
    /\ timers' = {} /\ next_id' = 1
    /\ interval' = Zero /\ remaining' = Zero /\ due' = Zero
    /\ runs' = Zero /\ ran' = Zero /\ before' = Zero /\ repeats' = Zero /\ settled' = {}
    /\ UNCHANGED <<clock, destroyed, tickVars>>

Next ==
    \/ TimePasses
    \/ \E ms \in Intervals, count \in Repeats : Create(ms, count)
    \/ \E id \in Ids : Destroy(id)
    \/ Tick
    \/ \E id \in Ids : Run(id)
    \/ \E id \in Ids : RunThrows(id)
    \/ CallbackReturns
    \/ TickEnds
    \/ Clear

Spec == Init /\ [][Next]_vars

\* OnServerFrame keeps coming (about 168 times a second), and callbacks return.
Fairness ==
    /\ WF_vars(Tick) /\ WF_vars(TickEnds) /\ WF_vars(CallbackReturns)
    /\ \A id \in Ids : WF_vars(Run(id))

FairSpec == Spec /\ Fairness

-----------------------------------------------------------------------------
(***************************************************************************)
(* Properties.                                                             *)
(***************************************************************************)
\* Run holds a reference to the timer while its callback runs: the timer stays
\* in the map, whatever the callback destroys.
RunningTimerStays == running # 0 => running \in timers

\* "repeats times in all" (scheduler.hpp): a callback is never called more often
\* than its repeat count says, also when calls throw.
NeverMoreThanRepeats ==
    \A id \in timers : repeats[id] # kForever => runs[id] <= repeats[id]

\* "instead of catching up in a burst" (scheduler.cpp): however late the ticks
\* are, a call comes at least one interval after the call before the last one.
NoCatchUp ==
    [][running' # 0 /\ running' # running
        => now - before[running'] >= interval[running']]_vars

\* "A timer created in a callback waits for the next tick", and one that ran is
\* not called again in the same tick, whatever its interval.
OncePerTick ==
    [][running' # 0 /\ running' # running => running' \notin settled]_vars

\* A timer that is due has its turn, or is destroyed, sooner or later: no other
\* timer, however short its interval, keeps it from it, unless calls throw again
\* and again, as each of them ends its tick.
DueTimerRuns ==
    \A id \in Ids :
        \/ []<><<\E other \in Ids : RunThrows(other)>>_vars
        \/ Exists(id) /\ due[id] <= clock ~> running = id \/ ~Exists(id) \/ due[id] > clock

=============================================================================
