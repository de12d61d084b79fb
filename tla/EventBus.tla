------------------------------ MODULE EventBus ------------------------------
(***************************************************************************)
(* EventBus (src/core/event_bus.hpp and .cpp): handler lists that are      *)
(* changed by the very handlers a dispatch is calling.  A dispatch walks   *)
(* its list by index, up to the length the list had when it started;       *)
(* Unbind only marks an entry dead, and the dead entries are erased when   *)
(* no dispatch of any event is active.  Lua code runs in every state: in   *)
(* the handler that the innermost dispatch is calling, or, when there is   *)
(* none, in a timer callback or a script's main chunk.                     *)
(***************************************************************************)
EXTENDS Naturals, Sequences, Orders

CONSTANTS
    Events,      \* built-in and custom events
    Builtin,     \* the events that exist from the start (enum Event)
    Functions,   \* the Lua functions that scripts bind
    MaxList,     \* bound: entries of one handler list, dead ones included
    MaxDepth     \* bound: nested dispatches

ASSUME BuiltinAssumption == Builtin \subseteq Events
ASSUME BoundsAssumption == MaxList \in Nat /\ MaxDepth \in Nat

VARIABLES
    known,             \* index_by_name_: the events that exist
    lists,             \* lists_, by event
    frames,            \* the active dispatches with their cancelled_ flags
    needs_compaction   \* needs_compaction_

vars == <<known, lists, frames, needs_compaction>>

Handlers == [fn : Functions, alive : BOOLEAN]

\* An active dispatch: it is calling entry i, and will look at entries up to
\* `count', the size of the list when it started.
Frames == [event : Events, i : Nat \ {0}, count : Nat, cancelled : BOOLEAN]

TypeOK ==
    /\ known \in SUBSET Events
    /\ lists \in [Events -> Seq(Handlers)]
    /\ frames \in Seq(Frames)
    /\ needs_compaction \in BOOLEAN

Init ==
    /\ known = Builtin
    /\ lists = [e \in Events |-> << >>]
    /\ frames = << >>
    /\ needs_compaction = FALSE

-----------------------------------------------------------------------------
BoundAt(e, k, f) == lists[e][k].alive /\ lists[e][k].fn = f

\* The live entries of a list in their order: std::erase_if of the others.
AliveOnly(list) == Selected(list, {k \in 1..Len(list) : list[k].alive})

\* `now' is lists after the operation's own change.
Compact(now) ==
    /\ lists' = [e \in Events |-> AliveOnly(now[e])]
    /\ needs_compaction' = FALSE

\* Event.create: a new name gets an empty list.
Create(e) ==
    /\ e \notin known
    /\ known' = known \cup {e}
    /\ UNCHANGED <<lists, frames, needs_compaction>>

\* Event.bind: refused when the function is bound to the event already.
Bind(e, f) ==
    /\ e \in known /\ Len(lists[e]) < MaxList
    /\ ~\E k \in 1..Len(lists[e]) : BoundAt(e, k, f)
    /\ lists' = [lists EXCEPT ![e] = Append(@, [fn |-> f, alive |-> TRUE])]
    /\ UNCHANGED <<known, frames, needs_compaction>>

\* Mutant: does not ask for a compaction.
Unbind_Unflagged(e, f) ==
    /\ e \in known
    /\ \E k \in 1..Len(lists[e]) :
        /\ BoundAt(e, k, f)
        /\ lists' = [lists EXCEPT ![e][k].alive = FALSE]
    /\ UNCHANGED <<known, frames, needs_compaction>>

\* Event.unbind: the first live entry of the function is marked dead.
Unbind(e, f) ==
    /\ e \in known
    /\ \E k \in 1..Len(lists[e]) :
        /\ BoundAt(e, k, f)
        /\ \A j \in 1..(k - 1) : ~BoundAt(e, j, f)
        /\ LET marked == [lists EXCEPT ![e][k].alive = FALSE]
           IN IF frames = << >>
              THEN Compact(marked)
              ELSE lists' = marked /\ needs_compaction' = TRUE
    /\ UNCHANGED <<known, frames>>

-----------------------------------------------------------------------------
Top == frames[Len(frames)]
Popped == SubSeq(frames, 1, Len(frames) - 1)

\* The next entry after position i that a dispatch up to `count' calls.
IsNext(e, i, count, k) ==
    /\ k \in (i + 1)..count
    /\ lists[e][k].alive
    /\ \A j \in (i + 1)..(k - 1) : ~lists[e][j].alive

Exhausted(e, i, count) == \A k \in (i + 1)..count : ~lists[e][k].alive

\* Event.cancel: the innermost dispatch.  Outside a dispatch it raises an error.
Cancel ==
    /\ frames # << >>
    /\ frames' = [frames EXCEPT ![Len(frames)].cancelled = TRUE]
    /\ UNCHANGED <<known, lists, needs_compaction>>

\* Mutant: compacts when an inner dispatch finishes, too.
Finish_CompactsNested(rest) ==
    /\ frames' = rest
    /\ IF needs_compaction
       THEN Compact(lists)
       ELSE UNCHANGED <<lists, needs_compaction>>

\* DispatchFrame::Finish: `rest' is what stays on the stack.
Finish(rest) ==
    /\ frames' = rest
    /\ IF rest = << >> /\ needs_compaction
       THEN Compact(lists)
       ELSE UNCHANGED <<lists, needs_compaction>>

\* Dispatch, up to its first handler: a server event or Event.trigger.  An empty
\* list is skipped; a list without a live entry finishes at once.
Dispatch(e) ==
    /\ e \in known /\ lists[e] # << >>
    /\ Len(frames) < MaxDepth
    /\ \/ \E k \in 1..Len(lists[e]) :
            /\ IsNext(e, 0, Len(lists[e]), k)
            /\ frames' = Append(frames, [event |-> e, i |-> k, count |-> Len(lists[e]),
                                         cancelled |-> FALSE])
            /\ UNCHANGED <<lists, needs_compaction>>
       \/ Exhausted(e, 0, Len(lists[e])) /\ Finish(frames)
    /\ UNCHANGED known

\* Mutant: the loop asks for the current size of the list each time.
CallNext_CurrentSize ==
    /\ frames # << >> /\ ~Top.cancelled
    /\ \E k \in 1..Len(lists[Top.event]) :
        /\ IsNext(Top.event, Top.i, Len(lists[Top.event]), k)
        /\ frames' = [frames EXCEPT ![Len(frames)].i = k]
    /\ UNCHANGED <<known, lists, needs_compaction>>

\* A handler returned, with or without an error, and the loop goes on.
CallNext ==
    /\ frames # << >> /\ ~Top.cancelled
    /\ \E k \in 1..Top.count :
        /\ IsNext(Top.event, Top.i, Top.count, k)
        /\ frames' = [frames EXCEPT ![Len(frames)].i = k]
    /\ UNCHANGED <<known, lists, needs_compaction>>

\* A handler returned and it was the last one, or had cancelled the dispatch.
DispatchEnds ==
    /\ frames # << >>
    /\ Top.cancelled \/ Exhausted(Top.event, Top.i, Top.count)
    /\ Finish(Popped)
    /\ UNCHANGED known

\* Invoker::Call throws before it runs the next handler (Lua stack overflow):
\* ~DispatchFrame pops the frame and compacts nothing.
CallThrows ==
    /\ frames # << >> /\ ~Top.cancelled
    /\ ~Exhausted(Top.event, Top.i, Top.count)
    /\ frames' = Popped
    /\ UNCHANGED <<known, lists, needs_compaction>>

\* Runtime::Shutdown, which does not run inside a Lua call, and the bus of the
\* runtime that a reload puts in its place.
Clear ==
    /\ frames = << >>
    /\ lists' = [e \in Events |-> << >>]
    /\ needs_compaction' = FALSE
    /\ known' = Builtin
    /\ UNCHANGED frames

Next ==
    \/ \E e \in Events : Create(e)
    \/ \E e \in Events, f \in Functions : Bind(e, f)
    \/ \E e \in Events, f \in Functions : Unbind(e, f)
    \/ \E e \in Events : Dispatch(e)
    \/ Cancel
    \/ CallNext
    \/ DispatchEnds
    \/ CallThrows
    \/ Clear

Spec == Init /\ [][Next]_vars

-----------------------------------------------------------------------------
(***************************************************************************)
(* Properties.                                                             *)
(***************************************************************************)
\* Every index that an active dispatch uses is inside its handler list, whatever
\* the handlers bind, unbind and dispatch: lists_[event][i] for i < count.
IndexInRange ==
    \A n \in 1..Len(frames) :
        /\ frames[n].i \in 1..frames[n].count
        /\ frames[n].count <= Len(lists[frames[n].event])

\* An entry that an active dispatch can reach stays where it is: no step moves
\* it, puts another function in its place or brings a dead one back to life.
EntriesStayInPlace ==
    [][\A n \in 1..Len(frames) : n <= Len(frames') =>
        LET e == frames[n].event
        IN \A k \in 1..frames[n].count :
              /\ k <= Len(lists'[e])
              /\ lists'[e][k].fn = lists[e][k].fn
              /\ lists'[e][k].alive => lists[e][k].alive]_vars

\* "False if fn is already bound to the event": a function has one live entry
\* per event at most, also after it was unbound and bound again in a dispatch.
BoundOnce ==
    \A e \in Events : \A j, k \in 1..Len(lists[e]) :
        lists[e][j].alive /\ lists[e][k].alive /\ lists[e][j].fn = lists[e][k].fn
            => j = k

\* No dead entry is forgotten: while one is left, the flag that makes the next
\* outermost Finish or Unbind erase it is set.
DeadEntriesFlagged ==
    \A e \in Events : \A k \in 1..Len(lists[e]) :
        ~lists[e][k].alive => needs_compaction

-----------------------------------------------------------------------------
(***************************************************************************)
(* The bus implements EventDispatch: live entries are the bound functions, *)
(* and a dispatch still has to call the live entries of (i, count].        *)
(***************************************************************************)
LiveFunctions(list, first, last) ==
    Selected([k \in 1..Len(list) |-> list[k].fn], {k \in first..last : list[k].alive})

bound == [e \in Events |-> LiveFunctions(lists[e], 1, Len(lists[e]))]

dispatches ==
    [n \in 1..Len(frames) |->
        [event     |-> frames[n].event,
         current   |-> lists[frames[n].event][frames[n].i].fn,
         todo      |-> LiveFunctions(lists[frames[n].event], frames[n].i + 1, frames[n].count),
         cancelled |-> frames[n].cancelled]]

Abstract == INSTANCE EventDispatch

\* Every behaviour of the bus is one that EventDispatch allows: bind order, the
\* snapshot at the start, unbinding before its turn, the innermost cancel.
ImplementsDispatch == Abstract!Spec

=============================================================================
