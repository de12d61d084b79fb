--------------------------- MODULE EventDispatch ---------------------------
(***************************************************************************)
(* What the event bus promises to scripts, without its data structure:     *)
(* per event the bound functions in bind order, per dispatch in progress   *)
(* the functions it still has to call.  A dispatch calls the functions     *)
(* that were bound when it started and still are when their turn comes; a  *)
(* function bound meanwhile, or unbound and bound again, waits for the     *)
(* next dispatch.  Event.cancel() ends the innermost dispatch only.        *)
(***************************************************************************)
EXTENDS Naturals, Sequences, Orders

CONSTANTS Events, Functions

VARIABLES
    bound,       \* [Events -> Seq(Functions)], in bind order, without repetition
    dispatches   \* the dispatches in progress, innermost last

vars == <<bound, dispatches>>

Without(seq, f) == Selected(seq, {k \in 1..Len(seq) : seq[k] # f})

Innermost == dispatches[Len(dispatches)]
Outer == SubSeq(dispatches, 1, Len(dispatches) - 1)

Init ==
    /\ bound = [e \in Events |-> << >>]
    /\ dispatches = << >>

Bind(e, f) ==
    /\ \A k \in 1..Len(bound[e]) : bound[e][k] # f
    /\ bound' = [bound EXCEPT ![e] = Append(@, f)]
    /\ UNCHANGED dispatches

\* No dispatch in progress calls f for this event any more.
Unbind(e, f) ==
    /\ \E k \in 1..Len(bound[e]) : bound[e][k] = f
    /\ bound' = [bound EXCEPT ![e] = Without(@, f)]
    /\ dispatches' = [k \in 1..Len(dispatches) |->
            IF dispatches[k].event = e
            THEN [dispatches[k] EXCEPT !.todo = Without(@, f)]
            ELSE dispatches[k]]

Cancel ==
    /\ dispatches # << >>
    /\ dispatches' = [dispatches EXCEPT ![Len(dispatches)].cancelled = TRUE]
    /\ UNCHANGED bound

Start(e) ==
    /\ bound[e] # << >>
    /\ dispatches' = Append(dispatches,
            [event |-> e, current |-> Head(bound[e]), todo |-> Tail(bound[e]),
             cancelled |-> FALSE])
    /\ UNCHANGED bound

\* The function that the innermost dispatch is calling returns.
NextFunction ==
    /\ dispatches # << >> /\ ~Innermost.cancelled /\ Innermost.todo # << >>
    /\ dispatches' = Append(Outer,
            [Innermost EXCEPT !.current = Head(Innermost.todo), !.todo = Tail(@)])
    /\ UNCHANGED bound

End ==
    /\ dispatches # << >> /\ (Innermost.cancelled \/ Innermost.todo = << >>)
    /\ dispatches' = Outer
    /\ UNCHANGED bound

\* The next function cannot be called: the dispatch ends early.
Abort ==
    /\ dispatches # << >> /\ ~Innermost.cancelled /\ Innermost.todo # << >>
    /\ dispatches' = Outer
    /\ UNCHANGED bound

\* The runtime is shut down, which no dispatch survives.
Clear ==
    /\ dispatches = << >>
    /\ bound' = [e \in Events |-> << >>]
    /\ UNCHANGED dispatches

Next ==
    \/ \E e \in Events, f \in Functions : Bind(e, f) \/ Unbind(e, f)
    \/ \E e \in Events : Start(e)
    \/ Cancel
    \/ NextFunction
    \/ End
    \/ Abort
    \/ Clear

Spec == Init /\ [][Next]_vars
=============================================================================
