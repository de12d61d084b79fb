------------------------------ MODULE Command ------------------------------
(***************************************************************************)
(* How OnPlayerCommand of plugin/callbacks.cpp takes a message apart: the  *)
(* loop over the text, one word a step, and the arguments of               *)
(* onPlayerCommand that come out of it.  Positions are 0-based as in C++.  *)
(***************************************************************************)
EXTENDS Integers, Sequences, Orders

CONSTANTS
    Letters,  \* characters that are not spaces
    Space,    \* not one of them
    MaxText   \* characters in a message

\* A message has a size; a space is none of the other characters.
ASSUME TextAssumption == MaxText \in Nat /\ Space \notin Letters

VARIABLES
    text,     \* the message, empty for a null pointer
    pos, words, rest,
    event     \* the arguments of the event, None before it is emitted
commandVars == <<text, pos, words, rest, event>>

None == [command |-> <<>>, args |-> <<>>, text |-> <<>>, emitted |-> FALSE]
Size == Len(text)
At(i) == text[i + 1]
Substr(i, n) == SubSeq(text, i + 1, i + n)

\* find_first_not_of(' ', from) and find(' ', from); Size stands for npos.
First(hits) == IF hits = {} THEN Size ELSE CHOOSE i \in hits : \A j \in hits : i <= j
FindWord(from) == First({i \in from..(Size - 1) : At(i) # Space})
FindSpace(from) == First({i \in from..(Size - 1) : At(i) = Space})

CommandInit ==
    /\ text \in UNION {[1..n -> Letters \cup {Space}] : n \in 0..MaxText}
    /\ pos = 0 /\ words = <<>> /\ rest = Size
    /\ event = None

\* Mutant: the text begins right after the command.
Word_AfterCommand ==
    LET start == FindWord(pos)
        end == FindSpace(start)
    IN  /\ pos < Size /\ start < Size /\ ~event.emitted
        /\ rest' = IF Len(words) = 0 THEN end ELSE rest
        /\ words' = Append(words, Substr(start, end - start))
        /\ pos' = end
        /\ UNCHANGED <<text, event>>

\* One turn of the loop.
Word ==
    LET start == FindWord(pos)
        end == FindSpace(start)
    IN  /\ pos < Size /\ start < Size /\ ~event.emitted
        /\ rest' = IF Len(words) = 1 THEN start ELSE rest
        /\ words' = Append(words, Substr(start, end - start))
        /\ pos' = end
        /\ UNCHANGED <<text, event>>

\* The event.  An empty sequence stands for a nil command, or nil args.
Arguments ==
    IF words = <<>> THEN [None EXCEPT !.emitted = TRUE]
    ELSE [command |-> Head(words), args |-> Tail(words), text |-> Substr(rest, Size - rest), emitted |-> TRUE]

\* The loop ends at the end of the text, or with nothing but spaces left.
Emit ==
    /\ pos = Size \/ FindWord(pos) = Size
    /\ ~event.emitted
    /\ event' = Arguments
    /\ UNCHANGED <<text, pos, words, rest>>

CommandNext == Word \/ Emit
CommandSpec == CommandInit /\ [][CommandNext]_commandVars

-----------------------------------------------------------------------------
\* Where a word begins, without the loop: at a letter after a space or at the
\* beginning.
Begins == {i \in 1..Size : text[i] # Space /\ (i = 1 \/ text[i - 1] = Space)}
WordAt(i) == SubSeq(text, i, CHOOSE j \in i..Size :
                           /\ \A k \in i..j : text[k] # Space
                           /\ j = Size \/ text[j + 1] = Space)
\* The arguments of the event, for the places where words begin in order.
Reference(begin, n) ==
    [command |-> IF n = 0 THEN <<>> ELSE WordAt(begin[1]),
     args |-> [i \in 1..(n - 1) |-> WordAt(begin[i + 1])],
     text |-> IF n < 2 THEN <<>> ELSE SubSeq(text, begin[2], Size),
     emitted |-> TRUE]

(***************************************************************************)
(* docs/api/events.md: the command is the first word, args the others,     *)
(* text everything from the first argument on with its spaces, and empty   *)
(* without one, whatever spaces the message begins or ends with.           *)
(***************************************************************************)
SplitAsDocumented ==
    event.emitted =>
        \E n \in 0..Size : \E begin \in [1..n -> Begins] :
            Lists(begin, Begins) /\ event = Reference(begin, n)
=============================================================================
