---------------------------- MODULE ServerCalls ----------------------------
(***************************************************************************)
(* What the server and libcurl call: the event callbacks (ServerEvents),   *)
(* the message of OnPlayerCommand (Command) and the callbacks of a         *)
(* transfer (HttpResponse).  The three share no state, so a behaviour is   *)
(* one of one of them: `part' says which, and the others stay as they are  *)
(* in a fixed first state.                                                 *)
(***************************************************************************)
EXTENDS ServerEvents, Command, HttpResponse

VARIABLE part

allVars == <<part, vars, commandVars, responseVars>>

-----------------------------------------------------------------------------

\* One fixed first state for each part that is not the one of the behaviour.
EventRests ==
    /\ row = C("OnPlayerSpawn", "onPlayerSpawn", <<Player>>)
    /\ bound = FALSE /\ usable = FALSE
    /\ exists = [k \in Pools(row) |-> [i \in Ids |-> FALSE]]
    /\ Init
CommandRests == text = <<>> /\ CommandInit

CallsInit ==
    \/ part = "event" /\ Init /\ CommandRests /\ ResponseInit
    \/ part = "command" /\ EventRests /\ CommandInit /\ ResponseInit
    \/ part = "response" /\ EventRests /\ CommandRests /\ ResponseInit

CallsNext ==
    /\ UNCHANGED part
    /\ \/ part = "event" /\ Next /\ UNCHANGED <<commandVars, responseVars>>
       \/ part = "command" /\ CommandNext /\ UNCHANGED <<vars, responseVars>>
       \/ part = "response" /\ ResponseNext /\ UNCHANGED <<vars, commandVars>>

CallsSpec == CallsInit /\ [][CallsNext]_allVars
=============================================================================
