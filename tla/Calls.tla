------------------------------- MODULE Calls -------------------------------
(***************************************************************************)
(* Streams (Stream) and loading the plugin (Startup): two components that  *)
(* share no state with each other, so a behaviour is one of one of them:   *)
(* `part' says which, and the other stays as it is in a fixed first state. *)
(***************************************************************************)
EXTENDS Stream

CONSTANTS Width, FieldCount, Modulus, Levels, Files, Missing, Invalid, MaxLoads, MaxRuntimes  \* Startup

\* A field has a size, the three required ones are there, and a struct is
\* smaller than the address space.
ASSUME StructAssumption ==
    /\ Width \in Nat \ {0} /\ FieldCount \in Nat \ (0..2)
    /\ Modulus \in Nat /\ FieldCount * Width < Modulus

\* There is a default level, and what marks a missing setting is no level.
ASSUME SettingsAssumption == Levels # {} /\ Missing \notin Levels /\ Missing # Invalid

VARIABLES
    part,
    pc, loads, libs, openssl, room, installed, returned, runtime, made, log, file  \* Startup

startVars == <<pc, loads, libs, openssl, room, installed, returned, runtime, made, log, file>>
callsVars == <<part, vars, startVars>>

Start == INSTANCE Startup WITH written <- installed

-----------------------------------------------------------------------------

\* One fixed first state for the part that is not the one of the behaviour.
StreamRests == bytes = <<>> /\ Init
StartRests == file = [table |-> Start!NoTable, ends |-> FALSE] /\ Start!Init

CallsInit ==
    \/ part = "stream" /\ Init /\ StartRests
    \/ part = "start" /\ StreamRests /\ Start!Init

CallsNext ==
    \/ part = "stream" /\ Next /\ UNCHANGED <<part, startVars>>
    \/ part = "start" /\ Start!Next /\ UNCHANGED <<part, vars>>

CallsSpec == CallsInit /\ [][CallsNext]_callsVars

-----------------------------------------------------------------------------

\* Of Startup: the libraries are up, in their order, while the plugin runs.
LibrariesUpWhileRunning == Start!LibrariesUpWhileRunning

\* Of Startup: the server gets callbacks of a plugin that started, and only
\* inside the struct that it passed.
CallbacksOfStartedPlugin == Start!CallbacksOfStartedPlugin

\* Of Startup: luaconfig.lua is applied as a whole or not at all.
ConfigAppliedWhole == Start!ConfigAppliedWhole
=============================================================================
