------------------------------ MODULE Startup ------------------------------
(***************************************************************************)
(* Loading the plugin (Init of plugin/callbacks.cpp), the libraries it     *)
(* sets up and cleans up, luaconfig.lua, the log, and what a reload reads  *)
(* again.  Every step that can fail may fail.  What callbacks do, and when *)
(* a reload or a shutdown is allowed to run, is in Lifecycle; the steps    *)
(* here run between callbacks.                                             *)
(*                                                                         *)
(* The options are those of the plugin as it is built (entry.cpp): it      *)
(* manages the libraries, reads the config from the file, no test hook.    *)
(***************************************************************************)
EXTENDS Integers, Sequences, FiniteSets

CONSTANTS
    Width,       \* bytes of a field of the server's structs
    FieldCount,  \* callbacks in the 2.1 header, in the order of the struct, 4 or more
    Modulus,     \* of size_t and uint32_t, here the same
    Levels,      \* log levels
    Files,       \* log files
    Missing,     \* the value of a setting that is not in the table
    Invalid,     \* a value of the wrong type, or an unknown level
    MaxLoads,    \* calls of VcmpPluginInit
    MaxRuntimes  \* runtimes made before a reload is no longer asked for

VARIABLES
    pc,        \* where Init, or the clean-up after it, is
    loads,     \* calls of Init
    libs,      \* g_initialised
    openssl,   \* OpenSSL itself: "new", "up", or "gone" for good
    room,      \* structSize of the callbacks the server passed
    written,   \* the bytes of it that Init wrote
    returned,  \* what the last Init that began returned, -1 until then
    runtime,   \* Plugin().runtime: its config, or NoRuntime
    made,      \* runtimes that took their place in Plugin() so far
    log,       \* the level, and the file sink
    file       \* luaconfig.lua
vars == <<pc, loads, libs, openssl, room, written, returned, runtime, made, log, file>>

NoRuntime == [level |-> Missing, file |-> Missing, daily |-> Missing]
NoSink == [file |-> Missing, daily |-> Missing]
Running == runtime # NoRuntime

-----------------------------------------------------------------------------
\* luaconfig.lua.  Of the settings those of the log are kept, as they are the
\* ones that this component applies; "other" stands for scripts, package_path
\* and http.cafile, which are right or wrong in the same way.

DefaultLevel == CHOOSE l \in Levels : TRUE
Tables ==
    [level : Levels \cup {Missing, Invalid}, file : Files \cup {Missing, Invalid},
     daily : BOOLEAN \cup {Missing, Invalid}, other : {Missing, Invalid}]

\* The file on disk: a table, or none because it is missing, raises an error,
\* runs too long, panics or returns something else.
NoTable == [level |-> Missing, file |-> Missing, daily |-> Missing, other |-> Missing]
Contents == [table : Tables, ends : {TRUE}] \cup [table : {NoTable}, ends : {FALSE}]

\* Reader: the first wrong setting throws, in whatever order they are visited.
Valid(t) == \A setting \in DOMAIN t : t[setting] # Invalid

\* LoadConfig throws unless the file returns a table.
Loads(f) == f.ends /\ Valid(f.table)

Set(value, default) == IF value \in {Missing, Invalid} THEN default ELSE value
ReadConfig(t) ==
    [level |-> Set(t.level, DefaultLevel), file |-> Set(t.file, Missing), daily |-> Set(t.daily, FALSE)]

\* log::Configure.
Configure(config, opens) ==
    log' = [level |-> config.level,
            sink |-> IF config.file # Missing /\ opens THEN [file |-> config.file, daily |-> config.daily]
                     ELSE NoSink]

-----------------------------------------------------------------------------
\* The libraries: each step of libraries::Init throws if it fails, and the
\* catch of VcmpPluginInit cleans up.

Fails == pc' = "cleanup_mysql" /\ UNCHANGED <<libs, openssl>>
Others == <<loads, room, written, runtime, made, log, file>>

\* A library that is up is not set up again.
InitOpenSSL ==
    /\ pc = "openssl"
    /\ \/ openssl # "gone" /\ openssl' = "up" /\ libs' = libs \cup {"openssl"} /\ pc' = "curl"
       \/ Fails
    /\ UNCHANGED <<Others, returned>>

InitLibrary(lib, at, next) ==
    /\ pc = at
    /\ \/ libs' = libs \cup {lib} /\ pc' = next /\ UNCHANGED openssl
       \/ Fails
    /\ UNCHANGED <<Others, returned>>

CheckDigestpp ==
    /\ pc = "digest"
    /\ (pc' = "info" /\ UNCHANGED <<libs, openssl>>) \/ Fails
    /\ UNCHANGED <<Others, returned>>

\* Mutant: OpenSSL goes before libcurl.
CleanupSteps_OpenSSLFirst == <<"mysql", "openssl", "curl">>

\* libraries::Cleanup, one library after the other; sqlite3_shutdown does nothing
\* that matters here.
CleanupSteps == <<"mysql", "curl", "openssl">>
CleanupAt(i) == <<"cleanup_mysql", "cleanup_curl", "cleanup_openssl">>[i]
Cleanup(i) ==
    /\ pc = CleanupAt(i)
    /\ pc' = IF i < 3 THEN CleanupAt(i + 1) ELSE "idle"
    /\ libs' = libs \ {CleanupSteps[i]}
    /\ openssl' = IF CleanupSteps[i] = "openssl" /\ "openssl" \in libs THEN "gone" ELSE openssl
    /\ returned' = IF i = 3 /\ returned = -1 THEN 0 ELSE returned
    /\ UNCHANGED Others

-----------------------------------------------------------------------------
\* VcmpPluginInit.

Offset(field) == (field - 1) * Width
BytesOf(field) == Offset(field) .. (Offset(field) + Width - 1)

\* Mutant: the field begins inside.
FieldFits_Begins(size, offset) == offset <= size

\* FieldFits: the subtraction does not wrap, as the first test has passed.
FieldFits(size, offset) == offset <= size /\ Width <= (size - offset) % Modulus

\* OnServerInitialise, OnServerShutdown and OnServerFrame come first.
Required == 1..3

\* A null pointer, or a start of a plugin that runs, is refused at once (0).
Refuse ==
    /\ pc = "idle" /\ loads < MaxLoads
    /\ loads' = loads + 1
    /\ UNCHANGED <<pc, libs, openssl, room, written, returned, runtime, made, log, file>>

Begin(size) ==
    /\ pc = "idle" /\ loads < MaxLoads
    /\ ~Running
    /\ loads' = loads + 1
    /\ pc' = "openssl"
    /\ room' = size /\ written' = {} /\ returned' = -1
    /\ UNCHANGED <<libs, openssl, runtime, made, log, file>>

CheckRequired ==
    /\ pc = "info"
    /\ pc' = IF \A f \in Required : FieldFits(room, Offset(f)) THEN "config" ELSE "cleanup_mysql"
    /\ UNCHANGED <<Others, libs, openssl, returned>>

StartConfig(opens) ==
    /\ pc = "config"
    /\ IF Loads(file) THEN Configure(ReadConfig(file.table), opens) /\ pc' = "runtime"
       ELSE pc' = "cleanup_mysql" /\ UNCHANGED log
    /\ UNCHANGED <<libs, openssl, loads, room, written, returned, runtime, made, file>>

Installed == UNION {BytesOf(f) : f \in {g \in 1..FieldCount : FieldFits(room, Offset(g))}}

\* The runtime is made, then the callbacks that fit are written.
MakeRuntime(ok) ==
    /\ pc = "runtime"
    /\ IF ok THEN /\ runtime' = ReadConfig(file.table) /\ made' = made + 1
                  /\ written' = Installed /\ returned' = 1 /\ pc' = "idle"
       ELSE pc' = "cleanup_mysql" /\ UNCHANGED <<runtime, made, written, returned>>
    /\ UNCHANGED <<libs, openssl, loads, room, log, file>>

-----------------------------------------------------------------------------
\* While the plugin runs.

\* Mutant: the log is configured again only if the config is another one.
Reload_OtherConfig(ok, opens) ==
    /\ pc = "idle" /\ Running /\ made < MaxRuntimes
    /\ IF Loads(file) /\ ok
       THEN /\ runtime' = ReadConfig(file.table) /\ made' = made + 1
            /\ IF runtime' # runtime THEN Configure(ReadConfig(file.table), opens) ELSE UNCHANGED log
       ELSE UNCHANGED <<runtime, made, log>>
    /\ UNCHANGED <<pc, loads, libs, openssl, room, written, returned, file>>

\* Reload: read the config, make the runtime, configure the log; if either of
\* the first two fails, the old runtime stays.
Reload(ok, opens) ==
    /\ pc = "idle" /\ Running /\ made < MaxRuntimes
    /\ IF Loads(file) /\ ok
       THEN /\ runtime' = ReadConfig(file.table) /\ made' = made + 1
            /\ Configure(ReadConfig(file.table), opens)
       ELSE UNCHANGED <<runtime, made, log>>
    /\ UNCHANGED <<pc, loads, libs, openssl, room, written, returned, file>>

FinishShutdown ==
    /\ pc = "idle" /\ Running
    /\ runtime' = NoRuntime
    /\ pc' = "cleanup_mysql"
    /\ UNCHANGED <<loads, libs, openssl, room, written, returned, made, log, file>>

\* Logger.setLevel.
SetLevel(level) ==
    /\ pc = "idle" /\ Running
    /\ log' = [log EXCEPT !.level = level]
    /\ UNCHANGED <<pc, loads, libs, openssl, room, written, returned, runtime, made, file>>

\* Someone edits luaconfig.lua.
Edit ==
    /\ pc = "idle"
    /\ file' \in Contents
    /\ UNCHANGED <<pc, loads, libs, openssl, room, written, returned, runtime, made, log>>

Init ==
    /\ pc = "idle" /\ loads = 0
    /\ libs = {} /\ openssl = "new"
    /\ room = 0 /\ written = {} /\ returned = -1
    /\ runtime = NoRuntime /\ made = 0
    /\ log = [level |-> DefaultLevel, sink |-> NoSink]
    /\ file \in Contents

Next ==
    \/ Refuse
    \/ \E size \in 0..(FieldCount * Width) : Begin(size)
    \/ InitOpenSSL
    \/ InitLibrary("curl", "curl", "mysql")
    \/ InitLibrary("mysql", "mysql", "digest")
    \/ CheckDigestpp
    \/ CheckRequired
    \/ \E opens \in BOOLEAN : StartConfig(opens)
    \/ \E ok \in BOOLEAN : MakeRuntime(ok)
    \/ \E i \in 1..3 : Cleanup(i)
    \/ \E ok, opens \in BOOLEAN : Reload(ok, opens)
    \/ FinishShutdown
    \/ \E level \in Levels : SetLevel(level)
    \/ Edit

Spec == Init /\ [][Next]_vars

-----------------------------------------------------------------------------
(***************************************************************************)
(* libcurl and MariaDB Connector/C are only ever up while OpenSSL is: it   *)
(* is set up before them, in the way the plugin wants it, and cleaned up   *)
(* after them, whichever step failed.  Between calls the libraries are up  *)
(* exactly if the plugin runs: a start that failed at any point leaves     *)
(* none behind, and a runtime has all of them.                             *)
(***************************************************************************)
LibrariesUpWhileRunning ==
    /\ libs \cap {"curl", "mysql"} # {} => openssl = "up"
    /\ pc = "idle" => libs = IF Running THEN {"openssl", "curl", "mysql"} ELSE {}

(***************************************************************************)
(* "The server must never call into a plugin that failed to start": a      *)
(* start writes no callback before everything that can fail has succeeded, *)
(* and a plugin that runs has the three callbacks that it needs.  A server *)
(* of any version passes a struct of its own size; the plugin writes       *)
(* nothing behind its end, not even the rest of a field that begins inside.*)
(***************************************************************************)
CallbacksOfStartedPlugin ==
    /\ written # {} => returned = 1
    /\ Running => \A f \in Required : BytesOf(f) \subseteq written
    /\ written \subseteq 0..(room - 1)

Wrong(t) == Invalid \in {t.level, t.file, t.daily, t.other}
LogOf(t) == {NoSink} \cup {[file |-> f, daily |-> Set(t.daily, FALSE)] : f \in {t.file} \ {Missing}}

\* The settings that a right table asks for, and whether they are all in force.
Asked(t) == [level |-> Set(t.level, DefaultLevel), file |-> t.file, daily |-> Set(t.daily, FALSE)]
InForce(t) == runtime' = Asked(t) /\ log'.level = Asked(t).level /\ log'.sink \in LogOf(t)

(***************************************************************************)
(* A start or a reload that makes a runtime applies what luaconfig.lua     *)
(* says, defaults included, to the runtime and to the log, also if the     *)
(* file says the same as before: the level of Logger.setLevel and the old  *)
(* file are gone.  As long as a setting is wrong anywhere, nothing but     *)
(* Logger.setLevel changes the log, its level included, and the runtime is *)
(* replaced by no other.                                                   *)
(***************************************************************************)
ConfigAppliedWhole ==
    [][ /\ made' # made => InForce(file.table)
        /\ ~file.ends \/ Wrong(file.table) =>
            /\ made' = made /\ runtime' \in {runtime, NoRuntime}
            /\ log' # log => \E level \in Levels : SetLevel(level) ]_vars
=============================================================================
