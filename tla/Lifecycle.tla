----------------------------- MODULE Lifecycle -----------------------------
(***************************************************************************)
(* The plugin's runtime from VcmpPluginInit to the end (plugin/callbacks,  *)
(* runtime/runtime, core/invoker): server callbacks that nest inside each  *)
(* other's Lua calls, a shutdown that must wait for those calls, reloads   *)
(* at the end of a frame, a Lua panic, and the disconnects that the plugin *)
(* reports on its own when it shuts down with players online.              *)
(*                                                                         *)
(* `stack' holds the callbacks in progress.  While the innermost one runs  *)
(* Lua, a binding may make the server call the plugin again; C++ code      *)
(* between two calls into Lua does not call the server.                    *)
(***************************************************************************)
EXTENDS Integers, Sequences

CONSTANTS
    Players,         \* player ids
    Nobody,          \* no player
    KicksDismissed,  \* a player may be kicked after NotifyServerShutdown has
                     \* dispatched its disconnect
    MaxRuntimes,     \* bound: runtimes, the first one and one per reload
    MaxDepth         \* bound: nested callbacks

ASSUME NobodyAssumption == Nobody \notin Players
ASSUME KicksAssumption == KicksDismissed \in BOOLEAN
ASSUME BoundsAssumption == MaxRuntimes \in Nat \ {0} /\ MaxDepth \in Nat

VARIABLES
    runtime,            \* Plugin().runtime: its number, 0 for nullptr
    created,            \* how many runtimes there have been
    dead,               \* dead_ of that runtime
    reload_requested,   \* reload_requested_ of that runtime
    shutdown_deferred,  \* Plugin().shutdown_deferred
    alive,              \* the live slots of its player pool
    stack,              \* the callbacks in progress, innermost last
    server,             \* where the server is in its own life
    online,             \* the players that the server has
    told                \* history: onPlayerDisconnect dispatches to this runtime
                        \* for the player's current connection

pluginVars == <<runtime, created, dead, reload_requested, shutdown_deferred>>
playerVars == <<alive, online, told>>
vars == <<pluginVars, playerVars, stack, server>>

Callbacks == {"init", "frame", "shutdown", "event", "connect", "disconnect"}

\* A callback: the runtime it looked up, the player it is about, where it is,
\* whether it is inside a call into Lua, and how many more such calls it makes.
\* `to' and `left' belong to NotifyServerShutdown: the player whose disconnect
\* is dispatched, and those whose turn is still to come.
Frames ==
    [cb : Callbacks, rt : 0..MaxRuntimes, p : Players \cup {Nobody},
     at : {"body", "after", "reload", "load", "last", "finish", "goodbye", "close"},
     lua : BOOLEAN, calls : 0..2,
     to : Players \cup {Nobody}, left : SUBSET Players]

TypeOK ==
    /\ runtime \in 0..MaxRuntimes /\ created \in 1..MaxRuntimes
    /\ dead \in BOOLEAN /\ reload_requested \in BOOLEAN
    /\ shutdown_deferred \in BOOLEAN
    /\ alive \in SUBSET Players
    /\ stack \in Seq(Frames)
    /\ server \in {"loaded", "running", "asked", "stopping"}
    /\ online \in SUBSET Players
    /\ told \in [Players -> Nat]

NoneTold == [p \in Players |-> 0]

\* After VcmpPluginInit: the runtime exists, no script has run.
Init ==
    /\ runtime = 1 /\ created = 1
    /\ dead = FALSE /\ reload_requested = FALSE /\ shutdown_deferred = FALSE
    /\ alive = {} /\ stack = << >> /\ server = "loaded"
    /\ online = {} /\ told = NoneTold

-----------------------------------------------------------------------------
Top == stack[Len(stack)]
Popped == SubSeq(stack, 1, Len(stack) - 1)
Replace(frame) == stack' = Append(Popped, frame)

Live == IF dead THEN 0 ELSE runtime

\* runtime->Usable(), by the pointer that the callback holds.
Usable(rt) == rt # 0 /\ rt = Live

InLuaCall == \E k \in 1..Len(stack) : stack[k].lua /\ stack[k].rt = runtime

\* C++ code of the innermost callback runs, at this place.
At(place) == stack # << >> /\ Top.at = place /\ ~Top.lua

\* The server can call the plugin: on its own, or inside a binding.
CanCall == Len(stack) < MaxDepth /\ (stack # << >> => Top.lua)

\* LoadScripts makes one call for the scripts and one for onServerInit, Frame
\* one for the pump and one for onServerFrame, every other callback one.
CallsOf(cb) == IF cb \in {"init", "frame"} THEN 2 ELSE 1

Frame(cb, p) ==
    [cb |-> cb, rt |-> Live, p |-> p, at |-> "body", lua |-> FALSE,
     calls |-> CallsOf(cb), to |-> Nobody, left |-> {}]

Enter(cb, p) == stack' = Append(stack, Frame(cb, p))

\* The server forgets a player once OnPlayerDisconnect has returned.
Return ==
    /\ stack' = Popped
    /\ online' = IF Top.cb = "disconnect" THEN online \ {Top.p} ELSE online

-----------------------------------------------------------------------------
(***************************************************************************)
(* The server calls the plugin.                                            *)
(***************************************************************************)
\* LoadScripts first adopts the players that are connected.
OnServerInitialise ==
    /\ server = "loaded" /\ stack = << >>
    /\ server' = "running"
    /\ alive' = IF Live # 0 THEN alive \cup online ELSE alive
    /\ Enter("init", Nobody)
    /\ UNCHANGED <<pluginVars, online, told>>

OnServerFrame ==
    /\ server \in {"running", "asked"} /\ stack = << >>
    /\ Enter("frame", Nobody)
    /\ UNCHANGED <<pluginVars, playerVars, server>>

\* Every other event, OnEntityPoolChange included.
OnEvent ==
    /\ server # "loaded" /\ CanCall
    /\ Enter("event", Nobody)
    /\ UNCHANGED <<pluginVars, playerVars, server>>

OnPlayerConnect(p) ==
    /\ server \in {"running", "asked"} /\ stack = << >> /\ p \notin online
    /\ online' = online \cup {p}
    /\ alive' = IF Live # 0 THEN alive \cup {p} ELSE alive
    /\ told' = [told EXCEPT ![p] = 0]
    /\ Enter("connect", p)
    /\ UNCHANGED <<pluginVars, server>>

Leaving(p) == \E k \in 1..Len(stack) : stack[k].cb = "disconnect" /\ stack[k].p = p
Dismissed(p) ==
    \E k \in 1..Len(stack) : stack[k].at = "goodbye" /\ p \notin stack[k].left

\* A quit, or a kick by another plugin or inside a binding of ours.
OnPlayerDisconnect(p) ==
    /\ server # "loaded" /\ CanCall /\ p \in online /\ ~Leaving(p)
    /\ ~KicksDismissed => ~Dismissed(p)
    /\ alive' = IF Live # 0 THEN alive \cup {p} ELSE alive
    /\ Enter("disconnect", p)
    /\ UNCHANGED <<pluginVars, online, told, server>>

\* Mutant: a shutdown that arrives during a call into Lua is dropped.
OnServerShutdown_Dropped ==
    /\ CanCall /\ server # "loaded" /\ (stack = << >> => server # "stopping")
    /\ server' = "stopping"
    /\ IF runtime = 0 \/ InLuaCall
       THEN UNCHANGED <<stack, shutdown_deferred>>
       ELSE /\ shutdown_deferred' = FALSE
            /\ stack' = Append(stack, [Frame("shutdown", Nobody) EXCEPT
                                        !.at = "finish", !.rt = runtime])
    /\ UNCHANGED <<runtime, created, dead, reload_requested, playerVars>>

\* On its own the server sends it once; the plugin also expects it inside a
\* binding, any number of times, and then defers it.
OnServerShutdown ==
    /\ CanCall /\ server # "loaded" /\ (stack = << >> => server # "stopping")
    /\ server' = "stopping"
    /\ \/ runtime = 0 /\ UNCHANGED <<stack, shutdown_deferred>>
       \/ runtime # 0 /\ InLuaCall /\ shutdown_deferred' = TRUE /\ UNCHANGED stack
       \/ /\ runtime # 0 /\ ~InLuaCall
          /\ shutdown_deferred' = FALSE
          /\ stack' = Append(stack, [Frame("shutdown", Nobody) EXCEPT
                                        !.at = "finish", !.rt = runtime])
    /\ UNCHANGED <<runtime, created, dead, reload_requested, playerVars>>

-----------------------------------------------------------------------------
(***************************************************************************)
(* What scripts do, and the calls into Lua.                                *)
(***************************************************************************)
\* Server.reload()
RequestReload ==
    /\ stack # << >> /\ Top.lua /\ Usable(Top.rt) /\ ~reload_requested
    /\ reload_requested' = TRUE
    /\ UNCHANGED <<runtime, created, dead, shutdown_deferred, playerVars, stack, server>>

\* Server.shutdown(): ShutdownServer returns at once, OnServerShutdown follows.
RequestShutdown ==
    /\ stack # << >> /\ Top.lua /\ Usable(Top.rt) /\ server = "running"
    /\ server' = "asked"
    /\ UNCHANGED <<pluginVars, playerVars, stack>>

\* The next script, pump step or event of a callback or of LoadScripts.
CallLua ==
    /\ At("body") \/ At("load")
    /\ Top.calls > 0 /\ Usable(Top.rt)
    /\ Replace([Top EXCEPT !.lua = TRUE, !.calls = @ - 1])
    /\ told' = IF Top.cb = "disconnect" THEN [told EXCEPT ![Top.p] = @ + 1] ELSE told
    /\ UNCHANGED <<pluginVars, alive, online, server>>

\* NotifyServerShutdown releases the player whose disconnect has been handled.
LuaReturns ==
    /\ stack # << >> /\ Top.lua
    /\ Replace([Top EXCEPT !.lua = FALSE, !.to = Nobody])
    /\ alive' = alive \ {Top.to}
    /\ UNCHANGED <<pluginVars, online, told, server>>

\* A Lua error outside every protected call, so in the outermost call: the
\* runtime is dead, and the exception ends what Guarded runs.
Panic ==
    /\ Len(stack) = 1 /\ Top.lua
    /\ dead' = TRUE
    /\ Replace([Top EXCEPT !.lua = FALSE, !.to = Nobody,
                           !.at = CASE @ = "body" -> "after"
                                    [] @ = "load" -> "last"
                                    [] OTHER -> "close"])
    /\ UNCHANGED <<runtime, created, reload_requested, shutdown_deferred, playerVars, server>>

\* The body is done; OnPlayerDisconnect releases the player in the runtime that
\* is there now.
BodyEnds ==
    /\ At("body") /\ (Top.calls > 0 => ~Usable(Top.rt))
    /\ Replace([Top EXCEPT !.at = "after"])
    /\ alive' = IF Top.cb = "disconnect" /\ Live # 0 THEN alive \ {Top.p} ELSE alive
    /\ UNCHANGED <<pluginVars, online, told, server>>

-----------------------------------------------------------------------------
(***************************************************************************)
(* AfterCallback, the reload, and FinishShutdown.                          *)
(***************************************************************************)
\* Mutant: only OnServerFrame looks at the deferred shutdown.
AfterCallback_FramesOnly ==
    /\ At("after") \/ At("last")
    /\ IF shutdown_deferred /\ runtime # 0 /\ ~InLuaCall /\ Top.cb = "frame"
       THEN /\ shutdown_deferred' = FALSE
            /\ Replace([Top EXCEPT !.at = "finish", !.rt = runtime, !.calls = 1])
            /\ UNCHANGED online
       ELSE /\ IF Top.cb = "frame" /\ Top.at = "after"
               THEN Replace([Top EXCEPT !.at = "reload"]) /\ UNCHANGED online
               ELSE Return
            /\ UNCHANGED shutdown_deferred
    /\ UNCHANGED <<runtime, created, dead, reload_requested, alive, told, server>>

\* Mutant: the deferred shutdown does not wait for the outer calls.
AfterCallback_InLua ==
    /\ At("after") \/ At("last")
    /\ IF shutdown_deferred /\ runtime # 0
       THEN /\ shutdown_deferred' = FALSE
            /\ Replace([Top EXCEPT !.at = "finish", !.rt = runtime, !.calls = 1])
            /\ UNCHANGED online
       ELSE /\ IF Top.cb = "frame" /\ Top.at = "after"
               THEN Replace([Top EXCEPT !.at = "reload"]) /\ UNCHANGED online
               ELSE Return
            /\ UNCHANGED shutdown_deferred
    /\ UNCHANGED <<runtime, created, dead, reload_requested, alive, told, server>>

\* OnServerFrame calls it before and after it looks for a requested reload.
AfterCallback ==
    /\ At("after") \/ At("last")
    /\ IF shutdown_deferred /\ runtime # 0 /\ ~InLuaCall
       THEN /\ shutdown_deferred' = FALSE
            /\ Replace([Top EXCEPT !.at = "finish", !.rt = runtime, !.calls = 1])
            /\ UNCHANGED online
       ELSE /\ IF Top.cb = "frame" /\ Top.at = "after"
               THEN Replace([Top EXCEPT !.at = "reload"]) /\ UNCHANGED online
               ELSE Return
            /\ UNCHANGED shutdown_deferred
    /\ UNCHANGED <<runtime, created, dead, reload_requested, alive, told, server>>

ReloadDue == Live # 0 /\ reload_requested /\ ~InLuaCall /\ ~shutdown_deferred

NoReload ==
    /\ At("reload") /\ ~ReloadDue
    /\ Replace([Top EXCEPT !.at = "last"])
    /\ UNCHANGED <<pluginVars, playerVars, server>>

\* Mutant: CancelReload is forgotten.
ReloadFails_StaysRequested ==
    /\ At("reload") /\ ReloadDue
    /\ Replace([Top EXCEPT !.at = "last"])
    /\ UNCHANGED <<pluginVars, playerVars, server>>

\* The new config or the new Lua state is no good: CancelReload.
ReloadFails ==
    /\ At("reload") /\ ReloadDue
    /\ reload_requested' = FALSE
    /\ Replace([Top EXCEPT !.at = "last"])
    /\ UNCHANGED <<runtime, created, dead, shutdown_deferred, playerVars, server>>

\* Mutant: the new runtime does not enumerate the players.
Reload_NoEnumerate ==
    /\ At("reload") /\ ReloadDue /\ created < MaxRuntimes
    /\ created' = created + 1 /\ runtime' = created + 1
    /\ reload_requested' = FALSE
    /\ alive' = {} /\ told' = NoneTold
    /\ Replace([Top EXCEPT !.at = "load", !.rt = created + 1, !.calls = 2])
    /\ UNCHANGED <<dead, shutdown_deferred, online, server>>

\* The old runtime is shut down and deleted, the new one is installed and its
\* LoadScripts adopts the players that are connected.
Reload ==
    /\ At("reload") /\ ReloadDue /\ created < MaxRuntimes
    /\ created' = created + 1 /\ runtime' = created + 1
    /\ reload_requested' = FALSE
    /\ alive' = online /\ told' = NoneTold
    /\ Replace([Top EXCEPT !.at = "load", !.rt = created + 1, !.calls = 2])
    /\ UNCHANGED <<dead, shutdown_deferred, online, server>>

LoadEnds ==
    /\ At("load") /\ (Top.calls > 0 => ~Usable(Top.rt))
    /\ Replace([Top EXCEPT !.at = "last"])
    /\ UNCHANGED <<pluginVars, playerVars, server>>

\* NotifyServerShutdown dispatches onServerShutdown ...
NotifyServerShutdown ==
    /\ At("finish") /\ Top.calls > 0 /\ Usable(Top.rt)
    /\ Replace([Top EXCEPT !.lua = TRUE, !.calls = 0])
    /\ UNCHANGED <<pluginVars, playerVars, server>>

\* ... and lists the players that are alive then.
ListPlayers ==
    /\ At("finish") /\ (Top.calls > 0 => ~Usable(Top.rt))
    /\ Replace([Top EXCEPT !.at = "goodbye", !.left = alive])
    /\ UNCHANGED <<pluginVars, playerVars, server>>

\* Mutant: a player that a handler kicked meanwhile is not skipped.
Goodbye_Kicked(p) ==
    /\ At("goodbye") /\ Usable(Top.rt) /\ p \in Top.left
    /\ Replace([Top EXCEPT !.left = @ \ {p}, !.lua = TRUE, !.to = p])
    /\ told' = [told EXCEPT ![p] = @ + 1]
    /\ UNCHANGED <<pluginVars, alive, online, server>>

\* The disconnect of a player that no handler kicked meanwhile.
Goodbye(p) ==
    /\ At("goodbye") /\ Usable(Top.rt) /\ p \in Top.left
    /\ IF p \in alive
       THEN /\ Replace([Top EXCEPT !.left = @ \ {p}, !.lua = TRUE, !.to = p])
            /\ told' = [told EXCEPT ![p] = @ + 1]
       ELSE /\ Replace([Top EXCEPT !.left = @ \ {p}])
            /\ UNCHANGED told
    /\ UNCHANGED <<pluginVars, alive, online, server>>

NotifyEnds ==
    /\ At("goodbye") /\ (Top.left # {} => ~Usable(Top.rt))
    /\ Replace([Top EXCEPT !.at = "close", !.left = {}])
    /\ UNCHANGED <<pluginVars, playerVars, server>>

\* The rest of FinishShutdown: the runtime is shut down and deleted.  What the
\* callback does after it finds no runtime.
Close ==
    /\ At("close")
    /\ runtime' = 0 /\ dead' = FALSE
    /\ reload_requested' = FALSE /\ shutdown_deferred' = FALSE
    /\ alive' = {}
    /\ Return
    /\ UNCHANGED <<created, told, server>>

\* The steps that the plugin takes by itself.
Step ==
    \/ CallLua \/ BodyEnds
    \/ AfterCallback \/ NoReload \/ ReloadFails \/ Reload \/ LoadEnds
    \/ NotifyServerShutdown \/ ListPlayers \/ NotifyEnds \/ Close
    \/ \E p \in Players : Goodbye(p)

Next ==
    \/ OnServerInitialise \/ OnServerFrame \/ OnEvent \/ OnServerShutdown
    \/ \E p \in Players : OnPlayerConnect(p)
    \/ \E p \in Players : OnPlayerDisconnect(p)
    \/ RequestReload \/ RequestShutdown
    \/ LuaReturns \/ Panic
    \/ Step

Spec == Init /\ [][Next]_vars

\* C++ code goes on, every call into Lua returns however often it is interrupted
\* by nested callbacks, and the server keeps sending frames.
Fairness ==
    /\ WF_vars(Step)
    /\ \A n \in 1..MaxDepth : SF_vars(Len(stack) = n /\ LuaReturns)
    /\ SF_vars(OnServerFrame)

FairSpec == Spec /\ Fairness

-----------------------------------------------------------------------------
(***************************************************************************)
(* Properties.                                                             *)
(***************************************************************************)
\* No callback in progress holds a runtime that a nested callback has deleted:
\* what it does next with the pointer it looked up is safe.
HeldRuntimeExists ==
    \A k \in 1..Len(stack) : stack[k].rt \in {0, runtime} \/ stack[k].at \in {"after", "last"}

\* "The plugin defers shutdowns and reloads until no call is active, so this is
\* never reached" (runtime.cpp): no call into Lua is active when Shutdown runs.
ClosedOutsideLua == At("close") => ~InLuaCall

\* "Each player once" (test_lifecycle.cpp): no connection has its disconnect
\* dispatched twice to one runtime.
ToldOnce == \A p \in Players : told[p] <= 1

\* "Scripts can save player data in their disconnect handler in every case"
\* (docs/internals.md): when the runtime is shut down with the server, every
\* player that is still connected has had its disconnect dispatched.
EveryoneTold == At("close") /\ ~dead => \A p \in online : told[p] >= 1

\* Once OnServerShutdown has arrived, deferred or not, no reload starts.
NoReloadAfterShutdown == [][created' # created => server # "stopping"]_vars

\* "If OnServerShutdown arrives during a call into Lua, the shutdown runs when
\* that call returns": it is never forgotten.
DeferredShutdownRuns == shutdown_deferred ~> runtime = 0

\* A reload that was requested runs, fails, or gives way to a shutdown or panic.
ReloadRuns == reload_requested ~> ~reload_requested \/ server = "stopping" \/ dead

=============================================================================
