---------------------------- MODULE ServerEvents ----------------------------
(***************************************************************************)
(* The event callbacks of plugin/callbacks.cpp: what the server reports,   *)
(* which event is emitted with which arguments, and what the server gets   *)
(* as an answer.  An entity is passed as a reference (id and generation)   *)
(* that is taken when the callback begins and pushed once per handler;     *)
(* between two handlers the entity may go and another one may take its id. *)
(*                                                                         *)
(* The bus, nested callbacks and shutdown are in EventBus and Lifecycle,   *)
(* key binds (which have no pool events) in KeyBinds.  A behaviour is      *)
(* about one kind of callback.                                             *)
(***************************************************************************)
EXTENDS Integers, Sequences, FiniteSets

CONSTANTS
    Ids,       \* ids of each pool
    Values,    \* numbers and texts that are reported
    Handlers,  \* handlers bound to an event that has any
    MaxLives   \* entities under one id
ASSUME IdsAssumption == Ids \subseteq Nat
ASSUME HandlersAssumption == Handlers \in Nat \ {0}

VARIABLES
    row,      \* the callback of this behaviour
    bound,    \* its event has handlers
    usable,   \* Dispatchable() finds a runtime
    slot,     \* the pools: kind, id -> alive, generation
    exists,   \* the server's entities
    life,     \* how many entities the id had
    call,     \* the callback in progress
    got,      \* what the last handler was called with
    answer,   \* what the last callback returned
    asked     \* a handler of the last callback called Event.cancel()
pools == <<slot, exists, life>>
vars == <<row, bound, usable, pools, call, got, answer, asked>>

Kinds == {"player", "vehicle", "object", "pickup", "checkpoint"}
InVehicle == 7  \* vcmpBodyPartInVehicle
Nil == [kind |-> "nil", id |-> 0, life |-> 0]

-----------------------------------------------------------------------------
\* The callbacks: event, arguments in order (parameter and type), whether the
\* callback looks for handlers first.

C(callback, event, args) == [callback |-> callback, event |-> event, args |-> args, lazy |-> FALSE]
Lazy(callback, event, args) == [C(callback, event, args) EXCEPT !.lazy = TRUE]
Player == <<"player", "player">>
Target == <<"target", "player">>
Vehicle == <<"vehicle", "vehicle">>
V(name) == <<name, "value">>
B(name) == <<name, "bool">>

PlayerCallbacks ==
    {C("OnIncomingConnection", "onPlayerConnection", <<V("name"), V("nameSize"), V("password"), V("ip")>>),
     C("OnPlayerModuleList", "onPlayerModuleList", <<Player, V("list")>>),
     C("OnPlayerRequestClass", "onPlayerRequestClass", <<Player, V("offset")>>),
     C("OnPlayerRequestSpawn", "onPlayerRequestSpawn", <<Player>>),
     C("OnPlayerSpawn", "onPlayerSpawn", <<Player>>)}

UpdateCallbacks == {Lazy("OnPlayerUpdate", "onPlayerUpdate", <<Player, V("update")>>)}

SeatCallbacks ==
    {C("OnPlayerRequestEnterVehicle", "onPlayerRequestEnterVehicle", <<Player, Vehicle, V("slot")>>),
     C("OnPlayerEnterVehicle", "onPlayerEnterVehicle", <<Player, Vehicle, V("slot")>>),
     C("OnPlayerExitVehicle", "onPlayerExitVehicle", <<Player, Vehicle>>)}

VehicleCallbacks ==
    {Lazy("OnVehicleUpdate", "onVehicleUpdate", <<Vehicle, V("update")>>),
     C("OnVehicleExplode", "onVehicleExplode", <<Vehicle>>),
     C("OnVehicleRespawn", "onVehicleRespawn", <<Vehicle>>)}

ChangeCallbacks ==
    {C("OnPlayerNameChange", "onPlayerNameChange", <<Player, V("oldName"), V("newName")>>),
     C("OnPlayerStateChange", "onPlayerStateChange", <<Player, V("oldState"), V("newState")>>),
     C("OnPlayerActionChange", "onPlayerActionChange", <<Player, V("oldAction"), V("newAction")>>),
     C("OnPlayerOnFireChange", "onPlayerFireChange", <<Player, B("onFire")>>),
     C("OnPlayerCrouchChange", "onPlayerCrouchChange", <<Player, B("crouching")>>),
     C("OnPlayerGameKeysChange", "onPlayerGameKeysChange", <<Player, V("oldKeys"), V("newKeys")>>),
     C("OnPlayerBeginTyping", "onPlayerBeginTyping", <<Player>>),
     C("OnPlayerEndTyping", "onPlayerFinishTyping", <<Player>>),
     C("OnPlayerAwayChange", "onPlayerAwayChange", <<Player, B("away")>>),
     C("OnPlayerMessage", "onPlayerMessage", <<Player, V("text")>>)}

MessageCallbacks ==
    {C("OnPlayerPrivateMessage", "onPlayerPM", <<Player, Target, V("text")>>),
     C("OnPlayerSpectate", "onPlayerSpectate", <<Player, Target>>),
     C("OnPlayerCrashReport", "onPlayerCrashReport", <<Player, V("report")>>)}

ObjectCallbacks ==
    {C("OnObjectShot", "onObjectShot", <<<<"object", "object">>, Player, V("weapon")>>),
     C("OnObjectTouched", "onObjectTouch", <<<<"object", "object">>, Player>>),
     C("OnPickupPickAttempt", "onPickupPickAttempt", <<<<"pickup", "pickup">>, Player>>),
     C("OnPickupPicked", "onPickupPicked", <<<<"pickup", "pickup">>, Player>>),
     C("OnPickupRespawn", "onPickupRespawn", <<<<"pickup", "pickup">>>>),
     C("OnCheckpointEntered", "onCheckpointEnter", <<<<"checkpoint", "checkpoint">>, Player>>),
     C("OnCheckpointExited", "onCheckpointExit", <<<<"checkpoint", "checkpoint">>, Player>>)}

PluginCallbacks == {C("OnPluginCommand", "onPluginCommand", <<V("command"), V("text")>>)}

StreamingCallbacks ==
    {C("OnEntityStreamingChange", "onEntityStreamingChange",
       <<Player, V("entityType"), V("entityId"), B("deleted")>>)}

Death == C("OnPlayerDeath", "", <<Player, <<"killer", "player">>, V("reason"), V("bodyPart")>>)

Callbacks ==
    PlayerCallbacks \cup UpdateCallbacks \cup SeatCallbacks \cup VehicleCallbacks \cup ChangeCallbacks
    \cup MessageCallbacks \cup ObjectCallbacks \cup PluginCallbacks \cup StreamingCallbacks \cup {Death}

-----------------------------------------------------------------------------
\* The reports of the server.

Pools(r) == {"player"} \cup ({r.args[i][2] : i \in DOMAIN r.args} \cap Kinds)

\* What a parameter can be: an entity that exists, for a target or a killer
\* also none, for a killer also a player who has left.
Reported(parameter, t) ==
    CASE parameter = "reason" -> {39, 40, 43, 44, 50, 7}
      [] parameter = "bodyPart" -> {0, InVehicle}
      [] parameter = "killer" -> Ids \cup {-1}
      [] parameter = "target" -> {i \in Ids : exists["player"][i]} \cup {-1}
      [] t \in Kinds -> {i \in Ids : exists[t][i]}
      [] OTHER -> Values

\* Every way to fill in the parameters, of which there are one to four.
Fill(args) ==
    LET S(a) == Reported(args[a][1], args[a][2])
    IN  CASE Len(args) = 1 -> {<<v>> : v \in S(1)}
          [] Len(args) = 2 -> S(1) \X S(2)
          [] Len(args) = 3 -> S(1) \X S(2) \X S(3)
          [] OTHER -> S(1) \X S(2) \X S(3) \X S(4)

NoCall == [event |-> "", args |-> <<>>, given |-> <<>>, refs |-> <<>>, at |-> 0, report |-> <<>>, lives |-> <<>>]
Nothing == [event |-> "", handler |-> 0, values |-> <<>>]
Running == call.event # ""

Init ==
    /\ row \in Callbacks
    /\ bound \in BOOLEAN /\ usable \in BOOLEAN
    /\ exists \in [Pools(row) -> [Ids -> BOOLEAN]]
    /\ slot = [k \in Pools(row) |-> [i \in Ids |-> [alive |-> exists[k][i], generation |-> 1]]]
    /\ life = [k \in Pools(row) |-> [i \in Ids |-> 1]]
    /\ call = NoCall /\ got = Nothing /\ answer = -1 /\ asked = FALSE

\* Adopt: a slot that is alive stays as it is.
Adopted(s) == IF s.alive THEN s ELSE [alive |-> TRUE, generation |-> s.generation + 1]
Released(s) == [alive |-> FALSE, generation |-> s.generation]

\* The server makes an entity and removes one, whatever else goes on; the pool
\* event adopts and releases the slot (EntityPool).
Arrives(k, i) ==
    /\ ~exists[k][i] /\ life[k][i] < MaxLives
    /\ exists' = [exists EXCEPT ![k][i] = TRUE]
    /\ life' = [life EXCEPT ![k][i] = @ + 1]
    /\ slot' = [slot EXCEPT ![k][i] = Adopted(@)]
    /\ UNCHANGED <<row, bound, usable, call, got, answer, asked>>

Leaves(k, i) ==
    /\ exists[k][i]
    /\ exists' = [exists EXCEPT ![k][i] = FALSE]
    /\ slot' = [slot EXCEPT ![k][i] = Released(@)]
    /\ UNCHANGED <<row, bound, usable, life, call, got, answer, asked>>

-----------------------------------------------------------------------------
\* One callback.

WastedReason(reason, body) ==
    IF reason \in {43, 50} THEN 43
    ELSE IF reason = 39 /\ body = InVehicle THEN 39
    ELSE IF reason \in {39, 40, 44} THEN 44
    ELSE reason

\* OnPlayerDeath: killed by a connected player, or wasted.  The server has
\* IsPlayerConnected.
Emission(report) ==
    IF row # Death THEN [event |-> row.event, args |-> row.args, report |-> report]
    ELSE IF report[2] >= 0 /\ exists["player"][report[2]]
    THEN [event |-> "onPlayerKill",
          args |-> <<row.args[2], row.args[1], row.args[3], row.args[4]>>,
          report |-> <<report[2], report[1], report[3], report[4]>>]
    ELSE [event |-> "onPlayerWasted", args |-> <<row.args[1], row.args[3]>>,
          report |-> <<report[1], WastedReason(report[3], report[4])>>]

InRange(id) == id \in Ids

\* Seen(): adopt on first sight; no reference for an id outside the pool.
Seen(e) ==
    slot' = [k \in DOMAIN slot |-> [i \in Ids |->
                IF \E a \in DOMAIN e.args : e.args[a][2] = k /\ e.report[a] = i THEN Adopted(slot[k][i])
                ELSE slot[k][i]]]
Ref(k, id) == [id |-> id, generation |-> IF InRange(id) THEN Adopted(slot[k][id]).generation ELSE 0]
Refs(e) == [a \in DOMAIN e.args |-> IF e.args[a][2] \in Kinds THEN Ref(e.args[a][2], e.report[a]) ELSE Ref("", -1)]

\* History: which entities the report is about.
Lives(report) ==
    [a \in DOMAIN report |->
        IF row.args[a][2] \in Kinds /\ InRange(report[a]) THEN life[row.args[a][2]][report[a]] ELSE 0]

\* OnEvent: nothing without a usable runtime, and where the callback asks first,
\* nothing without handlers.
Callback(report) ==
    /\ ~Running
    /\ got' = Nothing /\ asked' = FALSE
    /\ IF ~usable \/ (row.lazy /\ ~bound)
       THEN answer' = 1 /\ UNCHANGED <<slot, call>>
       ELSE LET e == Emission(report)
            IN  /\ Seen(e)
                /\ IF bound
                   THEN /\ answer' = -1
                        /\ call' = [event |-> e.event, args |-> e.args, given |-> e.report, refs |-> Refs(e), at |-> 0,
                                    report |-> report, lives |-> Lives(report)]
                   ELSE answer' = 1 /\ UNCHANGED call
    /\ UNCHANGED <<row, bound, usable, exists, life>>

\* Mutant: the handle of whatever has the id now.
Push_ById(k, ref) ==
    IF InRange(ref.id) /\ slot[k][ref.id].alive THEN [kind |-> k, id |-> ref.id, life |-> life[k][ref.id]] ELSE Nil

\* PushEntity: the handle, or nil if that entity is gone.
Push(k, ref) ==
    IF InRange(ref.id) /\ slot[k][ref.id].alive /\ slot[k][ref.id].generation = ref.generation
    THEN [kind |-> k, id |-> ref.id, life |-> life[k][ref.id]] ELSE Nil

Plain(v) == [kind |-> "plain", id |-> v, life |-> 0]
Truth(b) == [kind |-> "bool", id |-> IF b THEN 1 ELSE 0, life |-> 0]

\* The arguments of the next handler.
Pushed ==
    [event |-> call.event, handler |-> call.at + 1,
     values |-> [a \in DOMAIN call.args |->
                    LET t == call.args[a][2]
                    IN  IF t \in Kinds THEN Push(t, call.refs[a])
                        ELSE IF t = "bool" THEN Truth(call.given[a] # 0) ELSE Plain(call.given[a])]]

Answers(n) == answer' = n /\ call' = NoCall

\* Mutant: the cancellation of a handler that was not the last is lost.
Handler_LastOnly(cancels) ==
    /\ Running
    /\ got' = Pushed
    /\ asked' = (asked \/ cancels)
    /\ IF call.at + 1 = Handlers THEN Answers(IF cancels THEN 0 ELSE 1)
       ELSE call' = [call EXCEPT !.at = @ + 1] /\ UNCHANGED answer
    /\ UNCHANGED <<row, bound, usable, pools>>

\* The next handler runs, and returns or raises; Event.cancel() ends the dispatch.
Handler(cancels) ==
    /\ Running
    /\ got' = Pushed
    /\ asked' = (asked \/ cancels)
    /\ IF cancels THEN Answers(0)
       ELSE IF call.at + 1 = Handlers THEN Answers(1)
       ELSE call' = [call EXCEPT !.at = @ + 1] /\ UNCHANGED answer
    /\ UNCHANGED <<row, bound, usable, pools>>

\* A panic in the dispatch: Guarded catches it, nothing is cancelled.
Panic ==
    /\ Running
    /\ Answers(1)
    /\ usable' = FALSE
    /\ UNCHANGED <<row, bound, pools, got, asked>>

Next ==
    \/ \E report \in Fill(row.args) : Callback(report)
    \/ \E cancels \in BOOLEAN : Handler(cancels)
    \/ \E k \in DOMAIN slot, i \in Ids : Arrives(k, i) \/ Leaves(k, i)
    \/ Panic

Spec == Init /\ [][Next]_vars

-----------------------------------------------------------------------------
\* docs/api/events.md: the arguments of each event by name, and what they are.
PlayerOnly == {"onPlayerRequestSpawn", "onPlayerSpawn", "onPlayerBeginTyping", "onPlayerFinishTyping"}
Documented(event) ==
    CASE event \in PlayerOnly -> <<"player">>
      [] event = "onPlayerConnection" -> <<"name", "nameSize", "password", "ip">>
      [] event = "onPlayerModuleList" -> <<"player", "list">>
      [] event = "onPlayerRequestClass" -> <<"player", "offset">>
      [] event = "onPlayerKill" -> <<"killer", "player", "reason", "bodyPart">>
      [] event = "onPlayerWasted" -> <<"player", "wastedReason">>
      [] event = "onPlayerUpdate" -> <<"player", "update">>
      [] event \in {"onPlayerRequestEnterVehicle", "onPlayerEnterVehicle"} -> <<"player", "vehicle", "slot">>
      [] event = "onPlayerExitVehicle" -> <<"player", "vehicle">>
      [] event = "onPlayerNameChange" -> <<"player", "oldName", "newName">>
      [] event = "onPlayerStateChange" -> <<"player", "oldState", "newState">>
      [] event = "onPlayerActionChange" -> <<"player", "oldAction", "newAction">>
      [] event = "onPlayerGameKeysChange" -> <<"player", "oldKeys", "newKeys">>
      [] event = "onPlayerFireChange" -> <<"player", "onFire">>
      [] event = "onPlayerCrouchChange" -> <<"player", "crouching">>
      [] event = "onPlayerAwayChange" -> <<"player", "away">>
      [] event = "onPlayerMessage" -> <<"player", "text">>
      [] event = "onPlayerPM" -> <<"player", "target", "text">>
      [] event = "onPlayerSpectate" -> <<"player", "target">>
      [] event = "onPlayerCrashReport" -> <<"player", "report">>
      [] event = "onVehicleUpdate" -> <<"vehicle", "update">>
      [] event \in {"onVehicleExplode", "onVehicleRespawn"} -> <<"vehicle">>
      [] event = "onObjectShot" -> <<"object", "player", "weapon">>
      [] event = "onObjectTouch" -> <<"object", "player">>
      [] event \in {"onPickupPickAttempt", "onPickupPicked"} -> <<"pickup", "player">>
      [] event = "onPickupRespawn" -> <<"pickup">>
      [] event \in {"onCheckpointEnter", "onCheckpointExit"} -> <<"checkpoint", "player">>
      [] event = "onPluginCommand" -> <<"command", "text">>
      [] event = "onEntityStreamingChange" -> <<"player", "entityType", "entityId", "deleted">>
      [] OTHER -> <<>>
Booleans == {"onFire", "crouching", "away", "deleted"}

\* An argument by name, as the server reported it.
Parameter(name) == CHOOSE a \in DOMAIN row.args : row.args[a][1] = name
EntityMeant(a) ==
    LET k == row.args[a][2]
        v == call.report[a]
    IN  IF InRange(v) /\ exists[k][v] /\ life[k][v] = call.lives[a]
        THEN [kind |-> k, id |-> v, life |-> call.lives[a]] ELSE Nil
ReasonMeant(reason, body) ==
    IF reason \in {43, 50} THEN 43
    ELSE IF reason \in {40, 44} \/ (reason = 39 /\ body # InVehicle) THEN 44 ELSE reason
Meant(name) ==
    LET a == Parameter(name)
    IN  IF name = "wastedReason" THEN Plain(ReasonMeant(call.report[3], call.report[4]))
        ELSE IF row.args[a][2] \in Kinds THEN EntityMeant(a)
        ELSE IF name \in Booleans THEN Truth(call.report[a] # 0)
        ELSE Plain(call.report[a])

(***************************************************************************)
(* Every handler gets the documented arguments in the documented order,    *)
(* with the entities that the server reported: one that an earlier handler *)
(* made go is nil for the later ones, also when another entity has its id  *)
(* by then.  A death is a kill only with a connected killer.               *)
(***************************************************************************)
HandlersGetTheReport ==
    [][got' # got /\ got'.event # "" =>
        got'.values = LET names == Documented(got'.event) IN [i \in DOMAIN names |-> Meant(names[i])]]_vars

(***************************************************************************)
(* The server is refused (0) exactly when a handler of that very callback  *)
(* called Event.cancel(): never for want of a runtime, and not after a     *)
(* panic.                                                                  *)
(***************************************************************************)
RefusedByHandlerOnly == answer # -1 => (answer = 0 <=> asked)
=============================================================================
