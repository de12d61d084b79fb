------------------------- MODULE ServerCallsProofs -------------------------
(***************************************************************************)
(* What ServerEvents and HttpResponse promise, for any ids, values,        *)
(* handlers, headers and pieces: the handlers of an event get what the     *)
(* server reported and only they refuse it, and a response has the headers *)
(* of the last response and its whole body.                                *)
(***************************************************************************)
EXTENDS ServerEvents, HttpResponse, TLAPS

-----------------------------------------------------------------------------
\* ServerEvents.

\* A row of the table of callbacks: its parameters are the documented arguments
\* of its event, in order, each with a name of its own.
RowOK(r) ==
    /\ r.event # ""
    /\ Len(r.args) \in 1..4 /\ DOMAIN r.args = 1..Len(r.args)
    /\ DOMAIN Documented(r.event) = DOMAIN r.args
    /\ \A a \in DOMAIN r.args :
        /\ Documented(r.event)[a] = r.args[a][1]
        /\ r.args[a][1] \notin {"wastedReason", "reason", "bodyPart", "killer"}
        /\ r.args[a][2] \in Kinds \cup {"value", "bool"}
        /\ r.args[a][1] = "target" => r.args[a][2] = "player"
        /\ r.args[a][1] \in Booleans <=> r.args[a][2] = "bool"
    /\ \A a, b \in DOMAIN r.args : r.args[a][1] = r.args[b][1] => a = b

\* Connections and spawning.
LEMMA PlayerRows == \A r \in PlayerCallbacks : RowOK(r)
<1> TAKE r \in PlayerCallbacks
<1> USE DEF RowOK, Documented, PlayerOnly, Booleans, Kinds, C, Lazy, Player, Target, Vehicle, V, B
<1>1. CASE r = C("OnIncomingConnection", "onPlayerConnection",
               <<V("name"), V("nameSize"), V("password"), V("ip")>>)
  BY <1>1
<1>2. CASE r = C("OnPlayerModuleList", "onPlayerModuleList", <<Player, V("list")>>)
  BY <1>2
<1>3. CASE r = C("OnPlayerRequestClass", "onPlayerRequestClass", <<Player, V("offset")>>)
  BY <1>3
<1>4. CASE r = C("OnPlayerRequestSpawn", "onPlayerRequestSpawn", <<Player>>)
  BY <1>4
<1>5. CASE r = C("OnPlayerSpawn", "onPlayerSpawn", <<Player>>)
  BY <1>5
<1> QED BY <1>1, <1>2, <1>3, <1>4, <1>5, Zenon DEF PlayerCallbacks

\* Updates of players.
LEMMA UpdateRows == \A r \in UpdateCallbacks : RowOK(r)
<1> TAKE r \in UpdateCallbacks
<1> USE DEF RowOK, Documented, PlayerOnly, Booleans, Kinds, C, Lazy, Player, Target, Vehicle, V, B
<1>1. CASE r = Lazy("OnPlayerUpdate", "onPlayerUpdate", <<Player, V("update")>>)
  BY <1>1
<1> QED BY <1>1, Zenon DEF UpdateCallbacks

\* Seats in vehicles.
LEMMA SeatRows == \A r \in SeatCallbacks : RowOK(r)
<1> TAKE r \in SeatCallbacks
<1> USE DEF RowOK, Documented, PlayerOnly, Booleans, Kinds, C, Lazy, Player, Target, Vehicle, V, B
<1>1. CASE r = C("OnPlayerRequestEnterVehicle", "onPlayerRequestEnterVehicle",
               <<Player, Vehicle, V("slot")>>)
  BY <1>1
<1>2. CASE r = C("OnPlayerEnterVehicle", "onPlayerEnterVehicle", <<Player, Vehicle, V("slot")>>)
  BY <1>2
<1>3. CASE r = C("OnPlayerExitVehicle", "onPlayerExitVehicle", <<Player, Vehicle>>)
  BY <1>3
<1> QED BY <1>1, <1>2, <1>3, Zenon DEF SeatCallbacks

\* Vehicles.
LEMMA VehicleRows == \A r \in VehicleCallbacks : RowOK(r)
<1> TAKE r \in VehicleCallbacks
<1> USE DEF RowOK, Documented, PlayerOnly, Booleans, Kinds, C, Lazy, Player, Target, Vehicle, V, B
<1>1. CASE r = Lazy("OnVehicleUpdate", "onVehicleUpdate", <<Vehicle, V("update")>>)
  BY <1>1
<1>2. CASE r = C("OnVehicleExplode", "onVehicleExplode", <<Vehicle>>)
  BY <1>2
<1>3. CASE r = C("OnVehicleRespawn", "onVehicleRespawn", <<Vehicle>>)
  BY <1>3
<1> QED BY <1>1, <1>2, <1>3, Zenon DEF VehicleCallbacks

\* Changes of a player.
LEMMA ChangeRows == \A r \in ChangeCallbacks : RowOK(r)
<1> TAKE r \in ChangeCallbacks
<1> USE DEF RowOK, Documented, PlayerOnly, Booleans, Kinds, C, Lazy, Player, Target, Vehicle, V, B
<1>1. CASE r = C("OnPlayerNameChange", "onPlayerNameChange", <<Player, V("oldName"), V("newName")>>)
  BY <1>1
<1>2. CASE r = C("OnPlayerStateChange", "onPlayerStateChange", <<Player, V("oldState"), V("newState")>>)
  BY <1>2
<1>3. CASE r = C("OnPlayerActionChange", "onPlayerActionChange", <<Player, V("oldAction"), V("newAction")>>)
  BY <1>3
<1>4. CASE r = C("OnPlayerOnFireChange", "onPlayerFireChange", <<Player, B("onFire")>>)
  BY <1>4
<1>5. CASE r = C("OnPlayerCrouchChange", "onPlayerCrouchChange", <<Player, B("crouching")>>)
  BY <1>5
<1>6. CASE r = C("OnPlayerGameKeysChange", "onPlayerGameKeysChange", <<Player, V("oldKeys"), V("newKeys")>>)
  BY <1>6
<1>7. CASE r = C("OnPlayerBeginTyping", "onPlayerBeginTyping", <<Player>>)
  BY <1>7
<1>8. CASE r = C("OnPlayerEndTyping", "onPlayerFinishTyping", <<Player>>)
  BY <1>8
<1>9. CASE r = C("OnPlayerAwayChange", "onPlayerAwayChange", <<Player, B("away")>>)
  BY <1>9
<1>10. CASE r = C("OnPlayerMessage", "onPlayerMessage", <<Player, V("text")>>)
  BY <1>10
<1> QED BY <1>1, <1>2, <1>3, <1>4, <1>5, <1>6, <1>7, <1>8, <1>9, <1>10, Zenon DEF ChangeCallbacks

\* Messages.
LEMMA MessageRows == \A r \in MessageCallbacks : RowOK(r)
<1> TAKE r \in MessageCallbacks
<1> USE DEF RowOK, Documented, PlayerOnly, Booleans, Kinds, C, Lazy, Player, Target, Vehicle, V, B
<1>1. CASE r = C("OnPlayerPrivateMessage", "onPlayerPM", <<Player, Target, V("text")>>)
  BY <1>1
<1>2. CASE r = C("OnPlayerSpectate", "onPlayerSpectate", <<Player, Target>>)
  BY <1>2
<1>3. CASE r = C("OnPlayerCrashReport", "onPlayerCrashReport", <<Player, V("report")>>)
  BY <1>3
<1> QED BY <1>1, <1>2, <1>3, Zenon DEF MessageCallbacks

\* Objects, pickups and checkpoints.
LEMMA ObjectRows == \A r \in ObjectCallbacks : RowOK(r)
<1> TAKE r \in ObjectCallbacks
<1> USE DEF RowOK, Documented, PlayerOnly, Booleans, Kinds, C, Lazy, Player, Target, Vehicle, V, B
<1>1. CASE r = C("OnObjectShot", "onObjectShot", <<<<"object", "object">>, Player, V("weapon")>>)
  BY <1>1
<1>2. CASE r = C("OnObjectTouched", "onObjectTouch", <<<<"object", "object">>, Player>>)
  BY <1>2
<1>3. CASE r = C("OnPickupPickAttempt", "onPickupPickAttempt", <<<<"pickup", "pickup">>, Player>>)
  BY <1>3
<1>4. CASE r = C("OnPickupPicked", "onPickupPicked", <<<<"pickup", "pickup">>, Player>>)
  BY <1>4
<1>5. CASE r = C("OnPickupRespawn", "onPickupRespawn", <<<<"pickup", "pickup">>>>)
  BY <1>5
<1>6. CASE r = C("OnCheckpointEntered", "onCheckpointEnter", <<<<"checkpoint", "checkpoint">>, Player>>)
  BY <1>6
<1>7. CASE r = C("OnCheckpointExited", "onCheckpointExit", <<<<"checkpoint", "checkpoint">>, Player>>)
  BY <1>7
<1> QED BY <1>1, <1>2, <1>3, <1>4, <1>5, <1>6, <1>7, Zenon DEF ObjectCallbacks

\* Commands of other plugins.
LEMMA PluginRows == \A r \in PluginCallbacks : RowOK(r)
<1> TAKE r \in PluginCallbacks
<1> USE DEF RowOK, Documented, PlayerOnly, Booleans, Kinds, C, Lazy, Player, Target, Vehicle, V, B
<1>1. CASE r = C("OnPluginCommand", "onPluginCommand", <<V("command"), V("text")>>)
  BY <1>1
<1> QED BY <1>1, Zenon DEF PluginCallbacks

\* Streaming.
LEMMA StreamingRows == \A r \in StreamingCallbacks : RowOK(r)
<1> TAKE r \in StreamingCallbacks
<1> USE DEF RowOK, Documented, PlayerOnly, Booleans, Kinds, C, Lazy, Player, Target, Vehicle, V, B
<1>1. CASE r = C("OnEntityStreamingChange", "onEntityStreamingChange",
               <<Player, V("entityType"), V("entityId"), B("deleted")>>)
  BY <1>1
<1> QED BY <1>1, Zenon DEF StreamingCallbacks

\* Every way to fill in the parameters gives each of them a value of its own.
LEMMA FillShape ==
    ASSUME NEW args, Len(args) \in 1..4, DOMAIN args = 1..Len(args), NEW report \in Fill(args)
    PROVE  /\ DOMAIN report = DOMAIN args
           /\ \A a \in DOMAIN args : report[a] \in Reported(args[a][1], args[a][2])
<1> USE DEF Fill
<1>1. CASE Len(args) = 1
  BY <1>1
<1>2. CASE Len(args) = 2
  BY <1>2
<1>3. CASE Len(args) = 3
  BY <1>3
<1>4. CASE Len(args) = 4
  BY <1>4
<1> QED BY <1>1, <1>2, <1>3, <1>4

\* The slots follow the entities: this is what makes a generation stand for one
\* entity of an id.
EventsTyped ==
    /\ row \in Callbacks
    /\ exists \in [Pools(row) -> [Ids -> BOOLEAN]]
    /\ life \in [Pools(row) -> [Ids -> Nat]]
    /\ slot = [k \in Pools(row) |-> [i \in Ids |-> [alive |-> exists[k][i], generation |-> life[k][i]]]]

\* A reference to an entity of the report: its id and, as the generation of a
\* slot counts the entities that it had, which one of them it is.
RefTo(v, l) == [id |-> v, generation |-> IF InRange(v) THEN l ELSE 0]

\* Where the arguments of the event are among the parameters.
Passed(source) ==
    /\ DOMAIN call.args = DOMAIN source
    /\ \A a \in DOMAIN source :
        /\ call.args[a] = row.args[source[a]]
        /\ row.args[source[a]][2] \in Kinds =>
                call.refs[a] = RefTo(call.report[source[a]], call.lives[source[a]])

\* The event that is being dispatched: the arguments are parameters of the
\* callback, with references to the entities that were reported.
CallOK ==
    IF row # Death
    THEN call.event = row.event /\ call.given = call.report /\ Passed([a \in DOMAIN row.args |-> a])
    ELSE \/ call.event = "onPlayerKill" /\ Passed(<<2, 1, 3, 4>>)
            /\ \A a \in 3..4 : call.given[a] = call.report[a]
         \/ call.event = "onPlayerWasted" /\ Passed(<<1, 3>>)
            /\ call.given[2] = WastedReason(call.report[3], call.report[4])

\* The handle that is pushed for a reference is that of the entity it was taken for.
LEMMA EntityPushed ==
    ASSUME EventsTyped, NEW k \in Pools(row), NEW v, NEW l
    PROVE  Push(k, RefTo(v, l)) =
              IF InRange(v) /\ exists[k][v] /\ life[k][v] = l THEN [kind |-> k, id |-> v, life |-> l] ELSE Nil
<1>1. CASE ~InRange(v)
  BY <1>1 DEF Push, RefTo
<1>2. CASE InRange(v)
  <2>1. v \in Ids /\ slot[k][v].alive = exists[k][v] /\ slot[k][v].generation = life[k][v]
    BY <1>2 DEF EventsTyped, InRange
  <2>2. RefTo(v, l).id = v /\ RefTo(v, l).generation = l
    BY <1>2 DEF RefTo
  <2> QED BY <1>2, <2>1, <2>2 DEF Push, EventsTyped
<1> QED BY <1>1, <1>2

\* The pools of a callback are those of its parameters.
LEMMA PoolsOfArgs ==
    ASSUME NEW r, NEW a \in DOMAIN r.args, r.args[a][2] \in Kinds
    PROVE  r.args[a][2] \in Pools(r)
  BY DEF Pools

\* Parameters with different names are found by their names.
LEMMA ParameterFound ==
    ASSUME NEW a \in DOMAIN row.args, \A b \in DOMAIN row.args : row.args[b][1] = row.args[a][1] => b = a
    PROVE  Parameter(row.args[a][1]) = a
  BY DEF Parameter

\* Each parameter of OnPlayerDeath.
LEMMA DeathArgs ==
    /\ DOMAIN Death.args = 1..4 /\ Len(Death.args) = 4
    /\ Death.args[1] = Player /\ Death.args[2] = <<"killer", "player">>
    /\ Death.args[3] = V("reason") /\ Death.args[4] = V("bodyPart")
    /\ ~Death.lazy
  BY DEF Death, C

\* One argument, as the handler gets it.
ValueOf(a) ==
    LET t == call.args[a][2]
    IN  IF t \in Kinds THEN Push(t, call.refs[a])
        ELSE IF t = "bool" THEN Truth(call.given[a] # 0) ELSE Plain(call.given[a])

\* An argument that is an entity, found by the name of its parameter.
LEMMA EntityValue ==
    ASSUME EventsTyped, NEW source, Passed(source), NEW a \in DOMAIN source,
           NEW p \in DOMAIN row.args, source[a] = p, row.args[p][2] \in Kinds,
           row.args[p][1] # "wastedReason", Parameter(row.args[p][1]) = p
    PROVE  ValueOf(a) = Meant(row.args[p][1])
<1>1. /\ call.args[a] = row.args[p]
      /\ call.refs[a] = RefTo(call.report[p], call.lives[p])
  BY DEF Passed
<1>2. row.args[p][2] \in Pools(row)
  BY PoolsOfArgs
<1>3. ValueOf(a) = Push(row.args[p][2], RefTo(call.report[p], call.lives[p]))
  BY <1>1 DEF ValueOf
<1> QED BY <1>2, <1>3, EntityPushed DEF Meant, EntityMeant

\* In a death, the names of the parameters differ.
LEMMA DeathParameters ==
    ASSUME row = Death
    PROVE  /\ Parameter("player") = 1 /\ Parameter("killer") = 2
           /\ Parameter("reason") = 3 /\ Parameter("bodyPart") = 4
<1>1. /\ row.args[1][1] = "player" /\ row.args[2][1] = "killer"
      /\ row.args[3][1] = "reason" /\ row.args[4][1] = "bodyPart"
      /\ DOMAIN row.args = 1..4
  BY DeathArgs DEF Player, V
<1>2. \A a, b \in DOMAIN row.args : row.args[a][1] = row.args[b][1] => a = b
  BY <1>1
<1>3. \A a \in DOMAIN row.args : Parameter(row.args[a][1]) = a
  BY <1>2, ParameterFound
<1> QED BY <1>1, <1>3

\* What a handler gets is what the report means.
LEMMA PushedIsMeant ==
    ASSUME EventsTyped, CallOK, row = Death \/ RowOK(row)
    PROVE  Pushed.values = LET names == Documented(call.event) IN [i \in DOMAIN names |-> Meant(names[i])]
<1> DEFINE names == Documented(call.event)
<1>0. Pushed.values = [a \in DOMAIN call.args |-> ValueOf(a)]
  BY DEF Pushed, ValueOf
<1> SUFFICES DOMAIN call.args = DOMAIN names /\ \A a \in DOMAIN names : ValueOf(a) = Meant(names[a])
  BY <1>0
<1>1. CASE row # Death
  <2>1. /\ call.event = row.event /\ call.given = call.report /\ RowOK(row)
        /\ Passed([a \in DOMAIN row.args |-> a])
    BY <1>1 DEF CallOK
  <2>2. DOMAIN call.args = DOMAIN row.args /\ DOMAIN names = DOMAIN row.args
    BY <2>1, Zenon DEF Passed, RowOK
  <2>3. ASSUME NEW a \in DOMAIN row.args PROVE ValueOf(a) = Meant(names[a])
    <3>0. names[a] = row.args[a][1]
      BY <2>1, Zenon DEF RowOK
    <3>1. /\ row.args[a][1] # "wastedReason"
          /\ \A b \in DOMAIN row.args : row.args[b][1] = row.args[a][1] => b = a
          /\ row.args[a][2] \in Kinds \cup {"value", "bool"}
          /\ row.args[a][1] \in Booleans <=> row.args[a][2] = "bool"
      BY <2>1, Zenon DEF RowOK
    <3>2. Parameter(names[a]) = a
      BY <3>0, <3>1, ParameterFound
    <3>3. CASE row.args[a][2] \in Kinds
      BY <2>1, <3>0, <3>1, <3>2, <3>3, EntityValue
    <3>4. CASE row.args[a][2] \notin Kinds
      <4>1. call.args[a] = row.args[a]
        BY <2>1, Zenon DEF Passed
      <4> QED BY <2>1, <3>0, <3>1, <3>2, <3>4, <4>1 DEF ValueOf, Meant
    <3> QED BY <3>3, <3>4
  <2> QED BY <2>2, <2>3
<1>2. CASE row = Death /\ call.event = "onPlayerKill" /\ Passed(<<2, 1, 3, 4>>)
           /\ \A a \in 3..4 : call.given[a] = call.report[a]
  <2>1. names = <<"killer", "player", "reason", "bodyPart">>
    BY <1>2 DEF Documented, PlayerOnly
  <2>2. DOMAIN call.args = 1..4
    BY <1>2 DEF Passed
  <2>3. /\ DOMAIN row.args = 1..4
        /\ row.args[1] = Player /\ row.args[2] = <<"killer", "player">>
        /\ row.args[3] = V("reason") /\ row.args[4] = V("bodyPart")
    BY <1>2, DeathArgs
  <2>4. ValueOf(1) = Meant("killer") /\ ValueOf(2) = Meant("player")
    BY <1>2, <2>3, DeathParameters, EntityValue DEF Player, Kinds
  <2>5. call.args[3] = row.args[3] /\ call.args[4] = row.args[4]
    BY <1>2 DEF Passed
  <2>6. ValueOf(3) = Meant("reason") /\ ValueOf(4) = Meant("bodyPart")
    BY <1>2, <2>3, <2>5, DeathParameters DEF ValueOf, Meant, V, Kinds, Booleans
  <2> QED BY <2>1, <2>2, <2>4, <2>6
<1>3. CASE row = Death /\ call.event = "onPlayerWasted" /\ Passed(<<1, 3>>)
           /\ call.given[2] = WastedReason(call.report[3], call.report[4])
  <2>1. names = <<"player", "wastedReason">>
    BY <1>3 DEF Documented, PlayerOnly
  <2>2. DOMAIN call.args = 1..2
    BY <1>3 DEF Passed
  <2>3. /\ DOMAIN row.args = 1..4 /\ row.args[1] = Player /\ row.args[3] = V("reason")
    BY <1>3, DeathArgs
  <2>4. ValueOf(1) = Meant("player")
    BY <1>3, <2>3, DeathParameters, EntityValue DEF Player, Kinds
  <2>5. call.args[2] = row.args[3]
    BY <1>3 DEF Passed
  <2>6. ValueOf(2) = Plain(call.given[2])
    BY <2>3, <2>5 DEF ValueOf, V, Kinds
  <2>7. ValueOf(2) = Meant("wastedReason")
    BY <1>3, <2>6 DEF Meant, WastedReason, ReasonMeant
  <2> QED BY <2>1, <2>2, <2>4, <2>7
<1> QED BY <1>1, <1>2, <1>3 DEF CallOK

\* What the server reports for an entity that the event is about: one that
\* exists, or none.
LEMMA ReportedEntity ==
    ASSUME NEW n, NEW t \in Kinds, n \notin {"reason", "bodyPart", "killer"}, NEW v \in Reported(n, t),
           n = "target" => t = "player"
    PROVE  (v \in Ids /\ exists[t][v]) \/ v = -1
  BY DEF Reported, Kinds

\* The inductive invariant.
EventsInv == EventsTyped /\ (Running => CallOK)

\* The references of an event whose entities exist are those of the slots as
\* they are, and taking them changes no slot.
LEMMA RefsTaken ==
    ASSUME EventsTyped, NEW k \in Pools(row), NEW v, (v \in Ids /\ exists[k][v]) \/ v \notin Ids
    PROVE  /\ Ref(k, v) = RefTo(v, life[k][v])
           /\ v \in Ids => Adopted(slot[k][v]) = slot[k][v]
<1>1. CASE v \in Ids /\ exists[k][v]
  <2>1. slot[k][v] = [alive |-> TRUE, generation |-> life[k][v]]
    BY <1>1, Zenon DEF EventsTyped
  <2>2. Adopted(slot[k][v]) = slot[k][v]
    BY <2>1 DEF Adopted
  <2> QED BY <1>1, <2>1, <2>2 DEF Ref, RefTo, InRange
<1>2. CASE v \notin Ids
  BY <1>2 DEF Ref, RefTo, InRange
<1> QED BY <1>1, <1>2

\* Seen() changes no slot if every entity of the event exists.
LEMMA SeenChangesNothing ==
    ASSUME EventsTyped, NEW e, Seen(e),
           \A a \in DOMAIN e.args : e.args[a][2] \in Kinds =>
                (e.report[a] \in Ids /\ exists[e.args[a][2]][e.report[a]]) \/ e.report[a] \notin Ids
    PROVE  slot' = slot
<1>1. DOMAIN slot = Pools(row) /\ \A k \in Pools(row) : DOMAIN slot[k] = Ids /\ k \in Kinds
  BY Zenon DEF EventsTyped, Pools, Kinds
<1>2. ASSUME NEW k \in Pools(row), NEW i \in Ids,
             \E a \in DOMAIN e.args : e.args[a][2] = k /\ e.report[a] = i
      PROVE  Adopted(slot[k][i]) = slot[k][i]
  BY <1>1, <1>2, RefsTaken
<1>3. slot' = [k \in Pools(row) |-> [i \in Ids |-> slot[k][i]]]
  BY <1>1, <1>2 DEF Seen
<1>4. slot = [k \in Pools(row) |-> [i \in Ids |-> slot[k][i]]]
  BY DEF EventsTyped
<1> QED BY <1>3, <1>4

\* The reference to an entity of the report, and its history.
LEMMA LivesRef ==
    ASSUME EventsTyped, NEW report, NEW p \in DOMAIN report, p \in DOMAIN row.args, row.args[p][2] \in Kinds,
           (report[p] \in Ids /\ exists[row.args[p][2]][report[p]]) \/ report[p] \notin Ids
    PROVE  Ref(row.args[p][2], report[p]) = RefTo(report[p], Lives(report)[p])
<1>1. Ref(row.args[p][2], report[p]) = RefTo(report[p], life[row.args[p][2]][report[p]])
  BY PoolsOfArgs, RefsTaken
<1>2. InRange(report[p]) => Lives(report)[p] = life[row.args[p][2]][report[p]]
  BY DEF Lives
<1> QED BY <1>1, <1>2 DEF RefTo

\* The callback takes references to the entities of the report as they are.
LEMMA CallbackStep ==
    ASSUME EventsInv, row = Death \/ RowOK(row), NEW report \in Fill(row.args), Callback(report)
    PROVE  EventsInv'
<1> DEFINE e == Emission(report)
           started == [event |-> e.event, args |-> e.args, given |-> e.report, refs |-> Refs(e), at |-> 0,
                       report |-> report, lives |-> Lives(report)]
<1>1. row' = row /\ exists' = exists /\ life' = life
  BY DEF Callback
<1>2. DOMAIN report = DOMAIN row.args /\ \A a \in DOMAIN row.args : report[a] \in Reported(row.args[a][1], row.args[a][2])
  <2>1. Len(row.args) \in 1..4 /\ DOMAIN row.args = 1..Len(row.args)
    <3>1. CASE row = Death
      BY <3>1, DeathArgs
    <3>2. CASE RowOK(row)
      BY <3>2, Zenon DEF RowOK
    <3> QED BY <3>1, <3>2
  <2> QED BY <2>1, FillShape
<1>3. \/ slot' = slot /\ call' = call
      \/ Seen(e) /\ call' \in {call, started}
  BY DEF Callback
<1>4. -1 \notin Ids
  BY IdsAssumption
<1>5. ASSUME slot' = slot PROVE EventsTyped'
  BY <1>1, <1>5 DEF EventsInv, EventsTyped
<1>6. ASSUME call' = call PROVE (Running => CallOK)'
  BY <1>1, <1>6, Zenon DEF EventsInv, Running, CallOK, Passed
<1>7. CASE row # Death
  <2>0. RowOK(row)
    BY <1>7
  <2>1. e = [event |-> row.event, args |-> row.args, report |-> report]
    BY <1>7 DEF Emission
  <2>2. ASSUME NEW a \in DOMAIN row.args, row.args[a][2] \in Kinds
        PROVE  (report[a] \in Ids /\ exists[row.args[a][2]][report[a]]) \/ report[a] \notin Ids
    <3>1. row.args[a][1] \notin {"reason", "bodyPart", "killer"} /\ (row.args[a][1] = "target" => row.args[a][2] = "player")
      BY <2>0, Zenon DEF RowOK
    <3> QED BY <1>2, <1>4, <2>2, <3>1, ReportedEntity
  <2>3. Seen(e) => slot' = slot
    <3> HIDE DEF e
    <3> QED BY <2>1, <2>2, SeenChangesNothing DEF EventsInv
  <2>4. ASSUME call' = started PROVE CallOK'
    <3>1. /\ call'.event = row.event /\ call'.args = row.args /\ call'.given = report
          /\ call'.report = report /\ call'.lives = Lives(report) /\ call'.refs = Refs(e)
      BY <2>1, <2>4
    <3>2. ASSUME NEW a \in DOMAIN row.args, row.args[a][2] \in Kinds
          PROVE  call'.refs[a] = RefTo(report[a], Lives(report)[a])
      <4>1. Refs(e)[a] = Ref(row.args[a][2], report[a])
        <5> HIDE DEF e
        <5>1. e.args = row.args /\ e.report = report
          BY <2>1
        <5> QED BY <3>2, <5>1, Zenon DEF Refs
      <4> QED BY <1>2, <2>2, <3>1, <3>2, <4>1, LivesRef DEF EventsInv
    <3> QED BY <1>1, <1>7, <3>1, <3>2, ZenonT(60) DEF CallOK, Passed, RefTo, InRange
  <2> QED BY <1>3, <1>5, <1>6, <2>3, <2>4 DEF EventsInv
<1>8. CASE row = Death
  <2>1. /\ DOMAIN row.args = 1..4 /\ DOMAIN report = 1..4
        /\ row.args[1] = Player /\ row.args[2] = <<"killer", "player">>
        /\ row.args[3] = V("reason") /\ row.args[4] = V("bodyPart")
    BY <1>2, <1>8, DeathArgs
  <2>2. report[1] \in Reported("player", "player") /\ report[2] \in Reported("killer", "player")
    BY <1>2, <2>1 DEF Player
  <2>3. (report[1] \in Ids /\ exists["player"][report[1]]) \/ report[1] \notin Ids
    BY <1>4, <2>2, ReportedEntity DEF Kinds
  <2>4. report[2] \in Ids \cup {-1}
    BY <2>2 DEF Reported
  <2>5. CASE report[2] >= 0 /\ exists["player"][report[2]]
    <3>1. e = [event |-> "onPlayerKill", args |-> <<row.args[2], row.args[1], row.args[3], row.args[4]>>,
               report |-> <<report[2], report[1], report[3], report[4]>>]
      BY <1>8, <2>5 DEF Emission
    <3>2. report[2] \in Ids /\ exists["player"][report[2]]
      BY <2>4, <2>5
    <3>3. Seen(e) => slot' = slot
      <4> HIDE DEF e
      <4>1. \A a \in DOMAIN e.args : e.args[a][2] \in Kinds =>
                (e.report[a] \in Ids /\ exists[e.args[a][2]][e.report[a]]) \/ e.report[a] \notin Ids
        BY <2>1, <2>3, <3>1, <3>2 DEF Player, V, Kinds
      <4> QED BY <4>1, SeenChangesNothing DEF EventsInv
    <3>4. ASSUME call' = started PROVE CallOK'
      <4>1. /\ call'.event = "onPlayerKill" /\ call'.args = e.args /\ call'.given = e.report
            /\ call'.report = report /\ call'.lives = Lives(report) /\ call'.refs = Refs(e)
        <5> HIDE DEF e
        <5>1. call'.event = e.event
          BY <3>4
        <5> QED BY <3>1, <3>4, <5>1
      <4>2. Refs(e)[1] = Ref("player", report[2]) /\ Refs(e)[2] = Ref("player", report[1])
        <5> HIDE DEF e
        <5>1. /\ DOMAIN e.args = 1..4 /\ e.args[1][2] = "player" /\ e.args[2][2] = "player"
              /\ e.report[1] = report[2] /\ e.report[2] = report[1]
          BY <2>1, <3>1 DEF Player
        <5>2. "player" \in Kinds
          BY DEF Kinds
        <5>3. ASSUME NEW a \in DOMAIN e.args, e.args[a][2] \in Kinds
              PROVE  Refs(e)[a] = Ref(e.args[a][2], e.report[a])
          BY <5>3, Zenon DEF Refs
        <5> QED BY <5>1, <5>2, <5>3
      <4>3. /\ Refs(e)[1] = RefTo(report[2], Lives(report)[2])
            /\ Refs(e)[2] = RefTo(report[1], Lives(report)[1])
        BY <2>1, <2>3, <3>2, <4>2, LivesRef DEF EventsInv, Player, Kinds
      <4>4. Passed(<<2, 1, 3, 4>>)'
        <5>1. /\ DOMAIN call'.args = 1..4
              /\ call'.args[1] = row'.args[2] /\ call'.args[2] = row'.args[1]
              /\ call'.args[3] = row'.args[3] /\ call'.args[4] = row'.args[4]
          BY <1>1, <3>1, <4>1
        <5>2. row'.args[3][2] \notin Kinds /\ row'.args[4][2] \notin Kinds
          BY <1>1, <2>1 DEF V, Kinds
        <5>3. /\ call'.refs[1] = RefTo(call'.report[2], call'.lives[2])
              /\ call'.refs[2] = RefTo(call'.report[1], call'.lives[1])
          BY <4>1, <4>3
        <5> QED BY ONLY <5>1, <5>2, <5>3, SMT DEF Passed, RefTo, InRange
      <4>5. \A a \in 3..4 : call'.given[a] = call'.report[a]
        BY <3>1, <4>1
      <4> QED BY <1>1, <1>8, <4>1, <4>4, <4>5 DEF CallOK
    <3> QED BY <1>3, <1>5, <1>6, <3>3, <3>4 DEF EventsInv
  <2>6. CASE ~(report[2] >= 0 /\ exists["player"][report[2]])
    <3>1. e = [event |-> "onPlayerWasted", args |-> <<row.args[1], row.args[3]>>,
               report |-> <<report[1], WastedReason(report[3], report[4])>>]
      BY <1>8, <2>6 DEF Emission
    <3>3. Seen(e) => slot' = slot
      <4> HIDE DEF e
      <4>1. \A a \in DOMAIN e.args : e.args[a][2] \in Kinds =>
                (e.report[a] \in Ids /\ exists[e.args[a][2]][e.report[a]]) \/ e.report[a] \notin Ids
        BY <2>1, <2>3, <3>1 DEF Player, V, Kinds
      <4> QED BY <4>1, SeenChangesNothing DEF EventsInv
    <3>4. ASSUME call' = started PROVE CallOK'
      <4>1. /\ call'.event = "onPlayerWasted" /\ call'.args = e.args /\ call'.given = e.report
            /\ call'.report = report /\ call'.lives = Lives(report) /\ call'.refs = Refs(e)
        <5> HIDE DEF e
        <5>1. call'.event = e.event
          BY <3>4
        <5> QED BY <3>1, <3>4, <5>1
      <4>2. Refs(e)[1] = Ref("player", report[1])
        <5> HIDE DEF e
        <5>1. DOMAIN e.args = 1..2 /\ e.args[1][2] = "player" /\ e.report[1] = report[1]
          BY <2>1, <3>1 DEF Player
        <5>2. "player" \in Kinds
          BY DEF Kinds
        <5>3. ASSUME NEW a \in DOMAIN e.args, e.args[a][2] \in Kinds
              PROVE  Refs(e)[a] = Ref(e.args[a][2], e.report[a])
          BY <5>3, Zenon DEF Refs
        <5> QED BY <5>1, <5>2, <5>3
      <4>3. Refs(e)[1] = RefTo(report[1], Lives(report)[1])
        BY <2>1, <2>3, <4>2, LivesRef DEF EventsInv, Player, Kinds
      <4>4. Passed(<<1, 3>>)'
        <5>1. /\ DOMAIN call'.args = 1..2
              /\ call'.args[1] = row'.args[1] /\ call'.args[2] = row'.args[3]
          BY <1>1, <3>1, <4>1
        <5>2. row'.args[3][2] \notin Kinds
          BY <1>1, <2>1 DEF V, Kinds
        <5>3. call'.refs[1] = RefTo(call'.report[1], call'.lives[1])
          BY <4>1, <4>3
        <5> QED BY ONLY <5>1, <5>2, <5>3, SMT DEF Passed, RefTo, InRange
      <4> QED BY <1>1, <1>8, <3>1, <4>1, <4>4, SMTT(60) DEF CallOK, WastedReason
    <3> QED BY <1>3, <1>5, <1>6, <3>3, <3>4 DEF EventsInv
  <2> QED BY <2>5, <2>6
<1> QED BY <1>7, <1>8

\* The table has the documented rows.
LEMMA RowsOK == ASSUME EventsTyped PROVE row = Death \/ RowOK(row)
  BY PlayerRows, UpdateRows, SeatRows, VehicleRows, ChangeRows, MessageRows, ObjectRows, PluginRows, StreamingRows
     DEF EventsTyped, Callbacks

\* The inductive invariant holds at first.
LEMMA EventsInit == Init => EventsInv
<1> SUFFICES ASSUME Init PROVE EventsInv
  OBVIOUS
<1>1. ~Running
  BY Zenon DEF Init, Running, NoCall
<1>2. life \in [Pools(row) -> [Ids -> Nat]]
  BY DEF Init
<1>3. slot = [k \in Pools(row) |-> [i \in Ids |-> [alive |-> exists[k][i], generation |-> life[k][i]]]]
  BY DEF Init
<1> QED BY <1>1, <1>2, <1>3 DEF Init, EventsInv, EventsTyped

\* Slots follow the entities that come and go.
LEMMA EntitiesStep ==
    ASSUME EventsInv, NEW k \in DOMAIN slot, NEW i \in Ids, Arrives(k, i) \/ Leaves(k, i)
    PROVE  EventsInv'
<1>0. row' = row /\ call' = call /\ k \in Pools(row)
  BY DEF Arrives, Leaves, EventsInv, EventsTyped
<1>1. (Running => CallOK)'
  BY <1>0, Zenon DEF EventsInv, Running, CallOK, Passed
<1>2. CASE Arrives(k, i)
  <2>1. slot[k][i] = [alive |-> FALSE, generation |-> life[k][i]] /\ life[k][i] \in Nat
    BY <1>0, <1>2, Zenon DEF Arrives, EventsInv, EventsTyped
  <2>2. slot' = [slot EXCEPT ![k][i] = [alive |-> TRUE, generation |-> life[k][i] + 1]]
    BY <1>2, <2>1 DEF Arrives, Adopted
  <2>3. exists' \in [Pools(row) -> [Ids -> BOOLEAN]] /\ life' \in [Pools(row) -> [Ids -> Nat]]
    BY <1>0, <1>2, <2>1 DEF Arrives, EventsInv, EventsTyped
  <2>4. slot' = [l \in Pools(row) |-> [j \in Ids |-> [alive |-> exists'[l][j], generation |-> life'[l][j]]]]
    <3>1. /\ DOMAIN slot' = Pools(row)
          /\ \A l \in Pools(row) : DOMAIN slot'[l] = Ids
          /\ \A l \in Pools(row) : slot'[l] = [j \in Ids |-> slot'[l][j]]
      BY <1>0, <2>2, Zenon DEF EventsInv, EventsTyped
    <3>2. ASSUME NEW l \in Pools(row), NEW j \in Ids
          PROVE  slot'[l][j] = [alive |-> exists'[l][j], generation |-> life'[l][j]]
      <4>0. slot[l][j] = [alive |-> exists[l][j], generation |-> life[l][j]]
        BY DEF EventsInv, EventsTyped
      <4>1. CASE l = k /\ j = i
        <5>1. slot'[l][j] = [alive |-> TRUE, generation |-> life[k][i] + 1]
          BY <1>0, <2>2, <4>1 DEF EventsInv, EventsTyped
        <5>2. exists'[l][j] = TRUE /\ life'[l][j] = life[k][i] + 1
          BY <1>0, <1>2, <4>1 DEF Arrives, EventsInv, EventsTyped
        <5> QED BY <5>1, <5>2, Zenon
      <4>2. CASE ~(l = k /\ j = i)
        <5>1. slot'[l][j] = slot[l][j]
          BY <1>0, <2>2, <4>2 DEF EventsInv, EventsTyped
        <5>2. exists'[l][j] = exists[l][j] /\ life'[l][j] = life[l][j]
          BY <1>0, <1>2, <4>2, Zenon DEF Arrives, EventsInv, EventsTyped
        <5> QED BY <4>0, <5>1, <5>2
      <4> QED BY <4>1, <4>2, Zenon
    <3>3. slot' = [l \in Pools(row) |-> slot'[l]]
      BY <1>0, <2>2, Zenon DEF EventsInv, EventsTyped
    <3> QED BY <3>1, <3>2, <3>3, Zenon
  <2> QED BY <1>0, <1>1, <2>3, <2>4 DEF EventsInv, EventsTyped
<1>3. CASE Leaves(k, i)
  <2>1. slot[k][i] = [alive |-> TRUE, generation |-> life[k][i]]
    BY <1>0, <1>3, Zenon DEF Leaves, EventsInv, EventsTyped
  <2>2. slot' = [slot EXCEPT ![k][i] = [alive |-> FALSE, generation |-> life[k][i]]]
    BY <1>3, <2>1 DEF Leaves, Released
  <2>3. exists' \in [Pools(row) -> [Ids -> BOOLEAN]] /\ life' \in [Pools(row) -> [Ids -> Nat]]
    BY <1>0, <1>3 DEF Leaves, EventsInv, EventsTyped
  <2>4. slot' = [l \in Pools(row) |-> [j \in Ids |-> [alive |-> exists'[l][j], generation |-> life'[l][j]]]]
    <3>1. /\ DOMAIN slot' = Pools(row)
          /\ \A l \in Pools(row) : DOMAIN slot'[l] = Ids
          /\ \A l \in Pools(row) : slot'[l] = [j \in Ids |-> slot'[l][j]]
      BY <1>0, <2>2, Zenon DEF EventsInv, EventsTyped
    <3>2. ASSUME NEW l \in Pools(row), NEW j \in Ids
          PROVE  slot'[l][j] = [alive |-> exists'[l][j], generation |-> life'[l][j]]
      <4>0. slot[l][j] = [alive |-> exists[l][j], generation |-> life[l][j]]
        BY DEF EventsInv, EventsTyped
      <4>1. CASE l = k /\ j = i
        <5>1. slot'[l][j] = [alive |-> FALSE, generation |-> life[k][i]]
          BY <1>0, <2>2, <4>1 DEF EventsInv, EventsTyped
        <5>2. exists'[l][j] = FALSE /\ life'[l][j] = life[k][i]
          BY <1>0, <1>3, <4>1 DEF Leaves, EventsInv, EventsTyped
        <5> QED BY <5>1, <5>2, Zenon
      <4>2. CASE ~(l = k /\ j = i)
        <5>1. slot'[l][j] = slot[l][j]
          BY <1>0, <2>2, <4>2 DEF EventsInv, EventsTyped
        <5>2. exists'[l][j] = exists[l][j] /\ life'[l][j] = life[l][j]
          BY <1>0, <1>3, <4>2, Zenon DEF Leaves, EventsInv, EventsTyped
        <5> QED BY <4>0, <5>1, <5>2
      <4> QED BY <4>1, <4>2
    <3>3. slot' = [l \in Pools(row) |-> slot'[l]]
      BY <1>0, <2>2, Zenon DEF EventsInv, EventsTyped
    <3> QED BY <3>1, <3>2, <3>3, Zenon
  <2> QED BY <1>0, <1>1, <1>3, <2>3, <2>4 DEF EventsInv, EventsTyped
<1> QED BY <1>2, <1>3

\* Handlers and panics leave the event as it was taken, or end it.
LEMMA EventsStep == EventsInv /\ [Next]_vars => EventsInv'
<1> SUFFICES ASSUME EventsInv, [Next]_vars PROVE EventsInv'
  OBVIOUS
<1>1. ASSUME NEW report \in Fill(row.args), Callback(report) PROVE EventsInv'
  BY <1>1, RowsOK, CallbackStep DEF EventsInv
<1>2. ASSUME NEW cancels \in BOOLEAN, Handler(cancels) PROVE EventsInv'
  <2>1. EventsTyped'
    BY <1>2 DEF Handler, pools, EventsInv, EventsTyped
  <2>2. row' = row /\ (call' = NoCall \/ call' = [call EXCEPT !.at = @ + 1])
    BY <1>2 DEF Handler, Answers
  <2>3. CASE call' = NoCall
    BY <2>1, <2>3, Zenon DEF EventsInv, Running, NoCall
  <2>4. CASE call' = [call EXCEPT !.at = @ + 1]
    <3>1. /\ call'.event = call.event /\ call'.args = call.args /\ call'.given = call.given
          /\ call'.refs = call.refs /\ call'.report = call.report /\ call'.lives = call.lives
      BY <2>4
    <3> QED BY <2>1, <2>2, <3>1, ZenonT(60) DEF EventsInv, Running, CallOK, Passed
  <2> QED BY <2>2, <2>3, <2>4
<1>3. ASSUME NEW k \in DOMAIN slot, NEW i \in Ids, Arrives(k, i) \/ Leaves(k, i) PROVE EventsInv'
  BY <1>3, EntitiesStep
<1>4. CASE Panic
  BY <1>4, Zenon DEF Panic, Answers, pools, NoCall, EventsInv, EventsTyped, Running
<1>5. CASE UNCHANGED vars
  BY <1>5, Zenon DEF vars, pools, EventsInv, EventsTyped, Running, CallOK, Passed
<1> QED BY <1>1, <1>2, <1>3, <1>4, <1>5 DEF Next

(***************************************************************************)
(* Every handler gets the documented arguments, with the entities that the *)
(* server reported: for any number of ids, handlers and entities in a slot *)
(* (callbacks.cpp, the callbacks and Seen; entity_pool.cpp, Push).         *)
(***************************************************************************)
THEOREM ReportsDelivered == Spec => HandlersGetTheReport
<1>1. EventsInv /\ [Next]_vars =>
        [got' # got /\ got'.event # "" =>
            got'.values = LET names == Documented(got'.event) IN [i \in DOMAIN names |-> Meant(names[i])]]_vars
  <2> SUFFICES ASSUME EventsInv, [Next]_vars, got' # got, got'.event # ""
               PROVE  got'.values = LET names == Documented(got'.event) IN [i \in DOMAIN names |-> Meant(names[i])]
    BY Zenon
  <2>a. \A report \in Fill(row.args) : ~Callback(report)
    <3>1. Nothing.event = ""
      BY Zenon DEF Nothing
    <3>2. got' # Nothing
      BY <3>1, Zenon
    <3> QED BY <3>2, Zenon DEF Callback
  <2>b. \A k \in DOMAIN slot, i \in Ids : ~(Arrives(k, i) \/ Leaves(k, i))
    BY Zenon DEF Arrives, Leaves
  <2>c. ~Panic /\ ~UNCHANGED vars
    BY Zenon DEF Panic, vars
  <2>1. PICK cancels \in BOOLEAN : Handler(cancels)
    BY <2>a, <2>b, <2>c, Zenon DEF Next
  <2>2. got' = Pushed /\ Running
    BY <2>1, Zenon DEF Handler
  <2>3. got'.event = call.event /\ got'.values = Pushed.values
    BY <2>2, Zenon DEF Pushed
  <2> QED BY <2>2, <2>3, RowsOK, PushedIsMeant, Zenon DEF EventsInv
<1> QED BY <1>1, EventsInit, EventsStep, PTL DEF Spec, HandlersGetTheReport

\* While handlers run, none of them has asked to cancel: the one that does is
\* the last, and its answer is the server's.
AskedEnds == asked \in BOOLEAN /\ (Running => ~asked) /\ RefusedByHandlerOnly

(***************************************************************************)
(* The server is refused exactly when a handler of that callback cancelled *)
(* the event (callbacks.cpp, OnEvent; event_bus.hpp, Dispatch).            *)
(***************************************************************************)
THEOREM RefusedOnly == Spec => []RefusedByHandlerOnly
<1>1. Init => AskedEnds
  BY Zenon DEF Init, AskedEnds, RefusedByHandlerOnly, Running, NoCall
<1>2. AskedEnds /\ [Next]_vars => AskedEnds'
  <2> SUFFICES ASSUME AskedEnds, [Next]_vars PROVE AskedEnds'
    OBVIOUS
  <2>0. 1 # 0 /\ 1 # -1 /\ 0 # -1
    OBVIOUS
  <2>1. ASSUME NEW report \in Fill(row.args), Callback(report) PROVE AskedEnds'
    <3>1. asked' = FALSE /\ answer' \in {1, -1}
      BY <2>1 DEF Callback
    <3> QED BY <2>0, <3>1, Zenon DEF AskedEnds, RefusedByHandlerOnly
  <2>2. ASSUME NEW cancels \in BOOLEAN, Handler(cancels) PROVE AskedEnds'
    <3>1. ~asked /\ asked' = cancels
      BY <2>2 DEF Handler, AskedEnds
    <3>2. \/ call' = NoCall /\ ((cancels /\ answer' = 0) \/ (~cancels /\ answer' = 1))
          \/ call' = [call EXCEPT !.at = @ + 1] /\ ~cancels /\ answer' = answer
      BY <2>2 DEF Handler, Answers
    <3>3. ~(NoCall.event # "")
      BY DEF NoCall
    <3> QED BY <2>0, <3>1, <3>2, <3>3, Zenon DEF AskedEnds, RefusedByHandlerOnly, Running
  <2>3. ASSUME NEW k \in DOMAIN slot, NEW i \in Ids, Arrives(k, i) \/ Leaves(k, i) PROVE AskedEnds'
    <3>1. UNCHANGED <<call, answer, asked>>
      BY <2>3 DEF Arrives, Leaves
    <3> QED BY <3>1, Zenon DEF AskedEnds, RefusedByHandlerOnly, Running
  <2>4. CASE Panic
    <3>1. ~asked /\ asked' = asked /\ answer' = 1
      BY <2>4 DEF Panic, Answers, AskedEnds
    <3> QED BY <2>0, <3>1 DEF AskedEnds, RefusedByHandlerOnly
  <2>5. CASE UNCHANGED vars
    BY <2>5, Zenon DEF vars, AskedEnds, RefusedByHandlerOnly, Running
  <2> QED BY <2>1, <2>2, <2>3, <2>4, <2>5 DEF Next
<1> QED BY <1>1, <1>2, PTL DEF Spec, AskedEnds

-----------------------------------------------------------------------------
\* HttpResponse: the body.

\* What was delivered is the body, until a piece does not fit.
BodyInv ==
    /\ received \in Nat /\ too_large \in BOOLEAN /\ result \in {"running", "ok", "failed"}
    /\ ~too_large => body = received /\ received <= MaxBody
    /\ too_large => received > MaxBody
    /\ result = "ok" => ~too_large
    /\ reply # NoReply => result # "running"
    /\ reply.res = "response" => result = "ok" /\ reply.body = body
    /\ reply # NoReply /\ too_large => reply.err = "too large"

\* Nothing is delivered at first.
LEMMA BodyInit == ResponseInit => BodyInv
<1> SUFFICES ASSUME ResponseInit PROVE BodyInv
  OBVIOUS
<1>0. 0 <= MaxBody
  BY HeaderAssumption
<1>1. received = 0 /\ body = 0 /\ ~too_large /\ too_large \in BOOLEAN
  BY Zenon DEF ResponseInit
<1>2. result = "running" /\ reply = NoReply /\ reply.res # "response"
  BY DEF ResponseInit, NoReply
<1> QED BY <1>0, <1>1, <1>2 DEF BodyInv

\* The answer says what became of the body.
LEMMA BodyStep == BodyInv /\ [ResponseNext]_responseVars => BodyInv'
<1> SUFFICES ASSUME BodyInv, [ResponseNext]_responseVars PROVE BodyInv'
  OBVIOUS
<1>1. CASE StatusLine
  BY <1>1, Zenon DEF StatusLine, Delivers, luaVars, BodyInv
<1>2. CASE OtherLine
  BY <1>2, Zenon DEF OtherLine, Delivers, luaVars, transferVars, BodyInv
<1>3. ASSUME NEW name \in Names, NEW value \in HeaderValues, HeaderLine(name, value) PROVE BodyInv'
  BY <1>3, Zenon DEF HeaderLine, Delivers, luaVars, BodyInv
<1>4. ASSUME NEW size \in Pieces, Write(size) PROVE BodyInv'
  <2>1. size \in Nat /\ MaxBody \in Nat
    BY HeaderAssumption
  <2>2. /\ result = "running" /\ ~too_large /\ reply = NoReply
        /\ result' = result /\ reply' = reply /\ received' = received + size
    BY <1>4, Zenon DEF Write, Delivers, luaVars, BodyInv
  <2>3. \/ body + size > MaxBody /\ too_large' = TRUE
        \/ ~(body + size > MaxBody) /\ too_large' = too_large /\ body' = body + size
    BY <1>4 DEF Write
  <2>4. reply.res # "response"
    BY <2>2 DEF NoReply
  <2>5. body = received
    BY <2>2 DEF BodyInv
  <2>6. CASE body + size > MaxBody /\ too_large' = TRUE
    BY <2>1, <2>2, <2>4, <2>5, <2>6 DEF BodyInv
  <2>7. CASE ~(body + size > MaxBody) /\ too_large' = too_large /\ body' = body + size
    BY <2>1, <2>2, <2>4, <2>5, <2>7 DEF BodyInv
  <2> QED BY <2>3, <2>6, <2>7, Zenon
<1>5. ASSUME NEW code \in {"ok", "failed"}, NEW txt \in BOOLEAN, Done(code, txt) PROVE BodyInv'
  <2>1. reply = NoReply
    BY <1>5, Zenon DEF Done, BodyInv
  <2> QED BY <1>5, <2>1 DEF Done, history, transferVars, luaVars, NoReply, BodyInv
<1>6. CASE PushHeader
  BY <1>6 DEF PushHeader, history, transferVars, BodyInv
<1>7. CASE Complete
  <2>1. UNCHANGED <<received, body, too_large, result>> /\ result # "running"
    BY <1>7 DEF Complete, history, transferVars
  <2>2. CASE result = "failed"
    <3>1. reply' = [res |-> "nil", err |-> ErrorText, headers |-> <<>>, body |-> 0]
      BY <1>7, <2>2 DEF Complete, NoReply
    <3>2. reply'.res = "nil" /\ reply'.err = ErrorText
      BY <3>1
    <3> QED BY <2>1, <3>2, Zenon DEF ErrorText, NoReply, BodyInv
  <2>3. CASE result # "failed"
    <3>1. reply' = [res |-> "response", err |-> "nil", body |-> body, headers |-> table]
      BY <1>7, <2>3 DEF Complete
    <3>2. reply'.res = "response" /\ reply'.body = body
      BY <3>1
    <3> QED BY <2>1, <2>3, <3>2, Zenon DEF BodyInv
  <2> QED BY <2>2, <2>3
<1>8. CASE UNCHANGED responseVars
  BY <1>8, Zenon DEF responseVars, history, transferVars, luaVars, BodyInv
<1> QED BY <1>1, <1>2, <1>3, <1>4, <1>5, <1>6, <1>7, <1>8 DEF ResponseNext

(***************************************************************************)
(* A response has its whole body, and a body over the limit is named as    *)
(* the reason of the failure: for any limit and any pieces (http.cpp,      *)
(* Transfer::Write and Complete).                                          *)
(***************************************************************************)
THEOREM BodyWhole == ResponseSpec => []WholeBody
<1>1. BodyInv => WholeBody
  <2>1. ASSUME BodyInv, too_large PROVE WholeBody
    BY <2>1, Zenon DEF BodyInv, WholeBody
  <2>2. ASSUME BodyInv, ~too_large PROVE WholeBody
    <3>1. MaxBody \in Nat /\ received \in Nat /\ received <= MaxBody /\ body = received
      BY <2>2, HeaderAssumption, Zenon DEF BodyInv
    <3>2. reply.res = "response" => reply.body = body
      BY <2>2, Zenon DEF BodyInv
    <3>3. ~(received > MaxBody)
      BY <3>1
    <3> QED BY <3>1, <3>2, <3>3, Zenon DEF WholeBody
  <2> QED BY <2>1, <2>2
<1> QED BY <1>1, BodyInit, BodyStep, PTL DEF ResponseSpec

-----------------------------------------------------------------------------
\* HttpResponse: the headers.

\* One number more, larger than the others.
More(f, m, x) == [k \in 1..(m + 1) |-> IF k <= m THEN f[k] ELSE x]

\* A larger number goes to the end.
LEMMA MoreListed ==
    ASSUME NEW S, NEW m \in Nat, NEW f \in [1..m -> S], Lists(f, S), NEW x, \A i \in S : i < x
    PROVE  Lists(More(f, m, x), S \cup {x})
<1> DEFINE g == More(f, m, x)
<1>1. DOMAIN g = 1..(m + 1) /\ (\A k \in 1..m : g[k] = f[k]) /\ g[m + 1] = x
  BY DEF More
<1> HIDE DEF g
<1>3. ASSUME NEW a \in 1..(m + 1), NEW b \in 1..(m + 1), a < b PROVE g[a] < g[b]
  <2>1. a \in 1..m /\ g[a] = f[a] /\ f[a] \in S
    BY <1>1, <1>3
  <2>2. CASE b = m + 1
    BY <1>1, <2>1, <2>2
  <2>3. CASE b # m + 1
    <3>1. b \in 1..m /\ g[b] = f[b]
      BY <1>1, <2>3
    <3> QED BY <1>3, <2>1, <3>1 DEF Lists
  <2> QED BY <2>2, <2>3
<1>4. ASSUME NEW i \in S \cup {x} PROVE \E n \in 1..(m + 1) : g[n] = i
  <2>1. CASE i = x
    BY <1>1, <2>1
  <2>2. CASE i \in S
    <3>1. PICK n \in 1..m : f[n] = i
      BY <2>2 DEF Lists
    <3>2. n \in 1..(m + 1) /\ g[n] = i
      BY <1>1, <3>1
    <3> QED BY <3>2
  <2> QED BY <2>1, <2>2
<1>5. Lists(g, S \cup {x})
  BY <1>1, <1>3, <1>4 DEF Lists
<1> QED BY <1>5 DEF g

\* Some of the listed numbers are listed by the places where they are.
LEMMA SomeListed ==
    ASSUME NEW S, NEW n \in Nat, NEW f \in [1..n -> S], Lists(f, S),
           NEW T, T \subseteq 1..n, NEW m \in Nat, NEW g \in [1..m -> T], Lists(g, T)
    PROVE  Lists([k \in 1..m |-> f[g[k]]], {f[j] : j \in T})
<1> DEFINE h == [k \in 1..m |-> f[g[k]]]
<1>1. \A k \in 1..m : g[k] \in T /\ g[k] \in 1..n /\ h[k] = f[g[k]]
  BY Zenon
<1>3. DOMAIN h = 1..m
  OBVIOUS
<1> HIDE DEF h
<1>4. ASSUME NEW a \in 1..m, NEW b \in 1..m, a < b PROVE h[a] < h[b]
  <2>1. g[a] < g[b]
    BY <1>4 DEF Lists
  <2> QED BY <1>1, <2>1 DEF Lists
<1>5. ASSUME NEW j \in T PROVE \E k \in 1..m : h[k] = f[j]
  <2>1. PICK k \in 1..m : g[k] = j
    BY DEF Lists
  <2> QED BY <1>1, <2>1
<1>6. Lists(h, {f[j] : j \in T})
  <2>1. \A a, b \in DOMAIN h : a < b => h[a] < h[b]
    BY <1>3, <1>4
  <2>2. \A i \in {f[j] : j \in T} : \E k \in DOMAIN h : h[k] = i
    BY <1>3, <1>5, Zenon
  <2> QED BY <2>1, <2>2, Zenon DEF Lists
<1> QED BY <1>6 DEF h

\* The header lines of the last response on the wire.
HeaderLines == Of("header")
StatusLines == Of("status")
LastLines == {i \in HeaderLines : \A s \in StatusLines : s < i}

\* What libcurl delivers.
Items == [kind : {"status", "other", "piece"}] \cup [kind : {"header"}, name : Names, value : HeaderValues]

\* The list of headers has the lines of the last response in their order.
HeadersRead ==
    /\ wire \in Seq(Items)
    /\ response_headers \in Seq(Names \X HeaderValues)
    /\ \E line \in [1..Len(response_headers) -> LastLines] :
        /\ Lists(line, LastLines)
        /\ \A k \in 1..Len(response_headers) :
            response_headers[k] = <<Lower[wire[line[k]].name], wire[line[k]].value>>

\* The headers with a name among those that are in the table.
Taken(name) == {k \in 1..pushed : response_headers[k][1] = name}

\* The table has the values of these headers in their order.
TableInv ==
    /\ pushed \in 0..Len(response_headers)
    /\ DOMAIN table = {response_headers[k][1] : k \in 1..pushed}
    /\ \A name \in DOMAIN table :
        /\ table[name] \in Seq(HeaderValues)
        /\ \E turn \in [1..Len(table[name]) -> Taken(name)] :
            /\ Lists(turn, Taken(name))
            /\ \A n \in 1..Len(table[name]) : table[name][n] = response_headers[turn[n]][2]

\* Headers are read, then put in the table, then handed over.
InTurn ==
    /\ result \in {"running", "ok", "failed"}
    /\ result = "running" => pushed = 0 /\ reply = NoReply
    /\ reply.res = "response" => reply.headers = table /\ pushed = Len(response_headers)

HeadersInv == HeadersRead /\ TableInv /\ InTurn

\* One item more on the wire.
LEMMA WireGrows ==
    ASSUME wire \in Seq(Items), NEW item \in Items, wire' = Append(wire, item)
    PROVE  /\ wire' \in Seq(Items)
           /\ Len(wire) \in Nat
           /\ \A i \in 1..Len(wire) : wire'[i] = wire[i]
           /\ wire'[Len(wire) + 1] = item
           /\ HeaderLines \subseteq 1..Len(wire) /\ StatusLines \subseteq 1..Len(wire)
           /\ HeaderLines' = HeaderLines \cup (IF item.kind = "header" THEN {Len(wire) + 1} ELSE {})
           /\ StatusLines' = StatusLines \cup (IF item.kind = "status" THEN {Len(wire) + 1} ELSE {})
<1>1. /\ Len(wire) \in Nat /\ DOMAIN wire = 1..Len(wire)
      /\ wire' \in Seq(Items) /\ DOMAIN wire' = 1..(Len(wire) + 1)
      /\ \A i \in 1..Len(wire) : wire'[i] = wire[i]
      /\ wire'[Len(wire) + 1] = item
  OBVIOUS
<1>2. ASSUME NEW kind, NEW i
      PROVE  i \in 1..(Len(wire) + 1) /\ wire'[i].kind = kind
              <=> (i \in 1..Len(wire) /\ wire[i].kind = kind) \/ (i = Len(wire) + 1 /\ item.kind = kind)
  <2>1. i \in 1..(Len(wire) + 1) <=> i \in 1..Len(wire) \/ i = Len(wire) + 1
    BY <1>1
  <2>2. i \in 1..Len(wire) => i # Len(wire) + 1
    BY <1>1
  <2> QED BY <1>1, <2>1, <2>2
<1>3. /\ HeaderLines = {i \in 1..Len(wire) : wire[i].kind = "header"}
      /\ HeaderLines' = {i \in 1..(Len(wire) + 1) : wire'[i].kind = "header"}
  BY <1>1 DEF HeaderLines, Of
<1>4. /\ StatusLines = {i \in 1..Len(wire) : wire[i].kind = "status"}
      /\ StatusLines' = {i \in 1..(Len(wire) + 1) : wire'[i].kind = "status"}
  BY <1>1 DEF StatusLines, Of
<1>5. HeaderLines' = HeaderLines \cup (IF item.kind = "header" THEN {Len(wire) + 1} ELSE {})
  BY <1>2, <1>3
<1>6. StatusLines' = StatusLines \cup (IF item.kind = "status" THEN {Len(wire) + 1} ELSE {})
  BY <1>2, <1>4
<1> QED BY <1>1, <1>3, <1>4, <1>5, <1>6

\* Only a header line of the last response counts, so an item that is neither a
\* status line nor a header leaves the lines as they are.
LEMMA OtherItem ==
    ASSUME HeadersRead, NEW item \in Items, item.kind \notin {"status", "header"},
           wire' = Append(wire, item), response_headers' = response_headers
    PROVE  HeadersRead'
<1>1. /\ wire' \in Seq(Items) /\ \A i \in 1..Len(wire) : wire'[i] = wire[i]
      /\ HeaderLines \subseteq 1..Len(wire)
      /\ HeaderLines' = HeaderLines /\ StatusLines' = StatusLines
  BY WireGrows, Zenon DEF HeadersRead
<1>2. LastLines' = LastLines /\ LastLines \subseteq 1..Len(wire)
  BY <1>1, Zenon DEF LastLines
<1>3. PICK line \in [1..Len(response_headers) -> LastLines] :
        /\ Lists(line, LastLines)
        /\ \A k \in 1..Len(response_headers) :
            response_headers[k] = <<Lower[wire[line[k]].name], wire[line[k]].value>>
  BY DEF HeadersRead
<1>4. \A k \in 1..Len(response_headers) : wire'[line[k]] = wire[line[k]]
  BY <1>1, <1>2, <1>3, Zenon
<1>5. /\ line \in [1..Len(response_headers') -> LastLines']
      /\ Lists(line, LastLines')
      /\ \A k \in 1..Len(response_headers') :
            response_headers'[k] = <<Lower[wire'[line[k]].name], wire'[line[k]].value>>
  BY <1>2, <1>3, <1>4, Zenon
<1>6. response_headers' \in Seq(Names \X HeaderValues)
  BY DEF HeadersRead
<1> HIDE <1>3
<1> QED BY <1>1, <1>5, <1>6, Zenon DEF HeadersRead

\* A status line: no header line comes after it yet.
LEMMA StatusItem ==
    ASSUME HeadersRead, NEW item \in Items, item.kind = "status",
           wire' = Append(wire, item), response_headers' = <<>>
    PROVE  HeadersRead'
<1>1. /\ wire' \in Seq(Items) /\ Len(wire) \in Nat
      /\ HeaderLines \subseteq 1..Len(wire) /\ StatusLines \subseteq 1..Len(wire)
      /\ HeaderLines' = HeaderLines /\ StatusLines' = StatusLines \cup {Len(wire) + 1}
  BY WireGrows, Zenon DEF HeadersRead
<1>2. LastLines' = {}
  <2> SUFFICES ASSUME NEW i \in LastLines' PROVE FALSE
    OBVIOUS
  <2>1. i \in 1..Len(wire) /\ Len(wire) + 1 < i
    BY <1>1 DEF LastLines
  <2> QED BY <1>1, <2>1
<1>3. /\ response_headers' \in Seq(Names \X HeaderValues) /\ 1..Len(response_headers') = {}
  OBVIOUS
<1>4. /\ <<>> \in [1..Len(response_headers') -> LastLines']
      /\ Lists(<<>>, LastLines')
  BY <1>2, <1>3 DEF Lists
<1> QED BY <1>1, <1>3, <1>4, Zenon DEF HeadersRead

\* A header line: the last of the last response.
LEMMA HeaderItem ==
    ASSUME HeadersRead, NEW name \in Names, NEW value \in HeaderValues,
           wire' = Append(wire, [kind |-> "header", name |-> name, value |-> value]),
           response_headers' = Append(response_headers, <<Lower[name], value>>)
    PROVE  HeadersRead'
<1> DEFINE item == [kind |-> "header", name |-> name, value |-> value]
           x == Len(wire) + 1
           m == Len(response_headers)
<1>0. item \in Items /\ item.kind = "header" /\ item.name = name /\ item.value = value
  BY DEF Items
<1> HIDE DEF item
<1>a. wire' = Append(wire, item)
  BY DEF item
<1>1. /\ wire' \in Seq(Items) /\ Len(wire) \in Nat
      /\ \A i \in 1..Len(wire) : wire'[i] = wire[i]
      /\ wire'[x] = item
      /\ HeaderLines \subseteq 1..Len(wire) /\ StatusLines \subseteq 1..Len(wire)
      /\ HeaderLines' = HeaderLines \cup {x} /\ StatusLines' = StatusLines
  BY <1>0, <1>a, WireGrows, Zenon DEF HeadersRead
<1>2. LastLines \subseteq 1..Len(wire) /\ LastLines' = LastLines \cup {x}
  <2>1. \A s \in StatusLines : s < x
    BY <1>1
  <2>2. \A i : i \in LastLines' <=> i \in HeaderLines \cup {x} /\ \A s \in StatusLines : s < i
    BY <1>1 DEF LastLines
  <2>3. \A i : i \in LastLines <=> i \in HeaderLines /\ \A s \in StatusLines : s < i
    BY DEF LastLines
  <2> HIDE DEF x
  <2>4. LastLines' = LastLines \cup {x}
    BY <2>1, <2>2, <2>3
  <2> QED BY <1>1, <2>3, <2>4, Zenon
<1>3. /\ response_headers \in Seq(Names \X HeaderValues) /\ m \in Nat
      /\ <<Lower[name], value>> \in Names \X HeaderValues
  BY HeaderAssumption DEF HeadersRead
<1>4. /\ response_headers' \in Seq(Names \X HeaderValues) /\ Len(response_headers') = m + 1
      /\ \A k \in 1..m : response_headers'[k] = response_headers[k]
      /\ response_headers'[m + 1] = <<Lower[name], value>>
  BY <1>3
<1>5. PICK line \in [1..m -> LastLines] :
        /\ Lists(line, LastLines)
        /\ \A k \in 1..m : response_headers[k] = <<Lower[wire[line[k]].name], wire[line[k]].value>>
  BY Zenon DEF HeadersRead
<1> DEFINE more == More(line, m, x)
<1>6. /\ more \in [1..(m + 1) -> LastLines \cup {x}] /\ Lists(more, LastLines \cup {x})
      /\ \A k \in 1..m : more[k] = line[k]
      /\ more[m + 1] = x
  <2>1. \A i \in LastLines : i < x
    BY <1>1, <1>2
  <2>2. m \in Nat /\ line \in [1..m -> LastLines] /\ Lists(line, LastLines)
    BY <1>3, <1>5
  <2> HIDE DEF x, m, more
  <2>3. Lists(More(line, m, x), LastLines \cup {x})
    BY <2>1, <2>2, MoreListed, Zenon
  <2>4. /\ More(line, m, x) \in [1..(m + 1) -> LastLines \cup {x}]
        /\ \A k \in 1..m : More(line, m, x)[k] = line[k]
        /\ More(line, m, x)[m + 1] = x
    BY <2>2 DEF More
  <2> QED BY <2>3, <2>4 DEF more
<1> HIDE DEF more, x, m
<1>7. ASSUME NEW k \in 1..(m + 1)
      PROVE  response_headers'[k] = <<Lower[wire'[more[k]].name], wire'[more[k]].value>>
  <2>1. CASE k = m + 1
    BY <1>0, <1>1, <1>4, <1>6, <2>1, Zenon
  <2>2. CASE k # m + 1
    <3>1. k \in 1..m
      BY <1>3, <2>2
    <3>2. line[k] \in 1..Len(wire)
      BY <1>2, <1>5, <3>1, Zenon
    <3>3. wire'[more[k]] = wire[line[k]]
      BY <1>1, <1>6, <3>1, <3>2, ZenonT(60)
    <3>4. response_headers'[k] = response_headers[k]
      BY <1>4, <3>1
    <3> QED BY <1>5, <3>1, <3>3, <3>4, Zenon
  <2> QED BY <2>1, <2>2, Zenon
<1>8. \E l \in [1..Len(response_headers') -> LastLines'] :
        /\ Lists(l, LastLines')
        /\ \A k \in 1..Len(response_headers') :
            response_headers'[k] = <<Lower[wire'[l[k]].name], wire'[l[k]].value>>
  <2>1. more \in [1..Len(response_headers') -> LastLines'] /\ Lists(more, LastLines')
    BY <1>2, <1>4, <1>6
  <2> QED BY <1>4, <1>7, <2>1, Zenon
<1> QED BY <1>1, <1>4, <1>8, Zenon DEF HeadersRead

\* A turn of the loop adds one header to the table.
LEMMA PushStep ==
    ASSUME HeadersRead, TableInv, PushHeader
    PROVE  TableInv'
<1> DEFINE p == pushed + 1
           key == response_headers[p][1]
           val == response_headers[p][2]
           Upto(name) == {k \in 1..p : response_headers[k][1] = name}
<1>1. /\ pushed' = p /\ response_headers' = response_headers
      /\ table' = Joined(key, val) /\ pushed < Len(response_headers)
  BY DEF PushHeader, transferVars
<1>2. /\ response_headers \in Seq(Names \X HeaderValues) /\ Len(response_headers) \in Nat
      /\ pushed \in Nat /\ p \in 1..Len(response_headers) /\ p \in Nat
  <2>1. response_headers \in Seq(Names \X HeaderValues) /\ pushed \in 0..Len(response_headers)
    BY Zenon DEF HeadersRead, TableInv
  <2> QED BY ONLY <1>1, <2>1, SMT
<1>3. val \in HeaderValues
  BY <1>2
<1>4. 1..p = 1..pushed \cup {p} /\ \A k \in 1..pushed : k < p
  BY <1>2
<1>5. DOMAIN table = {response_headers[k][1] : k \in 1..pushed}
  BY DEF TableInv
<1>6. DOMAIN table' = DOMAIN table \cup {key}
  BY <1>1 DEF Joined
<1>7. DOMAIN table' = {response_headers'[k][1] : k \in 1..pushed'}
  BY <1>1, <1>4, <1>5, <1>6
<1> HIDE DEF p, key, val
<1>a. key = response_headers[p][1] /\ val = response_headers[p][2]
  BY DEF key, val
<1>8. ASSUME NEW name \in DOMAIN table'
      PROVE  /\ table'[name] \in Seq(HeaderValues)
             /\ \E turn \in [1..Len(table'[name]) -> Upto(name)] :
                /\ Lists(turn, Upto(name))
                /\ \A n \in 1..Len(table'[name]) : table'[name][n] = response_headers[turn[n]][2]
  <2> DEFINE T == Taken(name)
             T1 == Upto(name)
  <2>1. CASE name # key
    <3>1. name \in DOMAIN table /\ table'[name] = table[name]
      BY <1>1, <1>6, <2>1 DEF Joined
    <3>2. T1 = T
      BY <1>4, <1>a, <2>1 DEF Taken
    <3>3. Upto(name) = Taken(name)
      BY <3>2
    <3> HIDE DEF T1, T, Upto
    <3>4. /\ table[name] \in Seq(HeaderValues)
          /\ \E turn \in [1..Len(table[name]) -> Taken(name)] :
                /\ Lists(turn, Taken(name))
                /\ \A n \in 1..Len(table[name]) : table[name][n] = response_headers[turn[n]][2]
      BY <3>1, Zenon DEF TableInv
    <3> QED BY ONLY <3>1, <3>3, <3>4, SMT
  <2>2. CASE name = key /\ key \in DOMAIN table
    <3> DEFINE m == Len(table[name])
    <3>1. table[name] \in Seq(HeaderValues) /\ m \in Nat /\ table'[name] = Append(table[name], val)
      BY <1>1, <2>2 DEF TableInv, Joined
    <3>2. /\ table'[name] \in Seq(HeaderValues) /\ Len(table'[name]) = m + 1
          /\ \A n \in 1..m : table'[name][n] = table[name][n]
          /\ table'[name][m + 1] = val
      BY <1>3, <3>1
    <3>3. PICK turn \in [1..m -> T] :
            /\ Lists(turn, T)
            /\ \A n \in 1..m : table[name][n] = response_headers[turn[n]][2]
      BY <2>2 DEF TableInv
    <3>4. T1 = T \cup {p} /\ \A i \in T : i < p
      BY <1>4, <1>a, <2>2 DEF Taken
    <3> HIDE DEF m, T, T1
    <3>5. Lists(More(turn, m, p), T \cup {p})
      BY <3>1, <3>3, <3>4, MoreListed, Zenon
    <3>6. /\ More(turn, m, p) \in [1..(m + 1) -> T \cup {p}]
          /\ \A k \in 1..m : More(turn, m, p)[k] = turn[k]
          /\ More(turn, m, p)[m + 1] = p
      BY <3>1, <3>3 DEF More
    <3>7. ASSUME NEW n \in 1..(m + 1) PROVE table'[name][n] = response_headers[More(turn, m, p)[n]][2]
      <4>1. CASE n = m + 1
        BY <1>a, <3>2, <3>6, <4>1, ZenonT(60)
      <4>2. CASE n # m + 1
        <5>1. n \in 1..m
          BY <3>1, <4>2
        <5> QED BY <3>2, <3>3, <3>6, <5>1
      <4> QED BY <4>1, <4>2
    <3>8. /\ More(turn, m, p) \in [1..Len(table'[name]) -> T1]
          /\ Lists(More(turn, m, p), T1)
          /\ \A n \in 1..Len(table'[name]) : table'[name][n] = response_headers[More(turn, m, p)[n]][2]
      BY <3>2, <3>4, <3>5, <3>6, <3>7
    <3> QED BY <3>2, <3>8, Zenon DEF T1
  <2>3. CASE name = key /\ key \notin DOMAIN table
    <3>1. table'[name] = <<val>>
      BY <1>1, <1>6, <2>3 DEF Joined
    <3>2. table'[name] \in Seq(HeaderValues) /\ Len(table'[name]) = 1 /\ table'[name][1] = val
      BY <1>3, <3>1
    <3>3. T1 = {p}
      BY <1>4, <1>5, <1>a, <2>3
    <3> DEFINE turn == [n \in 1..1 |-> p]
    <3>4. turn \in [1..1 -> T1] /\ turn[1] = p /\ DOMAIN turn = 1..1
      BY <3>3
    <3>5. Lists(turn, T1)
      BY <3>3, <3>4 DEF Lists
    <3> HIDE DEF turn, T1
    <3>6. /\ turn \in [1..Len(table'[name]) -> T1]
          /\ Lists(turn, T1)
          /\ \A n \in 1..Len(table'[name]) : table'[name][n] = response_headers[turn[n]][2]
      <4>1. \A n \in 1..1 : table'[name][n] = response_headers[turn[n]][2]
        BY ONLY <3>2, <3>4, SMT DEF val
      <4> QED BY ONLY <3>2, <3>4, <3>5, <4>1, SMT
    <3> QED BY <3>2, <3>6, Zenon DEF T1
  <2> QED BY <2>1, <2>2, <2>3, Zenon
<1>9. pushed' \in 0..Len(response_headers')
  BY <1>1, <1>2
<1>10. ASSUME NEW name \in DOMAIN table'
       PROVE  /\ table'[name] \in Seq(HeaderValues)
              /\ \E turn \in [1..Len(table'[name]) -> {k \in 1..pushed' : response_headers'[k][1] = name}] :
                 /\ Lists(turn, {k \in 1..pushed' : response_headers'[k][1] = name})
                 /\ \A n \in 1..Len(table'[name]) : table'[name][n] = response_headers'[turn[n]][2]
  <2> DEFINE S == {k \in 1..pushed' : response_headers'[k][1] = name}
  <2>1. Upto(name) = S
    BY <1>1
  <2> HIDE DEF Upto, S
  <2>2. PICK turn \in [1..Len(table'[name]) -> Upto(name)] :
          /\ Lists(turn, Upto(name))
          /\ \A n \in 1..Len(table'[name]) : table'[name][n] = response_headers[turn[n]][2]
    BY <1>8
  <2>3. /\ turn \in [1..Len(table'[name]) -> S] /\ Lists(turn, S)
        /\ \A n \in 1..Len(table'[name]) : table'[name][n] = response_headers'[turn[n]][2]
    BY <1>1, <2>1, <2>2
  <2>4. table'[name] \in Seq(HeaderValues)
    BY <1>8
  <2> QED BY <2>3, <2>4, Zenon DEF S
<1> QED BY <1>7, <1>9, <1>10, Zenon DEF TableInv, Taken

\* Nothing is on the wire yet.
LEMMA HeadersInit == ResponseInit => HeadersInv
<1> SUFFICES ASSUME ResponseInit PROVE HeadersInv
  OBVIOUS
<1> USE DEF ResponseInit
<1>1. /\ wire \in Seq(Items) /\ response_headers \in Seq(Names \X HeaderValues)
      /\ 1..Len(response_headers) = {}
  OBVIOUS
<1>2. LastLines = {}
  BY DEF LastLines, HeaderLines, Of
<1>3. <<>> \in [1..Len(response_headers) -> LastLines] /\ Lists(<<>>, LastLines)
  BY <1>1, <1>2 DEF Lists
<1>4. HeadersRead
  BY <1>1, <1>3, Zenon DEF HeadersRead
<1>5. TableInv
  <2>1. Len(response_headers) \in Nat /\ 0 \in 0..Len(response_headers) /\ 1..0 = {}
    OBVIOUS
  <2> QED BY <2>1 DEF TableInv
<1>6. InTurn
  BY DEF InTurn, NoReply
<1> QED BY <1>4, <1>5, <1>6 DEF HeadersInv

\* What libcurl delivers next leaves the table alone.
LEMMA DeliversKeeps ==
    ASSUME HeadersInv, NEW item, Delivers(item), response_headers' \in Seq(Names \X HeaderValues)
    PROVE  TableInv' /\ InTurn'
<1>1. /\ result = "running" /\ result' = result
      /\ pushed' = pushed /\ table' = table /\ reply' = reply
  BY DEF Delivers, luaVars
<1>2. pushed = 0 /\ reply = NoReply
  BY <1>1 DEF HeadersInv, InTurn
<1>3. DOMAIN table = {}
  <2>1. 1..0 = {}
    OBVIOUS
  <2> QED BY <1>2, <2>1, Zenon DEF HeadersInv, TableInv
<1>4. TableInv'
  <2>1. /\ Len(response_headers') \in Nat /\ 0 \in 0..Len(response_headers') /\ 1..0 = {}
        /\ pushed' = 0 /\ DOMAIN table' = {}
    BY <1>1, <1>2, <1>3
  <2> QED BY <2>1 DEF TableInv
<1>5. InTurn'
  BY <1>1, <1>2 DEF HeadersInv, InTurn, NoReply
<1> QED BY <1>4, <1>5

\* Nothing of the headers, or of what is read of them, changes.
LEMMA HeadersSame ==
    ASSUME HeadersRead, UNCHANGED <<wire, response_headers>>
    PROVE  HeadersRead'
  BY Zenon DEF HeadersRead, LastLines, HeaderLines, StatusLines, Of

LEMMA TableSame ==
    ASSUME TableInv, UNCHANGED <<response_headers, pushed, table>>
    PROVE  TableInv'
<1>1. response_headers' = response_headers /\ pushed' = pushed /\ table' = table
  OBVIOUS
<1>2. ASSUME NEW name \in DOMAIN table'
      PROVE  /\ table'[name] \in Seq(HeaderValues)
             /\ \E turn \in [1..Len(table'[name]) -> {k \in 1..pushed' : response_headers'[k][1] = name}] :
                /\ Lists(turn, {k \in 1..pushed' : response_headers'[k][1] = name})
                /\ \A n \in 1..Len(table'[name]) : table'[name][n] = response_headers'[turn[n]][2]
  <2> DEFINE S == {k \in 1..pushed' : response_headers'[k][1] = name}
  <2>1. Taken(name) = S
    BY <1>1 DEF Taken
  <2> HIDE DEF S
  <2>2. PICK turn \in [1..Len(table[name]) -> Taken(name)] :
          /\ Lists(turn, Taken(name))
          /\ \A n \in 1..Len(table[name]) : table[name][n] = response_headers[turn[n]][2]
    BY <1>1, Zenon DEF TableInv
  <2>3. /\ turn \in [1..Len(table'[name]) -> S] /\ Lists(turn, S)
        /\ \A n \in 1..Len(table'[name]) : table'[name][n] = response_headers'[turn[n]][2]
    BY <1>1, <2>1, <2>2, Zenon
  <2>4. table'[name] \in Seq(HeaderValues)
    BY <1>1 DEF TableInv
  <2> QED BY <2>3, <2>4, Zenon DEF S
<1>3. /\ pushed' \in 0..Len(response_headers')
      /\ DOMAIN table' = {response_headers'[k][1] : k \in 1..pushed'}
  BY <1>1 DEF TableInv
<1> QED BY <1>2, <1>3, Zenon DEF TableInv, Taken

\* Every step keeps the invariant.
LEMMA HeadersStep == ASSUME HeadersInv, [ResponseNext]_responseVars PROVE HeadersInv'
<1> USE DEF HeadersInv
<1>1. CASE StatusLine
  <2> DEFINE item == [kind |-> "status"]
  <2>1. Delivers(item) /\ response_headers' = <<>>
    BY <1>1 DEF StatusLine
  <2>2. item \in Items /\ item.kind = "status" /\ response_headers' \in Seq(Names \X HeaderValues)
    BY <2>1, SMTT(60) DEF Items
  <2> HIDE DEF item
  <2>3. HeadersRead'
    BY <2>1, <2>2, StatusItem DEF Delivers
  <2> QED BY <2>1, <2>2, <2>3, DeliversKeeps
<1>2. CASE OtherLine
  <2> DEFINE item == [kind |-> "other"]
  <2>1. Delivers(item) /\ response_headers' = response_headers
    BY <1>2 DEF OtherLine, transferVars
  <2>2. /\ item \in Items /\ item.kind \notin {"status", "header"}
        /\ response_headers' \in Seq(Names \X HeaderValues)
    BY <2>1, Zenon DEF Items, HeadersRead
  <2> HIDE DEF item
  <2>3. HeadersRead'
    BY <2>1, <2>2, OtherItem DEF Delivers
  <2> QED BY <2>1, <2>2, <2>3, DeliversKeeps
<1>3. ASSUME NEW name \in Names, NEW value \in HeaderValues, HeaderLine(name, value)
      PROVE  HeadersInv'
  <2> DEFINE item == [kind |-> "header", name |-> name, value |-> value]
  <2>1. /\ Delivers(item) /\ wire' = Append(wire, item)
        /\ response_headers' = Append(response_headers, <<Lower[name], value>>)
    BY <1>3 DEF HeaderLine, Delivers
  <2>2. HeadersRead'
    BY <2>1, HeaderItem
  <2>3. response_headers' \in Seq(Names \X HeaderValues)
    BY <2>2, Zenon DEF HeadersRead
  <2> HIDE DEF item
  <2> QED BY <2>1, <2>2, <2>3, DeliversKeeps
<1>4. ASSUME NEW size \in Pieces, Write(size)
      PROVE  HeadersInv'
  <2> DEFINE item == [kind |-> "piece"]
  <2>1. Delivers(item) /\ response_headers' = response_headers
    BY <1>4 DEF Write
  <2>2. /\ item \in Items /\ item.kind \notin {"status", "header"}
        /\ response_headers' \in Seq(Names \X HeaderValues)
    BY <2>1, Zenon DEF Items, HeadersRead
  <2> HIDE DEF item
  <2>3. HeadersRead'
    BY <2>1, <2>2, OtherItem DEF Delivers
  <2> QED BY <2>1, <2>2, <2>3, DeliversKeeps
<1>5. ASSUME NEW code \in {"ok", "failed"}, NEW txt, Done(code, txt)
      PROVE  HeadersInv'
  <2>1. /\ UNCHANGED <<wire, response_headers, pushed, table, reply>>
        /\ result' \in {"ok", "failed"}
    BY <1>5 DEF Done, history, transferVars, luaVars
  <2>2. InTurn'
    BY <2>1 DEF InTurn
  <2> QED BY <2>1, <2>2, HeadersSame, TableSame
<1>6. CASE PushHeader
  <2>1. /\ UNCHANGED <<wire, response_headers, reply, result>> /\ result = "ok" /\ reply = NoReply
    BY <1>6 DEF PushHeader, history, transferVars
  <2>2. InTurn'
    BY <2>1 DEF InTurn, NoReply
  <2> QED BY <1>6, <2>1, <2>2, HeadersSame, PushStep
<1>7. CASE Complete
  <2>1. /\ UNCHANGED <<wire, response_headers, pushed, table, result>> /\ result # "running"
    BY <1>7 DEF Complete, history, transferVars
  <2>2. reply'.res = "response" => reply'.headers = table /\ pushed = Len(response_headers)
    BY <1>7 DEF Complete, NoReply, InTurn
  <2>3. InTurn'
    BY <2>1, <2>2 DEF InTurn
  <2> QED BY <2>1, <2>3, HeadersSame, TableSame
<1>8. CASE UNCHANGED responseVars
  <2>1. UNCHANGED <<wire, response_headers, pushed, table, reply, result>>
    BY <1>8 DEF responseVars, history, transferVars, luaVars
  <2>2. InTurn'
    BY <2>1 DEF InTurn
  <2> QED BY <2>1, <2>2, HeadersSame, TableSame
<1> QED BY <1>1, <1>2, <1>3, <1>4, <1>5, <1>6, <1>7, <1>8 DEF ResponseNext

\* The lines with a name are where the headers with that name are.
LEMMA LinesOfTaken ==
    ASSUME HeadersRead, NEW name,
           NEW line \in [1..Len(response_headers) -> LastLines], Lists(line, LastLines),
           \A k \in 1..Len(response_headers) :
               response_headers[k] = <<Lower[wire[line[k]].name], wire[line[k]].value>>
    PROVE  Lines(name) = {line[k] : k \in {j \in 1..Len(response_headers) : response_headers[j][1] = name}}
<1>1. \A i : i \in Lines(name) <=> i \in LastLines /\ Lower[wire[i].name] = name
  BY DEF Lines, LastLines, HeaderLines, StatusLines
<1>2. \A k \in 1..Len(response_headers) :
        line[k] \in LastLines /\ response_headers[k][1] = Lower[wire[line[k]].name]
  OBVIOUS
<1>3. \A i \in LastLines : \E k \in 1..Len(response_headers) : line[k] = i
  BY Zenon DEF Lists
<1> QED BY <1>1, <1>2, <1>3

\* The invariant gives the property.
LEMMA HeadersGive == HeadersInv => HeadersOfLastResponse
<1> SUFFICES ASSUME HeadersInv, reply.res = "response"
             PROVE  /\ DOMAIN reply.headers = {name \in {Lower[n] : n \in Names} : Lines(name) # {}}
                    /\ \A name \in DOMAIN reply.headers :
                        \E l \in [DOMAIN reply.headers[name] -> Lines(name)] :
                            /\ Lists(l, Lines(name))
                            /\ \A n \in DOMAIN l : reply.headers[name][n] = wire[l[n]].value
  BY Zenon DEF HeadersOfLastResponse
<1> DEFINE m == Len(response_headers)
<1>1. reply.headers = table /\ pushed = m
  BY DEF HeadersInv, InTurn
<1>2. m \in Nat /\ response_headers \in Seq(Names \X HeaderValues)
  BY DEF HeadersInv, HeadersRead
<1>3. PICK line \in [1..m -> LastLines] :
        /\ Lists(line, LastLines)
        /\ \A k \in 1..m : response_headers[k] = <<Lower[wire[line[k]].name], wire[line[k]].value>>
  BY Zenon DEF HeadersInv, HeadersRead
<1>4. ASSUME NEW name PROVE Lines(name) = {line[k] : k \in Taken(name)} /\ Taken(name) \subseteq 1..m
  BY <1>1, <1>3, LinesOfTaken, ZenonT(60) DEF HeadersInv, Taken
<1>5. DOMAIN table = {response_headers[k][1] : k \in 1..m}
  BY <1>1, Zenon DEF HeadersInv, TableInv
<1>6. DOMAIN table = {name \in {Lower[n] : n \in Names} : Lines(name) # {}}
  <2>1. ASSUME NEW k \in 1..m PROVE response_headers[k][1] \in {Lower[n] : n \in Names}
    <3>1. wire[line[k]] \in [kind : {"header"}, name : Names, value : HeaderValues]
      <4>1. line[k] \in DOMAIN wire /\ wire[line[k]].kind = "header" /\ wire \in Seq(Items)
        BY <1>3, Zenon DEF LastLines, HeaderLines, Of, HeadersInv, HeadersRead
      <4>2. wire[line[k]] \in Items
        BY <4>1
      <4> QED BY <4>1, <4>2 DEF Items
    <3>2. wire[line[k]].name \in Names
      BY <3>1
    <3> QED BY <1>3, <3>2
  <2>2. \A name : Lines(name) # {} <=> \E k \in 1..m : response_headers[k][1] = name
    <3> SUFFICES ASSUME NEW name PROVE Lines(name) # {} <=> Taken(name) # {}
      BY <1>1 DEF Taken
    <3>1. Lines(name) = {line[k] : k \in Taken(name)}
      BY <1>4
    <3> QED BY <3>1
  <2>3. ASSUME NEW name \in DOMAIN table PROVE name \in {Lower[n] : n \in Names} /\ Lines(name) # {}
    <3>1. PICK k \in 1..m : response_headers[k][1] = name
      BY <1>5, <2>3, Zenon
    <3> QED BY <2>1, <2>2, <3>1, Zenon
  <2>4. ASSUME NEW name, Lines(name) # {} PROVE name \in DOMAIN table
    BY <1>5, <2>2, <2>4, Zenon
  <2> QED BY <2>3, <2>4, Zenon
<1>7. ASSUME NEW name \in DOMAIN table
      PROVE  \E l \in [DOMAIN table[name] -> Lines(name)] :
                /\ Lists(l, Lines(name))
                /\ \A n \in DOMAIN l : table[name][n] = wire[l[n]].value
  <2> DEFINE p == Len(table[name])
             T == Taken(name)
  <2>1. p \in Nat /\ DOMAIN table[name] = 1..p
    BY SMTT(60) DEF HeadersInv, TableInv
  <2>2. PICK turn \in [1..p -> T] :
          /\ Lists(turn, T)
          /\ \A n \in 1..p : table[name][n] = response_headers[turn[n]][2]
    BY Zenon DEF HeadersInv, TableInv
  <2> DEFINE l == [k \in 1..p |-> line[turn[k]]]
  <2>3. T \subseteq 1..m /\ Lines(name) = {line[k] : k \in T}
    BY <1>4
  <2> HIDE DEF T, p, m
  <2>4. l \in [1..p -> {line[k] : k \in T}]
    BY <1>2, <1>3, <2>1, <2>2, <2>3
  <2>5. Lists(l, {line[k] : k \in T})
    <3>1. /\ m \in Nat /\ line \in [1..m -> LastLines] /\ Lists(line, LastLines)
          /\ T \subseteq 1..m
          /\ p \in Nat /\ turn \in [1..p -> T] /\ Lists(turn, T)
      BY <1>2, <1>3, <2>1, <2>2, <2>3, ZenonT(60)
    <3> QED BY <3>1, SomeListed, Zenon
  <2>6. ASSUME NEW n \in 1..p PROVE table[name][n] = wire[l[n]].value
    <3>1. turn[n] \in 1..m /\ l[n] = line[turn[n]]
      BY <2>2, <2>3, Zenon
    <3>2. /\ table[name][n] = response_headers[turn[n]][2]
          /\ response_headers[turn[n]] = <<Lower[wire[line[turn[n]]].name], wire[line[turn[n]]].value>>
      BY <1>3, <2>2, <3>1, Zenon
    <3> QED BY ONLY <3>1, <3>2, SMT
  <2> HIDE DEF l
  <2>7. l \in [DOMAIN table[name] -> Lines(name)] /\ Lists(l, Lines(name)) /\ DOMAIN l = 1..p
    BY <2>1, <2>3, <2>4, <2>5
  <2> QED BY <2>6, <2>7, Zenon
<1> QED BY <1>1, <1>6, <1>7, ZenonT(60)

(***************************************************************************)
(* Whatever lines libcurl delivers and however many responses come before  *)
(* the last, the callback gets the headers of the last one, each name with *)
(* all its values in their order.                                          *)
(***************************************************************************)
THEOREM HeadersRight == ResponseSpec => []HeadersOfLastResponse
  BY HeadersInit, HeadersStep, HeadersGive, PTL DEF ResponseSpec
=============================================================================
