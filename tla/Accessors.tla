----------------------------- MODULE Accessors -----------------------------
(***************************************************************************)
(* The read-write properties and getX/setX pairs of the entity classes and *)
(* of Server (bindings/player.cpp, vehicle.cpp, object.cpp, pickup.cpp,    *)
(* checkpoint.cpp, server.cpp).  The server is external: a store of        *)
(* fields, each with a function that reads it and one that writes it.  A   *)
(* row of a table below says which fields a property reads and writes, and *)
(* what its value is checked against.  One live entity of one kind is      *)
(* enough: a binding never touches another one.  Texts fit into the        *)
(* buffers that they are read with, as ReadText says of them.              *)
(***************************************************************************)
EXTENDS Args, FiniteSets, Functions

CONSTANTS
    Scalars,   \* Lua values that are assigned
    Elements,  \* elements of assigned tables
    Turns,     \* assigned rotation tables
    Keys,      \* options, parts, rules, players: what keyed settings are keyed by
    MaxGiven,  \* optional elements given in an assigned table
    MaxCalls   \* bound on the calls of scripts
VARIABLES
    kind,    \* the kind of entity, or Server
    server,  \* the server's fields of it
    last,    \* the last call: property or method, value, result
    calls    \* calls so far
vars == <<kind, server, last, calls>>

\* What a Lua value is that is no table.  Ids of vehicles start at 1.
Scalar(value) ==
    /\ value.type \in {"number", "boolean", "string", "nil", "player", "vehicle"}
    /\ value.v \in Int
    /\ value.type = "boolean" => value.v \in {0, 1}
    /\ value.type = "nil" => value.v = 0
    /\ value.type = "vehicle" => value.v > 0
    /\ value.type = "string" /\ value.e # <<>> => value.e[1] \in Int

\* And what a rotation table is.
Turn(value) ==
    /\ value.type = "table"
    /\ value.e \in Seq(Int) /\ value.quaternion \in Seq(Int) /\ value.euler \in Seq(Int)

\* Integers of every width have values, and what is assigned are Lua values.
ASSUME WidthAssumption ==
    Half \in Nat \ {0} /\ Words \in Nat \ {0} /\ Bytes \in Nat \ {0} /\ Exact \in Nat
ASSUME ValuesAssumption ==
    Elements \subseteq Int /\ (\A value \in Scalars : Scalar(value)) /\ \A value \in Turns : Turn(value)

-----------------------------------------------------------------------------
(***************************************************************************)
(* Declarations.  A property with one value; the same where the server's   *)
(* setter returns nothing; getX(key) and setX(key, value); a table of      *)
(* numbers, {x, y, z} for instance, of which some may be left out.         *)
(***************************************************************************)
Declared(name, field, types, optional, shape) ==
    [name |-> name, field |-> field, types |-> types, optional |-> optional, shape |-> shape]

P(name, field, t) == Declared(name, field, <<t>>, {}, "value")
V(name, field, t) == Declared(name, field, <<t>>, {}, "void")
Keyed(name, field, t) == Declared(name, field, <<t>>, {}, "keyed")
T(name, field, types, optional) == Declared(name, field, types, optional, "table")
Vec3(name, field) == T(name, field, <<"Float", "Float", "Float">>, {})

PlayerRows ==
    {P("admin", "PlayerAdmin", "Boolean"), P("world", "PlayerWorld", "Int32"),
     P("secondaryWorld", "PlayerSecondaryWorld", "Int32"), P("team", "PlayerTeam", "Int32"),
     P("skin", "PlayerSkin", "Int32"), P("color", "PlayerColour", "Colour"),
     P("cash", "PlayerMoney", "Int32"), P("score", "PlayerScore", "Int32"),
     P("wantedLevel", "PlayerWantedLevel", "Int32"), P("immunity", "PlayerImmunityFlags", "UInt32"),
     P("health", "PlayerHealth", "Float"), P("armour", "PlayerArmour", "Float"),
     P("name", "PlayerName", "String"), P("weaponSlot", "PlayerWeaponSlot", "Int32"),
     P("drunkHandling", "PlayerDrunkHandling", "UInt32"),
     P("drunkVisuals", "PlayerDrunkVisuals", "UInt8")}

PlayerPlaces ==
    {P("spectateTarget", "PlayerSpectateTarget", "Player"), P("angle", "PlayerHeading", "Float"),
     Vec3("position", "PlayerPosition"), Vec3("speed", "PlayerSpeed")}

PlayerMethods ==
    {P("Alpha", "PlayerAlpha", "Int32"), Keyed("Option", "PlayerOption", "Boolean")}

PlayerArrows == {Keyed("3DArrowToPlayer", "Player3DArrowForPlayer", "Boolean")}

VehicleRows ==
    {P("world", "VehicleWorld", "Int32"), P("health", "VehicleHealth", "Float"),
     P("idleRespawnTime", "VehicleIdleRespawnTimer", "UInt32"), P("radio", "VehicleRadio", "Int32"),
     P("damage", "VehicleDamageData", "UInt32"), P("immunity", "VehicleImmunityFlags", "UInt32"),
     P("lightsData", "VehicleLightsData", "UInt32")}

VehicleTables ==
    {T("color", "VehicleColour", <<"Int32", "Int32">>, {1, 2}),
     Vec3("position", "VehiclePosition"), Vec3("spawnPosition", "VehicleSpawnPosition")}

VehicleMethods ==
    {Keyed("Option", "VehicleOption", "Boolean"), Keyed("PartStatus", "VehiclePartStatus", "Int32"),
     Keyed("TyreStatus", "VehicleTyreStatus", "Int32")}

VehicleRules ==
    {Keyed("HandlingRule", "InstHandlingRule", "Double"),
     Keyed("3DArrowToPlayer", "Vehicle3DArrowForPlayer", "Boolean")}

ObjectRows ==
    {P("alpha", "ObjectAlpha", "Int32"), P("world", "ObjectWorld", "Int32"),
     P("trackShots", "ObjectShotReportEnabled", "Boolean"),
     P("trackTouch", "ObjectTouchedReportEnabled", "Boolean"),
     Vec3("position", "ObjectPosition"), Vec3("angle", "ObjectRotationEuler")}

PickupRows ==
    {P("world", "PickupWorld", "Int32"), P("alpha", "PickupAlpha", "Int32"),
     P("auto", "PickupAutomatic", "Boolean"), P("autoTimer", "PickupAutoTimer", "UInt32"),
     Vec3("position", "PickupPosition"), Keyed("Option", "PickupOption", "Boolean")}

\* A colour's alpha is kept when the table has none.
CheckpointRows ==
    {P("world", "CheckPointWorld", "Int32"), P("radius", "CheckPointRadius", "Float"),
     T("color", "CheckPointColour", <<"Channel", "Channel", "Channel", "Channel">>, {4}),
     Vec3("position", "CheckPointPosition")}

ServerRows ==
    {P("name", "ServerName", "String"), P("maxPlayers", "MaxPlayers", "UInt32"),
     P("gamemode", "GameModeText", "String"), P("password", "ServerPassword", "String")}

ServerOptions == {Keyed("Option", "ServerOption", "Boolean")}

\* Setters without a result.
WorldRows ==
    {V("fallTimer", "FallTimer", "UInt16"), V("timeRate", "TimeRate", "Int32"),
     V("hour", "Hour", "Int32"), V("minute", "Minute", "Int32"), V("weather", "Weather", "Int32"),
     V("gravity", "Gravity", "Float"), V("waterLevel", "WaterLevel", "Float"),
     V("gameSpeed", "GameSpeed", "Float"), V("flightAltitude", "MaximumFlightAltitude", "Float"),
     V("vehicleRespawnHeight", "VehiclesForcedRespawnHeight", "Float"),
     V("killDelay", "KillCommandDelay", "Int32")}

\* deathTimer, fadeTimer, fadeInSpeed, fadeOutSpeed, fadeColour, corpseFadeStart,
\* corpseFadeTime; each may be left out.
WastedSettings ==
    Declared("wastedSettings", "WastedSettings",
             <<"UInt32", "UInt32", "Float", "Float", "Colour", "UInt32", "UInt32">>, 1..7, "voidTable")

Kinds == {"Player", "Vehicle", "Object", "Pickup", "Checkpoint", "Server"}
Properties(k) ==
    CASE k = "Player" -> PlayerRows \cup PlayerPlaces \cup PlayerMethods \cup PlayerArrows
      [] k = "Vehicle" -> VehicleRows \cup VehicleTables \cup VehicleMethods \cup VehicleRules
      [] k = "Object" -> ObjectRows
      [] k = "Pickup" -> PickupRows
      [] k = "Checkpoint" -> CheckpointRows
      [] k = "Server" -> ServerRows \cup ServerOptions \cup WorldRows \cup {WastedSettings}

(***************************************************************************)
(* A row is a property, or one of a keyed setting: its name and key, the   *)
(* server's fields that it reads and writes, each with a key, which is the *)
(* option or the component, and the checks of its values.                  *)
(***************************************************************************)
IsTable(d) == d.shape \in {"table", "voidTable"}
Row(d, key) ==
    [name |-> <<d.name, key>>,
     fields |-> IF IsTable(d) THEN [i \in DOMAIN d.types |-> <<d.field, i>>] ELSE <<<<d.field, key>>>>,
     types |-> d.types, optional |-> d.optional, table |-> IsTable(d),
     checked |-> d.shape \notin {"void", "voidTable"}]

KeysOf(d) == IF d.shape = "keyed" THEN Keys ELSE {0}
Rows == [k \in Kinds |-> UNION {{Row(d, key) : key \in KeysOf(d)} : d \in Properties(k)}]

\* Fields that no row alone reads and writes.  A rotation is read as three Euler
\* angles and as the four numbers of a quaternion.
OtherFields == {<<"PlayerVehicleId", 0>>, <<"PlayerInVehicleSlot", 0>>}
TurnFields == {"VehicleRotation", "VehicleSpawnRotation"} \X (1..7)

Fields(k) ==
    (UNION {{r.fields[i] : i \in DOMAIN r.fields} : r \in Rows[k]})
    \cup (IF k = "Player" THEN OtherFields ELSE IF k = "Vehicle" THEN TurnFields ELSE {})

Init ==
    /\ kind \in Kinds
    /\ server = [f \in Fields(kind) |-> 0]
    /\ last = [name |-> <<"none", 0>>, value |-> Nil, result |-> "true"]
    /\ calls = 0

-----------------------------------------------------------------------------
\* Conversions and the server's answers.

\* spectateTarget is a handle, or nil for -1.
Converted(t, value) ==
    CASE t = "Int32" -> CheckInteger(value, Int32)
      [] t = "UInt32" -> CheckInteger(value, UInt32)
      [] t = "UInt16" -> CheckInteger(value, UInt16)
      [] t \in {"UInt8", "Channel"} -> CheckInteger(value, UInt8)
      [] t = "Float" -> CheckFloat(value)
      [] t = "Double" -> CheckNumber(value)
      [] t = "Boolean" -> CheckBoolean(value)
      [] t = "String" -> c_str(value)
      [] t = "Colour" -> CheckColour(value)
      [] t = "Player" -> IF value.type = "nil" THEN -1 ELSE IF value.type = "player" THEN value.v ELSE Bad

\* vcmpErrorNone, vcmpErrorRequestDenied, any other error.
Answers == {"none", "denied", "failed"}
Check(answer) == [none |-> "true", denied |-> "false", failed |-> "raised"][answer]

Write(fields, values) ==
    [f \in DOMAIN server |->
        IF \E i \in DOMAIN fields : fields[i] = f THEN values[CHOOSE i \in DOMAIN fields : fields[i] = f]
        ELSE server[f]]

\* One call of a script; a refused or failed setter leaves the fields alone.
Called(name, value, result, written) ==
    /\ last' = [name |-> name, value |-> value, result |-> result]
    /\ server' = written

Sets(name, value, fields, values, answer) ==
    Called(name, value, Check(answer), IF answer = "none" THEN Write(fields, values) ELSE server)

\* Tables for a row, with up to MaxGiven of the elements that may be left out.
Tables(row) ==
    UNION {{Table(e) : e \in [D -> Elements]} :
            D \in {D \in SUBSET (DOMAIN row.types) : Cardinality(D \cap row.optional) <= MaxGiven}}

-----------------------------------------------------------------------------
\* What the setters do.

\* Mutant: an element that is not given is set to zero.
Merged_Zero(row, value) ==
    [i \in DOMAIN row.types |->
        IF ~row.table THEN Converted(row.types[i], value)
        ELSE IF i \in DOMAIN value.e THEN Converted(row.types[i], Num(value.e[i]))
        ELSE IF i \in row.optional THEN 0 ELSE Bad]

\* The values to write: an element that is not given keeps what was read.
Merged(row, value) ==
    [i \in DOMAIN row.types |->
        IF ~row.table THEN Converted(row.types[i], value)
        ELSE IF i \in DOMAIN value.e THEN Converted(row.types[i], Num(value.e[i]))
        ELSE IF i \in row.optional THEN server[row.fields[i]] ELSE Bad]

Refused(row, value) == (row.table /\ value.type # "table") \/ \E i \in DOMAIN row.types : Merged(row, value)[i] = Bad

\* An assignment, or setX: the value is checked before the server is called.
Assign(row, value, answer) ==
    IF Refused(row, value)
    THEN Called(row.name, value, "raised", server)
    ELSE /\ row.checked \/ answer = "none"
         /\ Sets(row.name, value, row.fields, Merged(row, value), answer)

\* checkpoint.alpha: the colour is read and written back with another alpha.
Alpha(value, answer) ==
    LET a == CheckInteger(value, Int32)
        fields == [i \in 1..4 |-> <<"CheckPointColour", i>>]
    IN  IF a = Bad THEN Called(<<"alpha", 0>>, value, "raised", server)
        ELSE Sets(<<"alpha", 0>>, value, fields, [i \in 1..4 |-> IF i = 4 THEN a ELSE server[fields[i]]], answer)

\* vehicle.rotation, angle and spawnRotation.  The server keeps one rotation:
\* what it then reads as in the other form is its own affair (any `other').
RotationNames == {"rotation", "angle", "spawnRotation"}

\* Mutant: the spawn rotation goes through the calls of the rotation.
RotationOf_Current(name) == "VehicleRotation"

RotationOf(name) == IF name = "spawnRotation" THEN "VehicleSpawnRotation" ELSE "VehicleRotation"
Turned(given, other) ==
    [i \in 1..7 |-> IF i <= 3 THEN (IF Len(given) = 3 THEN given[i] ELSE other)
                              ELSE (IF Len(given) = 4 THEN given[i - 3] ELSE other)]

SetRotation(name, value, other, answer) ==
    LET given == Rotation(RotationTable(value))
    IN  IF value.type # "table" \/ Bad \in Range(given)
        THEN Called(<<name, 0>>, value, "raised", server)
        ELSE Sets(<<name, 0>>, value, [i \in 1..7 |-> <<RotationOf(name), i>>], Turned(given, other), answer)

Lights == server[<<"VehicleLightsData", 0>>]
\* kTaxiLight is the bit above the low byte.
TaxiBit(lights) == (lights \div Bytes) % 2

\* vehicle.taxiLight
TaxiLight(value, answer) ==
    LET on == CheckBoolean(value)
    IN  IF on = Bad THEN Called(<<"taxiLight", 0>>, value, "raised", server)
        ELSE Sets(<<"taxiLight", 0>>, value, <<<<"VehicleLightsData", 0>>>>,
                  <<Lights + (on - TaxiBit(Lights)) * Bytes>>, answer)

\* player.vehicle: nil does nothing for a player on foot.
PlayerVehicle(value, answer) ==
    LET fields == <<<<"PlayerVehicleId", 0>>, <<"PlayerInVehicleSlot", 0>>>>
        name == <<"vehicle", 0>>
    IN  CASE value.type \notin {"nil", "vehicle"} -> Called(name, value, "raised", server)
          [] value.type = "vehicle" -> Sets(name, value, fields, <<value.v, 0>>, answer)
          [] value.type = "nil" /\ server[fields[1]] > 0 -> Sets(name, value, fields, <<0, 0>>, answer)
          [] OTHER -> Called(name, value, "true", server)

\* Several setters in turn: an error ends the call, a refusal is remembered.
Reached(answers) == {i \in DOMAIN answers : \A j \in 1..(i - 1) : answers[j] # "failed"}
Done(answers) == {i \in Reached(answers) : answers[i] = "none"}

\* Mutant: the answer to the last setter only.
Result_Last(answers) ==
    IF \E i \in DOMAIN answers : answers[i] = "failed" THEN "raised"
    ELSE IF answers = <<>> THEN "true" ELSE Check(answers[Len(answers)])

Result(answers) ==
    IF \E i \in DOMAIN answers : answers[i] = "failed" THEN "raised"
    ELSE IF Done(answers) = DOMAIN answers THEN "true" ELSE "false"

InTurn(name, value, fields, values, answers) ==
    LET done == Done(answers)
    IN  Called(name, value, Result(answers),
               [f \in DOMAIN server |->
                   IF \E i \in done : fields[i] = f THEN values[CHOOSE i \in done : fields[i] = f]
                   ELSE server[f]])

\* vehicle:repair(): health, damage, then the low byte of the lights.
repair(answers) ==
    InTurn(<<"repair", 0>>, Nil,
           <<<<"VehicleHealth", 0>>, <<"VehicleDamageData", 0>>, <<"VehicleLightsData", 0>>>>,
           <<1000, 0, Lights - (Lights % Bytes)>>, answers)

\* vehicle:resetHandlingRule({rules}), or of one rule; a rule that is reset
\* reads as 0.  A rule that is no 32-bit integer raises when its turn comes.
resetHandlingRule(rules, answers) ==
    InTurn(<<"resetHandlingRule", 0>>, Table(rules), [i \in DOMAIN rules |-> <<"InstHandlingRule", rules[i]>>],
           [i \in DOMAIN rules |-> 0],
           [i \in DOMAIN rules |-> IF rules[i] \in Int32 THEN answers[i] ELSE "failed"])

\* The server's own changes (a player drives off, a vehicle is hit).
ServerChanges(f, n) ==
    /\ server' = [server EXCEPT ![f] = n]
    /\ last' = [name |-> <<"none", 0>>, value |-> Nil, result |-> "true"]

Calls ==
    \/ \E row \in Rows[kind] :
        \E value \in Scalars \cup (IF row.table THEN Tables(row) ELSE {}), a \in Answers :
            Assign(row, value, a)
    \/ kind = "Checkpoint" /\ \E value \in Scalars, a \in Answers : Alpha(value, a)
    \/ kind = "Vehicle" /\ \E value \in Scalars, a \in Answers : TaxiLight(value, a)
    \/ kind = "Player" /\ \E value \in Scalars, a \in Answers : PlayerVehicle(value, a)
    \/ kind = "Vehicle" /\ \E answers \in [1..3 -> Answers] : repair(answers)
    \/ kind = "Vehicle" /\ \E n \in 1..2 : \E rules \in [1..n -> Keys \cup {Half}], answers \in [1..n -> Answers] :
                                resetHandlingRule(rules, answers)
    \/ kind = "Vehicle" /\ \E name \in RotationNames, value \in Scalars \cup Turns, other \in Elements, a \in Answers :
                                SetRotation(name, value, other, a)
    \/ \E f \in {<<"VehicleLightsData", 0>>, <<"VehicleHealth", 0>>, <<"PlayerVehicleId", 0>>} \cap DOMAIN server :
            ServerChanges(f, 2 * Bytes + 1)

Next ==
    /\ calls < MaxCalls
    /\ calls' = calls + 1
    /\ UNCHANGED kind
    /\ Calls

Spec == Init /\ [][Next]_vars

-----------------------------------------------------------------------------
\* Properties.

\* What a script reads: a row, a rotation, or one of the three that are derived
\* from others' fields.  spawnRotation reads as Euler angles only.
View(name, field) == [name |-> name, fields |-> <<field>>]
RotationView(name) ==
    [name |-> <<name, 0>>,
     fields |-> [i \in (IF name = "spawnRotation" THEN 1..3 ELSE 1..7) |-> <<RotationOf(name), i>>]]
Derived(k) ==
    CASE k = "Player" -> {View(<<"vehicle", 0>>, <<"PlayerVehicleId", 0>>)}
      [] k = "Vehicle" -> {View(<<"taxiLight", 0>>, <<"VehicleLightsData", 0>>)}
      [] k = "Checkpoint" -> {View(<<"alpha", 0>>, <<"CheckPointColour", 4>>)}
      [] OTHER -> {}
Turnable(k) == IF k = "Vehicle" THEN {RotationView(name) : name \in RotationNames} ELSE {}
Settings == Rows[kind] \cup Derived(kind)
Views == Settings \cup Turnable(kind)

Reading(view, fields) ==
    IF view.name = <<"taxiLight", 0>> THEN <<TaxiBit(fields[<<"VehicleLightsData", 0>>])>>
    ELSE [i \in DOMAIN view.fields |-> fields[view.fields[i]]]

\* Properties that the server keeps as floats.
FloatNames ==
    {"health", "armour", "angle", "position", "speed", "spawnPosition", "radius", "gravity", "waterLevel",
     "gameSpeed", "flightAltitude", "vehicleRespawnHeight"}

\* What the documentation says a property reads as after value was assigned: a
\* colour as its 32 bits, no player as -1; a float as the nearest one, a text up
\* to its first NUL.
Expected(name, value, before) ==
    LET colour(i) == \/ name = <<"color", 0>> /\ kind = "Player"
                     \/ name = <<"wastedSettings", 0>> /\ i = 5
        float(i) == \/ name[1] \in FloatNames
                    \/ name = <<"wastedSettings", 0>> /\ i \in {3, 4}
        read(i, n) == IF colour(i) /\ n < 0 THEN n + 2 * Half ELSE IF float(i) THEN Single(n) ELSE n
    IN  IF value.type = "table"
        THEN [i \in DOMAIN before |-> IF i \in DOMAIN value.e THEN read(i, value.e[i]) ELSE before[i]]
        ELSE IF name = <<"spectateTarget", 0>> /\ value.type = "nil" THEN <<-1>>
        ELSE IF value.type = "string" THEN <<c_str(value)>>
        ELSE <<read(1, value.v)>>

\* A rotation reads as assigned in the form in which it was assigned; of the
\* table that the getter returns this is the quaternion.
ReadsAsTurned(reading, value) ==
    LET given == RotationTable(value).e
    IN  \A i \in DOMAIN reading :
            /\ Len(given) = 3 /\ i <= 3 => reading[i] = Single(given[i])
            /\ Len(given) >= 4 /\ i > 3 => reading[i] = Single(given[i - 3])

\* Pairs that are documented to be two views of the same thing.
Shared ==
    {{<<"lightsData", 0>>, <<"taxiLight", 0>>}, {<<"color", 0>>, <<"alpha", 0>>},
     {<<"rotation", 0>>, <<"angle", 0>>}}

AssignedTo(name) == last'.name = name /\ last'.result = "true"

ReadsAsAssigned ==
    /\ \A view \in Settings : AssignedTo(view.name) =>
        Reading(view, server') = Expected(view.name, last'.value, Reading(view, server))
    /\ \A view \in Turnable(kind) : AssignedTo(view.name) =>
        \A other \in Turnable(kind) : other.name = view.name \/ {view.name, other.name} \in Shared =>
            ReadsAsTurned(Reading(other, server'), last'.value)

KeepsOthers ==
    /\ \A view \in Views : AssignedTo(view.name) =>
        \A other \in Views : other.name # view.name /\ {view.name, other.name} \notin Shared =>
            Reading(other, server') = Reading(other, server)
    /\ AssignedTo(<<"taxiLight", 0>>) => /\ Lights' % Bytes = Lights % Bytes
                                         /\ Lights' \div (2 * Bytes) = Lights \div (2 * Bytes)
    /\ kind = "Checkpoint" /\ AssignedTo(<<"alpha", 0>>) =>
        \A i \in 1..3 : server'[<<"CheckPointColour", i>>] = server[<<"CheckPointColour", i>>]

TakesEveryStep ==
    /\ AssignedTo(<<"repair", 0>>) =>
        /\ server'[<<"VehicleHealth", 0>>] = 1000
        /\ server'[<<"VehicleDamageData", 0>>] = 0
        /\ Lights' % Bytes = 0 /\ TaxiBit(Lights') = TaxiBit(Lights)
    /\ AssignedTo(<<"resetHandlingRule", 0>>) =>
        \A i \in DOMAIN last'.value.e : server'[<<"InstHandlingRule", last'.value.e[i]>>] = 0

(***************************************************************************)
(* What a script assigns to a property of an entity or of Server, and the  *)
(* server accepts, is what the property reads as, up to what a float and a *)
(* C string can hold; of a table with only some elements, the others read  *)
(* as before (vehicle.color, the alpha of a checkpoint,                    *)
(* Server.wastedSettings).  A vehicle's rotation, also under its other     *)
(* name angle, reads so in the form (Euler angles or quaternion) in which  *)
(* it was given.                                                           *)
(***************************************************************************)
AssignedIsRead == [][ReadsAsAssigned]_vars

(***************************************************************************)
(* Assigning one property changes no other one, except through the three   *)
(* documented pairs: taxiLight is a bit of lightsData, a checkpoint's      *)
(* alpha is a channel of its color, a vehicle's angle is its rotation (and *)
(* not its spawnRotation).  In the first two, taxiLight leaves the other   *)
(* bits alone and alpha the other channels.                                *)
(***************************************************************************)
OthersKept == [][KeepsOthers]_vars

(***************************************************************************)
(* vehicle:repair() and resetHandlingRule({...}) return true only if every *)
(* one of their steps was taken; a repair keeps the taxi light.            *)
(***************************************************************************)
TrueMeansDone == [][TakesEveryStep]_vars
=============================================================================
