----------------------------- MODULE Overloads -----------------------------
(***************************************************************************)
(* Bindings that accept several forms of a call (bindings/args.hpp:        *)
(* "a binding that accepts several forms inspects its arguments itself").  *)
(* Each binding is an operator from the sequence of Lua arguments to the   *)
(* call of the server, or to an error.  The reference are the forms that   *)
(* the documentation lists, written out as pairs of arguments and meaning. *)
(***************************************************************************)
EXTENDS Args, Functions

CONSTANTS
    Forms   \* the calls to check: binding, args, means
VARIABLES form, outcome
vars == <<form, outcome>>

-----------------------------------------------------------------------------
Raised == [api |-> "error", args |-> <<>>]
Calls(api, args) == IF Bad \in Range(args) THEN Raised ELSE [api |-> api, args |-> args]

-----------------------------------------------------------------------------
\* Objects, pickups, checkpoints.

ObjectCreate(a) ==
    LET p == Vector(a, 3)
        alpha == IF type(a, 3) = "table" THEN TableInteger(a[3], 4, UInt8, Bytes - 1)
                                         ELSE IntOr(a, p.next, UInt8, Bytes - 1)
    IN  Calls("CreateObject", <<IntAt(a, 1), IntAt(a, 2)>> \o p.v \o <<alpha>>)

MoveObject(a) ==
    LET p == Vector(a, 1)
        ms == IF type(a, 1) = "table" /\ missing(a, 2) THEN TableInteger(a[1], 4, UInt32, 0)
                                                       ELSE IntOr(a, p.next, UInt32, 0)
    IN  Calls("MoveObject", p.v \o <<ms>>)

RotateObject(a) ==
    IF type(a, 1) # "table" THEN Raised
    ELSE Calls(IF Len(a[1].e) >= 4 THEN "RotateObject" ELSE "RotateObjectEuler",
               Rotation(a[1]) \o <<IntOr(a, 2, UInt32, 0)>>)

PickupCreate(a) ==
    LET p == Vector(a, 4)
    IN  Calls("CreatePickup", <<IntAt(a, 1), IntAt(a, 2), IntAt(a, 3)>> \o p.v
              \o <<IntOr(a, p.next, UInt8, Bytes - 1), BoolOr(a, p.next + 1, 1)>>)

\* {r, g, b[, a]}; a missing alpha stays what it was.
ReadColour(t, alpha) ==
    IF t.type # "table" THEN <<Bad>>
    ELSE [c \in 1..3 |-> TableInteger(t, c, UInt8, Bad)]
         \o <<IF Len(t.e) >= 4 THEN TableInteger(t, 4, UInt8, Bad) ELSE alpha>>

\* CheckLive<Player>: a live player's handle, or none.
Owner(a, i) == IF missing(a, i) THEN -1 ELSE IF type(a, i) = "player" THEN a[i].v ELSE Bad

CheckpointCreate(a) ==
    LET p == Vector(a, 4)
    IN  Calls("CreateCheckPoint",
              <<Owner(a, 1), IntAt(a, 2), CheckBoolean(At(a, 3))>> \o p.v
              \o ReadColour(At(a, p.next), Bytes - 1) \o <<Number(a, p.next + 1)>>)

-----------------------------------------------------------------------------
\* Vehicles.

VehicleCreate(a) ==
    LET table == type(a, 3) = "table"
        p == Vector(a, 3)
        i == IF table THEN p.next ELSE p.next + 1
        angle == IF ~table THEN Number(a, p.next) ELSE IF Len(a[3].e) >= 4 THEN TableNumber(a[3], 4) ELSE 0
    IN  Calls("CreateVehicle", <<IntAt(a, 1), IntAt(a, 2)>> \o p.v
              \o <<angle, IntOr(a, i, Int32, -1), IntOr(a, i + 1, Int32, -1)>>)

\* Mutant: a boolean after three numbers counts as the third of them.
Typed_ByCount(a) == type(a, 1) = "number" /\ (type(a, 2) = "table" \/ Len(a) >= 4)

\* The type comes first if what follows starts the speed.
Typed(a) ==
    /\ type(a, 1) = "number"
    /\ type(a, 2) = "table" \/ (type(a, 2) = "number" /\ type(a, 4) = "number")

SetSpeed(a) ==
    LET which == IF Typed(a) THEN IntAt(a, 1) ELSE 1
        p == Vector(a, IF Typed(a) THEN 2 ELSE 1)
        args == p.v \o <<BoolOr(a, p.next, 0), IF which \in {2, 4} THEN 1 ELSE 0>>
    IN  CASE which \in {1, 2} -> Calls("SetVehicleSpeed", args)
          [] which \in {3, 4} -> Calls("SetVehicleTurnSpeed", args)
          [] OTHER -> Raised

SetRotationFromTable(t) ==
    LET inner == RotationTable(t)
    IN  Calls(IF Len(inner.e) >= 4 THEN "SetVehicleRotation" ELSE "SetVehicleRotationEuler", Rotation(inner))

setRotation(a) ==
    IF type(a, 1) = "table" THEN SetRotationFromTable(a[1])
    ELSE IF missing(a, 4)
    THEN Calls("SetVehicleRotationEuler", <<Number(a, 1), Number(a, 2), Number(a, 3)>>)
    ELSE Calls("SetVehicleRotation", [i \in 1..4 |-> Number(a, i)])

-----------------------------------------------------------------------------
\* Server, Map, Blip, Sound, Radio.

AddClass(a) ==
    LET inTable == type(a, 4) = "table" /\ Len(a[4].e) >= 4
        p == Vector(a, 4)
        angle == IF inTable THEN TableNumber(a[4], 4) ELSE Number(a, p.next)
        i == IF inTable THEN p.next ELSE p.next + 1
    IN  Calls("AddPlayerClass", <<IntAt(a, 1), CheckColour(At(a, 2)), IntAt(a, 3)>> \o p.v \o <<angle>>
              \o [w \in 1..6 |-> IntOr(a, i + w - 1, Int32, 0)])

createExplosion(a) ==
    LET p == Vector(a, 3)
    IN  Calls("CreateExplosion", <<IntAt(a, 1), IntAt(a, 2)>> \o p.v
              \o <<Owner(a, p.next), BoolOr(a, p.next + 1, 0)>>)

\* Looks the place up in a table of its own; no call of the server.
getDistrictName(a) ==
    Calls("DistrictName", IF type(a, 1) = "table" THEN <<TableNumber(a[1], 1), TableNumber(a[1], 2)>>
                                                  ELSE <<Number(a, 1), Number(a, 2)>>)

Indexed(a) ==
    IF type(a, 2) = "table" \/ type(a, 3) = "table" THEN type(a, 3) = "table" ELSE Len(a) >= 8

CreateBlip(a) ==
    LET i == IF Indexed(a) THEN 2 ELSE 1
        p == Vector(a, i + 1)
    IN  Calls("CreateCoordBlip",
              <<IF Indexed(a) THEN IntAt(a, 1) ELSE -1, IntAt(a, i)>> \o p.v
              \o <<IntAt(a, p.next), CheckColour(At(a, p.next + 1)), IntAt(a, p.next + 2)>>)

HasWorld(a) == (Len(a) = 2 /\ type(a, 2) # "table") \/ Len(a) = 3 \/ Len(a) >= 5

\* No position is NaN, here the empty sequence.
PlaySound(a) ==
    LET i == IF HasWorld(a) THEN 2 ELSE 1
    IN  Calls("PlaySound", <<IF HasWorld(a) THEN IntAt(a, 1) ELSE 0, IntAt(a, i)>>
              \o IF missing(a, i + 1) THEN <<>> ELSE Vector(a, i + 1).v)

createStream(a) ==
    LET first == IF type(a, 1) = "number" THEN 2 ELSE 1
    IN  Calls("AddRadioStream", <<IF first = 2 THEN IntAt(a, 1) ELSE -1, c_str(At(a, first)),
                                 c_str(At(a, first + 1)), BoolOr(a, first + 2, 1)>>)

Binding(name, a) ==
    CASE name = "Object.create" -> ObjectCreate(a)
      [] name = "object:moveTo" -> MoveObject(a)
      [] name = "object:rotateTo" -> RotateObject(a)
      [] name = "Pickup.create" -> PickupCreate(a)
      [] name = "Checkpoint.create" -> CheckpointCreate(a)
      [] name = "Vehicle.create" -> VehicleCreate(a)
      [] name = "vehicle:setSpeed" -> SetSpeed(a)
      [] name = "vehicle:setRotation" -> setRotation(a)
      [] name = "Server.addClass" -> AddClass(a)
      [] name = "Server.createExplosion" -> createExplosion(a)
      [] name = "Map.getDistrictName" -> getDistrictName(a)
      [] name = "Blip.create" -> CreateBlip(a)
      [] name = "Sound.play" -> PlaySound(a)
      [] name = "Radio.createStream" -> createStream(a)

-----------------------------------------------------------------------------

Init == form \in Forms /\ outcome = <<>>

\* A script calls the binding.
Call ==
    /\ outcome = <<>>
    /\ outcome' = <<Binding(form.binding, form.args)>>
    /\ UNCHANGED form

Next == Call
Spec == Init /\ [][Next]_vars

(***************************************************************************)
(* Every documented form of a call, with tables or numbers, with and       *)
(* without its optional arguments, reaches the server with the documented  *)
(* meaning: no form is taken for another one.  With an argument of a type  *)
(* that its place does not take, the call raises an error before the       *)
(* server is called: the form is not guessed around it.                    *)
(***************************************************************************)
FormsUnderstood ==
    outcome # <<>> =>
        /\ outcome[1] = [api |-> form.api, args |-> form.means]
        /\ \A i \in DOMAIN form.args :
            Binding(form.binding, [form.args EXCEPT ![i] = Value("function", 0, <<>>)]) = Raised
=============================================================================
