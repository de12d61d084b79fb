--------------------------- MODULE OverloadForms ---------------------------
(***************************************************************************)
(* The forms that docs/api lists for each binding of Overloads, as calls   *)
(* with different numbers in every place, and what they mean.              *)
(***************************************************************************)
EXTENDS Args

Form(binding, args, api, means) ==
    [binding |-> binding, args |-> args, api |-> api, means |-> means]

Nums(s) == [i \in DOMAIN s |-> Num(s[i])]
P == <<11, 12, 13>>
Angle == 14
Places == {Nums(P), <<Table(P)>>}

\* Optional arguments: any number of them given, the others default.
Tails(values, given, defaults) ==
    {[args |-> SubSeq(values, 1, k), means |-> SubSeq(given, 1, k) \o SubSeq(defaults, k + 1, Len(defaults))] :
        k \in 0..Len(values)}

Worlds == {-Half, 0, 2, Half - 1}
Alphas == {0, 7, Bytes - 1}
Colours == {-Half, -1, 0, 5, 2 * Half - 1}
Bits(c) == IF c < 0 THEN c + 2 * Half ELSE c

ObjectForms ==
    {Form("Object.create", Nums(<<1, w>>) \o Nums(P) \o t.args, "CreateObject", <<1, w>> \o P \o t.means) :
        w \in Worlds, t \in UNION {Tails(<<Num(a)>>, <<a>>, <<Bytes - 1>>) : a \in Alphas}}
    \cup {Form("Object.create", Nums(<<1, w>>) \o <<Table(P \o a)>>, "CreateObject",
               <<1, w>> \o P \o (IF a = <<>> THEN <<Bytes - 1>> ELSE a)) :
            w \in Worlds, a \in {<<>>} \cup {<<x>> : x \in Alphas}}

MoveForms ==
    {Form("object:moveTo", p \o t.args, "MoveObject", P \o t.means) :
        p \in Places, t \in Tails(<<Num(2 * Half - 1)>>, <<2 * Half - 1>>, <<0>>)}
    \cup {Form("object:moveTo", <<Table(P \o <<20>>)>> \o t.args, "MoveObject", P \o t.means) :
            t \in Tails(<<Num(30)>>, <<30>>, <<20>>)}

RotateForms ==
    {Form("object:rotateTo", <<Table(r)>> \o t.args,
          IF Len(r) = 4 THEN "RotateObject" ELSE "RotateObjectEuler", r \o t.means) :
        r \in {P, P \o <<15>>}, t \in Tails(<<Num(20)>>, <<20>>, <<0>>)}

PickupForms ==
    {Form("Pickup.create", Nums(<<1, w, 3>>) \o p \o t.args, "CreatePickup", <<1, w, 3>> \o P \o t.means) :
        w \in Worlds, p \in Places,
        t \in Tails(<<Num(7), Bool(FALSE)>>, <<7, 0>>, <<Bytes - 1, 1>>)}

CheckpointForms ==
    {Form("Checkpoint.create", <<o, Num(w), Bool(TRUE)>> \o p \o <<Table(<<1, 2, 3>> \o a), Num(9)>>,
          "CreateCheckPoint", <<IF o = Nil THEN -1 ELSE 6, w, 1>> \o P \o <<1, 2, 3>>
          \o (IF a = <<>> THEN <<Bytes - 1>> ELSE a) \o <<9>>) :
        o \in {Nil, Handle(6)}, w \in Worlds, p \in Places, a \in {<<>>, <<0>>}}

VehicleForms ==
    {Form("Vehicle.create", Nums(<<1, w>>) \o p.args \o t.args, "CreateVehicle",
          <<1, w>> \o P \o <<p.angle>> \o t.means) :
        w \in Worlds,
        p \in {[args |-> Nums(P \o <<Angle>>), angle |-> Angle], [args |-> <<Table(P)>>, angle |-> 0],
               [args |-> <<Table(P \o <<Angle>>)>>, angle |-> Angle]},
        t \in Tails(Nums(<<3, 4>>), <<3, 4>>, <<-1, -1>>)}

SpeedForms ==
    {Form("vehicle:setSpeed", k.args \o p \o t.args, k.api, P \o t.means \o <<k.relative>>) :
        k \in {[args |-> <<>>, api |-> "SetVehicleSpeed", relative |-> 0]}
              \cup {[args |-> Nums(<<n>>), api |-> IF n <= 2 THEN "SetVehicleSpeed" ELSE "SetVehicleTurnSpeed",
                     relative |-> IF n \in {2, 4} THEN 1 ELSE 0] : n \in 1..4},
        p \in Places, t \in Tails(<<Bool(TRUE)>>, <<1>>, <<0>>)}

ClassForms ==
    {Form("Server.addClass", Nums(<<1, c, 3>>) \o p \o t.args, "AddPlayerClass",
          <<1, Bits(c), 3>> \o P \o <<Angle>> \o t.means) :
        c \in Colours, p \in {Nums(P \o <<Angle>>), <<Table(P), Num(Angle)>>, <<Table(P \o <<Angle>>)>>},
        t \in Tails(Nums(<<21, 22, 23, 24, 25, 26>>), <<21, 22, 23, 24, 25, 26>>, <<0, 0, 0, 0, 0, 0>>)}

ExplosionForms ==
    {Form("Server.createExplosion", Nums(<<w, 2>>) \o p \o t.args, "CreateExplosion", <<w, 2>> \o P \o t.means) :
        w \in Worlds, p \in Places, t \in Tails(<<Handle(6), Bool(TRUE)>>, <<6, 1>>, <<-1, 0>>)}
    \cup {Form("Server.createExplosion", Nums(<<w, 2>>) \o p \o <<Nil, Bool(TRUE)>>, "CreateExplosion",
               <<w, 2>> \o P \o <<-1, 1>>) : w \in Worlds, p \in Places}

DistrictForms ==
    {Form("Map.getDistrictName", a, "DistrictName", <<11, 12>>) :
        a \in {Nums(<<11, 12>>), <<Table(<<11, 12>>)>>, <<Table(P)>>}}

BlipForms ==
    {Form("Blip.create", i.args \o Nums(<<w>>) \o p \o Nums(<<4, c, 6>>), "CreateCoordBlip",
          i.means \o <<w>> \o P \o <<4, Bits(c), 6>>) :
        i \in {[args |-> <<>>, means |-> <<-1>>], [args |-> Nums(<<-1>>), means |-> <<-1>>],
               [args |-> Nums(<<8>>), means |-> <<8>>]},
        w \in Worlds, p \in Places, c \in Colours}

SoundForms ==
    {Form("Sound.play", k.args \o p, "PlaySound", k.means \o (IF p = <<>> THEN <<>> ELSE P)) :
        k \in {[args |-> Nums(<<50>>), means |-> <<0, 50>>], [args |-> Nums(<<2, 50>>), means |-> <<2, 50>>]},
        p \in Places \cup {<<>>}}

\* Texts are numbered; 31 and 32 are the name and the URL.
RadioForms ==
    {Form("Radio.createStream", i.args \o <<Text(31), Text(32)>> \o t.args, "AddRadioStream",
          i.means \o <<31, 32>> \o t.means) :
        i \in {[args |-> <<>>, means |-> <<-1>>], [args |-> Nums(<<12>>), means |-> <<12>>]},
        t \in Tails(<<Bool(FALSE)>>, <<0>>, <<1>>)}

\* setRotation(table), (x, y, z), (x, y, z, w) or what getRotation returned,
\* also with one of its two tables alone.
ReadBack(quaternion, euler) == [Table(<<>>) EXCEPT !.quaternion = quaternion, !.euler = euler]
SetRotationForms ==
    {Form("vehicle:setRotation", a, "SetVehicleRotationEuler", P) : a \in Places \cup {<<ReadBack(<<>>, P)>>}}
    \cup {Form("vehicle:setRotation", a, "SetVehicleRotation", P \o <<15>>) :
            a \in {Nums(P \o <<15>>), <<Table(P \o <<15>>)>>, <<ReadBack(P \o <<15>>, <<41, 42, 43>>)>>,
                   <<ReadBack(P \o <<15>>, <<>>)>>}}

Forms ==
    ObjectForms \cup MoveForms \cup RotateForms \cup PickupForms \cup CheckpointForms \cup VehicleForms
    \cup SpeedForms \cup SetRotationForms \cup ClassForms \cup ExplosionForms \cup DistrictForms
    \cup BlipForms \cup SoundForms \cup RadioForms
=============================================================================
