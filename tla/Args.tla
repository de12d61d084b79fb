-------------------------------- MODULE Args --------------------------------
(***************************************************************************)
(* Lua values and the checks that turn them into arguments of the server   *)
(* (bindings/args.cpp, bindings/args.hpp).  A check that raises gives Bad. *)
(*                                                                         *)
(* Widths are scaled: Half stands for 2^31, Words for 2^16, Bytes for 2^8, *)
(* Exact for 2^24, up to which a float holds every integer.                *)
(***************************************************************************)
EXTENDS Integers, Sequences

CONSTANTS Half, Words, Bytes, Exact

-----------------------------------------------------------------------------
\* Lua values.  A table has elements e and, if a rotation was read from a
\* vehicle, the two tables in it.  Texts are numbered, the text of a number by
\* that number; if one has a NUL in it, e holds the number of the text before it.

Value(t, v, e) == [type |-> t, v |-> v, e |-> e, quaternion |-> <<>>, euler |-> <<>>]
Num(n) == Value("number", n, <<>>)
Bool(b) == Value("boolean", IF b THEN 1 ELSE 0, <<>>)
Text(n) == Value("string", n, <<>>)
TextWithNul(n, before) == Value("string", n, <<before>>)
Table(e) == Value("table", 0, e)
Handle(id) == Value("player", id, <<>>)
Nil == Value("nil", 0, <<>>)
None == Value("none", 0, <<>>)

\* What a failed check leaves behind: no argument has this value.
Bad == -1000000

Int32 == -Half..(Half - 1)
UInt32 == 0..(2 * Half - 1)
UInt16 == 0..(Words - 1)
UInt8 == 0..(Bytes - 1)

-----------------------------------------------------------------------------
\* ArgReader, CheckInteger and the other checks.

At(a, i) == IF i \in DOMAIN a THEN a[i] ELSE None
type(a, i) == At(a, i).type
missing(a, i) == type(a, i) \in {"none", "nil"}

CheckInteger(value, range) == IF value.type = "number" /\ value.v \in range THEN value.v ELSE Bad
CheckNumber(value) == IF value.type = "number" THEN value.v ELSE Bad
CheckBoolean(value) == IF value.type = "boolean" THEN value.v ELSE Bad
CheckString(value) == IF value.type \in {"string", "number"} THEN value.v ELSE Bad

\* What is left of a checked text as a C string, which ends at its first NUL.
c_str(value) == IF value.type = "string" /\ value.e # <<>> THEN value.e[1] ELSE CheckString(value)

(***************************************************************************)
(* static_cast<float>.  Beyond Exact a float holds the even integers (and  *)
(* from twice as much on only some of these, which is left out); of two    *)
(* that are as near, the cast takes the multiple of four.                  *)
(***************************************************************************)
Single(n) ==
    IF n \in -Exact..Exact \/ n % 2 = 0 THEN n ELSE IF n % 4 = 1 THEN n - 1 ELSE n + 1

CheckFloat(value) == IF value.type = "number" THEN Single(value.v) ELSE Bad

\* [-2^31, 2^32) as 32 bits.
CheckColour(value) ==
    LET n == CheckInteger(value, Int32 \cup UInt32) IN IF n = Bad THEN Bad ELSE n % (2 * Half)

IntAt(a, i) == CheckInteger(At(a, i), Int32)
IntOr(a, i, range, fallback) == IF missing(a, i) THEN fallback ELSE CheckInteger(At(a, i), range)
Number(a, i) == CheckFloat(At(a, i))
BoolOr(a, i, fallback) == IF missing(a, i) THEN fallback ELSE CheckBoolean(At(a, i))

TableNumber(t, i) == IF i \in DOMAIN t.e THEN Single(t.e[i]) ELSE Bad
TableInteger(t, i, range, fallback) ==
    IF i \notin DOMAIN t.e THEN fallback ELSE IF t.e[i] \in range THEN t.e[i] ELSE Bad

\* A Vec3 at argument i and the place after it: a table is one argument.
Vector(a, i) ==
    IF type(a, i) = "table"
    THEN [v |-> <<TableNumber(a[i], 1), TableNumber(a[i], 2), TableNumber(a[i], 3)>>, next |-> i + 1]
    ELSE [v |-> <<Number(a, i), Number(a, i + 1), Number(a, i + 2)>>, next |-> i + 3]

\* The elements of a table of three (Euler) or four (quaternion) numbers.
Rotation(t) == [i \in 1..(IF Len(t.e) >= 4 THEN 4 ELSE 3) |-> TableNumber(t, i)]

\* The getter's own table: its quaternion is preferred.
RotationTable(t) ==
    IF t.quaternion # <<>> THEN Table(t.quaternion) ELSE IF t.euler # <<>> THEN Table(t.euler) ELSE t
=============================================================================
