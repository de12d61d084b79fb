------------------------------- MODULE Stream -------------------------------
(***************************************************************************)
(* Streams of client script data (bindings/stream.cpp).  A byte is a digit *)
(* of base Base (256 in the code), so that the words of four digits and    *)
(* the lengths of two can be enumerated on a small base.  A float is its   *)
(* bit pattern: it is copied with memcpy both ways.  The value that a call *)
(* returns is a sequence: of one number, or of the bytes of a string.      *)
(* send only reads the stream.                                             *)
(***************************************************************************)
EXTENDS Integers, Sequences

CONSTANTS
    Base,      \* the number of values of a byte
    MaxSize,   \* Stream::kMaxSize
    Received,  \* contents that clients send; may be larger than MaxSize
    Numbers,   \* the integers that scripts write
    Texts      \* the strings that scripts write

Byte == 0..(Base - 1)
Word == Base * Base * Base * Base

ASSUME BaseAssumption == Base \in Nat /\ Base > 1
ASSUME SizeAssumption == MaxSize \in Nat
ASSUME ReceivedAssumption == Received \subseteq Seq(Byte)
ASSUME NumbersAssumption == Numbers \subseteq Int
ASSUME TextsAssumption == Texts \subseteq Seq(Byte)

VARIABLES
    bytes,    \* Stream::bytes
    read,     \* Stream::read
    outcome,  \* the call, whether it succeeded, and what it returned
    limit,    \* history: the size the stream may have
    written   \* history: the values written, and where their bytes are
vars == <<bytes, read, outcome, limit, written>>

Kinds == {"byte", "number", "float", "string"}
Items == [kind : Kinds, value : Seq(Int), at : Nat, end : Nat]
Outcomes == [op : {"none", "write", "read", "clear"}, ok : BOOLEAN, kind : Kinds, value : Seq(Int)]

TypeOK ==
    /\ bytes \in Seq(Byte)
    /\ read \in 0..Len(bytes)
    /\ outcome \in Outcomes
    /\ limit \in Nat
    /\ written \subseteq Items

Outcome(op, ok, kind, value) == [op |-> op, ok |-> ok, kind |-> kind, value |-> value]

\* Stream(), or the copy of what OnClientScriptData was given.
Init ==
    /\ bytes \in Received \cup {<<>>}
    /\ read = 0
    /\ outcome = Outcome("none", TRUE, "byte", <<>>)
    /\ limit = IF Len(bytes) > MaxSize THEN Len(bytes) ELSE MaxSize
    /\ written = {}

-----------------------------------------------------------------------------

Need(size) == Len(bytes) - read >= size

Room(size) == Len(bytes) <= MaxSize /\ MaxSize - Len(bytes) >= size

Fails(op, kind) ==
    /\ outcome' = Outcome(op, FALSE, kind, <<>>)
    /\ UNCHANGED <<bytes, read, limit, written>>

Writes(kind, digits, value) ==
    /\ bytes' = bytes \o digits
    /\ outcome' = Outcome("write", TRUE, kind, <<>>)
    /\ written' = written \cup {[kind |-> kind, value |-> value, at |-> Len(bytes), end |-> Len(bytes) + Len(digits)]}
    /\ UNCHANGED <<read, limit>>

Reads(kind, size, value) ==
    /\ read' = read + size
    /\ outcome' = Outcome("read", TRUE, kind, value)
    /\ UNCHANGED <<bytes, limit, written>>

-----------------------------------------------------------------------------

\* The value shifted right by n bytes.
Shifted(value, n) ==
    LET once == value \div Base
        twice == once \div Base
    IN  <<value, once, twice, twice \div Base>>[n + 1]

\* Mutant: the digits of a word in the order of a string's length.
Digits_BigEndian(value) ==
    <<Shifted(value, 3) % Base, Shifted(value, 2) % Base,
      Shifted(value, 1) % Base, Shifted(value, 0) % Base>>

\* A 32-bit word, lowest byte first.
Digits(value) ==
    <<Shifted(value, 0) % Base, Shifted(value, 1) % Base,
      Shifted(value, 2) % Base, Shifted(value, 3) % Base>>

ReadU32 ==
    bytes[read + 1] + Base * (bytes[read + 2] + Base * (bytes[read + 3] + Base * bytes[read + 4]))

\* static_cast<std::int32_t>
Signed(word) == IF 2 * word >= Word THEN word - Word ELSE word

writeByte(value) ==
    IF 2 * value >= -Base /\ value < Base /\ Room(1)
    THEN Writes("byte", <<value % Base>>, <<value % Base>>)
    ELSE Fails("write", "byte")

writeNumber(value) ==
    IF 2 * value >= -Word /\ value < Word /\ Room(4)
    THEN Writes("number", Digits(value), <<Signed(value % Word)>>)
    ELSE Fails("write", "number")

writeFloat(bits) ==
    IF Room(4) THEN Writes("float", Digits(bits % Word), <<bits % Word>>)
               ELSE Fails("write", "float")

\* Big-endian length of two bytes, then the bytes.
writeString(text) ==
    IF Len(text) < Base * Base /\ Room(2 + Len(text))
    THEN Writes("string", <<Len(text) \div Base, Len(text) % Base>> \o text, text)
    ELSE Fails("write", "string")

readByte ==
    IF Need(1) THEN Reads("byte", 1, <<bytes[read + 1]>>) ELSE Fails("read", "byte")

readNumber ==
    IF Need(4) THEN Reads("number", 4, <<Signed(ReadU32)>>) ELSE Fails("read", "number")

readFloat ==
    IF Need(4) THEN Reads("float", 4, <<ReadU32>>) ELSE Fails("read", "float")

readString ==
    LET length == bytes[read + 1] * Base + bytes[read + 2] IN
    IF Need(2) /\ Need(2 + length)
    THEN Reads("string", 2 + length, SubSeq(bytes, read + 3, read + 2 + length))
    ELSE Fails("read", "string")

clear ==
    /\ bytes' = <<>>
    /\ read' = 0
    /\ outcome' = Outcome("clear", TRUE, "byte", <<>>)
    /\ limit' = MaxSize
    /\ written' = {}

Next ==
    \/ \E n \in Numbers : writeByte(n) \/ writeNumber(n) \/ writeFloat(n)
    \/ \E text \in Texts : writeString(text)
    \/ readByte \/ readNumber \/ readFloat \/ readString
    \/ clear

Spec == Init /\ [][Next]_vars

-----------------------------------------------------------------------------

(***************************************************************************)
(* A stream grows by writing to MaxSize at most, and one that was received *)
(* with more than that does not grow at all: bytes.size() - read and       *)
(* kMaxSize - bytes.size() are unsigned in the code and must not wrap.     *)
(***************************************************************************)
SizeBound == Len(bytes) <= limit

(***************************************************************************)
(* What was written is read back: a read of the same kind that starts      *)
(* where a value was written succeeds, returns it (a byte as 0 to 255, a   *)
(* number as the signed value of its 32 bits) and stops where the next     *)
(* value was written, however reads, writes and failed calls alternate.    *)
(***************************************************************************)
RoundTrip ==
    [][\A w \in written :
            outcome'.op = "read" /\ outcome'.kind = w.kind /\ read = w.at =>
                outcome'.ok /\ outcome'.value = w.value /\ read' = w.end]_vars

(***************************************************************************)
(* "A read or write that fails changes nothing" (docs/api/stream.md), a    *)
(* string whose length was there and whose bytes were not included.        *)
(***************************************************************************)
FailureChangesNothing == [][~outcome'.ok => bytes' = bytes /\ read' = read]_vars
=============================================================================
