---------------------------- MODULE CallsProofs ----------------------------
(***************************************************************************)
(* What Calls promises.  Of Stream, for every base, limit, received        *)
(* content, number and text: the arithmetic of digits, types and sizes,    *)
(* then the round trip, from an invariant that says where the bytes of     *)
(* each value that was written are.  Of Startup, for every struct, config  *)
(* file and failure: the libraries, the callbacks and the configuration.   *)
(***************************************************************************)
EXTENDS Calls, SequenceTheorems, TLAPS

-----------------------------------------------------------------------------
\* Digits.

(* Quotient and remainder of a division by more than one, as writeU32 and  *)
(* writeString use them.                                                   *)
LEMMA DivMod ==
    ASSUME NEW d \in Nat, d > 1, NEW v \in Int
    PROVE  /\ v \div d \in Int
           /\ v % d \in 0..(d - 1)
           /\ v = d * (v \div d) + (v % d)
OBVIOUS

(* A multiple of n strictly between -n and n is zero.                      *)
LEMMA SmallMultiple ==
    ASSUME NEW n \in Nat, n > 0, NEW k \in Int, -n < n * k, n * k < n
    PROVE  k = 0
OBVIOUS

(* A quotient and a remainder are unique: what is below the word size is   *)
(* what the value is modulo the word size.                                 *)
LEMMA Remainder ==
    ASSUME NEW n \in Nat, n > 1, NEW q \in Int, NEW d \in Int, 0 <= d, d < n
    PROVE  (n * q + d) % n = d
<1> DEFINE v == n * q + d
           p == v \div n
           m == v % n
<1>1. v \in Int
  OBVIOUS
<1>2. p \in Int /\ m \in 0..(n - 1) /\ n * q + d = n * p + m
  BY <1>1, DivMod
<1> HIDE DEF p, m
<1>3. n * (q - p) = m - d
  BY <1>2
<1>4. q - p = 0
  BY <1>2, <1>3, SmallMultiple
<1>5. m = d
  BY <1>2, <1>3, <1>4
<1> QED BY <1>5 DEF m

(* What the four bytes of Digits are: bytes, and the value is made of them *)
(* and of what is above the word.                                          *)
LEMMA FourDigits ==
    ASSUME NEW v \in Int
    PROVE  \E d0, d1, d2, d3 \in Byte, q \in Int :
              /\ Digits(v) = <<d0, d1, d2, d3>>
              /\ v = d0 + Base * (d1 + Base * (d2 + Base * (d3 + Base * q)))
<1> DEFINE v1 == v \div Base
           v2 == v1 \div Base
           v3 == v2 \div Base
           v4 == v3 \div Base
<1>1. v1 \in Int /\ v % Base \in Byte /\ v = Base * v1 + (v % Base)
  BY BaseAssumption, DivMod DEF Byte
<1>2. v2 \in Int /\ v1 % Base \in Byte /\ v1 = Base * v2 + (v1 % Base)
  BY <1>1, BaseAssumption, DivMod DEF Byte
<1>3. v3 \in Int /\ v2 % Base \in Byte /\ v2 = Base * v3 + (v2 % Base)
  BY <1>2, BaseAssumption, DivMod DEF Byte
<1>4. v4 \in Int /\ v3 % Base \in Byte /\ v3 = Base * v4 + (v3 % Base)
  BY <1>3, BaseAssumption, DivMod DEF Byte
<1>5. Digits(v) = <<v % Base, v1 % Base, v2 % Base, v3 % Base>>
  BY DEF Digits, Shifted
<1> HIDE DEF v1, v2, v3, v4
<1> DEFINE d0 == v % Base
           d1 == v1 % Base
           d2 == v2 % Base
           d3 == v3 % Base
<1>6. d0 \in Byte /\ d1 \in Byte /\ d2 \in Byte /\ d3 \in Byte /\ v4 \in Int
  BY <1>1, <1>2, <1>3, <1>4
<1>7. v3 = d3 + Base * v4 /\ v2 = d2 + Base * v3 /\ v1 = d1 + Base * v2 /\ v = d0 + Base * v1
  <2>1. d0 \in Int /\ d1 \in Int /\ d2 \in Int /\ d3 \in Int /\ Base \in Int
    BY <1>6, BaseAssumption DEF Byte
  <2>2. Base * v1 \in Int /\ Base * v2 \in Int /\ Base * v3 \in Int /\ Base * v4 \in Int
    BY <1>1, <1>2, <1>3, <1>4, <2>1
  <2> QED BY <1>1, <1>2, <1>3, <1>4, <2>1, <2>2
<1>8. v = d0 + Base * (d1 + Base * (d2 + Base * (d3 + Base * v4)))
  BY <1>7
<1>9. Digits(v) = <<d0, d1, d2, d3>>
  BY <1>5
<1> HIDE DEF d0, d1, d2, d3
<1> QED BY <1>6, <1>8, <1>9

(* The word that ReadU32 makes of four bytes is the value that Digits took *)
(* apart, modulo 2^32.                                                     *)
LEMMA WordOfDigits ==
    ASSUME NEW v \in Int
    PROVE  LET d == Digits(v)
           IN  d[1] + Base * (d[2] + Base * (d[3] + Base * d[4])) = v % Word
<1>1. PICK d0 \in Byte, d1 \in Byte, d2 \in Byte, d3 \in Byte, q \in Int :
              /\ Digits(v) = <<d0, d1, d2, d3>>
              /\ v = d0 + Base * (d1 + Base * (d2 + Base * (d3 + Base * q)))
  BY FourDigits, Zenon
<1> DEFINE low == d0 + Base * (d1 + Base * (d2 + Base * d3))
<1>2. /\ Base \in Nat /\ Base > 1
      /\ d0 \in 0..(Base - 1) /\ d1 \in 0..(Base - 1) /\ d2 \in 0..(Base - 1) /\ d3 \in 0..(Base - 1)
  BY BaseAssumption DEF Byte
<1>3. Word \in Nat /\ Word > 1 /\ Word = Base * (Base * (Base * Base))
  BY <1>2 DEF Word
<1>4. low \in Int /\ 0 <= low /\ low < Word
  <2>1. \A x, y \in Nat : \A n \in Nat : x < Base /\ y < n => x + Base * y \in Nat /\ x + Base * y < Base * n
    BY <1>2
  <2>2. d2 + Base * d3 \in Nat /\ d2 + Base * d3 < Base * Base
    BY <1>2, <2>1
  <2>3. d1 + Base * (d2 + Base * d3) \in Nat /\ d1 + Base * (d2 + Base * d3) < Base * (Base * Base)
    BY <1>2, <2>1, <2>2
  <2>4. low \in Nat /\ low < Base * (Base * (Base * Base))
    BY <1>2, <2>1, <2>3
  <2> QED BY <1>3, <2>4
<1>5. v = Word * q + low
  BY <1>1, <1>2, <1>3
<1>6. v % Word = low
  <2> HIDE DEF low
  <2> QED BY <1>3, <1>4, <1>5, Remainder
<1> QED BY <1>1, <1>6

-----------------------------------------------------------------------------
\* Types, sizes and failed calls.

(* Digits are bytes.                                                       *)
LEMMA DigitsType ==
    ASSUME NEW v \in Int
    PROVE  Digits(v) \in Seq(Byte) /\ Len(Digits(v)) = 4
<1>1. PICK d0 \in Byte, d1 \in Byte, d2 \in Byte, d3 \in Byte : Digits(v) = <<d0, d1, d2, d3>>
  BY FourDigits
<1> QED BY <1>1

(* A word is a number, signed or not.                                      *)
LEMMA WordType ==
    /\ Word \in Nat /\ Word > 1
    /\ \A v \in Int : v % Word \in Int /\ Signed(v) \in Int
<1>1. Word \in Nat /\ Word > 1
  BY BaseAssumption DEF Word
<1>2. \A v \in Int : v % Word \in Int
  BY <1>1, DivMod
<1>3. \A v \in Int : Signed(v) \in Int
  BY <1>1 DEF Signed
<1> QED BY <1>1, <1>2, <1>3

(* The two bytes of a string's length.                                     *)
LEMMA LengthDigits ==
    ASSUME NEW n \in Nat, n < Base * Base
    PROVE  /\ n \div Base \in Byte /\ n % Base \in Byte
           /\ (n \div Base) * Base + (n % Base) = n
<1> DEFINE q == n \div Base
           m == n % Base
<1>1. q \in Int /\ m \in 0..(Base - 1) /\ n = Base * q + m
  BY BaseAssumption, DivMod
<1> HIDE DEF q, m
<1>2. q >= 0
  BY <1>1, BaseAssumption
<1>3. q < Base
  BY <1>1, BaseAssumption
<1>4. q * Base + m = n
  BY <1>1, BaseAssumption
<1>5. q \in Byte /\ m \in Byte
  BY <1>1, <1>2, <1>3, BaseAssumption DEF Byte
<1> QED BY <1>4, <1>5 DEF q, m

(* A write that is taken keeps the types.                                  *)
LEMMA WritesType ==
    ASSUME TypeOK, NEW kind \in Kinds, NEW digits \in Seq(Byte), NEW value \in Seq(Int),
           Writes(kind, digits, value)
    PROVE  TypeOK'
<1>1. bytes' \in Seq(Byte) /\ Len(bytes') = Len(bytes) + Len(digits)
  BY DEF TypeOK, Writes
<1>2. read' \in 0..Len(bytes')
  BY <1>1 DEF TypeOK, Writes
<1>3. outcome' \in Outcomes
  BY DEF Writes, Outcome, Outcomes
<1>4. written' \subseteq Items
  BY DEF TypeOK, Writes, Items
<1>5. limit' \in Nat
  BY DEF TypeOK, Writes
<1> QED BY <1>1, <1>2, <1>3, <1>4, <1>5 DEF TypeOK

(* A read that is taken keeps the types, if so many bytes are there.       *)
LEMMA ReadsType ==
    ASSUME TypeOK, NEW kind \in Kinds, NEW size \in Nat, NEW value \in Seq(Int), Need(size),
           Reads(kind, size, value)
    PROVE  TypeOK'
<1>1. read' \in 0..Len(bytes')
  BY DEF TypeOK, Reads, Need
<1>2. outcome' \in Outcomes
  BY DEF Reads, Outcome, Outcomes
<1> QED BY <1>1, <1>2, Zenon DEF TypeOK, Reads

(* A call that fails keeps the types.                                      *)
LEMMA FailsType ==
    ASSUME TypeOK, NEW op \in {"write", "read"}, NEW kind \in Kinds, Fails(op, kind)
    PROVE  TypeOK'
<1>1. outcome' \in Outcomes
  BY DEF Fails, Outcome, Outcomes, Kinds
<1> QED BY <1>1, Zenon DEF TypeOK, Fails

(* A position inside a part of the bytes is one of the bytes.              *)
LEMMA Inside ==
    ASSUME NEW p \in Nat, NEW size \in Nat, NEW n \in Nat, p + size <= n
    PROVE  \A i \in 1..size : p + i \in 1..n
OBVIOUS

(* The four bytes at a position make a number.                             *)
U32At(p) ==
    bytes[p + 1] + Base * (bytes[p + 2] + Base * (bytes[p + 3] + Base * bytes[p + 4]))

(* What a 32-bit read decodes from the stream is a number.                 *)
LEMMA U32Type ==
    ASSUME TypeOK, NEW p \in Nat, p + 4 <= Len(bytes)
    PROVE  U32At(p) \in Int
<1>0. bytes \in Seq(Int) /\ Len(bytes) \in Nat
  BY BaseAssumption DEF TypeOK, Byte
<1>a. \A i \in 1..4 : p + i \in 1..Len(bytes)
  BY <1>0, Inside
<1>b. \A i \in 1..Len(bytes) : bytes[i] \in Int
  BY <1>0
<1>1. bytes[p + 1] \in Int /\ bytes[p + 2] \in Int /\ bytes[p + 3] \in Int /\ bytes[p + 4] \in Int
  BY <1>a, <1>b
<1>2. \A x, y \in Int : x + Base * y \in Int
  BY BaseAssumption
<1> QED BY <1>1, <1>2, Zenon DEF U32At

(* Every call is one of: a write that is taken, of digits that are bytes   *)
(* and fit; a read that is taken, of bytes that are there; a call that     *)
(* fails; clear.                                                           *)
Taken ==
    \/ \E kind \in Kinds, digits \in Seq(Byte), value \in Seq(Int) :
            Room(Len(digits)) /\ Writes(kind, digits, value)
    \/ \E kind \in Kinds, size \in Nat, value \in Seq(Int) : Need(size) /\ Reads(kind, size, value)
    \/ \E op \in {"write", "read"}, kind \in Kinds : Fails(op, kind)
    \/ clear

(* Every binding of the stream module is a write that fits, a read that    *)
(* is covered, a failure or a clear.                                       *)
LEMMA EveryCall ==
    ASSUME TypeOK, Next
    PROVE  Taken
<1>1. ASSUME NEW n \in Numbers, writeByte(n)
      PROVE  Taken
  <2>1. n \in Int /\ n % Base \in Byte /\ n % Base \in Int
    BY NumbersAssumption, BaseAssumption, DivMod DEF Byte
  <2>2. <<n % Base>> \in Seq(Byte) /\ Len(<<n % Base>>) = 1 /\ <<n % Base>> \in Seq(Int)
    BY <2>1
  <2>3. "byte" \in Kinds
    BY DEF Kinds
  <2> QED BY <1>1, <2>2, <2>3, Zenon DEF Taken, writeByte
<1>2. ASSUME NEW n \in Numbers, writeNumber(n)
      PROVE  Taken
  <2>1. n \in Int
    BY NumbersAssumption
  <2>2. Digits(n) \in Seq(Byte) /\ Len(Digits(n)) = 4
    BY <2>1, DigitsType
  <2>3. <<Signed(n % Word)>> \in Seq(Int)
    BY <2>1, WordType
  <2>4. "number" \in Kinds
    BY DEF Kinds
  <2> QED BY <1>2, <2>2, <2>3, <2>4, Zenon DEF Taken, writeNumber
<1>3. ASSUME NEW n \in Numbers, writeFloat(n)
      PROVE  Taken
  <2>1. n % Word \in Int
    BY NumbersAssumption, WordType
  <2>2. Digits(n % Word) \in Seq(Byte) /\ Len(Digits(n % Word)) = 4
    BY <2>1, DigitsType
  <2>3. <<n % Word>> \in Seq(Int)
    BY <2>1
  <2>4. "float" \in Kinds
    BY DEF Kinds
  <2> QED BY <1>3, <2>2, <2>3, <2>4, Zenon DEF Taken, writeFloat
<1>4. ASSUME NEW text \in Texts, writeString(text)
      PROVE  Taken
  <2>1. text \in Seq(Byte) /\ text \in Seq(Int) /\ Len(text) \in Nat
    BY TextsAssumption, BaseAssumption DEF Byte
  <2>2. CASE Len(text) < Base * Base /\ Room(2 + Len(text))
    <3> DEFINE head == <<Len(text) \div Base, Len(text) % Base>>
    <3>1. head \in Seq(Byte) /\ Len(head) = 2
      BY <2>1, <2>2, LengthDigits
    <3>2. head \o text \in Seq(Byte) /\ Len(head \o text) = 2 + Len(text)
      BY <2>1, <3>1
    <3>3. "string" \in Kinds
      BY DEF Kinds
    <3>4. Writes("string", head \o text, text)
      BY <1>4, <2>2 DEF writeString
    <3> HIDE DEF head
    <3> QED BY <2>1, <2>2, <3>2, <3>3, <3>4, Zenon DEF Taken
  <2>3. CASE ~(Len(text) < Base * Base /\ Room(2 + Len(text)))
    BY <1>4, <2>3 DEF writeString, Taken, Kinds
  <2> QED BY <2>2, <2>3
<1>5. CASE readByte
  <2>1. CASE Need(1)
    <3>1. <<bytes[read + 1]>> \in Seq(Int)
      BY <2>1, BaseAssumption DEF TypeOK, Need, Byte
    <3> QED BY <1>5, <2>1, <3>1, Zenon DEF readByte, Taken, Kinds
  <2>2. CASE ~Need(1)
    BY <1>5, <2>2 DEF readByte, Taken, Kinds
  <2> QED BY <2>1, <2>2
<1>6. CASE readNumber
  <2>1. CASE Need(4)
    <3>1. ReadU32 \in Int
      BY <2>1, U32Type DEF TypeOK, Need, U32At, ReadU32
    <3>2. <<Signed(ReadU32)>> \in Seq(Int)
      BY <3>1, WordType
    <3> QED BY <1>6, <2>1, <3>2, Zenon DEF readNumber, Taken, Kinds
  <2>2. CASE ~Need(4)
    BY <1>6, <2>2 DEF readNumber, Taken, Kinds
  <2> QED BY <2>1, <2>2
<1>7. CASE readFloat
  <2>1. CASE Need(4)
    <3>1. ReadU32 \in Int
      BY <2>1, U32Type DEF TypeOK, Need, U32At, ReadU32
    <3>2. <<ReadU32>> \in Seq(Int)
      BY <3>1
    <3> QED BY <1>7, <2>1, <3>2, Zenon DEF readFloat, Taken, Kinds
  <2>2. CASE ~Need(4)
    BY <1>7, <2>2 DEF readFloat, Taken, Kinds
  <2> QED BY <2>1, <2>2
<1>8. CASE readString
  <2> DEFINE length == bytes[read + 1] * Base + bytes[read + 2]
  <2>1. CASE Need(2) /\ Need(2 + length)
    <3>0. Need(2)
      BY <2>1
    <3>1. bytes[read + 1] \in Nat /\ bytes[read + 2] \in Nat
      BY <3>0, BaseAssumption DEF TypeOK, Need, Byte
    <3>2. length \in Nat
      BY <3>1, BaseAssumption
    <3>3. Reads("string", 2 + length, SubSeq(bytes, read + 3, read + 2 + length))
      BY <1>8, <2>1 DEF readString
    <3> HIDE DEF length
    <3>4. read + 3 \in Int /\ read + 2 + length \in Int /\ read + 2 + length <= Len(bytes)
      BY <2>1, <3>2 DEF TypeOK, Need
    <3>5. bytes \in Seq(Int)
      BY BaseAssumption DEF TypeOK, Byte
    <3>6. SubSeq(bytes, read + 3, read + 2 + length) \in Seq(Int)
      BY <3>2, <3>4, <3>5 DEF TypeOK
    <3>7. 2 + length \in Nat
      BY <3>2
    <3> QED BY <2>1, <3>3, <3>6, <3>7, Zenon DEF Taken, Kinds
  <2>2. CASE ~(Need(2) /\ Need(2 + length))
    BY <1>8, <2>2 DEF readString, Taken, Kinds
  <2> QED BY <2>1, <2>2
<1>9. CASE clear
  BY <1>9 DEF Taken
<1> QED BY <1>1, <1>2, <1>3, <1>4, <1>5, <1>6, <1>7, <1>8, <1>9 DEF Next

(* A new or a cleared stream.                                              *)
LEMMA EmptyStream == <<>> \in Seq(Byte) /\ 0 \in 0..Len(<<>>)
OBVIOUS

(* A call keeps the types.                                                 *)
LEMMA StepType ==
    ASSUME TypeOK, [Next]_vars
    PROVE  TypeOK'
<1>1. CASE Next
  <2>1. Taken
    BY <1>1, EveryCall
  <2>2. ASSUME NEW kind \in Kinds, NEW digits \in Seq(Byte), NEW value \in Seq(Int),
               Writes(kind, digits, value)
        PROVE  TypeOK'
    BY <2>2, WritesType
  <2>3. ASSUME NEW kind \in Kinds, NEW size \in Nat, NEW value \in Seq(Int), Need(size),
               Reads(kind, size, value)
        PROVE  TypeOK'
    BY <2>3, ReadsType
  <2>4. ASSUME NEW op \in {"write", "read"}, NEW kind \in Kinds, Fails(op, kind)
        PROVE  TypeOK'
    BY <2>4, FailsType
  <2>5. CASE clear
    <3>1. outcome' \in Outcomes
      BY <2>5 DEF clear, Outcome, Outcomes, Kinds
    <3>2. bytes' \in Seq(Byte) /\ read' \in 0..Len(bytes')
      BY <2>5, EmptyStream DEF clear
    <3> QED BY <2>5, <3>1, <3>2, SizeAssumption, Zenon DEF clear, TypeOK
  <2> QED BY <2>1, <2>2, <2>3, <2>4, <2>5 DEF Taken
<1>2. CASE UNCHANGED vars
  BY <1>2 DEF TypeOK, vars
<1> QED BY <1>1, <1>2

(* The initial states have their types.                                    *)
LEMMA InitType == Init => TypeOK
<1> SUFFICES ASSUME Init PROVE TypeOK
  OBVIOUS
<1>1. bytes \in Seq(Byte)
  BY ReceivedAssumption, EmptyStream, Zenon DEF Init
<1>4. read \in 0..Len(bytes)
  BY <1>1 DEF Init
<1>2. outcome \in Outcomes
  BY DEF Init, Outcome, Outcomes, Kinds
<1>3. limit \in Nat
  BY <1>1, SizeAssumption DEF Init
<1> QED BY <1>1, <1>2, <1>3, <1>4, Zenon DEF Init, TypeOK

(***************************************************************************)
(* The read position is never past the end, and every byte is one: what    *)
(* the unsigned subtraction bytes.size() - read in Need relies on.         *)
(***************************************************************************)
THEOREM TypeCorrect == Spec => []TypeOK
<1>1. TypeOK /\ [Next]_vars => TypeOK'
  BY StepType
<1> QED BY <1>1, InitType, PTL DEF Spec

(***************************************************************************)
(* No sequence of calls makes a stream larger than its limit, or one that  *)
(* was received too large any larger.                                      *)
(***************************************************************************)
THEOREM SizesBounded == Spec => []SizeBound
<1> DEFINE Inv == TypeOK /\ SizeBound /\ limit >= MaxSize
<1>1. Init => Inv
  <2> SUFFICES ASSUME Init PROVE SizeBound /\ limit >= MaxSize
    BY InitType
  <2>1. Len(bytes) \in Nat
    BY InitType DEF TypeOK
  <2> QED BY <2>1, SizeAssumption DEF Init, SizeBound
<1>2. Inv /\ [Next]_vars => Inv'
  <2> SUFFICES ASSUME Inv, [Next]_vars PROVE SizeBound' /\ limit' >= MaxSize
    BY StepType
  <2>1. CASE Next
    <3>1. Taken
      BY <2>1, EveryCall
    <3>2. ASSUME NEW kind \in Kinds, NEW digits \in Seq(Byte), NEW value \in Seq(Int),
                 Room(Len(digits)), Writes(kind, digits, value)
          PROVE  SizeBound' /\ limit' >= MaxSize
      <4>1. Len(bytes') = Len(bytes) + Len(digits) /\ limit' = limit
        BY <3>2 DEF Writes, TypeOK
      <4>2. Len(bytes) + Len(digits) <= MaxSize
        BY <3>2, SizeAssumption DEF Room, TypeOK
      <4>3. Len(bytes) + Len(digits) \in Nat /\ limit \in Nat
        BY DEF TypeOK
      <4> QED BY <4>1, <4>2, <4>3, SizeAssumption DEF SizeBound
    <3>3. ASSUME NEW kind \in Kinds, NEW size \in Nat, NEW value \in Seq(Int), Reads(kind, size, value)
          PROVE  SizeBound' /\ limit' >= MaxSize
      BY <3>3 DEF Reads, SizeBound
    <3>4. ASSUME NEW op \in {"write", "read"}, NEW kind \in Kinds, Fails(op, kind)
          PROVE  SizeBound' /\ limit' >= MaxSize
      BY <3>4 DEF Fails, SizeBound
    <3>5. CASE clear
      BY <3>5, SizeAssumption DEF clear, SizeBound
    <3> QED BY <3>1, <3>2, <3>3, <3>4, <3>5 DEF Taken
  <2>2. CASE UNCHANGED vars
    BY <2>2 DEF vars, SizeBound
  <2> QED BY <2>1, <2>2
<1>3. Inv => SizeBound
  OBVIOUS
<1> QED BY <1>1, <1>2, <1>3, PTL DEF Spec

(***************************************************************************)
(* A read or a write that fails leaves the bytes and the position as they  *)
(* were: no call throws after it has begun to change the stream.           *)
(***************************************************************************)
THEOREM FailuresChangeNothing == Spec => FailureChangesNothing
<1>1. TypeOK /\ [Next]_vars => [~outcome'.ok => bytes' = bytes /\ read' = read]_vars
  <2> SUFFICES ASSUME TypeOK, Next, ~outcome'.ok PROVE bytes' = bytes /\ read' = read
    BY DEF vars
  <2>1. Taken
    BY EveryCall
  <2> QED BY <2>1 DEF Taken, Writes, Reads, Fails, clear, Outcome
<1> QED BY <1>1, TypeCorrect, PTL DEF Spec, FailureChangesNothing

-----------------------------------------------------------------------------
\* The round trip.

(* The bytes of a value that was written are where they were put, and      *)
(* reading them there gives the value.                                     *)
Holds(w) ==
    /\ w.end <= Len(bytes)
    /\ w.kind = "byte" => w.end = w.at + 1 /\ w.value = <<bytes[w.at + 1]>>
    /\ w.kind = "number" => w.end = w.at + 4 /\ w.value = <<Signed(U32At(w.at))>>
    /\ w.kind = "float" => w.end = w.at + 4 /\ w.value = <<U32At(w.at)>>
    /\ w.kind = "string" =>
          /\ w.end = w.at + 2 + Len(w.value)
          /\ bytes[w.at + 1] * Base + bytes[w.at + 2] = Len(w.value)
          /\ \A j \in 1..Len(w.value) : bytes[w.at + 2 + j] = w.value[j]

WrittenInv == TypeOK /\ \A w \in written : Holds(w)

(* Appending moves no byte that is there.                                  *)
LEMMA Appended ==
    ASSUME NEW s \in Seq(Byte), NEW t \in Seq(Byte)
    PROVE  /\ Len(s \o t) = Len(s) + Len(t)
           /\ \A i \in 1..Len(s) : (s \o t)[i] = s[i]
           /\ \A i \in 1..Len(t) : (s \o t)[Len(s) + i] = t[i]
OBVIOUS

(* A later write leaves the bytes of an earlier value where they are.      *)
LEMMA HoldsAfterWrite ==
    ASSUME TypeOK, NEW digits \in Seq(Byte), bytes' = bytes \o digits,
           NEW w \in Items, Holds(w)
    PROVE  Holds(w)'
<1>0. w.value \in Seq(Int) /\ bytes \in Seq(Byte)
  BY DEF Items, TypeOK
<1>1. w.at \in Nat /\ w.end \in Nat /\ Len(w.value) \in Nat /\ Len(bytes) \in Nat
  BY <1>0 DEF Items
<1>3. Len(bytes') >= Len(bytes) /\ \A i \in 1..Len(bytes) : bytes'[i] = bytes[i]
  BY <1>0, <1>1, Appended
<1>a. w.end <= Len(bytes)
  BY DEF Holds
<1>b. Len(bytes') \in Nat
  BY <1>0
<1>4. w.end <= Len(bytes')
  BY <1>1, <1>3, <1>a, <1>b
<1>5. CASE w.kind = "byte"
  <2>1. w.end = w.at + 1 /\ w.value = <<bytes[w.at + 1]>>
    BY <1>5 DEF Holds
  <2>2. w.at + 1 \in 1..Len(bytes)
    BY <1>1, <1>a, <2>1
  <2>3. bytes'[w.at + 1] = bytes[w.at + 1]
    BY <1>3, <2>2
  <2> QED BY <1>4, <1>5, <2>1, <2>3 DEF Holds
<1>6. ASSUME w.end = w.at + 4
      PROVE  U32At(w.at)' = U32At(w.at)
  <2>1. /\ bytes'[w.at + 1] = bytes[w.at + 1] /\ bytes'[w.at + 2] = bytes[w.at + 2]
        /\ bytes'[w.at + 3] = bytes[w.at + 3] /\ bytes'[w.at + 4] = bytes[w.at + 4]
    <3>1. \A i \in 1..4 : w.at + i \in 1..Len(bytes)
      BY <1>1, <1>6, <1>a, Inside
    <3> QED BY <1>3, <3>1
  <2> QED BY <2>1 DEF U32At
<1>7. CASE w.kind = "number"
  BY <1>4, <1>6, <1>7 DEF Holds, Signed
<1>8. CASE w.kind = "float"
  BY <1>4, <1>6, <1>8 DEF Holds
<1>9. CASE w.kind = "string"
  <2>0. w.end = w.at + 2 + Len(w.value)
    BY <1>9 DEF Holds
  <2>1. bytes'[w.at + 1] = bytes[w.at + 1] /\ bytes'[w.at + 2] = bytes[w.at + 2]
    <3>0. w.at + 2 <= Len(bytes)
      BY <1>1, <1>a, <2>0
    <3>1. \A i \in 1..2 : w.at + i \in 1..Len(bytes)
      BY <1>1, <3>0, Inside
    <3> QED BY <1>3, <3>1
  <2>2. ASSUME NEW j \in 1..Len(w.value)
        PROVE  bytes'[w.at + 2 + j] = w.value[j]
    <3>0. w.at + 2 \in Nat /\ (w.at + 2) + Len(w.value) <= Len(bytes)
      BY <1>1, <1>a, <2>0
    <3>1. w.at + 2 + j \in 1..Len(bytes)
      BY <1>1, <3>0, Inside, Zenon
    <3>2. bytes[w.at + 2 + j] = w.value[j]
      BY <1>9 DEF Holds
    <3> QED BY <1>3, <3>1, <3>2
  <2> QED BY <1>4, <1>9, <2>1, <2>2, Zenon DEF Holds
<1>10. CASE w.kind \notin Kinds
  BY <1>10 DEF Items
<1> QED BY <1>5, <1>7, <1>8, <1>9, <1>10 DEF Kinds

(* A value that is written holds where it was written.                     *)
LEMMA NewHolds ==
    ASSUME TypeOK, Next, NEW w \in written', w \notin written
    PROVE  Holds(w)'
<1>0. bytes \in Seq(Byte) /\ Len(bytes) \in Nat
  BY DEF TypeOK
<1>1. ASSUME NEW n \in Numbers, writeByte(n)
      PROVE  Holds(w)'
  <2>1. Writes("byte", <<n % Base>>, <<n % Base>>)
    BY <1>1, Zenon DEF writeByte, Fails
  <2>2. n % Base \in Byte
    BY NumbersAssumption, BaseAssumption, DivMod DEF Byte
  <2>3. w = [kind |-> "byte", value |-> <<n % Base>>, at |-> Len(bytes), end |-> Len(bytes) + 1]
    BY <2>1 DEF Writes
  <2>4. Len(bytes') = Len(bytes) + 1 /\ bytes'[Len(bytes) + 1] = n % Base
    BY <1>0, <2>1, <2>2 DEF Writes
  <2> QED BY <1>0, <2>3, <2>4 DEF Holds
<1>2. ASSUME NEW v \in Int, NEW kind \in {"number", "float"}, NEW value,
             Writes(kind, Digits(v), value),
             value = IF kind = "number" THEN <<Signed(v % Word)>> ELSE <<v % Word>>
      PROVE  Holds(w)'
  <2> DEFINE d == Digits(v)
  <2>1. d \in Seq(Byte) /\ Len(d) = 4
    BY DigitsType
  <2>2. d[1] + Base * (d[2] + Base * (d[3] + Base * d[4])) = v % Word
    BY WordOfDigits
  <2> HIDE DEF d
  <2>3. Writes(kind, d, value)
    BY <1>2 DEF d
  <2>4. w = [kind |-> kind, value |-> value, at |-> Len(bytes), end |-> Len(bytes) + 4]
    BY <2>1, <2>3 DEF Writes
  <2>5. /\ Len(bytes') = Len(bytes) + 4
        /\ bytes'[Len(bytes) + 1] = d[1] /\ bytes'[Len(bytes) + 2] = d[2]
        /\ bytes'[Len(bytes) + 3] = d[3] /\ bytes'[Len(bytes) + 4] = d[4]
    <3>1. bytes' = bytes \o d
      BY <2>3 DEF Writes
    <3>2. Len(bytes \o d) = Len(bytes) + Len(d) /\ \A i \in 1..Len(d) : (bytes \o d)[Len(bytes) + i] = d[i]
      BY <1>0, <2>1, Appended, Zenon
    <3>3. 1 \in 1..Len(d) /\ 2 \in 1..Len(d) /\ 3 \in 1..Len(d) /\ 4 \in 1..Len(d)
      BY <2>1
    <3> QED BY <2>1, <3>1, <3>2, <3>3
  <2>6. U32At(w.at)' = v % Word
    BY <2>2, <2>4, <2>5 DEF U32At
  <2>7. w.end <= Len(bytes')
    BY <1>0, <2>4, <2>5
  <2>8. w.end = w.at + 4 /\ w.kind = kind /\ w.value = value
    BY <2>4
  <2> QED BY <1>2, <2>6, <2>7, <2>8 DEF Holds, Signed
<1>3. ASSUME NEW n \in Numbers, writeNumber(n)
      PROVE  Holds(w)'
  <2>1. Writes("number", Digits(n), <<Signed(n % Word)>>)
    BY <1>3, Zenon DEF writeNumber, Fails
  <2> QED BY <1>2, <2>1, NumbersAssumption
<1>4. ASSUME NEW n \in Numbers, writeFloat(n)
      PROVE  Holds(w)'
  <2>1. Writes("float", Digits(n % Word), <<n % Word>>)
    BY <1>4, Zenon DEF writeFloat, Fails
  <2>2. n % Word \in Int /\ (n % Word) % Word = n % Word
    <3>1. Word \in Nat /\ Word > 1 /\ n \in Int
      BY WordType, NumbersAssumption
    <3>2. n % Word \in 0..(Word - 1)
      BY <3>1, DivMod
    <3>3. (Word * 0 + (n % Word)) % Word = n % Word
      BY <3>1, <3>2, Remainder
    <3> QED BY <3>1, <3>2, <3>3
  <2> QED BY <1>2, <2>1, <2>2
<1>5. ASSUME NEW text \in Texts, writeString(text)
      PROVE  Holds(w)'
  <2>0. text \in Seq(Byte) /\ Len(text) \in Nat
    BY TextsAssumption
  <2> DEFINE h == Len(text) \div Base
             l == Len(text) % Base
             digits == <<h, l>> \o text
  <2>1. Len(text) < Base * Base /\ Writes("string", digits, text)
    BY <1>5, Zenon DEF writeString, Fails
  <2>2. h \in Byte /\ l \in Byte /\ h * Base + l = Len(text)
    BY <2>0, <2>1, LengthDigits
  <2> HIDE DEF h, l
  <2>3. /\ digits \in Seq(Byte) /\ Len(digits) = 2 + Len(text)
        /\ digits[1] = h /\ digits[2] = l
        /\ \A j \in 1..Len(text) : digits[2 + j] = text[j]
    <3> DEFINE head == <<h, l>>
    <3>1. head \in Seq(Byte) /\ Len(head) = 2 /\ head[1] = h /\ head[2] = l
      BY <2>2
    <3> HIDE DEF head
    <3>2. digits = head \o text
      BY DEF head
    <3>3. head \o text \in Seq(Byte)
      BY <2>0, <3>1
    <3> QED BY <2>0, <3>1, <3>2, <3>3, Appended
  <2> HIDE DEF digits
  <2>4. w = [kind |-> "string", value |-> text, at |-> Len(bytes), end |-> Len(bytes) + Len(digits)]
    BY <2>1 DEF Writes
  <2>5. /\ Len(bytes') = Len(bytes) + Len(digits)
        /\ \A i \in 1..Len(digits) : bytes'[Len(bytes) + i] = digits[i]
    BY <1>0, <2>1, <2>3, Appended, Zenon DEF Writes
  <2>6. bytes'[Len(bytes) + 1] = h /\ bytes'[Len(bytes) + 2] = l
    BY <2>0, <2>3, <2>5
  <2>7. ASSUME NEW j \in 1..Len(text)
        PROVE  bytes'[Len(bytes) + 2 + j] = text[j]
    <3>1. 2 + j \in 1..Len(digits) /\ Len(bytes) + (2 + j) = Len(bytes) + 2 + j
      BY <1>0, <2>0, <2>3
    <3> QED BY <2>3, <2>5, <3>1
  <2>8. w.end = w.at + 2 + Len(w.value) /\ w.end <= Len(bytes')
    BY <1>0, <2>0, <2>3, <2>4, <2>5
  <2>9. bytes'[w.at + 1] * Base + bytes'[w.at + 2] = Len(w.value)
    BY <2>2, <2>4, <2>6
  <2>10. \A j \in 1..Len(w.value) : bytes'[w.at + 2 + j] = w.value[j]
    BY <2>4, <2>7
  <2>11. w.kind = "string"
    BY <2>4
  <2> QED BY <2>8, <2>9, <2>10, <2>11 DEF Holds
<1>6. CASE readByte \/ readNumber \/ readFloat \/ readString \/ clear
  BY <1>6, Zenon DEF readByte, readNumber, readFloat, readString, clear, Reads, Fails
<1> QED BY <1>1, <1>3, <1>4, <1>5, <1>6 DEF Next

(* WrittenInv is inductive.                                                *)
LEMMA WrittenStep ==
    ASSUME WrittenInv, [Next]_vars
    PROVE  WrittenInv'
<1>1. TypeOK /\ TypeOK'
  BY StepType DEF WrittenInv
<1> SUFFICES ASSUME NEW w \in written' PROVE Holds(w)'
  BY <1>1 DEF WrittenInv
<1>2. CASE UNCHANGED vars
  BY <1>2, Zenon DEF WrittenInv, vars, Holds, U32At
<1>3. CASE Next /\ w \notin written
  BY <1>1, <1>3, NewHolds
<1>4. CASE Next /\ w \in written
  <2>1. Taken
    BY <1>1, <1>4, EveryCall
  <2>2. w \in Items /\ Holds(w)
    BY <1>4 DEF WrittenInv, TypeOK
  <2>3. ASSUME NEW kind \in Kinds, NEW digits \in Seq(Byte), NEW value \in Seq(Int),
               Writes(kind, digits, value)
        PROVE  Holds(w)'
    BY <1>1, <2>2, <2>3, HoldsAfterWrite DEF Writes
  <2>4. ASSUME UNCHANGED bytes
        PROVE  Holds(w)'
    BY <2>2, <2>4 DEF Holds, U32At
  <2>5. ASSUME NEW kind \in Kinds, NEW size \in Nat, NEW value \in Seq(Int), Reads(kind, size, value)
        PROVE  Holds(w)'
    BY <2>4, <2>5 DEF Reads
  <2>6. ASSUME NEW op \in {"write", "read"}, NEW kind \in Kinds, Fails(op, kind)
        PROVE  Holds(w)'
    BY <2>4, <2>6 DEF Fails
  <2>7. CASE clear
    BY <2>7 DEF clear
  <2> QED BY <2>1, <2>3, <2>5, <2>6, <2>7 DEF Taken
<1> QED BY <1>2, <1>3, <1>4

(* The part of a sequence that agrees with another one is that one.        *)
LEMMA Slice ==
    ASSUME NEW s \in Seq(Int), NEW t \in Seq(Int), NEW p \in Nat, p + Len(t) <= Len(s),
           \A j \in 1..Len(t) : s[p + j] = t[j]
    PROVE  SubSeq(s, p + 1, p + Len(t)) = t
<1> DEFINE u == SubSeq(s, p + 1, p + Len(t))
<1>1. u \in Seq(Int) /\ Len(u) = Len(t)
  OBVIOUS
<1>2. \A j \in 1..Len(t) : u[j] = s[p + j]
  OBVIOUS
<1> HIDE DEF u
<1>3. \A j \in 1..Len(t) : u[j] = t[j]
  BY <1>2
<1>4. u = t
  BY <1>1, <1>3, SeqEqual, Zenon
<1> QED BY <1>4 DEF u

(* A read that starts where a value of its kind was written returns it.    *)
LEMMA ReadsBack ==
    ASSUME WrittenInv, Next, NEW w \in written,
           outcome'.op = "read", outcome'.kind = w.kind, read = w.at
    PROVE  outcome'.ok /\ outcome'.value = w.value /\ read' = w.end
<1>1. /\ w.at \in Nat /\ w.end \in Nat /\ w.value \in Seq(Int) /\ Len(w.value) \in Nat
      /\ bytes \in Seq(Byte) /\ Len(bytes) \in Nat
  BY DEF WrittenInv, TypeOK, Items
<1>2. Holds(w)
  BY DEF WrittenInv
<1>3. w.end <= Len(bytes)
  BY <1>2 DEF Holds
<1>4. CASE readByte
  <2>1. w.kind = "byte"
    BY <1>4 DEF readByte, Reads, Fails, Outcome
  <2>2. w.end = w.at + 1 /\ w.value = <<bytes[w.at + 1]>>
    BY <1>2, <2>1 DEF Holds
  <2>3. Need(1)
    BY <1>1, <1>3, <2>2 DEF Need
  <2> QED BY <1>4, <2>2, <2>3 DEF readByte, Reads, Outcome
<1>5. CASE readNumber
  <2>1. w.kind = "number"
    BY <1>5 DEF readNumber, Reads, Fails, Outcome
  <2>2. w.end = w.at + 4 /\ w.value = <<Signed(U32At(w.at))>>
    BY <1>2, <2>1 DEF Holds
  <2>3. Need(4)
    BY <1>1, <1>3, <2>2 DEF Need
  <2>4. ReadU32 = U32At(w.at)
    BY DEF ReadU32, U32At
  <2> QED BY <1>5, <2>2, <2>3, <2>4 DEF readNumber, Reads, Outcome
<1>6. CASE readFloat
  <2>1. w.kind = "float"
    BY <1>6 DEF readFloat, Reads, Fails, Outcome
  <2>2. w.end = w.at + 4 /\ w.value = <<U32At(w.at)>>
    BY <1>2, <2>1 DEF Holds
  <2>3. Need(4)
    BY <1>1, <1>3, <2>2 DEF Need
  <2>4. ReadU32 = U32At(w.at)
    BY DEF ReadU32, U32At
  <2> QED BY <1>6, <2>2, <2>3, <2>4 DEF readFloat, Reads, Outcome
<1>7. CASE readString
  <2>1. w.kind = "string"
    BY <1>7 DEF readString, Reads, Fails, Outcome
  <2>2. /\ w.end = w.at + 2 + Len(w.value)
        /\ bytes[read + 1] * Base + bytes[read + 2] = Len(w.value)
    BY <1>2, <2>1 DEF Holds
  <2>3. ASSUME NEW j \in 1..Len(w.value)
        PROVE  bytes[read + 2 + j] = w.value[j]
    BY <1>2, <2>1 DEF Holds
  <2>4. Need(2) /\ Need(2 + Len(w.value))
    <3>1. w.end = w.at + 2 + Len(w.value)
      BY <2>2
    <3> QED BY <1>1, <1>3, <3>1 DEF Need
  <2>5. Reads("string", 2 + Len(w.value), SubSeq(bytes, read + 3, read + 2 + Len(w.value)))
    BY <1>7, <2>2, <2>4 DEF readString
  <2>6. read' = w.end
    <3> DEFINE n == Len(w.value)
    <3>1. read' = read + (2 + n)
      BY <2>5 DEF Reads
    <3>2. read \in Int /\ n \in Int /\ w.end = read + 2 + n
      BY <1>1, <2>2
    <3> HIDE DEF n
    <3> QED BY <3>1, <3>2
  <2>7. SubSeq(bytes, read + 3, read + 2 + Len(w.value)) = w.value
    <3> DEFINE p == read + 2
    <3>1. p \in Nat /\ p + Len(w.value) <= Len(bytes)
      BY <1>1, <1>3, <2>2
    <3>2. \A j \in 1..Len(w.value) : bytes[p + j] = w.value[j]
      BY <2>3
    <3>3. bytes \in Seq(Int)
      BY <1>1, BaseAssumption DEF Byte
    <3>4. p + 1 = read + 3
      BY <1>1
    <3> HIDE DEF p
    <3>5. SubSeq(bytes, p + 1, p + Len(w.value)) = w.value
      BY <1>1, <3>1, <3>2, <3>3, Slice
    <3> QED BY <3>4, <3>5 DEF p
  <2> QED BY <2>5, <2>6, <2>7 DEF Reads, Outcome
<1>8. CASE \/ \E n \in Numbers : writeByte(n) \/ writeNumber(n) \/ writeFloat(n)
           \/ \E text \in Texts : writeString(text)
           \/ clear
  <2>1. ASSUME NEW n \in Numbers, writeByte(n) PROVE outcome'.op = "write"
    BY <2>1 DEF writeByte, Writes, Fails, Outcome
  <2>2. ASSUME NEW n \in Numbers, writeNumber(n) PROVE outcome'.op = "write"
    BY <2>2 DEF writeNumber, Writes, Fails, Outcome
  <2>3. ASSUME NEW n \in Numbers, writeFloat(n) PROVE outcome'.op = "write"
    BY <2>3 DEF writeFloat, Writes, Fails, Outcome
  <2>4. ASSUME NEW text \in Texts, writeString(text) PROVE outcome'.op = "write"
    BY <2>4 DEF writeString, Writes, Fails, Outcome
  <2>5. ASSUME clear PROVE outcome'.op = "clear"
    BY <2>5 DEF clear, Outcome
  <2> QED BY <1>8, <2>1, <2>2, <2>3, <2>4, <2>5
<1> QED BY <1>4, <1>5, <1>6, <1>7, <1>8 DEF Next

(***************************************************************************)
(* For every base, limit and sequence of calls, reading the kinds in the   *)
(* order in which they were written returns what was written: the formats  *)
(* of the write functions and of the read functions agree.                 *)
(***************************************************************************)
THEOREM ReadsWhatWasWritten == Spec => RoundTrip
<1>1. Init => WrittenInv
  BY InitType DEF WrittenInv, Init
<1>2. WrittenInv /\ [Next]_vars => WrittenInv'
  BY WrittenStep
<1>3. WrittenInv /\ [Next]_vars
        => [\A w \in written :
               outcome'.op = "read" /\ outcome'.kind = w.kind /\ read = w.at =>
                   outcome'.ok /\ outcome'.value = w.value /\ read' = w.end]_vars
  BY ReadsBack
<1> QED BY <1>1, <1>2, <1>3, PTL DEF Spec, RoundTrip

-----------------------------------------------------------------------------
(***************************************************************************)
(* Startup: the libraries.                                                 *)
(***************************************************************************)
AllLibs == {"openssl", "curl", "mysql"}

\* What is up at each place of Init and of the clean-up, and that only a plugin
\* that is idle runs.
LibsAt ==
    /\ pc \in {"idle", "openssl"} /\ ~Start!Running => libs = {}
    /\ pc = "curl" => libs = {"openssl"}
    /\ pc = "mysql" => libs = {"openssl", "curl"}
    /\ pc \in {"digest", "info", "config", "runtime"} => libs = AllLibs
    /\ pc = "cleanup_curl" => "mysql" \notin libs
    /\ pc = "cleanup_openssl" => libs \subseteq {"openssl"}
    /\ Start!Running => pc = "idle" /\ libs = AllLibs

LibsInv ==
    /\ pc \in {"idle", "openssl", "curl", "mysql", "digest", "info", "config", "runtime",
               "cleanup_mysql", "cleanup_curl", "cleanup_openssl"}
    /\ openssl \in {"new", "up", "gone"}
    /\ libs \subseteq AllLibs
    /\ "openssl" \in libs <=> openssl = "up"
    /\ libs \cap {"curl", "mysql"} # {} => "openssl" \in libs
    /\ LibsAt

\* A config that was read is told apart from no runtime by its level.
LEMMA ConfigHasLevel ==
    ASSUME NEW t PROVE Start!ReadConfig(t) # Start!NoRuntime
<1>1. Start!DefaultLevel \in Levels
  BY SettingsAssumption DEF Start!DefaultLevel
<1>2. Start!ReadConfig(t).level # Missing
  BY <1>1, SettingsAssumption DEF Start!ReadConfig, Start!Set
<1> QED BY <1>2 DEF Start!NoRuntime

\* At the start no library is up.
LEMMA LibsInit == Start!Init => LibsInv
  BY DEF Start!Init, LibsInv, LibsAt, AllLibs, Start!Running

\* Every step keeps the libraries in step with the place where Init is.
LEMMA LibsStep == LibsInv /\ [Start!Next]_(Start!vars) => LibsInv'
<1> SUFFICES ASSUME LibsInv, [Start!Next]_(Start!vars) PROVE LibsInv'
  OBVIOUS
<1> USE DEF LibsInv, LibsAt, AllLibs, Start!Running, Start!Others, Start!Fails
<1>1. CASE Start!InitOpenSSL
  BY <1>1, Zenon DEF Start!InitOpenSSL
<1>2. CASE Start!InitLibrary("curl", "curl", "mysql")
  BY <1>2 DEF Start!InitLibrary
<1>3. CASE Start!InitLibrary("mysql", "mysql", "digest")
  BY <1>3 DEF Start!InitLibrary
<1>4. CASE Start!CheckDigestpp
  BY <1>4 DEF Start!CheckDigestpp
<1>5. ASSUME NEW i \in 1..3, Start!Cleanup(i) PROVE LibsInv'
  <2>1. CASE i = 1
    BY <1>5, <2>1 DEF Start!Cleanup, Start!CleanupAt, Start!CleanupSteps
  <2>2. CASE i = 2
    BY <1>5, <2>2 DEF Start!Cleanup, Start!CleanupAt, Start!CleanupSteps
  <2>3. CASE i = 3
    BY <1>5, <2>3 DEF Start!Cleanup, Start!CleanupAt, Start!CleanupSteps
  <2> QED BY <2>1, <2>2, <2>3
<1>6. ASSUME NEW size \in 0..(FieldCount * Width), Start!Begin(size) PROVE LibsInv'
  BY <1>6 DEF Start!Begin
<1>7. CASE Start!CheckRequired
  BY <1>7 DEF Start!CheckRequired
<1>8. ASSUME NEW opens \in BOOLEAN, Start!StartConfig(opens) PROVE LibsInv'
  BY <1>8 DEF Start!StartConfig
<1>9. ASSUME NEW ok \in BOOLEAN, Start!MakeRuntime(ok) PROVE LibsInv'
  BY <1>9, ConfigHasLevel DEF Start!MakeRuntime
<1>10. ASSUME NEW ok \in BOOLEAN, NEW opens \in BOOLEAN, Start!Reload(ok, opens) PROVE LibsInv'
  BY <1>10, ConfigHasLevel DEF Start!Reload
<1>11. CASE Start!FinishShutdown
  BY <1>11 DEF Start!FinishShutdown
<1>12. CASE Start!Refuse
  BY <1>12 DEF Start!Refuse
<1>13. ASSUME NEW level \in Levels, Start!SetLevel(level) PROVE LibsInv'
  BY <1>13 DEF Start!SetLevel
<1>14. CASE Start!Edit
  BY <1>14 DEF Start!Edit
<1>15. CASE UNCHANGED Start!vars
  BY <1>15 DEF Start!vars
<1> QED
  BY <1>1, <1>2, <1>3, <1>4, <1>5, <1>6, <1>7, <1>8, <1>9, <1>10, <1>11, <1>12, <1>13, <1>14, <1>15, Zenon
  DEF Start!Next

(***************************************************************************)
(* OpenSSL is up whenever libcurl or MariaDB Connector/C is, and between   *)
(* calls all libraries are up exactly if the plugin runs, whichever step   *)
(* of VcmpPluginInit failed.                                               *)
(***************************************************************************)
THEOREM LibrariesInStep == Start!Spec => []LibrariesUpWhileRunning
<1>1. LibsInv => LibrariesUpWhileRunning
  BY DEF LibsInv, LibsAt, AllLibs, LibrariesUpWhileRunning, Start!LibrariesUpWhileRunning
<1> QED BY <1>1, LibsInit, LibsStep, PTL DEF Start!Spec

-----------------------------------------------------------------------------
(***************************************************************************)
(* Startup: the callbacks that the server gets.                            *)
(***************************************************************************)
Starting == {"openssl", "curl", "mysql", "digest", "info", "config", "runtime"}

\* A start in progress has installed nothing; past the check of the struct the
\* required fields fit.
InstalledInv ==
    /\ room \in Nat
    /\ installed # {} => returned = 1
    /\ installed \subseteq 0..(room - 1)
    /\ Start!Running => \A f \in Start!Required : Start!BytesOf(f) \subseteq installed
    /\ pc \in Starting => installed = {} /\ ~Start!Running
    /\ pc \in {"config", "runtime"} =>
            \A f \in Start!Required : Start!FieldFits(room, Start!Offset(f))

\* A field that fits ends inside the struct.
LEMMA FitsInside ==
    ASSUME NEW size \in Nat, NEW f \in 1..FieldCount, Start!FieldFits(size, Start!Offset(f))
    PROVE  Start!BytesOf(f) \subseteq 0..(size - 1)
<1> DEFINE o == Start!Offset(f)
<1>1. o \in Nat
  BY StructAssumption DEF Start!Offset
<1>2. o <= size /\ Width <= (size - o) % Modulus
  BY DEF Start!FieldFits
<1>3. ASSUME NEW a \in Nat, NEW m \in Nat \ {0} PROVE a % m <= a
  OBVIOUS
<1>4. Modulus \in Nat \ {0} /\ Width \in Nat
  BY StructAssumption
<1>5. (size - o) % Modulus <= size - o
  BY <1>1, <1>2, <1>3, <1>4
<1> HIDE DEF o
<1>6. o + Width <= size
  BY <1>1, <1>2, <1>4, <1>5
<1>7. Start!BytesOf(f) = o..(o + Width - 1)
  BY DEF Start!BytesOf, o
<1> QED BY <1>1, <1>4, <1>6, <1>7

\* At the start nothing is installed.
LEMMA InstalledInit == Start!Init => InstalledInv
  BY DEF Start!Init, InstalledInv, Starting, Start!Running

\* Init writes the callbacks as its last step, and nothing else writes.
LEMMA InstalledStep == InstalledInv /\ [Start!Next]_(Start!vars) => InstalledInv'
<1> SUFFICES ASSUME InstalledInv, [Start!Next]_(Start!vars) PROVE InstalledInv'
  OBVIOUS
<1> USE DEF InstalledInv, Starting, Start!Running, Start!Others, Start!Fails
<1>1. CASE Start!InitOpenSSL
  BY <1>1 DEF Start!InitOpenSSL
<1>2. CASE Start!InitLibrary("curl", "curl", "mysql")
  BY <1>2 DEF Start!InitLibrary
<1>3. CASE Start!InitLibrary("mysql", "mysql", "digest")
  BY <1>3 DEF Start!InitLibrary
<1>4. CASE Start!CheckDigestpp
  BY <1>4 DEF Start!CheckDigestpp
<1>5. ASSUME NEW i \in 1..3, Start!Cleanup(i) PROVE InstalledInv'
  <2>1. CASE i = 1
    BY <1>5, <2>1 DEF Start!Cleanup, Start!CleanupAt
  <2>2. CASE i = 2
    BY <1>5, <2>2 DEF Start!Cleanup, Start!CleanupAt
  <2>3. CASE i = 3
    BY <1>5, <2>3 DEF Start!Cleanup, Start!CleanupAt
  <2> QED BY <2>1, <2>2, <2>3
<1>6. ASSUME NEW size \in 0..(FieldCount * Width), Start!Begin(size) PROVE InstalledInv'
  <2>1. size \in Nat
    BY StructAssumption
  <2> QED BY <1>6, <2>1 DEF Start!Begin
<1>7. CASE Start!CheckRequired
  BY <1>7 DEF Start!CheckRequired
<1>8. ASSUME NEW opens \in BOOLEAN, Start!StartConfig(opens) PROVE InstalledInv'
  BY <1>8 DEF Start!StartConfig
<1>9. ASSUME NEW ok \in BOOLEAN, Start!MakeRuntime(ok) PROVE InstalledInv'
  <2>1. CASE ~ok
    BY <1>9, <2>1, Zenon DEF Start!MakeRuntime
  <2>2. CASE ok
    <3>1. installed' = Start!Installed /\ returned' = 1 /\ pc' = "idle" /\ room' = room
      BY <1>9, <2>2 DEF Start!MakeRuntime
    <3>2. Start!Installed \subseteq 0..(room - 1)
      BY FitsInside DEF Start!Installed
    <3>3. \A f \in Start!Required : f \in 1..FieldCount /\ Start!FieldFits(room, Start!Offset(f))
      BY <1>9, StructAssumption DEF Start!MakeRuntime, Start!Required
    <3>4. \A f \in Start!Required : Start!BytesOf(f) \subseteq Start!Installed
      BY <3>3 DEF Start!Installed
    <3> QED BY <3>1, <3>2, <3>4
  <2> QED BY <2>1, <2>2
<1>10. ASSUME NEW ok \in BOOLEAN, NEW opens \in BOOLEAN, Start!Reload(ok, opens) PROVE InstalledInv'
  BY <1>10 DEF Start!Reload
<1>11. CASE Start!FinishShutdown
  BY <1>11 DEF Start!FinishShutdown
<1>12. CASE Start!Refuse
  BY <1>12 DEF Start!Refuse
<1>13. ASSUME NEW level \in Levels, Start!SetLevel(level) PROVE InstalledInv'
  BY <1>13 DEF Start!SetLevel
<1>14. CASE Start!Edit
  BY <1>14 DEF Start!Edit
<1>15. CASE UNCHANGED Start!vars
  BY <1>15 DEF Start!vars
<1> QED
  BY <1>1, <1>2, <1>3, <1>4, <1>5, <1>6, <1>7, <1>8, <1>9, <1>10, <1>11, <1>12, <1>13, <1>14, <1>15, Zenon
  DEF Start!Next

(***************************************************************************)
(* Whatever size of struct the server passes, VcmpPluginInit writes only   *)
(* inside it, only when everything that can fail has succeeded, and then   *)
(* the callbacks that the plugin needs.                                    *)
(***************************************************************************)
THEOREM CallbacksInStruct == Start!Spec => []CallbacksOfStartedPlugin
<1>1. InstalledInv => CallbacksOfStartedPlugin
  BY DEF InstalledInv, CallbacksOfStartedPlugin, Start!CallbacksOfStartedPlugin
<1> QED BY <1>1, InstalledInit, InstalledStep, PTL DEF Start!Spec

-----------------------------------------------------------------------------
(***************************************************************************)
(* Startup: the configuration.                                             *)
(***************************************************************************)
\* Between the log and the runtime of one start, the log is that of the file,
\* and the file was right.
ConfigInv ==
    /\ file \in Start!Contents
    /\ log = [level |-> log.level, sink |-> log.sink]
    /\ pc = "runtime" =>
        /\ Start!Loads(file)
        /\ log.level = Start!Set(file.table.level, Start!DefaultLevel)
        /\ log.sink \in Start!LogOf(file.table)

\* A file that loads has no wrong setting.
LEMMA LoadsRight ==
    ASSUME NEW f \in Start!Contents, Start!Loads(f)
    PROVE  f.ends /\ ~Start!Wrong(f.table)
<1>1. f.ends /\ f.table \in Start!Tables
  BY Zenon DEF Start!Contents, Start!Loads
<1>2. DOMAIN f.table = {"level", "file", "daily", "other"}
  BY <1>1 DEF Start!Tables
<1> QED BY <1>1, <1>2 DEF Start!Loads, Start!Valid, Start!Wrong

\* What Configure makes of a config that was read from a right table.
LEMMA ConfiguredLog ==
    ASSUME NEW t, NEW opens, Start!Configure(Start!ReadConfig(t), opens)
    PROVE  /\ log' = [level |-> log'.level, sink |-> log'.sink]
           /\ log'.level = Start!Set(t.level, Start!DefaultLevel)
           /\ log'.sink \in Start!LogOf(t)
<1> DEFINE c == Start!ReadConfig(t)
<1>1. /\ c.level = Start!Set(t.level, Start!DefaultLevel)
      /\ c.file = Start!Set(t.file, Missing)
      /\ c.daily = Start!Set(t.daily, FALSE)
  BY Zenon DEF Start!ReadConfig
<1> HIDE DEF c
<1>2. log' = [level |-> c.level,
              sink |-> IF c.file # Missing /\ opens THEN [file |-> c.file, daily |-> c.daily]
                       ELSE Start!NoSink]
  BY DEF Start!Configure, c
<1>3. c.file # Missing => c.file = t.file
  BY <1>1 DEF Start!Set
<1> QED BY <1>1, <1>2, <1>3, Zenon DEF Start!LogOf

\* At the start Init is not there yet.
LEMMA ConfigInit == Start!Init => ConfigInv
  BY DEF Start!Init, ConfigInv

\* The file changes between calls only, so a start uses one content of it.
LEMMA ConfigStep == ConfigInv /\ [Start!Next]_(Start!vars) => ConfigInv'
<1> SUFFICES ASSUME ConfigInv, [Start!Next]_(Start!vars) PROVE ConfigInv'
  OBVIOUS
<1> USE DEF ConfigInv, Start!Others, Start!Fails
<1>1. CASE Start!InitOpenSSL
  BY <1>1 DEF Start!InitOpenSSL
<1>2. CASE Start!InitLibrary("curl", "curl", "mysql")
  BY <1>2 DEF Start!InitLibrary
<1>3. CASE Start!InitLibrary("mysql", "mysql", "digest")
  BY <1>3 DEF Start!InitLibrary
<1>4. CASE Start!CheckDigestpp
  BY <1>4 DEF Start!CheckDigestpp
<1>5. ASSUME NEW i \in 1..3, Start!Cleanup(i) PROVE ConfigInv'
  <2>1. file' = file /\ log' = log /\ pc' # "runtime"
    BY <1>5 DEF Start!Cleanup, Start!CleanupAt
  <2> QED BY <2>1
<1>6. ASSUME NEW size \in 0..(FieldCount * Width), Start!Begin(size) PROVE ConfigInv'
  BY <1>6 DEF Start!Begin
<1>7. CASE Start!CheckRequired
  BY <1>7 DEF Start!CheckRequired
<1>8. ASSUME NEW opens \in BOOLEAN, Start!StartConfig(opens) PROVE ConfigInv'
  <2>1. CASE Start!Loads(file)
    BY <1>8, <2>1, ConfiguredLog DEF Start!StartConfig
  <2>2. CASE ~Start!Loads(file)
    BY <1>8, <2>2 DEF Start!StartConfig
  <2> QED BY <2>1, <2>2
<1>9. ASSUME NEW ok \in BOOLEAN, Start!MakeRuntime(ok) PROVE ConfigInv'
  BY <1>9 DEF Start!MakeRuntime
<1>10. ASSUME NEW ok \in BOOLEAN, NEW opens \in BOOLEAN, Start!Reload(ok, opens) PROVE ConfigInv'
  BY <1>10, ConfiguredLog DEF Start!Reload
<1>11. CASE Start!FinishShutdown
  BY <1>11 DEF Start!FinishShutdown
<1>12. CASE Start!Refuse
  BY <1>12 DEF Start!Refuse
<1>13. ASSUME NEW level \in Levels, Start!SetLevel(level) PROVE ConfigInv'
  <2>1. log' = [level |-> level, sink |-> log.sink]
    BY <1>13 DEF Start!SetLevel
  <2> QED BY <1>13, <2>1 DEF Start!SetLevel
<1>14. CASE Start!Edit
  BY <1>14 DEF Start!Edit
<1>15. CASE UNCHANGED Start!vars
  BY <1>15 DEF Start!vars
<1> QED
  BY <1>1, <1>2, <1>3, <1>4, <1>5, <1>6, <1>7, <1>8, <1>9, <1>10, <1>11, <1>12, <1>13, <1>14, <1>15, Zenon
  DEF Start!Next

\* What is read from a file that loads is what it asks for.
LEMMA ReadIsAsked ==
    ASSUME NEW f \in Start!Contents, Start!Loads(f)
    PROVE  Start!ReadConfig(f.table) = Start!Asked(f.table)
<1>1. ~Start!Wrong(f.table)
  BY LoadsRight
<1>2. f.table.file # Invalid
  BY <1>1, Zenon DEF Start!Wrong
<1>3. Start!Set(f.table.file, Missing) = f.table.file
  BY <1>2, Zenon DEF Start!Set
<1> QED BY <1>3, Zenon DEF Start!ReadConfig, Start!Asked

\* So the log and the runtime that are made from it have it in force.
LEMMA MadeInForce ==
    ASSUME NEW f \in Start!Contents, Start!Loads(f), runtime' = Start!ReadConfig(f.table),
           log'.level = Start!Set(f.table.level, Start!DefaultLevel), log'.sink \in Start!LogOf(f.table)
    PROVE  Start!InForce(f.table)
<1>1. Start!Asked(f.table).level = Start!Set(f.table.level, Start!DefaultLevel)
  BY Zenon DEF Start!Asked
<1> QED BY <1>1, ReadIsAsked, Zenon DEF Start!InForce

\* The action of ConfigAppliedWhole.
AppliedWhole ==
    /\ made' # made => Start!InForce(file.table)
    /\ ~file.ends \/ Start!Wrong(file.table) =>
            /\ made' = made /\ runtime' \in {runtime, Start!NoRuntime}
            /\ log' # log => \E level \in Levels : Start!SetLevel(level)

\* Only the steps that load the file change the runtime or the sink.
LEMMA AppliedStep == ConfigInv /\ [Start!Next]_(Start!vars) => [AppliedWhole]_(Start!vars)
<1> SUFFICES ASSUME ConfigInv, Start!Next PROVE AppliedWhole
  OBVIOUS
<1>1. CASE runtime' = runtime /\ made' = made /\ log' = log
  BY <1>1, Zenon DEF AppliedWhole
<1>2. file \in Start!Contents
  BY Zenon DEF ConfigInv
<1>3. Start!Loads(file) => file.ends /\ ~Start!Wrong(file.table)
  BY <1>2, LoadsRight
<1>4. ASSUME NEW opens \in BOOLEAN, Start!StartConfig(opens) PROVE AppliedWhole
  <2>1. CASE Start!Loads(file)
    BY <1>3, <1>4, <2>1, Zenon DEF Start!StartConfig, AppliedWhole
  <2>2. CASE ~Start!Loads(file)
    BY <1>1, <1>4, <2>2, Zenon DEF Start!StartConfig
  <2> QED BY <2>1, <2>2
<1>5. ASSUME NEW ok \in BOOLEAN, Start!MakeRuntime(ok) PROVE AppliedWhole
  <2>1. /\ Start!Loads(file) /\ log' = log
        /\ log.level = Start!Set(file.table.level, Start!DefaultLevel)
        /\ log.sink \in Start!LogOf(file.table)
    BY <1>5, Zenon DEF Start!MakeRuntime, ConfigInv
  <2>2. CASE ok
    <3>1. runtime' = Start!ReadConfig(file.table)
      BY <1>5, <2>2, Zenon DEF Start!MakeRuntime
    <3>2. Start!InForce(file.table)
      BY <1>2, <2>1, <3>1, MadeInForce
    <3> QED BY <1>3, <2>1, <3>2, Zenon DEF AppliedWhole
  <2>3. CASE ~ok
    BY <1>1, <1>5, <2>1, <2>3, Zenon DEF Start!MakeRuntime
  <2> QED BY <2>2, <2>3
<1>6. ASSUME NEW ok \in BOOLEAN, NEW opens \in BOOLEAN, Start!Reload(ok, opens) PROVE AppliedWhole
  <2>1. CASE Start!Loads(file) /\ ok
    <3>1. runtime' = Start!ReadConfig(file.table) /\ Start!Configure(Start!ReadConfig(file.table), opens)
      BY <1>6, <2>1, Zenon DEF Start!Reload
    <3>2. /\ log'.level = Start!Set(file.table.level, Start!DefaultLevel)
          /\ log'.sink \in Start!LogOf(file.table)
      BY <3>1, ConfiguredLog
    <3>3. Start!InForce(file.table)
      BY <1>2, <2>1, <3>1, <3>2, MadeInForce
    <3> QED BY <1>3, <2>1, <3>3, Zenon DEF AppliedWhole
  <2>2. CASE ~(Start!Loads(file) /\ ok)
    BY <1>1, <1>6, <2>2, Zenon DEF Start!Reload
  <2> QED BY <2>1, <2>2
<1>7. CASE Start!FinishShutdown
  BY <1>7, Zenon DEF Start!FinishShutdown, AppliedWhole
<1>8. ASSUME NEW level \in Levels, Start!SetLevel(level) PROVE AppliedWhole
  <2>1. made' = made /\ runtime' = runtime
    BY <1>8, Zenon DEF Start!SetLevel
  <2> QED BY <1>8, <2>1, Zenon DEF AppliedWhole
<1> QED
  BY <1>1, <1>4, <1>5, <1>6, <1>7, <1>8, Zenon
  DEF Start!Next, Start!Refuse, Start!Begin, Start!InitOpenSSL, Start!InitLibrary, Start!CheckDigestpp,
      Start!CheckRequired, Start!Cleanup, Start!Edit, Start!Others

(***************************************************************************)
(* A start or a reload applies luaconfig.lua as a whole to the runtime and *)
(* to the log, also if the file is as it was; with a wrong setting         *)
(* anywhere nothing of it, and only Logger.setLevel changes the level.     *)
(***************************************************************************)
THEOREM ConfigWhole == Start!Spec => ConfigAppliedWhole
<1>1. ConfigAppliedWhole <=> [][AppliedWhole]_(Start!vars)
  BY PTL DEF ConfigAppliedWhole, Start!ConfigAppliedWhole, AppliedWhole
<1> QED BY <1>1, ConfigInit, ConfigStep, AppliedStep, PTL DEF Start!Spec
=============================================================================
