---------------------- MODULE PoolsAndMessagesProofs ----------------------
(***************************************************************************)
(* Proofs about Command, for every message, and about EntityPool, for      *)
(* every pool size, every nesting depth and every number of entities.      *)
(* Command and EntityPool have no name in common.                          *)
(***************************************************************************)
EXTENDS EntityPool, Command, SequenceTheorems, WellFoundedInduction, TLAPS

-----------------------------------------------------------------------------
\* Messages of players.

\* One number more, larger than the others.
More(f, m, x) == [k \in 1..(m + 1) |-> IF k <= m THEN f[k] ELSE x]

\* A larger number goes to the end.
LEMMA MoreListed ==
    ASSUME NEW S, NEW m \in Nat, NEW f \in [1..m -> S], Lists(f, S), NEW x, \A i \in S : i < x
    PROVE  Lists(More(f, m, x), S \cup {x})
<1> DEFINE g == More(f, m, x)
<1>1. DOMAIN g = 1..(m + 1) /\ (\A k \in 1..m : g[k] = f[k]) /\ g[m + 1] = x
  BY DEF More
<1> HIDE DEF g
<1>3. ASSUME NEW a \in 1..(m + 1), NEW b \in 1..(m + 1), a < b PROVE g[a] < g[b]
  <2>1. a \in 1..m /\ g[a] = f[a] /\ f[a] \in S
    BY <1>1, <1>3
  <2>2. CASE b = m + 1
    BY <1>1, <2>1, <2>2
  <2>3. CASE b # m + 1
    <3>1. b \in 1..m /\ g[b] = f[b]
      BY <1>1, <2>3
    <3> QED BY <1>3, <2>1, <3>1 DEF Lists
  <2> QED BY <2>2, <2>3
<1>4. ASSUME NEW i \in S \cup {x} PROVE \E n \in 1..(m + 1) : g[n] = i
  <2>1. CASE i = x
    BY <1>1, <2>1
  <2>2. CASE i \in S
    <3>1. PICK n \in 1..m : f[n] = i
      BY <2>2 DEF Lists
    <3>2. n \in 1..(m + 1) /\ g[n] = i
      BY <1>1, <3>1
    <3> QED BY <3>2
  <2> QED BY <2>1, <2>2
<1>5. Lists(g, S \cup {x})
  BY <1>1, <1>3, <1>4 DEF Lists
<1> QED BY <1>5 DEF g

\* A set of natural numbers has a least one.
LEMMA LeastExists ==
    ASSUME NEW T, T \subseteq Nat, T # {}
    PROVE  \E x \in T : \A y \in T : x <= y
<1> DEFINE R == OpToRel(<, Nat)
<1>1. IsWellFoundedOn(R, Nat)
  BY NatLessThanWellFounded, Zenon
<1> HIDE DEF R
<1>2. PICK x \in T : \A y \in T : <<y, x>> \notin R
  BY <1>1, WFMin, Zenon
<1>3. \A y \in T : y < x => <<y, x>> \in R
  BY DEF R, OpToRel
<1>4. ASSUME NEW y \in T PROVE x <= y
  <2>1. ~(y < x)
    BY <1>2, <1>3, Zenon
  <2> QED BY <2>1
<1> QED BY <1>4

\* find: Size when there is none, and the first one otherwise.
LEMMA FirstIs ==
    ASSUME NEW hits, hits \subseteq Nat
    PROVE  /\ hits = {} => First(hits) = Size
           /\ hits # {} => First(hits) \in hits /\ \A j \in hits : First(hits) <= j
<1>1. CASE hits = {}
  BY <1>1 DEF First
<1>2. CASE hits # {}
  <2>1. \E i \in hits : \A j \in hits : i <= j
    BY <1>2, LeastExists, Zenon
  <2>2. First(hits) = CHOOSE i \in hits : \A j \in hits : i <= j
    BY <1>2, Zenon DEF First
  <2> QED BY <1>2, <2>1, <2>2, Zenon
<1> QED BY <1>1, <1>2

Characters == Letters \cup {Space}

\* Where the loop finds the next word.
LEMMA FindWordIs ==
    ASSUME text \in Seq(Characters), NEW from \in Nat, from <= Len(text)
    PROVE  LET start == FindWord(from)
           IN  /\ start \in from..Len(text)
               /\ start < Len(text) => text[start + 1] # Space
               /\ \A i \in (from + 1)..start : text[i] = Space
<1> DEFINE hits == {i \in from..(Len(text) - 1) : text[i + 1] # Space}
           start == First(hits)
<1>1. FindWord(from) = start /\ Size = Len(text) /\ Len(text) \in Nat
  BY DEF FindWord, At, Size
<1>2. hits \subseteq Nat
  BY <1>1
<1>3. /\ hits = {} => start = Len(text)
      /\ hits # {} => start \in hits /\ \A j \in hits : start <= j
  <2> HIDE DEF hits
  <2> QED BY <1>1, <1>2, FirstIs, Zenon
<1> HIDE DEF start
<1>4. ASSUME NEW i \in (from + 1)..start PROVE text[i] = Space
  <2>1. start \in from..Len(text)
    BY <1>1, <1>3
  <2>2. i - 1 \in from..(Len(text) - 1) /\ i - 1 < start /\ (i - 1) + 1 = i
    BY <1>1, <2>1
  <2>3. i - 1 \notin hits
    <3> HIDE DEF hits
    <3>1. ASSUME i - 1 \in hits PROVE FALSE
      <4>1. start <= i - 1
        BY <1>3, <3>1
      <4> QED BY <1>1, <2>1, <2>2, <4>1
    <3> QED BY <3>1
  <2> QED BY <2>2, <2>3
<1>5. start \in from..Len(text)
  BY <1>1, <1>3
<1>6. ASSUME start < Len(text) PROVE text[start + 1] # Space
  <2>1. hits # {}
    BY <1>1, <1>3, <1>6
  <2> QED BY <1>3, <2>1
<1> QED BY <1>1, <1>4, <1>5, <1>6

\* Where that word ends.
LEMMA FindSpaceIs ==
    ASSUME text \in Seq(Characters), NEW from \in Nat, from <= Len(text)
    PROVE  LET end == FindSpace(from)
           IN  /\ end \in from..Len(text)
               /\ end < Len(text) => text[end + 1] = Space
               /\ \A i \in (from + 1)..end : text[i] # Space
<1> DEFINE hits == {i \in from..(Len(text) - 1) : text[i + 1] = Space}
           end == First(hits)
<1>1. FindSpace(from) = end /\ Size = Len(text) /\ Len(text) \in Nat
  BY DEF FindSpace, At, Size
<1>2. hits \subseteq Nat
  BY <1>1
<1>3. /\ hits = {} => end = Len(text)
      /\ hits # {} => end \in hits /\ \A j \in hits : end <= j
  <2> HIDE DEF hits
  <2> QED BY <1>1, <1>2, FirstIs, Zenon
<1> HIDE DEF end
<1>4. ASSUME NEW i \in (from + 1)..end PROVE text[i] # Space
  <2>1. end \in from..Len(text)
    BY <1>1, <1>3
  <2>2. i - 1 \in from..(Len(text) - 1) /\ i - 1 < end /\ (i - 1) + 1 = i
    BY <1>1, <2>1
  <2>3. i - 1 \notin hits
    <3> HIDE DEF hits
    <3>1. ASSUME i - 1 \in hits PROVE FALSE
      <4>1. end <= i - 1
        BY <1>3, <3>1
      <4> QED BY <1>1, <2>1, <2>2, <4>1
    <3> QED BY <3>1
  <2> QED BY <2>2, <2>3
<1>5. end \in from..Len(text)
  BY <1>1, <1>3
<1>6. ASSUME end < Len(text) PROVE text[end + 1] = Space
  <2>1. hits # {}
    BY <1>1, <1>3, <1>6
  <2> QED BY <1>3, <2>1
<1> QED BY <1>1, <1>4, <1>5, <1>6

\* From its first letter to the last before a space, or to the end.
LEMMA WordAtIs ==
    ASSUME text \in Seq(Characters), NEW i \in 1..Len(text), NEW j \in i..Len(text),
           \A k \in i..j : text[k] # Space, j = Len(text) \/ text[j + 1] = Space
    PROVE  WordAt(i) = SubSeq(text, i, j)
<1> DEFINE Ends(e) == (\A k \in i..e : text[k] # Space) /\ (e = Len(text) \/ text[e + 1] = Space)
           e == CHOOSE e \in i..Len(text) : Ends(e)
<1>0. Len(text) \in Nat
  OBVIOUS
<1>1. WordAt(i) = SubSeq(text, i, e)
  BY DEF WordAt, Size
<1>2. e \in i..Len(text) /\ Ends(e)
  <2>1. Ends(j)
    OBVIOUS
  <2> HIDE DEF Ends
  <2> QED BY <2>1
<1> HIDE DEF e
<1>3. CASE e < j
  <2>1. e + 1 \in i..j /\ e # Len(text)
    BY <1>0, <1>2, <1>3
  <2> QED BY <1>2, <2>1
<1>4. CASE e > j
  <2>1. j + 1 \in i..e /\ j # Len(text)
    BY <1>0, <1>2, <1>4
  <2> QED BY <1>2, <2>1
<1>5. CASE e = j
  BY <1>1, <1>5
<1> QED BY <1>0, <1>2, <1>3, <1>4, <1>5

\* Where the words up to pos begin, the word at each place, and what a word is.
Found == {i \in Begins : i <= pos}
WordsAt == [i \in 1..Len(text) |-> WordAt(i)]
Parts == {SubSeq(text, i, j) : i \in 1..Len(text), j \in 1..Len(text)}

\* The loop has the words up to pos, which is not within a word, and rest is
\* where the second of them begins.
LoopInv ==
    /\ text \in Seq(Characters)
    /\ pos \in 0..Len(text)
    /\ pos = 0 \/ pos = Len(text) \/ text[pos + 1] = Space
    /\ words \in Seq(Parts) /\ Len(words) <= pos
    /\ \E begin \in [1..Len(words) -> Found] :
        /\ Lists(begin, Found)
        /\ \A k \in 1..Len(words) : words[k] = WordsAt[begin[k]]
        /\ rest = IF Len(words) < 2 THEN Len(text) ELSE begin[2] - 1

\* The event is right when it is there.
CommandInv == LoopInv /\ SplitAsDocumented

\* A message of any characters.
LEMMA CommandStarts == CommandInit => CommandInv
<1> SUFFICES ASSUME CommandInit PROVE CommandInv
  OBVIOUS
<1>1. text \in Seq(Characters)
  BY DEF CommandInit, Characters
<1>2. /\ pos = 0 /\ words = <<>> /\ rest = Len(text) /\ ~event.emitted
      /\ Len(text) \in Nat /\ Len(words) = 0 /\ words \in Seq(Parts)
  BY <1>1 DEF CommandInit, Size, None
<1>3. Found = {} /\ 1..0 = {}
  BY <1>2 DEF Found, Begins, Size
<1> DEFINE begin == <<>>
<1>4. begin \in [1..Len(words) -> Found] /\ Lists(begin, Found)
  BY <1>2, <1>3 DEF Lists
<1>5. \A k \in 1..Len(words) : words[k] = WordsAt[begin[k]]
  BY <1>2, <1>3
<1>6. rest = IF Len(words) < 2 THEN Len(text) ELSE begin[2] - 1
  BY <1>2
<1> HIDE DEF begin
<1>7. LoopInv
  <2>1. \E b \in [1..Len(words) -> Found] :
          /\ Lists(b, Found)
          /\ \A k \in 1..Len(words) : words[k] = WordsAt[b[k]]
          /\ rest = IF Len(words) < 2 THEN Len(text) ELSE b[2] - 1
    BY <1>4, <1>5, <1>6
  <2>2. pos \in 0..Len(text) /\ Len(words) <= pos
    BY <1>2
  <2> QED BY <1>1, <1>2, <2>1, <2>2, Zenon DEF LoopInv
<1> QED BY <1>2, <1>7 DEF CommandInv, SplitAsDocumented

\* One turn of the loop takes the next word, and skips none.
LEMMA WordStep ==
    ASSUME LoopInv, Word
    PROVE  LoopInv'
<1> DEFINE start == FindWord(pos)
           end == FindSpace(start)
           m == Len(words)
           word == SubSeq(text, start + 1, end)
<1>1. /\ pos < Len(text) /\ start < Len(text)
      /\ rest' = IF m = 1 THEN start ELSE rest
      /\ words' = Append(words, Substr(start, end - start))
      /\ pos' = end /\ text' = text
  BY DEF Word, Size
<1>2. text \in Seq(Characters) /\ Len(text) \in Nat /\ pos \in 0..Len(text) /\ m \in Nat /\ m <= pos
  BY DEF LoopInv
<1>3. /\ start \in pos..Len(text) /\ start \in Nat /\ text[start + 1] # Space
      /\ \A i \in (pos + 1)..start : text[i] = Space
  BY <1>1, <1>2, FindWordIs
<1> HIDE DEF start
<1>4. /\ end \in start..Len(text) /\ end \in Nat
      /\ end < Len(text) => text[end + 1] = Space
      /\ \A i \in (start + 1)..end : text[i] # Space
  <2>1. text \in Seq(Characters) /\ start \in Nat /\ start <= Len(text)
    BY <1>1, <1>2, <1>3
  <2>2. /\ end \in start..Len(text)
        /\ end < Len(text) => text[end + 1] = Space
        /\ \A i \in (start + 1)..end : text[i] # Space
    BY <2>1, FindSpaceIs
  <2> QED BY <2>1, <2>2
<1> HIDE DEF end
<1>5. start + 1 <= end /\ start + 1 \in 1..Len(text) /\ end \in (start + 1)..Len(text) /\ end \in 1..Len(text)
  <2>1. end # start
    BY <1>1, <1>3, <1>4
  <2> QED BY <1>1, <1>2, <1>3, <1>4, <2>1
<1>6. words' = Append(words, word) /\ word \in Parts
  <2>1. start + (end - start) = end
    BY <1>3, <1>4
  <2>2. Substr(start, end - start) = word
    BY <2>1, Zenon DEF Substr
  <2>3. word \in Parts
    BY <1>5 DEF Parts
  <2> QED BY <1>1, <2>2, <2>3
<1>7. WordAt(start + 1) = word
  <2>1. end = Len(text) \/ text[end + 1] = Space
    BY <1>2, <1>4
  <2> DEFINE i == start + 1
  <2>2. i \in 1..Len(text) /\ end \in i..Len(text) /\ \A k \in i..end : text[k] # Space
    BY <1>4, <1>5
  <2> HIDE DEF i
  <2>3. WordAt(i) = SubSeq(text, i, end)
    BY <1>2, <2>1, <2>2, WordAtIs
  <2> QED BY <2>3 DEF i
<1>8. Found' = Found \cup {start + 1}
  <2>1. start + 1 \in Begins
    <3>1. start + 1 = 1 \/ text[start] = Space
      <4>1. CASE start = pos
        BY <1>1, <1>2, <1>3, <4>1 DEF LoopInv
      <4>2. CASE start # pos
        <5>1. start \in (pos + 1)..start
          BY <1>2, <1>3, <4>2
        <5> QED BY <1>3, <5>1
      <4> QED BY <4>1, <4>2
    <3>2. (start + 1) - 1 = start
      BY <1>3
    <3> QED BY <1>3, <1>5, <3>1, <3>2 DEF Begins, Size
  <2>2. ASSUME NEW i \in Begins, i <= end, ~(i <= pos) PROVE i = start + 1
    <3>1. i \in 1..Len(text) /\ text[i] # Space /\ (i = 1 \/ text[i - 1] = Space)
      BY DEF Begins, Size
    <3>2. i \notin (pos + 1)..start
      BY <1>3, <3>1
    <3>3. i >= start + 1
      BY <1>2, <1>3, <2>2, <3>1, <3>2
    <3>4. CASE i > start + 1
      <4>1. i - 1 \in (start + 1)..end /\ i # 1
        BY <1>2, <1>3, <1>4, <2>2, <3>1, <3>4
      <4> QED BY <1>4, <3>1, <4>1
    <3> QED BY <1>3, <3>1, <3>3, <3>4
  <2>3. pos <= end /\ start + 1 <= end
    BY <1>2, <1>3, <1>4, <1>5
  <2>4. \A i \in Begins : i \in Nat
    BY DEF Begins
  <2>5. Found' = {i \in Begins : i <= end}
    BY <1>1 DEF Found, Begins, Size
  <2> QED BY <1>2, <1>4, <2>1, <2>2, <2>3, <2>4, <2>5 DEF Found
<1>9. Parts' = Parts /\ WordsAt' = WordsAt
  BY <1>1 DEF Parts, WordsAt, WordAt, Size
<1>10. PICK begin \in [1..m -> Found] :
        /\ Lists(begin, Found)
        /\ \A k \in 1..m : words[k] = WordsAt[begin[k]]
        /\ rest = IF m < 2 THEN Len(text) ELSE begin[2] - 1
  BY Zenon DEF LoopInv
<1> DEFINE x == start + 1
           more == More(begin, m, x)
<1>11. words \in Seq(Parts) /\ word \in Parts
  BY <1>6, Zenon DEF LoopInv
<1> HIDE DEF word
<1>12. /\ words' \in Seq(Parts') /\ Len(words') = m + 1
       /\ \A k \in 1..m : words'[k] = words[k]
       /\ words'[m + 1] = word
  BY <1>6, <1>9, <1>11
<1>13. WordsAt[x] = word /\ x \in Nat
  BY <1>3, <1>5, <1>7 DEF WordsAt
<1>14. \A i \in Found : i < x
  BY <1>2, <1>3 DEF Found, Begins
<1>15. Found' = Found \cup {x}
  BY <1>8
<1> HIDE DEF x, more, m
<1>16. Lists(more, Found')
  <2>1. Lists(begin, Found)
    BY <1>10 DEF Lists
  <2>2. Lists(More(begin, m, x), Found \cup {x})
    BY <1>2, <1>10, <1>14, <2>1, MoreListed, Zenon
  <2> QED BY <1>15, <2>2, Zenon DEF more, Lists
<1>17. /\ more \in [1..(m + 1) -> Found']
       /\ \A k \in 1..m : more[k] = begin[k]
       /\ more[m + 1] = x
  BY <1>2, <1>10, <1>15 DEF more, More
<1>18. ASSUME NEW k \in 1..(m + 1) PROVE words'[k] = WordsAt'[more[k]]
  <2>1. CASE k = m + 1
    BY <1>9, <1>12, <1>13, <1>17, <2>1
  <2>2. CASE k # m + 1
    <3>1. k \in 1..m
      BY <1>2, <2>2
    <3> QED BY <1>9, <1>10, <1>12, <1>17, <3>1, Zenon
  <2> QED BY <2>1, <2>2
<1>19. rest' = IF m + 1 < 2 THEN Len(text') ELSE more[2] - 1
  <2>1. CASE m = 0
    BY <1>1, <1>10, <2>1, SMTT(60) DEF m
  <2>2. CASE m = 1
    <3>1. more[2] = x /\ x - 1 = start
      BY <1>3, <1>17, <2>2 DEF x
    <3> QED BY <1>1, <2>2, <3>1 DEF m
  <2>3. CASE m > 1
    <3>1. 2 \in 1..m /\ ~(m < 2) /\ m # 1 /\ ~(m + 1 < 2)
      BY <1>2, <2>3
    <3> QED BY <1>1, <1>10, <1>17, <3>1 DEF m
  <2> QED BY <1>2, <2>1, <2>2, <2>3
<1>20. pos' \in 0..Len(text') /\ (pos' = Len(text') \/ text'[pos' + 1] = Space) /\ m + 1 <= pos'
  BY <1>1, <1>2, <1>3, <1>4, <1>5
<1>21. text' \in Seq(Characters)
  BY <1>1, <1>2
<1> QED BY <1>12, <1>16, <1>17, <1>18, <1>19, <1>20, <1>21, Zenon DEF LoopInv

\* The loop's variables stay, and so does what is known of them.
LEMMA LoopSame ==
    ASSUME LoopInv, UNCHANGED <<text, pos, words, rest>>
    PROVE  LoopInv'
<1>1. Found' = Found /\ Parts' = Parts /\ WordsAt' = WordsAt
  BY DEF Found, Parts, WordsAt, Begins, WordAt, Size
<1> QED BY <1>1, Zenon DEF LoopInv

\* The event has the words that the loop found.
LEMMA EmitStep ==
    ASSUME LoopInv, Emit
    PROVE  SplitAsDocumented'
<1> DEFINE m == Len(words)
<1>1. /\ pos = Len(text) \/ FindWord(pos) = Len(text)
      /\ event' = Arguments /\ text' = text /\ words' = words
  BY DEF Emit, Size
<1>2. text \in Seq(Characters) /\ Len(text) \in Nat /\ pos \in 0..Len(text) /\ m \in Nat /\ m <= pos
  BY DEF LoopInv
<1>3. Found = Begins
  <2>1. \A i \in (pos + 1)..Len(text) : text[i] = Space
    <3>1. CASE pos = Len(text)
      BY <1>2, <3>1
    <3>2. CASE FindWord(pos) = Len(text)
      BY <1>2, <3>2, FindWordIs
    <3> QED BY <1>1, <3>1, <3>2
  <2>2. ASSUME NEW i \in Begins PROVE i <= pos
    <3>1. i \in 1..Len(text) /\ text[i] # Space
      BY DEF Begins, Size
    <3> QED BY <1>2, <2>1, <3>1
  <2> QED BY <2>2 DEF Found
<1>4. PICK begin \in [1..m -> Found] :
        /\ Lists(begin, Found)
        /\ \A k \in 1..m : words[k] = WordsAt[begin[k]]
        /\ rest = IF m < 2 THEN Len(text) ELSE begin[2] - 1
  BY DEF LoopInv
<1>5. ASSUME NEW k \in 1..m PROVE words[k] = WordAt(begin[k])
  <2>1. begin[k] \in 1..Len(text)
    BY <1>3, <1>4 DEF Begins, Size
  <2> QED BY <1>4, <2>1, Zenon DEF WordsAt
<1>6. Arguments = Reference(begin, m)
  <2>1. CASE m = 0
    <3>1. words = <<>>
      BY <2>1 DEF LoopInv
    <3>2. [i \in 1..(m - 1) |-> WordAt(begin[i + 1])] = <<>>
      BY <2>1
    <3>3. Arguments = [command |-> <<>>, args |-> <<>>, text |-> <<>>, emitted |-> TRUE]
      BY <3>1, Zenon DEF Arguments, None
    <3>4. m < 2
      BY <2>1
    <3> QED BY <2>1, <3>2, <3>3, <3>4, Zenon DEF Reference
  <2>2. CASE m # 0
    <3> DEFINE others == [i \in 1..(m - 1) |-> WordAt(begin[i + 1])]
               tail == IF m < 2 THEN <<>> ELSE SubSeq(text, begin[2], Len(text))
    <3>1. words # <<>> /\ words \in Seq(Parts) /\ 1 \in 1..m
      BY <1>2, <2>2 DEF LoopInv
    <3>2. Head(words) = WordAt(begin[1])
      BY <1>5, <3>1
    <3>3. Tail(words) = others
      <4>1. /\ Tail(words) \in Seq(Parts) /\ Len(Tail(words)) = m - 1
            /\ \A i \in 1..(m - 1) : Tail(words)[i] = words[i + 1]
        BY <3>1
      <4>2. \A i \in 1..(m - 1) : words[i + 1] = WordAt(begin[i + 1])
        BY <1>2, <1>5
      <4> DEFINE t == Tail(words)
      <4>3. t \in Seq(Parts) /\ Len(t) = m - 1 /\ \A i \in 1..(m - 1) : t[i] = WordAt(begin[i + 1])
        BY <4>1, <4>2
      <4> HIDE DEF m, t
      <4>4. t = [i \in 1..Len(t) |-> t[i]]
        BY <4>3
      <4>5. t = others
        BY <4>3, <4>4
      <4> QED BY <4>5 DEF t
    <3>4. Substr(rest, Len(text) - rest) = tail
      <4>1. CASE m < 2
        <5>1. rest = Len(text)
          BY <1>4, <4>1
        <5>2. SubSeq(text, Len(text) + 1, Len(text) + (Len(text) - Len(text))) = <<>>
          BY <1>2
        <5> QED BY <4>1, <5>1, <5>2 DEF Substr
      <4>2. CASE ~(m < 2)
        <5>1. rest = begin[2] - 1 /\ 2 \in 1..m
          BY <1>2, <1>4, <4>2
        <5>2. begin[2] \in 1..Len(text)
          BY <1>3, <1>4, <5>1 DEF Begins, Size
        <5> DEFINE b == begin[2]
                   l == Len(text)
        <5>3. b \in Int /\ l \in Int /\ rest = b - 1
          BY <1>2, <5>1, <5>2
        <5> HIDE DEF b, l
        <5>4. rest + 1 = b /\ rest + (l - rest) = l
          BY <5>3
        <5>5. rest + 1 = begin[2] /\ rest + (Len(text) - rest) = Len(text)
          BY <5>4 DEF b, l
        <5> QED BY <4>2, <5>5, Zenon DEF Substr
      <4> QED BY <4>1, <4>2
    <3> HIDE DEF others, tail, m
    <3>5. Arguments = [command |-> WordAt(begin[1]), args |-> others, text |-> tail, emitted |-> TRUE]
      BY <3>1, <3>2, <3>3, <3>4, Zenon DEF Arguments, Size
    <3>6. Reference(begin, m) = [command |-> WordAt(begin[1]), args |-> others, text |-> tail, emitted |-> TRUE]
      BY <2>2 DEF Reference, Size, others, tail
    <3> QED BY <3>5, <3>6, Zenon
  <2> QED BY <2>1, <2>2
<1>7. m \in 0..Len(text')
  BY <1>1, <1>2
<1>8. Begins' = Begins
  BY <1>1 DEF Begins, Size
<1>9. Reference(begin, m)' = Reference(begin, m)
  BY <1>1, SMTT(60) DEF Reference, WordAt, Size
<1>10. begin \in [1..m -> Begins'] /\ Lists(begin, Begins')
  BY <1>3, <1>4, <1>8
<1> QED BY <1>1, <1>6, <1>7, <1>9, <1>10 DEF SplitAsDocumented, Size

\* Every step keeps the invariant.
LEMMA CommandStep == ASSUME CommandInv, [CommandNext]_commandVars PROVE CommandInv'
<1> USE DEF CommandInv
<1>1. CASE Word
  <2>1. LoopInv'
    BY <1>1, WordStep
  <2>2. ~event.emitted /\ event' = event
    BY <1>1 DEF Word
  <2>3. SplitAsDocumented'
    BY <2>2 DEF SplitAsDocumented
  <2> QED BY <2>1, <2>3
<1>2. CASE Emit
  <2>1. UNCHANGED <<text, pos, words, rest>>
    BY <1>2 DEF Emit
  <2>2. LoopInv'
    BY <2>1, LoopSame
  <2> QED BY <1>2, <2>2, EmitStep
<1>3. CASE UNCHANGED commandVars
  <2>1. UNCHANGED <<text, pos, words, rest>> /\ event' = event
    BY <1>3 DEF commandVars
  <2>2. LoopInv'
    BY <2>1, LoopSame
  <2>3. SplitAsDocumented'
    <3> SUFFICES ASSUME event'.emitted PROVE SplitAsDocumented'
      BY DEF SplitAsDocumented
    <3>1. PICK n \in 0..Len(text) : \E begin \in [1..n -> Begins] :
            Lists(begin, Begins) /\ event = Reference(begin, n)
      BY <2>1 DEF SplitAsDocumented, Size
    <3>2. PICK begin \in [1..n -> Begins] : Lists(begin, Begins) /\ event = Reference(begin, n)
      BY <3>1
    <3>3. Begins' = Begins
      BY <2>1 DEF Begins, Size
    <3>4. Reference(begin, n)' = Reference(begin, n)
      BY <2>1, SMTT(60) DEF Reference, WordAt, Size
    <3>5. begin \in [1..n -> Begins'] /\ Lists(begin, Begins') /\ n \in 0..Len(text')
      BY <2>1, <3>2, <3>3
    <3> QED BY <2>1, <3>2, <3>4, <3>5 DEF SplitAsDocumented, Size
  <2> QED BY <2>2, <2>3
<1> QED BY <1>1, <1>2, <1>3 DEF CommandNext

(***************************************************************************)
(* Whatever the message, of any length and with any spaces, the loop of    *)
(* OnPlayerCommand hands over the words and the text that the documents    *)
(* promise.                                                                *)
(***************************************************************************)
THEOREM MessageSplit == CommandSpec => []SplitAsDocumented
<1>1. CommandInv => SplitAsDocumented
  BY DEF CommandInv
<1> QED BY <1>1, CommandStarts, CommandStep, PTL DEF CommandSpec

-----------------------------------------------------------------------------
(***************************************************************************)
(* The stack of calls.                                                     *)
(***************************************************************************)
\* The calls of a sequence that is longer by one.
LEMMA AppendedCalls ==
    ASSUME stack \in Seq(Calls), NEW c \in Calls, stack' = Append(stack, c)
    PROVE  /\ stack' \in Seq(Calls) /\ stack' # << >>
           /\ InProgress' = InProgress \cup {c}
           /\ Len(stack') = Len(stack) + 1 /\ stack'[Len(stack) + 1] = c
           /\ \A k \in 1..Len(stack) : stack'[k] = stack[k]
<1>1. /\ stack' \in Seq(Calls)
      /\ Len(stack) \in Nat
      /\ Len(stack') = Len(stack) + 1
      /\ \A k \in 1..Len(stack) : stack'[k] = stack[k]
      /\ stack'[Len(stack) + 1] = c
  BY AppendProperties
<1>2. stack' # << >>
  BY <1>1, EmptySeq
<1>3. /\ 1..(Len(stack) + 1) = (1..Len(stack)) \cup {Len(stack) + 1}
      /\ Len(stack) + 1 \notin 1..Len(stack)
  BY <1>1
<1>4. InProgress' = InProgress \cup {c}
  BY <1>1, <1>3 DEF InProgress
<1> QED
  BY <1>1, <1>2, <1>4

\* The innermost call, and the calls below it.
LEMMA PoppedCalls ==
    ASSUME stack \in Seq(Calls), stack # << >>
    PROVE  /\ Top \in Calls /\ Len(stack) \in Nat \ {0} /\ Top = stack[Len(stack)]
           /\ Popped \in Seq(Calls) /\ Len(Popped) = Len(stack) - 1
           /\ \A k \in 1..(Len(stack) - 1) : Popped[k] = stack[k]
           /\ InProgress = {stack[k] : k \in 1..(Len(stack) - 1)} \cup {Top}
<1> DEFINE n == Len(stack) - 1
<1>1. n \in Nat /\ Len(stack) = n + 1 /\ Top = stack[n + 1] /\ Top \in Calls
  BY DEF Top
<1>2. \A k \in 1..n : stack[k] \in Calls
  BY <1>1, ElementOfSeq
<1>3. /\ SubSeq(stack, 1, n) \in Seq(Calls)
      /\ Len(SubSeq(stack, 1, n)) = IF 1 <= n THEN n - 1 + 1 ELSE 0
      /\ \A k \in 1..(n - 1 + 1) : SubSeq(stack, 1, n)[k] = stack[1 + k - 1]
  <2> HIDE DEF n
  <2> QED BY <1>1, <1>2, SubSeqProperties
<1>4. Popped = SubSeq(stack, 1, n)
  BY DEF Popped
<1> HIDE DEF n
<1>5. /\ Popped \in Seq(Calls)
      /\ Len(Popped) = n
      /\ \A k \in 1..n : Popped[k] = stack[k]
  BY <1>1, <1>3, <1>4
<1>6. 1..(n + 1) = (1..n) \cup {n + 1}
  BY <1>1
<1>7. InProgress = {stack[k] : k \in 1..n} \cup {Top}
  BY <1>1, <1>6 DEF InProgress
<1> QED
  BY <1>1, <1>5, <1>7 DEF n

\* The calls below the innermost one.
Below == {stack[k] : k \in 1..(Len(stack) - 1)}

\* A call that returns leaves the calls below it.
LEMMA ReturnedCalls ==
    ASSUME stack \in Seq(Calls), stack # << >>, stack' = Popped
    PROVE  /\ stack' \in Seq(Calls) /\ Top \in Calls
           /\ InProgress = Below \cup {Top}
           /\ InProgress' = Below
<1>1. /\ Popped \in Seq(Calls) /\ Len(Popped) = Len(stack) - 1 /\ Top \in Calls
      /\ \A k \in 1..(Len(stack) - 1) : Popped[k] = stack[k]
      /\ InProgress = Below \cup {Top}
  BY PoppedCalls DEF Below
<1>2. InProgress' = {Popped[k] : k \in 1..Len(Popped)}
  BY DEF InProgress
<1> QED
  BY <1>1, <1>2 DEF Below

\* A call whose event moves on changes in its phase alone.
LEMMA ReachedCalls ==
    ASSUME stack \in Seq(Calls), stack # << >>, NEW p \in Phases, Reaches(p)
    PROVE  /\ stack' \in Seq(Calls) /\ stack' # << >> /\ Top \in Calls
           /\ Len(stack') = Len(stack) /\ Len(stack) \in Nat \ {0}
           /\ \A k \in 1..(Len(stack) - 1) : stack'[k] = stack[k]
           /\ stack[Len(stack)] = Top /\ stack'[Len(stack)] = [Top EXCEPT !.phase = p]
           /\ InProgress = Below \cup {Top}
           /\ InProgress' = Below \cup {[Top EXCEPT !.phase = p]}
<1> DEFINE new == [Top EXCEPT !.phase = p]
           n == Len(stack)
<1>1. /\ Top \in Calls /\ n \in Nat \ {0} /\ Top = stack[n]
      /\ InProgress = Below \cup {Top}
  BY PoppedCalls DEF Below
<1>2. new \in Calls
  BY <1>1 DEF Calls
<1>3. stack' = [stack EXCEPT ![n] = new]
  BY DEF Reaches, Top
<1> HIDE DEF new, n
<1>4. n \in 1..n /\ n = Len(stack)
  BY <1>1 DEF n
<1>5. /\ stack' \in Seq(Calls) /\ Len(stack') = n
      /\ \A k \in 1..n : stack'[k] = IF k = n THEN new ELSE stack[k]
  BY <1>2, <1>3, <1>4, ExceptSeq
<1>6. 1..n = (1..(n - 1)) \cup {n} /\ n \notin 1..(n - 1)
  BY <1>1
<1>7. InProgress' = {stack'[k] : k \in 1..n}
  BY <1>5 DEF InProgress
<1>8. InProgress' = {stack[k] : k \in 1..(n - 1)} \cup {new}
  BY <1>5, <1>6, <1>7
<1>9. stack' # << >>
  BY <1>1, <1>5, EmptySeq
<1>10. /\ \A k \in 1..(n - 1) : stack'[k] = stack[k]
       /\ stack'[n] = new
  BY <1>5, <1>6
<1> QED
  BY <1>1, <1>4, <1>5, <1>8, <1>9, <1>10 DEF Below, new, n

-----------------------------------------------------------------------------
(***************************************************************************)
(* What a step does to the slots and to the handles.  Every action is one  *)
(* of six shapes, whatever the server and the stack do.                    *)
(***************************************************************************)
SlotStep ==
    \/ UNCHANGED <<slotVars, refVars>>
    \/ \E i \in Ids : Adopt(i, FALSE) /\ UNCHANGED refVars
    \/ \E i \in Ids : Release(i)
    \/ \E i \in Ids, mark \in BOOLEAN : Adopt(i, mark) /\ Push(i) /\ UNCHANGED life
    \/ \E i \in Ids : UNCHANGED <<slotVars, life>> /\ alive[i] /\ Push(i)
    \/ \E i \in Ids : /\ UNCHANGED <<slotVars, handle, made, issued, life>>
                     /\ alive[i] /\ data' = [data EXCEPT ![i] = life[i]]

\* Every step but the end of a reload has one of these shapes.
LEMMA NextIsSlotStep ==
    ASSUME TypeOK, Next
    PROVE  SlotStep \/ ReloadEnds
<1> USE DEF SlotStep
<1>1. ASSUME NEW i \in Ids, NEW by \in Plugins, Create(i, by)
      PROVE  SlotStep
  BY <1>1, Zenon DEF Create
<1>2. ASSUME NEW i \in Ids, NEW by \in Plugins, NEW p \in Phases, Delete(i, by, p)
      PROVE  SlotStep
  BY <1>2 DEF Delete
<1>3. ASSUME NEW i \in Ids, OtherDeletes(i) \/ Destroy(i) \/ DeleteCreated(i)
      PROVE  SlotStep
  BY <1>3, <1>2, Zenon DEF OtherDeletes, Destroy, DeleteCreated, Plugins, Phases
<1>4. ASSUME NEW i \in Ids, DestroyMissingBlip(i) \/ DeleteMissing(i)
      PROVE  SlotStep
  BY <1>4, Zenon DEF DestroyMissingBlip, DeleteMissing
<1>5. ASSUME stack # << >>
      PROVE  Top.id \in Ids
  BY <1>5, PoppedCalls DEF TypeOK, Calls
<1>6. CASE Report \/ HandlersReturn \/ HandlersThrow
  BY <1>5, <1>6, Zenon DEF Report, HandlersReturn, HandlersThrow
<1>7. CASE CreateReturns \/ DeleteReturns
  BY <1>5, <1>7, Zenon DEF CreateReturns, DeleteReturns, serverVars
<1>8. ASSUME NEW i \in Ids, Lookup(i)
      PROVE  SlotStep
  BY <1>8, Zenon DEF Lookup, serverVars
<1>9. ASSUME NEW i \in Ids, SetData(i)
      PROVE  SlotStep
  BY <1>9, Zenon DEF SetData, serverVars, Valid
<1>10. ASSUME NEW i \in Ids, EntityEvent(i)
       PROVE  SlotStep
  BY <1>10, Zenon DEF EntityEvent, serverVars
<1>11. CASE ReloadBegins \/ DeleteCreatedThrows
  BY <1>11, Zenon DEF ReloadBegins, DeleteCreatedThrows
<1> QED
  BY <1>1, <1>3, <1>4, <1>6, <1>7, <1>8, <1>9, <1>10, <1>11, Zenon DEF Next

-----------------------------------------------------------------------------
(***************************************************************************)
(* Type correctness.                                                       *)
(***************************************************************************)
SlotsTyped ==
    /\ alive \in [Ids -> BOOLEAN]
    /\ created_by_us \in [Ids -> BOOLEAN]
    /\ generation \in [Ids -> 0..(Modulus - 1)]
    /\ adoptions \in [Ids -> Nat]

RefsTyped ==
    /\ handle \in [Ids -> Nat]
    /\ data \in [Ids -> Nat]
    /\ made \in [Ids -> Nat]
    /\ issued \subseteq Handles

\* ++slot.generation stays in the 32 bits of the generation.
LEMMA IncrementedTyped ==
    ASSUME NEW g \in 0..(Modulus - 1)
    PROVE  Incremented(g) \in 0..(Modulus - 1)
BY ModulusAssumption DEF Incremented

\* Adopt and Push keep the slots and the handles typed.
LEMMA AdoptTyped ==
    ASSUME SlotsTyped, NEW i \in Ids, NEW mark \in BOOLEAN, Adopt(i, mark)
    PROVE  SlotsTyped'
BY IncrementedTyped DEF SlotsTyped, Adopt

\* Push reads the generation and the adoption after the slot was adopted.
LEMMA PushTyped ==
    ASSUME RefsTyped, SlotsTyped', life \in [Ids -> Nat], NEW i \in Ids, Push(i)
    PROVE  RefsTyped'
<1>1. CASE handle[i] # 0
  BY <1>1 DEF Push, RefsTyped, refVars
<1>2. CASE handle[i] = 0
  <2>1. generation'[i] \in Nat /\ adoptions'[i] \in Nat
    BY ModulusAssumption DEF SlotsTyped
  <2>2. [id |-> i, obj |-> made[i] + 1, generation |-> generation'[i],
         adoption |-> adoptions'[i], life |-> life[i]] \in Handles
    BY <2>1 DEF Handles, RefsTyped
  <2> QED
    BY <1>2, <2>2 DEF Push, RefsTyped
<1> QED
  BY <1>1, <1>2

\* Each of the shapes of SlotStep keeps the slots and the handles typed.
LEMMA SlotStepTyped ==
    ASSUME SlotsTyped, RefsTyped, life \in [Ids -> Nat], SlotStep
    PROVE  SlotsTyped' /\ RefsTyped'
<1>1. CASE UNCHANGED <<slotVars, refVars>>
  BY <1>1 DEF SlotsTyped, RefsTyped, slotVars, refVars
<1>2. ASSUME NEW i \in Ids, Adopt(i, FALSE), UNCHANGED refVars
      PROVE  SlotsTyped' /\ RefsTyped'
  BY <1>2, AdoptTyped, Zenon DEF RefsTyped, refVars
<1>3. ASSUME NEW i \in Ids, Release(i)
      PROVE  SlotsTyped' /\ RefsTyped'
  BY <1>3 DEF Release, SlotsTyped, RefsTyped
<1>4. ASSUME NEW i \in Ids, NEW mark \in BOOLEAN, Adopt(i, mark), Push(i)
      PROVE  SlotsTyped' /\ RefsTyped'
  BY <1>4, AdoptTyped, PushTyped
<1>5. ASSUME NEW i \in Ids, UNCHANGED slotVars, Push(i)
      PROVE  SlotsTyped' /\ RefsTyped'
  <2>1. SlotsTyped'
    BY <1>5 DEF SlotsTyped, slotVars
  <2> QED
    BY <2>1, <1>5, PushTyped
<1>6. ASSUME NEW i \in Ids, UNCHANGED <<slotVars, handle, made, issued>>,
             data' = [data EXCEPT ![i] = life[i]]
      PROVE  SlotsTyped' /\ RefsTyped'
  BY <1>6 DEF SlotsTyped, RefsTyped, slotVars
<1> QED
  BY <1>1, <1>2, <1>3, <1>4, <1>5, <1>6, Zenon DEF SlotStep

\* The pool of a new runtime is typed.
LEMMA ReloadTyped ==
    ASSUME TypeOK, ReloadEnds
    PROVE  TypeOK'
<1>1. Incremented(0) \in 0..(Modulus - 1) /\ 0 \in 0..(Modulus - 1)
  BY IncrementedTyped, ModulusAssumption
<1> QED
  BY <1>1 DEF TypeOK, ReloadEnds, Handles, Plugins

ServerTyped ==
    /\ exists \in [Ids -> BOOLEAN]
    /\ life \in [Ids -> Nat]
    /\ entities \in Nat
    /\ owner \in [Ids -> Plugins]
    /\ stack \in Seq(Calls)
    /\ mode \in {"live", "reloading"}
    /\ doomed \subseteq Ids
    /\ disorder \subseteq Ids

\* The server's side and the stack of calls stay typed.
LEMMA ServerStepTyped ==
    ASSUME TypeOK, Next
    PROVE  ServerTyped' \/ ReloadEnds
<1> USE DEF TypeOK, ServerTyped
<1>1. ASSUME NEW i \in Ids, NEW by \in Plugins, Create(i, by)
      PROVE  ServerTyped'
  <2>1. entities' \in Nat
    BY <1>1 DEF Create
  <2>2. PICK c \in Calls : stack' = Append(stack, c)
    <3>1. Call("create", i, entities', by, IF by = "us" THEN "ours" ELSE "before") \in Calls
      BY <2>1 DEF Call, Calls, Phases
    <3> QED
      BY <1>1, <3>1, Zenon DEF Create
  <2>3. stack' \in Seq(Calls)
    BY <2>2, AppendedCalls
  <2>4. life' \in [Ids -> Nat] /\ exists' \in [Ids -> BOOLEAN] /\ owner' \in [Ids -> Plugins]
    BY <1>1, <2>1, Zenon DEF Create
  <2>5. disorder' \subseteq Ids
    BY <1>1 DEF Create
  <2>6. UNCHANGED <<mode, doomed>>
    BY <1>1 DEF Create, reloadVars
  <2> QED
    BY <2>1, <2>3, <2>4, <2>5, <2>6
<1>2. ASSUME NEW i \in Ids, NEW by \in Plugins, NEW p \in Phases, Delete(i, by, p)
      PROVE  ServerTyped'
  <2>1. PICK c \in Calls : stack' = Append(stack, c)
    <3>1. Call("delete", i, life[i], by, p) \in Calls
      BY DEF Call, Calls
    <3> QED
      BY <1>2, <3>1, Zenon DEF Delete
  <2>2. stack' \in Seq(Calls)
    BY <2>1, AppendedCalls
  <2> QED
    BY <1>2, <2>2 DEF Delete, reloadVars
<1>3. ASSUME NEW i \in Ids, OtherDeletes(i) \/ Destroy(i) \/ DeleteCreated(i)
      PROVE  ServerTyped'
  BY <1>3, <1>2, Zenon DEF OtherDeletes, Destroy, DeleteCreated, Plugins, Phases
<1>4. ASSUME stack # << >>
      PROVE  Top.id \in Ids /\ Popped \in Seq(Calls)
  BY <1>4, PoppedCalls DEF Calls
<1>5. CASE Report
  <2>1. stack' \in Seq(Calls)
    BY <1>5, ReachedCalls DEF Report, Phases
  <2> QED
    BY <1>4, <1>5, <2>1 DEF Report, Heard, serverVars, reloadVars
<1>6. CASE HandlersReturn \/ HandlersThrow
  <2>1. stack' \in Seq(Calls)
    BY <1>6, ReachedCalls DEF HandlersReturn, HandlersThrow, Phases
  <2> QED
    BY <1>4, <1>6, <2>1 DEF HandlersReturn, HandlersThrow, serverVars, reloadVars
<1>7. CASE CreateReturns
  BY <1>4, <1>7 DEF CreateReturns, Heard, serverVars, reloadVars
<1>8. CASE DeleteReturns
  BY <1>4, <1>8 DEF DeleteReturns, Heard
<1>9. ASSUME NEW i \in Ids, EntityEvent(i)
      PROVE  ServerTyped'
  BY <1>9 DEF EntityEvent, Heard, serverVars, reloadVars
<1>10. CASE ReloadBegins
  BY <1>10 DEF ReloadBegins, CreatedByUs, serverVars
<1>11. ASSUME NEW i \in Ids, DeleteMissing(i)
       PROVE  ServerTyped'
  BY <1>11 DEF DeleteMissing, serverVars
<1>12. ASSUME UNCHANGED <<serverVars, stack, reloadVars, disorder>>
       PROVE  ServerTyped'
  BY <1>12 DEF serverVars, reloadVars
<1>13. ASSUME DeleteCreatedThrows
       PROVE  ServerTyped'
  BY <1>13 DEF DeleteCreatedThrows, serverVars
<1>14. ASSUME NEW i \in Ids, DestroyMissingBlip(i) \/ Lookup(i) \/ SetData(i)
       PROVE  ServerTyped'
  BY <1>12, <1>14, Zenon DEF DestroyMissingBlip, Lookup, SetData
<1> QED
  BY <1>1, <1>3, <1>5, <1>6, <1>7, <1>8, <1>9, <1>10, <1>11, <1>13, <1>14, Zenon DEF Next

\* Every step of the pool, the server and the scripts keeps the variables typed.
LEMMA TypeStep ==
    ASSUME TypeOK, [Next]_vars
    PROVE  TypeOK'
<1>1. CASE UNCHANGED vars
  BY <1>1 DEF TypeOK, vars, slotVars, refVars, serverVars, reloadVars
<1>2. CASE ReloadEnds
  BY <1>2, ReloadTyped
<1>3. CASE Next /\ ~ReloadEnds
  <2>1. SlotStep /\ ServerTyped'
    BY <1>3, NextIsSlotStep, ServerStepTyped
  <2>2. SlotsTyped /\ RefsTyped /\ life \in [Ids -> Nat]
    BY DEF TypeOK, SlotsTyped, RefsTyped
  <2>3. SlotsTyped' /\ RefsTyped'
    BY <2>1, <2>2, SlotStepTyped
  <2> QED
    BY <2>1, <2>3 DEF TypeOK, SlotsTyped, RefsTyped, ServerTyped
<1> QED
  BY <1>1, <1>2, <1>3

\* The empty pool of the first runtime is typed.
LEMMA TypeInit ==
    ASSUME Init
    PROVE  TypeOK
BY ModulusAssumption DEF Init, TypeOK, Plugins

\* The type invariant: in particular the generation stays a 32-bit number and
\* the stack holds calls only.
THEOREM TypeCorrect == Spec => []TypeOK
<1>1. Init => TypeOK
  BY TypeInit
<1>2. TypeOK /\ [Next]_vars => TypeOK'
  BY TypeStep
<1> QED
  BY <1>1, <1>2, PTL DEF Spec

-----------------------------------------------------------------------------
(***************************************************************************)
(* Handles and generations.  Neither the server nor the stack matters      *)
(* here: the argument is about Adopt, Release and Push in any order.       *)
(***************************************************************************)
\* The generation d < Modulus adoptions after generation g.
Shifted(g, d) == IF g + d < Modulus THEN g + d ELSE g + d - Modulus

\* The inductive invariant.  A dead slot has no cached userdata; no handle was
\* made in a future adoption; the handle of the current adoption is cached; and
\* the slot's generation is the handle's, moved on by the adoptions since.
HandleInv ==
    /\ \A i \in Ids : ~alive[i] => handle[i] = 0
    /\ \A h \in issued :
        /\ h.adoption <= adoptions[h.id]
        /\ h.generation \in 0..(Modulus - 1)
        /\ alive[h.id] /\ h.adoption = adoptions[h.id] => handle[h.id] # 0
        /\ adoptions[h.id] < h.adoption + Modulus =>
            generation[h.id] = Shifted(h.generation, adoptions[h.id] - h.adoption)
    /\ OneHandlePerLifetime

\* Adopt on its own, and followed by Push.
LEMMA AdoptKeepsHandleInv ==
    ASSUME SlotsTyped, RefsTyped, HandleInv,
           NEW i \in Ids, NEW mark \in BOOLEAN, Adopt(i, mark)
    PROVE  /\ \A j \in Ids : ~alive'[j] => handle[j] = 0
           /\ \A h \in issued :
                /\ h.adoption <= adoptions'[h.id]
                /\ h.generation \in 0..(Modulus - 1)
                /\ alive'[h.id] /\ h.adoption = adoptions'[h.id] => handle[h.id] # 0
                /\ adoptions'[h.id] < h.adoption + Modulus =>
                    generation'[h.id] =
                        Shifted(h.generation, adoptions'[h.id] - h.adoption)
<1>1. \A j \in Ids : ~alive'[j] => handle[j] = 0
  BY DEF Adopt, HandleInv, SlotsTyped
<1>2. ASSUME NEW h \in issued
      PROVE  /\ h.adoption <= adoptions'[h.id]
             /\ h.generation \in 0..(Modulus - 1)
             /\ alive'[h.id] /\ h.adoption = adoptions'[h.id] => handle[h.id] # 0
             /\ adoptions'[h.id] < h.adoption + Modulus =>
                 generation'[h.id] = Shifted(h.generation, adoptions'[h.id] - h.adoption)
  <2>1. /\ h.id \in Ids /\ h.adoption \in Nat
        /\ h.adoption <= adoptions[h.id]
        /\ h.generation \in 0..(Modulus - 1)
        /\ adoptions[h.id] \in Nat /\ generation[h.id] \in 0..(Modulus - 1)
    BY DEF RefsTyped, Handles, HandleInv, SlotsTyped
  <2>2. CASE h.id # i \/ alive[i]
    <3>1. /\ alive'[h.id] = alive[h.id]
          /\ adoptions'[h.id] = adoptions[h.id]
          /\ generation'[h.id] = generation[h.id]
      BY <2>1, <2>2, Zenon DEF Adopt, SlotsTyped
    <3> QED
      BY <2>1, <3>1 DEF HandleInv
  <2>3. CASE h.id = i /\ ~alive[i]
    <3>1. /\ adoptions'[h.id] = adoptions[h.id] + 1
          /\ generation'[h.id] = Incremented(generation[h.id])
      BY <2>1, <2>3 DEF Adopt, SlotsTyped
    <3>2. ASSUME adoptions'[h.id] < h.adoption + Modulus
          PROVE  generation'[h.id] = Shifted(h.generation, adoptions'[h.id] - h.adoption)
      <4>1. generation[h.id] = Shifted(h.generation, adoptions[h.id] - h.adoption)
        BY <2>1, <3>1, <3>2, ModulusAssumption DEF HandleInv
      <4> QED
        BY <2>1, <3>1, <3>2, <4>1, ModulusAssumption DEF Shifted, Incremented
    <3> QED
      BY <2>1, <3>1, <3>2
  <2> QED
    BY <2>2, <2>3
<1> QED
  BY <1>1, <1>2

\* A generation is the one of its own adoption.
LEMMA NotShifted ==
    ASSUME NEW g \in 0..(Modulus - 1), NEW a \in Nat
    PROVE  g = Shifted(g, a - a)
BY ModulusAssumption DEF Shifted

\* Push makes a userdata only in an adoption that has none yet.
LEMMA PushKeepsHandleInv ==
    ASSUME RefsTyped, SlotsTyped', life \in [Ids -> Nat], OneHandlePerLifetime,
           NEW i \in Ids, alive'[i], Push(i),
           \A j \in Ids : ~alive'[j] => handle[j] = 0,
           \A h \in issued :
                /\ h.adoption <= adoptions'[h.id]
                /\ h.generation \in 0..(Modulus - 1)
                /\ alive'[h.id] /\ h.adoption = adoptions'[h.id] => handle[h.id] # 0
                /\ adoptions'[h.id] < h.adoption + Modulus =>
                    generation'[h.id] =
                        Shifted(h.generation, adoptions'[h.id] - h.adoption)
    PROVE  HandleInv'
<1>1. CASE handle[i] # 0
  BY <1>1 DEF Push, refVars, HandleInv, OneHandlePerLifetime
<1>2. CASE handle[i] = 0
  <2> DEFINE new == [id |-> i, obj |-> made[i] + 1, generation |-> generation'[i],
                     adoption |-> adoptions'[i], life |-> life[i]]
  <2>1. /\ issued' = issued \cup {new}
        /\ handle' = [handle EXCEPT ![i] = made[i] + 1]
        /\ made[i] \in Nat
        /\ adoptions'[i] \in Nat
        /\ generation'[i] \in 0..(Modulus - 1)
    BY <1>2 DEF Push, RefsTyped, SlotsTyped
  <2>2. new.id = i /\ new.adoption = adoptions'[i] /\ new.generation = generation'[i]
    OBVIOUS
  <2> HIDE DEF new
  <2>3. \A h \in issued : h.id \in Ids /\ h.adoption \in Nat
    BY DEF RefsTyped, Handles
  <2>4. \A h \in issued : ~(h.id = i /\ h.adoption = adoptions'[i])
    BY <1>2
  <2>5. \A j \in Ids : ~alive'[j] => handle'[j] = 0
    BY <2>1 DEF RefsTyped
  <2>6. \A h \in issued' :
            /\ h.adoption <= adoptions'[h.id]
            /\ h.generation \in 0..(Modulus - 1)
            /\ alive'[h.id] /\ h.adoption = adoptions'[h.id] => handle'[h.id] # 0
            /\ adoptions'[h.id] < h.adoption + Modulus =>
                generation'[h.id] = Shifted(h.generation, adoptions'[h.id] - h.adoption)
    <3>1. generation'[i] = Shifted(generation'[i], adoptions'[i] - adoptions'[i])
      BY <2>1, NotShifted, Zenon
    <3>2. /\ \A j \in Ids : handle[j] # 0 \/ j = i => handle'[j] # 0
          /\ adoptions'[i] <= adoptions'[i]
      BY <2>1 DEF RefsTyped
    <3>3. ASSUME NEW h \in issued PROVE h.id \in Ids /\ (handle[h.id] # 0 => handle'[h.id] # 0)
      BY <2>3, <3>2, Zenon
    <3> QED BY <2>1, <2>2, <3>1, <3>2, <3>3, Zenon
  <2>7. OneHandlePerLifetime'
    <3>1. ASSUME NEW g \in issued', NEW h \in issued', g.id = h.id, g.adoption = h.adoption
          PROVE  g = h
      <4>1. CASE g \in issued /\ h \in issued
        BY <3>1, <4>1, Zenon DEF OneHandlePerLifetime
      <4>2. g = new => h \notin issued
        BY <2>2, <2>4, <3>1, Zenon
      <4>3. h = new => g \notin issued
        BY <2>2, <2>4, <3>1, Zenon
      <4> QED BY <2>1, <4>1, <4>2, <4>3, Zenon
    <3> QED BY <3>1, Zenon DEF OneHandlePerLifetime
  <2> QED
    BY <2>5, <2>6, <2>7 DEF HandleInv
<1> QED
  BY <1>1, <1>2

\* Every step keeps the invariant; a reload starts without any handle.
LEMMA HandleStep ==
    ASSUME TypeOK, HandleInv, [Next]_vars
    PROVE  HandleInv'
<1>1. SlotsTyped /\ RefsTyped /\ life \in [Ids -> Nat]
  BY DEF TypeOK, SlotsTyped, RefsTyped
<1>2. SlotsTyped' /\ RefsTyped'
  BY TypeStep DEF TypeOK, SlotsTyped, RefsTyped
<1>3. CASE UNCHANGED <<slotVars, refVars>>
  BY <1>3 DEF HandleInv, OneHandlePerLifetime, slotVars, refVars
<1>4. ASSUME NEW i \in Ids, Adopt(i, FALSE), UNCHANGED refVars
      PROVE  HandleInv'
  BY <1>1, <1>4, AdoptKeepsHandleInv, Zenon DEF HandleInv, OneHandlePerLifetime, refVars
<1>5. ASSUME NEW i \in Ids, Release(i)
      PROVE  HandleInv'
  <2>1. \A j \in Ids : ~alive'[j] => handle'[j] = 0
    BY <1>1, <1>5 DEF Release, HandleInv, SlotsTyped, RefsTyped
  <2>2. \A j \in Ids : alive'[j] => alive[j] /\ handle'[j] = handle[j]
    BY <1>1, <1>5 DEF Release, SlotsTyped, RefsTyped
  <2>3. UNCHANGED <<generation, adoptions, issued>> /\ \A h \in issued : h.id \in Ids
    BY <1>1, <1>5 DEF Release, RefsTyped, Handles
  <2> QED
    BY <2>1, <2>2, <2>3 DEF HandleInv, OneHandlePerLifetime
<1>6. ASSUME NEW i \in Ids, NEW mark \in BOOLEAN, Adopt(i, mark), Push(i)
      PROVE  HandleInv'
  <2>1. alive'[i]
    BY <1>1, <1>6 DEF Adopt, SlotsTyped
  <2> QED
    BY <1>1, <1>2, <1>6, <2>1, AdoptKeepsHandleInv, PushKeepsHandleInv DEF HandleInv
<1>7. ASSUME NEW i \in Ids, UNCHANGED slotVars, alive[i], Push(i)
      PROVE  HandleInv'
  BY <1>1, <1>2, <1>7, PushKeepsHandleInv, Zenon DEF HandleInv, slotVars
<1>8. ASSUME NEW i \in Ids, UNCHANGED <<slotVars, handle, made, issued>>
      PROVE  HandleInv'
  BY <1>8 DEF HandleInv, OneHandlePerLifetime, slotVars
<1>9. CASE ReloadEnds
  BY <1>9 DEF ReloadEnds, HandleInv, OneHandlePerLifetime
<1>10. CASE UNCHANGED vars
  BY <1>3, <1>10 DEF vars
<1> QED
  BY <1>3, <1>4, <1>5, <1>6, <1>7, <1>8, <1>9, <1>10, NextIsSlotStep, Zenon DEF SlotStep

\* The strengthened handle invariant holds in every reachable state.
LEMMA HandleAlways == Spec => [](TypeOK /\ HandleInv)
<1>1. Init => TypeOK /\ HandleInv
  BY TypeInit DEF Init, HandleInv, OneHandlePerLifetime
<1>2. TypeOK /\ HandleInv /\ [Next]_vars => (TypeOK /\ HandleInv)'
  BY TypeStep, HandleStep
<1> QED
  BY <1>1, <1>2, PTL DEF Spec

\* A shift by less than the modulus that comes back to where it was is none.
LEMMA ShiftedApart ==
    ASSUME NEW g \in 0..(Modulus - 1), NEW a \in Nat, NEW b \in Nat,
           a <= b, b < a + Modulus, Shifted(g, b - a) = g
    PROVE  a = b
<1>1. g \in Int /\ Modulus \in Int /\ b - a \in Int /\ 0 <= b - a /\ b - a < Modulus
  BY ModulusAssumption
<1>2. g + (b - a) = g \/ g + (b - a) - Modulus = g
  BY <1>1 DEF Shifted
<1> QED
  BY <1>1, <1>2

\* Fewer than 2^32 adoptions apart, equal generations mean the same adoption.
LEMMA HandleInvImpliesStale ==
    ASSUME TypeOK, HandleInv
    PROVE  StaleHandleNeverMatches
<1> SUFFICES ASSUME NEW h \in issued, Valid(h), ~Wrapped(h)
             PROVE  h.adoption = adoptions[h.id]
  BY DEF StaleHandleNeverMatches
<1>1. h.id \in Ids /\ h.adoption \in Nat
  BY DEF TypeOK, Handles
<1>2. adoptions[h.id] \in Nat
  BY <1>1 DEF TypeOK
<1>3. adoptions[h.id] < h.adoption + Modulus /\ generation[h.id] = h.generation
  BY <1>1, <1>2, ModulusAssumption DEF Wrapped, Valid
<1>4. /\ h.adoption <= adoptions[h.id]
      /\ h.generation \in 0..(Modulus - 1)
      /\ generation[h.id] = Shifted(h.generation, adoptions[h.id] - h.adoption)
  BY <1>3 DEF HandleInv
<1> QED
  BY <1>1, <1>2, <1>3, <1>4, ShiftedApart

\* Generations do their work whatever scripts, other plugins and the server do,
\* in every kind of pool: a handle whose adoption is over never matches again
\* before its slot has been adopted 2^32 times (Adopt, Release, Valid).
THEOREM StaleHandles == Spec => []StaleHandleNeverMatches
<1>1. TypeOK /\ HandleInv => StaleHandleNeverMatches
  BY HandleInvImpliesStale
<1> QED
  BY <1>1, HandleAlways, PTL

\* An adoption has one userdata at most, however often and from however deep in
\* the call stack it is pushed (Push): the handle is an identity.
THEOREM HandleUnique == Spec => []OneHandlePerLifetime
<1>1. HandleInv => OneHandlePerLifetime
  BY DEF HandleInv
<1> QED
  BY <1>1, HandleAlways, PTL


-----------------------------------------------------------------------------
(***************************************************************************)
(* What each kind of step does to the calls in progress.                   *)
(***************************************************************************)
\* No two Delete* calls on one entity are in progress, but for blips.
OneDelete ==
    \A j, k \in 1..Len(stack) :
        /\ stack[j].op = "delete" /\ stack[k].op = "delete"
        /\ stack[j].id = stack[k].id /\ stack[j].id \notin Blips
        => j = k

\* Create* becomes the innermost call.
LEMMA CreateEffect ==
    ASSUME TypeOK, NEW i \in Ids, NEW by \in Plugins, Create(i, by)
    PROVE  \E c \in Calls :
            /\ c.op = "create" /\ c.id = i /\ c.life = entities + 1 /\ c.by = by
            /\ c.phase = IF by = "us" THEN "ours" ELSE "before"
            /\ InProgress' = InProgress \cup {c}
            /\ OneDelete => OneDelete'
<1> DEFINE c == Call("create", i, entities', by, IF by = "us" THEN "ours" ELSE "before")
<1>1. entities' = entities + 1 /\ stack' = Append(stack, c)
  BY DEF Create
<1>2. /\ c \in Calls
      /\ c.op = "create" /\ c.id = i /\ c.life = entities + 1 /\ c.by = by
      /\ c.phase = IF by = "us" THEN "ours" ELSE "before"
  BY <1>1 DEF Call, Calls, TypeOK, Phases
<1> HIDE DEF c
<1>0. stack \in Seq(Calls)
  BY Zenon DEF TypeOK
<1>a. Len(stack) \in Nat
  BY ONLY <1>0
<1>3. /\ InProgress' = InProgress \cup {c} /\ Len(stack) \in Nat
      /\ Len(stack') = Len(stack) + 1 /\ stack'[Len(stack) + 1] = c
      /\ \A k \in 1..Len(stack) : stack'[k] = stack[k]
  BY ONLY <1>0, <1>a, <1>1, <1>2, AppendedCalls, Zenon
<1>4. OneDelete => OneDelete'
  <2>1. \A k \in 1..Len(stack') : stack'[k].op = "delete" => k \in 1..Len(stack)
    BY ONLY <1>2, <1>3
  <2> QED
    BY ONLY <1>3, <2>1 DEF OneDelete
<1> QED
  BY <1>2, <1>3, <1>4

\* Delete* becomes the innermost call.
LEMMA DeleteEffect ==
    ASSUME TypeOK, NEW i \in Ids, NEW by \in Plugins, NEW p \in Phases, Delete(i, by, p)
    PROVE  \E c \in Calls :
            /\ c.op = "delete" /\ c.id = i /\ c.life = life[i] /\ c.by = by
            /\ c.phase = p
            /\ InProgress' = InProgress \cup {c}
            /\ OneDelete => OneDelete'
<1> DEFINE c == Call("delete", i, life[i], by, p)
<1>1. stack' = Append(stack, c)
  BY DEF Delete
<1>2. /\ c \in Calls
      /\ c.op = "delete" /\ c.id = i /\ c.life = life[i] /\ c.by = by /\ c.phase = p
  BY DEF Call, Calls, TypeOK
<1> HIDE DEF c
<1>0. stack \in Seq(Calls)
  BY Zenon DEF TypeOK
<1>a. Len(stack) \in Nat
  BY ONLY <1>0
<1>3. /\ InProgress' = InProgress \cup {c} /\ Len(stack) \in Nat
      /\ Len(stack') = Len(stack) + 1 /\ stack'[Len(stack) + 1] = c
      /\ \A k \in 1..Len(stack) : stack'[k] = stack[k]
  BY ONLY <1>0, <1>a, <1>1, <1>2, AppendedCalls, Zenon
<1>4. OneDelete => OneDelete'
  <2>1. \A k \in 1..Len(stack) : i \notin Blips => ~(stack[k].op = "delete" /\ stack[k].id = i)
    BY DEF Delete, InProgress
  <2>2. \A k \in 1..Len(stack') : k \in 1..Len(stack) \/ k = Len(stack) + 1
    BY <1>3
  <2> QED
    BY <1>2, <1>3, <2>1, <2>2 DEF OneDelete
<1> QED
  BY <1>2, <1>3, <1>4

\* The event of the innermost call moves on.
LEMMA ReachEffect ==
    ASSUME TypeOK, stack # << >>, NEW p \in Phases, Reaches(p)
    PROVE  \E c \in Calls :
            /\ c.op = Top.op /\ c.id = Top.id /\ c.life = Top.life /\ c.by = Top.by
            /\ c.phase = p
            /\ Top \in Calls /\ InProgress = Below \cup {Top}
            /\ InProgress' = Below \cup {c}
            /\ OneDelete => OneDelete'
<1> DEFINE c == [Top EXCEPT !.phase = p]
<1>1. /\ Len(stack) \in Nat \ {0} /\ Len(stack') = Len(stack)
      /\ \A k \in 1..(Len(stack) - 1) : stack'[k] = stack[k]
      /\ stack'[Len(stack)] = c /\ stack[Len(stack)] = Top
      /\ Top \in Calls /\ InProgress = Below \cup {Top}
      /\ InProgress' = Below \cup {c}
  BY ReachedCalls DEF TypeOK
<1>2. /\ c \in Calls /\ c.op = Top.op /\ c.id = Top.id /\ c.life = Top.life
      /\ c.by = Top.by /\ c.phase = p
  BY <1>1 DEF Calls
<1> HIDE DEF c
<1>3. \A k \in 1..Len(stack) : stack'[k].op = stack[k].op /\ stack'[k].id = stack[k].id
  <2>1. \A k \in 1..Len(stack) : k \in 1..(Len(stack) - 1) \/ k = Len(stack)
    BY <1>1
  <2> QED
    BY <1>1, <1>2, <2>1
<1>4. OneDelete => OneDelete'
  BY <1>1, <1>3 DEF OneDelete
<1> QED
  BY <1>1, <1>2, <1>4

\* The innermost call returns.
LEMMA ReturnEffect ==
    ASSUME TypeOK, stack # << >>, stack' = Popped
    PROVE  /\ Top \in Calls /\ InProgress = Below \cup {Top} /\ InProgress' = Below
           /\ OneDelete => OneDelete'
           /\ OneDelete /\ Top.op = "delete" /\ Top.id \notin Blips =>
                \A c \in Below : ~(c.op = "delete" /\ c.id = Top.id)
<1>1. /\ Len(stack) \in Nat \ {0} /\ Len(stack') = Len(stack) - 1
      /\ Top = stack[Len(stack)]
      /\ \A k \in 1..(Len(stack) - 1) : stack'[k] = stack[k]
      /\ Top \in Calls /\ InProgress = Below \cup {Top} /\ InProgress' = Below
  BY PoppedCalls, ReturnedCalls DEF TypeOK
<1>2. \A k \in 1..(Len(stack) - 1) : k \in 1..Len(stack) /\ k # Len(stack)
  BY <1>1
<1>3. Len(stack) \in 1..Len(stack)
  BY <1>1
<1>4. OneDelete => OneDelete'
  <2>1. OneDelete => \A j, k \in 1..(Len(stack) - 1) :
            /\ stack[j].op = "delete" /\ stack[k].op = "delete"
            /\ stack[j].id = stack[k].id /\ stack[j].id \notin Blips
            => j = k
    BY <1>2 DEF OneDelete
  <2> QED
    BY ONLY <1>1, <2>1 DEF OneDelete
<1>5. OneDelete /\ Top.op = "delete" /\ Top.id \notin Blips =>
        \A c \in Below : ~(c.op = "delete" /\ c.id = Top.id)
  BY <1>1, <1>2, <1>3 DEF OneDelete, Below
<1> QED
  BY <1>1, <1>4, <1>5

\* Between callbacks no call is in progress.
LEMMA NoCalls == ASSUME stack = << >> PROVE InProgress = {} /\ OneDelete
BY EmptySeq DEF InProgress, OneDelete

\* The calls in progress are calls.
LEMMA CallsTyped ==
    ASSUME TypeOK
    PROVE  \A c \in InProgress : /\ c \in Calls /\ c.id \in Ids /\ c.life \in Nat
                                 /\ c.op \in {"create", "delete"}
                                 /\ c.by \in Plugins /\ c.phase \in Phases
<1>1. \A k \in 1..Len(stack) : stack[k] \in Calls
  BY ElementOfSeq DEF TypeOK
<1>2. \A c \in InProgress : c \in Calls
  BY <1>1 DEF InProgress
<1> QED
  BY <1>2 DEF Calls

-----------------------------------------------------------------------------
(***************************************************************************)
(* The server's entities and the calls on them, whatever the pool does.    *)
(***************************************************************************)
\* A call names an entity that was created; the owner of the current one made
\* the call that created it; an entity exists as long as its one Delete* call
\* runs, and a blip that exists is not the one that is being deleted.
CallOk(c, e, l, o, n) ==
    /\ c.life <= n
    /\ c.op = "create" /\ c.life = l => o = c.by
    /\ c.op = "delete" => IF c.id \in Blips THEN e => c.life # l ELSE e /\ c.life = l

CallsInv ==
    /\ OneDelete
    /\ \A i \in Ids : life[i] <= entities
    /\ \A c \in InProgress : CallOk(c, exists[c.id], life[c.id], owner[c.id], entities)

\* Every action of Next that the server takes part in, in these terms.
LEMMA CallsStep ==
    ASSUME TypeOK, CallsInv, [Next]_vars
    PROVE  CallsInv'
<1>1. ASSUME NEW i \in Ids, NEW by \in Plugins, Create(i, by)
      PROVE  CallsInv'
  <2>1. PICK c \in Calls :
            /\ c.op = "create" /\ c.id = i /\ c.life = entities + 1 /\ c.by = by
            /\ InProgress' = InProgress \cup {c}
            /\ OneDelete => OneDelete'
    BY <1>1, CreateEffect
  <2>2. /\ entities' = entities + 1 /\ entities \in Nat /\ ~exists[i]
        /\ \A j \in Ids : life[j] \in Nat
        /\ \A j \in Ids : j # i => /\ exists'[j] = exists[j] /\ life'[j] = life[j]
                                  /\ owner'[j] = owner[j]
        /\ exists'[i] /\ life'[i] = entities + 1 /\ owner'[i] = by
    BY <1>1 DEF Create, TypeOK
  <2>3. \A d \in InProgress : d.id \in Ids /\ d.life \in Nat
    BY CallsTyped
  <2>4. \A j \in Ids : life'[j] <= entities'
    <3>1. \A j \in Ids : life[j] <= entities
      BY Zenon DEF CallsInv
    <3> QED BY ONLY <2>2, <3>1
  <2>5. ASSUME NEW d \in InProgress
        PROVE  CallOk(d, exists'[d.id], life'[d.id], owner'[d.id], entities')
    <3>1. CallOk(d, exists[d.id], life[d.id], owner[d.id], entities) /\ d.id \in Ids /\ d.life \in Nat
      BY <2>3, Zenon DEF CallsInv
    <3>2. CASE d.id = i
      BY ONLY <2>2, <3>1, <3>2 DEF CallOk
    <3>3. CASE d.id # i
      BY ONLY <2>2, <3>1, <3>3 DEF CallOk
    <3> QED BY ONLY <3>2, <3>3
  <2>6. CallOk(c, exists'[c.id], life'[c.id], owner'[c.id], entities')
    BY ONLY <2>1, <2>2 DEF CallOk
  <2> QED
    BY <2>1, <2>4, <2>5, <2>6, Zenon DEF CallsInv
<1>2. ASSUME NEW i \in Ids, NEW by \in Plugins, NEW p \in Phases, Delete(i, by, p)
      PROVE  CallsInv'
  <2>1. PICK c \in Calls :
            /\ c.op = "delete" /\ c.id = i /\ c.life = life[i]
            /\ InProgress' = InProgress \cup {c}
            /\ OneDelete => OneDelete'
    BY <1>2, DeleteEffect
  <2>2. /\ exists[i] /\ UNCHANGED <<life, entities, owner>>
        /\ \A j \in Ids : j # i \/ i \notin Blips => exists'[j] = exists[j]
        /\ i \in Blips => ~exists'[i]
    BY <1>2 DEF Delete, TypeOK
  <2>3. \A d \in InProgress : d.id \in Ids
    BY CallsTyped
  <2>4. ASSUME NEW d \in InProgress
        PROVE  CallOk(d, exists'[d.id], life'[d.id], owner'[d.id], entities')
    BY <2>2, <2>3 DEF CallsInv, CallOk
  <2>5. CallOk(c, exists'[c.id], life'[c.id], owner'[c.id], entities')
    BY <2>1, <2>2 DEF CallOk, CallsInv
  <2> QED
    BY <2>1, <2>2, <2>4, <2>5, Zenon DEF CallsInv
<1>3. ASSUME NEW i \in Ids, OtherDeletes(i) \/ Destroy(i) \/ DeleteCreated(i)
      PROVE  CallsInv'
  BY <1>3, <1>2, Zenon DEF OtherDeletes, Destroy, DeleteCreated, Plugins, Phases
<1>4. ASSUME stack # << >>, NEW p \in Phases, Reaches(p), UNCHANGED serverVars
      PROVE  CallsInv'
  <2>1. PICK c \in Calls :
            /\ c.op = Top.op /\ c.id = Top.id /\ c.life = Top.life /\ c.by = Top.by
            /\ InProgress = Below \cup {Top} /\ InProgress' = Below \cup {c}
            /\ OneDelete => OneDelete'
    BY <1>4, ReachEffect
  <2>2. UNCHANGED <<exists, life, entities, owner>>
    BY <1>4 DEF serverVars
  <2>3. CallOk(Top, exists[Top.id], life[Top.id], owner[Top.id], entities)
    BY <2>1 DEF CallsInv
  <2>4. CallOk(c, exists'[c.id], life'[c.id], owner'[c.id], entities')
    BY <2>1, <2>2, <2>3, Zenon DEF CallOk
  <2> QED
    BY <2>1, <2>2, <2>4, Zenon DEF CallsInv
<1>5. CASE Report \/ HandlersReturn \/ HandlersThrow
  BY <1>4, <1>5, Zenon DEF Report, HandlersReturn, HandlersThrow, Phases
<1>6. CASE CreateReturns
  <2>1. InProgress = Below \cup {Top} /\ InProgress' = Below /\ (OneDelete => OneDelete')
    BY <1>6, ReturnEffect DEF CreateReturns
  <2>2. UNCHANGED <<exists, life, entities, owner>>
    BY <1>6 DEF CreateReturns, serverVars
  <2> QED
    BY <2>1, <2>2, Zenon DEF CallsInv
<1>7. CASE DeleteReturns
  <2>1. /\ Top \in Calls /\ InProgress = Below \cup {Top} /\ InProgress' = Below
        /\ OneDelete /\ OneDelete'
        /\ Top.id \notin Blips => \A c \in Below : ~(c.op = "delete" /\ c.id = Top.id)
    BY <1>7, ReturnEffect DEF DeleteReturns, CallsInv
  <2>2. /\ UNCHANGED <<life, entities, owner>> /\ Top.id \in Ids
        /\ \A j \in Ids : exists'[j] = (exists[j] /\ (j = Top.id => j \in Blips))
    BY <1>7, <2>1 DEF DeleteReturns, TypeOK, Calls
  <2>3. \A d \in InProgress : d.id \in Ids
    BY CallsTyped
  <2>4. ASSUME NEW d \in Below
        PROVE  CallOk(d, exists'[d.id], life'[d.id], owner'[d.id], entities')
    <3>1. CallOk(d, exists[d.id], life[d.id], owner[d.id], entities) /\ d.id \in Ids
      BY <2>1, <2>3, Zenon DEF CallsInv
    <3>2. CASE d.id = Top.id
      BY ONLY <2>1, <2>2, <3>1, <3>2, d \in Below DEF CallOk
    <3>3. CASE d.id # Top.id
      BY ONLY <2>2, <3>1, <3>3 DEF CallOk
    <3> QED BY ONLY <3>2, <3>3
  <2> QED
    BY <2>1, <2>2, <2>4, Zenon DEF CallsInv
<1>8. ASSUME UNCHANGED <<serverVars, stack>>
      PROVE  CallsInv'
  BY <1>8 DEF serverVars, CallsInv, OneDelete, InProgress
<1>9. CASE ReloadEnds
  <2>1. InProgress' = {} /\ OneDelete' /\ UNCHANGED <<life, entities>>
    BY <1>9, NoCalls DEF ReloadEnds, InProgress, OneDelete
  <2> QED
    BY <2>1, Zenon DEF CallsInv
<1>10. ASSUME NEW i \in Ids, \/ DestroyMissingBlip(i) \/ DeleteMissing(i) \/ Lookup(i)
                            \/ SetData(i) \/ EntityEvent(i)
       PROVE  CallsInv'
  BY <1>8, <1>10, Zenon DEF DestroyMissingBlip, DeleteMissing, Lookup, SetData, EntityEvent
<1>11. CASE ReloadBegins \/ DeleteCreatedThrows \/ UNCHANGED vars
  BY <1>8, <1>11, Zenon DEF ReloadBegins, DeleteCreatedThrows, vars
<1> QED
  BY <1>1, <1>3, <1>5, <1>6, <1>7, <1>9, <1>10, <1>11, Zenon DEF Next

-----------------------------------------------------------------------------
(***************************************************************************)
(* The pool follows the server on every id of which this plugin has heard  *)
(* in order.  F stands for the calls in progress, n for the entity.        *)
(***************************************************************************)
Coming(i, n, F) ==
    \E c \in F : c.op = "create" /\ c.id = i /\ c.life = n /\ c.phase = "before"

Dying(i, n, F) ==
    \E c \in F : c.op = "delete" /\ c.id = i /\ c.life = n /\ c.phase # "after"

Dead(i, n, F) ==
    \E c \in F : c.op = "delete" /\ c.id = i /\ c.life = n /\ c.phase = "after"

\* Where e says whether the entity exists and a whether its slot is alive.  The
\* entity is alive in the pool unless this plugin does not know of it yet or has
\* handled its end; a slot is alive for an entity that exists or is about to be
\* released; and a deletion still to be heard of is the one of entity n.
Ordered(i, e, a, n, F) ==
    /\ e => a \/ Coming(i, n, F) \/ Dead(i, n, F)
    /\ a => (e /\ ~Dead(i, n, F)) \/ Dying(i, n, F)
    /\ \A c \in F : c.op = "delete" /\ c.id = i /\ c.phase # "after" =>
            c.life = n /\ (i \in Blips => ~e)

OrderInv ==
    mode = "live" =>
        \A i \in Ids \ disorder : Ordered(i, exists[i], alive[i], life[i], InProgress)

\* Calls on other ids do not matter.
LEMMA OrderedElsewhere ==
    ASSUME NEW i, NEW e, NEW a, NEW n, NEW F, NEW G,
           \A c \in F : c.id = i => c \in G, \A c \in G : c.id = i => c \in F,
           Ordered(i, e, a, n, F)
    PROVE  Ordered(i, e, a, n, G)
<1>1. (Coming(i, n, F) <=> Coming(i, n, G)) /\ (Dying(i, n, F) <=> Dying(i, n, G))
      /\ (Dead(i, n, F) <=> Dead(i, n, G))
  BY Zenon DEF Coming, Dying, Dead
<1> QED
  BY <1>1, Zenon DEF Ordered

\* A new entity, on a slot that is not alive.
LEMMA CreateOrdered ==
    ASSUME TypeOK, CallsInv, OrderInv, mode = "live", doomed = {},
           NEW i \in Ids, NEW by \in Plugins, Create(i, by),
           NEW j \in Ids \ disorder'
    PROVE  Ordered(j, exists'[j], alive'[j], life'[j], InProgress')
<1>1. PICK c \in Calls :
          /\ c.op = "create" /\ c.id = i /\ c.life = entities + 1 /\ c.by = by
          /\ c.phase = IF by = "us" THEN "ours" ELSE "before"
          /\ InProgress' = InProgress \cup {c}
  BY CreateEffect
<1>2. /\ ~exists[i] /\ exists'[i] /\ life'[i] = entities + 1
      /\ by = "us" => alive'[i]
      /\ by # "us" => alive'[i] = alive[i]
      /\ j # i => /\ exists'[j] = exists[j] /\ life'[j] = life[j]
                  /\ alive'[j] = alive[j] /\ j \notin disorder
  <2>1. /\ ~exists[i] /\ exists'[i] /\ life'[i] = entities + 1
        /\ j # i => exists'[j] = exists[j] /\ life'[j] = life[j]
    BY DEF Create, TypeOK
  <2>2. j # i => j \notin disorder
    BY DEF Create
  <2>3. CASE by = "us"
    <3>1. Adopt(i, FALSE)
      BY <2>3 DEF Create
    <3> QED
      BY <2>1, <2>2, <2>3, <3>1 DEF Adopt, TypeOK
  <2>4. CASE by # "us"
    <3>1. alive' = alive
      BY <2>4 DEF Create, slotVars
    <3> QED
      BY <2>1, <2>2, <2>4, <3>1
  <2> QED
    BY <2>3, <2>4
<1>3. CASE j # i
  <2>1. Ordered(j, exists[j], alive[j], life[j], InProgress)
    BY <1>2, <1>3 DEF OrderInv
  <2>2. /\ \A d \in InProgress : d.id = j => d \in InProgress'
        /\ \A d \in InProgress' : d.id = j => d \in InProgress
    BY <1>1, <1>3
  <2> QED
    BY ONLY <1>2, <1>3, <2>1, <2>2, OrderedElsewhere, Zenon
<1>4. CASE j = i
  <2>1. /\ ~Unheard(i)
        /\ i \in disorder => ~alive[i]
    BY <1>4 DEF Create
  <2>2. \A d \in InProgress : ~(d.op = "delete" /\ d.id = i /\ d.phase # "after")
    BY <2>1 DEF Unheard
  <2>3. ~alive[i]
    <3>1. CASE i \notin disorder
      BY <1>2, <2>2, <3>1 DEF OrderInv, Ordered, Dying
    <3> QED BY <2>1, <3>1
  <2>4. ~Dead(i, entities + 1, InProgress')
    <3>1. \A d \in InProgress : d.life \in Nat /\ d.life <= entities /\ entities \in Nat
      BY CallsTyped DEF CallsInv, CallOk, TypeOK
    <3>2. \A d \in InProgress : d.life # entities + 1
      BY <3>1
    <3> QED
      BY <1>1, <3>2 DEF Dead
  <2>5. alive'[i] \/ Coming(i, entities + 1, InProgress')
    BY <1>1, <1>2 DEF Coming
  <2>6. alive'[i] => exists'[i]
    BY <1>2
  <2>7. \A d \in InProgress' : ~(d.op = "delete" /\ d.id = i /\ d.phase # "after")
    BY <1>1, <2>2
  <2> QED
    BY <1>2, <1>4, <2>4, <2>5, <2>6, <2>7 DEF Ordered
<1> QED
  BY <1>3, <1>4

\* An entity begins to go.
LEMMA DeleteOrdered ==
    ASSUME TypeOK, OrderInv, mode = "live",
           NEW i \in Ids, NEW by \in Plugins, NEW p \in Phases \ {"after"}, Delete(i, by, p),
           NEW j \in Ids \ disorder'
    PROVE  Ordered(j, exists'[j], alive'[j], life'[j], InProgress')
<1>1. PICK c \in Calls :
          /\ c.op = "delete" /\ c.id = i /\ c.life = life[i] /\ c.phase = p
          /\ InProgress' = InProgress \cup {c}
  BY DeleteEffect
<1>2. /\ exists[i] /\ exists'[i] = (i \notin Blips)
      /\ life' = life /\ alive' = alive /\ j \notin disorder
      /\ j # i => exists'[j] = exists[j]
  BY DEF Delete, TypeOK, slotVars
<1>3. Ordered(j, exists[j], alive[j], life[j], InProgress)
  BY <1>2 DEF OrderInv
<1>4. CASE j # i
  <2>1. /\ \A d \in InProgress : d.id = j => d \in InProgress'
        /\ \A d \in InProgress' : d.id = j => d \in InProgress
    BY <1>1, <1>4
  <2> QED
    BY ONLY <1>2, <1>3, <1>4, <2>1, OrderedElsewhere, Zenon
<1>5. CASE j = i
  <2>1. Dying(i, life[i], InProgress')
    BY <1>1 DEF Dying
  <2>2. exists'[i] => alive[i] \/ Coming(i, life[i], InProgress') \/ Dead(i, life[i], InProgress')
    BY <1>1, <1>2, <1>3, <1>5 DEF Ordered, Coming, Dead
  <2>3. \A d \in InProgress' : d.op = "delete" /\ d.id = i /\ d.phase # "after" =>
            d.life = life[i] /\ (i \in Blips => ~exists'[i])
    BY <1>1, <1>2, <1>3, <1>5 DEF Ordered
  <2> QED
    BY <1>2, <1>5, <2>1, <2>2, <2>3 DEF Ordered
<1> QED
  BY <1>4, <1>5

\* A call other than the innermost one, and any call on another id, stays.
LEMMA ReachElsewhere ==
    ASSUME TypeOK, OrderInv, mode = "live", NEW c, c.id = Top.id,
           InProgress = Below \cup {Top}, InProgress' = Below \cup {c} \/ InProgress' = Below,
           NEW j \in Ids \ disorder, j # Top.id
    PROVE  Ordered(j, exists[j], alive[j], life[j], InProgress')
<1>1. Ordered(j, exists[j], alive[j], life[j], InProgress)
  BY DEF OrderInv
<1>2. /\ \A d \in InProgress : d.id = j => d \in InProgress'
      /\ \A d \in InProgress' : d.id = j => d \in InProgress
  OBVIOUS
<1> QED
  BY ONLY <1>1, <1>2, OrderedElsewhere, Zenon

\* The slot of an entity that is not over is adopted.
LEMMA AdoptedOrdered ==
    ASSUME NEW i, NEW n, NEW F, NEW G, NEW a, Ordered(i, TRUE, a, n, F), ~Dead(i, n, F),
           \A d \in G : d.op = "delete" => d \in F
    PROVE  Ordered(i, TRUE, TRUE, n, G)
<1>1. ~Dead(i, n, G)
  BY Zenon DEF Dead
<1> QED
  BY <1>1, Zenon DEF Ordered

\* The event of another plugin's call reaches this one.
LEMMA ReportOrdered ==
    ASSUME TypeOK, OrderInv, mode = "live", Report, NEW j \in Ids \ disorder'
    PROVE  Ordered(j, exists'[j], alive'[j], life'[j], InProgress')
<1>1. stack # << >> /\ Top.phase = "before" /\ Reaches("ours") /\ "ours" \in Phases
  BY DEF Report, Phases
<1>2. PICK c \in Calls :
          /\ c.op = Top.op /\ c.id = Top.id /\ c.life = Top.life /\ c.phase = "ours"
          /\ Top \in Calls /\ InProgress = Below \cup {Top} /\ InProgress' = Below \cup {c}
  BY <1>1, ReachEffect
<1>3. /\ Top.id \in Ids /\ Top.op \in {"create", "delete"}
      /\ exists' = exists /\ life' = life
  BY <1>2 DEF Calls, Report, serverVars
<1>4. CASE Top.op = "create"
  <2>1. /\ \A k \in Ids : alive'[k] = (k = Top.id \/ alive[k])
        /\ disorder \subseteq disorder'
        /\ Over(Top.id, Top.life) => Top.id \in disorder'
    BY <1>3, <1>4 DEF Report, Adopt, Heard, TypeOK
  <2>2. CASE j = Top.id
    <3>1. exists[j] /\ life[j] = Top.life /\ ~Told(j, life[j])
      BY <2>1, <2>2 DEF Over
    <3>2. ~Dead(j, life[j], InProgress)
      BY <3>1 DEF Told, Dead
    <3>3. exists[j] = TRUE /\ alive'[j] = TRUE
      BY <2>1, <2>2, <3>1 DEF TypeOK
    <3>4. Ordered(j, TRUE, alive[j], life[j], InProgress)
      BY <2>1, <3>3 DEF OrderInv
    <3>5. \A d \in InProgress' : d.op = "delete" => d \in InProgress
      BY <1>2, <1>4
    <3>6. Ordered(j, TRUE, TRUE, life[j], InProgress')
      BY ONLY <3>2, <3>4, <3>5, AdoptedOrdered, Zenon
    <3> QED
      BY <1>3, <3>3, <3>6
  <2>3. CASE j # Top.id
    <3>1. alive'[j] = alive[j] /\ j \notin disorder
      BY <2>1, <2>3 DEF TypeOK
    <3> QED
      BY <1>2, <1>3, <2>3, <3>1, ReachElsewhere
  <2> QED
    BY <2>2, <2>3
<1>5. CASE Top.op = "delete"
  <2>1. alive' = alive /\ disorder' = disorder
    BY <1>5 DEF Report, slotVars
  <2>2. CASE j = Top.id
    <3>1. Ordered(j, exists[j], alive[j], life[j], InProgress)
      BY <2>1 DEF OrderInv
    <3>2. /\ Coming(j, life[j], InProgress) <=> Coming(j, life[j], InProgress')
          /\ Dying(j, life[j], InProgress) <=> Dying(j, life[j], InProgress')
          /\ Dead(j, life[j], InProgress) <=> Dead(j, life[j], InProgress')
      BY <1>1, <1>2, <1>5 DEF Coming, Dying, Dead
    <3>3. \A d \in InProgress' : d.op = "delete" /\ d.id = j /\ d.phase # "after" =>
            d.life = life[j] /\ (j \in Blips => ~exists[j])
      BY <1>1, <1>2, <1>5, <2>2, <3>1 DEF Ordered
    <3> QED
      BY <1>3, <2>1, <3>1, <3>2, <3>3 DEF Ordered
  <2>3. CASE j # Top.id
    BY <1>2, <1>3, <2>1, <2>3, ReachElsewhere
  <2> QED
    BY <2>2, <2>3
<1> QED
  BY <1>3, <1>4, <1>5

\* This plugin has handled the innermost event.
LEMMA HandledOrdered ==
    ASSUME TypeOK, OrderInv, mode = "live", HandlersReturn \/ HandlersThrow,
           NEW j \in Ids \ disorder'
    PROVE  Ordered(j, exists'[j], alive'[j], life'[j], InProgress')
<1>1. stack # << >> /\ Top.phase = "ours" /\ Reaches("after") /\ "after" \in Phases
  BY DEF HandlersReturn, HandlersThrow, Phases
<1>2. PICK c \in Calls :
          /\ c.op = Top.op /\ c.id = Top.id /\ c.life = Top.life /\ c.phase = "after"
          /\ Top \in Calls /\ InProgress = Below \cup {Top} /\ InProgress' = Below \cup {c}
  BY <1>1, ReachEffect
<1>3. /\ Top.id \in Ids /\ Top.op \in {"create", "delete"}
      /\ exists' = exists /\ life' = life /\ j \notin disorder
  BY <1>2 DEF Calls, HandlersReturn, HandlersThrow, serverVars
<1>4. Ordered(j, exists[j], alive[j], life[j], InProgress)
  BY <1>3 DEF OrderInv
<1>5. CASE j # Top.id
  <2>1. alive'[j] = alive[j]
    BY <1>3, <1>5 DEF HandlersReturn, HandlersThrow, Release, TypeOK, slotVars
  <2> QED
    BY <1>2, <1>3, <1>5, <2>1, ReachElsewhere
<1>6. CASE j = Top.id /\ Top.op = "create"
  <2>1. alive' = alive
    BY <1>6 DEF HandlersReturn, HandlersThrow, slotVars
  <2>2. /\ Coming(j, life[j], InProgress) <=> Coming(j, life[j], InProgress')
        /\ Dying(j, life[j], InProgress) <=> Dying(j, life[j], InProgress')
        /\ Dead(j, life[j], InProgress) <=> Dead(j, life[j], InProgress')
    BY <1>1, <1>2, <1>6 DEF Coming, Dying, Dead
  <2>3. \A d \in InProgress' : d.op = "delete" => d \in InProgress
    BY <1>2, <1>6
  <2> QED
    BY <1>3, <1>4, <2>1, <2>2, <2>3 DEF Ordered
<1>7. CASE j = Top.id /\ Top.op = "delete"
  <2>1. HandlersReturn
    BY <1>7 DEF HandlersThrow
  <2>2. ~alive'[j]
    BY <1>3, <1>7, <2>1 DEF HandlersReturn, Release, TypeOK
  <2>3. Top.life = life[j]
    BY <1>1, <1>2, <1>4, <1>7 DEF Ordered
  <2>4. Dead(j, life[j], InProgress')
    BY <1>2, <1>7, <2>3 DEF Dead
  <2>5. \A d \in InProgress' : d.op = "delete" /\ d.phase # "after" => d \in InProgress
    BY <1>2
  <2> QED
    BY <1>3, <1>4, <2>2, <2>4, <2>5 DEF Ordered
<1> QED
  BY <1>3, <1>5, <1>6, <1>7

\* A call returns.
LEMMA ReturnOrdered ==
    ASSUME TypeOK, CallsInv, OrderInv, mode = "live", CreateReturns \/ DeleteReturns,
           NEW j \in Ids \ disorder'
    PROVE  Ordered(j, exists'[j], alive'[j], life'[j], InProgress')
<1>1. stack # << >> /\ Top.phase = "after" /\ stack' = Popped
  BY DEF CreateReturns, DeleteReturns
<1>2. /\ Top \in Calls /\ InProgress = Below \cup {Top} /\ InProgress' = Below
      /\ Top.op = "delete" /\ Top.id \notin Blips =>
            \A c \in Below : ~(c.op = "delete" /\ c.id = Top.id)
      /\ Top.id \in Ids
  BY <1>1, ReturnEffect DEF CallsInv, Calls
<1>3. life' = life /\ j \notin disorder
  BY DEF CreateReturns, DeleteReturns, serverVars, Heard
<1>4. Ordered(j, exists[j], alive[j], life[j], InProgress)
  BY <1>3 DEF OrderInv
<1>5. CASE j # Top.id
  <2>1. exists'[j] = exists[j]
    BY <1>5 DEF CreateReturns, DeleteReturns, serverVars, TypeOK
  <2>2. alive'[j] = alive[j]
    BY <1>2, <1>5 DEF CreateReturns, DeleteReturns, Adopt, Release, TypeOK, slotVars
  <2> QED
    BY <1>2, <1>3, <1>5, <2>1, <2>2, ReachElsewhere
<1>6. CASE j = Top.id /\ CreateReturns
  <2>1. exists' = exists /\ Top.op = "create"
    BY <1>6 DEF CreateReturns, serverVars
  <2>2. CASE Top.by = "us"
    <3>1. alive'[j] /\ (Over(j, Top.life) => j \in disorder')
      BY <1>2, <1>6, <2>2 DEF CreateReturns, Adopt, Heard, TypeOK
    <3>2. exists[j] /\ life[j] = Top.life /\ ~Told(j, life[j])
      BY <3>1 DEF Over
    <3>3. ~Dead(j, life[j], InProgress)
      BY <3>2 DEF Told, Dead
    <3>4. exists[j] = TRUE /\ alive'[j] = TRUE
      BY <1>2, <1>6, <2>2, <3>1, <3>2 DEF TypeOK, CreateReturns, Adopt
    <3>5. Ordered(j, TRUE, alive[j], life[j], InProgress)
      BY <1>4, <3>4
    <3>6. \A d \in InProgress' : d.op = "delete" => d \in InProgress
      BY <1>2
    <3>7. Ordered(j, TRUE, TRUE, life[j], InProgress')
      BY ONLY <3>3, <3>5, <3>6, AdoptedOrdered, Zenon
    <3> QED
      BY <1>3, <2>1, <3>4, <3>7
  <2>3. CASE Top.by # "us"
    <3>1. alive' = alive
      BY <1>6, <2>3 DEF CreateReturns, slotVars
    <3>2. /\ Coming(j, life[j], InProgress) <=> Coming(j, life[j], InProgress')
          /\ Dying(j, life[j], InProgress) <=> Dying(j, life[j], InProgress')
          /\ Dead(j, life[j], InProgress) <=> Dead(j, life[j], InProgress')
      BY <1>1, <1>2, <2>1 DEF Coming, Dying, Dead
    <3> QED
      BY <1>2, <1>3, <1>4, <2>1, <3>1, <3>2 DEF Ordered
  <2> QED
    BY <2>2, <2>3
<1>7. CASE j = Top.id /\ DeleteReturns
  <2>1. Top.op = "delete" /\ exists'[j] = (j \in Blips /\ exists[j])
    BY <1>2, <1>7 DEF DeleteReturns, TypeOK
  <2>2. CallOk(Top, exists[j], life[j], owner[j], entities)
    BY <1>2, <1>7 DEF CallsInv
  <2>3. CASE Top.by = "us"
    <3>1. ~alive'[j] /\ (exists'[j] /\ life[j] # Top.life => j \in disorder')
      BY <1>2, <1>7, <2>3 DEF DeleteReturns, Release, Heard, TypeOK
    <3>2. ~exists'[j]
      BY <1>7, <2>1, <2>2, <3>1 DEF CallOk
    <3> QED
      BY <1>2, <1>3, <1>4, <3>1, <3>2 DEF Ordered
  <2>4. CASE Top.by # "us"
    <3>1. alive' = alive
      BY <1>7, <2>4 DEF DeleteReturns, slotVars
    <3>2. CASE j \notin Blips
      <4>1. ~exists'[j] /\ \A c \in Below : ~(c.op = "delete" /\ c.id = j)
        BY <1>2, <1>7, <2>1, <3>2
      <4>2. Dead(j, life[j], InProgress)
        BY <1>1, <1>2, <1>7, <2>1, <2>2, <3>2 DEF Dead, CallOk
      <4>3. ~Dying(j, life[j], InProgress)
        BY <1>1, <1>2, <4>1 DEF Dying
      <4>4. ~alive[j]
        BY <1>4, <4>2, <4>3 DEF Ordered
      <4> QED
        BY <1>2, <1>3, <3>1, <4>1, <4>4 DEF Ordered
    <3>3. CASE j \in Blips
      <4>1. exists'[j] = exists[j]
        BY <2>1, <3>3 DEF TypeOK
      <4>2. /\ Coming(j, life[j], InProgress) <=> Coming(j, life[j], InProgress')
            /\ Dying(j, life[j], InProgress) <=> Dying(j, life[j], InProgress')
            /\ Dead(j, life[j], InProgress') => Dead(j, life[j], InProgress)
            /\ exists[j] => (Dead(j, life[j], InProgress) <=> Dead(j, life[j], InProgress'))
        BY <1>1, <1>2, <1>7, <2>1, <2>2, <3>3 DEF Coming, Dying, Dead, CallOk
      <4> QED
        BY <1>2, <1>3, <1>4, <3>1, <4>1, <4>2 DEF Ordered
    <3> QED
      BY <3>2, <3>3
  <2> QED
    BY <2>3, <2>4
<1> QED
  BY <1>5, <1>6, <1>7

\* Data belongs to a slot that is alive, and a reload is the only time that
\* DeleteCreated runs.
PoolInv ==
    /\ \A i \in Ids : ~alive[i] => data[i] = 0
    /\ mode = "live" => doomed = {}

\* A slot that is released drops its data table.
LEMMA PoolStep ==
    ASSUME TypeOK, PoolInv, [Next]_vars
    PROVE  PoolInv'
<1>1. ASSUME SlotStep
      PROVE  \A i \in Ids : ~alive'[i] => data'[i] = 0
  <2> USE DEF PoolInv, TypeOK
  <2>1. CASE UNCHANGED <<slotVars, refVars>>
    BY <2>1 DEF slotVars, refVars
  <2>2. ASSUME NEW i \in Ids, NEW mark \in BOOLEAN, Adopt(i, mark), data' = data
        PROVE  \A j \in Ids : ~alive'[j] => data'[j] = 0
    BY <2>2 DEF Adopt
  <2>3. ASSUME NEW i \in Ids, Release(i)
        PROVE  \A j \in Ids : ~alive'[j] => data'[j] = 0
    BY <2>3 DEF Release
  <2>4. ASSUME NEW i \in Ids, Push(i)
        PROVE  data' = data
    BY <2>4 DEF Push, refVars
  <2>5. ASSUME NEW i \in Ids, UNCHANGED <<slotVars, life>>, alive[i], Push(i)
        PROVE  \A j \in Ids : ~alive'[j] => data'[j] = 0
    BY <2>4, <2>5 DEF slotVars
  <2>6. ASSUME NEW i \in Ids, UNCHANGED slotVars, alive[i], data' = [data EXCEPT ![i] = life[i]]
        PROVE  \A j \in Ids : ~alive'[j] => data'[j] = 0
    BY <2>6 DEF slotVars
  <2> QED
    BY <1>1, <2>1, <2>2, <2>3, <2>4, <2>5, <2>6, Zenon DEF SlotStep, refVars
<1>2. CASE ReloadEnds
  BY <1>2 DEF ReloadEnds, PoolInv
<1>3. ASSUME Next, ~ReloadEnds
      PROVE  mode' = "live" => doomed' = {}
  <2> USE DEF PoolInv
  <2>1. ASSUME UNCHANGED reloadVars
        PROVE  mode' = "live" => doomed' = {}
    BY <2>1 DEF reloadVars
  <2>2. ASSUME NEW i \in Ids, NEW by \in Plugins, Create(i, by)
        PROVE  UNCHANGED reloadVars
    BY <2>2 DEF Create
  <2>3. ASSUME NEW i \in Ids, \/ OtherDeletes(i) \/ Destroy(i) \/ DestroyMissingBlip(i)
                              \/ Lookup(i) \/ SetData(i) \/ EntityEvent(i) \/ DeleteCreated(i)
        PROVE  UNCHANGED reloadVars
    BY <2>3, Zenon DEF OtherDeletes, Destroy, DestroyMissingBlip, Delete, Lookup, SetData,
                       EntityEvent, DeleteCreated
  <2>4. CASE Report \/ HandlersReturn \/ HandlersThrow \/ CreateReturns
    BY <2>1, <2>4, Zenon DEF Report, HandlersReturn, HandlersThrow, CreateReturns
  <2>5. CASE DeleteReturns
    BY <2>5 DEF DeleteReturns
  <2>6. ASSUME NEW i \in Ids, DeleteMissing(i)
        PROVE  mode' = "live" => doomed' = {}
    BY <2>6 DEF DeleteMissing
  <2>7. CASE ReloadBegins \/ DeleteCreatedThrows
    BY <2>7 DEF ReloadBegins, DeleteCreatedThrows
  <2> QED
    BY <1>3, <2>1, <2>2, <2>3, <2>4, <2>5, <2>6, <2>7, Zenon DEF Next
<1>4. CASE UNCHANGED vars
  BY <1>4 DEF vars, slotVars, refVars, reloadVars, PoolInv
<1> QED
  BY <1>1, <1>2, <1>3, <1>4, NextIsSlotStep, Zenon DEF PoolInv

\* While a reload runs there is no order to keep, and the steps of a reload
\* leave a runtime that has just begun.
LEMMA ReloadingSteps ==
    ASSUME TypeOK, Next, mode # "live" \/ mode' # "live"
    PROVE  mode' # "live" \/ ReloadEnds
<1>1. ASSUME UNCHANGED reloadVars
      PROVE  mode' # "live"
  BY <1>1 DEF reloadVars
<1>2. ASSUME NEW i \in Ids, NEW by \in Plugins, Create(i, by)
      PROVE  UNCHANGED reloadVars
  BY <1>2 DEF Create
<1>3. ASSUME NEW i \in Ids, \/ OtherDeletes(i) \/ Destroy(i) \/ DestroyMissingBlip(i)
                            \/ Lookup(i) \/ SetData(i) \/ EntityEvent(i) \/ DeleteCreated(i)
      PROVE  UNCHANGED reloadVars
  BY <1>3, Zenon DEF OtherDeletes, Destroy, DestroyMissingBlip, Delete, Lookup, SetData,
                     EntityEvent, DeleteCreated
<1>4. CASE Report \/ HandlersReturn \/ HandlersThrow \/ CreateReturns
  BY <1>1, <1>4, Zenon DEF Report, HandlersReturn, HandlersThrow, CreateReturns
<1>5. CASE DeleteReturns
  BY <1>5 DEF DeleteReturns
<1>6. ASSUME NEW i \in Ids, DeleteMissing(i)
      PROVE  mode' # "live"
  BY <1>6 DEF DeleteMissing
<1>7. CASE ReloadBegins \/ DeleteCreatedThrows
  BY <1>7 DEF ReloadBegins, DeleteCreatedThrows
<1> QED
  BY <1>1, <1>2, <1>3, <1>4, <1>5, <1>6, <1>7, Zenon DEF Next

\* Every step keeps the order on the ids that have it.
LEMMA OrderStep ==
    ASSUME TypeOK, CallsInv, PoolInv, OrderInv, [Next]_vars
    PROVE  OrderInv'
<1>1. CASE ReloadEnds
  <2>1. InProgress' = {} /\ alive' = exists'
    BY <1>1, NoCalls DEF ReloadEnds, InProgress
  <2> QED
    BY <2>1, Zenon DEF OrderInv, Ordered, Dead, Coming
<1>2. CASE UNCHANGED vars
  BY <1>2 DEF vars, slotVars, serverVars, reloadVars, OrderInv, InProgress
<1>3. CASE Next /\ mode = "live" /\ mode' = "live"
  <2> SUFFICES ASSUME NEW j \in Ids \ disorder'
               PROVE  Ordered(j, exists'[j], alive'[j], life'[j], InProgress')
    BY DEF OrderInv
  <2>1. ASSUME NEW i \in Ids, NEW by \in Plugins, Create(i, by)
        PROVE  Ordered(j, exists'[j], alive'[j], life'[j], InProgress')
    BY <1>3, <2>1, CreateOrdered DEF PoolInv
  <2>2. ASSUME NEW i \in Ids, OtherDeletes(i) \/ Destroy(i)
        PROVE  Ordered(j, exists'[j], alive'[j], life'[j], InProgress')
    BY <1>3, <2>2, DeleteOrdered DEF OtherDeletes, Destroy, Plugins, Phases
  <2>3. CASE Report
    BY <1>3, <2>3, ReportOrdered
  <2>4. CASE HandlersReturn \/ HandlersThrow
    BY <1>3, <2>4, HandledOrdered
  <2>5. CASE CreateReturns \/ DeleteReturns
    BY <1>3, <2>5, ReturnOrdered
  <2>6. ASSUME UNCHANGED <<alive, exists, life, stack, disorder>>
        PROVE  Ordered(j, exists'[j], alive'[j], life'[j], InProgress')
    BY <1>3, <2>6 DEF OrderInv, InProgress
  <2>7. ASSUME NEW i \in Ids, Lookup(i) \/ SetData(i)
        PROVE  Ordered(j, exists'[j], alive'[j], life'[j], InProgress')
    BY <2>6, <2>7, Zenon DEF Lookup, SetData, slotVars, serverVars
  <2>8. ASSUME NEW i \in Ids, EntityEvent(i)
        PROVE  Ordered(j, exists'[j], alive'[j], life'[j], InProgress')
    <3>1. /\ exists[i] /\ UNCHANGED <<exists, life, InProgress>> /\ j \notin disorder
          /\ Over(i, life[i]) => i \in disorder'
          /\ j # i => alive'[j] = alive[j]
          /\ alive'[i] = TRUE
      BY <2>8 DEF EntityEvent, Adopt, Heard, serverVars, TypeOK, InProgress
    <3>2. Ordered(j, exists[j], alive[j], life[j], InProgress)
      BY <1>3, <3>1 DEF OrderInv
    <3>3. CASE j = i
      <4>1. ~Dead(j, life[j], InProgress) /\ exists[j] = TRUE
        BY <3>1, <3>3 DEF Over, Told, Dead, TypeOK
      <4>2. Ordered(j, TRUE, TRUE, life[j], InProgress)
        BY ONLY <3>2, <4>1, AdoptedOrdered, Zenon
      <4> QED
        BY <3>1, <3>3, <4>1, <4>2
    <3> QED
      BY <3>1, <3>2, <3>3
  <2>9. ASSUME NEW i \in Ids, DestroyMissingBlip(i)
        PROVE  Ordered(j, exists'[j], alive'[j], life'[j], InProgress')
    <3>1. /\ ~exists[i] /\ UNCHANGED <<exists, life, InProgress>> /\ j \notin disorder
          /\ j # i => alive'[j] = alive[j]
          /\ ~alive'[i]
      BY <2>9 DEF DestroyMissingBlip, Release, serverVars, TypeOK, InProgress
    <3>2. Ordered(j, exists[j], alive[j], life[j], InProgress)
      BY <1>3, <3>1 DEF OrderInv
    <3> QED
      BY <3>1, <3>2 DEF Ordered
  <2> QED
    BY <1>3, <2>1, <2>2, <2>3, <2>4, <2>5, <2>7, <2>8, <2>9, <1>1, Zenon
    DEF Next, ReloadBegins, DeleteCreated, DeleteMissing, DeleteCreatedThrows, ReloadEnds
<1> QED
  BY <1>1, <1>2, <1>3, ReloadingSteps DEF OrderInv

\* All of it, in every reachable state.
LEMMA OrderAlways == Spec => [](TypeOK /\ HandleInv /\ CallsInv /\ PoolInv /\ OrderInv)
<1>1. Init => CallsInv /\ PoolInv /\ OrderInv
  <2>1. Init => InProgress = {} /\ OneDelete
    BY NoCalls DEF Init
  <2>2. Init => CallsInv /\ PoolInv
    <3>1. Init => (\A i \in Ids : life[i] <= entities) /\ PoolInv
      BY SMT DEF Init, PoolInv
    <3> QED BY <2>1, <3>1, Zenon DEF CallsInv
  <2>3. Init => OrderInv
    BY <2>1, Zenon DEF Init, OrderInv, Ordered
  <2> QED BY <2>2, <2>3
<1>2. /\ TypeOK /\ CallsInv /\ PoolInv /\ OrderInv /\ [Next]_vars
      => CallsInv' /\ PoolInv' /\ OrderInv'
  BY CallsStep, PoolStep, OrderStep
<1> QED
  BY <1>1, <1>2, HandleAlways, PTL DEF Spec

\* The pool knows every entity between the two events that the plugin gets of
\* it, whatever the other plugins do in theirs.
THEOREM EntitiesKnown == Spec => []EveryEntityKnown
<1>1. OrderInv => EveryEntityKnown
  BY DEF OrderInv, Ordered, EveryEntityKnown, HeardInOrder, Coming, Dead
<1> QED
  BY <1>1, OrderAlways, PTL

\* No slot stays alive without an entity once every call has returned.
THEOREM SlotsReleased == Spec => []NoGhosts
<1>1. OrderInv => NoGhosts
  <2> SUFFICES ASSUME OrderInv, stack = << >>, NEW i \in HeardInOrder, alive[i]
               PROVE  exists[i]
    BY DEF NoGhosts
  <2>1. InProgress = {} /\ Ordered(i, exists[i], alive[i], life[i], InProgress)
    BY NoCalls DEF OrderInv, HeardInOrder
  <2> QED
    BY <2>1 DEF Ordered, Dying
<1> QED
  BY <1>1, OrderAlways, PTL

-----------------------------------------------------------------------------
(***************************************************************************)
(* Handles and data tables belong to the entity that is there.             *)
(***************************************************************************)
RefInv ==
    mode = "live" =>
        \A i \in Ids \ disorder : alive[i] =>
            /\ data[i] # 0 => data[i] = life[i]
            /\ \A h \in issued : h.id = i /\ h.adoption = adoptions[i] => h.life = life[i]

\* While a slot is alive and its id in order, the id keeps its entity.
LEMMA SameEntity ==
    ASSUME TypeOK, PoolInv, OrderInv, Next, mode = "live", mode' = "live", ~ReloadEnds,
           NEW j \in Ids \ disorder', alive[j]
    PROVE  j \notin disorder /\ life'[j] = life[j]
<1>1. ASSUME NEW i \in Ids, NEW by \in Plugins, Create(i, by)
      PROVE  j \notin disorder /\ life'[j] = life[j]
  <2>1. /\ j # i => j \notin disorder /\ life'[j] = life[j]
        /\ ~exists[i] /\ (j = i => ~Unheard(i) /\ j \notin disorder)
    BY <1>1 DEF Create, TypeOK
  <2>2. CASE j = i
    <3>1. Ordered(j, exists[j], alive[j], life[j], InProgress)
      BY <2>1, <2>2 DEF OrderInv
    <3> QED
      BY <2>1, <2>2, <3>1 DEF Ordered, Dying, Unheard
  <2> QED BY <2>1, <2>2
<1>2. ASSUME UNCHANGED life, disorder \subseteq disorder'
      PROVE  j \notin disorder /\ life'[j] = life[j]
  BY <1>2
<1>3. ASSUME NEW i \in Ids, \/ OtherDeletes(i) \/ Destroy(i) \/ DestroyMissingBlip(i)
                            \/ Lookup(i) \/ SetData(i) \/ EntityEvent(i)
      PROVE  UNCHANGED life /\ disorder \subseteq disorder'
  BY <1>3 DEF OtherDeletes, Destroy, DestroyMissingBlip, Delete, Lookup, SetData,
              EntityEvent, Heard, serverVars
<1>4. CASE \/ Report \/ HandlersReturn \/ HandlersThrow \/ CreateReturns \/ DeleteReturns
  <2>1. UNCHANGED life /\ disorder \subseteq disorder'
    BY <1>4 DEF Report, HandlersReturn, HandlersThrow, CreateReturns, DeleteReturns,
                Heard, serverVars
  <2> QED BY <1>2, <2>1
<1> QED
  BY <1>1, <1>2, <1>3, <1>4, Zenon
  DEF Next, ReloadBegins, DeleteCreated, DeleteMissing, DeleteCreatedThrows

\* The slot of j is adopted: a new adoption has no data and no handle yet.
LEMMA RefAdopted ==
    ASSUME TypeOK, HandleInv, PoolInv, RefInv, mode = "live",
           NEW i \in Ids, NEW mark \in BOOLEAN, Adopt(i, mark), NEW j \in Ids \ disorder',
           alive[j] => j \notin disorder /\ life'[j] = life[j], alive'[j]
    PROVE  /\ data[j] # 0 => data[j] = life'[j]
           /\ \A h \in issued : h.id = j /\ h.adoption = adoptions'[j] => h.life = life'[j]
<1>1. CASE alive[j]
  <2>1. adoptions'[j] = adoptions[j]
    BY <1>1, Zenon DEF Adopt, TypeOK
  <2> QED
    BY <1>1, <2>1 DEF RefInv
<1>2. CASE ~alive[j]
  <2>1. j = i /\ adoptions'[j] = adoptions[j] + 1
    BY <1>2 DEF Adopt, TypeOK
  <2>2. data[j] = 0
    BY <1>2 DEF PoolInv
  <2>3. \A h \in issued : h.id = j => h.adoption <= adoptions[j]
    BY DEF HandleInv
  <2>4. adoptions[j] \in Nat /\ \A h \in issued : h.adoption \in Nat
    BY DEF TypeOK, Handles
  <2>5. \A h \in issued : h.id = j => h.adoption # adoptions'[j]
    BY ONLY <2>1, <2>3, <2>4
  <2> QED
    BY <2>2, <2>5
<1> QED
  BY <1>1, <1>2

\* A handle is made for the entity that has the id.
LEMMA RefPushed ==
    ASSUME NEW i \in Ids, Push(i), life' = life, NEW j \in Ids,
           data[j] # 0 => data[j] = life'[j],
           \A h \in issued : h.id = j /\ h.adoption = adoptions'[j] => h.life = life'[j]
    PROVE  /\ data'[j] # 0 => data'[j] = life'[j]
           /\ \A h \in issued' : h.id = j /\ h.adoption = adoptions'[j] => h.life = life'[j]
<1>1. CASE handle[i] # 0
  BY <1>1 DEF Push, refVars
<1>2. CASE handle[i] = 0
  <2> DEFINE new == [id |-> i, obj |-> made[i] + 1, generation |-> generation'[i],
                     adoption |-> adoptions'[i], life |-> life[i]]
  <2>1. issued' = issued \cup {new} /\ data' = data
    BY <1>2 DEF Push
  <2>2. new.id = i /\ new.life = life[i]
    OBVIOUS
  <2> HIDE DEF new
  <2> QED
    BY <2>1, <2>2
<1> QED
  BY <1>1, <1>2

\* Every step keeps handles and data with their entity.
LEMMA RefStep ==
    ASSUME TypeOK, HandleInv, PoolInv, OrderInv, RefInv, [Next]_vars
    PROVE  RefInv'
<1>1. CASE ReloadEnds
  BY <1>1 DEF ReloadEnds, RefInv
<1>2. CASE UNCHANGED vars
  BY <1>2 DEF vars, slotVars, refVars, serverVars, reloadVars, RefInv
<1>3. CASE Next /\ ~ReloadEnds /\ mode = "live" /\ mode' = "live"
  <2> SUFFICES ASSUME NEW j \in Ids \ disorder', alive'[j]
               PROVE  /\ data'[j] # 0 => data'[j] = life'[j]
                      /\ \A h \in issued' :
                            h.id = j /\ h.adoption = adoptions'[j] => h.life = life'[j]
    BY DEF RefInv
  <2>1. alive[j] => j \notin disorder /\ life'[j] = life[j]
    BY <1>3, SameEntity
  <2>2. alive[j] => /\ data[j] # 0 => data[j] = life'[j]
                    /\ \A h \in issued : h.id = j /\ h.adoption = adoptions[j] => h.life = life'[j]
    BY <1>3, <2>1 DEF RefInv
  <2>3. CASE UNCHANGED <<slotVars, refVars>>
    BY <2>2, <2>3 DEF slotVars, refVars
  <2>4. ASSUME NEW i \in Ids, Adopt(i, FALSE), UNCHANGED refVars
        PROVE  /\ data'[j] # 0 => data'[j] = life'[j]
               /\ \A h \in issued' : h.id = j /\ h.adoption = adoptions'[j] => h.life = life'[j]
    BY <1>3, <2>1, <2>4, RefAdopted, Zenon DEF refVars
  <2>5. ASSUME NEW i \in Ids, Release(i)
        PROVE  /\ data'[j] # 0 => data'[j] = life'[j]
               /\ \A h \in issued' : h.id = j /\ h.adoption = adoptions'[j] => h.life = life'[j]
    <3>1. j # i /\ alive[j] /\ data'[j] = data[j] /\ UNCHANGED <<issued, adoptions>>
      BY <2>5 DEF Release, TypeOK
    <3> QED BY <2>2, <3>1
  <2>6. ASSUME NEW i \in Ids, NEW mark \in BOOLEAN, Adopt(i, mark), Push(i), UNCHANGED life
        PROVE  /\ data'[j] # 0 => data'[j] = life'[j]
               /\ \A h \in issued' : h.id = j /\ h.adoption = adoptions'[j] => h.life = life'[j]
    <3>1. /\ data[j] # 0 => data[j] = life'[j]
          /\ \A h \in issued : h.id = j /\ h.adoption = adoptions'[j] => h.life = life'[j]
      BY <1>3, <2>1, <2>6, RefAdopted, Zenon
    <3> QED BY <2>6, <3>1, RefPushed, Zenon
  <2>7. ASSUME NEW i \in Ids, UNCHANGED <<slotVars, life>>, Push(i)
        PROVE  /\ data'[j] # 0 => data'[j] = life'[j]
               /\ \A h \in issued' : h.id = j /\ h.adoption = adoptions'[j] => h.life = life'[j]
    <3>1. alive[j] /\ adoptions' = adoptions /\ life' = life
      BY <2>7 DEF slotVars
    <3> QED BY <2>2, <2>7, <3>1, RefPushed, Zenon
  <2>8. ASSUME NEW i \in Ids, UNCHANGED <<slotVars, handle, made, issued, life>>,
               data' = [data EXCEPT ![i] = life[i]]
        PROVE  /\ data'[j] # 0 => data'[j] = life'[j]
               /\ \A h \in issued' : h.id = j /\ h.adoption = adoptions'[j] => h.life = life'[j]
    BY <2>2, <2>8 DEF slotVars, TypeOK
  <2>9. SlotStep
    BY <1>3, NextIsSlotStep
  <2> QED
    BY <2>3, <2>4, <2>5, <2>6, <2>7, <2>8, <2>9, Zenon DEF SlotStep
<1> QED
  BY <1>1, <1>2, <1>3, ReloadingSteps DEF RefInv

\* With the invariants that it rests on.
LEMMA RefAlways == Spec => [](TypeOK /\ HandleInv /\ RefInv)
<1>1. Init => RefInv
  BY DEF Init, RefInv
<1>2. TypeOK /\ HandleInv /\ PoolInv /\ OrderInv /\ RefInv /\ [Next]_vars => RefInv'
  BY RefStep
<1> QED
  BY <1>1, <1>2, OrderAlways, PTL DEF Spec

\* A handle that matches was given out for the entity that is there, unless the
\* generation has wrapped or the plugin was told out of order.
THEOREM HandlesMatchEntities == Spec => []HandleMatchesEntity
<1>1. TypeOK /\ HandleInv /\ RefInv => HandleMatchesEntity
  <2> SUFFICES ASSUME TypeOK, HandleInv, RefInv, NEW h \in issued, Matches(h),
                      h.id \in HeardInOrder, ~Wrapped(h)
               PROVE  h.life = life[h.id]
    BY DEF HandleMatchesEntity
  <2>1. h.adoption = adoptions[h.id]
    BY HandleInvImpliesStale DEF StaleHandleNeverMatches, Matches
  <2>2. mode = "live" /\ h.id \in Ids \ disorder /\ alive[h.id]
    BY DEF Matches, Valid, HeardInOrder
  <2> QED
    BY <2>1, <2>2 DEF RefInv
<1> QED
  BY <1>1, RefAlways, PTL

\* The data table of a slot was stored for the entity that is there.
THEOREM DataDropped == Spec => []DataOfThisEntity
<1>1. RefInv => DataOfThisEntity
  BY DEF RefInv, DataOfThisEntity, HeardInOrder
<1> QED
  BY <1>1, RefAlways, PTL

-----------------------------------------------------------------------------
(***************************************************************************)
(* The mark that says which entities a reload deletes.                     *)
(***************************************************************************)
Making(i, n, F) ==
    \E c \in F : c.op = "create" /\ c.id = i /\ c.life = n /\ c.by = "us"

\* Where m says whether the slot is alive and marked, and o who owns the entity.
Owned(i, e, m, o, n, F) ==
    /\ m => o = "us"
    /\ e /\ o = "us" => m \/ Making(i, n, F) \/ Dead(i, n, F)

OwnInv ==
    mode = "live" =>
        \A i \in Ids \ disorder :
            Owned(i, exists[i], alive[i] /\ created_by_us[i], owner[i], life[i], InProgress)

\* What is left of what a reload deletes.
DoomInv == \A i \in doomed \ disorder : exists[i] => owner[i] = "us"


\* Adopt without a mark of its own changes no mark.
LEMMA AdoptKeepsMarks ==
    ASSUME TypeOK, NEW i \in Ids, Adopt(i, FALSE), NEW j \in Ids
    PROVE  alive'[j] /\ created_by_us'[j] <=> alive[j] /\ created_by_us[j]
BY Zenon DEF TypeOK, Adopt

\* Create* and Delete*.
LEMMA CallOwned ==
    ASSUME TypeOK, CallsInv, PoolInv, OrderInv, OwnInv, mode = "live", mode' = "live",
           NEW i \in Ids, NEW by \in Plugins, NEW p \in Phases,
           Create(i, by) \/ Delete(i, by, p), ~ReloadEnds, Next,
           NEW j \in Ids \ disorder'
    PROVE  Owned(j, exists'[j], alive'[j] /\ created_by_us'[j], owner'[j], life'[j], InProgress')
<1>1. CASE Create(i, by)
  <2>1. PICK c \in Calls :
            /\ c.op = "create" /\ c.id = i /\ c.life = entities + 1 /\ c.by = by
            /\ InProgress' = InProgress \cup {c}
    BY <1>1, CreateEffect
  <2>2. /\ exists'[i] /\ life'[i] = entities + 1 /\ owner'[i] = by
        /\ j # i => /\ exists'[j] = exists[j] /\ life'[j] = life[j]
                    /\ owner'[j] = owner[j] /\ j \notin disorder
        /\ life[i] \in Nat /\ entities \in Nat /\ life[i] <= entities
    BY <1>1 DEF Create, TypeOK, CallsInv
  <2>3. alive'[j] /\ created_by_us'[j] <=> alive[j] /\ created_by_us[j]
    <3>1. CASE by = "us"
      BY <1>1, <3>1, AdoptKeepsMarks DEF Create
    <3>2. CASE by # "us"
      BY <1>1, <3>2 DEF Create, slotVars
    <3> QED BY <3>1, <3>2
  <2>4. CASE j # i
    <3>1. Owned(j, exists[j], alive[j] /\ created_by_us[j], owner[j], life[j], InProgress)
      BY <2>2, <2>4 DEF OwnInv
    <3> QED
      BY <2>1, <2>2, <2>3, <2>4, <3>1, Zenon DEF Owned, Making, Dead
  <2>5. CASE j = i
    <3>1. ~alive[i]
      <4>1. life'[i] # life[i]
        BY ONLY <2>2
      <4> QED BY <2>5, <4>1, SameEntity
    <3>2. by = "us" => Making(i, life'[i], InProgress')
      BY <2>1, <2>2 DEF Making
    <3> QED
      BY <2>2, <2>3, <2>5, <3>1, <3>2 DEF Owned
  <2> QED BY <2>4, <2>5
<1>2. CASE Delete(i, by, p)
  <2>1. PICK c \in Calls : InProgress' = InProgress \cup {c}
    BY <1>2, DeleteEffect
  <2>2. /\ exists'[j] => exists[j]
        /\ UNCHANGED <<life, owner, alive, created_by_us, disorder>>
    BY <1>2 DEF Delete, TypeOK, slotVars
  <2>3. Owned(j, exists[j], alive[j] /\ created_by_us[j], owner[j], life[j], InProgress)
    BY <2>2 DEF OwnInv
  <2> QED
    BY <2>1, <2>2, <2>3, Zenon DEF Owned, Making, Dead
<1> QED BY <1>1, <1>2

\* The event of a call moves on.
LEMMA ReachOwned ==
    ASSUME TypeOK, OrderInv, OwnInv, mode = "live",
           Report \/ HandlersReturn \/ HandlersThrow, NEW j \in Ids \ disorder'
    PROVE  Owned(j, exists'[j], alive'[j] /\ created_by_us'[j], owner'[j], life'[j], InProgress')
<1>1. PICK p \in Phases : stack # << >> /\ Reaches(p) /\ Top.phase # "after"
                          /\ (HandlersReturn => p = "after" /\ Top.phase = "ours")
  BY DEF Report, HandlersReturn, HandlersThrow, Phases
<1>2. PICK c \in Calls :
          /\ c.op = Top.op /\ c.id = Top.id /\ c.life = Top.life /\ c.by = Top.by
          /\ c.phase = p
          /\ Top \in Calls /\ InProgress = Below \cup {Top} /\ InProgress' = Below \cup {c}
  BY <1>1, ReachEffect
<1>3. /\ Top.id \in Ids /\ Top.op \in {"create", "delete"}
      /\ UNCHANGED <<exists, life, owner>> /\ j \notin disorder
  BY <1>2 DEF Calls, Report, HandlersReturn, HandlersThrow, Heard, serverVars
<1>4. Owned(j, exists[j], alive[j] /\ created_by_us[j], owner[j], life[j], InProgress)
  BY <1>3 DEF OwnInv
<1>5. /\ Making(j, life[j], InProgress) => Making(j, life[j], InProgress')
      /\ Dead(j, life[j], InProgress) => Dead(j, life[j], InProgress')
  BY <1>1, <1>2 DEF Making, Dead
<1>6. CASE HandlersReturn /\ Top.op = "delete" /\ j = Top.id
  <2>1. ~alive'[j]
    BY <1>3, <1>6 DEF HandlersReturn, Release, TypeOK
  <2>2. Ordered(j, exists[j], alive[j], life[j], InProgress)
    BY <1>3 DEF OrderInv
  <2>3. Top.life = life[j]
    BY <1>1, <1>2, <1>6, <2>2 DEF Ordered
  <2>4. Dead(j, life[j], InProgress')
    BY <1>1, <1>2, <1>6, <2>3 DEF Dead
  <2> QED BY <1>3, <2>1, <2>4 DEF Owned
<1>7. CASE ~(HandlersReturn /\ Top.op = "delete" /\ j = Top.id)
  <2>1. alive'[j] /\ created_by_us'[j] <=> alive[j] /\ created_by_us[j]
    <3>1. CASE Report
      BY <1>3, <3>1, AdoptKeepsMarks DEF Report, slotVars
    <3>2. CASE HandlersReturn
      BY <1>3, <1>7, <3>2 DEF HandlersReturn, Release, TypeOK, slotVars
    <3>3. CASE HandlersThrow
      BY <3>3 DEF HandlersThrow, slotVars
    <3> QED BY <3>1, <3>2, <3>3
  <2> QED BY <1>3, <1>4, <1>5, <2>1 DEF Owned
<1> QED BY <1>6, <1>7

\* A call returns: Created() marks the entity, a deletion ends.
LEMMA ReturnOwned ==
    ASSUME TypeOK, CallsInv, OwnInv, mode = "live", CreateReturns \/ DeleteReturns,
           NEW j \in Ids \ disorder'
    PROVE  Owned(j, exists'[j], alive'[j] /\ created_by_us'[j], owner'[j], life'[j], InProgress')
<1>1. stack # << >> /\ Top.phase = "after" /\ stack' = Popped
  BY DEF CreateReturns, DeleteReturns
<1>2. /\ Top \in Calls /\ InProgress = Below \cup {Top} /\ InProgress' = Below
      /\ Top.id \in Ids
  BY <1>1, ReturnEffect DEF CallsInv, Calls
<1>3. life' = life /\ owner' = owner /\ j \notin disorder
  BY DEF CreateReturns, DeleteReturns, serverVars, Heard
<1>4. Owned(j, exists[j], alive[j] /\ created_by_us[j], owner[j], life[j], InProgress)
  BY <1>3 DEF OwnInv
<1>5. CallOk(Top, exists[Top.id], life[Top.id], owner[Top.id], entities)
  BY <1>2 DEF CallsInv
<1>6. CASE j # Top.id
  <2>1. exists'[j] = exists[j]
    BY <1>6 DEF CreateReturns, DeleteReturns, serverVars, TypeOK
  <2>2. alive'[j] = alive[j] /\ created_by_us'[j] = created_by_us[j]
    <3>1. CASE CreateReturns
      <4>1. \/ UNCHANGED slotVars
            \/ /\ alive' = [alive EXCEPT ![Top.id] = TRUE]
               /\ created_by_us' = [created_by_us EXCEPT ![Top.id] = TRUE \/ (alive[Top.id] /\ @)]
        BY <3>1, Zenon DEF CreateReturns, Adopt
      <4>2. alive \in [Ids -> BOOLEAN] /\ created_by_us \in [Ids -> BOOLEAN]
        BY Zenon DEF TypeOK
      <4> QED BY ONLY <1>2, <1>6, <4>1, <4>2, j \in Ids DEF slotVars
    <3>2. CASE DeleteReturns
      BY <1>2, <1>6, <3>2 DEF DeleteReturns, Release, TypeOK, slotVars
    <3> QED BY <3>1, <3>2
  <2> QED
    BY <1>2, <1>3, <1>4, <1>6, <2>1, <2>2, Zenon DEF Owned, Making, Dead
<1>7. CASE j = Top.id /\ CreateReturns /\ Top.by = "us"
  <2>1. /\ alive'[j] /\ created_by_us'[j] /\ exists' = exists
        /\ Over(j, Top.life) => j \in disorder' /\ Top.op = "create"
    BY <1>2, <1>7 DEF CreateReturns, Adopt, Heard, TypeOK, serverVars
  <2>2. life[j] = Top.life
    BY <2>1 DEF Over
  <2>3. owner[j] = "us"
    BY <1>5, <1>7, <2>2 DEF CallOk, CreateReturns
  <2> QED
    BY <1>3, <2>1, <2>3 DEF Owned
<1>8. CASE j = Top.id /\ CreateReturns /\ Top.by # "us"
  <2>1. Top.op = "create" /\ UNCHANGED <<alive, created_by_us, exists>>
    BY <1>8 DEF CreateReturns, slotVars, serverVars
  <2>2. /\ Making(j, life[j], InProgress) => Making(j, life[j], InProgress')
        /\ Dead(j, life[j], InProgress) => Dead(j, life[j], InProgress')
    BY <1>2, <1>8, <2>1 DEF Making, Dead
  <2> QED
    BY <1>3, <1>4, <2>1, <2>2 DEF Owned
<1>9. CASE j = Top.id /\ DeleteReturns
  <2>1. Top.op = "delete" /\ exists'[j] = (j \in Blips /\ exists[j])
    BY <1>2, <1>9 DEF DeleteReturns, TypeOK
  <2>2. exists'[j] => life[j] # Top.life
    BY <1>5, <1>9, <2>1 DEF CallOk
  <2>3. CASE Top.by = "us"
    <3>1. ~alive'[j] /\ (exists'[j] /\ life[j] # Top.life => j \in disorder')
      BY <1>2, <1>9, <2>3 DEF DeleteReturns, Release, Heard, TypeOK
    <3> QED
      BY <2>2, <3>1 DEF Owned
  <2>4. CASE Top.by # "us"
    <3>1. UNCHANGED <<alive, created_by_us>>
      BY <1>9, <2>4 DEF DeleteReturns, slotVars
    <3>2. exists'[j] =>
            /\ Making(j, life[j], InProgress) => Making(j, life[j], InProgress')
            /\ Dead(j, life[j], InProgress) => Dead(j, life[j], InProgress')
      BY <1>2, <2>1, <2>2 DEF Making, Dead
    <3> QED
      BY <1>3, <1>4, <2>1, <3>1, <3>2 DEF Owned
  <2> QED BY <2>3, <2>4
<1> QED BY <1>6, <1>7, <1>8, <1>9

\* Every step keeps the marks right.
LEMMA OwnStep ==
    ASSUME TypeOK, CallsInv, PoolInv, OrderInv, OwnInv, [Next]_vars
    PROVE  OwnInv'
<1>1. CASE ReloadEnds
  <2>1. /\ \A i \in Ids : ~created_by_us'[i] /\ owner'[i] # "us"
    BY <1>1 DEF ReloadEnds
  <2> QED
    BY <2>1, Zenon DEF OwnInv, Owned
<1>2. CASE UNCHANGED vars
  BY <1>2 DEF vars, slotVars, serverVars, reloadVars, OwnInv, InProgress
<1>3. CASE Next /\ ~ReloadEnds /\ mode = "live" /\ mode' = "live"
  <2> SUFFICES ASSUME NEW j \in Ids \ disorder'
               PROVE  Owned(j, exists'[j], alive'[j] /\ created_by_us'[j], owner'[j],
                            life'[j], InProgress')
    BY DEF OwnInv
  <2>1. ASSUME NEW i \in Ids, NEW by \in Plugins, NEW p \in Phases,
               Create(i, by) \/ Delete(i, by, p)
        PROVE  Owned(j, exists'[j], alive'[j] /\ created_by_us'[j], owner'[j], life'[j], InProgress')
    BY <1>3, <2>1, CallOwned
  <2>2. ASSUME NEW i \in Ids, OtherDeletes(i) \/ Destroy(i)
        PROVE  Owned(j, exists'[j], alive'[j] /\ created_by_us'[j], owner'[j], life'[j], InProgress')
    BY <2>1, <2>2, Zenon DEF OtherDeletes, Destroy, Plugins, Phases
  <2>3. CASE Report \/ HandlersReturn \/ HandlersThrow
    BY <1>3, <2>3, ReachOwned
  <2>4. CASE CreateReturns \/ DeleteReturns
    BY <1>3, <2>4, ReturnOwned
  <2>5. ASSUME UNCHANGED <<exists, owner, life, InProgress, disorder>>,
               \/ alive'[j] /\ created_by_us'[j] <=> alive[j] /\ created_by_us[j]
               \/ ~exists[j] /\ ~alive'[j]
        PROVE  Owned(j, exists'[j], alive'[j] /\ created_by_us'[j], owner'[j], life'[j], InProgress')
    <3>1. Owned(j, exists[j], alive[j] /\ created_by_us[j], owner[j], life[j], InProgress)
      BY <1>3, <2>5 DEF OwnInv
    <3> QED BY ONLY <2>5, <3>1 DEF Owned
  <2>6. ASSUME NEW i \in Ids, Lookup(i) \/ SetData(i)
        PROVE  /\ UNCHANGED <<exists, owner, life, InProgress, disorder>>
               /\ alive'[j] /\ created_by_us'[j] <=> alive[j] /\ created_by_us[j]
    BY <2>6 DEF Lookup, SetData, slotVars, serverVars, InProgress
  <2>7. ASSUME NEW i \in Ids, DestroyMissingBlip(i)
        PROVE  /\ UNCHANGED <<exists, owner, life, InProgress, disorder>>
               /\ \/ alive'[j] /\ created_by_us'[j] <=> alive[j] /\ created_by_us[j]
                  \/ ~exists[j] /\ ~alive'[j]
    BY <2>7 DEF DestroyMissingBlip, Release, TypeOK, serverVars, InProgress
  <2>8. ASSUME NEW i \in Ids, EntityEvent(i)
        PROVE  Owned(j, exists'[j], alive'[j] /\ created_by_us'[j], owner'[j], life'[j], InProgress')
    <3>1. UNCHANGED <<exists, owner, life, InProgress>> /\ j \notin disorder
      BY <2>8 DEF EntityEvent, Heard, serverVars, InProgress
    <3>2. alive'[j] /\ created_by_us'[j] <=> alive[j] /\ created_by_us[j]
      BY <2>8, AdoptKeepsMarks DEF EntityEvent
    <3>3. Owned(j, exists[j], alive[j] /\ created_by_us[j], owner[j], life[j], InProgress)
      BY <1>3, <3>1 DEF OwnInv
    <3> QED BY <3>1, <3>2, <3>3 DEF Owned
  <2>9. "ours" \in Phases
    BY DEF Phases
  <2> QED
    BY <1>3, <2>1, <2>2, <2>3, <2>4, <2>5, <2>6, <2>7, <2>8, <2>9, Zenon
    DEF Next, ReloadBegins, DeleteCreated, DeleteMissing, DeleteCreatedThrows
<1> QED
  BY <1>1, <1>2, <1>3, ReloadingSteps DEF OwnInv

\* What a reload is to delete stays ours, or falls out of order.
LEMMA DoomStep ==
    ASSUME TypeOK, PoolInv, OwnInv, DoomInv, [Next]_vars
    PROVE  DoomInv'
<1>1. ASSUME doomed' \subseteq doomed, disorder \subseteq disorder', UNCHANGED owner,
             \A j \in Ids : exists'[j] => exists[j]
      PROVE  DoomInv'
  BY <1>1 DEF DoomInv, TypeOK
<1>2. ASSUME NEW i \in Ids, NEW by \in Plugins, Create(i, by)
      PROVE  DoomInv'
  <2>1. doomed' = doomed /\ (i \in doomed => i \in disorder')
    BY <1>2 DEF Create, reloadVars
  <2>2. \A j \in Ids : j # i => /\ exists'[j] => exists[j]
                                /\ owner'[j] = owner[j]
                                /\ j \in disorder => j \in disorder'
    BY <1>2 DEF Create, TypeOK
  <2>3. doomed \subseteq Ids
    BY DEF TypeOK
  <2> SUFFICES ASSUME NEW j \in doomed', j \notin disorder', exists'[j]
               PROVE  owner'[j] = "us"
    BY DEF DoomInv
  <2>4. j \in doomed /\ j \in Ids /\ j # i
    BY <2>1, <2>3
  <2>5. j \notin disorder /\ exists[j] /\ owner'[j] = owner[j]
    BY <2>2, <2>4, Zenon
  <2> QED
    BY <2>4, <2>5 DEF DoomInv
<1>3. ASSUME NEW i \in Ids, NEW by \in Plugins, NEW p \in Phases, Delete(i, by, p)
      PROVE  DoomInv'
  BY <1>1, <1>3 DEF Delete, reloadVars, TypeOK
<1>4. ASSUME NEW i \in Ids, OtherDeletes(i) \/ Destroy(i) \/ DeleteCreated(i)
      PROVE  DoomInv'
  BY <1>3, <1>4, Zenon DEF OtherDeletes, Destroy, DeleteCreated, Plugins, Phases
<1>5. CASE Report \/ HandlersReturn \/ HandlersThrow \/ CreateReturns
  BY <1>1, <1>5 DEF Report, HandlersReturn, HandlersThrow, CreateReturns, Heard, serverVars,
                    reloadVars
<1>6. CASE DeleteReturns
  <2>1. \A j \in Ids : exists'[j] => exists[j]
    BY <1>6 DEF DeleteReturns, TypeOK
  <2>2. doomed' \subseteq doomed /\ disorder \subseteq disorder' /\ UNCHANGED owner
    BY <1>6 DEF DeleteReturns, Heard
  <2> QED BY <1>1, <2>1, <2>2
<1>7. ASSUME NEW i \in Ids, \/ DestroyMissingBlip(i) \/ Lookup(i) \/ SetData(i)
                            \/ EntityEvent(i) \/ DeleteMissing(i)
      PROVE  DoomInv'
  BY <1>1, <1>7 DEF DestroyMissingBlip, Lookup, SetData, EntityEvent, DeleteMissing, Heard,
                    serverVars, reloadVars
<1>8. CASE ReloadBegins
  BY <1>8 DEF ReloadBegins, DoomInv, OwnInv, Owned, CreatedByUs, serverVars
<1>9. CASE DeleteCreatedThrows \/ ReloadEnds
  BY <1>9 DEF DeleteCreatedThrows, ReloadEnds, DoomInv
<1>10. CASE UNCHANGED vars
  BY <1>10 DEF vars, serverVars, reloadVars, DoomInv
<1> QED
  BY <1>2, <1>4, <1>5, <1>6, <1>7, <1>8, <1>9, <1>10, Zenon DEF Next

\* A reload deletes what this runtime created and nothing else, on the ids of
\* which the plugin was told in order.
THEOREM ReloadExact == Spec => []ReloadTakesOurs
<1>1. Init => OwnInv /\ DoomInv
  BY DEF Init, OwnInv, Owned, DoomInv
<1>2. TypeOK /\ CallsInv /\ PoolInv /\ OrderInv /\ OwnInv /\ DoomInv /\ [Next]_vars
      => OwnInv' /\ DoomInv'
  BY OwnStep, DoomStep
<1>3. OwnInv /\ DoomInv => ReloadTakesOurs
  <2> SUFFICES ASSUME OwnInv, stack = << >>, NEW i \in HeardInOrder, exists[i], owner[i] = "us"
               PROVE  alive[i] /\ created_by_us[i]
    BY DEF ReloadTakesOurs, DoomInv
  <2>1. /\ Owned(i, exists[i], alive[i] /\ created_by_us[i], owner[i], life[i], InProgress)
        /\ InProgress = {}
    BY NoCalls DEF OwnInv, HeardInOrder
  <2> QED
    BY <2>1 DEF Owned, Making, Dead
<1> QED
  BY <1>1, <1>2, <1>3, OrderAlways, PTL DEF Spec

=============================================================================
