----------------------------- MODULE HttpProofs -----------------------------
(***************************************************************************)
(* Proofs about Http, for every limit on pending requests, every number of *)
(* requests, with faults and without, and that it implements HttpPromise.  *)
(***************************************************************************)
EXTENDS Http, FiniteSetTheorems, SequenceTheorems, TLAPS

-----------------------------------------------------------------------------
(***************************************************************************)
(* Sequences as the sets of their elements.                                *)
(***************************************************************************)
\* The elements of a sequence are in its base set.
LEMMA RangeType ==
    ASSUME NEW S, NEW s \in Seq(S)
    PROVE  /\ Range(s) \subseteq S
           /\ (s = <<>> <=> Range(s) = {})
<1>1. s = <<>> <=> Len(s) = 0
  BY EmptySeq
<1>2. Range(s) \subseteq S
  BY DEF Range
<1>3. ASSUME Len(s) # 0 PROVE Range(s) # {}
  <2>1. 1 \in DOMAIN s
    BY <1>3
  <2> QED BY <2>1 DEF Range
<1>4. ASSUME Len(s) = 0 PROVE Range(s) = {}
  BY <1>4 DEF Range
<1> QED BY <1>1, <1>2, <1>3, <1>4

\* The empty sequence has no elements, and none twice.
LEMMA EmptyRange ==
    ASSUME NEW S
    PROVE  <<>> \in Seq(S) /\ Range(<<>>) = {} /\ IsInjective(<<>>) /\ Len(<<>>) = 0
<1>1. <<>> \in Seq(S) /\ Len(<<>>) = 0 /\ DOMAIN <<>> = {}
  BY EmptySeq
<1> QED BY <1>1 DEF Range, IsInjective

\* Appending an element that is not there.
LEMMA AppendRange ==
    ASSUME NEW S, NEW s \in Seq(S), NEW x \in S, IsInjective(s), x \notin Range(s)
    PROVE  /\ Append(s, x) \in Seq(S)
           /\ Range(Append(s, x)) = Range(s) \cup {x}
           /\ IsInjective(Append(s, x))
<1> DEFINE t == Append(s, x)
           n == Len(s)
<1>1. /\ t \in Seq(S) /\ Len(t) = n + 1 /\ t[n + 1] = x
      /\ \A i \in 1..n : t[i] = s[i]
  BY AppendProperties
<1>2. n \in Nat /\ DOMAIN s = 1..n /\ DOMAIN t = 1..(n + 1)
  BY <1>1
<1> HIDE DEF t, n
<1>3. 1..(n + 1) = 1..n \cup {n + 1} /\ n + 1 \notin 1..n
  BY <1>2
<1>4. Range(t) = Range(s) \cup {x}
  BY <1>1, <1>2, <1>3 DEF Range
<1>5. IsInjective(t)
  BY <1>1, <1>2, <1>3 DEF IsInjective, Range
<1> QED BY <1>1, <1>4, <1>5 DEF t

\* Taking the first element off a sequence without repetition.
LEMMA TailRange ==
    ASSUME NEW S, NEW s \in Seq(S), IsInjective(s), s # <<>>
    PROVE  /\ Head(s) \in S /\ Head(s) \in Range(s)
           /\ Tail(s) \in Seq(S) /\ Len(Tail(s)) = Len(s) - 1 /\ Len(s) >= 1
           /\ Range(Tail(s)) = Range(s) \ {Head(s)}
           /\ IsInjective(Tail(s))
<1> DEFINE t == Tail(s)
           n == Len(s)
<1>1. n \in Nat /\ n # 0 /\ DOMAIN s = 1..n
  BY EmptySeq
<1>2. Head(s) = s[1] /\ Head(s) \in S
  BY <1>1
<1>3. t \in Seq(S) /\ Len(t) = n - 1 /\ \A i \in 1..(n - 1) : t[i] = s[i + 1]
  BY HeadTailProperties
<1>4. DOMAIN t = 1..(n - 1)
  BY <1>3
<1> HIDE DEF t, n
<1>5. /\ 1 \in 1..n
      /\ \A i \in 1..(n - 1) : i + 1 \in 1..n /\ i + 1 # 1
      /\ \A i \in 1..n : i # 1 => i - 1 \in 1..(n - 1) /\ (i - 1) + 1 = i
      /\ \A i, j \in 1..(n - 1) : i + 1 = j + 1 => i = j
  BY <1>1
<1>6. Range(t) \subseteq Range(s) \ {Head(s)}
  <2> SUFFICES ASSUME NEW i \in 1..(n - 1) PROVE t[i] \in Range(s) \ {s[1]}
    BY <1>2, <1>4 DEF Range
  <2>1. t[i] = s[i + 1] /\ i + 1 \in 1..n /\ i + 1 # 1
    BY <1>3, <1>5
  <2>2. s[i + 1] # s[1]
    BY <2>1, <1>1, <1>5 DEF IsInjective
  <2> QED BY <2>1, <2>2, <1>1 DEF Range
<1>7. Range(s) \ {Head(s)} \subseteq Range(t)
  <2> SUFFICES ASSUME NEW i \in 1..n, s[i] # s[1] PROVE s[i] \in Range(t)
    BY <1>1, <1>2 DEF Range
  <2>1. i - 1 \in 1..(n - 1) /\ t[i - 1] = s[i]
    BY <1>3, <1>5
  <2> QED BY <2>1, <1>4 DEF Range
<1>8. IsInjective(t)
  <2> SUFFICES ASSUME NEW i \in 1..(n - 1), NEW j \in 1..(n - 1), t[i] = t[j]
               PROVE  i = j
    BY <1>4 DEF IsInjective
  <2>1. s[i + 1] = s[j + 1] /\ i + 1 \in 1..n /\ j + 1 \in 1..n
    BY <1>3, <1>5
  <2>2. i + 1 = j + 1
    BY <2>1, <1>1 DEF IsInjective
  <2> QED BY <2>2, <1>5
<1>9. Head(s) \in Range(s)
  BY <1>1, <1>2, <1>5 DEF Range
<1>10. n >= 1
  BY <1>1
<1> QED BY <1>2, <1>3, <1>6, <1>7, <1>8, <1>9, <1>10 DEF t, n

\* A piece of a sequence without repetition.
LEMMA PieceRange ==
    ASSUME NEW S, NEW s \in Seq(S), IsInjective(s),
           NEW m \in 1..(Len(s) + 1), NEW n \in 0..Len(s)
    PROVE  /\ SubSeq(s, m, n) \in Seq(S)
           /\ Range(SubSeq(s, m, n)) = {s[i] : i \in m..n}
           /\ IsInjective(SubSeq(s, m, n))
<1> DEFINE t == SubSeq(s, m, n)
           k == IF m <= n THEN n - m + 1 ELSE 0
<1>1. Len(s) \in Nat /\ DOMAIN s = 1..Len(s) /\ m..n \subseteq 1..Len(s) /\ k \in Nat
  OBVIOUS
<1>2. \A i \in m..n : s[i] \in S
  BY <1>1, ElementOfSeq
<1>3. t \in Seq(S) /\ Len(t) = k /\ \A i \in 1..(n - m + 1) : t[i] = s[m + i - 1]
  BY <1>2, SubSeqProperties
<1>4. DOMAIN t = 1..k
  BY <1>3
<1>5. /\ \A i \in 1..k : i \in 1..(n - m + 1) /\ m + i - 1 \in m..n
      /\ \A i \in m..n : i - m + 1 \in 1..k /\ m + (i - m + 1) - 1 = i
      /\ \A i, j \in 1..k : m + i - 1 = m + j - 1 => i = j
  OBVIOUS
<1> HIDE DEF t, k
<1>6. \A i \in 1..k : t[i] = s[m + i - 1]
  BY <1>3, <1>5
<1>7. Range(t) \subseteq {s[i] : i \in m..n}
  BY <1>4, <1>5, <1>6 DEF Range
<1>8. {s[i] : i \in m..n} \subseteq Range(t)
  <2> SUFFICES ASSUME NEW i \in m..n PROVE s[i] \in Range(t)
    OBVIOUS
  <2>1. i - m + 1 \in 1..k /\ t[i - m + 1] = s[i]
    BY <1>5, <1>6
  <2> QED BY <1>4, <2>1 DEF Range
<1>9. IsInjective(t)
  <2> SUFFICES ASSUME NEW i \in 1..k, NEW j \in 1..k, t[i] = t[j]
               PROVE  i = j
    BY <1>4 DEF IsInjective
  <2>1. s[m + i - 1] = s[m + j - 1] /\ m + i - 1 \in 1..Len(s) /\ m + j - 1 \in 1..Len(s)
    BY <1>1, <1>5, <1>6
  <2>2. m + i - 1 = m + j - 1
    BY <1>1, <2>1 DEF IsInjective
  <2> QED BY <1>5, <2>2
<1> QED BY <1>3, <1>7, <1>8, <1>9 DEF t

\* What comes before a place, the place itself, and what comes after it.
LEMMA SplitRange ==
    ASSUME NEW S, NEW s \in Seq(S), IsInjective(s), NEW k \in 1..Len(s)
    PROVE  /\ Range(SubSeq(s, 1, k - 1)) \subseteq Range(s)
           /\ s[k] \in Range(s) \ Range(SubSeq(s, 1, k - 1))
           /\ SubSeq(s, k + 1, Len(s)) \in Seq(S)
           /\ IsInjective(SubSeq(s, k + 1, Len(s)))
           /\ Range(SubSeq(s, k + 1, Len(s)))
                  \subseteq Range(s) \ (Range(SubSeq(s, 1, k - 1)) \cup {s[k]})
<1>1. Len(s) \in Nat /\ DOMAIN s = 1..Len(s)
  OBVIOUS
<1>2. /\ 1 \in 1..(Len(s) + 1) /\ k - 1 \in 0..Len(s)
      /\ k + 1 \in 1..(Len(s) + 1) /\ Len(s) \in 0..Len(s)
      /\ \A i \in 1..(k - 1) : i \in 1..Len(s) /\ i # k
      /\ \A i \in (k + 1)..Len(s) : i \in 1..Len(s) /\ i # k /\ i \notin 1..(k - 1)
  BY <1>1
<1>3. /\ Range(SubSeq(s, 1, k - 1)) = {s[i] : i \in 1..(k - 1)}
      /\ SubSeq(s, k + 1, Len(s)) \in Seq(S) /\ IsInjective(SubSeq(s, k + 1, Len(s)))
      /\ Range(SubSeq(s, k + 1, Len(s))) = {s[i] : i \in (k + 1)..Len(s)}
  BY <1>2, PieceRange
<1>4. \A i, j \in 1..Len(s) : s[i] \in Range(s) /\ (s[i] = s[j] => i = j)
  BY <1>1 DEF Range, IsInjective
<1> DEFINE head == 1..(k - 1)
           last == (k + 1)..Len(s)
<1>5. /\ \A i \in head : i \in 1..Len(s) /\ i # k
      /\ \A i \in last : i \in 1..Len(s) /\ i # k /\ i \notin head
  BY <1>2
<1> HIDE DEF head, last
<1>6. /\ {s[i] : i \in head} \subseteq Range(s)
      /\ s[k] \in Range(s) \ {s[i] : i \in head}
      /\ {s[i] : i \in last} \subseteq Range(s) \ ({s[i] : i \in head} \cup {s[k]})
  BY <1>4, <1>5
<1> QED BY <1>3, <1>6 DEF head, last

\* A sequence without repetition has as many elements as its length.
LEMMA RangeSize ==
    ASSUME NEW S, NEW s \in Seq(S), IsInjective(s)
    PROVE  IsFiniteSet(Range(s)) /\ Cardinality(Range(s)) = Len(s)
<1>1. Len(s) \in Nat /\ DOMAIN s = 1..Len(s)
  OBVIOUS
<1>2. s \in Bijection(1..Len(s), Range(s))
  <2>1. s \in [1..Len(s) -> Range(s)]
    BY <1>1 DEF Range
  <2>2. s \in Injection(1..Len(s), Range(s))
    BY <1>1, <2>1 DEF Injection, IsInjective
  <2>3. s \in Surjection(1..Len(s), Range(s))
    BY <1>1, <2>1 DEF Surjection, Range
  <2> QED BY <2>2, <2>3 DEF Bijection
<1>3. ExistsBijection(1..Len(s), Range(s))
  BY <1>2 DEF ExistsBijection
<1>4. Cardinality(Range(s)) = Len(s)
  BY <1>1, <1>3, FS_CountingElements
<1>5. IsFiniteSet(Range(s))
  BY <1>1, <1>3, FS_NatBijection
<1> QED BY <1>4, <1>5
-----------------------------------------------------------------------------
(***************************************************************************)
(* The step of the frame.                                                  *)
(***************************************************************************)
LuaSteps == {"timers", "completing", "copas", "event", "callback"}

(* A script runs only inside a step that calls scripts, a runtime that has *)
(* ended is between callbacks, and `done' is a local variable of Pump.     *)
FrameInv ==
    /\ TypeOK
    /\ lua => at \in LuaSteps
    /\ ~Usable => at = "idle"
    /\ done # <<>> => at = "completing"

(* The order of the steps in Runtime's constructor.                        *)
LEMMA StepOrder ==
    /\ After("timers") = "http" /\ After("http") = "copas" /\ After("completing") = "copas"
    /\ After("copas") = "event" /\ After("event") = "idle" /\ After("callback") = "idle"
BY DEF After

(* Where a step ends, another step begins or the callback is over.         *)
LEMMA StepEnds ==
    ASSUME at \in LuaSteps \cup {"http"}
    PROVE  After(at) \in Steps \cup {"idle"}
BY StepOrder DEF LuaSteps, Steps

(* The variables of a request keep their types.                            *)
LEMMA RequestType ==
    ASSUME TypeOK, NEW accepts \in BOOLEAN, Request(accepts)
    PROVE  /\ next_id \in Ids /\ next_id' = next_id + 1
           /\ transfers' \subseteq Ids /\ multi' \subseteq Ids
           /\ next_id' \in 1..(MaxRequests + 1)
           /\ accepted' \subseteq Ids /\ fresh' \subseteq Ids
<1>1. next_id \in Ids /\ next_id' = next_id + 1 /\ next_id' \in 1..(MaxRequests + 1)
  BY RequestsAssumption DEF TypeOK, Request, Ids
<1> QED BY <1>1, Zenon DEF TypeOK, Request, Start

(* Calls are counted.                                                      *)
LEMMA CompleteType ==
    ASSUME TypeOK, IsInjective(done), Complete
    PROVE  /\ done # <<>> /\ Head(done) \in Ids /\ Head(done) \in Range(done)
           /\ done' = Tail(done) /\ done' \in Seq(Ids) /\ IsInjective(done')
           /\ Range(done') = Range(done) \ {Head(done)}
           /\ Len(done') = Len(done) - 1 /\ Len(done) >= 1
           /\ called' \in [Ids -> Nat]
           /\ called'[Head(done)] = called[Head(done)] + 1
           /\ \A id \in Ids : id # Head(done) => called'[id] = called[id]
<1>1. done \in Seq(Ids) /\ called \in [Ids -> Nat] /\ done # <<>> /\ done' = Tail(done)
      /\ called' = [called EXCEPT ![Head(done)] = @ + 1]
  BY DEF TypeOK, Complete
<1>2. /\ Head(done) \in Ids /\ Head(done) \in Range(done)
      /\ Tail(done) \in Seq(Ids) /\ Len(Tail(done)) = Len(done) - 1 /\ Len(done) >= 1
      /\ Range(Tail(done)) = Range(done) \ {Head(done)}
      /\ IsInjective(Tail(done))
  BY <1>1, TailRange
<1>3. /\ called' \in [Ids -> Nat]
      /\ called'[Head(done)] = called[Head(done)] + 1
      /\ \A id \in Ids : id # Head(done) => called'[id] = called[id]
  <2> DEFINE h == Head(done)
  <2>1. h \in Ids /\ called' = [called EXCEPT ![h] = @ + 1] /\ called \in [Ids -> Nat]
    BY <1>1, <1>2
  <2> HIDE DEF h
  <2>2. /\ called' \in [Ids -> Nat] /\ called'[h] = called[h] + 1
        /\ \A id \in Ids : id # h => called'[id] = called[id]
    BY <2>1
  <2> QED BY <2>2 DEF h
<1> QED BY <1>1, <1>2, <1>3

(* What a fault in the collecting step does to the queues.                 *)
LEMMA PumpThrowsEffect ==
    ASSUME TypeOK, IsInjective(messages), NEW k \in 1..Len(messages), PumpThrows(k)
    PROVE  \E C : /\ C \subseteq Range(messages) /\ messages[k] \in Range(messages) \ C
                  /\ multi' = multi \ (C \cup {messages[k]})
                  /\ transfers' = transfers \ C /\ lost' = lost \cup C
                  /\ messages' \in Seq(Ids) /\ IsInjective(messages')
                  /\ Range(messages') \subseteq Range(messages) \ (C \cup {messages[k]})
<1> DEFINE C == Range(SubSeq(messages, 1, k - 1))
<1>1. /\ C \subseteq Range(messages) /\ messages[k] \in Range(messages) \ C
      /\ SubSeq(messages, k + 1, Len(messages)) \in Seq(Ids)
      /\ IsInjective(SubSeq(messages, k + 1, Len(messages)))
      /\ Range(SubSeq(messages, k + 1, Len(messages)))
             \subseteq Range(messages) \ (C \cup {messages[k]})
  BY SplitRange DEF TypeOK
<1>2. /\ multi' = multi \ (C \cup {messages[k]})
      /\ transfers' = transfers \ C /\ lost' = lost \cup C
      /\ messages' = SubSeq(messages, k + 1, Len(messages))
  BY DEF PumpThrows
<1> HIDE DEF C
<1> WITNESS C
<1> QED BY <1>1, <1>2

(* The first invariant holds initially.                                    *)
LEMMA InitFrame == ASSUME Init PROVE FrameInv
<1>1. <<>> \in Seq(Ids)
  BY EmptyRange
<1>2. 1 \in 1..(MaxRequests + 1)
  BY RequestsAssumption
<1>3. called \in [Ids -> Nat]
  BY DEF Init
<1> QED BY <1>1, <1>2, <1>3, Zenon DEF Init, FrameInv, TypeOK, Usable, Steps, LuaSteps

(* Every step keeps it.                                                    *)
LEMMA FrameStep ==
    ASSUME FrameInv, IsInjective(messages), IsInjective(done), [Next]_vars
    PROVE  FrameInv'
<1> USE DEF FrameInv
<1>0. <<>> \in Seq(Ids) /\ LuaSteps \subseteq Steps \cup {"idle", "completing", "callback"}
  BY EmptyRange DEF LuaSteps, Steps
<1>1. ASSUME NEW accepts \in BOOLEAN, Request(accepts) PROVE FrameInv'
  <2>1. UNCHANGED <<messages, done, frameVars, called, lost, released>>
    BY <1>1 DEF Request
  <2> QED BY <1>1, <2>1, RequestType DEF TypeOK, frameVars, Usable
<1>2. ASSUME NEW id \in Ids, Perform(id) PROVE FrameInv'
  <2>1. messages' \in Seq(Ids)
    BY <1>2 DEF TypeOK, Perform
  <2>2. UNCHANGED <<transfers, multi, done, next_id, frameVars, history>>
    BY <1>2 DEF Perform
  <2> QED BY <2>1, <2>2 DEF TypeOK, frameVars, history, Usable
<1>3. ASSUME NEW step \in {"timers", "callback"}, Callback(step) PROVE FrameInv'
  BY <1>3 DEF Callback, TypeOK, Usable, curlVars, history, Steps, LuaSteps
<1>4. ASSUME NEW calls \in BOOLEAN, Run(calls) PROVE FrameInv'
  <2>1. After(at) \in Steps \cup {"idle"} /\ at \in LuaSteps
    BY <1>4, StepEnds DEF Run, LuaSteps
  <2>2. /\ at' \in Steps \cup {"idle", "completing", "callback"} /\ (lua' => at' \in LuaSteps)
        /\ lua' \in BOOLEAN
    BY <1>0, <1>4, <2>1 DEF Run
  <2>3. done = <<>> /\ Usable
    BY <1>4 DEF Run
  <2> QED BY <1>4, <2>2, <2>3 DEF Run, TypeOK, Usable, curlVars, history
<1>5. ASSUME Pump PROVE FrameInv'
  <2>1. After(at) = "copas" /\ ~lua /\ Usable
    BY <1>5, StepOrder DEF Pump, LuaSteps
  <2> QED BY <1>0, <1>5, <2>1 DEF Pump, Collect, TypeOK, Usable, Steps
<1>6. ASSUME Complete PROVE FrameInv'
  <2>1. UNCHANGED <<transfers, multi, messages, next_id, at, deferred, dead, closed,
                    accepted, lost, fresh, released>>
        /\ at = "completing" /\ lua' = TRUE
    BY <1>6 DEF Complete, curlVars
  <2> QED BY <1>6, <2>1, CompleteType DEF TypeOK, Usable, LuaSteps
<1>7. ASSUME Returns PROVE FrameInv'
  <2>1. After(at) \in Steps \cup {"idle"} /\ lua
    BY <1>7, StepEnds DEF Returns
  <2>2. /\ at' \in Steps \cup {"idle", "completing", "callback"}
        /\ at \in LuaSteps /\ Usable
    BY <1>0, <1>7, <2>1 DEF Returns, LuaSteps
  <2>3. done # <<>> => at' = "completing"
    BY <1>7 DEF Returns
  <2>4. UNCHANGED <<transfers, multi, messages, done, next_id, deferred, dead, closed,
                    accepted, called, lost, fresh, released>> /\ lua' = FALSE
    BY <1>7 DEF Returns, curlVars, history
  <2>5. TypeOK'
    BY <2>2, <2>4, Zenon DEF TypeOK
  <2> QED BY <2>2, <2>3, <2>4, <2>5 DEF Usable
<1>8. ASSUME Throws \/ Panic PROVE FrameInv'
  <2>1. ~lua /\ Unwind /\ released' \in BOOLEAN /\ dead' \in BOOLEAN
    BY <1>8, Zenon DEF Throws, Panic, TypeOK
  <2>2. Range(done) \subseteq Ids
    BY RangeType DEF TypeOK
  <2> QED BY <1>0, <2>1, <2>2 DEF Unwind, TypeOK, Usable, curlVars
<1>9. ASSUME DeferShutdown PROVE FrameInv'
  BY <1>9 DEF DeferShutdown, TypeOK, Usable, curlVars, history
<1>10. ASSUME Shutdown PROVE FrameInv'
  BY <1>0, <1>10, Zenon DEF Shutdown, Clear, TypeOK, Usable, curlVars, LuaSteps
<1>11. ASSUME UNCHANGED vars PROVE FrameInv'
  BY <1>11 DEF vars, TypeOK, Usable, curlVars, frameVars, history
<1>12. ASSUME NEW k \in 1..Len(messages), PumpThrows(k) PROVE FrameInv'
  <2>1. PICK C : /\ C \subseteq Range(messages)
                 /\ multi' = multi \ (C \cup {messages[k]})
                 /\ transfers' = transfers \ C /\ lost' = lost \cup C
                 /\ messages' \in Seq(Ids)
    BY <1>12, PumpThrowsEffect
  <2>2. Range(messages) \subseteq Ids
    BY RangeType DEF TypeOK
  <2>3. /\ at = "http" /\ at' = "idle" /\ fresh' = {}
        /\ UNCHANGED <<done, next_id, lua, deferred, dead, closed, accepted, called, released>>
    BY <1>12 DEF PumpThrows
  <2>4. ~lua /\ Usable
    BY <2>3 DEF LuaSteps
  <2> QED BY <2>1, <2>2, <2>3, <2>4 DEF TypeOK, Usable
<1> QED BY <1>1, <1>2, <1>3, <1>4, <1>5, <1>6, <1>7, <1>8, <1>9, <1>10, <1>11, <1>12
        DEF Next, Frame, OtherCallback
-----------------------------------------------------------------------------
(***************************************************************************)
(* The places of a request.                                                *)
(***************************************************************************)
(* No message and no collected transfer comes twice; libcurl knows only    *)
(* transfers that are pending, and what it is done with.                   *)
QueueInv ==
    /\ FrameInv
    /\ IsInjective(messages) /\ IsInjective(done)
    /\ multi \subseteq transfers /\ Range(messages) \subseteq multi

(* A request is pending, collected, dropped or answered, and in one of     *)
(* these places only; ids that were not handed out yet are in none.  The   *)
(* requests started since the last Pump collected are not among those it   *)
(* completes.                                                              *)
PlaceInv ==
    /\ transfers \cap Range(done) = {}
    /\ transfers \cap lost = {} /\ Range(done) \cap lost = {}
    /\ \A id \in transfers \cup Range(done) \cup lost : called[id] = 0
    /\ \A id \in Ids : called[id] \in {0, 1}
    /\ \A id \in accepted : id \in transfers \cup Range(done) \cup lost \/ called[id] = 1
    /\ \A id \in transfers \cup Range(done) \cup lost \cup fresh : id < next_id
    /\ \A id \in Ids : called[id] # 0 => id < next_id
    /\ fresh \cap Range(done) = {}

(* Both hold initially.                                                    *)
LEMMA InitPlaces == ASSUME Init PROVE QueueInv /\ PlaceInv
<1>1. Range(<<>>) = {} /\ IsInjective(<<>>)
  BY EmptyRange
<1>2. messages = <<>> /\ done = <<>>
  BY DEF Init
<1>3. Range(messages) = {} /\ Range(done) = {} /\ IsInjective(messages) /\ IsInjective(done)
  BY <1>1, <1>2
<1>4. \A id \in Ids : called[id] = 0
  BY DEF Init
<1> QED BY <1>3, <1>4, InitFrame, Zenon DEF Init, QueueInv, PlaceInv

(* Every step keeps the queues free of repetition and libcurl's handles    *)
(* among those of the pending transfers.                                   *)
LEMMA QueueStep ==
    ASSUME QueueInv, [Next]_vars
    PROVE  QueueInv'
<1>0. /\ FrameInv' /\ TypeOK /\ TypeOK' /\ IsInjective(messages) /\ IsInjective(done)
      /\ multi \subseteq transfers /\ Range(messages) \subseteq multi
  BY FrameStep DEF QueueInv, FrameInv
<1>e. Range(<<>>) = {} /\ IsInjective(<<>>)
  BY EmptyRange
<1> SUFFICES /\ IsInjective(messages') /\ IsInjective(done')
             /\ multi' \subseteq transfers' /\ Range(messages') \subseteq multi'
  BY <1>0 DEF QueueInv
<1>1. CASE \E accepts \in BOOLEAN : Request(accepts)
  BY <1>0, <1>1 DEF Request, Start
<1>2. CASE \E id \in Ids : Perform(id)
  <2> PICK id \in Ids : Perform(id)
    BY <1>2
  <2>1. messages \in Seq(Ids) /\ id \in multi /\ id \notin Range(messages)
        /\ messages' = Append(messages, id) /\ UNCHANGED <<transfers, multi, done>>
    BY <1>0 DEF Perform, TypeOK
  <2>2. Range(messages') = Range(messages) \cup {id} /\ IsInjective(messages')
    BY <1>0, <2>1, AppendRange
  <2> QED BY <1>0, <2>1, <2>2
<1>3. CASE Frame \/ OtherCallback \/ \E calls \in BOOLEAN : Run(calls)
  BY <1>0, <1>3 DEF Frame, OtherCallback, Callback, Run, curlVars
<1>4. CASE Pump
  <2>1. done' = messages /\ messages' = <<>> /\ Collect
    BY <1>4 DEF Pump
  <2> QED BY <1>0, <1>e, <2>1 DEF Collect
<1>5. CASE Complete
  <2>1. IsInjective(done')
    BY <1>0, <1>5, CompleteType
  <2> QED BY <1>0, <1>5, <2>1 DEF Complete, curlVars
<1>6. CASE Returns \/ DeferShutdown
  BY <1>0, <1>6 DEF Returns, DeferShutdown, curlVars
<1>7. CASE Throws \/ Panic
  <2>1. Unwind
    BY <1>7 DEF Throws, Panic
  <2>2. done' = <<>> /\ UNCHANGED <<transfers, multi, messages>>
    BY <2>1 DEF Unwind, curlVars
  <2> QED BY <1>0, <1>e, <2>2
<1>8. CASE Shutdown
  <2>1. done' = done
    BY <1>8 DEF Shutdown
  <2>2. CASE dead
    BY <1>0, <1>8, <2>1, <2>2 DEF Shutdown, curlVars
  <2>3. CASE ~dead
    <3>1. messages' = <<>> /\ transfers' = {} /\ multi' = {}
      BY <1>8, <2>3 DEF Shutdown, Clear
    <3> QED BY <1>0, <1>e, <2>1, <3>1
  <2> QED BY <2>2, <2>3
<1>9. CASE UNCHANGED vars
  BY <1>0, <1>9 DEF vars, curlVars
<1>10. CASE \E k \in 1..Len(messages) : PumpThrows(k)
  <2> PICK k \in 1..Len(messages) : PumpThrows(k)
    BY <1>10
  <2>1. PICK C : /\ C \subseteq Range(messages)
                 /\ multi' = multi \ (C \cup {messages[k]})
                 /\ transfers' = transfers \ C /\ IsInjective(messages')
                 /\ Range(messages') \subseteq Range(messages) \ (C \cup {messages[k]})
    BY <1>0, PumpThrowsEffect
  <2>2. done' = done
    BY DEF PumpThrows
  <2> QED BY <1>0, <2>1, <2>2
<1> QED BY <1>1, <1>2, <1>3, <1>4, <1>5, <1>6, <1>7, <1>8, <1>9, <1>10 DEF Next

(* What a step that moves no request leaves alone.                         *)
requestVars == <<transfers, done, next_id, accepted, called, lost, fresh>>

(* Every step keeps every request in one place.                            *)
LEMMA PlaceStep ==
    ASSUME QueueInv, PlaceInv, [Next]_vars
    PROVE  PlaceInv'
<1>0. /\ FrameInv /\ TypeOK /\ IsInjective(messages) /\ IsInjective(done)
      /\ Range(messages) \subseteq transfers
  BY DEF QueueInv, FrameInv
<1>t. /\ next_id \in Nat /\ Ids \subseteq Nat
      /\ transfers \subseteq Ids /\ Range(done) \subseteq Ids /\ lost \subseteq Ids
      /\ fresh \subseteq Ids /\ accepted \subseteq Ids
      /\ \A id \in Ids : called[id] \in Nat
  BY <1>0, RangeType, RequestsAssumption DEF TypeOK, Ids
<1>e. Range(<<>>) = {}
  BY EmptyRange
<1>a. ASSUME UNCHANGED requestVars PROVE PlaceInv'
  BY <1>a DEF requestVars, PlaceInv
<1>1. CASE \E accepts \in BOOLEAN : Request(accepts)
  <2> PICK accepts \in BOOLEAN : Request(accepts)
    BY <1>1
  <2>1. next_id \in Ids /\ next_id' = next_id + 1 /\ UNCHANGED <<done, called, lost>>
    BY <1>0, RequestType DEF Request
  <2>2. \A id \in Ids : id < next_id => id < next_id' /\ id # next_id
    BY <1>t, <2>1
  <2>3. next_id < next_id'
    BY <1>t, <2>1
  <2>4. CASE ~accepts
    <3>1. UNCHANGED <<transfers, accepted, fresh>>
      BY <2>4 DEF Request
    <3> QED BY <1>t, <2>1, <2>2, <3>1 DEF PlaceInv
  <2>5. CASE accepts
    <3>1. /\ transfers' = transfers \cup {next_id} /\ accepted' = accepted \cup {next_id}
          /\ fresh' = fresh \cup {next_id}
      BY <2>5 DEF Request, Start
    <3>2. next_id \notin Range(done) /\ next_id \notin lost /\ called[next_id] = 0
      BY <1>t, <2>1, <2>2 DEF PlaceInv
    <3> QED BY <1>t, <2>1, <2>2, <2>3, <3>1, <3>2 DEF PlaceInv
  <2> QED BY <2>4, <2>5
<1>2. CASE \E id \in Ids : Perform(id)
  BY <1>2, <1>a DEF Perform, requestVars, history
<1>3. CASE Frame \/ OtherCallback \/ \E calls \in BOOLEAN : Run(calls)
  BY <1>3, <1>a DEF Frame, OtherCallback, Callback, Run, requestVars, history
<1>4. CASE Pump
  <2>1. /\ done' = messages /\ transfers' = transfers \ Range(messages) /\ fresh' = {}
        /\ UNCHANGED <<next_id, accepted, called, lost>>
    BY <1>4 DEF Pump, Collect
  <2>2. done = <<>>
    BY <1>0, <1>4 DEF Pump, FrameInv
  <2>3. Range(done) = {} /\ Range(done') = Range(messages)
    BY <1>e, <2>1, <2>2
  <2> QED BY <1>0, <2>1, <2>3 DEF PlaceInv
<1>5. CASE Complete
  <2> DEFINE h == Head(done)
  <2>1. /\ h \in Ids /\ h \in Range(done) /\ Range(done') = Range(done) \ {h}
        /\ called'[h] = called[h] + 1
        /\ \A id \in Ids : id # h => called'[id] = called[id]
    BY <1>0, <1>5, CompleteType
  <2>2. UNCHANGED <<transfers, next_id, accepted, lost, fresh>>
    BY <1>5 DEF Complete
  <2> HIDE DEF h
  <2>3. called[h] = 0 /\ h < next_id /\ h \notin transfers /\ h \notin lost
    BY <2>1 DEF PlaceInv
  <2>4. called'[h] = 1
    BY <2>1, <2>3
  <2> QED BY <1>t, <2>1, <2>2, <2>3, <2>4 DEF PlaceInv
<1>6. CASE Returns \/ DeferShutdown
  BY <1>6, <1>a DEF Returns, DeferShutdown, requestVars, history
<1>7. CASE Throws \/ Panic
  <2>1. Unwind
    BY <1>7 DEF Throws, Panic
  <2>2. /\ done' = <<>> /\ lost' = lost \cup Range(done)
        /\ UNCHANGED <<transfers, next_id, accepted, called, fresh>>
    BY <2>1 DEF Unwind
  <2>3. Range(done') = {}
    BY <1>e, <2>2
  <2> QED BY <2>2, <2>3 DEF PlaceInv
<1>8. CASE Shutdown
  <2>1. UNCHANGED <<done, next_id, accepted, fresh>>
    BY <1>8 DEF Shutdown
  <2>2. CASE dead
    BY <1>8, <1>a, <2>1, <2>2 DEF Shutdown, requestVars
  <2>3. CASE ~dead
    <3>1. transfers' = {} /\ lost' = lost \cup transfers /\ called' = called
      BY <1>8, <2>3 DEF Shutdown, Clear
    <3> QED BY <2>1, <3>1 DEF PlaceInv
  <2> QED BY <2>2, <2>3
<1>9. CASE UNCHANGED vars
  BY <1>9, <1>a DEF vars, requestVars, history
<1>10. CASE \E k \in 1..Len(messages) : PumpThrows(k)
  <2> PICK k \in 1..Len(messages) : PumpThrows(k)
    BY <1>10
  <2>1. PICK C : C \subseteq transfers /\ transfers' = transfers \ C /\ lost' = lost \cup C
    BY <1>0, PumpThrowsEffect
  <2>2. fresh' = {} /\ UNCHANGED <<done, next_id, accepted, called>>
    BY DEF PumpThrows
  <2> QED BY <2>1, <2>2 DEF PlaceInv
<1> QED BY <1>1, <1>2, <1>3, <1>4, <1>5, <1>6, <1>7, <1>8, <1>9, <1>10 DEF Next

(* The invariants hold in every state.                                     *)
LEMMA PlacesHold == Spec => [](QueueInv /\ PlaceInv)
<1>1. Init => QueueInv /\ PlaceInv
  BY InitPlaces
<1>2. QueueInv /\ PlaceInv /\ [Next]_vars => (QueueInv /\ PlaceInv)'
  BY QueueStep, PlaceStep
<1> QED BY <1>1, <1>2, PTL DEF Spec

(* Every variable of the client and of the frame keeps its type.           *)
THEOREM TypeCorrect == Spec => []TypeOK
<1>1. QueueInv => TypeOK
  BY DEF QueueInv, FrameInv
<1> QED BY <1>1, PlacesHold, PTL

(* What Pump finds through a libcurl message is a transfer it owns.        *)
THEOREM HandlesAreOwned == Spec => []HandlesOwned
<1>1. QueueInv => HandlesOwned
  BY DEF QueueInv, HandlesOwned
<1> QED BY <1>1, PlacesHold, PTL

(* Every accepted request is in exactly one place.                         *)
LEMMA InOnePlace == ASSUME QueueInv, PlaceInv PROVE Accounted
<1> SUFFICES ASSUME NEW id \in accepted
             PROVE  Cardinality({p \in {"pending", "collected", "dropped"} :
                        \/ p = "pending" /\ id \in transfers
                        \/ p = "collected" /\ id \in Range(done)
                        \/ p = "dropped" /\ id \in lost}) + called[id] = 1
  BY DEF Accounted
<1> DEFINE places == {p \in {"pending", "collected", "dropped"} :
                        \/ p = "pending" /\ id \in transfers
                        \/ p = "collected" /\ id \in Range(done)
                        \/ p = "dropped" /\ id \in lost}
<1>1. id \in Ids
  BY DEF QueueInv, FrameInv, TypeOK
<1>2. CASE id \in transfers
  <2>1. places = {"pending"} /\ called[id] = 0
    BY <1>2 DEF PlaceInv
  <2>2. Cardinality(places) = 1
    BY <2>1, FS_Singleton
  <2> QED BY <2>1, <2>2
<1>3. CASE id \in Range(done)
  <2>1. places = {"collected"} /\ called[id] = 0
    BY <1>3 DEF PlaceInv
  <2>2. Cardinality(places) = 1
    BY <2>1, FS_Singleton, Zenon
  <2> QED BY <2>1, <2>2
<1>4. CASE id \in lost
  <2>1. places = {"dropped"} /\ called[id] = 0
    BY <1>4 DEF PlaceInv
  <2>2. Cardinality(places) = 1
    BY <2>1, FS_Singleton, Zenon
  <2> QED BY <2>1, <2>2
<1>5. CASE id \notin transfers /\ id \notin Range(done) /\ id \notin lost
  <2>1. places = {} /\ called[id] = 1
    BY <1>5 DEF PlaceInv
  <2>2. Cardinality(places) = 0
    BY <2>1, FS_EmptySet
  <2> QED BY <2>1, <2>2
<1> QED BY <1>2, <1>3, <1>4, <1>5

(* No accepted request is answered twice, or answered after it was         *)
(* dropped, and none leaves transfers_ and `done' unanswered and not       *)
(* dropped, however requests, frames, faults and shutdowns interleave.     *)
THEOREM AllAccounted == Spec => []Accounted
<1>1. QueueInv /\ PlaceInv => Accounted
  BY InOnePlace
<1> QED BY <1>1, PlacesHold, PTL

(* A callback never runs in the Pump during which its request was started, *)
(* nor after the runtime ended.                                            *)
THEOREM CallbacksLater == Spec => CalledLater
<1>1. ASSUME QueueInv, PlaceInv, [Next]_vars, NEW id \in Ids, called'[id] # called[id]
      PROVE  id \notin fresh /\ ~closed' /\ ~dead'
  <2>1. CASE Complete
    <3>1. FrameInv /\ TypeOK /\ IsInjective(done)
      BY <1>1 DEF QueueInv, FrameInv
    <3>2. id = Head(done) /\ Head(done) \in Range(done)
      BY <1>1, <2>1, <3>1, CompleteType
    <3>3. Usable /\ closed' = closed /\ dead' = dead
      BY <2>1, <3>1 DEF Complete, FrameInv
    <3> QED BY <1>1, <3>2, <3>3 DEF PlaceInv, Usable
  <2>2. CASE ~Complete
    <3>1. called' = called
      BY <1>1, <2>2 DEF Next, Request, Perform, Frame, OtherCallback, Callback, Run, Pump,
          PumpThrows, Returns, Throws, Panic, Unwind, DeferShutdown, Shutdown, Clear, vars, history
    <3> QED BY <1>1, <3>1
  <2> QED BY <2>1, <2>2
<1>2. QueueInv /\ PlaceInv /\ [Next]_vars =>
        [\A id \in Ids : called'[id] # called[id] => id \notin fresh /\ ~closed' /\ ~dead']_vars
  BY <1>1
<1> QED BY <1>2, PlacesHold, PTL DEF Spec, CalledLater

(* A step that throws spares the requests that have not finished.          *)
THEOREM PendingSpared == Spec => ThrowSparesPending
<1>1. ASSUME QueueInv, [Next]_vars, ~closed'
      PROVE  /\ transfers \subseteq transfers' \cup Range(done') \cup Range(messages)
             /\ multi \subseteq multi' \cup Range(messages)
  <2>1. CASE Pump
    BY <2>1 DEF Pump, Collect
  <2>2. CASE Shutdown
    BY <1>1, <2>2 DEF Shutdown
  <2>3. CASE \E k \in 1..Len(messages) : PumpThrows(k)
    <3> PICK k \in 1..Len(messages) : PumpThrows(k)
      BY <2>3
    <3>1. TypeOK /\ IsInjective(messages)
      BY <1>1 DEF QueueInv, FrameInv
    <3>2. PICK C : /\ C \subseteq Range(messages) /\ messages[k] \in Range(messages)
                   /\ multi' = multi \ (C \cup {messages[k]})
                   /\ transfers' = transfers \ C
      BY <3>1, PumpThrowsEffect
    <3> QED BY <3>2
  <2>4. CASE ~Pump /\ ~Shutdown /\ ~\E k \in 1..Len(messages) : PumpThrows(k)
    <3>1. transfers \subseteq transfers' /\ multi \subseteq multi'
      BY <1>1, <2>4 DEF Next, Request, Start, Perform, Frame, OtherCallback, Callback, Run,
            Complete, Returns, Throws, Panic, Unwind, DeferShutdown, vars, curlVars
    <3> QED BY <3>1
  <2> QED BY <2>1, <2>2, <2>3, <2>4
<1>2. QueueInv /\ [Next]_vars =>
        [~closed' => /\ transfers \subseteq transfers' \cup Range(done') \cup Range(messages)
                     /\ multi \subseteq multi' \cup Range(messages)]_vars
  BY <1>1
<1> QED BY <1>2, PlacesHold, PTL DEF Spec, ThrowSparesPending
-----------------------------------------------------------------------------
(***************************************************************************)
(* The number of unanswered requests.                                      *)
(***************************************************************************)
(* A script runs only after the first collected request left `done', so    *)
(* whenever one can be started, fewer than kMaxPending are collected.      *)
BoundInv ==
    /\ Cardinality(transfers) <= MaxPending
    /\ lua => Len(done) <= MaxPending - 1
    /\ \/ Cardinality(transfers) + Len(done) <= MaxPending
       \/ Len(done) <= MaxPending - 1

(* The sizes that are compared are numbers.                                *)
LEMMA Sizes ==
    ASSUME TypeOK
    PROVE  /\ IsFiniteSet(transfers) /\ Cardinality(transfers) \in Nat
           /\ Len(done) \in Nat /\ Len(messages) \in Nat
           /\ MaxPending \in Nat /\ MaxPending >= 1
<1>1. IsFiniteSet(Ids)
  BY FS_Interval, RequestsAssumption DEF Ids
<1>2. IsFiniteSet(transfers)
  BY <1>1, FS_Subset DEF TypeOK
<1>3. Cardinality(transfers) \in Nat
  BY <1>2, FS_CardinalityType
<1>4. Len(done) \in Nat /\ Len(messages) \in Nat
  BY LenProperties DEF TypeOK
<1> QED BY <1>2, <1>3, <1>4, PendingAssumption

(* Every step keeps the bound.                                             *)
LEMMA BoundStep ==
    ASSUME QueueInv, BoundInv, [Next]_vars
    PROVE  BoundInv'
<1> DEFINE t == Cardinality(transfers)
           d == Len(done)
<1>0. /\ FrameInv /\ TypeOK /\ IsInjective(messages) /\ IsInjective(done)
      /\ Range(messages) \subseteq transfers
  BY DEF QueueInv, FrameInv
<1>n. t \in Nat /\ d \in Nat /\ MaxPending \in Nat /\ MaxPending >= 1 /\ IsFiniteSet(transfers)
  BY <1>0, Sizes
<1>b. t <= MaxPending /\ (lua => d <= MaxPending - 1)
      /\ (t + d <= MaxPending \/ d <= MaxPending - 1)
  BY DEF BoundInv
<1>e. Len(<<>>) = 0
  BY EmptyRange
<1>a. ASSUME UNCHANGED <<transfers, done>>, lua' => lua \/ done = <<>> PROVE BoundInv'
  <2>1. lua' => d <= MaxPending - 1
    BY <1>a, <1>b, <1>e, <1>n
  <2> QED BY <1>a, <2>1 DEF BoundInv
<1>1. CASE \E accepts \in BOOLEAN : Request(accepts)
  <2> PICK accepts \in BOOLEAN : Request(accepts)
    BY <1>1
  <2>1. lua /\ lua' = lua /\ done' = done /\ t < MaxPending
    BY DEF Request, Admits, frameVars
  <2>2. transfers' \in {transfers, transfers \cup {next_id}}
    BY DEF Request, Start
  <2>3. Cardinality(transfers') \in {t, t + 1}
    BY <1>n, <2>2, FS_AddElement
  <2> HIDE DEF t, d
  <2>4. Cardinality(transfers') <= MaxPending /\ d <= MaxPending - 1
    BY <1>b, <1>n, <2>1, <2>3
  <2> QED BY <2>1, <2>4 DEF BoundInv, d
<1>2. CASE \E id \in Ids : Perform(id)
  BY <1>2, <1>a DEF Perform, frameVars
<1>3. CASE Frame \/ OtherCallback
  BY <1>3, <1>a DEF Frame, OtherCallback, Callback
<1>4. CASE \E calls \in BOOLEAN : Run(calls)
  <2>1. done = <<>>
    BY <1>0, <1>4 DEF Run, FrameInv
  <2> QED BY <1>4, <1>a, <2>1 DEF Run
<1>5. CASE Pump
  <2> DEFINE m == Len(messages)
             u == Cardinality(transfers')
  <2>1. done' = messages /\ transfers' = transfers \ Range(messages) /\ lua' = lua
    BY <1>5 DEF Pump, Collect
  <2>2. ~lua
    BY <1>0, <1>5 DEF Pump, FrameInv, LuaSteps
  <2>3. messages \in Seq(Ids) /\ m \in Nat
    BY <1>0, Sizes DEF TypeOK
  <2>4. Cardinality(Range(messages)) = m
    BY <1>0, <2>3, RangeSize
  <2>5. transfers \cap Range(messages) = Range(messages)
    BY <1>0
  <2>6. u = t - m
    <3>1. Cardinality(transfers \ Range(messages))
            = Cardinality(transfers) - Cardinality(transfers \cap Range(messages))
      BY <1>n, FS_Difference, Zenon
    <3> QED BY <2>1, <2>4, <2>5, <3>1, Zenon
  <2> HIDE DEF t, d, m, u
  <2>7. u <= MaxPending /\ u + m <= MaxPending
    BY <1>b, <1>n, <2>3, <2>6
  <2> QED BY <2>1, <2>2, <2>7 DEF BoundInv, u, m
<1>6. CASE Complete
  <2>1. transfers' = transfers /\ Len(done') = d - 1
    BY <1>0, <1>6, CompleteType DEF Complete
  <2> HIDE DEF t, d
  <2>2. d - 1 <= MaxPending - 1
    BY <1>b, <1>n
  <2> QED BY <1>b, <2>1, <2>2 DEF BoundInv, t
<1>7. CASE Returns \/ DeferShutdown
  BY <1>7, <1>a DEF Returns, DeferShutdown
<1>8. CASE Throws \/ Panic
  <2>1. Unwind /\ ~lua
    BY <1>8 DEF Throws, Panic
  <2>2. done' = <<>> /\ transfers' = transfers /\ lua' = lua
    BY <2>1 DEF Unwind
  <2>3. Len(done') = 0
    BY <1>e, <2>2
  <2> HIDE DEF t, d
  <2>4. 0 <= MaxPending - 1
    BY <1>n
  <2> QED BY <1>b, <2>1, <2>2, <2>3, <2>4 DEF BoundInv, t
<1>9. CASE Shutdown
  <2>1. done' = done /\ lua' = lua
    BY <1>9 DEF Shutdown
  <2>2. CASE dead
    BY <1>9, <1>a, <2>1, <2>2 DEF Shutdown
  <2>3. CASE ~dead
    <3>1. Cardinality(transfers') = 0
      BY <1>9, <2>3, FS_EmptySet DEF Shutdown, Clear
    <3>2. done = <<>> /\ ~lua
      BY <1>0, <1>9 DEF Shutdown, FrameInv, LuaSteps
    <3>3. Len(done') = 0 /\ 0 <= MaxPending - 1 /\ 0 <= MaxPending
      BY <1>e, <1>n, <2>1, <3>2
    <3> QED BY <2>1, <3>1, <3>2, <3>3 DEF BoundInv
  <2> QED BY <2>2, <2>3
<1>10. CASE UNCHANGED vars
  BY <1>10, <1>a DEF vars, frameVars
<1>11. CASE \E k \in 1..Len(messages) : PumpThrows(k)
  <2> PICK k \in 1..Len(messages) : PumpThrows(k)
    BY <1>11
  <2>1. PICK C : transfers' = transfers \ C
    BY <1>0, PumpThrowsEffect
  <2>2. Cardinality(transfers') \in Nat /\ Cardinality(transfers') <= t
    <3>1. transfers' \subseteq transfers
      BY <2>1
    <3>2. IsFiniteSet(transfers') /\ Cardinality(transfers') <= Cardinality(transfers)
      BY <1>n, <3>1, FS_Subset, Zenon
    <3> QED BY <3>2, FS_CardinalityType
  <2>3. done' = done /\ lua' = lua
    BY DEF PumpThrows
  <2> HIDE DEF t, d
  <2>4. /\ Cardinality(transfers') <= MaxPending
        /\ Cardinality(transfers') + d <= MaxPending \/ d <= MaxPending - 1
    BY <1>b, <1>n, <2>2
  <2> QED BY <1>b, <2>3, <2>4 DEF BoundInv, d
<1> QED BY <1>1, <1>2, <1>3, <1>4, <1>5, <1>6, <1>7, <1>8, <1>9, <1>10, <1>11 DEF Next

(* For every limit, callbacks that start requests never bring the number   *)
(* of unanswered ones to twice the limit.                                  *)
THEOREM UnansweredBounded == Spec => []UnansweredBound
<1>1. Init => BoundInv
  <2> SUFFICES ASSUME Init PROVE BoundInv
    OBVIOUS
  <2>1. transfers = {} /\ done = <<>> /\ ~lua
    BY DEF Init
  <2>2. Cardinality(transfers) = 0 /\ Len(done) = 0
    BY <2>1, FS_EmptySet, EmptyRange
  <2>3. 0 <= MaxPending /\ 0 <= MaxPending - 1
    BY PendingAssumption
  <2> QED BY <2>1, <2>2, <2>3 DEF BoundInv
<1>2. QueueInv /\ BoundInv /\ [Next]_vars => BoundInv'
  BY BoundStep
<1>3. QueueInv /\ BoundInv => UnansweredBound
  <2> SUFFICES ASSUME QueueInv, BoundInv PROVE UnansweredBound
    OBVIOUS
  <2>1. TypeOK
    BY DEF QueueInv, FrameInv
  <2> QED BY <2>1, Sizes DEF BoundInv, UnansweredBound
<1> QED BY <1>1, <1>2, <1>3, PlacesHold, PTL DEF Spec
-----------------------------------------------------------------------------
(***************************************************************************)
(* The client implements HttpPromise.                                      *)
(***************************************************************************)
(* The initial states map to initial states.                               *)
LEMMA InitPromise == ASSUME Init PROVE Promise!Init
<1>1. Range(done) = {}
  BY EmptyRange DEF Init
<1> QED BY <1>1 DEF Init, Promise!Init, Usable

(* Every step maps to a step or a stutter.                                 *)
LEMMA PromiseStep ==
    ASSUME QueueInv, PlaceInv, [Next]_vars
    PROVE  [Promise!Next]_(Promise!vars)
<1>0. /\ FrameInv /\ TypeOK /\ IsInjective(messages) /\ IsInjective(done)
      /\ Range(messages) \subseteq transfers
  BY DEF QueueInv, FrameInv
<1>e. Range(<<>>) = {}
  BY EmptyRange
<1>a. ASSUME UNCHANGED <<transfers, done, called, lost, closed, dead>>
      PROVE  UNCHANGED Promise!vars
  BY <1>a DEF Promise!vars, Usable
<1>1. CASE \E accepts \in BOOLEAN : Request(accepts)
  <2> PICK accepts \in BOOLEAN : Request(accepts)
    BY <1>1
  <2>1. next_id \in Ids /\ Usable /\ UNCHANGED <<done, called, lost, closed, dead>>
    BY <1>0, RequestType DEF Request, frameVars
  <2>2. CASE ~accepts
    <3>1. transfers' = transfers
      BY <2>2 DEF Request
    <3> QED BY <1>a, <2>1, <3>1
  <2>3. CASE accepts
    <3>1. transfers' = transfers \cup {next_id}
      BY <2>3 DEF Request, Start
    <3>2. next_id \in Nat /\ ~(next_id < next_id)
      BY <1>0 DEF TypeOK
    <3>3. next_id \notin transfers \cup Range(done) \cup lost /\ called[next_id] = 0
      BY <2>1, <3>2 DEF PlaceInv
    <3>4. Promise!Accept(next_id)
      BY <2>1, <3>1, <3>3 DEF Promise!Accept, Usable
    <3> QED BY <2>1, <3>4 DEF Promise!Next
  <2> QED BY <2>2, <2>3
<1>2. CASE \E id \in Ids : Perform(id)
  BY <1>2, <1>a DEF Perform, frameVars, history
<1>3. CASE Frame \/ OtherCallback \/ \E calls \in BOOLEAN : Run(calls)
  BY <1>3, <1>a DEF Frame, OtherCallback, Callback, Run, history
<1>4. CASE Pump
  <2>1. /\ done' = messages /\ transfers' = transfers \ Range(messages)
        /\ UNCHANGED <<called, lost, closed, dead>>
    BY <1>4 DEF Pump, Collect
  <2>2. Range(done) = {}
    BY <1>0, <1>4, <1>e DEF Pump, FrameInv
  <2>3. transfers' \cup Range(done') = transfers \cup Range(done)
    BY <1>0, <2>1, <2>2
  <2> QED BY <2>1, <2>3 DEF Promise!vars, Usable
<1>5. CASE Complete
  <2> DEFINE h == Head(done)
  <2>1. h \in Ids /\ h \in Range(done) /\ Range(done') = Range(done) \ {h}
    BY <1>0, <1>5, CompleteType
  <2>2. /\ called' = [called EXCEPT ![h] = @ + 1] /\ at = "completing"
        /\ UNCHANGED <<transfers, lost, closed, dead>>
    BY <1>5 DEF Complete
  <2>3. Usable
    BY <1>0, <2>2 DEF FrameInv
  <2> HIDE DEF h
  <2>4. transfers' \cup Range(done') = (transfers \cup Range(done)) \ {h}
    BY <2>1, <2>2 DEF PlaceInv
  <2>5. Promise!Answer(h)
    BY <2>1, <2>2, <2>3, <2>4 DEF Promise!Answer, Usable
  <2> QED BY <2>1, <2>5 DEF Promise!Next
<1>6. CASE Returns \/ DeferShutdown
  BY <1>6, <1>a DEF Returns, DeferShutdown, history
<1>7. CASE Throws \/ Panic
  <2>1. Unwind /\ Faults /\ at # "idle" /\ dead' \in BOOLEAN
    BY <1>0, <1>7, Zenon DEF Throws, Panic, TypeOK
  <2>2. done' = <<>> /\ lost' = lost \cup Range(done) /\ UNCHANGED <<transfers, called, closed>>
    BY <2>1 DEF Unwind
  <2>3. Usable
    BY <1>0, <2>1 DEF FrameInv
  <2>4. Range(done') = {}
    BY <1>e, <2>2
  <2>5. transfers' \cup Range(done') = (transfers \cup Range(done)) \ Range(done)
    BY <2>2, <2>4 DEF PlaceInv
  <2>6. Usable' \in BOOLEAN
    BY DEF Usable
  <2>7. Promise!Fail(Range(done))
    BY <2>1, <2>2, <2>3, <2>5, <2>6 DEF Promise!Fail, Promise!Drop
  <2>8. Range(done) \in SUBSET (transfers \cup Range(done))
    OBVIOUS
  <2> QED BY <2>7, <2>8 DEF Promise!Next
<1>8. CASE Shutdown
  <2>1. done' = done /\ dead' = dead /\ closed' = TRUE /\ ~closed /\ at = "idle"
    BY <1>8 DEF Shutdown
  <2>2. CASE dead
    <3>1. UNCHANGED <<transfers, called, lost>> /\ ~Usable /\ ~Usable'
      BY <1>8, <2>1, <2>2 DEF Shutdown, Usable
    <3> QED BY <2>1, <3>1 DEF Promise!vars, Usable
  <2>3. CASE ~dead
    <3>1. /\ transfers' = {} /\ lost' = lost \cup transfers /\ called' = called
          /\ Usable /\ ~Usable'
      BY <1>8, <2>1, <2>3 DEF Shutdown, Clear, Usable
    <3>2. Range(done) = {} /\ Range(done') = {}
      BY <1>0, <1>e, <2>1 DEF FrameInv
    <3>3. Promise!Close
      BY <3>1, <3>2 DEF Promise!Close, Promise!Drop
    <3> QED BY <3>3 DEF Promise!Next
  <2> QED BY <2>2, <2>3
<1>9. CASE UNCHANGED vars
  BY <1>9, <1>a DEF vars, frameVars, history
<1>10. CASE \E k \in 1..Len(messages) : PumpThrows(k)
  <2> PICK k \in 1..Len(messages) : PumpThrows(k)
    BY <1>10
  <2>1. PICK C : C \subseteq transfers /\ transfers' = transfers \ C /\ lost' = lost \cup C
    BY <1>0, PumpThrowsEffect
  <2>2. Faults /\ at = "http" /\ UNCHANGED <<done, called, dead, closed>>
    BY DEF PumpThrows
  <2>3. Usable /\ Usable' \in BOOLEAN /\ Range(done) = {}
    BY <1>0, <1>e, <2>2 DEF FrameInv, Usable
  <2>4. transfers' \cup Range(done') = (transfers \cup Range(done)) \ C
    BY <2>1, <2>2, <2>3
  <2>5. Promise!Fail(C)
    BY <2>1, <2>2, <2>3, <2>4 DEF Promise!Fail, Promise!Drop
  <2>6. C \in SUBSET (transfers \cup Range(done))
    BY <2>1
  <2> QED BY <2>5, <2>6 DEF Promise!Next
<1> QED BY <1>1, <1>2, <1>3, <1>4, <1>5, <1>6, <1>7, <1>8, <1>9, <1>10 DEF Next

(* Every behaviour of the client is one that HttpPromise allows: a request *)
(* is answered once or dropped, and without faults only the end of the     *)
(* runtime drops any.                                                      *)
THEOREM PromiseKept == Spec => ImplementsPromise
<1>1. Init => Promise!Init
  BY InitPromise
<1>2. QueueInv /\ PlaceInv /\ [Next]_vars => [Promise!Next]_(Promise!vars)
  BY PromiseStep
<1> QED BY <1>1, <1>2, PlacesHold, PTL DEF Spec, ImplementsPromise, Promise!Spec
=============================================================================
