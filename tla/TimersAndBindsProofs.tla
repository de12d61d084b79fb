------------------------ MODULE TimersAndBindsProofs ------------------------
(***************************************************************************)
(* Proofs about two kinds of objects that scripts create and destroy:      *)
(* timers (Scheduler), for any intervals, repeat counts and number of      *)
(* timers, with calls that throw and without, and key binds (KeyBinds),    *)
(* for any slots, tags and bounds.                                         *)
(***************************************************************************)
EXTENDS Scheduler, KeyBinds, TLAPS

-----------------------------------------------------------------------------
\* Timers.

\* Counting down and rescheduling keep the types of the two fields.
LEMMA CountedType ==
    ASSUME TypeOK, NEW id \in Ids, Counted(id)
    PROVE  /\ remaining' \in [Ids -> Nat \cup {kForever}]
           /\ due' \in [Ids -> Nat]
<1>1. Rescheduled(id) \in Nat
  BY DEF TypeOK, Rescheduled
<1>2. (IF remaining[id] > 0 THEN remaining[id] - 1 ELSE remaining[id]) \in Nat \cup {kForever}
  BY DEF TypeOK, kForever
<1> QED
  BY <1>1, <1>2 DEF TypeOK, Counted

\* Every action keeps the types.
LEMMA TypeStep ==
    ASSUME TypeOK, [Next]_vars
    PROVE  TypeOK'
<1> USE DEF TypeOK
<1>1. CASE TimePasses
  BY <1>1 DEF TimePasses, fieldVars, tickVars, historyVars
<1>2. ASSUME NEW ms \in Intervals, NEW count \in Repeats, Create(ms, count)
      PROVE  TypeOK'
  <2>1. /\ ms \in Nat /\ count \in Nat \cup {kForever} /\ clock + ms \in Nat
        /\ next_id \in Ids /\ next_id + 1 \in 1..(MaxTimers + 1)
    BY <1>2, IntervalsAssumption, RepeatsAssumption, BoundsAssumption DEF Create, Ids
  <2> QED
    BY <1>2, <2>1 DEF Create, tickVars
<1>3. ASSUME NEW id \in Ids, Destroy(id)
      PROVE  TypeOK'
  BY <1>3, Zenon DEF Destroy, tickVars, historyVars
<1>4. CASE Tick
  BY <1>4 DEF Tick, fieldVars
<1>5. ASSUME NEW id \in Ids, Run(id)
      PROVE  TypeOK'
  <2>1. id \in 0..MaxTimers
    BY BoundsAssumption DEF Ids
  <2>2. runs' \in [Ids -> Nat] /\ ran' \in [Ids -> Nat] /\ before' \in [Ids -> Nat]
    BY <1>5 DEF Run
  <2> QED
    BY <1>5, <2>1, <2>2, CountedType, Zenon DEF Run, Counted
<1>6. ASSUME NEW id \in Ids, RunThrows(id)
      PROVE  TypeOK'
  BY <1>6, CountedType, Zenon DEF RunThrows, Counted
<1>7. CASE CallbackReturns
  BY <1>7, BoundsAssumption DEF CallbackReturns, fieldVars, historyVars
<1>8. CASE TickEnds
  BY <1>8, Zenon DEF TickEnds, fieldVars, historyVars
<1>9. CASE Clear
  BY <1>9, BoundsAssumption DEF Clear, Zero, tickVars
<1>10. CASE UNCHANGED vars
  BY <1>10 DEF vars, fieldVars, tickVars, historyVars
<1> QED
  BY <1>1, <1>2, <1>3, <1>4, <1>5, <1>6, <1>7, <1>8, <1>9, <1>10, Zenon DEF Next

\* A scheduler without timers has the types.
LEMMA TypeInit == Init => TypeOK
<1> SUFFICES ASSUME Init PROVE TypeOK
  OBVIOUS
<1>1. Zero \in [Ids -> Nat] /\ Zero \in [Ids -> Nat \cup {kForever}]
  BY DEF Zero
<1>2. 1 \in 1..(MaxTimers + 1) /\ 0 \in 0..MaxTimers
  BY BoundsAssumption
<1>3. [id \in Ids |-> FALSE] \in [Ids -> BOOLEAN]
  OBVIOUS
<1> QED
  BY <1>1, <1>2, <1>3, Zenon DEF Init, TypeOK

\* Type correctness of the timers: in particular, a repeat count never goes below
\* zero other than as kForever (Scheduler::Run).
THEOREM TimersTyped == Spec => []TypeOK
BY TypeInit, TypeStep, PTL DEF Spec

-----------------------------------------------------------------------------
(***************************************************************************)
(* The running timer and the repeat counts.                                *)
(***************************************************************************)
\* What is left of a count and what was called add up to no more than was asked
\* for.  A timer whose count is used up, but which is still there, has a call to
\* its credit: the one that threw.
Fits(id) ==
    repeats[id] # kForever =>
        /\ remaining[id] \in Nat
        /\ runs[id] + remaining[id] <= repeats[id]
        /\ remaining[id] = 0 /\ running # id => runs[id] < repeats[id]

CountInv ==
    /\ running # 0 => ticking /\ running \in timers
    /\ \A id \in timers : id < next_id /\ Fits(id)

\* Counting down keeps a count that fits, and leaves the other timers alone.
LEMMA CountedFits ==
    ASSUME TypeOK, CountInv, NEW id \in timers, Counted(id)
    PROVE  /\ repeats' = repeats
           /\ \A other \in timers \ {id} : remaining'[other] = remaining[other]
           /\ repeats[id] # kForever =>
                /\ remaining'[id] \in Nat
                /\ remaining[id] = 0 => remaining'[id] = 0
                /\ remaining[id] # 0 => remaining'[id] = remaining[id] - 1
<1>1. id \in Ids /\ Fits(id)
  BY DEF TypeOK, CountInv
<1>2. remaining'[id] = IF remaining[id] > 0 THEN remaining[id] - 1 ELSE remaining[id]
  BY <1>1 DEF Counted, TypeOK
<1>3. repeats' = repeats /\ \A other \in timers \ {id} : remaining'[other] = remaining[other]
  BY DEF Counted, TypeOK
<1> QED
  BY <1>1, <1>2, <1>3 DEF Fits

\* Every action keeps CountInv.
LEMMA CountStep ==
    ASSUME TypeOK, CountInv, [Next]_vars
    PROVE  CountInv'
<1> USE DEF TypeOK, CountInv
<1>1. CASE TimePasses
  BY <1>1 DEF TimePasses, Fits, fieldVars, tickVars, historyVars
<1>2. ASSUME NEW ms \in Intervals, NEW count \in Repeats, Create(ms, count)
      PROVE  CountInv'
  <2>1. /\ next_id \in Ids /\ next_id \notin timers /\ count # 0
        /\ count \in Nat \cup {kForever}
    <3>1. next_id \in Ids
      BY <1>2, BoundsAssumption DEF Create, Ids
    <3>2. next_id \notin timers
      BY <3>1 DEF Ids
    <3>3. count # 0 /\ count \in Nat \cup {kForever}
      BY RepeatsAssumption DEF kForever
    <3> QED
      BY <3>1, <3>2, <3>3
  <2>2. ASSUME NEW id \in timers
        PROVE  id < next_id' /\ Fits(id)'
    <3>1. id \in Ids /\ id # next_id /\ id < next_id'
      BY <1>2, <2>1 DEF Create, Ids
    <3>2. /\ repeats'[id] = repeats[id] /\ remaining'[id] = remaining[id]
          /\ runs'[id] = runs[id] /\ running' = running
      BY <1>2, <3>1 DEF Create, tickVars
    <3> QED
      BY <3>1, <3>2 DEF Fits
  <2>3. ASSUME NEW id, id = next_id
        PROVE  id < next_id' /\ Fits(id)'
    <3>1. repeats'[id] = count /\ remaining'[id] = count /\ runs'[id] = 0
      BY <1>2, <2>1, <2>3 DEF Create
    <3> QED
      BY <1>2, <2>1, <2>3, <3>1 DEF Fits, Create
  <2>4. timers' = timers \cup {next_id} /\ running' = running /\ ticking' = ticking
    BY <1>2 DEF Create, tickVars
  <2> QED
    BY <2>2, <2>3, <2>4
<1>3. ASSUME NEW id \in Ids, Destroy(id)
      PROVE  CountInv'
  BY <1>3 DEF Destroy, Fits, tickVars, historyVars
<1>4. CASE Tick
  BY <1>4 DEF Tick, Fits, fieldVars
<1>5. ASSUME NEW id \in Ids, Run(id)
      PROVE  CountInv'
  <2>1. /\ id \in timers /\ timers' = timers /\ next_id' = next_id
        /\ running = 0 /\ running' = id /\ ticking'
        /\ Counted(id)
    BY <1>5 DEF Run, IsNext, Exists, Counted
  <2>2. runs'[id] = runs[id] \/ runs'[id] = runs[id] + 1
    BY <1>5 DEF Run
  <2>3. Fits(id)'
    <3> HIDE DEF CountInv
    <3>1. /\ repeats' = repeats
          /\ repeats[id] # kForever =>
                /\ remaining'[id] \in Nat
                /\ remaining[id] = 0 => remaining'[id] = 0
                /\ remaining[id] # 0 => remaining'[id] = remaining[id] - 1
      BY <2>1, CountedFits
    <3>2. Fits(id) /\ id # 0 /\ runs[id] \in Nat /\ repeats[id] \in Nat \cup {kForever}
      BY <2>1 DEF CountInv, Ids
    <3> QED
      BY <2>1, <2>2, <3>1, <3>2 DEF Fits
  <2>4. ASSUME NEW other \in timers, other # id
        PROVE  Fits(other)'
    <3>1. runs'[other] = runs[other] /\ other # 0
      BY <1>5, <2>4 DEF Run, Ids
    <3> QED
      BY <2>1, <2>4, <3>1, CountedFits DEF Fits
  <2> QED
    BY <2>1, <2>3, <2>4
<1>6. ASSUME NEW id \in Ids, RunThrows(id)
      PROVE  CountInv'
  <2>1. /\ id \in timers /\ timers' = timers /\ next_id' = next_id
        /\ running = 0 /\ running' = 0 /\ runs' = runs
        /\ Counted(id)
    BY <1>6 DEF RunThrows, IsNext, Exists, Counted
  <2>2. Fits(id)'
    <3> HIDE DEF CountInv
    <3>1. /\ repeats' = repeats
          /\ repeats[id] # kForever =>
                /\ remaining'[id] \in Nat
                /\ remaining[id] = 0 => remaining'[id] = 0
                /\ remaining[id] # 0 => remaining'[id] = remaining[id] - 1
      BY <2>1, CountedFits
    <3>2. Fits(id) /\ id # 0 /\ runs[id] \in Nat /\ repeats[id] \in Nat \cup {kForever}
      BY <2>1 DEF CountInv, Ids
    <3> QED
      BY <2>1, <3>1, <3>2 DEF Fits
  <2>3. ASSUME NEW other \in timers, other # id
        PROVE  Fits(other)'
    BY <2>1, <2>3, CountedFits, Zenon DEF Fits, Ids
  <2> QED
    BY <2>1, <2>2, <2>3
<1>7. CASE CallbackReturns
  BY <1>7 DEF CallbackReturns, Fits, fieldVars, historyVars
<1>8. CASE TickEnds
  BY <1>8 DEF TickEnds, Fits, fieldVars, historyVars
<1>9. CASE Clear
  BY <1>9 DEF Clear, tickVars
<1>10. CASE UNCHANGED vars
  BY <1>10 DEF vars, Fits, fieldVars, tickVars, historyVars
<1> QED
  BY <1>1, <1>2, <1>3, <1>4, <1>5, <1>6, <1>7, <1>8, <1>9, <1>10 DEF Next

\* Without timers there is nothing to count.
LEMMA CountInit == Init => CountInv
BY DEF Init, CountInv

\* The timer whose callback runs stays in the map (Scheduler::Run, Destroy).
THEOREM RunningStays == Spec => []RunningTimerStays
<1>1. CountInv => RunningTimerStays
  BY DEF CountInv, RunningTimerStays
<1> QED
  BY <1>1, TypeInit, TypeStep, CountInit, CountStep, PTL DEF Spec

\* A callback is called at most as often as its repeat count says, whatever the
\* callbacks do and whichever calls throw (Scheduler::Run).
THEOREM RepeatsBound == Spec => []NeverMoreThanRepeats
<1>1. TypeOK /\ CountInv => NeverMoreThanRepeats
  BY DEF TypeOK, CountInv, Fits, NeverMoreThanRepeats
<1> QED
  BY <1>1, TypeInit, TypeStep, CountInit, CountStep, PTL DEF Spec

-----------------------------------------------------------------------------
(***************************************************************************)
(* The rate.                                                               *)
(***************************************************************************)
\* A timer is due no earlier than it was called last, and at least one interval
\* after the call before that.
Paced(id) == ran[id] <= due[id] /\ before[id] + interval[id] <= due[id]

\* The list of a tick holds timers that are due and were not called in it.
Listed(id) == id < next_id /\ due[id] <= now /\ id \notin settled

RateInv ==
    /\ running # 0 => ticking
    /\ ~ticking => pending = {}
    /\ \A id \in pending : Listed(id)
    /\ \A id \in timers : id < next_id /\ Paced(id)

\* A timer that is due is rescheduled to at least one interval after the time it
\* was called last, and not into the past.
LEMMA ReschedulePaces ==
    ASSUME TypeOK, NEW id \in Ids, Paced(id), due[id] <= now, Counted(id)
    PROVE  /\ now <= due'[id] /\ due[id] <= due'[id]
           /\ ran[id] + interval[id] <= due'[id]
           /\ \A other \in Ids \ {id} : due'[other] = due[other]
<1>1. due'[id] = Rescheduled(id) /\ \A other \in Ids \ {id} : due'[other] = due[other]
  BY DEF Counted, TypeOK
<1>2. now \in Nat /\ due[id] \in Nat /\ ran[id] \in Nat /\ interval[id] \in Nat
  BY DEF TypeOK
<1> QED
  BY <1>1, <1>2 DEF Rescheduled, Paced

\* Every action keeps RateInv.
LEMMA RateStep ==
    ASSUME TypeOK, RateInv, [Next]_vars
    PROVE  RateInv'
<1> USE DEF TypeOK, RateInv
<1>1. CASE TimePasses
  BY <1>1 DEF TimePasses, Paced, Listed, fieldVars, tickVars, historyVars
<1>2. ASSUME NEW ms \in Intervals, NEW count \in Repeats, Create(ms, count)
      PROVE  RateInv'
  <2>1. next_id \in Ids /\ next_id' = next_id + 1 /\ next_id \in Nat
    BY <1>2, BoundsAssumption DEF Create, Ids
  <2>2. ASSUME NEW id \in Ids, id < next_id
        PROVE  /\ id < next_id' /\ id # next_id
               /\ ran'[id] = ran[id] /\ before'[id] = before[id]
               /\ due'[id] = due[id] /\ interval'[id] = interval[id]
    BY <1>2, <2>1, <2>2 DEF Create, Ids
  <2>3. ASSUME NEW id \in pending
        PROVE  Listed(id)'
    BY <1>2, <2>1, <2>2 DEF Create, Listed, tickVars
  <2>4. ASSUME NEW id \in timers
        PROVE  id < next_id' /\ Paced(id)'
    BY <2>1, <2>2 DEF Paced
  <2>5. ASSUME NEW id, id = next_id
        PROVE  id < next_id' /\ Paced(id)'
    <3>1. /\ ran'[id] = clock /\ before'[id] = clock
          /\ due'[id] = clock + ms /\ interval'[id] = ms
      BY <1>2, <2>1, <2>5 DEF Create
    <3>2. ms \in Nat /\ clock \in Nat
      BY IntervalsAssumption
    <3> QED
      BY <2>1, <2>5, <3>1, <3>2 DEF Paced
  <2>6. timers' = timers \cup {next_id} /\ UNCHANGED tickVars
    BY <1>2 DEF Create
  <2> QED
    BY <2>3, <2>4, <2>5, <2>6 DEF tickVars
<1>3. ASSUME NEW id \in Ids, Destroy(id)
      PROVE  RateInv'
  BY <1>3 DEF Destroy, Paced, Listed, tickVars, historyVars
<1>4. CASE Tick
  BY <1>4 DEF Tick, Paced, Listed, fieldVars
<1>5. ASSUME NEW id \in Ids, Run(id)
      PROVE  RateInv'
  <2>1. /\ id \in timers /\ id \in pending /\ Counted(id)
        /\ timers' = timers /\ next_id' = next_id /\ interval' = interval /\ now' = now
        /\ ticking' /\ pending' = pending \ {id} /\ settled' = settled \cup {id}
    BY <1>5 DEF Run, IsNext, Exists, Counted
  <2>2. Paced(id) /\ due[id] <= now
    BY <2>1 DEF Listed
  <2>3. /\ now <= due'[id] /\ ran[id] + interval[id] <= due'[id]
        /\ \A other \in Ids \ {id} : due'[other] = due[other]
    BY <2>1, <2>2, ReschedulePaces
  <2>4. ran'[id] = now /\ before'[id] = ran[id]
    BY <1>5 DEF Run
  <2>5. \A other \in Ids \ {id} : ran'[other] = ran[other] /\ before'[other] = before[other]
    BY <1>5 DEF Run
  <2>6. Paced(id)'
    BY <2>1, <2>3, <2>4 DEF Paced
  <2>7. ASSUME NEW other \in timers, other # id
        PROVE  Paced(other)'
    BY <2>1, <2>3, <2>5, <2>7 DEF Paced
  <2>8. ASSUME NEW other \in pending'
        PROVE  Listed(other)'
    BY <2>1, <2>3, <2>8 DEF Listed
  <2> QED
    BY <2>1, <2>6, <2>7, <2>8
<1>6. ASSUME NEW id \in Ids, RunThrows(id)
      PROVE  RateInv'
  <2>1. /\ id \in timers /\ id \in pending /\ Counted(id)
        /\ timers' = timers /\ next_id' = next_id /\ interval' = interval
        /\ running' = 0 /\ pending' = {} /\ ran' = ran /\ before' = before
    BY <1>6 DEF RunThrows, IsNext, Exists, Counted
  <2>2. Paced(id) /\ due[id] <= now
    BY <2>1 DEF Listed
  <2>3. due[id] <= due'[id] /\ \A other \in Ids \ {id} : due'[other] = due[other]
    BY <2>1, <2>2, ReschedulePaces
  <2>4. due'[id] \in Nat
    BY <2>1, CountedType
  <2>5. Paced(id)'
    BY <2>1, <2>2, <2>3, <2>4 DEF Paced
  <2>6. ASSUME NEW other \in timers, other # id
        PROVE  Paced(other)'
    BY <2>1, <2>3, <2>6 DEF Paced
  <2> QED
    BY <2>1, <2>5, <2>6
<1>7. CASE CallbackReturns
  BY <1>7 DEF CallbackReturns, Paced, Listed, fieldVars, historyVars
<1>8. CASE TickEnds
  BY <1>8 DEF TickEnds, Paced, Listed, fieldVars, historyVars
<1>9. CASE Clear
  BY <1>9 DEF Clear, tickVars
<1>10. CASE UNCHANGED vars
  BY <1>10 DEF vars, Paced, Listed, fieldVars, tickVars, historyVars
<1> QED
  BY <1>1, <1>2, <1>3, <1>4, <1>5, <1>6, <1>7, <1>8, <1>9, <1>10 DEF Next

\* Without timers there is nothing to pace.
LEMMA RateInit == Init => RateInv
BY DEF Init, RateInv

\* A step that starts a callback runs a timer of the tick's list.
LEMMA StartsListed ==
    ASSUME TypeOK, RateInv, [Next]_vars, running' # 0, running' # running
    PROVE  \E id \in pending : id \in timers /\ running' = id
<1>1. PICK id \in Ids : Run(id)
  BY Zenon DEF Next, vars, fieldVars, tickVars, historyVars, TimePasses, Create, Destroy, Tick,
         RunThrows, CallbackReturns, TickEnds, Clear
<1> QED
  BY <1>1 DEF Run, IsNext, Exists

\* A timer that fell behind does not catch up in a burst (Scheduler::Run).
THEOREM RateKept == Spec => NoCatchUp
<1>1. ASSUME TypeOK, RateInv, [Next]_vars
      PROVE  [running' # 0 /\ running' # running
                => now - before[running'] >= interval[running']]_vars
  <2> SUFFICES ASSUME running' # 0, running' # running
               PROVE  now - before[running'] >= interval[running']
    OBVIOUS
  <2>1. PICK id \in pending : id \in timers /\ running' = id
    BY <1>1, StartsListed
  <2>2. /\ before[id] + interval[id] <= due[id] /\ due[id] <= now
        /\ before[id] \in Nat /\ interval[id] \in Nat /\ due[id] \in Nat /\ now \in Nat
    BY <1>1, <2>1 DEF RateInv, Paced, Listed, TypeOK
  <2> QED
    BY <2>1, <2>2
<1> QED
  BY <1>1, TypeInit, TypeStep, RateInit, RateStep, PTL DEF Spec, NoCatchUp

\* No timer is called twice in one tick, or in the tick that created it
\* (Scheduler::Tick).
THEOREM CalledOncePerTick == Spec => OncePerTick
<1>1. ASSUME TypeOK, RateInv, [Next]_vars
      PROVE  [running' # 0 /\ running' # running => running' \notin settled]_vars
  BY <1>1, StartsListed DEF RateInv, Listed
<1> QED
  BY <1>1, TypeInit, TypeStep, RateInit, RateStep, PTL DEF Spec, OncePerTick


-----------------------------------------------------------------------------
(***************************************************************************)
(* Key binds.  Types, own marks and dead handles know no exception.  That  *)
(* handles, tags and marks belong to the bind the server has is proved for *)
(* the slots that nobody filled again before this plugin had noticed that  *)
(* they were freed; for the others it is false.                            *)
(***************************************************************************)


(* What adopting and releasing do to a slot.                               *)
LEMMA SlotSteps ==
    ASSUME NEW slot \in SlotData
    PROVE  /\ Adopted(slot) \in SlotData /\ Adopted(slot).alive
           /\ Adopted(slot).generation >= slot.generation
           /\ slot.alive => Adopted(slot) = slot
           /\ ~slot.alive => /\ Adopted(slot).generation > slot.generation
                             /\ Adopted(slot).created_by_us = FALSE
           /\ Adopted(slot).tag = slot.tag
           /\ Released(slot) \in SlotData
           /\ Released(slot).alive = FALSE /\ Released(slot).created_by_us = FALSE
           /\ Released(slot).generation = slot.generation
           /\ Released(slot).tag = NoTag
<1>1. /\ slot.alive \in BOOLEAN /\ slot.created_by_us \in BOOLEAN /\ slot.generation \in Nat
      /\ slot.tag \in Tags \cup {NoTag}
  BY DEF SlotData
<1>4. /\ Released(slot) \in SlotData
      /\ Released(slot).alive = FALSE /\ Released(slot).created_by_us = FALSE
      /\ Released(slot).generation = slot.generation
      /\ Released(slot).tag = NoTag
  <2> DEFINE old == [slot EXCEPT !.alive = FALSE, !.created_by_us = FALSE, !.tag = NoTag]
  <2>1. Released(slot) = old
    BY DEF Released
  <2>2. old \in SlotData
    BY <1>1, Zenon DEF SlotData
  <2>3. old.alive = FALSE /\ old.created_by_us = FALSE /\ old.generation = slot.generation /\ old.tag = NoTag
    BY DEF SlotData
  <2> HIDE DEF old
  <2> QED BY <2>1, <2>2, <2>3
<1>2. CASE slot.alive
  <2>1. Adopted(slot) = slot
    BY <1>2 DEF Adopted
  <2> QED BY <1>1, <1>2, <2>1, <1>4
<1>3. CASE ~slot.alive
  <2>0. PICK g \in Nat : g = slot.generation + 1
    BY <1>1
  <2> DEFINE new == [slot EXCEPT !.alive = TRUE, !.created_by_us = FALSE, !.generation = g]
  <2>1. Adopted(slot) = new
    BY <1>3, <2>0 DEF Adopted
  <2>2. new \in SlotData
    BY <1>1, Zenon DEF SlotData
  <2>3. new.alive = TRUE /\ new.created_by_us = FALSE /\ new.generation = slot.generation + 1 /\ new.tag = slot.tag
    BY <2>0 DEF SlotData
  <2> HIDE DEF new
  <2> QED BY <1>1, <1>3, <2>1, <2>2, <2>3, <1>4
<1> QED BY <1>2, <1>3, Zenon

(* A slot of a new runtime.                                                *)
LEMMA NewSlotType == NewSlot \in SlotData
BY DEF NewSlot, SlotData

(* A handle that a binding returns.                                        *)
LEMMA HandleType ==
    ASSUME NEW s \in Slots, NEW g \in Nat, NEW held \in [Slots -> BOOLEAN], NEW lives \in [Slots -> Nat]
    PROVE  Handle(s, g, held, lives) \in Handles
BY DEF Handle, Handles

(* The bindings and the events keep the types.                             *)
LEMMA StepType ==
    ASSUME BindsTypeOK, [BindsNext]_bindVars
    PROVE  BindsTypeOK'
<1>a. \A s \in Slots : pool[s] \in SlotData /\ pool[s].generation \in Nat
  BY DEF BindsTypeOK, SlotData
<1>b. \A s \in Slots : /\ Adopted(pool[s]) \in SlotData /\ Adopted(pool[s]).generation \in Nat
                       /\ Released(pool[s]) \in SlotData
  <2> SUFFICES ASSUME NEW s \in Slots
               PROVE  Adopted(pool[s]) \in SlotData /\ Released(pool[s]) \in SlotData
    BY DEF SlotData
  <2> QED BY <1>a, SlotSteps, Zenon
<1>1. ASSUME NEW s \in Slots, NEW some_key \in BOOLEAN, CreateBind(s, some_key)
      PROVE  BindsTypeOK'
  <2> DEFINE slot == [Adopted(pool[s]) EXCEPT !.created_by_us = TRUE]
  <2>1. Adopted(pool[s]) \in SlotData
    BY <1>b
  <2>2. slot \in SlotData /\ slot.generation \in Nat
    BY <2>1, Zenon DEF SlotData
  <2> HIDE DEF slot
  <2>3. /\ keys' \in [Slots -> BOOLEAN] /\ owner' \in [Slots -> {"us", "other"}]
        /\ life' \in [Slots -> Nat] /\ missed' \subseteq Slots
    BY <1>1 DEF CreateBind, Registers, BindsTypeOK
  <2>4. pool' = [pool EXCEPT ![s] = slot] /\ handles' = handles \cup {Handle(s, slot.generation, keys', life')}
    BY <1>1 DEF CreateBind, slot
  <2>5. pool' \in [Slots -> SlotData]
    BY <2>2, <2>4 DEF BindsTypeOK
  <2>6. Handle(s, slot.generation, keys', life') \in Handles
    BY <2>2, <2>3, HandleType
  <2> QED BY <1>1, <2>3, <2>4, <2>5, <2>6, Zenon DEF CreateBind, Registers, BindsTypeOK
<1>2. ASSUME NEW s \in Slots, Lookup(s)
      PROVE  BindsTypeOK'
  <2>1. Handle(s, pool[s].generation, keys, life) \in Handles
    BY <1>a, HandleType DEF BindsTypeOK
  <2> QED BY <1>2, <2>1 DEF Lookup, serverVars, BindsTypeOK
<1>3. ASSUME NEW s \in Slots, OnPlayerKeyBind(s)
      PROVE  BindsTypeOK'
  <2>1. Adopted(pool[s]) \in SlotData /\ Adopted(pool[s]).generation \in Nat
    BY <1>b
  <2>2. Handle(s, Adopted(pool[s]).generation, keys, life) \in Handles
    BY <2>1, HandleType DEF BindsTypeOK
  <2> QED BY <1>3, <2>1, <2>2 DEF OnPlayerKeyBind, serverVars, BindsTypeOK
<1>4. ASSUME NEW s \in Slots, OtherRegisters(s) \/ OtherRemoves(s)
      PROVE  BindsTypeOK'
  <2>1. keys' \in [Slots -> BOOLEAN]
    BY <1>4, Zenon DEF OtherRegisters, Registers, OtherRemoves, BindsTypeOK
  <2>2. owner' \in [Slots -> {"us", "other"}]
    BY <1>4 DEF OtherRegisters, Registers, OtherRemoves, BindsTypeOK
  <2>3. life' \in [Slots -> Nat] /\ missed' \subseteq Slots
    BY <1>4 DEF OtherRegisters, Registers, OtherRemoves, BindsTypeOK
  <2> QED BY <1>4, <2>1, <2>2, <2>3 DEF OtherRegisters, Registers, OtherRemoves, BindsTypeOK
<1>5. ASSUME NEW h \in handles, RequireBindExists(h)
      PROVE  BindsTypeOK'
  <2>1. h.id \in Slots
    BY DEF Handles, BindsTypeOK
  <2> QED BY <1>5, <1>b, <2>1 DEF RequireBindExists, serverVars, BindsTypeOK
<1>6. ASSUME NEW ids, Remove(ids)
      PROVE  /\ pool' \in [Slots -> SlotData] /\ keys' \in [Slots -> BOOLEAN]
             /\ missed' \subseteq Slots
  BY <1>6, <1>a, <1>b DEF Remove, BindsTypeOK
<1>7. ASSUME NEW h \in handles, DestroyBind(h)
      PROVE  BindsTypeOK'
  BY <1>6, <1>7 DEF DestroyBind, BindsTypeOK
<1>8. ASSUME NEW h \in handles, NEW t \in Tags, SetTag(h, t)
      PROVE  BindsTypeOK'
  <2>1. h.id \in Slots
    BY DEF Handles, BindsTypeOK
  <2>2. [pool[h.id] EXCEPT !.tag = t] \in SlotData
    BY <1>a, <2>1 DEF SlotData
  <2>3. pool' \in [Slots -> SlotData]
    BY <1>8, <2>1, <2>2 DEF SetTag, BindsTypeOK
  <2> QED BY <1>8, <2>1, <2>3 DEF SetTag, serverVars, BindsTypeOK
<1>9. ASSUME NEW t \in Tags, findByTag(t)
      PROVE  BindsTypeOK'
  BY <1>2, <1>9 DEF findByTag
<1>10. ASSUME NEW refused, clearAllBinds(refused)
       PROVE  BindsTypeOK'
  BY <1>6, <1>10 DEF clearAllBinds, BindsTypeOK
<1>11. ASSUME NEW refused, Reload(refused)
       PROVE  BindsTypeOK'
  <2>1. NewSlot \in SlotData /\ Adopted(NewSlot) \in SlotData
    BY NewSlotType, SlotSteps, Zenon
  <2> QED BY <1>11, <2>1 DEF Reload, BindsTypeOK
<1>12. CASE UNCHANGED bindVars
  BY <1>12 DEF bindVars, BindsTypeOK
<1> QED BY <1>1, <1>2, <1>3, <1>4, <1>5, <1>7, <1>8, <1>9, <1>10, <1>11, <1>12 DEF BindsNext

(***************************************************************************)
(* Slots, handles and the server's side keep their types.                  *)
(***************************************************************************)
THEOREM BindsTyped == BindsSpec => []BindsTypeOK
<1>1. BindsInit => BindsTypeOK
  BY NewSlotType DEF BindsInit, BindsTypeOK
<1>2. BindsTypeOK /\ [BindsNext]_bindVars => BindsTypeOK'
  BY StepType
<1> QED BY <1>1, <1>2, PTL DEF BindsSpec

-----------------------------------------------------------------------------
\* Generations.

(* Outside a reload no generation falls, and a slot that comes to life     *)
(* gets a higher one; a new handle has the generation of its slot.         *)
Rises ==
    /\ \A s \in Slots :
          /\ pool'[s].generation >= pool[s].generation
          /\ ~pool[s].alive /\ pool'[s].alive => pool'[s].generation > pool[s].generation
    /\ \A h \in handles' \ handles : h.generation = pool'[h.id].generation

(* No step of the pool lowers a generation, and every handle issued        *)
(* carries the generation its slot then has.                               *)
LEMMA StepRises ==
    ASSUME BindsTypeOK, BindsNext
    PROVE  Rises \/ handles' = {}
<1>0. \A s \in Slots : pool[s] \in SlotData /\ pool[s].generation \in Nat /\ pool[s].alive \in BOOLEAN
  BY DEF BindsTypeOK, SlotData
<1>1. ASSUME NEW s \in Slots, NEW some_key \in BOOLEAN, CreateBind(s, some_key)
      PROVE  Rises
  <2> DEFINE slot == [Adopted(pool[s]) EXCEPT !.created_by_us = TRUE]
  <2>1. slot.generation = Adopted(pool[s]).generation
    BY <1>0, SlotSteps DEF SlotData
  <2>2. /\ slot.generation >= pool[s].generation
        /\ ~pool[s].alive => slot.generation > pool[s].generation
    BY <1>0, <2>1, SlotSteps, Zenon
  <2> HIDE DEF slot
  <2>3. pool' = [pool EXCEPT ![s] = slot] /\ handles' = handles \cup {Handle(s, slot.generation, keys', life')}
    BY <1>1 DEF CreateBind, slot
  <2>4. \A r \in Slots : pool'[r] = IF r = s THEN slot ELSE pool[r]
    BY <2>3 DEF BindsTypeOK
  <2>5. \A h \in handles' \ handles : h.id = s /\ h.generation = slot.generation
    BY <2>3 DEF Handle
  <2> QED BY <1>0, <2>2, <2>4, <2>5 DEF Rises
<1>2. ASSUME NEW s \in Slots, Lookup(s)
      PROVE  Rises
  BY <1>0, <1>2 DEF Lookup, Rises, Handle
<1>3. ASSUME NEW s \in Slots, OnPlayerKeyBind(s)
      PROVE  Rises
  <2>1. \A r \in Slots : pool'[r] = IF r = s THEN Adopted(pool[s]) ELSE pool[r]
    BY <1>3 DEF OnPlayerKeyBind, BindsTypeOK
  <2>2. /\ Adopted(pool[s]).generation >= pool[s].generation
        /\ ~pool[s].alive => Adopted(pool[s]).generation > pool[s].generation
    BY <1>0, SlotSteps, Zenon
  <2>3. \A h \in handles' \ handles : h.id = s /\ h.generation = Adopted(pool[s]).generation
    BY <1>3 DEF OnPlayerKeyBind, Handle
  <2> QED BY <1>0, <2>1, <2>2, <2>3 DEF Rises
<1>4. ASSUME UNCHANGED <<pool, handles>>
      PROVE  Rises
  BY <1>0, <1>4 DEF Rises
<1>5. ASSUME NEW s \in Slots, OtherRegisters(s) \/ OtherRemoves(s)
      PROVE  Rises
  BY <1>4, <1>5 DEF OtherRegisters, OtherRemoves
<1>6. ASSUME handles' = handles, \A s \in Slots : pool'[s] = pool[s] \/ pool'[s] = Released(pool[s])
      PROVE  Rises
  <2>1. \A s \in Slots : Released(pool[s]).generation = pool[s].generation /\ Released(pool[s]).alive = FALSE
    BY <1>0, SlotSteps, Zenon
  <2> QED BY <1>0, <1>6, <2>1 DEF Rises
<1>7. ASSUME NEW h \in handles, RequireBindExists(h)
      PROVE  Rises
  <2>1. \A s \in Slots : pool'[s] = pool[s] \/ pool'[s] = Released(pool[s])
    BY <1>7 DEF RequireBindExists, BindsTypeOK
  <2> QED BY <1>6, <1>7, <2>1 DEF RequireBindExists
<1>8. ASSUME NEW h \in handles, DestroyBind(h)
      PROVE  Rises
  BY <1>6, <1>8, Zenon DEF DestroyBind, Remove
<1>9. ASSUME NEW h \in handles, NEW t \in Tags, SetTag(h, t)
      PROVE  Rises
  <2>1. \A s \in Slots : pool'[s].generation = pool[s].generation /\ pool'[s].alive = pool[s].alive
    BY <1>9 DEF SetTag, BindsTypeOK, SlotData
  <2> QED BY <1>0, <1>9, <2>1 DEF SetTag, Rises
<1>10. ASSUME NEW t \in Tags, findByTag(t)
       PROVE  Rises
  BY <1>2, <1>10 DEF findByTag
<1>11. ASSUME NEW refused, clearAllBinds(refused)
       PROVE  Rises
  BY <1>6, <1>11 DEF clearAllBinds, Remove
<1>12. ASSUME NEW refused, Reload(refused)
       PROVE  handles' = {}
  BY <1>12 DEF Reload
<1> QED BY <1>1, <1>2, <1>3, <1>5, <1>7, <1>8, <1>9, <1>10, <1>11, <1>12 DEF BindsNext

(* No handle is from a later adoption than the current one of its slot.    *)
Issued == BindsTypeOK /\ \A h \in handles : h.generation <= pool[h.id].generation

(* Every step keeps issued handles at or below the generation of their     *)
(* slot.                                                                   *)
LEMMA IssuedStep ==
    ASSUME Issued, [BindsNext]_bindVars
    PROVE  Issued'
<1>1. BindsTypeOK /\ BindsTypeOK'
  BY StepType DEF Issued
<1> SUFFICES ASSUME NEW h \in handles' PROVE h.generation <= pool'[h.id].generation
  BY <1>1 DEF Issued
<1>2. h.id \in Slots /\ h.generation \in Nat
  BY <1>1 DEF BindsTypeOK, Handles
<1>3. pool'[h.id].generation \in Nat /\ pool[h.id].generation \in Nat
  BY <1>1, <1>2 DEF BindsTypeOK, SlotData
<1>4. CASE UNCHANGED bindVars
  BY <1>4 DEF Issued, bindVars
<1>5. CASE BindsNext
  <2>1. Rises
    BY <1>1, <1>5, StepRises
  <2>2. CASE h \in handles
    <3>1. h.generation <= pool[h.id].generation /\ pool'[h.id].generation >= pool[h.id].generation
      BY <1>2, <2>1, <2>2 DEF Issued, Rises
    <3> QED BY <1>2, <1>3, <3>1
  <2>3. CASE h \notin handles
    <3>1. h.generation = pool'[h.id].generation
      BY <2>1, <2>3 DEF Rises
    <3> QED BY <1>3, <3>1
  <2> QED BY <2>2, <2>3
<1> QED BY <1>4, <1>5

(***************************************************************************)
(* Once a handle is dead no binding and no event makes it valid again,     *)
(* whoever registers, removes and is adopted in its slot.                  *)
(***************************************************************************)
THEOREM DeadHandlesStayDead == BindsSpec => DeadForGood
<1>1. BindsInit => Issued
  BY NewSlotType DEF BindsInit, Issued, BindsTypeOK
<1>2. Issued /\ [BindsNext]_bindVars => Issued'
  BY IssuedStep
<1>3. Issued /\ [BindsNext]_bindVars => [\A h \in handles \cap handles' : ~Valid(h) => ~Valid(h)']_bindVars
  <2> SUFFICES ASSUME Issued, BindsNext, NEW h \in handles, h \in handles', ~Valid(h)
               PROVE  ~Valid(h)'
    OBVIOUS
  <2>1. BindsTypeOK /\ BindsTypeOK'
    BY StepType DEF Issued
  <2>2. Rises
    BY <2>1, StepRises
  <2>3. h.id \in Slots /\ h.generation \in Nat /\ pool'[h.id].generation \in Nat /\ pool[h.id].generation \in Nat
    BY <2>1 DEF BindsTypeOK, Handles, SlotData
  <2>4. /\ pool'[h.id].generation >= pool[h.id].generation
        /\ ~pool[h.id].alive /\ pool'[h.id].alive => pool'[h.id].generation > pool[h.id].generation
    BY <2>2, <2>3, Zenon DEF Rises
  <2>5. h.generation <= pool[h.id].generation
    BY DEF Issued
  <2>6. CASE ~pool[h.id].alive
    BY <2>3, <2>4, <2>5, <2>6, SMTT(60) DEF Valid
  <2>7. CASE pool[h.id].generation # h.generation
    BY <2>3, <2>4, <2>5, <2>7 DEF Valid
  <2> QED BY <2>6, <2>7 DEF Valid
<1> QED BY <1>1, <1>2, <1>3, PTL DEF BindsSpec, DeadForGood

-----------------------------------------------------------------------------
\* Marks.

(***************************************************************************)
(* Every bind of this runtime that the server still has is marked, also    *)
(* when slots are reused: clearAllBinds and a reload miss none.            *)
(***************************************************************************)
THEOREM OwnBindsAreMarked == BindsSpec => []OwnBindsMarked
<1> DEFINE Inv == BindsTypeOK /\ OwnBindsMarked
<1>1. BindsInit => Inv
  BY NewSlotType DEF BindsInit, BindsTypeOK, OwnBindsMarked
<1>2. Inv /\ [BindsNext]_bindVars => Inv'
  <2> SUFFICES ASSUME BindsTypeOK, OwnBindsMarked, [BindsNext]_bindVars, NEW r \in Slots, keys'[r], owner'[r] = "us"
               PROVE  pool'[r].alive /\ pool'[r].created_by_us
    BY StepType DEF OwnBindsMarked, CreatedByUs
  <2>0. BindsTypeOK'
    BY StepType
  <2>a. ASSUME keys[r], owner[r] = "us", pool'[r] = pool[r]
        PROVE  pool'[r].alive /\ pool'[r].created_by_us
    BY <2>a DEF OwnBindsMarked, CreatedByUs
  <2>1. ASSUME NEW s \in Slots, NEW some_key \in BOOLEAN, CreateBind(s, some_key)
        PROVE  pool'[r].alive /\ pool'[r].created_by_us
    <3>1. CASE r = s
      <4>1. Adopted(pool[s]) \in SlotData /\ Adopted(pool[s]).alive
        BY SlotSteps, Zenon DEF BindsTypeOK
      <4>2. pool'[r] = [Adopted(pool[s]) EXCEPT !.created_by_us = TRUE]
        BY <2>1, <3>1 DEF CreateBind, Registers, BindsTypeOK
      <4> QED BY <4>1, <4>2 DEF SlotData
    <3>2. CASE r # s
      BY <2>1, <2>a, <3>2 DEF CreateBind, Registers, BindsTypeOK
    <3> QED BY <3>1, <3>2
  <2>2. ASSUME NEW s \in Slots, Lookup(s)
        PROVE  pool'[r].alive /\ pool'[r].created_by_us
    BY <2>2, <2>a, Zenon DEF Lookup, serverVars
  <2>3. ASSUME NEW s \in Slots, OnPlayerKeyBind(s)
        PROVE  pool'[r].alive /\ pool'[r].created_by_us
    <3>1. keys[r] /\ owner[r] = "us"
      BY <2>3 DEF OnPlayerKeyBind, serverVars
    <3>2. pool[r].alive
      BY <3>1 DEF OwnBindsMarked, CreatedByUs
    <3>3. pool'[r] = pool[r]
      BY <2>3, <3>2 DEF OnPlayerKeyBind, Adopted, BindsTypeOK
    <3> QED BY <2>a, <3>1, <3>3
  <2>4. ASSUME NEW s \in Slots, OtherRegisters(s) \/ OtherRemoves(s)
        PROVE  pool'[r].alive /\ pool'[r].created_by_us
    <3>1. r # s
      BY <2>4 DEF OtherRegisters, Registers, OtherRemoves, BindsTypeOK
    <3>2. keys[r] /\ owner[r] = "us" /\ pool'[r] = pool[r]
      BY <2>4, <3>1 DEF OtherRegisters, Registers, OtherRemoves, BindsTypeOK
    <3> QED BY <2>a, <3>2
  <2>5. ASSUME NEW h \in handles, RequireBindExists(h)
        PROVE  pool'[r].alive /\ pool'[r].created_by_us
    <3>1. keys[r] /\ owner[r] = "us" /\ r # h.id
      BY <2>5 DEF RequireBindExists, serverVars, KeyBindExists
    <3>2. pool'[r] = pool[r]
      BY <2>5, <3>1 DEF RequireBindExists, BindsTypeOK
    <3> QED BY <2>a, <3>1, <3>2, Zenon
  <2>6. ASSUME NEW ids, Remove(ids), owner' = owner
        PROVE  pool'[r].alive /\ pool'[r].created_by_us
    BY <2>6, <2>a, Zenon DEF Remove
  <2>7. ASSUME NEW h \in handles, DestroyBind(h)
        PROVE  pool'[r].alive /\ pool'[r].created_by_us
    BY <2>6, <2>7 DEF DestroyBind
  <2>8. ASSUME NEW h \in handles, NEW t \in Tags, SetTag(h, t)
        PROVE  pool'[r].alive /\ pool'[r].created_by_us
    <3>1. pool'[r].alive = pool[r].alive /\ pool'[r].created_by_us = pool[r].created_by_us
      BY <2>8 DEF SetTag, BindsTypeOK, SlotData
    <3>2. keys[r] /\ owner[r] = "us"
      BY <2>8 DEF SetTag, serverVars
    <3> QED BY <3>1, <3>2 DEF OwnBindsMarked, CreatedByUs
  <2>9. ASSUME NEW t \in Tags, findByTag(t)
        PROVE  pool'[r].alive /\ pool'[r].created_by_us
    BY <2>2, <2>9 DEF findByTag
  <2>10. ASSUME NEW refused, clearAllBinds(refused)
         PROVE  pool'[r].alive /\ pool'[r].created_by_us
    BY <2>6, <2>10 DEF clearAllBinds
  <2>11. ASSUME NEW refused, Reload(refused)
         PROVE  FALSE
    BY <2>11 DEF Reload
  <2>12. CASE UNCHANGED bindVars
    BY <2>12, <2>a DEF bindVars
  <2> QED BY <2>1, <2>2, <2>3, <2>4, <2>5, <2>7, <2>8, <2>9, <2>10, <2>11, <2>12, Zenon DEF BindsNext
<1>3. Inv => OwnBindsMarked
  OBVIOUS
<1> QED BY <1>1, <1>2, <1>3, PTL DEF BindsSpec

-----------------------------------------------------------------------------
\* Slots that were not filled again behind the plugin's back.

(* A dead slot has no tag; unless the slot was filled again unnoticed, the *)
(* tag of a bind was given to it and what is marked as ours is ours.       *)
SlotOk(s) ==
    /\ ~pool[s].alive => pool[s].tag = NoTag
    /\ keys[s] /\ s \notin missed =>
           /\ pool[s].tag # NoTag => tagged[s] = life[s]
           /\ pool[s].alive /\ pool[s].created_by_us => owner[s] = "us"

KnownInv == Issued /\ HandleMatchesBind /\ \A s \in Slots : SlotOk(s)

(* A step that leaves a slot alone, or only frees it at the server.        *)
Alone(s) ==
    /\ pool'[s] = pool[s] /\ (keys'[s] => keys[s]) /\ (s \in missed => s \in missed')
    /\ owner'[s] = owner[s] /\ life'[s] = life[s] /\ tagged'[s] = tagged[s]

(* Every step keeps what is known of a slot.                               *)
LEMMA SlotOkStep ==
    ASSUME KnownInv, [BindsNext]_bindVars, NEW r \in Slots
    PROVE  SlotOk(r)'
<1>0. BindsTypeOK /\ pool[r] \in SlotData /\ SlotOk(r)
  BY DEF KnownInv, Issued, BindsTypeOK
<1>a. ASSUME Alone(r)
      PROVE  SlotOk(r)'
  BY <1>0, <1>a DEF SlotOk, Alone
<1>b. ASSUME pool'[r] = Released(pool[r]), ~keys'[r]
      PROVE  SlotOk(r)'
  <2>1. Released(pool[r]).alive = FALSE /\ Released(pool[r]).tag = NoTag
    BY <1>0, SlotSteps, Zenon
  <2> QED BY <1>b, <2>1 DEF SlotOk
<1>1. ASSUME NEW s \in Slots, NEW some_key \in BOOLEAN, CreateBind(s, some_key)
      PROVE  SlotOk(r)'
  <2>1. CASE r # s
    BY <1>1, <1>a, <2>1 DEF CreateBind, Registers, Alone, BindsTypeOK
  <2>2. CASE r = s
    <3>1. /\ ~pool[s].alive => pool[s].tag = NoTag
          /\ pool[s].alive => s \in missed'
      BY <1>0, <1>1, <2>2 DEF CreateBind, Registers, SlotOk
    <3>2. /\ Adopted(pool[s]) \in SlotData /\ Adopted(pool[s]).tag = pool[s].tag
          /\ Adopted(pool[s]).alive
      BY <1>0, <2>2, SlotSteps, Zenon
    <3>3. pool'[r] = [Adopted(pool[s]) EXCEPT !.created_by_us = TRUE]
      BY <1>0, <1>1, <2>2 DEF CreateBind, Registers, BindsTypeOK
    <3>4. pool'[r].tag = pool[s].tag /\ pool'[r].alive
      BY <3>2, <3>3 DEF SlotData
    <3>5. owner'[r] = "us"
      BY <1>0, <1>1, <2>2 DEF CreateBind, Registers, BindsTypeOK
    <3> QED BY <2>2, <3>1, <3>4, <3>5 DEF SlotOk
  <2> QED BY <2>1, <2>2
<1>2. ASSUME NEW s \in Slots, Lookup(s)
      PROVE  SlotOk(r)'
  BY <1>2, <1>a, Zenon DEF Lookup, serverVars, Alone
<1>3. ASSUME NEW s \in Slots, OnPlayerKeyBind(s)
      PROVE  SlotOk(r)'
  <2>1. CASE r # s \/ pool[r].alive
    BY <1>0, <1>3, <1>a, <2>1 DEF OnPlayerKeyBind, serverVars, Alone, Adopted, BindsTypeOK
  <2>2. CASE r = s /\ ~pool[r].alive
    <3>1. pool'[r] = Adopted(pool[r])
      BY <1>0, <1>3, <2>2 DEF OnPlayerKeyBind, BindsTypeOK
    <3>2. pool'[r].tag = NoTag /\ pool'[r].alive /\ pool'[r].created_by_us = FALSE
      <4>1. /\ Adopted(pool[r]).tag = pool[r].tag /\ Adopted(pool[r]).alive
            /\ Adopted(pool[r]).created_by_us = FALSE
        BY <1>0, <2>2, SlotSteps, Zenon
      <4>2. pool[r].tag = NoTag
        BY <1>0, <2>2 DEF SlotOk
      <4> QED BY <3>1, <4>1, <4>2
    <3> QED BY <3>2 DEF SlotOk
  <2> QED BY <2>1, <2>2
<1>4. ASSUME NEW s \in Slots, OtherRegisters(s)
      PROVE  SlotOk(r)'
  <2>1. CASE r # s
    BY <1>0, <1>4, <1>a, <2>1 DEF OtherRegisters, Registers, Alone, BindsTypeOK
  <2>2. CASE r = s
    <3>1. pool'[r] = pool[r] /\ (pool[r].alive => r \in missed')
      BY <1>4, <2>2 DEF OtherRegisters, Registers
    <3> QED BY <1>0, <3>1 DEF SlotOk
  <2> QED BY <2>1, <2>2
<1>5. ASSUME NEW s \in Slots, OtherRemoves(s)
      PROVE  SlotOk(r)'
  BY <1>0, <1>5, <1>a DEF OtherRemoves, Alone, BindsTypeOK
<1>6. ASSUME NEW h \in handles, RequireBindExists(h)
      PROVE  SlotOk(r)'
  <2>1. CASE r # h.id
    BY <1>0, <1>6, <1>a, <2>1 DEF RequireBindExists, serverVars, Alone, BindsTypeOK
  <2>2. CASE r = h.id
    <3>1. pool'[r] = Released(pool[r]) /\ ~keys'[r]
      BY <1>0, <1>6, <2>2 DEF RequireBindExists, KeyBindExists, serverVars, BindsTypeOK
    <3> QED BY <1>b, <3>1
  <2> QED BY <2>1, <2>2
<1>7. ASSUME NEW ids, Remove(ids), UNCHANGED <<owner, life, tagged>>
      PROVE  SlotOk(r)'
  <2>1. CASE r \in ids
    BY <1>7, <1>b, <2>1, Zenon DEF Remove
  <2>2. CASE r \notin ids
    BY <1>7, <1>a, <2>2, Zenon DEF Remove, Alone
  <2> QED BY <2>1, <2>2
<1>8. ASSUME NEW h \in handles, DestroyBind(h)
      PROVE  SlotOk(r)'
  BY <1>7, <1>8 DEF DestroyBind
<1>9. ASSUME NEW h \in handles, NEW t \in Tags, SetTag(h, t)
      PROVE  SlotOk(r)'
  <2>1. CASE r # h.id
    BY <1>0, <1>9, <1>a, <2>1 DEF SetTag, serverVars, Alone, BindsTypeOK
  <2>2. CASE r = h.id
    <3>1. pool'[r].alive = pool[r].alive /\ pool'[r].created_by_us = pool[r].created_by_us
      BY <1>0, <1>9, <2>2 DEF SetTag, BindsTypeOK, SlotData
    <3>2. pool[r].alive /\ tagged'[r] = life[r] /\ UNCHANGED <<keys, owner, life, missed>>
      BY <1>0, <1>9, <2>2 DEF SetTag, Live, Valid, serverVars, BindsTypeOK
    <3> QED BY <1>0, <3>1, <3>2, Zenon DEF SlotOk
  <2> QED BY <2>1, <2>2
<1>10. ASSUME NEW t \in Tags, findByTag(t)
       PROVE  SlotOk(r)'
  BY <1>2, <1>10 DEF findByTag
<1>11. ASSUME NEW refused, clearAllBinds(refused)
       PROVE  SlotOk(r)'
  BY <1>7, <1>11 DEF clearAllBinds
<1>12. ASSUME NEW refused, Reload(refused)
       PROVE  SlotOk(r)'
  <2>1. pool'[r] = NewSlot \/ pool'[r] = Adopted(NewSlot)
    BY <1>12 DEF Reload
  <2>2. NewSlot.tag = NoTag /\ NewSlot.created_by_us = FALSE /\ NewSlot.alive = FALSE
    BY DEF NewSlot
  <2>3. pool'[r].tag = NoTag /\ pool'[r].created_by_us = FALSE
    <3>1. Adopted(NewSlot).tag = NewSlot.tag /\ Adopted(NewSlot).created_by_us = FALSE
      BY <2>2, NewSlotType, SlotSteps, Zenon
    <3> QED BY <2>1, <2>2, <3>1
  <2> QED BY <2>3 DEF SlotOk
<1>13. CASE UNCHANGED bindVars
  BY <1>13, <1>a, Zenon DEF bindVars, Alone
<1> QED BY <1>1, <1>2, <1>3, <1>4, <1>5, <1>6, <1>8, <1>9, <1>10, <1>11, <1>12, <1>13 DEF BindsNext

(* A valid handle stays a handle of the bind that the server has.          *)
LEMMA HandleMatchesStep ==
    ASSUME KnownInv, [BindsNext]_bindVars, NEW h \in handles', Live(h)',
           h.id \notin missed'
    PROVE  h.life = life'[h.id]
<1>0. BindsTypeOK /\ BindsTypeOK' /\ Issued
  BY StepType, Zenon DEF KnownInv, Issued
<1>1. h.id \in Slots /\ keys'[h.id] /\ pool'[h.id].alive /\ pool'[h.id].generation = h.generation
  BY <1>0 DEF BindsTypeOK, Handles, Live, Valid, KeyBindExists
<1>a. ASSUME h \in handles, Valid(h), keys[h.id], life'[h.id] = life[h.id], h.id \notin missed
      PROVE  h.life = life'[h.id]
  BY <1>a DEF KnownInv, HandleMatchesBind, Live, KeyBindExists
<1>b. ASSUME h \in handles, ~Valid(h), BindsNext
      PROVE  FALSE
  <2>1. Rises
    BY <1>0, <1>b, StepRises
  <2>2. h.generation <= pool[h.id].generation
    BY <1>b DEF KnownInv, Issued
  <2>3. /\ pool'[h.id].generation >= pool[h.id].generation
        /\ ~pool[h.id].alive => pool'[h.id].generation > pool[h.id].generation
    BY <1>1, <2>1, Zenon DEF Rises
  <2>4. h.generation \in Nat /\ pool[h.id].generation \in Nat
    BY <1>0, <1>1 DEF BindsTypeOK, Handles, SlotData
  <2>5. pool[h.id].alive /\ pool[h.id].generation = h.generation
    <3>1. PICK g : g = pool[h.id].generation
      BY Zenon
    <3>2. /\ g \in Nat /\ h.generation \in Nat /\ h.generation <= g
          /\ h.generation >= g /\ (~pool[h.id].alive => h.generation > g)
      BY <1>1, <2>2, <2>3, <2>4, <3>1, Zenon
    <3> QED BY ONLY <3>1, <3>2, SMT
  <2> QED BY <1>b, <2>5 DEF Valid
<1>2. ASSUME NEW s \in Slots, NEW some_key \in BOOLEAN, CreateBind(s, some_key)
      PROVE  h.life = life'[h.id]
  <2>0. BindsNext
    BY <1>2 DEF BindsNext
  <2>1. CASE h \in handles
    <3>1. Valid(h)
      BY <1>b, <2>0, <2>1
    <3>2. h.id # s /\ h.id \notin missed
      BY <1>2, <3>1 DEF Valid, CreateBind, Registers
    <3>3. keys[h.id] /\ life'[h.id] = life[h.id]
      BY <1>0, <1>1, <1>2, <3>2 DEF CreateBind, Registers, BindsTypeOK
    <3> QED BY <1>a, <2>1, <3>1, <3>2, <3>3
  <2>2. CASE h \notin handles
    BY <1>1, <1>2, <2>2 DEF CreateBind, Handle
  <2> QED BY <2>1, <2>2
<1>3. ASSUME NEW s \in Slots, Lookup(s)
      PROVE  h.life = life'[h.id]
  <2>0. BindsNext
    BY <1>3 DEF BindsNext
  <2>1. CASE h \in handles
    <3>1. Valid(h)
      BY <1>b, <2>0, <2>1
    <3> QED BY <1>1, <1>3, <1>a, <2>1, <3>1, Zenon DEF Lookup, serverVars
  <2>2. CASE h \notin handles
    BY <1>1, <1>3, <2>2 DEF Lookup, Handle, serverVars
  <2> QED BY <2>1, <2>2
<1>4. ASSUME NEW s \in Slots, OnPlayerKeyBind(s)
      PROVE  h.life = life'[h.id]
  <2>0. BindsNext
    BY <1>4 DEF BindsNext
  <2>1. CASE h \in handles
    <3>1. Valid(h)
      BY <1>b, <2>0, <2>1
    <3> QED BY <1>1, <1>4, <1>a, <2>1, <3>1, Zenon DEF OnPlayerKeyBind, serverVars
  <2>2. CASE h \notin handles
    BY <1>1, <1>4, <2>2 DEF OnPlayerKeyBind, Handle, serverVars
  <2> QED BY <2>1, <2>2
<1>5. ASSUME NEW s \in Slots, OtherRegisters(s)
      PROVE  h.life = life'[h.id]
  <2>1. h \in handles /\ Valid(h)
    BY <1>1, <1>5 DEF OtherRegisters, Valid
  <2>2. h.id # s /\ h.id \notin missed
    BY <1>5, <2>1 DEF OtherRegisters, Registers, Valid
  <2>3. keys[h.id] /\ life'[h.id] = life[h.id]
    BY <1>0, <1>1, <1>5, <2>2, Zenon DEF OtherRegisters, Registers, BindsTypeOK
  <2> QED BY <1>a, <2>1, <2>2, <2>3, Zenon
<1>6. ASSUME BindsNext, handles' = handles, life' = life, keys'[h.id] => keys[h.id],
             h.id \notin missed
      PROVE  h.life = life'[h.id]
  BY <1>1, <1>6, <1>a, <1>b, Zenon
<1>7. ASSUME NEW s \in Slots, OtherRemoves(s)
      PROVE  h.life = life'[h.id]
  <2>1. keys'[h.id] => keys[h.id]
    BY <1>0, <1>1, <1>7, Zenon DEF OtherRemoves, BindsTypeOK
  <2>2. handles' = handles /\ life' = life /\ h.id \notin missed /\ BindsNext
    BY <1>7, Zenon DEF OtherRemoves, BindsNext
  <2> QED BY <1>6, <2>1, <2>2
<1>8. ASSUME NEW g \in handles, RequireBindExists(g)
      PROVE  h.life = life'[h.id]
  <2>1. keys' = keys /\ handles' = handles /\ life' = life /\ h.id \notin missed
    <3>1. h.id # g.id
      BY <1>1, <1>8 DEF RequireBindExists, KeyBindExists, serverVars
    <3> QED BY <1>8, <3>1 DEF RequireBindExists, serverVars
  <2>2. BindsNext
    BY <1>8 DEF BindsNext
  <2> QED BY <1>6, <2>1, <2>2
<1>9. ASSUME NEW g \in handles, DestroyBind(g)
      PROVE  h.life = life'[h.id]
  <2>1. (keys'[h.id] => keys[h.id]) /\ h.id \notin missed
    BY <1>1, <1>9, Zenon DEF DestroyBind, Remove
  <2>2. BindsNext
    BY <1>9 DEF BindsNext
  <2> QED BY <1>6, <1>9, <2>1, <2>2, Zenon DEF DestroyBind
<1>10. ASSUME NEW g \in handles, NEW t \in Tags, SetTag(g, t)
       PROVE  h.life = life'[h.id]
  <2>1. keys' = keys /\ handles' = handles /\ life' = life /\ h.id \notin missed
    BY <1>10 DEF SetTag, serverVars
  <2>2. BindsNext
    BY <1>10 DEF BindsNext
  <2> QED BY <1>6, <2>1, <2>2
<1>11. ASSUME NEW t \in Tags, findByTag(t)
       PROVE  h.life = life'[h.id]
  BY <1>3, <1>11, Zenon DEF findByTag
<1>12. ASSUME NEW refused \in SUBSET CreatedByUs, clearAllBinds(refused)
       PROVE  h.life = life'[h.id]
  <2>1. (keys'[h.id] => keys[h.id]) /\ h.id \notin missed
    BY <1>1, <1>12, Zenon DEF clearAllBinds, Remove
  <2>2. BindsNext
    BY <1>12 DEF BindsNext
  <2> QED BY <1>6, <1>12, <2>1, <2>2, Zenon DEF clearAllBinds
<1>13. ASSUME NEW refused \in SUBSET CreatedByUs, Reload(refused)
       PROVE  h.life = life'[h.id]
  BY <1>13 DEF Reload
<1>14. CASE UNCHANGED bindVars
  BY <1>1, <1>14, <1>a DEF bindVars, Valid
<1> QED BY <1>2, <1>3, <1>4, <1>5, <1>7, <1>8, <1>9, <1>10, <1>11, <1>12, <1>13, <1>14, Zenon DEF BindsNext

(* KnownInv is an invariant.                                               *)
LEMMA KnownAlways == BindsSpec => []KnownInv
<1>1. BindsInit => KnownInv
  <2> SUFFICES ASSUME BindsInit PROVE KnownInv
    OBVIOUS
  <2>1. BindsTypeOK /\ handles = {}
    BY NewSlotType DEF BindsInit, BindsTypeOK
  <2>2. \A s \in Slots : pool[s].tag = NoTag /\ ~keys[s]
    BY Zenon DEF BindsInit, NewSlot
  <2> QED BY <2>1, <2>2, Zenon DEF KnownInv, Issued, HandleMatchesBind, SlotOk
<1>2. KnownInv /\ [BindsNext]_bindVars => KnownInv'
  <2> SUFFICES ASSUME KnownInv, [BindsNext]_bindVars PROVE KnownInv'
    OBVIOUS
  <2>1. Issued'
    BY IssuedStep DEF KnownInv
  <2>2. \A s \in Slots : SlotOk(s)'
    BY SlotOkStep
  <2>3. \A h \in handles' : Live(h)' /\ h.id \notin missed' => h.life = life'[h.id]
    BY HandleMatchesStep
  <2> QED BY <2>1, <2>2, <2>3, Zenon DEF KnownInv, HandleMatchesBind
<1> QED BY <1>1, <1>2, PTL DEF BindsSpec

(***************************************************************************)
(* A handle that passes CheckLive is a handle of the bind that the server  *)
(* has in its slot, unless that was registered before the plugin noticed   *)
(* that the earlier one was gone.                                          *)
(***************************************************************************)
THEOREM HandlesMatchBinds == BindsSpec => []HandleMatchesBind
<1>1. KnownInv => HandleMatchesBind
  BY DEF KnownInv
<1> QED BY <1>1, KnownAlways, PTL

(***************************************************************************)
(* A bind shows only a tag that was given to it, with the same exception.  *)
(***************************************************************************)
THEOREM TagsDropped == BindsSpec => []TagOfThisBind
<1>1. KnownInv => TagOfThisBind
  BY Zenon DEF KnownInv, TagOfThisBind, SlotOk
<1> QED BY <1>1, KnownAlways, PTL

(***************************************************************************)
(* clearAllBinds and a reload remove no bind of another plugin but one in  *)
(* such a slot, of which they leave nothing in the pool.                   *)
(***************************************************************************)
THEOREM OthersSpared == BindsSpec => OthersBindsStay
<1>1. KnownInv /\ [BindsNext]_bindVars =>
        [\A s \in Slots : keys[s] /\ ~keys'[s] /\ owner[s] = "other" =>
           \/ OtherRemoves(s)
           \/ \E h \in handles : h.id = s /\ DestroyBind(h)
           \/ s \in missed /\ ~pool'[s].alive]_bindVars
  <2> SUFFICES ASSUME KnownInv, BindsNext, NEW r \in Slots, keys[r], ~keys'[r],
                      owner[r] = "other"
               PROVE  \/ OtherRemoves(r)
                      \/ \E h \in handles : h.id = r /\ DestroyBind(h)
                      \/ r \in missed /\ ~pool'[r].alive
    OBVIOUS
  <2>0. BindsTypeOK /\ SlotOk(r)
    BY DEF KnownInv, Issued
  <2>1. ASSUME NEW s \in Slots, NEW some_key \in BOOLEAN, CreateBind(s, some_key)
        PROVE  FALSE
    BY <2>0, <2>1 DEF CreateBind, Registers, BindsTypeOK
  <2>2. ASSUME NEW s \in Slots, Lookup(s) \/ OnPlayerKeyBind(s)
        PROVE  FALSE
    BY <2>2 DEF Lookup, OnPlayerKeyBind, serverVars
  <2>3. ASSUME NEW s \in Slots, OtherRegisters(s)
        PROVE  FALSE
    BY <2>0, <2>3 DEF OtherRegisters, Registers, BindsTypeOK
  <2>4. ASSUME NEW s \in Slots, OtherRemoves(s)
        PROVE  OtherRemoves(r)
    <3>1. s = r
      BY <2>0, <2>4 DEF OtherRemoves, BindsTypeOK
    <3> QED BY <2>4, <3>1
  <2>5. ASSUME NEW h \in handles, RequireBindExists(h)
        PROVE  FALSE
    BY <2>5 DEF RequireBindExists, serverVars
  <2>6. ASSUME NEW h \in handles, DestroyBind(h)
        PROVE  h.id = r
    BY <2>6, Zenon DEF DestroyBind, Remove
  <2>7. ASSUME NEW h \in handles, NEW t \in Tags, SetTag(h, t)
        PROVE  FALSE
    BY <2>7 DEF SetTag, serverVars
  <2>8. ASSUME NEW t \in Tags, findByTag(t)
        PROVE  FALSE
    BY <2>2, <2>8 DEF findByTag
  <2>9. ASSUME NEW refused \in SUBSET CreatedByUs, clearAllBinds(refused) \/ Reload(refused)
        PROVE  r \in missed /\ ~pool'[r].alive
    <3>1. /\ r \in CreatedByUs
          /\ pool'[r] = Released(pool[r]) \/ pool'[r] = NewSlot
      BY <2>9, Zenon DEF clearAllBinds, Remove, Reload
    <3>2. r \in missed
      BY <2>0, <3>1 DEF CreatedByUs, SlotOk
    <3>3. ~Released(pool[r]).alive /\ ~NewSlot.alive
      BY <2>0, SlotSteps, Zenon DEF BindsTypeOK, NewSlot
    <3> QED BY <3>1, <3>2, <3>3, Zenon
  <2> QED BY <2>1, <2>2, <2>3, <2>4, <2>5, <2>6, <2>7, <2>8, <2>9, Zenon DEF BindsNext
<1> QED BY <1>1, KnownAlways, PTL DEF BindsSpec, OthersBindsStay
=============================================================================
