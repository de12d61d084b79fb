-------------------------- MODULE LifecycleProofs --------------------------
(***************************************************************************)
(* Proofs about Lifecycle, for any players, number of reloads and depth of *)
(* nested callbacks.  The argument is about the stack: every callback but  *)
(* the innermost is inside a call into Lua of the current runtime, so one  *)
(* that finds no such call is alone, and only then a runtime is deleted.   *)
(***************************************************************************)
EXTENDS Lifecycle, SequenceTheorems, TLAPS

-----------------------------------------------------------------------------
\* The stack after one step.

Places == {"body", "after", "reload", "load", "last", "finish", "goodbye", "close"}

\* Only the innermost callback has changed.
TopReplaced ==
    /\ stack # << >> /\ stack' \in Seq(Frames) /\ Len(stack') = Len(stack)
    /\ \A k \in 1..Len(stack) : k # Len(stack) => stack'[k] = stack[k]

\* The step turns the innermost callback into one with these fields.
Turns(rt, at, lua, calls, to, left) ==
    /\ TopReplaced
    /\ LET frame == stack'[Len(stack)]
       IN /\ frame.cb = Top.cb /\ frame.p = Top.p
          /\ frame.rt = rt /\ frame.at = at /\ frame.lua = lua /\ frame.calls = calls
          /\ frame.to = to /\ frame.left = left

\* A new innermost callback.
Enters(frame) ==
    /\ stack' \in Seq(Frames) /\ Len(stack') = Len(stack) + 1
    /\ \A k \in 1..Len(stack) : stack'[k] = stack[k]
    /\ stack'[Len(stack) + 1] = frame

\* The innermost callback has returned.
Leaves ==
    /\ stack' \in Seq(Frames) /\ Len(stack') = Len(stack) - 1
    /\ \A k \in 1..Len(stack') : k \in 1..Len(stack) /\ stack'[k] = stack[k]

(* The innermost callback and its fields.                                  *)
LEMMA TopFields ==
    ASSUME TypeOK, stack # << >>
    PROVE  /\ Len(stack) \in Nat /\ Len(stack) \in 1..Len(stack)
           /\ Top = stack[Len(stack)] /\ Top \in Frames
           /\ Top.cb \in Callbacks /\ Top.rt \in 0..MaxRuntimes /\ Top.p \in Players \cup {Nobody}
           /\ Top.at \in Places /\ Top.lua \in BOOLEAN /\ Top.calls \in 0..2
           /\ Top.to \in Players \cup {Nobody} /\ Top.left \in SUBSET Players
<1>1. stack \in Seq(Frames) /\ Len(stack) \in Nat /\ Len(stack) \in 1..Len(stack)
  BY DEF TypeOK
<1>2. Top \in Frames /\ Top = stack[Len(stack)]
  BY <1>1 DEF Top
<1> QED BY <1>1, <1>2 DEF Frames, Places

(* The stack without its innermost callback.                               *)
LEMMA PoppedStack ==
    ASSUME TypeOK, stack # << >>
    PROVE  /\ Popped \in Seq(Frames) /\ Len(Popped) = Len(stack) - 1 /\ Len(Popped) \in Nat
           /\ \A k \in 1..Len(Popped) : k \in 1..Len(stack) /\ Popped[k] = stack[k]
<1>1. stack \in Seq(Frames) /\ Len(stack) \in Nat /\ Len(stack) > 0
  BY DEF TypeOK
<1> DEFINE last == Len(stack) - 1
<1>2. last \in Nat /\ \A n \in 1..last : n \in 1..Len(stack) /\ stack[n] \in Frames
  BY <1>1
<1>3. Popped = SubSeq(stack, 1, last)
  BY DEF Popped
<1> HIDE DEF last
<1>4. /\ SubSeq(stack, 1, last) \in Seq(Frames) /\ Len(SubSeq(stack, 1, last)) = last
      /\ \A n \in 1..last : SubSeq(stack, 1, last)[n] = stack[n]
  BY <1>2
<1> QED BY <1>2, <1>3, <1>4 DEF last

(* Replace keeps the callbacks below.                                      *)
LEMMA AfterReplace ==
    ASSUME TypeOK, stack # << >>, NEW frame \in Frames, Replace(frame)
    PROVE  TopReplaced /\ stack'[Len(stack)] = frame
<1> DEFINE below == Popped
<1>1. /\ below \in Seq(Frames) /\ Len(below) = Len(stack) - 1 /\ Len(below) \in Nat
      /\ \A k \in 1..Len(below) : below[k] = stack[k]
  BY PoppedStack
<1>2. stack' = Append(below, frame)
  BY DEF Replace
<1> HIDE DEF below
<1>3. /\ stack' \in Seq(Frames) /\ Len(stack') = Len(below) + 1
      /\ \A k \in 1..Len(below) : stack'[k] = below[k]
      /\ stack'[Len(below) + 1] = frame
  BY <1>1, <1>2
<1>4. Len(stack) = Len(below) + 1 /\ Len(stack) \in Nat
  BY <1>1, TopFields
<1>5. \A k \in 1..Len(stack) : k # Len(stack) => k \in 1..Len(below)
  BY <1>1, <1>4
<1> QED BY <1>1, <1>3, <1>4, <1>5 DEF TopReplaced

(* A new callback on the stack.                                            *)
LEMMA AfterEnter ==
    ASSUME TypeOK, NEW frame \in Frames, stack' = Append(stack, frame)
    PROVE  Enters(frame)
BY DEF TypeOK, Enters

(* A callback that returns.                                                *)
LEMMA AfterReturn ==
    ASSUME TypeOK, stack # << >>, Return
    PROVE  Leaves
BY PoppedStack DEF Return, Leaves

(* A callback that the server has just called.                             *)
LEMMA NewFrame ==
    ASSUME TypeOK, NEW cb \in Callbacks, NEW p \in Players \cup {Nobody}
    PROVE  Frame(cb, p) \in Frames
BY BoundsAssumption DEF Frame, Frames, Live, CallsOf, TypeOK

(* What each step of a callback turns it into.                             *)
LEMMA StepShapes ==
    ASSUME TypeOK
    PROVE  /\ CallLua => Turns(Top.rt, Top.at, TRUE, Top.calls - 1, Top.to, Top.left)
           /\ LuaReturns => Turns(Top.rt, Top.at, FALSE, Top.calls, Nobody, Top.left)
           /\ BodyEnds => Turns(Top.rt, "after", FALSE, Top.calls, Top.to, Top.left)
           /\ NoReload => Turns(Top.rt, "last", FALSE, Top.calls, Top.to, Top.left)
           /\ ReloadFails => Turns(Top.rt, "last", FALSE, Top.calls, Top.to, Top.left)
           /\ Reload => Turns(created + 1, "load", FALSE, 2, Top.to, Top.left)
           /\ LoadEnds => Turns(Top.rt, "last", FALSE, Top.calls, Top.to, Top.left)
           /\ NotifyServerShutdown => Turns(Top.rt, "finish", TRUE, 0, Top.to, Top.left)
           /\ ListPlayers => Turns(Top.rt, "goodbye", FALSE, Top.calls, Top.to, alive)
           /\ NotifyEnds => Turns(Top.rt, "close", FALSE, Top.calls, Top.to, {})
<1>1. ASSUME CallLua PROVE Turns(Top.rt, Top.at, TRUE, Top.calls - 1, Top.to, Top.left)
  <2> DEFINE frame == [Top EXCEPT !.lua = TRUE, !.calls = @ - 1]
  <2>1. stack # << >> /\ Replace(frame)
    BY <1>1 DEF CallLua, At
  <2>a. Top.calls - 1 \in 0..2
    BY <1>1, <2>1, TopFields, BoundsAssumption DEF CallLua
  <2>2. frame \in Frames
    BY <2>1, <2>a, TopFields, Zenon DEF Frames
  <2>3. /\ frame.cb = Top.cb /\ frame.p = Top.p /\ frame.rt = Top.rt /\ frame.at = Top.at
        /\ frame.lua = TRUE /\ frame.calls = Top.calls - 1 /\ frame.to = Top.to /\ frame.left = Top.left
    BY <1>1, <2>1, TopFields DEF CallLua, At, Frames
  <2> HIDE DEF frame
  <2> QED BY <2>1, <2>2, <2>3, AfterReplace DEF Turns
<1>2. ASSUME LuaReturns PROVE Turns(Top.rt, Top.at, FALSE, Top.calls, Nobody, Top.left)
  <2> DEFINE frame == [Top EXCEPT !.lua = FALSE, !.to = Nobody]
  <2>1. stack # << >> /\ Replace(frame)
    BY <1>2 DEF LuaReturns, At
  <2>2. frame \in Frames
    BY <2>1, TopFields, Zenon DEF Frames
  <2>3. /\ frame.cb = Top.cb /\ frame.p = Top.p /\ frame.rt = Top.rt /\ frame.at = Top.at
        /\ frame.lua = FALSE /\ frame.calls = Top.calls /\ frame.to = Nobody /\ frame.left = Top.left
    BY <1>2, <2>1, TopFields DEF LuaReturns, At, Frames
  <2> HIDE DEF frame
  <2> QED BY <2>1, <2>2, <2>3, AfterReplace DEF Turns
<1>3. ASSUME BodyEnds PROVE Turns(Top.rt, "after", FALSE, Top.calls, Top.to, Top.left)
  <2> DEFINE frame == [Top EXCEPT !.at = "after"]
  <2>1. stack # << >> /\ Replace(frame)
    BY <1>3 DEF BodyEnds, At
  <2>2. frame \in Frames
    BY <2>1, TopFields DEF Frames
  <2>3. /\ frame.cb = Top.cb /\ frame.p = Top.p /\ frame.rt = Top.rt /\ frame.at = "after"
        /\ frame.lua = FALSE /\ frame.calls = Top.calls /\ frame.to = Top.to /\ frame.left = Top.left
    BY <1>3, <2>1, TopFields DEF BodyEnds, At, Frames
  <2> HIDE DEF frame
  <2> QED BY <2>1, <2>2, <2>3, AfterReplace DEF Turns
<1>4. ASSUME NoReload PROVE Turns(Top.rt, "last", FALSE, Top.calls, Top.to, Top.left)
  <2> DEFINE frame == [Top EXCEPT !.at = "last"]
  <2>1. stack # << >> /\ Replace(frame)
    BY <1>4 DEF NoReload, At
  <2>2. frame \in Frames
    BY <2>1, TopFields DEF Frames
  <2>3. /\ frame.cb = Top.cb /\ frame.p = Top.p /\ frame.rt = Top.rt /\ frame.at = "last"
        /\ frame.lua = FALSE /\ frame.calls = Top.calls /\ frame.to = Top.to /\ frame.left = Top.left
    BY <1>4, <2>1, TopFields DEF NoReload, At, Frames
  <2> HIDE DEF frame
  <2> QED BY <2>1, <2>2, <2>3, AfterReplace DEF Turns
<1>5. ASSUME ReloadFails PROVE Turns(Top.rt, "last", FALSE, Top.calls, Top.to, Top.left)
  <2> DEFINE frame == [Top EXCEPT !.at = "last"]
  <2>1. stack # << >> /\ Replace(frame)
    BY <1>5 DEF ReloadFails, At
  <2>2. frame \in Frames
    BY <2>1, TopFields DEF Frames
  <2>3. /\ frame.cb = Top.cb /\ frame.p = Top.p /\ frame.rt = Top.rt /\ frame.at = "last"
        /\ frame.lua = FALSE /\ frame.calls = Top.calls /\ frame.to = Top.to /\ frame.left = Top.left
    BY <1>5, <2>1, TopFields DEF ReloadFails, At, Frames
  <2> HIDE DEF frame
  <2> QED BY <2>1, <2>2, <2>3, AfterReplace DEF Turns
<1>6. ASSUME Reload PROVE Turns(created + 1, "load", FALSE, 2, Top.to, Top.left)
  <2> DEFINE frame == [Top EXCEPT !.at = "load", !.rt = created + 1, !.calls = 2]
  <2>1. stack # << >> /\ Replace(frame)
    BY <1>6 DEF Reload, At
  <2>a. created + 1 \in 0..MaxRuntimes /\ 2 \in 0..2
    BY <1>6, <2>1, TopFields, BoundsAssumption DEF Reload, TypeOK
  <2>2. frame \in Frames
    BY <2>1, <2>a, TopFields, Zenon DEF Frames
  <2>3. /\ frame.cb = Top.cb /\ frame.p = Top.p /\ frame.rt = created + 1 /\ frame.at = "load"
        /\ frame.lua = FALSE /\ frame.calls = 2 /\ frame.to = Top.to /\ frame.left = Top.left
    BY <1>6, <2>1, TopFields DEF Reload, At, Frames
  <2> HIDE DEF frame
  <2> QED BY <2>1, <2>2, <2>3, AfterReplace DEF Turns
<1>7. ASSUME LoadEnds PROVE Turns(Top.rt, "last", FALSE, Top.calls, Top.to, Top.left)
  <2> DEFINE frame == [Top EXCEPT !.at = "last"]
  <2>1. stack # << >> /\ Replace(frame)
    BY <1>7 DEF LoadEnds, At
  <2>2. frame \in Frames
    BY <2>1, TopFields DEF Frames
  <2>3. /\ frame.cb = Top.cb /\ frame.p = Top.p /\ frame.rt = Top.rt /\ frame.at = "last"
        /\ frame.lua = FALSE /\ frame.calls = Top.calls /\ frame.to = Top.to /\ frame.left = Top.left
    BY <1>7, <2>1, TopFields DEF LoadEnds, At, Frames
  <2> HIDE DEF frame
  <2> QED BY <2>1, <2>2, <2>3, AfterReplace DEF Turns
<1>8. ASSUME NotifyServerShutdown PROVE Turns(Top.rt, "finish", TRUE, 0, Top.to, Top.left)
  <2> DEFINE frame == [Top EXCEPT !.lua = TRUE, !.calls = 0]
  <2>1. stack # << >> /\ Replace(frame)
    BY <1>8 DEF NotifyServerShutdown, At
  <2>a. 0 \in 0..2
    BY <1>8, <2>1, TopFields, BoundsAssumption
  <2>2. frame \in Frames
    BY <2>1, <2>a, TopFields, Zenon DEF Frames
  <2>3. /\ frame.cb = Top.cb /\ frame.p = Top.p /\ frame.rt = Top.rt /\ frame.at = "finish"
        /\ frame.lua = TRUE /\ frame.calls = 0 /\ frame.to = Top.to /\ frame.left = Top.left
    BY <1>8, <2>1, TopFields DEF NotifyServerShutdown, At, Frames
  <2> HIDE DEF frame
  <2> QED BY <2>1, <2>2, <2>3, AfterReplace DEF Turns
<1>9. ASSUME ListPlayers PROVE Turns(Top.rt, "goodbye", FALSE, Top.calls, Top.to, alive)
  <2> DEFINE frame == [Top EXCEPT !.at = "goodbye", !.left = alive]
  <2>1. stack # << >> /\ Replace(frame)
    BY <1>9 DEF ListPlayers, At
  <2>a. alive \in SUBSET Players
    BY <1>9, <2>1, TopFields, BoundsAssumption DEF TypeOK
  <2>2. frame \in Frames
    BY <2>1, <2>a, TopFields, Zenon DEF Frames
  <2>3. /\ frame.cb = Top.cb /\ frame.p = Top.p /\ frame.rt = Top.rt /\ frame.at = "goodbye"
        /\ frame.lua = FALSE /\ frame.calls = Top.calls /\ frame.to = Top.to /\ frame.left = alive
    BY <1>9, <2>1, TopFields DEF ListPlayers, At, Frames
  <2> HIDE DEF frame
  <2> QED BY <2>1, <2>2, <2>3, AfterReplace DEF Turns
<1>10. ASSUME NotifyEnds PROVE Turns(Top.rt, "close", FALSE, Top.calls, Top.to, {})
  <2> DEFINE frame == [Top EXCEPT !.at = "close", !.left = {}]
  <2>1. stack # << >> /\ Replace(frame)
    BY <1>10 DEF NotifyEnds, At
  <2>2. frame \in Frames
    BY <2>1, TopFields, Zenon DEF Frames
  <2>3. /\ frame.cb = Top.cb /\ frame.p = Top.p /\ frame.rt = Top.rt /\ frame.at = "close"
        /\ frame.lua = FALSE /\ frame.calls = Top.calls /\ frame.to = Top.to /\ frame.left = {}
    BY <1>10, <2>1, TopFields DEF NotifyEnds, At, Frames
  <2> HIDE DEF frame
  <2> QED BY <2>1, <2>2, <2>3, AfterReplace DEF Turns
<1> QED BY <1>1, <1>2, <1>3, <1>4, <1>5, <1>6, <1>7, <1>8, <1>9, <1>10, Zenon

\* Where a panic takes the callback whose call it ends.
PanicPlace ==
    CASE Top.at = "body" -> "after"
      [] Top.at = "load" -> "last"
      [] OTHER -> "close"

(* A panic ends the call.                                                  *)
LEMMA PanicShape ==
    ASSUME TypeOK, Panic
    PROVE  Turns(Top.rt, PanicPlace, FALSE, Top.calls, Nobody, Top.left)
<1> DEFINE frame == [Top EXCEPT !.lua = FALSE, !.to = Nobody, !.at = PanicPlace]
<1>1. Len(stack) = 1 /\ stack # << >>
  BY DEF Panic
<1>2. Replace([Top EXCEPT !.lua = FALSE, !.to = Nobody,
                          !.at = CASE @ = "body" -> "after"
                                   [] @ = "load" -> "last"
                                   [] OTHER -> "close"])
  BY DEF Panic
<1>3. Replace(frame)
  BY <1>2 DEF PanicPlace
<1>4. PanicPlace \in Places
  BY DEF PanicPlace, Places
<1>5. frame \in Frames
  BY <1>1, <1>4, TopFields, Zenon DEF Frames, Places
<1>6. /\ frame.cb = Top.cb /\ frame.p = Top.p /\ frame.rt = Top.rt /\ frame.at = PanicPlace
      /\ frame.lua = FALSE /\ frame.calls = Top.calls /\ frame.to = Nobody /\ frame.left = Top.left
  BY <1>1, TopFields DEF Frames
<1> HIDE DEF frame
<1> QED BY <1>1, <1>3, <1>5, <1>6, AfterReplace DEF Turns

(* The end of a callback: a deferred shutdown begins, the frame callback   *)
(* looks for a reload, or the callback returns.                            *)
LEMMA AfterCallbackShape ==
    ASSUME TypeOK, AfterCallback
    PROVE  \/ /\ shutdown_deferred /\ runtime # 0 /\ ~InLuaCall /\ online' = online
              /\ Turns(runtime, "finish", FALSE, 1, Top.to, Top.left)
           \/ /\ Top.cb = "frame" /\ UNCHANGED <<online, shutdown_deferred>>
              /\ Turns(Top.rt, "reload", FALSE, Top.calls, Top.to, Top.left)
           \/ Leaves /\ Return /\ UNCHANGED shutdown_deferred
<1>1. stack # << >> /\ ~Top.lua
  BY DEF AfterCallback, At
<1>2. CASE shutdown_deferred /\ runtime # 0 /\ ~InLuaCall
  <2> DEFINE frame == [Top EXCEPT !.at = "finish", !.rt = runtime, !.calls = 1]
  <2>1. Replace(frame) /\ online' = online
    BY <1>2 DEF AfterCallback
  <2>2. runtime \in 0..MaxRuntimes /\ 1 \in 0..2
    BY DEF TypeOK
  <2>3. frame \in Frames
    BY <1>1, <2>2, TopFields, Zenon DEF Frames
  <2>4. /\ frame.cb = Top.cb /\ frame.p = Top.p /\ frame.rt = runtime /\ frame.at = "finish"
        /\ frame.lua = FALSE /\ frame.calls = 1 /\ frame.to = Top.to /\ frame.left = Top.left
    BY <1>1, TopFields DEF Frames
  <2> HIDE DEF frame
  <2>5. Turns(runtime, "finish", FALSE, 1, Top.to, Top.left)
    BY <1>1, <2>1, <2>3, <2>4, AfterReplace DEF Turns
  <2> QED BY <1>2, <2>1, <2>5, Zenon
<1>3. CASE ~(shutdown_deferred /\ runtime # 0 /\ ~InLuaCall)
  <2>1. \/ Top.cb = "frame" /\ Replace([Top EXCEPT !.at = "reload"]) /\ UNCHANGED <<online, shutdown_deferred>>
        \/ Return /\ UNCHANGED shutdown_deferred
    BY <1>3 DEF AfterCallback
  <2>2. CASE Top.cb = "frame" /\ Replace([Top EXCEPT !.at = "reload"]) /\ UNCHANGED <<online, shutdown_deferred>>
    <3> DEFINE frame == [Top EXCEPT !.at = "reload"]
    <3>1. frame \in Frames
      BY <1>1, TopFields DEF Frames
    <3>2. /\ frame.cb = Top.cb /\ frame.p = Top.p /\ frame.rt = Top.rt /\ frame.at = "reload"
          /\ frame.lua = FALSE /\ frame.calls = Top.calls /\ frame.to = Top.to /\ frame.left = Top.left
      BY <1>1, TopFields DEF Frames
    <3>3. Replace(frame)
      BY <2>2
    <3> HIDE DEF frame
    <3>4. Turns(Top.rt, "reload", FALSE, Top.calls, Top.to, Top.left)
      BY <1>1, <3>1, <3>2, <3>3, AfterReplace DEF Turns
    <3> QED BY <2>2, <3>4, Zenon
  <2>3. CASE Return /\ UNCHANGED shutdown_deferred
    BY <1>1, <2>3, AfterReturn
  <2> QED BY <2>1, <2>2, <2>3, Zenon
<1> QED BY <1>2, <1>3, Zenon

(* The disconnect of one player in NotifyServerShutdown.                   *)
LEMMA GoodbyeShape ==
    ASSUME TypeOK, NEW p \in Players, Goodbye(p)
    PROVE  IF p \in alive
           THEN Turns(Top.rt, "goodbye", TRUE, Top.calls, p, Top.left \ {p})
           ELSE Turns(Top.rt, "goodbye", FALSE, Top.calls, Top.to, Top.left \ {p})
<1>1. stack # << >> /\ ~Top.lua /\ Top.at = "goodbye"
  BY DEF Goodbye, At
<1>2. Top.left \ {p} \in SUBSET Players
  BY <1>1, TopFields
<1>3. CASE p \in alive
  <2> DEFINE frame == [Top EXCEPT !.left = @ \ {p}, !.lua = TRUE, !.to = p]
  <2>1. Replace(frame)
    BY <1>3 DEF Goodbye
  <2>2. frame \in Frames
    BY <1>1, <1>2, TopFields, Zenon DEF Frames
  <2>3. /\ frame.cb = Top.cb /\ frame.p = Top.p /\ frame.rt = Top.rt /\ frame.at = "goodbye"
        /\ frame.lua = TRUE /\ frame.calls = Top.calls /\ frame.to = p /\ frame.left = Top.left \ {p}
    BY <1>1, TopFields DEF Frames
  <2> HIDE DEF frame
  <2> QED BY <1>1, <1>3, <2>1, <2>2, <2>3, AfterReplace DEF Turns
<1>4. CASE p \notin alive
  <2> DEFINE frame == [Top EXCEPT !.left = @ \ {p}]
  <2>1. Replace(frame)
    BY <1>4 DEF Goodbye
  <2>2. frame \in Frames
    BY <1>1, <1>2, TopFields DEF Frames
  <2>3. /\ frame.cb = Top.cb /\ frame.p = Top.p /\ frame.rt = Top.rt /\ frame.at = "goodbye"
        /\ frame.lua = FALSE /\ frame.calls = Top.calls /\ frame.to = Top.to /\ frame.left = Top.left \ {p}
    BY <1>1, TopFields DEF Frames
  <2> HIDE DEF frame
  <2> QED BY <1>1, <1>4, <2>1, <2>2, <2>3, AfterReplace DEF Turns
<1> QED BY <1>3, <1>4, Zenon

\* The step is a new callback, looked up and about to run.
Begins(cb, p) ==
    /\ stack # << >> => Top.lua
    /\ \E frame \in Frames :
          /\ Enters(frame) /\ frame.cb = cb /\ frame.p = p /\ frame.rt = Live /\ frame.at = "body"
          /\ ~frame.lua /\ frame.calls = CallsOf(cb) /\ frame.to = Nobody

(* What the server's calls put on the stack.                               *)
LEMMA EnterShapes ==
    ASSUME TypeOK
    PROVE  /\ OnServerInitialise => Begins("init", Nobody)
           /\ OnServerFrame => Begins("frame", Nobody)
           /\ OnEvent => Begins("event", Nobody)
           /\ \A p \in Players : OnPlayerConnect(p) => Begins("connect", p)
           /\ \A p \in Players : OnPlayerDisconnect(p) => Begins("disconnect", p)
<1>1. ASSUME NEW cb \in Callbacks, NEW p \in Players \cup {Nobody}, Enter(cb, p), stack # << >> => Top.lua
      PROVE  Begins(cb, p)
  <2> DEFINE frame == Frame(cb, p)
  <2>1. frame \in Frames
    BY NewFrame
  <2>2. /\ frame.cb = cb /\ frame.p = p /\ frame.rt = Live /\ frame.at = "body"
        /\ ~frame.lua /\ frame.calls = CallsOf(cb) /\ frame.to = Nobody
    BY DEF Frame
  <2>3. stack' = Append(stack, frame)
    BY <1>1 DEF Enter
  <2> HIDE DEF frame
  <2>4. Enters(frame)
    BY <2>1, <2>3, AfterEnter
  <2> QED BY <1>1, <2>1, <2>2, <2>4 DEF Begins
<1>2. {"init", "frame", "event", "connect", "disconnect"} \subseteq Callbacks
  BY DEF Callbacks
<1> QED BY <1>1, <1>2 DEF OnServerInitialise, OnServerFrame, OnEvent, OnPlayerConnect, OnPlayerDisconnect, CanCall

(* A shutdown that begins at once.                                         *)
LEMMA ShutdownShape ==
    ASSUME TypeOK, OnServerShutdown
    PROVE  \/ UNCHANGED stack /\ (runtime = 0 \/ shutdown_deferred')
           \/ /\ runtime # 0 /\ ~InLuaCall
              /\ \E frame \in Frames :
                    /\ Enters(frame) /\ frame.cb = "shutdown" /\ frame.rt = runtime /\ frame.at = "finish"
                    /\ ~frame.lua /\ frame.to = Nobody
<1>1. CASE runtime # 0 /\ ~InLuaCall /\ stack' # stack
  <2> DEFINE frame == [Frame("shutdown", Nobody) EXCEPT !.at = "finish", !.rt = runtime]
  <2>1. Frame("shutdown", Nobody) \in Frames
    BY NewFrame DEF Callbacks
  <2>2. runtime \in 0..MaxRuntimes
    BY DEF TypeOK
  <2>3. frame \in Frames
    BY <2>1, <2>2, Zenon DEF Frames
  <2>4. /\ frame.cb = "shutdown" /\ frame.rt = runtime /\ frame.at = "finish"
        /\ ~frame.lua /\ frame.to = Nobody
    BY DEF Frame
  <2>5. stack' = Append(stack, frame)
    BY <1>1 DEF OnServerShutdown
  <2> HIDE DEF frame
  <2>6. Enters(frame)
    BY <2>3, <2>5, AfterEnter
  <2> QED BY <1>1, <2>3, <2>4, <2>6
<1>2. CASE ~(runtime # 0 /\ ~InLuaCall)
  BY <1>2 DEF OnServerShutdown
<1>3. CASE stack' = stack
  <2>1. stack \in Seq(Frames)
    BY DEF TypeOK
  <2>2. \A frame : Append(stack, frame) # stack
    BY <2>1
  <2> QED BY <1>3, <2>2 DEF OnServerShutdown
<1> QED BY <1>1, <1>2, <1>3

-----------------------------------------------------------------------------
\* Types.

(* Every step leaves a stack of callbacks.                                 *)
LEMMA StackType ==
    ASSUME TypeOK, [Next]_vars
    PROVE  stack' \in Seq(Frames)
<1>2. CASE OnServerInitialise \/ OnServerFrame \/ OnEvent
  BY <1>2, EnterShapes DEF Begins, Enters
<1>3. ASSUME NEW p \in Players, OnPlayerConnect(p) \/ OnPlayerDisconnect(p)
      PROVE  stack' \in Seq(Frames)
  BY <1>3, EnterShapes DEF Begins, Enters
<1>4. CASE OnServerShutdown
  BY <1>4, ShutdownShape DEF Enters, TypeOK
<1>5. CASE RequestReload \/ RequestShutdown \/ UNCHANGED vars
  BY <1>5 DEF RequestReload, RequestShutdown, vars, TypeOK
<1>6. CASE \/ CallLua \/ LuaReturns \/ BodyEnds \/ NoReload \/ ReloadFails \/ Reload \/ LoadEnds
           \/ NotifyServerShutdown \/ ListPlayers \/ NotifyEnds
  BY <1>6, StepShapes, Zenon DEF Turns, TopReplaced
<1>7. CASE Panic
  BY <1>7, PanicShape DEF Turns, TopReplaced
<1>8. CASE AfterCallback
  BY <1>8, AfterCallbackShape, Zenon DEF Turns, TopReplaced, Leaves
<1>9. ASSUME NEW p \in Players, Goodbye(p)
      PROVE  stack' \in Seq(Frames)
  BY <1>9, GoodbyeShape, Zenon DEF Turns, TopReplaced
<1>10. CASE Close
  <2>1. stack # << >> /\ Return
    BY <1>10 DEF Close, At
  <2> QED BY <2>1, AfterReturn DEF Leaves
<1> QED BY <1>2, <1>3, <1>4, <1>5, <1>6, <1>7, <1>8, <1>9, <1>10 DEF Next, Step

(* Every step keeps the types of the runtime's own state.                  *)
LEMMA PluginType ==
    ASSUME TypeOK, [Next]_vars
    PROVE  /\ runtime' \in 0..MaxRuntimes /\ created' \in 1..MaxRuntimes
           /\ dead' \in BOOLEAN /\ reload_requested' \in BOOLEAN /\ shutdown_deferred' \in BOOLEAN
           /\ server' \in {"loaded", "running", "asked", "stopping"}
<1> DEFINE Goal == /\ runtime' \in 0..MaxRuntimes /\ created' \in 1..MaxRuntimes
                   /\ dead' \in BOOLEAN /\ reload_requested' \in BOOLEAN /\ shutdown_deferred' \in BOOLEAN
                   /\ server' \in {"loaded", "running", "asked", "stopping"}
<1> SUFFICES Goal
  OBVIOUS
<1>1. ASSUME UNCHANGED pluginVars, server' \in {server, "running", "asked"}
      PROVE  Goal
  BY <1>1 DEF pluginVars, TypeOK
<1>2. CASE OnServerInitialise \/ OnServerFrame \/ OnEvent \/ RequestShutdown
  BY <1>1, <1>2 DEF OnServerInitialise, OnServerFrame, OnEvent, RequestShutdown
<1>3. ASSUME NEW p \in Players, OnPlayerConnect(p) \/ OnPlayerDisconnect(p) \/ Goodbye(p)
      PROVE  Goal
  BY <1>1, <1>3 DEF OnPlayerConnect, OnPlayerDisconnect, Goodbye
<1>4. CASE OnServerShutdown
  BY <1>4, Zenon DEF OnServerShutdown, TypeOK
<1>5. CASE RequestReload \/ Panic \/ ReloadFails
  BY <1>5, Zenon DEF RequestReload, Panic, ReloadFails, TypeOK
<1>6. CASE UNCHANGED vars
  BY <1>1, <1>6 DEF vars
<1>7. CASE CallLua \/ LuaReturns \/ BodyEnds
  BY <1>1, <1>7 DEF CallLua, LuaReturns, BodyEnds
<1>8. CASE NoReload \/ LoadEnds \/ NotifyServerShutdown \/ ListPlayers \/ NotifyEnds
  BY <1>1, <1>8 DEF NoReload, LoadEnds, NotifyServerShutdown, ListPlayers, NotifyEnds
<1>9. CASE AfterCallback
  BY <1>9, Zenon DEF AfterCallback, TypeOK
<1>10. CASE Reload
  <2>1. created' \in 1..MaxRuntimes /\ runtime' \in 0..MaxRuntimes
    <3>1. created \in 1..MaxRuntimes /\ created < MaxRuntimes
      BY <1>10 DEF Reload, TypeOK
    <3>2. created + 1 \in 1..MaxRuntimes /\ created + 1 \in 0..MaxRuntimes
      BY <3>1, BoundsAssumption
    <3> QED BY <1>10, <3>2 DEF Reload
  <2> QED BY <1>10, <2>1, Zenon DEF Reload, TypeOK
<1>11. CASE Close
  <2>1. 0 \in 0..MaxRuntimes
    BY BoundsAssumption
  <2> QED BY <1>11, <2>1, Zenon DEF Close, TypeOK
<1> QED BY <1>2, <1>3, <1>4, <1>5, <1>6, <1>7, <1>8, <1>9, <1>10, <1>11 DEF Next, Step

(* Every step keeps the types of the players' state.                       *)
LEMMA PlayerType ==
    ASSUME TypeOK, [Next]_vars
    PROVE  alive' \in SUBSET Players /\ online' \in SUBSET Players /\ told' \in [Players -> Nat]
<1> DEFINE Goal == alive' \in SUBSET Players /\ online' \in SUBSET Players /\ told' \in [Players -> Nat]
<1> SUFFICES Goal
  OBVIOUS
<1>0. alive \in SUBSET Players /\ online \in SUBSET Players /\ told \in [Players -> Nat]
  BY DEF TypeOK
<1>1. \A p \in Players : [told EXCEPT ![p] = @ + 1] \in [Players -> Nat] /\ [told EXCEPT ![p] = 0] \in [Players -> Nat]
  BY <1>0
<1>2. CASE UNCHANGED playerVars
  BY <1>0, <1>2 DEF playerVars
<1>3. CASE OnServerInitialise \/ LuaReturns \/ BodyEnds
  BY <1>0, <1>3 DEF OnServerInitialise, LuaReturns, BodyEnds
<1>4. ASSUME NEW p \in Players, OnPlayerConnect(p) \/ OnPlayerDisconnect(p) \/ Goodbye(p)
      PROVE  Goal
  BY <1>0, <1>1, <1>4 DEF OnPlayerConnect, OnPlayerDisconnect, Goodbye
<1>5. CASE CallLua
  <2>1. CASE Top.cb = "disconnect" /\ Top.p \in Players
    BY <1>0, <1>1, <1>5, <2>1 DEF CallLua
  <2>2. CASE Top.p \notin Players
    <3>1. [told EXCEPT ![Top.p] = @ + 1] = told
      BY <1>0, <2>2
    <3> QED BY <1>0, <1>5, <3>1, Zenon DEF CallLua
  <2>3. CASE Top.cb # "disconnect"
    BY <1>0, <1>5, <2>3 DEF CallLua
  <2> QED BY <2>1, <2>2, <2>3
<1>6. CASE AfterCallback
  BY <1>0, <1>6 DEF AfterCallback, Return
<1>7. CASE Reload
  <2>1. NoneTold \in [Players -> Nat]
    BY DEF NoneTold
  <2> QED BY <1>0, <1>7, <2>1 DEF Reload
<1>8. CASE Close
  BY <1>0, <1>8 DEF Close, Return
<1>9. ASSUME \/ OnServerFrame \/ OnEvent \/ OnServerShutdown \/ RequestReload \/ RequestShutdown
             \/ Panic \/ NoReload \/ ReloadFails \/ LoadEnds
             \/ NotifyServerShutdown \/ ListPlayers \/ NotifyEnds \/ UNCHANGED vars
      PROVE  UNCHANGED playerVars
  BY <1>9 DEF OnServerFrame, OnEvent, OnServerShutdown, RequestReload, RequestShutdown, Panic, NoReload,
             ReloadFails, LoadEnds, NotifyServerShutdown, ListPlayers, NotifyEnds, vars
<1> QED BY <1>2, <1>3, <1>4, <1>5, <1>6, <1>7, <1>8, <1>9 DEF Next, Step

(***************************************************************************)
(* The state of Lifecycle has its types: the numbers of runtimes stay      *)
(* within their bound and a callback makes no more calls into Lua than it  *)
(* has.                                                                    *)
(***************************************************************************)
THEOREM TypeCorrect == Spec => []TypeOK
<1>1. Init => TypeOK
  <2>1. << >> \in Seq(Frames) /\ NoneTold \in [Players -> Nat]
    BY DEF NoneTold
  <2>2. 1 \in 1..MaxRuntimes /\ 1 \in 0..MaxRuntimes
    BY BoundsAssumption
  <2> QED BY <2>1, <2>2, Zenon DEF Init, TypeOK
<1>2. TypeOK /\ [Next]_vars => TypeOK'
  BY StackType, PluginType, PlayerType DEF TypeOK
<1> QED BY <1>1, <1>2, PTL DEF Spec

-----------------------------------------------------------------------------
\* The callbacks on the stack.

Closing == {"finish", "goodbye", "close"}

\* What holds for a callback by itself, with the runtime that there is: it has
\* looked up that runtime, or none while none could be used.
Sound(frame, rt, live) ==
    /\ frame.rt = rt \/ (frame.rt = 0 /\ live = 0)
    /\ frame.lua => frame.rt # 0 /\ frame.at \in {"body", "load", "finish", "goodbye"}
    /\ frame.at \in Closing => frame.rt = rt /\ rt # 0
    /\ frame.at \in {"reload", "load"} => frame.cb = "frame"
    /\ frame.to # Nobody => frame.lua /\ frame.at = "goodbye"

\* All but the innermost callback are inside a call into Lua, and a callback in
\* FinishShutdown is the outermost.
StackInv ==
    \A k \in 1..Len(stack) :
        /\ Sound(stack[k], runtime, Live)
        /\ k # Len(stack) => stack[k].lua
        /\ stack[k].at \in Closing => k = 1

\* A shutdown that has arrived is done, deferred or in progress.
StopInv ==
    server = "stopping" =>
        \/ runtime = 0 \/ shutdown_deferred
        \/ \E k \in 1..Len(stack) : stack[k].at \in Closing

(* A callback inside a call into Lua holds the current runtime, so without *)
(* such a call there is one callback at most, in C++ code.                 *)
LEMMA Alone ==
    ASSUME TypeOK, StackInv, stack # << >>, ~InLuaCall
    PROVE  Len(stack) = 1 /\ ~Top.lua
<1>1. Len(stack) \in Nat /\ Len(stack) \in 1..Len(stack) /\ Top = stack[Len(stack)]
  BY TopFields
<1>2. ASSUME NEW k \in 1..Len(stack), stack[k].lua
      PROVE  FALSE
  <2>1. Sound(stack[k], runtime, Live)
    BY DEF StackInv
  <2>2. stack[k].rt = runtime
    BY <1>2, <2>1 DEF Sound
  <2> QED BY <1>2, <2>2 DEF InLuaCall
<1>3. ASSUME Len(stack) # 1
      PROVE  FALSE
  <2>1. 1 \in 1..Len(stack) /\ 1 # Len(stack)
    BY <1>1, <1>3
  <2>2. stack[1].lua
    BY <2>1, Zenon DEF StackInv
  <2> QED BY <1>2, <2>1, <2>2
<1> QED BY <1>1, <1>2, <1>3

(* A new callback.                                                         *)
LEMMA StackEnters ==
    ASSUME TypeOK, StackInv, UNCHANGED <<runtime, dead>>, stack # << >> => Top.lua,
           NEW frame \in Frames, Enters(frame), Sound(frame, runtime, Live),
           frame.at \in Closing => stack = << >>
    PROVE  StackInv'
<1>1. Len(stack) \in Nat /\ (stack = << >> => Len(stack) = 0)
  BY DEF TypeOK
<1>2. Live' = Live
  BY DEF Live
<1> SUFFICES ASSUME NEW k \in 1..(Len(stack) + 1)
             PROVE  /\ Sound(stack'[k], runtime, Live)
                    /\ k # Len(stack) + 1 => stack'[k].lua
                    /\ stack'[k].at \in Closing => k = 1
  BY <1>2 DEF StackInv, Enters
<1>3. CASE k = Len(stack) + 1
  <2>1. stack'[k] = frame
    BY <1>3 DEF Enters
  <2> QED BY <1>1, <1>3, <2>1
<1>4. CASE k # Len(stack) + 1
  <2>1. k \in 1..Len(stack)
    BY <1>1, <1>4
  <2>2. stack'[k] = stack[k]
    BY <2>1 DEF Enters
  <2>3. stack[k].lua
    <3>1. stack # << >>
      BY <1>1, <2>1
    <3>2. CASE k = Len(stack)
      BY <3>1, <3>2 DEF Top
    <3> QED BY <2>1, <3>2 DEF StackInv
  <2> QED BY <2>1, <2>2, <2>3 DEF StackInv
<1> QED BY <1>3, <1>4

(* A step of the innermost callback that leaves the runtime alone.         *)
LEMMA StackTurns ==
    ASSUME TypeOK, StackInv, UNCHANGED <<runtime, dead>>, TopReplaced,
           Sound(stack'[Len(stack)], runtime, Live),
           stack'[Len(stack)].at \in Closing => Len(stack) = 1
    PROVE  StackInv'
<1>1. Live' = Live /\ Len(stack') = Len(stack)
  BY DEF Live, TopReplaced
<1> SUFFICES ASSUME NEW k \in 1..Len(stack)
             PROVE  /\ Sound(stack'[k], runtime, Live)
                    /\ k # Len(stack) => stack'[k].lua
                    /\ stack'[k].at \in Closing => k = 1
  BY <1>1 DEF StackInv
<1>2. CASE k # Len(stack)
  <2>1. stack'[k] = stack[k]
    BY <1>2 DEF TopReplaced
  <2> QED BY <1>2, <2>1 DEF StackInv
<1> QED BY <1>2, Zenon

(* A step of the only callback, which may change the runtime.              *)
LEMMA StackAlone ==
    ASSUME TypeOK, StackInv, TopReplaced, Len(stack) = 1, Sound(stack'[Len(stack)], runtime', Live')
    PROVE  StackInv'
BY DEF StackInv, TopReplaced

(* A callback that returns.                                                *)
LEMMA StackLeaves ==
    ASSUME TypeOK, StackInv, UNCHANGED <<runtime, dead>>, stack # << >>, Leaves
    PROVE  StackInv'
<1>1. Live' = Live /\ Len(stack) \in Nat
  BY DEF Live, TypeOK
<1> SUFFICES ASSUME NEW k \in 1..Len(stack')
             PROVE  /\ Sound(stack'[k], runtime, Live) /\ stack'[k].lua
                    /\ stack'[k].at \in Closing => k = 1
  BY <1>1 DEF StackInv
<1>2. k \in 1..Len(stack) /\ k # Len(stack) /\ stack'[k] = stack[k]
  BY <1>1 DEF Leaves
<1> QED BY <1>2 DEF StackInv

(* The innermost callback is sound, and alone if it is closing.            *)
LEMMA TopSound ==
    ASSUME TypeOK, StackInv, stack # << >>
    PROVE  Sound(Top, runtime, Live) /\ (Top.at \in Closing => Len(stack) = 1)
BY TopFields, Zenon DEF StackInv

(* Every step keeps StackInv.                                              *)
LEMMA StackStep ==
    ASSUME TypeOK, StackInv, [Next]_vars
    PROVE  StackInv'
<1>1. ASSUME NEW cb, NEW p, Begins(cb, p), UNCHANGED <<runtime, dead>>
      PROVE  StackInv'
  <2>1. PICK frame \in Frames :
           /\ Enters(frame) /\ frame.rt = Live /\ frame.at = "body" /\ ~frame.lua /\ frame.to = Nobody
    BY <1>1 DEF Begins
  <2>2. Sound(frame, runtime, Live) /\ frame.at \notin Closing
    BY <2>1 DEF Sound, Closing, Live
  <2> QED BY <1>1, <2>1, <2>2, StackEnters DEF Begins
<1>2. ASSUME OnServerInitialise \/ OnServerFrame \/ OnEvent
      PROVE  StackInv'
  BY <1>1, <1>2, EnterShapes DEF OnServerInitialise, OnServerFrame, OnEvent, pluginVars
<1>3. ASSUME NEW p \in Players, OnPlayerConnect(p) \/ OnPlayerDisconnect(p)
      PROVE  StackInv'
  BY <1>1, <1>3, EnterShapes DEF OnPlayerConnect, OnPlayerDisconnect, pluginVars
<1>4. CASE UNCHANGED <<runtime, dead, stack>>
  BY <1>4 DEF StackInv, Live
<1>5. CASE OnServerShutdown
  <2>1. UNCHANGED <<runtime, dead>> /\ (stack # << >> => Top.lua)
    BY <1>5 DEF OnServerShutdown, CanCall
  <2>2. CASE UNCHANGED stack
    BY <1>4, <2>1, <2>2
  <2>3. CASE ~UNCHANGED stack
    <3>1. /\ runtime # 0 /\ ~InLuaCall
          /\ \E frame \in Frames :
                /\ Enters(frame) /\ frame.rt = runtime /\ frame.at = "finish" /\ ~frame.lua /\ frame.to = Nobody
      BY <1>5, <2>3, ShutdownShape
    <3>2. PICK frame \in Frames :
             /\ Enters(frame) /\ frame.rt = runtime /\ frame.at = "finish" /\ ~frame.lua /\ frame.to = Nobody
      BY <3>1
    <3>3. Sound(frame, runtime, Live)
      BY <3>1, <3>2 DEF Sound, Closing
    <3>4. stack = << >>
      BY <2>1, <3>1, Alone
    <3> QED BY <2>1, <3>2, <3>3, <3>4, StackEnters
  <2> QED BY <2>2, <2>3
<1>6. CASE RequestReload \/ RequestShutdown \/ UNCHANGED vars
  BY <1>4, <1>6 DEF RequestReload, RequestShutdown, vars, pluginVars
<1>7. ASSUME UNCHANGED <<runtime, dead>>, TopReplaced, Sound(stack'[Len(stack)], runtime, Live),
             stack'[Len(stack)].at \in Closing => Len(stack) = 1
      PROVE  StackInv'
  BY <1>7, StackTurns
<1>8. CASE CallLua \/ LuaReturns
  <2>1. /\ UNCHANGED <<runtime, dead>> /\ stack # << >>
        /\ CallLua => Usable(Top.rt) /\ (Top.at = "body" \/ Top.at = "load")
    BY <1>8 DEF CallLua, LuaReturns, pluginVars, At
  <2>2. Sound(Top, runtime, Live) /\ (Top.at \in Closing => Len(stack) = 1)
    BY <2>1, TopSound
  <2>3. \/ Turns(Top.rt, Top.at, TRUE, Top.calls - 1, Top.to, Top.left) /\ CallLua
        \/ Turns(Top.rt, Top.at, FALSE, Top.calls, Nobody, Top.left)
    BY <1>8, StepShapes, Zenon
  <2>4. TopReplaced /\ stack'[Len(stack)].at = Top.at
    BY <2>3 DEF Turns
  <2>5. Sound(stack'[Len(stack)], runtime, Live)
    BY <2>1, <2>2, <2>3 DEF Turns, Sound, Usable
  <2> QED BY <1>7, <2>1, <2>2, <2>4, <2>5
<1>9. CASE BodyEnds \/ NoReload \/ ReloadFails \/ LoadEnds
  <2>1. UNCHANGED <<runtime, dead>> /\ stack # << >> /\ ~Top.lua
    BY <1>9 DEF BodyEnds, NoReload, ReloadFails, LoadEnds, pluginVars, At
  <2>2. Sound(Top, runtime, Live)
    BY <2>1, TopSound
  <2>3. \/ Turns(Top.rt, "after", FALSE, Top.calls, Top.to, Top.left)
        \/ Turns(Top.rt, "last", FALSE, Top.calls, Top.to, Top.left)
    BY <1>9, StepShapes, Zenon
  <2>4. TopReplaced /\ stack'[Len(stack)].at \notin Closing
    BY <2>3 DEF Turns, Closing
  <2>5. Sound(stack'[Len(stack)], runtime, Live)
    BY <2>1, <2>2, <2>3 DEF Turns, Sound, Closing
  <2> QED BY <1>7, <2>1, <2>4, <2>5
<1>10. CASE NotifyServerShutdown \/ ListPlayers \/ NotifyEnds \/ \E p \in Players : Goodbye(p)
  <2>1. UNCHANGED <<runtime, dead>> /\ stack # << >> /\ ~Top.lua /\ Top.at \in Closing
    BY <1>10, Zenon DEF NotifyServerShutdown, ListPlayers, NotifyEnds, Goodbye, pluginVars, At, Closing
  <2>2. Sound(Top, runtime, Live) /\ Len(stack) = 1
    BY <2>1, TopSound
  <2>3. Top.rt = runtime /\ runtime # 0 /\ Top.to = Nobody
    BY <2>1, <2>2 DEF Sound
  <2>4. \/ Turns(Top.rt, "finish", TRUE, 0, Top.to, Top.left)
        \/ Turns(Top.rt, "goodbye", FALSE, Top.calls, Top.to, alive)
        \/ Turns(Top.rt, "close", FALSE, Top.calls, Top.to, {})
        \/ \E p \in Players : \/ Turns(Top.rt, "goodbye", TRUE, Top.calls, p, Top.left \ {p})
                              \/ Turns(Top.rt, "goodbye", FALSE, Top.calls, Top.to, Top.left \ {p})
    BY <1>10, StepShapes, GoodbyeShape, Zenon
  <2>5. TopReplaced
    BY <2>4 DEF Turns
  <2>6. Sound(stack'[Len(stack)], runtime, Live)
    BY <2>3, <2>4 DEF Turns, Sound, Closing
  <2> QED BY <1>7, <2>1, <2>2, <2>5, <2>6
<1>11. CASE Panic
  <2>1. Len(stack) = 1 /\ stack # << >> /\ Top.lua /\ dead' = TRUE /\ runtime' = runtime
    BY <1>11 DEF Panic
  <2>2. Sound(Top, runtime, Live)
    BY <2>1, TopSound
  <2>3. Turns(Top.rt, PanicPlace, FALSE, Top.calls, Nobody, Top.left)
    BY <1>11, PanicShape, Zenon
  <2>4. Top.rt = runtime /\ runtime # 0
    BY <2>1, <2>2 DEF Sound
  <2>5. PanicPlace \in {"after", "last", "close"}
    BY DEF PanicPlace
  <2>6. Sound(stack'[Len(stack)], runtime', Live')
    BY <2>1, <2>3, <2>4, <2>5 DEF Turns, Sound, Closing
  <2>7. TopReplaced
    BY <2>3 DEF Turns
  <2> QED BY <2>1, <2>6, <2>7, StackAlone
<1>12. CASE AfterCallback
  <2>1. UNCHANGED <<runtime, dead>> /\ stack # << >> /\ ~Top.lua
    BY <1>12 DEF AfterCallback, At
  <2>2. Sound(Top, runtime, Live)
    BY <2>1, TopSound
  <2>3. CASE runtime # 0 /\ ~InLuaCall /\ Turns(runtime, "finish", FALSE, 1, Top.to, Top.left)
    <3>1. Len(stack) = 1
      BY <2>1, <2>3, Alone
    <3>2. TopReplaced
      BY <2>3 DEF Turns
    <3>3. Sound(stack'[Len(stack)], runtime, Live)
      BY <2>1, <2>2, <2>3 DEF Turns, Sound, Closing
    <3> QED BY <1>7, <2>1, <3>1, <3>2, <3>3
  <2>4. CASE Top.cb = "frame" /\ Turns(Top.rt, "reload", FALSE, Top.calls, Top.to, Top.left)
    <3>1. TopReplaced /\ stack'[Len(stack)].at \notin Closing
      BY <2>4 DEF Turns, Closing
    <3>2. Sound(stack'[Len(stack)], runtime, Live)
      BY <2>1, <2>2, <2>4 DEF Turns, Sound, Closing
    <3> QED BY <1>7, <2>1, <3>1, <3>2
  <2>5. CASE Leaves
    BY <2>1, <2>5, StackLeaves
  <2> QED BY <1>12, <2>3, <2>4, <2>5, AfterCallbackShape, Zenon
<1>13. CASE Reload
  <2>1. stack # << >> /\ ~Top.lua /\ Top.at = "reload" /\ ~InLuaCall /\ runtime' = created + 1
    BY <1>13 DEF Reload, ReloadDue, At
  <2>2. Len(stack) = 1 /\ Sound(Top, runtime, Live)
    BY <2>1, Alone, TopSound
  <2>3. Turns(created + 1, "load", FALSE, 2, Top.to, Top.left)
    BY <1>13, StepShapes, Zenon
  <2>4. Sound(stack'[Len(stack)], runtime', Live')
    BY <2>1, <2>2, <2>3 DEF Turns, Sound, Closing
  <2>5. TopReplaced
    BY <2>3 DEF Turns
  <2> QED BY <2>2, <2>4, <2>5, StackAlone
<1>14. CASE Close
  <2>1. stack # << >> /\ Top.at = "close" /\ Return
    BY <1>14 DEF Close, At
  <2>2. Len(stack) = 1 /\ Leaves
    BY <2>1, TopSound, AfterReturn DEF Closing
  <2>3. Len(stack') = 0
    BY <2>2 DEF Leaves
  <2> QED BY <2>3 DEF StackInv
<1> QED BY <1>2, <1>3, <1>5, <1>6, <1>8, <1>9, <1>10, <1>11, <1>12, <1>13, <1>14 DEF Next, Step

(* At the start no callback is in progress and nobody is connected.        *)
LEMMA InitStack == Init => StackInv /\ StopInv
BY DEF Init, StackInv, StopInv

(* StackInv is invariant.                                                  *)
LEMMA StackHolds == Spec => []StackInv
<1>1. TypeOK /\ StackInv /\ [Next]_vars => StackInv'
  BY StackStep
<1> QED BY <1>1, InitStack, TypeCorrect, PTL DEF Spec

(***************************************************************************)
(* HeldRuntimeExists: after a nested callback, a callback never works with *)
(* a Runtime pointer that was deleted meanwhile.                           *)
(***************************************************************************)
THEOREM HeldRuntimes == Spec => []HeldRuntimeExists
<1>1. StackInv => HeldRuntimeExists
  BY DEF StackInv, Sound, HeldRuntimeExists
<1> QED BY <1>1, StackHolds, PTL

(***************************************************************************)
(* ClosedOutsideLua: Runtime::Shutdown is never reached with a call into   *)
(* Lua active, however deep the callback that takes up the shutdown was.   *)
(***************************************************************************)
THEOREM ShutdownOutsideLua == Spec => []ClosedOutsideLua
<1>1. ASSUME TypeOK, StackInv, At("close") PROVE ~InLuaCall
  <2>1. stack # << >> /\ Top.at = "close" /\ ~Top.lua
    BY <1>1 DEF At
  <2>2. Len(stack) = 1 /\ Top = stack[1]
    BY <1>1, <2>1, TopSound, TopFields, Zenon DEF Closing
  <2> QED BY <2>1, <2>2 DEF InLuaCall
<1>2. TypeOK /\ StackInv => ClosedOutsideLua
  BY <1>1 DEF ClosedOutsideLua
<1> QED BY <1>2, TypeCorrect, StackHolds, PTL

-----------------------------------------------------------------------------
\* Shutdowns and reloads.

(* A FinishShutdown that has begun goes on until the runtime is gone.      *)
LEMMA ClosingStays ==
    ASSUME TypeOK, StackInv, [Next]_vars, NEW k \in 1..Len(stack), stack[k].at \in Closing
    PROVE  runtime' = 0 \/ \E j \in 1..Len(stack') : stack'[j].at \in Closing
<1>0. k = 1 /\ Len(stack) \in Nat /\ stack # << >>
  BY DEF StackInv, TypeOK
<1>1. ASSUME NEW frame, Enters(frame)
      PROVE  \E j \in 1..Len(stack') : stack'[j].at \in Closing
  <2>1. k \in 1..Len(stack') /\ stack'[k] = stack[k]
    BY <1>0, <1>1 DEF Enters
  <2> QED BY <2>1
<1>2. CASE OnServerInitialise \/ OnServerFrame \/ OnEvent \/ \E p \in Players : OnPlayerConnect(p) \/ OnPlayerDisconnect(p)
  BY <1>1, <1>2, EnterShapes DEF Begins
<1>3. CASE UNCHANGED stack
  BY <1>3
<1>4. CASE OnServerShutdown
  BY <1>1, <1>3, <1>4, ShutdownShape
<1>5. CASE RequestReload \/ RequestShutdown \/ UNCHANGED vars
  BY <1>3, <1>5 DEF RequestReload, RequestShutdown, vars
<1>6. ASSUME TopReplaced, Top.at \in Closing => stack'[Len(stack)].at \in Closing
      PROVE  \E j \in 1..Len(stack') : stack'[j].at \in Closing
  <2>1. CASE k = Len(stack)
    <3>1. stack'[k].at \in Closing /\ k \in 1..Len(stack')
      BY <1>6, <2>1 DEF TopReplaced, Top
    <3> QED BY <3>1
  <2>2. CASE k # Len(stack)
    <3>1. stack'[k] = stack[k] /\ k \in 1..Len(stack')
      BY <1>6, <2>2 DEF TopReplaced
    <3> QED BY <3>1
  <2> QED BY <2>1, <2>2
<1>7. CASE CallLua \/ LuaReturns
  BY <1>6, <1>7, StepShapes, Zenon DEF Turns
<1>8. CASE BodyEnds \/ NoReload \/ ReloadFails \/ LoadEnds \/ Reload
  <2>1. Top.at \notin Closing
    BY <1>8 DEF BodyEnds, NoReload, ReloadFails, LoadEnds, Reload, At, Closing
  <2> QED BY <1>6, <1>8, <2>1, StepShapes, Zenon DEF Turns
<1>9. CASE NotifyServerShutdown \/ ListPlayers \/ NotifyEnds
  BY <1>6, <1>9, StepShapes, Zenon DEF Turns, Closing
<1>10. CASE \E p \in Players : Goodbye(p)
  BY <1>6, <1>10, GoodbyeShape, Zenon DEF Turns, Closing
<1>11. CASE Panic
  <2>1. Top.at \in Closing => PanicPlace \in Closing
    BY DEF PanicPlace, Closing
  <2> QED BY <1>6, <1>11, <2>1, PanicShape DEF Turns
<1>12. CASE AfterCallback
  <2>1. Top.at \notin Closing
    BY <1>12 DEF AfterCallback, At, Closing
  <2>2. CASE Leaves
    <3>1. k # Len(stack)
      BY <2>1 DEF Top
    <3>2. k \in 1..Len(stack') /\ stack'[k] = stack[k]
      BY <1>0, <2>2, <3>1 DEF Leaves
    <3> QED BY <3>2
  <2> QED BY <1>6, <1>12, <2>1, <2>2, AfterCallbackShape, Zenon DEF Turns
<1>13. CASE Close
  BY <1>13 DEF Close
<1> QED BY <1>2, <1>4, <1>5, <1>7, <1>8, <1>9, <1>10, <1>11, <1>12, <1>13 DEF Next, Step

(* A deferred shutdown stays deferred until its FinishShutdown begins.     *)
LEMMA DeferredStays ==
    ASSUME TypeOK, StackInv, [Next]_vars, shutdown_deferred
    PROVE  \/ runtime' = 0 \/ shutdown_deferred'
           \/ \E j \in 1..Len(stack') : stack'[j].at \in Closing
<1>1. ASSUME NEW frame, Enters(frame), frame.at = "finish"
      PROVE  \E j \in 1..Len(stack') : stack'[j].at \in Closing
  <2>1. Len(stack) + 1 \in 1..Len(stack') /\ stack'[Len(stack) + 1] = frame
    BY <1>1 DEF Enters, TypeOK
  <2> QED BY <1>1, <2>1 DEF Closing
<1>2. CASE OnServerShutdown
  <2>1. CASE UNCHANGED stack /\ (runtime = 0 \/ shutdown_deferred')
    BY <1>2, <2>1 DEF OnServerShutdown
  <2> QED BY <1>1, <1>2, <2>1, ShutdownShape
<1>3. CASE AfterCallback
  <2>1. CASE Turns(runtime, "finish", FALSE, 1, Top.to, Top.left)
    <3>1. Len(stack) \in 1..Len(stack') /\ stack'[Len(stack)].at = "finish"
      BY <2>1, TopFields DEF Turns, TopReplaced
    <3> QED BY <3>1 DEF Closing
  <2> QED BY <1>3, <2>1, AfterCallbackShape, Zenon
<1>4. CASE Close
  BY <1>4 DEF Close
<1>5. CASE OnServerInitialise \/ OnServerFrame \/ OnEvent \/ \E p \in Players : OnPlayerConnect(p) \/ OnPlayerDisconnect(p)
  BY <1>5, Zenon DEF OnServerInitialise, OnServerFrame, OnEvent, OnPlayerConnect, OnPlayerDisconnect, pluginVars
<1>6. CASE RequestReload \/ RequestShutdown \/ CallLua \/ LuaReturns \/ Panic \/ BodyEnds \/ UNCHANGED vars
  BY <1>6, Zenon DEF RequestReload, RequestShutdown, CallLua, LuaReturns, Panic, BodyEnds, vars, pluginVars
<1>7. CASE NoReload \/ ReloadFails \/ Reload \/ LoadEnds
  BY <1>7, Zenon DEF NoReload, ReloadFails, Reload, LoadEnds, pluginVars
<1>8. CASE NotifyServerShutdown \/ ListPlayers \/ NotifyEnds \/ \E p \in Players : Goodbye(p)
  BY <1>8, Zenon DEF NotifyServerShutdown, ListPlayers, NotifyEnds, Goodbye, pluginVars
<1> QED BY <1>2, <1>3, <1>4, <1>5, <1>6, <1>7, <1>8 DEF Next, Step

(* What a step does to the runtime, the count of runtimes and the server.  *)
LEMMA OnlyReload ==
    ASSUME TypeOK, [Next]_vars, ~Reload
    PROVE  /\ created' = created /\ (runtime = 0 => runtime' = 0)
           /\ server' = "stopping" => server = "stopping" \/ OnServerShutdown
<1>1. CASE OnServerInitialise \/ OnServerFrame \/ OnEvent \/ \E p \in Players : OnPlayerConnect(p) \/ OnPlayerDisconnect(p)
  BY <1>1 DEF OnServerInitialise, OnServerFrame, OnEvent, OnPlayerConnect, OnPlayerDisconnect, pluginVars
<1>2. CASE RequestReload \/ RequestShutdown \/ CallLua \/ LuaReturns \/ Panic \/ BodyEnds \/ UNCHANGED vars
  BY <1>2 DEF RequestReload, RequestShutdown, CallLua, LuaReturns, Panic, BodyEnds, vars, pluginVars
<1>3. CASE NoReload \/ ReloadFails \/ LoadEnds \/ AfterCallback \/ Close \/ OnServerShutdown
  BY <1>3 DEF NoReload, ReloadFails, LoadEnds, AfterCallback, Close, OnServerShutdown, pluginVars
<1>4. CASE NotifyServerShutdown \/ ListPlayers \/ NotifyEnds \/ \E p \in Players : Goodbye(p)
  BY <1>4, Zenon DEF NotifyServerShutdown, ListPlayers, NotifyEnds, Goodbye, pluginVars
<1> QED BY <1>1, <1>2, <1>3, <1>4 DEF Next, Step

(* A reload starts only while no shutdown has arrived.                     *)
LEMMA ReloadBefore ==
    ASSUME TypeOK, StackInv, StopInv, Reload
    PROVE  server # "stopping"
<1>1. /\ stack # << >> /\ Top.at = "reload"
      /\ runtime # 0 /\ ~InLuaCall /\ ~shutdown_deferred
  BY DEF Reload, At, ReloadDue, Live
<1>2. Len(stack) = 1 /\ Top = stack[1]
  BY <1>1, Alone, TopFields, Zenon
<1>3. ~\E k \in 1..Len(stack) : stack[k].at \in Closing
  BY <1>1, <1>2 DEF Closing
<1> QED BY <1>1, <1>3 DEF StopInv

(* Every step keeps StopInv.                                               *)
LEMMA StopStep ==
    ASSUME TypeOK, StackInv, StopInv, [Next]_vars
    PROVE  StopInv'
<1>1. CASE Reload
  BY <1>1, ReloadBefore, Zenon DEF Reload, StopInv
<1>2. CASE OnServerShutdown
  <2>1. CASE UNCHANGED stack /\ (runtime = 0 \/ shutdown_deferred')
    BY <1>2, <2>1 DEF OnServerShutdown, StopInv
  <2>2. CASE \E frame \in Frames : Enters(frame) /\ frame.at = "finish"
    <3>1. PICK frame \in Frames : Enters(frame) /\ frame.at = "finish"
      BY <2>2
    <3>2. Len(stack) + 1 \in 1..Len(stack') /\ stack'[Len(stack) + 1].at \in Closing
      BY <3>1 DEF Enters, TypeOK, Closing
    <3> QED BY <3>2 DEF StopInv
  <2> QED BY <1>2, <2>1, <2>2, ShutdownShape
<1>3. CASE ~Reload /\ ~OnServerShutdown /\ server' = "stopping"
  <2>1. server = "stopping" /\ (runtime = 0 => runtime' = 0)
    BY <1>3, OnlyReload
  <2>2. CASE shutdown_deferred
    BY <2>2, DeferredStays DEF StopInv
  <2>3. CASE \E k \in 1..Len(stack) : stack[k].at \in Closing
    BY <2>3, ClosingStays DEF StopInv
  <2> QED BY <2>1, <2>2, <2>3 DEF StopInv
<1>4. CASE server' # "stopping"
  BY <1>4 DEF StopInv
<1> QED BY <1>1, <1>2, <1>3, <1>4

(***************************************************************************)
(* NoReloadAfterShutdown: once OnServerShutdown has arrived, in whatever   *)
(* nested callback, no frame replaces the runtime any more.                *)
(***************************************************************************)
THEOREM NoLateReload == Spec => NoReloadAfterShutdown
<1>1. TypeOK /\ StackInv /\ StopInv /\ [Next]_vars => StopInv'
  BY StopStep
<1>2. TypeOK /\ StackInv /\ StopInv /\ [Next]_vars => [created' # created => server # "stopping"]_vars
  BY OnlyReload, ReloadBefore
<1> QED BY <1>1, <1>2, InitStack, TypeCorrect, StackHolds, PTL DEF Spec, NoReloadAfterShutdown

-----------------------------------------------------------------------------
\* Who is told.

\* The callback is handling the disconnect of p: as its own, or for the shutdown.
Handles(frame, p) ==
    \/ frame.cb = "disconnect" /\ frame.p = p /\ frame.at = "body" /\ frame.calls = 0
    \/ frame.to = p

\* The shutdown in this callback has had its turn with p.
Parts(frame, p) == frame.at \in {"goodbye", "close"} /\ p \notin frame.left

\* A disconnect has been dispatched when its callback has made its call, and
\* those that the shutdown has had its turn with have been told.
FrameTells(frame, tellings, here) ==
    /\ frame.cb = "disconnect" /\ frame.at = "body" =>
          frame.p \in Players /\ frame.calls \in {0, 1} /\ tellings[frame.p] = 1 - frame.calls
    /\ frame.to # Nobody => tellings[frame.to] = 1
    /\ frame.at = "goodbye" => \A p \in here : p \in frame.left \/ tellings[p] = 1
    /\ frame.at = "close" => \A p \in here : tellings[p] = 1

\* While there is a usable runtime: a connected player has a live slot or has
\* been told; one with a live slot has not been told, or is being told; one that
\* was told is leaving or has had its turn; no player leaves twice at a time.
Tellings ==
    /\ \A p \in online : p \in alive \/ told[p] = 1
    /\ \A p \in alive : told[p] = 0 \/ \E k \in 1..Len(stack) : Handles(stack[k], p)
    /\ \A p \in online : told[p] = 0 \/ Leaving(p) \/ \E k \in 1..Len(stack) : Parts(stack[k], p)
    /\ \A k \in 1..Len(stack) : FrameTells(stack[k], told, online)
    /\ \A j, k \in 1..Len(stack) :
          stack[j].cb = "disconnect" /\ stack[k].cb = "disconnect" /\ stack[j].p = stack[k].p => j = k

TellInv ==
    /\ server = "loaded" => online = {}
    /\ ToldOnce
    /\ Live # 0 => Tellings

(* Tellings, for the callbacks one by one.                                 *)
LEMMA TopTells ==
    ASSUME TypeOK, Tellings, stack # << >>
    PROVE  FrameTells(Top, told, online) /\ \A k \in 1..Len(stack) : FrameTells(stack[k], told, online)
<1>1. Len(stack) \in 1..Len(stack) /\ Top = stack[Len(stack)]
  BY TopFields
<1>2. \A k \in 1..Len(stack) : FrameTells(stack[k], told, online)
  BY DEF Tellings
<1> QED BY <1>1, <1>2

(* A step of the innermost callback keeps Tellings if what it changes is   *)
(* right for that callback and the others do not notice.                   *)
LEMMA TurnTells ==
    ASSUME TypeOK, Tellings, TopReplaced, online' = online, NEW new, new = stack'[Len(stack)],
           new.cb = Top.cb, new.p = Top.p, FrameTells(new, told', online),
           \A k \in 1..Len(stack) : k # Len(stack) => FrameTells(stack[k], told', online),
           \A p \in online : p \in alive' \/ told'[p] = 1,
           \A p \in alive' : \/ told'[p] = 0 \/ Handles(new, p)
                             \/ p \in alive /\ told'[p] = told[p] /\ ~Handles(Top, p),
           \A p \in online : \/ told'[p] = 0 \/ (new.cb = "disconnect" /\ new.p = p) \/ Parts(new, p)
                             \/ told'[p] = told[p] /\ ~Parts(Top, p)
    PROVE  Tellings'
<1>0. /\ Len(stack) \in Nat /\ Len(stack) \in 1..Len(stack) /\ Len(stack') = Len(stack)
      /\ Top = stack[Len(stack)] /\ stack # << >>
  BY TopFields DEF TopReplaced
<1>1. \A k \in 1..Len(stack) : k # Len(stack) => stack'[k] = stack[k]
  BY DEF TopReplaced
<1>2. ASSUME NEW p \in alive'
      PROVE  told'[p] = 0 \/ \E k \in 1..Len(stack) : Handles(stack'[k], p)
  <2>1. CASE Handles(new, p)
    BY <1>0, <2>1
  <2>2. CASE p \in alive /\ told'[p] = told[p] /\ ~Handles(Top, p)
    <3>1. CASE \E k \in 1..Len(stack) : Handles(stack[k], p)
      <4>1. PICK k \in 1..Len(stack) : Handles(stack[k], p)
        BY <3>1
      <4>2. k # Len(stack)
        BY <1>0, <2>2, <4>1
      <4> QED BY <1>1, <4>1, <4>2
    <3> QED BY <2>2, <3>1 DEF Tellings
  <2> QED BY <2>1, <2>2
<1>3. ASSUME NEW p \in online
      PROVE  \/ told'[p] = 0
             \/ \E k \in 1..Len(stack) : stack'[k].cb = "disconnect" /\ stack'[k].p = p
             \/ \E k \in 1..Len(stack) : Parts(stack'[k], p)
  <2>1. CASE new.cb = "disconnect" /\ new.p = p
    BY <1>0, <2>1
  <2>2. CASE Parts(new, p)
    BY <1>0, <2>2
  <2>3. CASE told'[p] = told[p] /\ ~Parts(Top, p)
    <3>1. CASE \E k \in 1..Len(stack) : Parts(stack[k], p)
      <4>1. PICK k \in 1..Len(stack) : Parts(stack[k], p)
        BY <3>1
      <4>2. k # Len(stack)
        BY <1>0, <2>3, <4>1
      <4> QED BY <1>1, <4>1, <4>2
    <3>2. CASE Leaving(p)
      <4>1. PICK k \in 1..Len(stack) : stack[k].cb = "disconnect" /\ stack[k].p = p
        BY <3>2 DEF Leaving
      <4>2. CASE k = Len(stack)
        BY <1>0, <4>1, <4>2
      <4> QED BY <1>1, <4>1, <4>2
    <3> QED BY <2>3, <3>1, <3>2 DEF Tellings
  <2> QED BY <2>1, <2>2, <2>3, Zenon
<1>4. \A k \in 1..Len(stack) : FrameTells(stack'[k], told', online)
  BY <1>1
<1>5. \A k \in 1..Len(stack) : stack'[k].cb = stack[k].cb /\ stack'[k].p = stack[k].p
  BY <1>0, <1>1
<1>6. \A j, k \in 1..Len(stack) :
         stack'[j].cb = "disconnect" /\ stack'[k].cb = "disconnect" /\ stack'[j].p = stack'[k].p => j = k
  BY <1>5 DEF Tellings
<1> QED BY <1>0, <1>2, <1>3, <1>4, <1>6 DEF Tellings, Leaving

(* The callbacks of a stack with a new one on top.                         *)
LEMMA AfterEntered ==
    ASSUME TypeOK, NEW frame \in Frames, Enters(frame)
    PROVE  /\ \A k \in 1..Len(stack) : k \in 1..Len(stack') /\ stack'[k] = stack[k]
           /\ \A k \in 1..Len(stack') : k \in 1..Len(stack) \/ (k = Len(stack) + 1 /\ stack'[k] = frame)
<1>1. Len(stack) \in Nat /\ Len(stack') = Len(stack) + 1
  BY DEF TypeOK, Enters
<1> QED BY <1>1 DEF Enters

(* A new callback keeps Tellings if it is right for that callback and the  *)
(* others do not notice.                                                   *)
LEMMA EnterTells ==
    ASSUME TypeOK, Tellings, NEW frame \in Frames, Enters(frame), FrameTells(frame, told', online'),
           frame.cb = "disconnect" => ~Leaving(frame.p),
           \A k \in 1..Len(stack) : FrameTells(stack[k], told', online'),
           \A p \in online' : p \in alive' \/ told'[p] = 1,
           \A p \in alive' : told'[p] = 0 \/ (p \in alive /\ told'[p] = told[p]),
           \A p \in online' : told'[p] = 0 \/ (p \in online /\ told'[p] = told[p])
    PROVE  Tellings'
<1>1. /\ \A k \in 1..Len(stack) : k \in 1..Len(stack') /\ stack'[k] = stack[k]
      /\ \A k \in 1..Len(stack') : k \in 1..Len(stack) \/ (k = Len(stack) + 1 /\ stack'[k] = frame)
  BY AfterEntered, Zenon
<1>2. ASSUME NEW p \in alive'
      PROVE  told'[p] = 0 \/ \E k \in 1..Len(stack') : Handles(stack'[k], p)
  <2>1. CASE \E k \in 1..Len(stack) : Handles(stack[k], p)
    BY <1>1, <2>1
  <2> QED BY <2>1, Zenon DEF Tellings
<1>3. ASSUME NEW p \in online'
      PROVE  \/ told'[p] = 0
             \/ \E k \in 1..Len(stack') : stack'[k].cb = "disconnect" /\ stack'[k].p = p
             \/ \E k \in 1..Len(stack') : Parts(stack'[k], p)
  <2>1. CASE \E k \in 1..Len(stack) : Parts(stack[k], p)
    BY <1>1, <2>1, Zenon
  <2>2. CASE Leaving(p)
    BY <1>1, <2>2, Zenon DEF Leaving
  <2> QED BY <2>1, <2>2, Zenon DEF Tellings
<1>4. \A k \in 1..Len(stack') : FrameTells(stack'[k], told', online')
  BY <1>1, Zenon
<1>5. ASSUME NEW j \in 1..Len(stack'), NEW k \in 1..Len(stack'),
             stack'[j].cb = "disconnect", stack'[k].cb = "disconnect", stack'[j].p = stack'[k].p
      PROVE  j = k
  <2>1. CASE j \in 1..Len(stack) /\ k \in 1..Len(stack)
    BY <1>1, <1>5, <2>1, Zenon DEF Tellings
  <2>2. CASE j \in 1..Len(stack) /\ k \notin 1..Len(stack)
    BY <1>1, <1>5, <2>2, Zenon DEF Leaving
  <2>3. CASE k \in 1..Len(stack) /\ j \notin 1..Len(stack)
    BY <1>1, <1>5, <2>3 DEF Leaving
  <2> QED BY <1>1, <2>1, <2>2, <2>3
<1> QED BY <1>2, <1>3, <1>4, <1>5, Zenon DEF Tellings, Leaving

(* A callback that returns: the player whose disconnect it was is gone.    *)
LEMMA LeaveTells ==
    ASSUME TypeOK, StackInv, Tellings, stack # << >>, Leaves, Return, UNCHANGED <<alive, told>>,
           Top.at \in {"after", "last"}, ~Top.lua
    PROVE  Tellings'
<1>0. /\ Len(stack) \in Nat /\ Len(stack) \in 1..Len(stack) /\ Top = stack[Len(stack)]
      /\ Len(stack') = Len(stack) - 1
  BY TopFields DEF Leaves
<1>1. /\ \A k \in 1..Len(stack') : k \in 1..Len(stack) /\ stack'[k] = stack[k]
      /\ \A k \in 1..Len(stack) : k # Len(stack) => k \in 1..Len(stack')
  BY <1>0 DEF Leaves
<1>2. Top.to = Nobody /\ \A p : ~Parts(Top, p)
  BY TopSound DEF Sound, Parts
<1>3. online' \subseteq online /\ (Top.cb = "disconnect" => Top.p \notin online')
  BY DEF Return
<1>4. ASSUME NEW p \in alive
      PROVE  told[p] = 0 \/ \E k \in 1..Len(stack') : Handles(stack'[k], p)
  <2>1. p # Nobody
    BY NobodyAssumption DEF TypeOK
  <2>2. ~Handles(Top, p)
    BY <1>2, <2>1 DEF Handles
  <2>3. CASE \E k \in 1..Len(stack) : Handles(stack[k], p)
    <3>1. PICK k \in 1..Len(stack) : Handles(stack[k], p)
      BY <2>3
    <3>2. k # Len(stack)
      BY <1>0, <2>2, <3>1
    <3> QED BY <1>1, <3>1, <3>2
  <2> QED BY <2>3 DEF Tellings
<1>5. ASSUME NEW p \in online'
      PROVE  \/ told[p] = 0
             \/ \E k \in 1..Len(stack') : stack'[k].cb = "disconnect" /\ stack'[k].p = p
             \/ \E k \in 1..Len(stack') : Parts(stack'[k], p)
  <2>1. CASE \E k \in 1..Len(stack) : Parts(stack[k], p)
    <3>1. PICK k \in 1..Len(stack) : Parts(stack[k], p)
      BY <2>1
    <3>2. k # Len(stack)
      BY <1>0, <1>2, <3>1
    <3> QED BY <1>1, <3>1, <3>2
  <2>2. CASE Leaving(p)
    <3>1. PICK k \in 1..Len(stack) : stack[k].cb = "disconnect" /\ stack[k].p = p
      BY <2>2 DEF Leaving
    <3>2. k # Len(stack)
      BY <1>0, <1>3, <3>1
    <3> QED BY <1>1, <3>1, <3>2
  <2> QED BY <1>3, <2>1, <2>2, Zenon DEF Tellings
<1>6. ASSUME NEW k \in 1..Len(stack')
      PROVE  FrameTells(stack'[k], told, online')
  <2>1. stack'[k] = stack[k] /\ FrameTells(stack[k], told, online)
    BY <1>1 DEF Tellings
  <2> QED BY <1>3, <2>1 DEF FrameTells
<1> QED BY <1>1, <1>3, <1>4, <1>5, <1>6 DEF Tellings, Leaving

\* The innermost callback becomes one that is not telling anybody.
TurnsQuietly ==
    /\ TopReplaced
    /\ LET frame == stack'[Len(stack)]
       IN /\ frame.cb = Top.cb /\ frame.p = Top.p /\ frame.to = Nobody
          /\ frame.at \notin {"goodbye", "close"} /\ (frame.cb = "disconnect" => frame.at # "body")

(* A step of the innermost callback that tells nobody anything.            *)
LEMMA QuietTurn ==
    ASSUME TypeOK, Tellings, UNCHANGED playerVars, Top.to = Nobody, Top.at \notin {"goodbye", "close"},
           Top.cb = "disconnect" => Top.at # "body", TurnsQuietly
    PROVE  Tellings'
<1> DEFINE new == stack'[Len(stack)]
<1>1. /\ TopReplaced /\ new.cb = Top.cb /\ new.p = Top.p /\ new.to = Nobody
      /\ new.at \notin {"goodbye", "close"} /\ (new.cb = "disconnect" => new.at # "body")
  BY DEF TurnsQuietly
<1>2. alive' = alive /\ online' = online /\ told' = told
  BY DEF playerVars
<1>3. FrameTells(new, told, online)
  BY <1>1 DEF FrameTells
<1>4. \A p \in alive : ~Handles(Top, p)
  BY NobodyAssumption DEF Handles, TypeOK
<1>5. \A p : ~Parts(Top, p)
  BY DEF Parts
<1> HIDE DEF new
<1>6. \A k \in 1..Len(stack) : FrameTells(stack[k], told, online)
  BY DEF Tellings
<1>7. \A p \in online : p \in alive \/ told[p] = 1
  BY DEF Tellings
<1> QED BY <1>1, <1>2, <1>3, <1>4, <1>5, <1>6, <1>7, TurnTells, Zenon DEF new

(* A new callback that is no disconnect, and tells nobody anything.        *)
LEMMA QuietEnter ==
    ASSUME TypeOK, Tellings, UNCHANGED playerVars, NEW frame \in Frames, Enters(frame),
           frame.cb # "disconnect", frame.to = Nobody, frame.at \notin {"goodbye", "close"}
    PROVE  Tellings'
<1>1. alive' = alive /\ online' = online /\ told' = told
  BY DEF playerVars
<1>2. FrameTells(frame, told, online)
  BY DEF FrameTells
<1>3. \A k \in 1..Len(stack) : FrameTells(stack[k], told, online)
  BY DEF Tellings
<1>4. \A p \in online : p \in alive \/ told[p] = 1
  BY DEF Tellings
<1> QED BY <1>1, <1>2, <1>3, <1>4, EnterTells

(* The server calls for something else than a player.                      *)
LEMMA TellOther ==
    ASSUME TypeOK, StackInv, TellInv, Live # 0,
           OnServerInitialise \/ OnServerFrame \/ OnEvent \/ OnServerShutdown
    PROVE  Tellings'
<1>0. Tellings
  BY DEF TellInv
<1>1. UNCHANGED playerVars
  <2>1. CASE OnServerInitialise
    <3>1. online = {}
      BY <2>1 DEF OnServerInitialise, TellInv
    <3> QED BY <2>1, <3>1 DEF OnServerInitialise, playerVars
  <2> QED BY <2>1 DEF OnServerFrame, OnEvent, OnServerShutdown, playerVars
<1>2. CASE OnServerInitialise \/ OnServerFrame \/ OnEvent
  <2>1. Begins("init", Nobody) \/ Begins("frame", Nobody) \/ Begins("event", Nobody)
    BY <1>2, EnterShapes
  <2>2. PICK frame \in Frames : Enters(frame) /\ frame.cb # "disconnect" /\ frame.to = Nobody /\ frame.at = "body"
    BY <2>1 DEF Begins
  <2> QED BY <1>0, <1>1, <2>2, QuietEnter
<1>3. CASE OnServerShutdown
  <2>1. CASE UNCHANGED stack
    BY <1>0, <1>1, <2>1 DEF Tellings, Leaving, playerVars
  <2>2. CASE \E frame \in Frames : Enters(frame) /\ frame.cb = "shutdown" /\ frame.at = "finish" /\ frame.to = Nobody
    <3>1. PICK frame \in Frames : Enters(frame) /\ frame.cb = "shutdown" /\ frame.at = "finish" /\ frame.to = Nobody
      BY <2>2
    <3> QED BY <1>0, <1>1, <3>1, QuietEnter
  <2> QED BY <1>3, <2>1, <2>2, ShutdownShape
<1> QED BY <1>2, <1>3

(* A player that connects has a live slot and has not been told.           *)
LEMMA TellConnect ==
    ASSUME TypeOK, Tellings, Live # 0, NEW p \in Players, OnPlayerConnect(p)
    PROVE  Tellings'
<1>1. /\ stack = << >> /\ online' = online \cup {p} /\ alive' = alive \cup {p}
      /\ told' = [told EXCEPT ![p] = 0]
  BY DEF OnPlayerConnect
<1>2. told'[p] = 0 /\ \A q \in Players : q # p => told'[q] = told[q]
  BY <1>1 DEF TypeOK
<1>3. alive \subseteq Players /\ online \subseteq Players
  BY DEF TypeOK
<1>4. Begins("connect", p)
  BY EnterShapes
<1>5. PICK frame \in Frames : Enters(frame) /\ frame.cb = "connect" /\ frame.to = Nobody /\ frame.at = "body"
  BY <1>4 DEF Begins
<1>6. FrameTells(frame, told', online')
  BY <1>5 DEF FrameTells
<1>7. \A q \in online' : q \in alive' \/ told'[q] = 1
  BY <1>1, <1>2, <1>3 DEF Tellings
<1>8. /\ \A q \in alive' : told'[q] = 0 \/ (q \in alive /\ told'[q] = told[q])
      /\ \A q \in online' : told'[q] = 0 \/ (q \in online /\ told'[q] = told[q])
  BY <1>1, <1>2, <1>3
<1>9. \A k \in 1..Len(stack) : FrameTells(stack[k], told', online')
  BY <1>1
<1> QED BY <1>5, <1>6, <1>7, <1>8, <1>9, EnterTells

(* A player that the server disconnects has not been told, unless it is    *)
(* kicked after the shutdown had its turn with it.                         *)
LEMMA TellDisconnect ==
    ASSUME TypeOK, StackInv, Tellings, Live # 0, ~KicksDismissed, NEW p \in Players, OnPlayerDisconnect(p)
    PROVE  Tellings'
<1>1. /\ stack # << >> => Top.lua
      /\ p \in online /\ ~Leaving(p) /\ ~Dismissed(p)
      /\ alive' = alive \cup {p} /\ online' = online /\ told' = told
  BY DEF OnPlayerDisconnect, CanCall
<1>2. ASSUME NEW k \in 1..Len(stack), Parts(stack[k], p)
      PROVE  FALSE
  <2>1. stack[k].at = "close"
    BY <1>1, <1>2 DEF Parts, Dismissed
  <2>2. ~stack[k].lua
    BY <2>1 DEF StackInv, Sound
  <2>3. k = Len(stack) /\ stack # << >>
    BY <2>2 DEF StackInv, TypeOK
  <2> QED BY <1>1, <2>2, <2>3 DEF Top
<1>3. told[p] = 0
  BY <1>1, <1>2 DEF Tellings
<1>4. Begins("disconnect", p)
  BY EnterShapes
<1>5. PICK frame \in Frames : /\ Enters(frame) /\ frame.cb = "disconnect" /\ frame.p = p /\ frame.to = Nobody
                             /\ frame.at = "body" /\ frame.calls = 1
  BY <1>4 DEF Begins, CallsOf
<1>6. FrameTells(frame, told, online)
  BY <1>3, <1>5 DEF FrameTells
<1>7. \A q \in online : q \in alive' \/ told[q] = 1
  BY <1>1 DEF Tellings
<1>8. \A k \in 1..Len(stack) : FrameTells(stack[k], told, online)
  BY DEF Tellings
<1> QED BY <1>1, <1>3, <1>5, <1>6, <1>7, <1>8, EnterTells, Zenon

(* The dispatch of a disconnect tells that player, who was not told.       *)
LEMMA TellCall ==
    ASSUME TypeOK, StackInv, Tellings, CallLua
    PROVE  Tellings' /\ (ToldOnce => ToldOnce')
<1>1. /\ stack # << >> /\ ~Top.lua /\ Top.calls > 0 /\ (Top.at = "body" \/ Top.at = "load")
      /\ alive' = alive /\ online' = online
      /\ told' = IF Top.cb = "disconnect" THEN [told EXCEPT ![Top.p] = @ + 1] ELSE told
  BY DEF CallLua, At
<1>2. Turns(Top.rt, Top.at, TRUE, Top.calls - 1, Top.to, Top.left)
  BY StepShapes, Zenon
<1>3. Top.to = Nobody /\ (Top.at = "load" => Top.cb = "frame")
  BY <1>1, TopSound DEF Sound
<1>4. CASE Top.cb # "disconnect"
  <2>1. UNCHANGED playerVars
    BY <1>1, <1>4 DEF playerVars
  <2>2. TurnsQuietly /\ Top.at \notin {"goodbye", "close"}
    BY <1>1, <1>2, <1>3, <1>4 DEF Turns, TurnsQuietly
  <2>3. Tellings'
    BY <1>3, <1>4, <2>1, <2>2, QuietTurn
  <2> QED BY <2>1, <2>3 DEF playerVars, ToldOnce
<1>5. CASE Top.cb = "disconnect"
  <2> DEFINE new == stack'[Len(stack)]
             p == Top.p
  <2>1. Top.at = "body" /\ Top = stack[Len(stack)] /\ Len(stack) \in 1..Len(stack)
    BY <1>1, <1>3, <1>5, TopFields
  <2>2. FrameTells(Top, told, online)
    BY <1>1, TopTells
  <2>3. p \in Players /\ Top.calls = 1 /\ told[p] = 0
    BY <1>1, <1>5, <2>1, <2>2 DEF FrameTells
  <2>4. told'[p] = 1 /\ \A q \in Players : q # p => told'[q] = told[q]
    BY <1>1, <1>5, <2>3 DEF TypeOK
  <2>5. /\ TopReplaced /\ new.cb = "disconnect" /\ new.p = p /\ new.at = "body" /\ new.calls = 0
        /\ new.to = Nobody
    BY <1>2, <1>3, <1>5, <2>1, <2>3 DEF Turns
  <2> HIDE DEF new, p
  <2>6. FrameTells(new, told', online)
    BY <2>3, <2>4, <2>5 DEF FrameTells
  <2>7. ASSUME NEW k \in 1..Len(stack), k # Len(stack)
        PROVE  FrameTells(stack[k], told', online)
    <3>1. FrameTells(stack[k], told, online)
      BY Zenon DEF Tellings
    <3>2. ~(stack[k].cb = "disconnect" /\ stack[k].p = p)
      BY <1>5, <2>1, <2>7 DEF Tellings, p
    <3>3. stack[k].to # Nobody => stack[k].to \in Players /\ stack[k].to # p
      <4>1. stack[k] \in Frames
        BY DEF TypeOK
      <4>2. stack[k].to \in Players \cup {Nobody}
        BY <4>1 DEF Frames
      <4>3. stack[k].to # Nobody => told[stack[k].to] = 1
        BY <3>1 DEF FrameTells
      <4>4. told[p] # 1
        BY <2>3
      <4> QED BY ONLY <4>2, <4>3, <4>4
    <3>4. \A q \in online : told[q] = 1 => told'[q] = 1
      BY <2>3, <2>4 DEF TypeOK
    <3> QED BY <2>4, <3>1, <3>2, <3>3, <3>4, Zenon DEF FrameTells
  <2>8. \A q \in online : q \in alive' \/ told'[q] = 1
    BY <1>1, <2>3, <2>4 DEF Tellings, TypeOK
  <2>9. \A q \in Players : Handles(Top, q) => q = p
    BY <1>3, NobodyAssumption DEF Handles, p
  <2>10. \A q \in alive' : Handles(new, q) \/ (q \in alive /\ told'[q] = told[q] /\ ~Handles(Top, q))
    BY <1>1, <2>4, <2>5, <2>9 DEF Handles, TypeOK
  <2>11. \A q \in online : \/ (new.cb = "disconnect" /\ new.p = q)
                           \/ (told'[q] = told[q] /\ ~Parts(Top, q))
    BY <2>1, <2>4, <2>5 DEF Parts, TypeOK
  <2>12. new.cb = Top.cb /\ new.p = Top.p
    BY <1>5, <2>5 DEF p
  <2>13. Tellings'
    BY <1>1, <2>5, <2>6, <2>7, <2>8, <2>10, <2>11, <2>12, TurnTells, Zenon DEF new
  <2>14. ToldOnce => ToldOnce'
    BY <2>4 DEF ToldOnce
  <2> QED BY <2>13, <2>14
<1> QED BY <1>4, <1>5

(* A handler returned.  A player that the shutdown was telling is released.*)
LEMMA TellReturn ==
    ASSUME TypeOK, StackInv, Tellings, LuaReturns
    PROVE  Tellings'
<1> DEFINE new == stack'[Len(stack)]
<1>1. stack # << >> /\ alive' = alive \ {Top.to} /\ online' = online /\ told' = told
  BY DEF LuaReturns
<1>2. Turns(Top.rt, Top.at, FALSE, Top.calls, Nobody, Top.left)
  BY StepShapes, Zenon
<1>3. /\ TopReplaced /\ new.cb = Top.cb /\ new.p = Top.p /\ new.at = Top.at /\ new.calls = Top.calls
      /\ new.to = Nobody /\ new.left = Top.left
  BY <1>2 DEF Turns
<1>4. FrameTells(Top, told, online) /\ \A k \in 1..Len(stack) : FrameTells(stack[k], told, online)
  BY <1>1, TopTells
<1> HIDE DEF new
<1>5. FrameTells(new, told, online)
  BY <1>3, <1>4, Zenon DEF FrameTells
<1>6. \A q \in online : q \in alive' \/ told[q] = 1
  <2>1. \A q \in online : q = Top.to => told[q] = 1
    BY <1>4, NobodyAssumption, Zenon DEF FrameTells, TypeOK
  <2> QED BY <1>1, <2>1, Zenon DEF Tellings
<1>7. \A q \in alive' : Handles(new, q) \/ (q \in alive /\ ~Handles(Top, q))
  BY <1>1, <1>3 DEF Handles
<1>8. \A q \in online : Parts(new, q) \/ ~Parts(Top, q)
  BY <1>3 DEF Parts
<1> QED BY <1>1, <1>3, <1>4, <1>5, <1>6, <1>7, <1>8, TurnTells, Zenon DEF new

(* OnPlayerDisconnect releases the player, who has been told by then.      *)
LEMMA TellBodyEnds ==
    ASSUME TypeOK, StackInv, Tellings, Live # 0, BodyEnds
    PROVE  Tellings'
<1>1. /\ stack # << >> /\ ~Top.lua /\ Top.at = "body" /\ (Top.calls > 0 => ~Usable(Top.rt))
      /\ alive' = IF Top.cb = "disconnect" THEN alive \ {Top.p} ELSE alive
      /\ online' = online /\ told' = told
  BY DEF BodyEnds, At
<1>2. Turns(Top.rt, "after", FALSE, Top.calls, Top.to, Top.left)
  BY StepShapes, Zenon
<1>3. Sound(Top, runtime, Live) /\ Top.to = Nobody
  BY <1>1, TopSound DEF Sound
<1>4. CASE Top.cb # "disconnect"
  <2>1. UNCHANGED playerVars
    BY <1>1, <1>4 DEF playerVars
  <2>2. TurnsQuietly /\ Top.at \notin {"goodbye", "close"}
    BY <1>1, <1>2, <1>3, <1>4, Zenon DEF Turns, TurnsQuietly
  <2> QED BY <1>3, <1>4, <2>1, <2>2, QuietTurn
<1>5. CASE Top.cb = "disconnect"
  <2> DEFINE new == stack'[Len(stack)]
  <2>1. /\ TopReplaced /\ new.cb = Top.cb /\ new.p = Top.p /\ new.at = "after" /\ new.to = Nobody
    BY <1>2, <1>3 DEF Turns
  <2>2. FrameTells(Top, told, online) /\ \A k \in 1..Len(stack) : FrameTells(stack[k], told, online)
    BY <1>1, TopTells
  <2>3. Usable(Top.rt)
    BY <1>3 DEF Sound, Usable, Live
  <2>4. told[Top.p] = 1 /\ Top.p \in Players
    <3>1. Top.p \in Players /\ Top.calls \in {0, 1} /\ told[Top.p] = 1 - Top.calls
      BY <1>1, <1>5, <2>2 DEF FrameTells
    <3>2. Top.calls = 0
      BY <1>1, <2>3, <3>1
    <3> QED BY <3>1, <3>2
  <2> HIDE DEF new
  <2>5. FrameTells(new, told, online)
    BY <2>1 DEF FrameTells
  <2>6. \A q \in online : q \in alive' \/ told[q] = 1
    BY <1>1, <1>5, <2>4, Zenon DEF Tellings
  <2>7. \A q \in alive' : q \in alive /\ ~Handles(Top, q)
    BY <1>1, <1>3, <1>5, NobodyAssumption DEF Handles, TypeOK
  <2>8. \A q : ~Parts(Top, q)
    BY <1>1 DEF Parts
  <2> QED BY <1>1, <2>1, <2>2, <2>5, <2>6, <2>7, <2>8, TurnTells, ZenonT(60) DEF new
<1> QED BY <1>4, <1>5

(* The end of a callback, and a reload that does not happen.               *)
LEMMA TellAfter ==
    ASSUME TypeOK, StackInv, Tellings,
           AfterCallback \/ NoReload \/ ReloadFails \/ LoadEnds \/ NotifyServerShutdown
    PROVE  Tellings'
<1>1. /\ stack # << >> /\ ~Top.lua /\ Top.at \in {"after", "last", "reload", "load", "finish"}
      /\ alive' = alive /\ told' = told
  BY DEF AfterCallback, NoReload, ReloadFails, LoadEnds, NotifyServerShutdown, At, playerVars
<1>2. Top.to = Nobody /\ Top.at \notin {"goodbye", "close"} /\ Top.at # "body"
  BY <1>1, TopSound DEF Sound
<1>3. CASE NoReload \/ ReloadFails \/ LoadEnds \/ NotifyServerShutdown
  <2>1. UNCHANGED playerVars
    BY <1>3 DEF NoReload, ReloadFails, LoadEnds, NotifyServerShutdown
  <2>2. \/ Turns(Top.rt, "last", FALSE, Top.calls, Nobody, Top.left)
        \/ Turns(Top.rt, "finish", TRUE, 0, Nobody, Top.left)
    BY <1>2, <1>3, StepShapes, Zenon
  <2>3. TurnsQuietly
    BY <2>2, Zenon DEF Turns, TurnsQuietly
  <2> QED BY <1>2, <2>1, <2>3, QuietTurn
<1>4. CASE AfterCallback
  <2>1. CASE online' = online /\ Turns(runtime, "finish", FALSE, 1, Top.to, Top.left)
    <3>1. UNCHANGED playerVars /\ TurnsQuietly
      BY <1>1, <1>2, <2>1 DEF playerVars, Turns, TurnsQuietly
    <3> QED BY <1>2, <3>1, QuietTurn
  <2>2. CASE online' = online /\ Turns(Top.rt, "reload", FALSE, Top.calls, Top.to, Top.left)
    <3>1. UNCHANGED playerVars /\ TurnsQuietly
      BY <1>1, <1>2, <2>2 DEF playerVars, Turns, TurnsQuietly
    <3> QED BY <1>2, <3>1, QuietTurn
  <2>3. CASE Leaves /\ Return
    <3>1. Top.at \in {"after", "last"}
      BY <1>4 DEF AfterCallback, At
    <3> QED BY <1>1, <2>3, <3>1, LeaveTells
  <2> QED BY <1>4, <2>1, <2>2, <2>3, AfterCallbackShape, Zenon
<1> QED BY <1>3, <1>4

(* The new runtime has told nobody yet, and knows everyone.                *)
LEMMA TellReload ==
    ASSUME TypeOK, StackInv, Reload
    PROVE  Tellings' /\ ToldOnce'
<1> DEFINE new == stack'[Len(stack)]
<1>1. /\ stack # << >> /\ ~Top.lua /\ Top.at = "reload" /\ ~InLuaCall
      /\ alive' = online /\ online' = online /\ told' = NoneTold
  BY DEF Reload, At, ReloadDue
<1>2. Len(stack) = 1 /\ Top.cb = "frame" /\ Top.to = Nobody
  BY <1>1, Alone, TopSound DEF Sound
<1>3. Turns(created + 1, "load", FALSE, 2, Top.to, Top.left)
  BY StepShapes, Zenon
<1>4. Len(stack') = 1 /\ new = stack'[1] /\ new.cb = "frame" /\ new.at = "load" /\ new.to = Nobody
  BY <1>2, <1>3 DEF Turns, TopReplaced
<1> HIDE DEF new
<1>5. \A p \in Players : told'[p] = 0
  BY <1>1 DEF NoneTold
<1>6. FrameTells(new, told', online')
  BY <1>4 DEF FrameTells
<1>7. online \subseteq Players
  BY DEF TypeOK
<1>8. ToldOnce'
  BY <1>5 DEF ToldOnce
<1>9. \A k \in 1..Len(stack') : k = 1 /\ stack'[k] = new
  BY <1>4
<1>10. /\ \A p \in online' : p \in alive' /\ told'[p] = 0
       /\ \A p \in alive' : told'[p] = 0
  BY <1>1, <1>5, <1>7
<1>11. \A k \in 1..Len(stack') : FrameTells(stack'[k], told', online')
  BY <1>6, <1>9
<1> HIDE DEF new
<1> QED BY <1>8, <1>9, <1>10, <1>11, Zenon DEF Tellings

(* The players that are listed are those that have not been told.          *)
LEMMA TellList ==
    ASSUME TypeOK, StackInv, Tellings, ListPlayers
    PROVE  Tellings'
<1> DEFINE new == stack'[Len(stack)]
<1>1. /\ stack # << >> /\ ~Top.lua /\ Top.at = "finish"
      /\ alive' = alive /\ online' = online /\ told' = told
  BY DEF ListPlayers, At, playerVars
<1>2. Top.to = Nobody
  BY <1>1, TopSound DEF Sound
<1>3. /\ TopReplaced /\ new.cb = Top.cb /\ new.p = Top.p /\ new.at = "goodbye" /\ new.to = Nobody
      /\ new.left = alive
  BY <1>2, StepShapes, Zenon DEF Turns
<1> HIDE DEF new
<1>4. \A p \in online : p \in alive \/ told[p] = 1
  BY Zenon DEF Tellings
<1>5. FrameTells(new, told, online)
  BY <1>3, <1>4 DEF FrameTells
<1>6. \A p \in alive : ~Handles(Top, p)
  BY <1>1, <1>2, NobodyAssumption DEF Handles, TypeOK
<1>7. \A p : ~Parts(Top, p)
  BY <1>1 DEF Parts
<1>8. \A k \in 1..Len(stack) : FrameTells(stack[k], told, online)
  BY Zenon DEF Tellings
<1> QED BY <1>1, <1>3, <1>4, <1>5, <1>6, <1>7, <1>8, TurnTells, Zenon DEF new

(* The shutdown's turn with one player.                                    *)
LEMMA TellGoodbye ==
    ASSUME TypeOK, StackInv, Tellings, NEW p \in Players, Goodbye(p)
    PROVE  Tellings' /\ (ToldOnce => ToldOnce')
<1> DEFINE new == stack'[Len(stack)]
<1>1. /\ stack # << >> /\ ~Top.lua /\ Top.at = "goodbye" /\ p \in Top.left
      /\ alive' = alive /\ online' = online
      /\ told' = IF p \in alive THEN [told EXCEPT ![p] = @ + 1] ELSE told
  BY DEF Goodbye, At
<1>2. Top.to = Nobody /\ Len(stack) = 1 /\ Top = stack[1]
  BY <1>1, TopSound, TopFields, Zenon DEF Sound, Closing
<1>3. FrameTells(Top, told, online)
  BY <1>1, TopTells
<1>4. \A q \in Players : ~Handles(Top, q)
  BY <1>1, <1>2, NobodyAssumption DEF Handles
<1>5. \A q \in alive : told[q] = 0
  <2>1. alive \subseteq Players /\ \A k \in 1..Len(stack) : stack[k] = Top
    BY <1>2 DEF TypeOK
  <2>2. \A q \in alive : told[q] = 0 \/ \E k \in 1..Len(stack) : Handles(stack[k], q)
    BY Zenon DEF Tellings
  <2> QED BY <1>4, <2>1, <2>2, Zenon
<1>6. \A k \in 1..Len(stack) : k = Len(stack)
  BY <1>2
<1>7. CASE p \in alive
  <2>1. /\ TopReplaced /\ new.cb = Top.cb /\ new.p = Top.p /\ new.at = "goodbye" /\ new.to = p
        /\ new.left = Top.left \ {p}
    BY <1>7, GoodbyeShape, Zenon DEF Turns
  <2> HIDE DEF new
  <2>2. told'[p] = 1 /\ \A q \in Players : q # p => told'[q] = told[q]
    <3>1. told \in [Players -> Nat] /\ told' = [told EXCEPT ![p] = @ + 1] /\ told[p] = 0
      BY <1>1, <1>5, <1>7 DEF TypeOK
    <3>2. told'[p] = told[p] + 1 /\ \A q \in Players : q # p => told'[q] = told[q]
      BY ONLY <3>1, p \in Players
    <3> QED BY <3>1, <3>2
  <2>3. online \subseteq Players /\ alive \subseteq Players
    BY DEF TypeOK
  <2>4. FrameTells(new, told', online)
    BY <1>3, <1>1, <2>1, <2>2, <2>3 DEF FrameTells
  <2>5. \A q \in online : q \in alive' \/ told'[q] = 1
    BY <1>1, <2>2, <2>3 DEF Tellings
  <2>6. \A q \in alive' : told'[q] = 0 \/ Handles(new, q)
    BY <1>1, <1>5, <2>1, <2>2, <2>3, Zenon DEF Handles
  <2>7. \A q \in online : Parts(new, q) \/ (told'[q] = told[q] /\ ~Parts(Top, q))
    BY <1>1, <2>1, <2>2, <2>3 DEF Parts
  <2>8. Tellings'
    BY <1>1, <1>6, <2>1, <2>4, <2>5, <2>6, <2>7, TurnTells, Zenon DEF new
  <2>9. ToldOnce => ToldOnce'
    BY <2>2 DEF ToldOnce
  <2> QED BY <2>8, <2>9
<1>8. CASE p \notin alive
  <2>1. /\ TopReplaced /\ new.cb = Top.cb /\ new.p = Top.p /\ new.at = "goodbye" /\ new.to = Nobody
        /\ new.left = Top.left \ {p}
    BY <1>2, <1>8, GoodbyeShape, Zenon DEF Turns
  <2> HIDE DEF new
  <2>2. told' = told
    BY <1>1, <1>8
  <2>3. \A q \in online : q \in alive \/ told[q] = 1
    BY Zenon DEF Tellings
  <2>4. FrameTells(new, told, online)
    BY <1>1, <1>3, <1>8, <2>1, <2>3, Zenon DEF FrameTells
  <2>5. \A q \in alive : told[q] = 0
    BY <1>5
  <2>6. \A q \in online : Parts(new, q) \/ ~Parts(Top, q)
    BY <1>1, <2>1 DEF Parts
  <2>7. Tellings'
    BY <1>1, <1>6, <2>1, <2>2, <2>3, <2>4, <2>5, <2>6, TurnTells, ZenonT(60) DEF new
  <2> QED BY <2>2, <2>7 DEF ToldOnce
<1> QED BY <1>7, <1>8

(* When the list is done, all that are connected have been told.           *)
LEMMA TellDone ==
    ASSUME TypeOK, StackInv, Tellings, Live # 0, NotifyEnds
    PROVE  Tellings'
<1> DEFINE new == stack'[Len(stack)]
<1>1. /\ stack # << >> /\ ~Top.lua /\ Top.at = "goodbye" /\ (Top.left # {} => ~Usable(Top.rt))
      /\ alive' = alive /\ online' = online /\ told' = told
  BY DEF NotifyEnds, At, playerVars
<1>2. Sound(Top, runtime, Live) /\ Len(stack) = 1 /\ Top = stack[1]
  BY <1>1, TopSound, TopFields, Zenon DEF Closing
<1>3. Top.to = Nobody /\ Top.left = {}
  BY <1>1, <1>2 DEF Sound, Usable, Live, Closing
<1>4. /\ TopReplaced /\ new.cb = Top.cb /\ new.p = Top.p /\ new.at = "close" /\ new.to = Nobody
      /\ new.left = {}
  BY <1>3, StepShapes, Zenon DEF Turns
<1> HIDE DEF new
<1>5. FrameTells(Top, told, online)
  BY <1>1, TopTells, Zenon
<1>6. \A p \in online : told[p] = 1
  BY <1>1, <1>3, <1>5 DEF FrameTells
<1>7. FrameTells(new, told, online)
  BY <1>4, <1>6 DEF FrameTells
<1>8. \A p \in alive : ~Handles(Top, p)
  BY <1>1, <1>3, NobodyAssumption DEF Handles, TypeOK
<1>9. \A p \in online : Parts(new, p)
  BY <1>4 DEF Parts
<1>10. \A k \in 1..Len(stack) : k = Len(stack)
  BY <1>2
<1> QED BY <1>1, <1>4, <1>6, <1>7, <1>8, <1>9, <1>10, TurnTells, Zenon DEF new

(* Without a usable runtime nobody is told, and there will be none.        *)
LEMMA LiveBefore ==
    ASSUME TypeOK, [Next]_vars, Live = 0
    PROVE  Live' = 0 /\ (ToldOnce => ToldOnce')
<1>1. CASE UNCHANGED <<runtime, dead, told>>
  BY <1>1 DEF Live, ToldOnce
<1>2. CASE OnServerInitialise \/ OnServerFrame \/ OnEvent \/ OnServerShutdown \/ \E p \in Players : OnPlayerDisconnect(p)
  BY <1>1, <1>2 DEF OnServerInitialise, OnServerFrame, OnEvent, OnServerShutdown, OnPlayerDisconnect, pluginVars, playerVars
<1>3. ASSUME NEW p \in Players, OnPlayerConnect(p)
      PROVE  Live' = 0 /\ (ToldOnce => ToldOnce')
  <2>1. UNCHANGED <<runtime, dead>> /\ told' = [told EXCEPT ![p] = 0]
    BY <1>3 DEF OnPlayerConnect, pluginVars
  <2>2. \A q \in Players : told'[q] = 0 \/ told'[q] = told[q]
    BY <2>1 DEF TypeOK
  <2> QED BY <2>1, <2>2 DEF Live, ToldOnce
<1>4. CASE RequestReload \/ RequestShutdown \/ LuaReturns \/ BodyEnds \/ UNCHANGED vars
  BY <1>1, <1>4 DEF RequestReload, RequestShutdown, LuaReturns, BodyEnds, vars, pluginVars, playerVars
<1>5. CASE AfterCallback \/ NoReload \/ ReloadFails \/ LoadEnds \/ NotifyServerShutdown \/ ListPlayers \/ NotifyEnds
  BY <1>1, <1>5 DEF AfterCallback, NoReload, ReloadFails, LoadEnds, NotifyServerShutdown, ListPlayers, NotifyEnds,
                    pluginVars, playerVars
<1>6. CASE Panic
  BY <1>6 DEF Panic, Live, ToldOnce, playerVars
<1>7. CASE Close
  BY <1>7 DEF Close, Live, ToldOnce
<1>8. ~(CallLua \/ Reload \/ \E p \in Players : Goodbye(p))
  BY Zenon DEF CallLua, Reload, ReloadDue, Goodbye, Usable
<1> QED BY <1>2, <1>3, <1>4, <1>5, <1>6, <1>7, <1>8 DEF Next, Step

(* Every step keeps TellInv.                                               *)
LEMMA TellStep ==
    ASSUME TypeOK, StackInv, TellInv, ~KicksDismissed, [Next]_vars
    PROVE  TellInv'
<1>1. server' = "loaded" => online' = {}
  <2>1. CASE OnServerInitialise \/ OnServerFrame \/ OnEvent \/ OnServerShutdown
    BY <2>1 DEF OnServerInitialise, OnServerFrame, OnEvent, OnServerShutdown
  <2>2. CASE \E p \in Players : OnPlayerConnect(p) \/ OnPlayerDisconnect(p) \/ Goodbye(p)
    BY <2>2 DEF OnPlayerConnect, OnPlayerDisconnect, Goodbye, TellInv
  <2>3. CASE RequestReload \/ RequestShutdown \/ CallLua \/ LuaReturns \/ Panic \/ BodyEnds \/ UNCHANGED vars
    BY <2>3 DEF RequestReload, RequestShutdown, CallLua, LuaReturns, Panic, BodyEnds, vars, playerVars, TellInv
  <2>4. CASE AfterCallback \/ NoReload \/ ReloadFails \/ Reload \/ LoadEnds \/ Close
    BY <2>4 DEF AfterCallback, NoReload, ReloadFails, Reload, LoadEnds, Close, Return, playerVars, TellInv
  <2>5. CASE NotifyServerShutdown \/ ListPlayers \/ NotifyEnds
    BY <2>5 DEF NotifyServerShutdown, ListPlayers, NotifyEnds, playerVars, TellInv
  <2> QED BY <2>1, <2>2, <2>3, <2>4, <2>5 DEF Next, Step
<1>2. CASE Live = 0
  BY <1>1, <1>2, LiveBefore DEF TellInv
<1>3. CASE Live # 0
  <2>0. Tellings /\ ToldOnce
    BY <1>3 DEF TellInv
  <2>1. CASE OnServerInitialise \/ OnServerFrame \/ OnEvent \/ OnServerShutdown
    <3>1. Tellings'
      BY <1>3, <2>1, TellOther
    <3>2. told' = told
      BY <2>1 DEF OnServerInitialise, OnServerFrame, OnEvent, OnServerShutdown, playerVars
    <3> QED BY <1>1, <2>0, <3>1, <3>2 DEF TellInv, ToldOnce
  <2>2. ASSUME NEW p \in Players, OnPlayerConnect(p)
        PROVE  TellInv'
    <3>1. told' = [told EXCEPT ![p] = 0]
      BY <2>2 DEF OnPlayerConnect
    <3>2. \A q \in Players : told'[q] = 0 \/ told'[q] = told[q]
      BY <3>1 DEF TypeOK
    <3>3. ToldOnce'
      BY <2>0, <3>2 DEF ToldOnce
    <3>4. Tellings'
      BY <1>3, <2>0, <2>2, TellConnect
    <3> QED BY <1>1, <3>3, <3>4 DEF TellInv
  <2>3. ASSUME NEW p \in Players, OnPlayerDisconnect(p)
        PROVE  TellInv'
    <3>1. Tellings' /\ told' = told
      BY <1>3, <2>0, <2>3, TellDisconnect DEF OnPlayerDisconnect
    <3> QED BY <1>1, <2>0, <3>1 DEF TellInv, ToldOnce
  <2>4. CASE RequestReload \/ RequestShutdown \/ UNCHANGED vars
    <3>1. UNCHANGED <<stack, alive, online, told>>
      BY <2>4 DEF RequestReload, RequestShutdown, vars, playerVars
    <3> QED BY <1>1, <2>0, <3>1, Zenon DEF TellInv, ToldOnce, Tellings, Leaving
  <2>5. CASE CallLua
    BY <1>1, <2>0, <2>5, TellCall DEF TellInv
  <2>6. CASE LuaReturns
    <3>1. Tellings' /\ told' = told
      BY <2>0, <2>6, TellReturn DEF LuaReturns
    <3> QED BY <1>1, <2>0, <3>1 DEF TellInv, ToldOnce
  <2>7. CASE Panic
    <3>1. Live' = 0 /\ told' = told
      BY <2>7 DEF Panic, Live, playerVars
    <3> QED BY <1>1, <2>0, <3>1 DEF TellInv, ToldOnce
  <2>8. CASE BodyEnds
    <3>1. Tellings' /\ told' = told
      BY <1>3, <2>0, <2>8, TellBodyEnds DEF BodyEnds
    <3> QED BY <1>1, <2>0, <3>1 DEF TellInv, ToldOnce
  <2>9. CASE AfterCallback \/ NoReload \/ ReloadFails \/ LoadEnds \/ NotifyServerShutdown
    <3>1. Tellings'
      BY <2>0, <2>9, TellAfter
    <3>2. told' = told
      BY <2>9 DEF AfterCallback, NoReload, ReloadFails, LoadEnds, NotifyServerShutdown, playerVars
    <3> QED BY <1>1, <2>0, <3>1, <3>2 DEF TellInv, ToldOnce
  <2>10. CASE Reload
    BY <1>1, <2>10, TellReload DEF TellInv
  <2>11. CASE ListPlayers \/ NotifyEnds
    <3>1. Tellings' /\ told' = told
      BY <1>3, <2>0, <2>11, TellList, TellDone DEF ListPlayers, NotifyEnds, playerVars
    <3> QED BY <1>1, <2>0, <3>1 DEF TellInv, ToldOnce
  <2>12. CASE \E p \in Players : Goodbye(p)
    BY <1>1, <2>0, <2>12, TellGoodbye DEF TellInv
  <2>13. CASE Close
    <3>1. Live' = 0 /\ told' = told
      BY <2>13 DEF Close, Live
    <3> QED BY <1>1, <2>0, <3>1 DEF TellInv, ToldOnce
  <2> QED BY <2>1, <2>2, <2>3, <2>4, <2>5, <2>6, <2>7, <2>8, <2>9, <2>10, <2>11, <2>12, <2>13 DEF Next, Step
<1> QED BY <1>2, <1>3

(* TellInv is invariant when nobody is kicked in its own shutdown          *)
(* disconnect.                                                             *)
LEMMA TellHolds == ~KicksDismissed /\ Spec => []TellInv
<1>1. ASSUME Init PROVE TellInv
  <2>1. online = {} /\ alive = {} /\ Len(stack) = 0 /\ \A p \in Players : told[p] = 0
    BY <1>1 DEF Init, NoneTold
  <2>2. 1..Len(stack) = {}
    BY <2>1
  <2>3. Tellings
    BY <2>1, <2>2, Zenon DEF Tellings
  <2>4. ToldOnce
    <3> SUFFICES ASSUME NEW p \in Players PROVE told[p] <= 1
      BY Zenon DEF ToldOnce
    <3>1. told[p] = 0
      BY <2>1
    <3> QED BY ONLY <3>1
  <2> QED BY <2>1, <2>3, <2>4 DEF TellInv
<1>2. ~KicksDismissed /\ TypeOK /\ StackInv /\ TellInv /\ [Next]_vars => TellInv'
  BY TellStep
<1>3. CASE ~KicksDismissed
  BY <1>1, <1>2, <1>3, TypeCorrect, StackHolds, PTL DEF Spec
<1>4. CASE KicksDismissed
  BY <1>4, PTL
<1> QED BY <1>3, <1>4

(***************************************************************************)
(* ToldOnce: with any number of players, nested callbacks and reloads, no  *)
(* connection has its disconnect dispatched twice, unless a player is      *)
(* kicked after NotifyServerShutdown has dispatched it.                    *)
(***************************************************************************)
THEOREM EachToldOnce == ~KicksDismissed /\ Spec => []ToldOnce
<1>1. TellInv => ToldOnce
  BY DEF TellInv
<1> QED BY <1>1, TellHolds, PTL

(***************************************************************************)
(* EveryoneTold: when FinishShutdown gets to Runtime::Shutdown, and no     *)
(* panic has stopped Lua, every player that is still connected has had its *)
(* disconnect dispatched.                                                  *)
(***************************************************************************)
THEOREM AllAreTold == ~KicksDismissed /\ Spec => []EveryoneTold
<1>1. ASSUME TypeOK, StackInv, TellInv, At("close"), ~dead, NEW p \in online
      PROVE  told[p] >= 1
  <2>1. stack # << >> /\ Top.at = "close"
    BY <1>1 DEF At
  <2>2. Sound(Top, runtime, Live) /\ Top = stack[Len(stack)] /\ Len(stack) \in 1..Len(stack)
    BY <1>1, <2>1, TopSound, TopFields
  <2>3. Live # 0
    BY <1>1, <2>1, <2>2 DEF Sound, Live, Closing
  <2>4. FrameTells(Top, told, online)
    BY <1>1, <2>2, <2>3, Zenon DEF TellInv, Tellings
  <2>5. told[p] = 1
    BY <2>1, <2>4 DEF FrameTells
  <2> QED BY <2>5
<1>2. TypeOK /\ StackInv /\ TellInv => EveryoneTold
  BY <1>1 DEF EveryoneTold
<1> QED BY <1>2, TypeCorrect, StackHolds, TellHolds, PTL
=============================================================================
