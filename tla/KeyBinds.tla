------------------------------ MODULE KeyBinds ------------------------------
(***************************************************************************)
(* Key binds (bindings/bind.cpp) and the pool that holds their handles.    *)
(* The server's slots are shared by all plugins and no event says that a   *)
(* bind was removed, so the pool learns of it only when a handle is used   *)
(* and the server, asked with GetKeyBindData, has no keys in the slot.     *)
(* Until then the slot can be registered again, by anyone, and the pool    *)
(* takes the new bind for the old one.                                     *)
(* No function of the server that is called here calls the plugin back:    *)
(* every binding is one step.  A call that raises an error before it       *)
(* changes anything is no step.                                            *)
(***************************************************************************)
EXTENDS Integers, FiniteSets

CONSTANTS
    Slots,        \* ids of the server's key bind slots
    Tags,         \* the texts a script gives to bind.tag
    NoTag,        \* the empty text
    MaxLives      \* bound: binds registered, and pool lifetimes, in one slot

ASSUME SlotsAssumption == Slots \subseteq Nat
ASSUME TagsAssumption == NoTag \notin Tags
ASSUME LivesAssumption == MaxLives \in Nat

VARIABLES
    pool,     \* the SlotData of every bind slot
    keys,     \* whether the server's slot has a key that is not 0
    owner,    \* who registered what the server's slot holds
    life,     \* history: how many binds the server's slot has held
    handles,  \* history: the handles that scripts were given, each with the
              \* bind it was given for
    tagged,   \* history: the bind that pool[s].tag was given to
    missed    \* history: the slots that were registered while the pool still
              \* held an earlier bind there

bindVars == <<pool, keys, owner, life, handles, tagged, missed>>
serverVars == <<keys, owner, life>>

SlotData == [alive : BOOLEAN, created_by_us : BOOLEAN, generation : Nat,
             tag : Tags \cup {NoTag}]
Handles == [id : Slots, generation : Nat, life : Nat]

BindsTypeOK ==
    /\ pool \in [Slots -> SlotData]
    /\ keys \in [Slots -> BOOLEAN]
    /\ owner \in [Slots -> {"us", "other"}]
    /\ life \in [Slots -> Nat]
    /\ handles \in SUBSET Handles
    /\ tagged \in [Slots -> Nat]
    /\ missed \subseteq Slots

NewSlot == [alive |-> FALSE, created_by_us |-> FALSE, generation |-> 0, tag |-> NoTag]

BindsInit ==
    /\ pool = [s \in Slots |-> NewSlot]
    /\ keys = [s \in Slots |-> FALSE]
    /\ owner = [s \in Slots |-> "other"]
    /\ life = [s \in Slots |-> 0]
    /\ handles = {}
    /\ tagged = [s \in Slots |-> 0]
    /\ missed = {}

-----------------------------------------------------------------------------
(***************************************************************************)
(* The pool.                                                               *)
(***************************************************************************)
\* Mutant: a new lifetime keeps the generation.
Adopted_SameGeneration(slot) ==
    IF slot.alive THEN slot ELSE [slot EXCEPT !.alive = TRUE, !.created_by_us = FALSE]

Adopted(slot) ==
    IF slot.alive THEN slot
    ELSE [slot EXCEPT !.alive = TRUE, !.created_by_us = FALSE, !.generation = @ + 1]

\* Mutant: the tag is not cleared.
Released_KeepsTag(slot) == [slot EXCEPT !.alive = FALSE, !.created_by_us = FALSE]

Released(slot) ==
    [slot EXCEPT !.alive = FALSE, !.created_by_us = FALSE, !.tag = NoTag]

Valid(h) == pool[h.id].alive /\ pool[h.id].generation = h.generation

\* The handle of slot s, for the bind that the server has there, if any.
Handle(s, generation, held, lives) ==
    [id |-> s, generation |-> generation, life |-> IF held[s] THEN lives[s] ELSE 0]

CreatedByUs == {s \in Slots : pool[s].alive /\ pool[s].created_by_us}

\* GetKeyBindData succeeds for every slot; a free one reads keys 0, 0, 0.
KeyBindExists(s) == keys[s]

\* The server gives the free slot s to somebody, with the keys of a bind.
Registers(s, some_key, by) ==
    /\ ~keys[s]
    /\ life[s] < MaxLives /\ pool[s].generation < MaxLives
    /\ keys' = [keys EXCEPT ![s] = some_key]
    /\ owner' = [owner EXCEPT ![s] = by]
    /\ life' = [life EXCEPT ![s] = IF some_key THEN @ + 1 ELSE @]
    /\ missed' = IF pool[s].alive THEN missed \cup {s} ELSE missed

-----------------------------------------------------------------------------
(***************************************************************************)
(* Bindings.                                                               *)
(***************************************************************************)
\* GetKeyBindUnusedSlot answers s and the server registers the keys there.  With
\* keys 0, 0, 0 that leaves the slot free, and the handle is of no bind.
CreateBind(s, some_key) ==
    LET slot == [Adopted(pool[s]) EXCEPT !.created_by_us = TRUE]
    IN  /\ Registers(s, some_key, "us")
        /\ pool' = [pool EXCEPT ![s] = slot]
        /\ handles' = handles \cup {Handle(s, slot.generation, keys', life')}
        /\ UNCHANGED tagged

\* CheckLive of a handle whose bind the server no longer has: the slot is
\* released and "bind no longer exists" raised.
RequireBindExists(h) ==
    /\ Valid(h) /\ ~KeyBindExists(h.id)
    /\ pool' = [pool EXCEPT ![h.id] = Released(@)]
    /\ missed' = missed \ {h.id}
    /\ UNCHANGED <<serverVars, handles, tagged>>

Live(h) == Valid(h) /\ KeyBindExists(h.id)

SetTag(h, t) ==
    /\ Live(h)
    /\ pool' = [pool EXCEPT ![h.id].tag = t]
    /\ tagged' = [tagged EXCEPT ![h.id] = life[h.id]]
    /\ UNCHANGED <<serverVars, handles, missed>>

\* Remove of every slot in `ids', of which the server refuses none.
Remove(ids) ==
    /\ pool' = [s \in Slots |-> IF s \in ids THEN Released(pool[s]) ELSE pool[s]]
    /\ keys' = [s \in Slots |-> keys[s] /\ s \notin ids]
    /\ missed' = missed \ ids

DestroyBind(h) ==
    /\ Live(h)
    /\ Remove({h.id})
    /\ UNCHANGED <<owner, life, handles, tagged>>

\* Mutant: every bind in the pool is removed.
clearAllBinds_Everyone(refused) ==
    /\ Remove({s \in Slots : pool[s].alive} \ refused)
    /\ UNCHANGED <<owner, life, handles, tagged>>

\* Without CheckLive; the server may refuse some, or fail one, which ends the
\* loop there: both leave the slots in `refused' as they were.
clearAllBinds(refused) ==
    /\ Remove(CreatedByUs \ refused)
    /\ UNCHANGED <<owner, life, handles, tagged>>

\* findByID and getActive, which do not ask the server.
Lookup(s) ==
    /\ pool[s].alive
    /\ handles' = handles \cup {Handle(s, pool[s].generation, keys, life)}
    /\ UNCHANGED <<pool, serverVars, tagged, missed>>

\* The first bind, in id order, with that tag; the server is not asked either.
findByTag(t) ==
    \E s \in Slots :
        /\ pool[s].alive /\ pool[s].tag = t
        /\ \A r \in Slots : pool[r].alive /\ pool[r].tag = t => s <= r
        /\ Lookup(s)

-----------------------------------------------------------------------------
(***************************************************************************)
(* The server, other plugins, and the reload.                              *)
(***************************************************************************)
\* OnPlayerKeyBindDown and OnPlayerKeyBindUp adopt a bind seen first here.
OnPlayerKeyBind(s) ==
    /\ keys[s]
    /\ pool' = [pool EXCEPT ![s] = Adopted(@)]
    /\ handles' = handles \cup {Handle(s, Adopted(pool[s]).generation, keys, life)}
    /\ UNCHANGED <<serverVars, tagged, missed>>

OtherRegisters(s) ==
    /\ Registers(s, TRUE, "other")
    /\ UNCHANGED <<pool, handles, tagged>>

OtherRemoves(s) ==
    /\ keys[s]
    /\ keys' = [keys EXCEPT ![s] = FALSE]
    /\ UNCHANGED <<pool, owner, life, handles, tagged, missed>>

\* DeleteCreated removes the marked binds, without looking at the server's
\* answer; the new runtime's Enumerate adopts the binds that exist.
Reload(refused) ==
    LET left == {s \in Slots : keys[s] /\ s \notin CreatedByUs \ refused}
    IN  /\ keys' = [s \in Slots |-> s \in left]
        /\ pool' = [s \in Slots |-> IF s \in left THEN Adopted(NewSlot) ELSE NewSlot]
        /\ owner' = [s \in Slots |-> "other"]
        /\ handles' = {}
        /\ missed' = {}
        /\ UNCHANGED <<life, tagged>>

BindsNext ==
    \/ \E s \in Slots, some_key \in BOOLEAN : CreateBind(s, some_key)
    \/ \E s \in Slots : Lookup(s) \/ OnPlayerKeyBind(s)
    \/ \E s \in Slots : OtherRegisters(s) \/ OtherRemoves(s)
    \/ \E h \in handles : RequireBindExists(h) \/ DestroyBind(h)
    \/ \E h \in handles, t \in Tags : SetTag(h, t)
    \/ \E t \in Tags : findByTag(t)
    \/ \E refused \in SUBSET CreatedByUs : clearAllBinds(refused) \/ Reload(refused)

BindsSpec == BindsInit /\ [][BindsNext]_bindVars

-----------------------------------------------------------------------------
(***************************************************************************)
(* Properties.                                                             *)
(***************************************************************************)
\* Every bind of this runtime that the server still has is marked, so that
\* clearAllBinds and a reload find it.
OwnBindsMarked ==
    \A s \in Slots : keys[s] /\ owner[s] = "us" => s \in CreatedByUs

\* "A handle to a dead entity never matches a newer one that reuses its id"
\* (entity_pool.hpp): a handle that passes CheckLive is the server's bind,
\* unless the slot was registered again before the plugin noticed.
HandleMatchesBind ==
    \A h \in handles : Live(h) /\ h.id \notin missed => h.life = life[h.id]

\* "Empty by default.  Dropped with the bind" (docs/api/bind.md): the tag that
\* a bind shows was given to that bind, with the same exception.
TagOfThisBind ==
    \A s \in Slots \ missed : keys[s] /\ pool[s].tag # NoTag => tagged[s] = life[s]

\* "Removes only the binds this plugin created, not other plugins' binds"
\* (bind.cpp): clearAllBinds and a reload take no bind of another plugin, but
\* for a slot that it registered before this one noticed that its own bind
\* there was gone; and they end what the pool knows of that slot.
OthersBindsStay ==
    [][\A s \in Slots : keys[s] /\ ~keys'[s] /\ owner[s] = "other" =>
           \/ OtherRemoves(s)
           \/ \E h \in handles : h.id = s /\ DestroyBind(h)
           \/ s \in missed /\ ~pool'[s].alive]_bindVars


\* Once a handle is dead it stays dead, whoever uses the slot next.
DeadForGood == [][\A h \in handles \cap handles' : ~Valid(h) => ~Valid(h)']_bindVars

=============================================================================
