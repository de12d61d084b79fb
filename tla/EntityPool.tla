----------------------------- MODULE EntityPool -----------------------------
(***************************************************************************)
(* One entity pool of the plugin (src/core/entity_pool.cpp), the server    *)
(* calls that the Lua bindings make on its entities, and the server's pool *)
(* events, which arrive INSIDE those calls.  The plugin is single-threaded *)
(* but re-entrant: a script calls Vehicle.create, the server reports the   *)
(* new vehicle before CreateVehicle returns, the handlers of that event    *)
(* run and call Vehicle.create or vehicle:destroy themselves, and so on.   *)
(* `stack' holds the Create* and Delete* calls in progress, innermost last.*)
(*                                                                         *)
(* The server reports a call first to the plugin that made it, then to the *)
(* others in load order (docs/internals.md), so other plugins can call in  *)
(* before and after this one hears of an entity, and make the server send  *)
(* this plugin callbacks in which its scripts run: scripts run at any      *)
(* point of a call in progress.                                            *)
(*                                                                         *)
(* The same code serves vehicles, objects, pickups, checkpoints and blips; *)
(* blips differ in what the server does and in DestroyBlip.                *)
(***************************************************************************)
EXTENDS Naturals, Sequences

CONSTANTS
    Ids,       \* the slots of the pools, [first_id, capacity) of each kind
    Blips,     \* those of the blip pool: the server frees the id of a blip
               \* before its "deleted" event, that of any other kind after it
    Faults,    \* memory can run out while an event is emitted or deleted from
    Modulus,   \* 2^32: the generation is a std::uint32_t
    MaxEntities,   \* bound: entities the server creates
    MaxDepth       \* bound: Create* and Delete* calls nested

ASSUME KindsAssumption == Blips \subseteq Ids /\ Faults \in BOOLEAN
ASSUME ModulusAssumption == Modulus \in Nat \ {0}
ASSUME BoundsAssumption == MaxEntities \in Nat /\ MaxDepth \in Nat

VARIABLES
    alive, created_by_us, generation,   \* SlotData, a function of the id
    handle,      \* the cached userdata: its number, 0 when there is none
    data,        \* `data': the entity it was stored for, 0 when there is none
    exists,      \* the server has an entity under this id
    life,        \* the number of the entity that has or last had the id, 0 before
    entities,    \* how many entities the server has created: numbers them
    owner,       \* which plugin created the current one, "us" for this runtime
    stack,       \* the Create* and Delete* calls in progress
    mode,        \* "live", or "reloading" while Plugin().runtime is null
    doomed,      \* what is left of the ids that DeleteCreated goes through
    adoptions,   \* history: how often this runtime adopted the slot
    made,        \* history: how many userdata Push made for the slot
    issued,      \* history: the handles that scripts hold
    disorder     \* history: the ids on which this plugin heard of an entity's
                 \* creation or end too late, or not at all

slotVars == <<alive, created_by_us, generation, adoptions>>
refVars == <<handle, data, made, issued>>
serverVars == <<exists, life, entities, owner>>
reloadVars == <<mode, doomed>>
vars == <<slotVars, refVars, serverVars, stack, reloadVars, disorder>>

Plugins == {"us", "other"}

\* A call in progress on the entity `life' of the id.  Its pool event is with
\* the plugins that are told before this one, with this one, or with the rest.
Phases == {"before", "ours", "after"}
Calls == [op : {"create", "delete"}, id : Ids, life : Nat, by : Plugins, phase : Phases]

Handles == [id : Ids, obj : Nat, generation : Nat, adoption : Nat, life : Nat]

TypeOK ==
    /\ alive \in [Ids -> BOOLEAN]
    /\ created_by_us \in [Ids -> BOOLEAN]
    /\ generation \in [Ids -> 0..(Modulus - 1)]
    /\ handle \in [Ids -> Nat]
    /\ data \in [Ids -> Nat]
    /\ exists \in [Ids -> BOOLEAN]
    /\ life \in [Ids -> Nat]
    /\ entities \in Nat
    /\ owner \in [Ids -> Plugins]
    /\ stack \in Seq(Calls)
    /\ mode \in {"live", "reloading"}
    /\ doomed \subseteq Ids
    /\ adoptions \in [Ids -> Nat]
    /\ made \in [Ids -> Nat]
    /\ issued \subseteq Handles
    /\ disorder \subseteq Ids

Init ==
    /\ alive = [i \in Ids |-> FALSE]
    /\ created_by_us = [i \in Ids |-> FALSE]
    /\ generation = [i \in Ids |-> 0]
    /\ handle = [i \in Ids |-> 0]
    /\ data = [i \in Ids |-> 0]
    /\ exists = [i \in Ids |-> FALSE]
    /\ life = [i \in Ids |-> 0]
    /\ entities = 0
    /\ owner = [i \in Ids |-> "other"]
    /\ stack = << >>
    /\ mode = "live"
    /\ doomed = {}
    /\ adoptions = [i \in Ids |-> 0]
    /\ made = [i \in Ids |-> 0]
    /\ issued = {}
    /\ disorder = {}

-----------------------------------------------------------------------------
(***************************************************************************)
(* The pool's own operations.                                              *)
(***************************************************************************)
Valid(h) == alive[h.id] /\ generation[h.id] = h.generation

\* Unsigned increment: ++slot.generation.
Incremented(g) == IF g = Modulus - 1 THEN 0 ELSE g + 1

\* Mutant: the generation is not incremented.
Adopt_SameGeneration(i, mark) ==
    /\ alive' = [alive EXCEPT ![i] = TRUE]
    /\ created_by_us' = [created_by_us EXCEPT ![i] = mark \/ (alive[i] /\ @)]
    /\ adoptions' = [adoptions EXCEPT ![i] = IF alive[i] THEN @ ELSE @ + 1]
    /\ UNCHANGED generation

\* Adopt, followed by MarkCreatedByUs where `mark' says so: a slot that is
\* already alive keeps its generation and its mark.
Adopt(i, mark) ==
    /\ alive' = [alive EXCEPT ![i] = TRUE]
    /\ created_by_us' = [created_by_us EXCEPT ![i] = mark \/ (alive[i] /\ @)]
    /\ generation' = [generation EXCEPT ![i] = IF alive[i] THEN @ ELSE Incremented(@)]
    /\ adoptions' = [adoptions EXCEPT ![i] = IF alive[i] THEN @ ELSE @ + 1]

\* Mutant: the data table is not reset.
Release_KeepsData(i) ==
    /\ alive' = [alive EXCEPT ![i] = FALSE]
    /\ created_by_us' = [created_by_us EXCEPT ![i] = FALSE]
    /\ handle' = [handle EXCEPT ![i] = IF alive[i] THEN 0 ELSE @]
    /\ UNCHANGED <<generation, adoptions, data, made, issued>>

\* By id: whatever lifetime the slot is in now is the one that ends.
Release(i) ==
    /\ alive' = [alive EXCEPT ![i] = FALSE]
    /\ created_by_us' = [created_by_us EXCEPT ![i] = FALSE]
    /\ handle' = [handle EXCEPT ![i] = IF alive[i] THEN 0 ELSE @]
    /\ data' = [data EXCEPT ![i] = IF alive[i] THEN 0 ELSE @]
    /\ UNCHANGED <<generation, adoptions, made, issued>>

\* Mutant: the new userdata is not cached.
Push_Uncached(i) ==
    /\ made' = [made EXCEPT ![i] = @ + 1]
    /\ issued' = issued \cup
           {[id |-> i, obj |-> made[i] + 1, generation |-> generation'[i],
             adoption |-> adoptions'[i], life |-> life[i]]}
    /\ UNCHANGED <<handle, data>>

\* Push of the current lifetime, read after the slot has been adopted: the
\* cached userdata, made the first time.
Push(i) ==
    IF handle[i] # 0
    THEN UNCHANGED refVars
    ELSE /\ made' = [made EXCEPT ![i] = @ + 1]
         /\ handle' = [handle EXCEPT ![i] = made[i] + 1]
         /\ issued' = issued \cup
                {[id |-> i, obj |-> made[i] + 1, generation |-> generation'[i],
                  adoption |-> adoptions'[i], life |-> life[i]]}
         /\ UNCHANGED data

-----------------------------------------------------------------------------
(***************************************************************************)
(* The order in which this plugin hears of entities.  It is decided by     *)
(* what the other plugins do inside their handlers, and by the server.     *)
(***************************************************************************)
InProgress == {stack[k] : k \in 1..Len(stack)}

InCall(i) == \E c \in InProgress : c.id = i

\* A deletion on id i of which this plugin has not handled the event yet.
Unheard(i) == \E c \in InProgress : c.op = "delete" /\ c.id = i /\ c.phase # "after"

\* Entity n of id i is being deleted and this plugin has handled the event.
Told(i, n) ==
    \E c \in InProgress : c.op = "delete" /\ c.id = i /\ c.life = n /\ c.phase = "after"

\* Entity n of id i is gone, or its end is behind this plugin already.
Over(i, n) == ~(exists[i] /\ life[i] = n) \/ Told(i, n)

\* A report on id i, which may come too late.
Heard(i, late) == disorder' = IF late THEN disorder \cup {i} ELSE disorder

-----------------------------------------------------------------------------
(***************************************************************************)
(* Server calls and the events inside them.                                *)
(***************************************************************************)
Top == stack[Len(stack)]
Popped == SubSeq(stack, 1, Len(stack) - 1)
Reaches(phase) == stack' = [stack EXCEPT ![Len(stack)].phase = phase]

Call(op, i, n, by, phase) == [op |-> op, id |-> i, life |-> n, by |-> by, phase |-> phase]

\* Scripts run while the runtime is there.  Another plugin calls in from its own
\* callbacks, at any time; during a reload, which is one callback of this
\* plugin, only inside the Delete* calls that it makes.
Calling(by) == mode = "live" \/ (by = "other" /\ stack # << >>)

\* Mutant: the pool event marks every entity as created by this runtime.
Create_MarksAll(i, by) ==
    /\ Calling(by)
    /\ Len(stack) < MaxDepth
    /\ ~exists[i] /\ entities < MaxEntities
    /\ exists' = [exists EXCEPT ![i] = TRUE]
    /\ entities' = entities + 1
    /\ life' = [life EXCEPT ![i] = entities']
    /\ owner' = [owner EXCEPT ![i] = by]
    /\ stack' = Append(stack, Call("create", i, entities', by, IF by = "us" THEN "ours" ELSE "before"))
    /\ Adopt(i, TRUE)
    /\ UNCHANGED <<refVars, reloadVars, disorder>>

\* Create*: the server takes a free id.  A call of this plugin is reported to it
\* at once, and OnEntityPoolChange adopts the slot.  For the record of disorder:
\* the id may have been freed before this plugin heard all of it; a new entity
\* on a slot that is released, with no other call on it, starts afresh.
Create(i, by) ==
    /\ Calling(by)
    /\ Len(stack) < MaxDepth
    /\ ~exists[i] /\ entities < MaxEntities
    /\ exists' = [exists EXCEPT ![i] = TRUE]
    /\ entities' = entities + 1
    /\ life' = [life EXCEPT ![i] = entities']
    /\ owner' = [owner EXCEPT ![i] = by]
    /\ stack' = Append(stack, Call("create", i, entities', by, IF by = "us" THEN "ours" ELSE "before"))
    /\ IF by = "us" THEN Adopt(i, FALSE) ELSE UNCHANGED slotVars
    /\ disorder' = IF Unheard(i) \/ i \in doomed THEN disorder \cup {i}
                   ELSE IF alive[i] \/ InCall(i) THEN disorder ELSE disorder \ {i}
    /\ UNCHANGED <<refVars, reloadVars>>

\* Delete*: deleting an entity twice is vcmpErrorNoSuchEntity.
Delete(i, by, phase) ==
    /\ Len(stack) < MaxDepth
    /\ exists[i]
    /\ i \notin Blips => ~\E c \in InProgress : c.op = "delete" /\ c.id = i
    /\ exists' = [exists EXCEPT ![i] = i \notin Blips]
    /\ stack' = Append(stack, Call("delete", i, life[i], by, phase))
    /\ UNCHANGED <<slotVars, refVars, life, entities, owner, reloadVars, disorder>>

OtherDeletes(i) == Calling("other") /\ Delete(i, "other", "before")

\* handle:destroy().  CheckLive raises for a handle that is not valid.  A blip
\* may also be named by its id.
Destroy(i) ==
    /\ mode = "live"
    /\ i \in Blips \/ \E h \in issued : h.id = i /\ Valid(h)
    /\ Delete(i, "us", "ours")

\* DestroyBlip of an id the server does not know (vcmpErrorNoSuchEntity)
\* releases the slot; destroy() of the other kinds raises an error instead.
DestroyMissingBlip(i) ==
    /\ mode = "live"
    /\ i \in Blips /\ ~exists[i]
    /\ Release(i)
    /\ UNCHANGED <<serverVars, stack, reloadVars, disorder>>

\* The event of another plugin's call reaches this one: OnEntityPoolChange
\* adopts the slot of a new entity.  Without a runtime it does nothing.
Report ==
    /\ stack # << >> /\ Top.phase = "before"
    /\ Reaches(IF mode = "live" THEN "ours" ELSE "after")
    /\ IF mode = "live" /\ Top.op = "create"
       THEN Adopt(Top.id, FALSE) /\ Heard(Top.id, Over(Top.id, Top.life))
       ELSE UNCHANGED <<slotVars, disorder>>
    /\ UNCHANGED <<refVars, serverVars, reloadVars>>

\* Mutant: OnEntityPoolChange leaves the release to the binding.
HandlersReturn_NoRelease ==
    /\ stack # << >> /\ Top.phase = "ours"
    /\ Reaches("after")
    /\ UNCHANGED <<slotVars, refVars, serverVars, reloadVars, disorder>>

\* The last handler of the innermost pool event has returned: after "deleted",
\* OnEntityPoolChange releases the slot.
HandlersReturn ==
    /\ stack # << >> /\ Top.phase = "ours"
    /\ Reaches("after")
    /\ IF Top.op = "delete" THEN Release(Top.id) ELSE UNCHANGED <<slotVars, refVars>>
    /\ UNCHANGED <<serverVars, reloadVars, disorder>>

\* Emit throws (bad_alloc, "Lua stack overflow"), which Guarded logs: the
\* release after it is skipped.
HandlersThrow ==
    /\ Faults
    /\ stack # << >> /\ Top.phase = "ours" /\ Top.op = "delete"
    /\ Reaches("after")
    /\ disorder' = disorder \cup {Top.id}
    /\ UNCHANGED <<slotVars, refVars, serverVars, reloadVars>>

\* Create* returns to the binding, which calls Created(): the slot is adopted
\* once more, marked as ours, and its handle is the binding's result.
CreateReturns ==
    /\ stack # << >> /\ Top.phase = "after" /\ Top.op = "create"
    /\ stack' = Popped
    /\ IF Top.by = "us"
       THEN Adopt(Top.id, TRUE) /\ Push(Top.id) /\ Heard(Top.id, Over(Top.id, Top.life))
       ELSE UNCHANGED <<slotVars, refVars, disorder>>
    /\ UNCHANGED <<serverVars, reloadVars>>

\* Delete* removes the entity, unless it already has (blips), and returns to
\* the binding, or to DeleteCreated, which releases the slot once more.
DeleteReturns ==
    /\ stack # << >> /\ Top.phase = "after" /\ Top.op = "delete"
    /\ stack' = Popped
    /\ exists' = [exists EXCEPT ![Top.id] = Top.id \in Blips /\ @]
    /\ IF Top.by = "us"
       THEN /\ Release(Top.id)
            /\ Heard(Top.id, exists'[Top.id] /\ life[Top.id] # Top.life)
            /\ doomed' = doomed \ {Top.id}
       ELSE UNCHANGED <<slotVars, refVars, disorder, doomed>>
    /\ UNCHANGED <<life, entities, owner, mode>>

-----------------------------------------------------------------------------
(***************************************************************************)
(* What scripts do with the entities.                                      *)
(***************************************************************************)
\* Kind.findByID, Kind.getActive and the getters that return an entity: RefOf,
\* then Push.
Lookup(i) ==
    /\ mode = "live" /\ alive[i]
    /\ UNCHANGED slotVars
    /\ Push(i)
    /\ UNCHANGED <<serverVars, stack, reloadVars, disorder>>

\* handle.data = table, and the first read of handle.data.
SetData(i) ==
    /\ mode = "live"
    /\ \E h \in issued : h.id = i /\ Valid(h)
    /\ data' = [data EXCEPT ![i] = life[i]]
    /\ UNCHANGED <<slotVars, handle, made, issued, serverVars, stack, reloadVars, disorder>>

\* An event of the server that names an entity, also one that another plugin
\* causes inside a call in progress: the slot is adopted on first sight and the
\* handlers get its handle.  No event names a blip.
EntityEvent(i) ==
    /\ mode = "live" /\ exists[i] /\ i \notin Blips
    /\ Adopt(i, FALSE)
    /\ Push(i)
    /\ Heard(i, Over(i, life[i]))
    /\ UNCHANGED <<serverVars, stack, reloadVars>>

-----------------------------------------------------------------------------
(***************************************************************************)
(* The reload, at the end of a frame.  There is no runtime while the old   *)
(* one deletes what it created, call by call, so the pool hears nothing of *)
(* what the other plugins' handlers do meanwhile.                          *)
(***************************************************************************)
CreatedByUs == {i \in Ids : alive[i] /\ created_by_us[i]}

ReloadBegins ==
    /\ mode = "live" /\ stack = << >>
    /\ mode' = "reloading"
    /\ doomed' = CreatedByUs
    /\ UNCHANGED <<slotVars, refVars, serverVars, stack, disorder>>

\* DeleteCreated: Delete* for the next id, whatever is under it by now.
DeleteCreated(i) ==
    /\ mode = "reloading" /\ stack = << >>
    /\ i \in doomed
    /\ Delete(i, "us", "after")

\* ... which is vcmpErrorNoSuchEntity if another plugin was faster.
DeleteMissing(i) ==
    /\ mode = "reloading" /\ stack = << >>
    /\ i \in doomed /\ ~exists[i]
    /\ Release(i)
    /\ doomed' = doomed \ {i}
    /\ UNCHANGED <<serverVars, stack, mode, disorder>>

\* CreatedByUs() throws bad_alloc for one of the pools; Shutdown catches it.
DeleteCreatedThrows ==
    /\ Faults
    /\ mode = "reloading" /\ stack = << >>
    /\ doomed' = {}
    /\ UNCHANGED <<slotVars, refVars, serverVars, stack, mode, disorder>>

\* Mutant: the new runtime does not enumerate the server's entities.
ReloadEnds_NoEnumerate ==
    /\ mode = "reloading" /\ stack = << >> /\ doomed = {}
    /\ mode' = "live"
    /\ alive' = [i \in Ids |-> FALSE]
    /\ created_by_us' = [i \in Ids |-> FALSE]
    /\ adoptions' = [i \in Ids |-> 0]
    /\ generation' = [i \in Ids |-> 0]
    /\ handle' = [i \in Ids |-> 0] /\ data' = [i \in Ids |-> 0]
    /\ made' = [i \in Ids |-> 0] /\ issued' = {}
    /\ owner' = [i \in Ids |-> "other"]
    /\ disorder' = {}
    /\ UNCHANGED <<exists, life, entities, stack, doomed>>

\* The old Lua state goes with every handle; the new runtime, which created
\* nothing yet, adopts what the server has.
ReloadEnds ==
    /\ mode = "reloading" /\ stack = << >> /\ doomed = {}
    /\ mode' = "live"
    /\ alive' = exists
    /\ created_by_us' = [i \in Ids |-> FALSE]
    /\ adoptions' = [i \in Ids |-> IF exists[i] THEN 1 ELSE 0]
    /\ generation' = [i \in Ids |-> IF exists[i] THEN Incremented(0) ELSE 0]
    /\ handle' = [i \in Ids |-> 0] /\ data' = [i \in Ids |-> 0]
    /\ made' = [i \in Ids |-> 0] /\ issued' = {}
    /\ owner' = [i \in Ids |-> "other"]
    /\ disorder' = {}
    /\ UNCHANGED <<exists, life, entities, stack, doomed>>

Next ==
    \/ \E i \in Ids, by \in Plugins : Create(i, by)
    \/ \E i \in Ids : OtherDeletes(i)
    \/ \E i \in Ids : Destroy(i)
    \/ \E i \in Ids : DestroyMissingBlip(i)
    \/ Report
    \/ HandlersReturn
    \/ HandlersThrow
    \/ CreateReturns
    \/ DeleteReturns
    \/ \E i \in Ids : Lookup(i)
    \/ \E i \in Ids : SetData(i)
    \/ \E i \in Ids : EntityEvent(i)
    \/ ReloadBegins
    \/ \E i \in Ids : DeleteCreated(i)
    \/ \E i \in Ids : DeleteMissing(i)
    \/ DeleteCreatedThrows
    \/ ReloadEnds

Spec == Init /\ [][Next]_vars

-----------------------------------------------------------------------------
(***************************************************************************)
(* Properties.                                                             *)
(***************************************************************************)
\* The handle passes Require().
Matches(h) == mode = "live" /\ Valid(h)

\* Since the handle was made its slot has been adopted 2^32 times or more.
Wrapped(h) == adoptions[h.id] >= h.adoption + Modulus

\* Ids of which this plugin has heard in order.
HeardInOrder == IF mode = "live" THEN Ids \ disorder ELSE {}

\* "a handle to a dead entity never matches a newer one that reuses its id"
\* (entity_pool.hpp): a handle that matches while the server has an entity
\* under its id was given out for that very entity, unless the generation has
\* wrapped or the plugin was told of the entities of that id out of order.
HandleMatchesEntity ==
    \A h \in issued : Matches(h) /\ exists[h.id] /\ h.id \in HeardInOrder =>
        h.life = life[h.id] \/ Wrapped(h)

\* The same as entity_pool.hpp has it, without the exceptions, at least once
\* every call has returned.
NeverMatchesNewer ==
    stack = << >> =>
        \A h \in issued : Matches(h) /\ exists[h.id] => h.life = life[h.id]

\* The generation alone, whatever the server and the other plugins do: a handle
\* that matches was made in the slot's current adoption, or at least 2^32
\* adoptions ago; until then one that went stale stays stale.
StaleHandleNeverMatches ==
    \A h \in issued : Valid(h) => h.adoption = adoptions[h.id] \/ Wrapped(h)

\* "the same entity is always the same Lua value" (entity_pool.hpp): Push makes
\* one userdata per adoption, so == and table keys work.
OneHandlePerLifetime ==
    \A g, h \in issued : g.id = h.id /\ g.adoption = h.adoption => g = h

\* "dropped with the entity" (entities.cpp): the data table that a handle
\* reaches was never stored for an earlier entity with the same id, unless the
\* plugin was told of them out of order.
DataOfThisEntity ==
    \A i \in HeardInOrder : alive[i] /\ exists[i] /\ data[i] # 0 => data[i] = life[i]

\* "the pool feed is complete" (docs/internals.md): an entity that the server
\* has is alive in the pool, from the plugin's "created" event until it has
\* handled the "deleted" one, if it is told of them in order.
EveryEntityKnown ==
    \A i \in HeardInOrder : exists[i] /\ ~alive[i] =>
        \E c \in InProgress :
            /\ c.id = i /\ c.life = life[i]
            /\ \/ c.op = "create" /\ c.phase = "before"
               \/ c.op = "delete" /\ c.phase = "after"

\* "released when it goes" (entity_pool.hpp): once every call has returned, no
\* slot is alive without an entity, but for late and lost reports.
NoGhosts ==
    stack = << >> => \A i \in HeardInOrder : alive[i] => exists[i]

\* "A reload removes what this runtime created" (runtime.cpp), and nothing else.
\* What DeleteCreated is about to delete was created by this runtime, unless the
\* id passed to another plugin and this one was not told in order, as happens
\* while the reload itself runs; and when no call is in progress, every entity
\* that this runtime created carries the mark that makes the reload delete it.
ReloadTakesOurs ==
    /\ \A i \in doomed \ disorder : exists[i] => owner[i] = "us"
    /\ stack = << >> =>
           \A i \in HeardInOrder : exists[i] /\ owner[i] = "us" => alive[i] /\ created_by_us[i]

=============================================================================
