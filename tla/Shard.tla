------------------------------- MODULE Shard -------------------------------
(***************************************************************************)
(* One shard of the map: the Swiss table of rugo-map/src/table.rs and the  *)
(* three things the map does to it under the shard's lock, eviction after  *)
(* a write, shrinking after a sweep and shrinking after a clear            *)
(* (rugo-map/src/lib.rs).                                                  *)
(*                                                                         *)
(* The table is two parallel arrays.  A control array holds, for each      *)
(* slot, EMPTY, DELETED (a tombstone) or the tag of the key stored there;  *)
(* the slot array holds the entry.  Slots come in aligned groups of WIDTH, *)
(* and a key is looked for in the groups of its triangular probe sequence  *)
(* until one of them has an EMPTY lane.                                    *)
(*                                                                         *)
(* Calls that end in one step are one action.  The loops of the code are   *)
(* loops here too, one iteration a step, with pc naming the loop: nobody   *)
(* else runs in between, because the caller holds the lock, but what holds *)
(* in the middle of a rebuild is exactly what makes its end correct.       *)
(***************************************************************************)
EXTENDS Integers, FiniteSets, FiniteSetsExt

CONSTANTS
  Keys,          \* the keys this shard may be given
  Values,        \* what a key may hold
  Times,         \* readings of the clock
  Deadlines,     \* deadlines clients ask for
  None,          \* Ref::NONE, Option::None
  EMPTY,         \* control byte of a slot never used since the last rebuild
  DELETED,       \* control byte of a tombstone
  GroupHash,     \* the low bits of each key's hash, that pick its first group
  Tag,           \* the seven high bits of each key's hash
  WIDTH,         \* lanes in a group
  Capacities,    \* the sizes a table may have: MIN_CAPACITY doubled, bounded
  MIN_CAPACITY,
  LOAD_NUM, LOAD_DEN,  \* the share of the slots that may be used
  SizeOf,        \* bytes of an entry holding each value, without a deadline
  EXPIRY_BYTES,  \* bytes a deadline adds
  SLOT_BYTES,    \* bytes of index a slot costs
  U32_MAX,       \* how eviction reads "no deadline"
  BUDGET,        \* this shard's share of maxmemory, 0 for no ceiling
  EVICT_MAX,     \* most evictions one write pays for
  SWEEP_BUDGET   \* most slots one sweep visits

VARIABLES
  capacity,      \* slots.len()
  ctrl, slots,   \* the control bytes and the entries
  len,           \* full slots
  tombstones,    \* DELETED slots
  timed,         \* entries that carry a deadline
  growth_left,   \* EMPTY slots that may still be filled before a rebuild
  pc,            \* which loop of the code the lock holder is in
  pending,       \* the entry a set is about to write, or has written
  spare,         \* the slot eviction may not take
  went,          \* evictions (or sweep removals) of this call so far
  walk,          \* the sweep's position, slots left, and the time it was given
  new_capacity, new_ctrl, new_slots,  \* the arrays a rehash is filling
  reading,       \* the old slot it reads next
  reply          \* the last call to return and what it was told, or None during one

table == <<capacity, ctrl, slots, len, tombstones, timed, growth_left>>
build == <<new_capacity, new_ctrl, new_slots, reading>>
locals == <<pc, pending, spare, went, walk, build>>
vars == <<table, locals, reply>>

Deadline == Deadlines \cup {None}
Entry == [key : Keys, value : Values, expiry : Deadline]
Tags == {Tag[k] : k \in Keys}
Marks == {EMPTY, DELETED} \cup Tags

ASSUME MarkersAssumption ==
  /\ EMPTY # DELETED
  /\ EMPTY \notin Tags /\ DELETED \notin Tags
  /\ None \notin Entry /\ None \notin Times \cup Deadlines /\ None \notin Keys

ASSUME TimesAssumption ==
  /\ U32_MAX \in Nat
  /\ Times \subseteq 0..U32_MAX /\ Deadlines \subseteq 0..U32_MAX

ASSUME SizesAssumption ==
  /\ WIDTH \in Nat \ {0}
  /\ GroupHash \in [Keys -> Nat]
  /\ Capacities \subseteq Nat /\ MIN_CAPACITY \in Capacities
  /\ \A c \in Capacities : c >= MIN_CAPACITY /\ c > 0 /\ c % WIDTH = 0
  /\ LOAD_NUM \in Nat /\ LOAD_DEN \in Nat
  /\ LOAD_NUM < LOAD_DEN /\ LOAD_DEN <= 2 * LOAD_NUM
  /\ MIN_CAPACITY * LOAD_NUM >= LOAD_DEN
  /\ EVICT_MAX \in Nat /\ SWEEP_BUDGET \in Nat

\* (mutant) no slack kept
Load_all(c) == c

\* The slots a table of c slots may fill before it is rebuilt.
Load(c) == (c * LOAD_NUM) \div LOAD_DEN

-----------------------------------------------------------------------------
(* Groups and probe sequences. *)

Slots(c) == 0..(c - 1)
Groups(c) == c \div WIDTH
GroupOf(at) == at \div WIDTH
Lanes == [c \in Capacities |-> [g \in 0..(Groups(c) - 1) |->
           {at \in Slots(c) : GroupOf(at) = g}]]

\* Probe[c][k][i] is the i-th group looked at for k in a table of c slots.
Probe == [c \in Capacities |-> [k \in Keys |-> [i \in 0..(Groups(c) - 1) |->
           (GroupHash[k] + (i * (i + 1)) \div 2) % Groups(c)]]]

\* A power of two, whose one odd divisor is 1.
PowerOfTwo(n) == \A d \in 1..n : n % d = 0 => d = 1 \/ d % 2 = 0

\* What rehash asserts of a capacity: the triangular walk needs it.
ASSUME GroupsAssumption == \A c \in Capacities : PowerOfTwo(Groups(c))

HasMark(c, ct, g, marks) == \E at \in Lanes[c][g] : ct[at] \in marks

\* k's probe gets to the group of slot at, past groups with none of marks.
Reaches(c, ct, k, marks, at) ==
  \E i \in 0..(Groups(c) - 1) :
    /\ Probe[c][k][i] = GroupOf(at)
    /\ \A j \in 0..(i - 1) : ~HasMark(c, ct, Probe[c][k][j], marks)

\* The slots at which find would answer for k: it goes on past groups with no
\* EMPTY lane and returns the first match; that there is never a second is
\* EveryEntryFound.
Matches(c, ct, sl, k) ==
  {at \in Slots(c) : /\ ct[at] = Tag[k] /\ sl[at].key = k
                     /\ Reaches(c, ct, k, {EMPTY}, at)}

find(k) == Matches(capacity, ctrl, slots, k)
Present(k) == find(k) # {}
SlotOf(k) == CHOOSE at \in find(k) : TRUE
Lookup(k) == LET at == find(k) IN IF at = {} THEN None ELSE slots[CHOOSE a \in at : TRUE]

\* at is the first slot in k's probe sequence whose control byte is in marks.
FirstIn(c, ct, k, marks, at) ==
  /\ ct[at] \in marks
  /\ \A b \in Lanes[c][GroupOf(at)] : ct[b] \in marks => at <= b
  /\ Reaches(c, ct, k, marks, at)

free_slot(k, at) == FirstIn(capacity, ctrl, k, {EMPTY, DELETED}, at)

Full(c, ct) == {at \in Slots(c) : ct[at] \notin {EMPTY, DELETED}}
FullSlots == Full(capacity, ctrl)
TimedSlots == {at \in FullSlots : slots[at].expiry # None}

-----------------------------------------------------------------------------
(* Entries. *)

\* (mutant) retime forgotten
IsTimed_never(e) == 0

IsTimed(e) == IF e.expiry # None THEN 1 ELSE 0

\* (mutant) off by one: still alive at its deadline
Expired_after(e, now) == e.expiry # None /\ e.expiry < now

Expired(e, now) == e.expiry # None /\ e.expiry <= now
size_of_entry(e) == SizeOf[e.value] + EXPIRY_BYTES * IsTimed(e)
deadline(at) == IF slots[at].expiry = None THEN U32_MAX ELSE slots[at].expiry

live_bytes == MapThenSumSet(LAMBDA at : size_of_entry(slots[at]), FullSlots)
charged_bytes == SLOT_BYTES * capacity + live_bytes

-----------------------------------------------------------------------------
(* The pieces calls are made of. *)

Idle == pc = "idle"
Told(call, said) == reply' = [call |-> call, said |-> said]
NoWalk == [at |-> 0, left |-> 0, now |-> None]

\* (mutant) never leave a tombstone
StopsProbes_always(at) == TRUE

\* The group of slot at has an EMPTY lane, so no probe ever ran past it.
StopsProbes(at) == HasMark(capacity, ctrl, GroupOf(at), {EMPTY})

\* Drop the entry in slot at.  Only where no probe ran past the slot may it be
\* EMPTY again; elsewhere it becomes a tombstone.
erase(at) ==
  /\ ctrl' = [ctrl EXCEPT ![at] = IF StopsProbes(at) THEN EMPTY ELSE DELETED]
  /\ growth_left' = IF StopsProbes(at) THEN growth_left + 1 ELSE growth_left
  /\ tombstones' = IF StopsProbes(at) THEN tombstones ELSE tombstones + 1
  /\ slots' = [slots EXCEPT ![at] = None]
  /\ len' = len - 1
  /\ timed' = timed - IsTimed(slots[at])
  /\ UNCHANGED capacity

\* Begin a rebuild at c slots; the installed arrays stay until it is done.
rehash(c) ==
  /\ new_capacity' = c
  /\ new_ctrl' = [at \in Slots(c) |-> EMPTY]
  /\ new_slots' = [at \in Slots(c) |-> None]
  /\ reading' = 0

\* (mutant) never double
ReserveCapacity_same == IF capacity = 0 THEN MIN_CAPACITY ELSE capacity

\* What reserve rebuilds at: the same size when tombstones are the reason.
ReserveCapacity ==
  IF capacity = 0 THEN MIN_CAPACITY
  ELSE IF tombstones >= len THEN capacity ELSE 2 * capacity

\* The trailing shrink of a call that leaves n entries: to the smallest size,
\* of at least MIN_CAPACITY, that n entries leave half empty, if that is smaller.
shrink(n) ==
  LET smaller == {c \in Capacities : 2 * n <= c /\ c < capacity}
  IN  IF smaller # {}
      THEN /\ pc' = "rehash"
           /\ \E c \in smaller : (\A d \in smaller : c <= d) /\ rehash(c)
      ELSE pc' = "idle" /\ UNCHANGED build

-----------------------------------------------------------------------------
Init ==
  /\ capacity = 0 /\ ctrl = <<>> /\ slots = <<>>
  /\ len = 0 /\ tombstones = 0 /\ timed = 0 /\ growth_left = 0
  /\ pc = "idle" /\ pending = None /\ spare = None /\ went = 0
  /\ walk = NoWalk
  /\ new_capacity = 0 /\ new_ctrl = <<>> /\ new_slots = <<>> /\ reading = 0
  /\ reply = [call |-> <<"new">>, said |-> "ok"]

\* get, view and contains: an expired entry is erased and reported absent.
Get(k, now) ==
  /\ Idle
  /\ LET lapsed == Present(k) /\ Expired(slots[SlotOf(k)], now)
     IN  /\ IF lapsed THEN erase(SlotOf(k)) ELSE UNCHANGED table
         /\ Told(<<"get", k, now>>, IF Present(k) /\ ~lapsed THEN "yes" ELSE "no")
  /\ UNCHANGED locals

\* remove does not look at the deadline.
Remove(k) ==
  /\ Idle
  /\ IF Present(k) THEN erase(SlotOf(k)) ELSE UNCHANGED table
  /\ Told(<<"remove", k>>, IF Present(k) THEN "yes" ELSE "no")
  /\ UNCHANGED locals

\* expire rewrites the entry's deadline, unless the deadline changes the
\* entry's width and the arena refuses the new block.
Expire(k, x, now) ==
  /\ Idle
  /\ \/ /\ ~Present(k)
        /\ Told(<<"expire", k, now>>, "no")
        /\ UNCHANGED table
     \/ /\ Present(k) /\ Expired(slots[SlotOf(k)], now)
        /\ erase(SlotOf(k))
        /\ Told(<<"expire", k, now>>, "no")
     \/ /\ Present(k) /\ ~Expired(slots[SlotOf(k)], now)
        /\ slots' = [slots EXCEPT ![SlotOf(k)].expiry = x]
        /\ timed' = timed - IsTimed(slots[SlotOf(k)])
                          + IsTimed([expiry |-> x])
        /\ Told(<<"expire", k, now>>, "yes")
        /\ UNCHANGED <<capacity, ctrl, len, tombstones, growth_left>>
     \/ /\ Present(k) /\ ~Expired(slots[SlotOf(k)], now)
        /\ IsTimed(slots[SlotOf(k)]) # IsTimed([expiry |-> x])
        /\ Told(<<"expire", k, now>>, "full")
        /\ UNCHANGED table
  /\ UNCHANGED locals

\* Map::set up to the arena: a new key in a table with no growth left makes
\* the table rebuild first.
Set(k, v, x) ==
  /\ Idle
  /\ pending' = [key |-> k, value |-> v, expiry |-> x]
  /\ IF ~Present(k) /\ growth_left = 0
     THEN ReserveCapacity \in Capacities /\ pc' = "rehash" /\ rehash(ReserveCapacity)
     ELSE pc' = "write" /\ UNCHANGED build
  /\ UNCHANGED <<table, spare, went, walk, reply>>

\* The arena refuses: nothing is written.  Overwriting an entry of the same
\* size asks it for nothing.
Refuse ==
  /\ pc = "write"
  /\ ~ /\ Present(pending.key)
       /\ size_of_entry(slots[SlotOf(pending.key)]) = size_of_entry(pending)
  /\ pc' = "idle" /\ pending' = None
  /\ Told(<<"set", pending.key>>, "full")
  /\ UNCHANGED <<table, spare, went, walk, build>>

Replace ==
  /\ pc = "write" /\ Present(pending.key)
  /\ slots' = [slots EXCEPT ![SlotOf(pending.key)] = pending]
  /\ timed' = timed - IsTimed(slots[SlotOf(pending.key)]) + IsTimed(pending)
  /\ pc' = "fit" /\ reply' = None
  /\ UNCHANGED <<capacity, ctrl, len, tombstones, growth_left,
                 pending, spare, went, walk, build>>

Insert ==
  /\ pc = "write" /\ ~Present(pending.key)
  /\ \E at \in Slots(capacity) :
       /\ free_slot(pending.key, at)
       /\ tombstones' = IF ctrl[at] = DELETED THEN tombstones - 1 ELSE tombstones
       /\ growth_left' = IF ctrl[at] = DELETED THEN growth_left ELSE growth_left - 1
       /\ ctrl' = [ctrl EXCEPT ![at] = Tag[pending.key]]
       /\ slots' = [slots EXCEPT ![at] = pending]
  /\ len' = len + 1
  /\ timed' = timed + IsTimed(pending)
  /\ pc' = "fit" /\ reply' = None
  /\ UNCHANGED <<capacity, pending, spare, went, walk, build>>

Fits == BUDGET = 0 \/ charged_bytes <= BUDGET

\* evict_to_fit, before its loop.
Fit ==
  /\ pc = "fit"
  /\ IF Fits
     THEN pc' = "idle" /\ pending' = None /\ Told(<<"set", pending.key>>, "ok") /\ UNCHANGED spare
     ELSE /\ pc' = "evict" /\ spare' = SlotOf(pending.key)
          /\ UNCHANGED <<pending, reply>>
  /\ UNCHANGED <<table, went, walk, build>>

\* (mutant) the entry just written is drawn too
Evictable_all == FullSlots

\* What nearest_full may come to from a slot drawn at random.
Evictable == FullSlots \ {spare}

\* evict_one: two entries drawn at random, the sooner to expire goes.
Evict ==
  /\ pc = "evict" /\ ~Fits /\ went < EVICT_MAX
  /\ \E first, second \in Evictable :
       erase(IF deadline(first) <= deadline(second) THEN first ELSE second)
  /\ went' = went + 1
  /\ UNCHANGED <<pc, pending, spare, walk, build, reply>>

\* (mutant) go on until the shard fits, whatever is left to evict
EvictionDone_fits == Fits

EvictionDone == Fits \/ went = EVICT_MAX \/ Evictable = {}

EvictEnds ==
  /\ pc = "evict" /\ EvictionDone
  /\ IF went > 0 THEN shrink(len) ELSE pc' = "idle" /\ UNCHANGED build
  /\ pending' = None /\ spare' = None /\ went' = 0
  /\ Told(<<"set", pending.key>>, "ok")
  /\ UNCHANGED <<table, walk>>

\* The cursors a sweep may have saved, in a table of whatever size it then was.
Saved == UNION {Slots(c) : c \in Capacities}

\* (mutant) the cursor is used as it was saved
Start_as_saved(from) == from

Start(from) == from % capacity

\* Map::sweep: nothing to do in a shard with no deadlines.  The cursor it
\* resumes at was saved by an earlier sweep and read before the lock, and since
\* then the table may have been rebuilt at another size.
Sweep(from, now) ==
  /\ Idle /\ timed > 0
  /\ pc' = "sweep" /\ reply' = None
  /\ walk' = [at |-> Start(from), now |-> now,
              left |-> IF SWEEP_BUDGET < capacity THEN SWEEP_BUDGET ELSE capacity]
  /\ UNCHANGED <<table, pending, spare, went, build>>

SweepSlot ==
  /\ pc = "sweep" /\ walk.left > 0
  /\ IF walk.at \in FullSlots /\ Expired(slots[walk.at], walk.now)
     THEN erase(walk.at) /\ went' = went + 1
     ELSE UNCHANGED <<table, went>>
  /\ walk' = [walk EXCEPT !.at = (@ + 1) % capacity, !.left = @ - 1]
  /\ UNCHANGED <<pc, pending, spare, build, reply>>

SweepEnds ==
  /\ pc = "sweep" /\ walk.left = 0
  /\ IF went > 0 THEN shrink(len) ELSE pc' = "idle" /\ UNCHANGED build
  /\ walk' = NoWalk /\ went' = 0
  /\ Told(<<"sweep", walk.now>>, "ok")
  /\ UNCHANGED <<table, pending, spare>>

Clear ==
  /\ Idle
  /\ ctrl' = [at \in Slots(capacity) |-> EMPTY]
  /\ slots' = [at \in Slots(capacity) |-> None]
  /\ len' = 0 /\ tombstones' = 0 /\ timed' = 0
  /\ growth_left' = Load(capacity)
  /\ shrink(0)
  /\ Told(<<"clear">>, "ok")
  /\ UNCHANGED <<capacity, pending, spare, went, walk>>

\* One old slot of a rebuild: a full one is placed in the first EMPTY slot of
\* its probe sequence in the new arrays.
RehashSlot ==
  /\ pc = "rehash" /\ reading < capacity
  /\ IF reading \in FullSlots
     THEN \E put \in Slots(new_capacity) :
            /\ FirstIn(new_capacity, new_ctrl, slots[reading].key, {EMPTY}, put)
            /\ new_ctrl' = [new_ctrl EXCEPT ![put] = Tag[slots[reading].key]]
            /\ new_slots' = [new_slots EXCEPT ![put] = slots[reading]]
     ELSE UNCHANGED <<new_ctrl, new_slots>>
  /\ reading' = reading + 1
  /\ UNCHANGED <<table, pc, pending, spare, went, walk, new_capacity, reply>>

\* The new arrays are installed; a set goes on to write, the rest return.
RehashEnds ==
  /\ pc = "rehash" /\ reading = capacity
  /\ capacity' = new_capacity /\ ctrl' = new_ctrl /\ slots' = new_slots
  /\ tombstones' = 0
  /\ growth_left' = Load(new_capacity) - len
  /\ pc' = IF pending # None THEN "write" ELSE "idle"
  /\ new_capacity' = 0 /\ new_ctrl' = <<>> /\ new_slots' = <<>> /\ reading' = 0
  /\ UNCHANGED <<len, timed, pending, spare, went, walk, reply>>

Calls ==
  \/ \E k \in Keys, now \in Times : Get(k, now)
  \/ \E k \in Keys : Remove(k)
  \/ \E k \in Keys, x \in Deadline, now \in Times : Expire(k, x, now)
  \/ \E k \in Keys, v \in Values, x \in Deadline : Set(k, v, x)
  \/ \E from \in Saved, now \in Times : Sweep(from, now)
  \/ Clear

Steps ==
  \/ Refuse \/ Replace \/ Insert
  \/ Fit \/ Evict \/ EvictEnds
  \/ SweepSlot \/ SweepEnds
  \/ RehashSlot \/ RehashEnds

Next == Calls \/ Steps

Spec == Init /\ [][Next]_vars

\* Whoever holds the lock runs on: its loops are plain code.
FairSpec == Spec /\ WF_vars(Steps)

-----------------------------------------------------------------------------
(* Properties. *)

\* Every field of the table and every local of a loop has its type, and a slot
\* holds an entry exactly when its control byte is that entry's tag.
TypeOK ==
  /\ capacity \in Capacities \cup {0}
  /\ ctrl \in [Slots(capacity) -> Marks]
  /\ slots \in [Slots(capacity) -> Entry \cup {None}]
  /\ \A at \in Slots(capacity) :
       IF at \in FullSlots THEN slots[at] \in Entry /\ ctrl[at] = Tag[slots[at].key]
                          ELSE slots[at] = None
  /\ len \in Nat /\ tombstones \in Nat /\ timed \in Nat /\ growth_left \in Nat
  /\ pc \in {"idle", "rehash", "write", "fit", "evict", "sweep"}
  /\ pending \in Entry \cup {None}
  /\ spare \in Slots(capacity) \cup {None}
  /\ went \in Nat
  /\ walk \in [at : Nat, left : Nat, now : Times \cup {None}]
  /\ walk.left > 0 => walk.at \in Slots(capacity)
  /\ new_capacity \in Capacities \cup {0}
  /\ new_ctrl \in [Slots(new_capacity) -> {EMPTY} \cup Tags]
  /\ new_slots \in [Slots(new_capacity) -> Entry \cup {None}]
  /\ reading \in 0..capacity

\* The counters count what they say, and len + tombstones + growth_left is the
\* load limit, through every erase, insert, rebuild and clear.  timed is what
\* lets a sweep skip the shard: one too few and expired entries stay for ever.
Accounted ==
  /\ len = Cardinality(FullSlots)
  /\ tombstones = Cardinality({at \in Slots(capacity) : ctrl[at] = DELETED})
  /\ timed = Cardinality(TimedSlots)
  /\ len + tombstones + growth_left = Load(capacity)

\* Every probe loop of the code ends: whatever the key, its sequence meets a
\* group with an EMPTY lane, in the installed arrays and in the ones a rebuild
\* is filling.
ProbeEnds ==
  \A k \in Keys :
    /\ capacity > 0 =>
         \E i \in 0..(Groups(capacity) - 1) :
           HasMark(capacity, ctrl, Probe[capacity][k][i], {EMPTY})
    /\ pc = "rehash" =>
         \E i \in 0..(Groups(new_capacity) - 1) :
           HasMark(new_capacity, new_ctrl, Probe[new_capacity][k][i], {EMPTY})

\* find answers for every entry stored, at its slot and nowhere else: no erase
\* or rebuild puts an EMPTY lane in front of a key, and no key is stored twice.
EveryEntryFound ==
  \A at \in FullSlots : find(slots[at].key) = {at}

\* After reserve there is room for the insert that asked (its debug_assert).
ReserveMakesRoom ==
  pc = "write" /\ ~Present(pending.key) => growth_left > 0

\* Eviction's spare slot still holds the entry the write put there: nothing
\* the loop does moves or drops it.
SpareHeld ==
  pc = "evict" => spare \in FullSlots /\ slots[spare] = pending

\* A call that starts a rebuild, an eviction loop or a sweep returns, and the
\* lock with it.
Returns == pc # "idle" ~> pc = "idle"

\* The shard implements the cache it promises: what find answers is the store.
Abstract == INSTANCE Cache WITH
  store    <- [k \in Keys |-> Lookup(k)],
  writing  <- IF pc \in {"fit", "evict"} THEN pending.key ELSE None,
  evicted  <- IF pc = "evict" THEN went ELSE 0,
  sweeping <- walk.now

\* Every step of the table is a step the cache's specification allows, or
\* changes nothing a caller can see; a rebuild or a shrink is never visible.
ImplementsCache == Abstract!Spec
=============================================================================
