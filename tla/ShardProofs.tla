---------------------------- MODULE ShardProofs ----------------------------
(***************************************************************************)
(* Proofs about Shard, for every set of keys, every hash, every group      *)
(* width and every load factor the assumptions of Shard allow: the         *)
(* inductive invariant and what follows from it, and then that the table   *)
(* implements the cache its callers are promised, with the store read off  *)
(* the table by find.  Each call, and each turn of a loop that a caller    *)
(* could notice, is one step of Cache; reserving, rebuilding and shrinking *)
(* are none.  Without the invariant a lookup could miss an entry the       *)
(* arrays hold, or find another key's.                                     *)
(***************************************************************************)
EXTENDS Shard, FiniteSetTheorems, WellFoundedInduction, TLAPS

-----------------------------------------------------------------------------
(* The inductive invariant. *)

\* A slot holds an entry exactly when its control byte is that entry's tag.
Held(c, ct, sl) ==
  /\ ct \in [Slots(c) -> Marks]
  /\ sl \in [Slots(c) -> Entry \cup {None}]
  /\ \A at \in Slots(c) :
       IF at \in Full(c, ct) THEN sl[at] \in Entry /\ ct[at] = Tag[sl[at].key]
                             ELSE sl[at] = None

\* No probe for a stored key stops before the key's slot.
Reachable(c, ct, sl) ==
  \A at \in Full(c, ct) : Reaches(c, ct, sl[at].key, {EMPTY}, at)

\* No key is stored twice.
Distinct(c, ct, sl) ==
  \A a, b \in Full(c, ct) : sl[a].key = sl[b].key => a = b

Arrays(c, ct, sl) == Held(c, ct, sl) /\ Reachable(c, ct, sl) /\ Distinct(c, ct, sl)

Dead(c, ct) == {at \in Slots(c) : ct[at] = DELETED}
Timed(c, ct, sl) == {at \in Full(c, ct) : sl[at].expiry # None}

TableInv ==
  /\ capacity \in Capacities \cup {0}
  /\ Arrays(capacity, ctrl, slots)
  /\ len = Cardinality(FullSlots)
  /\ tombstones = Cardinality(Dead(capacity, ctrl))
  /\ timed = Cardinality(Timed(capacity, ctrl, slots))
  /\ growth_left \in Nat
  /\ len + tombstones + growth_left = Load(capacity)

Lacks(c, ct, sl, k) == \A at \in Full(c, ct) : sl[at].key # k
Absent(k) == Lacks(capacity, ctrl, slots, k)

\* What each loop may rely on.
ControlInv ==
  /\ pc \in {"idle", "rehash", "write", "fit", "evict", "sweep"}
  /\ pending \in Entry \cup {None}
  /\ pc \in {"idle", "sweep"} => pending = None
  /\ pc \in {"write", "fit", "evict"} => pending # None /\ capacity \in Capacities
  /\ pc = "write" /\ Absent(pending.key) => growth_left > 0
  /\ pc \in {"fit", "evict"} => \E at \in FullSlots : slots[at] = pending
  /\ pc = "evict" => spare \in FullSlots /\ slots[spare] = pending
  /\ pc # "evict" => spare = None
  /\ went \in Nat
  /\ pc \notin {"evict", "sweep"} => went = 0
  /\ pc = "evict" => went <= EVICT_MAX
  /\ walk \in [at : Nat, left : Nat, now : Times \cup {None}]
  /\ pc # "sweep" => walk = NoWalk
  /\ pc = "sweep" => capacity \in Capacities /\ walk.at \in Slots(capacity) /\ walk.now # None

\* The full slots the rebuild has read.
Read == {at \in FullSlots : at < reading}

\* The arrays a rebuild is filling hold what it has read, no more and no less.
RebuildInv ==
  IF pc = "rehash"
  THEN /\ new_capacity \in Capacities
       /\ Arrays(new_capacity, new_ctrl, new_slots)
       /\ Dead(new_capacity, new_ctrl) = {}
       /\ reading \in 0..capacity
       /\ \A s \in Read : \E t \in Full(new_capacity, new_ctrl) : new_slots[t] = slots[s]
       /\ \A t \in Full(new_capacity, new_ctrl) : \E s \in Read : slots[s] = new_slots[t]
       /\ Cardinality(Full(new_capacity, new_ctrl)) = Cardinality(Read)
       /\ Cardinality(Timed(new_capacity, new_ctrl, new_slots))
            = Cardinality({s \in Read : slots[s].expiry # None})
       /\ len <= Load(new_capacity)
       /\ pending # None => len < Load(new_capacity) /\ Absent(pending.key)
  ELSE new_capacity = 0 /\ new_ctrl = <<>> /\ new_slots = <<>> /\ reading = 0

IInv == TableInv /\ ControlInv /\ RebuildInv

-----------------------------------------------------------------------------
(* Load factors, groups and finite sets of slots. *)

\* What the load factor guarantees: room in the smallest table, always an EMPTY
\* slot, room after doubling, and room in a table shrunk to half full.
LEMMA LoadFacts ==
  /\ Load(0) = 0
  /\ \A c \in Capacities : Load(c) \in Nat /\ 1 <= Load(c) /\ Load(c) < c
  /\ \A c \in Capacities : 2 * c \in Capacities => Load(c) < Load(2 * c)
  /\ \A c \in Capacities, n \in Nat : 2 * n <= c => n <= Load(c)
<1>1. Load(0) = 0
  BY SizesAssumption DEF Load
<1>2. ASSUME NEW c \in Capacities
      PROVE  Load(c) \in Nat /\ 1 <= Load(c) /\ Load(c) < c
  BY SizesAssumption DEF Load
<1>3. ASSUME NEW c \in Capacities PROVE Load(c) < Load(2 * c)
  BY SizesAssumption DEF Load
<1>4. ASSUME NEW c \in Capacities, NEW n \in Nat, 2 * n <= c PROVE n <= Load(c)
  <2>1. n * LOAD_DEN <= n * (2 * LOAD_NUM)
    BY SizesAssumption
  <2>2. n * (2 * LOAD_NUM) <= c * LOAD_NUM
    BY <1>4, SizesAssumption
  <2>3. n * LOAD_DEN <= c * LOAD_NUM
    BY <2>1, <2>2, SizesAssumption
  <2>4. c * LOAD_NUM \in Nat /\ LOAD_DEN \in Nat /\ LOAD_DEN > 0
    BY SizesAssumption
  <2> QED BY <2>3, <2>4 DEF Load
<1> QED BY <1>1, <1>2, <1>3, <1>4

\* Probe sequences stay inside the table, and every slot is a lane of its group.
LEMMA GroupFacts ==
  ASSUME NEW c \in Capacities
  PROVE  /\ \A k \in Keys : \A i \in 0..(Groups(c) - 1) : Probe[c][k][i] \in 0..(Groups(c) - 1)
         /\ \A at \in Slots(c) : GroupOf(at) \in 0..(Groups(c) - 1) /\ at \in Lanes[c][GroupOf(at)]
         /\ \A g \in 0..(Groups(c) - 1) : Lanes[c][g] = {at \in Slots(c) : GroupOf(at) = g}
<1>1. ASSUME NEW k \in Keys, NEW i \in 0..(Groups(c) - 1)
      PROVE  Probe[c][k][i] \in 0..(Groups(c) - 1)
  <2>1. Groups(c) \in Nat /\ Groups(c) > 0
    BY SizesAssumption DEF Groups
  <2>2. GroupHash[k] + (i * (i + 1)) \div 2 \in Nat
    BY <2>1, SizesAssumption
  <2>3. Probe[c][k][i] = (GroupHash[k] + (i * (i + 1)) \div 2) % Groups(c)
    BY DEF Probe
  <2> QED BY <2>1, <2>2, <2>3
<1>2. ASSUME NEW g \in 0..(Groups(c) - 1)
      PROVE  Lanes[c][g] = {at \in Slots(c) : GroupOf(at) = g}
  BY DEF Lanes
<1>3. ASSUME NEW at \in Slots(c)
      PROVE  GroupOf(at) \in 0..(Groups(c) - 1)
  BY SizesAssumption DEF GroupOf, Groups, Slots
<1> QED BY <1>1, <1>2, <1>3

\* The sets of slots the counters count are finite.
LEMMA FiniteSlots ==
  ASSUME NEW c \in Nat, NEW S \in SUBSET Slots(c)
  PROVE  IsFiniteSet(S) /\ Cardinality(S) \in Nat /\ Cardinality(S) <= c
<1>1. IsFiniteSet(Slots(c)) /\ Cardinality(Slots(c)) = c
  BY FS_Interval DEF Slots
<1> QED BY <1>1, FS_Subset, FS_CardinalityType

\* Control bytes that are neither EMPTY nor DELETED are tags.
LEMMA FullIsTagged ==
  ASSUME NEW c, NEW ct, NEW at \in Slots(c), ct \in [Slots(c) -> Marks]
  PROVE  /\ at \in Full(c, ct) <=> ct[at] \in Tags
         /\ at \in Full(c, ct) <=> ct[at] \notin {EMPTY, DELETED}
BY MarkersAssumption DEF Full, Marks

-----------------------------------------------------------------------------
(* What find returns. *)

\* A change that gives no group its first EMPTY lane keeps every slot in reach.
LEMMA ReachKept ==
  ASSUME NEW c \in Capacities, NEW ct, NEW ct2, NEW k \in Keys, NEW at \in Slots(c),
         NEW marks, {EMPTY} \subseteq marks,
         \A g \in 0..(Groups(c) - 1) : HasMark(c, ct2, g, {EMPTY}) => HasMark(c, ct, g, {EMPTY}),
         Reaches(c, ct, k, marks, at)
  PROVE  Reaches(c, ct2, k, {EMPTY}, at)
<1>1. PICK i \in 0..(Groups(c) - 1) :
        /\ Probe[c][k][i] = GroupOf(at)
        /\ \A j \in 0..(i - 1) : ~HasMark(c, ct, Probe[c][k][j], marks)
  BY DEF Reaches
<1>2. ASSUME NEW j \in 0..(i - 1) PROVE ~HasMark(c, ct2, Probe[c][k][j], {EMPTY})
  <2>1. Groups(c) \in Nat
    BY SizesAssumption DEF Groups
  <2>2. Probe[c][k][j] \in 0..(Groups(c) - 1)
    BY <2>1, GroupFacts
  <2>3. ~HasMark(c, ct, Probe[c][k][j], {EMPTY})
    BY <1>1 DEF HasMark
  <2> QED BY <2>2, <2>3
<1> QED BY <1>1, <1>2 DEF Reaches

\* find answers for exactly the keys stored, each at its one slot.
LEMMA FindFacts ==
  ASSUME Arrays(capacity, ctrl, slots)
  PROVE  /\ \A k \in Keys : Present(k) <=> ~Absent(k)
         /\ \A k \in Keys : Present(k) => SlotOf(k) \in FullSlots /\ slots[SlotOf(k)].key = k
         /\ \A at \in FullSlots : find(slots[at].key) = {at}
<1>1. ASSUME NEW at \in FullSlots PROVE at \in find(slots[at].key) /\ slots[at].key \in Keys
  BY DEF Arrays, Held, Reachable, FullSlots, Full, find, Matches, Entry
<1>2. ASSUME NEW k \in Keys, NEW at \in find(k) PROVE at \in FullSlots /\ slots[at].key = k
  <2>1. at \in Slots(capacity) /\ ctrl[at] = Tag[k] /\ slots[at].key = k
    BY DEF find, Matches
  <2> QED BY <2>1, FullIsTagged DEF Arrays, Held, FullSlots, Tags
<1>3. ASSUME NEW at \in FullSlots PROVE find(slots[at].key) = {at}
  BY <1>1, <1>2 DEF Arrays, Distinct, FullSlots
<1>4. ASSUME NEW k \in Keys, Present(k) PROVE SlotOf(k) \in FullSlots /\ slots[SlotOf(k)].key = k
  BY <1>2, <1>4 DEF Present, SlotOf
<1>5. ASSUME NEW k \in Keys PROVE Present(k) <=> ~Absent(k)
  BY <1>1, <1>2 DEF Present, Absent, Lacks, FullSlots
<1> QED BY <1>3, <1>4, <1>5
-----------------------------------------------------------------------------
(* What erasing, placing and rewriting an entry do to the arrays. *)

\* One control byte, and one slot, overwritten.
Marked(ct, at, mark) == [ct EXCEPT ![at] = mark]
Stored(sl, at, e) == [sl EXCEPT ![at] = e]

\* What erase leaves in the control byte.
Freed(c, ct, at) == IF HasMark(c, ct, GroupOf(at), {EMPTY}) THEN EMPTY ELSE DELETED

\* The control bytes a new entry may take: in a table, and in a rebuild.
Frees(marks) == marks = {EMPTY, DELETED} \/ marks = {EMPTY}

\* erase leaves every other entry where find looks for it.
LEMMA EraseArrays ==
  ASSUME NEW c \in Capacities, NEW ct, NEW sl, Arrays(c, ct, sl), NEW at \in Full(c, ct)
  PROVE  /\ Arrays(c, Marked(ct, at, Freed(c, ct, at)), Stored(sl, at, None))
         /\ Full(c, Marked(ct, at, Freed(c, ct, at))) = Full(c, ct) \ {at}
         /\ Freed(c, ct, at) = EMPTY =>
              Dead(c, Marked(ct, at, Freed(c, ct, at))) = Dead(c, ct)
         /\ Freed(c, ct, at) # EMPTY =>
              Dead(c, Marked(ct, at, Freed(c, ct, at))) = Dead(c, ct) \cup {at}
         /\ Timed(c, Marked(ct, at, Freed(c, ct, at)), Stored(sl, at, None))
              = Timed(c, ct, sl) \ {at}
<1> DEFINE stops == HasMark(c, ct, GroupOf(at), {EMPTY})
           ct2 == Marked(ct, at, Freed(c, ct, at))
           sl2 == Stored(sl, at, None)
<1>0. /\ stops \in BOOLEAN /\ (stops <=> HasMark(c, ct, GroupOf(at), {EMPTY}))
      /\ ct2 = [ct EXCEPT ![at] = IF stops THEN EMPTY ELSE DELETED]
      /\ sl2 = [sl EXCEPT ![at] = None]
      /\ stops <=> Freed(c, ct, at) = EMPTY
  BY MarkersAssumption DEF Marked, Stored, Freed, HasMark
<1> HIDE DEF stops, ct2, sl2
<1> USE <1>0
<1>1. at \in Slots(c) /\ ct[at] \notin {EMPTY, DELETED}
  BY DEF Full
<1>2. Full(c, ct2) = Full(c, ct) \ {at}
  BY <1>1 DEF Full, Arrays, Held
<1>3. Dead(c, ct2) = IF stops THEN Dead(c, ct) ELSE Dead(c, ct) \cup {at}
  BY <1>1, MarkersAssumption DEF Dead, Arrays, Held
<1>4. Timed(c, ct2, sl2) = Timed(c, ct, sl) \ {at}
  BY <1>1, <1>2 DEF Timed, Arrays, Held, Full
<1>5. Held(c, ct2, sl2)
  <2>1. ct2 \in [Slots(c) -> Marks] /\ sl2 \in [Slots(c) -> Entry \cup {None}]
    BY <1>1 DEF Arrays, Held, Marks
  <2>2. ASSUME NEW b \in Slots(c)
        PROVE  IF b \in Full(c, ct2) THEN sl2[b] \in Entry /\ ct2[b] = Tag[sl2[b].key]
                                     ELSE sl2[b] = None
    BY <1>1, <1>2 DEF Arrays, Held
  <2> QED BY <2>1, <2>2 DEF Held
<1>6. ASSUME NEW g \in 0..(Groups(c) - 1), HasMark(c, ct2, g, {EMPTY})
      PROVE  HasMark(c, ct, g, {EMPTY})
  <2>1. PICK b \in Lanes[c][g] : ct2[b] \in {EMPTY}
    BY <1>6 DEF HasMark
  <2>2. b \in Slots(c) /\ GroupOf(b) = g
    BY GroupFacts
  <2>3. CASE b = at
    BY <1>1, <2>1, <2>2, <2>3, MarkersAssumption DEF Arrays, Held
  <2>4. CASE b # at
    BY <1>1, <2>1, <2>2, <2>4 DEF Arrays, Held, HasMark
  <2> QED BY <2>3, <2>4
<1>7. Reachable(c, ct2, sl2)
  <2> SUFFICES ASSUME NEW b \in Full(c, ct2) PROVE Reaches(c, ct2, sl2[b].key, {EMPTY}, b)
    BY DEF Reachable
  <2>1. b \in Full(c, ct) /\ b \in Slots(c) /\ sl2[b] = sl[b] /\ sl[b].key \in Keys
    BY <1>2 DEF Arrays, Held, Full, Entry
  <2>2. Reaches(c, ct, sl[b].key, {EMPTY}, b)
    BY <2>1 DEF Arrays, Reachable
  <2> QED BY <1>6, <2>1, <2>2, ReachKept
<1>8. Distinct(c, ct2, sl2)
  BY <1>1, <1>2 DEF Arrays, Distinct, Held, Full
<1>9. Arrays(c, ct2, sl2)
  BY <1>5, <1>7, <1>8 DEF Arrays
<1> QED BY <1>2, <1>3, <1>4, <1>9 DEF ct2, sl2

\* What the arrays ct2 and sl2 are after e was placed in slot at of ct and sl.
Placed(c, ct, sl, at, e, ct2, sl2) ==
  /\ Arrays(c, ct2, sl2)
  /\ at \notin Full(c, ct)
  /\ Full(c, ct2) = Full(c, ct) \cup {at}
  /\ Dead(c, ct2) = Dead(c, ct) \ {at}
  /\ e.expiry = None => Timed(c, ct2, sl2) = Timed(c, ct, sl)
  /\ e.expiry # None => Timed(c, ct2, sl2) = Timed(c, ct, sl) \cup {at}

\* Placing a new key in the first free slot of its probe sequence, tombstone or
\* not, keeps every entry where find looks for it.
LEMMA PlaceArrays ==
  ASSUME NEW c \in Capacities, NEW ct, NEW sl, Arrays(c, ct, sl), NEW at \in Slots(c),
         NEW e \in Entry, NEW k, k = e.key, Lacks(c, ct, sl, k),
         NEW marks, Frees(marks), FirstIn(c, ct, k, marks, at)
  PROVE  Placed(c, ct, sl, at, e, Marked(ct, at, Tag[k]), Stored(sl, at, e))
<1> DEFINE ct2 == Marked(ct, at, Tag[k])
           sl2 == Stored(sl, at, e)
<1>0. ct2 = [ct EXCEPT ![at] = Tag[k]] /\ sl2 = [sl EXCEPT ![at] = e]
  BY DEF Marked, Stored
<1> HIDE DEF ct2, sl2
<1> USE <1>0
<1>1. ct[at] \in {EMPTY, DELETED} /\ at \notin Full(c, ct)
  BY DEF FirstIn, Full, Frees
<1>2. e.key \in Keys /\ Tag[e.key] \in Tags /\ Tag[e.key] \notin {EMPTY, DELETED}
  BY MarkersAssumption DEF Entry, Tags
<1>3. Full(c, ct2) = Full(c, ct) \cup {at}
  BY <1>1, <1>2 DEF Full, Arrays, Held
<1>4. Dead(c, ct2) = Dead(c, ct) \ {at}
  BY <1>2 DEF Dead, Arrays, Held
<1>5. Timed(c, ct2, sl2) = IF e.expiry = None THEN Timed(c, ct, sl)
                                              ELSE Timed(c, ct, sl) \cup {at}
  BY <1>1, <1>3 DEF Timed, Arrays, Held, Full
<1>6. Held(c, ct2, sl2)
  <2>1. ct2 \in [Slots(c) -> Marks] /\ sl2 \in [Slots(c) -> Entry \cup {None}]
    BY <1>2 DEF Arrays, Held, Marks
  <2>2. ASSUME NEW b \in Slots(c)
        PROVE  IF b \in Full(c, ct2) THEN sl2[b] \in Entry /\ ct2[b] = Tag[sl2[b].key]
                                     ELSE sl2[b] = None
    BY <1>1, <1>3 DEF Arrays, Held
  <2> QED BY <2>1, <2>2 DEF Held
<1>7. ASSUME NEW g \in 0..(Groups(c) - 1), HasMark(c, ct2, g, {EMPTY})
      PROVE  HasMark(c, ct, g, {EMPTY})
  <2>1. PICK b \in Lanes[c][g] : ct2[b] \in {EMPTY}
    BY <1>7 DEF HasMark
  <2>2. b \in Slots(c)
    BY GroupFacts
  <2> QED BY <1>2, <2>1, <2>2 DEF Arrays, Held, HasMark
<1>8. Reachable(c, ct2, sl2)
  <2> SUFFICES ASSUME NEW b \in Full(c, ct2) PROVE Reaches(c, ct2, sl2[b].key, {EMPTY}, b)
    BY DEF Reachable
  <2>1. CASE b = at
    <3>1. sl2[b].key = e.key
      BY <2>1 DEF Arrays, Held
    <3>2. Reaches(c, ct, e.key, marks, b)
      BY <2>1 DEF FirstIn
    <3>3. {EMPTY} \subseteq marks
      BY DEF Frees
    <3>4. b \in Slots(c)
      BY <2>1
    <3>5. Reaches(c, ct2, e.key, {EMPTY}, b)
      BY <1>2, <1>7, <3>2, <3>3, <3>4, ReachKept
    <3> QED BY <3>1, <3>5
  <2>2. CASE b # at
    <3>1. b \in Full(c, ct) /\ b \in Slots(c) /\ sl2[b] = sl[b] /\ sl[b].key \in Keys
      BY <1>3, <2>2 DEF Arrays, Held, Full, Entry
    <3>2. Reaches(c, ct, sl[b].key, {EMPTY}, b)
      BY <3>1 DEF Arrays, Reachable
    <3> QED BY <1>7, <3>1, <3>2, ReachKept
  <2> QED BY <2>1, <2>2
<1>9. Distinct(c, ct2, sl2)
  BY <1>1, <1>3 DEF Arrays, Distinct, Held, Full, Lacks
<1>10. Arrays(c, ct2, sl2)
  BY <1>6, <1>8, <1>9 DEF Arrays
<1>11. Placed(c, ct, sl, at, e, ct2, sl2)
  BY <1>1, <1>3, <1>4, <1>5, <1>10 DEF Placed
<1> QED BY <1>11 DEF ct2, sl2

\* Rewriting an entry in its slot, with the same key, moves nothing.
LEMMA RewriteArrays ==
  ASSUME NEW c \in Capacities, NEW ct, NEW sl, Arrays(c, ct, sl), NEW at \in Full(c, ct),
         NEW e \in Entry, e.key = sl[at].key
  PROVE  /\ Arrays(c, ct, Stored(sl, at, e))
         /\ e.expiry = None => Timed(c, ct, Stored(sl, at, e)) = Timed(c, ct, sl) \ {at}
         /\ e.expiry # None => Timed(c, ct, Stored(sl, at, e)) = Timed(c, ct, sl) \cup {at}
<1> DEFINE sl2 == Stored(sl, at, e)
<1>0. sl2 = [sl EXCEPT ![at] = e]
  BY DEF Stored
<1> HIDE DEF sl2
<1> USE <1>0
<1>1. at \in Slots(c) /\ \A b \in Slots(c) : sl2[b] = IF b = at THEN e ELSE sl[b]
  BY DEF Full, Arrays, Held
<1>2. Held(c, ct, sl2)
  BY <1>1 DEF Arrays, Held
<1>3. \A b \in Full(c, ct) : sl2[b].key = sl[b].key
  BY <1>1 DEF Full
<1>4. Reachable(c, ct, sl2) /\ Distinct(c, ct, sl2)
  BY <1>3 DEF Arrays, Reachable, Distinct
<1>5. Timed(c, ct, sl2) = IF e.expiry = None THEN Timed(c, ct, sl) \ {at}
                                            ELSE Timed(c, ct, sl) \cup {at}
  BY <1>1 DEF Timed, Full
<1> QED BY <1>2, <1>4, <1>5 DEF Arrays, sl2

-----------------------------------------------------------------------------
(* The table's own invariant under the pieces calls are made of. *)

\* The counters are natural numbers, and a full slot is a slot of a real table.
LEMMA TableFacts ==
  ASSUME TableInv
  PROVE  /\ capacity \in Nat /\ len \in Nat /\ tombstones \in Nat /\ timed \in Nat
         /\ growth_left \in Nat
         /\ FullSlots \subseteq Slots(capacity) /\ IsFiniteSet(FullSlots)
         /\ IsFiniteSet(Dead(capacity, ctrl)) /\ IsFiniteSet(Timed(capacity, ctrl, slots))
         /\ \A at \in FullSlots : slots[at] \in Entry /\ ctrl[at] = Tag[slots[at].key]
         /\ FullSlots # {} => capacity \in Capacities
<1>1. capacity \in Nat
  BY SizesAssumption DEF TableInv
<1>2. FullSlots \in SUBSET Slots(capacity) /\ Dead(capacity, ctrl) \in SUBSET Slots(capacity)
      /\ Timed(capacity, ctrl, slots) \in SUBSET Slots(capacity)
  BY DEF FullSlots, Full, Dead, Timed
<1>3. \A at \in FullSlots : slots[at] \in Entry /\ ctrl[at] = Tag[slots[at].key]
  BY <1>2 DEF TableInv, Arrays, Held, FullSlots
<1>4. FullSlots # {} => capacity \in Capacities
  <2>1. Slots(0) = {}
    BY DEF Slots
  <2> QED BY <1>2, <2>1 DEF TableInv
<1> QED BY <1>1, <1>2, <1>3, <1>4, FiniteSlots DEF TableInv

\* erase keeps the table's invariant and drops exactly its slot's entry.
LEMMA EraseInv ==
  ASSUME TableInv, NEW at \in FullSlots, erase(at)
  PROVE  /\ TableInv'
         /\ FullSlots' = FullSlots \ {at}
         /\ \A b \in FullSlots' : slots'[b] = slots[b]
         /\ capacity' = capacity
<1> DEFINE mark == Freed(capacity, ctrl, at)
<1>1. /\ ctrl' = Marked(ctrl, at, mark)
      /\ growth_left' = IF mark = EMPTY THEN growth_left + 1 ELSE growth_left
      /\ tombstones' = IF mark = EMPTY THEN tombstones ELSE tombstones + 1
      /\ slots' = Stored(slots, at, None)
      /\ len' = len - 1
      /\ timed' = timed - IsTimed(slots[at])
      /\ capacity' = capacity
  BY MarkersAssumption DEF erase, StopsProbes, Marked, Stored, Freed
<1>3. capacity \in Capacities /\ at \in Full(capacity, ctrl) /\ Arrays(capacity, ctrl, slots)
      /\ at \in Slots(capacity)
  BY TableFacts DEF TableInv, FullSlots
<1>4. /\ Arrays(capacity, ctrl', slots')
      /\ Full(capacity, ctrl') = Full(capacity, ctrl) \ {at}
      /\ mark = EMPTY => Dead(capacity, ctrl') = Dead(capacity, ctrl)
      /\ mark # EMPTY => Dead(capacity, ctrl') = Dead(capacity, ctrl) \cup {at}
      /\ Timed(capacity, ctrl', slots') = Timed(capacity, ctrl, slots) \ {at}
  BY <1>1, <1>3, EraseArrays
<1> HIDE DEF mark
<1>5. FullSlots' = FullSlots \ {at}
  BY <1>1, <1>4 DEF FullSlots
<1>6. len' = Cardinality(FullSlots')
  BY <1>1, <1>5, TableFacts, FS_RemoveElement DEF TableInv
<1>7. tombstones' = Cardinality(Dead(capacity, ctrl'))
  <2> DEFINE D == Dead(capacity, ctrl)
  <2>1. at \notin D
    BY <1>3 DEF Full, Dead
  <2>2. IsFiniteSet(D) /\ tombstones = Cardinality(D) /\ tombstones \in Nat
    BY TableFacts DEF TableInv
  <2>3. Dead(capacity, ctrl') = IF mark = EMPTY THEN D ELSE D \cup {at}
    BY <1>4
  <2> HIDE DEF D
  <2>4. Cardinality(D \cup {at}) = tombstones + 1
    BY <2>1, <2>2, FS_AddElement
  <2> QED BY <1>1, <2>2, <2>3, <2>4
<1>8. timed' = Cardinality(Timed(capacity, ctrl', slots'))
  <2> DEFINE T == Timed(capacity, ctrl, slots)
  <2>1. IsTimed(slots[at]) = IF at \in T THEN 1 ELSE 0
    BY <1>3 DEF IsTimed, Timed
  <2>2. IsFiniteSet(T) /\ timed = Cardinality(T) /\ timed \in Nat
    BY TableFacts DEF TableInv
  <2>3. Timed(capacity, ctrl', slots') = T \ {at}
    BY <1>4
  <2> HIDE DEF T
  <2>4. Cardinality(T \ {at}) = IF at \in T THEN timed - 1 ELSE timed
    BY <2>2, FS_RemoveElement
  <2>5. timed' = Cardinality(T \ {at})
    BY <1>1, <2>1, <2>2, <2>4
  <2> QED BY <2>3, <2>5
<1>9. growth_left' \in Nat /\ len' + tombstones' + growth_left' = Load(capacity)
  BY <1>1, TableFacts DEF TableInv
<1>10. \A b \in FullSlots' : slots'[b] = slots[b]
  BY <1>1, <1>3, <1>5 DEF Arrays, Held, Stored
<1> QED BY <1>1, <1>3, <1>4, <1>5, <1>6, <1>7, <1>8, <1>9, <1>10 DEF TableInv

\* Rewriting a stored entry keeps the table's invariant when timed follows.
LEMMA RewriteInv ==
  ASSUME TableInv, NEW at \in FullSlots, NEW e \in Entry, e.key = slots[at].key,
         slots' = [slots EXCEPT ![at] = e],
         timed' = timed - IsTimed(slots[at]) + IsTimed(e),
         UNCHANGED <<capacity, ctrl, len, tombstones, growth_left>>
  PROVE  /\ TableInv'
         /\ FullSlots' = FullSlots
         /\ \A b \in FullSlots : slots'[b] = IF b = at THEN e ELSE slots[b]
<1>1. /\ at \in Full(capacity, ctrl) /\ Arrays(capacity, ctrl, slots) /\ at \in Slots(capacity)
      /\ capacity \in Capacities
  BY TableFacts DEF TableInv, FullSlots
<1>2. /\ Arrays(capacity, ctrl, slots')
      /\ e.expiry = None => Timed(capacity, ctrl, slots') = Timed(capacity, ctrl, slots) \ {at}
      /\ e.expiry # None => Timed(capacity, ctrl, slots') = Timed(capacity, ctrl, slots) \cup {at}
  <2>1. slots' = Stored(slots, at, e)
    BY DEF Stored
  <2> DEFINE S == Stored(slots, at, e)
  <2>2. /\ Arrays(capacity, ctrl, S)
        /\ e.expiry = None => Timed(capacity, ctrl, S) = Timed(capacity, ctrl, slots) \ {at}
        /\ e.expiry # None => Timed(capacity, ctrl, S) = Timed(capacity, ctrl, slots) \cup {at}
    BY <1>1, RewriteArrays
  <2> QED BY <2>1, <2>2
<1>3. FullSlots' = FullSlots /\ Dead(capacity, ctrl)' = Dead(capacity, ctrl)
  BY DEF FullSlots, Dead
<1>4. timed' = Cardinality(Timed(capacity, ctrl, slots'))
  <2> DEFINE T == Timed(capacity, ctrl, slots)
  <2>1. IsTimed(slots[at]) = IF at \in T THEN 1 ELSE 0
    BY <1>1 DEF IsTimed, Timed
  <2>2. IsFiniteSet(T) /\ timed = Cardinality(T) /\ timed \in Nat
    BY TableFacts DEF TableInv
  <2>3. /\ e.expiry = None => Timed(capacity, ctrl, slots') = T \ {at}
        /\ e.expiry # None => Timed(capacity, ctrl, slots') = T \cup {at}
    BY <1>2
  <2> HIDE DEF T
  <2>4. CASE e.expiry = None
    <3>1. IsTimed(e) = 0
      BY <2>4 DEF IsTimed
    <3>2. Cardinality(T \ {at}) = IF at \in T THEN timed - 1 ELSE timed
      BY <2>2, FS_RemoveElement
    <3>3. timed' = Cardinality(T \ {at})
      BY <2>1, <2>2, <3>1, <3>2
    <3> QED BY <2>3, <2>4, <3>3
  <2>5. CASE e.expiry # None
    <3>1. IsTimed(e) = 1
      BY <2>5 DEF IsTimed
    <3>2. Cardinality(T \cup {at}) = IF at \in T THEN timed ELSE timed + 1
      BY <2>2, FS_AddElement
    <3>3. timed' = Cardinality(T \cup {at})
      BY <2>1, <2>2, <3>1, <3>2
    <3> QED BY <2>3, <2>5, <3>3
  <2> QED BY <2>4, <2>5
<1>5. \A b \in FullSlots : slots'[b] = IF b = at THEN e ELSE slots[b]
  BY <1>1, TableFacts DEF Arrays, Held
<1> QED BY <1>2, <1>3, <1>4, <1>5, TableFacts DEF TableInv

\* Arrays with nothing in them, what a rebuild and a clear start from.
LEMMA EmptyArrays ==
  ASSUME NEW c
  PROVE  /\ Arrays(c, [at \in Slots(c) |-> EMPTY], [at \in Slots(c) |-> None])
         /\ Full(c, [at \in Slots(c) |-> EMPTY]) = {}
         /\ Dead(c, [at \in Slots(c) |-> EMPTY]) = {}
         /\ Timed(c, [at \in Slots(c) |-> EMPTY], [at \in Slots(c) |-> None]) = {}
<1> DEFINE ct == [at \in Slots(c) |-> EMPTY]
           sl == [at \in Slots(c) |-> None]
<1>1. Full(c, ct) = {} /\ Dead(c, ct) = {}
  BY MarkersAssumption DEF Full, Dead
<1>2. Timed(c, ct, sl) = {}
  BY <1>1 DEF Timed
<1>3. Held(c, ct, sl)
  BY <1>1 DEF Held, Marks
<1>4. Reachable(c, ct, sl) /\ Distinct(c, ct, sl)
  BY <1>1 DEF Reachable, Distinct
<1> QED BY <1>1, <1>2, <1>3, <1>4 DEF Arrays

\* Storing a new key in the slot free_slot picks keeps the table's invariant,
\* if there is growth left for it.
LEMMA InsertInv ==
  ASSUME TableInv, capacity \in Capacities, NEW e \in Entry, Absent(e.key), growth_left > 0,
         NEW at \in Slots(capacity), free_slot(e.key, at),
         tombstones' = IF ctrl[at] = DELETED THEN tombstones - 1 ELSE tombstones,
         growth_left' = IF ctrl[at] = DELETED THEN growth_left ELSE growth_left - 1,
         ctrl' = [ctrl EXCEPT ![at] = Tag[e.key]],
         slots' = [slots EXCEPT ![at] = e],
         len' = len + 1,
         timed' = timed + IsTimed(e),
         capacity' = capacity
  PROVE  /\ TableInv' /\ at \in FullSlots' /\ slots'[at] = e
         /\ FullSlots' = FullSlots \cup {at}
         /\ \A b \in FullSlots : slots'[b] = slots[b]
<1> DEFINE k == e.key
           marks == {EMPTY, DELETED}
<1>1. ctrl' = Marked(ctrl, at, Tag[k]) /\ slots' = Stored(slots, at, e)
  BY DEF Marked, Stored
<1>2. Arrays(capacity, ctrl, slots) /\ Lacks(capacity, ctrl, slots, k) /\ k = e.key
  BY DEF TableInv, Absent
<1>3. FirstIn(capacity, ctrl, k, marks, at) /\ Frees(marks)
  BY DEF free_slot, Frees
<1> HIDE DEF k, marks
<1>4. /\ Arrays(capacity, ctrl', slots')
      /\ at \notin Full(capacity, ctrl)
      /\ Full(capacity, ctrl') = Full(capacity, ctrl) \cup {at}
      /\ Dead(capacity, ctrl') = Dead(capacity, ctrl) \ {at}
      /\ e.expiry = None => Timed(capacity, ctrl', slots') = Timed(capacity, ctrl, slots)
      /\ e.expiry # None => Timed(capacity, ctrl', slots') = Timed(capacity, ctrl, slots) \cup {at}
  <2>1. Placed(capacity, ctrl, slots, at, e, Marked(ctrl, at, Tag[k]), Stored(slots, at, e))
    BY <1>2, <1>3, PlaceArrays, Zenon
  <2> QED BY <1>1, <2>1 DEF Placed
<1>5. FullSlots' = FullSlots \cup {at} /\ at \notin FullSlots
  BY <1>4 DEF FullSlots
<1>6. len' = Cardinality(FullSlots')
  BY <1>5, TableFacts, FS_AddElement DEF TableInv
<1>7. tombstones' = Cardinality(Dead(capacity, ctrl'))
  <2> DEFINE D == Dead(capacity, ctrl)
  <2>1. ctrl[at] = DELETED <=> at \in D
    BY DEF Dead
  <2>2. IsFiniteSet(D) /\ tombstones = Cardinality(D)
    BY TableFacts DEF TableInv
  <2>3. Dead(capacity, ctrl') = D \ {at}
    BY <1>4
  <2> HIDE DEF D
  <2>4. tombstones' = Cardinality(D \ {at})
    BY <2>1, <2>2, FS_RemoveElement
  <2> QED BY <2>3, <2>4
<1>8. timed' = Cardinality(Timed(capacity, ctrl', slots'))
  <2> DEFINE T == Timed(capacity, ctrl, slots)
  <2>1. IsFiniteSet(T) /\ timed = Cardinality(T) /\ timed \in Nat
    BY TableFacts DEF TableInv
  <2>2. at \notin T
    BY <1>4 DEF Timed
  <2>3. /\ e.expiry = None => Timed(capacity, ctrl', slots') = T
        /\ e.expiry # None => Timed(capacity, ctrl', slots') = T \cup {at}
    BY <1>4
  <2> HIDE DEF T
  <2>4. Cardinality(T \cup {at}) = timed + 1
    BY <2>1, <2>2, FS_AddElement
  <2>5. CASE e.expiry = None
    <3>1. IsTimed(e) = 0
      BY <2>5 DEF IsTimed
    <3> QED BY <2>1, <2>3, <2>5, <3>1
  <2>6. CASE e.expiry # None
    <3>1. IsTimed(e) = 1
      BY <2>6 DEF IsTimed
    <3>2. timed' = Cardinality(T \cup {at})
      BY <2>1, <2>4, <3>1
    <3> QED BY <2>3, <2>6, <3>2
  <2> QED BY <2>5, <2>6
<1>9. growth_left' \in Nat /\ len' + tombstones' + growth_left' = Load(capacity)
  BY TableFacts DEF TableInv
<1>10. slots'[at] = e
  BY <1>2 DEF Arrays, Held
<1>11. \A b \in FullSlots : slots'[b] = slots[b]
  BY <1>2, <1>5 DEF Arrays, Held, FullSlots, Full
<1> QED BY <1>4, <1>5, <1>6, <1>7, <1>8, <1>9, <1>10, <1>11 DEF TableInv

-----------------------------------------------------------------------------
(* Rebuilds. *)

\* A rebuild starts with new arrays that hold what it has read: nothing.
LEMMA RehashStarts ==
  ASSUME NEW c \in Capacities, rehash(c), pc' = "rehash", capacity' \in Nat,
         FullSlots' \subseteq Slots(capacity'), len' <= Load(c),
         pending' # None => len' < Load(c) /\ Absent(pending.key)'
  PROVE  RebuildInv'
<1>1. new_capacity' = c /\ reading' = 0 /\ new_ctrl' = [at \in Slots(c) |-> EMPTY]
      /\ new_slots' = [at \in Slots(c) |-> None]
  BY DEF rehash
<1>2. /\ Arrays(c, new_ctrl', new_slots')
      /\ Full(c, new_ctrl') = {} /\ Dead(c, new_ctrl') = {} /\ Timed(c, new_ctrl', new_slots') = {}
  BY <1>1, EmptyArrays
<1>3. Read' = {}
  <2>1. \A s \in FullSlots' : ~(s < 0)
    BY DEF Slots, FullSlots, Full
  <2> QED BY <1>1, <2>1 DEF Read
<1>4. {s \in Read' : slots'[s].expiry # None} = {}
  BY <1>3
<1>5. Cardinality({}) = 0
  BY FS_EmptySet
<1>6. reading' \in 0..capacity'
  BY <1>1
<1> QED BY <1>1, <1>2, <1>3, <1>4, <1>5, <1>6 DEF RebuildInv

\* shrink either leaves the table alone or starts a rebuild the entries fit in.
LEMMA ShrinkStarts ==
  ASSUME shrink(len'), RebuildInv, pc # "rehash", TableInv', capacity' = capacity,
         pending' = None
  PROVE  RebuildInv' /\ pc' \in {"idle", "rehash"}
<1>1. capacity' \in Nat /\ len' \in Nat /\ FullSlots' \subseteq Slots(capacity')
  <2>1. capacity' \in Nat
    BY SizesAssumption DEF TableInv
  <2>2. FullSlots' \in SUBSET Slots(capacity')
    BY DEF FullSlots, Full
  <2> QED BY <2>1, <2>2, FiniteSlots DEF TableInv
<1>2. CASE \E c \in Capacities : 2 * len' <= c /\ pc' = "rehash" /\ rehash(c)
  <2>1. PICK c \in Capacities : 2 * len' <= c /\ pc' = "rehash" /\ rehash(c)
    BY <1>2
  <2>2. len' <= Load(c)
    BY <1>1, <2>1, LoadFacts
  <2> QED BY <1>1, <2>1, <2>2, RehashStarts
<1>3. CASE pc' = "idle" /\ UNCHANGED build
  BY <1>3 DEF RebuildInv, build
<1> QED BY <1>2, <1>3 DEF shrink

\* One slot of a rebuild: the new arrays hold one read entry more, or the slot
\* was not full and there is nothing to hold.
LEMMA RehashSlotInv ==
  ASSUME IInv, RehashSlot
  PROVE  RebuildInv'
<1>1. /\ pc = "rehash" /\ pc' = "rehash" /\ reading' = reading + 1
      /\ UNCHANGED <<capacity, ctrl, slots, len, pending, new_capacity>>
  BY DEF RehashSlot, table
<1>2. /\ new_capacity \in Capacities /\ Arrays(new_capacity, new_ctrl, new_slots)
      /\ Dead(new_capacity, new_ctrl) = {} /\ reading \in 0..capacity /\ reading < capacity
      /\ \A s \in Read : \E t \in Full(new_capacity, new_ctrl) : new_slots[t] = slots[s]
      /\ \A t \in Full(new_capacity, new_ctrl) : \E s \in Read : slots[s] = new_slots[t]
      /\ Cardinality(Full(new_capacity, new_ctrl)) = Cardinality(Read)
      /\ Cardinality(Timed(new_capacity, new_ctrl, new_slots))
           = Cardinality({s \in Read : slots[s].expiry # None})
      /\ len <= Load(new_capacity)
      /\ pending # None => len < Load(new_capacity) /\ Absent(pending.key)
  BY <1>1 DEF IInv, RebuildInv, RehashSlot
<1>3. TableInv /\ capacity \in Nat /\ FullSlots \subseteq Slots(capacity)
      /\ \A s \in FullSlots : slots[s] \in Entry
  BY TableFacts DEF IInv
<1>4. FullSlots' = FullSlots /\ Absent(pending.key)' = Absent(pending.key)
  BY <1>1 DEF FullSlots, Absent
<1>5. reading' \in 0..capacity
  BY <1>1, <1>2, <1>3
<1>6. CASE reading \notin FullSlots
  <2>1. UNCHANGED <<new_ctrl, new_slots>>
    BY <1>6 DEF RehashSlot
  <2>2. Read' = Read
    BY <1>1, <1>2, <1>3, <1>4, <1>6 DEF Read, Slots
  <2> QED BY <1>1, <1>2, <1>4, <1>5, <2>1, <2>2 DEF RebuildInv
<1>7. CASE reading \in FullSlots
  <2> DEFINE e == slots[reading]
             k == e.key
             marks == {EMPTY}
  <2>1. PICK put \in Slots(new_capacity) :
          /\ FirstIn(new_capacity, new_ctrl, k, marks, put)
          /\ new_ctrl' = [new_ctrl EXCEPT ![put] = Tag[k]]
          /\ new_slots' = [new_slots EXCEPT ![put] = e]
    BY <1>7 DEF RehashSlot
  <2>2. e \in Entry /\ k = e.key /\ Frees(marks)
    BY <1>3, <1>7 DEF Frees
  <2>3. Lacks(new_capacity, new_ctrl, new_slots, k)
    <3> SUFFICES ASSUME NEW t \in Full(new_capacity, new_ctrl), new_slots[t].key = k PROVE FALSE
      BY DEF Lacks
    <3>1. PICK s \in Read : slots[s] = new_slots[t]
      BY <1>2
    <3>2. s \in FullSlots /\ s # reading
      BY <3>1, <1>2, <1>3 DEF Read, Slots
    <3> QED BY <1>3, <1>7, <3>1, <3>2 DEF TableInv, Arrays, Distinct, FullSlots
  <2>4. new_ctrl' = Marked(new_ctrl, put, Tag[k]) /\ new_slots' = Stored(new_slots, put, e)
    BY <2>1 DEF Marked, Stored
  <2> HIDE DEF e, k, marks
  <2>5. /\ Arrays(new_capacity, new_ctrl', new_slots')
        /\ put \notin Full(new_capacity, new_ctrl)
        /\ Full(new_capacity, new_ctrl') = Full(new_capacity, new_ctrl) \cup {put}
        /\ Dead(new_capacity, new_ctrl') = Dead(new_capacity, new_ctrl) \ {put}
        /\ e.expiry = None => Timed(new_capacity, new_ctrl', new_slots')
                                = Timed(new_capacity, new_ctrl, new_slots)
        /\ e.expiry # None => Timed(new_capacity, new_ctrl', new_slots')
                                = Timed(new_capacity, new_ctrl, new_slots) \cup {put}
    <3>1. Placed(new_capacity, new_ctrl, new_slots, put, e,
                 Marked(new_ctrl, put, Tag[k]), Stored(new_slots, put, e))
      BY <1>2, <2>1, <2>2, <2>3, PlaceArrays, Zenon
    <3> QED BY <2>4, <3>1 DEF Placed
  <2>6. Read' = Read \cup {reading} /\ reading \notin Read
    <3>1. \A s \in FullSlots : s < reading + 1 <=> s < reading \/ s = reading
      BY <1>2, <1>3 DEF Slots
    <3>2. Read' = {s \in FullSlots : s < reading + 1}
      BY <1>1, <1>4 DEF Read
    <3>3. ~(reading < reading)
      BY <1>2
    <3> QED BY <1>7, <3>1, <3>2, <3>3 DEF Read
  <2>7. /\ new_slots'[put] = e
        /\ \A t \in Full(new_capacity, new_ctrl) : new_slots'[t] = new_slots[t]
    BY <1>2, <2>1, <2>5 DEF Arrays, Held, Full
  <2>8. \A s \in Read' : \E t \in Full(new_capacity, new_ctrl') : new_slots'[t] = slots[s]
    BY <1>2, <2>5, <2>6, <2>7 DEF e
  <2>9. \A t \in Full(new_capacity, new_ctrl') : \E s \in Read' : slots[s] = new_slots'[t]
    BY <1>2, <2>5, <2>6, <2>7 DEF e
  <2> DEFINE F == Full(new_capacity, new_ctrl)
             T == Timed(new_capacity, new_ctrl, new_slots)
             R == {s \in Read : slots[s].expiry # None}
             RR == {s \in Read' : slots[s].expiry # None}
  <2>10. IsFiniteSet(F) /\ IsFiniteSet(T) /\ IsFiniteSet(Read) /\ IsFiniteSet(R)
    <3>1. F \in SUBSET Slots(new_capacity) /\ T \in SUBSET Slots(new_capacity)
      BY DEF Full, Timed
    <3>2. Read \in SUBSET Slots(capacity) /\ R \in SUBSET Slots(capacity)
      BY <1>3 DEF Read
    <3>3. new_capacity \in Nat
      BY <1>2, SizesAssumption
    <3> QED BY <1>3, <3>1, <3>2, <3>3, FiniteSlots
  <2>11. Cardinality(Full(new_capacity, new_ctrl')) = Cardinality(Read')
    <3>1. Cardinality(F \cup {put}) = Cardinality(F) + 1
      BY <2>5, <2>10, FS_AddElement
    <3>2. Cardinality(Read \cup {reading}) = Cardinality(Read) + 1
      BY <2>6, <2>10, FS_AddElement
    <3> QED BY <1>2, <2>5, <2>6, <3>1, <3>2
  <2>12. Cardinality(Timed(new_capacity, new_ctrl', new_slots')) = Cardinality(RR)
    <3>1. CASE e.expiry = None
      <4>1. RR = R
        BY <2>6, <3>1 DEF e
      <4> QED BY <1>2, <2>5, <3>1, <4>1
    <3>2. CASE e.expiry # None
      <4>1. RR = R \cup {reading} /\ reading \notin R
        BY <2>6, <3>2 DEF e
      <4>2. Timed(new_capacity, new_ctrl', new_slots') = T \cup {put} /\ put \notin T
        BY <2>5, <3>2 DEF Timed
      <4> HIDE DEF T, R, RR
      <4>3. Cardinality(R \cup {reading}) = Cardinality(R) + 1
        BY <2>10, <4>1, FS_AddElement
      <4>4. Cardinality(T \cup {put}) = Cardinality(T) + 1
        BY <2>10, <4>2, FS_AddElement
      <4>5. Cardinality(T) = Cardinality(R)
        BY <1>2 DEF T, R
      <4> QED BY <4>1, <4>2, <4>3, <4>4, <4>5
    <3> QED BY <3>1, <3>2
  <2>13. Dead(new_capacity, new_ctrl') = {}
    BY <1>2, <2>5
  <2> QED BY <1>1, <1>2, <1>4, <1>5, <2>5, <2>8, <2>9, <2>11, <2>12, <2>13 DEF RebuildInv
<1> QED BY <1>6, <1>7

\* The end of a rebuild: the installed arrays hold every entry and no tombstone,
\* with room for the write that asked for it.
LEMMA RehashEndsInv ==
  ASSUME IInv, RehashEnds
  PROVE  IInv'
<1>1. /\ pc = "rehash" /\ reading = capacity
      /\ capacity' = new_capacity /\ ctrl' = new_ctrl /\ slots' = new_slots
      /\ tombstones' = 0 /\ growth_left' = Load(new_capacity) - len
      /\ pc' = IF pending # None THEN "write" ELSE "idle"
      /\ new_capacity' = 0 /\ new_ctrl' = <<>> /\ new_slots' = <<>> /\ reading' = 0
      /\ UNCHANGED <<len, timed, pending, spare, went, walk>>
  BY DEF RehashEnds
<1>2. /\ new_capacity \in Capacities /\ Arrays(new_capacity, new_ctrl, new_slots)
      /\ Dead(new_capacity, new_ctrl) = {}
      /\ Cardinality(Full(new_capacity, new_ctrl)) = Cardinality(Read)
      /\ Cardinality(Timed(new_capacity, new_ctrl, new_slots))
           = Cardinality({s \in Read : slots[s].expiry # None})
      /\ len <= Load(new_capacity)
      /\ pending # None => len < Load(new_capacity)
  BY <1>1 DEF IInv, RebuildInv
<1>3. capacity \in Nat /\ FullSlots \subseteq Slots(capacity) /\ len \in Nat
  BY TableFacts DEF IInv
<1>4. Read = FullSlots
  <2>1. \A s \in FullSlots : s < capacity
    BY <1>3 DEF Slots
  <2> QED BY <1>1, <2>1 DEF Read
<1>5. {s \in Read : slots[s].expiry # None} = Timed(capacity, ctrl, slots)
  BY <1>4 DEF Timed, FullSlots
<1>6. TableInv'
  <2>1. len' = Cardinality(FullSlots')
    BY <1>1, <1>2, <1>4 DEF IInv, TableInv, FullSlots
  <2>2. tombstones' = Cardinality(Dead(capacity', ctrl'))
    BY <1>1, <1>2, FS_EmptySet
  <2>3. timed' = Cardinality(Timed(capacity', ctrl', slots'))
    BY <1>1, <1>2, <1>5 DEF IInv, TableInv
  <2>4. growth_left' \in Nat /\ len' + tombstones' + growth_left' = Load(capacity')
    BY <1>1, <1>2, <1>3, LoadFacts
  <2> QED BY <1>1, <1>2, <2>1, <2>2, <2>3, <2>4 DEF TableInv
<1>7. ControlInv'
  <2>1. pending # None => growth_left' > 0
    BY <1>1, <1>2, <1>3, LoadFacts
  <2> QED BY <1>1, <1>2, <2>1 DEF IInv, ControlInv
<1>8. RebuildInv'
  BY <1>1 DEF RebuildInv
<1> QED BY <1>6, <1>7, <1>8 DEF IInv

-----------------------------------------------------------------------------
(* The invariant is inductive. *)

\* Outside a rebuild nothing is asked of the arrays being filled.
LEMMA NoRebuild ==
  ASSUME RebuildInv, pc # "rehash", pc' # "rehash", UNCHANGED build
  PROVE  RebuildInv'
BY DEF RebuildInv, build

\* A call that leaves pc idle and at most erases or rewrites keeps the rest.
LEMMA IdleInv ==
  ASSUME IInv, Idle, UNCHANGED locals, TableInv'
  PROVE  IInv'
<1>1. /\ pc = "idle" /\ UNCHANGED <<pc, pending, spare, went, walk>> /\ UNCHANGED build
  BY DEF Idle, locals
<1>2. ControlInv'
  BY <1>1 DEF IInv, ControlInv
<1>3. RebuildInv'
  BY <1>1, NoRebuild DEF IInv
<1> QED BY <1>2, <1>3 DEF IInv

\* A step that leaves the table alone keeps what is said of the table.
LEMMA SameTable ==
  ASSUME TableInv, UNCHANGED table
  PROVE  TableInv' /\ FullSlots' = FullSlots /\ UNCHANGED <<capacity, ctrl, slots, len, growth_left>>
BY DEF TableInv, table, FullSlots

\* get keeps the invariant: it may erase the expired entry it finds.
LEMMA GetInv ==
  ASSUME IInv, NEW k \in Keys, NEW now \in Times, Get(k, now)
  PROVE  IInv'
<1>1. TableInv /\ Arrays(capacity, ctrl, slots)
  BY DEF IInv, TableInv
<1>2. CASE UNCHANGED table
  BY <1>1, <1>2, SameTable, IdleInv DEF Get
<1>3. CASE Present(k) /\ erase(SlotOf(k))
  BY <1>1, <1>3, FindFacts, EraseInv, IdleInv DEF Get
<1> QED BY <1>2, <1>3 DEF Get

\* remove keeps the invariant, erasing what it finds.
LEMMA RemoveInv ==
  ASSUME IInv, NEW k \in Keys, Remove(k)
  PROVE  IInv'
<1>1. TableInv /\ Arrays(capacity, ctrl, slots)
  BY DEF IInv, TableInv
<1>2. CASE UNCHANGED table
  BY <1>1, <1>2, SameTable, IdleInv DEF Remove
<1>3. CASE Present(k) /\ erase(SlotOf(k))
  BY <1>1, <1>3, FindFacts, EraseInv, IdleInv DEF Remove
<1> QED BY <1>2, <1>3 DEF Remove

\* expire keeps the invariant: it erases, or changes an entry's deadline in place.
LEMMA ExpireInv ==
  ASSUME IInv, NEW k \in Keys, NEW x \in Deadline, NEW now \in Times, Expire(k, x, now)
  PROVE  IInv'
<1>1. TableInv /\ Arrays(capacity, ctrl, slots)
  BY DEF IInv, TableInv
<1>2. CASE UNCHANGED table
  BY <1>1, <1>2, SameTable, IdleInv DEF Expire
<1>3. CASE Present(k) /\ erase(SlotOf(k))
  BY <1>1, <1>3, FindFacts, EraseInv, IdleInv DEF Expire
<1>4. CASE /\ Present(k)
           /\ slots' = [slots EXCEPT ![SlotOf(k)].expiry = x]
           /\ timed' = timed - IsTimed(slots[SlotOf(k)]) + IsTimed([expiry |-> x])
           /\ UNCHANGED <<capacity, ctrl, len, tombstones, growth_left>>
  <2> DEFINE at == SlotOf(k)
             e == [slots[at] EXCEPT !.expiry = x]
  <2>1. at \in FullSlots
    BY <1>1, <1>4, FindFacts
  <2> HIDE DEF at
  <2>2. slots[at] \in Entry
    BY <1>1, <2>1, TableFacts
  <2>3. e \in Entry /\ e.key = slots[at].key /\ e.expiry = x
    BY <2>2 DEF Entry
  <2>4. slots' = [slots EXCEPT ![at] = e]
    BY <1>4 DEF at
  <2>5. timed' = timed - IsTimed(slots[at]) + IsTimed(e)
    BY <1>4, <2>3 DEF IsTimed, at
  <2> HIDE DEF e
  <2>6. TableInv'
    BY <1>1, <1>4, <2>1, <2>3, <2>4, <2>5, RewriteInv
  <2> QED BY <2>6, IdleInv DEF Expire
<1> QED BY <1>2, <1>3, <1>4 DEF Expire

\* A set that has begun keeps the invariant.
LEMMA SetInv ==
  ASSUME IInv, NEW k \in Keys, NEW v \in Values, NEW x \in Deadline, Set(k, v, x)
  PROVE  IInv'
<1>1. /\ TableInv /\ Arrays(capacity, ctrl, slots) /\ TableInv' /\ FullSlots' = FullSlots
      /\ UNCHANGED <<capacity, ctrl, slots, len, growth_left>>
  BY SameTable DEF IInv, TableInv, Set
<1>2. /\ pc = "idle" /\ pending' = [key |-> k, value |-> v, expiry |-> x]
      /\ UNCHANGED <<spare, went, walk>>
  BY DEF Set, Idle
<1>3. pending' \in Entry /\ pending' # None /\ pending'.key = k
  BY <1>2, MarkersAssumption DEF Entry
<1>4. CASE /\ ~Present(k) /\ growth_left = 0 /\ ReserveCapacity \in Capacities
           /\ pc' = "rehash" /\ rehash(ReserveCapacity)
  <2>1. Absent(pending.key)'
    BY <1>1, <1>3, <1>4, FindFacts DEF Absent
  <2>2. capacity \in Nat /\ len \in Nat /\ tombstones \in Nat /\ growth_left \in Nat
        /\ FullSlots \subseteq Slots(capacity)
    BY <1>1, TableFacts
  <2>3. len + tombstones = Load(capacity)
    BY <1>1, <1>4, <2>2 DEF TableInv
  <2>4. len < Load(ReserveCapacity) /\ len <= Load(ReserveCapacity)
    <3>1. CASE capacity = 0
      BY <1>4, <2>2, <2>3, <3>1, LoadFacts, SizesAssumption DEF ReserveCapacity
    <3>2. CASE capacity # 0 /\ tombstones >= len
      BY <1>1, <1>4, <2>2, <2>3, <3>2, LoadFacts DEF ReserveCapacity, TableInv
    <3>3. CASE capacity # 0 /\ ~(tombstones >= len)
      BY <1>1, <1>4, <2>2, <2>3, <3>3, LoadFacts, SizesAssumption DEF ReserveCapacity, TableInv
    <3> QED BY <3>1, <3>2, <3>3
  <2>5. RebuildInv'
    BY <1>1, <1>4, <2>1, <2>2, <2>4, RehashStarts
  <2>6. ControlInv'
    BY <1>2, <1>3, <1>4 DEF IInv, ControlInv
  <2> QED BY <1>1, <2>5, <2>6 DEF IInv
<1>5. CASE (Present(k) \/ growth_left # 0) /\ pc' = "write" /\ UNCHANGED build
  <2>1. RebuildInv'
    BY <1>2, <1>5, NoRebuild DEF IInv
  <2>2. growth_left \in Nat /\ (FullSlots # {} => capacity \in Capacities)
    BY <1>1, TableFacts
  <2>3. (Absent(pending.key) => growth_left > 0)'
    BY <1>1, <1>3, <1>5, <2>2, FindFacts DEF Absent
  <2>4. capacity' \in Capacities
    <3>1. CASE Present(k)
      BY <1>1, <2>2, <3>1, FindFacts
    <3>2. CASE growth_left # 0
      BY <1>1, <2>2, <3>2, LoadFacts, TableFacts DEF TableInv
    <3> QED BY <1>5, <3>1, <3>2
  <2>5. ControlInv'
    BY <1>2, <1>3, <1>5, <2>3, <2>4 DEF IInv, ControlInv
  <2> QED BY <1>1, <2>1, <2>5 DEF IInv
<1> QED BY <1>4, <1>5 DEF Set

\* A refused set keeps the invariant: the table is as it was, or as reserve left it.
LEMMA RefuseInv ==
  ASSUME IInv, Refuse
  PROVE  IInv'
<1>1. pc = "write" /\ pc' = "idle" /\ pending' = None /\ UNCHANGED <<spare, went, walk>>
      /\ UNCHANGED build /\ UNCHANGED table
  BY DEF Refuse
<1>2. TableInv'
  BY <1>1, SameTable DEF IInv
<1>3. ControlInv'
  BY <1>1 DEF IInv, ControlInv
<1>4. RebuildInv'
  BY <1>1, NoRebuild DEF IInv
<1> QED BY <1>2, <1>3, <1>4 DEF IInv

\* A set over a present key keeps the invariant, deadline and all.
LEMMA ReplaceInv ==
  ASSUME IInv, Replace
  PROVE  IInv'
<1>1. /\ pc = "write" /\ pc' = "fit" /\ Present(pending.key)
      /\ slots' = [slots EXCEPT ![SlotOf(pending.key)] = pending]
      /\ timed' = timed - IsTimed(slots[SlotOf(pending.key)]) + IsTimed(pending)
      /\ UNCHANGED <<capacity, ctrl, len, tombstones, growth_left>>
      /\ UNCHANGED <<pending, spare, went, walk>> /\ UNCHANGED build
  BY DEF Replace
<1>2. TableInv /\ Arrays(capacity, ctrl, slots) /\ pending \in Entry /\ pending.key \in Keys
  BY <1>1 DEF IInv, TableInv, ControlInv, Entry
<1>3. SlotOf(pending.key) \in FullSlots /\ pending.key = slots[SlotOf(pending.key)].key
  BY <1>1, <1>2, FindFacts
<1> DEFINE at == SlotOf(pending.key)
<1> HIDE DEF at
<1>4. TableInv' /\ FullSlots' = FullSlots /\ slots'[at] = pending /\ at \in FullSlots
  <2>1. at \in FullSlots /\ pending.key = slots[at].key
        /\ slots' = [slots EXCEPT ![at] = pending]
        /\ timed' = timed - IsTimed(slots[at]) + IsTimed(pending)
    BY <1>1, <1>3 DEF at
  <2> QED BY <1>1, <1>2, <2>1, RewriteInv
<1>5. ControlInv'
  BY <1>1, <1>4 DEF IInv, ControlInv
<1>6. RebuildInv'
  BY <1>1, NoRebuild DEF IInv
<1> QED BY <1>4, <1>5, <1>6 DEF IInv

\* A set of an absent key keeps the invariant: it fills a free slot of the key's path.
LEMMA InsertStepInv ==
  ASSUME IInv, Insert
  PROVE  IInv'
<1>1. /\ pc = "write" /\ pc' = "fit" /\ ~Present(pending.key)
      /\ len' = len + 1 /\ timed' = timed + IsTimed(pending) /\ capacity' = capacity
      /\ UNCHANGED <<pending, spare, went, walk>> /\ UNCHANGED build
  BY DEF Insert
<1>2. TableInv /\ Arrays(capacity, ctrl, slots) /\ pending \in Entry /\ pending.key \in Keys
      /\ capacity \in Capacities
  BY <1>1 DEF IInv, TableInv, ControlInv, Entry
<1>3. Absent(pending.key) /\ growth_left > 0
  BY <1>1, <1>2, FindFacts DEF IInv, ControlInv
<1>4. PICK at \in Slots(capacity) :
        /\ free_slot(pending.key, at)
        /\ tombstones' = IF ctrl[at] = DELETED THEN tombstones - 1 ELSE tombstones
        /\ growth_left' = IF ctrl[at] = DELETED THEN growth_left ELSE growth_left - 1
        /\ ctrl' = [ctrl EXCEPT ![at] = Tag[pending.key]]
        /\ slots' = [slots EXCEPT ![at] = pending]
  BY DEF Insert
<1>5. TableInv' /\ at \in FullSlots' /\ slots'[at] = pending
  BY <1>1, <1>2, <1>3, <1>4, InsertInv
<1>6. ControlInv'
  BY <1>1, <1>2, <1>5 DEF IInv, ControlInv
<1>7. RebuildInv'
  BY <1>1, NoRebuild DEF IInv
<1> QED BY <1>5, <1>6, <1>7 DEF IInv

\* Entering eviction keeps the invariant: the slot spared is the one just written.
LEMMA FitInv ==
  ASSUME IInv, Fit
  PROVE  IInv'
<1>1. pc = "fit" /\ UNCHANGED table /\ UNCHANGED <<went, walk>> /\ UNCHANGED build
  BY DEF Fit
<1>2. /\ TableInv' /\ FullSlots' = FullSlots /\ UNCHANGED <<capacity, slots>>
      /\ TableInv /\ Arrays(capacity, ctrl, slots)
  BY <1>1, SameTable DEF IInv, TableInv
<1>3. CASE pc' = "idle" /\ pending' = None /\ UNCHANGED spare
  <2>1. ControlInv'
    BY <1>1, <1>2, <1>3 DEF IInv, ControlInv
  <2> QED BY <1>1, <1>2, <1>3, <2>1, NoRebuild DEF IInv
<1>4. CASE pc' = "evict" /\ spare' = SlotOf(pending.key) /\ UNCHANGED pending
  <2>1. PICK at \in FullSlots : slots[at] = pending
    BY <1>1 DEF IInv, ControlInv
  <2>2. SlotOf(pending.key) = at
    BY <1>2, <2>1, FindFacts DEF SlotOf
  <2>3. ControlInv'
    BY <1>1, <1>2, <1>4, <2>1, <2>2, SizesAssumption DEF IInv, ControlInv
  <2> QED BY <1>1, <1>2, <1>4, <2>3, NoRebuild DEF IInv
<1> QED BY <1>3, <1>4 DEF Fit

\* An eviction keeps the invariant: the slot erased is not the one spared.
LEMMA EvictInv ==
  ASSUME IInv, Evict
  PROVE  IInv'
<1>1. /\ pc = "evict" /\ went < EVICT_MAX /\ went' = went + 1
      /\ UNCHANGED <<pc, pending, spare, walk>> /\ UNCHANGED build
  BY DEF Evict
<1>2. PICK at \in FullSlots \ {spare} : erase(at)
  BY DEF Evict, Evictable
<1>3. /\ TableInv' /\ FullSlots' = FullSlots \ {at} /\ capacity' = capacity
      /\ \A b \in FullSlots' : slots'[b] = slots[b]
  BY <1>2, EraseInv DEF IInv
<1>4. went \in Nat /\ went' \in Nat /\ went' <= EVICT_MAX
  BY <1>1, SizesAssumption DEF IInv, ControlInv
<1>5. spare \in FullSlots' /\ slots'[spare] = pending
  BY <1>1, <1>2, <1>3 DEF IInv, ControlInv
<1>6. ControlInv'
  BY <1>1, <1>3, <1>4, <1>5 DEF IInv, ControlInv
<1>7. RebuildInv'
  BY <1>1, NoRebuild DEF IInv
<1> QED BY <1>3, <1>6, <1>7 DEF IInv

\* Leaving eviction keeps the invariant, whether or not the table then shrinks.
LEMMA EvictEndsInv ==
  ASSUME IInv, EvictEnds
  PROVE  IInv'
<1>1. /\ pc = "evict" /\ pending' = None /\ spare' = None /\ went' = 0
      /\ UNCHANGED table /\ UNCHANGED walk
  BY DEF EvictEnds
<1>2. TableInv' /\ UNCHANGED <<capacity, len>>
  BY <1>1, SameTable DEF IInv
<1>3. RebuildInv' /\ pc' \in {"idle", "rehash"}
  <2>1. CASE shrink(len)
    BY <1>1, <1>2, <2>1, ShrinkStarts DEF IInv
  <2>2. CASE pc' = "idle" /\ UNCHANGED build
    BY <1>1, <2>2, NoRebuild DEF IInv
  <2> QED BY <2>1, <2>2 DEF EvictEnds
<1>4. ControlInv'
  BY <1>1, <1>2, <1>3 DEF IInv, ControlInv
<1> QED BY <1>2, <1>3, <1>4 DEF IInv

\* Starting a sweep keeps the invariant.
LEMMA SweepInv ==
  ASSUME IInv, NEW from \in Saved, NEW now \in Times, Sweep(from, now)
  PROVE  IInv'
<1>1. /\ pc = "idle" /\ pc' = "sweep" /\ UNCHANGED table /\ UNCHANGED <<pending, spare, went>>
      /\ UNCHANGED build
      /\ walk' = [at |-> Start(from), now |-> now,
                  left |-> IF SWEEP_BUDGET < capacity THEN SWEEP_BUDGET ELSE capacity]
  BY DEF Sweep, Idle
<1>2. TableInv' /\ UNCHANGED capacity
  BY <1>1, SameTable DEF IInv
<1>3. capacity \in Nat /\ Start(from) \in Slots(capacity) /\ capacity \in Capacities
  <2>1. capacity \in Nat
    BY TableFacts DEF IInv
  <2>2. timed > 0 /\ timed = Cardinality(Timed(capacity, ctrl, slots))
    BY DEF Sweep, IInv, TableInv
  <2>8. Timed(capacity, ctrl, slots) # {}
    BY <2>2, FS_EmptySet
  <2>9. capacity \in Capacities
    BY <2>8, TableFacts DEF IInv, Timed, FullSlots
  <2>3. capacity \in Capacities /\ capacity > 0
    BY <2>9, SizesAssumption
  <2>4. PICK c \in Capacities : from \in Slots(c)
    BY DEF Saved
  <2>5. c \in Nat
    BY SizesAssumption
  <2>6. from \in Nat
    BY <2>4, <2>5 DEF Slots
  <2>7. from % capacity \in 0..(capacity - 1)
    BY <2>1, <2>3, <2>6
  <2> QED BY <2>1, <2>3, <2>7 DEF Start, Slots
<1>4. /\ walk' \in [at : Nat, left : Nat, now : Times \cup {None}]
      /\ walk'.at = Start(from) /\ walk'.now # None
  <2>1. Start(from) \in Nat
    BY <1>3 DEF Slots
  <2> QED BY <1>1, <1>3, <2>1, SizesAssumption, MarkersAssumption
<1>5. ControlInv'
  BY <1>1, <1>2, <1>3, <1>4 DEF IInv, ControlInv
<1>6. RebuildInv'
  BY <1>1, NoRebuild DEF IInv
<1> QED BY <1>2, <1>5, <1>6 DEF IInv

\* A sweep's visit to a slot keeps the invariant.
LEMMA SweepSlotInv ==
  ASSUME IInv, SweepSlot
  PROVE  IInv'
<1>1. /\ pc = "sweep" /\ walk.left > 0 /\ UNCHANGED <<pc, pending, spare>> /\ UNCHANGED build
      /\ walk' = [walk EXCEPT !.at = (@ + 1) % capacity, !.left = @ - 1]
  BY DEF SweepSlot
<1>2. /\ walk \in [at : Nat, left : Nat, now : Times \cup {None}] /\ walk.now # None
      /\ capacity \in Capacities /\ capacity \in Nat /\ capacity > 0
  BY <1>1, SizesAssumption DEF IInv, ControlInv
<1>3. TableInv' /\ capacity' = capacity /\ went' \in Nat
  <2>1. CASE UNCHANGED <<table, went>>
    BY <2>1, SameTable DEF IInv, ControlInv
  <2>2. CASE walk.at \in FullSlots /\ erase(walk.at) /\ went' = went + 1
    BY <2>2, EraseInv DEF IInv, ControlInv
  <2> QED BY <2>1, <2>2 DEF SweepSlot
<1>4. /\ walk' \in [at : Nat, left : Nat, now : Times \cup {None}]
      /\ walk'.at \in Slots(capacity) /\ walk'.now # None
  <2>1. (walk.at + 1) % capacity \in Slots(capacity)
    BY <1>2 DEF Slots
  <2>2. (walk.at + 1) % capacity \in Nat /\ walk.left - 1 \in Nat
    BY <1>1, <1>2
  <2>3. walk'.at = (walk.at + 1) % capacity /\ walk'.left = walk.left - 1 /\ walk'.now = walk.now
        /\ walk' \in [at : {walk'.at}, left : {walk'.left}, now : {walk'.now}]
    BY <1>1, <1>2
  <2> QED BY <1>2, <2>1, <2>2, <2>3
<1>5. ControlInv'
  BY <1>1, <1>2, <1>3, <1>4 DEF IInv, ControlInv
<1>6. RebuildInv'
  BY <1>1, NoRebuild DEF IInv
<1> QED BY <1>3, <1>5, <1>6 DEF IInv

\* Leaving a sweep keeps the invariant, whether or not the table then shrinks.
LEMMA SweepEndsInv ==
  ASSUME IInv, SweepEnds
  PROVE  IInv'
<1>1. /\ pc = "sweep" /\ walk' = NoWalk /\ went' = 0
      /\ UNCHANGED table /\ UNCHANGED <<pending, spare>> /\ pending = None
  BY DEF SweepEnds, IInv, ControlInv
<1>2. TableInv' /\ UNCHANGED <<capacity, len>>
  BY <1>1, SameTable DEF IInv
<1>3. RebuildInv' /\ pc' \in {"idle", "rehash"}
  <2>1. CASE shrink(len)
    BY <1>1, <1>2, <2>1, ShrinkStarts DEF IInv
  <2>2. CASE pc' = "idle" /\ UNCHANGED build
    BY <1>1, <2>2, NoRebuild DEF IInv
  <2> QED BY <2>1, <2>2 DEF SweepEnds
<1>4. ControlInv'
  BY <1>1, <1>2, <1>3 DEF IInv, ControlInv, NoWalk
<1> QED BY <1>2, <1>3, <1>4 DEF IInv

\* clear keeps the invariant.
LEMMA ClearInv ==
  ASSUME IInv, Clear
  PROVE  IInv'
<1>1. /\ pc = "idle" /\ UNCHANGED <<capacity, pending, spare, went, walk>> /\ pending = None
      /\ ctrl' = [at \in Slots(capacity) |-> EMPTY]
      /\ slots' = [at \in Slots(capacity) |-> None]
      /\ len' = 0 /\ tombstones' = 0 /\ timed' = 0 /\ growth_left' = Load(capacity)
      /\ shrink(0)
  BY DEF Clear, Idle, IInv, ControlInv
<1>2. /\ Arrays(capacity, ctrl', slots') /\ Full(capacity, ctrl') = {}
      /\ Dead(capacity, ctrl') = {} /\ Timed(capacity, ctrl', slots') = {}
  BY <1>1, EmptyArrays
<1>3. Load(capacity) \in Nat /\ capacity \in Capacities \cup {0}
  BY LoadFacts DEF IInv, TableInv
<1>4. TableInv'
  BY <1>1, <1>2, <1>3, FS_EmptySet DEF TableInv, FullSlots
<1>5. RebuildInv' /\ pc' \in {"idle", "rehash"}
  BY <1>1, <1>4, ShrinkStarts DEF IInv
<1>6. ControlInv'
  BY <1>1, <1>5 DEF IInv, ControlInv
<1> QED BY <1>4, <1>5, <1>6 DEF IInv

\* Every step of every call keeps the invariant.
LEMMA NextInv ==
  ASSUME IInv, [Next]_vars
  PROVE  IInv'
<1>1. CASE \E k \in Keys, now \in Times : Get(k, now)
  BY <1>1, GetInv
<1>2. CASE \E k \in Keys : Remove(k)
  BY <1>2, RemoveInv
<1>3. CASE \E k \in Keys, x \in Deadline, now \in Times : Expire(k, x, now)
  BY <1>3, ExpireInv
<1>4. CASE \E k \in Keys, v \in Values, x \in Deadline : Set(k, v, x)
  BY <1>4, SetInv
<1>5. CASE \E from \in Saved, now \in Times : Sweep(from, now)
  BY <1>5, SweepInv
<1>6. CASE Clear
  BY <1>6, ClearInv
<1>7. CASE Refuse
  BY <1>7, RefuseInv
<1>8. CASE Replace
  BY <1>8, ReplaceInv
<1>9. CASE Insert
  BY <1>9, InsertStepInv
<1>10. CASE Fit
  BY <1>10, FitInv
<1>11. CASE Evict
  BY <1>11, EvictInv
<1>12. CASE EvictEnds
  BY <1>12, EvictEndsInv
<1>13. CASE SweepSlot
  BY <1>13, SweepSlotInv
<1>14. CASE SweepEnds
  BY <1>14, SweepEndsInv
<1>15. CASE RehashSlot
  <2>1. UNCHANGED table /\ UNCHANGED <<pc, pending, spare, went, walk>> /\ pc = "rehash"
    BY <1>15 DEF RehashSlot
  <2>2. TableInv'
    BY <2>1, SameTable DEF IInv
  <2>3. ControlInv'
    BY <2>1 DEF IInv, ControlInv
  <2> QED BY <1>15, <2>2, <2>3, RehashSlotInv DEF IInv
<1>16. CASE RehashEnds
  BY <1>16, RehashEndsInv
<1>17. CASE UNCHANGED vars
  <2>1. UNCHANGED table /\ UNCHANGED <<pc, pending, spare, went, walk>>
        /\ UNCHANGED <<new_capacity, new_ctrl, new_slots, reading>>
    BY <1>17 DEF vars, locals, build
  <2>2. TableInv' /\ FullSlots' = FullSlots /\ UNCHANGED <<capacity, ctrl, slots, len, growth_left>>
    BY <2>1, SameTable DEF IInv
  <2>3. ControlInv'
    BY <2>1, <2>2 DEF IInv, ControlInv, Absent
  <2>4. RebuildInv'
    BY <2>1, <2>2 DEF IInv, RebuildInv, Absent, Read
  <2> QED BY <2>2, <2>3, <2>4 DEF IInv
<1> QED BY <1>1, <1>2, <1>3, <1>4, <1>5, <1>6, <1>7, <1>8, <1>9, <1>10, <1>11, <1>12,
           <1>13, <1>14, <1>15, <1>16, <1>17 DEF Next, Calls, Steps

\* A new shard satisfies the invariant: no slots, nothing stored.
LEMMA InitInv == Init => IInv
<1> SUFFICES ASSUME Init PROVE IInv
  OBVIOUS
<1>1. Slots(0) = {}
  BY DEF Slots
<1>2. ctrl = [at \in Slots(0) |-> EMPTY] /\ slots = [at \in Slots(0) |-> None] /\ capacity = 0
  BY <1>1 DEF Init
<1>3. /\ Arrays(0, ctrl, slots) /\ Full(0, ctrl) = {} /\ Dead(0, ctrl) = {}
      /\ Timed(0, ctrl, slots) = {}
  BY <1>2, EmptyArrays
<1>4. TableInv
  <2>1. len = 0 /\ tombstones = 0 /\ timed = 0 /\ growth_left = 0
    BY DEF Init
  <2>2. Cardinality({}) = 0 /\ Load(0) = 0
    BY LoadFacts, FS_EmptySet
  <2>3. /\ Arrays(capacity, ctrl, slots) /\ len = Cardinality(FullSlots)
        /\ tombstones = Cardinality(Dead(capacity, ctrl))
        /\ timed = Cardinality(Timed(capacity, ctrl, slots))
    BY <1>2, <1>3, <2>1, <2>2 DEF FullSlots
  <2>4. len + tombstones + growth_left = Load(capacity) /\ growth_left \in Nat
    BY <1>2, <2>1, <2>2
  <2> QED BY <1>2, <2>3, <2>4 DEF TableInv
<1>5. ControlInv
  BY DEF ControlInv, Init, NoWalk
<1>6. RebuildInv
  BY DEF RebuildInv, Init
<1> QED BY <1>4, <1>5, <1>6 DEF IInv

\* The inductive invariant holds in every reachable state of the shard.
THEOREM Invariance == Spec => []IInv
<1>1. IInv /\ [Next]_vars => IInv'
  BY NextInv
<1> QED BY <1>1, InitInv, PTL DEF Spec

-----------------------------------------------------------------------------
(* What the runs check on small instances, for every instance. *)

\* The types and the correspondence of control bytes and slots, of every state.
THEOREM TypeCorrect == Spec => []TypeOK
<1>1. IInv => TypeOK
  <2> SUFFICES ASSUME IInv PROVE TypeOK
    OBVIOUS
  <2>1. /\ capacity \in Capacities \cup {0} /\ Held(capacity, ctrl, slots)
        /\ capacity \in Nat
    BY TableFacts DEF IInv, TableInv, Arrays
  <2>2. /\ ctrl \in [Slots(capacity) -> Marks]
        /\ slots \in [Slots(capacity) -> Entry \cup {None}]
        /\ \A at \in Slots(capacity) :
             IF at \in FullSlots THEN slots[at] \in Entry /\ ctrl[at] = Tag[slots[at].key]
                                 ELSE slots[at] = None
    BY <2>1 DEF Held, FullSlots
  <2>3. len \in Nat /\ tombstones \in Nat /\ timed \in Nat /\ growth_left \in Nat
    BY TableFacts DEF IInv
  <2>4. spare \in Slots(capacity) \cup {None}
    BY TableFacts DEF IInv, ControlInv
  <2>5. walk.left > 0 => walk.at \in Slots(capacity)
    BY DEF IInv, ControlInv, NoWalk
  <2>6. /\ new_capacity \in Capacities \cup {0}
        /\ new_ctrl \in [Slots(new_capacity) -> {EMPTY} \cup Tags]
        /\ new_slots \in [Slots(new_capacity) -> Entry \cup {None}]
        /\ reading \in 0..capacity
    <3>1. CASE pc = "rehash"
      <4>1. Held(new_capacity, new_ctrl, new_slots) /\ Dead(new_capacity, new_ctrl) = {}
            /\ new_capacity \in Capacities /\ reading \in 0..capacity
        BY <3>1 DEF IInv, RebuildInv, Arrays
      <4>2. \A at \in Slots(new_capacity) : new_ctrl[at] \in {EMPTY} \cup Tags
        BY <4>1 DEF Held, Dead, Marks
      <4> QED BY <4>1, <4>2 DEF Held
    <3>2. CASE pc # "rehash"
      <4>1. new_capacity = 0 /\ new_ctrl = <<>> /\ new_slots = <<>> /\ reading = 0
        BY <3>2 DEF IInv, RebuildInv
      <4>2. Slots(0) = {}
        BY DEF Slots
      <4> QED BY <2>1, <4>1, <4>2
    <3> QED BY <3>1, <3>2
  <2>7. /\ pc \in {"idle", "rehash", "write", "fit", "evict", "sweep"}
        /\ pending \in Entry \cup {None} /\ went \in Nat
        /\ walk \in [at : Nat, left : Nat, now : Times \cup {None}]
    BY DEF IInv, ControlInv
  <2> QED BY <2>1, <2>2, <2>3, <2>4, <2>5, <2>6, <2>7 DEF TypeOK
<1> QED BY <1>1, Invariance, PTL

\* len, tombstones, timed and growth_left count exactly, in every state.
THEOREM CountersExact == Spec => []Accounted
<1>1. IInv => Accounted
  BY DEF IInv, TableInv, Accounted, Dead, Timed, TimedSlots, FullSlots
<1> QED BY <1>1, Invariance, PTL

\* find answers for every stored entry, at its slot and nowhere else.
THEOREM EntriesFound == Spec => []EveryEntryFound
<1>1. IInv => EveryEntryFound
  BY FindFacts DEF IInv, TableInv, EveryEntryFound
<1> QED BY <1>1, Invariance, PTL

\* An insert that follows a rebuild always has growth to spend.
THEOREM RoomMade == Spec => []ReserveMakesRoom
<1>1. IInv => ReserveMakesRoom
  <2> SUFFICES ASSUME IInv, pc = "write", ~Present(pending.key) PROVE growth_left > 0
    BY DEF ReserveMakesRoom
  <2>1. Arrays(capacity, ctrl, slots) /\ pending \in Entry /\ pending.key \in Keys
    BY DEF IInv, TableInv, ControlInv, Entry
  <2> QED BY <2>1, FindFacts DEF IInv, ControlInv
<1> QED BY <1>1, Invariance, PTL

\* Eviction never takes, and never moves, the entry it is making room for.
THEOREM SpareKept == Spec => []SpareHeld
<1>1. IInv => SpareHeld
  BY DEF IInv, ControlInv, SpareHeld
<1> QED BY <1>1, Invariance, PTL

-----------------------------------------------------------------------------
(* The triangular walk. *)

\* A multiple leaves no rest.
LEMMA TimesRest ==
  ASSUME NEW d \in Nat, d > 0, NEW f \in Nat
  PROVE  (d * f) % d = 0
<1>1. PICK n \in Nat : n = d * f
  OBVIOUS
<1>2. PICK p \in Int, r \in 0 .. d - 1 : r = n % d /\ n = d * p + r
  <2>1. n % d \in 0 .. d - 1 /\ n \div d \in Int /\ n = d * (n \div d) + (n % d)
    OBVIOUS
  <2> QED BY <2>1
<1>3. d * (f - p) = r
  <2>1. d * (f - p) = d * f - d * p /\ d * p \in Int /\ d * f \in Int
    OBVIOUS
  <2> QED BY <1>1, <1>2, <2>1
<1>4. PICK k \in Int : k = f - p
  OBVIOUS
<1>5. ASSUME k > 0 PROVE FALSE
  <2>1. PICK e \in Nat : k = e + 1
    <3>1. k - 1 \in Nat /\ k = (k - 1) + 1
      BY <1>5
    <3> QED BY <3>1
  <2>2. d * k = d * e + d /\ d * e \in Nat
    BY <2>1
  <2> QED BY <1>3, <1>4, <2>2
<1>6. ASSUME k < 0 PROVE FALSE
  <2>1. PICK e \in Nat : k = -(e + 1)
    <3>1. -k - 1 \in Nat /\ k = -((-k - 1) + 1)
      BY <1>6
    <3> QED BY <3>1
  <2>2. d * k = -(d * e) - d /\ d * e \in Nat
    BY <2>1
  <2> QED BY <1>3, <1>4, <2>2
<1>7. k = 0
  BY <1>5, <1>6
<1>8. r = 0
  <2>1. d * 0 = 0
    OBVIOUS
  <2> QED BY <1>3, <1>4, <1>7, <2>1
<1> QED BY <1>1, <1>2, <1>8

\* Numbers with the same rest are a multiple apart.
LEMMA SameRest ==
  ASSUME NEW n \in Nat, n > 0, NEW a \in Nat, NEW b \in Nat, a % n = b % n
  PROVE  \E q \in Int : b - a = n * q
<1>1. PICK p \in Int, r \in Int : a = n * p + r /\ r = a % n
  OBVIOUS
<1>2. PICK m \in Int : b = n * m + r
  <2>1. b = n * (b \div n) + (b % n) /\ b \div n \in Int
    OBVIOUS
  <2> QED BY <1>1, <2>1
<1>3. n * (m - p) = n * m - n * p /\ n * m \in Int /\ n * p \in Int
  OBVIOUS
<1>4. b - a = n * (m - p)
  BY <1>1, <1>2, <1>3
<1> QED BY <1>4

\* A product of positive numbers is one.
LEMMA Positive ==
  ASSUME NEW a \in Nat, a > 0, NEW b \in Nat, b > 0
  PROVE  a * b \in Nat /\ a * b > 0
<1>1. PICK c \in Nat : a = c + 1
  <2>1. a - 1 \in Nat /\ a = (a - 1) + 1
    OBVIOUS
  <2> QED BY <2>1
<1>2. (c + 1) * b = c * b + b /\ c * b \in Nat
  OBVIOUS
<1> QED BY <1>1, <1>2

\* Every nonempty set of numbers has a least one.
LEMMA LeastNumber ==
  ASSUME NEW T, T \subseteq Nat, T # {}
  PROVE  \E n \in T : \A m \in T : n <= m
<1>1. IsWellFoundedOn(OpToRel(<, Nat), Nat)
  BY NatLessThanWellFounded
<1>2. PICK n \in T : \A m \in T : ~(<<m, n>> \in OpToRel(<, Nat))
  BY <1>1, WFMin
<1>3. ASSUME NEW m \in T PROVE n <= m
  <2>1. ~(m < n)
    BY <1>2 DEF OpToRel
  <2> QED BY <2>1
<1> QED BY <1>3

\* n divides what an odd number is multiplied with, when it divides the product.
OddTimes(h, b, n, q) == (2 * h + 1) * b = n * q
Cancels(n) == \A h, b, q \in Nat : OddTimes(h, b, n, q) => \E r \in Nat : b = n * r

\* Half of a power of two is one.
LEMMA HalfPower ==
  ASSUME NEW n \in Nat, n > 1, PowerOfTwo(n)
  PROVE  \E m \in Nat : m > 0 /\ n = 2 * m /\ PowerOfTwo(m)
<1>1. n % 2 = 0
  <2>1. n \in 1 .. n /\ n % n = 0 /\ n # 1
    OBVIOUS
  <2> QED BY <2>1 DEF PowerOfTwo
<1>2. PICK m \in Nat : n = 2 * m /\ m > 0
  BY <1>1
<1>3. ASSUME NEW d \in 1 .. m, m % d = 0
      PROVE  d = 1 \/ d % 2 = 0
  <2>1. PICK e \in Nat : m = d * e
    <3>1. d \in Nat /\ d > 0
      OBVIOUS
    <3>2. m \div d \in Nat /\ m = d * (m \div d) + (m % d)
      BY <3>1
    <3>3. d * (m \div d) \in Int
      BY <3>1, <3>2
    <3>4. m = d * (m \div d)
      BY <1>3, <3>2, <3>3
    <3> QED BY <3>2, <3>4
  <2>2. PICK f \in Nat : f = 2 * e
    OBVIOUS
  <2>3. n = d * f
    <3>1. d * f = 2 * (d * e)
      BY <2>2
    <3> QED BY <1>2, <2>1, <3>1
  <2>4. n % d = 0
    <3>1. d \in Nat /\ d > 0
      OBVIOUS
    <3>2. (d * f) % d = 0
      BY <3>1, TimesRest
    <3> QED BY <2>3, <3>2
  <2>5. d \in 1 .. n
    BY <1>2
  <2> QED BY <2>4, <2>5 DEF PowerOfTwo
<1> QED BY <1>2, <1>3 DEF PowerOfTwo

\* A power of two divides what an odd number is multiplied with.
LEMMA OddCancels ==
  ASSUME NEW n \in Nat, n > 0, PowerOfTwo(n)
  PROVE  Cancels(n)
<1> DEFINE T == {m \in Nat : m > 0 /\ PowerOfTwo(m) /\ ~Cancels(m)}
<1> SUFFICES ASSUME T # {} PROVE FALSE
  OBVIOUS
<1>1. PICK k \in T : \A m \in T : k <= m
  <2>1. T \subseteq Nat
    OBVIOUS
  <2> HIDE DEF T
  <2> QED BY <2>1, LeastNumber
<1>2. k \in Nat /\ k > 0 /\ PowerOfTwo(k) /\ ~Cancels(k)
  OBVIOUS
<1>3. k # 1
  <2>1. Cancels(1)
    <3> SUFFICES ASSUME NEW h \in Nat, NEW b \in Nat PROVE \E r \in Nat : b = 1 * r
      BY DEF Cancels
    <3> QED OBVIOUS
  <2> QED BY <1>2, <2>1
<1>4. PICK m \in Nat : m > 0 /\ k = 2 * m /\ PowerOfTwo(m)
  <2>1. k > 1
    BY <1>2, <1>3
  <2> QED BY <1>2, <2>1, HalfPower
<1>5. Cancels(m)
  BY <1>1, <1>2, <1>4
<1>6. Cancels(k)
  <2> SUFFICES ASSUME NEW h \in Nat, NEW b \in Nat, NEW q \in Nat, (2 * h + 1) * b = k * q
               PROVE  \E r \in Nat : b = k * r
    BY DEF Cancels, OddTimes
  <2>1. PICK x \in Nat, y \in Nat : x = h * b /\ y = m * q
    OBVIOUS
  <2>2. (2 * h + 1) * b = 2 * x + b /\ k * q = 2 * y
    <3>1. (2 * h + 1) * b = 2 * (h * b) + b
      OBVIOUS
    <3>2. (2 * m) * q = 2 * (m * q)
      OBVIOUS
    <3> QED BY <1>4, <2>1, <3>1, <3>2
  <2>3. 2 * x + b = 2 * y
    BY <2>2
  <2>4. PICK c \in Nat : b = 2 * c /\ c = y - x
    <3>1. y - x \in Nat /\ b = 2 * (y - x)
      BY <2>3
    <3> QED BY <3>1
  <2>5. (2 * h + 1) * c = m * q
    <3>1. (2 * h + 1) * c = 2 * (h * c) + c /\ h * c \in Nat
      OBVIOUS
    <3>2. h * b = 2 * (h * c)
      BY <2>4
    <3>3. 2 * (h * c) + c = y
      BY <2>1, <2>4, <3>1, <3>2
    <3> QED BY <2>1, <3>1, <3>3
  <2>6. PICK r \in Nat : c = m * r
    <3>1. OddTimes(h, c, m, q)
      BY <2>5 DEF OddTimes
    <3> QED BY <1>5, <3>1 DEF Cancels
  <2>7. b = k * r
    <3>1. (2 * m) * r = 2 * (m * r)
      OBVIOUS
    <3> QED BY <1>4, <2>4, <2>6, <3>1
  <2> QED BY <2>7
<1> QED BY <1>2, <1>6

\* The sum of the numbers to i.
LEMMA Triangle ==
  ASSUME NEW i \in Nat
  PROVE  (i * (i + 1)) \div 2 \in Nat /\ 2 * ((i * (i + 1)) \div 2) = i * (i + 1)
<1>1. PICK h \in Nat : i = 2 * h \/ i = 2 * h + 1
  <2>1. i \div 2 \in Nat /\ (i = 2 * (i \div 2) \/ i = 2 * (i \div 2) + 1)
    OBVIOUS
  <2> QED BY <2>1
<1>2. PICK e \in Nat : i * (i + 1) = 2 * e
  <2>1. CASE i = 2 * h
    <3>1. i * (i + 1) = 2 * (h * (i + 1)) /\ h * (i + 1) \in Nat
      BY <2>1
    <3> QED BY <3>1
  <2>2. CASE i = 2 * h + 1
    <3>1. i + 1 = 2 * (h + 1)
      BY <2>2
    <3>2. i * (2 * (h + 1)) = 2 * (i * (h + 1)) /\ i * (h + 1) \in Nat
      OBVIOUS
    <3> QED BY <3>1, <3>2
  <2> QED BY <1>1, <2>1, <2>2
<1>3. (2 * e) \div 2 = e
  OBVIOUS
<1> QED BY <1>2, <1>3

\* No group comes up twice in a walk of n groups.
LEMMA NoGroupTwice ==
  ASSUME NEW n \in Nat, n > 0, PowerOfTwo(n), NEW start \in Nat,
         NEW i \in 0 .. n - 1, NEW j \in 0 .. n - 1, i < j
  PROVE  (start + (i * (i + 1)) \div 2) % n # (start + (j * (j + 1)) \div 2) % n
<1>1. PICK s \in Nat : s = (i * (i + 1)) \div 2 /\ 2 * s = i * (i + 1)
  BY Triangle
<1>2. PICK t \in Nat : t = (j * (j + 1)) \div 2 /\ 2 * t = j * (j + 1)
  BY Triangle
<1> SUFFICES ASSUME (start + s) % n = (start + t) % n PROVE FALSE
  BY <1>1, <1>2
<1>3. PICK x \in 1 .. n - 1 : x = j - i
  OBVIOUS
<1>4. PICK y \in 1 .. 2 * n - 1 : y = i + j + 1
  OBVIOUS
<1>5. x * y = 2 * t - 2 * s
  <2>1. (j - i) * (i + j + 1) = j * (j + 1) - i * (i + 1)
    OBVIOUS
  <2> QED BY <1>1, <1>2, <1>3, <1>4, <2>1
<1>6. x * y \in Nat /\ x * y > 0
  BY Positive
<1>7. PICK q \in Nat : t - s = n * q
  <2>1. PICK q \in Int : (start + t) - (start + s) = n * q
    <3>1. start + t \in Nat /\ start + s \in Nat
      OBVIOUS
    <3> QED BY <3>1, SameRest
  <2>2. t - s > 0
    BY <1>5, <1>6
  <2>3. q >= 0
    <3> SUFFICES ASSUME q < 0 PROVE FALSE
      BY <2>1
    <3>1. PICK z \in Nat : q = -z
      <4>1. -q \in Nat /\ q = -(-q)
        OBVIOUS
      <4> QED BY <4>1
    <3>2. n * q = -(n * z) /\ n * z \in Nat
      BY <3>1
    <3> QED BY <2>1, <2>2, <3>2
  <2> QED BY <2>1, <2>3
<1>8. x * y = 2 * (n * q) /\ n * q \in Nat
  BY <1>5, <1>7
<1>9. Cancels(n)
  BY OddCancels
<1>10. ASSUME NEW h \in Nat, NEW b \in 1 .. n - 1, (2 * h + 1) * b = n * q
       PROVE  FALSE
  <2>1. PICK r \in Nat : b = n * r
    <3>1. b \in Nat
      OBVIOUS
    <3>2. OddTimes(h, b, n, q)
      BY <1>10 DEF OddTimes
    <3> QED BY <1>9, <3>1, <3>2 DEF Cancels
  <2>2. CASE r = 0
    <3>1. n * 0 = 0
      OBVIOUS
    <3> QED BY <2>1, <2>2, <3>1
  <2>3. CASE r # 0
    <3>1. PICK p \in Nat : r = p + 1
      <4>1. r - 1 \in Nat /\ r = (r - 1) + 1
        BY <2>3
      <4> QED BY <4>1
    <3>2. n * (p + 1) = n * p + n /\ n * p \in Nat
      OBVIOUS
    <3> QED BY <2>1, <3>1, <3>2
  <2> QED BY <2>2, <2>3
<1>11. CASE x % 2 = 1
  <2>1. PICK h \in Nat : x = 2 * h + 1
    BY <1>11
  <2>2. PICK b \in 1 .. n - 1 : y = 2 * b
    <3>1. y % 2 = 0
      BY <1>3, <1>4, <1>11
    <3>2. y \div 2 \in 1 .. n - 1 /\ y = 2 * (y \div 2)
      BY <3>1
    <3> QED BY <3>2
  <2>3. x * (2 * b) = 2 * (x * b) /\ x * b \in Nat
    OBVIOUS
  <2>4. x * b = n * q
    BY <1>8, <2>2, <2>3
  <2> QED BY <1>10, <2>1, <2>4
<1>12. CASE x % 2 = 0
  <2>1. PICK h \in Nat : y = 2 * h + 1
    BY <1>3, <1>4, <1>12
  <2>2. PICK b \in 1 .. n - 1 : x = 2 * b
    <3>1. x \div 2 \in 1 .. n - 1 /\ x = 2 * (x \div 2)
      BY <1>12
    <3> QED BY <3>1
  <2>3. (2 * b) * y = 2 * (y * b) /\ y * b \in Nat
    OBVIOUS
  <2>4. y * b = n * q
    BY <1>8, <2>2, <2>3
  <2> QED BY <1>10, <2>1, <2>4
<1> QED BY <1>11, <1>12

\* The triangular walk of find, free_slot and rehash reaches every group.
LEMMA WalkReaches ==
  ASSUME NEW n \in Nat, n > 0, PowerOfTwo(n), NEW start \in Nat, NEW g \in 0 .. n - 1
  PROVE  \E i \in 0 .. n - 1 : (start + (i * (i + 1)) \div 2) % n = g
<1> DEFINE S == 0 .. n - 1
           f == [i \in S |-> (start + (i * (i + 1)) \div 2) % n]
<1> SUFFICES ASSUME \A i \in S : f[i] # g PROVE FALSE
  OBVIOUS
<1>1. \A i \in S : f[i] \in S
  <2> SUFFICES ASSUME NEW i \in S PROVE (start + (i * (i + 1)) \div 2) % n \in S
    OBVIOUS
  <2>1. PICK t \in Nat : t = (i * (i + 1)) \div 2
    BY Triangle
  <2>2. (start + t) % n \in S
    OBVIOUS
  <2> QED BY <2>1, <2>2
<1>2. f \in [S -> S \ {g}]
  BY <1>1
<1>3. IsFiniteSet(S) /\ Cardinality(S) = n
  BY FS_Interval
<1>4. IsFiniteSet(S \ {g}) /\ Cardinality(S \ {g}) = n - 1
  BY <1>3, FS_RemoveElement
<1>5. \E i, j \in S : i # j /\ f[i] = f[j]
  <2>1. Cardinality(S \ {g}) < Cardinality(S)
    BY <1>3, <1>4
  <2> HIDE DEF S, f
  <2> QED BY <1>2, <1>3, <1>4, <2>1, FS_PigeonHole
<1>6. PICK i \in S, j \in S : i < j /\ f[i] = f[j]
  BY <1>5
<1>7. f[i] # f[j]
  BY <1>6, NoGroupTwice
<1> QED BY <1>6, <1>7

-----------------------------------------------------------------------------
(* Every probe ends. *)

\* Arrays within their load limit leave every probe a group to stop at.
LEMMA EmptyLane ==
  ASSUME NEW c \in Capacities, NEW ct \in [Slots(c) -> Marks], NEW k \in Keys,
         Cardinality(Full(c, ct)) + Cardinality(Dead(c, ct)) <= Load(c)
  PROVE  \E i \in 0..(Groups(c) - 1) : HasMark(c, ct, Probe[c][k][i], {EMPTY})
<1> DEFINE F == Full(c, ct)
           D == Dead(c, ct)
<1>1. c \in Nat /\ F \in SUBSET Slots(c) /\ D \in SUBSET Slots(c)
  BY SizesAssumption DEF Full, Dead
<1>2. F \cap D = {}
  BY DEF Full, Dead
<1>3. IsFiniteSet(F) /\ IsFiniteSet(D) /\ Cardinality(F) \in Nat /\ Cardinality(D) \in Nat
  BY <1>1, FiniteSlots
<1>4. Cardinality(F \cup D) = Cardinality(F) + Cardinality(D)
  <2> HIDE DEF F, D
  <2>1. Cardinality(F \cup D) = Cardinality(F) + Cardinality(D) - Cardinality(F \cap D)
    BY <1>3, FS_Union
  <2>2. Cardinality(F \cap D) = 0
    BY <1>2, FS_EmptySet
  <2> QED BY <1>3, <2>1, <2>2
<1>5. Slots(c) # F \cup D
  <2>1. Cardinality(Slots(c)) = c
    BY <1>1, FS_Interval DEF Slots
  <2>2. Load(c) < c /\ Load(c) \in Nat
    BY LoadFacts
  <2>3. Cardinality(F \cup D) < c
    BY <1>1, <1>3, <1>4, <2>2
  <2> HIDE DEF F, D
  <2>4. ASSUME Slots(c) = F \cup D PROVE FALSE
    <3>1. Cardinality(F \cup D) = c
      BY <2>1, <2>4
    <3> QED BY <1>1, <2>3, <3>1
  <2> QED BY <2>4
<1>6. PICK at \in Slots(c) : ct[at] = EMPTY
  BY <1>5 DEF Full, Dead
<1>7. GroupOf(at) \in 0..(Groups(c) - 1) /\ at \in Lanes[c][GroupOf(at)]
  BY GroupFacts
<1>8. PICK i \in 0..(Groups(c) - 1) : Probe[c][k][i] = GroupOf(at)
  <2>1. PICK n \in Nat, g \in Nat : n = Groups(c) /\ g = GroupOf(at) /\ g \in 0..(n - 1)
    BY <1>1, <1>7, SizesAssumption DEF Groups
  <2>2. n > 0 /\ PowerOfTwo(n)
    BY <2>1, GroupsAssumption
  <2>3. PICK start \in Nat : start = GroupHash[k]
    BY SizesAssumption
  <2>4. PICK i \in 0..(n - 1) : (start + (i * (i + 1)) \div 2) % n = g
    BY <2>1, <2>2, WalkReaches
  <2>5. Probe[c][k][i] = (GroupHash[k] + (i * (i + 1)) \div 2) % Groups(c)
    BY <2>1 DEF Probe
  <2> QED BY <2>1, <2>3, <2>4, <2>5
<1> QED BY <1>6, <1>7, <1>8 DEF HasMark

\* No probe loop, in the table or in a rebuild, runs for ever.
THEOREM ProbesEnd == Spec => []ProbeEnds
<1>1. IInv => ProbeEnds
  <2> SUFFICES ASSUME IInv, NEW k \in Keys
               PROVE  /\ capacity > 0 =>
                           \E i \in 0..(Groups(capacity) - 1) :
                             HasMark(capacity, ctrl, Probe[capacity][k][i], {EMPTY})
                      /\ pc = "rehash" =>
                           \E i \in 0..(Groups(new_capacity) - 1) :
                             HasMark(new_capacity, new_ctrl, Probe[new_capacity][k][i], {EMPTY})
    BY DEF ProbeEnds
  <2>1. ASSUME capacity > 0
        PROVE  \E i \in 0..(Groups(capacity) - 1) :
                 HasMark(capacity, ctrl, Probe[capacity][k][i], {EMPTY})
    <3>1. capacity \in Capacities /\ ctrl \in [Slots(capacity) -> Marks]
      BY <2>1 DEF IInv, TableInv, Arrays, Held
    <3>2. Cardinality(Full(capacity, ctrl)) + Cardinality(Dead(capacity, ctrl)) <= Load(capacity)
      <4>1. /\ len = Cardinality(Full(capacity, ctrl))
            /\ tombstones = Cardinality(Dead(capacity, ctrl))
            /\ len + tombstones + growth_left = Load(capacity)
        BY DEF IInv, TableInv, FullSlots
      <4>2. len \in Nat /\ tombstones \in Nat /\ growth_left \in Nat
        BY TableFacts DEF IInv
      <4> QED BY <4>1, <4>2
    <3> QED BY <3>1, <3>2, EmptyLane
  <2>2. ASSUME pc = "rehash"
        PROVE  \E i \in 0..(Groups(new_capacity) - 1) :
                 HasMark(new_capacity, new_ctrl, Probe[new_capacity][k][i], {EMPTY})
    <3>1. /\ new_capacity \in Capacities /\ new_ctrl \in [Slots(new_capacity) -> Marks]
          /\ Dead(new_capacity, new_ctrl) = {} /\ len <= Load(new_capacity)
          /\ Cardinality(Full(new_capacity, new_ctrl)) = Cardinality(Read)
      BY <2>2 DEF IInv, RebuildInv, Arrays, Held
    <3>2. Cardinality(Read) <= len /\ Cardinality(Read) \in Nat /\ len \in Nat
      <4>1. Read \in SUBSET FullSlots /\ IsFiniteSet(FullSlots) /\ len = Cardinality(FullSlots)
        BY TableFacts DEF Read, IInv, TableInv
      <4> QED BY <4>1, FS_Subset, FS_CardinalityType
    <3>3. Load(new_capacity) \in Nat /\ Cardinality({}) = 0
      BY <3>1, LoadFacts, FS_EmptySet
    <3>4. Cardinality(Full(new_capacity, new_ctrl)) + Cardinality(Dead(new_capacity, new_ctrl))
            <= Load(new_capacity)
      BY <3>1, <3>2, <3>3
    <3> QED BY <3>1, <3>4, EmptyLane
  <2> QED BY <2>1, <2>2
<1> QED BY <1>1, Invariance, PTL

-----------------------------------------------------------------------------
(* What a lookup finds. *)

\* Lookup in arrays other than the installed ones.
LookupIn(c, ct, sl, k) ==
  LET at == Matches(c, ct, sl, k) IN IF at = {} THEN None ELSE sl[CHOOSE a \in at : TRUE]

\* In arrays that keep the invariant, a lookup finds the entry stored under the
\* key, and nothing when there is none.
LEMMA LookupFinds ==
  ASSUME NEW c, NEW ct, NEW sl, Arrays(c, ct, sl), NEW k \in Keys
  PROVE  /\ Lacks(c, ct, sl, k) => LookupIn(c, ct, sl, k) = None
         /\ \A at \in Full(c, ct) : sl[at].key = k => LookupIn(c, ct, sl, k) = sl[at]
<1>1. ASSUME NEW at \in Matches(c, ct, sl, k) PROVE at \in Full(c, ct) /\ sl[at].key = k
  <2>1. at \in Slots(c) /\ ct[at] = Tag[k] /\ sl[at].key = k
    BY DEF Matches
  <2> QED BY <2>1, FullIsTagged DEF Arrays, Held, Tags
<1>2. ASSUME Lacks(c, ct, sl, k) PROVE LookupIn(c, ct, sl, k) = None
  <2>1. Matches(c, ct, sl, k) = {}
    BY <1>1, <1>2 DEF Lacks
  <2> QED BY <2>1 DEF LookupIn
<1>3. ASSUME NEW at \in Full(c, ct), sl[at].key = k PROVE LookupIn(c, ct, sl, k) = sl[at]
  <2>1. at \in Matches(c, ct, sl, k)
    BY <1>3 DEF Arrays, Held, Reachable, Full, Matches
  <2>2. Matches(c, ct, sl, k) = {at}
    BY <1>1, <1>3, <2>1 DEF Arrays, Distinct
  <2> QED BY <2>2 DEF LookupIn
<1> QED BY <1>2, <1>3

\* The store the table stands for.
Store == [k \in Keys |-> Lookup(k)]

\* What is stored under each key, before and after a step.
LEMMA StoreFacts ==
  ASSUME TableInv
  PROVE  /\ \A k \in Keys : Absent(k) => Store[k] = None
         /\ \A k \in Keys : ~Present(k) => Store[k] = None
         /\ \A k \in Keys : Present(k) =>
              SlotOf(k) \in FullSlots /\ slots[SlotOf(k)].key = k /\ Store[k] = slots[SlotOf(k)]
         /\ \A at \in FullSlots : slots[at].key \in Keys /\ Store[slots[at].key] = slots[at]
         /\ Store \in [Keys -> Entry \cup {None}]
<1>1. Arrays(capacity, ctrl, slots)
  BY DEF TableInv
<1>2. \A k \in Keys : Store[k] = LookupIn(capacity, ctrl, slots, k)
  BY DEF Store, Lookup, LookupIn, find
<1>3. \A k \in Keys : Absent(k) => Store[k] = None
  BY <1>1, <1>2, LookupFinds DEF Absent
<1>4. \A at \in FullSlots : slots[at] \in Entry /\ slots[at].key \in Keys
  BY TableFacts DEF Entry
<1>5. \A at \in FullSlots : Store[slots[at].key] = slots[at]
  BY <1>1, <1>2, <1>4, LookupFinds DEF FullSlots
<1>6. \A k \in Keys : Present(k) =>
        SlotOf(k) \in FullSlots /\ slots[SlotOf(k)].key = k /\ Store[k] = slots[SlotOf(k)]
  BY <1>1, <1>5, FindFacts
<1>7. \A k \in Keys : ~Present(k) => Store[k] = None
  BY <1>1, <1>3, FindFacts
<1>8. \A k \in Keys : Store[k] \in Entry \cup {None}
  BY <1>4, <1>6, <1>7
<1> QED BY <1>3, <1>4, <1>5, <1>6, <1>7, <1>8 DEF Store

\* The same of the state a step leads to.
LEMMA StoreNext ==
  ASSUME TableInv'
  PROVE  /\ Store' = [k \in Keys |-> Store'[k]]
         /\ \A k \in Keys : (\A at \in FullSlots' : slots'[at].key # k) => Store'[k] = None
         /\ \A at \in FullSlots', k \in Keys : slots'[at].key = k => Store'[k] = slots'[at]
<1>1. Arrays(capacity', ctrl', slots')
  BY DEF TableInv
<1>2. \A k \in Keys : Store'[k] = LookupIn(capacity', ctrl', slots', k)
  BY DEF Store, Lookup, LookupIn, find
<1>3. FullSlots' = Full(capacity', ctrl')
  BY DEF FullSlots
<1>4. \A k \in Keys : (\A at \in FullSlots' : slots'[at].key # k) => Store'[k] = None
  BY <1>1, <1>2, <1>3, LookupFinds DEF Lacks
<1>5. \A at \in FullSlots', k \in Keys : slots'[at].key = k => Store'[k] = slots'[at]
  BY <1>1, <1>2, <1>3, LookupFinds
<1> QED BY <1>4, <1>5 DEF Store

-----------------------------------------------------------------------------
(* What the pieces calls are made of do to the store. *)

\* erase drops the key of its slot, and no other.
LEMMA EraseStore ==
  ASSUME TableInv, NEW at \in FullSlots, erase(at)
  PROVE  TableInv' /\ Store' = [Store EXCEPT ![slots[at].key] = None]
<1> DEFINE key == slots[at].key
<1>1. /\ TableInv' /\ FullSlots' = FullSlots \ {at}
      /\ \A b \in FullSlots' : slots'[b] = slots[b]
  BY EraseInv
<1>2. \A b \in FullSlots : slots[b].key = key => b = at
  BY DEF TableInv, Arrays, Distinct, FullSlots
<1>3. Store'[key] = None /\ key \in Keys
  BY <1>1, <1>2, StoreNext, StoreFacts
<1>4. ASSUME NEW k \in Keys, k # key PROVE Store'[k] = Store[k]
  <2>1. CASE \E b \in FullSlots : slots[b].key = k
    <3>1. PICK b \in FullSlots : slots[b].key = k
      BY <2>1
    <3>2. b \in FullSlots' /\ slots'[b] = slots[b]
      BY <1>1, <1>4, <3>1
    <3>3. Store'[k] = slots'[b]
      BY <1>1, <3>1, <3>2, StoreNext
    <3>4. Store[k] = slots[b]
      BY <3>1, StoreFacts
    <3> QED BY <3>2, <3>3, <3>4
  <2>2. CASE ~ \E b \in FullSlots : slots[b].key = k
    <3>1. \A b \in FullSlots' : slots'[b].key # k
      BY <1>1, <2>2
    <3>2. Store'[k] = None
      BY <1>1, <3>1, StoreNext
    <3>3. Store[k] = None
      BY <2>2, StoreFacts DEF Absent, Lacks, FullSlots
    <3> QED BY <3>2, <3>3
  <2> QED BY <2>1, <2>2
<1>5. Store' = [k \in Keys |-> Store'[k]] /\ Store = [k \in Keys |-> Store[k]]
  BY <1>1, StoreNext DEF Store
<1> QED BY <1>1, <1>3, <1>4, <1>5

\* Filling or rewriting a slot stores its entry under its key, and leaves the
\* other keys alone.
LEMMA PutStore ==
  ASSUME TableInv, TableInv', NEW at \in FullSlots', NEW e \in Entry, slots'[at] = e,
         FullSlots' = FullSlots \cup {at},
         \A b \in FullSlots \ {at} : slots'[b] = slots[b],
         at \in FullSlots => slots[at].key = e.key
  PROVE  Store' = [Store EXCEPT ![e.key] = e]
<1>1. e.key \in Keys /\ Store'[e.key] = e
  BY StoreNext DEF Entry
<1>2. ASSUME NEW k \in Keys, k # e.key PROVE Store'[k] = Store[k]
  <2>1. CASE \E b \in FullSlots : slots[b].key = k
    <3>1. PICK b \in FullSlots : slots[b].key = k
      BY <2>1
    <3>2. b \in FullSlots' /\ slots'[b] = slots[b]
      BY <1>2, <3>1
    <3>3. Store'[k] = slots'[b]
      BY <3>1, <3>2, StoreNext
    <3>4. Store[k] = slots[b]
      BY <3>1, StoreFacts
    <3> QED BY <3>2, <3>3, <3>4
  <2>2. CASE ~ \E b \in FullSlots : slots[b].key = k
    <3>1. \A b \in FullSlots' : slots'[b].key # k
      BY <1>2, <2>2
    <3>2. Store'[k] = None
      BY <3>1, StoreNext
    <3>3. Store[k] = None
      BY <2>2, StoreFacts DEF Absent, Lacks, FullSlots
    <3> QED BY <3>2, <3>3
  <2> QED BY <2>1, <2>2
<1>3. Store' = [k \in Keys |-> Store'[k]] /\ Store = [k \in Keys |-> Store[k]]
  BY StoreNext DEF Store
<1> QED BY <1>1, <1>2, <1>3

\* What leaves the arrays alone leaves the store alone.
LEMMA SameStore ==
  ASSUME UNCHANGED <<capacity, ctrl, slots>>
  PROVE  Store' = Store
BY DEF Store, Lookup, find

\* Installing what a rebuild has filled changes nothing a lookup finds.
LEMMA RebuiltStore ==
  ASSUME IInv, RehashEnds
  PROVE  Store' = Store
<1>1. /\ TableInv /\ TableInv'
      /\ capacity' = new_capacity /\ ctrl' = new_ctrl /\ slots' = new_slots
  BY RehashEndsInv DEF IInv, RehashEnds
<1>2. FullSlots' = Full(new_capacity, new_ctrl) /\ Read = FullSlots
  <2>1. \A s \in FullSlots : s < capacity
    BY <1>1, TableFacts DEF Slots
  <2> QED BY <1>1, <2>1 DEF FullSlots, Read, RehashEnds
<1>3. /\ \A s \in FullSlots : \E t \in FullSlots' : slots'[t] = slots[s]
      /\ \A t \in FullSlots' : \E s \in FullSlots : slots[s] = slots'[t]
  BY <1>1, <1>2 DEF IInv, RebuildInv, RehashEnds
<1>4. ASSUME NEW k \in Keys PROVE Store'[k] = Store[k]
  <2>1. CASE \E b \in FullSlots : slots[b].key = k
    <3>1. PICK b \in FullSlots : slots[b].key = k
      BY <2>1
    <3>2. PICK t \in FullSlots' : slots'[t] = slots[b]
      BY <1>3
    <3>3. Store'[k] = slots'[t]
      BY <1>1, <3>1, <3>2, StoreNext
    <3>4. Store[k] = slots[b]
      BY <1>1, <3>1, StoreFacts
    <3> QED BY <3>2, <3>3, <3>4
  <2>2. CASE ~ \E b \in FullSlots : slots[b].key = k
    <3>1. \A t \in FullSlots' : slots'[t].key # k
      BY <1>3, <2>2
    <3>2. Store'[k] = None
      BY <1>1, <3>1, StoreNext
    <3>3. Store[k] = None
      BY <1>1, <2>2, StoreFacts DEF Absent, Lacks, FullSlots
    <3> QED BY <3>2, <3>3
  <2> QED BY <2>1, <2>2
<1>5. Store' = [k \in Keys |-> Store'[k]] /\ Store = [k \in Keys |-> Store[k]]
  BY <1>1, StoreNext DEF Store
<1> QED BY <1>4, <1>5

-----------------------------------------------------------------------------
(* Step simulation: each action is a step of Cache, or one it does not see. *)

\* A lookup is a lookup of the cache.
LEMMA GetSim ==
  ASSUME IInv, NEW k \in Keys, NEW now \in Times, Get(k, now)
  PROVE  Abstract!Get(k, now)
<1>1. /\ TableInv /\ pc = "idle" /\ pc' = "idle" /\ walk.now = None /\ walk' = walk
      /\ UNCHANGED <<pending, went>>
  BY DEF IInv, ControlInv, NoWalk, Get, Idle, locals
<1>2. CASE Present(k) /\ Expired(slots[SlotOf(k)], now)
  <2>1. Store' = [Store EXCEPT ![k] = None] /\ Store[k] = slots[SlotOf(k)] /\ Store[k] # None
    BY <1>1, <1>2, EraseStore, StoreFacts, TableFacts, MarkersAssumption DEF Get
  <2>2. Told(<<"get", k, now>>, "no")
    BY <1>2 DEF Get
  <2> QED
    BY <1>1, <1>2, <2>1, <2>2
       DEF Abstract!Get, Abstract!Idle, Abstract!Told, Abstract!YesNo, Abstract!Live,
           Abstract!Expired, Abstract!Drop, Store, Told, Expired
<1>3. CASE Present(k) /\ ~Expired(slots[SlotOf(k)], now)
  <2>1. Store' = Store /\ Store[k] = slots[SlotOf(k)] /\ Store[k] # None
    BY <1>1, <1>3, SameStore, StoreFacts, TableFacts, MarkersAssumption DEF Get, table
  <2>2. Told(<<"get", k, now>>, "yes")
    BY <1>3 DEF Get
  <2> QED
    BY <1>1, <1>3, <2>1, <2>2
       DEF Abstract!Get, Abstract!Idle, Abstract!Told, Abstract!YesNo, Abstract!Live,
           Abstract!Expired, Store, Told, Expired
<1>4. CASE ~Present(k)
  <2>1. Store' = Store /\ Store[k] = None
    BY <1>1, <1>4, SameStore, StoreFacts DEF Get, table
  <2>2. Told(<<"get", k, now>>, "no")
    BY <1>4 DEF Get
  <2> QED
    BY <1>1, <2>1, <2>2
       DEF Abstract!Get, Abstract!Idle, Abstract!Told, Abstract!YesNo, Abstract!Live,
           Abstract!Expired, Store, Told
<1> QED BY <1>2, <1>3, <1>4

\* A removal is a removal from the cache.
LEMMA RemoveSim ==
  ASSUME IInv, NEW k \in Keys, Remove(k)
  PROVE  Abstract!Remove(k)
<1>1. /\ TableInv /\ pc = "idle" /\ pc' = "idle" /\ walk.now = None /\ walk' = walk
      /\ UNCHANGED <<pending, went>>
  BY DEF IInv, ControlInv, NoWalk, Remove, Idle, locals
<1>2. CASE Present(k)
  <2>1. Store' = [Store EXCEPT ![k] = None] /\ Store[k] # None
    BY <1>1, <1>2, EraseStore, StoreFacts, TableFacts, MarkersAssumption DEF Remove
  <2>2. Told(<<"remove", k>>, "yes")
    BY <1>2 DEF Remove
  <2> QED
    BY <1>1, <2>1, <2>2
       DEF Abstract!Remove, Abstract!Idle, Abstract!Told, Abstract!YesNo, Abstract!Drop, Store, Told
<1>3. CASE ~Present(k)
  <2>1. Store' = Store /\ Store[k] = None
    BY <1>1, <1>3, SameStore, StoreFacts DEF Remove, table
  <2>2. Store' = [Store EXCEPT ![k] = None]
    BY <2>1 DEF Store
  <2>3. Told(<<"remove", k>>, "no")
    BY <1>3 DEF Remove
  <2> QED
    BY <1>1, <2>1, <2>2, <2>3
       DEF Abstract!Remove, Abstract!Idle, Abstract!Told, Abstract!YesNo, Abstract!Drop, Store, Told
<1> QED BY <1>2, <1>3

\* A change of deadline is one of the cache, with the same answer.
LEMMA ExpireSim ==
  ASSUME IInv, NEW k \in Keys, NEW x \in Deadline, NEW now \in Times, Expire(k, x, now)
  PROVE  Abstract!Expire(k, x, now)
<1>1. /\ TableInv /\ pc = "idle" /\ pc' = "idle" /\ walk.now = None /\ walk' = walk
      /\ UNCHANGED <<pending, went>>
  BY DEF IInv, ControlInv, NoWalk, Expire, Idle, locals
<1>2. CASE /\ ~Present(k) /\ Told(<<"expire", k, now>>, "no") /\ UNCHANGED table
  <2>1. Store' = Store /\ Store[k] = None
    BY <1>1, <1>2, SameStore, StoreFacts DEF table
  <2>2. Store' = [Store EXCEPT ![k] = None]
    BY <2>1 DEF Store
  <2> QED
    BY <1>1, <1>2, <2>1, <2>2
       DEF Abstract!Expire, Abstract!Idle, Abstract!Told, Abstract!Live, Abstract!Drop, Store, Told
<1>3. CASE /\ Present(k) /\ Expired(slots[SlotOf(k)], now) /\ erase(SlotOf(k))
           /\ Told(<<"expire", k, now>>, "no")
  <2>1. Store' = [Store EXCEPT ![k] = None] /\ Store[k] = slots[SlotOf(k)] /\ Store[k] # None
    BY <1>1, <1>3, EraseStore, StoreFacts, TableFacts, MarkersAssumption
  <2> QED
    BY <1>1, <1>3, <2>1
       DEF Abstract!Expire, Abstract!Idle, Abstract!Told, Abstract!Live, Abstract!Expired,
           Abstract!Drop, Store, Told, Expired
<1>4. CASE /\ Present(k) /\ ~Expired(slots[SlotOf(k)], now)
           /\ Told(<<"expire", k, now>>, "full") /\ UNCHANGED table
  <2>1. Store' = Store /\ Store[k] = slots[SlotOf(k)] /\ Store[k] # None
    BY <1>1, <1>4, SameStore, StoreFacts, TableFacts, MarkersAssumption DEF table
  <2> QED
    BY <1>1, <1>4, <2>1
       DEF Abstract!Expire, Abstract!Idle, Abstract!Told, Abstract!Live, Abstract!Expired,
           Store, Told, Expired
<1>5. CASE /\ Present(k) /\ ~Expired(slots[SlotOf(k)], now)
           /\ slots' = [slots EXCEPT ![SlotOf(k)].expiry = x]
           /\ timed' = timed - IsTimed(slots[SlotOf(k)]) + IsTimed([expiry |-> x])
           /\ Told(<<"expire", k, now>>, "yes")
           /\ UNCHANGED <<capacity, ctrl, len, tombstones, growth_left>>
  <2> DEFINE at == SlotOf(k)
             e == [slots[at] EXCEPT !.expiry = x]
  <2>1. at \in FullSlots /\ slots[at].key = k /\ Store[k] = slots[at]
    BY <1>1, <1>5, StoreFacts
  <2> HIDE DEF at
  <2>2. slots[at] \in Entry /\ Store[k] # None
    BY <1>1, <2>1, TableFacts, MarkersAssumption
  <2>3. e \in Entry /\ e.key = k /\ e.expiry = x
    BY <2>1, <2>2 DEF Entry
  <2>4. slots' = [slots EXCEPT ![at] = e]
    BY <1>5 DEF at
  <2>5. timed' = timed - IsTimed(slots[at]) + IsTimed(e)
    BY <1>5, <2>3 DEF IsTimed, at
  <2>6. e = [Store[k] EXCEPT !.expiry = x]
    BY <2>1
  <2>7. ~(slots[at].expiry # None /\ slots[at].expiry <= now)
    BY <1>5 DEF Expired, at
  <2> HIDE DEF e
  <2>8. /\ TableInv' /\ FullSlots' = FullSlots
        /\ \A b \in FullSlots : slots'[b] = IF b = at THEN e ELSE slots[b]
    BY <1>1, <1>5, <2>1, <2>3, <2>4, <2>5, RewriteInv
  <2>9. Store' = [Store EXCEPT ![k] = e]
    BY <1>1, <2>1, <2>3, <2>8, PutStore
  <2>10. Store' = [Store EXCEPT ![k].expiry = x]
    BY <2>6, <2>9
  <2> QED
    BY <1>1, <1>5, <2>1, <2>2, <2>7, <2>10
       DEF Abstract!Expire, Abstract!Idle, Abstract!Told, Abstract!Live, Abstract!Expired,
           Store, Told
<1> QED BY <1>2, <1>3, <1>4, <1>5 DEF Expire

\* What a step may leave the cache's specification unaware of.
Unseen == UNCHANGED Abstract!vars

\* A set that begins has stored nothing yet.
LEMMA SetSim ==
  ASSUME IInv, NEW k \in Keys, NEW v \in Values, NEW x \in Deadline, Set(k, v, x)
  PROVE  Unseen
<1>1. pc = "idle" /\ pc' \in {"rehash", "write"} /\ UNCHANGED <<walk, reply, went>>
  BY DEF Set, Idle
<1>2. Store' = Store
  BY SameStore DEF Set, table
<1> QED BY <1>1, <1>2 DEF Unseen, Abstract!vars, Store

\* A set the arena refuses is a write the cache refuses.
LEMMA RefuseSim ==
  ASSUME IInv, Refuse
  PROVE  pending.key \in Keys /\ Abstract!WriteRefused(pending.key)
<1>1. /\ pc = "write" /\ pc' = "idle" /\ walk.now = None /\ walk' = walk
      /\ pending \in Entry /\ Told(<<"set", pending.key>>, "full")
  BY DEF IInv, ControlInv, NoWalk, Refuse
<1>2. Store' = Store
  BY SameStore DEF Refuse, table
<1> QED
  BY <1>1, <1>2
     DEF Abstract!WriteRefused, Abstract!Idle, Abstract!Told, Store, Told, Entry

\* The step at which the entry is in the table is the cache's write.
LEMMA WriteSim ==
  ASSUME IInv, pc = "write", pc' = "fit", reply' = None, UNCHANGED <<pending, went, walk>>,
         Store' = [Store EXCEPT ![pending.key] = pending]
  PROVE  /\ pending.key \in Keys /\ pending.value \in Values /\ pending.expiry \in Deadline
         /\ Abstract!Write(pending.key, pending.value, pending.expiry)
<1>1. pending \in Entry /\ walk.now = None
  BY DEF IInv, ControlInv, NoWalk
<1>2. /\ pending.key \in Keys /\ pending.value \in Values /\ pending.expiry \in Deadline
      /\ pending = [key |-> pending.key, value |-> pending.value, expiry |-> pending.expiry]
  BY <1>1 DEF Entry
<1> QED
  BY <1>1, <1>2 DEF Abstract!Write, Abstract!Idle, Store

\* Writing over an entry is a write.
LEMMA ReplaceSim ==
  ASSUME IInv, Replace
  PROVE  Store' = [Store EXCEPT ![pending.key] = pending]
<1>1. /\ pc = "write" /\ Present(pending.key)
      /\ slots' = [slots EXCEPT ![SlotOf(pending.key)] = pending]
      /\ timed' = timed - IsTimed(slots[SlotOf(pending.key)]) + IsTimed(pending)
      /\ UNCHANGED <<capacity, ctrl, len, tombstones, growth_left>>
  BY DEF Replace
<1>2. TableInv /\ pending \in Entry /\ pending.key \in Keys
  BY <1>1 DEF IInv, ControlInv, Entry
<1> DEFINE at == SlotOf(pending.key)
<1>3. /\ at \in FullSlots /\ slots[at].key = pending.key
      /\ slots' = [slots EXCEPT ![at] = pending]
      /\ timed' = timed - IsTimed(slots[at]) + IsTimed(pending)
  BY <1>1, <1>2, StoreFacts
<1> HIDE DEF at
<1>4. /\ TableInv' /\ FullSlots' = FullSlots
      /\ \A b \in FullSlots : slots'[b] = IF b = at THEN pending ELSE slots[b]
  BY <1>1, <1>2, <1>3, RewriteInv
<1> QED BY <1>2, <1>3, <1>4, PutStore

\* Filling a free slot is a write.
LEMMA InsertSim ==
  ASSUME IInv, Insert
  PROVE  Store' = [Store EXCEPT ![pending.key] = pending]
<1>1. /\ pc = "write" /\ ~Present(pending.key)
      /\ len' = len + 1 /\ timed' = timed + IsTimed(pending) /\ capacity' = capacity
  BY DEF Insert
<1>2. TableInv /\ Arrays(capacity, ctrl, slots) /\ pending \in Entry /\ pending.key \in Keys
      /\ capacity \in Capacities
  BY <1>1 DEF IInv, TableInv, ControlInv, Entry
<1>3. Absent(pending.key) /\ growth_left > 0
  BY <1>1, <1>2, FindFacts DEF IInv, ControlInv
<1>4. PICK at \in Slots(capacity) :
        /\ free_slot(pending.key, at)
        /\ tombstones' = IF ctrl[at] = DELETED THEN tombstones - 1 ELSE tombstones
        /\ growth_left' = IF ctrl[at] = DELETED THEN growth_left ELSE growth_left - 1
        /\ ctrl' = [ctrl EXCEPT ![at] = Tag[pending.key]]
        /\ slots' = [slots EXCEPT ![at] = pending]
  BY DEF Insert
<1>5. /\ TableInv' /\ at \in FullSlots' /\ slots'[at] = pending
      /\ FullSlots' = FullSlots \cup {at}
      /\ \A b \in FullSlots : slots'[b] = slots[b]
  BY <1>1, <1>2, <1>3, <1>4, InsertInv
<1>6. at \in FullSlots => slots[at].key = pending.key
  BY <1>5
<1> QED BY <1>2, <1>5, <1>6, PutStore

\* A set returns at once when the shard fits; otherwise it goes on to evict,
\* which nobody sees yet.
LEMMA FitSim ==
  ASSUME IInv, Fit
  PROVE  Abstract!WriteReturns \/ Unseen
<1>1. /\ pc = "fit" /\ walk.now = None /\ walk' = walk /\ went = 0 /\ went' = went
      /\ pending \in Entry /\ pending.key \in Keys /\ pending.key # None
  BY MarkersAssumption DEF IInv, ControlInv, NoWalk, Fit, Entry
<1>2. Store' = Store
  BY SameStore DEF Fit, table
<1>3. CASE pc' = "idle" /\ Told(<<"set", pending.key>>, "ok")
  BY <1>1, <1>2, <1>3 DEF Abstract!WriteReturns, Abstract!Told, Told, Store
<1>4. CASE pc' = "evict" /\ UNCHANGED <<pending, reply>>
  BY <1>1, <1>2, <1>4 DEF Unseen, Abstract!vars, Store
<1> QED BY <1>3, <1>4 DEF Fit

\* An eviction drops a key that is not the one being written, and is one of at
\* most EVICT_MAX.
LEMMA EvictSim ==
  ASSUME IInv, Evict
  PROVE  \E k \in Keys : Abstract!Evict(k)
<1>1. /\ TableInv /\ pc = "evict" /\ pc' = pc /\ walk' = walk
      /\ went < EVICT_MAX /\ went' = went + 1
      /\ UNCHANGED <<pending, reply>> /\ spare \in FullSlots /\ slots[spare] = pending
      /\ pending \in Entry /\ pending.key \in Keys /\ pending.key # None
  BY MarkersAssumption DEF IInv, ControlInv, Evict, Entry
<1>2. PICK at \in FullSlots \ {spare} : erase(at)
  BY DEF Evict, Evictable
<1> DEFINE k == slots[at].key
<1>3. k \in Keys /\ k # pending.key /\ Store[k] # None
  BY <1>1, <1>2, StoreFacts, TableFacts, MarkersAssumption
     DEF TableInv, Arrays, Distinct, FullSlots
<1>4. Store' = [Store EXCEPT ![k] = None]
  BY <1>1, <1>2, EraseStore
<1> HIDE DEF k
<1>5. Abstract!Evict(k)
  BY <1>1, <1>3, <1>4 DEF Abstract!Evict, Abstract!Drop, Store
<1> QED BY <1>3, <1>5

\* What shrink does to pc.
LEMMA ShrinkGoes ==
  ASSUME NEW n, shrink(n)
  PROVE  pc' \in {"idle", "rehash"}
BY DEF shrink

\* A set returns when eviction ends, whether or not the table then shrinks.
LEMMA EvictEndsSim ==
  ASSUME IInv, EvictEnds
  PROVE  Abstract!WriteReturns
<1>1. /\ pc = "evict" /\ walk' = walk /\ Told(<<"set", pending.key>>, "ok")
      /\ pending \in Entry /\ pending.key \in Keys /\ pending.key # None
  BY MarkersAssumption DEF IInv, ControlInv, EvictEnds, Entry
<1>2. pc' \in {"idle", "rehash"}
  BY ShrinkGoes DEF EvictEnds
<1>3. Store' = Store
  BY SameStore DEF EvictEnds, table
<1> QED BY <1>1, <1>2, <1>3 DEF Abstract!WriteReturns, Abstract!Told, Told, Store

\* A sweep starts.
LEMMA SweepSim ==
  ASSUME IInv, NEW from \in Saved, NEW now \in Times, Sweep(from, now)
  PROVE  Abstract!SweepStarts(now)
<1>1. /\ pc = "idle" /\ pc' = "sweep" /\ reply' = None /\ walk.now = None /\ walk'.now = now
  BY DEF IInv, ControlInv, NoWalk, Sweep, Idle
<1>2. Store' = Store
  BY SameStore DEF Sweep, table
<1> QED BY <1>1, <1>2 DEF Abstract!SweepStarts, Abstract!Idle, Store

\* A sweep's visit drops an entry expired at the time the sweep was given, or
\* nothing.
LEMMA SweepSlotSim ==
  ASSUME IInv, SweepSlot
  PROVE  (\E k \in Keys : Abstract!Lapse(k)) \/ Unseen
<1>1. /\ TableInv /\ pc = "sweep" /\ pc' = pc /\ reply' = reply /\ walk.now # None
      /\ walk \in [at : Nat, left : Nat, now : Times \cup {None}]
      /\ walk' = [walk EXCEPT !.at = (@ + 1) % capacity, !.left = @ - 1]
  BY DEF IInv, ControlInv, SweepSlot
<1>2. walk'.now = walk.now
  BY <1>1
<1>3. CASE UNCHANGED table
  <2>1. Store' = Store
    BY <1>3, SameStore DEF table
  <2> QED BY <1>1, <1>2, <2>1 DEF Unseen, Abstract!vars, Store
<1>4. CASE walk.at \in FullSlots /\ Expired(slots[walk.at], walk.now) /\ erase(walk.at)
  <2> DEFINE k == slots[walk.at].key
  <2>1. k \in Keys /\ Store[k] = slots[walk.at] /\ Store[k] # None
    BY <1>1, <1>4, StoreFacts, TableFacts, MarkersAssumption
  <2>2. Store' = [Store EXCEPT ![k] = None]
    BY <1>1, <1>4, EraseStore
  <2>3. Store[k].expiry # None /\ Store[k].expiry <= walk.now
    BY <1>4, <2>1 DEF Expired
  <2> HIDE DEF k
  <2>4. Abstract!Lapse(k)
    BY <1>1, <1>2, <2>1, <2>2, <2>3 DEF Abstract!Lapse, Abstract!Expired, Abstract!Drop, Store
  <2> QED BY <2>1, <2>4
<1> QED BY <1>3, <1>4 DEF SweepSlot

\* A sweep returns.
LEMMA SweepEndsSim ==
  ASSUME IInv, SweepEnds
  PROVE  Abstract!SweepReturns
<1>1. /\ pc = "sweep" /\ walk.now # None /\ walk'.now = None /\ Told(<<"sweep", walk.now>>, "ok")
  BY DEF IInv, ControlInv, NoWalk, SweepEnds
<1>2. pc' \in {"idle", "rehash"}
  BY ShrinkGoes DEF SweepEnds
<1>3. Store' = Store
  BY SameStore DEF SweepEnds, table
<1> QED BY <1>1, <1>2, <1>3 DEF Abstract!SweepReturns, Abstract!Told, Told, Store

\* A clear empties the cache in one step.
LEMMA ClearSim ==
  ASSUME IInv, Clear
  PROVE  Abstract!Clear
<1>1. /\ pc = "idle" /\ walk.now = None /\ walk' = walk /\ Told(<<"clear">>, "ok")
      /\ ctrl' = [at \in Slots(capacity) |-> EMPTY] /\ capacity' = capacity
  BY DEF IInv, ControlInv, NoWalk, Clear, Idle
<1>2. pc' \in {"idle", "rehash"}
  BY ShrinkGoes DEF Clear
<1>3. TableInv'
  BY ClearInv DEF IInv
<1>4. FullSlots' = {}
  BY <1>1 DEF FullSlots, Full
<1>5. Store' = [k \in Keys |-> None]
  BY <1>3, <1>4, StoreNext
<1> QED BY <1>1, <1>2, <1>5 DEF Abstract!Clear, Abstract!Idle, Abstract!Told, Told, Store

\* No step of a rebuild is seen, the one that installs the new arrays included.
LEMMA RehashSim ==
  ASSUME IInv, RehashSlot \/ RehashEnds
  PROVE  Unseen
<1>1. pc = "rehash" /\ pc' \in {"rehash", "write", "idle"} /\ UNCHANGED <<walk, reply, went>>
  BY DEF RehashSlot, RehashEnds
<1>2. Store' = Store
  BY SameStore, RebuiltStore DEF RehashSlot, table
<1> QED BY <1>1, <1>2 DEF Unseen, Abstract!vars, Store

-----------------------------------------------------------------------------
(* The refinement. *)

\* A new table stands for an empty cache.
LEMMA InitSim ==
  ASSUME Init
  PROVE  Abstract!Init
<1>1. TableInv /\ FullSlots = {}
  <2>1. Slots(0) = {}
    BY DEF Slots
  <2> QED BY <2>1, InitInv DEF IInv, Init, FullSlots, Full
<1>2. \A k \in Keys : Store[k] = None
  BY <1>1, StoreFacts DEF Absent, Lacks, FullSlots
<1>3. Store = [k \in Keys |-> None]
  BY <1>2 DEF Store
<1> QED BY <1>3 DEF Abstract!Init, Init, NoWalk, Store

\* Every step from a state of the invariant is a step of the cache, or unseen.
LEMMA StepSim ==
  ASSUME IInv, [Next]_vars
  PROVE  [Abstract!Next]_(Abstract!vars)
<1> SUFFICES Abstract!Next \/ Unseen
  BY DEF Unseen
<1>1. CASE \E k \in Keys, now \in Times : Get(k, now)
  BY <1>1, GetSim DEF Abstract!Next
<1>2. CASE \E k \in Keys : Remove(k)
  BY <1>2, RemoveSim DEF Abstract!Next
<1>3. CASE \E k \in Keys, x \in Deadline, now \in Times : Expire(k, x, now)
  BY <1>3, ExpireSim DEF Abstract!Next, Abstract!Deadline, Deadline
<1>4. CASE \E k \in Keys, v \in Values, x \in Deadline : Set(k, v, x)
  BY <1>4, SetSim
<1>5. CASE \E from \in Saved, now \in Times : Sweep(from, now)
  BY <1>5, SweepSim DEF Abstract!Next
<1>6. CASE Clear
  BY <1>6, ClearSim DEF Abstract!Next
<1>7. CASE Refuse
  BY <1>7, RefuseSim DEF Abstract!Next
<1>8. CASE Replace \/ Insert
  <2>1. /\ pc = "write" /\ pc' = "fit" /\ reply' = None /\ UNCHANGED <<pending, went, walk>>
        /\ Store' = [Store EXCEPT ![pending.key] = pending]
    BY <1>8, ReplaceSim, InsertSim DEF Replace, Insert
  <2>2. /\ pending.key \in Keys /\ pending.value \in Values /\ pending.expiry \in Deadline
        /\ Abstract!Write(pending.key, pending.value, pending.expiry)
    BY <2>1, WriteSim
  <2> QED BY <2>2 DEF Abstract!Next, Abstract!Deadline, Deadline
<1>9. CASE Fit
  BY <1>9, FitSim DEF Abstract!Next
<1>10. CASE Evict
  BY <1>10, EvictSim DEF Abstract!Next
<1>11. CASE EvictEnds
  BY <1>11, EvictEndsSim DEF Abstract!Next
<1>12. CASE SweepSlot
  BY <1>12, SweepSlotSim DEF Abstract!Next
<1>13. CASE SweepEnds
  BY <1>13, SweepEndsSim DEF Abstract!Next
<1>14. CASE RehashSlot \/ RehashEnds
  BY <1>14, RehashSim
<1>15. CASE UNCHANGED vars
  <2>1. Store' = Store /\ UNCHANGED <<pc, pending, went, walk, reply>>
    BY <1>15, SameStore DEF vars, table, locals
  <2> QED BY <2>1 DEF Unseen, Abstract!vars, Store
<1> QED BY <1>1, <1>2, <1>3, <1>4, <1>5, <1>6, <1>7, <1>8, <1>9, <1>10, <1>11, <1>12,
           <1>13, <1>14, <1>15 DEF Next, Calls, Steps

\* Whatever a caller of the shard can tell, it could have been told by a cache
\* with no table in it: no lookup misses, no entry leaves without its reason,
\* and no rebuild, shrink or reserve is visible.
THEOREM Refinement == Spec => ImplementsCache
<1>1. Init => Abstract!Init
  BY InitSim
<1>2. IInv /\ [Next]_vars => [Abstract!Next]_(Abstract!vars)
  BY StepSim
<1> QED BY <1>1, <1>2, Invariance, PTL DEF Spec, ImplementsCache, Abstract!Spec
=============================================================================
