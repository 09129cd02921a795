------------------------------- MODULE Arena -------------------------------
(***************************************************************************)
(* The slab allocator of one shard (rugo-arena/src/lib.rs).                *)
(*                                                                         *)
(* Small blocks are cut one after another out of segments and recycled by  *)
(* size class; the list of free blocks of a class is threaded through the  *)
(* blocks themselves, the first word of a free block being the reference   *)
(* of the next.  Blocks over SMALL_MAX live in a table of their own.  A    *)
(* reference is an integer: a flag, a segment number and an offset.        *)
(*                                                                         *)
(* The owners stand for the entries of the table, the arena's only client: *)
(* each holds at most one block, and fills it when it gets it, as          *)
(* entry::write does in the same call.  A grain is the four bytes of a     *)
(* link, so the memory is kept by the word.                                *)
(***************************************************************************)
EXTENDS Integers, Sequences, FiniteSets, FiniteSetsExt, Functions

CONSTANTS
  Owners,        \* the clients' slots for a block
  Lens,          \* the lengths asked for, in bytes
  GRAIN,         \* bytes in a word
  SMALL_MAX,     \* the largest block the slab serves, in bytes
  SEG_BITS, OFF_BITS,        \* bits of a reference for segment and offset
  MIN_SEGMENT, MAX_SEGMENT,  \* bytes
  GROWTH,        \* a new segment is this fraction of what is held
  REFUSED_ROOMS, \* words left uncut at which a segment may be refused
  NoBlock        \* what an owner holds when it holds nothing

VARIABLES
  segments,      \* segment number -> its length in words; `made` of them
  seg, off,      \* where the next block is cut
  word,          \* what is in each word of the segments
  free,          \* class -> reference of the first free block
  large, large_free,         \* lengths of the oversized blocks, and the holes
  live, dead, large_live, segment_bytes,   \* running totals
  held           \* owner -> the block it holds

slab == <<segments, seg, off, word, free, dead, segment_bytes>>
oversized == <<large, large_free, large_live>>
vars == <<slab, oversized, live, held>>

LARGE == 2 ^ (SEG_BITS + OFF_BITS)
NONE == 2 * LARGE - 1
MAX_SEGMENTS == 2 ^ SEG_BITS
made == Cardinality(DOMAIN segments)

make(s, o) == s * 2 ^ OFF_BITS + o
place(at) == <<at \div 2 ^ OFF_BITS, at % 2 ^ OFF_BITS>>

\* Words a block of len bytes takes; its class is one less.
Words(len) == (len + GRAIN - 1) \div GRAIN
Small(len) == 0 < len /\ len <= SMALL_MAX
class_of(len) == Words(len) - 1

ASSUME ArenaAssumption ==
  /\ {GRAIN, SMALL_MAX, SEG_BITS, OFF_BITS, MIN_SEGMENT, MAX_SEGMENT, GROWTH} \subseteq Nat \ {0}
  /\ Lens \subseteq Nat \ {0}
  /\ SMALL_MAX % GRAIN = 0 /\ MIN_SEGMENT % GRAIN = 0 /\ MAX_SEGMENT % MIN_SEGMENT = 0
  /\ 2 * SMALL_MAX <= MIN_SEGMENT /\ MAX_SEGMENT <= GRAIN * 2 ^ OFF_BITS
  /\ REFUSED_ROOMS \subseteq Nat
  /\ NoBlock \notin [at : 0..NONE, len : Lens]

next_segment_size(bytes) ==
  LET share == bytes \div GROWTH
      whole == (share + MIN_SEGMENT - 1) \div MIN_SEGMENT
  IN  IF share >= MAX_SEGMENT THEN MAX_SEGMENT
      ELSE IF whole = 0 THEN MIN_SEGMENT ELSE whole * MIN_SEGMENT

-----------------------------------------------------------------------------
(* Pieces of alloc and free. *)

Block(at, len) == at .. (at + Words(len) - 1)

\* The list heads once they reach class.
Reaching(class) ==
  [c \in DOMAIN free \cup 0..class |-> IF c \in DOMAIN free THEN free[c] ELSE NONE]

Filled(mem, words, what) == [w \in DOMAIN mem |-> IF w \in words THEN what ELSE mem[w]]

\* Words left in the segment blocks are being cut from.
Room == IF made = 0 THEN 0 ELSE segments[seg] - off

\* (mutant) the tail of a finished segment is forgotten
TailPushed_lost(heads) == UNCHANGED <<dead>> /\ free' = heads

\* The tail too short for a request goes on the list of its own class.
TailPushed(heads) ==
  IF Room = 0 THEN dead' = dead /\ free' = heads
  ELSE dead' = dead + Room * GRAIN /\ free' = [heads EXCEPT ![Room - 1] = make(seg, off)]

\* (mutants) the link is not written, or is written at the segment's start
TailLinked_unwritten(heads) == word
TailLinked_start(heads) ==
  IF Room = 0 THEN word ELSE [word EXCEPT ![make(seg, 0)] = heads[Room - 1]]

TailLinked(heads) ==
  IF Room = 0 THEN word ELSE [word EXCEPT ![make(seg, off)] = heads[Room - 1]]

Holds(o, at, len) == held' = [held EXCEPT ![o] = [at |-> at, len |-> len]]

-----------------------------------------------------------------------------
Init ==
  /\ segments = <<>> /\ seg = 0 /\ off = 0 /\ word = <<>> /\ free = <<>>
  /\ large = <<>> /\ large_free = <<>>
  /\ live = 0 /\ dead = 0 /\ large_live = 0 /\ segment_bytes = 0
  /\ held = [o \in Owners |-> NoBlock]

Asks(o, len) == held[o] = NoBlock /\ Small(len)
HasFree(len) == Reaching(class_of(len))[class_of(len)] # NONE

\* alloc, from the free list: the block's first word is the rest of the list.
TakeFree(o, len) ==
  /\ Asks(o, len) /\ HasFree(len)
  /\ LET at == free[class_of(len)]
     IN  /\ free' = [free EXCEPT ![class_of(len)] = word[at]]
         /\ word' = Filled(word, Block(at, len), o)
         /\ Holds(o, at, len)
  /\ dead' = dead - Words(len) * GRAIN
  /\ live' = live + Words(len) * GRAIN
  /\ UNCHANGED <<segments, seg, off, segment_bytes, oversized>>

\* (mutant) straddle check off by one
Straddles_late(len) == Room + 1 < Words(len)

Straddles(len) == Room < Words(len)

\* alloc, from the room left in the segment.
Cut(o, len) ==
  /\ Asks(o, len) /\ ~HasFree(len) /\ ~Straddles(len)
  /\ free' = Reaching(class_of(len))
  /\ word' = Filled(word, Block(make(seg, off), len), o)
  /\ Holds(o, make(seg, off), len)
  /\ off' = off + Words(len)
  /\ live' = live + Words(len) * GRAIN
  /\ UNCHANGED <<segments, seg, dead, segment_bytes, oversized>>

\* alloc, when the room is too short and grow gets a segment.
GrowAndCut(o, len) ==
  /\ Asks(o, len) /\ ~HasFree(len) /\ Straddles(len)
  /\ made < MAX_SEGMENTS
  /\ LET size == next_segment_size(segment_bytes)
         heads == Reaching(class_of(len))
         fresh == make(made, 0) .. make(made, size \div GRAIN - 1)
     IN  /\ TailPushed(heads)
         /\ word' = [w \in DOMAIN word \cup fresh |->
                       IF w \in Block(make(made, 0), len) THEN o
                       ELSE IF w \in fresh THEN 0 ELSE TailLinked(heads)[w]]
         /\ segments' = [s \in 0..made |-> IF s = made THEN size \div GRAIN ELSE segments[s]]
         /\ segment_bytes' = segment_bytes + size
  /\ seg' = made /\ off' = Words(len)
  /\ Holds(o, make(made, 0), len)
  /\ live' = live + Words(len) * GRAIN
  /\ UNCHANGED oversized

\* alloc, when grow is refused: by the width of a reference or by the operating
\* system.  The tail has been pushed already, and off has not moved.
Refused(o, len) ==
  /\ Room \in REFUSED_ROOMS
  /\ Asks(o, len) /\ ~HasFree(len) /\ Straddles(len)
  /\ TailPushed(Reaching(class_of(len)))
  /\ word' = TailLinked(Reaching(class_of(len)))
  /\ UNCHANGED <<segments, seg, off, segment_bytes, oversized, live, held>>

\* (mutant) the hole taken is left on the list
HolesLeft_same == large_free

HolesLeft == SubSeq(large_free, 1, Len(large_free) - 1)

\* alloc_large: the last hole, or one more row, unless the rows have run out.
AllocLarge(o, len) ==
  /\ held[o] = NoBlock /\ ~Small(len)
  /\ LET at == IF large_free = <<>> THEN Len(large) ELSE large_free[Len(large_free)]
     IN  IF at < LARGE
         THEN /\ large' = [i \in 1 .. Max({Len(large), at + 1}) |->
                             IF i = at + 1 THEN len ELSE large[i]]
              /\ Holds(o, at + LARGE, len)
              /\ live' = live + len /\ large_live' = large_live + len
         ELSE UNCHANGED <<large, held, live, large_live>>
  /\ large_free' = HolesLeft
  /\ UNCHANGED slab

\* (mutant) the caller's length, not the rounded one, is given back
Given_exact(len) == len

Given(len) == Words(len) * GRAIN

\* free of a small block: it becomes the head of its class's list.  What is
\* left in its other words is never read, and is forgotten here.
FreeSmall(at, len) ==
  /\ word' = [Filled(word, Block(at, len), 0) EXCEPT ![at] = free[class_of(len)]]
  /\ free' = [free EXCEPT ![class_of(len)] = at]
  /\ dead' = dead + Given(len) /\ live' = live - Given(len)
  /\ UNCHANGED <<segments, seg, off, segment_bytes, oversized>>

\* free of an oversized block: its row becomes a hole.
FreeLarge(index) ==
  /\ live' = live - large[index + 1] /\ large_live' = large_live - large[index + 1]
  /\ large' = [large EXCEPT ![index + 1] = 0]
  /\ large_free' = Append(large_free, index)
  /\ UNCHANGED slab

\* free.  The reference NONE is given up without a word, also by the owner of the
\* last row of the oversized table, whose reference it is.
Free(o) ==
  /\ held[o] # NoBlock
  /\ LET at == held[o].at
         len == held[o].len
     IN  IF at = NONE THEN UNCHANGED <<slab, oversized, live>>
         ELSE IF Small(len) THEN FreeSmall(at, len) ELSE FreeLarge(at - LARGE)
  /\ held' = [held EXCEPT ![o] = NoBlock]

Next ==
  \/ \E o \in Owners, len \in Lens :
       \/ TakeFree(o, len) \/ Cut(o, len) \/ GrowAndCut(o, len) \/ Refused(o, len)
       \/ AllocLarge(o, len)
  \/ \E o \in Owners : Free(o)

Spec == Init /\ [][Next]_vars

-----------------------------------------------------------------------------
(* Properties. *)

Holding == {o \in Owners : held[o] # NoBlock}
SmallHolding == {o \in Holding : Small(held[o].len)}
LargeHolding == Holding \ SmallHolding

\* Following the links from the head of a class, as far as there are words.
Walk(class) ==
  LET step[n \in 0..Cardinality(DOMAIN word)] ==
        IF n = 0 THEN free[class]
        ELSE LET at == step[n - 1] IN IF at \in DOMAIN word THEN word[at] ELSE at
  IN  step
Listed(class) == Range(Walk(class)) \ {NONE}

\* Every total, reference and list head has its type, and the newest segment is
\* the one blocks are cut from.
TypeOK ==
  /\ DOMAIN segments = 0..(made - 1) /\ made <= MAX_SEGMENTS
  /\ \A s \in DOMAIN segments : segments[s] \in 1 .. 2 ^ OFF_BITS
  /\ made > 0 => seg = made - 1 /\ off \in 0..segments[seg]
  /\ DOMAIN word = UNION {make(s, 0) .. make(s, segments[s] - 1) : s \in DOMAIN segments}
  /\ Range(word) \subseteq 0..NONE \cup Owners
  /\ \E n \in 0 .. SMALL_MAX \div GRAIN : DOMAIN free = 0..(n - 1)
  /\ Range(free) \subseteq DOMAIN word \cup {NONE}
  /\ Range(large) \subseteq Lens \cup {0}
  /\ Range(large_free) \subseteq 0..(Len(large) - 1)
  /\ {live, dead, large_live, segment_bytes} \subseteq Nat
  /\ Range(held) \subseteq [at : 0..NONE, len : Lens] \cup {NoBlock}

\* Two live allocations never overlap, in the slab or in the oversized table.
LiveDisjoint ==
  \A o, p \in Holding : o # p =>
    IF {o, p} \subseteq SmallHolding
    THEN Block(held[o].at, held[o].len) \cap Block(held[p].at, held[p].len) = {}
    ELSE held[o].at # held[p].at

\* Every word of every segment is accounted for exactly once: in one live block,
\* in one block of one free list, or in the room not cut yet.  No word leaks, no
\* block straddles a segment, and no list holds a live block.
EveryWordOnce ==
  LET taken == {<<o, Block(held[o].at, held[o].len)>> : o \in SmallHolding}
      listed == UNION {{<<c, at..(at + c)>> : at \in Listed(c)} : c \in DOMAIN free}
      uncut == {<<NoBlock, make(seg, off)..(make(seg, off) + Room - 1)>>}
  IN  \A w \in DOMAIN word : Cardinality({b \in taken \cup listed \cup uncut : w \in b[2]}) = 1

\* Every free list ends, within the words there are.
ListsEnd ==
  \A c \in DOMAIN free : Walk(c)[Cardinality(DOMAIN word)] = NONE

\* What an owner wrote in its block is there until it gives the block back: no
\* link and no other owner's entry is written over it.
ReadsBack ==
  /\ \A o \in SmallHolding : \A w \in Block(held[o].at, held[o].len) : word[w] = o
  /\ \A o \in LargeHolding : large[held[o].at - LARGE + 1] = held[o].len

\* What is live, what is on the lists and what is uncut are all of the segments.
Balanced == segment_bytes = (live - large_live) + dead + Room * GRAIN

\* The totals a memory ceiling and a memory report are taken from count, word for
\* word and byte for byte, what is held and what is listed, and balance.  One row
\* is out of reach: the last one, once its owner has given up its reference, NONE,
\* stays charged.
Accounted ==
  LET taken == UNION {Block(held[o].at, held[o].len) : o \in SmallHolding}
      bulky == UNION {{o} \X (1..held[o].len) : o \in LargeHolding}
      rows == UNION {{r} \X (1..large[r]) : r \in DOMAIN large}
      lost == {b \in rows : b[1] = LARGE /\ \A o \in LargeHolding : held[o].at # NONE}
      listed == UNION {UNION {at..(at + c) : at \in Listed(c)} : c \in DOMAIN free}
  IN  /\ live = GRAIN * Cardinality(taken) + large_live
      /\ large_live = Cardinality(bulky) + Cardinality(lost)
      /\ large_live = Cardinality(rows)
      /\ dead = GRAIN * Cardinality(listed)
      /\ Balanced
=============================================================================
