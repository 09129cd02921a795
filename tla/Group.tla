------------------------------- MODULE Group -------------------------------
(***************************************************************************)
(* A group of control bytes compared at once, and the mask of matching     *)
(* lanes a probe walks (rugo-map/src/group.rs), for its three builds: the  *)
(* one bit a lane of SSE2, the four bits a lane of NEON, and the word at a *)
(* time fallback, which lights the top bit of each lane by subtraction.    *)
(***************************************************************************)
EXTENDS Integers, Sequences, SequencesExt, FiniteSetsExt

CONSTANTS
  LANES,         \* lanes of a group
  LANE_BITS      \* bits of a control byte, eight in the code

\* The powers of two, and of a lane.
Pow2[n \in Nat] == IF n = 0 THEN 1 ELSE 2 * Pow2[n - 1]
LANE == Pow2[LANE_BITS]
TOP == Pow2[LANE_BITS - 1]
LaneEnd[n \in Nat] == IF n = 0 THEN 1 ELSE LANE * LaneEnd[n - 1]
EMPTY == TOP
DELETED == LANE - 2
FREE == -1                                \* match_free rather than match_byte
Builds == {"sse2", "neon", "word"}
Control == 0 .. TOP - 1 \cup {EMPTY, DELETED}

ASSUME GroupAssumption == LANES \in Nat \ {0} /\ LANE_BITS \in Nat /\ LANE_BITS >= 2

VARIABLES
  build,         \* which of the three this is
  lanes,         \* the control bytes of the group
  wanted,        \* a byte to match, or FREE
  mask,          \* the bits still set
  visited        \* the lanes next has returned, in order

groupVars == <<build, lanes, wanted, mask, visited>>

STRIDE == CASE build = "sse2" -> 1 [] build = "neon" -> 4 [] build = "word" -> LANE_BITS

\* The bits of one lane.
LaneBits(lane) == lane * STRIDE .. lane * STRIDE + STRIDE - 1

\* Where a comparison of whole lanes says yes.
to_mask(hit) ==
  IF build = "neon" THEN UNION {LaneBits(lane) : lane \in hit} ELSE {lane * STRIDE : lane \in hit}

\* Exclusive or.
xor[a \in Nat] == [b \in Nat |-> IF a = 0 THEN b ELSE 2 * xor[a \div 2][b \div 2] + ((a + b) % 2)]

\* The lanes as one number, the first lane lowest, and a lane of a number.
Word(ctrl) ==
  LET above[n \in 0 .. LANES] == IF n = 0 THEN 0 ELSE ctrl[LANES + 1 - n] + LANE * above[n - 1]
  IN  above[LANES]
LaneOf(n, lane) ==
  LET shifted[i \in 0 .. LANES] == IF i = 0 THEN n ELSE shifted[i - 1] \div LANE
  IN  shifted[lane] % LANE

\* x - ONES & !x & HIGHS, with x the word whose wanted lanes are nought.
swar(byte) ==
  LET x == Word([i \in 1 .. LANES |-> xor[lanes[i]][byte]])
      less == (x - Word([i \in 1 .. LANES |-> 1])) % LaneEnd[LANES]
  IN  {lane \in 0 .. LANES - 1 : LaneOf(less, lane) >= TOP /\ LaneOf(x, lane) < TOP}

\* The top bit of each lane of a word.
highs(hit) == {lane * STRIDE + STRIDE - 1 : lane \in hit}

match_byte(byte) ==
  IF build = "word" THEN highs(swar(byte)) ELSE to_mask({i - 1 : i \in {i \in 1 .. LANES : lanes[i] = byte}})

match_free ==
  LET hit == {i - 1 : i \in {i \in 1 .. LANES : lanes[i] >= TOP}}
  IN  IF build = "word" THEN highs(hit) ELSE to_mask(hit)

lowest == Min(mask) \div STRIDE

\* (mutant) only the lowest bit of the lane goes
Cleared_bit(lane) == mask \ {Min(mask)}

Taken(lane) == mask \ LaneBits(lane)

-----------------------------------------------------------------------------
GroupInit ==
  /\ build \in Builds
  /\ lanes \in [1 .. LANES -> Control]
  /\ \/ wanted \in 0 .. TOP - 1 \cup {EMPTY} /\ mask = match_byte(wanted)
     \/ wanted = FREE /\ mask = match_free
  /\ visited = <<>>

\* BitMask::next
Visit ==
  /\ mask # {}
  /\ visited' = Append(visited, lowest)
  /\ mask' = Taken(lowest)
  /\ UNCHANGED <<build, lanes, wanted>>

GroupNext == Visit

GroupSpec == GroupInit /\ [][GroupNext]_groupVars

-----------------------------------------------------------------------------
(* Properties. *)

\* A probe visits every lane that holds what it looks for, each once and in
\* order, on every build.  The lanes it visits besides, which the word at a time
\* build makes up by a borrow, are full ones: a search for EMPTY or for a free
\* lane, whose answer nothing checks again, is exact.
LanesOnce ==
  mask = {} =>
    LET asked == {i - 1 : i \in {i \in 1 .. LANES :
                    IF wanted = FREE THEN lanes[i] \in {EMPTY, DELETED} ELSE lanes[i] = wanted}}
    IN  /\ \A i, j \in DOMAIN visited : i < j => visited[i] < visited[j]
        /\ asked \subseteq ToSet(visited)
        /\ \A lane \in ToSet(visited) \ asked :
             build = "word" /\ wanted \in 0 .. TOP - 1 /\ lanes[lane + 1] \in 0 .. TOP - 1
=============================================================================
