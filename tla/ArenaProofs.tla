---------------------------- MODULE ArenaProofs ----------------------------
(***************************************************************************)
(* The slab allocator, for any number of owners, any lengths and any       *)
(* geometry: live blocks never overlap, what an owner wrote stays, every   *)
(* word is in exactly one block, every free list ends and the totals are   *)
(* exact.                                                                  *)
(*                                                                         *)
(* The free lists are threaded through memory, so the invariant names what *)
(* the memory is to spell: for each class the blocks freed, in the order   *)
(* they were freed (a stack, whose bottom is NONE).  That there are such   *)
(* stacks is the invariant; every alloc pops one and every free pushes.    *)
(*                                                                         *)
(* All of it holds only as long as no segment is refused while room is     *)
(* left uncut: a refusal lists that room and goes on cutting from it, which *)
(* run MCArenaTail shows to hand out one word twice.  The theorems say so  *)
(* in their hypothesis, WholeRefusals.                                     *)
(***************************************************************************)
EXTENDS Arena, FunctionTheorems, FiniteSetTheorems, WellFoundedInduction, TLAPS

-----------------------------------------------------------------------------
(* Arithmetic. *)

\* A power of two is a positive number.
LEMMA PowType == ASSUME NEW n \in Nat PROVE 2 ^ n \in Nat /\ 2 ^ n > 0
<1>1. IsFiniteSet(1..n) /\ Cardinality(1..n) = n BY FS_Interval
<1>2. IsFiniteSet(SUBSET (1..n)) /\ Cardinality(SUBSET (1..n)) = 2 ^ n BY <1>1, FS_SUBSET
<1>3. Cardinality(SUBSET (1..n)) \in Nat BY <1>2, FS_CardinalityType
<1>4. SUBSET (1..n) # {} OBVIOUS
<1>5. Cardinality(SUBSET (1..n)) # 0 BY <1>2, <1>4, FS_EmptySet
<1> QED BY <1>2, <1>3, <1>5

\* Splitting a word of m + n bits: subsets of the two parts make up the subsets of
\* the whole.
LEMMA PowSum == ASSUME NEW m \in Nat, NEW n \in Nat PROVE 2 ^ (m + n) = 2 ^ m * 2 ^ n
<1> DEFINE A == 1..m
           B == (m + 1)..(m + n)
           C == 1..(m + n)
<1>1. /\ IsFiniteSet(A) /\ Cardinality(A) = m /\ IsFiniteSet(B) /\ Cardinality(B) = n
      /\ IsFiniteSet(C) /\ Cardinality(C) = m + n
  <2>1. IsFiniteSet(A) /\ Cardinality(A) = m BY FS_Interval
  <2>2. IsFiniteSet(B) /\ Cardinality(B) = n BY FS_Interval
  <2>3. IsFiniteSet(C) /\ Cardinality(C) = m + n
    <3>1. PICK k \in Nat : k = m + n OBVIOUS
    <3>2. IsFiniteSet(1..k) /\ Cardinality(1..k) = k BY FS_Interval
    <3> QED BY <3>1, <3>2
  <2> QED BY <2>1, <2>2, <2>3
<1>2. C = A \cup B /\ A \cap B = {} OBVIOUS
<1> HIDE DEF A, B, C
<1>3. /\ IsFiniteSet(SUBSET A) /\ Cardinality(SUBSET A) = 2 ^ m
      /\ IsFiniteSet(SUBSET B) /\ Cardinality(SUBSET B) = 2 ^ n
      /\ IsFiniteSet(SUBSET C) /\ Cardinality(SUBSET C) = 2 ^ (m + n)
  BY <1>1, FS_SUBSET
<1> DEFINE P == (SUBSET A) \X (SUBSET B)
<1>4. IsFiniteSet(P) /\ Cardinality(P) = 2 ^ m * 2 ^ n BY <1>3, FS_Product
<1> DEFINE f == [p \in P |-> p[1] \cup p[2]]
<1>5. f \in Bijection(P, SUBSET C)
  <2>1. f \in [P -> SUBSET C] BY <1>2
  <2>2. ASSUME NEW p \in P, NEW q \in P, f[p] = f[q] PROVE p = q
    <3>1. p[1] \cup p[2] = q[1] \cup q[2] BY <2>2
    <3>2. p[1] \subseteq A /\ p[2] \subseteq B /\ q[1] \subseteq A /\ q[2] \subseteq B OBVIOUS
    <3>3. p[1] = q[1] /\ p[2] = q[2] BY <1>2, <3>1, <3>2
    <3> QED BY <3>3
  <2>3. ASSUME NEW T \in SUBSET C PROVE \E p \in P : f[p] = T
    <3>1. <<T \cap A, T \cap B>> \in P OBVIOUS
    <3>2. f[<<T \cap A, T \cap B>>] = T BY <1>2, <3>1
    <3> QED BY <3>1, <3>2
  <2>4. f \in Injection(P, SUBSET C) BY <2>1, <2>2 DEF Injection, IsInjective
  <2>5. f \in Surjection(P, SUBSET C) BY <2>1, <2>3 DEF Surjection
  <2> QED BY <2>4, <2>5 DEF Bijection
<1>6. Cardinality(SUBSET C) = Cardinality(P)
  <2>1. ExistsBijection(P, SUBSET C) BY <1>5 DEF ExistsBijection
  <2> QED BY <1>4, <2>1, FS_Bijection
<1> QED BY <1>3, <1>4, <1>6

\* Division, as multiplication.
LEMMA DivIs ==
  ASSUME NEW a \in Nat, NEW g \in Nat, g > 0
  PROVE  /\ a \div g \in Nat /\ g * (a \div g) <= a /\ a < g * (a \div g) + g
         /\ a % g = a - g * (a \div g)
OBVIOUS

\* Whole multiples are divided without a rest.
LEMMA DivWhole ==
  ASSUME NEW k \in Nat, NEW g \in Nat, g > 0
  PROVE  (g * k) \div g = k /\ (g * k) % g = 0
OBVIOUS

\* A smaller number of equal parts is smaller.
LEMMA TimesLess ==
  ASSUME NEW s \in Nat, NEW t \in Nat, NEW w \in Nat
  PROVE  /\ s * w \in Nat /\ (s < t => s * w + w <= t * w) /\ (s <= t => s * w <= t * w)
         /\ (w > 0 /\ s * w <= t * w => s <= t)
<1>1. s * w \in Nat /\ t * w \in Nat OBVIOUS
<1>2. s < t => s * w + w <= t * w OBVIOUS
<1>3. s <= t => s * w <= t * w OBVIOUS
<1>4. t < s => t * w + w <= s * w OBVIOUS
<1> QED BY <1>1, <1>2, <1>3, <1>4

\* One interval inside another.
LEMMA IntervalIn ==
  ASSUME NEW a \in Int, NEW b \in Int, NEW c \in Int, NEW d \in Int, c <= a, b <= d
  PROVE  a..b \subseteq c..d
OBVIOUS

\* Every nonempty set of numbers has a least one, which is what the inductions of
\* this module are made of.
LEMMA Smallest ==
  ASSUME NEW T, T \subseteq Nat, T # {}
  PROVE  \E n \in T : \A m \in T : n <= m
<1>1. IsWellFoundedOn(OpToRel(<, Nat), Nat) BY NatLessThanWellFounded
<1>2. PICK n \in T : \A m \in T : ~(<<m, n>> \in OpToRel(<, Nat)) BY <1>1, WFMin
<1>3. \A m \in T : ~(m < n) BY <1>2 DEF OpToRel
<1> QED BY <1>3

-----------------------------------------------------------------------------
(* The geometry. *)

Span == 2 ^ OFF_BITS                  \* words a segment may have
CLASSES == SMALL_MAX \div GRAIN
Classes == 0 .. CLASSES - 1

\* The constants are positive, a segment holds at least two of the largest blocks
\* and at most what an offset reaches, and references are those of segments, then
\* those of rows, then NONE.
LEMMA Geometry ==
  /\ GRAIN \in Nat /\ GRAIN > 0 /\ SMALL_MAX \in Nat /\ SMALL_MAX > 0
  /\ Span \in Nat /\ Span > 0 /\ MAX_SEGMENTS \in Nat /\ MAX_SEGMENTS > 0
  /\ LARGE \in Nat /\ LARGE = MAX_SEGMENTS * Span /\ NONE \in Nat /\ NONE = 2 * LARGE - 1
  /\ LARGE > 0 /\ LARGE <= NONE
  /\ CLASSES \in Nat /\ CLASSES > 0 /\ SMALL_MAX = GRAIN * CLASSES
<1>1. /\ GRAIN \in Nat /\ GRAIN > 0 /\ SMALL_MAX \in Nat /\ SMALL_MAX > 0
      /\ SEG_BITS \in Nat /\ OFF_BITS \in Nat /\ SMALL_MAX % GRAIN = 0
  BY ArenaAssumption
<1>2. Span \in Nat /\ Span > 0 /\ MAX_SEGMENTS \in Nat /\ MAX_SEGMENTS > 0
  BY <1>1, PowType DEF Span, MAX_SEGMENTS
<1>3. LARGE = MAX_SEGMENTS * Span BY <1>1, PowSum DEF LARGE, MAX_SEGMENTS, Span
<1>4. LARGE \in Nat /\ LARGE > 0
  <2>1. PICK a \in Nat, b \in Nat : a = MAX_SEGMENTS /\ b = Span /\ a > 0 /\ b > 0 BY <1>2
  <2>2. a * b \in Nat /\ a * b > 0 BY <2>1
  <2> QED BY <1>3, <2>1, <2>2
<1>5. NONE \in Nat /\ NONE = 2 * LARGE - 1 /\ LARGE <= NONE BY <1>4 DEF NONE
<1>6. CLASSES \in Nat /\ CLASSES > 0 /\ SMALL_MAX = GRAIN * CLASSES
  <2>1. PICK q \in Nat : q = CLASSES /\ GRAIN * q <= SMALL_MAX /\ SMALL_MAX % GRAIN = SMALL_MAX - GRAIN * q
    BY <1>1, DivIs DEF CLASSES
  <2>2. SMALL_MAX = GRAIN * q BY <1>1, <2>1
  <2>3. q > 0 BY <1>1, <2>1, <2>2
  <2> QED BY <2>1, <2>2, <2>3
<1> QED BY <1>1, <1>2, <1>3, <1>4, <1>5, <1>6

\* A small block has at least one word and at most those of the largest class.
LEMMA WordsAre ==
  ASSUME NEW len \in Nat, Small(len)
  PROVE  /\ Words(len) \in Nat /\ Words(len) > 0 /\ Words(len) <= CLASSES
         /\ class_of(len) \in Classes /\ class_of(len) = Words(len) - 1
<1>1. len > 0 /\ len <= SMALL_MAX BY DEF Small
<1>2. PICK a \in Nat, q \in Nat :
        /\ a = len + GRAIN - 1 /\ q = Words(len) /\ GRAIN * q <= a /\ a < GRAIN * q + GRAIN
  <2>1. len + GRAIN - 1 \in Nat BY Geometry
  <2> QED BY <2>1, Geometry, DivIs DEF Words
<1>3. q > 0
  <2>1. q = 0 => GRAIN * q = 0 BY Geometry
  <2> QED BY <1>1, <1>2, <2>1, Geometry
<1>4. q <= CLASSES
  <2>1. GRAIN * q < GRAIN * CLASSES + GRAIN BY <1>1, <1>2, Geometry
  <2>2. CLASSES < q => CLASSES * GRAIN + GRAIN <= q * GRAIN BY Geometry, TimesLess
  <2>3. q * GRAIN = GRAIN * q /\ CLASSES * GRAIN = GRAIN * CLASSES BY Geometry
  <2>4. GRAIN * q \in Nat /\ GRAIN * CLASSES \in Nat BY Geometry
  <2> QED BY <2>1, <2>2, <2>3, <2>4, Geometry
<1> QED BY <1>2, <1>3, <1>4, Geometry DEF class_of, Classes

\* A new segment is whole words, room for two of the largest blocks at least, and
\* no more than an offset reaches.
LEMMA SegmentIs ==
  ASSUME NEW bytes \in Nat
  PROVE  LET words == next_segment_size(bytes) \div GRAIN
         IN  /\ words \in Nat /\ next_segment_size(bytes) = words * GRAIN
             /\ 2 * CLASSES <= words /\ words <= Span
<1> DEFINE n == next_segment_size(bytes)
<1>1. /\ MIN_SEGMENT \in Nat /\ MAX_SEGMENT \in Nat /\ MIN_SEGMENT > 0 /\ MAX_SEGMENT > 0
      /\ GROWTH \in Nat /\ GROWTH > 0
      /\ MIN_SEGMENT % GRAIN = 0 /\ MAX_SEGMENT % MIN_SEGMENT = 0
      /\ 2 * SMALL_MAX <= MIN_SEGMENT /\ MAX_SEGMENT <= GRAIN * Span
  BY ArenaAssumption DEF Span
<1>2. PICK g \in Nat : MIN_SEGMENT = GRAIN * g
  <2>1. PICK q \in Nat : q = MIN_SEGMENT \div GRAIN /\ MIN_SEGMENT % GRAIN = MIN_SEGMENT - GRAIN * q
    BY <1>1, Geometry, DivIs
  <2> QED BY <1>1, <2>1, Geometry
<1>3. PICK m \in Nat : MAX_SEGMENT = MIN_SEGMENT * m
  <2>1. PICK q \in Nat :
          q = MAX_SEGMENT \div MIN_SEGMENT /\ MAX_SEGMENT % MIN_SEGMENT = MAX_SEGMENT - MIN_SEGMENT * q
    BY <1>1, DivIs
  <2> QED BY <1>1, <2>1
<1>4. m > 0
  <2>1. m = 0 => MIN_SEGMENT * m = 0 BY <1>1
  <2> QED BY <1>1, <1>3, <2>1
<1>5. \E k \in Nat : k > 0 /\ k <= m /\ n = MIN_SEGMENT * k
  <2> DEFINE share == bytes \div GROWTH
             whole == (share + MIN_SEGMENT - 1) \div MIN_SEGMENT
  <2>1. share \in Nat BY <1>1, DivIs
  <2>2. CASE share >= MAX_SEGMENT
    <3>1. n = MAX_SEGMENT BY <2>2 DEF next_segment_size
    <3> QED BY <1>3, <1>4, <3>1
  <2>3. CASE ~(share >= MAX_SEGMENT)
    <3>1. PICK h \in Nat, q \in Nat, a \in Nat :
            h = share /\ q = whole /\ a = h + MIN_SEGMENT - 1 /\ MIN_SEGMENT * q <= a
      <4>1. share + MIN_SEGMENT - 1 \in Nat BY <1>1, <2>1
      <4> QED BY <1>1, <2>1, <4>1, DivIs
    <3>2. h < MIN_SEGMENT * m BY <1>1, <1>3, <2>3, <3>1
    <3>3. q <= m
      <4>1. MIN_SEGMENT * q < MIN_SEGMENT * m + MIN_SEGMENT BY <1>1, <3>1, <3>2
      <4>2. m < q => m * MIN_SEGMENT + MIN_SEGMENT <= q * MIN_SEGMENT BY <1>1, TimesLess
      <4>3. q * MIN_SEGMENT = MIN_SEGMENT * q /\ m * MIN_SEGMENT = MIN_SEGMENT * m BY <1>1
      <4>4. MIN_SEGMENT * q \in Nat /\ MIN_SEGMENT * m \in Nat BY <1>1
      <4> QED BY <4>1, <4>2, <4>3, <4>4, <1>1
    <3>4. n = IF q = 0 THEN MIN_SEGMENT ELSE q * MIN_SEGMENT BY <2>3, <3>1 DEF next_segment_size
    <3>5. CASE q = 0
      <4>1. n = MIN_SEGMENT * 1 BY <1>1, <3>4, <3>5
      <4> QED BY <1>4, <4>1
    <3>6. CASE q # 0
      <4>1. n = MIN_SEGMENT * q BY <1>1, <3>1, <3>4, <3>6
      <4> QED BY <3>1, <3>3, <3>6, <4>1
    <3> QED BY <3>5, <3>6
  <2> QED BY <2>2, <2>3
<1>6. PICK k \in Nat : k > 0 /\ k <= m /\ n = MIN_SEGMENT * k BY <1>5
<1> HIDE DEF n
<1>7. g * k \in Nat /\ n = GRAIN * (g * k) BY <1>2, <1>6, Geometry
<1>8. n \div GRAIN = g * k
  <2>1. PICK x \in Nat : x = g * k BY <1>7
  <2>2. (GRAIN * x) \div GRAIN = x BY <2>1, DivWhole, Geometry
  <2> QED BY <1>7, <2>1, <2>2
<1>9. 2 * CLASSES <= g
  <2>1. (2 * CLASSES) * GRAIN <= g * GRAIN BY <1>1, <1>2, Geometry
  <2>2. 2 * CLASSES \in Nat BY Geometry
  <2> QED BY <1>2, <2>1, <2>2, TimesLess, Geometry
<1>10. g <= g * k BY <1>2, <1>6
<1>11. g * k <= Span
  <2>1. k * MIN_SEGMENT <= m * MIN_SEGMENT BY <1>1, <1>6, <1>3, TimesLess
  <2>2. n <= MAX_SEGMENT BY <1>1, <1>3, <1>6, <2>1
  <2>3. (g * k) * GRAIN <= Span * GRAIN BY <1>1, <1>7, <2>2, Geometry
  <2> QED BY <1>7, <2>3, TimesLess, Geometry
<1>12. g * k \in Nat /\ 2 * CLASSES <= g * k BY <1>2, <1>7, <1>9, <1>10, Geometry
<1> QED BY <1>7, <1>8, <1>11, <1>12, Geometry DEF n

-----------------------------------------------------------------------------
(* The inductive invariant. *)

\* Where the next block is cut: every block so far ends at or before it.
Frontier == make(seg, off)

\* The n words from a; and the words of a block of class c.
Piece(a, n) == a .. (a + n - 1)
Size(c) == c + 1

\* n words from a and m words from b do not overlap.
Apart(a, n, b, m) == a + n <= b \/ b + m <= a

\* The n words from a are there and have been cut.
Lodged(a, n) == a \in Nat /\ a + n <= Frontier /\ Piece(a, n) \subseteq DOMAIN word

\* Segments, memory and list heads are what they are said to be.
Ground ==
  /\ made \in Nat /\ DOMAIN segments = 0..(made - 1) /\ made <= MAX_SEGMENTS
  /\ \A s \in DOMAIN segments : segments[s] \in 1..Span
  /\ seg \in Nat /\ off \in Nat
  /\ IF made = 0 THEN seg = 0 /\ off = 0 ELSE seg = made - 1 /\ off <= segments[seg]
  /\ \A w : w \in DOMAIN word <=>
              \E s \in DOMAIN segments : w \in make(s, 0) .. make(s, segments[s] - 1)
  /\ IsFiniteSet(DOMAIN word)
  /\ \A w \in DOMAIN word : word[w] \in 0..NONE \cup Owners
  /\ \E n \in 0..CLASSES : DOMAIN free = 0..(n - 1)
  /\ held \in [Owners -> [at : 0..NONE, len : Lens] \cup {NoBlock}]

\* Live blocks are cut, apart, and hold what their owners wrote.
Lives ==
  /\ \A o \in SmallHolding :
       /\ Lodged(held[o].at, Words(held[o].len))
       /\ class_of(held[o].len) \in DOMAIN free
       /\ \A w \in Piece(held[o].at, Words(held[o].len)) : word[w] = o
  /\ \A o, p \in SmallHolding :
       o # p => Apart(held[o].at, Words(held[o].len), held[p].at, Words(held[p].len))

\* The list of class c spells the stack s[c], of height d[c], from its top down.
Linked(d, s) ==
  /\ \A c \in Classes : s[c][0] = NONE
  /\ \A c \in Classes : c \in DOMAIN free => free[c] = s[c][d[c]]
  /\ \A c \in Classes : c \notin DOMAIN free => d[c] = 0
  /\ \A c \in Classes : \A i \in 1..d[c] :
       Lodged(s[c][i], Size(c)) /\ word[s[c][i]] = s[c][i - 1]

\* Free blocks are apart, from each other and from live ones.
Separate(d, s) ==
  /\ \A c, e \in Classes : \A i \in 1..d[c], j \in 1..d[e] :
       c # e \/ i # j => Apart(s[c][i], Size(c), s[e][j], Size(e))
  /\ \A c \in Classes : \A i \in 1..d[c] : \A o \in SmallHolding :
       Apart(s[c][i], Size(c), held[o].at, Words(held[o].len))

\* Words of live blocks, and of free ones.
LiveWords ==
  {w \in DOMAIN word : \E o \in SmallHolding : w \in Piece(held[o].at, Words(held[o].len))}
FreeWords(d, s) ==
  {w \in DOMAIN word : \E c \in Classes : \E i \in 1..d[c] : w \in Piece(s[c][i], Size(c))}

\* What has been cut is in a live block or a free one.
Covered(d, s) ==
  \A w \in DOMAIN word : w < Frontier => w \in LiveWords \/ w \in FreeWords(d, s)

\* A row that has a length is somebody's, the last row apart: its reference is
\* NONE, and giving that up leaves the row as it is.
Owned ==
  \A i \in 1..Len(large) :
    i = LARGE \/ large[i] = 0 \/ \E p \in LargeHolding : held[p].at - LARGE + 1 = i

\* The oversized rows: a held one has its owner's length, a hole has none, and
\* no row is twice held, twice a hole, or both.
Rows ==
  /\ large \in Seq(Nat) /\ large_free \in Seq(Nat) /\ Len(large) <= LARGE
  /\ \A i \in 1..Len(large) : large[i] \in Lens \cup {0}
  /\ \A i \in 1..Len(large_free) : large_free[i] < Len(large) /\ large[large_free[i] + 1] = 0
  /\ \A i, j \in 1..Len(large_free) : large_free[i] = large_free[j] => i = j
  /\ \A o \in LargeHolding :
       /\ held[o].at - LARGE \in 0..(Len(large) - 1)
       /\ large[held[o].at - LARGE + 1] = held[o].len
       /\ \A i \in 1..Len(large_free) : large_free[i] # held[o].at - LARGE
  /\ \A o, p \in LargeHolding : held[o].at = held[p].at => o = p
  /\ Owned

\* One for every byte of every row, to be counted.
RowBytes == {u \in (1..Len(large)) \X Nat : u[2] \in 1..large[u[1]]}

\* The totals are what they count.
Tallied(d, s) ==
  /\ dead = GRAIN * Cardinality(FreeWords(d, s))
  /\ live = GRAIN * Cardinality(LiveWords) + large_live
  /\ IsFiniteSet(RowBytes) /\ large_live = Cardinality(RowBytes)
  /\ segment_bytes = (live - large_live) + dead + Room * GRAIN

Spelled(d, s) == Linked(d, s) /\ Separate(d, s) /\ Covered(d, s) /\ Tallied(d, s)

IInv ==
  /\ Ground /\ Lives /\ Rows
  /\ \E d \in [Classes -> Nat], s \in [Classes -> [Nat -> Nat]] : Spelled(d, s)

-----------------------------------------------------------------------------
(* What the geometry gives. *)

\* A place in a segment, and the segments' places one after another.
LEMMA MakeIs ==
  /\ \A s \in Nat, o \in Nat : make(s, o) \in Nat /\ make(s, o) = make(s, 0) + o
  /\ \A s \in Nat, t \in Nat : s < t => make(s, 0) + Span <= make(t, 0)
  /\ make(0, 0) = 0 /\ make(MAX_SEGMENTS, 0) = LARGE
<1>1. ASSUME NEW s \in Nat, NEW o \in Nat PROVE make(s, o) \in Nat /\ make(s, o) = make(s, 0) + o
  <2>1. s * Span \in Nat BY Geometry, TimesLess
  <2> QED BY <2>1 DEF make, Span
<1>2. ASSUME NEW s \in Nat, NEW t \in Nat, s < t PROVE make(s, 0) + Span <= make(t, 0)
  <2>1. s * Span \in Nat /\ t * Span \in Nat /\ s * Span + Span <= t * Span BY <1>2, Geometry, TimesLess
  <2> QED BY <2>1 DEF make, Span
<1>3. make(0, 0) = 0 BY Geometry DEF make, Span
<1>4. make(MAX_SEGMENTS, 0) = LARGE BY Geometry DEF make, Span
<1> QED BY <1>1, <1>2, <1>3, <1>4

\* The room not cut is the end of memory, and memory ends below LARGE.
LEMMA Places ==
  ASSUME Ground
  PROVE  /\ Frontier \in Nat /\ Room \in Nat /\ make(made, 0) \in Nat
         /\ Frontier .. (Frontier + Room - 1) \subseteq DOMAIN word
         /\ \A w \in DOMAIN word : w \in Nat /\ w < Frontier + Room /\ w < LARGE
         /\ Frontier + Room <= make(made, 0) /\ make(made, 0) <= LARGE
         /\ made = 0 => Frontier = 0 /\ Room = 0 /\ DOMAIN word = {}
<1>1. /\ made \in Nat /\ made <= MAX_SEGMENTS /\ DOMAIN segments = 0..(made - 1)
      /\ seg \in Nat /\ off \in Nat /\ MAX_SEGMENTS \in Nat
  BY Geometry DEF Ground
<1>2. Frontier \in Nat /\ Frontier = make(seg, 0) + off /\ make(seg, 0) \in Nat
  BY <1>1, MakeIs DEF Frontier
<1>3. make(made, 0) \in Nat /\ make(made, 0) <= LARGE
  <2>1. make(made, 0) \in Nat BY <1>1, MakeIs
  <2>2. CASE made = MAX_SEGMENTS BY <2>1, <2>2, MakeIs, Geometry
  <2>3. CASE made < MAX_SEGMENTS
    <3>1. make(made, 0) + Span <= LARGE BY <1>1, <2>3, MakeIs
    <3> QED BY <2>1, <3>1, Geometry
  <2> QED BY <1>1, <2>2, <2>3
<1>4. CASE made = 0
  <2>1. DOMAIN segments = {} /\ seg = 0 /\ off = 0 BY <1>1, <1>4 DEF Ground
  <2>2. DOMAIN word = {} BY <2>1 DEF Ground
  <2>3. Room = 0 /\ Frontier = 0 BY <1>2, <1>4, <2>1, MakeIs DEF Room
  <2>4. Frontier .. (Frontier + Room - 1) = {} BY <2>3
  <2>5. Frontier + Room <= make(made, 0) BY <1>4, <2>3, MakeIs
  <2> QED BY <1>2, <1>3, <2>2, <2>3, <2>4, <2>5
<1>5. CASE made # 0
  <2>1. seg = made - 1 /\ off <= segments[seg] /\ seg \in DOMAIN segments BY <1>1, <1>5 DEF Ground
  <2>2. PICK z \in Nat : z = segments[seg] /\ z <= Span /\ z > 0 BY <2>1, Geometry DEF Ground
  <2>3. Room = z - off /\ Room \in Nat BY <1>1, <1>5, <2>1, <2>2 DEF Room
  <2>4. Frontier + Room = make(seg, 0) + z BY <1>1, <1>2, <2>2, <2>3
  <2>5. make(seg, z - 1) = make(seg, 0) + (z - 1)
    <3>1. PICK y \in Nat : y = z - 1 BY <2>2
    <3>2. make(seg, y) = make(seg, 0) + y BY <1>1, <3>1, MakeIs
    <3> QED BY <3>1, <3>2
  <2>6. Frontier .. (Frontier + Room - 1) \subseteq DOMAIN word
    <3>1. PICK f \in Nat, r \in Nat, m \in Nat : f = Frontier /\ r = Room /\ m = make(seg, 0)
      BY <1>2, <2>3
    <3>2. f = m + off /\ f + r = m + z BY <1>2, <2>4, <3>1
    <3>5. f \in Int /\ f + r - 1 \in Int /\ m \in Int /\ m + (z - 1) \in Int BY <2>2, <3>1
    <3>6. m <= f /\ f + r - 1 <= m + (z - 1)
      <4>1. PICK o \in Nat : o = off BY <1>1
      <4>2. f = m + o BY <3>2, <4>1
      <4> QED BY <2>2, <3>1, <3>2, <4>1, <4>2
    <3>3. f .. (f + r - 1) \subseteq m .. (m + (z - 1)) BY <3>5, <3>6, IntervalIn
    <3>4. m .. (m + (z - 1)) \subseteq DOMAIN word BY <2>1, <2>2, <2>5, <3>1 DEF Ground
    <3> QED BY <3>1, <3>3, <3>4
  <2>7. make(seg, 0) + Span <= make(made, 0) BY <1>1, <2>1, MakeIs
  <2>8. Frontier + Room <= make(made, 0) BY <1>2, <1>3, <2>2, <2>4, <2>7, Geometry
  <2>9. ASSUME NEW w \in DOMAIN word PROVE w \in Nat /\ w < Frontier + Room /\ w < LARGE
    <3>1. PICK s \in DOMAIN segments : w \in make(s, 0) .. make(s, segments[s] - 1)
      BY <2>9 DEF Ground
    <3>2. PICK y \in Nat : y = segments[s] /\ y <= Span /\ y > 0 BY <3>1, Geometry DEF Ground
    <3>3. s \in Nat /\ s <= seg BY <1>1, <2>1, <3>1
    <3>4. make(s, 0) \in Nat /\ make(s, y - 1) = make(s, 0) + (y - 1) BY <3>2, <3>3, MakeIs
    <3>5. w \in Nat /\ w < make(s, 0) + y BY <3>1, <3>2, <3>4
    <3>6. w < make(seg, 0) + z
      <4>1. CASE s = seg BY <2>2, <3>2, <3>5, <4>1
      <4>2. CASE s < seg
        <5>1. make(s, 0) + Span <= make(seg, 0) BY <1>1, <3>3, <4>2, MakeIs
        <5> QED BY <1>2, <2>2, <3>2, <3>4, <3>5, <5>1, Geometry
      <4> QED BY <1>1, <3>3, <4>1, <4>2
    <3> QED BY <1>2, <1>3, <2>3, <2>4, <2>8, <3>5, <3>6, Geometry
  <2> QED BY <1>2, <1>3, <1>5, <2>3, <2>6, <2>8, <2>9
<1> QED BY <1>4, <1>5

-----------------------------------------------------------------------------
(* What owners hold. *)

Blocks == [at : 0..NONE, len : Lens]

\* What is held is a block, small or not.
LEMMA HeldIs ==
  ASSUME Ground
  PROVE  /\ \A o \in Holding : o \in Owners /\ held[o] \in Blocks /\ held[o].at \in Nat
                               /\ held[o].at <= NONE /\ held[o].len \in Lens /\ held[o].len \in Nat
         /\ \A o \in SmallHolding : o \in Holding /\ Small(held[o].len)
         /\ \A o \in LargeHolding : o \in Holding /\ ~Small(held[o].len)
         /\ \A o \in Holding : o \in SmallHolding \/ o \in LargeHolding
<1>1. ASSUME NEW o \in Holding PROVE o \in Owners /\ held[o] \in Blocks
  BY DEF Ground, Holding, Blocks
<1>2. \A b \in Blocks : b.at \in Nat /\ b.at <= NONE /\ b.len \in Lens /\ b.len \in Nat
  <2>1. \A b \in Blocks : b.at \in 0..NONE /\ b.len \in Lens BY DEF Blocks
  <2>2. \A x \in 0..NONE : x \in Nat /\ x <= NONE BY Geometry
  <2>3. \A x \in Lens : x \in Nat BY ArenaAssumption
  <2> QED BY <2>1, <2>2, <2>3
<1> QED BY <1>1, <1>2 DEF SmallHolding, LargeHolding

\* The words of what is held small.
LEMMA HeldWords ==
  ASSUME Ground, NEW o \in SmallHolding
  PROVE  /\ Words(held[o].len) \in Nat /\ Words(held[o].len) > 0
         /\ class_of(held[o].len) \in Classes /\ class_of(held[o].len) = Words(held[o].len) - 1
         /\ o \in Owners /\ held[o].at \in Nat
BY HeldIs, WordsAre

\* An owner is given a block: it holds that and the others what they held.
LEMMA GivenTo ==
  ASSUME Ground, NEW o \in Owners, NEW at \in 0..NONE, NEW len \in Lens,
         held[o] = NoBlock, Holds(o, at, len)
  PROVE  /\ held' \in [Owners -> Blocks \cup {NoBlock}] /\ o \notin Holding
         /\ Holding' = Holding \cup {o} /\ held'[o].at = at /\ held'[o].len = len
         /\ \A p \in Owners : p # o => held'[p] = held[p]
         /\ Small(len) => SmallHolding' = SmallHolding \cup {o} /\ LargeHolding' = LargeHolding
         /\ ~Small(len) => SmallHolding' = SmallHolding /\ LargeHolding' = LargeHolding \cup {o}
<1> DEFINE b == [at |-> at, len |-> len]
<1>1. b \in Blocks /\ b # NoBlock /\ b.at = at /\ b.len = len BY ArenaAssumption DEF Blocks
<1>2. held \in [Owners -> Blocks \cup {NoBlock}] BY DEF Ground, Blocks
<1> HIDE DEF b
<1>3. held' = [held EXCEPT ![o] = b] BY DEF Holds, b
<1>4. held' \in [Owners -> Blocks \cup {NoBlock}] /\ held'[o] = b /\ \A p \in Owners : p # o => held'[p] = held[p]
  BY <1>1, <1>2, <1>3
<1>5. Holding' = Holding \cup {o} /\ o \notin Holding BY <1>1, <1>4 DEF Holding
<1>6. Small(len) => SmallHolding' = SmallHolding \cup {o} BY <1>1, <1>4, <1>5 DEF SmallHolding, Holding
<1>7. ~Small(len) => SmallHolding' = SmallHolding BY <1>1, <1>4, <1>5 DEF SmallHolding, Holding
<1>8. o \notin SmallHolding /\ o \notin LargeHolding BY <1>5 DEF SmallHolding, LargeHolding
<1>9. /\ Small(len) => LargeHolding' = LargeHolding
      /\ ~Small(len) => LargeHolding' = LargeHolding \cup {o}
  BY <1>5, <1>6, <1>7, <1>8 DEF LargeHolding
<1> QED BY <1>1, <1>4, <1>5, <1>6, <1>7, <1>9

\* An owner gives its block back: the others hold what they held.
LEMMA GivenBack ==
  ASSUME Ground, NEW o \in Owners, held[o] # NoBlock, held' = [held EXCEPT ![o] = NoBlock]
  PROVE  /\ held' \in [Owners -> Blocks \cup {NoBlock}] /\ o \in Holding
         /\ Holding' = Holding \ {o}
         /\ \A p \in Owners : p # o => held'[p] = held[p]
         /\ SmallHolding' = SmallHolding \ {o} /\ LargeHolding' = LargeHolding \ {o}
         /\ Small(held[o].len) => o \in SmallHolding /\ o \notin LargeHolding
         /\ ~Small(held[o].len) => o \notin SmallHolding /\ o \in LargeHolding
<1>1. held \in [Owners -> Blocks \cup {NoBlock}] BY DEF Ground, Blocks
<1>2. held' \in [Owners -> Blocks \cup {NoBlock}] /\ held'[o] = NoBlock /\ \A p \in Owners : p # o => held'[p] = held[p]
  BY <1>1
<1>3. Holding' = Holding \ {o} /\ o \in Holding BY <1>2 DEF Holding
<1>4. SmallHolding' = SmallHolding \ {o} BY <1>2, <1>3 DEF SmallHolding, Holding
<1>5. LargeHolding' = LargeHolding \ {o} BY <1>3, <1>4 DEF LargeHolding
<1> QED BY <1>2, <1>3, <1>4, <1>5 DEF SmallHolding, LargeHolding

-----------------------------------------------------------------------------
(* What a step that leaves a part alone keeps. *)

\* The oversized table, while no oversized block changes hands.
LEMMA RowsKept ==
  ASSUME Rows, UNCHANGED oversized, LargeHolding' = LargeHolding,
         \A p \in LargeHolding : held'[p] = held[p]
  PROVE  Rows' /\ RowBytes' = RowBytes
<1>1. large' = large /\ large_free' = large_free BY DEF oversized
<1>2. RowBytes' = RowBytes BY <1>1 DEF RowBytes
<1>3. /\ large' \in Seq(Nat) /\ large_free' \in Seq(Nat) /\ Len(large') <= LARGE
      /\ \A i \in 1..Len(large') : large'[i] \in Lens \cup {0}
      /\ \A i \in 1..Len(large_free') : large_free'[i] < Len(large') /\ large'[large_free'[i] + 1] = 0
      /\ \A i, j \in 1..Len(large_free') : large_free'[i] = large_free'[j] => i = j
  BY <1>1 DEF Rows
<1>4. ASSUME NEW o \in LargeHolding'
      PROVE  /\ held'[o].at - LARGE \in 0..(Len(large') - 1)
             /\ large'[held'[o].at - LARGE + 1] = held'[o].len
             /\ \A i \in 1..Len(large_free') : large_free'[i] # held'[o].at - LARGE
  <2>1. o \in LargeHolding /\ held'[o] = held[o] BY <1>4
  <2> QED BY <1>1, <2>1 DEF Rows
<1>5. ASSUME NEW o \in LargeHolding', NEW p \in LargeHolding', held'[o].at = held'[p].at PROVE o = p
  <2>1. o \in LargeHolding /\ p \in LargeHolding /\ held'[o] = held[o] /\ held'[p] = held[p] OBVIOUS
  <2>2. \A x, y \in LargeHolding : held[x].at = held[y].at => x = y BY DEF Rows
  <2> QED BY <1>5, <2>1, <2>2
<1>6. Owned'
  <2>1. Owned BY DEF Rows
  <2> QED BY <1>1, <2>1 DEF Owned
<1> QED BY <1>2, <1>3, <1>4, <1>5, <1>6 DEF Rows

\* The slab, while no small block changes hands.
LEMMA SlabKept ==
  ASSUME Ground, Lives, UNCHANGED slab, SmallHolding' = SmallHolding,
         \A p \in SmallHolding : held'[p] = held[p],
         held' \in [Owners -> Blocks \cup {NoBlock}],
         NEW d \in [Classes -> Nat], NEW s \in [Classes -> [Nat -> Nat]],
         Linked(d, s), Separate(d, s), Covered(d, s)
  PROVE  /\ Ground' /\ Lives' /\ Linked(d, s)' /\ Separate(d, s)' /\ Covered(d, s)'
         /\ FreeWords(d, s)' = FreeWords(d, s) /\ LiveWords' = LiveWords
         /\ Room' = Room /\ dead' = dead /\ segment_bytes' = segment_bytes
<1> USE DEF slab
<1>1. Ground' BY DEF Ground, Blocks, made
<1>2. Frontier' = Frontier /\ Room' = Room BY DEF Frontier, Room, made
<1>3. Lives' BY <1>2 DEF Lives, Lodged
<1>4. Linked(d, s)' BY <1>2 DEF Linked, Lodged
<1>5. Separate(d, s)' BY DEF Separate
<1>6. FreeWords(d, s)' = FreeWords(d, s) /\ LiveWords' = LiveWords BY DEF FreeWords, LiveWords
<1>7. Covered(d, s)' BY <1>2, <1>6 DEF Covered
<1> QED BY <1>1, <1>2, <1>3, <1>4, <1>5, <1>6, <1>7

-----------------------------------------------------------------------------
(* Counting words. *)

\* A piece of n words counts n, and holds its first word.
LEMMA CountPiece ==
  ASSUME NEW a \in Nat, NEW n \in Nat
  PROVE  /\ IsFiniteSet(Piece(a, n)) /\ Cardinality(Piece(a, n)) = n
         /\ n > 0 => a \in Piece(a, n)
         /\ \A w \in Piece(a, n) : w \in Nat /\ a <= w /\ w < a + n
<1>1. PICK b \in Int : b = a + n - 1 OBVIOUS
<1>2. IsFiniteSet(a..b) /\ Cardinality(a..b) = IF a > b THEN 0 ELSE b - a + 1 BY FS_Interval
<1>3. (a > b => n = 0) /\ b - a + 1 = n BY <1>1
<1>4. Piece(a, n) = a..b BY <1>1 DEF Piece
<1>5. IsFiniteSet(Piece(a, n)) /\ Cardinality(Piece(a, n)) = n BY <1>2, <1>3, <1>4
<1>6. n > 0 => a \in Piece(a, n) BY <1>1, <1>4
<1>7. \A w \in Piece(a, n) : w \in Nat /\ a <= w /\ w < a + n BY <1>1, <1>4
<1> QED BY <1>5, <1>6, <1>7

\* Taking a part away, and adding something new.
LEMMA CountPart ==
  ASSUME NEW S, IsFiniteSet(S), NEW B, IsFiniteSet(B)
  PROVE  /\ Cardinality(S) \in Nat /\ Cardinality(B) \in Nat
         /\ B \subseteq S => IsFiniteSet(S \ B) /\ Cardinality(S \ B) = Cardinality(S) - Cardinality(B)
         /\ B \cap S = {} => IsFiniteSet(S \cup B) /\ Cardinality(S \cup B) = Cardinality(S) + Cardinality(B)
<1>1. Cardinality(S) \in Nat /\ Cardinality(B) \in Nat BY FS_CardinalityType
<1>2. ASSUME B \subseteq S
      PROVE  IsFiniteSet(S \ B) /\ Cardinality(S \ B) = Cardinality(S) - Cardinality(B)
  <2>1. S \cap B = B BY <1>2
  <2> QED BY <2>1, FS_Difference
<1>3. ASSUME B \cap S = {}
      PROVE  IsFiniteSet(S \cup B) /\ Cardinality(S \cup B) = Cardinality(S) + Cardinality(B)
  <2>1. S \cap B = {} /\ Cardinality({}) = 0 BY <1>3, FS_EmptySet
  <2>2. Cardinality(S \cup B) = Cardinality(S) + Cardinality(B) - Cardinality(S \cap B) BY FS_Union
  <2>3. Cardinality(S \cup B) = Cardinality(S) + Cardinality(B) - 0 BY <2>1, <2>2
  <2>4. IsFiniteSet(S \cup B) BY FS_Union
  <2>5. PICK x \in Nat, y \in Nat : x = Cardinality(S) /\ y = Cardinality(B) BY <1>1
  <2>6. x + y - 0 = x + y BY <2>5
  <2> QED BY <2>3, <2>4, <2>5, <2>6
<1> QED BY <1>1, <1>2, <1>3

\* Two pieces apart share no word, and being apart goes both ways.
LEMMA ApartIs ==
  ASSUME NEW a \in Nat, NEW n \in Nat, NEW b \in Nat, NEW m \in Nat, Apart(a, n, b, m)
  PROVE  Apart(b, m, a, n) /\ \A w : ~(w \in Piece(a, n) /\ w \in Piece(b, m))
<1>1. Apart(b, m, a, n) BY DEF Apart
<1>2. ASSUME NEW w, w \in Piece(a, n), w \in Piece(b, m) PROVE FALSE
  BY <1>2, CountPiece DEF Apart
<1> QED BY <1>1, <1>2

\* The classes and their sizes.
LEMMA SizeIs ==
  \A c \in Classes : c \in Nat /\ Size(c) \in Nat /\ Size(c) > 0 /\ Size(c) = c + 1 /\ Size(c) <= CLASSES
BY Geometry DEF Classes, Size

\* The words of stacked blocks: they are there, below the frontier.
LEMMA StackedIs ==
  ASSUME Ground, NEW d \in [Classes -> Nat], NEW s \in [Classes -> [Nat -> Nat]], Linked(d, s)
  PROVE  \A c \in Classes : \A i \in 1..d[c] :
           /\ i \in Nat /\ s[c][i] \in Nat /\ Lodged(s[c][i], Size(c))
           /\ Piece(s[c][i], Size(c)) \subseteq DOMAIN word
           /\ s[c][i] \in Piece(s[c][i], Size(c)) /\ s[c][i] \in DOMAIN word
           /\ s[c][i] < LARGE /\ s[c][i] # NONE
<1> TAKE c \in Classes
<1> TAKE i \in 1..d[c]
<1>1. d[c] \in Nat /\ Size(c) \in Nat /\ Size(c) > 0 BY SizeIs
<1>2. i \in Nat /\ s[c] \in [Nat -> Nat] BY <1>1
<1>3. PICK a \in Nat : a = s[c][i] BY <1>2
<1>4. Lodged(a, Size(c)) BY <1>3 DEF Linked
<1>5. a \in Piece(a, Size(c)) BY <1>1, CountPiece
<1>6. Piece(a, Size(c)) \subseteq DOMAIN word BY <1>4 DEF Lodged
<1>7. a < LARGE /\ a # NONE
  <2>1. a \in DOMAIN word BY <1>5, <1>6
  <2>2. a < LARGE BY <2>1, Places
  <2> QED BY <1>3, <2>2, Geometry
<1> QED BY <1>2, <1>3, <1>4, <1>5, <1>6, <1>7

\* The words of live blocks: likewise.
LEMMA HeldAt ==
  ASSUME Ground, Lives
  PROVE  \A o \in SmallHolding :
           /\ held[o].at \in Nat /\ Words(held[o].len) \in Nat /\ Words(held[o].len) > 0
           /\ Lodged(held[o].at, Words(held[o].len))
           /\ Piece(held[o].at, Words(held[o].len)) \subseteq DOMAIN word
           /\ held[o].at \in Piece(held[o].at, Words(held[o].len))
BY HeldWords, CountPiece DEF Lives, Lodged

\* Free words are not live.
LEMMA FreeNotLive ==
  ASSUME Ground, Lives, NEW d \in [Classes -> Nat], NEW s \in [Classes -> [Nat -> Nat]],
         Linked(d, s), Separate(d, s)
  PROVE  FreeWords(d, s) \cap LiveWords = {}
<1> SUFFICES ASSUME NEW w, w \in FreeWords(d, s), w \in LiveWords PROVE FALSE OBVIOUS
<1>1. PICK c \in Classes : \E i \in 1..d[c] : w \in Piece(s[c][i], Size(c)) BY DEF FreeWords
<1>2. PICK i \in 1..d[c] : w \in Piece(s[c][i], Size(c)) BY <1>1
<1>3. PICK o \in SmallHolding : w \in Piece(held[o].at, Words(held[o].len)) BY DEF LiveWords
<1>4. Apart(s[c][i], Size(c), held[o].at, Words(held[o].len)) BY DEF Separate
<1>5. s[c][i] \in Nat /\ Size(c) \in Nat BY SizeIs, StackedIs
<1>6. held[o].at \in Nat /\ Words(held[o].len) \in Nat BY HeldAt
<1> QED BY <1>2, <1>3, <1>4, <1>5, <1>6, ApartIs

-----------------------------------------------------------------------------
(* Popping and pushing. *)

\* The stacks once the top of c's is popped.
Popped(d, c) == [d EXCEPT ![c] = d[c] - 1]

\* What is left on the stacks after a pop is what was there, the top apart.
LEMMA PoppedIs ==
  ASSUME NEW d \in [Classes -> Nat], NEW c \in Classes, d[c] > 0
  PROVE  /\ Popped(d, c) \in [Classes -> Nat] /\ d[c] \in 1..d[c]
         /\ \A x \in Classes : \A i \in 1..Popped(d, c)[x] : i \in 1..d[x] /\ (x # c \/ i # d[c])
         /\ \A x \in Classes : \A i \in 1..d[x] : i \in 1..Popped(d, c)[x] \/ (x = c /\ i = d[c])
         /\ Popped(d, c)[c] = d[c] - 1 /\ \A x \in Classes : x # c => Popped(d, c)[x] = d[x]
<1> DEFINE e == Popped(d, c)
<1>1. d[c] \in Nat /\ d[c] - 1 \in Nat /\ d[c] \in 1..d[c] OBVIOUS
<1>2. e \in [Classes -> Nat] /\ e[c] = d[c] - 1 /\ \A x \in Classes : x # c => e[x] = d[x]
  BY <1>1 DEF Popped
<1> HIDE DEF e
<1>3. ASSUME NEW x \in Classes, NEW i \in 1..e[x] PROVE i \in 1..d[x] /\ (x # c \/ i # d[c])
  <2>1. CASE x = c BY <1>1, <1>2, <2>1
  <2>2. CASE x # c BY <1>2, <2>2
  <2> QED BY <2>1, <2>2
<1>4. ASSUME NEW x \in Classes, NEW i \in 1..d[x] PROVE i \in 1..e[x] \/ (x = c /\ i = d[c])
  <2>1. CASE x = c BY <1>1, <1>2, <2>1
  <2>2. CASE x # c BY <1>2, <2>2
  <2> QED BY <2>1, <2>2
<1> QED BY <1>1, <1>2, <1>3, <1>4 DEF e

\* The top of a stack is popped: its words are no longer free.
LEMMA PopWords ==
  ASSUME Ground, NEW d \in [Classes -> Nat], NEW s \in [Classes -> [Nat -> Nat]],
         Linked(d, s), Separate(d, s), NEW c \in Classes, d[c] > 0
  PROVE  LET B == Piece(s[c][d[c]], Size(c))
         IN  FreeWords(Popped(d, c), s) = FreeWords(d, s) \ B /\ B \subseteq FreeWords(d, s)
<1> DEFINE B == Piece(s[c][d[c]], Size(c))
           e == Popped(d, c)
<1>1. d[c] \in 1..d[c] BY PoppedIs
<1>2. B \subseteq FreeWords(d, s) BY <1>1, StackedIs DEF FreeWords
<1>3. ASSUME NEW w \in FreeWords(e, s) PROVE w \in FreeWords(d, s) \ B
  <2>1. PICK x \in Classes : \E i \in 1..e[x] : w \in Piece(s[x][i], Size(x)) BY DEF FreeWords
  <2>2. PICK i \in 1..e[x] : w \in Piece(s[x][i], Size(x)) BY <2>1
  <2>3. i \in 1..d[x] /\ (x # c \/ i # d[c]) BY PoppedIs
  <2>4. Apart(s[x][i], Size(x), s[c][d[c]], Size(c)) BY <1>1, <2>3 DEF Separate
  <2>5. s[x][i] \in Nat /\ Size(x) \in Nat /\ s[c][d[c]] \in Nat /\ Size(c) \in Nat
    BY <1>1, <2>3, SizeIs, StackedIs
  <2>6. w \notin B BY <2>2, <2>4, <2>5, ApartIs
  <2> QED BY <2>2, <2>3, <2>6 DEF FreeWords
<1>4. ASSUME NEW w \in FreeWords(d, s), w \notin B PROVE w \in FreeWords(e, s)
  <2>1. PICK x \in Classes : \E i \in 1..d[x] : w \in Piece(s[x][i], Size(x)) BY DEF FreeWords
  <2>2. PICK i \in 1..d[x] : w \in Piece(s[x][i], Size(x)) BY <2>1
  <2>3. i \in 1..e[x] BY <1>4, <2>2, PoppedIs
  <2> QED BY <2>2, <2>3 DEF FreeWords
<1> QED BY <1>2, <1>3, <1>4

\* The stacks once at is pushed on c's.
Heights(d, c) == [d EXCEPT ![c] = d[c] + 1]
Pushed(d, s, c, at) == [s EXCEPT ![c] = [s[c] EXCEPT ![d[c] + 1] = at]]

\* Stacks e, z are d, s with at on top of c's.
OneMore(d, s, e, z, c, at) ==
  /\ e \in [Classes -> Nat] /\ z \in [Classes -> [Nat -> Nat]]
  /\ e[c] \in 1..e[c] /\ z[c][e[c]] = at /\ z[c][e[c] - 1] = s[c][d[c]]
  /\ \A x \in Classes : x # c => e[x] = d[x]
  /\ \A x \in Classes : z[x][0] = s[x][0] /\ z[x][d[x]] = s[x][d[x]]
  /\ \A x \in Classes : \A i \in 1..e[x] : i \in 1..d[x] \/ (x = c /\ i = e[c])
  /\ \A x \in Classes : \A i \in 1..d[x] :
       i \in 1..e[x] /\ (x # c \/ i # e[c]) /\ z[x][i] = s[x][i] /\ z[x][i - 1] = s[x][i - 1]

\* What is on the stacks after a push was there before, or is the new top.
LEMMA OldOrNew ==
  ASSUME NEW d, NEW s, NEW e, NEW z, NEW c, NEW at, OneMore(d, s, e, z, c, at)
  PROVE  \A x \in Classes : \A i \in 1..e[x] :
           (i \in 1..d[x] /\ z[x][i] = s[x][i]) \/ (x = c /\ z[x][i] = at)
BY DEF OneMore

\* What is on the stacks after a push is what was there, and the new top.
LEMMA PushedIs ==
  ASSUME NEW d \in [Classes -> Nat], NEW s \in [Classes -> [Nat -> Nat]],
         NEW c \in Classes, NEW at \in Nat
  PROVE  OneMore(d, s, Heights(d, c), Pushed(d, s, c, at), c, at)
<1> DEFINE h == d[c] + 1
           e == Heights(d, c)
           z == Pushed(d, s, c, at)
<1>1. d[c] \in Nat /\ h \in Nat /\ h > 0 OBVIOUS
<1>2. e \in [Classes -> Nat] /\ e[c] = h /\ \A x \in Classes : x # c => e[x] = d[x]
  BY <1>1 DEF Heights
<1>3. /\ z \in [Classes -> [Nat -> Nat]] /\ z[c][h] = at
      /\ \A x \in Classes, i \in Nat : x # c \/ i # h => z[x][i] = s[x][i]
  <2>1. s[c] \in [Nat -> Nat] OBVIOUS
  <2>2. [s[c] EXCEPT ![h] = at] \in [Nat -> Nat] BY <1>1, <2>1
  <2>3. z \in [Classes -> [Nat -> Nat]] BY <2>2 DEF Pushed
  <2> QED BY <1>1, <2>1, <2>2, <2>3 DEF Pushed
<1> HIDE DEF e, z
<1>4. ASSUME NEW x \in Classes, NEW i \in 1..e[x] PROVE i \in 1..d[x] \/ (x = c /\ i = h)
  <2>1. CASE x = c BY <1>1, <1>2, <2>1
  <2>2. CASE x # c BY <1>2, <2>2
  <2> QED BY <2>1, <2>2
<1>5. ASSUME NEW x \in Classes, NEW i \in 1..d[x]
      PROVE  /\ i \in 1..e[x] /\ (x # c \/ i # h) /\ z[x][i] = s[x][i] /\ z[x][i - 1] = s[x][i - 1]
  <2>1. d[x] \in Nat /\ i \in Nat /\ i - 1 \in Nat OBVIOUS
  <2>2. CASE x = c
    <3>1. i # h /\ i - 1 # h /\ i \in 1..e[x] BY <1>1, <1>2, <2>1, <2>2
    <3> QED BY <1>3, <2>1, <3>1
  <2>3. CASE x # c BY <1>2, <1>3, <2>1, <2>3
  <2> QED BY <2>2, <2>3
<1>6. h \in 1..e[c] BY <1>1, <1>2
<1>7. ASSUME NEW x \in Classes PROVE z[x][0] = s[x][0] /\ z[x][d[x]] = s[x][d[x]]
  <2>1. d[x] \in Nat OBVIOUS
  <2>2. x = c => d[x] # h /\ h # 0 BY <1>1
  <2> QED BY <1>3, <2>1, <2>2
<1>8. z[c][e[c] - 1] = s[c][d[c]]
  <2>1. e[c] - 1 = d[c] BY <1>1, <1>2
  <2> QED BY <1>7, <2>1
<1> HIDE DEF h
<1>9. OneMore(d, s, e, z, c, at)
  BY <1>1, <1>2, <1>3, <1>4, <1>5, <1>6, <1>7, <1>8 DEF OneMore
<1> QED BY <1>9 DEF e, z

\* A block is pushed: its words are free too.
LEMMA PushWords ==
  ASSUME NEW d, NEW s, NEW e, NEW z, NEW c \in Classes, NEW at, OneMore(d, s, e, z, c, at),
         Piece(at, Size(c)) \subseteq DOMAIN word
  PROVE  FreeWords(e, z) = FreeWords(d, s) \cup Piece(at, Size(c))
<1>1. ASSUME NEW w \in FreeWords(e, z) PROVE w \in FreeWords(d, s) \cup Piece(at, Size(c))
  <2>1. PICK x \in Classes : \E i \in 1..e[x] : w \in Piece(z[x][i], Size(x)) BY DEF FreeWords
  <2>2. PICK i \in 1..e[x] : w \in Piece(z[x][i], Size(x)) BY <2>1
  <2>3. i \in 1..d[x] \/ (z[x][i] = at /\ x = c) BY DEF OneMore
  <2>4. CASE z[x][i] = at /\ x = c BY <2>2, <2>4
  <2>5. CASE i \in 1..d[x]
    <3>1. z[x][i] = s[x][i] BY <2>5 DEF OneMore
    <3> QED BY <2>2, <2>5, <3>1 DEF FreeWords
  <2> QED BY <2>3, <2>4, <2>5
<1>2. ASSUME NEW w \in FreeWords(d, s) PROVE w \in FreeWords(e, z)
  <2>1. PICK x \in Classes : \E i \in 1..d[x] : w \in Piece(s[x][i], Size(x)) BY DEF FreeWords
  <2>2. PICK i \in 1..d[x] : w \in Piece(s[x][i], Size(x)) BY <2>1
  <2>3. i \in 1..e[x] /\ z[x][i] = s[x][i] BY DEF OneMore
  <2> QED BY <2>2, <2>3 DEF FreeWords
<1>3. ASSUME NEW w \in Piece(at, Size(c)) PROVE w \in FreeWords(e, z)
  <2>1. e[c] \in 1..e[c] /\ z[c][e[c]] = at BY DEF OneMore
  <2> QED BY <2>1 DEF FreeWords
<1> QED BY <1>1, <1>2, <1>3


-----------------------------------------------------------------------------
(* Parts of a step on the slab. *)

\* The heads in f are those of the stacks.
HeadsOf(f, d, s) ==
  /\ \A c \in Classes : c \in DOMAIN f => f[c] = s[c][d[c]]
  /\ \A c \in Classes : c \notin DOMAIN f => d[c] = 0

\* Growing the table of heads adds empty lists.
LEMMA ReachingIs ==
  ASSUME Ground, NEW c \in Classes
  PROVE  /\ c \in DOMAIN Reaching(c) /\ DOMAIN free \subseteq DOMAIN Reaching(c)
         /\ \E n \in 0..CLASSES : DOMAIN Reaching(c) = 0..(n - 1)
         /\ \A x \in DOMAIN free : Reaching(c)[x] = free[x]
         /\ \A x \in DOMAIN Reaching(c) : x \notin DOMAIN free => Reaching(c)[x] = NONE
         /\ \A x \in Nat : x <= c => x \in DOMAIN Reaching(c)
<1>1. PICK n \in 0..CLASSES : DOMAIN free = 0..(n - 1) BY DEF Ground
<1>2. c \in Nat /\ c + 1 \in 0..CLASSES /\ CLASSES \in Nat BY Geometry DEF Classes
<1>3. DOMAIN Reaching(c) = DOMAIN free \cup 0..c BY DEF Reaching
<1>4. \E m \in 0..CLASSES : DOMAIN Reaching(c) = 0..(m - 1)
  <2>1. CASE n <= c
    <3>1. DOMAIN Reaching(c) = 0..((c + 1) - 1) BY <1>1, <1>2, <1>3, <2>1
    <3> QED BY <1>2, <3>1
  <2>2. CASE c < n
    <3>1. DOMAIN Reaching(c) = 0..(n - 1) BY <1>1, <1>2, <1>3, <2>2
    <3> QED BY <3>1
  <2> QED BY <1>1, <1>2, <2>1, <2>2
<1>5. c \in DOMAIN Reaching(c) /\ DOMAIN free \subseteq DOMAIN Reaching(c) BY <1>2, <1>3
<1>6. \A x \in Nat : x <= c => x \in DOMAIN Reaching(c) BY <1>2, <1>3
<1>7. \A x \in DOMAIN Reaching(c) : Reaching(c)[x] = IF x \in DOMAIN free THEN free[x] ELSE NONE
  BY DEF Reaching
<1> QED BY <1>4, <1>5, <1>6, <1>7

\* The stacks have the heads so reached.
LEMMA ReachingHeads ==
  ASSUME Ground, NEW d, NEW s, Linked(d, s), NEW c \in Classes
  PROVE  HeadsOf(Reaching(c), d, s) /\ HeadsOf(free, d, s)
<1>1. HeadsOf(free, d, s) BY DEF HeadsOf, Linked
<1>2. ASSUME NEW x \in Classes, x \in DOMAIN Reaching(c) PROVE Reaching(c)[x] = s[x][d[x]]
  <2>1. CASE x \in DOMAIN free BY <1>1, <2>1, ReachingIs DEF HeadsOf
  <2>2. CASE x \notin DOMAIN free
    <3>1. d[x] = 0 /\ s[x][0] = NONE BY <2>2 DEF Linked
    <3> QED BY <1>2, <2>2, <3>1, ReachingIs
  <2> QED BY <2>1, <2>2
<1>3. ASSUME NEW x \in Classes, x \notin DOMAIN Reaching(c) PROVE d[x] = 0
  <2>1. x \notin DOMAIN free BY <1>3, ReachingIs
  <2> QED BY <2>1 DEF Linked
<1> QED BY <1>1, <1>2, <1>3 DEF HeadsOf

\* The ground holds while the segments stay.
LEMMA GroundKept ==
  ASSUME Ground, segments' = segments, seg' = seg, off' \in Nat,
         IF made = 0 THEN off' = 0 ELSE off' <= segments[seg],
         DOMAIN word' = DOMAIN word, \A w \in DOMAIN word : word'[w] \in 0..NONE \cup Owners,
         \E n \in 0..CLASSES : DOMAIN free' = 0..(n - 1),
         held' \in [Owners -> Blocks \cup {NoBlock}]
  PROVE  Ground' /\ made' = made
<1>1. made' = made BY DEF made
<1> QED BY <1>1 DEF Ground, Blocks

\* The stacks are spelled again after a step that leaves their words alone, or
\* links the words it adds.
LEMMA Respelled ==
  ASSUME NEW d, NEW s, NEW e, NEW z, Linked(d, s), HeadsOf(free', e, z),
         Frontier \in Nat, Frontier' \in Nat, Frontier <= Frontier', DOMAIN word \subseteq DOMAIN word',
         \A c \in Classes : z[c][0] = NONE, \A c \in Classes : Size(c) \in Nat,
         \A c \in Classes : \A i \in 1..e[c] :
            \/ /\ i \in 1..d[c] /\ z[c][i] = s[c][i] /\ z[c][i - 1] = s[c][i - 1]
               /\ word'[s[c][i]] = word[s[c][i]]
            \/ /\ Lodged(z[c][i], Size(c))' /\ word'[z[c][i]] = z[c][i - 1]
  PROVE  Linked(e, z)'
<1>1. ASSUME NEW a, NEW n \in Nat, Lodged(a, n) PROVE Lodged(a, n)'
  BY <1>1 DEF Lodged
<1>2. ASSUME NEW c \in Classes, NEW i \in 1..e[c]
      PROVE  Lodged(z[c][i], Size(c))' /\ word'[z[c][i]] = z[c][i - 1]
  <2>1. CASE /\ i \in 1..d[c] /\ z[c][i] = s[c][i] /\ z[c][i - 1] = s[c][i - 1]
             /\ word'[s[c][i]] = word[s[c][i]]
    <3>1. Lodged(s[c][i], Size(c)) /\ word[s[c][i]] = s[c][i - 1] BY <2>1 DEF Linked
    <3>2. Lodged(s[c][i], Size(c))' BY <1>1, <3>1
    <3> QED BY <2>1, <3>1, <3>2
  <2>2. CASE Lodged(z[c][i], Size(c))' /\ word'[z[c][i]] = z[c][i - 1] BY <2>2
  <2> QED BY <2>1, <2>2
<1>3. \A c \in Classes : c \in DOMAIN free' => free'[c] = z[c][e[c]] BY DEF HeadsOf
<1>4. \A c \in Classes : c \notin DOMAIN free' => e[c] = 0 BY DEF HeadsOf
<1> QED BY <1>2, <1>3, <1>4 DEF Linked

\* A block is handed out: it joins the live ones, none of which is touched.
LEMMA LiveAdded ==
  ASSUME Ground, Lives, NEW o \in Owners, NEW at \in 0..NONE, NEW len \in Lens, Small(len),
         held[o] = NoBlock, Holds(o, at, len),
         Frontier \in Nat, Frontier' \in Nat, Frontier <= Frontier', DOMAIN word \subseteq DOMAIN word',
         DOMAIN free \subseteq DOMAIN free', class_of(len) \in DOMAIN free',
         Lodged(at, Words(len))', \A w \in Piece(at, Words(len)) : word'[w] = o,
         \A w \in LiveWords : word'[w] = word[w],
         \A p \in SmallHolding : Apart(at, Words(len), held[p].at, Words(held[p].len))
  PROVE  /\ Lives' /\ LiveWords' = LiveWords \cup Piece(at, Words(len))
         /\ LiveWords \cap Piece(at, Words(len)) = {}
         /\ held' \in [Owners -> Blocks \cup {NoBlock}] /\ SmallHolding' = SmallHolding \cup {o}
         /\ \A p \in SmallHolding : held'[p] = held[p]
         /\ held'[o].at = at /\ held'[o].len = len
         /\ LargeHolding' = LargeHolding /\ \A p \in LargeHolding : held'[p] = held[p]
<1>1. /\ held' \in [Owners -> Blocks \cup {NoBlock}] /\ o \notin Holding
      /\ held'[o].at = at /\ held'[o].len = len
      /\ \A p \in Owners : p # o => held'[p] = held[p]
      /\ SmallHolding' = SmallHolding \cup {o} /\ LargeHolding' = LargeHolding
  BY GivenTo
<1>2. \A p \in SmallHolding : p # o /\ held'[p] = held[p]
  BY <1>1 DEF SmallHolding, Holding
<1>3. \A p \in LargeHolding : held'[p] = held[p]
  BY <1>1 DEF LargeHolding, Holding
<1>4. ASSUME NEW a, NEW n \in Nat, Lodged(a, n) PROVE Lodged(a, n)'
  BY <1>4 DEF Lodged
<1>5. at \in Nat /\ len \in Nat /\ Words(len) \in Nat /\ Words(len) > 0
  <2>1. at \in Nat BY Geometry
  <2>2. len \in Nat BY ArenaAssumption
  <2> QED BY <2>1, <2>2, WordsAre
<1>6. \A p \in SmallHolding :
        /\ held[p].at \in Nat /\ Words(held[p].len) \in Nat /\ Lodged(held[p].at, Words(held[p].len))
        /\ Piece(held[p].at, Words(held[p].len)) \subseteq LiveWords
  BY HeldAt DEF LiveWords
<1>7. ASSUME NEW p \in SmallHolding
      PROVE  /\ Lodged(held[p].at, Words(held[p].len))'
             /\ class_of(held'[p].len) \in DOMAIN free'
             /\ \A w \in Piece(held'[p].at, Words(held'[p].len)) : word'[w] = p
  <2>1. held'[p] = held[p] BY <1>2
  <2>2. class_of(held[p].len) \in DOMAIN free BY DEF Lives
  <2>3. \A w \in Piece(held[p].at, Words(held[p].len)) : word[w] = p BY DEF Lives
  <2>4. \A w \in Piece(held[p].at, Words(held[p].len)) : word'[w] = p BY <1>6, <2>3
  <2>5. Lodged(held[p].at, Words(held[p].len))'
    <3>1. PICK a, n \in Nat : a = held[p].at /\ n = Words(held[p].len) BY <1>6
    <3>2. Lodged(a, n) BY <1>6, <3>1
    <3>3. Lodged(a, n)' BY <1>4, <3>2
    <3>4. held'[p].at = a /\ Words(held'[p].len) = n BY <2>1, <3>1
    <3> QED BY <3>3, <3>4 DEF Lodged, Words
  <2> QED BY <2>1, <2>2, <2>4, <2>5
<1>8. /\ Lodged(held[o].at, Words(held[o].len))'
      /\ class_of(held'[o].len) \in DOMAIN free'
      /\ \A w \in Piece(held'[o].at, Words(held'[o].len)) : word'[w] = o
  BY <1>1 DEF Lodged, Words
<1>9. \A p \in SmallHolding :
        Apart(held[p].at, Words(held[p].len), at, Words(len))
  BY <1>5, <1>6, ApartIs
<1>10. ASSUME NEW p \in SmallHolding', NEW q \in SmallHolding', p # q
       PROVE  Apart(held'[p].at, Words(held'[p].len), held'[q].at, Words(held'[q].len))
  <2>1. CASE p \in SmallHolding /\ q \in SmallHolding BY <1>2, <1>10, <2>1 DEF Lives
  <2>2. CASE p \in SmallHolding /\ q = o BY <1>1, <1>2, <1>9, <2>2
  <2>3. CASE p = o /\ q \in SmallHolding BY <1>1, <1>2, <2>3
  <2> QED BY <1>1, <1>10, <2>1, <2>2, <2>3
<1>11. Lives'
  <2>1. ASSUME NEW p \in SmallHolding'
        PROVE  /\ Lodged(held[p].at, Words(held[p].len))'
               /\ class_of(held'[p].len) \in DOMAIN free'
               /\ \A w \in Piece(held'[p].at, Words(held'[p].len)) : word'[w] = p
    BY <1>1, <1>7, <1>8
  <2> QED BY <1>10, <2>1 DEF Lives, Apart, Words, class_of, Piece
<1>12. LiveWords' = LiveWords \cup Piece(at, Words(len))
  <2>1. Piece(at, Words(len)) \subseteq DOMAIN word' BY DEF Lodged, Piece, Words
  <2>2. ASSUME NEW w \in LiveWords' PROVE w \in LiveWords \cup Piece(at, Words(len))
    <3>1. PICK p \in SmallHolding' : w \in Piece(held'[p].at, Words(held'[p].len))
      BY DEF LiveWords, Piece, Words
    <3>2. CASE p = o BY <1>1, <3>1, <3>2
    <3>3. CASE p \in SmallHolding BY <1>2, <1>6, <3>1, <3>3
    <3> QED BY <1>1, <3>2, <3>3
  <2>3. ASSUME NEW w \in LiveWords PROVE w \in LiveWords'
    <3>1. PICK p \in SmallHolding : w \in Piece(held[p].at, Words(held[p].len)) BY DEF LiveWords
    <3>2. w \in DOMAIN word' BY DEF LiveWords
    <3>3. p \in SmallHolding' /\ w \in Piece(held'[p].at, Words(held'[p].len)) BY <1>1, <1>2, <3>1
    <3> QED BY <3>2, <3>3 DEF LiveWords, Piece, Words
  <2>4. ASSUME NEW w \in Piece(at, Words(len)) PROVE w \in LiveWords'
    <3>1. o \in SmallHolding' /\ w \in Piece(held'[o].at, Words(held'[o].len)) BY <1>1
    <3> QED BY <2>1, <3>1 DEF LiveWords, Piece, Words
  <2> QED BY <2>2, <2>3, <2>4
<1>13. LiveWords \cap Piece(at, Words(len)) = {}
  <2> SUFFICES ASSUME NEW w, w \in LiveWords, w \in Piece(at, Words(len)) PROVE FALSE OBVIOUS
  <2>1. PICK p \in SmallHolding : w \in Piece(held[p].at, Words(held[p].len)) BY DEF LiveWords
  <2> QED BY <1>5, <1>6, <2>1, ApartIs
<1> QED BY <1>1, <1>2, <1>3, <1>11, <1>12, <1>13

\* A block is given back: it leaves the live ones, none of which is touched.
LEMMA LiveRemoved ==
  ASSUME Ground, Lives, NEW o \in Owners, held[o] # NoBlock, Small(held[o].len),
         held' = [held EXCEPT ![o] = NoBlock],
         Frontier' = Frontier, DOMAIN word' = DOMAIN word, DOMAIN free' = DOMAIN free,
         \A w \in DOMAIN word : w \notin Piece(held[o].at, Words(held[o].len)) => word'[w] = word[w]
  PROVE  /\ Lives' /\ LiveWords' = LiveWords \ Piece(held[o].at, Words(held[o].len))
         /\ Piece(held[o].at, Words(held[o].len)) \subseteq LiveWords
         /\ held' \in [Owners -> Blocks \cup {NoBlock}]
         /\ o \in SmallHolding /\ SmallHolding' = SmallHolding \ {o}
         /\ \A p \in SmallHolding : p # o => held'[p] = held[p]
         /\ LargeHolding' = LargeHolding /\ \A p \in LargeHolding : held'[p] = held[p]
<1> DEFINE B == Piece(held[o].at, Words(held[o].len))
<1>1. /\ held' \in [Owners -> Blocks \cup {NoBlock}]
      /\ \A p \in Owners : p # o => held'[p] = held[p]
      /\ SmallHolding' = SmallHolding \ {o} /\ LargeHolding' = LargeHolding \ {o}
      /\ o \in SmallHolding /\ o \notin LargeHolding
  BY GivenBack
<1>2. \A p \in SmallHolding : p # o => held'[p] = held[p] BY <1>1 DEF SmallHolding, Holding
<1>3. LargeHolding' = LargeHolding /\ \A p \in LargeHolding : held'[p] = held[p]
  BY <1>1 DEF LargeHolding, Holding
<1>4. \A p \in SmallHolding :
        /\ held[p].at \in Nat /\ Words(held[p].len) \in Nat /\ Lodged(held[p].at, Words(held[p].len))
        /\ Piece(held[p].at, Words(held[p].len)) \subseteq LiveWords
        /\ Piece(held[p].at, Words(held[p].len)) \subseteq DOMAIN word
  BY HeldAt DEF LiveWords
<1>5. B \subseteq LiveWords BY <1>1, <1>4
<1>6. ASSUME NEW p \in SmallHolding, p # o, NEW w \in Piece(held[p].at, Words(held[p].len))
      PROVE  w \notin B /\ w \in DOMAIN word
  <2>1. Apart(held[o].at, Words(held[o].len), held[p].at, Words(held[p].len)) BY <1>1, <1>6 DEF Lives
  <2> QED BY <1>1, <1>4, <2>1, ApartIs
<1> HIDE DEF B
<1>7. ASSUME NEW p \in SmallHolding'
      PROVE  /\ Lodged(held[p].at, Words(held[p].len))'
             /\ class_of(held'[p].len) \in DOMAIN free'
             /\ \A w \in Piece(held'[p].at, Words(held'[p].len)) : word'[w] = p
  <2>1. p \in SmallHolding /\ p # o /\ held'[p] = held[p] BY <1>1, <1>2
  <2>2. class_of(held[p].len) \in DOMAIN free BY <2>1 DEF Lives
  <2>3. \A w \in Piece(held[p].at, Words(held[p].len)) : word[w] = p BY <2>1 DEF Lives
  <2>4. \A w \in Piece(held[p].at, Words(held[p].len)) : word'[w] = p BY <1>6, <2>1, <2>3 DEF B
  <2>5. Lodged(held[p].at, Words(held[p].len))'
    <3>1. Lodged(held[p].at, Words(held[p].len)) BY <1>4, <2>1
    <3> QED BY <2>1, <3>1 DEF Lodged, Words
  <2> QED BY <2>1, <2>2, <2>4, <2>5
<1>8. ASSUME NEW p \in SmallHolding', NEW q \in SmallHolding', p # q
      PROVE  Apart(held'[p].at, Words(held'[p].len), held'[q].at, Words(held'[q].len))
  BY <1>1, <1>2, <1>8 DEF Lives
<1>9. Lives' BY <1>7, <1>8 DEF Lives, Apart, Words, class_of, Piece
<1>10. LiveWords' = LiveWords \ B
  <2>1. ASSUME NEW w \in LiveWords' PROVE w \in LiveWords /\ w \notin B
    <3>1. PICK p \in SmallHolding' : w \in Piece(held'[p].at, Words(held'[p].len))
      BY DEF LiveWords, Piece, Words
    <3>2. p \in SmallHolding /\ p # o /\ held'[p] = held[p] BY <1>1, <1>2
    <3> QED BY <1>4, <1>6, <3>1, <3>2
  <2>2. ASSUME NEW w \in LiveWords, w \notin B PROVE w \in LiveWords'
    <3>1. PICK p \in SmallHolding : w \in Piece(held[p].at, Words(held[p].len)) BY DEF LiveWords
    <3>2. p # o BY <2>2, <3>1 DEF B
    <3>3. w \in DOMAIN word' BY DEF LiveWords
    <3>4. p \in SmallHolding' /\ w \in Piece(held'[p].at, Words(held'[p].len)) BY <1>1, <1>2, <3>1, <3>2
    <3> QED BY <3>3, <3>4 DEF LiveWords, Piece, Words
  <2> QED BY <2>1, <2>2
<1> QED BY <1>1, <1>2, <1>3, <1>5, <1>9, <1>10 DEF B

\* Adding to a count, and taking from it, in bytes.
LEMMA Bytes ==
  ASSUME NEW g \in Nat, NEW x \in Nat, NEW n \in Nat
  PROVE  /\ g * x \in Nat /\ n * g \in Nat
         /\ g * (x + n) = g * x + n * g /\ (n <= x => g * (x - n) = g * x - n * g)
         /\ (n <= x => (x - n) * g = x * g - n * g) /\ (x + n) * g = x * g + n * g
<1>1. g * x \in Nat /\ n * g \in Nat OBVIOUS
<1>2. g * (x + n) = g * x + n * g OBVIOUS
<1>3. g * (x - n) = g * x - n * g OBVIOUS
<1>4. (x - n) * g = x * g - n * g OBVIOUS
<1>5. (x + n) * g = x * g + n * g OBVIOUS
<1> QED BY <1>1, <1>2, <1>3, <1>4, <1>5

\* Live and free words are finitely many, and the totals are numbers.
LEMMA TallyIs ==
  ASSUME Ground, NEW d, NEW s, Tallied(d, s)
  PROVE  /\ IsFiniteSet(FreeWords(d, s)) /\ IsFiniteSet(LiveWords)
         /\ Cardinality(FreeWords(d, s)) \in Nat /\ Cardinality(LiveWords) \in Nat
         /\ dead \in Nat /\ live \in Nat /\ large_live \in Nat /\ segment_bytes \in Nat
         /\ large_live <= live
<1>1. FreeWords(d, s) \subseteq DOMAIN word /\ LiveWords \subseteq DOMAIN word BY DEF FreeWords, LiveWords
<1>2. IsFiniteSet(DOMAIN word) BY DEF Ground
<1>3. IsFiniteSet(FreeWords(d, s)) /\ IsFiniteSet(LiveWords) BY <1>1, <1>2, FS_Subset
<1>4. PICK f \in Nat, l \in Nat, y \in Nat :
        f = Cardinality(FreeWords(d, s)) /\ l = Cardinality(LiveWords) /\ y = large_live
  BY <1>3, FS_CardinalityType DEF Tallied
<1>5. dead = GRAIN * f /\ live = GRAIN * l + y /\ segment_bytes = (live - large_live) + dead + Room * GRAIN
  BY <1>4 DEF Tallied
<1>6. PICK r \in Nat : r = Room BY Places
<1>7. GRAIN * f \in Nat /\ GRAIN * l \in Nat /\ r * GRAIN \in Nat BY <1>4, <1>6, Bytes, Geometry
<1>8. PICK a \in Nat, b \in Nat, e \in Nat : a = GRAIN * f /\ b = GRAIN * l /\ e = r * GRAIN BY <1>7
<1>9. dead = a /\ live = b + y /\ segment_bytes = b + a + e BY <1>4, <1>5, <1>6, <1>8
<1> QED BY <1>3, <1>4, <1>8, <1>9

-----------------------------------------------------------------------------
(* The steps. *)

\* A length asked for, its words and its class.
LEMMA Asked ==
  ASSUME NEW len \in Lens, Small(len)
  PROVE  /\ len \in Nat /\ class_of(len) \in Classes /\ class_of(len) \in Nat
         /\ Size(class_of(len)) = Words(len)
         /\ Words(len) \in Nat /\ Words(len) > 0 /\ Words(len) <= CLASSES
<1>1. len \in Nat BY ArenaAssumption
<1>2. Words(len) \in Nat /\ Words(len) > 0 /\ Words(len) <= CLASSES
      /\ class_of(len) \in Classes /\ class_of(len) = Words(len) - 1
  BY <1>1, WordsAre
<1>3. Size(class_of(len)) = Words(len) BY <1>2 DEF Size
<1> QED BY <1>1, <1>2, <1>3, SizeIs

\* Totals after words change hands: what is added to one is taken from another.
LEMMA TallyMoved ==
  ASSUME Ground, NEW d, NEW s, Tallied(d, s), NEW e, NEW z, NEW n \in Nat, NEW B,
         IsFiniteSet(B), Cardinality(B) = n,
         large_live' = large_live, RowBytes' = RowBytes,
         \/ /\ B \subseteq FreeWords(d, s) /\ B \cap LiveWords = {}
            /\ FreeWords(e, z)' = FreeWords(d, s) \ B /\ LiveWords' = LiveWords \cup B
            /\ dead' = dead - n * GRAIN /\ live' = live + n * GRAIN
            /\ Room' = Room /\ segment_bytes' = segment_bytes
         \/ /\ B \subseteq LiveWords /\ B \cap FreeWords(d, s) = {}
            /\ FreeWords(e, z)' = FreeWords(d, s) \cup B /\ LiveWords' = LiveWords \ B
            /\ dead' = dead + n * GRAIN /\ live' = live - n * GRAIN
            /\ Room' = Room /\ segment_bytes' = segment_bytes
         \/ /\ B \cap LiveWords = {} /\ n <= Room
            /\ FreeWords(e, z)' = FreeWords(d, s) /\ LiveWords' = LiveWords \cup B
            /\ dead' = dead /\ live' = live + n * GRAIN
            /\ Room' = Room - n /\ segment_bytes' = segment_bytes
  PROVE  Tallied(e, z)'
<1>1. PICK f \in Nat, l \in Nat, y \in Nat, r \in Nat, a \in Nat, b \in Nat, m \in Nat, v \in Nat :
        /\ f = Cardinality(FreeWords(d, s)) /\ l = Cardinality(LiveWords) /\ y = large_live /\ r = Room
        /\ a = GRAIN * f /\ b = GRAIN * l /\ m = n * GRAIN /\ v = r * GRAIN
  BY TallyIs, Places, Bytes, Geometry
<1>2. dead = a /\ live = b + y /\ segment_bytes = (live - y) + dead + v
  BY <1>1 DEF Tallied
<1>3. IsFiniteSet(FreeWords(d, s)) /\ IsFiniteSet(LiveWords) BY TallyIs
<1>4. IsFiniteSet(RowBytes') /\ large_live' = Cardinality(RowBytes') /\ large_live' = y
  BY <1>1 DEF Tallied
<1> DEFINE F == Cardinality(FreeWords(e, z)')
           L == Cardinality(LiveWords')
<1>5. SUFFICES /\ dead' = GRAIN * F
               /\ live' = GRAIN * L + y
               /\ segment_bytes' = (live' - y) + dead' + Room' * GRAIN
  BY <1>4 DEF Tallied
<1>6. CASE /\ B \subseteq FreeWords(d, s) /\ B \cap LiveWords = {}
           /\ FreeWords(e, z)' = FreeWords(d, s) \ B /\ LiveWords' = LiveWords \cup B
           /\ dead' = dead - n * GRAIN /\ live' = live + n * GRAIN
           /\ Room' = Room /\ segment_bytes' = segment_bytes
  <2>1. F = f - n /\ L = l + n BY <1>1, <1>3, <1>6, CountPart
  <2>2. n <= f
    <3>1. Cardinality(B) <= Cardinality(FreeWords(d, s)) BY <1>3, <1>6, FS_Subset
    <3> QED BY <1>1, <3>1
  <2>3. GRAIN * (f - n) = a - m /\ GRAIN * (l + n) = b + m BY <1>1, <2>2, Bytes, Geometry
  <2>4. GRAIN * F = a - m /\ GRAIN * L = b + m BY <2>1, <2>3
  <2>5. dead' = a - m /\ live' = (b + y) + m /\ segment_bytes' = segment_bytes /\ Room' * GRAIN = v
    BY <1>1, <1>2, <1>6
  <2> HIDE DEF F, L
  <2> QED BY <1>1, <1>2, <2>4, <2>5
<1>7. CASE /\ B \subseteq LiveWords /\ B \cap FreeWords(d, s) = {}
           /\ FreeWords(e, z)' = FreeWords(d, s) \cup B /\ LiveWords' = LiveWords \ B
           /\ dead' = dead + n * GRAIN /\ live' = live - n * GRAIN
           /\ Room' = Room /\ segment_bytes' = segment_bytes
  <2>1. F = f + n /\ L = l - n BY <1>1, <1>3, <1>7, CountPart
  <2>2. n <= l
    <3>1. Cardinality(B) <= Cardinality(LiveWords) BY <1>3, <1>7, FS_Subset
    <3> QED BY <1>1, <3>1
  <2>3. GRAIN * (f + n) = a + m /\ GRAIN * (l - n) = b - m BY <1>1, <2>2, Bytes, Geometry
  <2>4. GRAIN * F = a + m /\ GRAIN * L = b - m BY <2>1, <2>3
  <2>5. dead' = a + m /\ live' = (b + y) - m /\ segment_bytes' = segment_bytes /\ Room' * GRAIN = v
    BY <1>1, <1>2, <1>7
  <2> HIDE DEF F, L
  <2> QED BY <1>1, <1>2, <2>4, <2>5
<1>8. CASE /\ B \cap LiveWords = {} /\ n <= Room
           /\ FreeWords(e, z)' = FreeWords(d, s) /\ LiveWords' = LiveWords \cup B
           /\ dead' = dead /\ live' = live + n * GRAIN
           /\ Room' = Room - n /\ segment_bytes' = segment_bytes
  <2>1. F = f /\ L = l + n BY <1>1, <1>3, <1>8, CountPart
  <2>2. GRAIN * (l + n) = b + m /\ (r - n) * GRAIN = v - m BY <1>1, <1>8, Bytes, Geometry
  <2>3. GRAIN * F = a /\ GRAIN * L = b + m BY <1>1, <2>1, <2>2
  <2>4. dead' = a /\ live' = (b + y) + m /\ segment_bytes' = segment_bytes /\ Room' * GRAIN = v - m
    BY <1>1, <1>2, <1>8, <2>2
  <2> HIDE DEF F, L
  <2> QED BY <1>1, <1>2, <2>3, <2>4
<1> QED BY <1>6, <1>7, <1>8

\* Filling words of the memory changes those only.
LEMMA FilledIs ==
  ASSUME NEW mem, NEW W, NEW x
  PROVE  /\ DOMAIN Filled(mem, W, x) = DOMAIN mem
         /\ \A w \in DOMAIN mem : w \in W => Filled(mem, W, x)[w] = x
         /\ \A w \in DOMAIN mem : w \notin W => Filled(mem, W, x)[w] = mem[w]
BY DEF Filled

\* A block from a free list: its stack is popped.
LEMMA TakeFreeInv ==
  ASSUME IInv, NEW o \in Owners, NEW len \in Lens, TakeFree(o, len)
  PROVE  IInv'
<1> DEFINE c == class_of(len)
           n == Words(len)
<1>0. PICK at : at = free[c] OBVIOUS
<1> DEFINE B == Piece(at, n)
<1>1. Ground /\ Lives /\ Rows BY DEF IInv
<1>2. PICK d \in [Classes -> Nat], s \in [Classes -> [Nat -> Nat]] : Spelled(d, s) BY DEF IInv
<1>3. Linked(d, s) /\ Separate(d, s) /\ Covered(d, s) /\ Tallied(d, s) BY <1>2 DEF Spelled
<1>4. /\ held[o] = NoBlock /\ Small(len) /\ HasFree(len)
      /\ free' = [free EXCEPT ![c] = word[at]] /\ word' = Filled(word, B, o) /\ Holds(o, at, len)
      /\ dead' = dead - n * GRAIN /\ live' = live + n * GRAIN
      /\ segments' = segments /\ seg' = seg /\ off' = off /\ segment_bytes' = segment_bytes
      /\ UNCHANGED oversized
  BY <1>0 DEF TakeFree, Asks, Block, Piece
<1>5. c \in Classes /\ Size(c) = n /\ n \in Nat /\ n > 0 BY <1>4, Asked
<1>6. c \in DOMAIN free /\ at # NONE
  <2>1. Reaching(c)[c] # NONE /\ c \in DOMAIN Reaching(c) BY <1>1, <1>4, <1>5, ReachingIs DEF HasFree
  <2> QED BY <1>0, <1>1, <1>5, <2>1, ReachingIs
<1>7. d[c] > 0 /\ at = s[c][d[c]] /\ d[c] \in 1..d[c]
  <2>1. at = s[c][d[c]] /\ s[c][0] = NONE BY <1>0, <1>3, <1>5, <1>6 DEF Linked
  <2>2. d[c] \in Nat /\ d[c] # 0 BY <1>5, <1>6, <2>1
  <2> QED BY <2>1, <2>2
<1> DEFINE e == Popped(d, c)
<1> HIDE DEF c, n, B
<1>8. /\ at \in Nat /\ Lodged(at, n) /\ B \subseteq DOMAIN word /\ at \in DOMAIN word /\ at < LARGE
      /\ word[at] = s[c][d[c] - 1] /\ at \in 0..NONE
  <2>1. at \in Nat /\ Lodged(at, n) /\ B \subseteq DOMAIN word /\ at \in DOMAIN word /\ at < LARGE
    BY <1>1, <1>3, <1>5, <1>7, StackedIs DEF B
  <2>2. word[at] = s[c][d[c] - 1] BY <1>3, <1>5, <1>7 DEF Linked
  <2> QED BY <2>1, <2>2, Geometry
<1>9. /\ e \in [Classes -> Nat] /\ e[c] = d[c] - 1 /\ \A x \in Classes : x # c => e[x] = d[x]
      /\ \A x \in Classes : \A i \in 1..e[x] : i \in 1..d[x] /\ (x # c \/ i # d[c])
  BY <1>5, <1>7, PoppedIs
<1> HIDE DEF e
<1>10. /\ DOMAIN word' = DOMAIN word
       /\ \A w \in DOMAIN word : w \in B => word'[w] = o
       /\ \A w \in DOMAIN word : w \notin B => word'[w] = word[w]
  BY <1>4, FilledIs
<1>11. made' = made /\ Frontier' = Frontier /\ Room' = Room BY <1>4 DEF made, Frontier, Room
<1>12. DOMAIN free' = DOMAIN free /\ free'[c] = word[at] /\ \A x \in DOMAIN free : x # c => free'[x] = free[x]
  BY <1>4, <1>6
<1>13. FreeWords(e, s) = FreeWords(d, s) \ B /\ B \subseteq FreeWords(d, s)
  BY <1>1, <1>3, <1>5, <1>7, PopWords DEF B, e
<1>14. FreeWords(d, s) \cap LiveWords = {} BY <1>1, <1>3, FreeNotLive
<1>15. \A p \in SmallHolding : Apart(at, n, held[p].at, Words(held[p].len))
  BY <1>3, <1>5, <1>7 DEF Separate
<1>16. /\ Lives' /\ LiveWords' = LiveWords \cup B
       /\ held' \in [Owners -> Blocks \cup {NoBlock}] /\ SmallHolding' = SmallHolding \cup {o}
       /\ \A p \in SmallHolding : held'[p] = held[p]
       /\ held'[o].at = at /\ held'[o].len = len
       /\ LargeHolding' = LargeHolding /\ \A p \in LargeHolding : held'[p] = held[p]
  <2>1. Frontier \in Nat BY <1>1, Places
  <2>2. Lodged(at, Words(len))' BY <1>8, <1>10, <1>11 DEF Lodged, n, Piece, Words
  <2>3. \A w \in Piece(at, Words(len)) : word'[w] = o BY <1>8, <1>10 DEF B, n
  <2>4. \A w \in LiveWords : word'[w] = word[w] BY <1>10, <1>13, <1>14 DEF LiveWords
  <2>5. class_of(len) \in DOMAIN free' BY <1>6, <1>12 DEF c
  <2>6. \A p \in SmallHolding : Apart(at, Words(len), held[p].at, Words(held[p].len)) BY <1>15 DEF n
  <2>7. Frontier' \in Nat /\ Frontier <= Frontier' BY <1>11, <2>1
  <2> QED BY <1>1, <1>4, <1>8, <1>10, <1>12, <2>1, <2>2, <2>3, <2>4, <2>5, <2>6, <2>7, LiveAdded DEF B, n
<1>17. Ground'
  <2>1. \A w \in DOMAIN word : word'[w] \in 0..NONE \cup Owners BY <1>1, <1>10 DEF Ground
  <2>2. /\ off' \in Nat /\ (IF made = 0 THEN off' = 0 ELSE off' <= segments[seg])
        /\ \E m \in 0..CLASSES : DOMAIN free' = 0..(m - 1)
    BY <1>1, <1>4, <1>12 DEF Ground
  <2> QED BY <1>1, <1>4, <1>10, <1>16, <2>1, <2>2, GroundKept
<1>18. Rows' /\ RowBytes' = RowBytes BY <1>1, <1>4, <1>16, RowsKept
<1>19. Linked(e, s)'
  <2>1. HeadsOf(free', e, s)
    <3>1. ASSUME NEW x \in Classes, x \in DOMAIN free' PROVE free'[x] = s[x][e[x]]
      <4>1. CASE x = c BY <1>8, <1>9, <1>12, <4>1
      <4>2. CASE x # c BY <1>3, <1>9, <1>12, <3>1, <4>2 DEF Linked
      <4> QED BY <4>1, <4>2
    <3>2. ASSUME NEW x \in Classes, x \notin DOMAIN free' PROVE e[x] = 0
      BY <1>3, <1>6, <1>9, <1>12, <3>2 DEF Linked
    <3> QED BY <3>1, <3>2 DEF HeadsOf
  <2>2. ASSUME NEW x \in Classes, NEW i \in 1..e[x]
        PROVE  i \in 1..d[x] /\ word'[s[x][i]] = word[s[x][i]]
    <3>1. i \in 1..d[x] BY <1>9
    <3>2. s[x][i] \in DOMAIN word /\ s[x][i] \in FreeWords(e, s)
      BY <1>1, <1>3, <3>1, StackedIs DEF FreeWords
    <3> QED BY <1>10, <1>13, <3>1, <3>2
  <2>3. \A x \in Classes : s[x][0] = NONE BY <1>3 DEF Linked
  <2>4. Frontier \in Nat /\ Frontier' \in Nat /\ Frontier <= Frontier' BY <1>1, <1>11, Places
  <2> QED BY <1>3, <1>10, <2>1, <2>2, <2>3, <2>4, SizeIs, Respelled
<1>20. Separate(e, s)'
  <2>1. ASSUME NEW x \in Classes, NEW y \in Classes, NEW i \in 1..e[x], NEW j \in 1..e[y], x # y \/ i # j
        PROVE  Apart(s[x][i], Size(x), s[y][j], Size(y))
    BY <1>3, <1>9, <2>1 DEF Separate
  <2>2. ASSUME NEW x \in Classes, NEW i \in 1..e[x], NEW p \in SmallHolding'
        PROVE  Apart(s[x][i], Size(x), held'[p].at, Words(held'[p].len))
    <3>1. i \in 1..d[x] /\ (x # c \/ i # d[c]) BY <1>9
    <3>2. CASE p \in SmallHolding BY <1>3, <1>16, <3>1, <3>2 DEF Separate
    <3>3. CASE p = o
      <4>1. Apart(s[x][i], Size(x), s[c][d[c]], Size(c)) BY <1>3, <1>5, <1>7, <3>1 DEF Separate
      <4> QED BY <1>5, <1>7, <1>16, <3>3, <4>1 DEF n
    <3> QED BY <1>16, <3>2, <3>3
  <2> QED BY <2>1, <2>2 DEF Separate, Apart, Words
<1>21. FreeWords(e, s)' = FreeWords(e, s) BY <1>10 DEF FreeWords
<1>22. Covered(e, s)'
  <2>1. ASSUME NEW w \in DOMAIN word', w < Frontier' PROVE w \in LiveWords' \/ w \in FreeWords(e, s)'
    BY <1>3, <1>10, <1>11, <1>13, <1>16, <1>21, <2>1 DEF Covered
  <2> QED BY <2>1 DEF Covered
<1>23. Tallied(e, s)'
  <2>1. IsFiniteSet(B) /\ Cardinality(B) = n BY <1>5, <1>8, CountPiece DEF B
  <2>2. B \cap LiveWords = {} BY <1>13, <1>14
  <2>3. large_live' = large_live BY <1>4 DEF oversized
  <2>4. FreeWords(e, s)' = FreeWords(d, s) \ B BY <1>13, <1>21
  <2> QED BY <1>1, <1>3, <1>4, <1>5, <1>11, <1>13, <1>16, <1>18, <2>1, <2>2, <2>3, <2>4, TallyMoved
<1> QED BY <1>2, <1>9, <1>16, <1>17, <1>18, <1>19, <1>20, <1>22, <1>23 DEF IInv, Spelled

\* A block from the room left: the stacks stay, the frontier moves.
LEMMA CutInv ==
  ASSUME IInv, NEW o \in Owners, NEW len \in Lens, Cut(o, len)
  PROVE  IInv'
<1> DEFINE c == class_of(len)
           n == Words(len)
<1>1. Ground /\ Lives /\ Rows BY DEF IInv
<1>2. PICK d \in [Classes -> Nat], s \in [Classes -> [Nat -> Nat]] : Spelled(d, s) BY DEF IInv
<1>3. Linked(d, s) /\ Separate(d, s) /\ Covered(d, s) /\ Tallied(d, s) BY <1>2 DEF Spelled
<1>0. PICK at \in Nat, r \in Nat : at = Frontier /\ r = Room BY <1>1, Places
<1> DEFINE B == Piece(at, n)
<1>4. /\ held[o] = NoBlock /\ Small(len) /\ ~(r < n)
      /\ free' = Reaching(c) /\ word' = Filled(word, B, o) /\ Holds(o, at, len)
      /\ dead' = dead /\ live' = live + n * GRAIN
      /\ segments' = segments /\ seg' = seg /\ off' = off + n /\ segment_bytes' = segment_bytes
      /\ UNCHANGED oversized
  BY <1>0 DEF Cut, Asks, Block, Piece, Straddles, Frontier
<1>5. c \in Classes /\ Size(c) = n /\ n \in Nat /\ n > 0 /\ n <= r BY <1>4, Asked
<1> HIDE DEF c, n, B
<1>6. made # 0 /\ seg \in Nat /\ off \in Nat /\ off + n <= segments[seg] /\ Room' = r - n /\ made' = made
  <2>1. made # 0 BY <1>0, <1>1, <1>5, Places
  <2>2. seg \in Nat /\ off \in Nat /\ seg \in DOMAIN segments /\ made \in Nat BY <1>1, <2>1 DEF Ground
  <2>7. segments[seg] \in 1..Span BY <1>1, <2>2 DEF Ground
  <2>3. PICK z \in Nat : z = segments[seg] BY <2>7, Geometry
  <2>4. r = z - off BY <1>0, <2>1, <2>3 DEF Room
  <2>5. made' = made BY <1>4 DEF made
  <2>6. Room' = z - off' BY <1>4, <2>1, <2>3, <2>5 DEF Room
  <2> QED BY <1>4, <1>5, <2>1, <2>2, <2>3, <2>4, <2>5, <2>6
<1>7. Frontier' = at + n
  <2>1. Frontier' = make(seg, off + n) BY <1>4 DEF Frontier, make
  <2>2. at = make(seg, 0) + off BY <1>0, <1>6, MakeIs DEF Frontier
  <2>3. PICK f \in Nat : f = off + n BY <1>5, <1>6
  <2>4. make(seg, f) = make(seg, 0) + f /\ make(seg, 0) \in Nat BY <1>6, <2>3, MakeIs
  <2> QED BY <1>5, <1>6, <2>1, <2>2, <2>3, <2>4
<1>8. /\ DOMAIN word' = DOMAIN word
      /\ \A w \in DOMAIN word : w \in B => word'[w] = o
      /\ \A w \in DOMAIN word : w \notin B => word'[w] = word[w]
  BY <1>4, FilledIs
<1>9. B \subseteq DOMAIN word /\ at < LARGE /\ at \in 0..NONE
  <2>1. Piece(at, r) \subseteq DOMAIN word BY <1>0, <1>1, Places DEF Piece
  <2>2. B \subseteq Piece(at, r)
    <3>1. at + n - 1 \in Int /\ at + r - 1 \in Int /\ at + n - 1 <= at + r - 1 BY <1>0, <1>5
    <3> QED BY <1>0, <3>1, IntervalIn DEF B, Piece
  <2>3. at \in B BY <1>5, CountPiece DEF B
  <2>4. at < LARGE BY <1>1, <2>1, <2>2, <2>3, Places
  <2> QED BY <1>0, <2>1, <2>2, <2>4, Geometry
<1>10. ASSUME NEW a, NEW m \in Nat, Lodged(a, m)
       PROVE  a \in Nat /\ Apart(a, m, at, n) /\ Apart(at, n, a, m) /\ \A w : ~(w \in Piece(a, m) /\ w \in B)
  <2>1. a \in Nat /\ a + m <= at BY <1>0, <1>10 DEF Lodged
  <2>2. Apart(a, m, at, n) BY <2>1 DEF Apart
  <2> QED BY <1>5, <2>1, <2>2, ApartIs DEF B
<1>11. \A p \in SmallHolding :
         /\ Words(held[p].len) \in Nat /\ Lodged(held[p].at, Words(held[p].len))
         /\ Apart(at, n, held[p].at, Words(held[p].len))
         /\ \A w : ~(w \in Piece(held[p].at, Words(held[p].len)) /\ w \in B)
  BY <1>1, <1>10, HeldAt
<1>12. \A x \in Classes : \A i \in 1..d[x] :
         /\ Apart(s[x][i], Size(x), at, n) /\ s[x][i] \in DOMAIN word
         /\ \A w : ~(w \in Piece(s[x][i], Size(x)) /\ w \in B)
         /\ s[x][i] \in Piece(s[x][i], Size(x))
  BY <1>1, <1>3, <1>10, StackedIs, SizeIs
<1>13. /\ DOMAIN free \subseteq DOMAIN free' /\ c \in DOMAIN free' /\ HeadsOf(free', d, s)
       /\ \E m \in 0..CLASSES : DOMAIN free' = 0..(m - 1)
  BY <1>1, <1>3, <1>4, <1>5, ReachingIs, ReachingHeads
<1>14. Frontier \in Nat /\ Frontier' \in Nat /\ Frontier <= Frontier' BY <1>0, <1>5, <1>7
<1>15. /\ Lives' /\ LiveWords' = LiveWords \cup B /\ LiveWords \cap B = {}
       /\ held' \in [Owners -> Blocks \cup {NoBlock}] /\ SmallHolding' = SmallHolding \cup {o}
       /\ \A p \in SmallHolding : held'[p] = held[p]
       /\ held'[o].at = at /\ held'[o].len = len
       /\ LargeHolding' = LargeHolding /\ \A p \in LargeHolding : held'[p] = held[p]
  <2>1. Lodged(at, Words(len))'
    <3>1. Piece(at, n) \subseteq DOMAIN word' /\ at + n <= Frontier' BY <1>5, <1>7, <1>8, <1>9 DEF B
    <3> QED BY <3>1 DEF Lodged, n, Piece, Words
  <2>2. \A w \in Piece(at, Words(len)) : word'[w] = o BY <1>8, <1>9 DEF B, n
  <2>3. \A w \in LiveWords : word'[w] = word[w] BY <1>8, <1>11 DEF LiveWords
  <2>4. class_of(len) \in DOMAIN free' BY <1>13 DEF c
  <2>5. \A p \in SmallHolding : Apart(at, Words(len), held[p].at, Words(held[p].len)) BY <1>11 DEF n
  <2> QED BY <1>1, <1>4, <1>8, <1>9, <1>13, <1>14, <2>1, <2>2, <2>3, <2>4, <2>5, LiveAdded DEF B, n
<1>16. Ground'
  <2>1. \A w \in DOMAIN word : word'[w] \in 0..NONE \cup Owners BY <1>1, <1>8 DEF Ground
  <2>2. off' \in Nat /\ (IF made = 0 THEN off' = 0 ELSE off' <= segments[seg])
    BY <1>4, <1>5, <1>6
  <2> QED BY <1>1, <1>4, <1>8, <1>13, <1>15, <2>1, <2>2, GroundKept
<1>17. Rows' /\ RowBytes' = RowBytes BY <1>1, <1>4, <1>15, RowsKept
<1>18. Linked(d, s)'
  <2>1. \A x \in Classes : \A i \in 1..d[x] : word'[s[x][i]] = word[s[x][i]] BY <1>8, <1>12
  <2>2. \A x \in Classes : s[x][0] = NONE BY <1>3 DEF Linked
  <2>3. ASSUME NEW x \in Classes, NEW i \in 1..d[x]
        PROVE  Lodged(s[x][i], Size(x))' /\ word'[s[x][i]] = s[x][i - 1]
    <3>1. Lodged(s[x][i], Size(x)) /\ word[s[x][i]] = s[x][i - 1] BY <1>3 DEF Linked
    <3>2. Size(x) \in Nat BY SizeIs
    <3>3. Lodged(s[x][i], Size(x))' BY <1>8, <1>14, <3>1, <3>2 DEF Lodged
    <3> QED BY <2>1, <3>1, <3>3
  <2>4. /\ \A x \in Classes : x \in DOMAIN free' => free'[x] = s[x][d[x]]
        /\ \A x \in Classes : x \notin DOMAIN free' => d[x] = 0
    BY <1>13 DEF HeadsOf
  <2> QED BY <2>2, <2>3, <2>4 DEF Linked
<1>19. Separate(d, s)'
  <2>1. ASSUME NEW x \in Classes, NEW y \in Classes, NEW i \in 1..d[x], NEW j \in 1..d[y], x # y \/ i # j
        PROVE  Apart(s[x][i], Size(x), s[y][j], Size(y))
    BY <1>3, <2>1 DEF Separate
  <2>2. ASSUME NEW x \in Classes, NEW i \in 1..d[x], NEW p \in SmallHolding'
        PROVE  Apart(s[x][i], Size(x), held'[p].at, Words(held'[p].len))
    <3>1. CASE p \in SmallHolding BY <1>3, <1>15, <3>1 DEF Separate
    <3>2. CASE p = o BY <1>12, <1>15, <3>2 DEF n
    <3> QED BY <1>15, <3>1, <3>2
  <2> QED BY <2>1, <2>2 DEF Separate, Apart, Words
<1>20. FreeWords(d, s)' = FreeWords(d, s) BY <1>8 DEF FreeWords
<1>21. Covered(d, s)'
  <2>1. ASSUME NEW w \in DOMAIN word', w < Frontier' PROVE w \in LiveWords' \/ w \in FreeWords(d, s)'
    <3>1. w \in DOMAIN word /\ w \in Nat BY <1>1, <1>8, Places
    <3>2. CASE w < Frontier BY <1>3, <1>15, <1>20, <3>1, <3>2 DEF Covered
    <3>3. CASE ~(w < Frontier)
      <4>1. w \in B BY <1>0, <1>5, <1>7, <2>1, <3>1, <3>3 DEF B, Piece
      <4> QED BY <1>15, <4>1
    <3> QED BY <3>2, <3>3
  <2> QED BY <2>1 DEF Covered
<1>22. Tallied(d, s)'
  <2>1. IsFiniteSet(B) /\ Cardinality(B) = n BY <1>5, CountPiece DEF B
  <2>2. B \cap LiveWords = {} BY <1>15
  <2>3. large_live' = large_live BY <1>4 DEF oversized
  <2>4. n <= Room /\ Room' = Room - n BY <1>0, <1>5, <1>6
  <2> QED BY <1>1, <1>3, <1>4, <1>5, <1>15, <1>17, <1>20, <2>1, <2>2, <2>3, <2>4, TallyMoved
<1> QED BY <1>2, <1>15, <1>16, <1>17, <1>18, <1>19, <1>21, <1>22 DEF IInv, Spelled

\* A list head is NONE or the reference of a block.
LEMMA HeadIs ==
  ASSUME Ground, NEW d \in [Classes -> Nat], NEW s \in [Classes -> [Nat -> Nat]], Linked(d, s),
         NEW c \in Classes
  PROVE  s[c][d[c]] \in 0..NONE /\ (s[c][d[c]] # NONE => s[c][d[c]] \in DOMAIN word)
<1>1. d[c] \in Nat OBVIOUS
<1>2. CASE d[c] = 0
  <2>1. s[c][d[c]] = NONE BY <1>2 DEF Linked
  <2> QED BY <2>1, Geometry
<1>3. CASE d[c] # 0
  <2>1. d[c] \in 1..d[c] BY <1>1, <1>3
  <2>2. s[c][d[c]] \in Nat /\ s[c][d[c]] < LARGE /\ s[c][d[c]] \in DOMAIN word BY <2>1, StackedIs
  <2>3. PICK x \in Nat : x = s[c][d[c]] BY <2>2
  <2>4. x \in 0..NONE BY <2>2, <2>3, Geometry
  <2> QED BY <2>2, <2>3, <2>4
<1> QED BY <1>2, <1>3

\* A block apart from all that is free is pushed: the stacks stay apart.
LEMMA PushApart ==
  ASSUME NEW d, NEW s, NEW e, NEW z, NEW c \in Classes, NEW at \in Nat,
         OneMore(d, s, e, z, c, at), Separate(d, s),
         \A x \in Classes : \A i \in 1..d[x] :
           Apart(s[x][i], Size(x), at, Size(c)) /\ Apart(at, Size(c), s[x][i], Size(x))
  PROVE  \A x, y \in Classes : \A i \in 1..e[x], j \in 1..e[y] :
           x # y \/ i # j => Apart(z[x][i], Size(x), z[y][j], Size(y))
<1> SUFFICES ASSUME NEW x \in Classes, NEW y \in Classes, NEW i \in 1..e[x], NEW j \in 1..e[y], x # y \/ i # j
             PROVE  Apart(z[x][i], Size(x), z[y][j], Size(y))
  OBVIOUS
<1>1. (i \in 1..d[x] /\ z[x][i] = s[x][i]) \/ (x = c /\ i = e[c] /\ z[x][i] = at) BY DEF OneMore
<1>2. (j \in 1..d[y] /\ z[y][j] = s[y][j]) \/ (y = c /\ j = e[c] /\ z[y][j] = at) BY DEF OneMore
<1>3. CASE i \in 1..d[x] /\ z[x][i] = s[x][i] /\ j \in 1..d[y] /\ z[y][j] = s[y][j]
  BY <1>3 DEF Separate
<1>4. CASE i \in 1..d[x] /\ z[x][i] = s[x][i] /\ y = c /\ j = e[c] /\ z[y][j] = at BY <1>4
<1>5. CASE x = c /\ i = e[c] /\ z[x][i] = at /\ j \in 1..d[y] /\ z[y][j] = s[y][j] BY <1>5
<1> QED BY <1>1, <1>2, <1>3, <1>4, <1>5

\* A small block given back is pushed on its class's stack.
LEMMA FreeSmallInv ==
  ASSUME IInv, NEW o \in Owners, Free(o), Small(held[o].len)
  PROVE  IInv'
<1>1. Ground /\ Lives /\ Rows BY DEF IInv
<1>2. PICK d \in [Classes -> Nat], s \in [Classes -> [Nat -> Nat]] : Spelled(d, s) BY DEF IInv
<1>3. Linked(d, s) /\ Separate(d, s) /\ Covered(d, s) /\ Tallied(d, s) BY <1>2 DEF Spelled
<1>0. PICK at, len : at = held[o].at /\ len = held[o].len OBVIOUS
<1> DEFINE c == class_of(len)
           n == Words(len)
           B == Piece(at, n)
           M == Filled(word, B, 0)
<1>23. held[o] # NoBlock /\ Small(len) /\ held' = [held EXCEPT ![o] = NoBlock] BY <1>0 DEF Free
<1>5. o \in SmallHolding BY <1>0, <1>23 DEF SmallHolding, Holding
<1>24. at # NONE
  <2>1. held[o].at \in Nat /\ held[o].at \in DOMAIN word BY <1>1, <1>5, HeldAt
  <2>2. held[o].at < LARGE BY <1>1, <2>1, Places
  <2> QED BY <1>0, <2>1, <2>2, Geometry
<1>25. FreeSmall(at, len) BY <1>0, <1>23, <1>24 DEF Free
<1>4. /\ held[o] # NoBlock /\ Small(len)
      /\ word' = [M EXCEPT ![at] = free[c]] /\ free' = [free EXCEPT ![c] = at]
      /\ dead' = dead + n * GRAIN /\ live' = live - n * GRAIN
      /\ held' = [held EXCEPT ![o] = NoBlock]
      /\ segments' = segments /\ seg' = seg /\ off' = off /\ segment_bytes' = segment_bytes
      /\ UNCHANGED oversized
  BY <1>23, <1>25 DEF FreeSmall, Block, Piece, Given
<1>6. /\ at \in Nat /\ len \in Lens /\ Lodged(at, n) /\ B \subseteq DOMAIN word /\ at \in B /\ c \in DOMAIN free
  BY <1>0, <1>1, <1>5, HeldAt, HeldIs DEF Lives
<1>7. c \in Classes /\ Size(c) = n /\ n \in Nat /\ n > 0 BY <1>4, <1>6, Asked
<1> HIDE DEF c, n, B
<1>8. free[c] = s[c][d[c]] /\ free[c] \in 0..NONE
  <2>1. free[c] = s[c][d[c]] BY <1>3, <1>6, <1>7 DEF Linked
  <2> QED BY <1>1, <1>3, <1>7, <2>1, HeadIs
<1>9. /\ DOMAIN word' = DOMAIN word /\ word'[at] = free[c]
      /\ \A w \in DOMAIN word : w \in B /\ w # at => word'[w] = 0
      /\ \A w \in DOMAIN word : w \notin B => word'[w] = word[w]
  <2>1. /\ DOMAIN M = DOMAIN word
        /\ \A w \in DOMAIN word : w \in B => M[w] = 0
        /\ \A w \in DOMAIN word : w \notin B => M[w] = word[w]
    BY FilledIs
  <2>2. at \in DOMAIN word BY <1>6
  <2> HIDE DEF M
  <2>3. M \in [DOMAIN word -> {M[w] : w \in DOMAIN word}] BY <2>1 DEF M, Filled
  <2> QED BY <1>4, <1>6, <2>1, <2>2, <2>3
<1>10. DOMAIN free' = DOMAIN free /\ free'[c] = at /\ \A x \in DOMAIN free : x # c => free'[x] = free[x]
  BY <1>4, <1>6
<1>11. made' = made /\ Frontier' = Frontier /\ Room' = Room BY <1>4 DEF made, Frontier, Room
<1> DEFINE e == Heights(d, c)
           z == Pushed(d, s, c, at)
<1>12. OneMore(d, s, e, z, c, at) BY <1>6, <1>7, PushedIs
<1> HIDE DEF e, z, M
<1>13. /\ Lives' /\ LiveWords' = LiveWords \ B /\ B \subseteq LiveWords
       /\ held' \in [Owners -> Blocks \cup {NoBlock}] /\ SmallHolding' = SmallHolding \ {o}
       /\ \A p \in SmallHolding : p # o => held'[p] = held[p]
       /\ LargeHolding' = LargeHolding /\ \A p \in LargeHolding : held'[p] = held[p]
  <2>1. B = Piece(held[o].at, Words(held[o].len)) /\ Small(held[o].len) BY <1>0, <1>4 DEF B, n
  <2> QED BY <1>1, <1>4, <1>9, <1>10, <1>11, <2>1, LiveRemoved
<1>14. Ground'
  <2>1. 0 \in 0..NONE BY Geometry
  <2>2. \A w \in DOMAIN word : word[w] \in 0..NONE \cup Owners BY <1>1 DEF Ground
  <2>3. \A w \in DOMAIN word : word'[w] \in 0..NONE \cup Owners BY <1>8, <1>9, <2>1, <2>2
  <2>4. /\ off' \in Nat /\ (IF made = 0 THEN off' = 0 ELSE off' <= segments[seg])
        /\ \E m \in 0..CLASSES : DOMAIN free' = 0..(m - 1)
    BY <1>1, <1>4, <1>10 DEF Ground
  <2> QED BY <1>1, <1>4, <1>9, <1>13, <2>3, <2>4, GroundKept
<1>15. Rows' /\ RowBytes' = RowBytes BY <1>1, <1>4, <1>13, RowsKept
<1>16. \A x \in Classes : \A i \in 1..d[x] :
         /\ s[x][i] \in DOMAIN word /\ s[x][i] \notin B
         /\ Apart(s[x][i], Size(x), at, n) /\ Apart(at, n, s[x][i], Size(x))
  <2> SUFFICES ASSUME NEW x \in Classes, NEW i \in 1..d[x]
               PROVE  /\ s[x][i] \in DOMAIN word /\ s[x][i] \notin B
                      /\ Apart(s[x][i], Size(x), at, n) /\ Apart(at, n, s[x][i], Size(x))
    OBVIOUS
  <2>1. s[x][i] \in Nat /\ s[x][i] \in DOMAIN word /\ s[x][i] \in Piece(s[x][i], Size(x)) /\ Size(x) \in Nat
    BY <1>1, <1>3, StackedIs, SizeIs
  <2>2. Apart(s[x][i], Size(x), at, n) BY <1>0, <1>3, <1>5 DEF Separate, n
  <2> QED BY <1>6, <1>7, <2>1, <2>2, ApartIs DEF B
<1>17. Linked(e, z)'
  <2>1. HeadsOf(free', e, z)
    <3>1. ASSUME NEW x \in Classes, x \in DOMAIN free' PROVE free'[x] = z[x][e[x]]
      <4>1. CASE x = c BY <1>10, <1>12, <4>1 DEF OneMore
      <4>2. CASE x # c
        <5>1. e[x] = d[x] /\ z[x][d[x]] = s[x][d[x]] BY <1>12, <4>2 DEF OneMore
        <5> QED BY <1>3, <1>10, <3>1, <4>2, <5>1 DEF Linked
      <4> QED BY <4>1, <4>2
    <3>2. ASSUME NEW x \in Classes, x \notin DOMAIN free' PROVE e[x] = 0
      <4>1. x # c BY <1>6, <1>10, <3>2
      <4>2. e[x] = d[x] BY <1>12, <4>1 DEF OneMore
      <4> QED BY <1>3, <1>10, <3>2, <4>2 DEF Linked
    <3> QED BY <3>1, <3>2 DEF HeadsOf
  <2>2. ASSUME NEW x \in Classes, NEW i \in 1..e[x]
        PROVE \/ /\ i \in 1..d[x] /\ z[x][i] = s[x][i] /\ z[x][i - 1] = s[x][i - 1]
                 /\ word'[s[x][i]] = word[s[x][i]]
              \/ /\ Lodged(z[x][i], Size(x))' /\ word'[z[x][i]] = z[x][i - 1]
    <3>1. CASE i \in 1..d[x] BY <1>9, <1>12, <1>16, <3>1 DEF OneMore
    <3>2. CASE x = c /\ i = e[c]
      <4>1. z[x][i] = at /\ z[x][i - 1] = s[c][d[c]] BY <1>12, <3>2 DEF OneMore
      <4>2. Lodged(at, n)' BY <1>6, <1>9, <1>11 DEF Lodged, n, Words, Piece
      <4>3. Lodged(at, Size(c))' BY <1>7, <4>2 DEF Size
      <4>4. Lodged(z[x][i], Size(x))' BY <3>2, <4>1, <4>3 DEF Lodged, Size
      <4> QED BY <1>8, <1>9, <4>1, <4>4
    <3> QED BY <1>12, <3>1, <3>2 DEF OneMore
  <2>3. \A x \in Classes : z[x][0] = NONE
    <3>1. \A x \in Classes : z[x][0] = s[x][0] BY <1>12 DEF OneMore
    <3> QED BY <1>3, <3>1 DEF Linked
  <2>4. Frontier \in Nat /\ Frontier' \in Nat /\ Frontier <= Frontier' BY <1>1, <1>11, Places
  <2> QED BY <1>3, <1>9, <2>1, <2>2, <2>3, <2>4, SizeIs, Respelled
<1>18. Separate(e, z)'
  <2>1. \A x, y \in Classes : \A i \in 1..e[x], j \in 1..e[y] :
           x # y \/ i # j => Apart(z[x][i], Size(x), z[y][j], Size(y))
    BY <1>3, <1>6, <1>7, <1>12, <1>16, PushApart
  <2>2. ASSUME NEW x \in Classes, NEW i \in 1..e[x], NEW p \in SmallHolding'
        PROVE  Apart(z[x][i], Size(x), held'[p].at, Words(held'[p].len))
    <3>0. p \in SmallHolding /\ p # o /\ held'[p] = held[p] BY <1>13
    <3>1. (i \in 1..d[x] /\ z[x][i] = s[x][i]) \/ (x = c /\ z[x][i] = at) BY <1>12, OldOrNew
    <3>2. CASE i \in 1..d[x] /\ z[x][i] = s[x][i] BY <1>3, <3>0, <3>2 DEF Separate
    <3>3. CASE x = c /\ z[x][i] = at
      <4>1. Apart(held[o].at, Words(held[o].len), held[p].at, Words(held[p].len)) BY <1>1, <1>5, <3>0 DEF Lives
      <4> QED BY <1>0, <1>7, <3>0, <3>3, <4>1 DEF n
    <3> QED BY <3>1, <3>2, <3>3
  <2> QED BY <2>1, <2>2 DEF Separate, Apart, Words
<1>19. FreeWords(e, z)' = FreeWords(d, s) \cup B
  <2>0. B = Piece(at, Size(c)) BY <1>7 DEF B
  <2>3. Piece(at, Size(c)) \subseteq DOMAIN word BY <1>6, <2>0
  <2>5. c \in Classes BY <1>7
  <2>4. FreeWords(e, z) = FreeWords(d, s) \cup Piece(at, Size(c))
    BY ONLY <1>12, <2>3, <2>5, PushWords
  <2>1. FreeWords(e, z) = FreeWords(d, s) \cup B BY <2>0, <2>4
  <2>2. FreeWords(e, z)' = FreeWords(e, z) BY <1>9 DEF FreeWords
  <2> QED BY <2>1, <2>2
<1>20. Covered(e, z)'
  <2>1. ASSUME NEW w \in DOMAIN word', w < Frontier' PROVE w \in LiveWords' \/ w \in FreeWords(e, z)'
    BY <1>3, <1>9, <1>11, <1>13, <1>19, <2>1 DEF Covered
  <2> QED BY <2>1 DEF Covered
<1>21. Tallied(e, z)'
  <2>1. IsFiniteSet(B) /\ Cardinality(B) = n BY <1>6, <1>7, CountPiece DEF B
  <2>2. B \cap FreeWords(d, s) = {} BY <1>1, <1>3, <1>13, FreeNotLive
  <2>3. large_live' = large_live BY <1>4 DEF oversized
  <2> QED BY <1>1, <1>3, <1>4, <1>7, <1>11, <1>13, <1>15, <1>19, <2>1, <2>2, <2>3, TallyMoved
<1>22. e \in [Classes -> Nat] /\ z \in [Classes -> [Nat -> Nat]] BY <1>12 DEF OneMore
<1> QED BY <1>13, <1>14, <1>15, <1>17, <1>18, <1>20, <1>21, <1>22 DEF IInv, Spelled

\* The larger of two numbers.
LEMMA MaxIs ==
  ASSUME NEW a \in Nat, NEW b \in Nat
  PROVE  Max({a, b}) = IF a <= b THEN b ELSE a
<1>1. \E x \in {a, b} : \A y \in {a, b} : x >= y
  <2>1. CASE a <= b BY <2>1
  <2>2. CASE b <= a BY <2>2
  <2> QED BY <2>1, <2>2
<1>2. Max({a, b}) \in {a, b} /\ \A y \in {a, b} : Max({a, b}) >= y BY <1>1 DEF Max
<1> QED BY <1>2

\* The holder p of an oversized block has a row of l that has its length and is
\* none of the m on offer.
HasRow(p, l, m) ==
  \E x \in Nat : /\ x = held[p].at - LARGE /\ x \in 0..(l - 1) /\ large[x + 1] = held[p].len
                 /\ \A i \in 1..m : large_free[i] # x

\* What Rows says of each row, of each row on offer and of each row held.
LEMMA RowsSay ==
  ASSUME Rows, NEW l, NEW m, l = Len(large), m = Len(large_free)
  PROVE  /\ \A i \in 1..l : large[i] \in Lens \cup {0} /\ large[i] \in Nat
         /\ \A i \in 1..m : large_free[i] \in Nat /\ large_free[i] < l /\ large[large_free[i] + 1] = 0
         /\ \A i, h \in 1..m : large_free[i] = large_free[h] => i = h
         /\ \A p \in LargeHolding : HasRow(p, l, m)
<1>1. l \in Nat /\ m \in Nat /\ large \in Seq(Nat) /\ large_free \in Seq(Nat) BY DEF Rows
<1>2. \A i \in 1..l : large[i] \in Lens \cup {0} /\ large[i] \in Nat BY <1>1 DEF Rows
<1>3. \A i \in 1..m : large_free[i] \in Nat /\ large_free[i] < l /\ large[large_free[i] + 1] = 0 BY <1>1 DEF Rows
<1>4. \A i, h \in 1..m : large_free[i] = large_free[h] => i = h BY DEF Rows
<1>5. ASSUME NEW p \in LargeHolding PROVE HasRow(p, l, m)
  <2>1. /\ held[p].at - LARGE \in 0..(l - 1) /\ large[held[p].at - LARGE + 1] = held[p].len
        /\ \A i \in 1..m : large_free[i] # held[p].at - LARGE
    BY DEF Rows
  <2>2. held[p].at - LARGE \in Nat BY <1>1, <2>1
  <2> QED BY <2>1, <2>2 DEF HasRow
<1> QED BY <1>2, <1>3, <1>4, <1>5

\* The bytes of rows of these lengths, one by one.
LEMMA RowPairs ==
  ASSUME NEW f, NEW n, NEW u
  PROVE  u \in {v \in (1..n) \X Nat : v[2] \in 1..f[v[1]]}
           <=> \E x \in 1..n, y \in Nat : u = <<x, y>> /\ y \in 1..f[x]
OBVIOUS

\* An oversized block is handed out: a row that no one holds takes its length.
LEMMA RowTaken ==
  ASSUME Ground, Rows, NEW o \in Owners, NEW len \in Lens, ~Small(len), NEW at \in Nat, NEW k \in Nat,
         held[o] = NoBlock, Holds(o, at + LARGE, len), at < LARGE,
         large' = [i \in 1..k |-> IF i = at + 1 THEN len ELSE large[i]],
         Len(large) <= k, k <= LARGE, at + 1 <= k,
         \A i \in 1..k : i = at + 1 \/ i \in 1..Len(large),
         at + 1 \in 1..Len(large) => large[at + 1] = 0,
         \A p \in LargeHolding : held[p].at - LARGE # at,
         large_free' \in Seq(Nat), Len(large_free') <= Len(large_free),
         \A i \in 1..Len(large_free') : large_free'[i] = large_free[i] /\ large_free[i] # at
  PROVE  /\ Rows' /\ RowBytes' = RowBytes \cup ({at + 1} \X (1..len))
         /\ RowBytes \cap ({at + 1} \X (1..len)) = {}
         /\ held' \in [Owners -> Blocks \cup {NoBlock}] /\ SmallHolding' = SmallHolding
         /\ \A p \in SmallHolding : held'[p] = held[p]
<1>1. at + LARGE \in 0..NONE /\ len \in Nat /\ len > 0
  <2>1. LARGE \in Nat /\ NONE = 2 * LARGE - 1 BY Geometry
  <2>2. at + LARGE \in 0..NONE BY <2>1
  <2>3. len \in Nat /\ len > 0 BY ArenaAssumption
  <2> QED BY <2>2, <2>3
<1>2. PICK l \in Nat, m \in Nat, j \in Nat :
        l = Len(large) /\ m = Len(large_free) /\ j = Len(large_free')
  BY DEF Rows
<1>3. /\ held' \in [Owners -> Blocks \cup {NoBlock}] /\ o \notin Holding
      /\ held'[o].at = at + LARGE /\ held'[o].len = len
      /\ \A p \in Owners : p # o => held'[p] = held[p]
      /\ SmallHolding' = SmallHolding /\ LargeHolding' = LargeHolding \cup {o}
  BY <1>1, GivenTo
<1>4. /\ \A p \in SmallHolding : p # o /\ held'[p] = held[p]
      /\ \A p \in LargeHolding : p # o /\ held'[p] = held[p]
  BY <1>3 DEF SmallHolding, LargeHolding, Holding
<1>5. /\ \A i \in 1..l : large[i] \in Lens \cup {0} /\ large[i] \in Nat
      /\ \A i \in 1..m : large_free[i] \in Nat /\ large_free[i] < l /\ large[large_free[i] + 1] = 0
      /\ \A i, h \in 1..m : large_free[i] = large_free[h] => i = h
  BY <1>2, RowsSay
<1>6. /\ at + 1 \in 1..k /\ large'[at + 1] = len
      /\ \A i \in 1..l : i \in 1..k /\ (i # at + 1 => large'[i] = large[i])
  BY <1>2
<1>7. large' \in Seq(Nat) /\ Len(large') = k
  <2>1. \A i \in 1..k : (IF i = at + 1 THEN len ELSE large[i]) \in Nat BY <1>1, <1>2, <1>5
  <2> QED BY <2>1
<1>8. \A i \in 1..k : large'[i] \in Lens \cup {0}
  <2>1. \A i \in 1..k : i = at + 1 \/ i \in 1..l BY <1>2
  <2> QED BY <1>5, <1>6, <2>1
<1>9. ASSUME NEW i \in 1..j
      PROVE  /\ i \in 1..m /\ large_free'[i] = large_free[i] /\ large_free[i] # at /\ large_free[i] \in Nat
             /\ large_free'[i] < k /\ large'[large_free'[i] + 1] = 0
  <2>1. i \in 1..m /\ large_free'[i] = large_free[i] /\ large_free[i] # at BY <1>2
  <2>2. PICK x \in Nat : x = large_free[i] /\ x < l /\ large[x + 1] = 0 BY <1>5, <2>1
  <2>3. x + 1 \in 1..l /\ x + 1 # at + 1 /\ x < k BY <1>2, <2>1, <2>2
  <2>4. large'[x + 1] = 0 BY <1>6, <2>2, <2>3
  <2> QED BY <2>1, <2>2, <2>3, <2>4
<1>10. ASSUME NEW p \in LargeHolding'
       PROVE  /\ held'[p].at - LARGE \in 0..(k - 1)
              /\ large'[held'[p].at - LARGE + 1] = held'[p].len
              /\ \A i \in 1..j : large_free'[i] # held'[p].at - LARGE
  <2>1. CASE p = o
    <3>1. held'[p].at - LARGE = at BY <1>3, <2>1, Geometry
    <3>2. at \in 0..(k - 1) BY <1>6
    <3> QED BY <1>3, <1>6, <1>9, <2>1, <3>1, <3>2
  <2>2. CASE p \in LargeHolding
    <3>6. HasRow(p, l, m) BY <1>2, <2>2, RowsSay
    <3>1. PICK x \in Nat : /\ x = held[p].at - LARGE /\ x \in 0..(l - 1) /\ large[x + 1] = held[p].len
                           /\ \A i \in 1..m : large_free[i] # x
      BY ONLY <3>6 DEF HasRow
    <3>2. x # at BY <2>2, <3>1
    <3>3. x + 1 \in 1..l /\ x + 1 # at + 1 /\ x \in 0..(k - 1) BY <1>2, <3>1, <3>2
    <3>4. large'[x + 1] = held[p].len BY <1>6, <3>1, <3>3
    <3>5. held'[p].at - LARGE = x /\ held'[p].len = held[p].len BY <1>4, <2>2, <3>1
    <3> QED BY <1>9, <3>1, <3>3, <3>4, <3>5
  <2> QED BY <1>3, <2>1, <2>2
<1>11. ASSUME NEW p \in LargeHolding', NEW q \in LargeHolding', held'[p].at = held'[q].at PROVE p = q
  <2>1. \A x \in LargeHolding : held[x].at # at + LARGE
    <3>1. ASSUME NEW x \in LargeHolding, held[x].at = at + LARGE PROVE FALSE
      <4>1. (at + LARGE) - LARGE = at BY Geometry
      <4> QED BY <3>1, <4>1
    <3> QED BY <3>1
  <2>2. \A x, y \in LargeHolding : held[x].at = held[y].at => x = y BY DEF Rows
  <2> QED BY <1>3, <1>4, <1>11, <2>1, <2>2
<1>12. Rows'
  <2>1. \A i, h \in 1..j : large_free'[i] = large_free'[h] => i = h BY <1>5, <1>9
  <2>2. ASSUME NEW i \in 1..k, i # LARGE
        PROVE  large'[i] = 0 \/ \E p \in LargeHolding' : held'[p].at - LARGE + 1 = i
    <3>1. CASE i = at + 1
      <4>1. held'[o].at - LARGE + 1 = i BY <1>3, <3>1, Geometry
      <4> QED BY <1>3, <4>1
    <3>2. CASE i # at + 1
      <4>1. i \in 1..l /\ large'[i] = large[i] BY <1>2, <1>6, <3>2
      <4>2. Owned BY DEF Rows
      <4>3. large[i] = 0 \/ \E p \in LargeHolding : held[p].at - LARGE + 1 = i
        BY <1>2, <2>2, <4>1, <4>2 DEF Owned
      <4> QED BY <1>3, <1>4, <4>1, <4>3
    <3> QED BY <3>1, <3>2
  <2>3. Owned' BY <1>7, <2>2 DEF Owned
  <2> QED BY <1>2, <1>7, <1>8, <1>9, <1>10, <1>11, <2>1, <2>3 DEF Rows
<1> DEFINE N == {at + 1} \X (1..len)
<1>13. ASSUME NEW u PROVE u \in RowBytes' <=> (u \in RowBytes \/ u \in N)
  <2>1. u \in RowBytes <=> \E x \in 1..l, y \in Nat : u = <<x, y>> /\ y \in 1..large[x]
    BY ONLY <1>2, RowPairs DEF RowBytes
  <2>2. u \in RowBytes' <=> \E x \in 1..k, y \in Nat : u = <<x, y>> /\ y \in 1..large'[x]
    <3>1. Len(large') = k BY <1>7
    <3> QED BY ONLY <3>1, RowPairs DEF RowBytes
  <2>3. u \in N <=> \E y \in 1..len : u = <<at + 1, y>> OBVIOUS
  <2> HIDE DEF N
  <2>4. ASSUME u \in RowBytes' PROVE u \in RowBytes \/ u \in N
    <3>1. PICK x \in 1..k, y \in Nat : u = <<x, y>> /\ y \in 1..large'[x] BY <2>2, <2>4
    <3>2. CASE x = at + 1 BY <1>6, <2>3, <3>1, <3>2
    <3>3. CASE x # at + 1
      <4>1. x \in 1..l BY <1>2, <3>3
      <4> QED BY <1>6, <2>1, <3>1, <3>3, <4>1
    <3> QED BY <3>2, <3>3
  <2>5. ASSUME u \in RowBytes PROVE u \in RowBytes'
    <3>1. PICK x \in 1..l, y \in Nat : u = <<x, y>> /\ y \in 1..large[x] BY <2>1, <2>5
    <3>2. x # at + 1
      <4>1. x = at + 1 => large[x] = 0 BY <1>2
      <4>2. large[x] # 0 BY <3>1
      <4> QED BY <4>1, <4>2
    <3> QED BY <1>6, <2>2, <3>1, <3>2
  <2>6. ASSUME u \in N PROVE u \in RowBytes'
    <3>1. PICK y \in 1..len : u = <<at + 1, y>> BY <2>3, <2>6
    <3>2. y \in Nat /\ y \in 1..large'[at + 1] BY <1>1, <1>6
    <3> QED BY <1>6, <2>2, <3>1, <3>2
  <2> QED BY <2>4, <2>5, <2>6
<1>14. ASSUME NEW u, u \in RowBytes, u \in N PROVE FALSE
  <2>1. u[1] = at + 1 BY <1>14
  <2>2. u[1] \in 1..l /\ u[2] \in 1..large[u[1]] BY <1>2, <1>14 DEF RowBytes
  <2>3. large[u[1]] = 0 BY <1>2, <2>1, <2>2
  <2> QED BY <2>2, <2>3
<1> QED BY <1>3, <1>4, <1>12, <1>13, <1>14

\* The bytes of one row count its length.
LEMMA RowCount ==
  ASSUME NEW x, NEW n \in Nat
  PROVE  IsFiniteSet({x} \X (1..n)) /\ Cardinality({x} \X (1..n)) = n
<1>1. IsFiniteSet({x}) /\ Cardinality({x}) = 1 BY FS_Singleton
<1>2. IsFiniteSet(1..n) /\ Cardinality(1..n) = n BY FS_Interval
<1>3. IsFiniteSet({x} \X (1..n)) /\ Cardinality({x} \X (1..n)) = Cardinality({x}) * Cardinality(1..n)
  BY <1>1, <1>2, FS_Product
<1>4. 1 * n = n OBVIOUS
<1> QED BY <1>1, <1>2, <1>3, <1>4

\* An oversized block changes hands: the slab and its totals stay.
LEMMA SlabStays ==
  ASSUME IInv, UNCHANGED slab, SmallHolding' = SmallHolding,
         \A p \in SmallHolding : held'[p] = held[p], held' \in [Owners -> Blocks \cup {NoBlock}],
         Rows', NEW k \in Nat, NEW N, IsFiniteSet(N), Cardinality(N) = k,
         \/ /\ RowBytes' = RowBytes \cup N /\ RowBytes \cap N = {}
            /\ live' = live + k /\ large_live' = large_live + k
         \/ /\ RowBytes' = RowBytes \ N /\ N \subseteq RowBytes
            /\ live' = live - k /\ large_live' = large_live - k
  PROVE  IInv'
<1>1. Ground /\ Lives BY DEF IInv
<1>2. PICK d \in [Classes -> Nat], s \in [Classes -> [Nat -> Nat]] : Spelled(d, s) BY DEF IInv
<1>3. Linked(d, s) /\ Separate(d, s) /\ Covered(d, s) /\ Tallied(d, s) BY <1>2 DEF Spelled
<1>4. /\ Ground' /\ Lives' /\ Linked(d, s)' /\ Separate(d, s)' /\ Covered(d, s)'
      /\ FreeWords(d, s)' = FreeWords(d, s) /\ LiveWords' = LiveWords
      /\ Room' = Room /\ dead' = dead /\ segment_bytes' = segment_bytes
  BY <1>1, <1>3, SlabKept
<1>5. Tallied(d, s)'
  <2>1. PICK a \in Nat, b \in Nat, y \in Nat, v \in Nat :
          /\ a = dead /\ b = GRAIN * Cardinality(LiveWords) /\ y = large_live /\ v = Room * GRAIN
    BY <1>1, <1>3, TallyIs, Places, Bytes, Geometry
  <2>2. /\ a = GRAIN * Cardinality(FreeWords(d, s)) /\ live = b + y
        /\ IsFiniteSet(RowBytes) /\ y = Cardinality(RowBytes) /\ segment_bytes = (live - y) + a + v
    BY <1>3, <2>1 DEF Tallied
  <2>5. segment_bytes = b + a + v
    <3>1. segment_bytes = ((b + y) - y) + a + v BY <2>2
    <3> QED BY <3>1
  <2>3. CASE /\ RowBytes' = RowBytes \cup N /\ RowBytes \cap N = {}
             /\ live' = live + k /\ large_live' = large_live + k
    <3>1. IsFiniteSet(RowBytes') /\ Cardinality(RowBytes') = y + k BY <2>2, <2>3, CountPart
    <3>2. live' = b + y + k /\ large_live' = y + k BY <2>1, <2>2, <2>3
    <3>3. live' = b + large_live' /\ segment_bytes = (live' - large_live') + a + v BY <2>5, <3>2
    <3> QED BY <1>4, <2>1, <2>2, <3>1, <3>2, <3>3 DEF Tallied
  <2>4. CASE /\ RowBytes' = RowBytes \ N /\ N \subseteq RowBytes
             /\ live' = live - k /\ large_live' = large_live - k
    <3>1. IsFiniteSet(RowBytes') /\ Cardinality(RowBytes') = y - k BY <2>2, <2>4, CountPart
    <3>2. live' = (b + y) - k /\ large_live' = y - k BY <2>1, <2>2, <2>4
    <3>3. live' = b + large_live' /\ segment_bytes = (live' - large_live') + a + v BY <2>5, <3>2
    <3> QED BY <1>4, <2>1, <2>2, <3>1, <3>2, <3>3 DEF Tallied
  <2> QED BY <2>3, <2>4
<1> QED BY <1>2, <1>4, <1>5 DEF IInv, Spelled

\* A step that changes nothing keeps the invariant.
LEMMA InvStays == ASSUME IInv, UNCHANGED vars PROVE IInv'
<1>1. /\ UNCHANGED slab /\ UNCHANGED oversized /\ live' = live /\ held' = held /\ large_live' = large_live
  BY DEF vars, oversized
<1>2. SmallHolding' = SmallHolding /\ LargeHolding' = LargeHolding
  BY <1>1 DEF SmallHolding, LargeHolding, Holding
<1>3. Rows' /\ RowBytes' = RowBytes BY <1>1, <1>2, RowsKept DEF IInv
<1>4. held' \in [Owners -> Blocks \cup {NoBlock}] BY <1>1 DEF IInv, Ground, Blocks
<1>5. PICK N : N = {} OBVIOUS
<1>6. IsFiniteSet(N) /\ Cardinality(N) = 0 BY <1>5, FS_EmptySet
<1>7. RowBytes' = RowBytes \cup N /\ RowBytes \cap N = {} BY <1>3, <1>5
<1>8. live' = live + 0 /\ large_live' = large_live + 0
  <2>1. PICK d, s : Ground /\ Tallied(d, s) BY DEF IInv, Spelled
  <2>2. live \in Nat /\ large_live \in Nat BY <2>1, TallyIs
  <2> QED BY <1>1, <2>2
<1> QED BY <1>1, <1>2, <1>3, <1>4, <1>6, <1>7, <1>8, SlabStays

\* An oversized block, from a hole or from a new row, or refused for want of one.
LEMMA AllocLargeInv ==
  ASSUME IInv, NEW o \in Owners, NEW len \in Lens, AllocLarge(o, len)
  PROVE  IInv'
<1>1. Ground /\ Rows BY DEF IInv
<1>2. PICK l \in Nat, m \in Nat : l = Len(large) /\ m = Len(large_free) /\ l <= LARGE
  BY <1>1 DEF Rows
<1>3. /\ large \in Seq(Nat) /\ large_free \in Seq(Nat)
      /\ \A i \in 1..m : large_free[i] \in Nat /\ large_free[i] < l /\ large[large_free[i] + 1] = 0
      /\ \A i, h \in 1..m : large_free[i] = large_free[h] => i = h
  BY <1>1, <1>2 DEF Rows
<1>4. PICK at : at = IF large_free = <<>> THEN Len(large) ELSE large_free[Len(large_free)] OBVIOUS
<1>5. held[o] = NoBlock /\ ~Small(len) /\ large_free' = SubSeq(large_free, 1, m - 1) /\ UNCHANGED slab
  BY <1>2 DEF AllocLarge, HolesLeft
<1>6. IF at < LARGE
      THEN /\ large' = [i \in 1 .. Max({l, at + 1}) |-> IF i = at + 1 THEN len ELSE large[i]]
           /\ Holds(o, at + LARGE, len)
           /\ live' = live + len /\ large_live' = large_live + len
      ELSE UNCHANGED <<large, held, live, large_live>>
  BY <1>2, <1>4 DEF AllocLarge
<1>7. large_free = <<>> <=> m = 0 BY <1>2, <1>3
<1>8. \/ m = 0 /\ at = l
      \/ m > 0 /\ at \in Nat /\ at = large_free[m] /\ at < l /\ large[at + 1] = 0
  <2>1. CASE m = 0 BY <1>2, <1>4, <1>7, <2>1
  <2>2. CASE m > 0
    <3>1. m \in 1..m /\ at = large_free[m] BY <1>2, <1>4, <1>7, <2>2
    <3> QED BY <1>3, <2>2, <3>1
  <2> QED BY <1>2, <2>1, <2>2
<1>9. at \in Nat /\ at <= l BY <1>2, <1>8
<1>10. /\ large_free' \in Seq(Nat)
       /\ m = 0 => Len(large_free') = 0 /\ large_free' = large_free
       /\ m > 0 => Len(large_free') = m - 1 /\ \A i \in 1..(m - 1) : large_free'[i] = large_free[i]
  <2>1. CASE m = 0
    <3>1. large_free = <<>> BY <1>7, <2>1
    <3>2. SubSeq(large_free, 1, m - 1) = <<>> BY <1>2, <2>1, <3>1
    <3> QED BY <1>5, <2>1, <3>1, <3>2
  <2>2. CASE m > 0
    <3>1. m - 1 \in Nat /\ m - 1 <= Len(large_free) BY <1>2, <2>2
    <3> QED BY <1>2, <1>3, <1>5, <2>2, <3>1
  <2> QED BY <1>2, <2>1, <2>2
<1>11. CASE at < LARGE
  <2>1. PICK k \in Nat : k = (IF l <= at + 1 THEN at + 1 ELSE l) /\ k = Max({l, at + 1})
    <3>1. at + 1 \in Nat BY <1>9
    <3> QED BY <1>2, <3>1, MaxIs
  <2>2. /\ l <= k /\ k <= LARGE /\ at + 1 <= k
        /\ \A i \in 1..k : i = at + 1 \/ i \in 1..l
    BY <1>2, <1>9, <1>11, <2>1, Geometry
  <2>3. large' = [i \in 1..k |-> IF i = at + 1 THEN len ELSE large[i]] BY <1>6, <1>11, <2>1
  <2>4. at + 1 \in 1..l => large[at + 1] = 0 BY <1>2, <1>8, <1>9
  <2>5. \A p \in LargeHolding : held[p].at - LARGE # at
    <3> SUFFICES ASSUME NEW p \in LargeHolding, held[p].at - LARGE = at PROVE FALSE OBVIOUS
    <3>1. at \in 0..(l - 1) /\ \A i \in 1..m : large_free[i] # at BY <1>1, <1>2 DEF Rows
    <3>2. m > 0 => m \in 1..m BY <1>2
    <3> QED BY <1>2, <1>8, <3>1, <3>2
  <2>6. /\ Len(large_free') <= Len(large_free)
        /\ \A i \in 1..Len(large_free') : large_free'[i] = large_free[i] /\ large_free[i] # at
    <3>1. CASE m = 0 BY <1>2, <1>10, <3>1
    <3>2. CASE m > 0
      <4>1. Len(large_free') = m - 1 /\ m - 1 <= Len(large_free) BY <1>2, <1>10, <3>2
      <4>2. ASSUME NEW i \in 1..(m - 1) PROVE large_free'[i] = large_free[i] /\ large_free[i] # at
        <5>1. i \in 1..m /\ m \in 1..m /\ i # m BY <1>2, <3>2
        <5>2. large_free'[i] = large_free[i] BY <1>10, <3>2
        <5>3. at = large_free[m] BY <1>8, <3>2
        <5>4. large_free[i] # large_free[m] BY <1>3, <5>1
        <5> QED BY <5>2, <5>3, <5>4
      <4> QED BY <4>1, <4>2
    <3> QED BY <1>2, <3>1, <3>2
  <2>7. Holds(o, at + LARGE, len) /\ live' = live + len /\ large_live' = large_live + len BY <1>6, <1>11
  <2>8. /\ Rows' /\ RowBytes' = RowBytes \cup ({at + 1} \X (1..len))
        /\ RowBytes \cap ({at + 1} \X (1..len)) = {}
        /\ held' \in [Owners -> Blocks \cup {NoBlock}] /\ SmallHolding' = SmallHolding
        /\ \A p \in SmallHolding : held'[p] = held[p]
    BY <1>1, <1>2, <1>5, <1>9, <1>10, <1>11, <2>2, <2>3, <2>4, <2>5, <2>6, <2>7, RowTaken
  <2>9. len \in Nat BY ArenaAssumption
  <2>10. PICK N : N = {at + 1} \X (1..len) OBVIOUS
  <2>11. IsFiniteSet(N) /\ Cardinality(N) = len BY <2>9, <2>10, RowCount
  <2>12. RowBytes' = RowBytes \cup N /\ RowBytes \cap N = {} BY <2>8, <2>10
  <2> QED BY <1>5, <2>7, <2>8, <2>9, <2>11, <2>12, SlabStays
<1>12. CASE ~(at < LARGE)
  <2>1. m = 0 BY <1>2, <1>8, <1>12, Geometry
  <2>2. UNCHANGED <<large, large_free, live, large_live, held>> BY <1>6, <1>10, <1>12, <2>1
  <2>3. UNCHANGED vars BY <1>5, <2>2 DEF vars, oversized
  <2> QED BY <2>3, InvStays
<1> QED BY <1>11, <1>12

\* An oversized block given back: its row is emptied and becomes a hole.
LEMMA FreeLargeInv ==
  ASSUME IInv, NEW o \in Owners, Free(o), ~Small(held[o].len), held[o].at # NONE
  PROVE  IInv'
<1>1. Ground /\ Rows BY DEF IInv
<1>2. PICK l \in Nat, m \in Nat : l = Len(large) /\ m = Len(large_free) /\ l <= LARGE
  BY <1>1 DEF Rows
<1>3. /\ large \in Seq(Nat) /\ large_free \in Seq(Nat)
      /\ \A i \in 1..l : large[i] \in Lens \cup {0} /\ large[i] \in Nat
      /\ \A i \in 1..m : large_free[i] \in Nat /\ large_free[i] < l /\ large[large_free[i] + 1] = 0
      /\ \A i, h \in 1..m : large_free[i] = large_free[h] => i = h
  <2>1. large \in Seq(Nat) /\ large_free \in Seq(Nat) BY <1>1 DEF Rows
  <2>2. \A i \in 1..l : large[i] \in Lens \cup {0} BY <1>1, <1>2 DEF Rows
  <2>3. \A i \in 1..l : large[i] \in Nat BY <1>2, <2>1
  <2>4. \A i \in 1..m : large_free[i] \in Nat BY <1>2, <2>1
  <2>5. \A i \in 1..m : large_free[i] < l /\ large[large_free[i] + 1] = 0 BY <1>1, <1>2 DEF Rows
  <2>6. \A i, h \in 1..m : large_free[i] = large_free[h] => i = h BY <1>1, <1>2 DEF Rows
  <2> QED BY <2>1, <2>2, <2>3, <2>4, <2>5, <2>6
<1>24. FreeLarge(held[o].at - LARGE) BY DEF Free
<1>4. held[o] # NoBlock /\ ~Small(held[o].len) /\ held' = [held EXCEPT ![o] = NoBlock] /\ UNCHANGED slab
  BY <1>24 DEF Free, FreeLarge
<1>5. /\ held' \in [Owners -> Blocks \cup {NoBlock}]
      /\ \A p \in Owners : p # o => held'[p] = held[p]
      /\ SmallHolding' = SmallHolding \ {o} /\ LargeHolding' = LargeHolding \ {o}
      /\ o \notin SmallHolding /\ o \in LargeHolding
  BY <1>1, <1>4, GivenBack
<1>6. /\ SmallHolding' = SmallHolding /\ \A p \in SmallHolding : held'[p] = held[p]
      /\ \A p \in LargeHolding : p # o => held'[p] = held[p]
  BY <1>5 DEF SmallHolding, LargeHolding, Holding
<1>7. PICK x \in Nat : x = held[o].at - LARGE /\ x \in 0..(l - 1) /\ large[x + 1] = held[o].len
  <2>1. HasRow(o, l, m) BY <1>1, <1>2, <1>5, RowsSay
  <2> QED BY <2>1 DEF HasRow
<1>8. \A i \in 1..m : large_free[i] # x BY <1>1, <1>2, <1>5, <1>7 DEF Rows
<1>9. PICK r \in Nat : r = x + 1 /\ r \in 1..l BY <1>2, <1>7
<1>10. PICK k \in Nat : k = large[r] BY <1>3, <1>9
<1>11. /\ live' = live - k /\ large_live' = large_live - k
       /\ large' = [large EXCEPT ![r] = 0] /\ large_free' = Append(large_free, x)
  BY <1>7, <1>9, <1>10, <1>24 DEF FreeLarge
<1>12. large' \in Seq(Nat) /\ Len(large') = l /\ large'[r] = 0 /\ \A i \in 1..l : i # r => large'[i] = large[i]
  BY <1>2, <1>3, <1>9, <1>11
<1>13. /\ large_free' \in Seq(Nat) /\ Len(large_free') = m + 1 /\ large_free'[m + 1] = x
       /\ \A i \in 1..m : large_free'[i] = large_free[i]
  BY <1>2, <1>3, <1>7, <1>11
<1>14. \A i \in 1..(m + 1) : i \in 1..m \/ i = m + 1 BY <1>2
<1>15. ASSUME NEW i \in 1..(m + 1) PROVE large_free'[i] < l /\ large'[large_free'[i] + 1] = 0
  <2>1. CASE i = m + 1 BY <1>2, <1>7, <1>9, <1>12, <1>13, <2>1
  <2>2. CASE i \in 1..m
    <3>1. PICK y \in Nat : y = large_free[i] /\ y < l /\ large[y + 1] = 0 /\ y # x BY <1>3, <1>8, <2>2
    <3>2. y + 1 \in 1..l BY <1>2, <3>1
    <3>3. r = x + 1 BY <1>9
    <3>4. y + 1 # r BY ONLY x \in Nat, y \in Nat, <3>1, <3>3
    <3> QED BY <1>12, <1>13, <2>2, <3>1, <3>2, <3>4
  <2> QED BY <1>14, <2>1, <2>2
<1>16. ASSUME NEW i \in 1..(m + 1), NEW h \in 1..(m + 1), large_free'[i] = large_free'[h] PROVE i = h
  BY <1>3, <1>8, <1>13, <1>14, <1>16
<1>17. ASSUME NEW p \in LargeHolding'
       PROVE  /\ held'[p].at - LARGE \in 0..(l - 1)
              /\ large'[held'[p].at - LARGE + 1] = held'[p].len
              /\ \A i \in 1..(m + 1) : large_free'[i] # held'[p].at - LARGE
  <2>1. p \in LargeHolding /\ p # o /\ held'[p] = held[p] BY <1>5, <1>6
  <2>8. held[p].at - LARGE \in 0..(l - 1) /\ large[held[p].at - LARGE + 1] = held[p].len
    BY <1>1, <1>2, <2>1 DEF Rows
  <2>9. held[p].at - LARGE \in Nat BY <1>2, <2>8
  <2>2. PICK y \in Nat : y = held[p].at - LARGE /\ y \in 0..(l - 1) /\ large[y + 1] = held[p].len
    BY <2>8, <2>9
  <2>3. \A i \in 1..m : large_free[i] # y BY <1>1, <1>2, <2>1, <2>2 DEF Rows
  <2>4. y # x
    <3>1. held[p].at # held[o].at BY <1>1, <1>5, <2>1 DEF Rows
    <3>2. held[p].at \in Nat /\ held[o].at \in Nat BY <1>1, <1>5, <2>1, HeldIs
    <3> QED BY <1>7, <2>2, <3>1, <3>2, Geometry
  <2>5. y + 1 \in 1..l /\ y + 1 # r
    <3>1. y + 1 \in 1..l BY <1>2, <2>2
    <3>2. x \in Nat /\ r = x + 1 BY <1>7, <1>9
    <3>3. y + 1 # x + 1 BY <2>4, <3>2
    <3> QED BY <3>1, <3>2, <3>3
  <2>6. large'[y + 1] = held[p].len BY <1>12, <2>2, <2>5
  <2>7. \A i \in 1..(m + 1) : large_free'[i] # y BY <1>13, <1>14, <2>3, <2>4
  <2> QED BY <2>1, <2>2, <2>6, <2>7
<1>18. ASSUME NEW p \in LargeHolding', NEW q \in LargeHolding', held'[p].at = held'[q].at PROVE p = q
  <2>1. \A y, z \in LargeHolding : held[y].at = held[z].at => y = z BY <1>1 DEF Rows
  <2> QED BY <1>5, <1>6, <1>18, <2>1
<1>19. Rows'
  <2>1. \A i \in 1..l : large'[i] \in Lens \cup {0} BY <1>3, <1>12
  <2>2. ASSUME NEW i \in 1..l, i # LARGE
        PROVE  large'[i] = 0 \/ \E p \in LargeHolding' : held'[p].at - LARGE + 1 = i
    <3>1. CASE i = r BY <1>12, <3>1
    <3>2. CASE i # r
      <4>1. Owned BY <1>1 DEF Rows
      <4>2. large[i] = 0 \/ \E p \in LargeHolding : held[p].at - LARGE + 1 = i BY <1>2, <2>2, <4>1 DEF Owned
      <4>3. held[o].at - LARGE + 1 = r BY <1>7, <1>9
      <4>4. \A p \in LargeHolding : held[p].at - LARGE + 1 = i => p \in LargeHolding' /\ held'[p] = held[p]
        BY <1>5, <1>6, <3>2, <4>3
      <4> QED BY <1>12, <3>2, <4>2, <4>4
    <3> QED BY <3>1, <3>2
  <2>3. Owned' BY <1>12, <2>2 DEF Owned
  <2> QED BY <1>2, <1>12, <1>13, <1>15, <1>16, <1>17, <1>18, <2>1, <2>3 DEF Rows
<1>20. PICK N : N = {r} \X (1..k) OBVIOUS
<1>21. IsFiniteSet(N) /\ Cardinality(N) = k BY <1>20, RowCount
<1>22. ASSUME NEW u PROVE (u \in N => u \in RowBytes) /\ (u \in RowBytes' <=> u \in RowBytes /\ u \notin N)
  <2>1. u \in RowBytes <=> \E i \in 1..l, y \in Nat : u = <<i, y>> /\ y \in 1..large[i]
    BY ONLY <1>2, RowPairs DEF RowBytes
  <2>2. u \in RowBytes' <=> \E i \in 1..l, y \in Nat : u = <<i, y>> /\ y \in 1..large'[i]
    <3>1. Len(large') = l BY <1>12
    <3> QED BY ONLY <3>1, RowPairs DEF RowBytes
  <2>3. u \in N <=> \E y \in 1..k : u = <<r, y>> BY <1>20
  <2>4. ASSUME u \in N PROVE u \in RowBytes
    <3>1. PICK y \in 1..k : u = <<r, y>> BY <2>3, <2>4
    <3>2. y \in Nat /\ y \in 1..large[r] BY <1>10
    <3> QED BY <1>9, <2>1, <3>1, <3>2
  <2>5. ASSUME u \in RowBytes' PROVE u \in RowBytes /\ u \notin N
    <3>1. PICK i \in 1..l, y \in Nat : u = <<i, y>> /\ y \in 1..large'[i] BY <2>2, <2>5
    <3>2. i # r BY <1>12, <3>1
    <3>3. large'[i] = large[i] BY <1>12, <3>2
    <3> QED BY <2>1, <2>3, <3>1, <3>2, <3>3
  <2>6. ASSUME u \in RowBytes, u \notin N PROVE u \in RowBytes'
    <3>1. PICK i \in 1..l, y \in Nat : u = <<i, y>> /\ y \in 1..large[i] BY <2>1, <2>6
    <3>2. i # r BY <1>10, <2>3, <2>6, <3>1
    <3> QED BY <1>12, <2>2, <3>1, <3>2
  <2> QED BY <2>4, <2>5, <2>6
<1>23. RowBytes' = RowBytes \ N /\ N \subseteq RowBytes BY <1>22
<1> QED BY <1>4, <1>5, <1>6, <1>11, <1>19, <1>21, <1>23, SlabStays

\* The last row given up: it stays as it is, with its length and its charge.
LEMMA FreeNoneInv ==
  ASSUME IInv, NEW o \in Owners, Free(o), ~Small(held[o].len), held[o].at = NONE
  PROVE  IInv'
<1>1. Ground /\ Rows BY DEF IInv
<1>2. /\ held[o] # NoBlock /\ held' = [held EXCEPT ![o] = NoBlock]
      /\ UNCHANGED slab /\ UNCHANGED oversized /\ live' = live
  BY DEF Free
<1>3. /\ held' \in [Owners -> Blocks \cup {NoBlock}]
      /\ \A p \in Owners : p # o => held'[p] = held[p]
      /\ SmallHolding' = SmallHolding \ {o} /\ LargeHolding' = LargeHolding \ {o}
      /\ o \notin SmallHolding /\ o \in LargeHolding
  BY <1>1, <1>2, GivenBack
<1>4. /\ SmallHolding' = SmallHolding /\ \A p \in SmallHolding : held'[p] = held[p]
      /\ \A p \in LargeHolding : p # o => held'[p] = held[p]
  BY <1>3 DEF SmallHolding, LargeHolding, Holding
<1>5. large' = large /\ large_free' = large_free /\ large_live' = large_live BY <1>2 DEF oversized
<1>6. RowBytes' = RowBytes BY <1>5 DEF RowBytes
<1>7. ASSUME NEW p \in LargeHolding'
      PROVE  /\ held'[p].at - LARGE \in 0..(Len(large') - 1)
             /\ large'[held'[p].at - LARGE + 1] = held'[p].len
             /\ \A i \in 1..Len(large_free') : large_free'[i] # held'[p].at - LARGE
  <2>1. p \in LargeHolding /\ held'[p] = held[p] BY <1>3, <1>4
  <2> QED BY <1>1, <1>5, <2>1 DEF Rows
<1>8. ASSUME NEW p \in LargeHolding', NEW q \in LargeHolding', held'[p].at = held'[q].at PROVE p = q
  <2>1. \A y, z \in LargeHolding : held[y].at = held[z].at => y = z BY <1>1 DEF Rows
  <2> QED BY <1>3, <1>4, <1>8, <2>1
<1>9. Owned'
  <2> SUFFICES ASSUME NEW i \in 1..Len(large), i # LARGE, large[i] # 0
               PROVE  \E p \in LargeHolding' : held'[p].at - LARGE + 1 = i
    BY <1>5 DEF Owned
  <2>1. PICK p \in LargeHolding : held[p].at - LARGE + 1 = i BY <1>1 DEF Rows, Owned
  <2>2. held[o].at - LARGE + 1 = LARGE BY Geometry
  <2>3. p # o BY <2>1, <2>2
  <2> QED BY <1>3, <1>4, <2>1, <2>3
<1>10. Rows' BY <1>1, <1>5, <1>7, <1>8, <1>9 DEF Rows
<1>11. PICK N : N = {} OBVIOUS
<1>12. IsFiniteSet(N) /\ Cardinality(N) = 0 BY <1>11, FS_EmptySet
<1>13. RowBytes' = RowBytes \cup N /\ RowBytes \cap N = {} BY <1>6, <1>11
<1>14. live' = live + 0 /\ large_live' = large_live + 0
  <2>1. PICK d, s : Ground /\ Tallied(d, s) BY DEF IInv, Spelled
  <2>2. live \in Nat /\ large_live \in Nat BY <2>1, TallyIs
  <2> QED BY <1>2, <1>5, <2>2
<1> QED BY <1>2, <1>3, <1>4, <1>10, <1>12, <1>13, <1>14, SlabStays

\* A refusal with nothing left uncut only lengthens the table of heads.
LEMMA RefusedInv ==
  ASSUME IInv, NEW o \in Owners, NEW len \in Lens, Refused(o, len), Room = 0
  PROVE  IInv'
<1> DEFINE c == class_of(len)
<1>1. Ground /\ Lives /\ Rows BY DEF IInv
<1>2. PICK d \in [Classes -> Nat], s \in [Classes -> [Nat -> Nat]] : Spelled(d, s) BY DEF IInv
<1>3. Linked(d, s) /\ Separate(d, s) /\ Covered(d, s) /\ Tallied(d, s) BY <1>2 DEF Spelled
<1>4. /\ Room = 0 /\ Small(len)
      /\ dead' = dead /\ free' = Reaching(c) /\ word' = word
      /\ segments' = segments /\ seg' = seg /\ off' = off /\ segment_bytes' = segment_bytes
      /\ UNCHANGED oversized /\ live' = live /\ held' = held
  BY DEF Refused, TailPushed, TailLinked, Asks
<1>5. c \in Classes BY <1>4, Asked
<1> HIDE DEF c
<1>6. /\ DOMAIN free \subseteq DOMAIN free' /\ HeadsOf(free', d, s)
      /\ \E m \in 0..CLASSES : DOMAIN free' = 0..(m - 1)
  BY <1>1, <1>3, <1>4, <1>5, ReachingIs, ReachingHeads
<1>7. Frontier' = Frontier /\ Room' = Room /\ made' = made BY <1>4 DEF Frontier, Room, made
<1>8. /\ SmallHolding' = SmallHolding /\ LargeHolding' = LargeHolding /\ large_live' = large_live
      /\ held' \in [Owners -> Blocks \cup {NoBlock}]
  BY <1>1, <1>4 DEF SmallHolding, LargeHolding, Holding, oversized, Ground, Blocks
<1>9. Ground'
  <2>1. /\ \A w \in DOMAIN word : word'[w] \in 0..NONE \cup Owners
        /\ off' \in Nat /\ (IF made = 0 THEN off' = 0 ELSE off' <= segments[seg])
    BY <1>1, <1>4 DEF Ground
  <2> QED BY <1>1, <1>4, <1>6, <1>8, <2>1, GroundKept
<1>10. Lives' BY <1>1, <1>4, <1>6, <1>7, <1>8 DEF Lives, Lodged
<1>11. Rows' /\ RowBytes' = RowBytes BY <1>1, <1>4, <1>8, RowsKept
<1>12. Linked(d, s)'
  <2>1. \A x \in Classes : s[x][0] = NONE BY <1>3 DEF Linked
  <2>2. \A x \in Classes : \A i \in 1..d[x] :
           Lodged(s[x][i], Size(x))' /\ word'[s[x][i]] = s[x][i - 1]
    BY <1>3, <1>4, <1>7 DEF Linked, Lodged
  <2>3. /\ \A x \in Classes : x \in DOMAIN free' => free'[x] = s[x][d[x]]
        /\ \A x \in Classes : x \notin DOMAIN free' => d[x] = 0
    BY <1>6 DEF HeadsOf
  <2> QED BY <2>1, <2>2, <2>3 DEF Linked
<1>13. Separate(d, s)' BY <1>3, <1>4, <1>8 DEF Separate
<1>14. FreeWords(d, s)' = FreeWords(d, s) /\ LiveWords' = LiveWords BY <1>4, <1>8 DEF FreeWords, LiveWords
<1>15. Covered(d, s)' BY <1>3, <1>4, <1>7, <1>14 DEF Covered
<1>16. Tallied(d, s)' BY <1>3, <1>4, <1>7, <1>8, <1>11, <1>14 DEF Tallied
<1> QED BY <1>2, <1>9, <1>10, <1>11, <1>12, <1>13, <1>15, <1>16 DEF IInv, Spelled

\* At the start there is no memory and nothing is held.
LEMMA InitInv == Init => IInv
<1> SUFFICES ASSUME Init PROVE IInv OBVIOUS
<1>1. /\ segments = <<>> /\ seg = 0 /\ off = 0 /\ word = <<>> /\ free = <<>>
      /\ large = <<>> /\ large_free = <<>>
      /\ live = 0 /\ dead = 0 /\ large_live = 0 /\ segment_bytes = 0
      /\ held = [p \in Owners |-> NoBlock]
  BY DEF Init
<1>2. DOMAIN segments = {} /\ DOMAIN word = {} /\ DOMAIN free = {} BY <1>1
<1>3. made = 0 BY <1>2, FS_EmptySet DEF made
<1>4. Holding = {} /\ SmallHolding = {} /\ LargeHolding = {}
  BY <1>1 DEF Holding, SmallHolding, LargeHolding
<1>5. Ground
  <2>1. DOMAIN segments = 0..(made - 1) /\ made <= MAX_SEGMENTS /\ made \in Nat BY <1>2, <1>3, Geometry
  <2>2. \E n \in 0..CLASSES : DOMAIN free = 0..(n - 1)
    <3>1. 0 \in 0..CLASSES /\ 0..(0 - 1) = {} BY Geometry
    <3> QED BY <1>2, <3>1
  <2>3. IsFiniteSet(DOMAIN word) BY <1>2, FS_EmptySet
  <2>4. held \in [Owners -> [at : 0..NONE, len : Lens] \cup {NoBlock}] BY <1>1
  <2> QED BY <1>1, <1>2, <1>3, <2>1, <2>2, <2>3, <2>4 DEF Ground
<1>6. Lives BY <1>4 DEF Lives
<1>7. Rows BY <1>1, <1>4, Geometry DEF Rows, Owned
<1> DEFINE d == [c \in Classes |-> 0]
           s == [c \in Classes |-> [i \in Nat |-> NONE]]
<1>8. d \in [Classes -> Nat] /\ s \in [Classes -> [Nat -> Nat]] BY Geometry
<1>9. \A c \in Classes : d[c] = 0 /\ s[c][0] = NONE /\ \A i : ~(i \in 1..d[c]) OBVIOUS
<1> HIDE DEF d, s
<1>10. Linked(d, s) BY <1>2, <1>9 DEF Linked
<1>11. Separate(d, s) BY <1>9 DEF Separate
<1>12. Covered(d, s) BY <1>2 DEF Covered
<1>13. Tallied(d, s)
  <2>1. FreeWords(d, s) = {} /\ LiveWords = {} BY <1>2 DEF FreeWords, LiveWords
  <2>2. RowBytes = {} BY <1>1 DEF RowBytes
  <2>3. Room = 0 BY <1>3 DEF Room
  <2>4. IsFiniteSet({}) /\ Cardinality({}) = 0 BY FS_EmptySet
  <2>5. GRAIN * 0 = 0 /\ 0 * GRAIN = 0 BY Geometry
  <2> QED BY <1>1, <2>1, <2>2, <2>3, <2>4, <2>5 DEF Tallied
<1> QED BY <1>5, <1>6, <1>7, <1>8, <1>10, <1>11, <1>12, <1>13 DEF IInv, Spelled

-----------------------------------------------------------------------------
(* Growing. *)

\* The stacks e, z are d, s with the uncut room, if any, on top of its class's:
\* heads are their heads, and they are spelled in mem.
Tailed(d, s, e, z, heads, mem) ==
  /\ e \in [Classes -> Nat] /\ z \in [Classes -> [Nat -> Nat]]
  /\ HeadsOf(heads, e, z) /\ \A x \in Classes : z[x][0] = NONE
  /\ DOMAIN mem = DOMAIN word
  /\ \A w \in DOMAIN word : mem[w] \in 0..NONE \cup Owners /\ (w < Frontier => mem[w] = word[w])
  /\ \A x \in Classes : \A i \in 1..e[x] :
       /\ z[x][i] \in Nat /\ z[x][i] + Size(x) <= Frontier + Room
       /\ z[x][i] \in DOMAIN word /\ Piece(z[x][i], Size(x)) \subseteq DOMAIN word
       /\ mem[z[x][i]] = z[x][i - 1]
  /\ \A x, y \in Classes : \A i \in 1..e[x], j \in 1..e[y] :
       x # y \/ i # j => Apart(z[x][i], Size(x), z[y][j], Size(y))
  /\ \A x \in Classes : \A i \in 1..e[x] : \A p \in SmallHolding :
       Apart(z[x][i], Size(x), held[p].at, Words(held[p].len))
  /\ FreeWords(e, z) = FreeWords(d, s) \cup Piece(Frontier, Room)

\* Pushing the tail of a segment keeps the stacks spelled.
LEMMA TailIs ==
  ASSUME Ground, Lives, NEW d \in [Classes -> Nat], NEW s \in [Classes -> [Nat -> Nat]],
         Linked(d, s), Separate(d, s), NEW c \in Classes, Room <= c,
         TailPushed(Reaching(c))
  PROVE  /\ \E e, z : Tailed(d, s, e, z, free', TailLinked(Reaching(c)))
         /\ DOMAIN free' = DOMAIN Reaching(c)
         /\ dead \in Int => dead' = dead + Room * GRAIN
<1>1. PICK f \in Nat, r \in Nat : f = Frontier /\ r = Room BY Places
<1>2. PICK H : H = Reaching(c) OBVIOUS
<1>3. HeadsOf(H, d, s) BY <1>2, ReachingHeads
<1>4. PICK M : M = TailLinked(H) OBVIOUS
<1>5. \A w \in DOMAIN word : word[w] \in 0..NONE \cup Owners BY DEF Ground
<1>6. \A x \in Classes : \A i \in 1..d[x] :
        /\ s[x][i] \in Nat /\ s[x][i] + Size(x) <= f /\ s[x][i] \in DOMAIN word
        /\ Piece(s[x][i], Size(x)) \subseteq DOMAIN word
        /\ word[s[x][i]] = s[x][i - 1] /\ s[x][i] < f
  <2> SUFFICES ASSUME NEW x \in Classes, NEW i \in 1..d[x]
               PROVE  /\ s[x][i] \in Nat /\ s[x][i] + Size(x) <= f /\ s[x][i] \in DOMAIN word
                      /\ Piece(s[x][i], Size(x)) \subseteq DOMAIN word
                      /\ word[s[x][i]] = s[x][i - 1] /\ s[x][i] < f
    OBVIOUS
  <2>1. /\ s[x][i] \in Nat /\ Lodged(s[x][i], Size(x)) /\ s[x][i] \in DOMAIN word
        /\ Piece(s[x][i], Size(x)) \subseteq DOMAIN word
    BY StackedIs
  <2>2. word[s[x][i]] = s[x][i - 1] BY DEF Linked
  <2>3. s[x][i] + Size(x) <= f BY <1>1, <2>1 DEF Lodged
  <2>4. s[x][i] < f BY <1>1, <2>1, <2>3, SizeIs
  <2> QED BY <2>1, <2>2, <2>3, <2>4
<1>7. \A x \in Classes : s[x][0] = NONE BY DEF Linked
<1>8. CASE r = 0
  <2>1. free' = H /\ dead' = dead /\ M = word BY <1>1, <1>2, <1>4, <1>8 DEF TailPushed, TailLinked
  <2>2. Piece(Frontier, Room) = {} BY <1>1, <1>8 DEF Piece
  <2>3. \A x \in Classes : \A i \in 1..d[x] : s[x][i] + Size(x) <= Frontier + Room
    BY <1>1, <1>6, <1>8
  <2>4. Tailed(d, s, d, s, H, word)
    BY <1>3, <1>5, <1>6, <1>7, <2>2, <2>3 DEF Tailed, Separate
  <2>5. r * GRAIN = 0 BY <1>8, Geometry
  <2> QED BY <1>1, <1>2, <1>4, <2>1, <2>4, <2>5
<1>9. CASE r # 0
  <2>1. PICK t \in Nat : t = r - 1 BY <1>1, <1>9
  <2>2. t \in Classes /\ Size(t) = r /\ t <= c
    <3>1. c \in Nat /\ c <= CLASSES - 1 /\ CLASSES \in Nat BY Geometry DEF Classes
    <3> QED BY <1>1, <2>1, <3>1 DEF Classes, Size
  <2>3. t \in DOMAIN H BY <1>2, <2>1, <2>2, ReachingIs
  <2>4. /\ free' = [H EXCEPT ![t] = f] /\ dead' = dead + r * GRAIN
        /\ M = [word EXCEPT ![f] = H[t]]
    BY <1>1, <1>2, <1>4, <1>9, <2>1 DEF TailPushed, TailLinked, Frontier
  <2>5. Piece(f, r) \subseteq DOMAIN word /\ f \in Piece(f, r)
    BY <1>1, <1>9, Places, CountPiece DEF Piece
  <2>6. H[t] = s[t][d[t]] /\ H[t] \in 0..NONE BY <1>3, <2>2, <2>3, HeadIs DEF HeadsOf
  <2>7. DOMAIN M = DOMAIN word /\ M[f] = H[t] /\ \A w \in DOMAIN word : w # f => M[w] = word[w]
    BY <2>4, <2>5
  <2>8. DOMAIN free' = DOMAIN H /\ free'[t] = f /\ \A x \in DOMAIN H : x # t => free'[x] = H[x]
    BY <2>3, <2>4
  <2> DEFINE e == Heights(d, t)
             z == Pushed(d, s, t, f)
  <2>9. OneMore(d, s, e, z, t, f) BY <2>2, PushedIs
  <2> HIDE DEF e, z
  <2>10. HeadsOf(free', e, z)
    <3>1. ASSUME NEW x \in Classes, x \in DOMAIN free' PROVE free'[x] = z[x][e[x]]
      <4>1. CASE x = t BY <2>8, <2>9, <4>1 DEF OneMore
      <4>2. CASE x # t
        <5>1. e[x] = d[x] /\ z[x][d[x]] = s[x][d[x]] BY <2>9, <4>2 DEF OneMore
        <5> QED BY <1>3, <2>8, <3>1, <4>2, <5>1 DEF HeadsOf
      <4> QED BY <4>1, <4>2
    <3>2. ASSUME NEW x \in Classes, x \notin DOMAIN free' PROVE e[x] = 0
      <4>1. x # t BY <2>3, <2>8, <3>2
      <4>2. e[x] = d[x] BY <2>9, <4>1 DEF OneMore
      <4> QED BY <1>3, <2>8, <3>2, <4>2 DEF HeadsOf
    <3> QED BY <3>1, <3>2 DEF HeadsOf
  <2>11. \A x \in Classes : z[x][0] = NONE
    <3>1. \A x \in Classes : z[x][0] = s[x][0] BY <2>9 DEF OneMore
    <3> QED BY <1>7, <3>1
  <2>12. \A w \in DOMAIN word : M[w] \in 0..NONE \cup Owners /\ (w < Frontier => M[w] = word[w])
    <3>1. ASSUME NEW w \in DOMAIN word, w < Frontier PROVE w # f BY <1>1, <3>1
    <3> QED BY <1>5, <2>6, <2>7, <3>1
  <2>13. ASSUME NEW x \in Classes, NEW i \in 1..e[x]
         PROVE  /\ z[x][i] \in Nat /\ z[x][i] + Size(x) <= Frontier + Room
                /\ z[x][i] \in DOMAIN word /\ Piece(z[x][i], Size(x)) \subseteq DOMAIN word
                /\ M[z[x][i]] = z[x][i - 1]
    <3>1. CASE i \in 1..d[x]
      <4>1. z[x][i] = s[x][i] /\ z[x][i - 1] = s[x][i - 1] BY <2>9, <3>1 DEF OneMore
      <4>2. s[x][i] # f BY <1>1, <1>6, <3>1
      <4>3. s[x][i] + Size(x) <= Frontier + Room
        <5>1. PICK a \in Nat : a = s[x][i] /\ a + Size(x) <= f BY <1>6, <3>1
        <5> QED BY <1>1, <5>1, SizeIs
      <4> QED BY <1>6, <2>7, <3>1, <4>1, <4>2, <4>3
    <3>2. CASE x = t /\ i = e[t]
      <4>1. z[x][i] = f /\ z[x][i - 1] = s[t][d[t]] BY <2>9, <3>2 DEF OneMore
      <4> QED BY <1>1, <2>2, <2>5, <2>6, <2>7, <3>2, <4>1
    <3> QED BY <2>9, <3>1, <3>2 DEF OneMore
  <2>14. \A x \in Classes : \A i \in 1..d[x] :
           Apart(s[x][i], Size(x), f, Size(t)) /\ Apart(f, Size(t), s[x][i], Size(x))
    BY <1>6 DEF Apart
  <2>15. \A x, y \in Classes : \A i \in 1..e[x], j \in 1..e[y] :
           x # y \/ i # j => Apart(z[x][i], Size(x), z[y][j], Size(y))
    BY <2>2, <2>9, <2>14, PushApart
  <2>16. ASSUME NEW x \in Classes, NEW i \in 1..e[x], NEW p \in SmallHolding
         PROVE  Apart(z[x][i], Size(x), held[p].at, Words(held[p].len))
    <3>1. (i \in 1..d[x] /\ z[x][i] = s[x][i]) \/ (x = t /\ z[x][i] = f) BY <2>9, OldOrNew
    <3>2. CASE i \in 1..d[x] /\ z[x][i] = s[x][i] BY <3>2 DEF Separate
    <3>3. CASE x = t /\ z[x][i] = f
      <4>1. held[p].at + Words(held[p].len) <= f BY <1>1, HeldAt DEF Lodged
      <4> QED BY <3>3, <4>1 DEF Apart
    <3> QED BY <3>1, <3>2, <3>3
  <2>17. FreeWords(e, z) = FreeWords(d, s) \cup Piece(Frontier, Room)
    <3>1. Piece(f, Size(t)) \subseteq DOMAIN word BY <2>2, <2>5
    <3>2. FreeWords(e, z) = FreeWords(d, s) \cup Piece(f, Size(t)) BY <2>2, <2>9, <3>1, PushWords
    <3> QED BY <1>1, <2>2, <3>2
  <2>18. e \in [Classes -> Nat] /\ z \in [Classes -> [Nat -> Nat]] BY <2>9 DEF OneMore
  <2>19. Tailed(d, s, e, z, free', M)
    BY <2>7, <2>10, <2>11, <2>12, <2>13, <2>15, <2>16, <2>17, <2>18 DEF Tailed
  <2> QED BY <1>1, <1>2, <1>4, <2>4, <2>8, <2>19
<1> QED BY <1>1, <1>8, <1>9

\* The new segment: its words come after all the others, its first ones are the
\* block, and the totals count both.
LEMMA GrowAndCutInv ==
  ASSUME IInv, NEW o \in Owners, NEW len \in Lens, GrowAndCut(o, len)
  PROVE  IInv'
<1> DEFINE c == class_of(len)
           n == Words(len)
<1>1. Ground /\ Lives /\ Rows BY DEF IInv
<1>2. PICK d \in [Classes -> Nat], s \in [Classes -> [Nat -> Nat]] : Spelled(d, s) BY DEF IInv
<1>3. Linked(d, s) /\ Separate(d, s) /\ Covered(d, s) /\ Tallied(d, s) BY <1>2 DEF Spelled
<1>4. PICK k \in Nat, at \in Nat, f \in Nat, r \in Nat :
        /\ k = made /\ at = make(k, 0) /\ f = Frontier /\ r = Room /\ f + r <= at
        /\ k < MAX_SEGMENTS
  <2>1. made \in Nat /\ made < MAX_SEGMENTS BY <1>1 DEF Ground, GrowAndCut
  <2> QED BY <1>1, <2>1, Places
<1>5. segment_bytes \in Nat /\ dead \in Nat /\ live \in Nat /\ large_live \in Nat BY <1>1, <1>3, TallyIs
<1>6. PICK q \in Nat :
        /\ q = next_segment_size(segment_bytes) \div GRAIN
        /\ next_segment_size(segment_bytes) = q * GRAIN /\ 2 * CLASSES <= q /\ q <= Span
  BY <1>5, SegmentIs
<1> DEFINE B == Piece(at, n)
           W == Piece(at, q)
           M == TailLinked(Reaching(c))
<1>7. /\ held[o] = NoBlock /\ Small(len) /\ r < n
      /\ TailPushed(Reaching(c))
      /\ word' = [w \in DOMAIN word \cup (at .. make(k, q - 1)) |->
                    IF w \in B THEN o ELSE IF w \in at .. make(k, q - 1) THEN 0 ELSE M[w]]
      /\ segments' = [x \in 0..k |-> IF x = k THEN q ELSE segments[x]]
      /\ segment_bytes' = segment_bytes + q * GRAIN
      /\ seg' = k /\ off' = n /\ Holds(o, at, len) /\ live' = live + n * GRAIN
      /\ UNCHANGED oversized
  BY <1>4, <1>6 DEF GrowAndCut, Asks, Straddles, Block, Piece
<1>8. /\ c \in Classes /\ c \in Nat /\ Size(c) = n /\ n \in Nat /\ n > 0 /\ n <= CLASSES /\ r <= c /\ n <= q
      /\ q > 0
  <2>1. c \in Classes /\ c \in Nat /\ Size(c) = n /\ n \in Nat /\ n > 0 /\ n <= CLASSES BY <1>7, Asked
  <2>2. Size(c) = c + 1 BY <2>1, SizeIs
  <2>3. r < n BY <1>7
  <2> HIDE DEF c, n
  <2>4. r <= c BY <1>4, <2>1, <2>2, <2>3
  <2>5. n <= q /\ q > 0 BY <1>6, <2>1, Geometry
  <2> QED BY <2>1, <2>4, <2>5
<1> HIDE DEF c, n, B, W, M
<1>9. make(k, q - 1) = at + (q - 1) /\ at .. make(k, q - 1) = W /\ at + q <= LARGE
  <2>1. PICK y \in Nat : y = q - 1 BY <1>6, <1>8
  <2>2. make(k, y) = make(k, 0) + y BY <1>4, <2>1, MakeIs
  <2>3. make(k, q - 1) = at + (q - 1) BY <1>4, <2>1, <2>2
  <2>4. at + (q - 1) = at + q - 1 BY <1>4, <1>6
  <2>5. at + Span <= LARGE BY <1>4, MakeIs, Geometry
  <2> QED BY <1>4, <1>6, <2>3, <2>4, <2>5, Geometry DEF W, Piece
<1>10. /\ \A w \in W : w \in Nat /\ at <= w /\ w < at + q /\ w \notin DOMAIN word
       /\ B \subseteq W /\ at \in B /\ IsFiniteSet(W)
  <2>1. IsFiniteSet(W) /\ \A w \in W : w \in Nat /\ at <= w /\ w < at + q BY <1>4, <1>6, CountPiece DEF W
  <2>2. \A w \in DOMAIN word : w \in Nat /\ w < at
    <3>1. \A w \in DOMAIN word : w \in Nat /\ w < Frontier + Room BY <1>1, Places
    <3> QED BY <1>4, <3>1
  <2>3. B \subseteq W
    <3>1. at \in Int /\ at + n - 1 \in Int /\ at + q - 1 \in Int /\ at + n - 1 <= at + q - 1 BY <1>4, <1>6, <1>8
    <3> QED BY <3>1, IntervalIn DEF B, W, Piece
  <2>4. at \in B BY <1>4, <1>8, CountPiece DEF B
  <2> QED BY <2>1, <2>2, <2>3, <2>4, <1>4
<1>11. /\ DOMAIN word' = DOMAIN word \cup W
       /\ \A w \in B : word'[w] = o
       /\ \A w \in W : w \notin B => word'[w] = 0
       /\ \A w \in DOMAIN word : word'[w] = M[w]
  BY <1>7, <1>9, <1>10
<1>12. PICK e, z : Tailed(d, s, e, z, free', M)
  <2>1. Room <= c BY <1>4, <1>8
  <2> QED BY <1>1, <1>3, <1>7, <1>8, <2>1, TailIs DEF M
<1>13. DOMAIN free' = DOMAIN Reaching(c) /\ dead' = dead + r * GRAIN
  <2>1. Room <= c BY <1>4, <1>8
  <2>2. /\ DOMAIN free' = DOMAIN Reaching(c)
        /\ dead \in Int => dead' = dead + Room * GRAIN
    BY <1>1, <1>3, <1>7, <1>8, <2>1, TailIs
  <2>3. dead \in Int BY <1>5
  <2> QED BY <1>4, <2>2, <2>3
<1>14. made' = k + 1 /\ DOMAIN segments' = 0..k /\ segments'[k] = q /\ \A x \in 0..k : x # k => segments'[x] = segments[x]
  <2>1. DOMAIN segments' = 0..k BY <1>7
  <2>2. Cardinality(0..k) = k + 1
    <3>1. Cardinality(0..k) = IF 0 > k THEN 0 ELSE k - 0 + 1 BY <1>4, FS_Interval
    <3> QED BY <1>4, <3>1
  <2> QED BY <1>4, <1>7, <2>1, <2>2 DEF made
<1>15. Frontier' = at + n /\ Room' = q - n
  <2>1. Frontier' = make(k, n) BY <1>7 DEF Frontier, make
  <2>2. make(k, n) = at + n BY <1>4, <1>8, MakeIs
  <2>3. made' # 0 /\ seg' = k BY <1>4, <1>7, <1>14
  <2>4. Room' = segments'[seg'] - off' BY <2>3 DEF Room
  <2> QED BY <1>7, <1>14, <2>1, <2>2, <2>3, <2>4
<1>16. Frontier \in Nat /\ Frontier' \in Nat /\ Frontier <= Frontier' BY <1>4, <1>8, <1>15
<1>17. DOMAIN word \subseteq DOMAIN word' BY <1>11
<1>18. \A w \in LiveWords : w \in DOMAIN word /\ w < Frontier
  <2> SUFFICES ASSUME NEW w \in LiveWords PROVE w \in DOMAIN word /\ w < Frontier OBVIOUS
  <2>1. PICK p \in SmallHolding : w \in Piece(held[p].at, Words(held[p].len)) BY DEF LiveWords
  <2>2. PICK a \in Nat, m \in Nat : a = held[p].at /\ m = Words(held[p].len) /\ Lodged(a, m) BY <1>1, HeldAt
  <2>3. w \in Nat /\ w < a + m BY <2>1, <2>2, CountPiece
  <2>4. a + m <= Frontier BY <2>2 DEF Lodged
  <2> QED BY <1>16, <2>2, <2>3, <2>4 DEF LiveWords
<1>19. /\ Lives' /\ LiveWords' = LiveWords \cup B /\ LiveWords \cap B = {}
       /\ held' \in [Owners -> Blocks \cup {NoBlock}] /\ SmallHolding' = SmallHolding \cup {o}
       /\ \A p \in SmallHolding : held'[p] = held[p]
       /\ held'[o].at = at /\ held'[o].len = len
       /\ LargeHolding' = LargeHolding /\ \A p \in LargeHolding : held'[p] = held[p]
  <2>1. Lodged(at, Words(len))'
    <3>1. Piece(at, n) \subseteq DOMAIN word' /\ at + n <= Frontier'
      BY <1>4, <1>8, <1>10, <1>11, <1>15 DEF B
    <3> QED BY <3>1 DEF Lodged, n, Piece, Words
  <2>2. \A w \in Piece(at, Words(len)) : word'[w] = o BY <1>11 DEF B, n
  <2>3. \A w \in LiveWords : word'[w] = word[w] BY <1>11, <1>12, <1>18 DEF Tailed
  <2>4. class_of(len) \in DOMAIN free' /\ DOMAIN free \subseteq DOMAIN free'
    BY <1>1, <1>8, <1>13, ReachingIs DEF c
  <2>5. \A p \in SmallHolding : Apart(at, Words(len), held[p].at, Words(held[p].len))
    <3> SUFFICES ASSUME NEW p \in SmallHolding
                 PROVE  Apart(at, n, held[p].at, Words(held[p].len))
      BY DEF n
    <3>1. PICK a \in Nat, m \in Nat : a = held[p].at /\ m = Words(held[p].len) /\ Lodged(a, m) BY <1>1, HeldAt
    <3>2. a + m <= f BY <1>4, <3>1 DEF Lodged
    <3>3. a + m <= at BY <1>4, <3>1, <3>2
    <3>4. Apart(at, n, a, m) BY <3>3 DEF Apart
    <3> QED BY <3>1, <3>4
  <2>6. at \in 0..NONE BY <1>4, <1>8, <1>9, Geometry
  <2>7. held[o] = NoBlock /\ Small(len) /\ Holds(o, at, len) BY <1>7
  <2> QED BY <1>1, <1>16, <1>17, <2>7, <2>1, <2>2, <2>3, <2>4, <2>5, <2>6, LiveAdded DEF B, n
<1>20. Ground'
  <2>1. made' \in Nat /\ DOMAIN segments' = 0..(made' - 1) /\ made' <= MAX_SEGMENTS
    BY <1>4, <1>14, Geometry
  <2>2. ASSUME NEW x \in DOMAIN segments' PROVE segments'[x] \in 1..Span
    <3>1. CASE x = k BY <1>6, <1>8, <1>14, <3>1, Geometry
    <3>2. CASE x # k
      <4>1. x \in DOMAIN segments BY <1>1, <1>4, <1>14, <3>2 DEF Ground
      <4> QED BY <1>1, <1>14, <3>2, <4>1 DEF Ground
    <3> QED BY <3>1, <3>2
  <2>3. seg' \in Nat /\ off' \in Nat /\ made' # 0 /\ seg' = made' - 1 /\ off' <= segments'[seg']
    BY <1>4, <1>6, <1>7, <1>8, <1>14
  <2>4. ASSUME NEW w
        PROVE  w \in DOMAIN word' <=> \E x \in DOMAIN segments' : w \in make(x, 0) .. make(x, segments'[x] - 1)
    <3>1. w \in DOMAIN word <=> \E x \in DOMAIN segments : w \in make(x, 0) .. make(x, segments[x] - 1)
      BY <1>1 DEF Ground
    <3>2. w \in W <=> w \in make(k, 0) .. make(k, segments'[k] - 1) BY <1>4, <1>9, <1>14
    <3>3. DOMAIN segments = 0..(k - 1) BY <1>1, <1>4 DEF Ground
    <3>4. \A x : x \in DOMAIN segments' <=> (x \in DOMAIN segments \/ x = k) BY <1>4, <1>14, <3>3
    <3>5. \A x \in DOMAIN segments : segments'[x] = segments[x] BY <1>4, <1>14, <3>3
    <3> QED BY <1>11, <3>1, <3>2, <3>4, <3>5
  <2>5. IsFiniteSet(DOMAIN word')
    <3>1. IsFiniteSet(DOMAIN word) BY <1>1 DEF Ground
    <3>2. IsFiniteSet(W) /\ DOMAIN word' = DOMAIN word \cup W BY <1>10, <1>11
    <3>3. IsFiniteSet(DOMAIN word \cup W) BY <3>1, <3>2, FS_Union
    <3> QED BY <3>2, <3>3
  <2>6. ASSUME NEW w \in DOMAIN word' PROVE word'[w] \in 0..NONE \cup Owners
    <3>1. CASE w \in DOMAIN word BY <1>11, <1>12, <3>1 DEF Tailed
    <3>2. CASE w \in W
      <4>1. 0 \in 0..NONE BY Geometry
      <4> QED BY <1>11, <3>2, <4>1
    <3> QED BY <1>11, <3>1, <3>2
  <2>7. \E m \in 0..CLASSES : DOMAIN free' = 0..(m - 1) BY <1>1, <1>8, <1>13, ReachingIs
  <2>8. held' \in [Owners -> [at : 0..NONE, len : Lens] \cup {NoBlock}] BY <1>19 DEF Blocks
  <2> QED BY <2>1, <2>2, <2>3, <2>4, <2>5, <2>6, <2>7, <2>8 DEF Ground
<1>21. Rows' /\ RowBytes' = RowBytes BY <1>1, <1>7, <1>19, RowsKept
<1>22. e \in [Classes -> Nat] /\ z \in [Classes -> [Nat -> Nat]] BY <1>12 DEF Tailed
<1>23. \A x \in Classes : \A i \in 1..e[x] :
         /\ z[x][i] \in Nat /\ z[x][i] + Size(x) <= at
         /\ z[x][i] \in DOMAIN word /\ Piece(z[x][i], Size(x)) \subseteq DOMAIN word
         /\ M[z[x][i]] = z[x][i - 1]
  <2> SUFFICES ASSUME NEW x \in Classes, NEW i \in 1..e[x]
               PROVE  /\ z[x][i] \in Nat /\ z[x][i] + Size(x) <= at
                      /\ z[x][i] \in DOMAIN word /\ Piece(z[x][i], Size(x)) \subseteq DOMAIN word
                      /\ M[z[x][i]] = z[x][i - 1]
    OBVIOUS
  <2>1. /\ z[x][i] \in Nat /\ z[x][i] + Size(x) <= f + r
        /\ z[x][i] \in DOMAIN word /\ Piece(z[x][i], Size(x)) \subseteq DOMAIN word
        /\ M[z[x][i]] = z[x][i - 1]
    BY <1>4, <1>12 DEF Tailed
  <2>2. PICK a \in Nat, m \in Nat : a = z[x][i] /\ m = Size(x) BY <2>1, SizeIs
  <2>3. a + m <= at BY <1>4, <2>1, <2>2
  <2> QED BY <2>1, <2>2, <2>3
<1>24. Linked(e, z)'
  <2>1. ASSUME NEW x \in Classes, NEW i \in 1..e[x]
        PROVE  Lodged(z[x][i], Size(x))' /\ word'[z[x][i]] = z[x][i - 1]
    <3>1. word'[z[x][i]] = z[x][i - 1] BY <1>11, <1>23
    <3>2. PICK a \in Nat, m \in Nat : a = z[x][i] /\ m = Size(x) /\ a + m <= at /\ Piece(a, m) \subseteq DOMAIN word
      BY <1>23, SizeIs
    <3>3. a + m <= Frontier' BY <1>4, <1>8, <1>15, <3>2
    <3>4. Lodged(a, m)' BY <1>17, <3>2, <3>3 DEF Lodged, Piece
    <3> QED BY <3>1, <3>2, <3>4 DEF Lodged, Size
  <2>2. /\ \A x \in Classes : x \in DOMAIN free' => free'[x] = z[x][e[x]]
        /\ \A x \in Classes : x \notin DOMAIN free' => e[x] = 0
        /\ \A x \in Classes : z[x][0] = NONE
    BY <1>12 DEF Tailed, HeadsOf
  <2> QED BY <2>1, <2>2 DEF Linked
<1>25. Separate(e, z)'
  <2>1. \A x, y \in Classes : \A i \in 1..e[x], j \in 1..e[y] :
           x # y \/ i # j => Apart(z[x][i], Size(x), z[y][j], Size(y))
    BY <1>12 DEF Tailed
  <2>2. ASSUME NEW x \in Classes, NEW i \in 1..e[x], NEW p \in SmallHolding'
        PROVE  Apart(z[x][i], Size(x), held'[p].at, Words(held'[p].len))
    <3>1. CASE p \in SmallHolding BY <1>12, <1>19, <3>1 DEF Tailed
    <3>2. CASE p = o
      <4>1. Apart(z[x][i], Size(x), at, n) BY <1>23 DEF Apart
      <4> QED BY <1>19, <3>2, <4>1 DEF n
    <3> QED BY <1>19, <3>1, <3>2
  <2> QED BY <2>1, <2>2 DEF Separate, Apart, Words
<1>26. FreeWords(e, z)' = FreeWords(d, s) \cup Piece(f, r)
  <2>1. FreeWords(e, z) = FreeWords(d, s) \cup Piece(f, r) BY <1>4, <1>12 DEF Tailed
  <2>2. FreeWords(e, z)' = FreeWords(e, z)
    <3>1. ASSUME NEW w, NEW x \in Classes, NEW i \in 1..e[x], w \in Piece(z[x][i], Size(x))
          PROVE  w \in DOMAIN word /\ w \in DOMAIN word'
      BY <1>17, <1>23, <3>1
    <3> QED BY <3>1 DEF FreeWords
  <2> QED BY <2>1, <2>2
<1>27. Covered(e, z)'
  <2>1. ASSUME NEW w \in DOMAIN word', w < Frontier' PROVE w \in LiveWords' \/ w \in FreeWords(e, z)'
    <3>1. CASE w \in DOMAIN word
      <4>1. w \in Nat /\ w < f + r BY <1>1, <1>4, <3>1, Places
      <4>2. CASE w < f BY <1>3, <1>4, <1>19, <1>26, <3>1, <4>2 DEF Covered
      <4>3. CASE ~(w < f)
        <5>1. w \in Piece(f, r) BY <1>4, <4>1, <4>3 DEF Piece
        <5> QED BY <1>26, <5>1
      <4> QED BY <4>2, <4>3
    <3>2. CASE w \in W
      <4>1. w \in Nat /\ at <= w /\ w < at + n BY <1>10, <1>15, <2>1, <3>2
      <4>2. w \in B BY <1>4, <1>8, <4>1 DEF B, Piece
      <4> QED BY <1>19, <4>2
    <3> QED BY <1>11, <3>1, <3>2
  <2> QED BY <2>1 DEF Covered
<1>28. Tallied(e, z)'
  <2>1. PICK x \in Nat, l \in Nat, y \in Nat, a \in Nat, b \in Nat, m \in Nat, v \in Nat, g \in Nat :
          /\ x = Cardinality(FreeWords(d, s)) /\ l = Cardinality(LiveWords) /\ y = large_live
          /\ a = GRAIN * x /\ b = GRAIN * l /\ m = n * GRAIN /\ v = r * GRAIN /\ g = q * GRAIN
    BY <1>1, <1>3, <1>4, <1>6, <1>8, TallyIs, Bytes, Geometry
  <2>2. dead = a /\ live = b + y /\ segment_bytes = (live - y) + dead + v
    BY <1>3, <1>4, <2>1 DEF Tallied
  <2>3. IsFiniteSet(FreeWords(d, s)) /\ IsFiniteSet(LiveWords) BY <1>1, <1>3, TallyIs
  <2>4. IsFiniteSet(RowBytes') /\ large_live' = Cardinality(RowBytes') /\ large_live' = y
    BY <1>3, <1>7, <1>21, <2>1 DEF Tallied, oversized
  <2>5. Cardinality(FreeWords(e, z)') = x + r
    <3>1. IsFiniteSet(Piece(f, r)) /\ Cardinality(Piece(f, r)) = r BY <1>4, CountPiece
    <3>2. Piece(f, r) \cap FreeWords(d, s) = {}
      <4> SUFFICES ASSUME NEW w, w \in Piece(f, r), w \in FreeWords(d, s) PROVE FALSE OBVIOUS
      <4>1. w \in Nat /\ f <= w BY <1>4, CountPiece
      <4>2. PICK h \in Classes : \E i \in 1..d[h] : w \in Piece(s[h][i], Size(h)) BY DEF FreeWords
      <4>3. PICK i \in 1..d[h] : w \in Piece(s[h][i], Size(h)) BY <4>2
      <4>4. PICK j \in Nat, u \in Nat : j = s[h][i] /\ u = Size(h) /\ Lodged(j, u)
        BY <1>1, <1>3, StackedIs, SizeIs
      <4>5. w < j + u /\ j + u <= f BY <1>4, <4>3, <4>4, CountPiece DEF Lodged
      <4> QED BY <1>4, <4>1, <4>4, <4>5
    <3> QED BY <1>26, <2>1, <2>3, <3>1, <3>2, CountPart
  <2>6. Cardinality(LiveWords') = l + n
    <3>1. IsFiniteSet(B) /\ Cardinality(B) = n BY <1>4, <1>8, CountPiece DEF B
    <3>2. B \cap LiveWords = {} BY <1>19
    <3> QED BY <1>19, <2>1, <2>3, <3>1, <3>2, CountPart
  <2>7. GRAIN * (x + r) = a + v /\ GRAIN * (l + n) = b + m /\ (q - n) * GRAIN = g - m
    BY <1>4, <1>6, <1>8, <2>1, Bytes, Geometry
  <2>8. dead' = a + v /\ live' = (b + y) + m BY <1>7, <1>13, <2>1, <2>2
  <2>9. segment_bytes' = ((b + y) - y) + a + v + g BY <1>7, <2>1, <2>2
  <2>10. live' = (b + m) + y /\ segment_bytes' = (live' - y) + dead' + (g - m) BY <2>8, <2>9
  <2>11. /\ dead' = GRAIN * Cardinality(FreeWords(e, z)')
         /\ live' = GRAIN * Cardinality(LiveWords') + y
         /\ segment_bytes' = (live' - y) + dead' + Room' * GRAIN
    BY <1>15, <2>5, <2>6, <2>7, <2>8, <2>10
  <2> QED BY <2>4, <2>11 DEF Tallied
<1> QED BY <1>19, <1>20, <1>21, <1>22, <1>24, <1>25, <1>27, <1>28 DEF IInv, Spelled

-----------------------------------------------------------------------------
(* What every reachable state has. *)

\* A segment is refused only when no room is left uncut.
WholeRefusal == \A o \in Owners, len \in Lens : Refused(o, len) => Room = 0
WholeRefusals == [][WholeRefusal]_vars

\* Every other step of the arena keeps the invariant.
LEMMA NextInv ==
  ASSUME IInv, [Next]_vars, [WholeRefusal]_vars
  PROVE  IInv'
<1>1. ASSUME NEW o \in Owners, NEW len \in Lens, TakeFree(o, len) PROVE IInv' BY <1>1, TakeFreeInv
<1>2. ASSUME NEW o \in Owners, NEW len \in Lens, Cut(o, len) PROVE IInv' BY <1>2, CutInv
<1>3. ASSUME NEW o \in Owners, NEW len \in Lens, GrowAndCut(o, len) PROVE IInv' BY <1>3, GrowAndCutInv
<1>4. ASSUME NEW o \in Owners, NEW len \in Lens, Refused(o, len) PROVE IInv'
  <2>1. CASE Room = 0 BY <1>4, <2>1, RefusedInv
  <2>2. CASE UNCHANGED vars BY <2>2, InvStays
  <2> QED BY <1>4, <2>1, <2>2 DEF WholeRefusal
<1>5. ASSUME NEW o \in Owners, NEW len \in Lens, AllocLarge(o, len) PROVE IInv' BY <1>5, AllocLargeInv
<1>6. ASSUME NEW o \in Owners, Free(o) PROVE IInv' BY <1>6, FreeSmallInv, FreeLargeInv, FreeNoneInv
<1>7. CASE UNCHANGED vars BY <1>7, InvStays
<1> QED BY <1>1, <1>2, <1>3, <1>4, <1>5, <1>6, <1>7 DEF Next

\* Memory spells the free lists in every reachable state, as long as no segment is
\* refused with room left uncut.
THEOREM Invariance == Spec /\ WholeRefusals => []IInv
<1>1. Init => IInv BY InitInv
<1>2. IInv /\ [Next]_vars /\ [WholeRefusal]_vars => IInv' BY NextInv
<1> QED BY <1>1, <1>2, PTL DEF Spec, WholeRefusals

\* The elements of a sequence are its range.
LEMMA RangeIn ==
  ASSUME NEW g, NEW T, \A x \in DOMAIN g : g[x] \in T
  PROVE  Range(g) \subseteq T
BY DEF Range

\* Types, from the invariant.
LEMMA InvTyped == IInv => TypeOK
<1> SUFFICES ASSUME IInv PROVE TypeOK OBVIOUS
<1>1. Ground /\ Rows BY DEF IInv
<1>2. PICK d \in [Classes -> Nat], s \in [Classes -> [Nat -> Nat]] : Spelled(d, s) BY DEF IInv
<1>3. Linked(d, s) /\ Tallied(d, s) BY <1>2 DEF Spelled
<1>4. /\ DOMAIN segments = 0..(made - 1) /\ made <= MAX_SEGMENTS
      /\ \A x \in DOMAIN segments : segments[x] \in 1 .. 2 ^ OFF_BITS
  BY <1>1 DEF Ground, Span
<1>5. made > 0 => seg = made - 1 /\ off \in 0..segments[seg]
  <2> SUFFICES ASSUME made > 0 PROVE seg = made - 1 /\ off \in 0..segments[seg] OBVIOUS
  <2>1. made \in Nat /\ made # 0 /\ off \in Nat BY <1>1 DEF Ground
  <2>2. seg = made - 1 /\ off <= segments[seg] /\ seg \in DOMAIN segments BY <1>1, <2>1 DEF Ground
  <2>3. segments[seg] \in 1..Span BY <1>1, <2>2 DEF Ground
  <2>4. segments[seg] \in Nat BY <2>3, Geometry
  <2> QED BY <2>1, <2>2, <2>4
<1>6. DOMAIN word = UNION {make(x, 0) .. make(x, segments[x] - 1) : x \in DOMAIN segments}
  BY <1>1 DEF Ground
<1>7. Range(word) \subseteq 0..NONE \cup Owners BY <1>1, RangeIn DEF Ground
<1>8. \E n \in 0 .. SMALL_MAX \div GRAIN : DOMAIN free = 0..(n - 1) BY <1>1 DEF Ground, CLASSES
<1>9. Range(free) \subseteq DOMAIN word \cup {NONE}
  <2>1. ASSUME NEW c \in DOMAIN free PROVE free[c] \in DOMAIN word \cup {NONE}
    <3>1. c \in Classes
      <4>1. PICK n \in 0..CLASSES : DOMAIN free = 0..(n - 1) BY <1>1 DEF Ground
      <4> QED BY <4>1, Geometry DEF Classes
    <3>2. free[c] = s[c][d[c]] BY <1>3, <3>1 DEF Linked
    <3> QED BY <1>1, <1>3, <3>1, <3>2, HeadIs
  <2> QED BY <2>1, RangeIn
<1>10. Range(large) \subseteq Lens \cup {0} /\ Range(large_free) \subseteq 0..(Len(large) - 1)
  <2>1. large \in Seq(Nat) /\ large_free \in Seq(Nat) BY <1>1 DEF Rows
  <2>2. DOMAIN large = 1..Len(large) /\ DOMAIN large_free = 1..Len(large_free) BY <2>1
  <2>3. \A i \in DOMAIN large : large[i] \in Lens \cup {0} BY <1>1, <2>2 DEF Rows
  <2>4. ASSUME NEW i \in DOMAIN large_free PROVE large_free[i] \in 0..(Len(large) - 1)
    <3>1. large_free[i] \in Nat /\ Len(large) \in Nat BY <2>1, <2>2
    <3>2. large_free[i] < Len(large) BY <1>1, <2>2 DEF Rows
    <3> QED BY <3>1, <3>2
  <2> QED BY <2>3, <2>4, RangeIn
<1>11. {live, dead, large_live, segment_bytes} \subseteq Nat BY <1>1, <1>3, TallyIs
<1>12. Range(held) \subseteq [at : 0..NONE, len : Lens] \cup {NoBlock} BY <1>1, RangeIn DEF Ground
<1> QED BY <1>4, <1>5, <1>6, <1>7, <1>8, <1>9, <1>10, <1>11, <1>12 DEF TypeOK

\* Live blocks apart, from the invariant.
LEMMA InvDisjoint == IInv => LiveDisjoint
<1> SUFFICES ASSUME IInv, NEW o \in Holding, NEW p \in Holding, o # p
             PROVE  IF {o, p} \subseteq SmallHolding
                    THEN Block(held[o].at, held[o].len) \cap Block(held[p].at, held[p].len) = {}
                    ELSE held[o].at # held[p].at
  BY DEF LiveDisjoint
<1>1. Ground /\ Lives /\ Rows BY DEF IInv
<1>2. CASE o \in SmallHolding /\ p \in SmallHolding
  <2>1. Apart(held[o].at, Words(held[o].len), held[p].at, Words(held[p].len)) BY <1>1, <1>2 DEF Lives
  <2>2. /\ held[o].at \in Nat /\ Words(held[o].len) \in Nat
        /\ held[p].at \in Nat /\ Words(held[p].len) \in Nat
    BY <1>1, <1>2, HeldAt
  <2>3. \A w : ~(w \in Piece(held[o].at, Words(held[o].len)) /\ w \in Piece(held[p].at, Words(held[p].len)))
    BY <2>1, <2>2, ApartIs
  <2>4. Block(held[o].at, held[o].len) \cap Block(held[p].at, held[p].len) = {} BY <2>3 DEF Block, Piece
  <2> QED BY <1>2, <2>4
<1>3. CASE o \in LargeHolding /\ p \in LargeHolding
  <2>1. o \notin SmallHolding BY <1>3 DEF LargeHolding
  <2>2. held[o].at # held[p].at BY <1>1, <1>3 DEF Rows
  <2> QED BY <2>1, <2>2
<1>4. \A x \in SmallHolding : held[x].at \in Nat /\ held[x].at < LARGE
  <2>1. \A x \in SmallHolding : held[x].at \in Nat /\ held[x].at \in DOMAIN word BY <1>1, HeldAt
  <2> QED BY <1>1, <2>1, Places
<1>5. \A x \in LargeHolding : held[x].at \in Nat /\ held[x].at >= LARGE /\ x \notin SmallHolding
  <2> SUFFICES ASSUME NEW x \in LargeHolding
               PROVE held[x].at \in Nat /\ held[x].at >= LARGE /\ x \notin SmallHolding
    OBVIOUS
  <2>1. held[x].at - LARGE \in 0..(Len(large) - 1) /\ Len(large) \in Nat BY <1>1 DEF Rows
  <2>2. held[x].at - LARGE >= 0 BY <2>1
  <2>3. held[x].at \in Nat BY <1>1, HeldIs
  <2> QED BY <2>2, <2>3, Geometry DEF LargeHolding
<1>6. CASE (o \in SmallHolding /\ p \in LargeHolding) \/ (o \in LargeHolding /\ p \in SmallHolding)
  <2>1. held[o].at # held[p].at BY <1>4, <1>5, <1>6, Geometry
  <2> QED BY <1>5, <1>6, <2>1
<1> QED BY <1>1, <1>2, <1>3, <1>6, HeldIs

\* Blocks read back, from the invariant.
LEMMA InvReads == IInv => ReadsBack
BY DEF IInv, Lives, Rows, ReadsBack, Block, Piece

\* Every reference, list head and total has its type, for any owners, lengths and
\* geometry, as long as no segment is refused with room left uncut.
THEOREM TypeCorrect == Spec /\ WholeRefusals => []TypeOK
BY Invariance, InvTyped, PTL

\* alloc never hands out a block that overlaps a live one, in the slab or in the
\* oversized table, as long as no segment is refused with room left uncut; after
\* such a refusal it does (run MCArenaTail).
THEOREM Disjoint == Spec /\ WholeRefusals => []LiveDisjoint
BY Invariance, InvDisjoint, PTL

\* What an owner wrote in its block stays there until it gives the block back, as
\* long as no segment is refused with room left uncut.
THEOREM Kept == Spec /\ WholeRefusals => []ReadsBack
BY Invariance, InvReads, PTL

-----------------------------------------------------------------------------
(* Walking the lists. *)

\* The n-th reference met from the head of class c, by the stacks.
Met(d, s, c, n) == IF n <= d[c] THEN s[c][d[c] - n] ELSE NONE

\* What is met next is what memory has at what was met, and the walk rests at NONE.
LEMMA MetIs ==
  ASSUME Ground, NEW d \in [Classes -> Nat], NEW s \in [Classes -> [Nat -> Nat]], Linked(d, s),
         NEW c \in Classes, c \in DOMAIN free
  PROVE  /\ Met(d, s, c, 0) = free[c]
         /\ \A n \in Nat : n > 0 =>
              Met(d, s, c, n) = IF Met(d, s, c, n - 1) \in DOMAIN word
                                THEN word[Met(d, s, c, n - 1)] ELSE Met(d, s, c, n - 1)
<1>1. d[c] \in Nat BY DEF Classes
<1>2. Met(d, s, c, 0) = free[c]
  <2>1. 0 <= d[c] /\ d[c] - 0 = d[c] BY <1>1
  <2> QED BY <2>1 DEF Met, Linked
<1>3. NONE \notin DOMAIN word
  <2>1. \A w \in DOMAIN word : w \in Nat /\ w < LARGE BY Places
  <2> QED BY <2>1, Geometry
<1>4. ASSUME NEW n \in Nat, n > 0
      PROVE  Met(d, s, c, n) = IF Met(d, s, c, n - 1) \in DOMAIN word
                               THEN word[Met(d, s, c, n - 1)] ELSE Met(d, s, c, n - 1)
  <2>1. CASE n <= d[c]
    <3>1. PICK i \in Nat : i = d[c] - (n - 1) BY <1>1, <1>4, <2>1
    <3>2. i \in 1..d[c] /\ d[c] - n = i - 1 /\ n - 1 <= d[c] BY <1>1, <1>4, <2>1, <3>1
    <3>3. Met(d, s, c, n - 1) = s[c][i] BY <3>1, <3>2 DEF Met
    <3>4. Met(d, s, c, n) = s[c][i - 1] BY <2>1, <3>2 DEF Met
    <3>5. s[c][i] \in DOMAIN word BY <3>2, StackedIs
    <3>6. word[s[c][i]] = s[c][i - 1] BY <3>2 DEF Linked
    <3> QED BY <3>3, <3>4, <3>5, <3>6
  <2>2. CASE n = d[c] + 1
    <3>1. Met(d, s, c, n) = NONE BY <1>1, <2>2 DEF Met
    <3>2. n - 1 <= d[c] /\ d[c] - (n - 1) = 0 BY <1>1, <2>2
    <3>3. Met(d, s, c, n - 1) = NONE BY <3>2 DEF Met, Linked
    <3> QED BY <1>3, <3>1, <3>3
  <2>3. CASE n > d[c] + 1
    <3>1. ~(n <= d[c]) /\ ~(n - 1 <= d[c]) BY <1>1, <1>4, <2>3
    <3>2. Met(d, s, c, n) = NONE /\ Met(d, s, c, n - 1) = NONE BY <3>1 DEF Met
    <3> QED BY <1>3, <3>2
  <2> QED BY <1>1, <2>1, <2>2, <2>3
<1> QED BY <1>2, <1>4

\* What Walk is: the one function that starts at the head and follows the links.
Follows(g, c, m) ==
  g = [n \in 0..m |-> IF n = 0 THEN free[c]
                      ELSE IF g[n - 1] \in DOMAIN word THEN word[g[n - 1]] ELSE g[n - 1]]

\* Walking from a head meets its stack, from the top down, then NONE.
LEMMA WalkIs ==
  ASSUME Ground, NEW d \in [Classes -> Nat], NEW s \in [Classes -> [Nat -> Nat]], Linked(d, s),
         NEW c \in Classes, c \in DOMAIN free
  PROVE  Walk(c) = [n \in 0..Cardinality(DOMAIN word) |-> Met(d, s, c, n)]
<1>1. PICK m \in Nat : m = Cardinality(DOMAIN word) BY FS_CardinalityType DEF Ground
<1> DEFINE g == [n \in 0..m |-> Met(d, s, c, n)]
<1>2. Follows(g, c, m)
  <2> DEFINE h == [n \in 0..m |-> IF n = 0 THEN free[c]
                      ELSE IF g[n - 1] \in DOMAIN word THEN word[g[n - 1]] ELSE g[n - 1]]
  <2>1. ASSUME NEW n \in 0..m PROVE g[n] = h[n]
    <3>1. CASE n = 0 BY <3>1, MetIs
    <3>2. CASE n # 0
      <4>1. n \in Nat /\ n > 0 /\ n - 1 \in 0..m BY <1>1, <3>2
      <4>2. g[n - 1] = Met(d, s, c, n - 1) /\ g[n] = Met(d, s, c, n) BY <4>1
      <4> HIDE DEF g
      <4>3. h[n] = IF g[n - 1] \in DOMAIN word THEN word[g[n - 1]] ELSE g[n - 1] BY <3>2
      <4> HIDE DEF h
      <4>4. Met(d, s, c, n) = IF Met(d, s, c, n - 1) \in DOMAIN word
                              THEN word[Met(d, s, c, n - 1)] ELSE Met(d, s, c, n - 1)
        BY <4>1, MetIs
      <4> QED BY <4>2, <4>3, <4>4
    <3> QED BY <3>1, <3>2
  <2>2. g = h BY <2>1
  <2> QED BY <2>2 DEF Follows
<1>3. Walk(c) = CHOOSE f : Follows(f, c, m) BY <1>1 DEF Walk, Follows
<1> HIDE DEF g
<1>4. Follows(Walk(c), c, m) BY <1>2, <1>3
<1>5. PICK f : f = Walk(c) OBVIOUS
<1>6. Follows(f, c, m) BY <1>4, <1>5
<1>7. DOMAIN f = 0..m /\ DOMAIN g = 0..m /\ f = [n \in 0..m |-> f[n]] BY <1>6 DEF Follows, g
<1>8. \A n \in 0..m : f[n] = g[n]
  <2> DEFINE T == {n \in 0..m : f[n] # g[n]}
  <2> SUFFICES ASSUME T # {} PROVE FALSE OBVIOUS
  <2>1. PICK n \in T : \A j \in T : n <= j
    <3>1. T \subseteq Nat BY <1>1
    <3> HIDE DEF T
    <3> QED BY <3>1, Smallest
  <2>2. n \in 0..m /\ f[n] # g[n] BY <2>1
  <2>3. CASE n = 0
    <3>1. f[0] = free[c] /\ g[0] = free[c] BY <1>2, <1>6, <2>2, <2>3 DEF Follows
    <3> QED BY <2>2, <2>3, <3>1
  <2>4. CASE n # 0
    <3>1. n - 1 \in 0..m /\ n - 1 \in Nat /\ n \in Nat BY <1>1, <2>2, <2>4
    <3>2. f[n - 1] = g[n - 1]
      <4>1. n - 1 \in T => n <= n - 1 BY <2>1
      <4>2. ~(n <= n - 1) BY <3>1
      <4> QED BY <3>1, <4>1, <4>2
    <3>3. f[n] = IF f[n - 1] \in DOMAIN word THEN word[f[n - 1]] ELSE f[n - 1]
      BY <1>6, <2>2, <2>4 DEF Follows
    <3>4. g[n] = IF g[n - 1] \in DOMAIN word THEN word[g[n - 1]] ELSE g[n - 1]
      BY <1>2, <2>2, <2>4 DEF Follows
    <3> QED BY <2>2, <3>2, <3>3, <3>4
  <2> QED BY <2>3, <2>4
<1>9. f = g BY <1>7, <1>8 DEF g
<1> QED BY <1>1, <1>5, <1>9 DEF g

\* A stack is no higher than there are words.
LEMMA StackFits ==
  ASSUME Ground, NEW d \in [Classes -> Nat], NEW s \in [Classes -> [Nat -> Nat]],
         Linked(d, s), Separate(d, s), NEW c \in Classes
  PROVE  d[c] \in Nat /\ Cardinality(DOMAIN word) \in Nat /\ d[c] <= Cardinality(DOMAIN word)
<1>1. IsFiniteSet(DOMAIN word) BY DEF Ground
<1>2. PICK h \in Nat : h = d[c] BY DEF Classes
<1> DEFINE g == [i \in 1..h |-> s[c][i]]
<1>3. g \in [1..h -> DOMAIN word] BY <1>2, StackedIs
<1>4. ASSUME NEW i \in 1..h, NEW j \in 1..h, g[i] = g[j] PROVE i = j
  <2>1. SUFFICES ASSUME i # j PROVE FALSE OBVIOUS
  <2>2. s[c][i] = s[c][j] BY <1>4
  <2>3. Apart(s[c][i], Size(c), s[c][j], Size(c)) BY <1>2, <2>1 DEF Separate
  <2>4. PICK a \in Nat, n \in Nat : a = s[c][i] /\ n = Size(c) /\ n > 0 BY <1>2, StackedIs, SizeIs
  <2>5. Apart(a, n, a, n) BY <2>2, <2>3, <2>4
  <2> QED BY <2>4, <2>5 DEF Apart
<1>5. g \in Injection(1..h, DOMAIN word) BY <1>3, <1>4 DEF Injection, IsInjective
<1> HIDE DEF g
<1>6. Cardinality(1..h) <= Cardinality(DOMAIN word) BY <1>1, <1>5, FS_Injection
<1>7. Cardinality(1..h) = h BY <1>2, FS_Interval
<1> QED BY <1>1, <1>2, <1>6, <1>7, FS_CardinalityType

\* A class whose list has a head is a class.
LEMMA HeadClass ==
  ASSUME Ground, NEW c \in DOMAIN free
  PROVE  c \in Classes
<1>1. PICK n \in 0..CLASSES : DOMAIN free = 0..(n - 1) BY DEF Ground
<1> QED BY <1>1, Geometry DEF Classes

\* The blocks listed are the blocks stacked.
LEMMA ListedIs ==
  ASSUME Ground, NEW d \in [Classes -> Nat], NEW s \in [Classes -> [Nat -> Nat]],
         Linked(d, s), Separate(d, s), NEW c \in DOMAIN free
  PROVE  \A a : a \in Listed(c) <=> \E i \in 1..d[c] : a = s[c][i]
<1>1. c \in Classes BY HeadClass
<1>2. PICK h \in Nat, m \in Nat : h = d[c] /\ m = Cardinality(DOMAIN word) /\ h <= m BY <1>1, StackFits
<1>3. Walk(c) = [n \in 0..m |-> Met(d, s, c, n)] BY <1>1, <1>2, WalkIs
<1>4. ASSUME NEW a, a \in Listed(c) PROVE \E i \in 1..d[c] : a = s[c][i]
  <2>1. a # NONE /\ \E n \in 0..m : a = Met(d, s, c, n) BY <1>3, <1>4 DEF Listed, Range
  <2>2. PICK n \in 0..m : a = Met(d, s, c, n) BY <2>1
  <2>3. n <= d[c] /\ a = s[c][d[c] - n] BY <2>1, <2>2 DEF Met
  <2>4. PICK i \in Nat : i = d[c] - n BY <1>2, <2>2, <2>3
  <2>5. i # 0
    <3>1. s[c][0] = NONE BY <1>1 DEF Linked
    <3> QED BY <2>1, <2>3, <2>4, <3>1
  <2>6. i \in 1..d[c] BY <1>2, <2>2, <2>4, <2>5
  <2> QED BY <2>3, <2>4, <2>6
<1>5. ASSUME NEW i \in 1..d[c] PROVE s[c][i] \in Listed(c)
  <2>1. s[c][i] # NONE BY <1>1, StackedIs
  <2>2. PICK n \in Nat : n = d[c] - i BY <1>2
  <2>3. n \in 0..m /\ n <= d[c] /\ d[c] - n = i BY <1>2, <2>2
  <2>4. Met(d, s, c, n) = s[c][i] BY <2>3 DEF Met
  <2> QED BY <1>3, <2>1, <2>3, <2>4 DEF Listed, Range
<1> QED BY <1>4, <1>5

\* The lists end, from the invariant.
LEMMA InvEnds == IInv => ListsEnd
<1> SUFFICES ASSUME IInv, NEW c \in DOMAIN free PROVE Walk(c)[Cardinality(DOMAIN word)] = NONE
  BY DEF ListsEnd
<1>1. Ground BY DEF IInv
<1>2. PICK d \in [Classes -> Nat], s \in [Classes -> [Nat -> Nat]] : Linked(d, s) /\ Separate(d, s)
  BY DEF IInv, Spelled
<1>3. c \in Classes BY <1>1, HeadClass
<1>4. PICK h \in Nat, m \in Nat : h = d[c] /\ m = Cardinality(DOMAIN word) /\ h <= m
  BY <1>1, <1>2, <1>3, StackFits
<1>7. Walk(c) = [n \in 0..m |-> Met(d, s, c, n)] BY <1>1, <1>2, <1>3, <1>4, WalkIs
<1>5. Walk(c)[m] = Met(d, s, c, m)
  <2>1. m \in 0..m BY <1>4
  <2> QED BY <1>7, <2>1
<1>6. Met(d, s, c, m) = NONE
  <2>1. CASE m <= d[c]
    <3>1. d[c] - m = 0 BY <1>4, <2>1
    <3> QED BY <1>2, <1>3, <2>1, <3>1 DEF Met, Linked
  <2>2. CASE ~(m <= d[c]) BY <2>2 DEF Met
  <2> QED BY <2>1, <2>2
<1> QED BY <1>4, <1>5, <1>6

\* Words are in one block each, from the invariant.
LEMMA InvOnce == IInv => EveryWordOnce
<1> SUFFICES ASSUME IInv PROVE EveryWordOnce OBVIOUS
<1>1. Ground /\ Lives BY DEF IInv
<1>2. PICK d \in [Classes -> Nat], s \in [Classes -> [Nat -> Nat]] : Spelled(d, s) BY DEF IInv
<1>3. Linked(d, s) /\ Separate(d, s) /\ Covered(d, s) BY <1>2 DEF Spelled
<1> DEFINE taken == {<<o, Block(held[o].at, held[o].len)>> : o \in SmallHolding}
           listed == UNION {{<<c, at..(at + c)>> : at \in Listed(c)} : c \in DOMAIN free}
           uncut == {<<NoBlock, make(seg, off)..(make(seg, off) + Room - 1)>>}
<1>4. ASSUME NEW b PROVE b \in taken <=> \E o \in SmallHolding : b = <<o, Piece(held[o].at, Words(held[o].len))>>
  BY DEF Block, Piece
<1>5. ASSUME NEW b
      PROVE  b \in listed <=> \E c \in Classes : \E i \in 1..d[c] : b = <<c, Piece(s[c][i], Size(c))>>
  <2>1. \A c \in Classes : \A i \in 1..d[c] : s[c][i] .. (s[c][i] + c) = Piece(s[c][i], Size(c))
    <3> SUFFICES ASSUME NEW c \in Classes, NEW i \in 1..d[c]
                 PROVE  s[c][i] .. (s[c][i] + c) = Piece(s[c][i], Size(c))
      OBVIOUS
    <3>1. PICK a \in Nat : a = s[c][i] BY <1>1, <1>3, StackedIs
    <3>2. PICK n \in Nat : n = c /\ Size(c) = n + 1 BY SizeIs
    <3>3. a + n = a + (n + 1) - 1 BY <3>1, <3>2
    <3> QED BY <3>1, <3>2, <3>3 DEF Piece
  <2>2. \A c \in Classes : c \notin DOMAIN free => \A i : ~(i \in 1..d[c]) BY <1>3 DEF Linked
  <2>3. ASSUME b \in listed PROVE \E c \in Classes : \E i \in 1..d[c] : b = <<c, Piece(s[c][i], Size(c))>>
    <3>1. PICK c \in DOMAIN free : \E at \in Listed(c) : b = <<c, at..(at + c)>> BY <2>3
    <3>2. PICK at \in Listed(c) : b = <<c, at..(at + c)>> BY <3>1
    <3>3. c \in Classes BY <1>1, HeadClass
    <3>5. \A a : a \in Listed(c) <=> \E i \in 1..d[c] : a = s[c][i] BY <1>1, <1>3, ListedIs
    <3>4. PICK i \in 1..d[c] : at = s[c][i] BY <3>5
    <3> QED BY <2>1, <3>2, <3>3, <3>4
  <2>4. ASSUME NEW c \in Classes, NEW i \in 1..d[c], b = <<c, Piece(s[c][i], Size(c))>> PROVE b \in listed
    <3>1. c \in DOMAIN free BY <2>2
    <3>2. s[c][i] \in Listed(c) BY <1>1, <1>3, <3>1, ListedIs
    <3>3. b = <<c, s[c][i] .. (s[c][i] + c)>> BY <2>1, <2>4
    <3>4. b \in {<<c, at..(at + c)>> : at \in Listed(c)} BY <3>2, <3>3
    <3> QED BY <3>1, <3>4
  <2> QED BY <2>3, <2>4
<1>6. ASSUME NEW b PROVE b \in uncut <=> b = <<NoBlock, Piece(Frontier, Room)>> BY DEF Piece, Frontier
<1> DEFINE K == taken \cup listed \cup uncut
<1>7. SUFFICES ASSUME NEW w \in DOMAIN word PROVE Cardinality({b \in K : w \in b[2]}) = 1
  BY DEF EveryWordOnce
<1> HIDE DEF taken, listed, uncut
<1>8. PICK f \in Nat, r \in Nat : f = Frontier /\ r = Room BY <1>1, Places
<1>9. w \in Nat /\ w < f + r BY <1>1, <1>8, Places
<1>10. w \in LiveWords <=> \E o \in SmallHolding : w \in Piece(held[o].at, Words(held[o].len))
  BY DEF LiveWords
<1>11. w \in FreeWords(d, s) <=> \E c \in Classes : \E i \in 1..d[c] : w \in Piece(s[c][i], Size(c))
  BY DEF FreeWords
<1>12. ~(w \in LiveWords /\ w \in FreeWords(d, s)) BY <1>1, <1>3, FreeNotLive
<1>13. w \in Piece(f, r) <=> ~(w < f) BY <1>8, <1>9 DEF Piece
<1>14. w \in LiveWords => w < f
  <2> SUFFICES ASSUME w \in LiveWords PROVE w < f OBVIOUS
  <2>1. PICK o \in SmallHolding : w \in Piece(held[o].at, Words(held[o].len)) BY <1>10
  <2>2. PICK a \in Nat, n \in Nat : a = held[o].at /\ n = Words(held[o].len) /\ Lodged(a, n) BY <1>1, HeldAt
  <2>3. w < a + n /\ a + n <= f BY <1>8, <2>1, <2>2, CountPiece DEF Lodged
  <2> QED BY <1>8, <1>9, <2>2, <2>3
<1>15. w \in FreeWords(d, s) => w < f
  <2> SUFFICES ASSUME w \in FreeWords(d, s) PROVE w < f OBVIOUS
  <2>1. PICK c \in Classes : \E i \in 1..d[c] : w \in Piece(s[c][i], Size(c)) BY <1>11
  <2>2. PICK i \in 1..d[c] : w \in Piece(s[c][i], Size(c)) BY <2>1
  <2>3. PICK a \in Nat, n \in Nat : a = s[c][i] /\ n = Size(c) /\ Lodged(a, n)
    BY <1>1, <1>3, StackedIs, SizeIs
  <2>4. w < a + n /\ a + n <= f BY <1>8, <2>2, <2>3, CountPiece DEF Lodged
  <2> QED BY <1>8, <1>9, <2>3, <2>4
<1>16. ASSUME NEW o \in SmallHolding, NEW p \in SmallHolding,
              w \in Piece(held[o].at, Words(held[o].len)), w \in Piece(held[p].at, Words(held[p].len))
       PROVE  o = p
  <2> SUFFICES ASSUME o # p PROVE FALSE OBVIOUS
  <2>1. Apart(held[o].at, Words(held[o].len), held[p].at, Words(held[p].len)) BY <1>1 DEF Lives
  <2> QED BY <1>1, <1>16, <2>1, HeldAt, ApartIs
<1>17. ASSUME NEW c \in Classes, NEW e \in Classes, NEW i \in 1..d[c], NEW j \in 1..d[e],
              w \in Piece(s[c][i], Size(c)), w \in Piece(s[e][j], Size(e))
       PROVE  c = e /\ i = j
  <2> SUFFICES ASSUME c # e \/ i # j PROVE FALSE OBVIOUS
  <2>1. Apart(s[c][i], Size(c), s[e][j], Size(e)) BY <1>3 DEF Separate
  <2>2. s[c][i] \in Nat /\ Size(c) \in Nat /\ s[e][j] \in Nat /\ Size(e) \in Nat BY <1>1, <1>3, StackedIs, SizeIs
  <2> QED BY <1>17, <2>1, <2>2, ApartIs
<1>18. w \in LiveWords \/ w \in FreeWords(d, s) \/ w \in Piece(f, r) BY <1>3, <1>8, <1>13 DEF Covered
<1>20. ASSUME NEW b \in K, w \in b[2], \A x \in K : w \in x[2] => x = b
       PROVE  \E y : {x \in K : w \in x[2]} = {y}
  <2> HIDE DEF K
  <2>1. {x \in K : w \in x[2]} = {b} BY <1>20
  <2> QED BY <2>1
<1>19. \E b : {x \in K : w \in x[2]} = {b}
  <2>1. CASE w \in LiveWords
    <3>1. PICK o \in SmallHolding : w \in Piece(held[o].at, Words(held[o].len)) BY <1>10, <2>1
    <3>2. PICK b : b = <<o, Piece(held[o].at, Words(held[o].len))>> OBVIOUS
    <3>3. b \in K /\ w \in b[2] BY <1>4, <3>1, <3>2
    <3>4. ASSUME NEW x \in K, w \in x[2] PROVE x = b
      <4>1. x \in taken BY <1>5, <1>6, <1>8, <1>11, <1>12, <1>13, <1>14, <2>1, <3>4
      <4> QED BY <1>4, <1>16, <3>1, <3>2, <3>4, <4>1
    <3> QED BY <3>3, <3>4, <1>20
  <2>2. CASE w \in FreeWords(d, s)
    <3>1. PICK c \in Classes : \E i \in 1..d[c] : w \in Piece(s[c][i], Size(c)) BY <1>11, <2>2
    <3>2. PICK i \in 1..d[c] : w \in Piece(s[c][i], Size(c)) BY <3>1
    <3>3. PICK b : b = <<c, Piece(s[c][i], Size(c))>> OBVIOUS
    <3>4. b \in K /\ w \in b[2] BY <1>5, <3>2, <3>3
    <3>5. ASSUME NEW x \in K, w \in x[2] PROVE x = b
      <4>1. x \in listed BY <1>4, <1>6, <1>8, <1>10, <1>12, <1>13, <1>15, <2>2, <3>5
      <4>3. PICK e \in Classes : \E j \in 1..d[e] : x = <<e, Piece(s[e][j], Size(e))>> BY <1>5, <4>1
      <4>2. PICK j \in 1..d[e] : x = <<e, Piece(s[e][j], Size(e))>> BY <4>3
      <4> QED BY <1>17, <3>2, <3>3, <3>5, <4>2
    <3> QED BY <3>4, <3>5, <1>20
  <2>3. CASE w \in Piece(f, r)
    <3>1. PICK b : b = <<NoBlock, Piece(f, r)>> OBVIOUS
    <3>2. b \in K /\ w \in b[2] BY <1>6, <1>8, <2>3, <3>1
    <3>3. ASSUME NEW x \in K, w \in x[2] PROVE x = b
      <4>1. w \notin LiveWords /\ w \notin FreeWords(d, s) BY <1>13, <1>14, <1>15, <2>3
      <4>2. x \in uncut BY <1>4, <1>5, <1>10, <1>11, <3>3, <4>1
      <4> QED BY <1>6, <1>8, <3>1, <4>2
    <3> QED BY <3>2, <3>3, <1>20
  <2> QED BY <1>18, <2>1, <2>2, <2>3
<1> QED BY <1>19, FS_Singleton

\* Every word of every segment is in one live block, one free block of one list, or
\* the room not cut yet, and in one only: nothing leaks or is in two places, as long
\* as no segment is refused with room left uncut (the word listed and cut again is
\* then in two).
THEOREM WordsOnce == Spec /\ WholeRefusals => []EveryWordOnce
BY Invariance, InvOnce, PTL

\* Following the links from a list head comes to NONE within the words there are,
\* so alloc's pop always finds the next head, as long as no segment is refused with
\* room left uncut.
THEOREM ListsFinite == Spec /\ WholeRefusals => []ListsEnd
BY Invariance, InvEnds, PTL

\* The totals count what they stand for, from the invariant.
LEMMA InvTotals == IInv => Accounted
<1> SUFFICES ASSUME IInv PROVE Accounted OBVIOUS
<1>1. Ground /\ Lives /\ Rows BY DEF IInv
<1>2. PICK d \in [Classes -> Nat], s \in [Classes -> [Nat -> Nat]] : Spelled(d, s) BY DEF IInv
<1>3. Linked(d, s) /\ Separate(d, s) /\ Tallied(d, s) BY <1>2 DEF Spelled
<1> DEFINE taken == UNION {Block(held[o].at, held[o].len) : o \in SmallHolding}
           bulky == UNION {{o} \X (1..held[o].len) : o \in LargeHolding}
           rows == UNION {{r} \X (1..large[r]) : r \in DOMAIN large}
           lost == {b \in rows : b[1] = LARGE /\ \A o \in LargeHolding : held[o].at # NONE}
           listed == UNION {UNION {at..(at + c) : at \in Listed(c)} : c \in DOMAIN free}
<1>4. taken = LiveWords
  <2>1. ASSUME NEW w PROVE w \in taken <=> \E o \in SmallHolding : w \in Piece(held[o].at, Words(held[o].len))
    BY DEF Block, Piece
  <2>2. \A o \in SmallHolding : Piece(held[o].at, Words(held[o].len)) \subseteq DOMAIN word
    BY <1>1 DEF Lives, Lodged
  <2> HIDE DEF taken
  <2> QED BY <2>1, <2>2 DEF LiveWords
<1>5. listed = FreeWords(d, s)
  <2>1. \A c \in Classes : \A i \in 1..d[c] : s[c][i] .. (s[c][i] + c) = Piece(s[c][i], Size(c))
    <3> SUFFICES ASSUME NEW c \in Classes, NEW i \in 1..d[c]
                 PROVE  s[c][i] .. (s[c][i] + c) = Piece(s[c][i], Size(c))
      OBVIOUS
    <3>1. PICK a \in Nat : a = s[c][i] BY <1>1, <1>3, StackedIs
    <3>2. PICK n \in Nat : n = c /\ Size(c) = n + 1 BY SizeIs
    <3>3. a + n = a + (n + 1) - 1 BY <3>1, <3>2
    <3> QED BY <3>1, <3>2, <3>3 DEF Piece
  <2>2. \A c \in Classes : c \notin DOMAIN free => \A i : ~(i \in 1..d[c]) BY <1>3 DEF Linked
  <2>3. \A c \in Classes : \A i \in 1..d[c] : Piece(s[c][i], Size(c)) \subseteq DOMAIN word
    BY <1>3 DEF Linked, Lodged
  <2>4. ASSUME NEW w, w \in listed PROVE w \in FreeWords(d, s)
    <3>1. PICK c \in DOMAIN free : \E at \in Listed(c) : w \in at..(at + c) BY <2>4
    <3>2. PICK at \in Listed(c) : w \in at..(at + c) BY <3>1
    <3>3. c \in Classes BY <1>1, HeadClass
    <3>4. \A a : a \in Listed(c) <=> \E i \in 1..d[c] : a = s[c][i] BY <1>1, <1>3, ListedIs
    <3>5. PICK i \in 1..d[c] : at = s[c][i] BY <3>4
    <3>6. w \in Piece(s[c][i], Size(c)) BY <2>1, <3>2, <3>3, <3>5
    <3> QED BY <2>3, <3>3, <3>6 DEF FreeWords
  <2>5. ASSUME NEW w, w \in FreeWords(d, s) PROVE w \in listed
    <3>1. PICK c \in Classes : \E i \in 1..d[c] : w \in Piece(s[c][i], Size(c)) BY <2>5 DEF FreeWords
    <3>2. PICK i \in 1..d[c] : w \in Piece(s[c][i], Size(c)) BY <3>1
    <3>3. c \in DOMAIN free BY <2>2
    <3>4. s[c][i] \in Listed(c) BY <1>1, <1>3, <3>3, ListedIs
    <3>5. w \in s[c][i] .. (s[c][i] + c) BY <2>1, <3>2
    <3>6. w \in UNION {at..(at + c) : at \in Listed(c)} BY <3>4, <3>5
    <3> QED BY <3>3, <3>6
  <2> QED BY <2>4, <2>5
<1>6. PICK l \in Nat : l = Len(large) /\ DOMAIN large = 1..l BY <1>1 DEF Rows
<1>7. rows = RowBytes
  <2>1. ASSUME NEW u PROVE u \in rows <=> \E x \in 1..l : \E y \in 1..large[x] : u = <<x, y>> BY <1>6
  <2>2. ASSUME NEW u PROVE u \in RowBytes <=> \E x \in 1..l : \E y \in 1..large[x] : u = <<x, y>>
    <3>1. u \in RowBytes <=> \E x \in 1..l, y \in Nat : u = <<x, y>> /\ y \in 1..large[x]
      BY <1>6 DEF RowBytes
    <3>2. \A x \in 1..l : \A y \in 1..large[x] : y \in Nat OBVIOUS
    <3> QED BY <3>1, <3>2
  <2> HIDE DEF rows
  <2> QED BY <2>1, <2>2
<1> DEFINE kept == RowBytes \ lost
<1>8. Cardinality(bulky) = Cardinality(kept)
  <2>1. \A p \in LargeHolding : /\ held[p].at \in Nat
                                /\ held[p].at - LARGE + 1 \in 1..l /\ large[held[p].at - LARGE + 1] = held[p].len
    <3> SUFFICES ASSUME NEW p \in LargeHolding
                 PROVE  /\ held[p].at \in Nat /\ held[p].at - LARGE + 1 \in 1..l
                        /\ large[held[p].at - LARGE + 1] = held[p].len
      OBVIOUS
    <3>1. held[p].at - LARGE \in 0..(l - 1) /\ large[held[p].at - LARGE + 1] = held[p].len
      BY <1>1, <1>6 DEF Rows
    <3>2. held[p].at \in Nat BY <1>1, HeldIs DEF LargeHolding
    <3> QED BY <1>6, <3>1, <3>2, Geometry
  <2> DEFINE f == [u \in bulky |-> <<held[u[1]].at - LARGE + 1, u[2]>>]
  <2>2. ASSUME NEW u PROVE u \in bulky <=> \E p \in LargeHolding : \E y \in 1..held[p].len : u = <<p, y>>
    OBVIOUS
  <2>3. ASSUME NEW v PROVE v \in RowBytes <=> \E x \in 1..l : \E y \in 1..large[x] : v = <<x, y>>
    <3>1. v \in rows <=> \E x \in 1..l : \E y \in 1..large[x] : v = <<x, y>> BY <1>6
    <3> HIDE DEF rows
    <3> QED BY <1>7, <3>1
  <2>11. ASSUME NEW v \in RowBytes
         PROVE  v \in kept <=> v[1] # LARGE \/ \E o \in LargeHolding : held[o].at = NONE
    <3> HIDE DEF rows
    <3> QED BY <1>7
  <2> HIDE DEF bulky, rows, kept
  <2>4. ASSUME NEW u \in bulky PROVE f[u] \in kept
    <3>1. PICK p \in LargeHolding : \E y \in 1..held[p].len : u = <<p, y>> BY <2>2
    <3>2. PICK y \in 1..held[p].len : u = <<p, y>> BY <3>1
    <3>3. f[u] = <<held[p].at - LARGE + 1, y>> BY <3>2
    <3>4. f[u] \in RowBytes BY <2>1, <2>3, <3>2, <3>3
    <3>7. PICK a \in Nat, g \in Nat : a = held[p].at /\ g = LARGE /\ NONE = 2 * g - 1 BY <2>1, Geometry
    <3>8. a - g + 1 = g => a = 2 * g - 1 BY ONLY a \in Nat, g \in Nat
    <3>5. held[p].at - LARGE + 1 = LARGE => held[p].at = NONE BY ONLY <3>7, <3>8
    <3>6. f[u][1] = held[p].at - LARGE + 1 BY <3>3
    <3> QED BY <2>11, <3>4, <3>5, <3>6
  <2>5. ASSUME NEW u \in bulky, NEW v \in bulky, f[u] = f[v] PROVE u = v
    <3>1. PICK p \in LargeHolding : \E y \in 1..held[p].len : u = <<p, y>> BY <2>2
    <3>2. PICK y \in 1..held[p].len : u = <<p, y>> BY <3>1
    <3>3. PICK q \in LargeHolding : \E z \in 1..held[q].len : v = <<q, z>> BY <2>2
    <3>4. PICK z \in 1..held[q].len : v = <<q, z>> BY <3>3
    <3>5. held[p].at - LARGE + 1 = held[q].at - LARGE + 1 /\ y = z BY <2>5, <3>2, <3>4
    <3>8. PICK a \in Nat, b \in Nat, g \in Nat : a = held[p].at /\ b = held[q].at /\ g = LARGE
      BY <2>1, Geometry
    <3>9. a - g + 1 = b - g + 1 BY <3>5, <3>8
    <3>10. a = b BY ONLY a \in Nat, b \in Nat, g \in Nat, <3>9
    <3>6. held[p].at = held[q].at BY ONLY <3>8, <3>10
    <3>7. p = q BY <1>1, <3>6 DEF Rows
    <3> QED BY <3>2, <3>4, <3>5, <3>7
  <2>6. ASSUME NEW v \in kept PROVE \E u \in bulky : f[u] = v
    <3>0. v \in RowBytes BY DEF kept
    <3>1. PICK x \in 1..l : \E y \in 1..large[x] : v = <<x, y>> BY <2>3, <3>0
    <3>2. PICK y \in 1..large[x] : v = <<x, y>> BY <3>1
    <3>3. large[x] # 0 BY <3>2
    <3>4. PICK p \in LargeHolding : held[p].at - LARGE + 1 = x
      <4>1. CASE x = LARGE
        <5>1. v[1] = LARGE BY <3>2, <4>1
        <5>2. PICK o \in LargeHolding : held[o].at = NONE BY <2>11, <3>0, <5>1
        <5>3. held[o].at - LARGE + 1 = x BY <4>1, <5>2, Geometry
        <5> QED BY <5>3
      <4>2. CASE x # LARGE BY <1>1, <1>6, <3>3, <4>2 DEF Rows, Owned
      <4> QED BY <4>1, <4>2
    <3>5. y \in 1..held[p].len BY <2>1, <3>2, <3>4
    <3>6. PICK u : u = <<p, y>> OBVIOUS
    <3>7. u \in bulky BY <2>2, <3>5, <3>6
    <3>8. f[u] = <<x, y>> BY <3>4, <3>6, <3>7
    <3> QED BY <3>2, <3>7, <3>8
  <2>7. f \in Bijection(bulky, kept)
    <3>1. f \in [bulky -> kept] BY <2>4
    <3> HIDE DEF f
    <3> QED BY <2>5, <2>6, <3>1 DEF Bijection, Injection, Surjection, IsInjective
  <2>8. IsFiniteSet(kept)
    <3>1. IsFiniteSet(RowBytes) BY <1>3 DEF Tallied
    <3> QED BY <3>1, FS_Subset DEF kept
  <2>9. ExistsBijection(bulky, kept) BY <2>7 DEF ExistsBijection
  <2>10. ExistsBijection(kept, bulky) BY <2>9, Fun_ExistsBijSymmetric
  <2> QED BY <2>8, <2>10, FS_Bijection
<1>11. Cardinality(RowBytes) = Cardinality(kept) + Cardinality(lost)
  <2>1. lost \subseteq RowBytes BY <1>7
  <2>2. IsFiniteSet(RowBytes) BY <1>3 DEF Tallied
  <2>3. IsFiniteSet(lost) BY <2>1, <2>2, FS_Subset
  <2> HIDE DEF lost
  <2>4. /\ Cardinality(kept) = Cardinality(RowBytes) - Cardinality(lost)
        /\ Cardinality(RowBytes) \in Nat /\ Cardinality(lost) \in Nat
    BY <2>1, <2>2, <2>3, CountPart
  <2> HIDE DEF kept
  <2> QED BY <2>4
<1>9. /\ live = GRAIN * Cardinality(taken) + large_live
      /\ large_live = Cardinality(bulky) + Cardinality(lost) /\ large_live = Cardinality(rows)
      /\ dead = GRAIN * Cardinality(listed)
  <2> HIDE DEF taken, bulky, rows, lost, kept, listed
  <2> QED BY <1>3, <1>4, <1>5, <1>7, <1>8, <1>11 DEF Tallied
<1>10. Balanced BY <1>3 DEF Tallied, Balanced
<1> HIDE DEF taken, bulky, rows, lost, listed
<1> QED BY <1>9, <1>10 DEF Accounted, taken, bulky, rows, lost, listed

\* The totals a memory ceiling is held against are exact: live counts the words
\* and bytes owners hold and, once its owner has given it up, the row whose
\* reference is NONE; dead counts the words on the lists, and with the room not cut
\* yet they make up the segments.  As above, as long as no segment is refused with
\* room left uncut.
THEOREM Totals == Spec /\ WholeRefusals => []Accounted
BY Invariance, InvTotals, PTL
=============================================================================
