------------------------------- MODULE Entry -------------------------------
(***************************************************************************)
(* One entry as its bytes (rugo-map/src/entry.rs), through the writes      *)
(* Table::set and Table::expire make of it, and the decimal arithmetic of  *)
(* Map::increment on the bytes of its value.                               *)
(*                                                                         *)
(* A varint's byte spells one of PAYLOAD digits, 128 in the code, and says *)
(* in its top bit whether more follow; the flags byte has two flags and    *)
(* the key's length in the bits above.  A trailing word is WORD bytes,     *)
(* four in the code.  Text is made of digits, 0 to 9, a minus sign and     *)
(* other bytes.                                                            *)
(***************************************************************************)
EXTENDS Integers, Sequences, SequencesExt

CONSTANTS
  PAYLOAD, WORD,
  EntryKeys, EntryValues,     \* byte strings
  Words,         \* deadlines and user flags
  ENTRY_MAX,     \* i64::MAX
  MAX_TEXT,      \* the most bytes an i64 is spelt with
  Steps,         \* what increments add
  Missing        \* no word, no number

BYTE == 2 * PAYLOAD
SIGN == 10
HAS_EXPIRY == 1
HAS_USER_FLAGS == 2
KLEN_INLINE == PAYLOAD \div 2 - 2
MAX_VARINT == 5
MAX_HEADER == 1 + 2 * MAX_VARINT

\* The first number that takes more than n digits of a base.
VarintEnd[n \in Nat] == IF n = 0 THEN 1 ELSE PAYLOAD * VarintEnd[n - 1]
WordEnd[n \in Nat] == IF n = 0 THEN 1 ELSE BYTE * WordEnd[n - 1]

ASSUME EntryAssumption ==
  /\ PAYLOAD \in Nat /\ PAYLOAD >= 8 /\ PAYLOAD % 2 = 0
  /\ WORD \in Nat \ {0} /\ ENTRY_MAX \in Nat /\ MAX_TEXT \in Nat
  /\ Words \subseteq 0 .. WordEnd[WORD] - 1 /\ Steps \subseteq -ENTRY_MAX - 1 .. ENTRY_MAX
  /\ Missing \notin Int

\* No length takes more than five bytes: a bulk is far shorter.
ASSUME LengthAssumption ==
  /\ EntryKeys \cup EntryValues \subseteq Seq(0 .. BYTE - 1)
  /\ \A s \in EntryKeys \cup EntryValues : Len(s) < VarintEnd[MAX_VARINT]
  /\ MAX_TEXT < VarintEnd[MAX_VARINT]

VARIABLES
  bytes,         \* the entry's block, as long as size_of_entry said
  meant          \* what it was last made to hold

entryVars == <<bytes, meant>>

-----------------------------------------------------------------------------
(* Varints. *)

varint_len(value) ==
  IF value >= VarintEnd[4] THEN MAX_VARINT
  ELSE CHOOSE n \in 1 .. 4 : value < VarintEnd[n] /\ (n = 1 \/ value >= VarintEnd[n - 1])

put_varint[value \in Nat] ==
  IF value < PAYLOAD THEN <<value>>
  ELSE <<(value % PAYLOAD) + PAYLOAD>> \o put_varint[value \div PAYLOAD]

\* The value at the front of from, and how many bytes it took.
get_varint(from) ==
  LET took == SelectInSeq(from, LAMBDA byte : byte < PAYLOAD)
      last[n \in 0 .. took] ==          \* what its last n bytes spell
        IF n = 0 THEN 0 ELSE (from[took + 1 - n] % PAYLOAD) + PAYLOAD * last[n - 1]
  IN  [value |-> last[took], took |-> took]

-----------------------------------------------------------------------------
(* Writing. *)

klen_len(klen) == IF klen <= KLEN_INLINE THEN 0 ELSE varint_len(klen)

\* (mutant) a key of no length is told from a long one by nothing
packed_bare(klen) == IF klen <= KLEN_INLINE THEN klen ELSE 0

packed(klen) == IF klen <= KLEN_INLINE THEN klen + 1 ELSE 0

flags_of(klen, expiry, user_flags) ==
  (IF expiry THEN HAS_EXPIRY ELSE 0) + (IF user_flags THEN HAS_USER_FLAGS ELSE 0) + 4 * packed(klen)

size_of_entry(klen, vlen, expiry, user_flags) ==
  1 + klen_len(klen) + varint_len(vlen) + klen + vlen
    + (IF expiry THEN WORD ELSE 0) + (IF user_flags THEN WORD ELSE 0)

\* A word, low byte first.
to_le(word) ==
  LET rest[i \in 0 .. WORD] == IF i = 0 THEN word ELSE rest[i - 1] \div BYTE
  IN  IF word = Missing THEN <<>> ELSE [i \in 1 .. WORD |-> rest[i - 1] % BYTE]

write(key, value, expiry, user_flags) ==
  <<flags_of(Len(key), expiry # Missing, user_flags # Missing)>>
    \o (IF Len(key) > KLEN_INLINE THEN put_varint[Len(key)] ELSE <<>>)
    \o put_varint[Len(value)] \o key \o value \o to_le(expiry) \o to_le(user_flags)

-----------------------------------------------------------------------------
(* Reading. *)

\* The header, out of no more bytes than peek shows.
head(block) ==
  LET seen == SubSeq(block, 1, IF Len(block) < MAX_HEADER THEN Len(block) ELSE MAX_HEADER)
      klen == IF seen[1] \div 4 = 0 THEN get_varint(Tail(seen))
              ELSE [value |-> (seen[1] \div 4) - 1, took |-> 0]
      vlen == get_varint(SubSeq(seen, 2 + klen.took, Len(seen)))
  IN  [flags |-> seen[1] % 4, header |-> 1 + klen.took + vlen.took,
       klen |-> klen.value, vlen |-> vlen.value]

Timed(h) == h.flags % 2 = 1
Flagged(h) == h.flags \div 2 = 1
trailer(h) == (IF Timed(h) THEN WORD ELSE 0) + (IF Flagged(h) THEN WORD ELSE 0)
size(h) == h.header + h.klen + h.vlen + trailer(h)

word(block, at) ==
  LET last[n \in 0 .. WORD] == IF n = 0 THEN 0 ELSE block[at + WORD + 1 - n] + BYTE * last[n - 1]
  IN  last[WORD]

view(block) ==
  LET h == head(block)
      at == h.header + h.klen + h.vlen
  IN  [key |-> SubSeq(block, h.header + 1, h.header + h.klen),
       value |-> SubSeq(block, h.header + h.klen + 1, at),
       expiry |-> IF Timed(h) THEN word(block, at) ELSE Missing,
       user_flags |-> IF Flagged(h) THEN word(block, at + IF Timed(h) THEN WORD ELSE 0) ELSE Missing]

-----------------------------------------------------------------------------
(* Decimal text. *)

\* (mutant) the sum is made positive, and the most negative number does not fit
LOWEST_positive == -ENTRY_MAX

\* Where checked_sub refuses.
LOWEST == -ENTRY_MAX - 1

\* What figures spell, summed below nought, where the most negative number fits.
sum_of(figures) ==
  LET sum[i \in 0 .. Len(figures)] ==
        IF i = 0 THEN 0
        ELSE IF sum[i - 1] = Missing \/ figures[i] > 9 THEN Missing
        ELSE IF 10 * sum[i - 1] - figures[i] < LOWEST THEN Missing
        ELSE 10 * sum[i - 1] - figures[i]
  IN  sum[Len(figures)]

\* Strict: a number has one spelling.
decimal(text) ==
  LET signed == text # <<>> /\ text[1] = SIGN
      figures == IF signed THEN Tail(text) ELSE text
      value == sum_of(figures)
  IN  IF Len(text) > MAX_TEXT \/ figures = <<>> THEN Missing
      ELSE IF (figures[1] = 0 /\ (signed \/ Len(figures) > 1)) \/ value = Missing THEN Missing
      ELSE IF signed THEN value ELSE IF -value > ENTRY_MAX THEN Missing ELSE -value

unsigned[n \in Nat] == IF n < 10 THEN <<n>> ELSE Append(unsigned[n \div 10], n % 10)
digits(n) == IF n < 0 THEN <<SIGN>> \o unsigned[-n] ELSE unsigned[n]

\* The widest number there is fits.
ASSUME TextAssumption == \A n \in -ENTRY_MAX - 1 .. ENTRY_MAX : Len(digits(n)) <= MAX_TEXT

-----------------------------------------------------------------------------
(* What happens to an entry. *)

Holds(k, v, x, f) ==
  /\ bytes' = write(k, v, x, f)
  /\ meant' = [key |-> k, value |-> v, expiry |-> x, user_flags |-> f]

EntryInit ==
  \E k \in EntryKeys, v \in EntryValues, x \in Words \cup {Missing}, f \in Words \cup {Missing} :
    /\ bytes = write(k, v, x, f)
    /\ meant = [key |-> k, value |-> v, expiry |-> x, user_flags |-> f]

\* Table::set, over the same block or in a new one.
Rewrite ==
  \E v \in EntryValues, x \in Words \cup {Missing}, f \in Words \cup {Missing} : Holds(meant.key, v, x, f)

\* Table::expire: over the old word, not at all, or by writing the entry anew
\* from what its bytes say.
Retime ==
  \E x \in Words \cup {Missing}, h \in {head(bytes)}, held \in {view(bytes)} :
    LET at == h.header + h.klen + h.vlen
    IN  /\ meant' = [meant EXCEPT !.expiry = x]
        /\ bytes' = IF Timed(h) /\ x # Missing
                    THEN SubSeq(bytes, 1, at) \o to_le(x) \o SubSeq(bytes, at + WORD + 1, Len(bytes))
                    ELSE IF ~Timed(h) /\ x = Missing THEN bytes
                    ELSE write(held.key, held.value, x, held.user_flags)

\* Map::increment: the sum is written with the deadline and flags it had.
Increment ==
  \E held \in {view(bytes)} : \E current \in {decimal(held.value)} \ {Missing}, step \in Steps :
    /\ current + step \in -ENTRY_MAX - 1 .. ENTRY_MAX
    /\ bytes' = write(held.key, digits(current + step), held.expiry, held.user_flags)
    /\ meant' = [meant EXCEPT !.value = digits(current + step)]

EntryNext == Rewrite \/ Retime \/ Increment

EntrySpec == EntryInit /\ [][EntryNext]_entryVars

-----------------------------------------------------------------------------
(* Properties. *)

\* An entry's bytes say what was put in them, whatever lengths cross a varint's
\* or the flags byte's edge and however often it was retimed in place; and the
\* size the writer asked for, the size the header implies and the block agree,
\* which is all that tells the arena how much to give back.
EntryReads ==
  bytes # <<>> =>
    /\ view(bytes) = meant
    /\ Len(bytes) = size(head(bytes))
    /\ Len(bytes) = size_of_entry(Len(meant.key), Len(meant.value), meant.expiry # Missing,
                                  meant.user_flags # Missing)

\* A value counts as a number exactly when it is that number's one spelling, to
\* both ends of the range: what an increment writes an increment reads, and a
\* value it did not write ("007", "-0", one past the end) is never taken for one.
OneSpelling ==
  bytes # <<>> => \A text \in {view(bytes).value} :
    LET spelt == {n \in -ENTRY_MAX - 1 .. ENTRY_MAX : digits(n) = text}
    IN  decimal(text) = IF spelt = {} THEN Missing ELSE CHOOSE n \in spelt : TRUE
=============================================================================
