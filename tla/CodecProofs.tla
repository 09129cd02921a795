---------------------------- MODULE CodecProofs ----------------------------
(***************************************************************************)
(* Theorems about Resp, for any streams, any commands and any limits.      *)
(*                                                                         *)
(* Both walks over an array, parse's and peek's, are recursive functions   *)
(* of how many bulks they have read.  The proof goes up from lines and     *)
(* numbers to a bulk, to a walk, to a command, and then along the stream:  *)
(*   - what is parsed of some bytes is parsed of more of them (ParseGrows);*)
(*   - where peek takes a command, parse takes the same one (PeekIs);      *)
(*   - what encode writes is parsed as it was (EncodeReads), and asked for *)
(*     more of until all of it is there (EncodeWaits);                     *)
(*   - Read, the inductive invariant: the parser is at the start of a      *)
(*     command, and the look-ahead on a chain of whole commands that       *)
(*     begins there and holds every key found and not yet parsed.          *)
(***************************************************************************)
EXTENDS Resp, SequenceTheorems, WellFoundedInduction, TLAPS

\* Every nonempty set of numbers has a least one.
LEMMA Smallest ==
  ASSUME NEW T, T \subseteq Nat, T # {}
  PROVE  \E n \in T : \A m \in T : n <= m
<1>1. IsWellFoundedOn(OpToRel(<, Nat), Nat) BY NatLessThanWellFounded
<1>2. PICK n \in T : \A m \in T : ~(<<m, n>> \in OpToRel(<, Nat)) BY <1>1, WFMin
<1>3. \A m \in T : ~(m < n) BY <1>2 DEF OpToRel
<1> QED BY <1>3

\* What is known of the limits.
LEMMA Limits ==
  /\ WIRE_MAX \in Nat /\ MAX_ARGS \in Nat /\ MAX_BULK \in Nat /\ MAX_INLINE \in Nat /\ AHEAD \in Nat
  /\ WIRE_MAX > 0 /\ MAX_ARGS > 0 /\ MAX_BULK > 0 /\ MAX_INLINE > 0 /\ AHEAD > 0
  /\ MAX_ARGS <= WIRE_MAX /\ MAX_BULK <= WIRE_MAX
BY RespAssumption

-----------------------------------------------------------------------------
(* Lines. *)

Bytes == Seq(Nat)
Spans == [at : Nat, len : Nat]

\* The stream begins with buf.
Prefixed(buf, whole) == Len(buf) <= Len(whole) /\ \A i \in 1 .. Len(buf) : buf[i] = whole[i]

\* The first line end after start is at e.
EndsAt(buf, start, e) ==
  /\ e \in start + 1 .. Len(buf) /\ buf[e] = NL
  /\ \A i \in start + 1 .. e - 1 : buf[i] # NL

\* The line from start to its end at e.
LineTo(buf, start, e) ==
  [text |-> SubSeq(buf, start + 1, IF e - 1 > start /\ buf[e - 1] = CR THEN e - 2 ELSE e - 1),
   next |-> e]

\* newline finds the first line end, if there is one.
LEMMA NewlineIs ==
  ASSUME NEW from \in Bytes
  PROVE  \/ newline(from) = 0 /\ \A i \in 1 .. Len(from) : from[i] # NL
         \/ EndsAt(from, 0, newline(from))
<1> DEFINE I == {i \in 1 .. Len(from) : from[i] = NL}
<1>1. newline(from) = IF I # {} THEN Min(I) ELSE 0 BY DEF newline, SelectInSeq
<1>2. CASE I = {} BY <1>1, <1>2
<1>3. CASE I # {}
  <2>1. I \subseteq Nat OBVIOUS
  <2>2. PICK n \in I : \A m \in I : n <= m
    <3> HIDE DEF I
    <3> QED BY <1>3, <2>1, Smallest
  <2>3. Min(I) \in I /\ \A m \in I : Min(I) <= m
    <3> HIDE DEF I
    <3> QED BY <2>2 DEF Min
  <2>4. PICK e : e = Min(I) OBVIOUS
  <2>5. e \in I /\ \A m \in I : e <= m BY <2>3, <2>4
  <2>6. \A i \in 1 .. e - 1 : from[i] # NL BY <2>5
  <2>7. EndsAt(from, 0, e) BY <2>5, <2>6 DEF EndsAt
  <2> QED BY <1>1, <1>3, <2>4, <2>7
<1> QED BY <1>2, <1>3

\* What is left of a buffer.
LEMMA DropIs ==
  ASSUME NEW buf \in Bytes, NEW start \in Nat
  PROVE  /\ Drop(buf, start) \in Bytes
         /\ Len(Drop(buf, start)) = IF start <= Len(buf) THEN Len(buf) - start ELSE 0
         /\ \A i \in 1 .. Len(buf) - start : Drop(buf, start)[i] = buf[start + i]
<1>1. \A i \in start + 1 .. Len(buf) : buf[i] \in Nat BY ElementOfSeq DEF Bytes
<1>2. Len(buf) \in Nat BY DEF Bytes
<1>3. /\ SubSeq(buf, start + 1, Len(buf)) \in Seq(Nat)
      /\ Len(SubSeq(buf, start + 1, Len(buf))) = IF start + 1 <= Len(buf) THEN Len(buf) - (start + 1) + 1 ELSE 0
      /\ \A i \in 1 .. Len(buf) - (start + 1) + 1 : SubSeq(buf, start + 1, Len(buf))[i] = buf[start + 1 + i - 1]
  BY <1>1, <1>2, SubSeqProperties
<1>4. \A i \in 1 .. Len(buf) - start : i \in 1 .. Len(buf) - (start + 1) + 1 /\ start + 1 + i - 1 = start + i
  BY <1>2
<1> QED BY <1>2, <1>3, <1>4 DEF Drop, Bytes

\* line finds the line from start, wherever in the buffer that is.
LEMMA LineIs ==
  ASSUME NEW buf \in Bytes, NEW start \in Nat
  PROVE  \/ line(buf, start) = Nothing /\ \A i \in start + 1 .. Len(buf) : buf[i] # NL
         \/ \E e \in Nat : EndsAt(buf, start, e) /\ line(buf, start) = LineTo(buf, start, e)
<1> DEFINE from == Drop(buf, start)
           end == newline(from)
           cut == IF end > 1 /\ from[end - 1] = CR THEN end - 2 ELSE end - 1
<1>1. /\ from \in Bytes /\ Len(buf) \in Nat
      /\ Len(from) = IF start <= Len(buf) THEN Len(buf) - start ELSE 0
      /\ \A i \in 1 .. Len(buf) - start : from[i] = buf[start + i]
  <2>1. Len(buf) \in Nat BY DEF Bytes
  <2> QED BY <2>1, DropIs
<1>2. line(buf, start) = IF end = 0 THEN Nothing ELSE [text |-> SubSeq(from, 1, cut), next |-> start + end]
  BY DEF line
<1> HIDE DEF from
<1>3. CASE end = 0 /\ \A i \in 1 .. Len(from) : from[i] # NL
  <2>1. ASSUME NEW i \in start + 1 .. Len(buf) PROVE buf[i] # NL
    <3>1. i - start \in 1 .. Len(buf) - start /\ start + (i - start) = i /\ start <= Len(buf) BY <1>1
    <3>2. i - start \in 1 .. Len(from) BY <1>1, <3>1
    <3> QED BY <1>1, <1>3, <3>1, <3>2
  <2> QED BY <1>2, <1>3, <2>1
<1>4. CASE EndsAt(from, 0, end)
  <2>1. PICK n \in Nat : n = end BY <1>1, <1>4 DEF EndsAt
  <2>2. n \in 1 .. Len(from) /\ from[n] = NL /\ \A i \in 1 .. n - 1 : from[i] # NL
    BY <1>1, <1>4, <2>1 DEF EndsAt
  <2>3. start + Len(from) = Len(buf) /\ start <= Len(buf) /\ n <= Len(buf) - start BY <1>1, <2>2
  <2> DEFINE e == start + n
  <2>4. e \in start + 1 .. Len(buf) /\ buf[e] = NL
    <3>1. n \in 1 .. Len(buf) - start BY <2>2, <2>3
    <3> QED BY <1>1, <2>2, <3>1
  <2>5. ASSUME NEW i \in start + 1 .. e - 1 PROVE buf[i] # NL
    <3>1. i - start \in 1 .. n - 1 /\ i - start \in 1 .. Len(buf) - start /\ start + (i - start) = i
      BY <1>1, <2>2, <2>3
    <3> QED BY <1>1, <2>2, <3>1
  <2>6. EndsAt(buf, start, e) BY <2>4, <2>5 DEF EndsAt
  <2> DEFINE d == IF e - 1 > start /\ buf[e - 1] = CR THEN e - 2 ELSE e - 1
  <2>7. cut \in Nat /\ d \in Nat /\ d = start + cut /\ cut <= n /\ cut <= Len(from)
    <3>1. n > 1 => from[n - 1] = buf[e - 1]
      <4> SUFFICES ASSUME n > 1 PROVE from[n - 1] = buf[e - 1] OBVIOUS
      <4>1. n - 1 \in 1 .. Len(buf) - start /\ start + (n - 1) = e - 1 BY <1>1, <2>2, <2>3
      <4> QED BY <1>1, <4>1
    <3>2. n > 1 <=> e - 1 > start BY <2>2
    <3>3. cut = IF n > 1 /\ from[n - 1] = CR THEN n - 2 ELSE n - 1 BY <2>1
    <3>4. d = IF n > 1 /\ from[n - 1] = CR THEN e - 2 ELSE e - 1 BY <3>1, <3>2
    <3> HIDE DEF cut, d
    <3> QED BY <1>1, <2>2, <2>3, <3>3, <3>4
  <2> HIDE DEF d, cut
  <2>8. SubSeq(from, 1, cut) = SubSeq(buf, start + 1, d)
    <3>1. \A i \in 1 .. cut : from[i] \in Nat BY <1>1, <2>7, ElementOfSeq DEF Bytes
    <3>2. /\ SubSeq(from, 1, cut) \in Seq(Nat)
          /\ Len(SubSeq(from, 1, cut)) = IF 1 <= cut THEN cut - 1 + 1 ELSE 0
          /\ \A i \in 1 .. cut - 1 + 1 : SubSeq(from, 1, cut)[i] = from[1 + i - 1]
      BY <2>7, <3>1, SubSeqProperties
    <3>3. \A i \in start + 1 .. d : buf[i] \in Nat BY <1>1, <2>3, <2>7, ElementOfSeq DEF Bytes
    <3>4. /\ SubSeq(buf, start + 1, d) \in Seq(Nat)
          /\ Len(SubSeq(buf, start + 1, d)) = IF start + 1 <= d THEN d - (start + 1) + 1 ELSE 0
          /\ \A i \in 1 .. d - (start + 1) + 1 : SubSeq(buf, start + 1, d)[i] = buf[start + 1 + i - 1]
      BY <2>7, <3>3, SubSeqProperties
    <3>5. Len(SubSeq(from, 1, cut)) = cut /\ Len(SubSeq(buf, start + 1, d)) = cut BY <2>7, <3>2, <3>4
    <3>6. ASSUME NEW i \in 1 .. cut PROVE SubSeq(from, 1, cut)[i] = SubSeq(buf, start + 1, d)[i]
      <4>1. i \in 1 .. cut - 1 + 1 /\ 1 + i - 1 = i BY <2>7
      <4>2. i \in 1 .. d - (start + 1) + 1 /\ start + 1 + i - 1 = start + i BY <2>7
      <4>3. i \in 1 .. Len(buf) - start BY <1>1, <2>3, <2>7
      <4>4. SubSeq(from, 1, cut)[i] = from[i] BY <3>2, <4>1
      <4>5. SubSeq(buf, start + 1, d)[i] = buf[start + i] BY <3>4, <4>2
      <4> QED BY <1>1, <4>3, <4>4, <4>5
    <3> QED BY <3>2, <3>4, <3>5, <3>6, SeqEqual
  <2>9. line(buf, start) = LineTo(buf, start, e)
    <3>1. LineTo(buf, start, e) = [text |-> SubSeq(buf, start + 1, d), next |-> e] BY DEF LineTo, d
    <3>2. line(buf, start) = [text |-> SubSeq(from, 1, cut), next |-> start + end] BY <1>2, <2>1, <2>2
    <3> QED BY <2>1, <2>8, <3>1, <3>2
  <2> QED BY <2>4, <2>6, <2>9
<1> QED BY <1>1, <1>3, <1>4, NewlineIs

Lines == [text : Bytes, next : Nat]

\* A line that is found is text, and ends after start and within the buffer.
LEMMA LineFits ==
  ASSUME NEW buf \in Bytes, NEW start \in Nat, NEW e \in Nat, EndsAt(buf, start, e)
  PROVE  /\ LineTo(buf, start, e) \in Lines /\ LineTo(buf, start, e) # Nothing
         /\ LineTo(buf, start, e).next = e /\ start < e /\ e <= Len(buf)
<1> DEFINE cut == IF e - 1 > start /\ buf[e - 1] = CR THEN e - 2 ELSE e - 1
           text == SubSeq(buf, start + 1, cut)
<1>1. Len(buf) \in Nat /\ start < e /\ e <= Len(buf) BY DEF Bytes, EndsAt
<1>2. cut \in Int /\ cut <= Len(buf) BY <1>1
<1> HIDE DEF cut
<1>3. \A i \in start + 1 .. cut : buf[i] \in Nat BY <1>1, <1>2, ElementOfSeq DEF Bytes
<1>4. text \in Bytes BY <1>2, <1>3, SubSeqProperties DEF Bytes
<1>5. LineTo(buf, start, e) = [text |-> text, next |-> e] BY DEF LineTo, cut
<1> HIDE DEF text
<1>6. [text |-> text, next |-> e] \in Lines BY <1>4 DEF Lines
<1>7. Nothing \notin Lines BY NothingAssumption DEF Lines, Bytes
<1> QED BY <1>1, <1>5, <1>6, <1>7

\* line, as its callers use it.
LEMMA LineOr ==
  ASSUME NEW buf \in Bytes, NEW start \in Nat
  PROVE  line(buf, start) # Nothing =>
           /\ line(buf, start) \in Lines /\ line(buf, start).text \in Bytes
           /\ line(buf, start).next \in Nat
           /\ start < line(buf, start).next /\ line(buf, start).next <= Len(buf)
<1> SUFFICES ASSUME line(buf, start) # Nothing
             PROVE  /\ line(buf, start) \in Lines /\ line(buf, start).text \in Bytes
                    /\ line(buf, start).next \in Nat
                    /\ start < line(buf, start).next /\ line(buf, start).next <= Len(buf)
  OBVIOUS
<1>1. PICK e \in Nat : EndsAt(buf, start, e) /\ line(buf, start) = LineTo(buf, start, e) BY LineIs
<1>2. line(buf, start) \in Lines /\ line(buf, start).next = e /\ start < e /\ e <= Len(buf) BY <1>1, LineFits
<1> QED BY <1>2 DEF Lines

\* A line that has arrived does not change when more does.
LEMMA LineGrows ==
  ASSUME NEW buf \in Bytes, NEW whole \in Bytes, Prefixed(buf, whole), NEW start \in Nat,
         line(buf, start) # Nothing
  PROVE  line(whole, start) = line(buf, start)
<1>1. PICK e \in Nat : EndsAt(buf, start, e) /\ line(buf, start) = LineTo(buf, start, e) BY LineIs
<1>2. Len(buf) \in Nat /\ Len(whole) \in Nat /\ Len(buf) <= Len(whole)
      /\ \A i \in 1 .. Len(buf) : buf[i] = whole[i]
  BY DEF Bytes, Prefixed
<1>3. e \in start + 1 .. Len(buf) /\ buf[e] = NL /\ \A i \in start + 1 .. e - 1 : buf[i] # NL
  BY <1>1 DEF EndsAt
<1>4. EndsAt(whole, start, e)
  <2>1. e \in start + 1 .. Len(whole) /\ whole[e] = NL BY <1>2, <1>3
  <2>2. \A i \in start + 1 .. e - 1 : i \in 1 .. Len(buf) BY <1>2, <1>3
  <2> QED BY <1>2, <1>3, <2>1, <2>2 DEF EndsAt
<1>5. PICK f \in Nat : EndsAt(whole, start, f) /\ line(whole, start) = LineTo(whole, start, f)
  BY <1>4, LineIs DEF EndsAt
<1>6. f = e
  <2>1. f \in start + 1 .. Len(whole) /\ whole[f] = NL /\ \A i \in start + 1 .. f - 1 : whole[i] # NL
    BY <1>5 DEF EndsAt
  <2>2. e \in start + 1 .. Len(whole) /\ whole[e] = NL /\ \A i \in start + 1 .. e - 1 : whole[i] # NL
    BY <1>4 DEF EndsAt
  <2>3. ~(f < e) BY <2>1, <2>2
  <2>4. ~(e < f) BY <2>1, <2>2
  <2> QED BY <2>3, <2>4
<1>7. LineTo(whole, start, e) = LineTo(buf, start, e)
  <2>1. e - 1 > start => whole[e - 1] = buf[e - 1]
    <3> SUFFICES ASSUME e - 1 > start PROVE whole[e - 1] = buf[e - 1] OBVIOUS
    <3>1. e - 1 \in 1 .. Len(buf) BY <1>2, <1>3
    <3> QED BY <1>2, <3>1
  <2> DEFINE d == IF e - 1 > start /\ buf[e - 1] = CR THEN e - 2 ELSE e - 1
  <2>2. LineTo(whole, start, e) = [text |-> SubSeq(whole, start + 1, d), next |-> e] BY <2>1 DEF LineTo
  <2>3. LineTo(buf, start, e) = [text |-> SubSeq(buf, start + 1, d), next |-> e] BY DEF LineTo
  <2>4. d \in Int /\ d <= Len(buf) /\ d <= Len(whole) BY <1>2, <1>3
  <2> HIDE DEF d
  <2>5. SubSeq(whole, start + 1, d) = SubSeq(buf, start + 1, d)
    <3>1. \A i \in start + 1 .. d : i \in 1 .. Len(buf) /\ i \in 1 .. Len(whole) BY <1>2, <2>4
    <3>2. \A i \in start + 1 .. d : buf[i] \in Nat /\ whole[i] \in Nat BY <3>1, ElementOfSeq DEF Bytes
    <3>3. /\ SubSeq(buf, start + 1, d) \in Seq(Nat)
          /\ Len(SubSeq(buf, start + 1, d)) = IF start + 1 <= d THEN d - (start + 1) + 1 ELSE 0
          /\ \A i \in 1 .. d - (start + 1) + 1 : SubSeq(buf, start + 1, d)[i] = buf[start + 1 + i - 1]
      BY <2>4, <3>2, SubSeqProperties
    <3>4. /\ SubSeq(whole, start + 1, d) \in Seq(Nat)
          /\ Len(SubSeq(whole, start + 1, d)) = IF start + 1 <= d THEN d - (start + 1) + 1 ELSE 0
          /\ \A i \in 1 .. d - (start + 1) + 1 : SubSeq(whole, start + 1, d)[i] = whole[start + 1 + i - 1]
      BY <2>4, <3>2, SubSeqProperties
    <3>5. ASSUME NEW i \in 1 .. Len(SubSeq(buf, start + 1, d))
          PROVE  SubSeq(buf, start + 1, d)[i] = SubSeq(whole, start + 1, d)[i]
      <4>1. i \in 1 .. d - (start + 1) + 1 /\ start + 1 + i - 1 \in 1 .. Len(buf) BY <1>2, <2>4, <3>3
      <4> QED BY <1>2, <3>3, <3>4, <4>1
    <3> QED BY <3>3, <3>4, <3>5, SeqEqual
  <2> QED BY <2>2, <2>3, <2>5
<1> QED BY <1>1, <1>5, <1>6, <1>7

-----------------------------------------------------------------------------
(* Numbers. *)

\* One digit more.
Digit(value, digit) ==
  IF value = Nothing \/ digit \notin 0 .. 9 THEN Nothing
  ELSE IF 10 * value + digit > WIRE_MAX THEN Nothing ELSE 10 * value + digit

\* What value_of's walk over digits is.
Sums(f, digits) == f = [i \in 0 .. Len(digits) |-> IF i = 0 THEN 0 ELSE Digit(f[i - 1], digits[i])]

Wire == 0 .. WIRE_MAX \cup {Nothing}

\* A digit more leaves a number of the wire, or Nothing.
LEMMA DigitIs ==
  ASSUME NEW value \in Wire, NEW digit
  PROVE  Digit(value, digit) \in Wire
<1>1. CASE value = Nothing \/ digit \notin 0 .. 9 BY <1>1 DEF Digit, Wire
<1>2. CASE value # Nothing /\ digit \in 0 .. 9
  <2>1. PICK v \in 0 .. WIRE_MAX, d \in 0 .. 9 : v = value /\ d = digit BY <1>2 DEF Wire
  <2>2. 10 * v + d \in Nat BY Limits
  <2>3. Digit(value, digit) = IF 10 * v + d > WIRE_MAX THEN Nothing ELSE 10 * v + d BY <1>2, <2>1 DEF Digit
  <2> QED BY <2>2, <2>3, Limits DEF Wire
<1> QED BY <1>1, <1>2

\* There is such a walk over any digits.
LEMMA SumsExist ==
  ASSUME NEW digits \in Bytes
  PROVE  \E f : Sums(f, digits)
<1> DEFINE On(f, m) == f = [i \in 0 .. m |-> IF i = 0 THEN 0 ELSE Digit(f[i - 1], digits[i])]
           T == {m \in Nat : ~\E f : On(f, m)}
<1>1. T = {}
  <2> SUFFICES ASSUME T # {} PROVE FALSE OBVIOUS
  <2>1. T \subseteq Nat OBVIOUS
  <2>2. PICK m \in T : \A n \in T : m <= n
    <3> HIDE DEF T
    <3> QED BY <2>1, Smallest
  <2>3. m \in Nat /\ ~\E f : On(f, m) OBVIOUS
  <2>4. CASE m = 0
    <3> DEFINE g == [i \in 0 .. 0 |-> 0]
    <3>1. g = [i \in 0 .. 0 |-> IF i = 0 THEN 0 ELSE Digit(g[i - 1], digits[i])] OBVIOUS
    <3> HIDE DEF g
    <3>2. On(g, m) BY <2>4, <3>1
    <3> QED BY <2>3, <3>2
  <2>5. CASE m # 0
    <3>1. m - 1 \in Nat /\ m - 1 \notin T BY <2>2, <2>3, <2>5
    <3>2. PICK f : On(f, m - 1) BY <3>1
    <3>3. f = [i \in 0 .. m - 1 |-> IF i = 0 THEN 0 ELSE Digit(f[i - 1], digits[i])] BY <3>2
    <3>4. \A i \in 0 .. m - 1 : f[i] = IF i = 0 THEN 0 ELSE Digit(f[i - 1], digits[i]) BY <3>3
    <3> DEFINE g == [i \in 0 .. m |-> IF i = m THEN Digit(f[m - 1], digits[m]) ELSE f[i]]
               h == [i \in 0 .. m |-> IF i = 0 THEN 0 ELSE Digit(g[i - 1], digits[i])]
    <3>5. ASSUME NEW i \in 0 .. m PROVE g[i] = h[i]
      <4>1. CASE i = 0 BY <2>3, <2>5, <3>1, <3>4, <4>1
      <4>2. CASE i # 0
        <5>1. i - 1 \in 0 .. m /\ i - 1 # m /\ i - 1 \in 0 .. m - 1 BY <2>3, <4>2
        <5>2. g[i - 1] = f[i - 1] /\ h[i] = Digit(g[i - 1], digits[i]) BY <4>2, <5>1
        <5>3. CASE i = m BY <5>2, <5>3
        <5>4. CASE i # m
          <6>1. i \in 0 .. m - 1 BY <2>3, <5>4
          <6>2. g[i] = f[i] BY <5>4
          <6> HIDE DEF g, h
          <6> QED BY <3>4, <4>2, <5>2, <6>1, <6>2
        <5> QED BY <5>3, <5>4
      <4> QED BY <4>1, <4>2
    <3>6. g = h BY <3>5
    <3>7. On(g, m) BY <3>6
    <3> QED BY <2>3, <3>7
  <2> QED BY <2>4, <2>5
<1>2. Len(digits) \in Nat BY DEF Bytes
<1>3. PICK f : On(f, Len(digits)) BY <1>1, <1>2
<1> QED BY <1>3 DEF Sums

\* Induction up to a bound.
LEMMA Induct ==
  ASSUME NEW m \in Nat, NEW T, 0 \in T, \A i \in Nat : i < m /\ i \in T => i + 1 \in T
  PROVE  \A i \in 0 .. m : i \in T
<1> DEFINE U == {i \in 0 .. m : i \notin T}
<1> SUFFICES ASSUME U # {} PROVE FALSE OBVIOUS
<1>1. U \subseteq Nat OBVIOUS
<1>2. PICK n \in U : \A k \in U : n <= k
  <2> HIDE DEF U
  <2> QED BY <1>1, Smallest
<1>3. n \in Nat /\ n <= m /\ n \notin T /\ n # 0 OBVIOUS
<1>4. n - 1 \in Nat /\ n - 1 < m /\ n - 1 + 1 = n /\ n - 1 \in 0 .. m BY <1>3
<1>5. n - 1 \in T BY <1>2, <1>4
<1> QED BY <1>3, <1>4, <1>5

\* A function given by where it starts and how each value follows from the one
\* before.
Maps(F, S) == F \in [Nat -> [S -> S]]
Follows(f, S, x, F, m) == f \in [0 .. m -> S] /\ f[0] = x /\ \A i \in 1 .. m : f[i] = F[i][f[i - 1]]

\* There is such a function.
LEMMA Recurs ==
  ASSUME NEW S, NEW x \in S, NEW F, Maps(F, S), NEW m \in Nat
  PROVE  \E f : Follows(f, S, x, F, m)
<1> SUFFICES \E f \in [0 .. m -> S] : f[0] = x /\ \A i \in 1 .. m : f[i] = F[i][f[i - 1]]
  BY DEF Follows
<1> USE DEF Maps
<1> DEFINE T == {k \in Nat : \E f \in [0 .. k -> S] : f[0] = x /\ \A i \in 1 .. k : f[i] = F[i][f[i - 1]]}
<1>1. 0 \in T
  <2> DEFINE g == [i \in 0 .. 0 |-> x]
  <2>1. g \in [0 .. 0 -> S] /\ g[0] = x OBVIOUS
  <2>2. \A i \in 1 .. 0 : g[i] = F[i][g[i - 1]] OBVIOUS
  <2> HIDE DEF g
  <2> QED BY <2>1, <2>2
<1>2. ASSUME NEW k \in Nat, k < m, k \in T PROVE k + 1 \in T
  <2>1. PICK f \in [0 .. k -> S] : f[0] = x /\ \A i \in 1 .. k : f[i] = F[i][f[i - 1]] BY <1>2
  <2> DEFINE g == [i \in 0 .. k + 1 |-> IF i = k + 1 THEN F[k + 1][f[k]] ELSE f[i]]
  <2>2. ASSUME NEW i \in 0 .. k PROVE g[i] = f[i] /\ g[i] \in S
    <3>1. i \in 0 .. k + 1 /\ i # k + 1 OBVIOUS
    <3> QED BY <3>1
  <2>3. g[k + 1] = F[k + 1][f[k]] /\ g[k + 1] \in S
    <3>1. k \in 0 .. k /\ k + 1 \in Nat /\ k + 1 \in 0 .. k + 1 OBVIOUS
    <3>2. f[k] \in S BY <3>1
    <3>3. F[k + 1] \in [S -> S] BY <3>1
    <3>4. F[k + 1][f[k]] \in S BY <3>2, <3>3
    <3> QED BY <3>1, <3>4
  <2>4. g \in [0 .. k + 1 -> S]
    <3>1. \A i \in 0 .. k + 1 : i \in 0 .. k \/ i = k + 1 OBVIOUS
    <3>2. \A i \in 0 .. k + 1 : g[i] \in S
      <4> HIDE DEF g
      <4> QED BY <2>2, <2>3, <3>1
    <3> QED BY <3>2
  <2>5. ASSUME NEW i \in 1 .. k + 1 PROVE g[i] = F[i][g[i - 1]]
    <3>1. i - 1 \in 0 .. k /\ (i = k + 1 => i - 1 = k) /\ (i # k + 1 => i \in 1 .. k /\ i \in 0 .. k) OBVIOUS
    <3>2. g[i - 1] = f[i - 1] BY <2>2, <3>1
    <3> HIDE DEF g
    <3>3. CASE i = k + 1 BY <2>3, <3>1, <3>2, <3>3
    <3>4. CASE i # k + 1 BY <2>1, <2>2, <3>1, <3>2, <3>4
    <3> QED BY <3>3, <3>4
  <2>6. g[0] = x
    <3>1. 0 \in 0 .. k OBVIOUS
    <3> HIDE DEF g
    <3> QED BY <2>1, <2>2, <3>1
  <2> HIDE DEF g
  <2> QED BY <2>4, <2>5, <2>6
<1>3. m \in T
  <2> HIDE DEF T
  <2>1. \A i \in 0 .. m : i \in T BY <1>1, <1>2, Induct
  <2> QED BY <2>1
<1> QED BY <1>3

\* What value_of's walk leaves on the way and comes to.
LEMMA SumsAre ==
  ASSUME NEW digits \in Bytes
  PROVE  \E f : /\ \A i \in 0 .. Len(digits) : f[i] \in Wire
                /\ f[0] = 0 /\ \A i \in 1 .. Len(digits) : f[i] = Digit(f[i - 1], digits[i])
                /\ value_of(digits) = f[Len(digits)]
<1> DEFINE n == Len(digits)
           f == CHOOSE f : Sums(f, digits)
<1>1. n \in Nat BY DEF Bytes
<1>2. Sums(f, digits) BY SumsExist
<1>3. value_of(digits) = f[n] BY DEF value_of, Sums, Digit
<1> HIDE DEF f, n
<1>4. f = [i \in 0 .. n |-> IF i = 0 THEN 0 ELSE Digit(f[i - 1], digits[i])] BY <1>2 DEF Sums, n
<1>5. \A i \in 0 .. n : f[i] = IF i = 0 THEN 0 ELSE Digit(f[i - 1], digits[i]) BY <1>4
<1>6. f[0] = 0 /\ \A i \in 1 .. n : f[i] = Digit(f[i - 1], digits[i])
  <2>1. 0 \in 0 .. n /\ \A i \in 1 .. n : i \in 0 .. n /\ i # 0 BY <1>1
  <2> QED BY <1>5, <2>1
<1>7. \A i \in 0 .. n : f[i] \in Wire
  <2> DEFINE T == {i \in Nat : f[i] \in Wire}
  <2>1. 0 \in T BY <1>6, Limits DEF Wire
  <2>2. ASSUME NEW i \in Nat, i < n, i \in T PROVE i + 1 \in T
    <3>1. i + 1 \in 1 .. n /\ i + 1 - 1 = i BY <1>1, <2>2
    <3>2. f[i + 1] = Digit(f[i], digits[i + 1]) BY <1>6, <3>1
    <3> QED BY <2>2, <3>2, DigitIs
  <2>3. \A i \in 0 .. n : i \in T
    <3> HIDE DEF T
    <3> QED BY <1>1, <2>1, <2>2, Induct
  <2> QED BY <2>3
<1> QED BY <1>3, <1>6, <1>7 DEF n

\* A walk over the same digits comes to the same.
LEMMA SumsOne ==
  ASSUME NEW digits \in Bytes, NEW g, g[0] = 0,
         \A i \in 1 .. Len(digits) : g[i] = Digit(g[i - 1], digits[i])
  PROVE  value_of(digits) = g[Len(digits)]
<1>1. PICK f : /\ f[0] = 0 /\ \A i \in 1 .. Len(digits) : f[i] = Digit(f[i - 1], digits[i])
               /\ value_of(digits) = f[Len(digits)]
  BY SumsAre
<1>2. PICK n \in Nat : n = Len(digits) BY DEF Bytes
<1> DEFINE T == {i \in Nat : f[i] = g[i]}
<1>3. 0 \in T BY <1>1
<1>4. ASSUME NEW i \in Nat, i < n, i \in T PROVE i + 1 \in T
  <2>1. i + 1 \in 1 .. n /\ i + 1 - 1 = i BY <1>4
  <2> QED BY <1>1, <1>2, <1>4, <2>1
<1>5. \A i \in 0 .. n : i \in T
  <2> HIDE DEF T
  <2> QED BY <1>3, <1>4, Induct
<1>6. n \in 0 .. n OBVIOUS
<1>7. f[n] = g[n] BY <1>5, <1>6
<1> QED BY <1>1, <1>2, <1>7

\* A number, when there is one, is one of the wire's or the negative of one.
LEMMA NumberIs ==
  ASSUME NEW text \in Bytes
  PROVE  number(text) \in Int \cup {Nothing}
<1> DEFINE signed == text # <<>> /\ text[1] \in {MINUS, PLUS}
           digits == IF signed THEN Tail(text) ELSE text
           value == value_of(digits)
<1>1. digits \in Bytes BY HeadTailProperties DEF Bytes
<1>2. number(text) = IF digits = <<>> \/ value = Nothing THEN Nothing
                     ELSE IF signed /\ text[1] = MINUS THEN -value ELSE value
  BY DEF number
<1> HIDE DEF digits
<1>3. value \in Wire
  <2>1. Len(digits) \in Nat BY <1>1 DEF Bytes
  <2>2. Len(digits) \in 0 .. Len(digits) BY <2>1
  <2> QED BY <1>1, <2>2, SumsAre
<1> HIDE DEF value, signed
<1>4. CASE value = Nothing BY <1>2, <1>4
<1>5. CASE value # Nothing
  <2>1. value \in Int /\ -value \in Int BY <1>3, <1>5, Limits DEF Wire
  <2> QED BY <1>2, <2>1
<1> QED BY <1>4, <1>5

\* A bulk's announced length is within the limit.
LEMMA BulkLen ==
  ASSUME NEW text \in Bytes
  PROVE  bulk_len(text) = Nothing \/ bulk_len(text) \in 0 .. MAX_BULK
BY DEF bulk_len

-----------------------------------------------------------------------------
(* The parser's walk over an array. *)

Outcomes == [is : {"done", "more", "bad"}, used : Nat, spans : Seq(Spans)]

\* A whole bulk after used: its header and its length.
BulkAt(buf, used, head, len) ==
  /\ head = line(buf, used) /\ head # Nothing
  /\ len = bulk_len(head.text) /\ len # Nothing
  /\ head.next + len + 2 <= Len(buf)

Step(buf, so) == IF so.is # "done" THEN so ELSE parse_bulk(buf, so)

\* What parse_array's walk over count bulks after so is.
Walks(f, buf, so, count) ==
  f = [i \in 0 .. count |-> IF i = 0 THEN so ELSE IF f[i - 1].is # "done" THEN f[i - 1] ELSE parse_bulk(buf, f[i - 1])]

\* What is known of a whole bulk.
LEMMA BulkFits ==
  ASSUME NEW buf \in Bytes, NEW used \in Nat, NEW head, NEW len, BulkAt(buf, used, head, len)
  PROVE  /\ head \in Lines /\ head.next \in Nat /\ len \in 0 .. MAX_BULK /\ len \in Nat /\ Len(buf) \in Nat
         /\ used < head.next /\ head.next + len + 2 <= Len(buf) /\ head.next + len + 2 \in Nat
         /\ [at |-> head.next, len |-> len] \in Spans /\ [at |-> head.next, len |-> len] # Nothing
<1>1. Len(buf) \in Nat BY DEF Bytes
<1>2. head = line(buf, used) /\ head # Nothing /\ len = bulk_len(head.text) /\ len # Nothing
      /\ head.next + len + 2 <= Len(buf)
  BY DEF BulkAt
<1>3. head \in Lines /\ head.text \in Bytes /\ head.next \in Nat /\ used < head.next BY <1>2, LineOr
<1>4. len \in 0 .. MAX_BULK BY <1>2, <1>3, BulkLen
<1>5. len \in Nat BY <1>4, Limits
<1>6. head.next + len + 2 \in Nat BY <1>3, <1>5
<1>7. [at |-> head.next, len |-> len] \in Spans BY <1>3, <1>5 DEF Spans
<1>8. Nothing \notin Spans BY NothingAssumption DEF Spans
<1> QED BY <1>1, <1>2, <1>3, <1>4, <1>5, <1>6, <1>7, <1>8

\* parse_bulk takes a whole bulk, and asks for more or refuses otherwise.
LEMMA ParseBulkIs ==
  ASSUME NEW buf \in Bytes, NEW so \in Outcomes
  PROVE  \/ parse_bulk(buf, so) = More(so.spans)
         \/ parse_bulk(buf, so) = Bad(so.spans)
         \/ \E head, len :
              /\ BulkAt(buf, so.used, head, len) /\ Len(so.spans) < MAX_ARGS
              /\ parse_bulk(buf, so) = Done(head.next + len + 2, Append(so.spans, [at |-> head.next, len |-> len]))
<1> DEFINE head == line(buf, so.used)
           len == bulk_len(head.text)
<1>1. parse_bulk(buf, so) =
        IF head = Nothing THEN More(so.spans)
        ELSE IF len = Nothing THEN Bad(so.spans)
        ELSE IF Len(buf) < head.next + len + 2 THEN More(so.spans)
        ELSE IF Len(so.spans) >= MAX_ARGS THEN Bad(so.spans)
        ELSE Done(head.next + len + 2, Append(so.spans, [at |-> head.next, len |-> len]))
  BY DEF parse_bulk
<1>2. so.used \in Nat /\ so.spans \in Seq(Spans) BY DEF Outcomes
<1> SUFFICES ASSUME head # Nothing, len # Nothing, ~(Len(buf) < head.next + len + 2), ~(Len(so.spans) >= MAX_ARGS)
             PROVE  BulkAt(buf, so.used, head, len) /\ Len(so.spans) < MAX_ARGS
  BY <1>1
<1>3. Len(buf) \in Nat BY DEF Bytes
<1>4. Len(so.spans) \in Nat BY <1>2
<1>5. head.next \in Nat /\ head.text \in Bytes BY <1>2, LineOr
<1>6. len \in 0 .. MAX_BULK BY <1>5, BulkLen
<1> HIDE DEF head, len
<1>7. head.next + len + 2 <= Len(buf) BY <1>3, <1>5, <1>6, Limits
<1>8. Len(so.spans) < MAX_ARGS BY <1>4, Limits
<1> QED BY <1>7, <1>8 DEF BulkAt, head, len

\* What an answer of the parser is made of.
LEMMA MakesOutcome ==
  ASSUME NEW spans \in Seq(Spans), NEW used \in Nat
  PROVE  /\ More(spans) \in Outcomes /\ Bad(spans) \in Outcomes /\ Done(used, spans) \in Outcomes
         /\ More(spans).is = "more" /\ Bad(spans).is = "bad" /\ Done(used, spans).is = "done"
         /\ Done(used, spans).used = used /\ Done(used, spans).spans = spans
BY DEF More, Bad, Done, Outcomes

\* A step of the walk.
LEMMA StepIs ==
  ASSUME NEW buf \in Bytes, NEW so \in Outcomes
  PROVE  /\ Step(buf, so) \in Outcomes
         /\ Step(buf, so).is = "done" =>
              \E head, len : /\ BulkAt(buf, so.used, head, len) /\ so.is = "done" /\ Len(so.spans) < MAX_ARGS
                             /\ Step(buf, so).used = head.next + len + 2
                             /\ Step(buf, so).spans = Append(so.spans, [at |-> head.next, len |-> len])
<1>1. so.used \in Nat /\ so.spans \in Seq(Spans) BY DEF Outcomes
<1>2. CASE so.is # "done" BY <1>2 DEF Step
<1>3. CASE so.is = "done"
  <2>1. Step(buf, so) = parse_bulk(buf, so) BY <1>3 DEF Step
  <2>2. CASE parse_bulk(buf, so) = More(so.spans) \/ parse_bulk(buf, so) = Bad(so.spans)
    BY <1>1, <2>1, <2>2, MakesOutcome
  <2>3. CASE \E head, len :
              /\ BulkAt(buf, so.used, head, len) /\ Len(so.spans) < MAX_ARGS
              /\ parse_bulk(buf, so) = Done(head.next + len + 2, Append(so.spans, [at |-> head.next, len |-> len]))
    <3>1. PICK head, len :
              /\ BulkAt(buf, so.used, head, len) /\ Len(so.spans) < MAX_ARGS
              /\ parse_bulk(buf, so) = Done(head.next + len + 2, Append(so.spans, [at |-> head.next, len |-> len]))
      BY <2>3
    <3>2. head.next + len + 2 \in Nat /\ [at |-> head.next, len |-> len] \in Spans BY <1>1, <3>1, BulkFits
    <3>3. Append(so.spans, [at |-> head.next, len |-> len]) \in Seq(Spans) BY <1>1, <3>2, AppendProperties
    <3>4. PICK spans \in Seq(Spans), used \in Nat :
            /\ spans = Append(so.spans, [at |-> head.next, len |-> len]) /\ used = head.next + len + 2
            /\ Step(buf, so) = Done(used, spans)
      BY <2>1, <3>1, <3>2, <3>3
    <3>5. Step(buf, so) \in Outcomes /\ Step(buf, so).used = used /\ Step(buf, so).spans = spans
      BY <3>4 DEF Done, Outcomes
    <3>6. Step(buf, so).used = head.next + len + 2
          /\ Step(buf, so).spans = Append(so.spans, [at |-> head.next, len |-> len])
      BY <3>4, <3>5
    <3> QED BY <1>3, <3>1, <3>5, <3>6
  <2> QED BY <2>2, <2>3, ParseBulkIs
<1> QED BY <1>2, <1>3

\* There is such a walk.
LEMMA WalksExist ==
  ASSUME NEW buf \in Bytes, NEW so \in Outcomes, NEW count \in Nat
  PROVE  \E f : Walks(f, buf, so, count)
<1>0. PICK F : F = [i \in Nat |-> [o \in Outcomes |-> Step(buf, o)]] OBVIOUS
<1>1. Maps(F, Outcomes)
  <2>1. [o \in Outcomes |-> Step(buf, o)] \in [Outcomes -> Outcomes] BY StepIs
  <2> QED BY <1>0, <2>1 DEF Maps
<1>2. \A i \in Nat, o \in Outcomes : F[i][o] = Step(buf, o) BY <1>0
<1>3. PICK f \in [0 .. count -> Outcomes] : f[0] = so /\ \A i \in 1 .. count : f[i] = F[i][f[i - 1]]
  <2>1. \E f : Follows(f, Outcomes, so, F, count) BY <1>1, Recurs
  <2> QED BY <2>1 DEF Follows
<1>4. ASSUME NEW i \in 1 .. count PROVE f[i] = Step(buf, f[i - 1])
  <2>1. i - 1 \in 0 .. count /\ i \in Nat OBVIOUS
  <2>2. f[i - 1] \in Outcomes BY <2>1
  <2> QED BY <1>2, <1>3, <2>1, <2>2
<1>5. \A i \in 0 .. count : i # 0 => i \in 1 .. count OBVIOUS
<1>6. \A i \in 0 .. count :
        f[i] = IF i = 0 THEN so ELSE IF f[i - 1].is # "done" THEN f[i - 1] ELSE parse_bulk(buf, f[i - 1])
  BY <1>3, <1>4, <1>5 DEF Step
<1> DEFINE g == [i \in 0 .. count |->
                   IF i = 0 THEN so ELSE IF f[i - 1].is # "done" THEN f[i - 1] ELSE parse_bulk(buf, f[i - 1])]
<1>7. f = g BY <1>6
<1> QED BY <1>7 DEF Walks

\* A walk, bulk by bulk: it only ever moves on, and has a span for every bulk.
LEMMA WalkIs ==
  ASSUME NEW buf \in Bytes, NEW so \in Outcomes, NEW count \in Nat, NEW f, Walks(f, buf, so, count),
         so.is = "done", so.used <= Len(buf), so.spans = <<>>
  PROVE  /\ f[0] = so /\ \A i \in 1 .. count : f[i] = Step(buf, f[i - 1])
         /\ \A i \in 0 .. count :
              /\ f[i] \in Outcomes
              /\ f[i].is = "done" => /\ so.used <= f[i].used /\ f[i].used <= Len(buf)
                                     /\ Len(f[i].spans) = i
<1>1. f = [i \in 0 .. count |->
             IF i = 0 THEN so ELSE IF f[i - 1].is # "done" THEN f[i - 1] ELSE parse_bulk(buf, f[i - 1])]
  BY DEF Walks
<1>2. \A i \in 0 .. count :
        f[i] = IF i = 0 THEN so ELSE IF f[i - 1].is # "done" THEN f[i - 1] ELSE parse_bulk(buf, f[i - 1])
  BY <1>1
<1>3. f[0] = so /\ \A i \in 1 .. count : f[i] = Step(buf, f[i - 1])
  <2>1. 0 \in 0 .. count /\ \A i \in 1 .. count : i \in 0 .. count /\ i # 0 OBVIOUS
  <2> QED BY <1>2, <2>1 DEF Step
<1> DEFINE P(i) == /\ f[i] \in Outcomes
                   /\ f[i].is = "done" => /\ so.used <= f[i].used /\ f[i].used <= Len(buf)
                                          /\ Len(f[i].spans) = i
           T == {i \in Nat : P(i)}
<1>4. Len(buf) \in Nat /\ so.used \in Nat BY DEF Bytes, Outcomes
<1>5. 0 \in T BY <1>3, <1>4
<1>6. ASSUME NEW i \in Nat, i < count, i \in T PROVE i + 1 \in T
  <2>1. i + 1 \in 1 .. count /\ i + 1 - 1 = i BY <1>6
  <2>2. f[i + 1] = Step(buf, f[i]) BY <1>3, <2>1
  <2>3. f[i] \in Outcomes BY <1>6
  <2>4. f[i].used \in Nat /\ f[i].spans \in Seq(Spans) BY <2>3 DEF Outcomes
  <2>5. f[i + 1] \in Outcomes BY <2>2, <2>3, StepIs
  <2>6. ASSUME f[i + 1].is = "done"
        PROVE  so.used <= f[i + 1].used /\ f[i + 1].used <= Len(buf) /\ Len(f[i + 1].spans) = i + 1
    <3>1. PICK head, len : /\ BulkAt(buf, f[i].used, head, len) /\ f[i].is = "done"
                           /\ f[i + 1].used = head.next + len + 2
                           /\ f[i + 1].spans = Append(f[i].spans, [at |-> head.next, len |-> len])
      <4>1. PICK o : o = f[i] OBVIOUS
      <4>2. o \in Outcomes /\ f[i + 1] = Step(buf, o) /\ Step(buf, o).is = "done" BY <2>2, <2>3, <2>6, <4>1
      <4>3. \E head, len : /\ BulkAt(buf, o.used, head, len) /\ o.is = "done" /\ Len(o.spans) < MAX_ARGS
                           /\ Step(buf, o).used = head.next + len + 2
                           /\ Step(buf, o).spans = Append(o.spans, [at |-> head.next, len |-> len])
        BY <4>2, StepIs, Zenon
      <4> QED BY <4>1, <4>2, <4>3
    <3>2. /\ head.next \in Nat /\ len \in Nat /\ f[i].used < head.next /\ head.next + len + 2 <= Len(buf)
          /\ [at |-> head.next, len |-> len] \in Spans
      BY <2>4, <3>1, BulkFits
    <3>3. so.used <= f[i].used /\ Len(f[i].spans) = i BY <1>6, <3>1
    <3>4. Len(f[i + 1].spans) = i + 1 BY <2>4, <3>1, <3>2, <3>3, AppendProperties
    <3>5. so.used <= head.next + len + 2 BY <1>4, <2>4, <3>2, <3>3
    <3> QED BY <3>1, <3>2, <3>4, <3>5
  <2> QED BY <2>5, <2>6
<1>7. \A i \in 0 .. count : i \in T
  <2> HIDE DEF T
  <2> QED BY <1>5, <1>6, Induct
<1> QED BY <1>3, <1>7

\* A line that starts with an asterisk has it in its text.
LEMMA StarLine ==
  ASSUME NEW buf \in Bytes, NEW start \in Nat, start < Len(buf), buf[start + 1] \in {STAR, DOLLAR},
         line(buf, start) # Nothing
  PROVE  /\ line(buf, start).text # <<>> /\ Tail(line(buf, start).text) \in Bytes
         /\ line(buf, start).text[1] = buf[start + 1]
<1>1. PICK e \in Nat : EndsAt(buf, start, e) /\ line(buf, start) = LineTo(buf, start, e) BY LineIs
<1>2. Len(buf) \in Nat /\ e \in start + 1 .. Len(buf) /\ buf[e] = NL BY <1>1 DEF Bytes, EndsAt
<1>3. buf[start + 1] # NL /\ buf[start + 1] # CR BY DEF NL, CR, STAR, DOLLAR
<1>4. e # start + 1 BY <1>2, <1>3
<1> DEFINE cut == IF e - 1 > start /\ buf[e - 1] = CR THEN e - 2 ELSE e - 1
           text == SubSeq(buf, start + 1, cut)
<1>5. cut \in Nat /\ start + 1 <= cut /\ cut <= Len(buf)
  <2>1. e - 1 # start + 1 \/ cut = e - 1 BY <1>3
  <2> QED BY <1>2, <1>4, <2>1
<1>6. line(buf, start).text = text BY <1>1 DEF LineTo
<1> HIDE DEF cut
<1>7. \A i \in start + 1 .. cut : buf[i] \in Nat BY <1>2, <1>5, ElementOfSeq DEF Bytes
<1>8. /\ text \in Seq(Nat)
      /\ Len(text) = IF start + 1 <= cut THEN cut - (start + 1) + 1 ELSE 0
      /\ \A i \in 1 .. cut - (start + 1) + 1 : text[i] = buf[start + 1 + i - 1]
  BY <1>5, <1>7, SubSeqProperties
<1>9. 1 \in 1 .. cut - (start + 1) + 1 /\ start + 1 + 1 - 1 = start + 1 /\ cut - (start + 1) + 1 # 0 BY <1>5
<1> HIDE DEF text
<1>10. text # <<>> /\ text[1] = buf[start + 1] BY <1>5, <1>8, <1>9
<1>11. Tail(text) \in Bytes BY <1>8, <1>10, HeadTailProperties DEF Bytes
<1> QED BY <1>6, <1>10, <1>11

\* A whole header of an array that the parser walks.
ArrayAt(buf, first, count) ==
  /\ first = line(buf, 0) /\ first # Nothing
  /\ count = number(Tail(first.text)) /\ count \in 0 .. MAX_ARGS

\* What parse_array does with it.
LEMMA ArrayWalks ==
  ASSUME NEW buf \in Bytes, NEW first, NEW count, ArrayAt(buf, first, count)
  PROVE  /\ first \in Lines /\ first.next \in Nat /\ 0 < first.next /\ first.next <= Len(buf)
         /\ Done(first.next, <<>>) \in Outcomes /\ count \in Nat /\ count <= MAX_ARGS
         /\ \E f : Walks(f, buf, Done(first.next, <<>>), count) /\ parse_array(buf, <<>>) = f[count]
<1>1. first = line(buf, 0) /\ first # Nothing /\ count = number(Tail(first.text)) /\ count \in 0 .. MAX_ARGS
  BY DEF ArrayAt
<1>2. first \in Lines /\ first.next \in Nat /\ 0 < first.next /\ first.next <= Len(buf) BY <1>1, LineOr
<1>3. <<>> \in Seq(Spans) OBVIOUS
<1>4. Done(first.next, <<>>) \in Outcomes BY <1>2, <1>3, MakesOutcome
<1>5. count \in Nat /\ count <= MAX_ARGS /\ count # Nothing /\ ~(count < 0) /\ ~(count > MAX_ARGS)
  BY <1>1, Limits, NothingAssumption
<1>6. PICK f : f = CHOOSE g : Walks(g, buf, Done(first.next, <<>>), count) OBVIOUS
<1>7. Walks(f, buf, Done(first.next, <<>>), count) BY <1>4, <1>5, <1>6, WalksExist
<1>8. parse_array(buf, <<>>) = f[count] BY <1>1, <1>5, <1>6 DEF parse_array, Walks
<1> QED BY <1>2, <1>4, <1>5, <1>7, <1>8

\* What parse_array does without one.
LEMMA ArrayElse ==
  ASSUME NEW buf \in Bytes, buf # <<>>, buf[1] = STAR
  PROVE  \/ line(buf, 0) = Nothing /\ parse_array(buf, <<>>) = More(<<>>)
         \/ line(buf, 0) # Nothing /\ ArrayAt(buf, line(buf, 0), number(Tail(line(buf, 0).text)))
         \/ /\ line(buf, 0) # Nothing /\ number(Tail(line(buf, 0).text)) \notin 0 .. MAX_ARGS
            /\ \/ parse_array(buf, <<>>) = Bad(<<>>)
               \/ /\ number(Tail(line(buf, 0).text)) \in Int /\ number(Tail(line(buf, 0).text)) < 0
                  /\ parse_array(buf, <<>>) = Done(line(buf, 0).next, <<>>)
<1> DEFINE first == line(buf, 0)
           count == number(Tail(first.text))
           n == CHOOSE f : Walks(f, buf, Done(first.next, <<>>), count)
<1>1. parse_array(buf, <<>>) =
        IF first = Nothing THEN More(<<>>)
        ELSE IF count = Nothing THEN Bad(<<>>)
        ELSE IF count < 0 THEN Done(first.next, <<>>)
        ELSE IF count > MAX_ARGS THEN Bad(<<>>)
        ELSE n[count]
  BY DEF parse_array, Walks
<1> HIDE DEF n
<1>2. CASE first = Nothing BY <1>1, <1>2
<1>3. CASE first # Nothing
  <2>1. Len(buf) \in Nat /\ Len(buf) > 0 BY EmptySeq DEF Bytes
  <2>2. Tail(first.text) \in Bytes BY <1>3, <2>1, StarLine
  <2>3. count \in Int \cup {Nothing} BY <2>2, NumberIs
  <2> HIDE DEF first
  <2>4. CASE count = Nothing
    <3>1. count \notin 0 .. MAX_ARGS BY <2>4, NothingAssumption, Limits
    <3> QED BY <1>1, <1>3, <2>4, <3>1 DEF first
  <2>5. CASE count # Nothing
    <3>1. count \in Int BY <2>3, <2>5
    <3> HIDE DEF count
    <3>2. count < 0 \/ count > MAX_ARGS \/ count \in 0 .. MAX_ARGS BY <3>1, Limits
    <3>3. CASE count < 0
      <4>1. count \notin 0 .. MAX_ARGS /\ parse_array(buf, <<>>) = Done(first.next, <<>>)
        BY <1>1, <1>3, <2>5, <3>1, <3>3, Limits
      <4> QED BY <1>3, <3>1, <3>3, <4>1 DEF first, count
    <3>4. CASE count > MAX_ARGS
      <4>1. count \notin 0 .. MAX_ARGS /\ ~(count < 0) BY <3>1, <3>4, Limits
      <4>2. parse_array(buf, <<>>) = Bad(<<>>) BY <1>1, <1>3, <2>5, <3>4, <4>1
      <4> QED BY <1>3, <4>1, <4>2 DEF first, count
    <3>5. CASE count \in 0 .. MAX_ARGS BY <1>3, <3>5 DEF ArrayAt, first, count
    <3> QED BY <3>2, <3>3, <3>4, <3>5
  <2> QED BY <2>4, <2>5
<1> QED BY <1>2, <1>3

\* A bulk that has been decided stays so when more arrives.
LEMMA StepGrows ==
  ASSUME NEW buf \in Bytes, NEW whole \in Bytes, Prefixed(buf, whole), NEW so \in Outcomes,
         Step(buf, so).is # "more"
  PROVE  Step(whole, so) = Step(buf, so)
<1>1. CASE so.is # "done" BY <1>1 DEF Step
<1>2. CASE so.is = "done"
  <2>1. so.used \in Nat /\ so.spans \in Seq(Spans) BY DEF Outcomes
  <2>2. Step(buf, so) = parse_bulk(buf, so) /\ Step(whole, so) = parse_bulk(whole, so) BY <1>2 DEF Step
  <2>3. More(so.spans).is = "more" BY DEF More
  <2> DEFINE head == line(buf, so.used)
             len == bulk_len(head.text)
  <2>4. head # Nothing BY <2>2, <2>3 DEF parse_bulk
  <2>5. line(whole, so.used) = head BY <2>1, <2>4, LineGrows
  <2>6. CASE len = Nothing BY <2>2, <2>4, <2>5, <2>6 DEF parse_bulk
  <2>7. CASE len # Nothing
    <3>1. ~(Len(buf) < head.next + len + 2) BY <2>2, <2>3, <2>4, <2>7 DEF parse_bulk
    <3>2. Len(buf) \in Nat /\ Len(whole) \in Nat /\ Len(buf) <= Len(whole) BY DEF Bytes, Prefixed
    <3>3. head.next \in Nat /\ head.text \in Bytes BY <2>1, <2>4, LineOr
    <3>4. len \in 0 .. MAX_BULK BY <2>7, <3>3, BulkLen
    <3>5. ~(Len(whole) < head.next + len + 2)
      <4> HIDE DEF head, len
      <4> QED BY <3>1, <3>2, <3>3, <3>4, Limits
    <3> QED BY <2>2, <2>4, <2>5, <2>7, <3>1, <3>5 DEF parse_bulk
  <2> QED BY <2>6, <2>7
<1> QED BY <1>1, <1>2

\* So does a walk.
LEMMA WalkGrows ==
  ASSUME NEW buf \in Bytes, NEW whole \in Bytes, Prefixed(buf, whole), NEW so \in Outcomes,
         so.is = "done", so.used <= Len(buf), so.spans = <<>>, NEW count \in Nat,
         NEW f, NEW g, Walks(f, buf, so, count), Walks(g, whole, so, count),
         f[count].is # "more"
  PROVE  g[count] = f[count]
<1>1. so.used <= Len(whole)
  <2>1. Len(buf) \in Nat /\ Len(whole) \in Nat /\ Len(buf) <= Len(whole) BY DEF Bytes, Prefixed
  <2>2. so.used \in Nat BY DEF Outcomes
  <2> QED BY <2>1, <2>2
<1>2. /\ f[0] = so /\ \A i \in 1 .. count : f[i] = Step(buf, f[i - 1])
      /\ \A i \in 0 .. count : f[i] \in Outcomes
  BY WalkIs
<1>3. g[0] = so /\ \A i \in 1 .. count : g[i] = Step(whole, g[i - 1]) BY <1>1, WalkIs
<1> DEFINE T == {i \in Nat : f[i].is = "more" \/ g[i] = f[i]}
<1>4. 0 \in T BY <1>2, <1>3
<1>5. ASSUME NEW i \in Nat, i < count, i \in T PROVE i + 1 \in T
  <2>1. i + 1 \in 1 .. count /\ i + 1 - 1 = i /\ i \in 0 .. count BY <1>5
  <2>2. f[i + 1] = Step(buf, f[i]) /\ g[i + 1] = Step(whole, g[i]) /\ f[i] \in Outcomes BY <1>2, <1>3, <2>1
  <2>3. CASE f[i].is = "more"
    <3>1. f[i + 1] = f[i] BY <2>2, <2>3 DEF Step
    <3> QED BY <2>3, <3>1
  <2>4. CASE g[i] = f[i] /\ Step(buf, f[i]).is # "more" BY <2>2, <2>4, StepGrows
  <2>5. CASE Step(buf, f[i]).is = "more" BY <2>2, <2>5
  <2> QED BY <1>5, <2>3, <2>4, <2>5
<1>6. \A i \in 0 .. count : i \in T
  <2> HIDE DEF T
  <2> QED BY <1>4, <1>5, Induct
<1>7. count \in 0 .. count OBVIOUS
<1> QED BY <1>6, <1>7

\* Nor does an array that has been decided change.
LEMMA ArrayGrows ==
  ASSUME NEW buf \in Bytes, NEW whole \in Bytes, Prefixed(buf, whole),
         buf # <<>>, buf[1] = STAR, whole # <<>>, whole[1] = STAR, parse_array(buf, <<>>).is # "more"
  PROVE  parse_array(whole, <<>>) = parse_array(buf, <<>>)
<1>1. line(buf, 0) # Nothing
  <2>1. More(<<>>).is = "more" BY DEF More
  <2> QED BY <2>1 DEF parse_array
<1>2. line(whole, 0) = line(buf, 0) BY <1>1, LineGrows
<1> DEFINE first == line(buf, 0)
           count == number(Tail(first.text))
<1>3. CASE ArrayAt(buf, first, count)
  <2>1. ArrayAt(whole, first, count) BY <1>2, <1>3 DEF ArrayAt
  <2> HIDE DEF first, count
  <2>0. PICK so : so = Done(first.next, <<>>) OBVIOUS
  <2>2. /\ first.next \in Nat /\ first.next <= Len(buf) /\ so \in Outcomes /\ count \in Nat
        /\ \E f : Walks(f, buf, so, count) /\ parse_array(buf, <<>>) = f[count]
    BY <1>3, <2>0, ArrayWalks
  <2>3. \E g : Walks(g, whole, so, count) /\ parse_array(whole, <<>>) = g[count] BY <2>1, <2>0, ArrayWalks
  <2>4. so.is = "done" /\ so.used = first.next /\ so.spans = <<>> BY <2>0 DEF Done
  <2>5. PICK f : Walks(f, buf, so, count) /\ parse_array(buf, <<>>) = f[count] BY <2>2
  <2>6. PICK g : Walks(g, whole, so, count) /\ parse_array(whole, <<>>) = g[count] BY <2>3
  <2>7. f[count].is # "more" /\ so.used <= Len(buf) BY <2>2, <2>4, <2>5
  <2>8. PICK n \in Nat : n = count BY <2>2
  <2>9. Walks(f, buf, so, n) /\ Walks(g, whole, so, n) /\ f[n].is # "more" BY <2>5, <2>6, <2>7, <2>8
  <2>10. so \in Outcomes /\ so.is = "done" /\ so.used <= Len(buf) /\ so.spans = <<>> BY <2>2, <2>4, <2>7
  <2>11. g[n] = f[n] BY ONLY <2>9, <2>10, Prefixed(buf, whole), WalkGrows
  <2>12. g[count] = f[count] BY <2>8, <2>11
  <2> QED BY <2>5, <2>6, <2>12
<1>4. CASE ~ArrayAt(buf, first, count)
  <2>1. ~ArrayAt(whole, first, count) BY <1>2, <1>4 DEF ArrayAt
  <2>2. /\ count \notin 0 .. MAX_ARGS
        /\ \/ parse_array(buf, <<>>) = Bad(<<>>)
           \/ count \in Int /\ count < 0 /\ parse_array(buf, <<>>) = Done(first.next, <<>>)
    BY <1>1, <1>4, ArrayElse
  <2>3. \/ count = Nothing \/ count \in Int
    <3>1. Len(buf) \in Nat /\ Len(buf) > 0 BY EmptySeq DEF Bytes
    <3>2. Tail(first.text) \in Bytes BY <1>1, <3>1, StarLine
    <3> QED BY <3>2, NumberIs
  <2>4. count = Nothing \/ (count \in Int /\ (count < 0 \/ count > MAX_ARGS))
    <3> HIDE DEF count
    <3> QED BY <2>2, <2>3, Limits
  <2>5. CASE count = Nothing BY <1>1, <1>2, <2>5 DEF parse_array
  <2>6. CASE count # Nothing /\ count < 0 BY <1>1, <1>2, <2>6 DEF parse_array
  <2>7. CASE count # Nothing /\ ~(count < 0) /\ count > MAX_ARGS BY <1>1, <1>2, <2>7 DEF parse_array
  <2> QED BY <2>4, <2>5, <2>6, <2>7
<1> QED BY <1>3, <1>4

\* Nor an inline line, unless it is overlong.
LEMMA InlineGrows ==
  ASSUME NEW buf \in Bytes, NEW whole \in Bytes, Prefixed(buf, whole), ~Overlong(whole),
         buf # <<>>, whole # <<>>, whole[1] # STAR, parse_inline(buf, <<>>).is # "more"
  PROVE  parse_inline(whole, <<>>) = parse_inline(buf, <<>>)
<1>1. CASE line(buf, 0) # Nothing
  <2>1. line(whole, 0) = line(buf, 0) BY <1>1, LineGrows
  <2> QED BY <1>1, <2>1 DEF parse_inline
<1>2. CASE line(buf, 0) = Nothing
  <2>1. Len(buf) \in Nat /\ Len(whole) \in Nat /\ Len(buf) <= Len(whole)
        /\ \A i \in 1 .. Len(buf) : buf[i] = whole[i]
    BY DEF Bytes, Prefixed
  <2>2. Len(buf) > MAX_INLINE
    <3>1. More(<<>>).is = "more" BY DEF More
    <3> QED BY <1>2, <3>1 DEF parse_inline
  <2>3. Len(whole) > MAX_INLINE BY <2>1, <2>2, Limits
  <2>4. \A i \in 1 .. Len(buf) : buf[i] # NL
    <3>1. \A i \in 0 + 1 .. Len(buf) : buf[i] # NL BY <1>2, LineIs, LineFits
    <3> QED BY <3>1
  <2>5. line(whole, 0) = Nothing
    <3> SUFFICES ASSUME line(whole, 0) # Nothing PROVE FALSE OBVIOUS
    <3>1. PICK e \in Nat : EndsAt(whole, 0, e) BY LineIs
    <3>2. e \in 1 .. Len(whole) /\ whole[e] = NL BY <3>1 DEF EndsAt
    <3>3. PICK n : n = newline(whole) OBVIOUS
    <3>4. EndsAt(whole, 0, n) BY <3>2, <3>3, NewlineIs
    <3>5. n \in 1 .. Len(whole) /\ whole[n] = NL BY <3>4 DEF EndsAt
    <3>6. n \notin 1 .. Len(buf) BY <2>1, <2>4, <3>5
    <3>7. n > MAX_INLINE + 1 BY <2>1, <2>2, <3>5, <3>6, Limits
    <3> QED BY <3>3, <3>7 DEF Overlong
  <2> QED BY <1>2, <2>2, <2>3, <2>5 DEF parse_inline
<1> QED BY <1>1, <1>2

\* What has arrived decides as the whole stream would.
LEMMA ParseGrows ==
  ASSUME NEW buf \in Bytes, NEW whole \in Bytes, Prefixed(buf, whole), ~Overlong(whole),
         NEW x, NEW y, parse(buf, x).is # "more"
  PROVE  parse(whole, y) = parse(buf, x)
<1>1. buf # <<>>
  <2>1. More(<<>>).is = "more" BY DEF More
  <2> QED BY <2>1 DEF parse, Cleared
<1>2. whole # <<>> /\ whole[1] = buf[1]
  <2>1. Len(buf) \in Nat /\ Len(buf) # 0 BY <1>1, EmptySeq DEF Bytes
  <2>2. Len(whole) \in Nat /\ Len(buf) <= Len(whole) /\ \A i \in 1 .. Len(buf) : buf[i] = whole[i]
    BY DEF Bytes, Prefixed
  <2>3. Len(whole) # 0 /\ 1 \in 1 .. Len(buf) BY <2>1, <2>2
  <2>4. Len(<<>>) = 0 OBVIOUS
  <2> QED BY <2>2, <2>3, <2>4
<1>3. CASE buf[1] = STAR
  <2>1. parse(buf, x) = parse_array(buf, <<>>) BY <1>1, <1>3 DEF parse, Cleared
  <2>2. parse(whole, y) = parse_array(whole, <<>>) BY <1>2, <1>3 DEF parse, Cleared
  <2> QED BY <1>1, <1>2, <1>3, <2>1, <2>2, ArrayGrows
<1>4. CASE buf[1] # STAR
  <2>1. parse(buf, x) = parse_inline(buf, <<>>) BY <1>1, <1>4 DEF parse, Cleared
  <2>2. parse(whole, y) = parse_inline(whole, <<>>) BY <1>2, <1>4 DEF parse, Cleared
  <2> QED BY <1>1, <1>2, <1>4, <2>1, <2>2, InlineGrows
<1> QED BY <1>3, <1>4

\* A parsed command is some of what has arrived.
LEMMA ParseUsed ==
  ASSUME NEW buf \in Bytes, NEW x, parse(buf, x).is = "done"
  PROVE  parse(buf, x).used \in Nat /\ 0 < parse(buf, x).used /\ parse(buf, x).used <= Len(buf)
<1>1. buf # <<>>
  <2>1. More(<<>>).is = "more" BY DEF More
  <2> QED BY <2>1 DEF parse, Cleared
<1>2. Len(buf) \in Nat BY DEF Bytes
<1>3. CASE buf[1] = STAR
  <2>1. parse(buf, x) = parse_array(buf, <<>>) BY <1>1, <1>3 DEF parse, Cleared
  <2> DEFINE first == line(buf, 0)
             count == number(Tail(first.text))
  <2>2. CASE ArrayAt(buf, first, count)
    <3> HIDE DEF first, count
    <3> DEFINE so == Done(first.next, <<>>)
    <3>1. /\ first.next \in Nat /\ 0 < first.next /\ first.next <= Len(buf) /\ so \in Outcomes /\ count \in Nat
          /\ \E f : Walks(f, buf, so, count) /\ parse_array(buf, <<>>) = f[count]
      BY <2>2, ArrayWalks
    <3>2. so.is = "done" /\ so.used = first.next /\ so.spans = <<>> BY DEF Done
    <3> HIDE DEF so
    <3>3. PICK f : Walks(f, buf, so, count) /\ parse_array(buf, <<>>) = f[count] BY <3>1
    <3>4. count \in 0 .. count BY <3>1
    <3>5. f[count] \in Outcomes /\ (f[count].is = "done" => so.used <= f[count].used /\ f[count].used <= Len(buf))
      BY <3>1, <3>2, <3>3, <3>4, WalkIs
    <3>6. f[count].used \in Nat BY <3>5 DEF Outcomes
    <3>7. f[count].is = "done" BY <2>1, <3>3
    <3>8. 0 < f[count].used BY <3>1, <3>2, <3>5, <3>6, <3>7
    <3> QED BY <2>1, <3>3, <3>5, <3>6, <3>7, <3>8
  <2>3. CASE ~ArrayAt(buf, first, count)
    <3>1. More(<<>>).is = "more" /\ Bad(<<>>).is = "bad" BY DEF More, Bad
    <3>2. first # Nothing /\ parse_array(buf, <<>>) = Done(first.next, <<>>)
      BY <1>1, <1>3, <2>1, <2>3, <3>1, ArrayElse
    <3>3. parse(buf, x).used = first.next BY <2>1, <3>2 DEF Done
    <3>4. first.next \in Nat /\ 0 < first.next /\ first.next <= Len(buf) BY <3>2, LineOr
    <3> QED BY <3>3, <3>4
  <2> QED BY <2>2, <2>3
<1>4. CASE buf[1] # STAR
  <2>1. parse(buf, x) = parse_inline(buf, <<>>) BY <1>1, <1>4 DEF parse, Cleared
  <2>2. More(<<>>).is = "more" /\ Bad(<<>>).is = "bad" BY DEF More, Bad
  <2>3. line(buf, 0) # Nothing BY <2>1, <2>2 DEF parse_inline
  <2>4. parse(buf, x).used = line(buf, 0).next BY <2>1, <2>2, <2>3 DEF parse_inline, Done
  <2>5. line(buf, 0).next \in Nat /\ 0 < line(buf, 0).next /\ line(buf, 0).next <= Len(buf) BY <2>3, LineOr
  <2> QED BY <2>4, <2>5
<1> QED BY <1>3, <1>4

\* What is in the argument list before makes no difference.
LEMMA ParseFresh == ASSUME NEW buf, NEW x, NEW y PROVE parse(buf, x) = parse(buf, y)
BY DEF parse, Cleared

-----------------------------------------------------------------------------
(* The look-ahead's walk. *)

Peeks == [used : Nat, key : Spans \cup {Nothing}]

Look(buf, so, n) == IF so = Nothing THEN Nothing ELSE peek_bulk(buf, so, n)

\* What peek's walk over count bulks after used is.
LooksAre(g, buf, used, count) ==
  g = [i \in 0 .. count |-> IF i = 0 THEN [used |-> used, key |-> Nothing]
                            ELSE IF g[i - 1] = Nothing THEN Nothing ELSE peek_bulk(buf, g[i - 1], i - 1)]

\* Nothing is not a place.
LEMMA NoPeek == Nothing \notin Peeks
BY NothingAssumption DEF Peeks, Spans

\* The look-ahead takes a whole bulk, and nothing else.
LEMMA LookIs ==
  ASSUME NEW buf \in Bytes, NEW so \in Peeks, NEW n
  PROVE  \/ /\ Look(buf, so, n) = Nothing
            /\ ~\E head, len : BulkAt(buf, so.used, head, len)
         \/ \E head, len :
              /\ BulkAt(buf, so.used, head, len)
              /\ Look(buf, so, n) = [used |-> head.next + len + 2,
                                     key |-> IF n = KEY THEN [at |-> head.next, len |-> len] ELSE so.key]
<1> DEFINE head == line(buf, so.used)
           len == bulk_len(head.text)
<1>1. Look(buf, so, n) =
        IF head = Nothing THEN Nothing
        ELSE IF len = Nothing THEN Nothing
        ELSE IF Len(buf) < head.next + len + 2 THEN Nothing
        ELSE [used |-> head.next + len + 2,
              key |-> IF n = KEY THEN [at |-> head.next, len |-> len] ELSE so.key]
  BY NoPeek DEF Look, peek_bulk
<1>2. so.used \in Nat BY DEF Peeks
<1>3. CASE head = Nothing \/ len = Nothing
  <2>1. ~\E h, l : BulkAt(buf, so.used, h, l) BY <1>3 DEF BulkAt
  <2> QED BY <1>1, <1>3, <2>1
<1>4. CASE head # Nothing /\ len # Nothing
  <2>1. Len(buf) \in Nat BY DEF Bytes
  <2>2. head.next \in Nat /\ head.text \in Bytes BY <1>2, <1>4, LineOr
  <2>3. len \in 0 .. MAX_BULK BY <1>4, <2>2, BulkLen
  <2>4. Len(buf) < head.next + len + 2 <=> ~(head.next + len + 2 <= Len(buf))
    <3> HIDE DEF head, len
    <3> QED BY <2>1, <2>2, <2>3, Limits
  <2>5. CASE Len(buf) < head.next + len + 2
    <3>1. ~\E h, l : BulkAt(buf, so.used, h, l) BY <2>4, <2>5 DEF BulkAt
    <3> QED BY <1>1, <1>4, <2>5, <3>1
  <2>6. CASE ~(Len(buf) < head.next + len + 2)
    <3>1. BulkAt(buf, so.used, head, len) BY <1>4, <2>4, <2>6 DEF BulkAt
    <3>2. Look(buf, so, n) = [used |-> head.next + len + 2,
                              key |-> IF n = KEY THEN [at |-> head.next, len |-> len] ELSE so.key]
      BY <1>1, <1>4, <2>6
    <3> HIDE DEF head, len
    <3> QED BY <3>1, <3>2
  <2> QED BY <2>5, <2>6
<1> QED BY <1>3, <1>4

\* It takes every whole bulk.
LEMMA LookTakes ==
  ASSUME NEW buf \in Bytes, NEW so \in Peeks, NEW n, NEW head, NEW len, BulkAt(buf, so.used, head, len)
  PROVE  Look(buf, so, n) = [used |-> head.next + len + 2,
                             key |-> IF n = KEY THEN [at |-> head.next, len |-> len] ELSE so.key]
<1>1. so.used \in Nat /\ so # Nothing BY NoPeek DEF Peeks
<1>2. head.next \in Nat /\ len \in Nat /\ Len(buf) \in Nat /\ head.next + len + 2 <= Len(buf) BY <1>1, BulkFits
<1>3. head = line(buf, so.used) /\ head # Nothing /\ len = bulk_len(head.text) /\ len # Nothing BY DEF BulkAt
<1>4. ~(Len(buf) < head.next + len + 2) BY <1>2
<1> QED BY <1>1, <1>3, <1>4 DEF Look, peek_bulk

\* The parser takes a whole bulk too.
LEMMA StepTakes ==
  ASSUME NEW buf \in Bytes, NEW so \in Outcomes, so.is = "done", Len(so.spans) < MAX_ARGS,
         NEW head, NEW len, BulkAt(buf, so.used, head, len)
  PROVE  Step(buf, so) = Done(head.next + len + 2, Append(so.spans, [at |-> head.next, len |-> len]))
<1>1. so.used \in Nat /\ so.spans \in Seq(Spans) BY DEF Outcomes
<1>2. /\ head.next \in Nat /\ len \in Nat /\ Len(buf) \in Nat /\ head.next + len + 2 <= Len(buf)
  BY <1>1, BulkFits
<1>3. head = line(buf, so.used) /\ head # Nothing /\ len = bulk_len(head.text) /\ len # Nothing BY DEF BulkAt
<1>4. ~(Len(buf) < head.next + len + 2) BY <1>2
<1>5. ~(Len(so.spans) >= MAX_ARGS)
  <2>1. Len(so.spans) \in Nat BY <1>1
  <2> QED BY <2>1, Limits
<1> QED BY <1>3, <1>4, <1>5 DEF Step, parse_bulk

\* A look is a place, or Nothing.
LEMMA LookFits ==
  ASSUME NEW buf \in Bytes, NEW so \in Peeks \cup {Nothing}, NEW n
  PROVE  Look(buf, so, n) \in Peeks \cup {Nothing}
<1>1. CASE so = Nothing BY <1>1 DEF Look
<1>2. CASE so # Nothing
  <2>1. so \in Peeks /\ so.used \in Nat /\ so.key \in Spans \cup {Nothing} BY <1>2 DEF Peeks
  <2>2. CASE Look(buf, so, n) = Nothing BY <2>2
  <2>3. CASE Look(buf, so, n) # Nothing
    <3>1. PICK head, len :
            /\ BulkAt(buf, so.used, head, len)
            /\ Look(buf, so, n) = [used |-> head.next + len + 2,
                                   key |-> IF n = KEY THEN [at |-> head.next, len |-> len] ELSE so.key]
      BY <2>1, <2>3, LookIs
    <3>2. head.next + len + 2 \in Nat /\ [at |-> head.next, len |-> len] \in Spans BY <2>1, <3>1, BulkFits
    <3>3. PICK u \in Nat, k \in Spans \cup {Nothing} : Look(buf, so, n) = [used |-> u, key |-> k]
      BY <2>1, <3>1, <3>2
    <3> QED BY <3>3 DEF Peeks
  <2> QED BY <2>2, <2>3
<1> QED BY <1>1, <1>2

\* There is such a walk.
LEMMA LooksExist ==
  ASSUME NEW buf \in Bytes, NEW used \in Nat, NEW count \in Nat
  PROVE  \E g : LooksAre(g, buf, used, count)
<1> DEFINE S == Peeks \cup {Nothing}
           x == [used |-> used, key |-> Nothing]
<1>1. x \in S BY DEF Peeks
<1>2. PICK F : F = [i \in Nat |-> [o \in S |-> Look(buf, o, i - 1)]] OBVIOUS
<1>3. Maps(F, S)
  <2>1. ASSUME NEW i \in Nat PROVE [o \in S |-> Look(buf, o, i - 1)] \in [S -> S] BY LookFits
  <2> QED BY <1>2, <2>1 DEF Maps
<1>4. \A i \in Nat, o \in S : F[i][o] = Look(buf, o, i - 1) BY <1>2
<1> HIDE DEF S, x
<1>5. PICK f : Follows(f, S, x, F, count) BY <1>1, <1>3, Recurs
<1>6. f \in [0 .. count -> S] /\ f[0] = x /\ \A i \in 1 .. count : f[i] = F[i][f[i - 1]] BY <1>5 DEF Follows
<1>7. ASSUME NEW i \in 1 .. count PROVE f[i] = Look(buf, f[i - 1], i - 1)
  <2>1. i - 1 \in 0 .. count /\ i \in Nat OBVIOUS
  <2>2. f[i - 1] \in S BY <1>6, <2>1
  <2> QED BY <1>4, <1>6, <2>1, <2>2
<1>8. \A i \in 0 .. count : i # 0 => i \in 1 .. count OBVIOUS
<1>9. \A i \in 0 .. count :
        f[i] = IF i = 0 THEN x ELSE IF f[i - 1] = Nothing THEN Nothing ELSE peek_bulk(buf, f[i - 1], i - 1)
  BY <1>6, <1>7, <1>8 DEF Look
<1> DEFINE h == [i \in 0 .. count |->
                   IF i = 0 THEN x ELSE IF f[i - 1] = Nothing THEN Nothing ELSE peek_bulk(buf, f[i - 1], i - 1)]
<1>10. f = h BY <1>6, <1>9
<1> QED BY <1>10 DEF LooksAre, x

\* The two walks find the same, bulk by bulk, and the key is the second span.
LEMMA WalksAgree ==
  ASSUME NEW buf \in Bytes, NEW used \in Nat, used <= Len(buf), NEW count \in Nat, count <= MAX_ARGS,
         NEW f, NEW g, Walks(f, buf, Done(used, <<>>), count), LooksAre(g, buf, used, count)
  PROVE  \A i \in 0 .. count :
           /\ g[i] \in Peeks \cup {Nothing}
           /\ f[i].is = "done" <=> g[i] # Nothing
           /\ f[i].is = "done" => /\ f[i].used = g[i].used
                                  /\ g[i].key = IF i > 1 THEN f[i].spans[2] ELSE Nothing
<1>1. PICK so \in Outcomes : so = Done(used, <<>>) /\ so.is = "done" /\ so.used = used /\ so.spans = <<>>
  <2>1. <<>> \in Seq(Spans) OBVIOUS
  <2> QED BY <2>1, MakesOutcome
<1>2. /\ f[0] = so /\ \A i \in 1 .. count : f[i] = Step(buf, f[i - 1])
      /\ \A i \in 0 .. count : f[i] \in Outcomes /\ (f[i].is = "done" => Len(f[i].spans) = i)
  BY <1>1, WalkIs
<1>3. g[0] = [used |-> used, key |-> Nothing] /\ \A i \in 1 .. count : g[i] = Look(buf, g[i - 1], i - 1)
  <2>1. \A i \in 0 .. count :
          g[i] = IF i = 0 THEN [used |-> used, key |-> Nothing]
                 ELSE IF g[i - 1] = Nothing THEN Nothing ELSE peek_bulk(buf, g[i - 1], i - 1)
    <3>1. g = [i \in 0 .. count |-> IF i = 0 THEN [used |-> used, key |-> Nothing]
                            ELSE IF g[i - 1] = Nothing THEN Nothing ELSE peek_bulk(buf, g[i - 1], i - 1)]
      BY DEF LooksAre
    <3> QED BY <3>1
  <2>2. 0 \in 0 .. count /\ \A i \in 1 .. count : i \in 0 .. count /\ i # 0 OBVIOUS
  <2> QED BY <2>1, <2>2 DEF Look
<1> DEFINE P(i) == /\ g[i] \in Peeks \cup {Nothing}
                   /\ f[i].is = "done" <=> g[i] # Nothing
                   /\ f[i].is = "done" => /\ f[i].used = g[i].used
                                          /\ g[i].key = IF i > 1 THEN f[i].spans[2] ELSE Nothing
           T == {i \in Nat : P(i)}
<1>4. 0 \in T
  <2>1. g[0] \in Peeks /\ g[0].used = used /\ g[0].key = Nothing BY <1>3 DEF Peeks
  <2>2. g[0] # Nothing BY <2>1, NoPeek
  <2>3. f[0].is = "done" /\ f[0].used = used BY <1>1, <1>2
  <2>4. ~(0 > 1) /\ 0 \in Nat OBVIOUS
  <2> QED BY <2>1, <2>2, <2>3, <2>4
<1>5. ASSUME NEW i \in Nat, i < count, i \in T PROVE i + 1 \in T
  <2>1. i + 1 \in 1 .. count /\ i + 1 - 1 = i /\ i \in 0 .. count /\ i + 1 \in 0 .. count BY <1>5
  <2>2. f[i + 1] = Step(buf, f[i]) /\ g[i + 1] = Look(buf, g[i], i) BY <1>2, <1>3, <2>1
  <2>3. P(i) BY <1>5
  <2>4. f[i] \in Outcomes /\ f[i + 1] \in Outcomes BY <1>2, <2>1
  <2>5. g[i + 1] \in Peeks \cup {Nothing} BY <2>2, <2>3, LookFits
  <2>6. CASE f[i].is # "done"
    <3>1. g[i] = Nothing BY <2>3, <2>6
    <3>2. g[i + 1] = Nothing BY <2>2, <3>1 DEF Look
    <3>3. f[i + 1].is # "done" BY <2>2, <2>6 DEF Step
    <3> QED BY <2>5, <3>2, <3>3
  <2>7. CASE f[i].is = "done"
    <3>1. g[i] # Nothing /\ g[i] \in Peeks /\ f[i].used = g[i].used BY <2>3, <2>7
    <3>2. Len(f[i].spans) = i /\ f[i].spans \in Seq(Spans) /\ f[i].used \in Nat BY <1>2, <2>1, <2>4, <2>7 DEF Outcomes
    <3>3. CASE ~\E head, len : BulkAt(buf, f[i].used, head, len)
      <4>1. f[i + 1].is # "done" BY <2>2, <2>4, <3>3, StepIs, Zenon
      <4>2. g[i + 1] = Nothing BY <2>2, <3>1, <3>3, LookIs
      <4> QED BY <2>5, <4>1, <4>2
    <3>4. CASE \E head, len : BulkAt(buf, f[i].used, head, len)
      <4>1. PICK head, len :
              /\ BulkAt(buf, g[i].used, head, len)
              /\ g[i + 1] = [used |-> head.next + len + 2,
                             key |-> IF i = KEY THEN [at |-> head.next, len |-> len] ELSE g[i].key]
        <5>1. PICK o \in Peeks : o = g[i] BY <3>1
        <5>2. PICK head, len : BulkAt(buf, o.used, head, len) BY <3>1, <3>4, <5>1
        <5>3. Look(buf, o, i) = [used |-> head.next + len + 2,
                                 key |-> IF i = KEY THEN [at |-> head.next, len |-> len] ELSE o.key]
          BY <5>2, LookTakes
        <5> QED BY <2>2, <5>1, <5>2, <5>3
      <4>2. PICK span : span = [at |-> head.next, len |-> len] OBVIOUS
      <4>3. PICK end : end = head.next + len + 2 OBVIOUS
      <4>4. span \in Spans /\ end \in Nat BY <3>1, <3>2, <4>1, <4>2, <4>3, BulkFits
      <4>5. Len(f[i].spans) < MAX_ARGS BY <1>5, <3>2, Limits
      <4>6. f[i + 1] = Done(end, Append(f[i].spans, span))
        BY <2>2, <2>4, <2>7, <3>1, <4>1, <4>2, <4>3, <4>5, StepTakes
      <4>7. f[i + 1].is = "done" /\ f[i + 1].used = end /\ f[i + 1].spans = Append(f[i].spans, span)
        BY <4>6 DEF Done
      <4>8. g[i + 1].used = end /\ g[i + 1].key = IF i = 1 THEN span ELSE g[i].key
        BY <4>1, <4>2, <4>3 DEF KEY
      <4>9. g[i + 1] # Nothing
        <5>1. g[i].key \in Spans \cup {Nothing} BY <3>1 DEF Peeks
        <5>2. PICK k \in Spans \cup {Nothing} : g[i + 1] = [used |-> end, key |-> k] BY <4>1, <4>2, <4>3, <4>4, <5>1
        <5>3. [used |-> end, key |-> k] \in Peeks BY <4>4 DEF Peeks
        <5> QED BY <5>2, <5>3, NoPeek
      <4>10. Append(f[i].spans, span)[i + 1] = span
             /\ \A j \in 1 .. i : Append(f[i].spans, span)[j] = f[i].spans[j]
        BY <3>2, <4>4, AppendProperties
      <4>11. g[i + 1].key = IF i + 1 > 1 THEN f[i + 1].spans[2] ELSE Nothing
        <5>1. CASE i = 0
          <6>1. ~(i + 1 > 1) /\ i # 1 /\ ~(i > 1) BY <5>1
          <6> QED BY <2>3, <2>7, <4>8, <6>1
        <5>2. CASE i = 1
          <6>1. i + 1 > 1 /\ i + 1 = 2 BY <5>2
          <6> QED BY <4>7, <4>8, <4>10, <5>2, <6>1
        <5>3. CASE i > 1
          <6>1. i + 1 > 1 /\ i # 1 /\ 2 \in 1 .. i BY <5>3
          <6>2. g[i].key = f[i].spans[2] BY <2>3, <2>7, <5>3
          <6> QED BY <4>7, <4>8, <4>10, <6>1, <6>2
        <5> QED BY <5>1, <5>2, <5>3
      <4>12. PICK j \in Nat : j = i + 1 OBVIOUS
      <4>13. f[j].is = "done" /\ g[j] # Nothing /\ f[j].used = g[j].used BY <4>7, <4>8, <4>9, <4>12
      <4>14. g[j] \in Peeks \cup {Nothing} /\ g[j].key = IF j > 1 THEN f[j].spans[2] ELSE Nothing
        BY <2>5, <4>11, <4>12
      <4>15. P(j) BY <4>13, <4>14
      <4> HIDE DEF P
      <4> QED BY <4>12, <4>15
    <3> QED BY <3>3, <3>4
  <2> QED BY <2>6, <2>7
<1>6. \A i \in 0 .. count : i \in T
  <2> HIDE DEF T
  <2> QED BY <1>4, <1>5, Induct
<1> QED BY <1>6

-----------------------------------------------------------------------------
(* The encoder's decimals, read back. *)

\* decimalOf's equation, up to m.
Spelt(f, n) == f[n] = IF n < 10 THEN <<n>> ELSE Append(f[n \div 10], n % 10)
Spells(f, m) == \A n \in 0 .. m : Spelt(f, n)

\* A number without its last digit.
LEMMA Tenth ==
  ASSUME NEW n \in Nat
  PROVE  /\ n \div 10 \in Nat /\ n % 10 \in 0 .. 9 /\ n = 10 * (n \div 10) + (n % 10)
         /\ n >= 10 => n \div 10 < n
OBVIOUS

\* The equation has a solution up to any m.
LEMMA SpellsExist == ASSUME NEW m \in Nat PROVE \E f : Spells(f, m)
<1> DEFINE T == {k \in Nat : \E f : Spells(f, k)}
<1>1. 0 \in T
  <2> DEFINE g == [i \in 0 .. 0 |-> <<0>>]
  <2>1. Spells(g, 0) BY DEF Spells, Spelt
  <2> HIDE DEF g
  <2> QED BY <2>1
<1>2. ASSUME NEW k \in Nat, k < m, k \in T PROVE k + 1 \in T
  <2>1. PICK f : Spells(f, k) BY <1>2
  <2>2. PICK n \in Nat : n = k + 1 OBVIOUS
  <2> DEFINE g == [i \in 0 .. n |-> IF i # n THEN f[i]
                                    ELSE IF n < 10 THEN <<n>> ELSE Append(f[n \div 10], n % 10)]
  <2>3. ASSUME NEW i \in 0 .. n PROVE Spelt(g, i)
    <3>1. i \div 10 \in Nat /\ (i >= 10 => i \div 10 < i) BY Tenth
    <3>2. i >= 10 => i \div 10 \in 0 .. n /\ i \div 10 # n BY <3>1
    <3>3. i >= 10 => g[i \div 10] = f[i \div 10] BY <3>2
    <3>4. CASE i = n
      <4>1. g[i] = IF i < 10 THEN <<i>> ELSE Append(f[i \div 10], i % 10) BY <3>4
      <4> HIDE DEF g
      <4> QED BY <3>3, <4>1 DEF Spelt
    <3>5. CASE i # n
      <4>1. g[i] = f[i] BY <3>5
      <4>2. i \in 0 .. k BY <2>2, <3>5
      <4>3. Spelt(f, i) BY <2>1, <4>2 DEF Spells
      <4> HIDE DEF g
      <4> QED BY <3>3, <4>1, <4>3 DEF Spelt
    <3> QED BY <3>4, <3>5
  <2> HIDE DEF g
  <2>4. Spells(g, n) BY <2>3 DEF Spells
  <2> QED BY <2>2, <2>4
<1>3. m \in T
  <2> HIDE DEF T
  <2>1. \A i \in 0 .. m : i \in T BY <1>1, <1>2, Induct
  <2> QED BY <2>1
<1> QED BY <1>3

\* Its solutions agree as far as both go.
LEMMA SpellsAgree ==
  ASSUME NEW m \in Nat, NEW k \in Nat, NEW f, NEW g, Spells(f, m), Spells(g, k)
  PROVE  \A n \in Nat : n <= m /\ n <= k => f[n] = g[n]
<1> DEFINE T == {n \in Nat : n <= m /\ n <= k /\ f[n] # g[n]}
<1> SUFFICES ASSUME T # {} PROVE FALSE OBVIOUS
<1>1. T \subseteq Nat OBVIOUS
<1>2. PICK n \in T : \A j \in T : n <= j
  <2> HIDE DEF T
  <2> QED BY <1>1, Smallest
<1>3. n \in Nat /\ n <= m /\ n <= k /\ f[n] # g[n] OBVIOUS
<1>4. Spelt(f, n) /\ Spelt(g, n) BY <1>3 DEF Spells
<1>5. n >= 10 BY <1>3, <1>4 DEF Spelt
<1>6. PICK j \in Nat : j = n \div 10 /\ j < n BY <1>3, <1>5, Tenth
<1>7. j \notin T BY <1>2, <1>6
<1>8. f[j] = g[j] BY <1>3, <1>6, <1>7
<1>9. ~(n < 10) BY <1>3, <1>5
<1> QED BY <1>3, <1>4, <1>6, <1>8, <1>9 DEF Spelt

\* decimalOf solves it for every number.
LEMMA DecimalIs == \A n \in Nat : Spelt(decimalOf, n)
<1> DEFINE D(m) == CHOOSE f : Spells(f, m)
           d == [n \in Nat |-> D(n)[n]]
           E(f) == [n \in Nat |-> IF n < 10 THEN <<n>> ELSE Append(f[n \div 10], n % 10)]
<1>1. \A m \in Nat : Spells(D(m), m) BY SpellsExist
<1> HIDE DEF D
<1>2. ASSUME NEW n \in Nat PROVE d[n] = E(d)[n]
  <2>1. Spelt(D(n), n)
    <3>1. n \in 0 .. n OBVIOUS
    <3> QED BY <1>1, <3>1 DEF Spells
  <2>2. PICK j \in Nat : j = n \div 10 /\ (n >= 10 => j < n) BY Tenth
  <2>3. n >= 10 => D(n)[j] = D(j)[j]
    <3> SUFFICES ASSUME n >= 10 PROVE D(n)[j] = D(j)[j] OBVIOUS
    <3>1. j <= n /\ j <= j BY <2>2
    <3>2. Spells(D(n), n) /\ Spells(D(j), j) BY <1>1
    <3> QED BY <3>1, <3>2, SpellsAgree
  <2>4. d[n] = D(n)[n] /\ d[j] = D(j)[j] OBVIOUS
  <2>5. E(d)[n] = IF n < 10 THEN <<n>> ELSE Append(d[j], n % 10) BY <2>2
  <2> HIDE DEF d, E
  <2>6. n < 10 \/ n >= 10 OBVIOUS
  <2> QED BY <2>1, <2>2, <2>3, <2>4, <2>5, <2>6 DEF Spelt
<1>3. d = E(d)
  <2>1. \A n \in Nat : d[n] = E(d)[n] BY <1>2
  <2> QED BY <2>1
<1>4. \E f : f = E(f)
  <2> HIDE DEF d, E
  <2> QED BY <1>3
<1>5. decimalOf = CHOOSE f : f = E(f) BY DEF decimalOf
<1>6. decimalOf = E(decimalOf)
  <2> HIDE DEF E
  <2> QED BY <1>4, <1>5
<1>7. PICK f : f = decimalOf OBVIOUS
<1>8. f = E(f) BY <1>6, <1>7
<1>9. \A n \in Nat : f[n] = IF n < 10 THEN <<n>> ELSE Append(f[n \div 10], n % 10) BY <1>8
<1> QED BY <1>7, <1>9 DEF Spelt

\* A digit at the end.
LEMMA ValueAppend ==
  ASSUME NEW digits \in Bytes, NEW digit \in Nat
  PROVE  value_of(Append(digits, digit)) = Digit(value_of(digits), digit)
<1>1. PICK n \in Nat : n = Len(digits) BY DEF Bytes
<1>2. PICK more : more = Append(digits, digit) OBVIOUS
<1>3. /\ more \in Bytes /\ Len(more) = n + 1 /\ more[n + 1] = digit
      /\ \A i \in 1 .. n : more[i] = digits[i]
  BY <1>1, <1>2, AppendProperties DEF Bytes
<1>4. PICK f : /\ f[0] = 0 /\ \A i \in 1 .. Len(more) : f[i] = Digit(f[i - 1], more[i])
               /\ value_of(more) = f[Len(more)]
  BY <1>3, SumsAre
<1>5. \A i \in 1 .. n : i \in 1 .. Len(more) BY <1>3
<1>6. \A i \in 1 .. Len(digits) : f[i] = Digit(f[i - 1], digits[i]) BY <1>1, <1>3, <1>4, <1>5
<1>7. value_of(digits) = f[n] BY <1>1, <1>4, <1>6, SumsOne
<1>8. n + 1 \in 1 .. Len(more) /\ n + 1 - 1 = n BY <1>3
<1>9. f[n + 1] = Digit(f[n], digit) BY <1>3, <1>4, <1>8
<1> QED BY <1>2, <1>3, <1>4, <1>7, <1>9

\* No digits spell 0.
LEMMA ValueEmpty == value_of(<<>>) = 0
<1>1. <<>> \in Bytes /\ Len(<<>>) = 0 BY DEF Bytes
<1> QED BY <1>1, SumsAre

\* The digits of a number spell it.
LEMMA DecimalReads ==
  ASSUME NEW n \in Nat
  PROVE  /\ decimalOf[n] \in Seq(0 .. 9) /\ decimalOf[n] # <<>>
         /\ n <= WIRE_MAX => value_of(decimalOf[n]) = n
<1> DEFINE P(k) == /\ decimalOf[k] \in Seq(0 .. 9) /\ decimalOf[k] # <<>>
                   /\ k <= WIRE_MAX => value_of(decimalOf[k]) = k
           T == {k \in Nat : ~P(k)}
<1> SUFFICES ASSUME T # {} PROVE FALSE OBVIOUS
<1>1. T \subseteq Nat OBVIOUS
<1>2. PICK k \in T : \A j \in T : k <= j
  <2> HIDE DEF T
  <2> QED BY <1>1, Smallest
<1>3. k \in Nat /\ ~P(k) OBVIOUS
<1>4. Spelt(decimalOf, k) BY <1>3, DecimalIs
<1>5. CASE k < 10
  <2>1. k \in 0 .. 9 BY <1>3, <1>5
  <2>2. decimalOf[k] = <<k>> BY <1>4, <1>5 DEF Spelt
  <2>3. <<k>> \in Seq(0 .. 9) /\ <<k>> # <<>> BY <2>1
  <2>4. <<k>> = Append(<<>>, k) OBVIOUS
  <2>5. <<>> \in Bytes BY DEF Bytes
  <2>6. value_of(<<k>>) = Digit(0, k) BY <1>3, <2>4, <2>5, ValueAppend, ValueEmpty
  <2>7. 0 # Nothing BY NothingAssumption
  <2>8. k <= WIRE_MAX => Digit(0, k) = k BY <1>3, <2>1, <2>7, Limits DEF Digit
  <2> QED BY <1>3, <2>2, <2>3, <2>6, <2>8
<1>6. CASE k >= 10
  <2>1. PICK j \in Nat, r \in 0 .. 9 : j = k \div 10 /\ r = k % 10 /\ k = 10 * j + r /\ j < k
    BY <1>3, <1>6, Tenth
  <2>2. decimalOf[k] = Append(decimalOf[j], r)
    <3>1. ~(k < 10) BY <1>3, <1>6
    <3> QED BY <1>4, <2>1, <3>1 DEF Spelt
  <2>3. j \notin T BY <1>2, <1>3, <2>1
  <2>4. P(j) BY <2>3
  <2>5. decimalOf[j] \in Seq(0 .. 9) BY <2>4
  <2>6. Append(decimalOf[j], r) \in Seq(0 .. 9) /\ Len(Append(decimalOf[j], r)) = Len(decimalOf[j]) + 1
    BY <2>5, AppendProperties
  <2>7. Append(decimalOf[j], r) # <<>>
    <3>1. Len(decimalOf[j]) \in Nat BY <2>5
    <3>2. Len(decimalOf[j]) + 1 # 0 BY <3>1
    <3>3. Len(<<>>) = 0 OBVIOUS
    <3> QED BY <2>6, <3>2, <3>3
  <2>8. decimalOf[j] \in Bytes
    <3>1. 0 .. 9 \subseteq Nat OBVIOUS
    <3> QED BY <2>5, <3>1, SeqMonotonic DEF Bytes
  <2>9. value_of(Append(decimalOf[j], r)) = Digit(value_of(decimalOf[j]), r)
    <3>1. r \in Nat OBVIOUS
    <3> QED BY <2>8, <3>1, ValueAppend
  <2>10. ASSUME k <= WIRE_MAX PROVE value_of(decimalOf[k]) = k
    <3>1. j <= WIRE_MAX BY <2>1, <2>10, Limits
    <3>2. value_of(decimalOf[j]) = j BY <2>4, <3>1
    <3>3. j # Nothing BY NothingAssumption
    <3>4. ~(10 * j + r > WIRE_MAX) BY <1>3, <2>1, <2>10, Limits
    <3>5. Digit(j, r) = k BY <2>1, <3>3, <3>4 DEF Digit
    <3> QED BY <2>2, <2>9, <3>2, <3>5
  <2> QED BY <1>3, <2>2, <2>6, <2>7, <2>10
<1> QED BY <1>3, <1>5, <1>6

-----------------------------------------------------------------------------
(* What the encoder writes, read back. *)

\* The bytes s are in buf, after the first p.
Occurs(s, buf, p) == p + Len(s) <= Len(buf) /\ \A i \in 1 .. Len(s) : buf[p + i] = s[i]

\* A part of what occurs does too.
LEMMA OccursIn ==
  ASSUME NEW s \in Bytes, NEW t \in Bytes, NEW buf \in Bytes, NEW p \in Nat, NEW q \in Nat,
         Occurs(s, buf, p), Occurs(t, s, q)
  PROVE  Occurs(t, buf, p + q)
<1>1. Len(s) \in Nat /\ Len(t) \in Nat /\ Len(buf) \in Nat BY DEF Bytes
<1>2. p + Len(s) <= Len(buf) /\ \A i \in 1 .. Len(s) : buf[p + i] = s[i] BY DEF Occurs
<1>3. q + Len(t) <= Len(s) /\ \A i \in 1 .. Len(t) : s[q + i] = t[i] BY DEF Occurs
<1>4. p + q + Len(t) <= Len(buf) BY <1>1, <1>2, <1>3
<1>5. ASSUME NEW i \in 1 .. Len(t) PROVE buf[p + q + i] = t[i]
  <2>1. PICK j \in 1 .. Len(s) : j = q + i /\ p + j = p + q + i BY <1>1, <1>3
  <2> QED BY <1>2, <1>3, <2>1
<1> QED BY <1>4, <1>5 DEF Occurs

\* Both halves of a concatenation occur in it.
LEMMA OccursHalf ==
  ASSUME NEW s \in Bytes, NEW t \in Bytes
  PROVE  /\ s \o t \in Bytes /\ Len(s \o t) = Len(s) + Len(t)
         /\ Occurs(s, s \o t, 0) /\ Occurs(t, s \o t, Len(s))
<1>1. Len(s) \in Nat /\ Len(t) \in Nat BY DEF Bytes
<1>2. /\ s \o t \in Seq(Nat) /\ Len(s \o t) = Len(s) + Len(t)
      /\ \A i \in 1 .. Len(s) + Len(t) : (s \o t)[i] = IF i <= Len(s) THEN s[i] ELSE t[i - Len(s)]
  BY ConcatProperties DEF Bytes
<1>3. PICK w : w = s \o t OBVIOUS
<1>4. Occurs(s, w, 0)
  <2>1. ASSUME NEW i \in 1 .. Len(s) PROVE w[0 + i] = s[i]
    <3>1. i \in 1 .. Len(s) + Len(t) /\ i <= Len(s) /\ 0 + i = i BY <1>1
    <3> QED BY <1>2, <1>3, <3>1
  <2> QED BY <1>1, <1>2, <1>3, <2>1 DEF Occurs
<1>5. Occurs(t, w, Len(s))
  <2>1. ASSUME NEW i \in 1 .. Len(t) PROVE w[Len(s) + i] = t[i]
    <3>1. PICK j : j = Len(s) + i OBVIOUS
    <3>2. j \in 1 .. Len(s) + Len(t) /\ ~(j <= Len(s)) /\ j - Len(s) = i BY <1>1, <3>1
    <3> QED BY <1>2, <1>3, <3>1, <3>2
  <2> QED BY <1>1, <1>2, <1>3, <2>1 DEF Occurs
<1> QED BY <1>2, <1>3, <1>4, <1>5 DEF Bytes

\* What a header is, byte by byte.
LEMMA HeaderIs ==
  ASSUME NEW mark \in {STAR, DOLLAR}, NEW n \in Nat
  PROVE  LET h == header(mark, n)
             d == decimalOf[n]
         IN  /\ h \in Bytes /\ d \in Bytes /\ Len(d) \in Nat /\ Len(d) > 0 /\ Len(h) = Len(d) + 3
             /\ h[1] = mark /\ h[Len(d) + 2] = CR /\ h[Len(d) + 3] = NL
             /\ \A i \in 1 .. Len(d) : h[1 + i] = d[i] /\ d[i] \in 0 .. 9
<1> DEFINE d == decimalOf[n]
<1>1. d \in Seq(0 .. 9) /\ d # <<>> BY DecimalReads
<1>2. d \in Bytes
  <2>1. 0 .. 9 \subseteq Nat OBVIOUS
  <2> HIDE DEF d
  <2> QED BY <1>1, <2>1, SeqMonotonic DEF Bytes
<1>3. header(mark, n) = (<<mark>> \o d) \o <<CR, NL>> BY DEF header
<1> HIDE DEF d
<1>4. Len(d) \in Nat /\ Len(d) > 0 /\ \A i \in 1 .. Len(d) : d[i] \in 0 .. 9 BY <1>1, EmptySeq, ElementOfSeq
<1>5. PICK m : m = <<mark>> OBVIOUS
<1>6. PICK e : e = <<CR, NL>> OBVIOUS
<1>7. m \in Bytes /\ Len(m) = 1 /\ m[1] = mark BY <1>5 DEF Bytes, STAR, DOLLAR
<1>8. e \in Bytes /\ Len(e) = 2 /\ e[1] = CR /\ e[2] = NL BY <1>6 DEF Bytes, CR, NL
<1>9. PICK a : a = m \o d OBVIOUS
<1>10. a \in Bytes /\ Len(a) = 1 + Len(d) /\ Occurs(m, a, 0) /\ Occurs(d, a, 1)
  BY <1>2, <1>7, <1>9, OccursHalf
<1>11. PICK h : h = a \o e OBVIOUS
<1>12. h \in Bytes /\ Len(h) = Len(a) + 2 /\ Occurs(a, h, 0) /\ Occurs(e, h, Len(a))
  BY <1>8, <1>10, <1>11, OccursHalf
<1>13. Len(h) = Len(d) + 3 BY <1>4, <1>10, <1>12
<1>14. h[1] = mark
  <2>1. a[0 + 1] = m[1] BY <1>7, <1>10 DEF Occurs
  <2>2. 1 \in 1 .. Len(a) BY <1>4, <1>10
  <2>3. h[0 + 1] = a[1] BY <1>12, <2>2 DEF Occurs
  <2> QED BY <1>7, <2>1, <2>3
<1>15. h[Len(d) + 2] = CR /\ h[Len(d) + 3] = NL
  <2>1. h[Len(a) + 1] = e[1] /\ h[Len(a) + 2] = e[2] BY <1>8, <1>12 DEF Occurs
  <2>2. Len(a) + 1 = Len(d) + 2 /\ Len(a) + 2 = Len(d) + 3 BY <1>4, <1>10
  <2> QED BY <1>8, <2>1, <2>2
<1>16. ASSUME NEW i \in 1 .. Len(d) PROVE h[1 + i] = d[i]
  <2>1. a[1 + i] = d[i] BY <1>10 DEF Occurs
  <2>2. 1 + i \in 1 .. Len(a) /\ 0 + (1 + i) = 1 + i BY <1>4, <1>10
  <2>3. h[0 + (1 + i)] = a[1 + i] BY <1>12, <2>2 DEF Occurs
  <2> QED BY <2>1, <2>2, <2>3
<1>17. header(mark, n) = h BY <1>3, <1>5, <1>6, <1>9, <1>11
<1> QED BY <1>2, <1>4, <1>12, <1>13, <1>14, <1>15, <1>16, <1>17 DEF d

\* The header of n is read as a line, and its text as n.
LEMMA HeaderReads ==
  ASSUME NEW mark \in {STAR, DOLLAR}, NEW n \in Nat, n <= WIRE_MAX,
         NEW buf \in Bytes, NEW p \in Nat, Occurs(header(mark, n), buf, p)
  PROVE  /\ line(buf, p) # Nothing /\ line(buf, p).next = p + Len(header(mark, n))
         /\ line(buf, p).text # <<>> /\ line(buf, p).text[1] = mark
         /\ number(Tail(line(buf, p).text)) = n
<1>1. PICK h, d : /\ h = header(mark, n) /\ d = decimalOf[n]
                  /\ h \in Bytes /\ d \in Bytes /\ Len(d) \in Nat /\ Len(d) > 0 /\ Len(h) = Len(d) + 3
                  /\ h[1] = mark /\ h[Len(d) + 2] = CR /\ h[Len(d) + 3] = NL
                  /\ \A i \in 1 .. Len(d) : h[1 + i] = d[i] /\ d[i] \in 0 .. 9
  BY HeaderIs
<1>2. PICK m \in Nat : m = Len(d) BY <1>1
<1>3. Len(buf) \in Nat BY DEF Bytes
<1>4. p + (m + 3) <= Len(buf) /\ \A i \in 1 .. m + 3 : buf[p + i] = h[i] BY <1>1, <1>2 DEF Occurs
<1>5. PICK e \in Nat : e = p + (m + 3) OBVIOUS
<1>6. EndsAt(buf, p, e)
  <2>1. e \in p + 1 .. Len(buf) BY <1>2, <1>3, <1>4, <1>5
  <2>2. buf[e] = NL
    <3>1. m + 3 \in 1 .. m + 3 BY <1>2
    <3> QED BY <1>1, <1>2, <1>4, <1>5, <3>1
  <2>3. ASSUME NEW i \in p + 1 .. e - 1 PROVE buf[i] # NL
    <3>1. PICK j : j = i - p OBVIOUS
    <3>2. j \in 1 .. m + 3 /\ p + j = i /\ (j = 1 \/ j = m + 2 \/ (j - 1 \in 1 .. m /\ 1 + (j - 1) = j))
      BY <1>2, <1>5, <3>1
    <3>3. buf[i] = h[j] BY <1>4, <3>2
    <3>4. CASE j = 1 BY <1>1, <3>3, <3>4 DEF NL, STAR, DOLLAR
    <3>5. CASE j = m + 2 BY <1>1, <1>2, <3>3, <3>5 DEF NL, CR
    <3>6. CASE j - 1 \in 1 .. m /\ 1 + (j - 1) = j
      <4>1. h[j] \in 0 .. 9 BY <1>1, <1>2, <3>6
      <4> QED BY <3>3, <4>1 DEF NL
    <3> QED BY <3>2, <3>4, <3>5, <3>6
  <2> QED BY <2>1, <2>2, <2>3 DEF EndsAt
<1>7. line(buf, p) = LineTo(buf, p, e) /\ line(buf, p) # Nothing
  <2>1. PICK f \in Nat : EndsAt(buf, p, f) /\ line(buf, p) = LineTo(buf, p, f) BY <1>6, LineIs DEF EndsAt
  <2>2. f \in p + 1 .. Len(buf) /\ buf[f] = NL /\ \A i \in p + 1 .. f - 1 : buf[i] # NL BY <2>1 DEF EndsAt
  <2>3. e \in p + 1 .. Len(buf) /\ buf[e] = NL /\ \A i \in p + 1 .. e - 1 : buf[i] # NL BY <1>6 DEF EndsAt
  <2>4. ~(f < e) /\ ~(e < f) BY <1>3, <2>2, <2>3
  <2>5. f = e BY <2>4
  <2> QED BY <1>6, <2>1, <2>5, LineFits
<1>8. line(buf, p).text = SubSeq(buf, p + 1, p + (m + 1))
  <2>1. m + 2 \in 1 .. m + 3 /\ p + (m + 2) = e - 1 /\ e - 1 > p /\ e - 2 = p + (m + 1) BY <1>2, <1>5
  <2>2. buf[e - 1] = CR BY <1>1, <1>2, <1>4, <2>1
  <2> QED BY <1>7, <2>1, <2>2 DEF LineTo
<1>9. PICK text : text = line(buf, p).text OBVIOUS
<1>10. /\ text \in Bytes /\ Len(text) = m + 1 /\ \A i \in 1 .. m + 1 : text[i] = buf[p + i]
  <2>1. \A i \in p + 1 .. p + (m + 1) : buf[i] \in Nat
    <3>1. \A i \in p + 1 .. p + (m + 1) : i \in 1 .. Len(buf) BY <1>2, <1>3, <1>4
    <3> QED BY <3>1, ElementOfSeq DEF Bytes
  <2>2. p + 1 \in Int /\ p + (m + 1) \in Int OBVIOUS
  <2>3. /\ text \in Seq(Nat)
        /\ Len(text) = IF p + 1 <= p + (m + 1) THEN p + (m + 1) - (p + 1) + 1 ELSE 0
        /\ \A i \in 1 .. p + (m + 1) - (p + 1) + 1 : text[i] = buf[p + 1 + i - 1]
    BY <1>8, <1>9, <2>1, <2>2, SubSeqProperties
  <2>4. p + (m + 1) - (p + 1) + 1 = m + 1 /\ p + 1 <= p + (m + 1) OBVIOUS
  <2>5. \A i \in 1 .. m + 1 : p + 1 + i - 1 = p + i OBVIOUS
  <2> QED BY <2>3, <2>4, <2>5 DEF Bytes
<1>11. text # <<>> /\ text[1] = mark
  <2>1. 1 \in 1 .. m + 1 /\ 1 \in 1 .. m + 3 /\ m + 1 # 0 BY <1>2
  <2>2. Len(<<>>) = 0 OBVIOUS
  <2> QED BY <1>1, <1>4, <1>10, <2>1, <2>2
<1>12. Tail(text) = d
  <2>1. /\ Tail(text) \in Bytes /\ Len(Tail(text)) = Len(text) - 1
        /\ \A i \in 1 .. Len(Tail(text)) : Tail(text)[i] = text[i + 1]
    BY <1>10, <1>11, HeadTailProperties DEF Bytes
  <2>2. Len(Tail(text)) = m BY <1>2, <1>10, <2>1
  <2>3. ASSUME NEW i \in 1 .. Len(Tail(text)) PROVE Tail(text)[i] = d[i]
    <3>1. i \in 1 .. m /\ i + 1 \in 1 .. m + 1 /\ i + 1 \in 1 .. m + 3 /\ i + 1 = 1 + i BY <1>2, <2>2
    <3>2. text[i + 1] = buf[p + (i + 1)] BY <1>10, <3>1
    <3>3. buf[p + (i + 1)] = h[1 + i] BY <1>4, <3>1
    <3> QED BY <1>1, <1>2, <2>1, <3>1, <3>2, <3>3
  <2>4. Len(Tail(text)) = Len(d) BY <1>2, <2>2
  <2> QED BY <1>1, <2>1, <2>3, <2>4, SeqEqual DEF Bytes
<1>13. number(d) = n
  <2>1. value_of(d) = n BY <1>1, DecimalReads
  <2>2. 1 \in 1 .. Len(d) BY <1>1
  <2>3. d[1] \in 0 .. 9 BY <1>1, <2>2
  <2>4. d[1] \notin {MINUS, PLUS} BY <2>3 DEF MINUS, PLUS
  <2>5. d # <<>>
    <3>1. Len(<<>>) = 0 /\ Len(d) # 0 BY <1>1
    <3> QED BY <3>1
  <2>6. n # Nothing BY NothingAssumption
  <2> QED BY <2>1, <2>4, <2>5, <2>6 DEF number
<1>14. line(buf, p).next = p + Len(header(mark, n)) BY <1>1, <1>2, <1>5, <1>7 DEF LineTo
<1> QED BY <1>7, <1>9, <1>11, <1>12, <1>13, <1>14

\* A bulk and its parts.
LEMMA BulkIs ==
  ASSUME NEW bytes \in Bytes
  PROVE  LET h == header(DOLLAR, Len(bytes))
         IN  /\ h \in Bytes /\ Len(h) \in Nat /\ bulk(bytes) \in Bytes
             /\ Len(bulk(bytes)) = Len(h) + Len(bytes) + 2
             /\ Occurs(h, bulk(bytes), 0) /\ Occurs(bytes, bulk(bytes), Len(h))
<1>1. Len(bytes) \in Nat BY DEF Bytes
<1>2. PICK h : h = header(DOLLAR, Len(bytes)) OBVIOUS
<1>3. h \in Bytes BY <1>1, <1>2, HeaderIs
<1>4. Len(h) \in Nat BY <1>3 DEF Bytes
<1>5. PICK e : e = <<CR, NL>> OBVIOUS
<1>6. e \in Bytes /\ Len(e) = 2 BY <1>5 DEF Bytes, CR, NL
<1>7. PICK a : a = h \o bytes OBVIOUS
<1>8. a \in Bytes /\ Len(a) = Len(h) + Len(bytes) /\ Occurs(h, a, 0) /\ Occurs(bytes, a, Len(h))
  BY <1>3, <1>7, OccursHalf
<1>9. PICK b : b = a \o e OBVIOUS
<1>10. b \in Bytes /\ Len(b) = Len(a) + 2 /\ Occurs(a, b, 0)
  <2>1. a \o e \in Bytes /\ Len(a \o e) = Len(a) + Len(e) /\ Occurs(a, a \o e, 0)
    BY ONLY <1>6, <1>8, OccursHalf, Zenon
  <2> QED BY ONLY <1>6, <1>9, <2>1
<1>11. bulk(bytes) = b BY <1>2, <1>5, <1>7, <1>9 DEF bulk
<1>12. Occurs(h, b, 0)
  <2>1. Occurs(h, b, 0 + 0) BY <1>3, <1>8, <1>10, OccursIn
  <2> QED BY <2>1
<1>13. Occurs(bytes, b, Len(h))
  <2>1. Occurs(bytes, b, 0 + Len(h)) BY <1>4, <1>8, <1>10, OccursIn
  <2>2. 0 + Len(h) = Len(h) BY <1>4
  <2> QED BY <2>1, <2>2
<1> QED BY <1>2, <1>3, <1>4, <1>8, <1>10, <1>11, <1>12, <1>13

\* A bulk is read as one, and its bytes are where the reader says.
LEMMA BulkReads ==
  ASSUME NEW bytes \in Bytes, Len(bytes) <= MAX_BULK, NEW buf \in Bytes, NEW p \in Nat,
         Occurs(bulk(bytes), buf, p)
  PROVE  \E head : /\ BulkAt(buf, p, head, Len(bytes)) /\ head.next \in Nat
                   /\ head.next + Len(bytes) + 2 = p + Len(bulk(bytes))
                   /\ Occurs(bytes, buf, head.next)
<1>1. Len(bytes) \in Nat /\ Len(buf) \in Nat BY DEF Bytes
<1>2. PICK h, b : /\ h = header(DOLLAR, Len(bytes)) /\ b = bulk(bytes)
                  /\ h \in Bytes /\ Len(h) \in Nat /\ b \in Bytes
                  /\ Len(b) = Len(h) + Len(bytes) + 2
                  /\ Occurs(h, b, 0) /\ Occurs(bytes, b, Len(h))
  BY BulkIs
<1>3. Occurs(h, buf, p)
  <2>1. Occurs(h, buf, p + 0) BY <1>2, OccursIn
  <2> QED BY <2>1
<1>4. Occurs(bytes, buf, p + Len(h)) BY <1>2, OccursIn
<1>5. PICK head : head = line(buf, p) OBVIOUS
<1>6. /\ head # Nothing /\ head.next = p + Len(h) /\ head.text # <<>> /\ head.text[1] = DOLLAR
      /\ number(Tail(head.text)) = Len(bytes)
  <2>1. Len(bytes) <= WIRE_MAX BY <1>1, Limits
  <2> QED BY <1>1, <1>2, <1>3, <1>5, <2>1, HeaderReads
<1>7. bulk_len(head.text) = Len(bytes)
  <2>1. Len(bytes) \in 0 .. MAX_BULK /\ Len(bytes) # Nothing BY <1>1, Limits, NothingAssumption
  <2> QED BY <1>6, <2>1 DEF bulk_len
<1>8. p + Len(b) <= Len(buf) BY <1>2 DEF Occurs
<1>9. head.next + Len(bytes) + 2 = p + Len(b) BY <1>1, <1>2, <1>6
<1>10. Len(bytes) # Nothing BY <1>1, NothingAssumption
<1>11. BulkAt(buf, p, head, Len(bytes)) BY <1>5, <1>6, <1>7, <1>8, <1>9, <1>10 DEF BulkAt
<1>12. head.next \in Nat BY <1>2, <1>6
<1> QED BY <1>2, <1>4, <1>6, <1>9, <1>11, <1>12

\* What occurs is what a span over it covers.
LEMMA SliceIs ==
  ASSUME NEW s \in Bytes, NEW buf \in Bytes, NEW p \in Nat, Occurs(s, buf, p),
         NEW span, span.at = p, span.len = Len(s)
  PROVE  Slice(buf, span) = s
<1>1. PICK n \in Nat : n = Len(s) BY DEF Bytes
<1>2. Len(buf) \in Nat BY DEF Bytes
<1>3. p + n <= Len(buf) /\ \A i \in 1 .. n : buf[p + i] = s[i] BY <1>1 DEF Occurs
<1>4. \A i \in p + 1 .. p + n : buf[i] \in Nat
  <2>1. \A i \in p + 1 .. p + n : i \in 1 .. Len(buf) BY <1>2, <1>3
  <2> QED BY <2>1, ElementOfSeq DEF Bytes
<1>5. PICK t : t = SubSeq(buf, p + 1, p + n) OBVIOUS
<1>6. p + 1 \in Int /\ p + n \in Int OBVIOUS
<1>7. /\ t \in Seq(Nat) /\ Len(t) = IF p + 1 <= p + n THEN p + n - (p + 1) + 1 ELSE 0
      /\ \A i \in 1 .. p + n - (p + 1) + 1 : t[i] = buf[p + 1 + i - 1]
  BY <1>4, <1>5, <1>6, SubSeqProperties
<1>8. Len(t) = n BY <1>7
<1>9. ASSUME NEW i \in 1 .. Len(t) PROVE t[i] = s[i]
  <2>1. i \in 1 .. n /\ i \in 1 .. p + n - (p + 1) + 1 /\ p + 1 + i - 1 = p + i BY <1>8
  <2> QED BY <1>3, <1>7, <2>1
<1>10. t = s BY <1>1, <1>7, <1>8, <1>9, SeqEqual DEF Bytes
<1> QED BY <1>1, <1>5, <1>10 DEF Slice

\* Where each of the first n strings of ss is in flat, which is all of them in a
\* row.
Lays(off, ss, n, flat) ==
  /\ off \in [0 .. n -> Nat] /\ off[0] = 0 /\ off[n] = Len(flat)
  /\ \A i \in 1 .. n : off[i] = off[i - 1] + Len(ss[i]) /\ Occurs(ss[i], flat, off[i - 1])

\* One more.
LEMMA LaysOn ==
  ASSUME NEW ss \in Seq(Bytes), NEW n \in Nat, n < Len(ss), NEW off, NEW flat \in Bytes,
         Lays(off, ss, n, flat)
  PROVE  flat \o ss[n + 1] \in Bytes /\ \E on : Lays(on, ss, n + 1, flat \o ss[n + 1])
<1> USE DEF Lays
<1>1. Len(ss) \in Nat /\ n + 1 \in 1 .. Len(ss) OBVIOUS
<1>2. PICK s : s = ss[n + 1] OBVIOUS
<1>3. s \in Bytes /\ \A i \in 1 .. Len(ss) : ss[i] \in Bytes
  <2>1. \A i \in 1 .. Len(ss) : ss[i] \in Bytes BY ElementOfSeq
  <2> QED BY <1>1, <1>2, <2>1
<1>4. PICK more : more = flat \o s OBVIOUS
<1>5. more \in Bytes /\ Len(more) = Len(flat) + Len(s) /\ Occurs(flat, more, 0) /\ Occurs(s, more, Len(flat))
  BY <1>3, <1>4, OccursHalf
<1>6. Len(flat) \in Nat /\ Len(s) \in Nat /\ Len(more) \in Nat BY <1>3, <1>5 DEF Bytes
<1> DEFINE on == [i \in 0 .. n + 1 |-> IF i = n + 1 THEN Len(more) ELSE off[i]]
<1>7. \A i \in 0 .. n : on[i] = off[i] /\ i \in 0 .. n + 1 OBVIOUS
<1>8. on[n + 1] = Len(more) OBVIOUS
<1>9. on \in [0 .. n + 1 -> Nat] BY <1>6
<1> HIDE DEF on
<1>10. 0 \in 0 .. n /\ n \in 0 .. n OBVIOUS
<1>11. on[0] = 0 BY <1>7, <1>10
<1>12. ASSUME NEW i \in 1 .. n + 1 PROVE on[i] = on[i - 1] + Len(ss[i]) /\ Occurs(ss[i], more, on[i - 1])
  <2>1. i - 1 \in 0 .. n /\ i \in 1 .. Len(ss) BY <1>1
  <2>2. on[i - 1] = off[i - 1] BY <1>7, <2>1
  <2>3. CASE i = n + 1
    <3>1. i - 1 = n BY <2>3
    <3> QED BY <1>2, <1>5, <1>8, <2>2, <2>3, <3>1
  <2>4. CASE i # n + 1
    <3>1. i \in 1 .. n /\ i \in 0 .. n BY <2>4
    <3>2. off[i] = off[i - 1] + Len(ss[i]) /\ Occurs(ss[i], flat, off[i - 1]) BY <3>1
    <3>3. off[i - 1] \in Nat BY <2>1
    <3>4. Occurs(ss[i], more, 0 + off[i - 1]) BY <1>3, <1>5, <2>1, <3>2, <3>3, OccursIn
    <3>5. 0 + off[i - 1] = off[i - 1] BY <3>3
    <3> QED BY <1>7, <2>2, <3>1, <3>2, <3>4, <3>5
  <2> QED BY <2>3, <2>4
<1> QED BY <1>2, <1>4, <1>5, <1>8, <1>9, <1>11, <1>12

\* FlattenSeq puts strings in a row.
LEMMA FlattenIs ==
  ASSUME NEW ss \in Seq(Bytes)
  PROVE  FlattenSeq(ss) \in Bytes /\ \E off : Lays(off, ss, Len(ss), FlattenSeq(ss))
<1>1. PICK n \in Nat : n = Len(ss) OBVIOUS
<1>2. \A i \in 1 .. n : ss[i] \in Bytes BY <1>1, ElementOfSeq
<1>3. CASE n = 0
  <2>1. ss = <<>> BY <1>1, <1>3, EmptySeq
  <2>2. FlattenSeq(ss) = <<>> BY <1>1, <1>3, <2>1 DEF FlattenSeq
  <2>3. <<>> \in Bytes /\ Len(<<>>) = 0 BY DEF Bytes
  <2> DEFINE off == [i \in 0 .. 0 |-> 0]
  <2>4. off \in [0 .. 0 -> Nat] /\ off[0] = 0 OBVIOUS
  <2> HIDE DEF off
  <2>5. Lays(off, ss, 0, <<>>) BY <1>1, <1>3, <2>3, <2>4 DEF Lays
  <2> QED BY <1>1, <1>3, <2>2, <2>3, <2>5
<1>4. CASE n > 0
  <2> DEFINE R(f) == [i \in 1 .. n |-> IF i = 1 THEN ss[i] ELSE f[i - 1] \o ss[i]]
  <2>1. \E f : f = R(f)
    <3>1. PICK F : F = [i \in Nat |-> [o \in Bytes |-> IF i + 1 \in 1 .. n THEN o \o ss[i + 1] ELSE o]] OBVIOUS
    <3>2. Maps(F, Bytes)
      <4>1. ASSUME NEW i \in Nat, NEW o \in Bytes
            PROVE  (IF i + 1 \in 1 .. n THEN o \o ss[i + 1] ELSE o) \in Bytes
        <5>1. CASE i + 1 \in 1 .. n
          <6>1. ss[i + 1] \in Bytes BY <1>2, <5>1
          <6> QED BY <5>1, <6>1, OccursHalf
        <5> QED BY <5>1
      <4>2. \A i \in Nat : [o \in Bytes |-> IF i + 1 \in 1 .. n THEN o \o ss[i + 1] ELSE o] \in [Bytes -> Bytes]
        BY <4>1
      <4> QED BY <3>1, <4>2 DEF Maps
    <3>3. n - 1 \in Nat /\ 1 \in 1 .. n BY <1>4
    <3>4. ss[1] \in Bytes BY <1>2, <3>3
    <3>5. PICK g : Follows(g, Bytes, ss[1], F, n - 1) BY <3>2, <3>3, <3>4, Recurs
    <3>6. /\ g \in [0 .. n - 1 -> Bytes] /\ g[0] = ss[1] /\ \A i \in 1 .. n - 1 : g[i] = F[i][g[i - 1]]
      BY <3>5 DEF Follows
    <3> DEFINE f == [i \in 1 .. n |-> g[i - 1]]
    <3>7. ASSUME NEW i \in 1 .. n PROVE f[i] = R(f)[i]
      <4>1. CASE i = 1 BY <3>6, <4>1
      <4>2. CASE i # 1
        <5>1. PICK j : j = i - 1 OBVIOUS
        <5>2. j \in 1 .. n - 1 /\ j \in 1 .. n /\ j - 1 \in 0 .. n - 1 /\ j + 1 = i /\ j \in Nat BY <4>2, <5>1
        <5>3. g[j - 1] \in Bytes BY <3>6, <5>2
        <5>4. g[j] = g[j - 1] \o ss[i] BY <3>1, <3>6, <5>2, <5>3
        <5>5. f[i] = g[j] /\ f[j] = g[j - 1] BY <5>1, <5>2
        <5>6. R(f)[i] = f[j] \o ss[i] BY <4>2, <5>1
        <5> HIDE DEF f, R
        <5> QED BY <5>4, <5>5, <5>6
      <4> QED BY <4>1, <4>2
    <3>8. f = R(f)
      <4>1. \A i \in 1 .. n : f[i] = R(f)[i] BY <3>7
      <4> QED BY <4>1
    <3> HIDE DEF f, R
    <3> QED BY <3>8
  <2>2. PICK f : f = CHOOSE g : g = R(g) OBVIOUS
  <2>3. FlattenSeq(ss) = f[n]
    <3>1. Len(ss) # 0 BY <1>1, <1>4
    <3> QED BY <1>1, <2>2, <3>1 DEF FlattenSeq
  <2>4. f = R(f)
    <3> HIDE DEF R
    <3> QED BY <2>1, <2>2
  <2>5. \A i \in 1 .. n : f[i] = IF i = 1 THEN ss[i] ELSE f[i - 1] \o ss[i] BY <2>4
  <2> HIDE DEF R
  <2> DEFINE P(k) == f[k] \in Bytes /\ \E off : Lays(off, ss, k, f[k])
             T == {k \in Nat : k = 0 \/ P(k)}
  <2>6. 0 \in T OBVIOUS
  <2>7. ASSUME NEW k \in Nat, k < n, k \in T PROVE k + 1 \in T
    <3>1. k + 1 \in 1 .. n /\ k + 1 \in Nat /\ k < Len(ss) BY <1>1, <2>7
    <3>2. CASE k = 0
      <4>1. f[1] = ss[1] /\ ss[1] \in Bytes BY <1>2, <2>5, <3>1, <3>2
      <4>2. Len(f[1]) \in Nat BY <4>1 DEF Bytes
      <4> DEFINE off == [i \in 0 .. 1 |-> IF i = 0 THEN 0 ELSE Len(f[1])]
      <4>3. off \in [0 .. 1 -> Nat] /\ off[0] = 0 /\ off[1] = Len(f[1]) BY <4>2
      <4>4. 0 + Len(f[1]) = Len(f[1]) BY <4>2
      <4> HIDE DEF off
      <4>5. Occurs(ss[1], f[1], 0) BY <4>1, <4>2, <4>4 DEF Occurs
      <4>6. \A i \in 1 .. 1 : off[i] = off[i - 1] + Len(ss[i]) /\ Occurs(ss[i], f[1], off[i - 1])
        BY <4>1, <4>3, <4>4, <4>5
      <4>7. P(1) BY <4>1, <4>3, <4>6 DEF Lays
      <4>8. k + 1 = 1 BY <3>2
      <4> HIDE DEF P
      <4> QED BY <4>7, <4>8
    <3>3. CASE k # 0
      <4>1. PICK off : Lays(off, ss, k, f[k]) /\ f[k] \in Bytes BY <2>7, <3>3
      <4>2. f[k + 1] = f[k] \o ss[k + 1]
        <5>1. PICK j : j = k + 1 OBVIOUS
        <5>2. j \in 1 .. n /\ j # 1 /\ j - 1 = k BY <3>1, <3>3, <5>1
        <5>3. f[j] = f[j - 1] \o ss[j] BY <2>5, <5>2
        <5> QED BY <5>1, <5>2, <5>3
      <4>3. PICK flat \in Bytes : flat = f[k] BY <4>1
      <4>4. flat \o ss[k + 1] \in Bytes /\ \E on : Lays(on, ss, k + 1, flat \o ss[k + 1])
        BY <3>1, <4>1, <4>3, LaysOn
      <4>5. P(k + 1) BY <4>2, <4>3, <4>4
      <4> HIDE DEF P
      <4> QED BY <3>1, <4>5
    <3> QED BY <3>2, <3>3
  <2>8. \A i \in 0 .. n : i \in T
    <3> HIDE DEF T
    <3> QED BY <2>6, <2>7, Induct
  <2>9. n \in 0 .. n /\ n # 0 BY <1>4
  <2>10. P(n) BY <2>8, <2>9
  <2> QED BY <1>1, <2>3, <2>10
<1> QED BY <1>3, <1>4

\* The bulks of a command, and the wire form of every command of a pipeline.
Bulks(args) == [i \in DOMAIN args |-> bulk(args[i])]
Wires(pipeline) == [i \in DOMAIN pipeline |-> encode(pipeline[i])]

\* A function on 1 .. n is a sequence.
LEMMA FunIsSeq ==
  ASSUME NEW S, NEW n \in Nat, NEW f \in [1 .. n -> S]
  PROVE  f \in Seq(S) /\ Len(f) = n
<1>1. f \in Seq(S) BY SeqDef
<1>2. Len(f) \in Nat /\ DOMAIN f = 1 .. Len(f) BY <1>1, LenProperties
<1>3. 1 .. Len(f) = 1 .. n BY <1>2
<1>4. ~(Len(f) < n)
  <2> SUFFICES ASSUME Len(f) < n PROVE FALSE OBVIOUS
  <2>1. n \in 1 .. n /\ n \notin 1 .. Len(f) BY <1>2
  <2> QED BY <1>3, <2>1
<1>5. ~(n < Len(f))
  <2> SUFFICES ASSUME n < Len(f) PROVE FALSE OBVIOUS
  <2>1. Len(f) \in 1 .. Len(f) /\ Len(f) \notin 1 .. n BY <1>2
  <2> QED BY <1>3, <2>1
<1> QED BY <1>1, <1>2, <1>4, <1>5

\* The bulks of a command are strings, one for each argument.
LEMMA BulksAre ==
  ASSUME NEW args \in Seq(Bytes)
  PROVE  /\ Bulks(args) \in Seq(Bytes) /\ Len(Bulks(args)) = Len(args)
         /\ \A i \in 1 .. Len(args) : args[i] \in Bytes /\ Bulks(args)[i] = bulk(args[i])
<1>1. PICK n \in Nat : n = Len(args) OBVIOUS
<1>2. DOMAIN args = 1 .. n /\ \A i \in 1 .. n : args[i] \in Bytes BY <1>1, LenProperties, ElementOfSeq
<1>3. \A i \in 1 .. n : bulk(args[i]) \in Bytes BY <1>2, BulkIs
<1>4. PICK b : b = Bulks(args) OBVIOUS
<1>5. b \in [1 .. n -> Bytes] /\ \A i \in 1 .. n : b[i] = bulk(args[i]) BY <1>2, <1>3, <1>4 DEF Bulks
<1>6. b \in Seq(Bytes) /\ Len(b) = n BY <1>5, FunIsSeq
<1> QED BY <1>1, <1>2, <1>4, <1>5, <1>6

\* A command's wire form and its parts.
LEMMA EncodeIs ==
  ASSUME NEW args \in Seq(Bytes)
  PROVE  /\ encode(args) \in Bytes
         /\ \E h, flat, off :
              /\ h = header(STAR, Len(args)) /\ h \in Bytes /\ Len(h) \in Nat /\ Len(h) > 0 /\ h[1] = STAR
              /\ flat \in Bytes /\ Lays(off, Bulks(args), Len(args), flat)
              /\ Len(encode(args)) = Len(h) + Len(flat)
              /\ Occurs(h, encode(args), 0) /\ Occurs(flat, encode(args), Len(h))
<1>1. Len(args) \in Nat OBVIOUS
<1>2. PICK h : h = header(STAR, Len(args)) OBVIOUS
<1>3. h \in Bytes /\ h[1] = STAR /\ Len(h) > 0 BY <1>1, <1>2, HeaderIs
<1>4. Len(h) \in Nat BY <1>3 DEF Bytes
<1>5. Bulks(args) \in Seq(Bytes) /\ Len(Bulks(args)) = Len(args) BY BulksAre
<1>6. PICK flat : flat = FlattenSeq(Bulks(args)) OBVIOUS
<1>7. flat \in Bytes /\ \E off : Lays(off, Bulks(args), Len(args), flat) BY <1>5, <1>6, FlattenIs
<1>8. encode(args) = h \o flat BY <1>2, <1>6 DEF encode, Bulks
<1>9. /\ h \o flat \in Bytes /\ Len(h \o flat) = Len(h) + Len(flat)
      /\ Occurs(h, h \o flat, 0) /\ Occurs(flat, h \o flat, Len(h))
  BY <1>3, <1>7, OccursHalf
<1> QED BY <1>2, <1>3, <1>4, <1>7, <1>8, <1>9

\* Arguments within the limits.
Fits(args) == Len(args) <= MAX_ARGS /\ \A i \in 1 .. Len(args) : Len(args[i]) <= MAX_BULK

\* Spans that cover the arguments, in their order.
Covers(spans, args, buf) ==
  /\ spans \in Seq(Spans) /\ Len(spans) = Len(args)
  /\ \A i \in 1 .. Len(args) : spans[i].len = Len(args[i]) /\ Occurs(args[i], buf, spans[i].at)

\* A command is parsed as what was encoded.
LEMMA EncodeReads ==
  ASSUME NEW args \in Seq(Bytes), Fits(args), NEW buf \in Bytes, Occurs(encode(args), buf, 0), NEW x
  PROVE  /\ Len(encode(args)) \in Nat /\ Len(encode(args)) > 0 /\ buf # <<>> /\ buf[1] = STAR
         /\ ArrayAt(buf, line(buf, 0), Len(args))
         /\ \E spans : /\ Covers(spans, args, buf)
                       /\ parse(buf, x) = Done(Len(encode(args)), spans)
<1>1. PICK n \in Nat : n = Len(args) OBVIOUS
<1>2. n <= MAX_ARGS /\ \A i \in 1 .. n : Len(args[i]) <= MAX_BULK BY <1>1 DEF Fits
<1>3. PICK w \in Bytes : w = encode(args) BY EncodeIs
<1>4. PICK h, flat, off :
              /\ h = header(STAR, n) /\ h \in Bytes /\ Len(h) \in Nat /\ Len(h) > 0 /\ h[1] = STAR
              /\ flat \in Bytes /\ Lays(off, Bulks(args), n, flat)
              /\ Len(w) = Len(h) + Len(flat) /\ Occurs(h, w, 0) /\ Occurs(flat, w, Len(h))
  BY <1>1, <1>3, EncodeIs
<1>5. Occurs(w, buf, 0) /\ Len(buf) \in Nat /\ Len(w) \in Nat /\ Len(flat) \in Nat
  <2>1. Len(buf) \in Nat BY DEF Bytes
  <2>2. Len(w) \in Nat BY DEF Bytes
  <2>3. Len(flat) \in Nat BY <1>4 DEF Bytes
  <2> QED BY <1>3, <2>1, <2>2, <2>3
<1>6. Occurs(h, buf, 0)
  <2>1. Occurs(h, buf, 0 + 0) BY <1>4, <1>5, OccursIn
  <2> QED BY <2>1
<1>7. Occurs(flat, buf, Len(h))
  <2>1. Occurs(flat, buf, 0 + Len(h)) BY <1>4, <1>5, OccursIn
  <2>2. 0 + Len(h) = Len(h) BY <1>4
  <2> QED BY <2>1, <2>2
<1>8. buf # <<>> /\ buf[1] = STAR
  <2>1. 1 \in 1 .. Len(h) /\ 0 + 1 = 1 BY <1>4
  <2>2. buf[0 + 1] = h[1] /\ 0 + Len(h) <= Len(buf) BY <1>6, <2>1 DEF Occurs
  <2>3. Len(buf) # 0 /\ Len(<<>>) = 0 BY <1>4, <1>5, <2>2
  <2> QED BY <1>4, <2>1, <2>2, <2>3
<1>9. PICK first : first = line(buf, 0) OBVIOUS
<1>10. first # Nothing /\ first.next = Len(h) /\ number(Tail(first.text)) = n
  <2>1. n <= WIRE_MAX BY <1>2, Limits
  <2>2. 0 + Len(h) = Len(h) BY <1>4
  <2> QED BY <1>4, <1>6, <1>9, <2>1, <2>2, HeaderReads
<1>11. ArrayAt(buf, first, n)
  <2>1. n \in 0 .. MAX_ARGS BY <1>2, Limits
  <2> QED BY <1>9, <1>10, <2>1 DEF ArrayAt
<1>12. PICK so : so = Done(first.next, <<>>) OBVIOUS
<1>13. so \in Outcomes /\ first.next <= Len(buf) /\ \E f : Walks(f, buf, so, n) /\ parse_array(buf, <<>>) = f[n]
  BY <1>11, <1>12, ArrayWalks
<1>14. PICK f : Walks(f, buf, so, n) /\ parse_array(buf, <<>>) = f[n] BY <1>13
<1>15. so.is = "done" /\ so.used = Len(h) /\ so.spans = <<>> BY <1>10, <1>12 DEF Done
<1>16. /\ f[0] = so /\ \A i \in 1 .. n : f[i] = Step(buf, f[i - 1])
       /\ \A i \in 0 .. n : f[i] \in Outcomes /\ (f[i].is = "done" => Len(f[i].spans) = i)
  <2>1. so.used <= Len(buf) BY <1>10, <1>13, <1>15
  <2> QED BY <1>13, <1>14, <1>15, <2>1, WalkIs
<1>17. /\ off \in [0 .. n -> Nat] /\ off[0] = 0 /\ off[n] = Len(flat)
       /\ \A i \in 1 .. n : off[i] = off[i - 1] + Len(Bulks(args)[i]) /\ Occurs(Bulks(args)[i], flat, off[i - 1])
  BY <1>4 DEF Lays
<1> DEFINE P(k) == /\ f[k].is = "done" /\ f[k].used = Len(h) + off[k]
                   /\ \A i \in 1 .. k : f[k].spans[i].len = Len(args[i]) /\ Occurs(args[i], buf, f[k].spans[i].at)
           T == {k \in Nat : P(k)}
<1>18. 0 \in T
  <2>1. f[0].is = "done" /\ f[0].used = Len(h) + off[0] BY <1>4, <1>15, <1>16, <1>17
  <2> QED BY <2>1
<1>19. ASSUME NEW k \in Nat, k < n, k \in T PROVE k + 1 \in T
  <2>1. PICK j \in 1 .. n : j = k + 1 BY <1>19
  <2>2. j - 1 = k /\ k \in 0 .. n /\ j \in 0 .. n BY <1>19, <2>1
  <2>3. f[j] = Step(buf, f[k]) /\ f[k] \in Outcomes BY <1>16, <2>2
  <2>4. f[k].is = "done" /\ f[k].used = Len(h) + off[k] BY <1>19
  <2>5. Len(f[k].spans) = k /\ f[k].spans \in Seq(Spans) BY <1>16, <2>2, <2>3, <2>4 DEF Outcomes
  <2>6. off[k] \in Nat /\ off[j] = off[k] + Len(Bulks(args)[j]) /\ Occurs(Bulks(args)[j], flat, off[k])
    BY <1>17, <2>2
  <2>7. args[j] \in Bytes /\ Bulks(args)[j] = bulk(args[j]) BY <1>1, BulksAre
  <2>8. bulk(args[j]) \in Bytes BY <2>7, BulkIs
  <2>9. PICK p \in Nat : p = Len(h) + off[k] BY <1>4, <2>6
  <2>10. Occurs(bulk(args[j]), buf, p)
    <3>1. Occurs(bulk(args[j]), buf, Len(h) + off[k]) BY <1>4, <1>7, <2>6, <2>7, <2>8, OccursIn
    <3> QED BY <2>9, <3>1
  <2>11. PICK head : /\ BulkAt(buf, p, head, Len(args[j])) /\ head.next \in Nat
                     /\ head.next + Len(args[j]) + 2 = p + Len(bulk(args[j]))
                     /\ Occurs(args[j], buf, head.next)
    BY <1>2, <2>7, <2>10, BulkReads
  <2>12. PICK span : span = [at |-> head.next, len |-> Len(args[j])] OBVIOUS
  <2>13. f[j] = Done(p + Len(bulk(args[j])), Append(f[k].spans, span))
    <3>1. k < MAX_ARGS BY <1>2, <1>19, Limits
    <3>2. PICK o \in Outcomes : o = f[k] BY <2>3
    <3>3. o.is = "done" /\ o.used = p /\ Len(o.spans) < MAX_ARGS BY <2>4, <2>5, <2>9, <3>1, <3>2
    <3>4. PICK len : len = Len(args[j]) OBVIOUS
    <3>5. BulkAt(buf, o.used, head, len) BY <2>11, <3>3, <3>4
    <3>6. Step(buf, o) = Done(head.next + len + 2, Append(o.spans, [at |-> head.next, len |-> len]))
      BY <3>3, <3>5, StepTakes
    <3> QED BY <2>3, <2>11, <2>12, <3>2, <3>4, <3>6
  <2>14. f[j].is = "done" /\ f[j].used = p + Len(bulk(args[j])) /\ f[j].spans = Append(f[k].spans, span)
    BY <2>13 DEF Done
  <2>15. Len(bulk(args[j])) \in Nat BY <2>8 DEF Bytes
  <2>16. f[j].used = Len(h) + off[j] BY <1>4, <2>6, <2>7, <2>9, <2>14, <2>15
  <2>17. span \in Spans
    <3>1. Len(args[j]) \in Nat BY <2>7 DEF Bytes
    <3> QED BY <2>11, <2>12, <3>1 DEF Spans
  <2>18. /\ Append(f[k].spans, span)[k + 1] = span
         /\ \A i \in 1 .. k : Append(f[k].spans, span)[i] = f[k].spans[i]
    BY <2>5, <2>17, AppendProperties
  <2>19. ASSUME NEW i \in 1 .. j
         PROVE  f[j].spans[i].len = Len(args[i]) /\ Occurs(args[i], buf, f[j].spans[i].at)
    <3>1. CASE i = j
      <4>1. f[j].spans[i] = span BY <2>1, <2>14, <2>18, <3>1
      <4> QED BY <2>11, <2>12, <3>1, <4>1
    <3>2. CASE i # j
      <4>1. i \in 1 .. k BY <2>1, <3>2
      <4>2. f[j].spans[i] = f[k].spans[i] BY <2>14, <2>18, <4>1
      <4>3. P(k) BY <1>19
      <4> QED BY <4>1, <4>2, <4>3
    <3> QED BY <3>1, <3>2
  <2>20. P(j) BY <2>14, <2>16, <2>19
  <2> HIDE DEF P
  <2> QED BY <2>1, <2>20
<1>20. n \in T
  <2> HIDE DEF T
  <2>1. \A i \in 0 .. n : i \in T BY <1>18, <1>19, Induct
  <2> QED BY <2>1
<1>21. PICK spans : spans = f[n].spans OBVIOUS
<1>22. n \in 0 .. n OBVIOUS
<1>23. f[n] \in Outcomes /\ f[n].is = "done" /\ f[n].used = Len(w) /\ Len(spans) = n
  BY <1>4, <1>16, <1>17, <1>20, <1>21, <1>22
<1>24. Covers(spans, args, buf)
  <2>1. spans \in Seq(Spans) BY <1>21, <1>23 DEF Outcomes
  <2>2. \A i \in 1 .. n : spans[i].len = Len(args[i]) /\ Occurs(args[i], buf, spans[i].at) BY <1>20, <1>21
  <2> QED BY <1>1, <1>23, <2>1, <2>2 DEF Covers
<1>25. f[n] = Done(Len(w), spans)
  <2>1. f[n] \in [is : {"done", "more", "bad"}, used : Nat, spans : Seq(Spans)] BY <1>23 DEF Outcomes
  <2> QED BY <1>21, <1>23, <2>1 DEF Done
<1>26. parse(buf, x) = f[n] BY <1>8, <1>14 DEF parse, Cleared
<1>27. Len(w) > 0 BY <1>4, <1>5
<1> QED BY <1>1, <1>3, <1>5, <1>8, <1>9, <1>11, <1>24, <1>25, <1>26, <1>27

\* Before all of a command has arrived, the parser asks for more.
LEMMA EncodeWaits ==
  ASSUME NEW args \in Seq(Bytes), Fits(args), NEW buf \in Bytes, NEW whole \in Bytes,
         Prefixed(buf, whole), Occurs(encode(args), whole, 0), Len(buf) < Len(encode(args)), NEW x
  PROVE  parse(buf, x).is = "more"
<1> SUFFICES ASSUME parse(buf, x).is # "more" PROVE FALSE OBVIOUS
<1>1. /\ Len(encode(args)) \in Nat /\ whole # <<>> /\ whole[1] = STAR
      /\ \E spans : parse(whole, x) = Done(Len(encode(args)), spans)
  BY EncodeReads
<1>2. ~Overlong(whole) BY <1>1 DEF Overlong
<1>3. parse(whole, x) = parse(buf, x) BY <1>2, ParseGrows
<1>4. parse(buf, x).is = "done" /\ parse(buf, x).used = Len(encode(args)) BY <1>1, <1>3 DEF Done
<1>5. parse(buf, x).used \in Nat /\ parse(buf, x).used <= Len(buf) BY <1>4, ParseUsed
<1>6. Len(buf) \in Nat BY DEF Bytes
<1> QED BY <1>1, <1>4, <1>5, <1>6

\* peek, where there is a whole header.
LEMMA PeekArray ==
  ASSUME NEW buf \in Bytes, buf # <<>>, buf[1] = STAR, NEW count, ArrayAt(buf, line(buf, 0), count), NEW x
  PROVE  /\ parse(buf, x) \in Outcomes
         /\ peek(buf) \in Peeks \cup {Nothing}
         /\ parse(buf, x).is = "done" <=> peek(buf) # Nothing
         /\ parse(buf, x).is = "done" =>
              /\ parse(buf, x).used = peek(buf).used
              /\ peek(buf).key = IF Len(parse(buf, x).spans) > 1 THEN parse(buf, x).spans[2] ELSE Nothing
<1>1. PICK first : first = line(buf, 0) OBVIOUS
<1>2. first # Nothing /\ count = number(Tail(first.text)) /\ count \in 0 .. MAX_ARGS BY <1>1 DEF ArrayAt
<1>3. PICK used : used = first.next OBVIOUS
<1>4. /\ used \in Nat /\ used <= Len(buf) /\ count \in Nat /\ count <= MAX_ARGS /\ Done(used, <<>>) \in Outcomes
      /\ \E f : Walks(f, buf, Done(used, <<>>), count) /\ parse_array(buf, <<>>) = f[count]
  BY <1>1, <1>3, ArrayWalks
<1>5. PICK f : Walks(f, buf, Done(used, <<>>), count) /\ parse_array(buf, <<>>) = f[count] BY <1>4
<1>6. PICK g : g = CHOOSE w : LooksAre(w, buf, used, count) OBVIOUS
<1>7. LooksAre(g, buf, used, count) BY <1>4, <1>6, LooksExist
<1>8. count # Nothing BY <1>4, NothingAssumption
<1>9. peek(buf) = g[count] BY <1>1, <1>2, <1>3, <1>6, <1>8 DEF peek, LooksAre
<1>10. count \in 0 .. count BY <1>4
<1>11. /\ g[count] \in Peeks \cup {Nothing}
       /\ f[count].is = "done" <=> g[count] # Nothing
       /\ f[count].is = "done" => /\ f[count].used = g[count].used
                                  /\ g[count].key = IF count > 1 THEN f[count].spans[2] ELSE Nothing
  BY <1>4, <1>5, <1>7, <1>10, WalksAgree
<1>12. f[count] \in Outcomes /\ (f[count].is = "done" => Len(f[count].spans) = count)
  <2>1. PICK so \in Outcomes : so = Done(used, <<>>) /\ so.is = "done" /\ so.used = used /\ so.spans = <<>>
    BY <1>4 DEF Done
  <2> QED BY <1>4, <1>5, <1>10, <2>1, WalkIs
<1>13. parse(buf, x) = f[count] BY <1>5 DEF parse, Cleared
<1> QED BY <1>9, <1>11, <1>12, <1>13

\* What the look-ahead takes for a command, the parser does.
LEMMA PeekIs ==
  ASSUME NEW buf \in Bytes, peek(buf) # Nothing, NEW x
  PROVE  /\ peek(buf) \in Peeks
         /\ parse(buf, x).is = "done" /\ parse(buf, x).used = peek(buf).used
         /\ parse(buf, x).spans \in Seq(Spans)
         /\ peek(buf).key = IF Len(parse(buf, x).spans) > 1 THEN parse(buf, x).spans[2] ELSE Nothing
<1>1. buf # <<>> /\ buf[1] = STAR /\ line(buf, 0) # Nothing BY DEF peek
<1>2. PICK count : count = number(Tail(line(buf, 0).text)) OBVIOUS
<1>3. count \in 0 .. MAX_ARGS BY <1>1, <1>2 DEF peek
<1>4. ArrayAt(buf, line(buf, 0), count) BY <1>1, <1>2, <1>3 DEF ArrayAt
<1>5. parse(buf, x) \in Outcomes /\ peek(buf) \in Peeks \cup {Nothing} /\ parse(buf, x).is = "done"
      /\ parse(buf, x).used = peek(buf).used
      /\ peek(buf).key = IF Len(parse(buf, x).spans) > 1 THEN parse(buf, x).spans[2] ELSE Nothing
  BY <1>1, <1>4, PeekArray
<1> QED BY <1>5 DEF Outcomes

-----------------------------------------------------------------------------
(* The stream, from where the connection is in it. *)

Part(s, f, p) == SubSeq(s, p + 1, f)
Found(s, f, p) == peek(Part(s, f, p))
After(s, f, p) == p + Found(s, f, p).used

\* A part of the stream is bytes of it, from its place in it.
LEMMA PartIs ==
  ASSUME NEW s \in Bytes, NEW f \in Nat, NEW p \in Nat, f <= Len(s)
  PROVE  /\ Part(s, f, p) \in Bytes /\ Len(Part(s, f, p)) = IF p <= f THEN f - p ELSE 0
         /\ p <= f => Occurs(Part(s, f, p), s, p)
         /\ p <= f => Prefixed(Part(s, f, p), Drop(s, p))
<1>1. Len(s) \in Nat BY DEF Bytes
<1>2. \A i \in p + 1 .. f : s[i] \in Nat
  <2>1. \A i \in p + 1 .. f : i \in 1 .. Len(s) BY <1>1
  <2> QED BY <2>1, ElementOfSeq DEF Bytes
<1>3. PICK b : b = Part(s, f, p) OBVIOUS
<1>4. /\ b \in Seq(Nat) /\ Len(b) = IF p + 1 <= f THEN f - (p + 1) + 1 ELSE 0
      /\ \A i \in 1 .. f - (p + 1) + 1 : b[i] = s[p + 1 + i - 1]
  BY <1>2, <1>3, SubSeqProperties DEF Part
<1>5. Len(b) = IF p <= f THEN f - p ELSE 0 BY <1>4
<1>6. ASSUME p <= f PROVE \A i \in 1 .. Len(b) : b[i] = s[p + i]
  <2>1. \A i \in 1 .. Len(b) : i \in 1 .. f - (p + 1) + 1 /\ p + 1 + i - 1 = p + i BY <1>5, <1>6
  <2> QED BY <1>4, <2>1
<1>7. ASSUME p <= f PROVE Occurs(b, s, p)
  <2>1. p + Len(b) <= Len(s) BY <1>1, <1>5, <1>7
  <2> QED BY <1>6, <1>7, <2>1 DEF Occurs
<1>8. ASSUME p <= f PROVE Prefixed(b, Drop(s, p))
  <2>1. /\ Len(Drop(s, p)) = IF p <= Len(s) THEN Len(s) - p ELSE 0
        /\ \A i \in 1 .. Len(s) - p : Drop(s, p)[i] = s[p + i]
    BY DropIs
  <2>2. Len(b) <= Len(Drop(s, p)) /\ \A i \in 1 .. Len(b) : i \in 1 .. Len(s) - p BY <1>1, <1>5, <1>8, <2>1
  <2> QED BY <1>6, <1>8, <2>1, <2>2 DEF Prefixed
<1> QED BY <1>3, <1>4, <1>5, <1>7, <1>8 DEF Bytes

\* What the look-ahead finds has arrived.
LEMMA FoundFits ==
  ASSUME NEW s \in Bytes, NEW f \in Nat, NEW p \in Nat, f <= Len(s), Found(s, f, p) # Nothing
  PROVE  Found(s, f, p) \in Peeks /\ After(s, f, p) \in Nat /\ p < After(s, f, p) /\ After(s, f, p) <= f
<1>1. PICK b \in Bytes : b = Part(s, f, p) /\ Len(b) = IF p <= f THEN f - p ELSE 0 BY PartIs
<1>2. /\ peek(b) \in Peeks /\ parse(b, <<>>).is = "done" /\ parse(b, <<>>).used = peek(b).used
  BY <1>1, PeekIs DEF Found
<1>3. parse(b, <<>>).used \in Nat /\ 0 < parse(b, <<>>).used /\ parse(b, <<>>).used <= Len(b)
  BY <1>2, ParseUsed
<1>4. PICK u \in Nat : u = peek(b).used /\ 0 < u /\ u <= Len(b) BY <1>2, <1>3
<1>5. p + u \in Nat /\ p < p + u /\ p + u <= f BY <1>1, <1>4
<1> QED BY <1>1, <1>2, <1>4, <1>5 DEF After, Found

\* What the look-ahead finds it finds again when more has arrived.
LEMMA FoundGrows ==
  ASSUME NEW s \in Bytes, NEW f \in Nat, NEW g \in Nat, f <= g, g <= Len(s), NEW p \in Nat,
         Found(s, f, p) # Nothing
  PROVE  Found(s, g, p) = Found(s, f, p)
<1>1. Len(s) \in Nat BY DEF Bytes
<1>2. p <= f
  <2>1. After(s, f, p) \in Nat /\ p < After(s, f, p) /\ After(s, f, p) <= f BY <1>1, FoundFits
  <2> QED BY <2>1
<1>3. PICK buf \in Bytes : buf = Part(s, f, p) /\ Len(buf) = f - p /\ Occurs(buf, s, p)
  <2>1. f <= Len(s) BY <1>1
  <2>2. /\ Part(s, f, p) \in Bytes /\ Len(Part(s, f, p)) = IF p <= f THEN f - p ELSE 0
        /\ p <= f => Occurs(Part(s, f, p), s, p)
    BY ONLY <2>1, s \in Bytes, f \in Nat, p \in Nat, PartIs
  <2> QED BY <1>2, <2>2, Zenon
<1>4. PICK more \in Bytes : more = Part(s, g, p) /\ Len(more) = g - p /\ Occurs(more, s, p)
  <2>1. p <= g BY <1>2
  <2>2. /\ Part(s, g, p) \in Bytes /\ Len(Part(s, g, p)) = IF p <= g THEN g - p ELSE 0
        /\ p <= g => Occurs(Part(s, g, p), s, p)
    BY ONLY g <= Len(s), s \in Bytes, g \in Nat, p \in Nat, PartIs
  <2> QED BY <2>1, <2>2, Zenon
<1>5. Prefixed(buf, more)
  <2>1. Len(buf) <= Len(more) BY <1>2, <1>3, <1>4
  <2>2. \A i \in 1 .. Len(buf) : i \in 1 .. Len(more) BY <1>2, <1>3, <1>4
  <2>3. \A i \in 1 .. Len(buf) : buf[i] = s[p + i] BY <1>3 DEF Occurs
  <2>4. \A i \in 1 .. Len(more) : more[i] = s[p + i] BY <1>4 DEF Occurs
  <2> QED BY <2>1, <2>2, <2>3, <2>4 DEF Prefixed
<1>6. peek(buf) # Nothing /\ peek(buf) = Found(s, f, p) BY <1>3 DEF Found
<1>7. buf # <<>> /\ buf[1] = STAR /\ line(buf, 0) # Nothing BY <1>6 DEF peek
<1>8. PICK count : count = number(Tail(line(buf, 0).text)) OBVIOUS
<1>9. count \in 0 .. MAX_ARGS BY <1>6, <1>7, <1>8 DEF peek
<1>10. more # <<>> /\ more[1] = STAR
  <2>1. Len(buf) \in Nat /\ Len(buf) # 0 BY <1>7, EmptySeq DEF Bytes
  <2>2. Len(more) # 0 /\ 1 \in 1 .. Len(buf) BY <1>2, <1>3, <1>4, <2>1
  <2>3. Len(<<>>) = 0 OBVIOUS
  <2> QED BY <1>5, <1>7, <2>2, <2>3 DEF Prefixed
<1>11. line(more, 0) = line(buf, 0) BY <1>5, <1>7, LineGrows
<1>12. ArrayAt(more, line(more, 0), count) BY <1>7, <1>8, <1>9, <1>10, <1>11 DEF ArrayAt
<1>13. /\ peek(buf) \in Peeks /\ parse(buf, <<>>).is = "done" /\ parse(buf, <<>>).used = peek(buf).used
       /\ peek(buf).key = IF Len(parse(buf, <<>>).spans) > 1 THEN parse(buf, <<>>).spans[2] ELSE Nothing
  BY <1>6, PeekIs
<1>14. ~Overlong(more) BY <1>10 DEF Overlong
<1>15. parse(more, <<>>) = parse(buf, <<>>) BY <1>5, <1>13, <1>14, ParseGrows
<1>16. peek(more) # Nothing BY <1>10, <1>12, <1>13, <1>15, PeekArray
<1>17. /\ peek(more) \in Peeks /\ parse(more, <<>>).used = peek(more).used
       /\ peek(more).key = IF Len(parse(more, <<>>).spans) > 1 THEN parse(more, <<>>).spans[2] ELSE Nothing
  BY <1>16, PeekIs
<1>18. peek(more).used = peek(buf).used /\ peek(more).key = peek(buf).key BY <1>13, <1>15, <1>17
<1>19. peek(more) = peek(buf) BY <1>13, <1>17, <1>18 DEF Peeks
<1> QED BY <1>4, <1>6, <1>19 DEF Found

-----------------------------------------------------------------------------
(* The commands looked at and not yet run. *)

\* A is where they start: one after the other, from where the parser is to where
\* the look-ahead has come.
Chain(A, s, f, from, to) ==
  /\ A \subseteq Nat /\ (from < to => from \in A)
  /\ \A p \in A : /\ from <= p /\ p < to /\ Found(s, f, p) # Nothing
                  /\ After(s, f, p) = to \/ After(s, f, p) \in A
  /\ \A p, q \in A : p < q => After(s, f, p) <= q

\* The keys the look-ahead noted of them.
Noted(A, s, f) == {Moved(Found(s, f, p).key, p) : p \in {p \in A : Found(s, f, p).key # Nothing}}

\* Nothing has been looked at and not run when the parser has caught up.
LEMMA ChainNone ==
  ASSUME NEW s, NEW f, NEW from \in Nat, NEW to \in Nat, to <= from
  PROVE  /\ Chain({}, s, f, from, to)
         /\ \A A : Chain(A, s, f, from, to) => A = {}
<1>1. Chain({}, s, f, from, to) BY DEF Chain
<1>2. ASSUME NEW A, Chain(A, s, f, from, to), NEW p \in A PROVE FALSE
  <2>1. p \in Nat /\ from <= p /\ p < to BY <1>2 DEF Chain
  <2> QED BY <2>1
<1> QED BY <1>1, <1>2

\* The look-ahead takes one more.
LEMMA ChainOn ==
  ASSUME NEW s \in Bytes, NEW f \in Nat, f <= Len(s), NEW from \in Nat, NEW to \in Nat, from <= to,
         NEW A, Chain(A, s, f, from, to), Found(s, f, to) # Nothing
  PROVE  Chain(A \cup {to}, s, f, from, After(s, f, to))
<1>1. PICK end \in Nat : end = After(s, f, to) /\ to < end BY FoundFits
<1>2. /\ A \subseteq Nat /\ (from < to => from \in A)
      /\ \A p \in A : /\ from <= p /\ p < to /\ Found(s, f, p) # Nothing
                      /\ After(s, f, p) = to \/ After(s, f, p) \in A
      /\ \A p, q \in A : p < q => After(s, f, p) <= q
  BY DEF Chain
<1> DEFINE B == A \cup {to}
<1>3. B \subseteq Nat /\ from \in B BY <1>2
<1>4. ASSUME NEW p \in B
      PROVE  from <= p /\ p < end /\ Found(s, f, p) # Nothing /\ (After(s, f, p) = end \/ After(s, f, p) \in B)
  <2>1. CASE p = to BY <1>1, <2>1
  <2>2. CASE p \in A
    <3>1. p \in Nat /\ from <= p /\ p < to BY <1>2, <2>2
    <3>2. p < end BY <1>1, <3>1
    <3> QED BY <1>2, <2>2, <3>1, <3>2
  <2> QED BY <2>1, <2>2
<1>5. ASSUME NEW p \in B, NEW q \in B, p < q PROVE After(s, f, p) <= q
  <2>1. \A r \in A : r \in Nat /\ r < to BY <1>2
  <2>2. p \in A
    <3> SUFFICES ASSUME p = to PROVE FALSE OBVIOUS
    <3>1. q \in Nat /\ (q = to \/ q < to) BY <1>3, <2>1
    <3> QED BY <1>5, <3>1
  <2>3. CASE q \in A BY <1>2, <1>5, <2>2, <2>3
  <2>4. CASE q = to
    <3>1. After(s, f, p) = to \/ After(s, f, p) \in A BY <1>2, <2>2
    <3>2. After(s, f, p) \in Nat /\ (After(s, f, p) = to \/ After(s, f, p) < to) BY <2>1, <3>1
    <3> QED BY <2>4, <3>2
  <2> QED BY <2>3, <2>4
<1> HIDE DEF B
<1>6. Chain(B, s, f, from, end) BY <1>3, <1>4, <1>5 DEF Chain
<1> QED BY <1>1, <1>6 DEF B

\* It is one still when more has arrived, and the keys are the same.
LEMMA ChainGrows ==
  ASSUME NEW s \in Bytes, NEW f \in Nat, NEW g \in Nat, f <= g, g <= Len(s), NEW from \in Nat,
         NEW to \in Nat, NEW A, Chain(A, s, f, from, to)
  PROVE  Chain(A, s, g, from, to) /\ Noted(A, s, g) = Noted(A, s, f)
<1>1. /\ A \subseteq Nat /\ (from < to => from \in A)
      /\ \A p \in A : /\ from <= p /\ p < to /\ Found(s, f, p) # Nothing
                      /\ After(s, f, p) = to \/ After(s, f, p) \in A
      /\ \A p, q \in A : p < q => After(s, f, p) <= q
  BY DEF Chain
<1>2. \A p \in A : Found(s, g, p) = Found(s, f, p) BY <1>1, FoundGrows
<1>3. \A p \in A : After(s, g, p) = After(s, f, p) BY <1>2 DEF After
<1>4. Chain(A, s, g, from, to) BY <1>1, <1>2, <1>3 DEF Chain
<1>5. Noted(A, s, g) = Noted(A, s, f) BY <1>2 DEF Noted
<1> QED BY <1>4, <1>5

\* The parser takes the first.
LEMMA ChainOff ==
  ASSUME NEW s \in Bytes, NEW f \in Nat, f <= Len(s), NEW from \in Nat, NEW to \in Nat, from < to,
         NEW A, Chain(A, s, f, from, to)
  PROVE  /\ Chain(A \ {from}, s, f, After(s, f, from), to)
         /\ from \in A /\ Found(s, f, from) # Nothing /\ After(s, f, from) <= to
<1>1. /\ A \subseteq Nat /\ from \in A
      /\ \A p \in A : /\ from <= p /\ p < to /\ Found(s, f, p) # Nothing
                      /\ After(s, f, p) = to \/ After(s, f, p) \in A
      /\ \A p, q \in A : p < q => After(s, f, p) <= q
  BY DEF Chain
<1>2. \A p \in A : After(s, f, p) \in Nat /\ p < After(s, f, p) BY <1>1, FoundFits
<1>3. PICK end \in Nat : end = After(s, f, from) /\ from < end BY <1>1, <1>2
<1> DEFINE B == A \ {from}
<1>4. \A p \in B : p \in A /\ p \in Nat /\ from < p BY <1>1
<1>5. end = to \/ end \in B BY <1>1, <1>3
<1>6. ASSUME NEW p \in B
      PROVE  end <= p /\ p < to /\ Found(s, f, p) # Nothing /\ (After(s, f, p) = to \/ After(s, f, p) \in B)
  <2>1. end <= p BY <1>1, <1>3, <1>4
  <2>2. After(s, f, p) # from
    <3>1. p \in Nat /\ from < p /\ After(s, f, p) \in Nat /\ p < After(s, f, p) BY <1>2, <1>4
    <3> QED BY <3>1
  <2> QED BY <1>1, <1>4, <2>1, <2>2
<1>7. B \subseteq Nat /\ \A p, q \in B : p < q => After(s, f, p) <= q BY <1>1
<1>8. end < to => end \in B BY <1>5
<1>9. end <= to
  <2>1. \A p \in B : p \in Nat /\ p < to BY <1>1, <1>4
  <2> HIDE DEF B
  <2> QED BY <1>3, <1>5, <2>1
<1> HIDE DEF B
<1>10. Chain(B, s, f, end, to) BY <1>6, <1>7, <1>8 DEF Chain
<1> QED BY <1>1, <1>3, <1>9, <1>10 DEF B

\* The second arguments of the commands run.
SecondsOf(cs) == {cs[n][2] : n \in {n \in DOMAIN cs : Len(cs[n]) > 1}}

\* One more command adds its second argument, if it has one.
LEMMA SecondsOn ==
  ASSUME NEW S, NEW cs \in Seq(S), NEW c
  PROVE  /\ \E R : Append(cs, c) \in Seq(R)
         /\ Len(Append(cs, c)) = Len(cs) + 1 /\ Len(cs) \in Nat
         /\ Append(cs, c)[Len(cs) + 1] = c /\ \A n \in 1 .. Len(cs) : Append(cs, c)[n] = cs[n]
         /\ SecondsOf(Append(cs, c)) = SecondsOf(cs) \cup (IF Len(c) > 1 THEN {c[2]} ELSE {})
<1>1. PICK R : R = S \cup {c} OBVIOUS
<1>2. cs \in Seq(R) /\ c \in R BY <1>1, SeqMonotonic
<1>3. PICK m \in Nat : m = Len(cs) BY <1>2
<1>4. PICK ds : ds = Append(cs, c) OBVIOUS
<1>5. ds \in Seq(R) /\ Len(ds) = m + 1 /\ ds[m + 1] = c /\ \A n \in 1 .. m : ds[n] = cs[n]
  BY <1>2, <1>3, <1>4, AppendProperties
<1>6. DOMAIN cs = 1 .. m /\ DOMAIN ds = 1 .. m + 1 BY <1>2, <1>3, <1>5, LenProperties
<1>7. SecondsOf(ds) = SecondsOf(cs) \cup (IF Len(c) > 1 THEN {c[2]} ELSE {})
  <2>1. ASSUME NEW k \in SecondsOf(ds) PROVE k \in SecondsOf(cs) \cup (IF Len(c) > 1 THEN {c[2]} ELSE {})
    <3>1. PICK n \in 1 .. m + 1 : Len(ds[n]) > 1 /\ k = ds[n][2] BY <1>6, <2>1 DEF SecondsOf
    <3>2. CASE n = m + 1 BY <1>5, <3>1, <3>2
    <3>3. CASE n # m + 1
      <4>1. n \in 1 .. m BY <3>3
      <4>2. ds[n] = cs[n] BY <1>5, <4>1
      <4> QED BY <1>6, <3>1, <4>1, <4>2 DEF SecondsOf
    <3> QED BY <3>2, <3>3
  <2>2. ASSUME NEW k \in SecondsOf(cs) PROVE k \in SecondsOf(ds)
    <3>1. PICK n \in 1 .. m : Len(cs[n]) > 1 /\ k = cs[n][2] BY <1>6, <2>2 DEF SecondsOf
    <3>2. n \in 1 .. m + 1 /\ ds[n] = cs[n] BY <1>5
    <3> QED BY <1>6, <3>1, <3>2 DEF SecondsOf
  <2>3. ASSUME Len(c) > 1 PROVE c[2] \in SecondsOf(ds)
    <3>1. PICK j \in 1 .. m + 1 : j = m + 1 OBVIOUS
    <3>2. ds[j] = c BY <1>5, <3>1
    <3> QED BY <1>6, <2>3, <3>2 DEF SecondsOf
  <2> QED BY <2>1, <2>2, <2>3
<1> QED BY <1>3, <1>4, <1>5, <1>7

-----------------------------------------------------------------------------
(* The inductive invariant. *)

Held ==
  /\ stream \in Bytes /\ filled \in Nat /\ at \in Nat /\ asked \in Nat /\ looks \in Nat
  /\ at <= filled /\ filled <= Len(stream) /\ asked <= filled
  /\ doing \in {"fill", "execute", "ask", "parse"} /\ closing \in {"no", "lost", "last"}
  /\ \E S : commands \in Seq(S)

\* Where the commands of a pipeline are in its stream.
Offs(pipeline) == CHOOSE off : Lays(off, Wires(pipeline), Len(pipeline), FlattenSeq(Wires(pipeline)))

\* The commands parsed so far are the first ones sent, and the parser is where the
\* next one starts.
Piped ==
  /\ sent \in Pipelines \cup {Nothing}
  /\ sent # Nothing =>
       /\ stream = FlattenSeq(Wires(sent)) /\ closing # "lost"
       /\ Len(commands) <= Len(sent) /\ at = Offs(sent)[Len(commands)]
       /\ \A n \in 1 .. Len(commands) : Covers(commands[n], sent[n], stream)
       /\ doing = "fill" /\ filled = Len(stream) /\ Goes => Len(commands) = Len(sent)

\* Every key noted is of a command run or of one looked at and not yet run, the
\* last of which ends at reach; there are none of these when execute ended for want
\* of a whole command.
Scanned(A, reach) ==
  /\ reach \in Nat /\ Chain(A, stream, filled, at, reach)
  /\ at < asked => asked = reach \/ asked \in A
  /\ keys \subseteq SecondsOf(commands) \cup Noted(A, stream, filled)
  /\ Noted({p \in A : p < asked}, stream, filled) \subseteq keys
  /\ doing = "fill" /\ closing # "last" /\ ~full => A = {}
  /\ sent # Nothing => SecondsOf(commands) \subseteq keys

Scanning ==
  /\ doing \in {"ask", "parse"} => at <= asked /\ closing = "no"
  /\ doing = "ask" /\ looks # 0 => at < asked
  /\ doing = "parse" => at < asked \/ Found(stream, filled, at) = Nothing
  /\ closing = "lost" => doing = "fill"

\* The connection closes after its QUIT, which is the last command run.
Quitting == \A n \in 1 .. Len(commands) : quits(commands[n]) => n = Len(commands) /\ closing = "last"

Read == Held /\ Piped /\ Scanning /\ Quitting /\ \E A, reach : Scanned(A, reach)

-----------------------------------------------------------------------------
(* A pipeline. *)

\* A pipeline is commands within the limits, and its stream is their wire forms in
\* a row.
LEMMA PipelineIs ==
  ASSUME NEW pipeline \in Pipelines
  PROVE  LET n == Len(pipeline)
             off == Offs(pipeline)
             flat == FlattenSeq(Wires(pipeline))
         IN  /\ n \in Nat /\ DOMAIN pipeline = 1 .. n /\ flat \in Bytes
             /\ off \in [0 .. n -> Nat] /\ off[0] = 0 /\ off[n] = Len(flat)
             /\ \A i \in 1 .. n : /\ pipeline[i] \in Seq(Bytes) /\ Fits(pipeline[i])
                                  /\ off[i] = off[i - 1] + Len(encode(pipeline[i]))
                                  /\ Occurs(encode(pipeline[i]), flat, off[i - 1])
<1>1. pipeline \in Seq(Seq(Bytes)) BY BytesAssumption DEF Bytes
<1>2. PICK n \in Nat : n = Len(pipeline) /\ DOMAIN pipeline = 1 .. n BY <1>1, LenProperties
<1>3. \A i \in 1 .. n : pipeline[i] \in Seq(Bytes) BY <1>1, <1>2, ElementOfSeq
<1>4. ASSUME NEW i \in 1 .. n PROVE Fits(pipeline[i])
  <2>1. pipeline[i] \in Seq(Bytes) BY <1>3
  <2>2. DOMAIN pipeline[i] = 1 .. Len(pipeline[i]) BY <2>1, LenProperties
  <2>3. Len(pipeline[i]) <= MAX_ARGS /\ \A j \in DOMAIN pipeline[i] : Len(pipeline[i][j]) <= MAX_BULK
    BY <1>2, BytesAssumption
  <2> QED BY <2>2, <2>3 DEF Fits
<1>5. PICK w : w = Wires(pipeline) OBVIOUS
<1>6. \A i \in 1 .. n : encode(pipeline[i]) \in Bytes BY <1>3, EncodeIs
<1>7. w \in [1 .. n -> Bytes] /\ \A i \in 1 .. n : w[i] = encode(pipeline[i]) BY <1>2, <1>5, <1>6 DEF Wires
<1>8. w \in Seq(Bytes) /\ Len(w) = n BY <1>7, FunIsSeq
<1>9. FlattenSeq(w) \in Bytes /\ \E off : Lays(off, w, n, FlattenSeq(w)) BY <1>8, FlattenIs
<1>10. PICK off : off = Offs(pipeline) OBVIOUS
<1>11. Lays(off, w, n, FlattenSeq(w)) BY <1>2, <1>5, <1>9, <1>10 DEF Offs
<1>12. /\ off \in [0 .. n -> Nat] /\ off[0] = 0 /\ off[n] = Len(FlattenSeq(w))
       /\ \A i \in 1 .. n : off[i] = off[i - 1] + Len(w[i]) /\ Occurs(w[i], FlattenSeq(w), off[i - 1])
  BY <1>11 DEF Lays
<1> QED BY <1>2, <1>3, <1>4, <1>5, <1>7, <1>9, <1>10, <1>12

\* What the parser meets where a command of a pipeline starts.
LEMMA Meets ==
  ASSUME Held, Piped, sent # Nothing, NEW x
  PROVE  LET k == Len(commands)
             buf == Part(stream, filled, at)
             args == sent[k + 1]
         IN  \/ k = Len(sent) /\ parse(buf, x).is = "more"
             \/ k < Len(sent) /\ filled < Len(stream) /\ parse(buf, x).is = "more"
             \/ /\ k + 1 <= Len(sent) /\ at + Len(encode(args)) = Offs(sent)[k + 1]
                /\ args \in Seq(Bytes) /\ Found(stream, filled, at) # Nothing
                /\ \E spans : /\ Covers(spans, args, buf)
                              /\ parse(buf, x) = Done(Len(encode(args)), spans)
<1>1. /\ stream \in Bytes /\ filled \in Nat /\ at \in Nat /\ at <= filled /\ filled <= Len(stream)
      /\ \E S : commands \in Seq(S)
  BY DEF Held
<1>2. PICK k \in Nat : k = Len(commands) BY <1>1
<1>3. sent \in Pipelines /\ stream = FlattenSeq(Wires(sent)) /\ k <= Len(sent) /\ at = Offs(sent)[k]
  BY <1>2 DEF Piped
<1>4. PICK n, off :
         /\ n \in Nat /\ n = Len(sent) /\ off = Offs(sent)
         /\ off \in [0 .. n -> Nat] /\ off[0] = 0 /\ off[n] = Len(stream)
         /\ \A i \in 1 .. n : /\ sent[i] \in Seq(Bytes) /\ Fits(sent[i])
                              /\ off[i] = off[i - 1] + Len(encode(sent[i]))
                              /\ Occurs(encode(sent[i]), stream, off[i - 1])
  BY <1>3, PipelineIs
<1>5. PICK buf \in Bytes : /\ buf = Part(stream, filled, at) /\ Len(buf) = filled - at
                           /\ Prefixed(buf, Drop(stream, at)) /\ Occurs(buf, stream, at)
  BY <1>1, PartIs
<1>6. Len(stream) \in Nat /\ Len(buf) \in Nat
  <2>1. Len(stream) \in Nat BY <1>1 DEF Bytes
  <2> QED BY <1>1, <1>5, <2>1
<1>7. CASE k = n
  <2>1. Len(buf) = 0 BY <1>1, <1>3, <1>4, <1>5, <1>6, <1>7
  <2>2. buf = <<>> BY <2>1, EmptySeq DEF Bytes
  <2>3. parse(buf, x).is = "more" BY <2>2 DEF parse, More
  <2> QED BY <1>2, <1>4, <1>5, <1>7, <2>3
<1>8. CASE k < n
  <2>1. PICK j \in 1 .. n : j = k + 1 /\ j - 1 = k BY <1>4, <1>8
  <2>2. PICK args \in Seq(Bytes) : args = sent[j] /\ Fits(args) BY <1>4
  <2>3. PICK w \in Bytes : w = encode(args) BY EncodeIs
  <2>4. Len(w) \in Nat BY DEF Bytes
  <2>5. off[j] = at + Len(w) /\ Occurs(w, stream, at) BY <1>3, <1>4, <2>1, <2>2, <2>3
  <2>6. at + Len(w) <= Len(stream) /\ \A i \in 1 .. Len(w) : stream[at + i] = w[i] BY <2>5 DEF Occurs
  <2>7. PICK whole \in Bytes : /\ whole = Drop(stream, at) /\ Len(whole) = Len(stream) - at
                               /\ \A i \in 1 .. Len(stream) - at : whole[i] = stream[at + i]
    <3>1. at <= Len(stream) BY <1>1, <1>6
    <3> QED BY <1>1, <3>1, DropIs
  <2>8. Occurs(w, whole, 0)
    <3>1. \A i \in 1 .. Len(w) : i \in 1 .. Len(stream) - at /\ 0 + i = i BY <1>1, <1>6, <2>4, <2>6
    <3>2. 0 + Len(w) <= Len(whole) BY <1>1, <1>6, <2>4, <2>6, <2>7
    <3> QED BY <2>6, <2>7, <3>1, <3>2 DEF Occurs
  <2>9. CASE Len(buf) < Len(w)
    <3>1. parse(buf, x).is = "more" BY <1>5, <2>2, <2>3, <2>7, <2>8, <2>9, EncodeWaits
    <3>2. filled < Len(stream) BY <1>1, <1>5, <1>6, <2>4, <2>6, <2>9
    <3> QED BY <1>2, <1>4, <1>5, <1>8, <3>1, <3>2
  <2>10. CASE Len(w) <= Len(buf)
    <3>1. Occurs(w, buf, 0)
      <4>1. ASSUME NEW i \in 1 .. Len(w) PROVE buf[0 + i] = w[i]
        <5>1. i \in 1 .. Len(buf) /\ 0 + i = i BY <1>6, <2>4, <2>10
        <5>2. stream[at + i] = buf[i] BY <1>5, <5>1 DEF Occurs
        <5> QED BY <2>6, <5>1, <5>2
      <4>2. 0 + Len(w) <= Len(buf) BY <2>4, <2>10
      <4> QED BY <4>1, <4>2 DEF Occurs
    <3>2. /\ buf # <<>> /\ buf[1] = STAR /\ ArrayAt(buf, line(buf, 0), Len(args))
          /\ \E spans : Covers(spans, args, buf) /\ parse(buf, x) = Done(Len(w), spans)
      <4>1. Occurs(encode(args), buf, 0) BY <2>3, <3>1
      <4>2. /\ buf # <<>> /\ buf[1] = STAR /\ ArrayAt(buf, line(buf, 0), Len(args))
            /\ \E spans : Covers(spans, args, buf) /\ parse(buf, x) = Done(Len(encode(args)), spans)
        <5>1. PICK ar \in Seq(Bytes), bu \in Bytes : ar = args /\ bu = buf OBVIOUS
        <5>2. Fits(ar) /\ Occurs(encode(ar), bu, 0) BY <2>2, <4>1, <5>1
        <5>3. /\ bu # <<>> /\ bu[1] = STAR /\ ArrayAt(bu, line(bu, 0), Len(ar))
              /\ \E spans : Covers(spans, ar, bu) /\ parse(bu, x) = Done(Len(encode(ar)), spans)
          BY ONLY <5>2, EncodeReads
        <5> QED BY <5>1, <5>3
      <4> QED BY <2>3, <4>2
    <3>3. parse(buf, x).is = "done" BY <3>2 DEF Done
    <3>4. peek(buf) # Nothing BY <3>2, <3>3, PeekArray
    <3>5. k + 1 <= n BY <1>4, <1>8
    <3> QED BY <1>2, <1>4, <1>5, <2>1, <2>2, <2>3, <2>5, <3>2, <3>4, <3>5 DEF Found
  <2> QED BY <1>6, <2>4, <2>9, <2>10
<1> QED BY <1>3, <1>4, <1>7, <1>8

\* A command parsed from a part covers its arguments in the stream.
LEMMA MovedCovers ==
  ASSUME NEW s \in Bytes, NEW f \in Nat, NEW p \in Nat, p <= f, f <= Len(s), NEW args \in Seq(Bytes),
         NEW spans, Covers(spans, args, Part(s, f, p))
  PROVE  Covers([i \in DOMAIN spans |-> Moved(spans[i], p)], args, s)
<1>1. PICK n \in Nat : n = Len(args) OBVIOUS
<1>2. /\ spans \in Seq(Spans) /\ Len(spans) = n
      /\ \A i \in 1 .. n : spans[i].len = Len(args[i]) /\ Occurs(args[i], Part(s, f, p), spans[i].at)
  BY <1>1 DEF Covers
<1>3. DOMAIN spans = 1 .. n /\ \A i \in 1 .. n : spans[i] \in Spans BY <1>2, LenProperties, ElementOfSeq
<1>4. ASSUME NEW i \in 1 .. n
      PROVE  /\ Moved(spans[i], p) \in Spans /\ Moved(spans[i], p).len = spans[i].len
             /\ Moved(spans[i], p).at = p + spans[i].at /\ spans[i].at \in Nat
  <2>1. PICK span \in Spans : span = spans[i] BY <1>3
  <2>2. span.at \in Nat /\ span.len \in Nat BY DEF Spans
  <2>3. span.at + p \in Nat /\ span.at + p = p + span.at BY <2>2
  <2> QED BY <2>1, <2>2, <2>3 DEF Spans, Moved
<1>5. PICK c : c = [i \in DOMAIN spans |-> Moved(spans[i], p)] OBVIOUS
<1>6. c \in [1 .. n -> Spans] /\ \A i \in 1 .. n : c[i] = Moved(spans[i], p) BY <1>3, <1>4, <1>5
<1>7. c \in Seq(Spans) /\ Len(c) = n BY <1>6, FunIsSeq
<1>8. ASSUME NEW i \in 1 .. n PROVE c[i].len = Len(args[i]) /\ Occurs(args[i], s, c[i].at)
  <2>1. c[i].len = Len(args[i]) /\ c[i].at = p + spans[i].at /\ spans[i].at \in Nat BY <1>2, <1>4, <1>6
  <2>2. args[i] \in Bytes BY <1>1, ElementOfSeq
  <2>3. Part(s, f, p) \in Bytes /\ Occurs(Part(s, f, p), s, p) BY PartIs
  <2>4. Occurs(args[i], s, p + spans[i].at) BY <1>2, <2>1, <2>2, <2>3, OccursIn
  <2> QED BY <2>1, <2>4
<1> QED BY <1>1, <1>5, <1>7, <1>8 DEF Covers

-----------------------------------------------------------------------------
(* Every step keeps it. *)

\* Nothing is noted of no commands.
LEMMA NotedNone == ASSUME NEW s, NEW f PROVE Noted({}, s, f) = {}
BY DEF Noted

\* It holds of a new connection.
LEMMA ReadInit == RespInit => Read
<1> SUFFICES ASSUME RespInit PROVE Read OBVIOUS
<1>1. /\ filled = 0 /\ at = 0 /\ doing = "fill" /\ asked = 0 /\ looks = 0 /\ keys = {}
      /\ commands = <<>> /\ closing = "no"
  BY DEF RespInit
<1>2. /\ sent \in Pipelines \cup {Nothing} /\ stream \in Bytes
      /\ sent # Nothing => sent \in Pipelines /\ stream = FlattenSeq(Wires(sent))
  <2>1. CASE sent \in Pipelines /\ stream = FlattenSeq([i \in DOMAIN sent |-> encode(sent[i])])
    <3>1. stream = FlattenSeq(Wires(sent)) BY <2>1 DEF Wires
    <3>2. FlattenSeq(Wires(sent)) \in Bytes BY <2>1, PipelineIs
    <3> QED BY <2>1, <3>1, <3>2
  <2>2. CASE sent = Nothing /\ stream \in Noise BY <2>2, BytesAssumption DEF Bytes
  <2> QED BY <2>1, <2>2 DEF RespInit
<1>3. Len(stream) \in Nat BY <1>2 DEF Bytes
<1>4. Len(commands) = 0 /\ SecondsOf(commands) = {} BY <1>1 DEF SecondsOf
<1>5. Held
  <2>1. \E S : commands \in Seq(S)
    <3>1. <<>> \in Seq({}) BY EmptySeq
    <3> QED BY <1>1, <3>1
  <2> QED BY <1>1, <1>2, <1>3, <2>1 DEF Held
<1>6. Piped
  <2> SUFFICES ASSUME sent # Nothing
               PROVE  /\ stream = FlattenSeq(Wires(sent)) /\ closing # "lost"
                      /\ Len(commands) <= Len(sent) /\ at = Offs(sent)[Len(commands)]
                      /\ \A n \in 1 .. Len(commands) : Covers(commands[n], sent[n], stream)
                      /\ doing = "fill" /\ filled = Len(stream) /\ Goes => Len(commands) = Len(sent)
    BY <1>2 DEF Piped
  <2>1. PICK n, off :
         /\ n \in Nat /\ n = Len(sent) /\ off = Offs(sent)
         /\ off \in [0 .. n -> Nat] /\ off[0] = 0
         /\ \A i \in 1 .. n : sent[i] \in Seq(Bytes) /\ Occurs(encode(sent[i]), stream, off[i - 1])
    BY <1>2, PipelineIs
  <2>2. ASSUME n # 0 PROVE filled # Len(stream)
    <3>1. 1 \in 1 .. n /\ 1 - 1 = 0 BY <2>1, <2>2
    <3>2. PICK args \in Seq(Bytes) : args = sent[1] BY <2>1, <3>1
    <3>3. Occurs(encode(args), stream, 0) BY <2>1, <3>1, <3>2
    <3>4. encode(args) \in Bytes /\ \E h, flat : /\ Len(h) \in Nat /\ Len(h) > 0 /\ flat \in Bytes
                                                 /\ Len(encode(args)) = Len(h) + Len(flat)
      BY EncodeIs
    <3>5. Len(encode(args)) > 0
      <4>1. PICK h, flat : /\ Len(h) \in Nat /\ Len(h) > 0 /\ flat \in Bytes
                           /\ Len(encode(args)) = Len(h) + Len(flat)
        BY <3>4
      <4>2. Len(flat) \in Nat BY <4>1 DEF Bytes
      <4> QED BY <4>1, <4>2
    <3>6. Len(encode(args)) \in Nat BY <3>4 DEF Bytes
    <3>7. 0 + Len(encode(args)) <= Len(stream) BY <3>3 DEF Occurs
    <3> QED BY <1>1, <1>3, <3>5, <3>6, <3>7
  <2>3. \A i \in 1 .. Len(commands) : Covers(commands[i], sent[i], stream) BY <1>4
  <2>4. Len(commands) <= Len(sent) /\ at = Offs(sent)[Len(commands)] BY <1>1, <1>4, <2>1
  <2>5. filled = Len(stream) => Len(commands) = Len(sent) BY <1>4, <2>1, <2>2
  <2> QED BY <1>1, <1>2, <2>3, <2>4, <2>5
<1>7. Scanning BY <1>1 DEF Scanning
<1>8. Scanned({}, 0)
  <2>1. Chain({}, stream, filled, at, 0) BY <1>1, ChainNone
  <2>2. {p \in {} : p < asked} = {} OBVIOUS
  <2> QED BY <1>1, <1>4, <2>1, <2>2, NotedNone DEF Scanned
<1>9. Quitting BY <1>4 DEF Quitting
<1> QED BY <1>5, <1>6, <1>7, <1>8, <1>9 DEF Read

\* Nothing before the parser is on the chain from where it is.
LEMMA NoneBefore ==
  ASSUME NEW s, NEW f, NEW from, NEW to, NEW A, Chain(A, s, f, from, to), from \in Nat
  PROVE  {p \in A : p < from} = {}
<1>1. \A p \in A : p \in Nat /\ from <= p BY DEF Chain
<1> QED BY <1>1

\* A read only brings more: what has been parsed stays where it is.
LEMMA ReadArrive == Read /\ Arrive => Read'
<1> SUFFICES ASSUME Read, Arrive PROVE Read' OBVIOUS
<1>1. Held /\ Piped /\ Scanning /\ Quitting BY DEF Read
<1>2. PICK A, reach : Scanned(A, reach) BY DEF Read
<1>3. PICK n \in 0 .. Len(stream) - filled : filled' = filled + n BY DEF Arrive
<1>4. /\ doing = "fill" /\ doing' = "execute" /\ asked' = at /\ closing = "no"
      /\ sent' = sent /\ stream' = stream /\ at' = at /\ looks' = looks /\ keys' = keys
      /\ commands' = commands /\ closing' = closing
  BY DEF Arrive
<1>5. /\ stream \in Bytes /\ filled \in Nat /\ at \in Nat /\ asked \in Nat /\ looks \in Nat
      /\ at <= filled /\ filled <= Len(stream) /\ asked <= filled /\ \E S : commands \in Seq(S)
  BY <1>1 DEF Held
<1>6. Len(stream) \in Nat BY <1>5 DEF Bytes
<1>7. filled' \in Nat /\ filled <= filled' /\ filled' <= Len(stream) /\ at <= filled' BY <1>3, <1>5, <1>6
<1>8. Held' BY <1>4, <1>5, <1>7 DEF Held
<1>9. Piped' BY <1>1, <1>4 DEF Piped
<1>10. Scanning' BY <1>4, <1>5 DEF Scanning
<1>11. Quitting' BY <1>1, <1>4 DEF Quitting, quits
<1>12. Scanned(A, reach)'
  <2>1. reach \in Nat /\ Chain(A, stream, filled, at, reach) BY <1>2 DEF Scanned
  <2>2. Chain(A, stream, filled', at, reach) /\ Noted(A, stream, filled') = Noted(A, stream, filled)
    BY <1>5, <1>7, <2>1, ChainGrows
  <2>3. {p \in A : p < at} = {} BY <1>5, <2>1, NoneBefore
  <2>4. Noted({p \in A : p < asked'}, stream', filled') = {} BY <1>4, <2>3, NotedNone
  <2>5. ~(at' < asked') BY <1>4, <1>5
  <2>6. /\ keys \subseteq SecondsOf(commands) \cup Noted(A, stream, filled)
        /\ sent # Nothing => SecondsOf(commands) \subseteq keys
    BY <1>2 DEF Scanned
  <2> QED BY <1>4, <2>1, <2>2, <2>4, <2>5, <2>6 DEF Scanned
<1> QED BY <1>8, <1>9, <1>10, <1>11, <1>12 DEF Read

\* Where execute stops before it has to, keys may be left on the chain.
LEMMA ReadStop == Read /\ Stop => Read'
<1> SUFFICES ASSUME Read, Stop PROVE Read' OBVIOUS
<1>1. Held /\ Piped /\ Scanning /\ Quitting BY DEF Read
<1>2. PICK A, reach : Scanned(A, reach) BY DEF Read
<1>3. /\ doing = "execute" /\ doing' = "fill" /\ ~Goes
      /\ UNCHANGED <<sent, stream, filled, at, asked, looks, keys, commands, closing, full>>
  BY DEF Stop
<1>4. ~Goes' BY <1>3 DEF Goes
<1>5. Held' BY <1>1, <1>3 DEF Held
<1>6. Piped' BY <1>1, <1>3, <1>4 DEF Piped
<1>7. Scanning' /\ Quitting' BY <1>1, <1>3 DEF Scanning, Quitting, quits
<1>8. closing' = "last" \/ full'
  <2>1. closing # "lost" BY <1>1, <1>3 DEF Scanning
  <2>2. closing \in {"no", "lost", "last"} BY <1>1 DEF Held
  <2> QED BY <1>3, <2>1, <2>2 DEF Goes
<1>9. Scanned(A, reach)' BY <1>2, <1>3, <1>8 DEF Scanned
<1> QED BY <1>5, <1>6, <1>7, <1>9 DEF Read

\* The look-ahead starts from where the parser is.
LEMMA ReadAsk == Read /\ Ask => Read'
<1> SUFFICES ASSUME Read, Ask PROVE Read' OBVIOUS
<1>1. Held /\ Piped /\ Scanning /\ Quitting BY DEF Read
<1>2. PICK A, reach : Scanned(A, reach) BY DEF Read
<1>3. /\ doing = "execute" /\ doing' = "ask" /\ asked' = at /\ looks' = 0 /\ closing = "no"
      /\ sent' = sent /\ stream' = stream /\ filled' = filled /\ at' = at /\ keys' = keys
      /\ commands' = commands /\ closing' = closing
  BY DEF Ask, Goes
<1>4. /\ stream \in Bytes /\ filled \in Nat /\ at \in Nat /\ asked \in Nat
      /\ at <= filled /\ filled <= Len(stream) /\ \E S : commands \in Seq(S)
  BY <1>1 DEF Held
<1>5. Held' BY <1>1, <1>3, <1>4 DEF Held
<1>6. Piped' BY <1>1, <1>3 DEF Piped
<1>7. Scanning' BY <1>3, <1>4 DEF Scanning
<1>8. Quitting' BY <1>1, <1>3 DEF Quitting, quits
<1>9. Scanned(A, reach)'
  <2>1. reach \in Nat /\ Chain(A, stream, filled, at, reach) BY <1>2 DEF Scanned
  <2>2. {p \in A : p < at} = {} BY <1>4, <2>1, NoneBefore
  <2>3. Noted({p \in A : p < asked'}, stream', filled') = {} BY <1>3, <2>2, NotedNone
  <2>4. ~(at' < asked') BY <1>3, <1>4
  <2>5. /\ keys \subseteq SecondsOf(commands) \cup Noted(A, stream, filled)
        /\ sent # Nothing => SecondsOf(commands) \subseteq keys
    BY <1>2 DEF Scanned
  <2> QED BY <1>3, <2>1, <2>3, <2>4, <2>5 DEF Scanned
<1> QED BY <1>5, <1>6, <1>7, <1>8, <1>9 DEF Read

\* A look notes the key of the next command, or ends.
LEMMA ReadAhead == Read /\ ask_ahead => Read'
<1> SUFFICES ASSUME Read, ask_ahead PROVE Read' OBVIOUS
<1>1. Held /\ Piped /\ Scanning /\ Quitting BY DEF Read
<1>2. PICK A, reach : Scanned(A, reach) BY DEF Read
<1>3. PICK next : next = Found(stream, filled, asked) OBVIOUS
<1>4. /\ doing = "ask"
      /\ IF looks = AHEAD \/ next = Nothing
         THEN doing' = "parse" /\ UNCHANGED <<asked, looks, keys>>
         ELSE /\ keys' = keys \cup (IF next.key = Nothing THEN {} ELSE {Moved(next.key, asked)})
              /\ asked' = asked + next.used /\ looks' = looks + 1
              /\ UNCHANGED doing
      /\ sent' = sent /\ stream' = stream /\ filled' = filled /\ at' = at
      /\ commands' = commands /\ closing' = closing
  BY <1>3 DEF ask_ahead, Found, Part, Rest
<1>5. /\ stream \in Bytes /\ filled \in Nat /\ at \in Nat /\ asked \in Nat /\ looks \in Nat
      /\ at <= filled /\ filled <= Len(stream) /\ asked <= filled /\ \E S : commands \in Seq(S)
  BY <1>1 DEF Held
<1>6. at <= asked /\ closing = "no" /\ (looks # 0 => at < asked) BY <1>1, <1>4 DEF Scanning
<1>7. /\ reach \in Nat /\ Chain(A, stream, filled, at, reach)
      /\ at < asked => asked = reach \/ asked \in A
      /\ keys \subseteq SecondsOf(commands) \cup Noted(A, stream, filled)
      /\ Noted({p \in A : p < asked}, stream, filled) \subseteq keys
      /\ sent # Nothing => SecondsOf(commands) \subseteq keys
  BY <1>2 DEF Scanned
<1>20. Quitting' BY <1>1, <1>4 DEF Quitting, quits
<1>8. CASE looks = AHEAD \/ next = Nothing
  <2>1. doing' = "parse" /\ asked' = asked /\ looks' = looks /\ keys' = keys BY <1>4, <1>8
  <2>2. Held' BY <1>1, <1>4, <1>5, <2>1 DEF Held
  <2>3. Piped' BY <1>1, <1>4, <2>1 DEF Piped
  <2>4. at < asked \/ Found(stream, filled, at) = Nothing
    <3>1. CASE looks = AHEAD
      <4>1. looks # 0 BY <3>1, Limits
      <4> QED BY <1>6, <4>1
    <3>2. CASE next = Nothing
      <4>1. at < asked \/ at = asked BY <1>5, <1>6
      <4> QED BY <1>3, <3>2, <4>1
    <3> QED BY <1>8, <3>1, <3>2
  <2>5. Scanning' BY <1>4, <1>6, <2>1, <2>4 DEF Scanning
  <2>6. Scanned(A, reach)' BY <1>7, <1>4, <2>1 DEF Scanned
  <2> QED BY <1>20, <2>2, <2>3, <2>5, <2>6 DEF Read
<1>9. CASE ~(looks = AHEAD \/ next = Nothing)
  <2> DEFINE new == IF next.key = Nothing THEN {} ELSE {Moved(next.key, asked)}
  <2>1. /\ keys' = keys \cup new
        /\ asked' = After(stream, filled, asked) /\ looks' = looks + 1 /\ doing' = doing
    BY <1>3, <1>4, <1>9 DEF After
  <2>2. asked' \in Nat /\ asked < asked' /\ asked' <= filled BY <1>3, <1>5, <1>9, <2>1, FoundFits
  <2>3. looks' \in Nat BY <1>5, <2>1
  <2>4. Held' BY <1>1, <1>4, <1>5, <2>1, <2>2, <2>3 DEF Held
  <2>5. Piped' BY <1>1, <1>4, <2>1 DEF Piped
  <2>6. at < asked' BY <1>5, <1>6, <2>2
  <2>7. Scanning'
    <3>1. at' < asked' /\ at' <= asked' BY <1>4, <1>5, <2>2, <2>6
    <3>2. doing' = "ask" /\ closing' = "no" BY <1>4, <1>6, <2>1
    <3> QED BY <3>1, <3>2 DEF Scanning
  \* The command looked at is on the chain already, or is put at its end.
  <2>8. PICK B, end :
          /\ end \in Nat /\ Chain(B, stream, filled, at, end) /\ asked \in B
          /\ asked' = end \/ asked' \in B
          /\ Noted(A, stream, filled) \subseteq Noted(B, stream, filled)
          /\ {p \in B : p < asked'} = {p \in A : p < asked} \cup {asked}
    <3>1. /\ A \subseteq Nat /\ (at < reach => at \in A)
          /\ \A p \in A : /\ at <= p /\ p < reach /\ Found(stream, filled, p) # Nothing
                          /\ After(stream, filled, p) = reach \/ After(stream, filled, p) \in A
          /\ \A p, q \in A : p < q => After(stream, filled, p) <= q
      BY <1>7 DEF Chain
    <3>2. CASE asked < reach
      <4>1. asked \in A
        <5>1. CASE at < asked BY <1>5, <1>7, <3>2, <5>1
        <5>2. CASE ~(at < asked)
          <6>1. at = asked BY <1>5, <1>6, <5>2
          <6> QED BY <3>1, <3>2, <6>1
        <5> QED BY <5>1, <5>2
      <4>2. asked' = reach \/ asked' \in A BY <2>1, <3>1, <4>1
      <4>3. ASSUME NEW p \in A PROVE p < asked' <=> p < asked \/ p = asked
        <5>1. p \in Nat /\ (asked < p => asked' <= p) BY <2>1, <3>1, <4>1
        <5> QED BY <1>5, <2>2, <5>1
      <4>4. {p \in A : p < asked'} = {p \in A : p < asked} \cup {asked} BY <4>1, <4>3
      <4> QED BY <1>7, <4>1, <4>2, <4>4
    <3>3. CASE ~(asked < reach)
      <4>1. asked \notin A BY <3>1, <3>3
      <4>2. Chain(A, stream, filled, at, asked)
        <5>1. CASE at < asked BY <1>7, <4>1, <5>1
        <5>2. CASE ~(at < asked)
          <6>1. at = asked /\ reach <= at BY <1>5, <1>6, <1>7, <3>3, <5>2
          <6>2. A = {} /\ asked <= at BY <1>5, <1>7, <6>1, ChainNone
          <6> QED BY <1>5, <6>2, ChainNone
        <5> QED BY <5>1, <5>2
      <4>3. PICK B : B = A \cup {asked} OBVIOUS
      <4>4. Chain(B, stream, filled, at, asked') BY <1>3, <1>5, <1>6, <1>9, <2>1, <4>2, <4>3, ChainOn
      <4>5. Noted(A, stream, filled) \subseteq Noted(B, stream, filled) BY <4>3 DEF Noted
      <4>6. \A p \in A : p < asked /\ p < asked'
        <5>1. \A p \in A : p \in Nat /\ p < asked BY <4>2 DEF Chain
        <5> QED BY <1>5, <2>2, <5>1
      <4>7. {p \in B : p < asked'} = {p \in A : p < asked} \cup {asked} BY <2>2, <4>3, <4>6
      <4> QED BY <2>2, <4>3, <4>4, <4>5, <4>7
    <3> QED BY <3>2, <3>3
  <2>9. Noted({p \in B : p < asked'}, stream, filled) = Noted({p \in A : p < asked}, stream, filled) \cup new
    <3>1. PICK L : L = {p \in A : p < asked} OBVIOUS
    <3>2. Noted(L \cup {asked}, stream, filled) = Noted(L, stream, filled) \cup new BY <1>3 DEF Noted
    <3> QED BY <2>8, <3>1, <3>2
  <2>10. new \subseteq Noted(B, stream, filled) BY <1>3, <2>8 DEF Noted
  <2> HIDE DEF new
  <2>11. /\ keys' \subseteq SecondsOf(commands) \cup Noted(B, stream, filled)
         /\ Noted({p \in B : p < asked'}, stream, filled) \subseteq keys'
         /\ sent # Nothing => SecondsOf(commands) \subseteq keys'
    BY <1>7, <2>1, <2>8, <2>9, <2>10
  <2>12. doing' # "fill" BY <1>4, <2>1
  <2>13. Scanned(B, end)' BY <1>4, <2>8, <2>11, <2>12 DEF Scanned
  <2> QED BY <1>20, <2>4, <2>5, <2>7, <2>13 DEF Read
<1> QED BY <1>8, <1>9

\* A pass of execute's loop takes the command at the front, waits or gives up.
LEMMA ReadParse == Read /\ Parse => Read'
<1> SUFFICES ASSUME Read, Parse PROVE Read' OBVIOUS
<1>1. Held /\ Piped /\ Scanning /\ Quitting BY DEF Read
<1>2. PICK A, reach : Scanned(A, reach) BY DEF Read
<1>3. PICK x : x = into OBVIOUS
<1>4. PICK buf : buf = Part(stream, filled, at) OBVIOUS
<1>5. PICK found : found = parse(buf, x) OBVIOUS
<1>6. /\ doing = "parse" \/ (doing = "execute" /\ Goes /\ at < asked)
      /\ \/ /\ found.is = "done"
            /\ at' = at + found.used /\ doing' = "execute"
            /\ Runs([i \in DOMAIN found.spans |-> Moved(found.spans[i], at)])
         \/ /\ found.is = "more" /\ doing' = "fill" /\ at' = at /\ commands' = commands
            /\ closing' = closing /\ full' = full
         \/ found.is = "bad" /\ doing' = "fill" /\ closing' = "lost" /\ at' = at /\ commands' = commands
      /\ sent' = sent /\ stream' = stream /\ filled' = filled /\ asked' = asked /\ looks' = looks /\ keys' = keys
  BY <1>3, <1>4, <1>5 DEF Parse, Part, Rest
<1>20. closing = "no" BY <1>1, <1>6 DEF Scanning, Goes
<1>7. /\ stream \in Bytes /\ filled \in Nat /\ at \in Nat /\ asked \in Nat /\ looks \in Nat
      /\ at <= filled /\ filled <= Len(stream) /\ asked <= filled
  BY <1>1 DEF Held
<1>8. PICK S : commands \in Seq(S) BY <1>1 DEF Held
<1>9. buf \in Bytes /\ Len(buf) = filled - at BY <1>4, <1>7, PartIs
<1>10. /\ reach \in Nat /\ Chain(A, stream, filled, at, reach)
       /\ at < asked => asked = reach \/ asked \in A
       /\ keys \subseteq SecondsOf(commands) \cup Noted(A, stream, filled)
       /\ Noted({p \in A : p < asked}, stream, filled) \subseteq keys
       /\ sent # Nothing => SecondsOf(commands) \subseteq keys
  BY <1>2 DEF Scanned
\* Nothing is on the chain unless the look-ahead can read what the parser is at.
<1>21. ASSUME Found(stream, filled, at) = Nothing PROVE A = {}
  <2>1. ~(at < reach) BY <1>7, <1>10, <1>21, ChainOff
  <2>2. reach <= at BY <1>7, <1>10, <2>1
  <2> QED BY <1>7, <1>10, <2>2, ChainNone
\* What the look-ahead took for a command is parsed as one.
<1>11. ASSUME Found(stream, filled, at) # Nothing
       PROVE  /\ found.is = "done" /\ found.used = Found(stream, filled, at).used
              /\ found.spans \in Seq(Spans)
              /\ Found(stream, filled, at).key = IF Len(found.spans) > 1 THEN found.spans[2] ELSE Nothing
  <2>1. peek(buf) # Nothing /\ peek(buf) = Found(stream, filled, at) BY <1>4, <1>11 DEF Found
  <2> QED BY <1>5, <1>9, <2>1, PeekIs
<1>12. ASSUME sent # Nothing
       PROVE  \/ found.is = "more" /\ (Len(commands) = Len(sent) \/ filled < Len(stream))
              \/ /\ found.is = "done" /\ Found(stream, filled, at) # Nothing
                 /\ Len(commands) + 1 <= Len(sent)
                 /\ at + found.used = Offs(sent)[Len(commands) + 1]
                 /\ sent[Len(commands) + 1] \in Seq(Bytes)
                 /\ Covers(found.spans, sent[Len(commands) + 1], buf)
  <2>1. PICK k : k = Len(commands) OBVIOUS
  <2>2. PICK args : args = sent[k + 1] OBVIOUS
  <2>3. \/ k = Len(sent) /\ found.is = "more"
        \/ k < Len(sent) /\ filled < Len(stream) /\ found.is = "more"
        \/ /\ k + 1 <= Len(sent) /\ at + Len(encode(args)) = Offs(sent)[k + 1]
           /\ args \in Seq(Bytes) /\ Found(stream, filled, at) # Nothing
           /\ \E spans : Covers(spans, args, buf) /\ found = Done(Len(encode(args)), spans)
    BY <1>1, <1>4, <1>5, <1>12, <2>1, <2>2, Meets
  <2>4. ASSUME NEW spans, found = Done(Len(encode(args)), spans)
        PROVE  found.is = "done" /\ found.used = Len(encode(args)) /\ found.spans = spans
    BY <2>4 DEF Done
  <2> QED BY <2>1, <2>2, <2>3, <2>4
<1>13. CASE found.is = "done"
  <2>1. PICK c : c = [i \in DOMAIN found.spans |-> Moved(found.spans[i], at)] OBVIOUS
  <2>2. /\ at' = at + found.used /\ doing' = "execute" /\ commands' = Append(commands, c)
        /\ closing' = IF quits(c) THEN "last" ELSE "no"
    BY <1>6, <1>13, <1>20, <2>1 DEF Runs
  <2>3. /\ \E R : Append(commands, c) \in Seq(R)
        /\ Len(Append(commands, c)) = Len(commands) + 1 /\ Len(commands) \in Nat
        /\ Append(commands, c)[Len(commands) + 1] = c
        /\ \A n \in 1 .. Len(commands) : Append(commands, c)[n] = commands[n]
        /\ SecondsOf(Append(commands, c)) = SecondsOf(commands) \cup (IF Len(c) > 1 THEN {c[2]} ELSE {})
    BY <1>8, SecondsOn
  <2>4. at' \in Nat /\ at < at' /\ at' <= filled
    <3>1. found.used \in Nat /\ 0 < found.used /\ found.used <= Len(buf) BY <1>5, <1>9, <1>13, ParseUsed
    <3> QED BY <1>7, <1>9, <2>2, <3>1
  <2>5. Held' BY <1>6, <1>7, <2>2, <2>3, <2>4 DEF Held
  <2>9. Quitting'
    <3>1. PICK k \in Nat : k = Len(commands) BY <2>3
    <3>2. PICK cs : cs = commands' OBVIOUS
    <3>3. Len(cs) = k + 1 /\ cs[k + 1] = c /\ \A n \in 1 .. k : cs[n] = commands[n] BY <2>2, <2>3, <3>1, <3>2
    <3>4. ASSUME NEW d PROVE quits(d)' = quits(d) BY <1>6 DEF quits, Slice
    <3>5. \A n \in 1 .. k : ~quits(commands[n]) BY <1>1, <1>20, <3>1 DEF Quitting
    <3>6. ASSUME NEW n \in 1 .. k + 1, quits(cs[n]) PROVE n = k + 1 /\ closing' = "last"
      <4>1. n = k + 1
        <5> SUFFICES ASSUME n # k + 1 PROVE FALSE OBVIOUS
        <5>1. n \in 1 .. k BY <3>1
        <5> QED BY <3>3, <3>5, <3>6, <5>1
      <4> QED BY <2>2, <3>3, <3>6, <4>1
    <3>7. \A n \in 1 .. Len(cs) : quits(cs[n]) => n = Len(cs) /\ closing' = "last" BY <3>3, <3>6
    <3> QED BY <1>6, <3>2, <3>7 DEF Quitting, quits, Slice
  <2>6. Piped'
    <3>1. CASE sent = Nothing BY <1>1, <1>6, <3>1 DEF Piped
    <3>2. CASE sent # Nothing
      <4>1. PICK k \in Nat : k = Len(commands) BY <2>3
      <4>2. /\ k + 1 <= Len(sent) /\ at + found.used = Offs(sent)[k + 1]
            /\ sent[k + 1] \in Seq(Bytes) /\ Covers(found.spans, sent[k + 1], buf)
        BY <1>12, <1>13, <3>2, <4>1
      <4>3. Covers(c, sent[k + 1], stream) BY <1>4, <1>7, <2>1, <4>2, MovedCovers
      <4>4. PICK cs : cs = commands' OBVIOUS
      <4>5. Len(cs) = k + 1 /\ cs[k + 1] = c /\ \A n \in 1 .. k : cs[n] = commands[n] BY <2>2, <2>3, <4>1, <4>4
      <4>6. \A n \in 1 .. k : Covers(commands[n], sent[n], stream) BY <1>1, <3>2, <4>1 DEF Piped
      <4>7. ASSUME NEW n \in 1 .. k + 1 PROVE Covers(cs[n], sent[n], stream)
        <5>1. CASE n = k + 1 BY <4>3, <4>5, <5>1
        <5>2. CASE n # k + 1
          <6>1. n \in 1 .. k BY <5>2
          <6> QED BY <4>5, <4>6, <6>1
        <5> QED BY <5>1, <5>2
      <4>8. stream = FlattenSeq(Wires(sent)) /\ closing' # "lost" /\ sent \in Pipelines
        BY <1>1, <2>2, <3>2 DEF Piped
      <4> QED BY <1>6, <2>2, <4>2, <4>4, <4>5, <4>7, <4>8 DEF Piped
    <3> QED BY <3>1, <3>2
  <2>7. Scanning' BY <2>2 DEF Scanning
  <2>8. \E B : Scanned(B, reach)'
    <3>1. CASE at < asked
      <4>0. at < reach
        <5>1. \A p \in A : p \in Nat /\ p < reach BY <1>10 DEF Chain
        <5> QED BY <1>7, <1>10, <3>1, <5>1
      <4>1. /\ Chain(A \ {at}, stream, filled, After(stream, filled, at), reach)
            /\ at \in A /\ Found(stream, filled, at) # Nothing
        BY <1>7, <1>10, <4>0, ChainOff
      <4>2. /\ found.used = Found(stream, filled, at).used /\ found.spans \in Seq(Spans)
            /\ Found(stream, filled, at).key = IF Len(found.spans) > 1 THEN found.spans[2] ELSE Nothing
        BY <1>11, <4>1
      <4>3. at' = After(stream, filled, at) BY <2>2, <4>2 DEF After
      <4>4. PICK B : B = A \ {at} OBVIOUS
      <4>5. PICK key : key = Found(stream, filled, at).key OBVIOUS
      <4> DEFINE new == IF key = Nothing THEN {} ELSE {Moved(key, at)}
      <4>6. Noted(A, stream, filled) = Noted(B, stream, filled) \cup new
        BY <4>1, <4>4, <4>5 DEF Noted
      <4>7. (IF Len(c) > 1 THEN {c[2]} ELSE {}) = new
        <5>1. PICK m \in Nat : m = Len(found.spans) /\ DOMAIN found.spans = 1 .. m BY <4>2, LenProperties
        <5>2. \A i \in 1 .. m : found.spans[i] \in Spans BY <4>2, <5>1, ElementOfSeq
        <5>3. c \in [1 .. m -> {Moved(found.spans[i], at) : i \in 1 .. m}]
              /\ \A i \in 1 .. m : c[i] = Moved(found.spans[i], at)
          BY <2>1, <5>1
        <5>4. Len(c) = m BY <5>3, FunIsSeq
        <5>5. CASE m > 1
          <6>1. 2 \in 1 .. m BY <5>5
          <6>2. found.spans[2] \in Spans BY <5>2, <6>1
          <6>3. Nothing \notin Spans BY NothingAssumption DEF Spans
          <6> QED BY <4>2, <4>5, <5>1, <5>3, <5>4, <5>5, <6>1, <6>2, <6>3
        <5>6. CASE ~(m > 1) BY <4>2, <4>5, <5>1, <5>4, <5>6
        <5> QED BY <5>5, <5>6
      <4>8. SecondsOf(commands') = SecondsOf(commands) \cup new BY <2>2, <2>3, <4>7
      <4>9. new \subseteq Noted({p \in A : p < asked}, stream, filled) BY <3>1, <4>1, <4>5 DEF Noted
      <4>10. Noted({p \in B : p < asked}, stream, filled) \subseteq Noted({p \in A : p < asked}, stream, filled)
        <5>1. {p \in B : p < asked} \subseteq {p \in A : p < asked} BY <4>4
        <5> QED BY <5>1 DEF Noted
      <4> HIDE DEF new
      <4>11. /\ keys \subseteq SecondsOf(commands') \cup Noted(B, stream, filled)
             /\ Noted({p \in B : p < asked}, stream, filled) \subseteq keys
             /\ sent # Nothing => SecondsOf(commands') \subseteq keys
        BY <1>10, <4>6, <4>8, <4>9, <4>10
      <4>12. Chain(B, stream, filled, at', reach) BY <4>1, <4>3, <4>4
      <4>13. asked = reach \/ asked \in B BY <1>7, <1>10, <3>1, <4>4
      <4>14. Scanned(B, reach)' BY <1>6, <1>10, <2>2, <4>11, <4>12, <4>13 DEF Scanned
      <4> QED BY <4>14
    <3>2. CASE ~(at < asked)
      <4>1. asked <= at /\ doing = "parse" BY <1>6, <1>7, <3>2
      <4>2. Found(stream, filled, at) = Nothing BY <1>1, <3>2, <4>1 DEF Scanning
      <4>3. A = {} BY <1>21, <4>2
      <4>4. Chain({}, stream, filled, at', reach)
        <5>1. reach <= at
          <6>1. ~(at < reach) BY <1>10, <4>3 DEF Chain
          <6> QED BY <1>7, <1>10, <6>1
        <5>2. reach <= at' BY <1>7, <1>10, <2>4, <5>1
        <5> QED BY <1>10, <2>4, <5>2, ChainNone
      <4>5. sent = Nothing BY <1>12, <1>13, <4>2
      <4>6. keys \subseteq SecondsOf(commands) BY <1>10, <4>3, NotedNone
      <4>7. keys \subseteq SecondsOf(commands') BY <2>2, <2>3, <4>6
      <4>8. ~(at' < asked) BY <1>7, <2>4, <4>1
      <4>9. {p \in {} : p < asked} = {} OBVIOUS
      <4>10. Noted({p \in {} : p < asked}, stream, filled) = {} BY <4>9, NotedNone
      <4>11. Scanned({}, reach)' BY <1>6, <1>10, <4>4, <4>5, <4>7, <4>8, <4>10 DEF Scanned
      <4> QED BY <4>11
    <3> QED BY <3>1, <3>2
  <2> QED BY <2>5, <2>6, <2>7, <2>8, <2>9 DEF Read
<1>14. CASE found.is # "done"
  <2>1. /\ doing' = "fill" /\ at' = at /\ commands' = commands
        /\ found.is = "more" => closing' = closing
        /\ closing' \in {"no", "lost"}
    BY <1>6, <1>14, <1>20
  <2>2. Held' BY <1>6, <1>7, <1>8, <2>1 DEF Held
  <2>3. Piped'
    <3>1. CASE sent = Nothing BY <1>1, <1>6, <3>1 DEF Piped
    <3>2. CASE sent # Nothing
      <4>1. found.is = "more" /\ (Len(commands) = Len(sent) \/ filled < Len(stream)) BY <1>12, <1>14, <3>2
      <4>2. closing' # "lost" BY <1>20, <2>1, <4>1
      <4>3. filled < Len(stream) => filled # Len(stream)
        <5>1. Len(stream) \in Nat BY <1>7 DEF Bytes
        <5> QED BY <1>7, <5>1
      <4> QED BY <1>1, <1>6, <2>1, <3>2, <4>1, <4>2, <4>3 DEF Piped
    <3> QED BY <3>1, <3>2
  <2>4. Found(stream, filled, at) = Nothing BY <1>11, <1>14
  <2>5. Scanning' BY <1>6, <2>1 DEF Scanning
  <2>6. Quitting'
    <3>1. \A n \in 1 .. Len(commands) : ~quits(commands[n]) BY <1>1, <1>20 DEF Quitting
    <3> QED BY <1>6, <2>1, <3>1 DEF Quitting, quits, Slice
  <2>7. A = {} BY <1>21, <2>4
  <2>8. Scanned(A, reach)' BY <1>6, <1>10, <2>1, <2>7 DEF Scanned
  <2> QED BY <2>2, <2>3, <2>5, <2>6, <2>8 DEF Read
<1> QED BY <1>13, <1>14

\* It speaks of the variables alone.
LEMMA ReadStays == Read /\ UNCHANGED respVars => Read'
<1> SUFFICES ASSUME Read, UNCHANGED respVars PROVE Read' OBVIOUS
<1>1. Held' /\ Piped' /\ Scanning' /\ Quitting'
  BY DEF Read, Held, Piped, Scanning, Quitting, quits, Goes, respVars
<1>2. PICK A, reach : Scanned(A, reach) BY DEF Read
<1>3. Scanned(A, reach)' BY <1>2 DEF Scanned, respVars
<1> QED BY <1>1, <1>3 DEF Read

\* The reading of a connection's bytes keeps to its place: everything parsed, and
\* everything looked at, is where it should be.
THEOREM Reading == RespSpec => []Read
<1>1. Read /\ [RespNext]_respVars => Read'
  BY ReadArrive, ReadStop, ReadAsk, ReadAhead, ReadParse, ReadStays DEF RespNext
<1> QED BY <1>1, ReadInit, PTL DEF RespSpec

-----------------------------------------------------------------------------
(* What it is for. *)

\* Nothing a client sends is read otherwise for being cut up on its way.
THEOREM Uncut == RespSpec => []SplitFree
<1>1. Read => SplitFree
  <2> SUFFICES ASSUME Read PROVE SplitFree OBVIOUS
  <2>1. Held /\ Piped /\ Quitting BY DEF Read
  <2>2. /\ stream \in Bytes /\ filled \in Nat /\ at \in Nat /\ at <= filled /\ filled <= Len(stream)
        /\ \E S : commands \in Seq(S)
    BY <2>1 DEF Held
  <2>3. PICK k \in Nat : k = Len(commands) /\ DOMAIN commands = 1 .. k BY <2>2, LenProperties
  <2>4. PICK read : read = [n \in DOMAIN commands |-> [i \in DOMAIN commands[n] |-> Slice(stream, commands[n][i])]]
    OBVIOUS
  <2>5. ASSUME sent # Nothing
        PROVE  /\ IsPrefix(read, sent) /\ closing # "lost"
               /\ doing = "fill" /\ filled = Len(stream) /\ Goes => read = sent
    <3>1. /\ sent \in Pipelines /\ closing # "lost" /\ k <= Len(sent)
          /\ \A n \in 1 .. k : Covers(commands[n], sent[n], stream)
          /\ doing = "fill" /\ filled = Len(stream) /\ Goes => k = Len(sent)
      BY <2>1, <2>3, <2>5 DEF Piped
    <3>2. PICK m \in Nat : m = Len(sent) /\ DOMAIN sent = 1 .. m /\ \A n \in 1 .. m : sent[n] \in Seq(Bytes)
      BY <3>1, PipelineIs
    <3>3. sent \in Seq(Seq(Bytes)) BY <3>1, BytesAssumption DEF Bytes
    <3>4. ASSUME NEW n \in 1 .. k PROVE read[n] = sent[n]
      <4>1. PICK args \in Seq(Bytes) : args = sent[n]
        <5>1. n \in 1 .. m BY <3>1, <3>2
        <5> QED BY <3>2, <5>1
      <4>2. PICK c : c = commands[n] OBVIOUS
      <4>3. /\ c \in Seq(Spans) /\ Len(c) = Len(args)
            /\ \A i \in 1 .. Len(args) : c[i].len = Len(args[i]) /\ Occurs(args[i], stream, c[i].at)
        BY <3>1, <4>1, <4>2 DEF Covers
      <4>4. PICK l \in Nat : l = Len(args) /\ DOMAIN args = 1 .. l /\ DOMAIN c = 1 .. l BY <4>3, LenProperties
      <4>5. ASSUME NEW i \in 1 .. l PROVE Slice(stream, c[i]) = args[i]
        <5>1. args[i] \in Bytes BY <4>4, ElementOfSeq
        <5>2. c[i] \in Spans BY <4>3, <4>4, ElementOfSeq
        <5>3. PICK p \in Nat : p = c[i].at BY <5>2 DEF Spans
        <5>4. Occurs(args[i], stream, p) /\ c[i].len = Len(args[i]) BY <4>3, <4>4, <5>3
        <5> QED BY <2>2, <5>1, <5>3, <5>4, SliceIs
      <4>6. read[n] = [i \in 1 .. l |-> Slice(stream, c[i])] BY <2>3, <2>4, <4>2, <4>4
      <4>7. read[n] = [i \in 1 .. l |-> args[i]] BY <4>5, <4>6
      <4>8. args = [i \in 1 .. l |-> args[i]]
        <5>1. args \in [1 .. l -> Bytes] BY <4>4, LenProperties
        <5> QED BY <5>1
      <4> QED BY <4>1, <4>7, <4>8
    <3>5. read \in [1 .. k -> Seq(Bytes)]
      <4>1. \A n \in 1 .. k : n \in 1 .. m BY <3>1, <3>2
      <4>2. \A n \in 1 .. k : read[n] \in Seq(Bytes) BY <3>2, <3>4, <4>1
      <4>3. read = [n \in 1 .. k |-> read[n]] BY <2>3, <2>4
      <4> QED BY <4>2, <4>3
    <3>6. read \in Seq(Seq(Bytes)) /\ Len(read) = k BY <3>5, FunIsSeq
    <3>7. IsPrefix(read, sent)
      <4>1. \A n \in 1 .. k : read[n] \in Seq(Bytes) /\ sent[n] \in Seq(Bytes) BY <3>4, <3>5
      <4>2. PICK a : a = SubSeq(read, 1, k) OBVIOUS
      <4>3. PICK b : b = SubSeq(sent, 1, k) OBVIOUS
      <4>4. a \in Seq(Seq(Bytes)) /\ Len(a) = k /\ \A n \in 1 .. k : a[n] = read[n]
        <5>1. /\ a \in Seq(Seq(Bytes)) /\ Len(a) = IF 1 <= k THEN k - 1 + 1 ELSE 0
              /\ \A n \in 1 .. k - 1 + 1 : a[n] = read[1 + n - 1]
          BY <4>1, <4>2, SubSeqProperties
        <5>2. \A n \in 1 .. k : n \in 1 .. k - 1 + 1 /\ 1 + n - 1 = n OBVIOUS
        <5> QED BY <5>1, <5>2
      <4>5. b \in Seq(Seq(Bytes)) /\ Len(b) = k /\ \A n \in 1 .. k : b[n] = sent[n]
        <5>1. /\ b \in Seq(Seq(Bytes)) /\ Len(b) = IF 1 <= k THEN k - 1 + 1 ELSE 0
              /\ \A n \in 1 .. k - 1 + 1 : b[n] = sent[1 + n - 1]
          BY <4>1, <4>3, SubSeqProperties
        <5>2. \A n \in 1 .. k : n \in 1 .. k - 1 + 1 /\ 1 + n - 1 = n OBVIOUS
        <5> QED BY <5>1, <5>2
      <4>6. a = b BY <3>4, <4>4, <4>5, SeqEqual
      <4> QED BY <3>1, <3>6, <4>2, <4>3, <4>6 DEF IsPrefix
    <3>8. k = m => read = sent
      <4>1. \A n \in 1 .. Len(read) : read[n] = sent[n] BY <3>4, <3>6
      <4> QED BY <3>2, <3>3, <3>6, <4>1, SeqEqual
    <3> QED BY <3>1, <3>2, <3>7, <3>8
  <2>6. ASSUME ~Overlong(Drop(stream, at)),
               parse(Rest(at), into).is # "more" \/ filled = Len(stream)
        PROVE  parse(Rest(at), into) = parse(Drop(stream, at), <<>>)
    <3>1. PICK whole \in Bytes : whole = Drop(stream, at) BY <2>2, DropIs
    <3>2. PICK buf \in Bytes : buf = Part(stream, filled, at) /\ Prefixed(buf, whole) BY <2>2, <3>1, PartIs
    <3>3. PICK x : x = into OBVIOUS
    <3>4. Rest(at) = buf BY <3>2 DEF Rest, Part
    <3>5. CASE parse(buf, x).is # "more"
      <4>1. ~Overlong(whole) BY <2>6, <3>1
      <4>2. parse(whole, <<>>) = parse(buf, x) BY <3>2, <3>5, <4>1, ParseGrows
      <4> QED BY <3>1, <3>3, <3>4, <4>2
    <3>6. CASE filled = Len(stream)
      <4>1. buf = whole BY <3>1, <3>2, <3>6 DEF Part, Drop
      <4>2. parse(buf, x) = parse(buf, <<>>) BY ParseFresh
      <4> QED BY <3>1, <3>3, <3>4, <4>1, <4>2
    <3> QED BY <2>6, <3>3, <3>4, <3>5, <3>6
  <2>7. \A n \in DOMAIN commands : quits(commands[n]) => n = Len(commands) /\ closing = "last"
    BY <2>1, <2>3 DEF Quitting
  <2> QED BY <2>4, <2>5, <2>6, <2>7 DEF SplitFree
<1> QED BY <1>1, Reading, PTL

\* The look-ahead and the parser never disagree about where a command ends or
\* which of its arguments is the key.
THEOREM Agreement == RespSpec => []PeekAgrees
<1>1. Read => PeekAgrees
  <2> SUFFICES ASSUME Read PROVE PeekAgrees OBVIOUS
  <2>1. Held /\ Scanning BY DEF Read
  <2>2. PICK A, reach : Scanned(A, reach) BY DEF Read
  <2>3. /\ stream \in Bytes /\ filled \in Nat /\ at \in Nat /\ asked \in Nat /\ filled <= Len(stream)
    BY <2>1 DEF Held
  <2>4. /\ Chain(A, stream, filled, at, reach)
        /\ keys \subseteq SecondsOf(commands) \cup Noted(A, stream, filled)
        /\ doing = "fill" /\ closing # "last" /\ ~full => A = {}
        /\ sent # Nothing => SecondsOf(commands) \subseteq keys
    BY <2>2 DEF Scanned
  <2>5. ASSUME NEW key \in Noted(A, stream, filled) PROVE ~(key.at < at)
    <3>1. PICK p \in A : Found(stream, filled, p).key # Nothing /\ key = Moved(Found(stream, filled, p).key, p)
      BY DEF Noted
    <3>2. p \in Nat /\ at <= p /\ Found(stream, filled, p) # Nothing BY <2>4 DEF Chain
    <3>3. Found(stream, filled, p) \in Peeks BY <2>3, <3>2, FoundFits
    <3>4. PICK span \in Spans : span = Found(stream, filled, p).key BY <3>1, <3>3 DEF Peeks
    <3>5. span.at \in Nat /\ key.at = span.at + p BY <3>1, <3>4 DEF Spans, Moved
    <3> QED BY <2>3, <3>2, <3>5
  <2>6. ASSUME doing = "fill", closing # "last", ~full PROVE keys \subseteq SecondsOf(commands)
    BY <2>4, <2>6, NotedNone
  <2>7. \A key \in keys : key.at < at => key \in SecondsOf(commands) BY <2>4, <2>5
  <2> QED BY <2>4, <2>6, <2>7 DEF PeekAgrees, SecondsOf
<1> QED BY <1>1, Reading, PTL
===============================================================================
