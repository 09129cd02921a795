-------------------------- MODULE EncodingProofs --------------------------
(***************************************************************************)
(* Theorems about Entry and Group: the first for any lengths within a      *)
(* varint, any bytes, any base of a varint and any width of the words      *)
(* behind it, the second for any group and any size of a control byte.     *)
(*                                                                         *)
(*   - a varint is read back as what was written, whatever follows it, and *)
(*     is as long as varint_len says (VarintReads, VarintLong);            *)
(*   - so is a word (WordReads);                                           *)
(*   - so, then, is an entry (HeadReads, ViewReads), and a deadline put    *)
(*     over the old one makes the bytes writing the whole entry would have *)
(*     (RetimeWrites);                                                     *)
(*   - decimal takes the digits of a number, and nothing else, for it      *)
(*     (DecimalReads, DecimalOnly);                                        *)
(*   - a lane of the word a group is loaded as is that lane (LaneOfWord),  *)
(*     and with one taken from each is one or two less (LaneOfLess), so    *)
(*     the subtraction finds the lanes looked for, and others only among   *)
(*     full ones (SwarFinds), and the walk visits them in order.           *)
(***************************************************************************)
EXTENDS Entry, Group, SequenceTheorems, WellFoundedInduction, TLAPS

-----------------------------------------------------------------------------
(* Recursion on numbers. *)

\* Every nonempty set of numbers has a least one.
LEMMA Smallest ==
  ASSUME NEW T, T \subseteq Nat, T # {}
  PROVE  \E n \in T : \A m \in T : n <= m
<1>1. IsWellFoundedOn(OpToRel(<, Nat), Nat) BY NatLessThanWellFounded
<1>2. PICK n \in T : \A m \in T : ~(<<m, n>> \in OpToRel(<, Nat)) BY <1>1, WFMin
<1>3. \A m \in T : ~(m < n) BY <1>2 DEF OpToRel
<1> QED BY <1>3

\* Induction up to a bound.
LEMMA Induct ==
  ASSUME NEW m \in Nat, NEW T, 0 \in T, \A i \in Nat : i < m /\ i \in T => i + 1 \in T
  PROVE  \A i \in 0 .. m : i \in T
<1> DEFINE U == {i \in 0 .. m : i \notin T}
<1> SUFFICES ASSUME U # {} PROVE FALSE OBVIOUS
<1>1. U \subseteq Nat OBVIOUS
<1>2. PICK n \in U : \A k \in U : n <= k
  <2> HIDE DEF U
  <2> QED BY <1>1, Smallest
<1>3. n \in Nat /\ n <= m /\ n \notin T /\ n # 0 OBVIOUS
<1>4. n - 1 \in Nat /\ n - 1 < m /\ n - 1 + 1 = n /\ n - 1 \in 0 .. m BY <1>3
<1>5. n - 1 \in T BY <1>2, <1>4
<1> QED BY <1>3, <1>4, <1>5

\* A value for each number: X's below b, and from there on what F makes of the
\* value for a smaller number, which p says.
Obeys(f, n, b, p, X, F) == f[n] = IF n < b THEN X[n] ELSE F[n][f[p[n]]]
ObeysTo(f, m, b, p, X, F) == \A n \in 0 .. m : Obeys(f, n, b, p, X, F)

\* The data of such a recursion.
Sound(S, b, p, X, F) ==
  /\ b \in Nat /\ p \in [Nat -> Nat] /\ \A n \in Nat : n >= b => p[n] < n
  /\ X \in [Nat -> S] /\ F \in [Nat -> [S -> S]]

\* There are values as far as any number.
LEMMA RecursTo ==
  ASSUME NEW S, NEW b, NEW p, NEW X, NEW F, Sound(S, b, p, X, F), NEW m \in Nat
  PROVE  \E f \in [0 .. m -> S] : \A n \in 0 .. m : Obeys(f, n, b, p, X, F)
<1> DEFINE T == {k \in Nat : \E f \in [0 .. k -> S] : \A n \in 0 .. k : Obeys(f, n, b, p, X, F)}
<1>0. /\ b \in Nat /\ \A n \in Nat : p[n] \in Nat /\ (n >= b => p[n] < n)
      /\ \A n \in Nat : X[n] \in S /\ \A s \in S : F[n][s] \in S
  BY DEF Sound
<1>1. 0 \in T
  <2>1. PICK x \in S : x = IF 0 < b THEN X[0] ELSE F[0][X[0]] BY <1>0
  <2>2. 0 < b BY <1>0
  <2> DEFINE g == [i \in 0 .. 0 |-> X[0]]
  <2>3. g \in [0 .. 0 -> S] /\ \A n \in 0 .. 0 : g[n] = X[0] /\ n = 0 BY <1>0
  <2> HIDE DEF g
  <2>4. \A n \in 0 .. 0 : Obeys(g, n, b, p, X, F) BY <2>2, <2>3 DEF Obeys
  <2> QED BY <2>3, <2>4
<1>2. ASSUME NEW k \in Nat, k < m, k \in T PROVE k + 1 \in T
  <2>1. PICK f \in [0 .. k -> S] : \A n \in 0 .. k : Obeys(f, n, b, p, X, F) BY <1>2
  <2>2. PICK l \in Nat : l = k + 1 OBVIOUS
  <2>3. PICK y \in S : y = IF l < b THEN X[l] ELSE F[l][f[p[l]]]
    <3>1. l >= b => p[l] \in 0 .. k BY <1>0, <2>2
    <3> QED BY <1>0, <2>1, <3>1
  <2> DEFINE g == [i \in 0 .. l |-> IF i = l THEN y ELSE f[i]]
  <2>4. \A i \in 0 .. l : g[i] = IF i = l THEN y ELSE f[i] OBVIOUS
  <2>5. \A i \in 0 .. l : i # l => i \in 0 .. k BY <2>2
  <2>6. \A i \in 0 .. l : g[i] \in S BY <2>1, <2>3, <2>4, <2>5
  <2>7. g \in [0 .. l -> S]
    <3> SUFFICES \A i \in 0 .. l : (IF i = l THEN y ELSE f[i]) \in S OBVIOUS
    <3> QED BY <2>4, <2>6
  <2> HIDE DEF g
  <2>8. ASSUME NEW n \in 0 .. l PROVE Obeys(g, n, b, p, X, F)
    <3>1. n \in Nat /\ (n < b \/ n >= b) BY <1>0
    <3>2. n >= b => p[n] \in 0 .. l /\ p[n] # l BY <1>0, <3>1
    <3>3. n >= b => g[p[n]] = f[p[n]] BY <2>4, <3>2
    <3>4. CASE n = l BY <1>0, <2>3, <2>4, <3>1, <3>3, <3>4 DEF Obeys
    <3>5. CASE n # l
      <4>1. n \in 0 .. k /\ g[n] = f[n] BY <2>4, <2>5, <3>5
      <4>2. Obeys(f, n, b, p, X, F) BY <2>1, <4>1
      <4> QED BY <1>0, <3>1, <3>3, <4>1, <4>2 DEF Obeys
    <3> QED BY <3>4, <3>5
  <2> QED BY <2>2, <2>7, <2>8
<1>3. m \in T
  <2> HIDE DEF T
  <2>1. \A i \in 0 .. m : i \in T BY <1>1, <1>2, Induct
  <2> QED BY <2>1
<1> QED BY <1>3

\* Two such functions agree as far as both go.
LEMMA RecursOne ==
  ASSUME NEW S, NEW b, NEW p, NEW X, NEW F, Sound(S, b, p, X, F), NEW m \in Nat, NEW k \in Nat,
         NEW f, NEW g, ObeysTo(f, m, b, p, X, F), ObeysTo(g, k, b, p, X, F)
  PROVE  \A n \in Nat : n <= m /\ n <= k => f[n] = g[n]
<1> DEFINE T == {n \in Nat : n <= m /\ n <= k /\ f[n] # g[n]}
<1> SUFFICES ASSUME T # {} PROVE FALSE OBVIOUS
<1>1. T \subseteq Nat OBVIOUS
<1>2. PICK n \in T : \A j \in T : n <= j
  <2> HIDE DEF T
  <2> QED BY <1>1, Smallest
<1>3. n \in Nat /\ n <= m /\ n <= k /\ f[n] # g[n] OBVIOUS
<1>4. Obeys(f, n, b, p, X, F) /\ Obeys(g, n, b, p, X, F) BY <1>3 DEF ObeysTo
<1>5. b \in Nat /\ p[n] \in Nat /\ (n >= b => p[n] < n) BY <1>3 DEF Sound
<1>6. n >= b BY <1>3, <1>4, <1>5 DEF Obeys
<1>7. p[n] \notin T BY <1>2, <1>3, <1>5, <1>6
<1>8. f[p[n]] = g[p[n]] BY <1>3, <1>5, <1>6, <1>7
<1> QED BY <1>3, <1>4, <1>8 DEF Obeys

\* There is a function of all numbers.
LEMMA Recurs ==
  ASSUME NEW S, NEW b, NEW p, NEW X, NEW F, Sound(S, b, p, X, F)
  PROVE  \E f \in [Nat -> S] : \A n \in Nat : Obeys(f, n, b, p, X, F)
<1> DEFINE D(m) == CHOOSE f \in [0 .. m -> S] : \A n \in 0 .. m : Obeys(f, n, b, p, X, F)
           d == [n \in Nat |-> D(n)[n]]
<1>1. \A m \in Nat : D(m) \in [0 .. m -> S] /\ \A n \in 0 .. m : Obeys(D(m), n, b, p, X, F)
  BY RecursTo
<1> HIDE DEF D
<1>2. \A n \in Nat : n \in 0 .. n OBVIOUS
<1>3. d \in [Nat -> S] /\ \A n \in Nat : d[n] = D(n)[n] BY <1>1, <1>2
<1> HIDE DEF d
<1>4. ASSUME NEW n \in Nat PROVE Obeys(d, n, b, p, X, F)
  <2>1. Obeys(D(n), n, b, p, X, F) BY <1>1, <1>2
  <2>2. b \in Nat /\ p[n] \in Nat /\ (n >= b => p[n] < n) BY DEF Sound
  <2>3. n >= b => D(n)[p[n]] = d[p[n]]
    <3> SUFFICES ASSUME n >= b PROVE D(n)[p[n]] = d[p[n]] OBVIOUS
    <3>1. PICK j \in Nat : j = p[n] /\ j <= n /\ j <= j BY <2>2
    <3>2. PICK u, w : u = D(n) /\ w = D(j) OBVIOUS
    <3>3. ObeysTo(u, n, b, p, X, F) /\ ObeysTo(w, j, b, p, X, F) BY <1>1, <3>2 DEF ObeysTo
    <3>4. \A i \in Nat : i <= n /\ i <= j => u[i] = w[i] BY <3>3, RecursOne
    <3> QED BY <1>3, <3>1, <3>2, <3>4
  <2> QED BY <1>3, <2>1, <2>2, <2>3 DEF Obeys
<1> QED BY <1>3, <1>4

-----------------------------------------------------------------------------
(* Numbers in a base. *)

\* A number without its last digit.
LEMMA Quotient ==
  ASSUME NEW n \in Nat, NEW base \in Nat, base > 1
  PROVE  /\ n \div base \in Nat /\ n % base \in 0 .. base - 1 /\ n = base * (n \div base) + (n % base)
         /\ n >= base => n \div base < n
<1>1. /\ n \div base \in Int /\ n % base \in 0 .. base - 1 /\ n = base * (n \div base) + (n % base)
  OBVIOUS
<1>2. PICK q \in Int, r \in 0 .. base - 1 : q = n \div base /\ r = n % base /\ n = base * q + r BY <1>1
<1>3. q >= 0
  <2> SUFFICES ASSUME q <= -1 PROVE FALSE BY <1>2
  <2>1. base * q <= base * (-1) OBVIOUS
  <2> QED BY <1>2, <2>1
<1>4. ASSUME n >= base PROVE q < n
  <2> SUFFICES ASSUME q >= n PROVE FALSE BY <1>2
  <2>1. base * q >= 2 * q BY <1>3
  <2>2. base * q <= n BY <1>2
  <2> QED BY <1>3, <1>4, <2>1, <2>2
<1> QED BY <1>1, <1>2, <1>3, <1>4

\* Below base times end, the number without its last digit is below end.
LEMMA QuotientBelow ==
  ASSUME NEW n \in Nat, NEW base \in Nat, base > 1, NEW end \in Nat
  PROVE  n < base * end <=> n \div base < end
<1>1. PICK q \in Nat, r \in 0 .. base - 1 : q = n \div base /\ r = n % base /\ n = base * q + r BY Quotient
<1>2. ASSUME q < end PROVE n < base * end
  <2>1. q <= end - 1 BY <1>2
  <2>2. base * q <= base * (end - 1) BY <2>1
  <2>3. base * (end - 1) = base * end - base OBVIOUS
  <2>4. base * q \in Int /\ base * end \in Int OBVIOUS
  <2> QED BY <1>1, <2>2, <2>3, <2>4
<1>3. ASSUME q >= end PROVE n >= base * end
  <2>1. base * q >= base * end BY <1>3
  <2>2. base * q \in Int /\ base * end \in Int OBVIOUS
  <2> QED BY <1>1, <2>1, <2>2
<1>4. q < end \/ q >= end OBVIOUS
<1>5. base * end \in Int OBVIOUS
<1> QED BY <1>1, <1>2, <1>3, <1>4, <1>5

\* What is known of the sizes.
LEMMA Sizes ==
  /\ PAYLOAD \in Nat /\ PAYLOAD >= 8 /\ PAYLOAD % 2 = 0 /\ BYTE = 2 * PAYLOAD /\ BYTE \in Nat
  /\ KLEN_INLINE \in Nat /\ 2 * KLEN_INLINE = PAYLOAD - 4
  /\ WORD \in Nat /\ WORD > 0 /\ ENTRY_MAX \in Nat /\ MAX_TEXT \in Nat /\ Missing \notin Int
BY EntryAssumption DEF BYTE, KLEN_INLINE

Power(f, base) == f \in [Nat -> Nat] /\ f[0] = 1 /\ \A n \in Nat : f[n + 1] = base * f[n] /\ f[n] > 0

\* The powers of a base are as their recursion says.
LEMMA PowersExist ==
  ASSUME NEW base \in Nat, base > 0
  PROVE  LET E(f) == [n \in Nat |-> IF n = 0 THEN 1 ELSE base * f[n - 1]]
             f == CHOOSE f : f = E(f)
         IN  Power(f, base)
<1> DEFINE E(f) == [n \in Nat |-> IF n = 0 THEN 1 ELSE base * f[n - 1]]
           c == CHOOSE f : f = E(f)
<1>1. PICK p : p = [n \in Nat |-> IF n = 0 THEN 0 ELSE n - 1] OBVIOUS
<1>2. PICK X : X = [n \in Nat |-> 1] OBVIOUS
<1>3. PICK F : F = [n \in Nat |-> [s \in Nat |-> base * s]] OBVIOUS
<1>4. \A n \in Nat : (n >= 1 => p[n] = n - 1) /\ X[n] = 1 /\ \A s \in Nat : F[n][s] = base * s
  BY <1>1, <1>2, <1>3
<1>5. Sound(Nat, 1, p, X, F)
  <2>1. p \in [Nat -> Nat] BY <1>1
  <2>2. X \in [Nat -> Nat] BY <1>2
  <2>3. F \in [Nat -> [Nat -> Nat]]
    <3>1. [s \in Nat |-> base * s] \in [Nat -> Nat] OBVIOUS
    <3> QED BY <1>3, <3>1
  <2>4. \A n \in Nat : n >= 1 => p[n] < n BY <1>4
  <2> QED BY <2>1, <2>2, <2>3, <2>4 DEF Sound
<1>6. PICK f \in [Nat -> Nat] : \A n \in Nat : Obeys(f, n, 1, p, X, F) BY <1>5, Recurs
<1>7. \A n \in Nat : f[n] = IF n = 0 THEN 1 ELSE base * f[n - 1]
  <2> SUFFICES ASSUME NEW n \in Nat PROVE f[n] = IF n = 0 THEN 1 ELSE base * f[n - 1] OBVIOUS
  <2>1. f[n] = IF n < 1 THEN X[n] ELSE F[n][f[p[n]]] BY <1>6 DEF Obeys
  <2>2. CASE n = 0 BY <1>4, <2>1, <2>2
  <2>3. CASE n # 0
    <3>1. n >= 1 /\ ~(n < 1) /\ n - 1 \in Nat BY <2>3
    <3>2. f[n] = F[n][f[n - 1]] /\ f[n - 1] \in Nat BY <1>4, <2>1, <3>1
    <3>3. F[n][f[n - 1]] = base * f[n - 1] BY <1>4, <3>2
    <3> QED BY <2>3, <3>2, <3>3
  <2> QED BY <2>2, <2>3
<1>8. f = E(f) BY <1>7
<1>9. c = E(c)
  <2> HIDE DEF E
  <2> QED BY <1>8
<1>10. PICK g : g = c OBVIOUS
<1>11. g = [n \in Nat |-> IF n = 0 THEN 1 ELSE base * g[n - 1]] BY <1>9, <1>10
<1>12. \A n \in Nat : g[n] = IF n = 0 THEN 1 ELSE base * g[n - 1] BY <1>11
<1>13. ASSUME NEW m \in Nat PROVE g[m] \in Nat /\ g[m] > 0
  <2> DEFINE T == {n \in Nat : g[n] \in Nat /\ g[n] > 0}
  <2>1. 0 \in T BY <1>12
  <2>2. ASSUME NEW i \in Nat, i < m, i \in T PROVE i + 1 \in T
    <3>1. g[i + 1] = base * g[i]
      <4>1. i + 1 \in Nat /\ i + 1 # 0 /\ i + 1 - 1 = i OBVIOUS
      <4> QED BY <1>12, <4>1
    <3>2. PICK s \in Nat : s = g[i] /\ s > 0 BY <2>2
    <3>3. base * s \in Nat /\ base * s > 0
      <4>1. base - 1 \in Nat OBVIOUS
      <4>2. (base - 1) * s \in Nat BY <3>2, <4>1
      <4>3. base * s = s + (base - 1) * s OBVIOUS
      <4> QED BY <3>2, <4>2, <4>3
    <3> QED BY <3>1, <3>2, <3>3
  <2>3. \A i \in 0 .. m : i \in T
    <3> HIDE DEF T
    <3> QED BY <2>1, <2>2, Induct
  <2> QED BY <2>3
<1>14. g[0] = 1 /\ \A n \in Nat : g[n + 1] = base * g[n]
  <2>1. \A n \in Nat : n + 1 \in Nat /\ n + 1 # 0 /\ n + 1 - 1 = n OBVIOUS
  <2> QED BY <1>12, <2>1
<1>15. g \in [Nat -> Nat]
  <2>1. DOMAIN g = Nat /\ g = [n \in Nat |-> g[n]] BY <1>11
  <2> QED BY <1>13, <2>1
<1>16. Power(g, base) BY <1>13, <1>14, <1>15 DEF Power
<1> QED BY <1>10, <1>16

\* The ends are the powers of a varint's base and of a byte's.
LEMMA Ends == Power(VarintEnd, PAYLOAD) /\ Power(WordEnd, BYTE)
<1>1. Power(VarintEnd, PAYLOAD)
  <2>1. PAYLOAD \in Nat /\ PAYLOAD > 0 BY Sizes
  <2> QED BY <2>1, PowersExist DEF VarintEnd
<1>2. Power(WordEnd, BYTE)
  <2>1. BYTE \in Nat /\ BYTE > 0 BY Sizes
  <2> QED BY <2>1, PowersExist DEF WordEnd
<1> QED BY <1>1, <1>2

-----------------------------------------------------------------------------
(* Varints. *)

Chars == 0 .. BYTE - 1
Texts == Seq(Chars)

\* put_varint is as its recursion says.
LEMMA PutIs ==
  ASSUME NEW v \in Nat
  PROVE  /\ put_varint[v] \in Texts
         /\ v < PAYLOAD => put_varint[v] = <<v>>
         /\ v >= PAYLOAD => put_varint[v] = <<(v % PAYLOAD) + PAYLOAD>> \o put_varint[v \div PAYLOAD]
<1> DEFINE E(f) == [value \in Nat |-> IF value < PAYLOAD THEN <<value>>
                                      ELSE <<(value % PAYLOAD) + PAYLOAD>> \o f[value \div PAYLOAD]]
<1>1. PICK p : p = [n \in Nat |-> n \div PAYLOAD] OBVIOUS
<1>2. PICK X : X = [n \in Nat |-> IF n < PAYLOAD THEN <<n>> ELSE <<>>] OBVIOUS
<1>3. PICK F : F = [n \in Nat |-> [s \in Texts |-> <<(n % PAYLOAD) + PAYLOAD>> \o s]] OBVIOUS
<1>4. /\ \A n \in Nat : p[n] = n \div PAYLOAD
      /\ \A n \in Nat : n < PAYLOAD => X[n] = <<n>>
      /\ \A n \in Nat, s \in Texts : F[n][s] = <<(n % PAYLOAD) + PAYLOAD>> \o s
  BY <1>1, <1>2, <1>3
<1>5. \A n \in Nat : n \div PAYLOAD \in Nat /\ n % PAYLOAD \in 0 .. PAYLOAD - 1
                     /\ (n >= PAYLOAD => n \div PAYLOAD < n)
  <2>1. PAYLOAD \in Nat /\ PAYLOAD > 1 BY Sizes
  <2> QED BY <2>1, Quotient
<1>6. Sound(Texts, PAYLOAD, p, X, F)
  <2>1. p \in [Nat -> Nat] BY <1>1, <1>5
  <2>2. X \in [Nat -> Texts]
    <3>1. ASSUME NEW n \in Nat PROVE (IF n < PAYLOAD THEN <<n>> ELSE <<>>) \in Texts
      <4>1. <<>> \in Texts BY DEF Texts
      <4>2. ASSUME n < PAYLOAD PROVE <<n>> \in Texts
        <5>1. n \in Chars BY <4>2, Sizes DEF Chars
        <5> QED BY <5>1 DEF Texts
      <4> QED BY <4>1, <4>2
    <3> QED BY <1>2, <3>1
  <2>3. F \in [Nat -> [Texts -> Texts]]
    <3>1. ASSUME NEW n \in Nat, NEW s \in Texts PROVE <<(n % PAYLOAD) + PAYLOAD>> \o s \in Texts
      <4>1. (n % PAYLOAD) + PAYLOAD \in Chars BY <1>5, Sizes DEF Chars
      <4>2. <<(n % PAYLOAD) + PAYLOAD>> \in Seq(Chars) BY <4>1
      <4> QED BY <4>2, ConcatProperties DEF Texts
    <3> QED BY <1>3, <3>1
  <2> QED BY <1>4, <1>5, <2>1, <2>2, <2>3, Sizes DEF Sound
<1>7. PICK f \in [Nat -> Texts] : \A n \in Nat : Obeys(f, n, PAYLOAD, p, X, F) BY <1>6, Recurs
<1>8. ASSUME NEW n \in Nat
      PROVE  f[n] = IF n < PAYLOAD THEN <<n>> ELSE <<(n % PAYLOAD) + PAYLOAD>> \o f[n \div PAYLOAD]
  <2>1. f[n] = IF n < PAYLOAD THEN X[n] ELSE F[n][f[n \div PAYLOAD]] BY <1>4, <1>7 DEF Obeys
  <2>2. f[n \div PAYLOAD] \in Texts BY <1>5, <1>7
  <2>3. F[n][f[n \div PAYLOAD]] = <<(n % PAYLOAD) + PAYLOAD>> \o f[n \div PAYLOAD] BY <1>4, <2>2
  <2> QED BY <1>4, <2>1, <2>3
<1>9. f = E(f) BY <1>8
<1>10. put_varint = E(put_varint)
  <2>1. put_varint = CHOOSE g : g = E(g) BY DEF put_varint
  <2> HIDE DEF E
  <2> QED BY <1>9, <2>1
<1>11. PICK g : g = put_varint OBVIOUS
<1>12. g = [value \in Nat |-> IF value < PAYLOAD THEN <<value>>
                              ELSE <<(value % PAYLOAD) + PAYLOAD>> \o g[value \div PAYLOAD]]
  BY <1>10, <1>11
<1>13. \A n \in Nat : g[n] = IF n < PAYLOAD THEN <<n>>
                             ELSE <<(n % PAYLOAD) + PAYLOAD>> \o g[n \div PAYLOAD]
  BY <1>12
<1> DEFINE T == {n \in Nat : g[n] # f[n]}
<1>14. T = {}
  <2> SUFFICES ASSUME T # {} PROVE FALSE OBVIOUS
  <2>1. T \subseteq Nat OBVIOUS
  <2>2. PICK n \in T : \A j \in T : n <= j
    <3> HIDE DEF T
    <3> QED BY <2>1, Smallest
  <2>3. n \in Nat /\ g[n] # f[n] OBVIOUS
  <2>4. n < PAYLOAD \/ n >= PAYLOAD BY <2>3, Sizes
  <2>5. n >= PAYLOAD BY <1>8, <1>13, <2>3, <2>4
  <2>6. PICK j \in Nat : j = n \div PAYLOAD /\ j < n BY <1>5, <2>3, <2>5
  <2>7. j \notin T BY <2>2, <2>3, <2>6
  <2>8. g[j] = f[j] BY <2>6, <2>7
  <2>9. ~(n < PAYLOAD) BY <2>3, <2>5, Sizes
  <2> QED BY <1>8, <1>13, <2>3, <2>6, <2>8, <2>9
<1>15. g[v] \in Texts BY <1>7, <1>14
<1>16. v < PAYLOAD => g[v] = <<v>> BY <1>13
<1>17. v >= PAYLOAD => g[v] = <<(v % PAYLOAD) + PAYLOAD>> \o g[v \div PAYLOAD]
  <2>1. v >= PAYLOAD => ~(v < PAYLOAD) BY Sizes
  <2> QED BY <1>13, <2>1
<1> QED BY <1>11, <1>15, <1>16, <1>17

\* The n bytes of s spell v in a varint, and f is what the last so many spell.
Spelt(s, f, v, n) ==
  /\ n \in Nat /\ n >= 1 /\ Len(s) = n /\ s[n] < PAYLOAD
  /\ \A i \in 1 .. n - 1 : s[i] >= PAYLOAD
  /\ f \in [0 .. n -> Nat] /\ f[0] = 0 /\ f[n] = v
  /\ \A i \in 1 .. n : f[i] = (s[n + 1 - i] % PAYLOAD) + PAYLOAD * f[i - 1]

\* A byte more in front.
LEMMA SpeltMore ==
  ASSUME NEW s \in Texts, NEW f, NEW v \in Nat, NEW n, Spelt(s, f, v, n),
         NEW r \in 0 .. PAYLOAD - 1, NEW w \in Nat, w = PAYLOAD * v + r
  PROVE  \E g : Spelt(<<r + PAYLOAD>> \o s, g, w, n + 1)
<1>1. /\ n \in Nat /\ n >= 1 /\ Len(s) = n /\ s[n] < PAYLOAD
      /\ \A i \in 1 .. n - 1 : s[i] >= PAYLOAD
      /\ f \in [0 .. n -> Nat] /\ f[0] = 0 /\ f[n] = v
      /\ \A i \in 1 .. n : f[i] = (s[n + 1 - i] % PAYLOAD) + PAYLOAD * f[i - 1]
  BY DEF Spelt
<1>2. PICK P \in Nat : P = PAYLOAD /\ P >= 8 BY Sizes
<1>3. PICK b \in Chars : b = r + P BY <1>2, Sizes DEF Chars
<1>4. b % P = r
  <2>1. b = P * 1 + r BY <1>2, <1>3
  <2>2. r \in 0 .. P - 1 BY <1>2
  <2> QED BY <1>2, <2>1, <2>2
<1>5. PICK t : t = <<b>> \o s OBVIOUS
<1>6. /\ t \in Texts /\ Len(t) = n + 1 /\ t[1] = b
      /\ \A i \in 1 .. n : t[i + 1] = s[i]
  <2>1. <<b>> \in Seq(Chars) /\ Len(<<b>>) = 1 /\ <<b>>[1] = b OBVIOUS
  <2>2. /\ t \in Seq(Chars) /\ Len(t) = 1 + n
        /\ \A i \in 1 .. 1 + n : t[i] = IF i <= 1 THEN <<b>>[i] ELSE s[i - 1]
    BY <1>1, <1>5, <2>1, ConcatProperties DEF Texts
  <2>3. 1 \in 1 .. 1 + n /\ 1 <= 1 BY <1>1
  <2>4. \A i \in 1 .. n : i + 1 \in 1 .. 1 + n /\ ~(i + 1 <= 1) /\ i + 1 - 1 = i BY <1>1
  <2> QED BY <1>1, <2>1, <2>2, <2>3, <2>4 DEF Texts
<1>7. PICK m \in Nat : m = n + 1 BY <1>1
<1> DEFINE g == [i \in 0 .. m |-> IF i = m THEN w ELSE f[i]]
<1>8. /\ \A i \in 0 .. n : g[i] = f[i]
      /\ g[m] = w
  <2>1. \A i \in 0 .. n : i \in 0 .. m /\ i # m BY <1>1, <1>7
  <2>2. m \in 0 .. m OBVIOUS
  <2> QED BY <2>1, <2>2
<1>9. g \in [0 .. m -> Nat]
  <2>1. \A i \in 0 .. m : i # m => i \in 0 .. n BY <1>1, <1>7
  <2>2. \A i \in 0 .. m : (IF i = m THEN w ELSE f[i]) \in Nat BY <1>1, <2>1
  <2> QED BY <2>2
<1> HIDE DEF g
<1>10. t[m] < P
  <2>1. n \in 1 .. n BY <1>1
  <2> QED BY <1>1, <1>2, <1>6, <1>7, <2>1
<1>11. ASSUME NEW i \in 1 .. m - 1 PROVE t[i] >= P
  <2>1. CASE i = 1 BY <1>2, <1>3, <1>6, <2>1
  <2>2. CASE i # 1
    <3>1. PICK j \in 1 .. n - 1 : i = j + 1
      <4>1. i - 1 \in 1 .. n - 1 /\ i = (i - 1) + 1 BY <1>1, <1>7, <2>2
      <4> QED BY <4>1
    <3>2. j \in 1 .. n BY <1>1
    <3> QED BY <1>1, <1>2, <1>6, <3>1, <3>2
  <2> QED BY <2>1, <2>2
<1>12. ASSUME NEW i \in 1 .. m PROVE g[i] = (t[m + 1 - i] % P) + P * g[i - 1]
  <2>1. CASE i = m
    <3>1. m + 1 - i = 1 /\ i - 1 = n /\ n \in 0 .. n BY <1>1, <1>7, <2>1
    <3>2. g[i - 1] = v BY <1>1, <1>8, <3>1
    <3>3. t[m + 1 - i] % P = r BY <1>4, <1>6, <3>1
    <3> QED BY <1>2, <1>8, <2>1, <3>2, <3>3
  <2>2. CASE i # m
    <3>1. i \in 1 .. n /\ i \in 0 .. n /\ i - 1 \in 0 .. n BY <1>1, <1>7, <2>2
    <3>2. n + 1 - i \in 1 .. n /\ m + 1 - i = (n + 1 - i) + 1 BY <1>1, <1>7, <3>1
    <3>3. t[m + 1 - i] = s[n + 1 - i] BY <1>6, <3>2
    <3>4. g[i] = f[i] /\ g[i - 1] = f[i - 1] BY <1>8, <3>1
    <3> QED BY <1>1, <1>2, <3>1, <3>3, <3>4
  <2> QED BY <2>1, <2>2
<1>13. g[0] = 0
  <2>1. 0 \in 0 .. n BY <1>1
  <2> QED BY <1>1, <1>8, <2>1
<1>14. m >= 1 /\ Len(t) = m BY <1>1, <1>6, <1>7
<1>15. Spelt(t, g, w, m) BY <1>2, <1>8, <1>9, <1>10, <1>11, <1>12, <1>13, <1>14 DEF Spelt
<1> QED BY <1>2, <1>3, <1>5, <1>7, <1>15

\* A varint spells its number.
LEMMA PutSpells ==
  ASSUME NEW v \in Nat
  PROVE  \E f, n : Spelt(put_varint[v], f, v, n)
<1> DEFINE T == {k \in Nat : ~\E f, n : Spelt(put_varint[k], f, k, n)}
<1> SUFFICES ASSUME T # {} PROVE FALSE OBVIOUS
<1>1. T \subseteq Nat OBVIOUS
<1>2. PICK k \in T : \A j \in T : k <= j
  <2> HIDE DEF T
  <2> QED BY <1>1, Smallest
<1>3. k \in Nat /\ ~\E f, n : Spelt(put_varint[k], f, k, n) OBVIOUS
<1>4. PICK P \in Nat : P = PAYLOAD /\ P >= 8 BY Sizes
<1>5. CASE k < P
  <2>1. put_varint[k] = <<k>> BY <1>3, <1>4, <1>5, PutIs
  <2>2. k % P = k
    <3>1. k = P * 0 + k /\ k \in 0 .. P - 1 BY <1>3, <1>4, <1>5
    <3> QED BY <1>4, <3>1
  <2>3. PICK s : s = <<k>> OBVIOUS
  <2>4. Len(s) = 1 /\ s[1] = k BY <2>3
  <2> DEFINE f == [i \in 0 .. 1 |-> IF i = 0 THEN 0 ELSE k]
  <2>5. f \in [0 .. 1 -> Nat] /\ f[0] = 0 /\ f[1] = k BY <1>3
  <2> HIDE DEF f
  <2>6. \A i \in 1 .. 1 : f[i] = (s[1 + 1 - i] % P) + P * f[i - 1]
    <3>1. \A i \in 1 .. 1 : i = 1 OBVIOUS
    <3>2. f[1] = (s[1] % P) + P * f[0] BY <1>3, <1>4, <2>2, <2>4, <2>5
    <3> QED BY <3>1, <3>2
  <2>7. Spelt(s, f, k, 1) BY <1>4, <1>5, <2>4, <2>5, <2>6 DEF Spelt
  <2> QED BY <1>3, <2>1, <2>3, <2>7
<1>6. CASE k >= P
  <2>1. put_varint[k] = <<(k % P) + P>> \o put_varint[k \div P] BY <1>3, <1>4, <1>6, PutIs
  <2>2. PICK j \in Nat, r \in 0 .. P - 1 : j = k \div P /\ r = k % P /\ k = P * j + r /\ j < k
    <3>1. P > 1 BY <1>4
    <3> QED BY <1>3, <1>4, <1>6, <3>1, Quotient
  <2>3. j \notin T BY <1>2, <1>3, <2>2
  <2>4. PICK f, n : Spelt(put_varint[j], f, j, n) BY <2>3
  <2>5. put_varint[j] \in Texts BY PutIs
  <2>6. PICK g : Spelt(<<r + P>> \o put_varint[j], g, k, n + 1) BY <1>3, <1>4, <2>2, <2>4, <2>5, SpeltMore
  <2> QED BY <1>3, <2>1, <2>2, <2>6
<1> QED BY <1>3, <1>4, <1>5, <1>6

\* What spells v is read as v, whatever follows.
LEMMA SpeltReads ==
  ASSUME NEW s \in Seq(Nat), NEW rest \in Seq(Nat), NEW f, NEW v \in Nat, NEW n, Spelt(s, f, v, n)
  PROVE  get_varint(s \o rest) = [value |-> v, took |-> n]
<1>1. /\ n \in Nat /\ n >= 1 /\ Len(s) = n /\ s[n] < PAYLOAD
      /\ \A i \in 1 .. n - 1 : s[i] >= PAYLOAD
      /\ f \in [0 .. n -> Nat] /\ f[0] = 0 /\ f[n] = v
      /\ \A i \in 1 .. n : f[i] = (s[n + 1 - i] % PAYLOAD) + PAYLOAD * f[i - 1]
  BY DEF Spelt
<1>2. PICK from : from = s \o rest OBVIOUS
<1>3. /\ Len(from) \in Nat /\ Len(from) >= n
      /\ \A i \in 1 .. n : i \in 1 .. Len(from) /\ from[i] = s[i]
  <2>1. /\ Len(from) = Len(s) + Len(rest)
        /\ \A i \in 1 .. Len(s) + Len(rest) : from[i] = IF i <= Len(s) THEN s[i] ELSE rest[i - Len(s)]
    BY <1>2, ConcatProperties
  <2>2. Len(rest) \in Nat OBVIOUS
  <2>3. \A i \in 1 .. n : i \in 1 .. Len(s) + Len(rest) /\ i <= Len(s) BY <1>1, <2>2
  <2> QED BY <1>1, <2>1, <2>2, <2>3
<1> DEFINE I == {i \in 1 .. Len(from) : from[i] < PAYLOAD}
           took == SelectInSeq(from, LAMBDA byte : byte < PAYLOAD)
<1>4. took = IF I # {} THEN Min(I) ELSE 0 BY DEF SelectInSeq
<1>5. n \in I
  <2>1. n \in 1 .. n BY <1>1
  <2> QED BY <1>1, <1>3, <2>1
<1>6. ASSUME NEW i \in I PROVE n <= i
  <2>1. i \in 1 .. Len(from) /\ from[i] < PAYLOAD OBVIOUS
  <2>2. ASSUME i < n PROVE FALSE
    <3>1. i \in 1 .. n - 1 /\ i \in 1 .. n BY <1>1, <2>1, <2>2
    <3>2. s[i] >= PAYLOAD /\ s[i] < PAYLOAD /\ s[i] \in Nat BY <1>1, <1>3, <2>1, <3>1, ElementOfSeq
    <3> QED BY <3>2, Sizes
  <2>3. i \in Int BY <2>1
  <2> QED BY <1>1, <2>2, <2>3
<1>7. took = n
  <2>1. I # {} /\ I \subseteq Nat BY <1>5
  <2>2. Min(I) \in I /\ \A m \in I : Min(I) <= m
    <3> HIDE DEF I
    <3> QED BY <1>5, <1>6 DEF Min
  <2>3. PICK e : e = Min(I) OBVIOUS
  <2>4. e \in Nat /\ e <= n /\ n <= e BY <1>5, <1>6, <2>1, <2>2, <2>3
  <2> QED BY <1>1, <1>4, <2>1, <2>3, <2>4
<1> HIDE DEF took, I
<1> DEFINE E(g) == [m \in 0 .. n |-> IF m = 0 THEN 0 ELSE (from[n + 1 - m] % PAYLOAD) + PAYLOAD * g[m - 1]]
           c == CHOOSE g : g = E(g)
<1>8. get_varint(from) = [value |-> c[n], took |-> n] BY <1>7 DEF get_varint, took
<1>9. f = E(f)
  <2>1. ASSUME NEW m \in 0 .. n
        PROVE  f[m] = IF m = 0 THEN 0 ELSE (from[n + 1 - m] % PAYLOAD) + PAYLOAD * f[m - 1]
    <3>1. CASE m = 0 BY <1>1, <3>1
    <3>2. CASE m # 0
      <4>1. m \in 1 .. n /\ n + 1 - m \in 1 .. n BY <1>1, <3>2
      <4> QED BY <1>1, <1>3, <3>2, <4>1
    <3> QED BY <3>1, <3>2
  <2> QED BY <1>1, <2>1
<1>10. c = E(c)
  <2> HIDE DEF E
  <2> QED BY <1>9
<1>11. PICK g : g = c OBVIOUS
<1>12. g = [m \in 0 .. n |-> IF m = 0 THEN 0 ELSE (from[n + 1 - m] % PAYLOAD) + PAYLOAD * g[m - 1]]
  BY <1>10, <1>11
<1>13. \A m \in 0 .. n : g[m] = IF m = 0 THEN 0 ELSE (from[n + 1 - m] % PAYLOAD) + PAYLOAD * g[m - 1]
  BY <1>12
<1>14. \A m \in 0 .. n : f[m] = IF m = 0 THEN 0 ELSE (from[n + 1 - m] % PAYLOAD) + PAYLOAD * f[m - 1]
  BY <1>9
<1> DEFINE T == {m \in Nat : g[m] = f[m]}
<1>15. 0 \in T
  <2>1. 0 \in 0 .. n BY <1>1
  <2> QED BY <1>13, <1>14, <2>1
<1>16. ASSUME NEW i \in Nat, i < n, i \in T PROVE i + 1 \in T
  <2>1. i + 1 \in 0 .. n /\ i + 1 # 0 /\ i + 1 - 1 = i BY <1>1, <1>16
  <2>2. g[i] = f[i] BY <1>16
  <2>3. g[i + 1] = f[i + 1] BY <1>13, <1>14, <2>1, <2>2
  <2> QED BY <2>3
<1>17. g[n] = f[n]
  <2>1. \A i \in 0 .. n : i \in T
    <3> HIDE DEF T
    <3> QED BY <1>1, <1>15, <1>16, Induct
  <2>2. n \in 0 .. n BY <1>1
  <2> QED BY <2>1, <2>2
<1> QED BY <1>1, <1>2, <1>8, <1>11, <1>17

\* Text is numbers.
LEMMA TextIs ==
  ASSUME NEW s \in Texts
  PROVE  s \in Seq(Nat) /\ Len(s) \in Nat /\ \A i \in 1 .. Len(s) : s[i] \in Chars /\ s[i] \in Nat
<1>1. Chars \subseteq Nat BY Sizes DEF Chars
<1>2. s \in Seq(Nat) BY <1>1, SeqMonotonic DEF Texts
<1> QED BY <1>1, <1>2, ElementOfSeq DEF Texts

\* A varint is read back, whatever follows.
LEMMA VarintReads ==
  ASSUME NEW v \in Nat, NEW rest \in Texts
  PROVE  get_varint(put_varint[v] \o rest) = [value |-> v, took |-> Len(put_varint[v])]
<1>1. PICK f, n : Spelt(put_varint[v], f, v, n) BY PutSpells
<1>2. put_varint[v] \in Seq(Nat) /\ rest \in Seq(Nat) BY PutIs, TextIs
<1>3. get_varint(put_varint[v] \o rest) = [value |-> v, took |-> n] BY <1>1, <1>2, SpeltReads
<1> QED BY <1>1, <1>3 DEF Spelt

\* It takes as many bytes as the powers of its base say.
LEMMA PutLong ==
  ASSUME NEW n \in Nat, n >= 1, NEW v \in Nat, v < VarintEnd[n], n = 1 \/ v >= VarintEnd[n - 1]
  PROVE  Len(put_varint[v]) = n
<1>1. PICK P \in Nat : P = PAYLOAD /\ P > 1 BY Sizes
<1>2. PICK E \in [Nat -> Nat] : E = VarintEnd /\ E[0] = 1 /\ \A i \in Nat : E[i + 1] = P * E[i] /\ E[i] > 0
  BY <1>1, Ends DEF Power
<1> DEFINE Q(m) == \A k \in Nat : k < E[m + 1] /\ (m = 0 \/ k >= E[m]) => Len(put_varint[k]) = m + 1
           T == {m \in Nat : Q(m)}
<1>3. 0 \in T
  <2>1. ASSUME NEW k \in Nat, k < E[0 + 1] PROVE Len(put_varint[k]) = 0 + 1
    <3>1. k < P BY <1>1, <1>2, <2>1
    <3>2. put_varint[k] = <<k>> BY <1>1, <3>1, PutIs
    <3> QED BY <3>2
  <2> QED BY <2>1
<1>4. ASSUME NEW i \in Nat, i < n, i \in T PROVE i + 1 \in T
  <2>1. Q(i) BY <1>4
  <2>2. PICK a \in Nat : a = i + 1 OBVIOUS
  <2>3. ASSUME NEW k \in Nat, k < E[a + 1], a = 0 \/ k >= E[a] PROVE Len(put_varint[k]) = a + 1
    <3>1. E[a + 1] = P * E[a] /\ E[a] = P * E[i] /\ E[a] \in Nat /\ E[i] \in Nat /\ E[i] > 0 BY <1>2, <2>2
    <3>2. k >= E[a] BY <2>2, <2>3
    <3>3. k >= P
      <4>1. PICK e \in Nat : e = E[i] /\ e >= 1 BY <3>1
      <4>2. P * e = P + P * (e - 1) OBVIOUS
      <4>3. e - 1 \in Nat BY <4>1
      <4>4. P * (e - 1) \in Nat BY <4>3
      <4> QED BY <3>1, <3>2, <4>1, <4>2, <4>4
    <3>4. put_varint[k] = <<(k % P) + P>> \o put_varint[k \div P] BY <1>1, <3>3, PutIs
    <3>5. PICK j \in Nat, r \in Int : j = k \div P /\ r = (k % P) + P
      <4>1. k \div P \in Nat /\ k % P \in 0 .. P - 1 BY <1>1, Quotient
      <4>2. PICK m \in 0 .. P - 1 : m = k % P BY <4>1
      <4>3. m + P \in Int OBVIOUS
      <4> QED BY <4>1, <4>2, <4>3
    <3>6. j < E[a] BY <1>1, <2>3, <3>1, <3>5, QuotientBelow
    <3>7. i = 0 \/ j >= E[i]
      <4>1. k < P * E[i] <=> j < E[i] BY <1>1, <3>1, <3>5, QuotientBelow
      <4>2. ~(k < P * E[i]) BY <3>1, <3>2
      <4> QED BY <3>1, <4>1, <4>2
    <3>8. Len(put_varint[j]) = a BY <2>1, <2>2, <3>6, <3>7
    <3>9. Len(<<r>> \o put_varint[j]) = 1 + Len(put_varint[j])
      <4>1. put_varint[j] \in Seq(Nat) BY PutIs, TextIs
      <4>2. <<r>> \in Seq(Int) /\ Len(<<r>>) = 1 OBVIOUS
      <4>3. put_varint[j] \in Seq(Int)
        <5>1. Nat \subseteq Int OBVIOUS
        <5> QED BY <4>1, <5>1, SeqMonotonic
      <4> QED BY <4>2, <4>3, ConcatProperties
    <3> QED BY <3>4, <3>5, <3>8, <3>9
  <2> QED BY <2>2, <2>3
<1>5. PICK m \in Nat : n = m + 1
  <2>1. n - 1 \in Nat /\ n = (n - 1) + 1 OBVIOUS
  <2> QED BY <2>1
<1>6. \A i \in 0 .. n : i \in T
  <2> HIDE DEF T
  <2> QED BY <1>3, <1>4, Induct
<1>7. Q(m)
  <2>1. m \in 0 .. n BY <1>5
  <2> QED BY <1>6, <2>1
<1>8. v < E[m + 1] /\ (m = 0 \/ v >= E[m])
  <2>1. n - 1 = m BY <1>5
  <2> QED BY <1>2, <1>5, <2>1
<1> QED BY <1>5, <1>7, <1>8

\* A varint is as long as varint_len says, five bytes at most.
LEMMA VarintLong ==
  ASSUME NEW v \in Nat, v < VarintEnd[MAX_VARINT]
  PROVE  Len(put_varint[v]) = varint_len(v) /\ varint_len(v) \in 1 .. MAX_VARINT
<1>1. PICK E \in [Nat -> Nat] : E = VarintEnd BY Ends DEF Power
<1>2. CASE v >= E[4]
  <2>1. Len(put_varint[v]) = 5
    <3>1. 5 \in Nat /\ 5 >= 1 /\ 5 - 1 = 4 OBVIOUS
    <3> QED BY <1>1, <1>2, <3>1, PutLong DEF MAX_VARINT
  <2> QED BY <1>1, <1>2, <2>1 DEF varint_len, MAX_VARINT
<1>3. CASE v < E[4]
  <2>1. \E n \in 1 .. 4 : v < E[n] /\ (n = 1 \/ v >= E[n - 1])
    <3>1. \A n \in 1 .. 4 : E[n] \in Nat OBVIOUS
    <3>2. CASE v < E[1] BY <3>2
    <3>3. CASE v >= E[1] /\ v < E[2] BY <3>3
    <3>4. CASE v >= E[2] /\ v < E[3] BY <3>4
    <3>5. CASE v >= E[3] BY <1>3, <3>5
    <3>6. \A n \in 1 .. 3 : E[n] \in Nat /\ (v < E[n] \/ v >= E[n]) OBVIOUS
    <3>7. 1 \in 1 .. 3 /\ 2 \in 1 .. 3 /\ 3 \in 1 .. 3 OBVIOUS
    <3> QED BY <3>2, <3>3, <3>4, <3>5, <3>6, <3>7
  <2>2. PICK n : n = CHOOSE m \in 1 .. 4 : v < E[m] /\ (m = 1 \/ v >= E[m - 1]) OBVIOUS
  <2>3. n \in 1 .. 4 /\ v < E[n] /\ (n = 1 \/ v >= E[n - 1]) BY <2>1, <2>2
  <2>4. Len(put_varint[v]) = n BY <1>1, <2>3, PutLong
  <2>5. varint_len(v) = n
    <3>1. ~(v >= E[4])
      <4>1. E[4] \in Nat OBVIOUS
      <4> QED BY <1>3, <4>1
    <3> QED BY <1>1, <2>2, <3>1 DEF varint_len
  <2> QED BY <2>3, <2>4, <2>5 DEF MAX_VARINT
<1>4. E[4] \in Nat OBVIOUS
<1> QED BY <1>2, <1>3, <1>4

-----------------------------------------------------------------------------
(* Words. *)

\* The word x without its low bytes, one fewer each time.
Shifts(g, x) ==
  /\ g \in [0 .. WORD -> Nat] /\ g[0] = x /\ g[WORD] = 0
  /\ \A i \in 1 .. WORD : g[i] = g[i - 1] \div BYTE

\* to_le writes the low byte of each.
LEMMA ToLeIs ==
  ASSUME NEW x \in 0 .. WordEnd[WORD] - 1
  PROVE  \E g : Shifts(g, x) /\ to_le(x) = [i \in 1 .. WORD |-> g[i - 1] % BYTE]
<1> DEFINE E(f) == [i \in 0 .. WORD |-> IF i = 0 THEN x ELSE f[i - 1] \div BYTE]
           c == CHOOSE f : f = E(f)
<1>1. PICK B \in Nat : B = BYTE /\ B > 1 BY Sizes
<1>2. PICK W \in [Nat -> Nat] : W = WordEnd /\ W[0] = 1 /\ \A i \in Nat : W[i + 1] = B * W[i] /\ W[i] > 0
  BY <1>1, Ends DEF Power
<1>3. WORD \in Nat /\ WORD > 0 /\ x \in Nat BY <1>2, Sizes
<1>4. \A n \in Nat : n \div B \in Nat BY <1>1, Quotient
<1>5. PICK p : p = [n \in Nat |-> IF n = 0 THEN 0 ELSE n - 1] OBVIOUS
<1>6. PICK X : X = [n \in Nat |-> x] OBVIOUS
<1>7. PICK F : F = [n \in Nat |-> [s \in Nat |-> s \div B]] OBVIOUS
<1>8. Sound(Nat, 1, p, X, F)
  <2>1. p \in [Nat -> Nat] /\ \A n \in Nat : n >= 1 => p[n] < n BY <1>5
  <2>2. X \in [Nat -> Nat] BY <1>3, <1>6
  <2>3. F \in [Nat -> [Nat -> Nat]]
    <3>1. [s \in Nat |-> s \div B] \in [Nat -> Nat] BY <1>4
    <3> QED BY <1>7, <3>1
  <2> QED BY <2>1, <2>2, <2>3 DEF Sound
<1>9. PICK f \in [0 .. WORD -> Nat] : \A n \in 0 .. WORD : Obeys(f, n, 1, p, X, F) BY <1>3, <1>8, RecursTo
<1>10. ASSUME NEW n \in 0 .. WORD PROVE f[n] = IF n = 0 THEN x ELSE f[n - 1] \div BYTE
  <2>1. f[n] = IF n < 1 THEN X[n] ELSE F[n][f[p[n]]] BY <1>9 DEF Obeys
  <2>2. CASE n = 0 BY <1>6, <2>1, <2>2
  <2>3. CASE n # 0
    <3>1. n \in Nat /\ ~(n < 1) /\ p[n] = n - 1 /\ n - 1 \in 0 .. WORD BY <1>3, <1>5, <2>3
    <3>2. f[n - 1] \in Nat BY <3>1
    <3>3. F[n][f[n - 1]] = f[n - 1] \div B BY <1>7, <3>1, <3>2
    <3> QED BY <1>1, <2>1, <2>3, <3>1, <3>3
  <2> QED BY <2>2, <2>3
<1>11. f = E(f) BY <1>10
<1>12. c = E(c)
  <2> HIDE DEF E
  <2> QED BY <1>11
<1>13. PICK g : g = c OBVIOUS
<1>14. g = [i \in 0 .. WORD |-> IF i = 0 THEN x ELSE g[i - 1] \div BYTE] BY <1>12, <1>13
<1>15. \A i \in 0 .. WORD : g[i] = IF i = 0 THEN x ELSE g[i - 1] \div BYTE BY <1>14
<1> DEFINE T == {i \in Nat : g[i] \in Nat /\ g[i] < W[WORD - i]}
<1>16. 0 \in T
  <2>1. 0 \in 0 .. WORD /\ WORD - 0 = WORD BY <1>3
  <2>2. PICK w \in Nat : w = W[WORD] BY <1>3
  <2>3. x < w
    <3>1. x \in 0 .. w - 1 BY <1>2, <2>2, Zenon
    <3> QED BY <3>1
  <2>4. g[0] = x BY <1>15, <2>1
  <2>5. g[0] \in Nat /\ g[0] < W[WORD - 0] BY <1>3, <2>1, <2>2, <2>3, <2>4
  <2> QED BY <2>5
<1>17. ASSUME NEW i \in Nat, i < WORD, i \in T PROVE i + 1 \in T
  <2>1. i + 1 \in 0 .. WORD /\ i + 1 # 0 /\ i + 1 - 1 = i BY <1>3, <1>17
  <2>2. g[i + 1] = g[i] \div B BY <1>1, <1>15, <2>1
  <2>3. PICK e \in Nat : e = WORD - (i + 1) /\ e + 1 = WORD - i BY <1>3, <1>17
  <2>4. W[WORD - i] = B * W[e] /\ W[e] \in Nat BY <1>2, <2>3
  <2>5. PICK h \in Nat : h = g[i] /\ h < B * W[e] BY <1>17, <2>4
  <2>6. h \div B < W[e] /\ h \div B \in Nat BY <1>1, <1>4, <2>4, <2>5, QuotientBelow
  <2>7. g[i + 1] \in Nat /\ g[i + 1] < W[WORD - (i + 1)] BY <2>2, <2>3, <2>5, <2>6
  <2> QED BY <2>7
<1>18. \A i \in 0 .. WORD : i \in T
  <2> HIDE DEF T
  <2> QED BY <1>3, <1>16, <1>17, Induct
<1>19. g \in [0 .. WORD -> Nat]
  <2>1. DOMAIN g = 0 .. WORD /\ g = [i \in 0 .. WORD |-> g[i]] BY <1>14
  <2> QED BY <1>18, <2>1
<1>20. g[WORD] = 0
  <2>1. WORD \in 0 .. WORD /\ WORD - WORD = 0 BY <1>3
  <2>2. WORD \in T BY <1>18, <2>1
  <2>3. g[WORD] \in Nat /\ g[WORD] < W[WORD - WORD] BY <2>2
  <2>4. W[WORD - WORD] = 1 BY <1>2, <2>1
  <2>5. PICK k \in Nat : k = g[WORD] BY <2>3
  <2>6. k < 1 BY <2>3, <2>4, <2>5
  <2> QED BY <2>5, <2>6
<1>21. g[0] = x /\ \A i \in 1 .. WORD : g[i] = g[i - 1] \div BYTE
  <2>1. 0 \in 0 .. WORD /\ \A i \in 1 .. WORD : i \in 0 .. WORD /\ i # 0 BY <1>3
  <2> QED BY <1>15, <2>1
<1>22. Shifts(g, x) BY <1>19, <1>20, <1>21 DEF Shifts
<1>23. to_le(x) = [i \in 1 .. WORD |-> c[i - 1] % BYTE]
  <2>1. x # Missing BY <1>3, Sizes
  <2> QED BY <2>1 DEF to_le
<1> QED BY <1>13, <1>22, <1>23

\* A word is WORD bytes.
LEMMA ToLeFits ==
  ASSUME NEW x \in 0 .. WordEnd[WORD] - 1
  PROVE  to_le(x) \in Texts /\ Len(to_le(x)) = WORD
<1>1. PICK g : Shifts(g, x) /\ to_le(x) = [i \in 1 .. WORD |-> g[i - 1] % BYTE] BY ToLeIs
<1>2. PICK B \in Nat : B = BYTE /\ B > 1 BY Sizes
<1>3. ASSUME NEW i \in 1 .. WORD PROVE g[i - 1] % BYTE \in Chars
  <2>1. i - 1 \in 0 .. WORD BY Sizes
  <2>2. g[i - 1] \in Nat BY <1>1, <2>1 DEF Shifts
  <2> QED BY <1>2, <2>2, Quotient DEF Chars
<1>4. WORD \in Nat BY Sizes
<1> QED BY <1>1, <1>3, <1>4 DEF Texts

\* The bytes s are in buf, after the first p.
Occurs(s, buf, p) == p + Len(s) <= Len(buf) /\ \A i \in 1 .. Len(s) : buf[p + i] = s[i]

\* A word is read back from where it was written.
LEMMA WordReads ==
  ASSUME NEW x \in 0 .. WordEnd[WORD] - 1, NEW buf, NEW p \in Nat, Occurs(to_le(x), buf, p)
  PROVE  word(buf, p) = x
<1> DEFINE E(f) == [n \in 0 .. WORD |-> IF n = 0 THEN 0 ELSE buf[p + WORD + 1 - n] + BYTE * f[n - 1]]
           c == CHOOSE f : f = E(f)
<1>1. PICK g : Shifts(g, x) /\ to_le(x) = [i \in 1 .. WORD |-> g[i - 1] % BYTE] BY ToLeIs
<1>2. PICK B \in Nat : B = BYTE /\ B > 1 BY Sizes
<1>3. WORD \in Nat /\ Len(to_le(x)) = WORD BY Sizes, ToLeFits
<1>4. \A i \in 1 .. WORD : buf[p + i] = g[i - 1] % B BY <1>1, <1>2, <1>3 DEF Occurs
<1>5. /\ g \in [0 .. WORD -> Nat] /\ g[0] = x /\ g[WORD] = 0
      /\ \A i \in 1 .. WORD : g[i] = g[i - 1] \div B
  BY <1>1, <1>2 DEF Shifts
<1> DEFINE f == [n \in 0 .. WORD |-> g[WORD - n]]
<1>6. \A n \in 0 .. WORD : f[n] = g[WORD - n] OBVIOUS
<1>7. ASSUME NEW n \in 0 .. WORD
      PROVE  f[n] = IF n = 0 THEN 0 ELSE buf[p + WORD + 1 - n] + BYTE * f[n - 1]
  <2>1. CASE n = 0 BY <1>3, <1>5, <1>6, <2>1
  <2>2. CASE n # 0
    <3>1. PICK i \in 1 .. WORD : i = WORD + 1 - n /\ i - 1 = WORD - n /\ i = WORD - (n - 1)
      BY <1>3, <2>2
    <3>2. n - 1 \in 0 .. WORD /\ i - 1 \in 0 .. WORD /\ p + WORD + 1 - n = p + i BY <1>3, <2>2, <3>1
    <3>3. f[n] = g[i - 1] /\ f[n - 1] = g[i] BY <1>6, <3>1, <3>2
    <3>4. g[i] = g[i - 1] \div B /\ buf[p + i] = g[i - 1] % B /\ g[i - 1] \in Nat BY <1>4, <1>5, <3>2
    <3>5. g[i - 1] = B * (g[i - 1] \div B) + (g[i - 1] % B)
          /\ g[i - 1] \div B \in Nat /\ g[i - 1] % B \in 0 .. B - 1
      BY <1>2, <3>4, Quotient
    <3>6. PICK q \in Nat, r \in 0 .. B - 1 : q = g[i] /\ r = buf[p + i] /\ f[n] = B * q + r
      BY <3>3, <3>4, <3>5
    <3>7. B * q \in Int OBVIOUS
    <3>8. f[n] = r + B * q BY <3>6, <3>7
    <3> HIDE DEF f
    <3> QED BY <1>2, <2>2, <3>2, <3>3, <3>6, <3>8
  <2> QED BY <2>1, <2>2
<1>8. f = E(f) BY <1>7
<1>9. f[WORD] = x /\ f[0] = 0
  <2>1. WORD \in 0 .. WORD /\ 0 \in 0 .. WORD /\ WORD - WORD = 0 /\ WORD - 0 = WORD BY <1>3
  <2> QED BY <1>5, <1>6, <2>1
<1> HIDE DEF f
<1>10. c = E(c)
  <2> HIDE DEF E
  <2> QED BY <1>8
<1>11. PICK h : h = c OBVIOUS
<1>12. h = [n \in 0 .. WORD |-> IF n = 0 THEN 0 ELSE buf[p + WORD + 1 - n] + BYTE * h[n - 1]]
  BY <1>10, <1>11
<1>13. \A n \in 0 .. WORD : h[n] = IF n = 0 THEN 0 ELSE buf[p + WORD + 1 - n] + BYTE * h[n - 1] BY <1>12
<1> DEFINE T == {m \in Nat : h[m] = f[m]}
<1>14. 0 \in T
  <2>1. 0 \in 0 .. WORD BY <1>3
  <2> QED BY <1>7, <1>13, <2>1
<1>15. ASSUME NEW i \in Nat, i < WORD, i \in T PROVE i + 1 \in T
  <2>1. i + 1 \in 0 .. WORD /\ i + 1 # 0 /\ i + 1 - 1 = i BY <1>3, <1>15
  <2>2. h[i] = f[i] BY <1>15
  <2>3. h[i + 1] = f[i + 1] BY <1>7, <1>13, <2>1, <2>2
  <2> QED BY <2>3
<1>16. h[WORD] = f[WORD]
  <2>1. \A i \in 0 .. WORD : i \in T
    <3> HIDE DEF T
    <3> QED BY <1>3, <1>14, <1>15, Induct
  <2>2. WORD \in 0 .. WORD BY <1>3
  <2> QED BY <2>1, <2>2
<1>17. word(buf, p) = c[WORD] BY DEF word
<1> QED BY <1>9, <1>11, <1>16, <1>17

-----------------------------------------------------------------------------
(* Sequences in sequences. *)

\* Both halves of a concatenation occur in it, and what occurs in the first does.
LEMMA OccursHalf ==
  ASSUME NEW s \in Texts, NEW t \in Texts
  PROVE  /\ s \o t \in Texts /\ Len(s \o t) = Len(s) + Len(t)
         /\ Occurs(s, s \o t, 0) /\ Occurs(t, s \o t, Len(s))
         /\ \A r \in Texts, p \in Nat : Occurs(r, s, p) => Occurs(r, s \o t, p)
<1>1. Len(s) \in Nat /\ Len(t) \in Nat BY TextIs
<1>2. PICK w : w = s \o t OBVIOUS
<1>3. /\ w \in Texts /\ Len(w) = Len(s) + Len(t)
      /\ \A i \in 1 .. Len(s) + Len(t) : w[i] = IF i <= Len(s) THEN s[i] ELSE t[i - Len(s)]
  BY <1>2, ConcatProperties DEF Texts
<1>4. \A i \in 1 .. Len(s) : w[i] = s[i]
  <2>1. \A i \in 1 .. Len(s) : i \in 1 .. Len(s) + Len(t) /\ i <= Len(s) BY <1>1
  <2> QED BY <1>3, <2>1
<1>5. Occurs(s, w, 0)
  <2>1. \A i \in 1 .. Len(s) : 0 + i = i OBVIOUS
  <2> QED BY <1>1, <1>3, <1>4, <2>1 DEF Occurs
<1>6. Occurs(t, w, Len(s))
  <2>1. ASSUME NEW i \in 1 .. Len(t) PROVE w[Len(s) + i] = t[i]
    <3>1. PICK j : j = Len(s) + i OBVIOUS
    <3>2. j \in 1 .. Len(s) + Len(t) /\ ~(j <= Len(s)) /\ j - Len(s) = i BY <1>1, <3>1
    <3> QED BY <1>3, <3>1, <3>2
  <2> QED BY <1>1, <1>3, <2>1 DEF Occurs
<1>7. ASSUME NEW r \in Texts, NEW p \in Nat, Occurs(r, s, p) PROVE Occurs(r, w, p)
  <2>1. Len(r) \in Nat /\ p + Len(r) <= Len(s) /\ \A i \in 1 .. Len(r) : s[p + i] = r[i]
    BY <1>7, TextIs DEF Occurs
  <2>2. \A i \in 1 .. Len(r) : p + i \in 1 .. Len(s) BY <1>1, <2>1
  <2> QED BY <1>1, <1>3, <1>4, <2>1, <2>2 DEF Occurs
<1> QED BY <1>2, <1>3, <1>5, <1>6, <1>7

\* What a part of a text is.
LEMMA PartIs ==
  ASSUME NEW buf \in Texts, NEW p \in Nat, NEW m \in Nat, p <= m, m <= Len(buf)
  PROVE  LET t == SubSeq(buf, p + 1, m)
         IN  t \in Texts /\ Len(t) = m - p /\ \A i \in 1 .. m - p : t[i] = buf[p + i]
<1>1. Len(buf) \in Nat /\ \A i \in 1 .. Len(buf) : buf[i] \in Chars BY TextIs
<1>2. \A i \in p + 1 .. m : i \in 1 .. Len(buf) BY <1>1
<1>3. PICK t : t = SubSeq(buf, p + 1, m) OBVIOUS
<1>4. p + 1 \in Int /\ m \in Int OBVIOUS
<1>5. /\ t \in Seq(Chars) /\ Len(t) = IF p + 1 <= m THEN m - (p + 1) + 1 ELSE 0
      /\ \A i \in 1 .. m - (p + 1) + 1 : t[i] = buf[p + 1 + i - 1]
  BY <1>1, <1>2, <1>3, <1>4, SubSeqProperties
<1>6. Len(t) = m - p BY <1>5
<1>7. ASSUME NEW i \in 1 .. m - p PROVE t[i] = buf[p + i]
  <2>1. i \in 1 .. m - (p + 1) + 1 /\ p + 1 + i - 1 = p + i OBVIOUS
  <2> QED BY <1>5, <2>1
<1> QED BY <1>3, <1>5, <1>6, <1>7 DEF Texts

\* What occurs can be cut out.
LEMMA CutOut ==
  ASSUME NEW s \in Texts, NEW buf \in Texts, NEW p \in Nat, Occurs(s, buf, p)
  PROVE  SubSeq(buf, p + 1, p + Len(s)) = s
<1>1. PICK n \in Nat : n = Len(s) BY TextIs
<1>2. p + n <= Len(buf) /\ \A i \in 1 .. n : buf[p + i] = s[i] BY <1>1 DEF Occurs
<1>3. PICK t : t = SubSeq(buf, p + 1, p + n) OBVIOUS
<1>4. t \in Texts /\ Len(t) = n /\ \A i \in 1 .. n : t[i] = buf[p + i]
  <2>1. PICK m \in Nat : m = p + n OBVIOUS
  <2>2. p <= m /\ m <= Len(buf) /\ m - p = n BY <1>2, <2>1
  <2> QED BY <1>3, <2>1, <2>2, PartIs
<1>5. t = s BY <1>1, <1>2, <1>4, SeqEqual DEF Texts
<1> QED BY <1>1, <1>3, <1>5

\* What occurs at the front of a part begins it.
LEMMA Begins ==
  ASSUME NEW s \in Texts, NEW buf \in Texts, NEW p \in Nat, Occurs(s, buf, p)
  PROVE  \E rest \in Texts : SubSeq(buf, p + 1, Len(buf)) = s \o rest
<1>1. PICK n \in Nat : n = Len(s) BY TextIs
<1>2. PICK l \in Nat : l = Len(buf) BY TextIs
<1>3. p + n <= l /\ \A i \in 1 .. n : buf[p + i] = s[i] BY <1>1, <1>2 DEF Occurs
<1>4. PICK q \in Nat : q = p + n OBVIOUS
<1>5. PICK t : t = SubSeq(buf, p + 1, l) OBVIOUS
<1>6. t \in Texts /\ Len(t) = l - p /\ \A i \in 1 .. l - p : t[i] = buf[p + i]
  BY <1>2, <1>3, <1>5, PartIs
<1>7. PICK r : r = SubSeq(buf, q + 1, l) OBVIOUS
<1>8. r \in Texts /\ Len(r) = l - q /\ \A i \in 1 .. l - q : r[i] = buf[q + i]
  <2>1. q <= l /\ l <= Len(buf) BY <1>2, <1>3, <1>4
  <2> QED BY <1>7, <2>1, PartIs
<1>9. PICK u : u = s \o r OBVIOUS
<1>10. /\ u \in Seq(Chars) /\ Len(u) = n + (l - q)
       /\ \A i \in 1 .. n + (l - q) : u[i] = IF i <= n THEN s[i] ELSE r[i - n]
  <2>1. s \in Seq(Chars) /\ r \in Seq(Chars) BY <1>8 DEF Texts
  <2>2. PICK k \in Nat : k = Len(r) /\ k = l - q BY <1>8, <2>1
  <2>3. /\ s \o r \in Seq(Chars) /\ Len(s \o r) = Len(s) + Len(r)
        /\ \A i \in 1 .. Len(s) + Len(r) : (s \o r)[i] = IF i <= Len(s) THEN s[i] ELSE r[i - Len(s)]
    BY <2>1, ConcatProperties
  <2>4. /\ u \in Seq(Chars) /\ Len(u) = n + k
        /\ \A i \in 1 .. n + k : u[i] = IF i <= n THEN s[i] ELSE r[i - n]
    BY <1>1, <1>9, <2>2, <2>3
  <2> QED BY <2>2, <2>4
<1>11. ASSUME NEW i \in 1 .. l - p PROVE t[i] = u[i]
  <2>1. i \in 1 .. n + (l - q) BY <1>4
  <2>2. CASE i <= n
    <3>1. i \in 1 .. n BY <2>2
    <3> QED BY <1>3, <1>6, <1>10, <2>1, <2>2, <3>1
  <2>3. CASE ~(i <= n)
    <3>1. PICK j : j = i - n OBVIOUS
    <3>2. j \in 1 .. l - q /\ q + j = p + i BY <1>3, <1>4, <2>3, <3>1
    <3>3. u[i] = r[j] BY <1>10, <2>1, <2>3, <3>1
    <3> QED BY <1>6, <1>8, <3>2, <3>3
  <2> QED BY <2>2, <2>3
<1>12. Len(u) = l - p BY <1>3, <1>4, <1>10
<1>13. t = u BY <1>6, <1>10, <1>11, <1>12, SeqEqual DEF Texts
<1> QED BY <1>2, <1>5, <1>8, <1>9, <1>13

\* A shorter part still has what ends before its end.
LEMMA OccursEarly ==
  ASSUME NEW s \in Texts, NEW buf \in Texts, NEW p \in Nat, Occurs(s, buf, p),
         NEW m \in Nat, p + Len(s) <= m, m <= Len(buf)
  PROVE  /\ SubSeq(buf, 1, m) \in Texts /\ Len(SubSeq(buf, 1, m)) = m
         /\ Occurs(s, SubSeq(buf, 1, m), p)
<1>0. PICK z \in Nat : z = 0 /\ z <= m OBVIOUS
<1>1. PICK t : t = SubSeq(buf, z + 1, m) OBVIOUS
<1>2. t \in Texts /\ Len(t) = m - z /\ \A i \in 1 .. m - z : t[i] = buf[z + i] BY <1>0, <1>1, PartIs
<1>3. Len(t) = m /\ \A i \in 1 .. m : t[i] = buf[i] BY <1>0, <1>2
<1>4. Len(s) \in Nat /\ \A i \in 1 .. Len(s) : buf[p + i] = s[i] BY TextIs DEF Occurs
<1>5. \A i \in 1 .. Len(s) : p + i \in 1 .. m BY <1>4
<1>6. Occurs(s, t, p) BY <1>3, <1>4, <1>5 DEF Occurs
<1>7. t = SubSeq(buf, 1, m) BY <1>0, <1>1
<1> QED BY <1>2, <1>3, <1>6, <1>7

\* A text without its first byte.
LEMMA TailIs ==
  ASSUME NEW buf \in Texts, Len(buf) >= 1
  PROVE  Tail(buf) = SubSeq(buf, 1 + 1, Len(buf))
<1>1. PICK l \in Nat : l = Len(buf) BY TextIs
<1>2. buf # <<>>
  <2>1. Len(<<>>) = 0 OBVIOUS
  <2> QED BY <1>1, <2>1
<1>3. /\ Tail(buf) \in Seq(Chars) /\ Len(Tail(buf)) = l - 1
      /\ \A i \in 1 .. Len(Tail(buf)) : Tail(buf)[i] = buf[i + 1]
  BY <1>1, <1>2, HeadTailProperties DEF Texts
<1>4. PICK t : t = SubSeq(buf, 1 + 1, l) OBVIOUS
<1>5. t \in Texts /\ Len(t) = l - 1 /\ \A i \in 1 .. l - 1 : t[i] = buf[1 + i]
  <2>1. PICK p \in Nat : p = 1 OBVIOUS
  <2>2. p <= l /\ l <= Len(buf) BY <1>1, <2>1
  <2>3. PICK w : w = SubSeq(buf, p + 1, l) OBVIOUS
  <2>4. w \in Texts /\ Len(w) = l - p /\ \A i \in 1 .. l - p : w[i] = buf[p + i] BY <2>2, <2>3, PartIs
  <2> QED BY <1>4, <2>1, <2>3, <2>4
<1>6. \A i \in 1 .. l - 1 : 1 + i = i + 1 OBVIOUS
<1>7. Tail(buf) = t BY <1>3, <1>5, <1>6, SeqEqual DEF Texts
<1> QED BY <1>1, <1>4, <1>7

-----------------------------------------------------------------------------
(* Entries. *)

Strings == {s \in Texts : Len(s) < VarintEnd[MAX_VARINT]}
Marks == Words \cup {Missing}

\* A mark takes a word or nothing.
LEMMA MarkIs ==
  ASSUME NEW x \in Marks
  PROVE  /\ to_le(x) \in Texts /\ Len(to_le(x)) = IF x # Missing THEN WORD ELSE 0
         /\ x # Missing => x \in 0 .. WordEnd[WORD] - 1
<1>1. CASE x = Missing
  <2>1. to_le(x) = <<>> BY <1>1 DEF to_le
  <2> QED BY <1>1, <2>1 DEF Texts
<1>2. CASE x # Missing
  <2>1. x \in 0 .. WordEnd[WORD] - 1 BY <1>2, EntryAssumption DEF Marks
  <2> QED BY <1>2, <2>1, ToLeFits
<1> QED BY <1>1, <1>2

\* The varint of a key's length, and the flags byte.
KeyPrefix(key) == IF Len(key) > KLEN_INLINE THEN put_varint[Len(key)] ELSE <<>>
Flags(key, expiry, user_flags) == flags_of(Len(key), expiry # Missing, user_flags # Missing)

\* The flags byte: two flags, and a short key's length.
LEMMA FlagsAre ==
  ASSUME NEW key \in Strings, NEW x, NEW u
  PROVE  LET f == Flags(key, x, u)
         IN  /\ f \in Chars /\ f \div 4 = packed(Len(key))
             /\ f % 4 \in 0 .. 3
             /\ ((f % 4) % 2 = 1) = (x # Missing)
             /\ ((f % 4) \div 2 = 1) = (u # Missing)
<1>1. PICK n \in Nat : n = Len(key) BY TextIs DEF Strings
<1>2. PICK q \in Nat : q = packed(n) /\ 4 * q + 3 <= BYTE - 1
  <2>1. packed(n) \in Nat /\ packed(n) <= KLEN_INLINE + 1 BY Sizes DEF packed
  <2> QED BY <2>1, Sizes
<1>3. PICK e \in 0 .. 1 : e = IF x # Missing THEN 1 ELSE 0 OBVIOUS
<1>4. PICK g \in 0 .. 1 : g = IF u # Missing THEN 1 ELSE 0 OBVIOUS
<1>5. PICK f : f = Flags(key, x, u) OBVIOUS
<1>6. f = e + 2 * g + 4 * q
  <2>1. (IF x # Missing THEN HAS_EXPIRY ELSE 0) = e BY <1>3 DEF HAS_EXPIRY
  <2>2. (IF u # Missing THEN HAS_USER_FLAGS ELSE 0) = 2 * g BY <1>4 DEF HAS_USER_FLAGS
  <2> QED BY <1>1, <1>2, <1>5, <2>1, <2>2 DEF Flags, flags_of
<1>7. f \in Chars
  <2>1. f \in Nat /\ f <= BYTE - 1 BY <1>2, <1>6, Sizes
  <2> QED BY <2>1, Sizes DEF Chars
<1>8. f \div 4 = q /\ f % 4 = e + 2 * g BY <1>2, <1>6
<1>9. ((e + 2 * g) % 2 = 1) = (e = 1) /\ ((e + 2 * g) \div 2 = 1) = (g = 1) OBVIOUS
<1>10. (e = 1) = (x # Missing) /\ (g = 1) = (u # Missing) BY <1>3, <1>4
<1>11. f % 4 \in 0 .. 3 BY <1>8
<1> QED BY <1>1, <1>2, <1>5, <1>7, <1>8, <1>9, <1>10, <1>11

\* A key's prefix is as long as klen_len says, and the value's as varint_len.
LEMMA PrefixesAre ==
  ASSUME NEW key \in Strings
  PROVE  /\ KeyPrefix(key) \in Texts /\ Len(KeyPrefix(key)) = klen_len(Len(key))
         /\ klen_len(Len(key)) \in 0 .. MAX_VARINT
         /\ put_varint[Len(key)] \in Texts /\ Len(put_varint[Len(key)]) = varint_len(Len(key))
         /\ varint_len(Len(key)) \in 1 .. MAX_VARINT
<1>1. PICK n \in Nat : n = Len(key) /\ n < VarintEnd[MAX_VARINT] BY TextIs DEF Strings
<1>2. PICK t : t = put_varint[n] OBVIOUS
<1>3. t \in Texts /\ Len(t) = varint_len(n) /\ varint_len(n) \in 1 .. MAX_VARINT
  BY <1>1, <1>2, PutIs, VarintLong
<1>4. KeyPrefix(key) = IF n > KLEN_INLINE THEN t ELSE <<>> BY <1>1, <1>2 DEF KeyPrefix
<1>5. klen_len(n) = IF n <= KLEN_INLINE THEN 0 ELSE varint_len(n) BY DEF klen_len
<1>6. n <= KLEN_INLINE <=> ~(n > KLEN_INLINE) BY Sizes
<1>7. <<>> \in Texts /\ Len(<<>>) = 0 BY DEF Texts
<1>8. MAX_VARINT = 5 BY DEF MAX_VARINT
<1> QED BY <1>1, <1>2, <1>3, <1>4, <1>5, <1>6, <1>7, <1>8

\* Where each part of an entry is.
Laid(w, f, a, n, k, l, x, u) ==
  /\ w \in Texts /\ Len(w) = 1 + Len(a) + Len(n) + Len(k) + Len(l) + Len(x) + Len(u)
  /\ Occurs(<<f>>, w, 0) /\ Occurs(a, w, 1) /\ Occurs(n, w, 1 + Len(a))
  /\ Occurs(k, w, 1 + Len(a) + Len(n)) /\ Occurs(l, w, 1 + Len(a) + Len(n) + Len(k))
  /\ Occurs(x, w, 1 + Len(a) + Len(n) + Len(k) + Len(l))
  /\ Occurs(u, w, 1 + Len(a) + Len(n) + Len(k) + Len(l) + Len(x))

\* t is put behind s, which is p bytes long, and w is both.
Follows(s, t, w, p) ==
  /\ w \in Texts /\ Len(w) = p + Len(t) /\ Occurs(t, w, p)
  /\ \A r \in Texts, i \in Nat : Occurs(r, s, i) => Occurs(r, w, i)

\* A part put behind another follows it.
LEMMA OccursAfter ==
  ASSUME NEW s \in Texts, NEW t \in Texts, NEW w, w = s \o t, NEW p \in Nat, p = Len(s)
  PROVE  Follows(s, t, w, p)
BY OccursHalf DEF Follows

\* Parts one after the other are where they are laid.
LEMMA LaidOut ==
  ASSUME NEW f \in Chars, NEW a \in Texts, NEW n \in Texts, NEW k \in Texts, NEW l \in Texts,
         NEW x \in Texts, NEW u \in Texts
  PROVE  Laid(<<f>> \o a \o n \o k \o l \o x \o u, f, a, n, k, l, x, u)
<1>1. PICK c : c = <<f>> OBVIOUS
<1>2. c \in Texts /\ Len(c) = 1 BY <1>1 DEF Texts
<1>3. Len(a) \in Nat /\ Len(n) \in Nat /\ Len(k) \in Nat /\ Len(l) \in Nat /\ Len(x) \in Nat /\ Len(u) \in Nat
  BY TextIs
<1>4. PICK w1 : w1 = c \o a OBVIOUS
<1>5. /\ w1 \in Texts /\ Len(w1) = 1 + Len(a) /\ Occurs(c, w1, 0) /\ Occurs(a, w1, 1)
  BY <1>2, <1>4, OccursHalf
<1>6. PICK w2 : w2 = w1 \o n OBVIOUS
<1>7. PICK p2 \in Nat : p2 = 1 + Len(a) BY <1>3
<1>8. /\ w2 \in Texts /\ Len(w2) = p2 + Len(n) /\ Occurs(n, w2, p2)
      /\ \A r \in Texts, p \in Nat : Occurs(r, w1, p) => Occurs(r, w2, p)
  <2>1. Follows(w1, n, w2, p2) BY <1>5, <1>6, <1>7, OccursAfter
  <2> QED BY <2>1 DEF Follows
<1>9. PICK w3 : w3 = w2 \o k OBVIOUS
<1>10. PICK p3 \in Nat : p3 = p2 + Len(n) BY <1>3
<1>11. /\ w3 \in Texts /\ Len(w3) = p3 + Len(k) /\ Occurs(k, w3, p3)
       /\ \A r \in Texts, p \in Nat : Occurs(r, w2, p) => Occurs(r, w3, p)
  <2>1. Follows(w2, k, w3, p3) BY <1>8, <1>9, <1>10, OccursAfter
  <2> QED BY <2>1 DEF Follows
<1>12. PICK w4 : w4 = w3 \o l OBVIOUS
<1>13. PICK p4 \in Nat : p4 = p3 + Len(k) BY <1>3
<1>14. /\ w4 \in Texts /\ Len(w4) = p4 + Len(l) /\ Occurs(l, w4, p4)
       /\ \A r \in Texts, p \in Nat : Occurs(r, w3, p) => Occurs(r, w4, p)
  <2>1. Follows(w3, l, w4, p4) BY <1>11, <1>12, <1>13, OccursAfter
  <2> QED BY <2>1 DEF Follows
<1>15. PICK w5 : w5 = w4 \o x OBVIOUS
<1>16. PICK p5 \in Nat : p5 = p4 + Len(l) BY <1>3
<1>17. /\ w5 \in Texts /\ Len(w5) = p5 + Len(x) /\ Occurs(x, w5, p5)
       /\ \A r \in Texts, p \in Nat : Occurs(r, w4, p) => Occurs(r, w5, p)
  <2>1. Follows(w4, x, w5, p5) BY <1>14, <1>15, <1>16, OccursAfter
  <2> QED BY <2>1 DEF Follows
<1>18. PICK w6 : w6 = w5 \o u OBVIOUS
<1>19. PICK p6 \in Nat : p6 = p5 + Len(x) BY <1>3
<1>20. /\ w6 \in Texts /\ Len(w6) = p6 + Len(u) /\ Occurs(u, w6, p6)
       /\ \A r \in Texts, p \in Nat : Occurs(r, w5, p) => Occurs(r, w6, p)
  <2>1. Follows(w5, u, w6, p6) BY <1>17, <1>18, <1>19, OccursAfter
  <2> QED BY <2>1 DEF Follows
<1>21. PICK z \in Nat, p1 \in Nat : z = 0 /\ p1 = 1 OBVIOUS
<1>22. Occurs(c, w6, z) /\ Occurs(a, w6, p1)
  BY <1>2, <1>5, <1>8, <1>11, <1>14, <1>17, <1>20, <1>21
<1>23. Occurs(n, w6, p2) BY <1>8, <1>11, <1>14, <1>17, <1>20
<1>24. Occurs(k, w6, p3) /\ Occurs(l, w6, p4) /\ Occurs(x, w6, p5) BY <1>11, <1>14, <1>17, <1>20
<1>25. w6 = <<f>> \o a \o n \o k \o l \o x \o u BY <1>1, <1>4, <1>6, <1>9, <1>12, <1>15, <1>18
<1>26. /\ p2 = 1 + Len(a) /\ p3 = 1 + Len(a) + Len(n) /\ p4 = 1 + Len(a) + Len(n) + Len(k)
       /\ p5 = 1 + Len(a) + Len(n) + Len(k) + Len(l)
       /\ p6 = 1 + Len(a) + Len(n) + Len(k) + Len(l) + Len(x)
       /\ Len(w6) = 1 + Len(a) + Len(n) + Len(k) + Len(l) + Len(x) + Len(u)
  BY <1>3, <1>7, <1>10, <1>13, <1>16, <1>19, <1>20
<1>27. Laid(w6, f, a, n, k, l, x, u)
  BY <1>1, <1>20, <1>21, <1>22, <1>23, <1>24, <1>26 DEF Laid
<1> QED BY <1>25, <1>27

\* The parts of an entry, and where they are in its bytes.
Parts(w, key, value, x, u) ==
  Laid(w, Flags(key, x, u), KeyPrefix(key), put_varint[Len(value)], key, value, to_le(x), to_le(u))

\* An entry is laid out so.
LEMMA WriteIs ==
  ASSUME NEW key \in Strings, NEW value \in Strings, NEW x \in Marks, NEW u \in Marks
  PROVE  Parts(write(key, value, x, u), key, value, x, u)
<1>1. PICK f \in Chars : f = Flags(key, x, u) BY FlagsAre
<1>2. PICK a \in Texts : a = KeyPrefix(key) BY PrefixesAre
<1>3. PICK n \in Texts : n = put_varint[Len(value)] BY PrefixesAre
<1>4. PICK k \in Texts, l \in Texts : k = key /\ l = value BY DEF Strings
<1>5. PICK s \in Texts, t \in Texts : s = to_le(x) /\ t = to_le(u) BY MarkIs
<1>6. PICK w : w = <<f>> \o a \o n \o k \o l \o s \o t OBVIOUS
<1>7. Laid(w, f, a, n, k, l, s, t) BY <1>6, LaidOut
<1>8. write(key, value, x, u) = w
  BY <1>1, <1>2, <1>3, <1>4, <1>5, <1>6 DEF write, Flags, KeyPrefix
<1> QED BY <1>1, <1>2, <1>3, <1>4, <1>5, <1>7, <1>8 DEF Parts

\* One byte is a text.
LEMMA OneByte ==
  ASSUME NEW f \in Chars
  PROVE  <<f>> \in Texts /\ Len(<<f>>) = 1 /\ <<f>>[1] = f
BY DEF Texts

\* The header is read back from no more bytes than it may take.
LEMMA HeadReads ==
  ASSUME NEW key \in Strings, NEW value \in Strings, NEW x \in Marks, NEW u \in Marks,
         NEW w, Parts(w, key, value, x, u)
  PROVE  head(w) = [flags |-> Flags(key, x, u) % 4,
                    header |-> 1 + Len(KeyPrefix(key)) + Len(put_varint[Len(value)]),
                    klen |-> Len(key), vlen |-> Len(value)]
<1>1. PICK f \in Chars : f = Flags(key, x, u) /\ f \div 4 = packed(Len(key)) BY FlagsAre
<1>2. PICK a \in Texts, b \in 0 .. 5 : a = KeyPrefix(key) /\ b = Len(a)
  BY PrefixesAre, TextIs DEF MAX_VARINT
<1>3. PICK n \in Texts, c \in 1 .. 5 : n = put_varint[Len(value)] /\ c = Len(n)
  BY PrefixesAre, TextIs DEF MAX_VARINT
<1>4. PICK i \in Nat, j \in Nat : i = Len(key) /\ j = Len(value) BY TextIs DEF Strings
<1>5. PICK y \in Nat, z \in Nat : y = Len(to_le(x)) /\ z = Len(to_le(u)) BY MarkIs, TextIs
<1>6. /\ w \in Texts /\ Len(w) = 1 + b + c + i + j + y + z
      /\ Occurs(<<f>>, w, 0) /\ Occurs(a, w, 1) /\ Occurs(n, w, 1 + b)
  BY <1>1, <1>2, <1>3, <1>4, <1>5 DEF Parts, Laid
<1>7. PICK m \in Nat : /\ m = IF Len(w) < MAX_HEADER THEN Len(w) ELSE MAX_HEADER
                       /\ m <= Len(w) /\ 1 + b + c <= m
  <2>1. MAX_HEADER = 11 BY DEF MAX_HEADER, MAX_VARINT
  <2>2. PICK len \in Nat : len = Len(w) BY <1>6, TextIs
  <2>3. 1 + b + c <= len /\ 1 + b + c <= 11
    <3>1. len = 1 + b + c + i + j + y + z BY <1>6, <2>2
    <3> QED BY <3>1
  <2>4. CASE len < 11 BY <2>1, <2>2, <2>3, <2>4
  <2>5. CASE ~(len < 11) BY <2>1, <2>2, <2>3, <2>5
  <2> QED BY <2>4, <2>5
<1>8. m <= Len(w) /\ 1 + b + c <= m BY <1>7
<1>9. PICK seen : seen = SubSeq(w, 1, m) OBVIOUS
<1>10. PICK p \in Nat : p = 1 + b OBVIOUS
<1>11. PICK o \in Nat, e \in Nat : o = 0 /\ e = 1 OBVIOUS
<1>12. PICK d \in Texts : d = <<f>> /\ Len(d) = 1 /\ d[1] = f BY OneByte
<1>13. /\ seen \in Texts /\ Len(seen) = m
       /\ Occurs(d, seen, o) /\ Occurs(a, seen, e) /\ Occurs(n, seen, p)
  <2>1. Occurs(d, w, o) /\ Occurs(a, w, e) /\ Occurs(n, w, p) BY <1>6, <1>10, <1>11, <1>12
  <2>2. o + Len(d) <= m /\ e + Len(a) <= m /\ p + Len(n) <= m
    <3>1. o + 1 <= m /\ e + b <= m /\ p + c <= m BY <1>8, <1>10, <1>11
    <3> QED BY <1>2, <1>3, <1>12, <3>1
  <2> QED BY <1>6, <1>8, <1>9, <2>1, <2>2, OccursEarly
<1>14. seen[1] = f
  <2>1. 1 \in 1 .. Len(d) /\ o + 1 = 1 BY <1>11, <1>12
  <2> QED BY <1>12, <1>13, <2>1 DEF Occurs
<1> DEFINE klen == IF f \div 4 = 0 THEN get_varint(Tail(seen)) ELSE [value |-> (f \div 4) - 1, took |-> 0]
<1>15. klen = [value |-> i, took |-> b]
  <2>1. CASE i > KLEN_INLINE
    <3>1. f \div 4 = 0 /\ a = put_varint[i]
      <4>1. ~(i <= KLEN_INLINE) BY <2>1, Sizes
      <4> QED BY <1>1, <1>2, <1>4, <2>1, <4>1 DEF packed, KeyPrefix
    <3>2. PICK rest \in Texts : SubSeq(seen, e + 1, Len(seen)) = a \o rest BY <1>13, Begins
    <3>3. Tail(seen) = a \o rest
      <4>1. Len(seen) >= 1 BY <1>8, <1>13
      <4>2. Tail(seen) = SubSeq(seen, 1 + 1, Len(seen)) BY <1>13, <4>1, TailIs
      <4> QED BY <1>11, <3>2, <4>2
    <3>4. get_varint(a \o rest) = [value |-> i, took |-> Len(a)] BY <3>1, VarintReads
    <3> QED BY <1>2, <3>1, <3>3, <3>4
  <2>2. CASE ~(i > KLEN_INLINE)
    <3>1. i <= KLEN_INLINE BY <2>2, Sizes
    <3>2. f \div 4 = i + 1 BY <1>1, <1>4, <3>1 DEF packed
    <3>3. a = <<>> BY <1>2, <1>4, <2>2 DEF KeyPrefix
    <3>4. b = 0 BY <1>2, <3>3
    <3>5. f \div 4 # 0 /\ (f \div 4) - 1 = i BY <3>2
    <3> QED BY <3>4, <3>5
  <2> QED BY <2>1, <2>2
<1>16. get_varint(SubSeq(seen, 2 + b, Len(seen))) = [value |-> j, took |-> c]
  <2>1. PICK rest \in Texts : SubSeq(seen, p + 1, Len(seen)) = n \o rest BY <1>13, Begins
  <2>2. p + 1 = 2 + b BY <1>10
  <2>3. get_varint(n \o rest) = [value |-> j, took |-> Len(n)] BY <1>3, <1>4, VarintReads
  <2> QED BY <1>3, <2>1, <2>2, <2>3
<1>17. head(w) = LET vlen == get_varint(SubSeq(seen, 2 + klen.took, Len(seen)))
                 IN  [flags |-> f % 4, header |-> 1 + klen.took + vlen.took,
                      klen |-> klen.value, vlen |-> vlen.value]
  BY <1>7, <1>9, <1>14 DEF head
<1> HIDE DEF klen
<1>18. klen.took = b /\ klen.value = i BY <1>15
<1>19. PICK v : v = get_varint(SubSeq(seen, 2 + b, Len(seen))) OBVIOUS
<1>20. v.took = c /\ v.value = j BY <1>16, <1>19
<1>21. head(w) = [flags |-> f % 4, header |-> 1 + b + c, klen |-> i, vlen |-> j]
  BY <1>17, <1>18, <1>19, <1>20
<1> QED BY <1>1, <1>2, <1>3, <1>4, <1>21

\* Which words an entry has is what its flags say.
LEMMA MarksAre ==
  ASSUME NEW key \in Strings, NEW x \in Marks, NEW u \in Marks, NEW h, h.flags = Flags(key, x, u) % 4
  PROVE  /\ Timed(h) = (x # Missing) /\ Flagged(h) = (u # Missing)
         /\ Len(to_le(x)) = (IF Timed(h) THEN WORD ELSE 0)
         /\ Len(to_le(u)) = (IF Flagged(h) THEN WORD ELSE 0)
         /\ trailer(h) = Len(to_le(x)) + Len(to_le(u))
<1>1. Timed(h) = (x # Missing) /\ Flagged(h) = (u # Missing) BY FlagsAre DEF Timed, Flagged
<1>2. Len(to_le(x)) = (IF Timed(h) THEN WORD ELSE 0) /\ Len(to_le(u)) = (IF Flagged(h) THEN WORD ELSE 0)
  BY <1>1, MarkIs
<1> QED BY <1>1, <1>2 DEF trailer

\* The whole entry is read back.
LEMMA ViewReads ==
  ASSUME NEW key \in Strings, NEW value \in Strings, NEW x \in Marks, NEW u \in Marks,
         NEW w, Parts(w, key, value, x, u)
  PROVE  /\ view(w) = [key |-> key, value |-> value, expiry |-> x, user_flags |-> u]
         /\ Len(w) = size(head(w))
         /\ Len(w) = size_of_entry(Len(key), Len(value), x # Missing, u # Missing)
<1>1. PICK b \in Nat, c \in Nat : b = Len(KeyPrefix(key)) /\ c = Len(put_varint[Len(value)])
  BY PrefixesAre, TextIs
<1>2. PICK i \in Nat, j \in Nat : i = Len(key) /\ j = Len(value) BY TextIs DEF Strings
<1>3. PICK y \in Nat, z \in Nat : y = Len(to_le(x)) /\ z = Len(to_le(u)) BY MarkIs, TextIs
<1>4. PICK h : h = head(w) OBVIOUS
<1>5. h.flags = Flags(key, x, u) % 4 /\ h.header = 1 + b + c /\ h.klen = i /\ h.vlen = j
  <2>1. h = [flags |-> Flags(key, x, u) % 4, header |-> 1 + b + c, klen |-> i, vlen |-> j]
    <3>1. h = [flags |-> Flags(key, x, u) % 4,
               header |-> 1 + Len(KeyPrefix(key)) + Len(put_varint[Len(value)]),
               klen |-> Len(key), vlen |-> Len(value)]
      BY <1>4, HeadReads
    <3> QED BY <1>1, <1>2, <3>1
  <2> QED BY <2>1
<1>6. /\ Timed(h) = (x # Missing) /\ Flagged(h) = (u # Missing)
      /\ y = (IF Timed(h) THEN WORD ELSE 0) /\ z = (IF Flagged(h) THEN WORD ELSE 0)
      /\ trailer(h) = y + z
  BY <1>3, <1>5, MarksAre
<1>7. PICK p \in Nat, q \in Nat, r \in Nat, s \in Nat :
        p = 1 + b + c /\ q = p + i /\ r = q + j /\ s = r + y
  OBVIOUS
<1>8. /\ w \in Texts /\ Len(w) = s + z
      /\ Occurs(key, w, p) /\ Occurs(value, w, q) /\ Occurs(to_le(x), w, r) /\ Occurs(to_le(u), w, s)
  <2>1. /\ w \in Texts /\ Len(w) = 1 + b + c + i + j + y + z
        /\ Occurs(key, w, 1 + b + c) /\ Occurs(value, w, 1 + b + c + i)
        /\ Occurs(to_le(x), w, 1 + b + c + i + j) /\ Occurs(to_le(u), w, 1 + b + c + i + j + y)
    BY <1>1, <1>2, <1>3 DEF Parts, Laid
  <2> QED BY <1>7, <2>1
<1>9. SubSeq(w, p + 1, p + i) = key /\ SubSeq(w, q + 1, q + j) = value
  BY <1>2, <1>8, CutOut DEF Strings
<1>10. x # Missing => word(w, r) = x BY <1>8, MarkIs, WordReads
<1>11. u # Missing => word(w, s) = u BY <1>8, MarkIs, WordReads
<1>12. h.header + h.klen + h.vlen = r /\ h.header = p /\ h.header + h.klen = q BY <1>5, <1>7
<1>13. view(w) = [key |-> key, value |-> value, expiry |-> x, user_flags |-> u]
  <2>1. view(w) = [key |-> SubSeq(w, p + 1, q), value |-> SubSeq(w, q + 1, r),
                   expiry |-> IF Timed(h) THEN word(w, r) ELSE Missing,
                   user_flags |-> IF Flagged(h) THEN word(w, r + IF Timed(h) THEN WORD ELSE 0) ELSE Missing]
    BY <1>4, <1>12 DEF view
  <2>2. SubSeq(w, p + 1, q) = key /\ SubSeq(w, q + 1, r) = value BY <1>7, <1>9
  <2>3. (IF Timed(h) THEN word(w, r) ELSE Missing) = x BY <1>6, <1>10
  <2>4. r + (IF Timed(h) THEN WORD ELSE 0) = s BY <1>6, <1>7
  <2>5. (IF Flagged(h) THEN word(w, s) ELSE Missing) = u BY <1>6, <1>11
  <2> QED BY <2>1, <2>2, <2>3, <2>4, <2>5
<1>14. Len(w) = size(h) BY <1>5, <1>6, <1>7, <1>8 DEF size
<1>15. Len(w) = size_of_entry(i, j, x # Missing, u # Missing)
  <2>1. b = klen_len(i) /\ c = varint_len(j) BY <1>1, <1>2, PrefixesAre
  <2>2. size_of_entry(i, j, x # Missing, u # Missing)
          = 1 + b + c + i + j + (IF x # Missing THEN WORD ELSE 0) + (IF u # Missing THEN WORD ELSE 0)
    BY <2>1 DEF size_of_entry
  <2>3. (IF x # Missing THEN WORD ELSE 0) = y /\ (IF u # Missing THEN WORD ELSE 0) = z BY <1>6
  <2> QED BY <1>7, <1>8, <2>2, <2>3
<1> QED BY <1>2, <1>4, <1>13, <1>14, <1>15

\* The trailing words begin after so many bytes.
Ahead(key, value, at) == at = 1 + Len(KeyPrefix(key)) + Len(put_varint[Len(value)]) + Len(key) + Len(value)

\* What an in-place change of the deadline makes of the bytes w.
Over(w, at, y) == SubSeq(w, 1, at) \o to_le(y) \o SubSeq(w, at + WORD + 1, Len(w))

\* A deadline put over the old one makes the bytes that writing it all would.
LEMMA RetimeWrites ==
  ASSUME NEW key \in Strings, NEW value \in Strings, NEW x \in Marks, NEW u \in Marks, NEW y \in Marks,
         x # Missing, y # Missing, NEW at \in Nat, Ahead(key, value, at)
  PROVE  Over(write(key, value, x, u), at, y) = write(key, value, y, u)
<1>0. PICK w : w = write(key, value, x, u) OBVIOUS
<1>1. PICK f \in Chars : f = Flags(key, x, u) BY FlagsAre
<1>2. f = Flags(key, y, u) BY <1>1 DEF Flags
<1>3. PICK a \in Texts, n \in Texts : a = KeyPrefix(key) /\ n = put_varint[Len(value)] BY PrefixesAre
<1>4. PICK k \in Texts, l \in Texts : k = key /\ l = value BY DEF Strings
<1>5. PICK s \in Texts, t \in Texts : s = to_le(x) /\ t = to_le(u) BY MarkIs
<1>6. PICK v : v = <<f>> \o a \o n \o k \o l OBVIOUS
<1>7. v \in Texts /\ Len(v) = at
  <2>1. PICK c \in Texts : c = <<f>> /\ Len(c) = 1 BY OneByte
  <2>2. PICK w1 \in Texts : w1 = c \o a /\ Len(w1) = 1 + Len(a) BY <2>1, OccursHalf
  <2>3. PICK w2 \in Texts : w2 = w1 \o n /\ Len(w2) = Len(w1) + Len(n) BY OccursHalf
  <2>4. PICK w3 \in Texts : w3 = w2 \o k /\ Len(w3) = Len(w2) + Len(k) BY OccursHalf
  <2>5. PICK w4 \in Texts : w4 = w3 \o l /\ Len(w4) = Len(w3) + Len(l) BY OccursHalf
  <2>6. v = w4 BY <1>6, <2>1, <2>2, <2>3, <2>4, <2>5
  <2> QED BY <1>3, <1>4, <2>2, <2>3, <2>4, <2>5, <2>6 DEF Ahead
<1>8. write(key, value, x, u) = v \o s \o t /\ write(key, value, y, u) = v \o to_le(y) \o t
  BY <1>1, <1>2, <1>3, <1>4, <1>5, <1>6 DEF write, Flags, KeyPrefix
<1>9. PICK v1 : v1 = v \o s OBVIOUS
<1>10. PICK z \in Nat : z = 0 OBVIOUS
<1>11. Len(s) = WORD /\ WORD \in Nat BY <1>5, MarkIs, Sizes
<1>12. v1 \in Texts /\ Len(v1) = at + WORD /\ Occurs(v, v1, z)
  BY <1>7, <1>9, <1>10, <1>11, OccursHalf
<1>13. PICK p \in Nat : p = at + WORD
  <2>1. at + WORD \in Nat BY <1>11
  <2> QED BY <2>1
<1>14. w = v1 \o t /\ p = Len(v1) BY <1>0, <1>8, <1>9, <1>12, <1>13
<1>15. Follows(v1, t, w, p) BY <1>12, <1>14, OccursAfter
<1>16. w \in Texts /\ Len(w) = p + Len(t) /\ Occurs(t, w, p) /\ Occurs(v, w, z)
  BY <1>7, <1>12, <1>15 DEF Follows
<1>17. SubSeq(w, z + 1, z + Len(v)) = v BY <1>7, <1>16, CutOut
<1>18. SubSeq(w, 1, at) = v
  <2>1. z + 1 = 1 /\ z + Len(v) = at BY <1>7, <1>10
  <2> QED BY <1>17, <2>1
<1>19. SubSeq(w, p + 1, p + Len(t)) = t BY <1>16, CutOut
<1>20. SubSeq(w, at + WORD + 1, Len(w)) = t BY <1>13, <1>16, <1>19
<1>21. Over(w, at, y) = v \o to_le(y) \o t BY <1>18, <1>20 DEF Over
<1> QED BY <1>0, <1>8, <1>21

-----------------------------------------------------------------------------
(* Decimal text. *)

Figures == Seq(0 .. 9)

\* unsigned is as its recursion says.
LEMMA UnsignedIs ==
  ASSUME NEW v \in Nat
  PROVE  /\ unsigned[v] \in Figures
         /\ v < 10 => unsigned[v] = <<v>>
         /\ v >= 10 => unsigned[v] = Append(unsigned[v \div 10], v % 10)
<1> DEFINE E(f) == [k \in Nat |-> IF k < 10 THEN <<k>> ELSE Append(f[k \div 10], k % 10)]
<1>1. PICK p : p = [n \in Nat |-> n \div 10] OBVIOUS
<1>2. PICK X : X = [n \in Nat |-> IF n < 10 THEN <<n>> ELSE <<>>] OBVIOUS
<1>3. PICK F : F = [n \in Nat |-> [s \in Figures |-> Append(s, n % 10)]] OBVIOUS
<1>4. /\ \A n \in Nat : p[n] = n \div 10
      /\ \A n \in Nat : n < 10 => X[n] = <<n>>
      /\ \A n \in Nat, s \in Figures : F[n][s] = Append(s, n % 10)
  BY <1>1, <1>2, <1>3
<1>5. \A n \in Nat : n \div 10 \in Nat /\ n % 10 \in 0 .. 9 /\ (n >= 10 => n \div 10 < n)
  <2>1. 10 \in Nat /\ 10 > 1 OBVIOUS
  <2> QED BY <2>1, Quotient
<1>6. Sound(Figures, 10, p, X, F)
  <2>1. p \in [Nat -> Nat] BY <1>1, <1>5
  <2>2. X \in [Nat -> Figures]
    <3>1. ASSUME NEW n \in Nat PROVE (IF n < 10 THEN <<n>> ELSE <<>>) \in Figures
      <4>1. <<>> \in Figures BY DEF Figures
      <4>2. ASSUME n < 10 PROVE <<n>> \in Figures
        <5>1. n \in 0 .. 9 BY <4>2
        <5> QED BY <5>1 DEF Figures
      <4> QED BY <4>1, <4>2
    <3> QED BY <1>2, <3>1
  <2>3. F \in [Nat -> [Figures -> Figures]]
    <3>1. ASSUME NEW n \in Nat, NEW s \in Figures PROVE Append(s, n % 10) \in Figures
      <4>1. n % 10 \in 0 .. 9 BY <1>5
      <4> QED BY <4>1, AppendProperties DEF Figures
    <3> QED BY <1>3, <3>1
  <2> QED BY <1>4, <1>5, <2>1, <2>2, <2>3 DEF Sound
<1>7. PICK f \in [Nat -> Figures] : \A n \in Nat : Obeys(f, n, 10, p, X, F) BY <1>6, Recurs
<1>8. ASSUME NEW n \in Nat
      PROVE  f[n] = IF n < 10 THEN <<n>> ELSE Append(f[n \div 10], n % 10)
  <2>1. f[n] = IF n < 10 THEN X[n] ELSE F[n][f[n \div 10]] BY <1>4, <1>7 DEF Obeys
  <2>2. f[n \div 10] \in Figures BY <1>5, <1>7
  <2>3. F[n][f[n \div 10]] = Append(f[n \div 10], n % 10) BY <1>4, <2>2
  <2> QED BY <1>4, <2>1, <2>3
<1>9. f = E(f) BY <1>8
<1>10. unsigned = E(unsigned)
  <2>1. unsigned = CHOOSE g : g = E(g) BY DEF unsigned
  <2> HIDE DEF E
  <2> QED BY <1>9, <2>1
<1>11. PICK g : g = unsigned OBVIOUS
<1>12. g = [k \in Nat |-> IF k < 10 THEN <<k>> ELSE Append(g[k \div 10], k % 10)]
  BY <1>10, <1>11
<1>13. \A n \in Nat : g[n] = IF n < 10 THEN <<n>> ELSE Append(g[n \div 10], n % 10)
  BY <1>12
<1> DEFINE T == {n \in Nat : g[n] # f[n]}
<1>14. T = {}
  <2> SUFFICES ASSUME T # {} PROVE FALSE OBVIOUS
  <2>1. T \subseteq Nat OBVIOUS
  <2>2. PICK n \in T : \A j \in T : n <= j
    <3> HIDE DEF T
    <3> QED BY <2>1, Smallest
  <2>3. n \in Nat /\ g[n] # f[n] OBVIOUS
  <2>4. n < 10 \/ n >= 10 BY <2>3
  <2>5. n >= 10 BY <1>8, <1>13, <2>3, <2>4
  <2>6. PICK j \in Nat : j = n \div 10 /\ j < n BY <1>5, <2>3, <2>5
  <2>7. j \notin T BY <2>2, <2>3, <2>6
  <2>8. g[j] = f[j] BY <2>6, <2>7
  <2>9. ~(n < 10) BY <2>3, <2>5
  <2> QED BY <1>8, <1>13, <2>3, <2>6, <2>8, <2>9
<1>15. g[v] \in Figures BY <1>7, <1>14
<1>16. v < 10 => g[v] = <<v>> BY <1>13
<1>17. v >= 10 => g[v] = Append(g[v \div 10], v % 10)
  <2>1. v >= 10 => ~(v < 10) OBVIOUS
  <2> QED BY <1>13, <2>1
<1> QED BY <1>11, <1>15, <1>16, <1>17

\* Figures are text.
LEMMA FiguresAre ==
  ASSUME NEW t \in Figures
  PROVE  t \in Texts /\ Len(t) \in Nat /\ \A i \in 1 .. Len(t) : t[i] \in 0 .. 9
<1>1. 0 .. 9 \subseteq Chars BY Sizes DEF Chars
<1> QED BY <1>1, SeqMonotonic, ElementOfSeq DEF Texts, Figures

\* One figure more.
Figure(sum, figure) ==
  IF sum = Missing \/ figure > 9 THEN Missing
  ELSE IF 10 * sum - figure < LOWEST THEN Missing ELSE 10 * sum - figure

\* What sum_of's walk over figures is.
Sums(f, figures) == f = [i \in 0 .. Len(figures) |-> IF i = 0 THEN 0 ELSE Figure(f[i - 1], figures[i])]

\* There is such a walk over any text.
LEMMA SumsExist ==
  ASSUME NEW figures \in Texts
  PROVE  \E f : Sums(f, figures)
<1> DEFINE On(f, m) == f = [i \in 0 .. m |-> IF i = 0 THEN 0 ELSE Figure(f[i - 1], figures[i])]
           T == {m \in Nat : \E f : On(f, m)}
<1>1. 0 \in T
  <2> DEFINE g == [i \in 0 .. 0 |-> 0]
  <2>1. g = [i \in 0 .. 0 |-> IF i = 0 THEN 0 ELSE Figure(g[i - 1], figures[i])] OBVIOUS
  <2> HIDE DEF g
  <2>2. On(g, 0) BY <2>1
  <2> QED BY <2>2
<1>2. PICK len \in Nat : len = Len(figures) BY TextIs
<1>3. ASSUME NEW k \in Nat, k < len, k \in T PROVE k + 1 \in T
  <2>1. PICK f : On(f, k) BY <1>3
  <2>2. PICK m \in Nat : m = k + 1 OBVIOUS
  <2>3. f = [i \in 0 .. k |-> IF i = 0 THEN 0 ELSE Figure(f[i - 1], figures[i])] BY <2>1
  <2>4. \A i \in 0 .. k : f[i] = IF i = 0 THEN 0 ELSE Figure(f[i - 1], figures[i]) BY <2>3
  <2> DEFINE g == [i \in 0 .. m |-> IF i = m THEN Figure(f[k], figures[m]) ELSE f[i]]
             h == [i \in 0 .. m |-> IF i = 0 THEN 0 ELSE Figure(g[i - 1], figures[i])]
  <2>5. ASSUME NEW i \in 0 .. m PROVE g[i] = h[i]
    <3>1. CASE i = 0
      <4>1. i # m /\ i \in 0 .. k BY <2>2, <3>1
      <4> QED BY <2>4, <3>1, <4>1
    <3>2. CASE i # 0
      <4>1. i - 1 \in 0 .. m /\ i - 1 # m /\ (i = m => i - 1 = k) BY <2>2, <3>2
      <4>2. g[i - 1] = f[i - 1] /\ h[i] = Figure(g[i - 1], figures[i]) BY <3>2, <4>1
      <4>3. CASE i = m BY <4>1, <4>2, <4>3
      <4>4. CASE i # m
        <5>1. i \in 0 .. k BY <2>2, <4>4
        <5>2. g[i] = f[i] BY <4>4
        <5> HIDE DEF g, h
        <5> QED BY <2>4, <3>2, <4>2, <5>1, <5>2
      <4> QED BY <4>3, <4>4
    <3> QED BY <3>1, <3>2
  <2>6. g = h BY <2>5
  <2>7. On(g, m) BY <2>6
  <2> QED BY <2>2, <2>7
<1>4. len \in T
  <2> HIDE DEF T
  <2>1. \A i \in 0 .. len : i \in T BY <1>1, <1>3, Induct
  <2> QED BY <2>1
<1> QED BY <1>2, <1>4 DEF Sums

\* A walk of sum_of's.
Walks(f, figures) ==
  /\ f[0] = 0 /\ \A i \in 1 .. Len(figures) : f[i] = Figure(f[i - 1], figures[i])
  /\ sum_of(figures) = f[Len(figures)]

\* What sum_of leaves on the way and comes to.
LEMMA SumsAre ==
  ASSUME NEW figures \in Texts
  PROVE  \E f : Walks(f, figures)
<1> DEFINE n == Len(figures)
           f == CHOOSE f : Sums(f, figures)
<1>1. n \in Nat BY TextIs
<1>2. Sums(f, figures) BY SumsExist
<1>3. sum_of(figures) = f[n] BY DEF sum_of, Sums, Figure
<1> HIDE DEF f, n
<1>4. f = [i \in 0 .. n |-> IF i = 0 THEN 0 ELSE Figure(f[i - 1], figures[i])] BY <1>2 DEF Sums, n
<1>5. \A i \in 0 .. n : f[i] = IF i = 0 THEN 0 ELSE Figure(f[i - 1], figures[i]) BY <1>4
<1>6. f[0] = 0 /\ \A i \in 1 .. n : f[i] = Figure(f[i - 1], figures[i])
  <2>1. 0 \in 0 .. n /\ \A i \in 1 .. n : i \in 0 .. n /\ i # 0 BY <1>1
  <2> QED BY <1>5, <2>1
<1> QED BY <1>3, <1>6 DEF n, Walks

\* A walk over the same figures comes to the same.
LEMMA SumsOne ==
  ASSUME NEW figures \in Texts, NEW g, g[0] = 0,
         \A i \in 1 .. Len(figures) : g[i] = Figure(g[i - 1], figures[i])
  PROVE  sum_of(figures) = g[Len(figures)]
<1>1. PICK f : Walks(f, figures) BY SumsAre
<1>2. PICK n \in Nat : n = Len(figures) BY TextIs
<1> DEFINE T == {i \in Nat : f[i] = g[i]}
<1>3. 0 \in T BY <1>1 DEF Walks
<1>4. ASSUME NEW i \in Nat, i < n, i \in T PROVE i + 1 \in T
  <2>1. i + 1 \in 1 .. n /\ i + 1 - 1 = i BY <1>4
  <2>2. f[i] = g[i] BY <1>4
  <2> QED BY <1>1, <1>2, <2>1, <2>2 DEF Walks
<1>5. \A i \in 0 .. n : i \in T
  <2> HIDE DEF T
  <2> QED BY <1>3, <1>4, Induct
<1>6. n \in 0 .. n OBVIOUS
<1>7. f[n] = g[n] BY <1>5, <1>6
<1> QED BY <1>1, <1>2, <1>7 DEF Walks

\* A figure more is one step more.
LEMMA SumAppend ==
  ASSUME NEW figures \in Texts, NEW figure \in Chars
  PROVE  sum_of(Append(figures, figure)) = Figure(sum_of(figures), figure)
<1>1. PICK n \in Nat : n = Len(figures) BY TextIs
<1>2. PICK more : more = Append(figures, figure) OBVIOUS
<1>3. /\ more \in Texts /\ Len(more) = n + 1 /\ more[n + 1] = figure
      /\ \A i \in 1 .. n : more[i] = figures[i]
  BY <1>1, <1>2, AppendProperties DEF Texts
<1>4. PICK f : Walks(f, more) BY <1>3, SumsAre
<1>5. \A i \in 1 .. n : i \in 1 .. Len(more) BY <1>3
<1>6. f[0] = 0 /\ \A i \in 1 .. Len(figures) : f[i] = Figure(f[i - 1], figures[i])
  BY <1>1, <1>3, <1>4, <1>5 DEF Walks
<1>7. sum_of(figures) = f[n] BY <1>1, <1>6, SumsOne
<1>8. n + 1 \in 1 .. Len(more) /\ n + 1 - 1 = n BY <1>3
<1>9. f[n + 1] = Figure(f[n], figure) BY <1>3, <1>4, <1>8 DEF Walks
<1>10. sum_of(more) = f[n + 1] BY <1>3, <1>4 DEF Walks
<1> QED BY <1>2, <1>7, <1>9, <1>10

\* No figures come to nought.
LEMMA SumEmpty == sum_of(<<>>) = 0
<1>1. <<>> \in Texts /\ Len(<<>>) = 0 BY DEF Texts
<1>2. PICK f : Walks(f, <<>>) BY <1>1, SumsAre
<1> QED BY <1>1, <1>2 DEF Walks

\* One figure comes to its negative.
LEMMA SumOne ==
  ASSUME NEW c \in Chars
  PROVE  sum_of(<<c>>) = Figure(0, c)
<1>1. <<c>> = Append(<<>>, c) OBVIOUS
<1>2. <<>> \in Texts BY DEF Texts
<1>3. sum_of(Append(<<>>, c)) = Figure(sum_of(<<>>), c) BY <1>2, SumAppend
<1> QED BY <1>1, <1>3, SumEmpty

\* The digits of a number come to its negative, and only nought begins with one.
LEMMA DecimalReads ==
  ASSUME NEW n \in Nat
  PROVE  /\ Len(unsigned[n]) >= 1 /\ (unsigned[n][1] = 0 => n = 0)
         /\ n <= ENTRY_MAX + 1 => sum_of(unsigned[n]) = -n
<1> DEFINE P(k) == /\ Len(unsigned[k]) >= 1 /\ (unsigned[k][1] = 0 => k = 0)
                   /\ k <= ENTRY_MAX + 1 => sum_of(unsigned[k]) = -k
           T == {k \in Nat : ~P(k)}
<1> SUFFICES ASSUME T # {} PROVE FALSE OBVIOUS
<1>1. T \subseteq Nat OBVIOUS
<1>2. PICK k \in T : \A j \in T : k <= j
  <2> HIDE DEF T
  <2> QED BY <1>1, Smallest
<1>3. k \in Nat /\ ~P(k) OBVIOUS
<1>4. 0 # Missing /\ \A j \in Nat : -j # Missing BY Sizes
<1>5. CASE k < 10
  <2>1. k \in Chars BY <1>3, <1>5, Sizes DEF Chars
  <2>2. unsigned[k] = <<k>> BY <1>3, <1>5, UnsignedIs
  <2>3. Len(<<k>>) >= 1 /\ <<k>>[1] = k OBVIOUS
  <2>4. sum_of(<<k>>) = Figure(0, k) BY <2>1, SumOne
  <2>5. k <= ENTRY_MAX + 1 => Figure(0, k) = -k
    <3>1. ~(k > 9) BY <1>3, <1>5
    <3>2. 10 * 0 - k = -k BY <1>3
    <3>3. k <= ENTRY_MAX + 1 => ~(-k < LOWEST) BY <1>3, Sizes DEF LOWEST
    <3> QED BY <1>4, <3>1, <3>2, <3>3 DEF Figure
  <2>6. P(k) BY <2>2, <2>3, <2>4, <2>5
  <2> QED BY <1>3, <2>6
<1>6. CASE k >= 10
  <2>1. PICK j \in Nat, r \in 0 .. 9 : j = k \div 10 /\ r = k % 10 /\ k = 10 * j + r /\ j < k
    <3>1. 10 \in Nat /\ 10 > 1 OBVIOUS
    <3>2. /\ k \div 10 \in Nat /\ k % 10 \in 0 .. 10 - 1 /\ k = 10 * (k \div 10) + (k % 10)
          /\ k \div 10 < k
      BY <1>3, <1>6, <3>1, Quotient
    <3> QED BY <3>2
  <2>2. PICK t : t = unsigned[j] OBVIOUS
  <2>3. t \in Texts /\ t \in Figures BY <2>2, UnsignedIs, FiguresAre
  <2>4. unsigned[k] = Append(t, r) BY <1>3, <1>6, <2>1, <2>2, UnsignedIs
  <2>5. j \notin T BY <1>2, <1>3, <2>1
  <2>6. /\ Len(t) >= 1 /\ (t[1] = 0 => j = 0)
        /\ j <= ENTRY_MAX + 1 => sum_of(t) = -j
    BY <2>2, <2>5
  <2>7. PICK u : u = Append(t, r) OBVIOUS
  <2>8. Len(u) = Len(t) + 1 /\ u[1] = t[1]
    <3>1. Len(u) = Len(t) + 1 /\ \A i \in 1 .. Len(t) : u[i] = t[i]
      BY <2>3, <2>7, AppendProperties DEF Figures
    <3>2. 1 \in 1 .. Len(t) BY <2>3, <2>6, TextIs
    <3> QED BY <3>1, <3>2
  <2>9. Len(u) >= 1 BY <2>3, <2>8, TextIs
  <2>10. u[1] = 0 => k = 0
    <3>1. j # 0 BY <1>3, <1>6, <2>1
    <3> QED BY <2>6, <2>8, <3>1
  <2>11. ASSUME k <= ENTRY_MAX + 1 PROVE sum_of(u) = -k
    <3>1. j <= ENTRY_MAX + 1 BY <1>3, <2>1, <2>11, Sizes
    <3>2. r \in Chars BY Sizes DEF Chars
    <3>3. sum_of(u) = Figure(-j, r) BY <2>3, <2>6, <2>7, <3>1, <3>2, SumAppend
    <3>4. 10 * (-j) - r = -k BY <1>3, <2>1
    <3>5. ~(-k < LOWEST) BY <1>3, <2>11, Sizes DEF LOWEST
    <3>6. ~(r > 9) OBVIOUS
    <3> QED BY <1>4, <3>3, <3>4, <3>5, <3>6 DEF Figure
  <2>12. P(k) BY <2>4, <2>7, <2>9, <2>10, <2>11
  <2> QED BY <1>3, <2>12
<1>7. k < 10 \/ k >= 10 BY <1>3
<1> QED BY <1>5, <1>6, <1>7

\* Figures, a nought at their front only when it is alone.
Strict(t) == t \in Texts /\ Len(t) >= 1 /\ (t[1] = 0 => Len(t) = 1)

\* They come to the negative of v, which they are the digits of.
Comes(t, v) == v \in LOWEST .. 0 /\ unsigned[-v] = t

\* Only the digits of a number come to its negative.
LEMMA DecimalOnly ==
  ASSUME NEW t, Strict(t), sum_of(t) # Missing
  PROVE  Comes(t, sum_of(t))
<1> DEFINE P(n) == \A s : Strict(s) /\ Len(s) = n /\ sum_of(s) # Missing => Comes(s, sum_of(s))
           T == {n \in Nat : P(n)}
<1>1. 0 \in T
  <2>1. \A s : Strict(s) => Len(s) # 0 BY DEF Strict
  <2> QED BY <2>1
<1>2. PICK len \in Nat : len = Len(t) BY TextIs DEF Strict
<1>3. LOWEST \in Int /\ LOWEST <= -1 BY Sizes DEF LOWEST
<1>4. ASSUME NEW n \in Nat, n < len, n \in T PROVE n + 1 \in T
  <2>1. P(n) BY <1>4
  <2>2. ASSUME NEW s, Strict(s), Len(s) = n + 1, sum_of(s) # Missing PROVE Comes(s, sum_of(s))
    <3>1. s \in Texts /\ (s[1] = 0 => Len(s) = 1) BY <2>2 DEF Strict
    <3>2. PICK u : u = SubSeq(s, 1, n) OBVIOUS
    <3>3. PICK c \in Chars : c = s[n + 1]
      <4>1. n + 1 \in 1 .. Len(s) BY <2>2
      <4> QED BY <3>1, <4>1, TextIs
    <3>4. u \in Texts /\ Len(u) = n /\ \A i \in 1 .. n : u[i] = s[i]
      <4>1. PICK z \in Nat : z = 0 /\ z <= n OBVIOUS
      <4>2. n <= Len(s) BY <2>2
      <4>3. u = SubSeq(s, z + 1, n) BY <3>2, <4>1
      <4>4. u \in Texts /\ Len(u) = n - z /\ \A i \in 1 .. n - z : u[i] = s[z + i]
        BY <3>1, <4>1, <4>2, <4>3, PartIs
      <4> QED BY <4>1, <4>4
    <3>5. s = Append(u, c)
      <4>1. PICK w : w = Append(u, c) OBVIOUS
      <4>2. /\ w \in Seq(Chars) /\ Len(w) = n + 1 /\ w[n + 1] = c
            /\ \A i \in 1 .. n : w[i] = u[i]
        BY <3>4, <4>1, AppendProperties DEF Texts
      <4>3. \A i \in 1 .. n + 1 : i \in 1 .. n \/ i = n + 1 OBVIOUS
      <4>4. \A i \in 1 .. n + 1 : s[i] = w[i] BY <3>3, <3>4, <4>2, <4>3
      <4>5. s = w BY <2>2, <3>1, <4>2, <4>4, SeqEqual DEF Texts
      <4> QED BY <4>1, <4>5
    <3>6. PICK v : v = sum_of(u) OBVIOUS
    <3>7. sum_of(s) = Figure(v, c) BY <3>4, <3>5, <3>6, SumAppend
    <3>8. v # Missing /\ c \in 0 .. 9 /\ sum_of(s) = 10 * v - c /\ ~(10 * v - c < LOWEST)
      <4>1. Figure(v, c) # Missing BY <2>2, <3>7
      <4>2. v # Missing /\ ~(c > 9) BY <4>1 DEF Figure
      <4>3. ~(10 * v - c < LOWEST) BY <4>1, <4>2 DEF Figure
      <4>4. Figure(v, c) = 10 * v - c BY <4>2, <4>3 DEF Figure
      <4>5. c \in 0 .. 9 BY <4>2, Sizes DEF Chars
      <4> QED BY <3>7, <4>2, <4>3, <4>4, <4>5
    <3>9. CASE n = 0
      <4>1. u = <<>> BY <3>4, <3>9, EmptySeq DEF Texts
      <4>2. v = 0 BY <3>6, <4>1, SumEmpty
      <4>3. sum_of(s) = -c /\ -c \in LOWEST .. 0 /\ -(-c) = c BY <1>3, <3>8, <4>2
      <4>4. unsigned[c] = <<c>>
        <5>1. c \in Nat /\ c < 10 BY <3>8
        <5> QED BY <5>1, UnsignedIs
      <4>5. s = <<c>> BY <3>5, <4>1
      <4> QED BY <4>3, <4>4, <4>5 DEF Comes
    <3>10. CASE n # 0
      <4>1. 1 \in 1 .. n /\ n >= 1 BY <3>10
      <4>2. u[1] = s[1] /\ u[1] # 0 BY <2>2, <3>1, <3>4, <3>10, <4>1
      <4>3. Strict(u) BY <3>4, <4>1, <4>2 DEF Strict
      <4>4. Comes(u, v) BY <2>1, <3>4, <3>6, <3>8, <4>3
      <4>5. v \in LOWEST .. 0 /\ unsigned[-v] = u BY <4>4 DEF Comes
      <4>6. PICK m \in Nat : m = -v BY <1>3, <4>5
      <4>7. m # 0
        <5>1. unsigned[0] = <<0>> BY UnsignedIs
        <5>2. <<0>>[1] = 0 OBVIOUS
        <5> QED BY <4>2, <4>5, <4>6, <5>1, <5>2
      <4>8. PICK k \in Nat : k = 10 * m + c BY <3>8
      <4>9. v = -m BY <1>3, <4>5, <4>6
      <4>10. k >= 10 /\ k \div 10 = m /\ k % 10 = c BY <3>8, <4>7, <4>8
      <4>11. unsigned[k] = Append(u, c) BY <4>5, <4>6, <4>10, UnsignedIs
      <4>12. sum_of(s) = -k BY <3>8, <4>8, <4>9
      <4>13. -k \in LOWEST .. 0 /\ -(-k) = k BY <1>3, <3>8, <4>8, <4>9
      <4> QED BY <3>5, <4>11, <4>12, <4>13 DEF Comes
    <3> QED BY <3>9, <3>10
  <2>3. P(n + 1) BY <2>2
  <2>4. n + 1 \in Nat OBVIOUS
  <2> QED BY <2>3, <2>4
<1>5. len \in T
  <2> HIDE DEF T
  <2>1. \A i \in 0 .. len : i \in T BY <1>1, <1>4, Induct
  <2> QED BY <2>1
<1>6. P(len) BY <1>5
<1> QED BY <1>2, <1>6

Range64 == -ENTRY_MAX - 1 .. ENTRY_MAX

\* A number's digits are text, short enough to be read.
LEMMA DigitsAre ==
  ASSUME NEW n \in Range64
  PROVE  digits(n) \in Strings /\ Len(digits(n)) <= MAX_TEXT
<1>1. n \in Int BY Sizes DEF Range64
<1>2. Len(digits(n)) <= MAX_TEXT BY TextAssumption DEF Range64
<1>3. digits(n) \in Texts
  <2>1. CASE n < 0
    <3>1. -n \in Nat BY <1>1, <2>1
    <3>2. PICK u \in Texts : u = unsigned[-n] BY <3>1, UnsignedIs, FiguresAre
    <3>3. SIGN \in Chars BY Sizes DEF Chars, SIGN
    <3>4. PICK s \in Texts : s = <<SIGN>> BY <3>3, OneByte
    <3>5. s \o u \in Texts BY OccursHalf
    <3> QED BY <2>1, <3>2, <3>4, <3>5 DEF digits
  <2>2. CASE ~(n < 0)
    <3>1. n \in Nat BY <1>1, <2>2
    <3> QED BY <2>2, <3>1, UnsignedIs, FiguresAre DEF digits
  <2> QED BY <2>1, <2>2
<1>4. MAX_TEXT < VarintEnd[MAX_VARINT] BY LengthAssumption
<1>5. PICK e \in Nat : e = VarintEnd[MAX_VARINT] BY Ends DEF Power, MAX_VARINT
<1>6. PICK d \in Nat : d = Len(digits(n)) BY <1>3, TextIs
<1>7. d < e BY <1>2, <1>4, <1>5, <1>6, Sizes
<1> QED BY <1>2, <1>3, <1>5, <1>6, <1>7 DEF Strings

\* s is u with c in front of it.
Before(c, u, s) ==
  s \in Texts /\ Len(s) = 1 + Len(u) /\ s[1] = c /\ \A i \in 1 .. Len(u) : s[i + 1] = u[i]

\* A byte and a text, one after the other.
LEMMA InFront ==
  ASSUME NEW c \in Chars, NEW u \in Texts, NEW s, s = <<c>> \o u
  PROVE  Before(c, u, s)
<1>1. PICK d \in Texts : d = <<c>> /\ Len(d) = 1 /\ d[1] = c BY OneByte
<1>2. PICK n \in Nat : n = Len(u) BY TextIs
<1>3. /\ s \in Seq(Chars) /\ Len(s) = 1 + n
      /\ \A i \in 1 .. 1 + n : s[i] = IF i <= 1 THEN d[i] ELSE u[i - 1]
  BY <1>1, <1>2, ConcatProperties DEF Texts
<1>4. 1 \in 1 .. 1 + n OBVIOUS
<1>5. \A i \in 1 .. n : i + 1 \in 1 .. 1 + n /\ ~(i + 1 <= 1) /\ i + 1 - 1 = i OBVIOUS
<1> QED BY <1>1, <1>2, <1>3, <1>4, <1>5 DEF Texts, Before

\* A byte in front of a text is what Tail takes off, and every text but the
\* empty one has one.
LEMMA Prefixed ==
  /\ \A c \in Chars, u \in Texts :
       LET s == <<c>> \o u IN s \in Texts /\ s # <<>> /\ s[1] = c /\ Tail(s) = u
  /\ \A s \in Texts : s # <<>> => Tail(s) \in Texts /\ s[1] \in Chars /\ s = <<s[1]>> \o Tail(s)
<1>2. ASSUME NEW s \in Texts, s # <<>>
      PROVE  /\ Len(s) >= 1 /\ s[1] \in Chars /\ Tail(s) \in Texts /\ Len(Tail(s)) = Len(s) - 1
             /\ \A i \in 1 .. Len(s) - 1 : Tail(s)[i] = s[i + 1]
  <2>1. PICK n \in Nat : n = Len(s) BY TextIs
  <2>2. n # 0 BY <1>2, <2>1, EmptySeq DEF Texts
  <2>3. 1 \in 1 .. Len(s) BY <2>1, <2>2
  <2>4. PICK t : t = Tail(s) OBVIOUS
  <2>5. t \in Seq(Chars) /\ Len(t) = n - 1 /\ \A i \in 1 .. Len(t) : t[i] = s[i + 1]
    BY <1>2, <2>1, <2>4, HeadTailProperties DEF Texts
  <2> QED BY <2>1, <2>2, <2>3, <2>4, <2>5, TextIs DEF Texts
<1>3. ASSUME NEW c \in Chars, NEW u \in Texts, NEW s, s = <<c>> \o u
      PROVE  s \in Texts /\ s # <<>> /\ s[1] = c /\ Tail(s) = u
  <2>1. PICK n \in Nat : n = Len(u) BY TextIs
  <2>2. s \in Texts /\ Len(s) = 1 + n /\ s[1] = c /\ \A i \in 1 .. n : s[i + 1] = u[i]
    <3>1. Before(c, u, s) BY <1>3, InFront
    <3> QED BY <2>1, <3>1 DEF Before
  <2>3. s # <<>>
    <3>1. Len(<<>>) = 0 OBVIOUS
    <3> QED BY <2>2, <3>1
  <2>4. PICK t : t = Tail(s) OBVIOUS
  <2>5. t \in Texts /\ Len(t) = Len(s) - 1 /\ \A i \in 1 .. Len(s) - 1 : t[i] = s[i + 1]
    BY <1>2, <2>2, <2>3, <2>4
  <2>6. Len(s) - 1 = n BY <2>2
  <2>7. Len(t) = Len(u) /\ \A i \in 1 .. Len(t) : t[i] = u[i] BY <2>1, <2>2, <2>5, <2>6
  <2>8. t = u BY <2>5, <2>7, SeqEqual DEF Texts
  <2> QED BY <2>2, <2>3, <2>4, <2>8
<1>4. ASSUME NEW s \in Texts, s # <<>> PROVE s = <<s[1]>> \o Tail(s)
  <2>1. PICK n \in Nat : n = Len(s) /\ n >= 1 BY <1>2, <1>4, TextIs
  <2>2. PICK c \in Chars, t \in Texts : c = s[1] /\ t = Tail(s) BY <1>2, <1>4
  <2>3. Len(t) = n - 1 /\ \A i \in 1 .. n - 1 : t[i] = s[i + 1] BY <1>2, <1>4, <2>1, <2>2
  <2>4. PICK u : u = <<c>> \o t OBVIOUS
  <2>5. u \in Texts /\ Len(u) = 1 + Len(t) /\ u[1] = c /\ \A i \in 1 .. Len(t) : u[i + 1] = t[i]
    <3>1. Before(c, t, u) BY <2>4, InFront
    <3> QED BY <3>1 DEF Before
  <2>6. Len(u) = n BY <2>1, <2>3, <2>5
  <2>7. ASSUME NEW i \in 1 .. n PROVE s[i] = u[i]
    <3>1. CASE i = 1 BY <2>2, <2>5, <3>1
    <3>2. CASE i # 1
      <4>1. i - 1 \in 1 .. n - 1 /\ i - 1 + 1 = i BY <3>2
      <4>2. t[i - 1] = s[i] /\ u[i] = t[i - 1] BY <2>3, <2>5, <4>1
      <4> QED BY <4>2
    <3> QED BY <3>1, <3>2
  <2>8. s = u BY <2>1, <2>5, <2>6, <2>7, SeqEqual DEF Texts
  <2> QED BY <2>2, <2>4, <2>8
<1> QED BY <1>2, <1>3, <1>4

\* decimal, with its parts named.
Reads(text, signed, figures) ==
  decimal(text) =
    IF Len(text) > MAX_TEXT \/ figures = <<>> THEN Missing
    ELSE IF (figures[1] = 0 /\ (signed \/ Len(figures) > 1)) \/ sum_of(figures) = Missing THEN Missing
    ELSE IF signed THEN sum_of(figures)
    ELSE IF -sum_of(figures) > ENTRY_MAX THEN Missing ELSE -sum_of(figures)

\* With a sign, the figures are what follows it; without, all of the text.
LEMMA DecimalIs ==
  ASSUME NEW text
  PROVE  /\ text # <<>> /\ text[1] = SIGN => Reads(text, TRUE, Tail(text))
         /\ ~(text # <<>> /\ text[1] = SIGN) => Reads(text, FALSE, text)
BY DEF decimal, Reads

\* The digits of a number are read as it.
LEMMA DigitsRead ==
  ASSUME NEW n \in Range64
  PROVE  decimal(digits(n)) = n
<1>1. n \in Int /\ n <= ENTRY_MAX /\ -n <= ENTRY_MAX + 1 BY Sizes DEF Range64
<1>2. PICK text : text = digits(n) OBVIOUS
<1>3. text \in Texts /\ Len(text) <= MAX_TEXT BY <1>2, DigitsAre DEF Strings
<1>4. ~(Len(text) > MAX_TEXT) BY <1>3, TextIs, Sizes
<1>5. CASE n < 0
  <2>1. PICK m \in Nat : m = -n /\ m # 0 /\ n = -m BY <1>1, <1>5
  <2>2. PICK u \in Texts : u = unsigned[m] BY UnsignedIs, FiguresAre
  <2>3. /\ Len(u) >= 1 /\ u[1] # 0 /\ sum_of(u) = n BY <1>1, <2>1, <2>2, DecimalReads
  <2>4. u # <<>>
    <3>1. Len(<<>>) = 0 OBVIOUS
    <3> QED BY <2>3, <3>1
  <2>5. PICK c \in Chars : c = SIGN BY Sizes DEF Chars, SIGN
  <2>6. text = <<c>> \o u BY <1>2, <1>5, <2>1, <2>2, <2>5 DEF digits
  <2>7. text # <<>> /\ text[1] = SIGN /\ Tail(text) = u BY <2>5, <2>6, Prefixed
  <2>8. Reads(text, TRUE, u) BY <2>7, DecimalIs
  <2>9. n # Missing BY <1>1, Sizes
  <2> QED BY <1>2, <1>4, <2>3, <2>4, <2>8, <2>9 DEF Reads
<1>6. CASE ~(n < 0)
  <2>1. n \in Nat /\ n <= ENTRY_MAX + 1 /\ -(-n) = n BY <1>1, <1>6, Sizes
  <2>2. text = unsigned[n] BY <1>2, <1>6 DEF digits
  <2>3. text \in Figures BY <2>1, <2>2, UnsignedIs
  <2>4. Len(text) >= 1 /\ (text[1] = 0 => n = 0) /\ sum_of(text) = -n BY <2>1, <2>2, DecimalReads
  <2>5. text # <<>>
    <3>1. Len(<<>>) = 0 OBVIOUS
    <3> QED BY <2>4, <3>1
  <2>6. text[1] # SIGN
    <3>1. 1 \in 1 .. Len(text) BY <2>3, <2>4, FiguresAre
    <3>2. text[1] \in 0 .. 9 BY <2>3, <3>1, FiguresAre
    <3> QED BY <3>2 DEF SIGN
  <2>7. Reads(text, FALSE, text) BY <2>6, DecimalIs
  <2>8. ~(text[1] = 0 /\ Len(text) > 1)
    <3>1. n = 0 => text = <<0>> BY <2>2, UnsignedIs
    <3>2. Len(<<0>>) = 1 OBVIOUS
    <3>3. n = 0 => Len(text) = 1 BY <3>1, <3>2
    <3>4. Len(text) = 1 => ~(Len(text) > 1) OBVIOUS
    <3> QED BY <2>4, <3>3, <3>4
  <2>9. -n # Missing BY <1>1, Sizes
  <2>10. -(-n) = n /\ ~(n > ENTRY_MAX) BY <1>1, <2>1, Sizes
  <2> QED BY <1>2, <1>4, <2>4, <2>5, <2>7, <2>8, <2>9, <2>10 DEF Reads
<1> QED BY <1>5, <1>6

\* Nothing else is read as a number.
LEMMA OnlyDigits ==
  ASSUME NEW text \in Texts, decimal(text) # Missing
  PROVE  decimal(text) \in Range64 /\ digits(decimal(text)) = text
<1>1. LOWEST = -ENTRY_MAX - 1 /\ LOWEST \in Int /\ ENTRY_MAX \in Nat BY Sizes DEF LOWEST
<1>2. CASE text # <<>> /\ text[1] = SIGN
  <2>1. PICK t \in Texts : t = Tail(text) /\ text = <<SIGN>> \o t BY <1>2, Prefixed
  <2>2. Reads(text, TRUE, t) BY <1>2, <2>1, DecimalIs
  <2>3. t # <<>> /\ t[1] # 0 /\ sum_of(t) # Missing /\ decimal(text) = sum_of(t) BY <2>2 DEF Reads
  <2>4. Strict(t)
    <3>1. PICK n \in Nat : n = Len(t) BY TextIs
    <3>2. n # 0 BY <2>3, <3>1, EmptySeq DEF Texts
    <3> QED BY <2>3, <3>1, <3>2 DEF Strict
  <2>5. PICK v : v = sum_of(t) OBVIOUS
  <2>6. v \in LOWEST .. 0 /\ unsigned[-v] = t BY <2>3, <2>4, <2>5, DecimalOnly DEF Comes
  <2>7. v # 0
    <3>1. unsigned[0] = <<0>> BY UnsignedIs
    <3>2. <<0>>[1] = 0 /\ (v = 0 => -v = 0) OBVIOUS
    <3> QED BY <2>3, <2>6, <3>1, <3>2
  <2>8. v < 0 /\ v \in Range64 BY <1>1, <2>6, <2>7 DEF Range64
  <2>9. digits(v) = <<SIGN>> \o t BY <2>6, <2>8 DEF digits
  <2> QED BY <2>1, <2>3, <2>5, <2>8, <2>9
<1>3. CASE ~(text # <<>> /\ text[1] = SIGN)
  <2>1. Reads(text, FALSE, text) BY <1>3, DecimalIs
  <2>2. /\ text # <<>> /\ ~(text[1] = 0 /\ Len(text) > 1) /\ sum_of(text) # Missing
        /\ ~(-sum_of(text) > ENTRY_MAX) /\ decimal(text) = -sum_of(text)
    BY <2>1 DEF Reads
  <2>3. Strict(text)
    <3>1. PICK n \in Nat : n = Len(text) BY TextIs
    <3>2. n # 0 BY <2>2, <3>1, EmptySeq DEF Texts
    <3>3. n >= 1 /\ (n = 1 \/ n > 1) BY <3>2
    <3> QED BY <2>2, <3>1, <3>3 DEF Strict
  <2>4. PICK v : v = sum_of(text) OBVIOUS
  <2>5. v \in LOWEST .. 0 /\ unsigned[-v] = text BY <2>2, <2>3, <2>4, DecimalOnly DEF Comes
  <2>6. PICK m : m = -v OBVIOUS
  <2>7. m \in Nat /\ ~(m < 0) /\ m <= ENTRY_MAX BY <1>1, <2>2, <2>4, <2>5, <2>6
  <2>8. m \in Range64 BY <1>1, <2>7 DEF Range64
  <2>9. digits(m) = text BY <2>5, <2>6, <2>7 DEF digits
  <2> QED BY <2>2, <2>4, <2>6, <2>8, <2>9
<1> QED BY <1>2, <1>3

-----------------------------------------------------------------------------
(* The specification. *)

\* What an entry can be made to hold.
Contents == [key : Strings, value : Strings, expiry : Marks, user_flags : Marks]

\* The bytes are always the ones that writing what was meant would make, also
\* after a deadline was put over another in place.
Written == meant \in Contents /\ bytes = write(meant.key, meant.value, meant.expiry, meant.user_flags)

\* The keys and values the writes bring are text a varint can measure.
LEMMA InputsAre == EntryKeys \subseteq Strings /\ EntryValues \subseteq Strings
BY LengthAssumption DEF Strings, Texts, Chars

\* Bytes that are Written read as what was meant, and are as long as said.
LEMMA WrittenReads ==
  ASSUME Written
  PROVE  /\ Parts(bytes, meant.key, meant.value, meant.expiry, meant.user_flags)
         /\ view(bytes) = meant /\ Len(bytes) = size(head(bytes))
         /\ Len(bytes) = size_of_entry(Len(meant.key), Len(meant.value), meant.expiry # Missing,
                                       meant.user_flags # Missing)
<1>1. PICK k \in Strings, v \in Strings, x \in Marks, u \in Marks :
        meant = [key |-> k, value |-> v, expiry |-> x, user_flags |-> u]
  BY DEF Written, Contents
<1>2. meant.key = k /\ meant.value = v /\ meant.expiry = x /\ meant.user_flags = u BY <1>1
<1>3. Parts(bytes, k, v, x, u) BY <1>2, WriteIs DEF Written
<1>4. /\ view(bytes) = [key |-> k, value |-> v, expiry |-> x, user_flags |-> u]
      /\ Len(bytes) = size(head(bytes))
      /\ Len(bytes) = size_of_entry(Len(k), Len(v), x # Missing, u # Missing)
  BY <1>3, ViewReads
<1> QED BY <1>1, <1>2, <1>3, <1>4

\* A new entry is written.
LEMMA InitWritten == EntryInit => Written
<1> SUFFICES ASSUME EntryInit PROVE Written OBVIOUS
<1>1. PICK k \in EntryKeys, v \in EntryValues, x \in Marks, f \in Marks :
        /\ bytes = write(k, v, x, f)
        /\ meant = [key |-> k, value |-> v, expiry |-> x, user_flags |-> f]
  BY DEF EntryInit, Marks
<1>2. k \in Strings /\ v \in Strings BY InputsAre
<1>3. meant.key = k /\ meant.value = v /\ meant.expiry = x /\ meant.user_flags = f BY <1>1
<1>4. meant \in Contents BY <1>1, <1>2 DEF Contents
<1> QED BY <1>1, <1>3, <1>4 DEF Written

\* Setting it anew writes it.
LEMMA RewriteWritten ==
  ASSUME Written, Rewrite
  PROVE  Written'
<1>1. PICK v \in EntryValues, x \in Marks, f \in Marks : Holds(meant.key, v, x, f) BY DEF Rewrite, Marks
<1>2. PICK k \in Strings : k = meant.key BY DEF Written, Contents
<1>3. v \in Strings BY InputsAre
<1>4. bytes' = write(k, v, x, f) /\ meant' = [key |-> k, value |-> v, expiry |-> x, user_flags |-> f]
  BY <1>1, <1>2 DEF Holds
<1>5. meant'.key = k /\ meant'.value = v /\ meant'.expiry = x /\ meant'.user_flags = f BY <1>4
<1>6. meant' \in Contents BY <1>2, <1>3, <1>4 DEF Contents
<1> QED BY <1>4, <1>5, <1>6 DEF Written

\* A new deadline leaves the bytes that writing it all would.
LEMMA RetimeWritten ==
  ASSUME Written, Retime
  PROVE  Written'
<1>1. PICK y \in Marks :
        /\ meant' = [meant EXCEPT !.expiry = y]
        /\ LET h == head(bytes)
               held == view(bytes)
               at == h.header + h.klen + h.vlen
           IN  bytes' = IF Timed(h) /\ y # Missing
                        THEN SubSeq(bytes, 1, at) \o to_le(y) \o SubSeq(bytes, at + WORD + 1, Len(bytes))
                        ELSE IF ~Timed(h) /\ y = Missing THEN bytes
                        ELSE write(held.key, held.value, y, held.user_flags)
  BY DEF Retime, Marks
<1>2. PICK k \in Strings, v \in Strings, x \in Marks, u \in Marks :
        meant = [key |-> k, value |-> v, expiry |-> x, user_flags |-> u]
  BY DEF Written, Contents
<1>3. meant.key = k /\ meant.value = v /\ meant.expiry = x /\ meant.user_flags = u BY <1>2
<1>4. meant' = [key |-> k, value |-> v, expiry |-> y, user_flags |-> u] BY <1>1, <1>2
<1>5. meant'.key = k /\ meant'.value = v /\ meant'.expiry = y /\ meant'.user_flags = u BY <1>4
<1>6. meant' \in Contents BY <1>4 DEF Contents
<1>7. bytes = write(k, v, x, u) BY <1>3 DEF Written
<1>8. Parts(bytes, k, v, x, u) /\ view(bytes) = meant BY <1>3, WrittenReads
<1>9. PICK h : h = head(bytes) OBVIOUS
<1>10. h = [flags |-> Flags(k, x, u) % 4, header |-> 1 + Len(KeyPrefix(k)) + Len(put_varint[Len(v)]),
            klen |-> Len(k), vlen |-> Len(v)]
  BY <1>8, <1>9, HeadReads
<1>11. PICK at : at = h.header + h.klen + h.vlen OBVIOUS
<1>12. Ahead(k, v, at) BY <1>10, <1>11 DEF Ahead
<1>13. at \in Nat
  <2>1. PICK b \in Nat, c \in Nat : b = Len(KeyPrefix(k)) /\ c = Len(put_varint[Len(v)])
    BY PrefixesAre, TextIs
  <2>2. PICK i \in Nat, j \in Nat : i = Len(k) /\ j = Len(v) BY TextIs DEF Strings
  <2>3. at = 1 + b + c + i + j BY <1>12, <2>1, <2>2 DEF Ahead
  <2> QED BY <2>3
<1>14. Timed(h) = (x # Missing)
  <2>1. h.flags = Flags(k, x, u) % 4 BY <1>10
  <2> QED BY <2>1, MarksAre
<1>15. bytes' = IF x # Missing /\ y # Missing
                THEN SubSeq(bytes, 1, at) \o to_le(y) \o SubSeq(bytes, at + WORD + 1, Len(bytes))
                ELSE IF x = Missing /\ y = Missing THEN bytes
                ELSE write(k, v, y, u)
  BY <1>1, <1>3, <1>8, <1>9, <1>11, <1>14
<1>16. bytes' = write(k, v, y, u)
  <2>1. CASE x # Missing /\ y # Missing
    <3>1. SubSeq(bytes, 1, at) \o to_le(y) \o SubSeq(bytes, at + WORD + 1, Len(bytes)) = write(k, v, y, u)
      <4>1. Over(write(k, v, x, u), at, y) = write(k, v, y, u) BY <1>12, <1>13, <2>1, RetimeWrites
      <4> QED BY <1>7, <4>1 DEF Over
    <3> QED BY <1>15, <2>1, <3>1
  <2>2. CASE x = Missing /\ y = Missing BY <1>7, <1>15, <2>2
  <2>3. CASE ~(x # Missing /\ y # Missing) /\ ~(x = Missing /\ y = Missing) BY <1>15, <2>3
  <2> QED BY <2>1, <2>2, <2>3
<1> QED BY <1>5, <1>6, <1>16 DEF Written

\* So does an increment.
LEMMA IncrementWritten ==
  ASSUME Written, Increment
  PROVE  Written'
<1>1. PICK n \in Range64 :
        /\ bytes' = write(view(bytes).key, digits(n), view(bytes).expiry, view(bytes).user_flags)
        /\ meant' = [meant EXCEPT !.value = digits(n)]
  BY DEF Increment, Range64
<1>2. PICK k \in Strings, v \in Strings, x \in Marks, u \in Marks :
        meant = [key |-> k, value |-> v, expiry |-> x, user_flags |-> u]
  BY DEF Written, Contents
<1>3. meant.key = k /\ meant.expiry = x /\ meant.user_flags = u BY <1>2
<1>4. view(bytes) = meant BY WrittenReads
<1>5. PICK d \in Strings : d = digits(n) BY DigitsAre
<1>6. bytes' = write(k, d, x, u) BY <1>1, <1>3, <1>4, <1>5
<1>7. meant' = [key |-> k, value |-> d, expiry |-> x, user_flags |-> u] BY <1>1, <1>2, <1>5
<1>8. meant'.key = k /\ meant'.value = d /\ meant'.expiry = x /\ meant'.user_flags = u BY <1>7
<1>9. meant' \in Contents BY <1>7 DEF Contents
<1> QED BY <1>6, <1>8, <1>9 DEF Written

\* Whatever Table::set, Table::expire and Map::increment do, an entry's bytes
\* are those of writing its key, value, deadline and flags in one go.
THEOREM Kept == EntrySpec => []Written
<1>1. Written /\ [EntryNext]_entryVars => Written'
  <2> SUFFICES ASSUME Written, [EntryNext]_entryVars PROVE Written' OBVIOUS
  <2>1. CASE Rewrite BY <2>1, RewriteWritten
  <2>2. CASE Retime BY <2>2, RetimeWritten
  <2>3. CASE Increment BY <2>3, IncrementWritten
  <2>4. CASE UNCHANGED entryVars BY <2>4 DEF entryVars, Written
  <2> QED BY <2>1, <2>2, <2>3, <2>4 DEF EntryNext
<1> QED BY <1>1, InitWritten, PTL DEF EntrySpec

\* An entry's bytes say what was put in them, and the block is as long as the
\* writer asked for and as the header implies (entry.rs, write, parse, size).
THEOREM ReadsBack == EntrySpec => []EntryReads
<1>1. Written => EntryReads BY WrittenReads DEF EntryReads
<1> QED BY <1>1, Kept, PTL

\* A value counts as a number exactly when it is that number's one spelling
\* (Map::increment, decimal).
THEOREM Spelling == EntrySpec => []OneSpelling
<1>1. ASSUME NEW text \in Texts
      PROVE  LET spelt == {n \in -ENTRY_MAX - 1 .. ENTRY_MAX : digits(n) = text}
             IN  decimal(text) = IF spelt = {} THEN Missing ELSE CHOOSE n \in spelt : TRUE
  <2> DEFINE spelt == {n \in Range64 : digits(n) = text}
  <2>1. CASE spelt = {}
    <3>1. decimal(text) = Missing BY <2>1, OnlyDigits
    <3> QED BY <2>1, <3>1 DEF Range64
  <2>2. CASE spelt # {}
    <3>1. PICK n : n = CHOOSE m \in spelt : TRUE OBVIOUS
    <3>2. n \in spelt BY <2>2, <3>1
    <3>3. decimal(text) = n BY <3>2, DigitsRead
    <3> QED BY <2>2, <3>1, <3>3 DEF Range64
  <2> QED BY <2>1, <2>2
<1>2. Written => view(bytes).value \in Texts
  <2> SUFFICES ASSUME Written PROVE view(bytes).value \in Texts OBVIOUS
  <2>1. view(bytes) = meant BY WrittenReads
  <2> QED BY <2>1 DEF Written, Contents, Strings
<1>3. Written => OneSpelling BY <1>1, <1>2 DEF OneSpelling
<1> QED BY <1>3, Kept, PTL

-----------------------------------------------------------------------------
(* Exclusive or. *)

\* What is known of the sizes of a group.
LEMMA GroupSizes ==
  /\ Power(Pow2, 2) /\ Power(LaneEnd, LANE)
  /\ LANES \in Nat /\ LANES > 0 /\ LANE_BITS \in Nat /\ LANE_BITS > 1
  /\ TOP \in Nat /\ LANE \in Nat /\ LANE = 2 * TOP /\ \E t \in Nat : t > 0 /\ TOP = 2 * t
<1>1. Power(Pow2, 2)
  <2>1. 2 \in Nat /\ 2 > 0 OBVIOUS
  <2> QED BY <2>1, PowersExist DEF Pow2
<1>2. LANES \in Nat /\ LANES > 0 /\ LANE_BITS \in Nat /\ LANE_BITS > 1 BY GroupAssumption
<1>3. PICK k \in Nat : LANE_BITS = k + 2
  <2>1. LANE_BITS - 2 \in Nat /\ LANE_BITS = (LANE_BITS - 2) + 2 BY <1>2
  <2> QED BY <2>1
<1>4. PICK P \in [Nat -> Nat] : P = Pow2 /\ \A n \in Nat : P[n + 1] = 2 * P[n] /\ P[n] > 0 BY <1>1 DEF Power
<1>5. PICK t \in Nat : t = P[k] /\ t > 0 BY <1>4
<1>6. P[k + 1] = 2 * t BY <1>4, <1>5
<1>7. P[k + 2] = 2 * (2 * t)
  <2>1. PICK j \in Nat : j = k + 1 OBVIOUS
  <2>2. j + 1 = k + 2 BY <2>1
  <2>3. P[j + 1] = 2 * P[j] BY <1>4
  <2> QED BY <1>6, <2>1, <2>2, <2>3
<1>8. TOP = 2 * t /\ LANE = 2 * (2 * t)
  <2>1. LANE_BITS - 1 = k + 1 BY <1>3
  <2> QED BY <1>3, <1>4, <1>6, <1>7, <2>1 DEF TOP, LANE
<1>9. Power(LaneEnd, LANE)
  <2>1. LANE \in Nat /\ LANE > 0 BY <1>5, <1>8
  <2> QED BY <2>1, PowersExist DEF LaneEnd
<1> QED BY <1>1, <1>2, <1>5, <1>8, <1>9

\* A step of the recursion, also where a is nought.
XorStep(x, a, b) == x[a][b] \in Nat /\ x[a][b] = 2 * x[a \div 2][b \div 2] + ((a + b) % 2)

\* Halves of numbers.
LEMMA Half ==
  ASSUME NEW n \in Nat
  PROVE  n \div 2 \in Nat /\ n % 2 \in 0 .. 1 /\ n = 2 * (n \div 2) + (n % 2) /\ (n >= 1 => n \div 2 < n)
OBVIOUS

\* xor is as its recursion says.
LEMMA XorIs == \A a \in Nat, b \in Nat : XorStep(xor, a, b)
<1> DEFINE E(f) == [a \in Nat |-> [b \in Nat |-> IF a = 0 THEN b
                                                 ELSE 2 * f[a \div 2][b \div 2] + ((a + b) % 2)]]
           S == [Nat -> Nat]
<1>1. PICK p : p = [n \in Nat |-> n \div 2] OBVIOUS
<1>2. PICK X : X = [n \in Nat |-> [b \in Nat |-> b]] OBVIOUS
<1>3. PICK F : F = [n \in Nat |-> [s \in S |-> [b \in Nat |-> 2 * s[b \div 2] + ((n + b) % 2)]]] OBVIOUS
<1>4. /\ \A n \in Nat : p[n] = n \div 2
      /\ \A n \in Nat : X[n] = [b \in Nat |-> b]
      /\ \A n \in Nat, s \in S : F[n][s] = [b \in Nat |-> 2 * s[b \div 2] + ((n + b) % 2)]
  BY <1>1, <1>2, <1>3
<1>5. \A n \in Nat : n \div 2 \in Nat /\ n % 2 \in 0 .. 1 /\ (n >= 1 => n \div 2 < n) BY Half
<1>6. Sound(S, 1, p, X, F)
  <2>1. p \in [Nat -> Nat] BY <1>1, <1>5
  <2>2. X \in [Nat -> S] BY <1>2
  <2>3. F \in [Nat -> [S -> S]]
    <3>1. ASSUME NEW n \in Nat, NEW s \in S, NEW b \in Nat PROVE 2 * s[b \div 2] + ((n + b) % 2) \in Nat
      <4>1. s[b \div 2] \in Nat BY <1>5
      <4>2. (n + b) % 2 \in Nat OBVIOUS
      <4> QED BY <4>1, <4>2
    <3>2. ASSUME NEW n \in Nat, NEW s \in S PROVE [b \in Nat |-> 2 * s[b \div 2] + ((n + b) % 2)] \in S
      BY <3>1
    <3> HIDE DEF S
    <3> QED BY <1>3, <3>2
  <2> HIDE DEF S
  <2> QED BY <1>4, <1>5, <2>1, <2>2, <2>3 DEF Sound
<1>7. PICK f \in [Nat -> S] : \A n \in Nat : Obeys(f, n, 1, p, X, F)
  <2> HIDE DEF S
  <2> QED BY <1>6, Recurs
<1>8. ASSUME NEW n \in Nat
      PROVE  f[n] = [b \in Nat |-> IF n = 0 THEN b ELSE 2 * f[n \div 2][b \div 2] + ((n + b) % 2)]
  <2>1. f[n] = IF n < 1 THEN X[n] ELSE F[n][f[n \div 2]] BY <1>4, <1>7 DEF Obeys
  <2>2. PICK s \in S : s = f[n \div 2] BY <1>5, <1>7
  <2>3. CASE n = 0
    <3>1. f[n] = [b \in Nat |-> b] BY <1>4, <2>1, <2>3
    <3> QED BY <2>3, <3>1
  <2>4. CASE n # 0
    <3>1. ~(n < 1) BY <2>4
    <3>2. f[n] = F[n][s] BY <2>1, <2>2, <3>1
    <3>3. f[n] = [b \in Nat |-> 2 * s[b \div 2] + ((n + b) % 2)] BY <1>4, <3>2
    <3> QED BY <2>2, <2>4, <3>3
  <2> QED BY <2>3, <2>4
<1>9. f = E(f) BY <1>8
<1>10. xor = E(xor)
  <2>1. xor = CHOOSE g : g = E(g) BY DEF xor
  <2> HIDE DEF E
  <2> QED BY <1>9, <2>1
<1>11. PICK g : g = xor OBVIOUS
<1>12. g = [a \in Nat |-> [b \in Nat |-> IF a = 0 THEN b ELSE 2 * g[a \div 2][b \div 2] + ((a + b) % 2)]]
  BY <1>10, <1>11
<1>13. \A a \in Nat : g[a] = [b \in Nat |-> IF a = 0 THEN b ELSE 2 * g[a \div 2][b \div 2] + ((a + b) % 2)]
  BY <1>12
<1>14. \A a \in Nat, b \in Nat : g[a][b] = IF a = 0 THEN b ELSE 2 * g[a \div 2][b \div 2] + ((a + b) % 2)
  BY <1>13
<1> DEFINE T == {a \in Nat : ~\A b \in Nat : g[a][b] \in Nat}
<1>15. T = {}
  <2> SUFFICES ASSUME T # {} PROVE FALSE OBVIOUS
  <2>1. T \subseteq Nat OBVIOUS
  <2>2. PICK n \in T : \A j \in T : n <= j
    <3> HIDE DEF T
    <3> QED BY <2>1, Smallest
  <2>3. n \in Nat /\ ~\A b \in Nat : g[n][b] \in Nat OBVIOUS
  <2>4. PICK b \in Nat : g[n][b] \notin Nat BY <2>3
  <2>a. \A j \in Nat : j \notin T => \A c \in Nat : g[j][c] \in Nat OBVIOUS
  <2> HIDE DEF T, E, S
  <2>5. n # 0 BY <1>14, <2>3, <2>4
  <2>6. PICK j \in Nat : j = n \div 2 /\ j < n
    <3>1. n >= 1 BY <2>3, <2>5
    <3> QED BY <1>5, <2>3, <3>1
  <2>7. j \notin T BY <2>2, <2>3, <2>6
  <2>8. PICK y \in Nat : y = g[j][b \div 2] BY <1>5, <2>7, <2>a
  <2>9. g[n][b] = 2 * y + ((n + b) % 2) BY <1>14, <2>3, <2>5, <2>6, <2>8
  <2>10. PICK x \in Nat : x = (n + b) % 2 BY <2>3
  <2>11. 2 * y + x \in Nat OBVIOUS
  <2> QED BY <2>4, <2>9, <2>10, <2>11
<1>16. \A a \in Nat, b \in Nat : g[a][b] \in Nat BY <1>15
<1>17. ASSUME NEW a \in Nat, NEW b \in Nat PROVE XorStep(g, a, b)
  <2>1. CASE a = 0
    <3>1. a \div 2 = 0 /\ a + b = b BY <2>1
    <3>2. g[a \div 2][b \div 2] = b \div 2 /\ g[a][b] = b BY <1>5, <1>14, <2>1, <3>1
    <3>3. b = 2 * (b \div 2) + (b % 2) BY Half
    <3> QED BY <1>16, <3>1, <3>2, <3>3 DEF XorStep
  <2>2. CASE a # 0 BY <1>14, <1>16, <2>2 DEF XorStep
  <2> QED BY <2>1, <2>2
<1> QED BY <1>11, <1>17

\* What is known of two numbers' halves.
Halves(a, b, q, r, x) ==
  /\ q \in Nat /\ r \in Nat /\ q = a \div 2 /\ r = b \div 2
  /\ xor[q][r] \in Nat /\ xor[a][b] = 2 * xor[q][r] + x /\ x \in 0 .. 1
  /\ x = (a + b) % 2

\* There are such halves.
LEMMA HalvesAre ==
  ASSUME NEW a \in Nat, NEW b \in Nat
  PROVE  \E q, r, x : Halves(a, b, q, r, x)
<1>1. PICK q \in Nat, r \in Nat : q = a \div 2 /\ r = b \div 2 BY Half
<1>2. PICK x \in 0 .. 1 : x = (a + b) % 2
  <2>1. a + b \in Nat OBVIOUS
  <2> QED BY <2>1, Half
<1>3. xor[a][b] = 2 * xor[q][r] + x /\ xor[q][r] \in Nat BY <1>1, <1>2, XorIs DEF XorStep
<1> QED BY <1>1, <1>2, <1>3 DEF Halves

\* Nought leaves the other.
LEMMA XorOfNone == \A j \in Nat : xor[0][j] = j
<1> DEFINE T == {j \in Nat : xor[0][j] # j}
<1> SUFFICES ASSUME T # {} PROVE FALSE OBVIOUS
<1>1. T \subseteq Nat OBVIOUS
<1>2. PICK k \in T : \A j \in T : k <= j
  <2> HIDE DEF T
  <2> QED BY <1>1, Smallest
<1>3. k \in Nat /\ xor[0][k] # k OBVIOUS
<1>4. PICK z \in Nat : z = 0 OBVIOUS
<1>5. XorStep(xor, z, k) BY <1>3, XorIs
<1>6. PICK h \in Nat : h = k \div 2 /\ k = 2 * h + (k % 2) /\ (k >= 1 => h < k) BY <1>3, Half
<1>7. PICK y : y = xor[0][h] OBVIOUS
<1>8. xor[0][k] = 2 * y + (k % 2) /\ xor[0][k] \in Nat
  <2>1. z \div 2 = 0 /\ z + k = k BY <1>3, <1>4
  <2> QED BY <1>4, <1>5, <1>6, <1>7, <2>1 DEF XorStep
<1>9. CASE k = 0
  <2>1. h = 0 /\ k % 2 = 0 BY <1>6, <1>9
  <2>2. y = xor[0][k] BY <1>7, <1>9, <2>1
  <2>3. y \in Nat /\ y = 2 * y + 0 BY <1>8, <2>1, <2>2
  <2>4. y = 0 BY <2>3
  <2> QED BY <1>3, <1>9, <2>2, <2>4
<1>10. CASE k # 0
  <2>1. h \notin T BY <1>2, <1>3, <1>6, <1>10
  <2>2. y = h BY <1>7, <2>1
  <2> QED BY <1>3, <1>6, <1>8, <2>2
<1> QED BY <1>9, <1>10

\* Only equal numbers leave nothing.
LEMMA XorZero ==
  ASSUME NEW a \in Nat, NEW b \in Nat
  PROVE  xor[a][b] = 0 <=> a = b
<1> DEFINE T == {k \in Nat : ~\A j \in Nat : xor[k][j] = 0 <=> k = j}
<1> SUFFICES ASSUME T # {} PROVE FALSE OBVIOUS
<1>1. T \subseteq Nat OBVIOUS
<1>2. PICK k \in T : \A j \in T : k <= j
  <2> HIDE DEF T
  <2> QED BY <1>1, Smallest
<1>3. k \in Nat /\ ~\A j \in Nat : xor[k][j] = 0 <=> k = j OBVIOUS
<1>4. PICK j \in Nat : ~(xor[k][j] = 0 <=> k = j) BY <1>3
<1>5. PICK q, r, x : Halves(k, j, q, r, x) BY <1>3, HalvesAre
<1>6. PICK y \in Nat : y = xor[q][r] /\ xor[k][j] = 2 * y + x BY <1>5 DEF Halves
<1>7. q \in Nat /\ r \in Nat /\ x \in 0 .. 1 /\ q = k \div 2 /\ r = j \div 2 /\ x = (k + j) % 2 BY <1>5 DEF Halves
<1>8. CASE k = 0
  <2>1. xor[0][j] = j BY XorOfNone
  <2> QED BY <1>4, <1>8, <2>1
<1>9. CASE k # 0
  <2>1. q < k BY <1>3, <1>7, <1>9
  <2>2. q \notin T BY <1>2, <1>3, <1>7, <2>1
  <2>3. y = 0 <=> q = r BY <1>6, <1>7, <2>2
  <2>4. k = j <=> q = r /\ x = 0
    <3>1. (k = 2 * q \/ k = 2 * q + 1) /\ (j = 2 * r \/ j = 2 * r + 1) BY <1>3, <1>7
    <3> QED BY <1>3, <1>7, <3>1
  <2>5. 2 * y + x = 0 <=> y = 0 /\ x = 0 BY <1>7
  <2> QED BY <1>4, <1>6, <2>3, <2>4, <2>5
<1> QED BY <1>8, <1>9

\* Numbers below a power of two leave one below it.
LEMMA XorBelow ==
  ASSUME NEW n \in Nat
  PROVE  \A a \in Nat, b \in Nat : a < Pow2[n] /\ b < Pow2[n] => xor[a][b] < Pow2[n]
<1>1. PICK P \in [Nat -> Nat] : P = Pow2 /\ P[0] = 1 /\ \A i \in Nat : P[i + 1] = 2 * P[i] /\ P[i] > 0
  BY GroupSizes DEF Power
<1> DEFINE Q(i) == \A a \in Nat, b \in Nat : a < P[i] /\ b < P[i] => xor[a][b] < P[i]
           T == {i \in Nat : Q(i)}
<1>2. 0 \in T
  <2>1. ASSUME NEW a \in Nat, NEW b \in Nat, a < P[0], b < P[0] PROVE xor[a][b] < P[0]
    <3>1. a = 0 /\ b = 0 BY <1>1, <2>1
    <3>2. xor[a][b] = 0 BY <3>1, XorZero
    <3> QED BY <1>1, <3>2
  <2> QED BY <2>1
<1>3. ASSUME NEW i \in Nat, i < n, i \in T PROVE i + 1 \in T
  <2>1. Q(i) BY <1>3
  <2>2. PICK e \in Nat : e = P[i] /\ P[i + 1] = 2 * e BY <1>1
  <2>3. ASSUME NEW a \in Nat, NEW b \in Nat, a < P[i + 1], b < P[i + 1] PROVE xor[a][b] < P[i + 1]
    <3>1. PICK q, r, x : Halves(a, b, q, r, x) BY HalvesAre
    <3>2. PICK y \in Nat : y = xor[q][r] /\ xor[a][b] = 2 * y + x BY <3>1 DEF Halves
    <3>3. q \in Nat /\ r \in Nat /\ x \in 0 .. 1 /\ q = a \div 2 /\ r = b \div 2 BY <3>1 DEF Halves
    <3>4. q < e /\ r < e BY <2>2, <2>3, <3>3
    <3>5. y < e BY <2>1, <2>2, <3>2, <3>3, <3>4
    <3> QED BY <2>2, <3>2, <3>3, <3>5
  <2>4. Q(i + 1) BY <2>3
  <2> QED BY <2>4
<1>4. \A i \in 0 .. n : i \in T
  <2> HIDE DEF T
  <2> QED BY <1>2, <1>3, Induct
<1>5. n \in 0 .. n OBVIOUS
<1>6. Q(n) BY <1>4, <1>5
<1> QED BY <1>1, <1>6

\* The top bit is left where just one of the two has it.
LEMMA XorTop ==
  ASSUME NEW n \in Nat
  PROVE  \A a \in Nat, b \in Nat :
           a < Pow2[n + 1] /\ b < Pow2[n + 1] => (xor[a][b] < Pow2[n] <=> (a < Pow2[n] <=> b < Pow2[n]))
<1>1. PICK P \in [Nat -> Nat] : P = Pow2 /\ P[0] = 1 /\ \A i \in Nat : P[i + 1] = 2 * P[i] /\ P[i] > 0
  BY GroupSizes DEF Power
<1> DEFINE Q(i) == \A a \in Nat, b \in Nat :
                     a < P[i + 1] /\ b < P[i + 1] => (xor[a][b] < P[i] <=> (a < P[i] <=> b < P[i]))
           T == {i \in Nat : Q(i)}
<1>2. 0 \in T
  <2>1. ASSUME NEW a \in Nat, NEW b \in Nat, a < P[0 + 1], b < P[0 + 1]
        PROVE  xor[a][b] < P[0] <=> (a < P[0] <=> b < P[0])
    <3>1. a < 2 /\ b < 2 BY <1>1, <2>1
    <3>2. xor[a][b] = 0 <=> a = b BY XorZero
    <3>3. xor[a][b] \in Nat BY XorIs DEF XorStep
    <3> QED BY <1>1, <3>1, <3>2, <3>3
  <2> QED BY <2>1
<1>3. ASSUME NEW i \in Nat, i < n, i \in T PROVE i + 1 \in T
  <2>1. Q(i) BY <1>3
  <2>2. PICK e \in Nat : e = P[i] /\ P[i + 1] = 2 * e BY <1>1
  <2>3. PICK k \in Nat : k = i + 1 OBVIOUS
  <2>4. P[k + 1] = 2 * (2 * e) BY <1>1, <2>2, <2>3
  <2>5. ASSUME NEW a \in Nat, NEW b \in Nat, a < P[k + 1], b < P[k + 1]
        PROVE  xor[a][b] < P[k] <=> (a < P[k] <=> b < P[k])
    <3>1. PICK q, r, x : Halves(a, b, q, r, x) BY HalvesAre
    <3>2. PICK y \in Nat : y = xor[q][r] /\ xor[a][b] = 2 * y + x BY <3>1 DEF Halves
    <3>3. q \in Nat /\ r \in Nat /\ x \in 0 .. 1 /\ q = a \div 2 /\ r = b \div 2 BY <3>1 DEF Halves
    <3>4. q < 2 * e /\ r < 2 * e BY <2>4, <2>5, <3>3
    <3>5. y < e <=> (q < e <=> r < e) BY <2>1, <2>2, <3>2, <3>3, <3>4
    <3>6. (a < 2 * e <=> q < e) /\ (b < 2 * e <=> r < e) BY <3>3
    <3>7. 2 * y + x < 2 * e <=> y < e BY <3>3
    <3> QED BY <2>2, <2>3, <3>2, <3>5, <3>6, <3>7
  <2>6. Q(k) BY <2>5
  <2> QED BY <2>3, <2>6
<1>4. \A i \in 0 .. n : i \in T
  <2> HIDE DEF T
  <2> QED BY <1>2, <1>3, Induct
<1>5. n \in 0 .. n OBVIOUS
<1>6. Q(n) BY <1>4, <1>5
<1> QED BY <1>1, <1>6

-----------------------------------------------------------------------------
(* A group as one number. *)

\* There is a value for each lane's number, made of the one before.
LEMMA Chain ==
  ASSUME NEW m \in Nat, NEW x \in Nat, NEW F \in [Nat -> [Nat -> Nat]]
  PROVE  \E f \in [0 .. m -> Nat] : f[0] = x /\ \A i \in 1 .. m : f[i] = F[i][f[i - 1]]
<1>1. PICK p : p = [n \in Nat |-> IF n = 0 THEN 0 ELSE n - 1] OBVIOUS
<1>2. PICK X : X = [n \in Nat |-> x] OBVIOUS
<1>3. Sound(Nat, 1, p, X, F)
  <2>1. p \in [Nat -> Nat] /\ \A n \in Nat : n >= 1 => p[n] < n BY <1>1
  <2>2. X \in [Nat -> Nat] BY <1>2
  <2> QED BY <2>1, <2>2 DEF Sound
<1>4. PICK f \in [0 .. m -> Nat] : \A n \in 0 .. m : Obeys(f, n, 1, p, X, F) BY <1>3, RecursTo
<1>5. f[0] = x
  <2>1. 0 \in 0 .. m OBVIOUS
  <2>2. Obeys(f, 0, 1, p, X, F) BY <1>4, <2>1
  <2> QED BY <1>2, <2>2 DEF Obeys
<1>6. ASSUME NEW i \in 1 .. m PROVE f[i] = F[i][f[i - 1]]
  <2>1. i \in 0 .. m /\ ~(i < 1) /\ i \in Nat /\ i # 0 OBVIOUS
  <2>2. p[i] = i - 1 BY <1>1, <2>1
  <2>3. Obeys(f, i, 1, p, X, F) BY <1>4, <2>1
  <2> QED BY <2>1, <2>2, <2>3 DEF Obeys
<1> QED BY <1>5, <1>6

\* What a number without its last so many lanes is.
Shifted(s, n) == s \in [0 .. LANES -> Nat] /\ s[0] = n /\ \A i \in 1 .. LANES : s[i] = s[i - 1] \div LANE

\* LaneOf takes the lowest lane of such a one.
LEMMA LaneIs ==
  ASSUME NEW n \in Nat
  PROVE  \E s : Shifted(s, n) /\ \A lane \in 0 .. LANES - 1 : LaneOf(n, lane) = s[lane] % LANE
<1> DEFINE E(f) == [i \in 0 .. LANES |-> IF i = 0 THEN n ELSE f[i - 1] \div LANE]
           c == CHOOSE f : f = E(f)
<1>1. PICK B \in Nat, L \in Nat : B = LANE /\ B > 1 /\ L = LANES /\ L > 0 BY GroupSizes
<1>2. \A k \in Nat : k \div B \in Nat BY <1>1, Quotient
<1>3. PICK F : F = [k \in Nat |-> [s \in Nat |-> s \div B]] OBVIOUS
<1>4. F \in [Nat -> [Nat -> Nat]]
  <2>1. [s \in Nat |-> s \div B] \in [Nat -> Nat] BY <1>2
  <2> QED BY <1>3, <2>1
<1>5. PICK f \in [0 .. L -> Nat] : f[0] = n /\ \A i \in 1 .. L : f[i] = F[i][f[i - 1]] BY <1>4, Chain
<1>6. ASSUME NEW i \in 0 .. L PROVE f[i] = IF i = 0 THEN n ELSE f[i - 1] \div B
  <2>1. CASE i = 0 BY <1>5, <2>1
  <2>2. CASE i # 0
    <3>1. i \in 1 .. L /\ i - 1 \in 0 .. L /\ i \in Nat BY <2>2
    <3>2. f[i - 1] \in Nat BY <1>5, <3>1
    <3>3. F[i][f[i - 1]] = f[i - 1] \div B BY <1>3, <3>1, <3>2
    <3> QED BY <1>5, <2>2, <3>1, <3>3
  <2> QED BY <2>1, <2>2
<1>7. f = E(f) BY <1>1, <1>6
<1>8. c = E(c)
  <2> HIDE DEF E
  <2> QED BY <1>7
<1>9. PICK g : g = c OBVIOUS
<1>10. g = [i \in 0 .. L |-> IF i = 0 THEN n ELSE g[i - 1] \div B] BY <1>1, <1>8, <1>9
<1>11. \A i \in 0 .. L : g[i] = IF i = 0 THEN n ELSE g[i - 1] \div B BY <1>10
<1> DEFINE T == {i \in Nat : g[i] \in Nat}
<1>12. 0 \in T
  <2>1. 0 \in 0 .. L OBVIOUS
  <2> QED BY <1>11, <2>1
<1>13. ASSUME NEW i \in Nat, i < L, i \in T PROVE i + 1 \in T
  <2>1. i + 1 \in 0 .. L /\ i + 1 # 0 /\ i + 1 - 1 = i BY <1>13
  <2>2. g[i + 1] = g[i] \div B BY <1>11, <2>1
  <2>3. g[i] \in Nat BY <1>13
  <2>4. g[i + 1] \in Nat BY <1>2, <2>2, <2>3
  <2> QED BY <2>4
<1>14. \A i \in 0 .. L : i \in T
  <2> HIDE DEF T
  <2> QED BY <1>12, <1>13, Induct
<1>15. g \in [0 .. L -> Nat]
  <2>1. DOMAIN g = 0 .. L /\ g = [i \in 0 .. L |-> g[i]] BY <1>10
  <2> QED BY <1>14, <2>1
<1>16. g[0] = n /\ \A i \in 1 .. L : g[i] = g[i - 1] \div B
  <2>1. 0 \in 0 .. L /\ \A i \in 1 .. L : i \in 0 .. L /\ i # 0 OBVIOUS
  <2> QED BY <1>11, <2>1
<1>17. Shifted(g, n) BY <1>1, <1>15, <1>16 DEF Shifted
<1>18. \A lane \in 0 .. LANES - 1 : LaneOf(n, lane) = c[lane] % LANE BY DEF LaneOf
<1> HIDE DEF c
<1> QED BY <1>9, <1>17, <1>18

\* What the lanes after the first so many make.
Stacked(u, ctrl) ==
  /\ u \in [0 .. LANES -> Nat] /\ u[LANES] = 0
  /\ \A i \in 0 .. LANES - 1 : u[i] = ctrl[i + 1] + LANE * u[i + 1]

\* Word makes all of them one number.
LEMMA WordIs ==
  ASSUME NEW ctrl \in [1 .. LANES -> Nat]
  PROVE  \E u : Stacked(u, ctrl) /\ Word(ctrl) = u[0]
<1> DEFINE E(f) == [n \in 0 .. LANES |-> IF n = 0 THEN 0 ELSE ctrl[LANES + 1 - n] + LANE * f[n - 1]]
           c == CHOOSE f : f = E(f)
<1>1. PICK B \in Nat, L \in Nat : B = LANE /\ B > 1 /\ L = LANES /\ L > 0 BY GroupSizes
<1>2. \A n \in 1 .. L : L + 1 - n \in 1 .. L OBVIOUS
<1>3. \A n \in 1 .. L : ctrl[L + 1 - n] \in Nat BY <1>1, <1>2
<1>4. PICK F : F = [n \in Nat |-> [s \in Nat |-> (IF n \in 1 .. L THEN ctrl[L + 1 - n] ELSE 0) + B * s]] OBVIOUS
<1>5. \A n \in 1 .. L, s \in Nat : F[n][s] = ctrl[L + 1 - n] + B * s BY <1>4
<1>6. F \in [Nat -> [Nat -> Nat]]
  <2>1. ASSUME NEW n \in Nat PROVE [s \in Nat |-> (IF n \in 1 .. L THEN ctrl[L + 1 - n] ELSE 0) + B * s] \in [Nat -> Nat]
    <3>1. PICK d \in Nat : d = IF n \in 1 .. L THEN ctrl[L + 1 - n] ELSE 0 BY <1>3
    <3>2. \A s \in Nat : d + B * s \in Nat
      <4>1. \A s \in Nat : B * s \in Nat OBVIOUS
      <4> QED BY <4>1
    <3> QED BY <3>1, <3>2
  <2> QED BY <1>4, <2>1
<1>7. PICK f \in [0 .. L -> Nat] : f[0] = 0 /\ \A i \in 1 .. L : f[i] = F[i][f[i - 1]] BY <1>6, Chain
<1>8. ASSUME NEW n \in 0 .. L PROVE f[n] = IF n = 0 THEN 0 ELSE ctrl[L + 1 - n] + B * f[n - 1]
  <2>1. CASE n = 0 BY <1>7, <2>1
  <2>2. CASE n # 0
    <3>1. n \in 1 .. L /\ n - 1 \in 0 .. L BY <2>2
    <3>2. f[n - 1] \in Nat BY <1>7, <3>1
    <3>3. F[n][f[n - 1]] = ctrl[L + 1 - n] + B * f[n - 1] BY <1>5, <3>1, <3>2
    <3> QED BY <1>7, <2>2, <3>1, <3>3
  <2> QED BY <2>1, <2>2
<1>9. f = E(f) BY <1>1, <1>8
<1>10. c = E(c)
  <2> HIDE DEF E
  <2> QED BY <1>9
<1>11. PICK g : g = c OBVIOUS
<1>12. g = [n \in 0 .. L |-> IF n = 0 THEN 0 ELSE ctrl[L + 1 - n] + B * g[n - 1]] BY <1>1, <1>10, <1>11
<1>13. \A n \in 0 .. L : g[n] = IF n = 0 THEN 0 ELSE ctrl[L + 1 - n] + B * g[n - 1] BY <1>12
<1> DEFINE T == {i \in Nat : g[i] \in Nat}
<1>14. 0 \in T
  <2>1. 0 \in 0 .. L OBVIOUS
  <2> QED BY <1>13, <2>1
<1>15. ASSUME NEW i \in Nat, i < L, i \in T PROVE i + 1 \in T
  <2>1. i + 1 \in 0 .. L /\ i + 1 \in 1 .. L /\ i + 1 # 0 /\ i + 1 - 1 = i BY <1>15
  <2>2. PICK s \in Nat : s = g[i] BY <1>15
  <2>3. PICK d \in Nat : d = ctrl[L + 1 - (i + 1)] BY <1>3, <2>1
  <2>4. g[i + 1] = d + B * s BY <1>13, <2>1, <2>2, <2>3
  <2>5. B * s \in Nat OBVIOUS
  <2>6. g[i + 1] \in Nat BY <2>4, <2>5
  <2> QED BY <2>6
<1>16. \A i \in 0 .. L : g[i] \in Nat
  <2>1. \A i \in 0 .. L : i \in T
    <3> HIDE DEF T
    <3> QED BY <1>14, <1>15, Induct
  <2> QED BY <2>1
<1> DEFINE u == [i \in 0 .. L |-> g[L - i]]
<1>17. \A i \in 0 .. L : L - i \in 0 .. L OBVIOUS
<1>18. u \in [0 .. L -> Nat] /\ \A i \in 0 .. L : u[i] = g[L - i] BY <1>16, <1>17
<1> HIDE DEF u
<1>19. u[L] = 0 /\ u[0] = g[L]
  <2>1. L \in 0 .. L /\ 0 \in 0 .. L /\ L - L = 0 /\ L - 0 = L OBVIOUS
  <2> QED BY <1>13, <1>18, <2>1
<1>20. ASSUME NEW i \in 0 .. L - 1 PROVE u[i] = ctrl[i + 1] + B * u[i + 1]
  <2>1. PICK n \in 1 .. L : n = L - i OBVIOUS
  <2>2. n \in 0 .. L /\ n # 0 /\ L + 1 - n = i + 1 /\ n - 1 = L - (i + 1) BY <2>1
  <2>3. i \in 0 .. L /\ i + 1 \in 0 .. L OBVIOUS
  <2>4. u[i] = g[n] /\ u[i + 1] = g[n - 1] BY <1>18, <2>1, <2>2, <2>3
  <2> QED BY <1>13, <2>2, <2>4
<1>21. Stacked(u, ctrl) BY <1>1, <1>18, <1>19, <1>20 DEF Stacked
<1>22. Word(ctrl) = c[LANES] BY DEF Word
<1> HIDE DEF c
<1> QED BY <1>1, <1>11, <1>19, <1>21, <1>22

\* A number is only one quotient and one rest.
LEMMA Divide ==
  ASSUME NEW base \in Nat, base > 0, NEW q \in Int, NEW r \in 0 .. base - 1, NEW n \in Int, n = base * q + r
  PROVE  n \div base = q /\ n % base = r
<1>1. PICK p \in Int, s \in 0 .. base - 1 : p = n \div base /\ s = n % base /\ n = base * p + s OBVIOUS
<1>2. base * q \in Int /\ base * p \in Int OBVIOUS
<1>3. base * q - base * p = s - r
  <2>1. PICK j \in Int, k \in Int : j = base * q /\ k = base * p BY <1>2
  <2>2. n = j + r BY <2>1
  <2>3. n = k + s BY <1>1, <2>1
  <2>4. j - k = s - r BY <2>2, <2>3
  <2> QED BY <2>1, <2>4
<1>4. ASSUME q > p PROVE FALSE
  <2>1. PICK d \in Nat : q = p + 1 + d
    <3>1. q - p - 1 \in Nat /\ q = p + 1 + (q - p - 1) BY <1>4
    <3> QED BY <3>1
  <2>2. base * q = base * p + base + base * d BY <2>1
  <2>3. base * d \in Nat OBVIOUS
  <2> QED BY <1>2, <1>3, <2>2, <2>3
<1>5. ASSUME q < p PROVE FALSE
  <2>1. PICK d \in Nat : p = q + 1 + d
    <3>1. p - q - 1 \in Nat /\ p = q + 1 + (p - q - 1) BY <1>5
    <3> QED BY <3>1
  <2>2. base * p = base * q + base + base * d BY <2>1
  <2>3. base * d \in Nat OBVIOUS
  <2> QED BY <1>2, <1>3, <2>2, <2>3
<1>6. q = p BY <1>4, <1>5
<1>7. base * q = base * p BY <1>6
<1>8. s = r BY <1>2, <1>3, <1>7
<1> QED BY <1>1, <1>6, <1>8

\* A lane of the number the lanes make is that lane.
LEMMA LaneOfWord ==
  ASSUME NEW ctrl \in [1 .. LANES -> 0 .. LANE - 1], NEW lane \in 0 .. LANES - 1
  PROVE  Word(ctrl) \in Nat /\ LaneOf(Word(ctrl), lane) = ctrl[lane + 1]
<1>1. PICK B \in Nat, L \in Nat : B = LANE /\ B > 1 /\ L = LANES /\ L > 0 BY GroupSizes
<1>2. ctrl \in [1 .. LANES -> Nat] BY GroupSizes
<1>3. PICK u : Stacked(u, ctrl) /\ Word(ctrl) = u[0] BY <1>2, WordIs
<1>4. /\ u \in [0 .. L -> Nat] /\ u[L] = 0
      /\ \A i \in 0 .. L - 1 : u[i] = ctrl[i + 1] + B * u[i + 1]
  BY <1>1, <1>3 DEF Stacked
<1>5. 0 \in 0 .. L OBVIOUS
<1>6. PICK x \in Nat : x = Word(ctrl) /\ x = u[0] BY <1>3, <1>4, <1>5
<1>7. PICK s : Shifted(s, x) /\ \A k \in 0 .. LANES - 1 : LaneOf(x, k) = s[k] % LANE BY LaneIs
<1>8. s \in [0 .. L -> Nat] /\ s[0] = x /\ \A i \in 1 .. L : s[i] = s[i - 1] \div B BY <1>1, <1>7 DEF Shifted
<1>9. ASSUME NEW i \in 0 .. L - 1, s[i] = u[i] PROVE s[i] \div B = u[i + 1] /\ s[i] % B = ctrl[i + 1]
  <2>1. i + 1 \in 1 .. L /\ i + 1 \in 0 .. L /\ i \in 0 .. L OBVIOUS
  <2>2. PICK d \in 0 .. B - 1 : d = ctrl[i + 1] BY <1>1, <2>1
  <2>3. PICK q \in Nat : q = u[i + 1] BY <1>4, <2>1
  <2>4. PICK n \in Nat : n = s[i] /\ n = d + B * q
    <3>1. s[i] = d + B * q BY <1>4, <1>9, <2>2, <2>3
    <3> QED BY <1>8, <2>1, <3>1
  <2>5. n \in Int /\ q \in Int /\ n = B * q + d
    <3>1. B * q \in Int OBVIOUS
    <3> QED BY <2>4, <3>1
  <2>6. n \div B = q /\ n % B = d BY <1>1, <2>5, Divide
  <2> QED BY <2>2, <2>3, <2>4, <2>6
<1> DEFINE T == {i \in Nat : s[i] = u[i]}
<1>10. 0 \in T BY <1>6, <1>8
<1>11. ASSUME NEW i \in Nat, i < L, i \in T PROVE i + 1 \in T
  <2>1. i \in 0 .. L - 1 /\ i + 1 \in 1 .. L /\ i + 1 - 1 = i BY <1>11
  <2>2. s[i] = u[i] BY <1>11
  <2>3. s[i + 1] = s[i] \div B BY <1>8, <2>1
  <2>4. s[i + 1] = u[i + 1] BY <1>9, <2>1, <2>2, <2>3
  <2> QED BY <2>4
<1>12. s[lane] = u[lane]
  <2>1. \A i \in 0 .. L : i \in T
    <3> HIDE DEF T
    <3> QED BY <1>10, <1>11, Induct
  <2>2. lane \in 0 .. L BY <1>1
  <2> QED BY <2>1, <2>2
<1>13. s[lane] % B = ctrl[lane + 1] BY <1>1, <1>9, <1>12
<1> QED BY <1>1, <1>6, <1>7, <1>13

\* A quotient and a rest of a number.
Splits(n, base, q, r) == n = base * q + r

\* Divide, of such a pair.
LEMMA Parted ==
  ASSUME NEW base \in Nat, base > 0, NEW q \in Int, NEW r \in 0 .. base - 1, NEW n \in Int, Splits(n, base, q, r)
  PROVE  n \div base = q /\ n % base = r
<1>1. n = base * q + r BY DEF Splits
<1> QED BY <1>1, Divide

\* The rest of a number differs from it by a multiple.
LEMMA Remainder ==
  ASSUME NEW z \in Int, NEW base \in Nat, base > 0
  PROVE  \E r \in Nat, e \in Int : r = z % base /\ r = z + e * base
<1>1. PICK d \in Int, r \in 0 .. base - 1 : r = z % base /\ z = base * d + r
  <2>1. z % base \in 0 .. base - 1 /\ z \div base \in Int /\ z = base * (z \div base) + (z % base) OBVIOUS
  <2> QED BY <2>1
<1>2. PICK e \in Int : e = -d OBVIOUS
<1>3. e * base = -(base * d) /\ base * d \in Int BY <1>2
<1>4. r = z + e * base BY <1>1, <1>3
<1>5. r \in Nat /\ r = z % base BY <1>1
<1> WITNESS r \in Nat, e \in Int
<1> QED BY <1>4, <1>5

\* What a lane is once one is taken from each: itself less one, less one more
\* where the lanes below it borrow.
LEMMA LaneOfLess ==
  ASSUME NEW ctrl \in [1 .. LANES -> 0 .. LANE - 1], NEW ones, ones = [i \in 1 .. LANES |-> 1],
         NEW lane \in 0 .. LANES - 1
  PROVE  \E b \in 0 .. 1 :
           LaneOf((Word(ctrl) - Word(ones)) % LaneEnd[LANES], lane) = (ctrl[lane + 1] - 1 - b) % LANE
<1>1. PICK B \in Nat, L \in Nat : B = LANE /\ B > 3 /\ L = LANES /\ L > 0 BY GroupSizes
<1>2. ctrl \in [1 .. LANES -> Nat] /\ ones \in [1 .. LANES -> Nat] BY GroupSizes
<1>3. PICK u : Stacked(u, ctrl) /\ Word(ctrl) = u[0] BY <1>2, WordIs
<1>4. /\ u \in [0 .. L -> Nat] /\ u[L] = 0
      /\ \A i \in 0 .. L - 1 : u[i] = ctrl[i + 1] + B * u[i + 1]
  BY <1>1, <1>3 DEF Stacked
<1>5. PICK o : Stacked(o, ones) /\ Word(ones) = o[0] BY <1>2, WordIs
<1>6. /\ o \in [0 .. L -> Nat] /\ o[L] = 0
      /\ \A i \in 0 .. L - 1 : o[i] = 1 + B * o[i + 1]
  <2>1. \A i \in 0 .. L - 1 : o[i] = ones[i + 1] + B * o[i + 1] BY <1>1, <1>5 DEF Stacked
  <2>2. \A i \in 0 .. L - 1 : i + 1 \in 1 .. L OBVIOUS
  <2>3. \A i \in 0 .. L - 1 : ones[i + 1] = 1 BY <1>1, <2>2
  <2> QED BY <1>1, <1>5, <2>1, <2>3 DEF Stacked
<1>7. PICK W \in [Nat -> Nat] : W = LaneEnd /\ \A i \in Nat : W[i + 1] = B * W[i] /\ W[i] > 0
  BY <1>1, GroupSizes DEF Power
<1>8. 0 \in 0 .. L OBVIOUS
<1>9. PICK N \in Nat : N = W[L] /\ N > 0 BY <1>7
<1>10. PICK z \in Int : z = u[0] - o[0] BY <1>4, <1>6, <1>8
<1>11. PICK less \in Nat, e \in Int : less = z % N /\ less = z + e * N
  <2>1. N > 0 BY <1>9
  <2> QED BY <2>1, Remainder
<1>12. PICK s : Shifted(s, less) /\ \A k \in 0 .. LANES - 1 : LaneOf(less, k) = s[k] % LANE BY LaneIs
<1>13. s \in [0 .. L -> Nat] /\ s[0] = less /\ \A i \in 1 .. L : s[i] = s[i - 1] \div B
  BY <1>1, <1>12 DEF Shifted
<1> DEFINE At(i, b) == b \in 0 .. 1 /\ s[i] = u[i] - o[i] - b + e * W[L - i]
<1>14. ASSUME NEW i \in 0 .. L - 1, NEW b, At(i, b)
       PROVE  s[i] % B = (ctrl[i + 1] - 1 - b) % B /\ \E c : At(i + 1, c)
  <2>1. i + 1 \in 1 .. L /\ i + 1 \in 0 .. L /\ i \in 0 .. L /\ i + 1 - 1 = i OBVIOUS
  <2>2. PICK d \in 0 .. B - 1 : d = ctrl[i + 1] BY <1>1, <2>1
  <2>3. PICK q \in Nat, p \in Nat : q = u[i + 1] /\ p = o[i + 1] BY <1>4, <1>6, <2>1
  <2>4. PICK k \in Nat : k = L - (i + 1) /\ k + 1 = L - i OBVIOUS
  <2>5. PICK w \in Nat : w = W[k] /\ W[L - i] = B * w BY <1>7, <2>4
  <2>6. PICK n \in Nat : n = s[i] BY <1>13, <2>1
  <2>7. b \in 0 .. 1 /\ n = (d + B * q) - (1 + B * p) - b + e * (B * w)
    BY <1>4, <1>6, <1>14, <2>2, <2>3, <2>5, <2>6
  <2>8. PICK h \in Int : h = q - p + e * w
    <3>1. e * w \in Int OBVIOUS
    <3> QED BY <3>1
  <2>9. PICK a \in Int : a = d - 1 - b BY <2>7
  <2>10. n = B * h + a
    <3>1. e * (B * w) = B * (e * w) OBVIOUS
    <3>2. B * h = B * q - B * p + B * (e * w) BY <2>8
    <3>3. B * q \in Int /\ B * p \in Int /\ B * (e * w) \in Int OBVIOUS
    <3> QED BY <2>7, <2>9, <3>1, <3>2, <3>3
  <2>11. s[i + 1] = n \div B BY <1>13, <2>1, <2>6
  <2>12. s[i + 1] = q - p - 0 + e * w => At(i + 1, 0)
    BY <2>3, <2>4, <2>5
  <2>13. s[i + 1] = q - p - 1 + e * w => At(i + 1, 1)
    BY <2>3, <2>4, <2>5
  <2>14. CASE a >= 0
    <3>1. a \in 0 .. B - 1 BY <2>7, <2>9, <2>14
    <3>a. Splits(n, B, h, a) /\ B > 1 /\ n \in Int BY <1>1, <2>10 DEF Splits
    <3>2. n \div B = h /\ n % B = a BY <3>1, <3>a, Parted
    <3>3. a % B = a
      <4>1. Splits(a, B, 0, a) BY DEF Splits
      <4> QED BY <3>1, <3>a, <4>1, Parted
    <3>4. h = q - p - 0 + e * w BY <2>8
    <3> QED BY <2>2, <2>6, <2>9, <2>11, <2>12, <3>2, <3>3, <3>4
  <2>15. CASE a < 0
    <3>1. PICK r \in 0 .. B - 1 : r = a + B BY <1>1, <2>7, <2>9, <2>15
    <3>2. PICK y \in Int : y = h - 1 OBVIOUS
    <3>3. n = B * y + r
      <4>1. B * y = B * h - B BY <3>2
      <4>2. B * h \in Int OBVIOUS
      <4> QED BY <2>10, <3>1, <4>1, <4>2
    <3>a. Splits(n, B, y, r) /\ B > 1 /\ n \in Int BY <1>1, <3>3 DEF Splits
    <3>4. n \div B = y /\ n % B = r BY <3>a, Parted
    <3>5. a % B = r
      <4>1. PICK x \in Int : x = -1 OBVIOUS
      <4>2. B * x = -B BY <4>1
      <4>3. a = B * x + r BY <3>1, <4>2
      <4>4. Splits(a, B, x, r) BY <4>3 DEF Splits
      <4> QED BY <3>a, <4>4, Parted
    <3>6. y = q - p - 1 + e * w BY <2>8, <3>2
    <3> QED BY <2>2, <2>6, <2>9, <2>11, <2>13, <3>4, <3>5, <3>6
  <2> QED BY <2>14, <2>15
<1> DEFINE T == {i \in Nat : \E b : At(i, b)}
<1>15. 0 \in T
  <2>1. L - 0 = L OBVIOUS
  <2>2. PICK a \in Nat, c \in Nat : a = u[0] /\ c = o[0] BY <1>4, <1>6, <1>8
  <2>3. e * N \in Int OBVIOUS
  <2>4. s[0] = a - c - 0 + e * N BY <1>10, <1>11, <1>13, <2>2, <2>3
  <2>5. At(0, 0) BY <1>9, <2>1, <2>2, <2>4
  <2> QED BY <2>5
<1>16. ASSUME NEW i \in Nat, i < L, i \in T PROVE i + 1 \in T
  <2>1. i \in 0 .. L - 1 BY <1>16
  <2>2. PICK b : At(i, b) BY <1>16
  <2>3. \E c : At(i + 1, c)
    <3> HIDE DEF At
    <3> QED BY <1>14, <2>1, <2>2
  <2>4. i + 1 \in Nat OBVIOUS
  <2> HIDE DEF At
  <2> QED BY <2>3, <2>4
<1>17. PICK b : At(lane, b)
  <2>1. \A i \in 0 .. L : i \in T
    <3> HIDE DEF T
    <3> QED BY <1>15, <1>16, Induct
  <2>2. lane \in 0 .. L BY <1>1
  <2> QED BY <2>1, <2>2
<1>18. b \in 0 .. 1 BY <1>17
<1>19. s[lane] % B = (ctrl[lane + 1] - 1 - b) % B
  <2> HIDE DEF At
  <2> QED BY <1>1, <1>14, <1>17
<1>20. LaneOf(less, lane) = (ctrl[lane + 1] - 1 - b) % LANE BY <1>1, <1>12, <1>19
<1>21. less = (Word(ctrl) - Word(ones)) % LaneEnd[LANES] BY <1>1, <1>3, <1>5, <1>7, <1>9, <1>10, <1>11
<1> QED BY <1>18, <1>20, <1>21

-----------------------------------------------------------------------------
(* The word at a time comparison, and the walk over a mask. *)

\* Numbers that differ in their lowest bit have the same half.
LEMMA XorOne ==
  ASSUME NEW a \in Nat, NEW b \in Nat, xor[a][b] = 1
  PROVE  a \div 2 = b \div 2
<1>1. PICK q, r, x : Halves(a, b, q, r, x) BY HalvesAre
<1>2. PICK y \in Nat : y = xor[q][r] /\ xor[a][b] = 2 * y + x BY <1>1 DEF Halves
<1>3. q \in Nat /\ r \in Nat /\ x \in 0 .. 1 /\ q = a \div 2 /\ r = b \div 2 BY <1>1 DEF Halves
<1>4. y = 0 BY <1>2, <1>3
<1>5. q = r BY <1>2, <1>3, <1>4, XorZero
<1> QED BY <1>3, <1>5

\* What a comparison with a byte may and must say of a lane.
Fits(lane, byte) == lanes[lane + 1] = byte \/ (byte \in 0 .. TOP - 1 /\ lanes[lane + 1] \in 0 .. TOP - 1)

\* swar lights every lane that holds the byte; a lane it lights besides is full,
\* and so is the byte: two bytes that differ in the lowest bit only are not both
\* among EMPTY and DELETED, which are even.
LEMMA SwarFinds ==
  ASSUME lanes \in [1 .. LANES -> Control], NEW byte \in 0 .. TOP - 1 \cup {EMPTY}, NEW lane \in 0 .. LANES - 1
  PROVE  /\ lanes[lane + 1] = byte => lane \in swar(byte)
         /\ lane \in swar(byte) => Fits(lane, byte)
<1>1. PICK t \in Nat : t > 0 /\ TOP = 2 * t /\ LANE = 4 * t
  <2>1. PICK t \in Nat : t > 0 /\ TOP = 2 * t BY GroupSizes
  <2>2. LANE = 4 * t BY <2>1, GroupSizes
  <2> QED BY <2>1, <2>2
<1>2. PICK B \in Nat, H \in Nat : B = LANE /\ H = TOP /\ B > 3 /\ H = 2 * t /\ B = 4 * t BY <1>1
<1>3. Control \subseteq 0 .. B - 1 /\ byte \in 0 .. B - 1 BY <1>2 DEF Control, EMPTY, DELETED
<1>4. \A i \in 1 .. LANES : lanes[i] \in Control /\ lanes[i] \in 0 .. B - 1 BY <1>3
<1> DEFINE f == [i \in 1 .. LANES |-> xor[lanes[i]][byte]]
           ones == [i \in 1 .. LANES |-> 1]
<1>5. f \in [1 .. LANES -> 0 .. LANE - 1]
  <2>1. LANE_BITS \in Nat /\ Pow2[LANE_BITS] = B BY <1>2, GroupSizes DEF LANE
  <2>2. ASSUME NEW a \in 0 .. B - 1, NEW b \in 0 .. B - 1 PROVE xor[a][b] \in 0 .. B - 1
    <3>1. a \in Nat /\ b \in Nat /\ a < B /\ b < B OBVIOUS
    <3>2. xor[a][b] < B BY <2>1, <3>1, XorBelow
    <3>3. xor[a][b] \in Nat BY <3>1, XorIs DEF XorStep
    <3> QED BY <3>2, <3>3
  <2> QED BY <1>2, <1>3, <1>4, <2>2
<1>6. PICK k \in 1 .. LANES : k = lane + 1 BY GroupSizes
<1>7. PICK h \in 0 .. B - 1 : h = lanes[k] /\ h \in Control BY <1>4
<1>8. PICK v \in 0 .. B - 1 : v = xor[h][byte] /\ v = f[lane + 1] BY <1>2, <1>5, <1>6, <1>7
<1>9. LaneOf(Word(f), lane) = v
  <2> HIDE DEF f
  <2> QED BY <1>5, <1>8, LaneOfWord
<1>10. PICK b \in 0 .. 1 : LaneOf((Word(f) - Word(ones)) % LaneEnd[LANES], lane) = (v - 1 - b) % LANE
  <2>1. PICK g : g = ones OBVIOUS
  <2>2. g = [i \in 1 .. LANES |-> 1] BY <2>1
  <2> HIDE DEF f, ones
  <2>3. \E b \in 0 .. 1 : LaneOf((Word(f) - Word(g)) % LaneEnd[LANES], lane) = (f[lane + 1] - 1 - b) % LANE
    BY <1>5, <2>2, LaneOfLess
  <2> QED BY <1>8, <2>1, <2>3
<1>11. PICK w \in Int : w = (v - 1 - b) % B BY <1>2
<1>12. lane \in swar(byte) <=> w >= H /\ v < H
  BY <1>2, <1>9, <1>10, <1>11 DEF swar
<1> HIDE DEF f, ones
<1>13. v = 0 <=> h = byte
  <2>1. h \in Nat /\ byte \in Nat BY <1>3
  <2>2. xor[h][byte] = 0 <=> h = byte BY <2>1, XorZero
  <2> QED BY <1>8, <2>2
<1>14. ASSUME v = 0 PROVE lane \in swar(byte)
  <2>1. PICK r \in 0 .. B - 1 : r = B - 1 - b BY <1>2
  <2>2. PICK x \in Int, n \in Int : x = -1 /\ n = v - 1 - b OBVIOUS
  <2>3. B * x = -B BY <2>2
  <2>4. n = B * x + r BY <1>14, <2>1, <2>2, <2>3
  <2>5. Splits(n, B, x, r) /\ B > 0 BY <1>2, <2>4 DEF Splits
  <2>6. n % B = r BY <2>5, Parted
  <2>7. w = r BY <1>11, <2>2, <2>6
  <2>8. r >= H BY <1>2, <2>1
  <2> QED BY <1>2, <1>12, <1>14, <2>7, <2>8
<1>15. ASSUME lane \in swar(byte), v # 0 PROVE byte \in 0 .. TOP - 1 /\ h \in 0 .. TOP - 1
  <2>1. w >= H /\ v < H BY <1>12, <1>15
  <2>2. v = 1
    <3> SUFFICES ASSUME v > 1 PROVE FALSE BY <1>15
    <3>1. PICK n \in 0 .. B - 1 : n = v - 1 - b OBVIOUS
    <3>2. B * 0 = 0 OBVIOUS
    <3>3. n = B * 0 + n BY <3>2
    <3>4. Splits(n, B, 0, n) /\ B > 0 BY <1>2, <3>3 DEF Splits
    <3>5. n % B = n BY <3>4, Parted
    <3>6. w = n BY <1>11, <3>1, <3>5
    <3> QED BY <2>1, <3>1, <3>6
  <2>3. h \div 2 = byte \div 2
    <3>1. h \in Nat /\ byte \in Nat BY <1>3
    <3> QED BY <1>8, <2>2, <3>1, XorOne
  <2>4. h < H <=> byte < H
    <3>1. PICK n \in Nat : n = LANE_BITS - 1 /\ n + 1 = LANE_BITS BY GroupSizes
    <3>2. Pow2[n] = H /\ Pow2[n + 1] = B BY <1>2, <3>1 DEF TOP, LANE
    <3>3. h \in Nat /\ byte \in Nat /\ h < Pow2[n + 1] /\ byte < Pow2[n + 1] BY <1>3, <3>2
    <3>4. xor[h][byte] < Pow2[n] <=> (h < Pow2[n] <=> byte < Pow2[n]) BY <3>3, XorTop
    <3>5. xor[h][byte] < Pow2[n] BY <1>8, <2>1, <3>2
    <3> QED BY <3>2, <3>4, <3>5
  <2>5. byte < H
    <3> SUFFICES ASSUME byte = 2 * t PROVE FALSE BY <1>2, <1>3 DEF EMPTY
    <3>1. h >= H BY <1>2, <1>7, <2>4
    <3>2. h = 2 * t \/ h = 4 * t - 2 BY <1>1, <1>2, <1>7, <3>1 DEF Control, EMPTY, DELETED
    <3>3. (2 * t) \div 2 = t OBVIOUS
    <3>4. h \div 2 = t BY <2>3, <3>3
    <3>5. h = 2 * t
      <4>1. CASE h = 4 * t - 2
        <5>1. h = 2 * (2 * t - 1) BY <4>1
        <5>2. h \div 2 = 2 * t - 1 BY <5>1
        <5> QED BY <3>4, <4>1, <5>2
      <4> QED BY <3>2, <4>1
    <3> QED BY <1>13, <1>15, <3>5
  <2> QED BY <1>2, <1>3, <1>7, <2>4, <2>5
<1> QED BY <1>6, <1>7, <1>13, <1>14, <1>15 DEF Fits

\* The lanes the probe asks for, and those a set of bits stands for.
Asked == {i - 1 : i \in {i \in 1 .. LANES :
                    IF wanted = FREE THEN lanes[i] \in {EMPTY, DELETED} ELSE lanes[i] = wanted}}
LanesOf(bits) == {bit \div STRIDE : bit \in bits}

\* A lane that may be visited though not asked for.
MadeUp(lane) == build = "word" /\ wanted \in 0 .. TOP - 1 /\ lanes[lane + 1] \in 0 .. TOP - 1

\* A set of lanes that answers the probe.
Answers(hit) == Asked \subseteq hit /\ hit \subseteq 0 .. LANES - 1 /\ \A lane \in hit \ Asked : MadeUp(lane)

\* Between two lanes of the walk: the lanes visited and those whose bits are
\* left answer the probe between them, and the visited ones come first.
Walked ==
  /\ build \in Builds /\ lanes \in [1 .. LANES -> Control] /\ wanted \in 0 .. TOP - 1 \cup {EMPTY, FREE}
  /\ mask \subseteq Nat /\ visited \in Seq(Nat)
  /\ \A i, j \in DOMAIN visited : i < j => visited[i] < visited[j]
  /\ \A i \in DOMAIN visited : \A bit \in mask : visited[i] < bit \div STRIDE
  /\ Answers(ToSet(visited) \cup LanesOf(mask))

\* A lane has bits.
LEMMA StrideIs ==
  ASSUME build \in Builds
  PROVE  STRIDE \in Nat /\ STRIDE > 0 /\ (build = "sse2" => STRIDE = 1)
BY GroupSizes DEF STRIDE, Builds

\* Which lane a bit is of.
LEMMA BitOf ==
  ASSUME build \in Builds, NEW lane \in Nat, NEW bit \in Nat
  PROVE  /\ bit \in LaneBits(lane) <=> bit \div STRIDE = lane
         /\ bit \div STRIDE \in Nat
<1>1. PICK S \in Nat : S = STRIDE /\ S > 0 BY StrideIs
<1>2. PICK q \in Nat, r \in 0 .. S - 1 : q = bit \div S /\ bit = S * q + r BY <1>1
<1>3. ASSUME bit \in LaneBits(lane) PROVE q = lane
  <2>1. S * lane \in Nat /\ lane * S = S * lane OBVIOUS
  <2>2. bit \in S * lane .. S * lane + S - 1 BY <1>1, <1>3, <2>1 DEF LaneBits
  <2>3. PICK d \in 0 .. S - 1 : bit = S * lane + d
    <3>1. bit - S * lane \in 0 .. S - 1 /\ bit = S * lane + (bit - S * lane) BY <1>1, <2>1, <2>2
    <3> QED BY <3>1
  <2>4. Splits(bit, S, lane, d) /\ S > 0 /\ bit \in Int /\ lane \in Int BY <1>1, <2>3 DEF Splits
  <2>5. bit \div S = lane BY <2>4, Parted
  <2> QED BY <1>2, <2>5
<1>4. ASSUME q = lane PROVE bit \in LaneBits(lane)
  <2>1. S * q \in Nat /\ q * S = S * q OBVIOUS
  <2>2. bit \in q * S .. q * S + S - 1 BY <1>1, <1>2, <2>1
  <2> QED BY <1>1, <1>4, <2>2 DEF LaneBits
<1> QED BY <1>1, <1>2, <1>3, <1>4

\* The first and the last bit of a lane are its bits.
LEMMA EndBits ==
  ASSUME build \in Builds, NEW lane \in Nat
  PROVE  /\ lane * STRIDE \in LaneBits(lane) /\ lane * STRIDE + STRIDE - 1 \in LaneBits(lane)
         /\ LaneBits(lane) \subseteq Nat
<1>1. PICK S \in Nat : S = STRIDE /\ S > 0 BY StrideIs
<1>2. PICK a \in Nat : a = lane * S OBVIOUS
<1>3. a \in a .. a + S - 1 /\ a + S - 1 \in a .. a + S - 1 /\ a .. a + S - 1 \subseteq Nat BY <1>1
<1> QED BY <1>1, <1>2, <1>3 DEF LaneBits

\* Each build's mask is bits of the lanes that matched, and of every one.
LEMMA MaskOf ==
  ASSUME build \in Builds, NEW hit, hit \subseteq Nat
  PROVE  /\ to_mask(hit) \subseteq Nat /\ LanesOf(to_mask(hit)) = hit
         /\ highs(hit) \subseteq Nat /\ LanesOf(highs(hit)) = hit
<1>1. ASSUME NEW bits, \A bit \in bits : \E lane \in hit : bit \in LaneBits(lane),
             \A lane \in hit : \E bit \in bits : bit \in LaneBits(lane)
      PROVE  bits \subseteq Nat /\ LanesOf(bits) = hit
  <2>1. bits \subseteq Nat BY <1>1, EndBits
  <2>2. ASSUME NEW bit \in bits PROVE bit \div STRIDE \in hit
    <3>1. PICK lane \in hit : bit \in LaneBits(lane) BY <1>1
    <3>2. lane \in Nat /\ bit \in Nat BY <2>1
    <3>3. bit \div STRIDE = lane BY <3>1, <3>2, BitOf
    <3> QED BY <3>3
  <2>3. ASSUME NEW lane \in hit PROVE \E bit \in bits : lane = bit \div STRIDE
    <3>1. PICK bit \in bits : bit \in LaneBits(lane) BY <1>1
    <3>2. lane \in Nat /\ bit \in Nat BY <2>1
    <3>3. bit \div STRIDE = lane BY <3>1, <3>2, BitOf
    <3> QED BY <3>3
  <2> QED BY <2>1, <2>2, <2>3 DEF LanesOf
<1>2. to_mask(hit) \subseteq Nat /\ LanesOf(to_mask(hit)) = hit
  <2>1. PICK bits : bits = to_mask(hit) OBVIOUS
  <2>2. CASE build = "neon"
    <3>1. bits = UNION {LaneBits(lane) : lane \in hit} BY <2>1, <2>2 DEF to_mask
    <3>2. \A bit \in bits : \E lane \in hit : bit \in LaneBits(lane) BY <3>1
    <3>3. \A lane \in hit : \E bit \in bits : bit \in LaneBits(lane) BY <3>1, EndBits
    <3> QED BY <1>1, <2>1, <3>2, <3>3
  <2>3. CASE build # "neon"
    <3>1. bits = {lane * STRIDE : lane \in hit} BY <2>1, <2>3 DEF to_mask
    <3>2. \A lane \in hit : lane * STRIDE \in LaneBits(lane) BY EndBits
    <3>3. \A bit \in bits : \E lane \in hit : bit \in LaneBits(lane) BY <3>1, <3>2
    <3>4. \A lane \in hit : \E bit \in bits : bit \in LaneBits(lane) BY <3>1, <3>2
    <3> QED BY <1>1, <2>1, <3>3, <3>4
  <2> QED BY <2>2, <2>3
<1>3. highs(hit) \subseteq Nat /\ LanesOf(highs(hit)) = hit
  <2>1. PICK bits : bits = highs(hit) OBVIOUS
  <2>2. bits = {lane * STRIDE + STRIDE - 1 : lane \in hit} BY <2>1 DEF highs
  <2>3. \A lane \in hit : lane * STRIDE + STRIDE - 1 \in LaneBits(lane) BY EndBits
  <2>4. \A bit \in bits : \E lane \in hit : bit \in LaneBits(lane) BY <2>2, <2>3
  <2>5. \A lane \in hit : \E bit \in bits : bit \in LaneBits(lane) BY <2>2, <2>3
  <2> QED BY <1>1, <2>1, <2>4, <2>5
<1> QED BY <1>2, <1>3

\* The control bytes that are no hash are the two from TOP on, and FREE is none.
LEMMA ControlIs ==
  /\ TOP \in Nat /\ TOP > 0 /\ FREE \notin 0 .. TOP - 1 \cup {EMPTY}
  /\ \A c \in Control : c >= TOP <=> c \in {EMPTY, DELETED}
<1>1. PICK t \in Nat : t > 0 /\ TOP = 2 * t BY GroupSizes
<1>2. LANE = 4 * t BY <1>1, GroupSizes
<1> QED BY <1>1, <1>2 DEF Control, EMPTY, DELETED, FREE

\* The lanes a comparison lights answer the probe.
LEMMA Lit ==
  ASSUME GroupInit
  PROVE  mask \subseteq Nat /\ Answers(LanesOf(mask))
<1>1. build \in Builds /\ lanes \in [1 .. LANES -> Control] /\ LANES \in Nat BY GroupSizes DEF GroupInit
<1>2. Asked \subseteq 0 .. LANES - 1 BY <1>1 DEF Asked
<1>3. Answers(Asked) BY <1>2 DEF Answers
<1>4. Asked \subseteq Nat BY <1>2
<1>5. CASE wanted \in 0 .. TOP - 1 \cup {EMPTY} /\ mask = match_byte(wanted)
  <2>1. wanted # FREE BY <1>5, ControlIs
  <2>2. CASE build = "word"
    <3>1. PICK hit : hit = swar(wanted) OBVIOUS
    <3>2. hit \subseteq 0 .. LANES - 1 BY <3>1 DEF swar
    <3>3. ASSUME NEW lane \in Asked PROVE lane \in hit
      <4>1. lane \in 0 .. LANES - 1 /\ lanes[lane + 1] = wanted BY <1>1, <2>1 DEF Asked
      <4> QED BY <1>1, <1>5, <3>1, <4>1, SwarFinds
    <3>4. ASSUME NEW lane \in hit, lane \notin Asked PROVE MadeUp(lane)
      <4>1. lane \in 0 .. LANES - 1 BY <3>2
      <4>2. lanes[lane + 1] # wanted
        <5>1. lane + 1 \in 1 .. LANES /\ lane = (lane + 1) - 1 BY <1>1, <4>1
        <5> QED BY <2>1, <3>4, <5>1 DEF Asked
      <4>3. Fits(lane, wanted) BY <1>1, <1>5, <3>1, <4>1, SwarFinds
      <4> QED BY <2>2, <4>2, <4>3 DEF Fits, MadeUp
    <3>5. Answers(hit) BY <3>2, <3>3, <3>4 DEF Answers
    <3>6. mask = highs(hit) BY <1>5, <2>2, <3>1 DEF match_byte
    <3>7. hit \subseteq Nat BY <1>1, <3>2
    <3> QED BY <1>1, <3>5, <3>6, <3>7, MaskOf
  <2>3. CASE build # "word"
    <3>1. mask = to_mask({i - 1 : i \in {i \in 1 .. LANES : lanes[i] = wanted}}) BY <1>5, <2>3 DEF match_byte
    <3>2. Asked = {i - 1 : i \in {i \in 1 .. LANES : lanes[i] = wanted}} BY <2>1 DEF Asked
    <3>3. mask = to_mask(Asked) BY <3>1, <3>2
    <3> QED BY <1>1, <1>3, <1>4, <3>3, MaskOf
  <2> QED BY <2>2, <2>3
<1>6. CASE wanted = FREE /\ mask = match_free
  <2>1. {i \in 1 .. LANES : lanes[i] >= TOP} = {i \in 1 .. LANES : lanes[i] \in {EMPTY, DELETED}}
    BY <1>1, ControlIs
  <2>2. Asked = {i - 1 : i \in {i \in 1 .. LANES : lanes[i] \in {EMPTY, DELETED}}} BY <1>6 DEF Asked
  <2>3. Asked = {i - 1 : i \in {i \in 1 .. LANES : lanes[i] >= TOP}} BY <2>1, <2>2
  <2>4. mask = highs(Asked) \/ mask = to_mask(Asked) BY <1>6, <2>3 DEF match_free
  <2> QED BY <1>1, <1>3, <1>4, <2>4, MaskOf
<1> QED BY <1>5, <1>6 DEF GroupInit

\* It holds when the probe has its mask.
LEMMA WalkedInit == GroupInit => Walked
<1> SUFFICES ASSUME GroupInit PROVE Walked OBVIOUS
<1>1. mask \subseteq Nat /\ Answers(LanesOf(mask)) BY Lit
<1>2. visited = <<>> /\ DOMAIN visited = {} /\ visited \in Seq(Nat) BY DEF GroupInit
<1>3. ToSet(visited) \cup LanesOf(mask) = LanesOf(mask) BY <1>2 DEF ToSet
<1> QED BY <1>1, <1>2, <1>3 DEF GroupInit, Walked

\* The least bit left is of the least lane left, and taking that lane's bits
\* leaves those of the others.
LEMMA LowestTaken ==
  ASSUME build \in Builds, mask \subseteq Nat, mask # {}
  PROVE  /\ lowest \in Nat /\ lowest \in LanesOf(mask) /\ \A bit \in mask : lowest <= bit \div STRIDE
         /\ Taken(lowest) \subseteq mask /\ \A bit \in Taken(lowest) : lowest < bit \div STRIDE
         /\ LanesOf(mask) = LanesOf(Taken(lowest)) \cup {lowest}
<1>1. PICK S \in Nat : S = STRIDE /\ S > 0 BY StrideIs
<1>2. PICK m \in mask : m = Min(mask) /\ \A bit \in mask : m <= bit
  <2>1. \E n \in mask : \A bit \in mask : n <= bit BY Smallest
  <2> QED BY <2>1 DEF Min
<1>3. \A bit \in mask : bit \in Nat /\ bit \div S \in Nat BY <1>1
<1>4. PICK l \in Nat : l = lowest /\ l = m \div S BY <1>1, <1>2, <1>3 DEF lowest
<1>5. ASSUME NEW bit \in mask PROVE l <= bit \div S
  <2>1. PICK q \in Nat, r \in 0 .. S - 1 : q = bit \div S /\ bit = S * q + r BY <1>1, <1>3
  <2>2. PICK d \in 0 .. S - 1 : m = S * l + d BY <1>1, <1>3, <1>4
  <2>3. S * q + r >= S * l + d BY <1>2, <2>1, <2>2
  <2>4. ASSUME q < l PROVE FALSE
    <3>1. PICK k \in Nat : l = q + 1 + k
      <4>1. l - q - 1 \in Nat /\ l = q + 1 + (l - q - 1) BY <2>4
      <4> QED BY <4>1
    <3>2. S * l = S * q + S + S * k BY <3>1
    <3>3. S * k \in Nat /\ S * q \in Nat OBVIOUS
    <3> QED BY <2>3, <3>2, <3>3
  <2> QED BY <2>1, <2>4
<1>6. ASSUME NEW bit \in mask PROVE bit \in Taken(l) <=> bit \div S # l
  BY <1>1, <1>3, BitOf DEF Taken
<1>7. Taken(l) \subseteq mask BY DEF Taken
<1>8. ASSUME NEW bit \in Taken(l) PROVE l < bit \div S
  <2>1. bit \in mask BY <1>7
  <2>2. PICK q \in Nat : q = bit \div S BY <1>3, <2>1
  <2>3. l <= q /\ q # l BY <1>5, <1>6, <2>1, <2>2
  <2>4. l < q BY <2>3
  <2> QED BY <2>2, <2>4
<1>9. LanesOf(mask) = LanesOf(Taken(l)) \cup {l} /\ l \in LanesOf(mask)
  BY <1>1, <1>2, <1>4, <1>6, <1>7 DEF LanesOf
<1> QED BY <1>1, <1>4, <1>5, <1>7, <1>8, <1>9

\* A lane of the walk keeps it.
LEMMA WalkedStep == Walked /\ [GroupNext]_groupVars => Walked'
<1> SUFFICES ASSUME Walked, [GroupNext]_groupVars PROVE Walked' OBVIOUS
<1>1. CASE UNCHANGED groupVars
  <2>1. /\ build' = build /\ lanes' = lanes /\ wanted' = wanted /\ mask' = mask /\ visited' = visited
    BY <1>1 DEF groupVars
  <2>2. STRIDE' = STRIDE BY <2>1 DEF STRIDE
  <2> QED BY <2>1, <2>2 DEF Walked, Answers, Asked, LanesOf, MadeUp
<1>2. CASE Visit
  <2>1. /\ build' = build /\ lanes' = lanes /\ wanted' = wanted /\ mask # {}
        /\ visited' = Append(visited, lowest) /\ mask' = Taken(lowest)
    BY <1>2 DEF Visit
  <2>2. STRIDE' = STRIDE BY <2>1 DEF STRIDE
  <2>3. /\ build \in Builds /\ lanes \in [1 .. LANES -> Control] /\ wanted \in 0 .. TOP - 1 \cup {EMPTY, FREE}
        /\ mask \subseteq Nat /\ visited \in Seq(Nat)
        /\ \A i, j \in DOMAIN visited : i < j => visited[i] < visited[j]
        /\ \A i \in DOMAIN visited : \A bit \in mask : visited[i] < bit \div STRIDE
        /\ Answers(ToSet(visited) \cup LanesOf(mask))
    BY DEF Walked
  <2>4. PICK l \in Nat, rest \in SUBSET mask : l = lowest /\ rest = Taken(lowest) BY <2>1, <2>3, LowestTaken
  <2>5. /\ l \in LanesOf(mask) /\ rest \subseteq mask /\ \A bit \in rest : l < bit \div STRIDE
        /\ LanesOf(mask) = LanesOf(rest) \cup {l}
    BY <2>1, <2>3, <2>4, LowestTaken
  <2>6. PICK v \in Seq(Nat), n \in Nat : v = visited /\ n = Len(v) BY <2>3
  <2>7. PICK w : w = Append(v, l) OBVIOUS
  <2>8. /\ w \in Seq(Nat) /\ DOMAIN v = 1 .. n /\ DOMAIN w = 1 .. n + 1 /\ w[n + 1] = l
        /\ \A i \in 1 .. n : w[i] = v[i]
    BY <2>6, <2>7
  <2>9. \A i \in 1 .. n : v[i] \in Nat /\ v[i] < l
    <3>1. PICK bit \in mask : l = bit \div STRIDE BY <2>5 DEF LanesOf
    <3>2. \A i \in DOMAIN visited : visited[i] < l
      <4>1. \A i \in DOMAIN visited : visited[i] < bit \div STRIDE BY <2>3
      <4> QED BY <3>1, <4>1
    <3>3. \A i \in 1 .. n : v[i] \in Nat BY <2>6, <2>8
    <3> QED BY <2>6, <2>8, <3>2, <3>3
  <2>10. \A i, j \in DOMAIN w : i < j => w[i] < w[j]
    <3> SUFFICES ASSUME NEW i \in 1 .. n + 1, NEW j \in 1 .. n + 1, i < j PROVE w[i] < w[j] BY <2>8
    <3>1. i \in 1 .. n BY DEF Nat
    <3>2. CASE j = n + 1 BY <2>8, <2>9, <3>1, <3>2
    <3>3. CASE j # n + 1
      <4>1. j \in 1 .. n BY <3>3
      <4> QED BY <2>3, <2>6, <2>8, <3>1, <4>1
    <3> QED BY <3>2, <3>3
  <2>11. \A i \in DOMAIN w : \A bit \in rest : w[i] < bit \div STRIDE
    <3> SUFFICES ASSUME NEW i \in 1 .. n + 1, NEW bit \in rest PROVE w[i] < bit \div STRIDE BY <2>8
    <3>1. CASE i = n + 1 BY <2>5, <2>8, <3>1
    <3>2. CASE i # n + 1
      <4>1. i \in 1 .. n /\ bit \in mask BY <2>5, <3>2
      <4> QED BY <2>3, <2>6, <2>8, <4>1
    <3> QED BY <3>1, <3>2
  <2>12. ToSet(w) = ToSet(v) \cup {l}
    <3>1. \A i \in 1 .. n + 1 : i \in 1 .. n \/ i = n + 1 OBVIOUS
    <3>2. n + 1 \in 1 .. n + 1 /\ 1 .. n \subseteq 1 .. n + 1 OBVIOUS
    <3> QED BY <2>8, <3>1, <3>2 DEF ToSet
  <2>13. ToSet(w) \cup LanesOf(rest) = ToSet(visited) \cup LanesOf(mask) BY <2>5, <2>6, <2>12
  <2>14. Answers(ToSet(w) \cup LanesOf(rest)) BY <2>3, <2>13
  <2>15. visited' = w /\ mask' = rest BY <2>1, <2>4, <2>6, <2>7
  <2>16. (LanesOf(mask))' = LanesOf(rest) BY <2>2, <2>15 DEF LanesOf
  <2>17. (ToSet(visited) \cup LanesOf(mask))' = ToSet(w) \cup LanesOf(rest) BY <2>15, <2>16
  <2>18. (Answers(ToSet(visited) \cup LanesOf(mask)))'
    BY <2>1, <2>14, <2>17 DEF Answers, Asked, MadeUp
  <2>19. mask' \subseteq Nat BY <2>3, <2>5, <2>15
  <2> QED BY <2>1, <2>2, <2>3, <2>8, <2>10, <2>11, <2>15, <2>18, <2>19 DEF Walked
<1> QED BY <1>1, <1>2 DEF GroupNext

\* The walk's invariant, of BitMask::next on the three builds.
THEOREM WalkKept == GroupSpec => []Walked
BY WalkedInit, WalkedStep, PTL DEF GroupSpec

\* A probe visits every lane it asks for, once and in order; what it visits
\* besides holds a hash, so a search for EMPTY or for a free lane is exact: of
\* match_byte, match_free and BitMask::next in group.rs, whatever the size of a
\* group and of a control byte.
THEOREM Lanes == GroupSpec => []LanesOnce
<1>1. Walked => LanesOnce
  <2> SUFFICES ASSUME Walked, mask = {} PROVE LanesOnce BY DEF LanesOnce
  <2>1. LanesOf(mask) = {} BY DEF LanesOf
  <2>2. Answers(ToSet(visited)) BY <2>1 DEF Walked
  <2> QED BY <2>2 DEF Walked, Answers, Asked, MadeUp, LanesOnce
<1> QED BY <1>1, WalkKept, PTL
=============================================================================
