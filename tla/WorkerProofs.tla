---------------------------- MODULE WorkerProofs ----------------------------
(***************************************************************************)
(* Proofs about Worker for any number of clients and listeners and any     *)
(* size of ring: slots and the error that is never met (TypeCorrect), one  *)
(* operation in flight for everybody (Single), and events handled for whom *)
(* they were about (Meant).                                                *)
(***************************************************************************)
EXTENDS Worker, SequenceTheorems, FiniteSetTheorems, TLAPS

-----------------------------------------------------------------------------
(* The inductive invariant. *)

Serving == pc \notin {"closing", "stopped"}

\* Where the thread is says what it has in hand.
Control ==
  /\ target \in Targets /\ loop \in {None, "epoll", "kqueue", "ring"}
  /\ pc \in {"boot", "wait", "reap", "batch", "closing", "stopped"}
  /\ loop = None => pc \in {"boot", "stopped"}
  /\ loop \in {"epoll", "kqueue"} => pc \in {"wait", "batch", "closing", "stopped"}
  /\ loop # "ring" \/ pc \in {"wait", "reap"} => todo = <<>> /\ done = <<>> /\ arriving = None
  /\ pc = "boot" => done = <<>> /\ arriving = None
  /\ loop \notin {"epoll", "kqueue"} \/ pc \in {"wait", "stopped"} => ready = <<>>
  /\ loop = None \/ pc \in {"boot", "stopped"} => conns = <<>>
  /\ todo \in Seq([kind : {"tick", "accept", "recv", "send"}, index : Nat, who : Clients \cup {None}])
  /\ arriving \in Clients \cup {None}
  /\ \E V : done \in Seq(V)

\* Empty slots are listed, once each; clients sit in one slot each.
Slotted ==
  /\ conns \in Seq(Clients \cup {None}) /\ free \in Seq(Nat) /\ owing \subseteq Held
  /\ \A j \in 1..Len(free) : free[j] + 1 \in 1..Len(conns) /\ conns[free[j] + 1] = None
  /\ \A i \in 1..Len(conns) : conns[i] = None => \E j \in 1..Len(free) : free[j] = i - 1
  /\ \A i, j \in 1..Len(free) : free[i] = free[j] => i = j
  /\ \A i, j \in 1..Len(conns) : conns[i] = conns[j] /\ conns[i] # None => i = j

\* The positions of the two queues, and what is between them.
Posting == Between(cq_head, cq_tail)
SubQ ==
  /\ sq_head \in 0 .. WRAP - 1 /\ pending \in 0 .. ENTRIES /\ tail = (sq_head + pending) % WRAP
  /\ DOMAIN sqes = 0 .. ENTRIES - 1
ComQ ==
  /\ cq_head \in 0 .. WRAP - 1 /\ cq_tail \in 0 .. WRAP - 1 /\ Posting \in 0 .. CQ_ENTRIES
  /\ DOMAIN cqes = 0 .. CQ_ENTRIES - 1
Positions ==
  /\ SubQ /\ ComQ
  /\ tries \in 0 .. 1 /\ (tries = 1 => pending < ENTRIES)
  /\ IsFiniteSet(kernel)
  /\ loop # "ring" \/ ~Serving => kernel = {} /\ pending = 0 /\ cq_head = cq_tail

\* Clients that wait, whose accept is posted, whose accept is read.
Waiting == {c \in Clients : \E l \in Ports : c \in queue[l]}
Landed == {c \in Clients : \E i \in Posted : cqes[i].res = c}
Heard == {c \in Clients : \E i \in 1..Len(done) : done[i].res = c}

LandedOnce == \A i, j \in Posted : cqes[i].res = cqes[j].res /\ cqes[i].res \in Clients => i = j
HeardOnce == \A i, j \in 1..Len(done) : done[i].res = done[j].res /\ done[i].res \in Clients => i = j

\* Five sets that share nothing.
Disjoint5(a, b, c, d, e) ==
  /\ a \cap b = {} /\ a \cap c = {} /\ a \cap d = {} /\ a \cap e = {}
  /\ b \cap c = {} /\ b \cap d = {} /\ b \cap e = {}
  /\ c \cap d = {} /\ c \cap e = {} /\ d \cap e = {}

\* A client waits at one listener.
Queued ==
  /\ came \subseteq Clients /\ queue \in [Ports -> SUBSET came]
  /\ \A l, m \in Ports : l # m => queue[l] \cap queue[m] = {}

\* A client is in one place.
OnePlace ==
  /\ Queued
  /\ LandedOnce /\ HeardOnce
  /\ Disjoint5(Waiting, Landed, Heard, {arriving} \ {None}, Held)
  /\ Landed \cup Heard \cup ({arriving} \ {None}) \cup Held \subseteq came

\* On a poller: what is registered is what is seated, at its slot's token.
Registered ==
  /\ loop = None => DOMAIN watch = Clients /\ \A c \in Clients : watch[c] = None
  /\ loop \in {"epoll", "kqueue"} /\ pc # "stopped" =>
       /\ DOMAIN watch = Clients
       /\ \A c \in Clients : watch[c] # None =>
            /\ watch[c] \in [token : Nat, write : BOOLEAN] /\ watch[c].token >= LISTENERS
            /\ watch[c].token - LISTENERS + 1 \in 1..Len(conns)
            /\ conns[watch[c].token - LISTENERS + 1] = c
       /\ \A c \in Clients : c \in Held => watch[c] # None

\* Events name slots there are; on epoll, for as long as they wait, the slots of
\* those they are about, and none the slot of another.
Events ==
  /\ \E V : ready \in Seq(V)
  /\ \A i \in 1..Len(ready) : /\ ready[i].token \in Nat
                              /\ ready[i].token >= LISTENERS => ready[i].token - LISTENERS + 1 \in 1..Len(conns)
  /\ loop = "epoll" =>
       /\ \A i \in 1..Len(ready) : ready[i].token >= LISTENERS =>
            ready[i].who \in Clients /\ conns[ready[i].token - LISTENERS + 1] = ready[i].who
       /\ \A i, j \in 1..Len(ready) : ready[i].token = ready[j].token => i = j

\* What is submitted, posted, read and about to be submitted.
Asked == {sqes[i] : i \in Submitted}
Told == {cqes[i].op : i \in Posted}
Read == {done[i].op : i \in 1..Len(done)}
Wanted == {todo[i] : i \in 1..Len(todo)}

AskedOnce == \A i, j \in Submitted : sqes[i] = sqes[j] => i = j
ToldOnce == \A i, j \in Posted : cqes[i].op = cqes[j].op => i = j
ReadOnce == \A i, j \in 1..Len(done) : done[i].op = done[j].op => i = j
WantedOnce == \A i, j \in 1..Len(todo) : todo[i] = todo[j] => i = j

\* The operation of the connection in the i-th slot, and all there should be.
Mine(i) == [kind |-> IF conns[i] \in owing THEN "send" ELSE "recv", index |-> i - 1, who |-> conns[i]]
Seats == {i \in 1..Len(conns) : conns[i] # None}
Expected == {Tick} \cup {Accept(l) : l \in Ports} \cup {Mine(i) : i \in Seats}

\* On the ring each of them is in one place, and nothing else is.
Flight ==
  loop = "ring" /\ Serving =>
    /\ Disjoint5(Asked, kernel, Told, Read, Wanted)
    /\ Asked \cup kernel \cup Told \cup Read \cup Wanted = Expected
    /\ AskedOnce /\ ToldOnce /\ ReadOnce /\ WantedOnce

IInv ==
  /\ Control /\ Slotted /\ Positions /\ OnePlace /\ Registered /\ Events /\ Flight

-----------------------------------------------------------------------------
(* Positions that wrap. *)

\* A remainder, and that there is only one.
LEMMA ModIs ==
  ASSUME NEW x \in Int, NEW n \in Nat, n > 0
  PROVE  /\ x % n \in 0 .. n - 1
         /\ \E q \in Int : x = n * q + (x % n)
<1>1. x % n \in 0 .. n - 1 OBVIOUS
<1>2. x \div n \in Int /\ x = n * (x \div n) + (x % n) OBVIOUS
<1> QED BY <1>1, <1>2

\* A quotient and a remainder are the only ones.
LEMMA ModUnique ==
  ASSUME NEW n \in Nat, n > 0, NEW q \in Int, NEW r \in 0 .. n - 1, NEW p \in Int, NEW s \in 0 .. n - 1,
         n * q + r = n * p + s
  PROVE  q = p /\ r = s
<1>1. CASE q < p
  <2>1. n * q + n <= n * p BY <1>1
  <2> QED BY <2>1
<1>2. CASE p < q
  <2>1. n * p + n <= n * q BY <1>2
  <2> QED BY <2>1
<1>3. CASE p = q BY <1>3
<1> QED BY <1>1, <1>2, <1>3

\* What leaves a remainder leaves it.
LEMMA ModOf ==
  ASSUME NEW x \in Int, NEW n \in Nat, n > 0, NEW q \in Int, NEW r \in 0 .. n - 1, x = n * q + r
  PROVE  x % n = r
<1>1. PICK s \in 0 .. n - 1 : s = x % n BY ModIs
<1>2. PICK p \in Int : x = n * p + s BY <1>1, ModIs
<1> QED BY <1>1, <1>2, ModUnique

\* Wrapping does not change the place in an array whose size divides the wrap.
LEMMA ModMod ==
  ASSUME NEW x \in Int, NEW w \in Nat, w > 0, NEW e \in Nat, e > 0, w % e = 0
  PROVE  (x % w) % e = x % e
<1>1. PICK a \in 0 .. w - 1 : a = x % w BY ModIs
<1>2. PICK q \in Int : x = w * q + a BY <1>1, ModIs
<1>3. PICK m \in Int : w = e * m
  <2>1. PICK z \in Int : z = w BY w \in Int
  <2>2. PICK p \in Int : z = e * p + (z % e) BY <2>1, ModIs
  <2>3. e * p + 0 = e * p BY <2>2
  <2> QED BY <2>1, <2>2, <2>3
<1>4. PICK r \in 0 .. e - 1 : r = a % e BY <1>1, ModIs
<1>5. PICK p \in Int : a = e * p + r BY <1>1, <1>4, ModIs
<1>6. x = e * (m * q + p) + r
  <2>1. w * q = e * (m * q) BY <1>3, <1>2
  <2>2. m * q \in Int BY <1>2, <1>3
  <2>3. e * (m * q + p) = e * (m * q) + e * p BY <2>2, <1>5
  <2> QED BY <1>2, <1>5, <2>1, <2>3
<1>7. m * q + p \in Int BY <1>2, <1>3, <1>5
<1> QED BY <1>1, <1>4, <1>6, <1>7, ModOf

\* Steps from a wrapped position.
LEMMA ModStep ==
  ASSUME NEW x \in Int, NEW k \in Int, NEW w \in Nat, w > 0
  PROVE  ((x % w) + k) % w = (x + k) % w
<1>1. PICK a \in 0 .. w - 1 : a = x % w BY ModIs
<1>2. PICK q \in Int : x = w * q + a BY <1>1, ModIs
<1>3. PICK r \in 0 .. w - 1 : r = (a + k) % w BY <1>1, ModIs
<1>4. PICK p \in Int : a + k = w * p + r BY <1>1, <1>3, ModIs
<1>5. x + k = w * (q + p) + r
  <2>1. w * (q + p) = w * q + w * p BY <1>2, <1>4
  <2> QED BY <1>2, <1>4, <2>1
<1>6. x + k \in Int /\ q + p \in Int BY <1>2, <1>4
<1>7. (x + k) % w = r BY <1>5, <1>6, ModOf
<1> QED BY <1>1, <1>3, <1>7

\* Fewer steps than the array has places do not come round.
LEMMA ModApart ==
  ASSUME NEW h \in Int, NEW e \in Nat, e > 0, NEW j \in Int, NEW k \in Int,
         j - k < e, k - j < e, (h + j) % e = (h + k) % e
  PROVE  j = k
<1>1. PICK r \in 0 .. e - 1 : r = (h + j) % e BY ModIs
<1>2. PICK p \in Int : h + j = e * p + r BY <1>1, ModIs
<1>3. PICK q \in Int : h + k = e * q + r BY <1>1, ModIs
<1>4. j - k = e * p - e * q BY <1>2, <1>3
<1>5. CASE p < q
  <2>1. e * p + e <= e * q BY <1>5
  <2> QED BY <1>4, <2>1
<1>6. CASE q < p
  <2>1. e * q + e <= e * p BY <1>6
  <2> QED BY <1>4, <2>1
<1>7. CASE p = q BY <1>4, <1>7
<1> QED BY <1>5, <1>6, <1>7

\* How far apart two positions are.
LEMMA ModBetween ==
  ASSUME NEW w \in Nat, w > 0, NEW h \in 0 .. w - 1, NEW p \in 0 .. w - 1
  PROVE  (((h + p) % w) - h) % w = p
<1>1. PICK r \in 0 .. w - 1 : r = (h + p) % w BY ModIs
<1>2. PICK q \in Int : h + p = w * q + r BY <1>1, ModIs
<1>3. r - h = w * (0 - q) + p
  <2>1. w * (0 - q) = 0 - w * q BY <1>2
  <2> QED BY <1>2, <2>1
<1>4. 0 - q \in Int /\ r - h \in Int BY <1>2
<1> QED BY <1>1, <1>3, <1>4, ModOf

\* A tail is its head and what is between them, across the wrap too.
LEMMA ModBack ==
  ASSUME NEW w \in Nat, w > 0, NEW h \in 0 .. w - 1, NEW t \in 0 .. w - 1
  PROVE  t = (h + ((t - h) % w)) % w
<1>5. PICK z \in Int : z = t - h OBVIOUS
<1>1. PICK p \in 0 .. w - 1 : p = z % w BY ModIs
<1>2. PICK q \in Int : z = w * q + p BY <1>1, ModIs
<1>3. h + p = w * (0 - q) + t
  <2>1. w * (0 - q) = 0 - w * q BY <1>2
  <2> QED BY <1>2, <1>5, <2>1
<1>4. 0 - q \in Int /\ h + p \in Int BY <1>2
<1>6. t = (h + p) % w BY <1>3, <1>4, ModOf
<1> QED BY <1>1, <1>5, <1>6

-----------------------------------------------------------------------------
(* The two queues. *)

\* The k-th place from h, in the submissions and in the completions.
Spot(h, k) == (h + k) % ENTRIES
Cell(h, k) == (h + k) % CQ_ENTRIES

\* The sizes.
LEMMA Sizes ==
  /\ ENTRIES \in Nat /\ ENTRIES > 0 /\ CQ_ENTRIES \in Nat /\ CQ_ENTRIES > 0 /\ WRAP \in Nat /\ WRAP > 0
  /\ ENTRIES < WRAP /\ CQ_ENTRIES < WRAP /\ WRAP % ENTRIES = 0 /\ WRAP % CQ_ENTRIES = 0
<1>1. ENTRIES \in Nat \ {0} /\ CQ_ENTRIES \in Nat \ {0} /\ WRAP \in Nat \ {0} BY RingAssumption
<1> QED BY <1>1, RingAssumption

\* A position's place, wrapped or not; and places that differ.
LEMMA SpotAt ==
  ASSUME NEW h \in Int, NEW k \in Int
  PROVE  After(h, k) % ENTRIES = Spot(h, k) /\ Spot(h, k) \in 0 .. ENTRIES - 1
<1>1. PICK x \in Int : x = h + k OBVIOUS
<1>2. (x % WRAP) % ENTRIES = x % ENTRIES BY Sizes, ModMod
<1>3. x % ENTRIES \in 0 .. ENTRIES - 1 BY Sizes, ModIs
<1> QED BY <1>1, <1>2, <1>3 DEF After, Spot

\* Two entries closer than the ring is long are different entries.
LEMMA SpotApart ==
  ASSUME NEW h \in Int, NEW j \in Int, NEW k \in Int,
         j - k < ENTRIES, k - j < ENTRIES, Spot(h, j) = Spot(h, k)
  PROVE  j = k
BY Sizes, ModApart DEF Spot

\* Entries counted from a head that has moved on.
LEMMA SpotFrom ==
  ASSUME NEW h \in Int, NEW n \in Int, NEW k \in Int
  PROVE  Spot(After(h, n), k) = Spot(h, n + k)
<1>1. PICK x \in Int : x = h + n OBVIOUS
<1>2. PICK y \in Int : y = x % WRAP BY Sizes, ModIs
<1>3. ((y % ENTRIES) + k) % ENTRIES = (y + k) % ENTRIES BY Sizes, ModStep
<1>4. ((x % ENTRIES) + k) % ENTRIES = (x + k) % ENTRIES BY Sizes, ModStep
<1>5. y % ENTRIES = x % ENTRIES BY <1>2, Sizes, ModMod
<1>6. (x + k) = h + (n + k) BY <1>1
<1> QED BY <1>1, <1>2, <1>3, <1>4, <1>5, <1>6 DEF After, Spot

\* Where the k-th completion after a head is.
LEMMA CellAt ==
  ASSUME NEW h \in Int, NEW k \in Int
  PROVE  After(h, k) % CQ_ENTRIES = Cell(h, k) /\ Cell(h, k) \in 0 .. CQ_ENTRIES - 1
<1>1. PICK x \in Int : x = h + k OBVIOUS
<1>2. (x % WRAP) % CQ_ENTRIES = x % CQ_ENTRIES BY Sizes, ModMod
<1>3. x % CQ_ENTRIES \in 0 .. CQ_ENTRIES - 1 BY Sizes, ModIs
<1> QED BY <1>1, <1>2, <1>3 DEF After, Cell

\* Two completions closer than their queue is long are different ones.
LEMMA CellApart ==
  ASSUME NEW h \in Int, NEW j \in Int, NEW k \in Int,
         j - k < CQ_ENTRIES, k - j < CQ_ENTRIES, Cell(h, j) = Cell(h, k)
  PROVE  j = k
BY Sizes, ModApart DEF Cell

\* What is between head and tail is what is pending; and which places that is.
LEMMA RoomIs ==
  ASSUME SubQ
  PROVE  /\ Between(sq_head, tail) = pending /\ (Room <=> pending < ENTRIES)
         /\ sq_head \in Nat /\ sq_head < WRAP /\ pending \in Nat /\ pending <= ENTRIES
<1>1. sq_head \in 0 .. WRAP - 1 /\ pending \in 0 .. ENTRIES /\ tail = (sq_head + pending) % WRAP BY DEF SubQ
<1>2. pending \in 0 .. WRAP - 1 BY <1>1, Sizes
<1>3. (((sq_head + pending) % WRAP) - sq_head) % WRAP = pending BY <1>1, <1>2, Sizes, ModBetween
<1>4. Between(sq_head, tail) = pending BY <1>1, <1>3 DEF Between
<1> QED BY <1>1, <1>4, Sizes DEF Room

\* What is submitted: the entries after the head, as many as are pending.
LEMMA SubmittedIs ==
  ASSUME SubQ
  PROVE  \A i : i \in Submitted <=> \E k \in 0 .. pending - 1 : i = Spot(sq_head, k)
<1>1. sq_head \in Int /\ pending \in Int BY RoomIs
<1>2. \A k \in 0 .. pending - 1 : /\ After(sq_head, k) % ENTRIES = Spot(sq_head, k)
                                  /\ Spot(sq_head, k) \in 0 .. ENTRIES - 1
  BY <1>1, SpotAt
<1> QED BY <1>2 DEF Submitted

\* What is posted: the completions between head and tail.
LEMMA PostedIs ==
  ASSUME ComQ
  PROVE  \A i : i \in Posted <=> \E k \in 0 .. Posting - 1 : i = Cell(cq_head, k)
<1>1. cq_head \in Int /\ Posting \in Int BY Sizes DEF ComQ
<1>2. \A k \in 0 .. Posting - 1 : /\ After(cq_head, k) % CQ_ENTRIES = Cell(cq_head, k)
                                  /\ Cell(cq_head, k) \in 0 .. CQ_ENTRIES - 1
  BY <1>1, CellAt
<1> QED BY <1>2 DEF Posted, Posting

\* Writing an operation adds it to what is submitted.
LEMMA PutIs ==
  ASSUME SubQ, AskedOnce, pending < ENTRIES, NEW op, op \notin Asked, Put(op)
  PROVE  /\ SubQ' /\ AskedOnce' /\ Asked' = Asked \cup {op} /\ pending' = pending + 1
         /\ sq_head' = sq_head
<1>1. PICK h \in Int, p \in Int :
        h = sq_head /\ p = pending /\ h \in Nat /\ p \in Nat /\ h < WRAP /\ p < ENTRIES
  BY RoomIs
<1>2. PICK z \in 0 .. ENTRIES - 1 : z = Spot(h, p) BY SpotAt
<1>3. tail = (h + p) % WRAP BY <1>1 DEF SubQ
<1>4. tail % ENTRIES = z
  <2>1. After(h, p) % ENTRIES = Spot(h, p) BY SpotAt
  <2> QED BY <1>2, <1>3, <2>1 DEF After
<1>5. sqes' = [sqes EXCEPT ![z] = op] /\ tail' = After(tail, 1) /\ pending' = p + 1 /\ sq_head' = h
  BY <1>1, <1>4 DEF Put
<1>6. SubQ'
  <2>1. (((h + p) % WRAP) + 1) % WRAP = ((h + p) + 1) % WRAP BY <1>1, Sizes, ModStep
  <2>2. (h + p) + 1 = h + (p + 1) BY <1>1
  <2>3. tail' = (sq_head' + pending') % WRAP BY <1>3, <1>5, <2>1, <2>2 DEF After
  <2>4. sq_head' \in 0 .. WRAP - 1 /\ pending' \in 0 .. ENTRIES BY <1>1, <1>5, Sizes
  <2>5. DOMAIN sqes' = 0 .. ENTRIES - 1 BY <1>5 DEF SubQ
  <2> QED BY <2>3, <2>4, <2>5 DEF SubQ
<1>7. \A i : i \in Submitted <=> \E k \in 0 .. p - 1 : i = Spot(h, k) BY <1>1, SubmittedIs
<1>8. \A i : i \in Submitted' <=> \E k \in 0 .. p : i = Spot(h, k)
  <2>1. \A i : i \in Submitted' <=> \E k \in 0 .. pending' - 1 : i = Spot(h, k)
    <3>1. \A k \in Int : After(h, k) % ENTRIES = Spot(h, k) /\ Spot(h, k) \in 0 .. ENTRIES - 1 BY SpotAt
    <3> QED BY <1>5, <3>1 DEF Submitted
  <2>2. pending' - 1 = p BY <1>1, <1>5
  <2> QED BY <2>1, <2>2
<1>9. z \notin Submitted
  <2> SUFFICES ASSUME NEW k \in 0 .. p - 1, z = Spot(h, k) PROVE FALSE BY <1>7
  <2>1. k \in Int /\ p - k < ENTRIES /\ k - p < ENTRIES /\ k # p BY <1>1, Sizes
  <2> QED BY <1>2, <2>1, SpotApart
<1>10. Submitted' = Submitted \cup {z}
  <2>1. \A k \in 0 .. p : k \in 0 .. p - 1 \/ k = p BY <1>1
  <2>2. \A k \in 0 .. p - 1 : k \in 0 .. p BY <1>1
  <2>3. p \in 0 .. p BY <1>1
  <2> QED BY <1>2, <1>7, <1>8, <2>1, <2>2, <2>3
<1>11. /\ sqes'[z] = op /\ \A i \in Submitted : i # z /\ sqes'[i] = sqes[i]
  <2>1. Submitted \subseteq 0 .. ENTRIES - 1 BY DEF Submitted
  <2> QED BY <1>2, <1>5, <1>9, <2>1 DEF SubQ
<1>12. Asked' = Asked \cup {op} BY <1>10, <1>11 DEF Asked
<1>13. AskedOnce'
  <2> SUFFICES ASSUME NEW i \in Submitted', NEW j \in Submitted', sqes'[i] = sqes'[j] PROVE i = j BY DEF AskedOnce
  <2>1. \A x \in Submitted : sqes[x] # op BY DEF Asked
  <2> QED BY <1>10, <1>11, <2>1 DEF AskedOnce
<1> QED BY <1>1, <1>5, <1>6, <1>12, <1>13

\* The kernel takes some of what is submitted, and at least one if there is one.
LEMMA SubmitIs ==
  ASSUME SubQ, AskedOnce, IsFiniteSet(kernel), Submit
  PROVE  /\ SubQ' /\ AskedOnce' /\ IsFiniteSet(kernel')
         /\ pending' <= pending /\ (pending > 0 => pending' < pending)
         /\ \E G : G \subseteq Asked /\ kernel' = kernel \cup G /\ Asked' = Asked \ G
<1>1. PICK h \in Int, p \in Int :
        h = sq_head /\ p = pending /\ h \in Nat /\ p \in Nat /\ h < WRAP /\ p <= ENTRIES
  BY RoomIs
<1>2. PICK n \in (IF pending = 0 THEN 0 ELSE 1) .. pending :
        /\ kernel' = kernel \cup Offered(n)
        /\ sqes' = [i \in 0 .. ENTRIES - 1 |->
                      IF \E k \in 0 .. n - 1 : i = After(sq_head, k) % ENTRIES THEN None ELSE sqes[i]]
        /\ sq_head' = After(sq_head, n) /\ pending' = pending - n /\ tail' = tail
  BY DEF Submit
<1>3. n \in Nat /\ n <= p /\ (p > 0 => n > 0) BY <1>1, <1>2
<1>4. \A k \in Int : After(h, k) % ENTRIES = Spot(h, k) /\ Spot(h, k) \in 0 .. ENTRIES - 1 BY SpotAt
<1>5. PICK g \in 0 .. WRAP - 1 : g = After(h, n) /\ sq_head' = g
  <2>1. (h + n) % WRAP \in 0 .. WRAP - 1 BY <1>1, <1>3, Sizes, ModIs
  <2> QED BY <1>1, <1>2, <2>1 DEF After
<1>6. PICK q \in Nat : q = p - n /\ pending' = q BY <1>1, <1>2, <1>3
<1>7. \A k \in Int : After(g, k) % ENTRIES = Spot(g, k) /\ Spot(g, k) = Spot(h, n + k)
  <2> SUFFICES ASSUME NEW k \in Int PROVE After(g, k) % ENTRIES = Spot(g, k) /\ Spot(g, k) = Spot(h, n + k)
    OBVIOUS
  <2>1. g \in Int /\ n \in Int BY <1>3, Sizes
  <2>2. Spot(After(h, n), k) = Spot(h, n + k) BY <2>1, SpotFrom
  <2> QED BY <1>5, <2>1, <2>2, SpotAt
<1>8. SubQ'
  <2>1. tail = (h + p) % WRAP BY <1>1 DEF SubQ
  <2>7. PICK x \in Int : x = h + n BY <1>3
  <2>8. ((x % WRAP) + q) % WRAP = (x + q) % WRAP BY q \in Int, Sizes, ModStep
  <2>2. (((h + n) % WRAP) + q) % WRAP = ((h + n) + q) % WRAP BY <2>7, <2>8
  <2>3. (h + n) + q = h + p BY <1>1, <1>3, <1>6
  <2>4. tail' = (sq_head' + pending') % WRAP BY <1>2, <1>5, <1>6, <2>1, <2>2, <2>3 DEF After
  <2>5. pending' \in 0 .. ENTRIES BY <1>1, <1>3, <1>6, Sizes
  <2>6. DOMAIN sqes' = 0 .. ENTRIES - 1 BY <1>2
  <2> QED BY <1>5, <2>4, <2>5, <2>6 DEF SubQ
<1> DEFINE T == {Spot(h, k) : k \in 0 .. n - 1}
           U == {Spot(h, k) : k \in n .. p - 1}
<1>9. Submitted = T \cup U
  <2>1. \A i : i \in Submitted <=> \E k \in 0 .. p - 1 : i = Spot(h, k) BY <1>1, SubmittedIs
  <2>2. \A k : k \in 0 .. p - 1 <=> k \in 0 .. n - 1 \/ k \in n .. p - 1 BY <1>1, <1>3
  <2> QED BY <2>1, <2>2
<1>10. Submitted' = U
  <2>1. \A i : i \in Submitted' <=> \E k \in 0 .. q - 1 : i = Spot(h, n + k)
    <3>1. \A k \in 0 .. q - 1 : After(sq_head', k) % ENTRIES = Spot(h, n + k) /\ Spot(h, n + k) \in 0 .. ENTRIES - 1
      <4> SUFFICES ASSUME NEW k \in 0 .. q - 1
                   PROVE  After(sq_head', k) % ENTRIES = Spot(h, n + k) /\ Spot(h, n + k) \in 0 .. ENTRIES - 1
        OBVIOUS
      <4>1. k \in Int /\ n + k \in Int BY <1>3
      <4> QED BY <1>4, <1>5, <1>7, <4>1
    <3> QED BY <1>6, <3>1 DEF Submitted
  <2>2. \A k \in 0 .. q - 1 : n + k \in n .. p - 1 BY <1>1, <1>3, <1>6
  <2>3. \A k \in n .. p - 1 : k - n \in 0 .. q - 1 /\ n + (k - n) = k BY <1>1, <1>3, <1>6
  <2>4. \A i : i \in Submitted' => i \in U BY <2>1, <2>2
  <2>5. \A i : i \in U => i \in Submitted' BY <2>1, <2>3
  <2> QED BY <2>4, <2>5
<1>11. T \cap U = {}
  <2> SUFFICES ASSUME NEW j \in 0 .. n - 1, NEW k \in n .. p - 1, Spot(h, j) = Spot(h, k) PROVE FALSE
    OBVIOUS
  <2>1. j \in Int /\ k \in Int /\ j - k < ENTRIES /\ k - j < ENTRIES /\ j # k BY <1>1, <1>3, Sizes
  <2> QED BY <2>1, SpotApart
<1>12. \A i : (\E k \in 0 .. n - 1 : i = After(sq_head, k) % ENTRIES) <=> i \in T BY <1>1, <1>3, <1>4
<1>13. Offered(n) = {sqes[i] : i \in T}
  <2>1. \A x : x \in Offered(n) <=> \E k \in 0 .. n - 1 : x = sqes[After(sq_head, k) % ENTRIES] BY DEF Offered
  <2>2. \A k \in 0 .. n - 1 : After(sq_head, k) % ENTRIES = Spot(h, k) BY <1>1, <1>3, <1>4
  <2> QED BY <2>1, <2>2
<1>14. T \subseteq 0 .. ENTRIES - 1 /\ U \subseteq 0 .. ENTRIES - 1
  <2>1. (\A k \in 0 .. n - 1 : k \in Int) /\ (\A k \in n .. p - 1 : k \in Int) BY <1>1, <1>3
  <2> QED BY <1>4, <2>1
<1>15. IsFiniteSet({sqes[i] : i \in T})
  <2>1. IsFiniteSet(0 .. ENTRIES - 1) BY Sizes, FS_Interval
  <2>2. IsFiniteSet(T) BY <1>14, <2>1, FS_Subset
  <2> HIDE DEF T
  <2>3. PICK f, V : f = [i \in T |-> sqes[i]] /\ V = {sqes[i] : i \in T} OBVIOUS
  <2>4. f \in Surjection(T, V) BY <2>3 DEF Surjection
  <2>5. IsFiniteSet(V) BY <2>2, <2>4, FS_Surjection
  <2> QED BY <2>3, <2>5
<1> HIDE DEF T, U
<1>16. \A i \in U : sqes'[i] = sqes[i]
  <2>1. \A i \in 0 .. ENTRIES - 1 : i \notin T => sqes'[i] = sqes[i] BY <1>2, <1>12
  <2> QED BY <1>11, <1>14, <2>1
<1>17. Asked = {sqes[i] : i \in T} \cup {sqes[i] : i \in U} /\ Asked' = {sqes[i] : i \in U}
  BY <1>9, <1>10, <1>16 DEF Asked
<1>18. {sqes[i] : i \in T} \cap {sqes[i] : i \in U} = {}
  <2> SUFFICES ASSUME NEW i \in T, NEW j \in U, sqes[i] = sqes[j] PROVE FALSE OBVIOUS
  <2> QED BY <1>9, <1>11 DEF AskedOnce
<1>19. AskedOnce' BY <1>9, <1>10, <1>16 DEF AskedOnce
<1>20. IsFiniteSet(kernel') BY <1>2, <1>13, <1>15, FS_Union
<1>21. pending' <= pending /\ (pending > 0 => pending' < pending) BY <1>1, <1>3, <1>6
<1>22. PICK G : G = {sqes[i] : i \in T} OBVIOUS
<1>23. G \subseteq Asked /\ kernel' = kernel \cup G /\ Asked' = Asked \ G
  BY <1>2, <1>13, <1>17, <1>18, <1>22
<1> QED BY <1>8, <1>19, <1>20, <1>21, <1>23

\* The completions there are.
LEMMA PostingIs ==
  ASSUME ComQ
  PROVE  /\ cq_head \in Int /\ cq_head \in 0 .. WRAP - 1 /\ Posting \in Int
         /\ Posting \in Nat /\ Posting <= CQ_ENTRIES /\ Posting < WRAP
         /\ cq_tail = (cq_head + Posting) % WRAP
<1>1. cq_head \in 0 .. WRAP - 1 /\ cq_tail \in 0 .. WRAP - 1 /\ Posting \in 0 .. CQ_ENTRIES BY DEF ComQ
<1>2. cq_tail = (cq_head + ((cq_tail - cq_head) % WRAP)) % WRAP BY <1>1, Sizes, ModBack
<1> QED BY <1>1, <1>2, Sizes DEF Posting, Between

\* A completion posted is one more, in a place that was empty.
LEMMA PostIs ==
  ASSUME ComQ, NEW op, NEW res, Post(op, res)
  PROVE  /\ ComQ' /\ kernel' = kernel \ {op} /\ UNCHANGED sq
         /\ \E z : /\ z \notin Posted /\ Posted' = Posted \cup {z}
                   /\ cqes'[z].op = op /\ cqes'[z].res = res
                   /\ \A i \in Posted : cqes'[i] = cqes[i]
<1>1. PICK h \in Int, p \in Int :
        /\ h = cq_head /\ p = Posting /\ h \in 0 .. WRAP - 1 /\ p \in Nat
        /\ p < CQ_ENTRIES /\ cq_tail = (h + p) % WRAP
  <2>1. Posting < CQ_ENTRIES BY DEF Post, Posting
  <2> QED BY <2>1, PostingIs
<1>2. PICK z \in 0 .. CQ_ENTRIES - 1 : z = Cell(h, p) BY CellAt
<1>3. cq_tail % CQ_ENTRIES = z
  <2>1. After(h, p) % CQ_ENTRIES = Cell(h, p) BY CellAt
  <2> QED BY <1>1, <1>2, <2>1 DEF After
<1>4. /\ cqes' = [cqes EXCEPT ![z] = [op |-> op, res |-> res]] /\ cq_tail' = After(cq_tail, 1) /\ cq_head' = h
      /\ kernel' = kernel \ {op} /\ UNCHANGED sq
  BY <1>1, <1>3 DEF Post
<1>5. PICK v \in Int : v = p + 1 /\ v \in 0 .. WRAP - 1 /\ v \in 0 .. CQ_ENTRIES BY <1>1, Sizes
<1>6. cq_tail' = (h + v) % WRAP
  <2>1. PICK x \in Int : x = h + p OBVIOUS
  <2>2. ((x % WRAP) + 1) % WRAP = (x + 1) % WRAP
    <3>1. PICK o \in Int : o = 1 OBVIOUS
    <3>2. ((x % WRAP) + o) % WRAP = (x + o) % WRAP BY Sizes, ModStep
    <3> QED BY <3>1, <3>2
  <2>3. x + 1 = h + v BY <1>5, <2>1
  <2> QED BY <1>1, <1>4, <2>1, <2>2, <2>3 DEF After
<1>7. Posting' = v
  <2>1. (((h + v) % WRAP) - h) % WRAP = v BY <1>1, <1>5, Sizes, ModBetween
  <2> QED BY <1>4, <1>6, <2>1 DEF Posting, Between
<1>8. ComQ'
  <2>1. PICK y \in Int : y = h + v OBVIOUS
  <2>2. y % WRAP \in 0 .. WRAP - 1 BY Sizes, ModIs
  <2>3. cq_tail' \in 0 .. WRAP - 1 BY <1>6, <2>1, <2>2
  <2>4. DOMAIN cqes' = 0 .. CQ_ENTRIES - 1 BY <1>4 DEF ComQ
  <2> QED BY <1>1, <1>4, <1>5, <1>7, <2>3, <2>4 DEF ComQ
<1>9. \A i : i \in Posted <=> \E k \in 0 .. p - 1 : i = Cell(h, k) BY <1>1, PostedIs
<1>10. \A i : i \in Posted' <=> \E k \in 0 .. p : i = Cell(h, k)
  <2>1. \A k \in Int : After(h, k) % CQ_ENTRIES = Cell(h, k) /\ Cell(h, k) \in 0 .. CQ_ENTRIES - 1 BY CellAt
  <2>2. Between(cq_head', cq_tail') - 1 = p BY <1>5, <1>7 DEF Posting
  <2>3. \A i : i \in Posted' <=> /\ i \in 0 .. CQ_ENTRIES - 1
                                 /\ \E k \in 0 .. p : i = After(h, k) % CQ_ENTRIES
    BY <1>4, <2>2 DEF Posted
  <2> QED BY <2>1, <2>3
<1>11. z \notin Posted
  <2> SUFFICES ASSUME NEW k \in 0 .. p - 1, z = Cell(h, k) PROVE FALSE BY <1>9
  <2>1. k \in Int /\ p - k < CQ_ENTRIES /\ k - p < CQ_ENTRIES /\ k # p BY <1>1, Sizes
  <2> QED BY <1>2, <2>1, CellApart
<1>12. Posted' = Posted \cup {z}
  <2>1. \A k \in 0 .. p : k \in 0 .. p - 1 \/ k = p BY <1>1
  <2>2. \A k \in 0 .. p - 1 : k \in 0 .. p BY <1>1
  <2>3. p \in 0 .. p BY <1>1
  <2> QED BY <1>2, <1>9, <1>10, <2>1, <2>2, <2>3
<1>13. /\ cqes'[z] = [op |-> op, res |-> res] /\ \A i \in Posted : cqes'[i] = cqes[i]
  <2>1. Posted \subseteq 0 .. CQ_ENTRIES - 1 BY DEF Posted
  <2> QED BY <1>2, <1>4, <1>11, <2>1 DEF ComQ
<1>14. cqes'[z].op = op /\ cqes'[z].res = res BY <1>13
<1> QED BY <1>4, <1>8, <1>11, <1>12, <1>13, <1>14

\* Reaping copies every completion once and leaves none.
LEMMA ReapIs ==
  ASSUME ComQ, done' = Reaped, reap
  PROVE  /\ ComQ' /\ UNCHANGED <<sq, kernel>> /\ Posted' = {} /\ cq_head' = cq_tail'
         /\ Len(done') \in Nat /\ (\E V : done' \in Seq(V))
         /\ \E at \in [1 .. Len(done') -> Posted] :
              /\ \A i \in 1 .. Len(done') : done'[i] = cqes[at[i]]
              /\ \A i, j \in 1 .. Len(done') : at[i] = at[j] => i = j
              /\ \A x \in Posted : \E i \in 1 .. Len(done') : at[i] = x
<1>1. PICK h \in Int, p \in Int :
        h = cq_head /\ p = Posting /\ h \in 0 .. WRAP - 1 /\ p \in Nat /\ p <= CQ_ENTRIES
  BY PostingIs
<1>2. /\ cq_head' = cq_tail /\ cq_tail' = cq_tail /\ UNCHANGED <<sq, kernel>>
      /\ cqes' = [i \in 0 .. CQ_ENTRIES - 1 |-> None]
  BY DEF reap
<1>3. Posting' = 0
  <2>1. cq_tail \in Int BY Sizes DEF ComQ
  <2>2. cq_tail - cq_tail = 0 BY <2>1
  <2>3. 0 % WRAP = 0 BY Sizes
  <2> QED BY <1>2, <2>2, <2>3 DEF Posting, Between
<1>4. ComQ' BY <1>2, <1>3, Sizes DEF ComQ
<1>5. Posted' = {}
  <2>1. Between(cq_head', cq_tail') - 1 = 0 - 1 BY <1>3 DEF Posting
  <2>2. \A k : ~(k \in 0 .. (0 - 1)) OBVIOUS
  <2>3. \A i : i \in Posted' <=> /\ i \in 0 .. CQ_ENTRIES - 1
                                 /\ \E k \in 0 .. (0 - 1) : i = After(cq_head', k) % CQ_ENTRIES
    BY <2>1 DEF Posted
  <2> QED BY <2>2, <2>3
<1>6. done' = [i \in 1 .. p |-> cqes[After(h, i - 1) % CQ_ENTRIES]] BY <1>1 DEF Reaped, Posting
<1>7. (\E V : done' \in Seq(V)) /\ Len(done') = p
  <2>1. PICK V : \A i \in 1 .. p : done'[i] \in V
    <3>1. PICK V : V = {done'[i] : i \in 1 .. p} OBVIOUS
    <3> QED BY <3>1
  <2>2. DOMAIN done' = 1 .. p BY <1>6
  <2>3. done' \in [1 .. p -> V] BY <1>6, <2>1
  <2>4. done' \in Seq(V) BY <1>1, <2>3
  <2>5. Len(done') = p BY <1>1, <2>2, <2>4
  <2> QED BY <2>4, <2>5
<1>8. PICK at : at = [i \in 1 .. p |-> Cell(h, i - 1)] OBVIOUS
<1>9. \A i : i \in Posted <=> \E k \in 0 .. p - 1 : i = Cell(h, k) BY <1>1, PostedIs
<1>10. at \in [1 .. p -> Posted]
  <2>1. \A i \in 1 .. p : i - 1 \in 0 .. p - 1 BY <1>1
  <2> QED BY <1>8, <1>9, <2>1
<1>11. \A i \in 1 .. p : done'[i] = cqes[at[i]]
  <2> SUFFICES ASSUME NEW i \in 1 .. p PROVE done'[i] = cqes[at[i]] OBVIOUS
  <2>1. PICK k \in Int : k = i - 1 BY <1>1
  <2>2. After(h, k) % CQ_ENTRIES = Cell(h, k) BY CellAt
  <2> QED BY <1>6, <1>8, <2>1, <2>2
<1>12. \A i, j \in 1 .. p : at[i] = at[j] => i = j
  <2> SUFFICES ASSUME NEW i \in 1 .. p, NEW j \in 1 .. p, at[i] = at[j] PROVE i = j OBVIOUS
  <2>1. PICK k \in Int, l \in Int : k = i - 1 /\ l = j - 1 BY <1>1
  <2>2. k - l < CQ_ENTRIES /\ l - k < CQ_ENTRIES BY <1>1, <2>1, Sizes
  <2>3. Cell(h, k) = Cell(h, l) BY <1>8, <2>1
  <2>4. k = l BY <2>2, <2>3, CellApart
  <2> QED BY <1>1, <2>1, <2>4
<1>13. \A x \in Posted : \E i \in 1 .. p : at[i] = x
  <2> SUFFICES ASSUME NEW x \in Posted PROVE \E i \in 1 .. p : at[i] = x OBVIOUS
  <2>1. PICK k \in 0 .. p - 1 : x = Cell(h, k) BY <1>9
  <2>2. k + 1 \in 1 .. p /\ (k + 1) - 1 = k BY <1>1
  <2> QED BY <1>8, <2>1, <2>2
<1>14. /\ at \in [1 .. Len(done') -> Posted]
       /\ \A i \in 1 .. Len(done') : done'[i] = cqes[at[i]]
       /\ \A i, j \in 1 .. Len(done') : at[i] = at[j] => i = j
       /\ \A x \in Posted : \E i \in 1 .. Len(done') : at[i] = x
  BY <1>7, <1>10, <1>11, <1>12, <1>13
<1>15. Len(done') \in Nat /\ (\E V : done' \in Seq(V)) BY <1>1, <1>7
<1>16. cq_head' = cq_tail' BY <1>2
<1> QED BY ONLY <1>2, <1>4, <1>5, <1>14, <1>15, <1>16

\* Nothing between the heads and the tails, nothing in the queues.
LEMMA Emptied ==
  /\ SubQ /\ pending = 0 => Submitted = {}
  /\ ComQ /\ cq_head = cq_tail => Posted = {}
<1>1. ASSUME SubQ, pending = 0 PROVE Submitted = {}
  <2>1. \A k : ~(k \in 0 .. pending - 1) BY <1>1
  <2> QED BY <2>1 DEF Submitted
<1>2. ASSUME ComQ, cq_head = cq_tail PROVE Posted = {}
  <2>1. cq_tail \in Int BY <1>2, Sizes DEF ComQ
  <2>2. cq_tail - cq_tail = 0 BY <2>1
  <2>3. 0 % WRAP = 0 BY Sizes
  <2>4. Between(cq_head, cq_tail) = 0 BY <1>2, <2>2, <2>3 DEF Between
  <2>5. \A k : ~(k \in 0 .. Between(cq_head, cq_tail) - 1) BY <2>4
  <2> QED BY <2>5 DEF Posted
<1> QED BY <1>1, <1>2

-----------------------------------------------------------------------------
(* Slots. *)

\* Who is held sits somewhere.
LEMMA HeldIs ==
  ASSUME conns \in Seq(Clients \cup {None})
  PROVE  \A c : c \in Held <=> c \in Clients /\ \E i \in 1..Len(conns) : conns[i] = c
<1>1. DOMAIN conns = 1..Len(conns) OBVIOUS
<1> QED BY <1>1 DEF Held

\* The last of a list, and the others.
LEMMA FrontIs ==
  ASSUME NEW S, NEW s \in Seq(S), s # <<>>
  PROVE  /\ Len(s) \in Nat /\ Len(s) > 0 /\ Last(s) = s[Len(s)] /\ Front(s) \in Seq(S)
         /\ Len(Front(s)) = Len(s) - 1 /\ \A i \in 1 .. Len(s) - 1 : Front(s)[i] = s[i]
<1>1. Len(s) \in Nat /\ Len(s) > 0 OBVIOUS
<1>2. Front(s) = SubSeq(s, 1, Len(s) - 1) /\ Last(s) = s[Len(s)] BY DEF Front, Last
<1>3. SubSeq(s, 1, Len(s) - 1) \in Seq(S) /\ Len(SubSeq(s, 1, Len(s) - 1)) = Len(s) - 1
  <2>1. PICK m \in Int, n \in Int : m = 1 /\ n = Len(s) - 1 BY <1>1
  <2>2. \A i \in m .. n : s[i] \in S BY <1>1, <2>1
  <2>3. /\ SubSeq(s, m, n) \in Seq(S)
        /\ Len(SubSeq(s, m, n)) = IF m <= n THEN n - m + 1 ELSE 0
    BY <2>2, SubSeqProperties
  <2> QED BY <1>1, <2>1, <2>3
<1>4. \A i \in 1 .. Len(s) - 1 : SubSeq(s, 1, Len(s) - 1)[i] = s[i] BY <1>1
<1> QED BY <1>1, <1>2, <1>3, <1>4

\* The empty slots and their list, without the rest.
Empties(cs, fs) ==
  /\ \A j \in 1..Len(fs) : fs[j] + 1 \in 1..Len(cs) /\ cs[fs[j] + 1] = None
  /\ \A i \in 1..Len(cs) : cs[i] = None => \E j \in 1..Len(fs) : fs[j] = i - 1
  /\ \A i, j \in 1..Len(fs) : fs[i] = fs[j] => i = j
Singly(cs) == \A i, j \in 1..Len(cs) : cs[i] = cs[j] /\ cs[i] # None => i = j

\* A newcomer is seated in a slot that was empty, or new.
LEMMA SeatedIs ==
  ASSUME Slotted, NEW c \in Clients, c \notin Held, Seated(c), owing' = owing
  PROVE  /\ Slotted' /\ Held' = Held \cup {c}
         /\ SlotFor \in Nat /\ SlotFor + 1 \in 1..Len(conns') /\ conns'[SlotFor + 1] = c
         /\ Len(conns) <= Len(conns')
         /\ \A i \in 1..Len(conns') : i = SlotFor + 1 \/ i \in 1..Len(conns)
         /\ \A i \in 1..Len(conns) : i \in 1..Len(conns') /\ (i # SlotFor + 1 => conns'[i] = conns[i])
         /\ SlotFor + 1 \in 1..Len(conns) => conns[SlotFor + 1] = None
<1> DEFINE S == Clients \cup {None}
<1>1. conns \in Seq(S) /\ free \in Seq(Nat) /\ owing \subseteq Held /\ c # None BY WorkerAssumption DEF Slotted
<1>2. Empties(conns, free) /\ Singly(conns) BY DEF Slotted, Empties, Singly
<1>3. PICK n \in Nat, m \in Nat : n = Len(conns) /\ m = Len(free) BY <1>1
<1>4. \A i \in 1..n : conns[i] # c BY <1>1, <1>3, HeldIs
<1>5. \E s \in Nat :
        /\ s = SlotFor /\ conns' \in Seq(S) /\ free' \in Seq(Nat) /\ s + 1 \in 1..Len(conns') /\ conns'[s + 1] = c
        /\ n <= Len(conns')
        /\ \A i \in 1..Len(conns') : i = s + 1 \/ i \in 1..n
        /\ \A i \in 1..n : i \in 1..Len(conns') /\ (i # s + 1 => conns'[i] = conns[i])
        /\ s + 1 \in 1..n => conns[s + 1] = None
        /\ Empties(conns', free')
  <2>1. CASE free = <<>>
    <3>1. m = 0 /\ SlotFor = n /\ conns' = Append(conns, c) /\ free' = free BY <1>3, <2>1 DEF SlotFor, Seated
    <3>2. conns' \in Seq(S) /\ Len(conns') = n + 1 /\ conns'[n + 1] = c /\ \A i \in 1..n : conns'[i] = conns[i]
      BY <1>1, <1>3, <3>1
    <3>3. \A i \in 1..(n + 1) : i = n + 1 \/ i \in 1..n BY <1>3
    <3>4. Empties(conns', free')
      <4>1. \A j : ~(j \in 1..m) BY <3>1
      <4>2. \A i \in 1..n : conns[i] # None BY <1>2, <1>3, <4>1 DEF Empties
      <4>3. \A i \in 1..(n + 1) : conns'[i] # None BY <1>1, <3>2, <3>3, <4>2
      <4> QED BY <1>3, <3>1, <3>2, <4>1, <4>3 DEF Empties
    <3>5. n + 1 \in 1..(n + 1) /\ ~(n + 1 \in 1..n) /\ \A i \in 1..n : i \in 1..(n + 1) BY <1>3
    <3> QED BY <1>1, <1>3, <3>1, <3>2, <3>3, <3>4, <3>5
  <2>2. CASE free # <<>>
    <3>1. m > 0 /\ SlotFor = free[m] /\ free' = Front(free) BY <1>1, <1>3, <2>2, FrontIs DEF SlotFor, Seated
    <3>2. PICK s \in Nat : s = free[m] /\ s + 1 \in 1..n /\ conns[s + 1] = None
      <4>1. m \in 1..m BY <1>3, <3>1
      <4> QED BY <1>1, <1>2, <1>3, <4>1 DEF Empties
    <3>3. conns' = [conns EXCEPT ![s + 1] = c] BY <2>2, <3>1, <3>2 DEF Seated
    <3>4. conns' \in Seq(S) /\ Len(conns') = n /\ conns'[s + 1] = c /\ \A i \in 1..n : i # s + 1 => conns'[i] = conns[i]
      BY <1>1, <1>3, <3>2, <3>3
    <3>5. free' \in Seq(Nat) /\ Len(free') = m - 1 /\ \A j \in 1..(m - 1) : free'[j] = free[j]
      BY <1>1, <1>3, <2>2, <3>1, FrontIs
    <3>6. Empties(conns', free')
      <4>1. \A j \in 1..(m - 1) : j \in 1..m /\ j # m BY <1>3
      <4>7. m \in 1..m BY <1>3, <3>1
      <4>2. ASSUME NEW j \in 1..(m - 1) PROVE free'[j] + 1 \in 1..n /\ conns'[free'[j] + 1] = None
        <5>1. j \in 1..m /\ j # m BY <4>1
        <5>2. PICK x \in Nat : x = free[j] /\ x + 1 \in 1..n /\ conns[x + 1] = None
          BY <1>1, <1>2, <1>3, <5>1 DEF Empties
        <5>3. x # s BY <1>2, <1>3, <3>2, <5>1, <5>2, <4>7 DEF Empties
        <5> QED BY <3>4, <3>5, <5>2, <5>3
      <4>3. ASSUME NEW i \in 1..n, conns'[i] = None PROVE \E j \in 1..(m - 1) : free'[j] = i - 1
        <5>1. i # s + 1 /\ conns[i] = None BY <1>1, <3>4, <4>3
        <5>2. PICK j \in 1..m : free[j] = i - 1 BY <1>2, <1>3, <5>1 DEF Empties
        <5>3. j # m BY <1>3, <3>2, <5>1, <5>2
        <5>4. j \in 1..(m - 1) BY <1>3, <5>3
        <5> QED BY <3>5, <5>2, <5>4
      <4>4. ASSUME NEW i \in 1..(m - 1), NEW j \in 1..(m - 1), free'[i] = free'[j] PROVE i = j
        BY <1>2, <1>3, <3>5, <4>1, <4>4 DEF Empties
      <4> QED BY <3>4, <3>5, <4>2, <4>3, <4>4 DEF Empties
    <3> QED BY <1>3, <3>1, <3>2, <3>4, <3>5, <3>6
  <2> QED BY <2>1, <2>2
<1>6. PICK s \in Nat :
        /\ s = SlotFor /\ conns' \in Seq(S) /\ free' \in Seq(Nat) /\ s + 1 \in 1..Len(conns') /\ conns'[s + 1] = c
        /\ n <= Len(conns')
        /\ \A i \in 1..Len(conns') : i = s + 1 \/ i \in 1..n
        /\ \A i \in 1..n : i \in 1..Len(conns') /\ (i # s + 1 => conns'[i] = conns[i])
        /\ s + 1 \in 1..n => conns[s + 1] = None
        /\ Empties(conns', free')
  BY <1>5
<1>7. Held' = Held \cup {c}
  <2>1. \A x : x \in Held' <=> x \in Clients /\ \E i \in 1..Len(conns') : conns'[i] = x
    <3>1. DOMAIN conns' = 1..Len(conns') BY <1>6
    <3> QED BY <3>1 DEF Held
  <2>2. \A x : x \in Held <=> x \in Clients /\ \E i \in 1..n : conns[i] = x BY <1>1, <1>3, HeldIs
  <2>3. ASSUME NEW x \in Held' PROVE x \in Held \cup {c}
    <3>1. PICK i \in 1..Len(conns') : conns'[i] = x BY <2>1, <2>3
    <3> QED BY <1>6, <2>1, <2>2, <2>3, <3>1
  <2>4. ASSUME NEW x \in Held PROVE x \in Held'
    <3>1. PICK i \in 1..n : conns[i] = x BY <2>2
    <3>2. x # None BY <2>2, WorkerAssumption
    <3>3. i # s + 1 BY <1>6, <3>1, <3>2
    <3> QED BY <1>6, <2>1, <2>2, <3>1, <3>3
  <2>5. c \in Held' BY <1>6, <2>1
  <2> QED BY <2>3, <2>4, <2>5
<1>8. Singly(conns')
  <2> SUFFICES ASSUME NEW i \in 1..Len(conns'), NEW j \in 1..Len(conns'), conns'[i] = conns'[j], conns'[i] # None
               PROVE  i = j
    BY DEF Singly
  <2>1. CASE i = s + 1 /\ j = s + 1 BY <2>1
  <2>2. CASE i # s + 1 /\ j # s + 1 BY <1>2, <1>3, <1>6, <2>2 DEF Singly
  <2>3. CASE i = s + 1 /\ j # s + 1 BY <1>4, <1>6, <2>3
  <2>4. CASE i # s + 1 /\ j = s + 1 BY <1>4, <1>6, <2>4
  <2> QED BY <2>1, <2>2, <2>3, <2>4
<1>9. Slotted'
  <2>1. owing' \subseteq Held' BY <1>1, <1>7
  <2> QED BY <1>6, <1>8, <2>1 DEF Slotted, Empties, Singly
<1> QED BY <1>3, <1>6, <1>7, <1>9

\* A slot is vacated: it is empty and the last of the list.
LEMMA VacatedIs ==
  ASSUME Slotted, NEW slot \in Nat, slot + 1 \in 1..Len(conns), At(slot) # None, Vacated(slot)
  PROVE  /\ Slotted' /\ Held' = Held \ {At(slot)} /\ At(slot) \in Held /\ owing' = owing \ {At(slot)}
         /\ Len(conns') = Len(conns) /\ conns'[slot + 1] = None
         /\ \A i \in 1..Len(conns) : i # slot + 1 => conns'[i] = conns[i]
<1> DEFINE S == Clients \cup {None}
<1>1. conns \in Seq(S) /\ free \in Seq(Nat) /\ owing \subseteq Held BY DEF Slotted
<1>2. Empties(conns, free) /\ Singly(conns) BY DEF Slotted, Empties, Singly
<1>3. PICK n \in Nat, m \in Nat : n = Len(conns) /\ m = Len(free) BY <1>1
<1>4. PICK c : c = At(slot) /\ c = conns[slot + 1] /\ c # None BY DEF At
<1>5. conns' = [conns EXCEPT ![slot + 1] = None] /\ free' = Append(free, slot) /\ owing' = owing \ {c}
  BY <1>4 DEF Vacated
<1>6. /\ conns' \in Seq(S) /\ Len(conns') = n /\ conns'[slot + 1] = None
      /\ \A i \in 1..n : i # slot + 1 => conns'[i] = conns[i]
  BY <1>1, <1>3, <1>5
<1>7. /\ free' \in Seq(Nat) /\ Len(free') = m + 1 /\ free'[m + 1] = slot /\ \A j \in 1..m : free'[j] = free[j]
      /\ \A j \in 1..(m + 1) : j = m + 1 \/ j \in 1..m
  BY <1>1, <1>3, <1>5
<1>8. c \in Held /\ c \in Clients BY <1>1, <1>4, HeldIs
<1>9. \A j \in 1..m : free[j] \in Nat /\ free[j] # slot /\ free[j] + 1 \in 1..n /\ conns[free[j] + 1] = None
  <2>1. \A j \in 1..m : free[j] \in Nat BY <1>1, <1>3
  <2> QED BY <1>2, <1>3, <1>4, <2>1 DEF Empties
<1>10. Empties(conns', free')
  <2>1. ASSUME NEW j \in 1..(m + 1) PROVE free'[j] + 1 \in 1..n /\ conns'[free'[j] + 1] = None
    <3>1. CASE j = m + 1 BY <1>3, <1>6, <1>7, <3>1
    <3>2. CASE j \in 1..m
      <4>1. PICK x \in Nat : x = free[j] /\ x # slot /\ x + 1 \in 1..n /\ conns[x + 1] = None BY <1>9, <3>2
      <4>2. x + 1 # slot + 1 BY <4>1
      <4> QED BY <1>6, <1>7, <3>2, <4>1, <4>2
    <3> QED BY <1>7, <3>1, <3>2
  <2>2. ASSUME NEW i \in 1..n, conns'[i] = None PROVE \E j \in 1..(m + 1) : free'[j] = i - 1
    <3>1. CASE i = slot + 1
      <4>1. m + 1 \in 1..(m + 1) /\ i - 1 = slot BY <1>3, <3>1
      <4> QED BY <1>7, <4>1
    <3>2. CASE i # slot + 1
      <4>1. PICK j \in 1..m : free[j] = i - 1 BY <1>2, <1>3, <1>6, <2>2, <3>2 DEF Empties
      <4>2. j \in 1..(m + 1) BY <1>3
      <4> QED BY <1>7, <4>1, <4>2
    <3> QED BY <3>1, <3>2
  <2>3. ASSUME NEW i \in 1..(m + 1), NEW j \in 1..(m + 1), free'[i] = free'[j] PROVE i = j
    <3>1. CASE i = m + 1 /\ j = m + 1 BY <3>1
    <3>2. CASE i = m + 1 /\ j \in 1..m BY <1>7, <1>9, <2>3, <3>2
    <3>3. CASE i \in 1..m /\ j = m + 1 BY <1>7, <1>9, <2>3, <3>3
    <3>4. CASE i \in 1..m /\ j \in 1..m BY <1>2, <1>3, <1>7, <2>3, <3>4 DEF Empties
    <3> QED BY <1>7, <3>1, <3>2, <3>3, <3>4
  <2> QED BY <1>6, <1>7, <2>1, <2>2, <2>3 DEF Empties
<1>11. Singly(conns')
  <2> SUFFICES ASSUME NEW i \in 1..n, NEW j \in 1..n, conns'[i] = conns'[j], conns'[i] # None PROVE i = j
    BY <1>6 DEF Singly
  <2> QED BY <1>2, <1>3, <1>6 DEF Singly
<1>12. Held' = Held \ {c}
  <2>1. \A x : x \in Held' <=> x \in Clients /\ \E i \in 1..n : conns'[i] = x
    <3>1. DOMAIN conns' = 1..n BY <1>6
    <3> QED BY <3>1 DEF Held
  <2>2. \A x : x \in Held <=> x \in Clients /\ \E i \in 1..n : conns[i] = x BY <1>1, <1>3, HeldIs
  <2>3. ASSUME NEW x \in Held' PROVE x \in Held \ {c}
    <3>1. PICK i \in 1..n : conns'[i] = x BY <2>1, <2>3
    <3>2. x # None BY <2>1, <2>3, WorkerAssumption
    <3>3. i # slot + 1 /\ conns[i] = x BY <1>6, <3>1, <3>2
    <3>4. x # c BY <1>2, <1>3, <1>4, <3>2, <3>3 DEF Singly
    <3> QED BY <2>1, <2>2, <2>3, <3>3, <3>4
  <2>4. ASSUME NEW x \in Held, x # c PROVE x \in Held'
    <3>1. PICK i \in 1..n : conns[i] = x BY <2>2
    <3>2. i # slot + 1 BY <1>4, <2>4, <3>1
    <3> QED BY <1>6, <2>1, <2>2, <3>1, <3>2
  <2> QED BY <2>3, <2>4
<1>13. Slotted'
  <2>1. owing' \subseteq Held' BY <1>1, <1>5, <1>12
  <2> QED BY <1>6, <1>7, <1>10, <1>11, <2>1 DEF Slotted, Empties, Singly
<1> QED BY <1>3, <1>4, <1>5, <1>6, <1>8, <1>12, <1>13

-----------------------------------------------------------------------------
(* What a step that leaves a part alone keeps. *)

\* Slots left alone: the same connections and the same operations expected.
LEMMA SlottedKept ==
  ASSUME Slotted, UNCHANGED slots
  PROVE  Slotted' /\ Held' = Held /\ Expected' = Expected
<1>1. conns' = conns /\ free' = free /\ owing' = owing BY DEF slots
<1>2. Held' = Held BY <1>1 DEF Held
<1>3. Expected' = Expected BY <1>1 DEF Expected, Mine, Seats, Tick, Accept, Ports
<1>4. Slotted' BY <1>1, <1>2 DEF Slotted
<1> QED BY <1>2, <1>3, <1>4

\* The submission queue left alone.
LEMMA SubQKept ==
  ASSUME UNCHANGED sq
  PROVE  (SubQ => SubQ') /\ Asked' = Asked /\ (AskedOnce => AskedOnce') /\ pending' = pending
<1>1. sqes' = sqes /\ tail' = tail /\ sq_head' = sq_head /\ pending' = pending BY DEF sq
<1>2. Submitted' = Submitted BY <1>1 DEF Submitted, After
<1> QED BY <1>1, <1>2 DEF SubQ, Asked, AskedOnce

\* The completion queue left alone: nobody lands and nothing more is told.
LEMMA ComQKept ==
  ASSUME UNCHANGED cq
  PROVE  /\ (ComQ => ComQ') /\ Told' = Told /\ (ToldOnce => ToldOnce') /\ Landed' = Landed
         /\ (LandedOnce => LandedOnce') /\ cq_head' = cq_head /\ cq_tail' = cq_tail
<1>1. cqes' = cqes /\ cq_head' = cq_head /\ cq_tail' = cq_tail BY DEF cq
<1>2. Posted' = Posted BY <1>1 DEF Posted, After, Between
<1> QED BY <1>1, <1>2 DEF ComQ, Posting, Between, Told, ToldOnce, Landed, LandedOnce

\* The ring left alone, on a thread that still serves.
LEMMA PositionsKept ==
  ASSUME Positions, UNCHANGED <<ringVars, tries, loop>>, Serving => Serving'
  PROVE  Positions'
<1>1. UNCHANGED sq /\ UNCHANGED cq /\ kernel' = kernel /\ tries' = tries /\ loop' = loop BY DEF ringVars
<1> QED BY <1>1, SubQKept, ComQKept DEF Positions

\* Nobody goes anywhere.
LEMMA OnePlaceKept ==
  ASSUME OnePlace, UNCHANGED <<came, queue, cq, done, arriving, conns>>
  PROVE  OnePlace'
<1>1. UNCHANGED cq /\ came' = came /\ queue' = queue /\ done' = done /\ arriving' = arriving /\ conns' = conns OBVIOUS
<1>2. Waiting' = Waiting /\ Heard' = Heard /\ Held' = Held BY <1>1 DEF Waiting, Heard, Held, Ports
<1>3. Landed' = Landed /\ LandedOnce' BY <1>1, ComQKept DEF OnePlace
<1>4. HeardOnce' BY <1>1 DEF OnePlace, HeardOnce
<1>5. Queued' BY <1>1 DEF OnePlace, Queued, Ports
<1> QED BY <1>1, <1>2, <1>3, <1>4, <1>5 DEF OnePlace

\* What is watched left alone.
LEMMA RegisteredKept ==
  ASSUME Registered, UNCHANGED <<conns, watch, loop>>, pc' # "stopped" => pc # "stopped"
  PROVE  Registered'
<1>1. Held' = Held BY DEF Held
<1> QED BY <1>1 DEF Registered

\* The events of a batch and the slots they name left alone.
LEMMA EventsKept ==
  ASSUME Events, UNCHANGED <<conns, ready, loop>>
  PROVE  Events'
BY DEF Events

\* Nothing is submitted, finished, read or wanted.
LEMMA FlightKept ==
  ASSUME Flight, Slotted, UNCHANGED <<slots, ringVars, done, todo, loop>>, Serving' => Serving
  PROVE  Flight'
<1>1. UNCHANGED slots /\ UNCHANGED sq /\ UNCHANGED cq /\ kernel' = kernel /\ done' = done /\ todo' = todo /\ loop' = loop
  BY DEF ringVars
<1>2. Expected' = Expected BY <1>1, SlottedKept
<1>3. /\ Asked' = Asked /\ (AskedOnce => AskedOnce') /\ Told' = Told /\ (ToldOnce => ToldOnce')
  BY <1>1, SubQKept, ComQKept
<1>4. /\ Read' = Read /\ (ReadOnce => ReadOnce') /\ Wanted' = Wanted /\ (WantedOnce => WantedOnce')
  BY <1>1 DEF Read, ReadOnce, Wanted, WantedOnce
<1> QED BY <1>1, <1>2, <1>3, <1>4 DEF Flight

\* A client leaves a queue.
LEMMA QueueLess ==
  ASSUME Queued, NEW l \in Ports, NEW c \in queue[l], queue' = [queue EXCEPT ![l] = @ \ {c}], came' = came
  PROVE  Queued' /\ Waiting' = Waiting \ {c} /\ c \in Waiting /\ c \in Clients /\ c \in came
<1>1. queue \in [Ports -> SUBSET came] /\ came \subseteq Clients BY DEF Queued
<1>2. /\ queue' \in [Ports -> SUBSET came] /\ queue'[l] = queue[l] \ {c}
      /\ \A m \in Ports : m # l => queue'[m] = queue[m]
  BY <1>1
<1>3. c \in came /\ c \in Clients /\ c \in Waiting BY <1>1 DEF Waiting
<1>4. \A m, k \in Ports : m # k => queue[m] \cap queue[k] = {} BY DEF Queued
<1>5. \A m, k \in Ports : m # k => queue'[m] \cap queue'[k] = {}
  <2>1. \A m \in Ports : queue'[m] \subseteq queue[m] BY <1>2
  <2> QED BY <1>4, <2>1
<1>6. Queued' BY <1>1, <1>2, <1>5 DEF Queued, Ports
<1>7. Waiting' = Waiting \ {c}
  <2>1. \A x : x \in Waiting <=> x \in Clients /\ \E m \in Ports : x \in queue[m] BY DEF Waiting
  <2>2. \A x : x \in Waiting' <=> x \in Clients /\ \E m \in Ports : x \in queue'[m] BY DEF Waiting, Ports
  <2>3. ASSUME NEW x \in Waiting' PROVE x \in Waiting \ {c}
    <3>1. PICK m \in Ports : x \in queue'[m] BY <2>2, <2>3
    <3>2. x \in queue[m] /\ x # c BY <1>2, <1>4, <3>1
    <3> QED BY <2>1, <2>2, <2>3, <3>2
  <2>4. ASSUME NEW x \in Waiting, x # c PROVE x \in Waiting'
    <3>1. PICK m \in Ports : x \in queue[m] BY <2>1
    <3>2. x \in queue'[m] BY <1>2, <2>4, <3>1
    <3> QED BY <2>1, <2>2, <3>2
  <2> QED BY <2>3, <2>4
<1> QED BY <1>3, <1>6, <1>7

-----------------------------------------------------------------------------
(* The steps, one by one. *)

\* A step of the clients keeps everything but who waits.
LEMMA PeopleKeep ==
  ASSUME IInv, UNCHANGED <<target, loop, pc, slots, polling, completing, ringVars>>, OnePlace'
  PROVE  IInv'
<1>1. /\ UNCHANGED <<target, loop, pc, slots, watch, ready, done, todo, tries, arriving, ringVars>>
      /\ UNCHANGED <<conns, free, owing>>
  BY DEF slots, polling, completing
<1>2. Serving' <=> Serving BY <1>1 DEF Serving
<1>3. Control' BY <1>1 DEF IInv, Control
<1>4. Slotted' BY <1>1, SlottedKept DEF IInv
<1>5. Positions' BY <1>1, <1>2, PositionsKept DEF IInv
<1>6. Registered' BY <1>1, RegisteredKept DEF IInv
<1>7. Events' BY <1>1, EventsKept DEF IInv
<1>8. Flight' BY <1>1, <1>2, FlightKept DEF IInv
<1> QED BY <1>3, <1>4, <1>5, <1>6, <1>7, <1>8 DEF IInv

\* Clients come, go, and are taken elsewhere.
LEMMA PeopleInv ==
  ASSUME IInv, People
  PROVE  IInv'
<1>1. /\ UNCHANGED <<target, loop, pc, slots, polling, completing, ringVars>>
  BY DEF People, Connect, Leave, TakenElsewhere
<1>2. UNCHANGED cq /\ done' = done /\ arriving' = arriving /\ conns' = conns BY <1>1 DEF ringVars, slots, completing
<1>3. OnePlace BY DEF IInv
<1>4. /\ Landed' = Landed /\ LandedOnce' /\ Heard' = Heard /\ HeardOnce' /\ Held' = Held
  <2>1. Landed' = Landed /\ LandedOnce' BY <1>2, <1>3, ComQKept DEF OnePlace
  <2>2. Heard' = Heard /\ HeardOnce' BY <1>2, <1>3 DEF Heard, HeardOnce, OnePlace
  <2> QED BY <1>2, <2>1, <2>2 DEF Held
<1>5. /\ Disjoint5(Waiting, Landed, Heard, {arriving} \ {None}, Held)
      /\ Landed \cup Heard \cup ({arriving} \ {None}) \cup Held \subseteq came /\ Queued
  BY <1>3 DEF OnePlace
<1>6. CASE Connect
  <2>1. PICK c \in Clients \ came, l \in Ports : came' = came \cup {c} /\ queue' = [queue EXCEPT ![l] = @ \cup {c}]
    BY <1>6 DEF Connect
  <2>2. came \subseteq Clients /\ queue \in [Ports -> SUBSET came] BY <1>5 DEF Queued
  <2>3. /\ queue' \in [Ports -> SUBSET came'] /\ queue'[l] = queue[l] \cup {c}
        /\ \A m \in Ports : m # l => queue'[m] = queue[m]
    BY <2>1, <2>2
  <2>4. \A m \in Ports : c \notin queue[m] BY <2>1, <2>2
  <2>5. \A m, k \in Ports : m # k => queue'[m] \cap queue'[k] = {}
    <3>1. \A m, k \in Ports : m # k => queue[m] \cap queue[k] = {} BY <1>5 DEF Queued
    <3> SUFFICES ASSUME NEW m \in Ports, NEW k \in Ports, m # k PROVE queue'[m] \cap queue'[k] = {} OBVIOUS
    <3>2. CASE m = l BY <2>3, <2>4, <3>1, <3>2
    <3>3. CASE k = l BY <2>3, <2>4, <3>1, <3>3
    <3>4. CASE m # l /\ k # l BY <2>3, <3>1, <3>4
    <3> QED BY <3>2, <3>3, <3>4
  <2>6. Queued' BY <2>1, <2>2, <2>3, <2>5 DEF Queued, Ports
  <2>7. Waiting' \subseteq Waiting \cup {c}
    <3> SUFFICES ASSUME NEW x \in Waiting', x # c PROVE x \in Waiting OBVIOUS
    <3>1. PICK m \in Ports : x \in queue'[m] BY DEF Waiting, Ports
    <3>2. x \in queue[m] BY <2>3, <3>1
    <3> QED BY <3>2 DEF Waiting
  <2>8. c \notin Landed /\ c \notin Heard /\ c \notin ({arriving} \ {None}) /\ c \notin Held BY <1>5, <2>1
  <2>9. Disjoint5(Waiting', Landed, Heard, {arriving} \ {None}, Held) BY <1>5, <2>7, <2>8 DEF Disjoint5
  <2>10. Landed \cup Heard \cup ({arriving} \ {None}) \cup Held \subseteq came' BY <1>5, <2>1
  <2>11. OnePlace' BY <1>2, <1>4, <2>6, <2>9, <2>10 DEF OnePlace
  <2> QED BY <1>1, <2>11, PeopleKeep
<1>7. CASE Leave
  <2>1. came' = came /\ queue' = queue BY <1>7 DEF Leave
  <2>2. OnePlace' BY <1>2, <1>3, <2>1, OnePlaceKept
  <2> QED BY <1>1, <2>2, PeopleKeep
<1>8. CASE TakenElsewhere
  <2>1. PICK l \in Ports, c \in Clients : c \in queue[l] /\ queue' = [queue EXCEPT ![l] = @ \ {c}] /\ came' = came
    BY <1>8 DEF TakenElsewhere
  <2>2. Queued' /\ Waiting' = Waiting \ {c} BY <1>5, <2>1, QueueLess
  <2>3. Disjoint5(Waiting', Landed, Heard, {arriving} \ {None}, Held) BY <1>5, <2>2 DEF Disjoint5
  <2>4. OnePlace' BY <1>2, <1>4, <1>5, <2>1, <2>2, <2>3 DEF OnePlace
  <2> QED BY <1>1, <2>4, PeopleKeep
<1> QED BY <1>6, <1>7, <1>8 DEF People

\* The loop is chosen.
LEMMA ChooseInv ==
  ASSUME IInv, Choose
  PROVE  IInv'
<1>1. /\ pc = "boot" /\ loop = None
      /\ UNCHANGED <<target, people, slots, polling, done, tries, arriving, ringVars>>
  BY DEF Choose
<1>2. /\ came' = came /\ queue' = queue /\ conns' = conns /\ watch' = watch /\ ready' = ready /\ done' = done
      /\ arriving' = arriving /\ tries' = tries /\ UNCHANGED slots /\ UNCHANGED ringVars /\ target' = target
      /\ UNCHANGED sq /\ UNCHANGED cq /\ kernel' = kernel
  BY <1>1 DEF people, slots, polling, ringVars
<1>3. Control /\ Slotted /\ Positions /\ OnePlace /\ Registered /\ Events BY DEF IInv
<1>4. /\ todo = <<>> /\ done = <<>> /\ arriving = None /\ ready = <<>> /\ conns = <<>> /\ target \in Targets
      /\ None \notin {"epoll", "kqueue", "ring"}
  BY <1>1, <1>3, WorkerAssumption DEF Control
<1>5. kernel = {} /\ pending = 0 /\ cq_head = cq_tail BY <1>1, <1>3, <1>4 DEF Positions
<1>6. Slotted' /\ Held' = Held /\ Expected' = Expected BY <1>2, <1>3, SlottedKept
<1>7. OnePlace' BY <1>2, <1>3, OnePlaceKept
<1>8. Positions'
  <2>1. SubQ' /\ ComQ' /\ pending' = pending /\ cq_head' = cq_head /\ cq_tail' = cq_tail
    BY <1>2, <1>3, SubQKept, ComQKept DEF Positions
  <2> QED BY <1>2, <1>3, <1>5, <2>1 DEF Positions
<1>9. Events'
  <2>1. Len(ready) = 0 BY <1>4
  <2>2. \A i : ~(i \in 1..Len(ready)) BY <2>1
  <2> QED BY <1>2, <1>3, <2>2 DEF Events
<1>10. Held = {}
  <2>1. Len(conns) = 0 /\ \A i : ~(i \in 1..Len(conns)) BY <1>4
  <2> QED BY <1>3, <2>1, HeldIs DEF Slotted
<1>11. CASE pc' = "stopped" /\ UNCHANGED <<loop, todo>>
  <2>1. Control' BY <1>1, <1>2, <1>3, <1>4, <1>11 DEF Control
  <2>2. Registered' /\ Flight' BY <1>1, <1>2, <1>3, <1>4, <1>11 DEF Registered, Flight
  <2> QED BY <1>6, <1>7, <1>8, <1>9, <2>1, <2>2 DEF IInv
<1>12. CASE loop' \in {"epoll", "kqueue"} /\ pc' = "wait" /\ UNCHANGED todo
  <2>1. Control' BY <1>1, <1>2, <1>3, <1>4, <1>12 DEF Control
  <2>2. Flight' BY <1>12 DEF Flight
  <2>3. Registered' BY <1>1, <1>2, <1>3, <1>4, <1>6, <1>10, <1>12 DEF Registered
  <2> QED BY <1>6, <1>7, <1>8, <1>9, <2>1, <2>2, <2>3 DEF IInv
<1>13. CASE /\ loop' = "ring" /\ pc' = pc
            /\ todo' = [i \in 1 .. LISTENERS |-> Accept(i - 1)] \o <<Tick>>
  <2> DEFINE O == [kind : {"tick", "accept", "recv", "send"}, index : Nat, who : Clients \cup {None}]
  <2>1. PICK n \in Nat : n = LISTENERS /\ n > 0 BY WorkerAssumption
  <2>2. PICK s : s = [i \in 1 .. n |-> Accept(i - 1)] OBVIOUS
  <2>3. \A i \in 1 .. n : Accept(i - 1) \in O BY <2>1 DEF Accept
  <2>4. Tick \in O BY DEF Tick
  <2> HIDE DEF O
  <2>5. s \in Seq(O) /\ Len(s) = n /\ \A i \in 1 .. n : s[i] = Accept(i - 1) BY <2>1, <2>2, <2>3
  <2>6. todo' = s \o <<Tick>> BY <1>13, <2>1, <2>2
  <2>7. /\ todo' \in Seq(O) /\ Len(todo') = n + 1 /\ todo'[n + 1] = Tick
        /\ \A i \in 1 .. n : todo'[i] = Accept(i - 1)
    BY <2>1, <2>4, <2>5, <2>6
  <2>8. Control' BY <1>1, <1>2, <1>3, <1>4, <1>13, <2>7 DEF Control, O
  <2>9. Registered' BY <1>2, <1>3, <1>4, <1>13 DEF Registered
  <2>10. \A i \in 1 .. (n + 1) : i = n + 1 \/ i \in 1 .. n BY <2>1
  <2>11. \A l \in Ports : Accept(l) # Tick BY DEF Accept, Tick
  <2>12. /\ \A i \in 1 .. n : i - 1 \in Ports
         /\ \A l \in Ports : l + 1 \in 1 .. n /\ (l + 1) - 1 = l
    BY <2>1 DEF Ports
  <2>13. \A l, m : Accept(l) = Accept(m) => l = m
    <3> SUFFICES ASSUME NEW l, NEW m, Accept(l) = Accept(m) PROVE l = m OBVIOUS
    <3>1. Accept(l).index = l /\ Accept(m).index = m BY DEF Accept
    <3> QED BY <3>1
  <2>14. WantedOnce'
    <3> SUFFICES ASSUME NEW i \in 1 .. (n + 1), NEW j \in 1 .. (n + 1), todo'[i] = todo'[j] PROVE i = j
      BY <2>7 DEF WantedOnce
    <3>1. CASE i \in 1 .. n /\ j \in 1 .. n
      <4>1. i - 1 = j - 1 BY <2>7, <2>13, <3>1
      <4> QED BY <3>1, <4>1
    <3>2. CASE i = n + 1 /\ j \in 1 .. n BY <2>7, <2>11, <2>12, <3>2
    <3>3. CASE i \in 1 .. n /\ j = n + 1 BY <2>7, <2>11, <2>12, <3>3
    <3> QED BY <2>10, <3>1, <3>2, <3>3
  <2>15. Wanted' = {Tick} \cup {Accept(l) : l \in Ports}
    <3>1. \A x : x \in Wanted' <=> \E i \in 1 .. (n + 1) : x = todo'[i] BY <2>7 DEF Wanted
    <3>2. n + 1 \in 1 .. (n + 1) /\ \A i \in 1 .. n : i \in 1 .. (n + 1) BY <2>1
    <3>3. ASSUME NEW x \in Wanted' PROVE x \in {Tick} \cup {Accept(l) : l \in Ports}
      <4>1. PICK i \in 1 .. (n + 1) : x = todo'[i] BY <3>1, <3>3
      <4> QED BY <2>7, <2>10, <2>12, <4>1
    <3>4. ASSUME NEW l \in Ports PROVE Accept(l) \in Wanted'
      <4>1. todo'[l + 1] = Accept(l) BY <2>7, <2>12
      <4> QED BY <2>12, <3>1, <3>2, <4>1
    <3>5. Tick \in Wanted' BY <2>7, <3>1, <3>2
    <3> QED BY <3>3, <3>4, <3>5
  <2>16. Expected' = {Tick} \cup {Accept(l) : l \in Ports}
    <3>1. Seats = {}
      <4>1. Len(conns) = 0 /\ \A i : ~(i \in 1..Len(conns)) BY <1>4
      <4> QED BY <4>1 DEF Seats
    <3> QED BY <1>6, <3>1 DEF Expected
  <2>17. Asked' = {} /\ AskedOnce' /\ Told' = {} /\ ToldOnce'
    <3>1. Submitted = {} /\ Posted = {} BY <1>3, <1>5, Emptied DEF Positions
    <3>2. Asked = {} /\ AskedOnce /\ Told = {} /\ ToldOnce BY <3>1 DEF Asked, AskedOnce, Told, ToldOnce
    <3> QED BY <1>2, <3>2, SubQKept, ComQKept
  <2>18. Read' = {} /\ ReadOnce'
    <3>1. Len(done') = 0 BY <1>2, <1>4
    <3>2. \A i : ~(i \in 1..Len(done')) BY <3>1
    <3> QED BY <3>2 DEF Read, ReadOnce
  <2>19. Flight' BY <1>2, <1>5, <2>14, <2>15, <2>16, <2>17, <2>18 DEF Flight, Disjoint5
  <2> QED BY <1>6, <1>7, <1>8, <1>9, <2>8, <2>9, <2>19 DEF IInv
<1> QED
  <2>1. PICK asked \in {"no", "auto", "yes"}, given \in BOOLEAN :
          LET ring == target = "linux" /\ given
          IN  IF asked = "yes" /\ ~ring
              THEN pc' = "stopped" /\ UNCHANGED <<loop, todo>>
              ELSE IF asked # "no" /\ ring
              THEN /\ loop' = "ring" /\ UNCHANGED pc
                   /\ todo' = [i \in 1 .. LISTENERS |-> Accept(i - 1)] \o <<Tick>>
              ELSE /\ loop' = IF target = "linux" THEN "epoll" ELSE "kqueue"
                   /\ pc' = "wait" /\ UNCHANGED todo
    BY DEF Choose
  <2> QED BY <1>11, <1>12, <1>13, <2>1

\* The rest of a list.
LEMMA TailIs ==
  ASSUME NEW V, NEW s \in Seq(V), s # <<>>
  PROVE  /\ Len(s) \in Nat /\ Len(s) > 0 /\ Head(s) = s[1] /\ Head(s) \in V
         /\ Tail(s) \in Seq(V) /\ Len(Tail(s)) = Len(s) - 1
         /\ \A i \in 1 .. Len(s) - 1 : Tail(s)[i] = s[i + 1] /\ i + 1 \in 1 .. Len(s) /\ i + 1 # 1
         /\ \A i \in 1 .. Len(s) : i = 1 \/ (i - 1 \in 1 .. Len(s) - 1 /\ s[i] = Tail(s)[i - 1])
<1>1. Len(s) \in Nat /\ Len(s) > 0 OBVIOUS
<1>2. Head(s) = s[1] /\ Head(s) \in V BY <1>1
<1>3. Tail(s) \in Seq(V) /\ Len(Tail(s)) = Len(s) - 1 BY <1>1
<1>4. \A i \in 1 .. Len(s) - 1 : Tail(s)[i] = s[i + 1] /\ i + 1 \in 1 .. Len(s) /\ i + 1 # 1 BY <1>1
<1>5. ASSUME NEW i \in 1 .. Len(s), i # 1 PROVE i - 1 \in 1 .. Len(s) - 1 /\ s[i] = Tail(s)[i - 1]
  <2>1. i - 1 \in 1 .. Len(s) - 1 /\ (i - 1) + 1 = i BY <1>1, <1>5
  <2> QED BY <1>4, <2>1
<1> QED BY <1>1, <1>2, <1>3, <1>4, <1>5

\* A call fails: the ring goes.
LEMMA FailInv ==
  ASSUME IInv, Fail
  PROVE  IInv'
<1>1. /\ loop # None /\ pc' = "closing" /\ Dropped
      /\ UNCHANGED <<target, loop, people, slots, polling, completing>>
  BY DEF Fail
<1>2. /\ target' = target /\ loop' = loop /\ came' = came /\ queue' = queue /\ conns' = conns /\ watch' = watch
      /\ ready' = ready /\ done' = done /\ todo' = todo /\ tries' = tries /\ arriving' = arriving /\ UNCHANGED slots
  BY <1>1 DEF people, slots, polling, completing
<1>3. /\ kernel' = {} /\ pending' = 0 /\ sqes' = [i \in 0 .. ENTRIES - 1 |-> None]
      /\ cqes' = [i \in 0 .. CQ_ENTRIES - 1 |-> None]
      /\ tail' = 0 /\ sq_head' = 0 /\ cq_tail' = 0 /\ cq_head' = 0
  BY <1>1 DEF Dropped
<1>4. Control /\ Slotted /\ Positions /\ OnePlace /\ Registered /\ Events BY DEF IInv
<1>11. pc \in {"boot", "wait", "batch"} BY <1>4 DEF Fail, Control
<1>5. Control' BY <1>1, <1>2, <1>4, <1>11 DEF Control
<1>6. Slotted' BY <1>2, <1>4, SlottedKept
<1>7. SubQ' /\ ComQ'
  <2>1. (0 + 0) % WRAP = 0 /\ (0 - 0) % WRAP = 0 BY Sizes
  <2>2. Posting' = 0 BY <1>3, <2>1 DEF Posting, Between
  <2> QED BY <1>3, <2>1, <2>2, Sizes DEF SubQ, ComQ
<1>8. Positions' BY <1>1, <1>2, <1>3, <1>4, <1>7, FS_EmptySet, Sizes DEF Positions
<1>9. OnePlace'
  <2>1. Posted' = {}
    <3>1. \A k : ~(k \in 0 .. Between(cq_head', cq_tail') - 1)
      <4>1. (0 - 0) % WRAP = 0 BY Sizes
      <4>2. Between(cq_head', cq_tail') = 0 BY <1>3, <4>1 DEF Between
      <4> QED BY <4>2
    <3> QED BY <3>1 DEF Posted
  <2>2. Landed' = {} /\ LandedOnce' BY <2>1 DEF Landed, LandedOnce
  <2>3. Waiting' = Waiting /\ Heard' = Heard /\ Held' = Held /\ HeardOnce' /\ Queued'
    BY <1>2, <1>4 DEF Waiting, Heard, Held, HeardOnce, Queued, OnePlace, Ports
  <2> QED BY <1>2, <1>4, <2>2, <2>3 DEF OnePlace, Disjoint5
<1>10. Registered' /\ Events' /\ Flight'
  <2>1. pc # "stopped" BY <1>11
  <2>2. Registered' BY <1>2, <1>4, <2>1, RegisteredKept
  <2>3. Events' BY <1>2, <1>4, EventsKept
  <2> QED BY <1>1, <2>2, <2>3 DEF Flight, Serving
<1> QED BY <1>5, <1>6, <1>8, <1>9, <1>10 DEF IInv

\* Everything else goes.
LEMMA CloseInv ==
  ASSUME IInv, Close
  PROVE  IInv'
<1>1. /\ pc = "closing" /\ pc' = "stopped"
      /\ conns' = <<>> /\ free' = <<>> /\ owing' = {} /\ watch' = [c \in Clients |-> None]
      /\ ready' = <<>> /\ done' = <<>> /\ todo' = <<>> /\ tries' = 0 /\ arriving' = None
      /\ UNCHANGED <<target, loop, people, ringVars>>
  BY DEF Close
<1>2. /\ target' = target /\ loop' = loop /\ came' = came /\ queue' = queue
      /\ UNCHANGED sq /\ UNCHANGED cq /\ kernel' = kernel
  BY <1>1 DEF people, ringVars
<1>3. Control /\ Slotted /\ Positions /\ OnePlace /\ Registered /\ Events BY DEF IInv
<1>4. /\ Len(conns') = 0 /\ Len(free') = 0 /\ Len(done') = 0 /\ Len(ready') = 0 /\ \A i : ~(i \in 1..0)
      /\ \A V : <<>> \in Seq(V)
  BY <1>1
<1>5. Control' BY <1>1, <1>2, <1>3, <1>4 DEF Control
<1>6. Held' = {}
  <2>1. DOMAIN conns' = 1..0 BY <1>1
  <2> QED BY <1>4, <2>1 DEF Held
<1>7. Slotted' BY <1>1, <1>4, <1>6 DEF Slotted
<1>8. Positions'
  <2>1. SubQ' /\ ComQ' /\ pending' = pending /\ cq_head' = cq_head /\ cq_tail' = cq_tail
    BY <1>2, <1>3, SubQKept, ComQKept DEF Positions
  <2> QED BY <1>1, <1>2, <1>3, <2>1 DEF Positions, Serving
<1>9. OnePlace'
  <2>1. Landed' = Landed /\ LandedOnce' BY <1>2, <1>3, ComQKept DEF OnePlace
  <2>2. Heard' = {} /\ HeardOnce' BY <1>4 DEF Heard, HeardOnce
  <2>3. Waiting' = Waiting /\ Queued' BY <1>2, <1>3 DEF Waiting, Queued, OnePlace, Ports
  <2> QED BY <1>1, <1>2, <1>3, <1>6, <2>1, <2>2, <2>3 DEF OnePlace, Disjoint5
<1>10. Registered' /\ Events' /\ Flight'
  <2>2. Registered' BY <1>1 DEF Registered
  <2>3. Events' BY <1>1, <1>4 DEF Events
  <2> QED BY <1>1, <2>2, <2>3 DEF Flight, Serving
<1> QED BY <1>5, <1>7, <1>8, <1>9, <1>10 DEF IInv

\* What a step of the readiness loop does not touch.
LEMMA PollKeep ==
  ASSUME IInv, loop \in {"epoll", "kqueue"}, UNCHANGED <<target, loop, completing, ringVars>>,
         pc \in {"wait", "batch"}, pc' \in {"wait", "batch"}, pc' = "wait" => ready' = <<>>,
         Slotted', OnePlace', Registered', Events'
  PROVE  IInv'
<1>1. /\ target' = target /\ loop' = loop /\ done' = done /\ todo' = todo /\ tries' = tries /\ arriving' = arriving
      /\ UNCHANGED ringVars
  BY DEF completing
<1>2. loop # None /\ loop # "ring" BY WorkerAssumption
<1>3. Control' BY <1>1, <1>2 DEF IInv, Control
<1>4. Positions' BY <1>1, PositionsKept DEF IInv, Serving
<1>5. Flight' BY <1>1, <1>2 DEF Flight
<1> QED BY <1>3, <1>4, <1>5 DEF IInv

\* A step that takes nothing but the event at the head.
LEMMA EventsTail ==
  ASSUME Events, ready # <<>>, ready' = Tail(ready), loop' = loop, Len(conns) \in Nat, Len(conns') \in Nat,
         Len(conns) <= Len(conns'),
         \A i \in 1..Len(conns) : loop = "epoll" =>
            \/ conns'[i] = conns[i]
            \/ conns[i] = None
            \/ ready[1].token = i - 1 + LISTENERS
  PROVE  Events'
<1>1. PICK V : ready \in Seq(V) BY DEF Events
<1>2. PICK n \in Nat : n = Len(ready) /\ n > 0 BY <1>1, TailIs
<1>3. /\ ready' \in Seq(V) /\ Len(ready') = n - 1
      /\ \A i \in 1 .. n - 1 : ready'[i] = ready[i + 1] /\ i + 1 \in 1 .. n /\ i + 1 # 1
  BY <1>1, <1>2, TailIs
<1>4. \A i \in 1 .. n : /\ ready[i].token \in Nat
                        /\ ready[i].token >= LISTENERS => ready[i].token - LISTENERS + 1 \in 1..Len(conns)
  BY <1>2 DEF Events
<1>5. PICK k \in Nat, m \in Nat : k = Len(conns) /\ m = Len(conns') /\ k <= m OBVIOUS
<1>6. \A i \in 1 .. n - 1 : /\ ready'[i].token \in Nat
                            /\ ready'[i].token >= LISTENERS => ready'[i].token - LISTENERS + 1 \in 1 .. m
  <2>1. \A x \in 1 .. k : x \in 1 .. m BY <1>5
  <2> QED BY <1>3, <1>4, <1>5, <2>1
<1>7. ASSUME loop = "epoll"
      PROVE  /\ \A i \in 1 .. n - 1 : ready'[i].token >= LISTENERS =>
                  ready'[i].who \in Clients /\ conns'[ready'[i].token - LISTENERS + 1] = ready'[i].who
             /\ \A i, j \in 1 .. n - 1 : ready'[i].token = ready'[j].token => i = j
  <2>1. /\ \A i \in 1 .. n : ready[i].token >= LISTENERS =>
             ready[i].who \in Clients /\ conns[ready[i].token - LISTENERS + 1] = ready[i].who
        /\ \A i, j \in 1 .. n : ready[i].token = ready[j].token => i = j
    BY <1>2, <1>7 DEF Events
  <2>2. ASSUME NEW i \in 1 .. n - 1, ready'[i].token >= LISTENERS
        PROVE  ready'[i].who \in Clients /\ conns'[ready'[i].token - LISTENERS + 1] = ready'[i].who
    <3>1. PICK t \in Nat, q \in Nat : t = ready[i + 1].token /\ q = LISTENERS /\ ready'[i] = ready[i + 1] /\ t >= q
      BY <1>3, <1>4, <2>2, WorkerAssumption
    <3>2. t - q + 1 \in 1 .. k /\ conns[t - q + 1] = ready'[i].who /\ ready'[i].who \in Clients
      BY <1>3, <1>4, <1>5, <2>1, <3>1
    <3>3. conns[t - q + 1] # None BY <3>2, WorkerAssumption
    <3>4. ready[1].token # t
      <4>1. 1 \in 1 .. n /\ i + 1 \in 1 .. n /\ i + 1 # 1 BY <1>2, <1>3
      <4> QED BY <2>1, <3>1, <4>1
    <3>5. (t - q + 1) - 1 + q = t BY <3>1
    <3>6. conns'[t - q + 1] = conns[t - q + 1] BY <1>5, <1>7, <3>1, <3>2, <3>3, <3>4, <3>5
    <3> QED BY <3>1, <3>2, <3>6
  <2>3. ASSUME NEW i \in 1 .. n - 1, NEW j \in 1 .. n - 1, ready'[i].token = ready'[j].token PROVE i = j
    <3>1. i + 1 = j + 1 BY <1>3, <2>1, <2>3
    <3> QED BY <1>2, <3>1
  <2> QED BY <2>2, <2>3
<1> QED BY <1>3, <1>5, <1>6, <1>7 DEF Events

\* An event of the readiness loop is at hand.
LEMMA OnPoller ==
  ASSUME IInv, pc = "batch", ready # <<>>
  PROVE  loop \in {"epoll", "kqueue"}
BY DEF IInv, Control

\* An event for an empty slot is passed over.
LEMMA PassInv ==
  ASSUME IInv, Pass
  PROVE  IInv'
<1>1. /\ pc = "batch" /\ ready # <<>> /\ ready' = Tail(ready)
      /\ UNCHANGED <<target, loop, pc, people, slots, watch, completing, ringVars>>
  BY DEF Pass, Hears
<1>2. /\ conns' = conns /\ watch' = watch /\ loop' = loop /\ came' = came /\ queue' = queue /\ done' = done
      /\ arriving' = arriving /\ UNCHANGED slots /\ UNCHANGED cq
  BY <1>1 DEF slots, people, completing, ringVars
<1>3. Slotted' BY <1>2, SlottedKept DEF IInv
<1>4. OnePlace' BY <1>2, OnePlaceKept DEF IInv
<1>5. Registered' BY <1>1, <1>2, RegisteredKept DEF IInv
<1>6. Events'
  <2>1. Len(conns) \in Nat BY DEF IInv, Slotted
  <2> QED BY <1>1, <1>2, <2>1, EventsTail DEF IInv
<1> QED BY <1>1, <1>3, <1>4, <1>5, <1>6, OnPoller, PollKeep

\* Round again.
LEMMA UpkeepInv ==
  ASSUME IInv, Upkeep
  PROVE  IInv'
<1>1. /\ pc = "batch" /\ ready = <<>> /\ done = <<>> /\ todo = <<>> /\ arriving = None /\ pc' = "wait"
      /\ UNCHANGED <<target, loop, people, slots, polling, completing, ringVars>>
  BY DEF Upkeep
<1>2. /\ conns' = conns /\ watch' = watch /\ loop' = loop /\ came' = came /\ queue' = queue /\ done' = done
      /\ arriving' = arriving /\ UNCHANGED slots /\ UNCHANGED cq /\ ready' = ready /\ todo' = todo /\ tries' = tries
      /\ UNCHANGED ringVars /\ target' = target
  BY <1>1 DEF slots, people, completing, ringVars, polling
<1>3. Slotted' BY <1>2, SlottedKept DEF IInv
<1>4. OnePlace' BY <1>2, OnePlaceKept DEF IInv
<1>5. Registered' BY <1>1, <1>2, RegisteredKept DEF IInv
<1>6. Events' BY <1>2, EventsKept DEF IInv
<1>7. Control' BY <1>1, <1>2 DEF IInv, Control
<1>8. Positions' BY <1>1, <1>2, PositionsKept DEF IInv, Serving
<1>9. Flight' BY <1>1, <1>2, FlightKept DEF IInv, Serving
<1> QED BY <1>3, <1>4, <1>5, <1>6, <1>7, <1>8, <1>9 DEF IInv

\* A connection has its turn, and may end.
LEMMA TurnInv ==
  ASSUME IInv, Turn
  PROVE  IInv'
<1>1. /\ pc = "batch" /\ ready # <<>> /\ Head(ready).token >= LISTENERS /\ At(Slot) # None /\ ready' = Tail(ready)
      /\ UNCHANGED <<target, loop, pc, people, completing, ringVars>>
  BY DEF Turn, Hears
<1>2. /\ loop' = loop /\ came' = came /\ queue' = queue /\ done' = done /\ pc' = pc
      /\ arriving' = arriving /\ UNCHANGED cq
  BY <1>1 DEF people, completing, ringVars
<1>3. loop \in {"epoll", "kqueue"} BY <1>1, OnPoller
<1>4. Slotted /\ OnePlace /\ Registered /\ Events BY DEF IInv
<1>5. PICK V : ready \in Seq(V) BY <1>4 DEF Events
<1>6. 1 \in 1..Len(ready) /\ Head(ready) = ready[1] BY <1>1, <1>5, TailIs
<1>7. PICK t \in Nat, q \in Nat : /\ t = ready[1].token /\ q = LISTENERS /\ t >= q /\ t - q + 1 \in 1..Len(conns)
  BY <1>1, <1>4, <1>6, WorkerAssumption DEF Events
<1>8. PICK s \in Nat : s = t - q /\ s = Slot /\ s + 1 \in 1..Len(conns) BY <1>6, <1>7 DEF Slot
<1>9. PICK c : c = At(s) /\ c = conns[s + 1] /\ c \in Clients /\ c \in Held
  <2>1. conns \in Seq(Clients \cup {None}) BY <1>4 DEF Slotted
  <2>2. conns[s + 1] \in Clients \cup {None} BY <1>8, <2>1
  <2>3. conns[s + 1] \in Clients BY <1>1, <1>8, <2>2 DEF At
  <2> QED BY <1>8, <2>1, <2>3, HeldIs DEF At
<1>10. Len(conns) \in Nat BY <1>4 DEF Slotted
<1>11. DOMAIN watch = Clients /\ watch[c] # None /\ watch[c] \in [token : Nat, write : BOOLEAN]
  BY <1>1, <1>3, <1>4, <1>9 DEF Registered
<1>12. CASE (\E left \in BOOLEAN : watch' = modify(c, left)) /\ UNCHANGED slots
  <2>1. PICK left \in BOOLEAN : watch' = [watch EXCEPT ![c].write = left] BY <1>12 DEF modify
  <2>2. /\ DOMAIN watch' = Clients /\ watch'[c] \in [token : Nat, write : BOOLEAN] /\ watch'[c].token = watch[c].token
        /\ \A x \in Clients : x # c => watch'[x] = watch[x]
    <3>1. DOMAIN watch' = Clients BY <1>11, <2>1
    <3>2. watch'[c] = [watch[c] EXCEPT !.write = left] BY <1>9, <1>11, <2>1
    <3>3. \A x \in Clients : x # c => watch'[x] = watch[x] BY <1>11, <2>1
    <3>4. watch'[c] \in [token : Nat, write : BOOLEAN] /\ watch'[c].token = watch[c].token BY <1>11, <3>2
    <3> QED BY <3>1, <3>3, <3>4
  <2>3. conns' = conns /\ Slotted' /\ Held' = Held BY <1>4, <1>12, SlottedKept DEF slots
  <2>4. OnePlace' BY <1>2, <1>4, <2>3, OnePlaceKept
  <2>5. Events' BY <1>1, <1>2, <1>4, <1>10, <2>3, EventsTail
  <2>6. Registered'
    <3>1. ASSUME NEW x \in Clients, watch'[x] # None
          PROVE  /\ watch'[x] \in [token : Nat, write : BOOLEAN] /\ watch'[x].token >= LISTENERS
                 /\ watch'[x].token - LISTENERS + 1 \in 1..Len(conns)
                 /\ conns[watch'[x].token - LISTENERS + 1] = x
      <4>1. CASE x = c BY <1>1, <1>3, <1>4, <1>11, <2>2, <4>1 DEF Registered
      <4>2. CASE x # c BY <1>1, <1>3, <1>4, <2>2, <3>1, <4>2 DEF Registered
      <4> QED BY <4>1, <4>2
    <3>2. ASSUME NEW x \in Held PROVE watch'[x] # None
      <4>1. x \in Clients BY DEF Held
      <4>2. CASE x = c BY <2>2, <4>2, WorkerAssumption
      <4>3. CASE x # c BY <1>1, <1>3, <1>4, <2>2, <4>1, <4>3 DEF Registered
      <4> QED BY <4>2, <4>3
    <3> QED BY <1>2, <1>3, <2>2, <2>3, <3>1, <3>2, WorkerAssumption DEF Registered
  <2> QED BY <1>1, <1>3, <2>3, <2>4, <2>5, <2>6, PollKeep
<1>13. CASE Vacated(s) /\ watch' = remove(c)
  <2>1. /\ Slotted' /\ Held' = Held \ {c} /\ Len(conns') = Len(conns) /\ conns'[s + 1] = None
        /\ \A i \in 1..Len(conns) : i # s + 1 => conns'[i] = conns[i]
    BY <1>1, <1>4, <1>8, <1>9, <1>13, VacatedIs
  <2>2. OnePlace'
    <3>1. Landed' = Landed /\ LandedOnce' BY <1>2, <1>4, ComQKept DEF OnePlace
    <3>2. Waiting' = Waiting /\ Heard' = Heard /\ HeardOnce' /\ Queued'
      BY <1>2, <1>4 DEF Waiting, Heard, HeardOnce, Queued, OnePlace, Ports
    <3> QED BY <1>2, <1>4, <2>1, <3>1, <3>2 DEF OnePlace, Disjoint5
  <2>3. Events'
    <3>1. \A i \in 1..Len(conns) : conns'[i] = conns[i] \/ ready[1].token = i - 1 + LISTENERS
      <4> SUFFICES ASSUME NEW i \in 1..Len(conns), i = s + 1 PROVE ready[1].token = i - 1 + LISTENERS BY <2>1
      <4> QED BY <1>7, <1>8
    <3>2. Len(conns') \in Nat /\ Len(conns) <= Len(conns') BY <1>10, <2>1
    <3> QED BY <1>1, <1>2, <1>4, <1>10, <3>1, <3>2, EventsTail
  <2>4. Registered'
    <3>1. /\ DOMAIN watch' = Clients /\ watch'[c] = None /\ \A x \in Clients : x # c => watch'[x] = watch[x]
      BY <1>9, <1>11, <1>13 DEF remove
    <3>2. ASSUME NEW x \in Clients, watch'[x] # None
          PROVE  /\ watch'[x] \in [token : Nat, write : BOOLEAN] /\ watch'[x].token >= LISTENERS
                 /\ watch'[x].token - LISTENERS + 1 \in 1..Len(conns')
                 /\ conns'[watch'[x].token - LISTENERS + 1] = x
      <4>1. x # c /\ watch'[x] = watch[x] BY <3>1, <3>2
      <4>2. /\ watch'[x] \in [token : Nat, write : BOOLEAN] /\ watch'[x].token >= LISTENERS
            /\ watch'[x].token - LISTENERS + 1 \in 1..Len(conns)
            /\ conns[watch'[x].token - LISTENERS + 1] = x
        BY <1>1, <1>3, <1>4, <3>2, <4>1 DEF Registered
      <4>3. watch'[x].token - LISTENERS + 1 # s + 1 BY <1>9, <4>1, <4>2
      <4> QED BY <2>1, <4>2, <4>3
    <3>3. ASSUME NEW x \in Clients, x \in Held' PROVE watch'[x] # None
      <4>1. x # c /\ x \in Held BY <2>1, <3>3
      <4> QED BY <1>1, <1>3, <1>4, <3>1, <4>1 DEF Registered
    <3> QED BY <1>2, <1>3, <3>1, <3>2, <3>3, WorkerAssumption DEF Registered
  <2> QED BY <1>1, <1>3, <2>1, <2>2, <2>3, <2>4, PollKeep
<1> QED BY <1>8, <1>9, <1>12, <1>13 DEF Turn

\* A connection is taken from a listener, refused, or not there.
LEMMA TakeInv ==
  ASSUME IInv, Take
  PROVE  IInv'
<1>1. /\ pc = "batch" /\ ready # <<>> /\ Head(ready).token < LISTENERS
      /\ UNCHANGED <<target, loop, pc, came, gone, owing, completing, ringVars>>
  BY DEF Take
<1>2. /\ loop' = loop /\ came' = came /\ done' = done /\ pc' = pc /\ arriving' = arriving /\ UNCHANGED cq /\ owing' = owing
  BY <1>1 DEF completing, ringVars
<1>3. loop \in {"epoll", "kqueue"} BY <1>1, OnPoller
<1>4. Slotted /\ OnePlace /\ Registered /\ Events BY DEF IInv
<1>5. PICK V : ready \in Seq(V) BY <1>4 DEF Events
<1>6. 1 \in 1..Len(ready) /\ Head(ready) = ready[1] BY <1>1, <1>5, TailIs
<1>7. PICK l \in Ports : l = Head(ready).token
  <2>1. ready[1].token \in Nat BY <1>4, <1>6 DEF Events
  <2> QED BY <1>1, <1>6, <2>1, WorkerAssumption DEF Ports
<1>8. Len(conns) \in Nat BY <1>4 DEF Slotted
<1>9. Landed' = Landed /\ LandedOnce' /\ Heard' = Heard /\ HeardOnce'
  <2>1. Landed' = Landed /\ LandedOnce' BY <1>2, <1>4, ComQKept DEF OnePlace
  <2> QED BY <1>2, <1>4, <2>1 DEF Heard, HeardOnce, OnePlace
<1>10. /\ Disjoint5(Waiting, Landed, Heard, {arriving} \ {None}, Held) /\ Queued
       /\ Landed \cup Heard \cup ({arriving} \ {None}) \cup Held \subseteq came
  BY <1>4 DEF OnePlace
<1>11. CASE queue' = queue /\ ready' = Tail(ready) /\ UNCHANGED <<conns, free, watch>>
  <2>1. Slotted' BY <1>2, <1>4, <1>11, SlottedKept DEF slots
  <2>2. OnePlace' BY <1>2, <1>4, <1>11, OnePlaceKept
  <2>3. Registered' BY <1>2, <1>4, <1>11, RegisteredKept
  <2>4. Events' BY <1>1, <1>2, <1>4, <1>8, <1>11, EventsTail
  <2> QED BY <1>1, <1>3, <2>1, <2>2, <2>3, <2>4, PollKeep
<1>12. CASE \E c \in queue[l] : /\ queue' = [queue EXCEPT ![l] = @ \ {c}]
                                /\ UNCHANGED <<conns, free, watch, ready>>
  <2>1. PICK c \in queue[l] : queue' = [queue EXCEPT ![l] = @ \ {c}] BY <1>12
  <2>2. Queued' /\ Waiting' = Waiting \ {c} BY <1>2, <1>10, <2>1, QueueLess
  <2>3. Slotted' /\ Held' = Held BY <1>2, <1>4, <1>12, SlottedKept DEF slots
  <2>4. Disjoint5(Waiting', Landed, Heard, {arriving} \ {None}, Held) BY <1>10, <2>2 DEF Disjoint5
  <2>5. OnePlace' BY <1>2, <1>9, <1>10, <2>2, <2>3, <2>4 DEF OnePlace
  <2>6. Registered' BY <1>2, <1>4, <1>12, RegisteredKept
  <2>7. Events' BY <1>2, <1>4, <1>12, EventsKept
  <2> QED BY <1>1, <1>3, <2>3, <2>5, <2>6, <2>7, PollKeep
<1>13. CASE \E c \in queue[l] : /\ queue' = [queue EXCEPT ![l] = @ \ {c}]
                                /\ Seated(c) /\ watch' = add(c, SlotFor + LISTENERS)
                                /\ ready' = Tail(ready)
  <2>1. PICK c \in queue[l] : /\ queue' = [queue EXCEPT ![l] = @ \ {c}]
                              /\ Seated(c) /\ watch' = add(c, SlotFor + LISTENERS)
                              /\ ready' = Tail(ready)
    BY <1>13
  <2>2. Queued' /\ Waiting' = Waiting \ {c} /\ c \in Waiting /\ c \in Clients /\ c \in came
    BY <1>2, <1>10, <2>1, QueueLess
  <2>3. c \notin Held /\ c \notin Landed /\ c \notin Heard /\ c \notin ({arriving} \ {None})
    BY <1>10, <2>2 DEF Disjoint5
  <2>4. PICK s \in Nat :
         /\ s = SlotFor /\ Slotted' /\ Held' = Held \cup {c} /\ s + 1 \in 1..Len(conns') /\ conns'[s + 1] = c
         /\ Len(conns) <= Len(conns')
         /\ \A i \in 1..Len(conns) : i \in 1..Len(conns') /\ (i # s + 1 => conns'[i] = conns[i])
         /\ s + 1 \in 1..Len(conns) => conns[s + 1] = None
    BY <1>2, <1>4, <2>1, <2>2, <2>3, SeatedIs
  <2>5. Disjoint5(Waiting', Landed, Heard, {arriving} \ {None}, Held') BY <1>10, <2>2, <2>3, <2>4 DEF Disjoint5
  <2>6. OnePlace' BY <1>2, <1>9, <1>10, <2>2, <2>4, <2>5 DEF OnePlace
  <2>7. Events'
    <3>1. \A i \in 1..Len(conns) : conns'[i] = conns[i] \/ conns[i] = None BY <2>4
    <3>2. Len(conns') \in Nat BY <2>4 DEF Slotted
    <3> QED BY <1>1, <1>2, <1>4, <1>8, <2>1, <2>4, <3>1, <3>2, EventsTail
  <2>8. Registered'
    <3>1. DOMAIN watch = Clients BY <1>1, <1>3, <1>4 DEF Registered
    <3>2. /\ DOMAIN watch' = Clients /\ watch'[c] = [token |-> s + LISTENERS, write |-> FALSE]
          /\ \A x \in Clients : x # c => watch'[x] = watch[x]
      BY <2>1, <2>2, <2>4, <3>1 DEF add
    <3>3. watch'[c] \in [token : Nat, write : BOOLEAN] /\ watch'[c].token = s + LISTENERS
      BY <3>2, WorkerAssumption
    <3>4. watch'[c].token >= LISTENERS /\ watch'[c].token - LISTENERS + 1 = s + 1 BY <3>3, WorkerAssumption
    <3>5. ASSUME NEW x \in Clients, watch'[x] # None
          PROVE  /\ watch'[x] \in [token : Nat, write : BOOLEAN] /\ watch'[x].token >= LISTENERS
                 /\ watch'[x].token - LISTENERS + 1 \in 1..Len(conns')
                 /\ conns'[watch'[x].token - LISTENERS + 1] = x
      <4>1. CASE x = c BY <2>4, <3>3, <3>4, <4>1
      <4>2. CASE x # c
        <5>1. watch'[x] = watch[x] BY <3>2, <4>2
        <5>2. /\ watch'[x] \in [token : Nat, write : BOOLEAN] /\ watch'[x].token >= LISTENERS
              /\ watch'[x].token - LISTENERS + 1 \in 1..Len(conns)
              /\ conns[watch'[x].token - LISTENERS + 1] = x
          BY <1>1, <1>3, <1>4, <3>5, <5>1 DEF Registered
        <5>3. watch'[x].token - LISTENERS + 1 # s + 1 BY <2>4, <5>2, WorkerAssumption
        <5> QED BY <2>4, <5>2, <5>3
      <4> QED BY <4>1, <4>2
    <3>6. ASSUME NEW x \in Clients, x \in Held' PROVE watch'[x] # None
      <4>1. CASE x = c BY <3>3, <4>1, WorkerAssumption
      <4>2. CASE x # c BY <1>1, <1>3, <1>4, <2>4, <3>2, <3>6, <4>2 DEF Registered
      <4> QED BY <4>1, <4>2
    <3> QED BY <1>2, <1>3, <3>2, <3>5, <3>6, WorkerAssumption DEF Registered
  <2> QED BY <1>1, <1>3, <2>4, <2>6, <2>7, <2>8, PollKeep
<1> QED BY <1>7, <1>11, <1>12, <1>13 DEF Take

\* What a wait says of one connection.
LEMMA ReadinessIs ==
  ASSUME NEW c \in Clients, NEW e \in Readiness(c)
  PROVE  /\ e.token = watch[c].token /\ e.who = c /\ e.filter \in {"both", "read", "write"}
         /\ e = [token |-> watch[c].token, gone |-> c \in gone, filter |-> e.filter, who |-> c]
         /\ loop = "epoll" => e.filter = "both"
<1>1. CASE loop = "epoll" BY <1>1 DEF Readiness
<1>2. CASE loop # "epoll"
  <2>1. PICK event : event = [token |-> watch[c].token, gone |-> c \in gone, filter |-> "both", who |-> c] OBVIOUS
  <2>2. PICK f \in {"read", "write"} : e = [event EXCEPT !.filter = f] BY <1>2, <2>1 DEF Readiness
  <2>3. e = [token |-> watch[c].token, gone |-> c \in gone, filter |-> f, who |-> c] BY <2>1, <2>2
  <2>4. e.filter = f /\ e.token = watch[c].token /\ e.who = c BY ONLY <2>3
  <2>5. e = [token |-> watch[c].token, gone |-> c \in gone, filter |-> e.filter, who |-> c]
    BY ONLY <2>3, <2>4
  <2> QED BY <1>2, <2>2, <2>4, <2>5
<1> QED BY <1>1, <1>2

\* Everything a wait could say is finite.
LEMMA SaidFinite ==
  ASSUME NEW L, L \subseteq Ports, NEW A, A \subseteq Clients
  PROVE  IsFiniteSet({Knock(l) : l \in L} \cup UNION {Readiness(c) : c \in A})
<1>1. IsFiniteSet({Knock(l) : l \in L})
  <2>1. IsFiniteSet(Ports) BY WorkerAssumption, FS_Interval DEF Ports
  <2>2. IsFiniteSet(L) BY <2>1, FS_Subset
  <2>3. PICK f, V : f = [l \in L |-> Knock(l)] /\ V = {Knock(l) : l \in L} OBVIOUS
  <2>4. f \in Surjection(L, V) BY <2>3 DEF Surjection
  <2>5. IsFiniteSet(V) BY <2>2, <2>4, FS_Surjection
  <2> QED BY <2>3, <2>5
<1>2. IsFiniteSet(UNION {Readiness(c) : c \in A})
  <2>1. PICK F : F = {"both", "read", "write"} OBVIOUS
  <2>2. IsFiniteSet(F)
    <3>1. IsFiniteSet({"both"}) /\ IsFiniteSet({"read"}) /\ IsFiniteSet({"write"}) BY FS_Singleton
    <3>2. IsFiniteSet({"both"} \cup {"read"}) BY <3>1, FS_Union
    <3>3. IsFiniteSet(({"both"} \cup {"read"}) \cup {"write"}) BY <3>1, <3>2, FS_Union
    <3>4. F = ({"both"} \cup {"read"}) \cup {"write"} BY <2>1
    <3> QED BY <3>3, <3>4
  <2>3. IsFiniteSet(Clients \X F) BY <2>2, WorkerAssumption, FS_Product
  <2>4. PICK D : D = Clients \X F OBVIOUS
  <2> DEFINE g == [u \in D |-> [token |-> watch[u[1]].token, gone |-> u[1] \in gone, filter |-> u[2], who |-> u[1]]]
  <2>5. PICK V : V = {g[u] : u \in D} OBVIOUS
  <2>6. g \in Surjection(D, V) BY <2>5 DEF Surjection
  <2>7. IsFiniteSet(V)
    <3> HIDE DEF g
    <3> QED BY <2>3, <2>4, <2>6, FS_Surjection
  <2>8. ASSUME NEW e \in UNION {Readiness(c) : c \in A} PROVE e \in V
    <3>1. PICK c \in A : e \in Readiness(c) OBVIOUS
    <3>2. c \in Clients BY <3>1
    <3>3. /\ e.filter \in {"both", "read", "write"}
          /\ e = [token |-> watch[c].token, gone |-> c \in gone, filter |-> e.filter, who |-> c]
      BY <3>1, <3>2, ReadinessIs
    <3>4. PICK f \in F : f = e.filter BY <2>1, <3>3
    <3>5. PICK u : u = <<c, f>> OBVIOUS
    <3>6. u \in D BY <2>4, <3>2, <3>5
    <3>7. g[u] = [token |-> watch[c].token, gone |-> c \in gone, filter |-> f, who |-> c] BY <3>5, <3>6
    <3>8. g[u] = e BY ONLY <3>3, <3>4, <3>7
    <3> HIDE DEF g
    <3> QED BY <2>5, <3>6, <3>8
  <2>9. UNION {Readiness(c) : c \in A} \subseteq V BY <2>8
  <2> QED BY <2>7, <2>9, FS_Subset
<1> QED BY <1>1, <1>2, FS_Union

\* A batch of events begins.
LEMMA WaitInv ==
  ASSUME IInv, Wait
  PROVE  IInv'
<1>1. /\ pc = "wait" /\ loop \in {"epoll", "kqueue"} /\ pc' = "batch"
      /\ UNCHANGED <<target, loop, people, slots, watch, completing, ringVars>>
  BY DEF Wait
<1>2. /\ conns' = conns /\ watch' = watch /\ loop' = loop /\ came' = came /\ queue' = queue /\ done' = done
      /\ arriving' = arriving /\ UNCHANGED slots /\ UNCHANGED cq
  BY <1>1 DEF slots, people, completing, ringVars
<1>3. Slotted' BY <1>2, SlottedKept DEF IInv
<1>4. OnePlace' BY <1>2, OnePlaceKept DEF IInv
<1>5. Registered' BY <1>1, <1>2, RegisteredKept DEF IInv
<1>6. PICK L, A : /\ L \subseteq Ports /\ A \subseteq Clients /\ \A c \in A : watch[c] # None
                  /\ ready' \in SetToSeqs({Knock(l) : l \in L} \cup UNION {Readiness(c) : c \in A})
  <2> DEFINE registered == {c \in Clients : watch[c] # None}
             L == {l \in Ports : queue[l] # {}}
  <2>1. PICK some \in SUBSET registered :
          \E batch \in SetToSeqs({Knock(l) : l \in L}
                                   \cup UNION {Readiness(c) : c \in some \cup (registered \cap gone)}) :
             ready' = batch
    BY DEF Wait
  <2>2. PICK A : A = some \cup (registered \cap gone) OBVIOUS
  <2>3. A \subseteq Clients /\ \A c \in A : watch[c] # None BY <2>2
  <2>4. ready' \in SetToSeqs({Knock(l) : l \in L} \cup UNION {Readiness(c) : c \in A}) BY <2>1, <2>2
  <2>5. L \subseteq Ports OBVIOUS
  <2> HIDE DEF L, registered
  <2> QED BY <2>3, <2>4, <2>5
<1>7. PICK S : S = {Knock(l) : l \in L} \cup UNION {Readiness(c) : c \in A} OBVIOUS
<1>8. PICK n \in Nat : n = Cardinality(S)
  <2>1. IsFiniteSet(S) BY <1>6, <1>7, SaidFinite
  <2> QED BY <2>1, FS_CardinalityType
<1>9. ready' \in [1..n -> S] /\ \A i, j \in 1..n : i # j => ready'[i] # ready'[j]
  BY <1>6, <1>7, <1>8 DEF SetToSeqs
<1>10. ready' \in Seq(S) /\ Len(ready') = n BY <1>8, <1>9
<1>11. ASSUME NEW e \in S
       PROVE  \/ \E l \in Ports : e = Knock(l)
              \/ \E c \in A : e \in Readiness(c)
  BY <1>6, <1>7
<1>12. \A l \in Ports : Knock(l).token = l /\ l \in Nat /\ ~(l >= LISTENERS)
  BY WorkerAssumption DEF Knock, Ports
<1>13. ASSUME NEW c \in A, NEW e \in Readiness(c)
       PROVE  /\ e.token = watch[c].token /\ e.token \in Nat /\ e.token >= LISTENERS
              /\ e.token - LISTENERS + 1 \in 1..Len(conns) /\ conns[e.token - LISTENERS + 1] = c /\ e.who = c
              /\ c \in Clients
  <2>1. c \in Clients /\ watch[c] # None BY <1>6
  <2>2. /\ watch[c] \in [token : Nat, write : BOOLEAN] /\ watch[c].token >= LISTENERS
        /\ watch[c].token - LISTENERS + 1 \in 1..Len(conns)
        /\ conns[watch[c].token - LISTENERS + 1] = c
    BY <1>1, <2>1 DEF IInv, Registered
  <2>3. e.token = watch[c].token /\ e.who = c BY <2>1, ReadinessIs
  <2> QED BY <2>1, <2>2, <2>3
<1>14. \A e \in S : e.token \in Nat /\ (e.token >= LISTENERS => e.token - LISTENERS + 1 \in 1..Len(conns))
  BY <1>11, <1>12, <1>13
<1>15. \A e \in S : e.token >= LISTENERS => e.who \in Clients /\ conns[e.token - LISTENERS + 1] = e.who
  BY <1>11, <1>12, <1>13
<1>16. ASSUME loop = "epoll", NEW e \in S, NEW d \in S, e.token = d.token PROVE e = d
  <2>1. CASE \E l \in Ports : e = Knock(l)
    <3>1. PICK l \in Ports : e = Knock(l) BY <2>1
    <3>2. PICK m \in Ports : d = Knock(m) BY <1>11, <1>12, <1>13, <1>16, <3>1
    <3> QED BY <1>12, <1>16, <3>1, <3>2
  <2>2. CASE \E c \in A : e \in Readiness(c)
    <3>1. PICK c \in A : e \in Readiness(c) BY <2>2
    <3>2. PICK b \in A : d \in Readiness(b) BY <1>11, <1>12, <1>13, <1>16, <3>1
    <3>3. c = b
      <4>1. conns[e.token - LISTENERS + 1] = c BY <1>13, <3>1
      <4>2. conns[d.token - LISTENERS + 1] = b BY <1>13, <3>2
      <4> QED BY <1>16, <4>1, <4>2
    <3>4. c \in Clients BY <1>6, <3>1
    <3>5. /\ e = [token |-> watch[c].token, gone |-> c \in gone, filter |-> e.filter, who |-> c]
          /\ d = [token |-> watch[c].token, gone |-> c \in gone, filter |-> d.filter, who |-> c]
          /\ e.filter = "both" /\ d.filter = "both"
      BY <1>16, <3>1, <3>2, <3>3, <3>4, ReadinessIs
    <3> QED BY ONLY <3>5
  <2> QED BY <1>11, <2>1, <2>2
<1>17. Events'
  <2>1. \A i \in 1..n : ready'[i] \in S BY <1>9
  <2> QED BY <1>2, <1>9, <1>10, <1>14, <1>15, <1>16, <2>1 DEF Events
<1> QED BY <1>1, <1>3, <1>4, <1>5, <1>17, PollKeep

\* The operations of the ring.
Ops == [kind : {"tick", "accept", "recv", "send"}, index : Nat, who : Clients \cup {None}]

\* Something of the completion loop's is at hand.
LEMMA OnRing ==
  ASSUME IInv, todo # <<>> \/ done # <<>> \/ arriving # None \/ pc = "reap"
  PROVE  loop = "ring"
BY WorkerAssumption DEF IInv, Control

\* What a step of the completion loop does not touch.
LEMMA RingKeep ==
  ASSUME IInv, loop = "ring", UNCHANGED <<loop, polling>>, Control', Slotted', Positions', OnePlace', Flight'
  PROVE  IInv'
<1>1. ready' = ready /\ watch' = watch BY DEF polling
<1>2. ready = <<>> BY DEF IInv, Control
<1>3. Registered' BY WorkerAssumption DEF Registered
<1>4. Events'
  <2>1. Len(ready') = 0 /\ \A V : ready' \in Seq(V) BY <1>1, <1>2
  <2>2. \A i : ~(i \in 1..Len(ready')) BY <2>1
  <2> QED BY <2>1, <2>2 DEF Events
<1> QED BY <1>3, <1>4 DEF IInv

\* The next to be submitted goes from the list.
LEMMA TodoTail ==
  ASSUME todo \in Seq(Ops), todo # <<>>, todo' = Tail(todo)
  PROVE  /\ todo' \in Seq(Ops) /\ Len(todo') = Len(todo) - 1 /\ Len(todo) \in Nat /\ Len(todo) > 0
         /\ Head(todo) \in Wanted /\ (WantedOnce => Wanted' = Wanted \ {Head(todo)} /\ WantedOnce')
<1>1. PICK n \in Nat : n = Len(todo) /\ n > 0 BY TailIs
<1>2. /\ todo' \in Seq(Ops) /\ Len(todo') = n - 1 /\ Head(todo) = todo[1]
      /\ \A i \in 1 .. n - 1 : todo'[i] = todo[i + 1] /\ i + 1 \in 1 .. n /\ i + 1 # 1
      /\ \A i \in 1 .. n : i = 1 \/ (i - 1 \in 1 .. n - 1 /\ todo[i] = todo'[i - 1])
  BY <1>1, TailIs
<1>3. 1 \in 1 .. n BY <1>1
<1>4. Head(todo) \in Wanted BY <1>1, <1>2, <1>3 DEF Wanted
<1>5. ASSUME WantedOnce PROVE Wanted' = Wanted \ {Head(todo)} /\ WantedOnce'
  <2>1. \A i, j \in 1 .. n : todo[i] = todo[j] => i = j BY <1>1, <1>5 DEF WantedOnce
  <2>2. ASSUME NEW x \in Wanted' PROVE x \in Wanted \ {Head(todo)}
    <3>1. PICK i \in 1 .. n - 1 : x = todo'[i] BY <1>2, <2>2 DEF Wanted
    <3>2. x = todo[i + 1] /\ i + 1 \in 1 .. n /\ i + 1 # 1 BY <1>2, <3>1
    <3> QED BY <1>1, <1>2, <1>3, <2>1, <3>2 DEF Wanted
  <2>3. ASSUME NEW x \in Wanted, x # Head(todo) PROVE x \in Wanted'
    <3>1. PICK i \in 1 .. n : x = todo[i] BY <1>1 DEF Wanted
    <3>2. i - 1 \in 1 .. n - 1 /\ x = todo'[i - 1] BY <1>2, <2>3, <3>1
    <3> QED BY <1>2, <3>2 DEF Wanted
  <2>4. ASSUME NEW i \in 1 .. n - 1, NEW j \in 1 .. n - 1, todo'[i] = todo'[j] PROVE i = j
    <3>1. i + 1 = j + 1 BY <1>2, <2>1, <2>4
    <3> QED BY <1>1, <3>1
  <2>5. WantedOnce' BY <1>2, <2>4 DEF WantedOnce
  <2> QED BY <2>2, <2>3, <2>5
<1> QED BY <1>1, <1>2, <1>4, <1>5

\* The next completion goes from the list.
LEMMA DoneTail ==
  ASSUME NEW V, done \in Seq(V), done # <<>>, done' = Tail(done), HeardOnce
  PROVE  /\ done' \in Seq(V) /\ Head(done).op \in Read
         /\ HeardOnce' /\ Heard' = Heard \ {Head(done).res}
         /\ Head(done).res \in Clients => Head(done).res \in Heard
         /\ (ReadOnce => Read' = Read \ {Head(done).op} /\ ReadOnce')
<1>1. PICK n \in Nat : n = Len(done) /\ n > 0 BY TailIs
<1>2. /\ done' \in Seq(V) /\ Len(done') = n - 1 /\ Head(done) = done[1]
      /\ \A i \in 1 .. n - 1 : done'[i] = done[i + 1] /\ i + 1 \in 1 .. n /\ i + 1 # 1
      /\ \A i \in 1 .. n : i = 1 \/ (i - 1 \in 1 .. n - 1 /\ done[i] = done'[i - 1])
  BY <1>1, TailIs
<1>3. 1 \in 1 .. n BY <1>1
<1>4. Head(done).op \in Read BY <1>1, <1>2, <1>3 DEF Read
<1>5. ASSUME ReadOnce PROVE Read' = Read \ {Head(done).op} /\ ReadOnce'
  <2>1. \A i, j \in 1 .. n : done[i].op = done[j].op => i = j BY <1>1, <1>5 DEF ReadOnce
  <2>2. ASSUME NEW x \in Read' PROVE x \in Read \ {Head(done).op}
    <3>1. PICK i \in 1 .. n - 1 : x = done'[i].op BY <1>2, <2>2 DEF Read
    <3>2. x = done[i + 1].op /\ i + 1 \in 1 .. n /\ i + 1 # 1 BY <1>2, <3>1
    <3> QED BY <1>1, <1>2, <1>3, <2>1, <3>2 DEF Read
  <2>3. ASSUME NEW x \in Read, x # Head(done).op PROVE x \in Read'
    <3>1. PICK i \in 1 .. n : x = done[i].op BY <1>1 DEF Read
    <3>2. i - 1 \in 1 .. n - 1 /\ x = done'[i - 1].op BY <1>2, <2>3, <3>1
    <3> QED BY <1>2, <3>2 DEF Read
  <2>4. ASSUME NEW i \in 1 .. n - 1, NEW j \in 1 .. n - 1, done'[i].op = done'[j].op PROVE i = j
    <3>1. i + 1 = j + 1 BY <1>2, <2>1, <2>4
    <3> QED BY <1>1, <3>1
  <2>5. ReadOnce' BY <1>2, <2>4 DEF ReadOnce
  <2> QED BY <2>2, <2>3, <2>5
<1>6. \A i, j \in 1 .. n : done[i].res = done[j].res /\ done[i].res \in Clients => i = j BY <1>1 DEF HeardOnce
<1>7. \A x : x \in Heard <=> x \in Clients /\ \E i \in 1 .. n : done[i].res = x BY <1>1 DEF Heard
<1>8. \A x : x \in Heard' <=> x \in Clients /\ \E i \in 1 .. n - 1 : done'[i].res = x BY <1>2 DEF Heard
<1>9. ASSUME NEW x \in Heard' PROVE x \in Heard \ {Head(done).res}
  <2>1. PICK i \in 1 .. n - 1 : done'[i].res = x BY <1>8, <1>9
  <2>2. x = done[i + 1].res /\ i + 1 \in 1 .. n /\ i + 1 # 1 /\ x \in Clients BY <1>2, <1>8, <1>9, <2>1
  <2> QED BY <1>2, <1>3, <1>6, <1>7, <2>2
<1>10. ASSUME NEW x \in Heard, x # Head(done).res PROVE x \in Heard'
  <2>1. PICK i \in 1 .. n : done[i].res = x BY <1>7
  <2>2. i - 1 \in 1 .. n - 1 /\ done'[i - 1].res = x BY <1>2, <1>10, <2>1
  <2> QED BY <1>7, <1>8, <2>2
<1>11. HeardOnce'
  <2> SUFFICES ASSUME NEW i \in 1 .. n - 1, NEW j \in 1 .. n - 1, done'[i].res = done'[j].res, done'[i].res \in Clients
               PROVE  i = j
    BY <1>2 DEF HeardOnce
  <2>1. i + 1 = j + 1 BY <1>2, <1>6
  <2> QED BY <1>1, <2>1
<1>12. Head(done).res \in Clients => Head(done).res \in Heard BY <1>2, <1>3, <1>7
<1> QED BY <1>2, <1>4, <1>5, <1>9, <1>10, <1>11, <1>12

\* An operation is written.
LEMMA SubmitsInv ==
  ASSUME IInv, Submits
  PROVE  IInv'
<1>1. /\ pc \in {"boot", "batch"} /\ todo # <<>> /\ Room /\ Put(Head(todo)) /\ todo' = Tail(todo) /\ tries' = 0
      /\ pc' = IF pc = "boot" /\ Len(todo) = 1 THEN "wait" ELSE pc
      /\ UNCHANGED <<target, loop, people, slots, polling, done, arriving>>
  BY DEF Submits
<1>2. /\ loop' = loop /\ came' = came /\ queue' = queue /\ conns' = conns /\ done' = done /\ arriving' = arriving
      /\ UNCHANGED slots /\ ready' = ready /\ target' = target /\ UNCHANGED cq /\ kernel' = kernel
  BY <1>1 DEF people, slots, polling, Put
<1>3. loop = "ring" BY <1>1, OnRing
<1>4. Control /\ Slotted /\ Positions /\ OnePlace /\ Flight BY DEF IInv
<1>5. /\ Disjoint5(Asked, kernel, Told, Read, Wanted)
      /\ Asked \cup kernel \cup Told \cup Read \cup Wanted = Expected
      /\ AskedOnce /\ ToldOnce /\ ReadOnce /\ WantedOnce
  BY <1>1, <1>3, <1>4 DEF Flight, Serving
<1>6. /\ todo' \in Seq(Ops) /\ Len(todo') = Len(todo) - 1 /\ Len(todo) \in Nat
      /\ Head(todo) \in Wanted /\ Wanted' = Wanted \ {Head(todo)} /\ WantedOnce'
  BY <1>1, <1>4, <1>5, TodoTail DEF Control, Ops
<1>7. Head(todo) \notin Asked BY <1>5, <1>6 DEF Disjoint5
<1>8. pending < ENTRIES BY <1>1, <1>4, RoomIs DEF Positions
<1>9. SubQ' /\ AskedOnce' /\ Asked' = Asked \cup {Head(todo)} /\ pending' = pending + 1
  BY <1>1, <1>4, <1>5, <1>7, <1>8, PutIs DEF Positions
<1>10. Slotted' /\ Expected' = Expected BY <1>2, <1>4, SlottedKept
<1>11. OnePlace' BY <1>2, <1>4, OnePlaceKept
<1>12. ComQ' /\ Told' = Told /\ ToldOnce' BY <1>2, <1>4, <1>5, ComQKept DEF Positions
<1>13. Read' = Read /\ ReadOnce' BY <1>2, <1>5 DEF Read, ReadOnce
<1>14. Serving' /\ Serving BY <1>1 DEF Serving
<1>15. Positions' BY <1>1, <1>2, <1>3, <1>4, <1>9, <1>12, <1>14 DEF Positions
<1>16. Flight'
  <2>1. Disjoint5(Asked', kernel, Told, Read, Wanted') BY <1>5, <1>6, <1>9 DEF Disjoint5
  <2>2. Asked' \cup kernel \cup Told \cup Read \cup Wanted' = Expected BY <1>5, <1>6, <1>9
  <2> QED BY <1>2, <1>6, <1>9, <1>10, <1>12, <1>13, <2>1, <2>2 DEF Flight
<1>17. Control'
  <2>1. Len(todo) = 1 => todo' = <<>>
    <3>1. Len(todo) = 1 => Len(todo') = 0 BY <1>6
    <3> QED BY <1>6, <3>1
  <2> QED BY <1>1, <1>2, <1>3, <1>4, <1>6, <2>1, WorkerAssumption DEF Control, Ops
<1> QED BY <1>1, <1>3, <1>10, <1>11, <1>15, <1>16, <1>17, RingKeep

\* The kernel takes what is submitted.
LEMMA SubmitFlight ==
  ASSUME IInv, loop = "ring", Serving, Submit, Serving',
         UNCHANGED <<loop, people, slots, done, todo, arriving>>
  PROVE  /\ SubQ' /\ ComQ' /\ IsFiniteSet(kernel') /\ pending' <= pending /\ (pending > 0 => pending' < pending)
         /\ Slotted' /\ OnePlace' /\ Flight'
<1>1. /\ came' = came /\ queue' = queue /\ conns' = conns /\ UNCHANGED slots /\ UNCHANGED cq /\ loop' = loop
      /\ done' = done /\ todo' = todo /\ arriving' = arriving
  BY DEF people, slots, Submit
<1>2. Slotted /\ Positions /\ OnePlace /\ Flight BY DEF IInv
<1>3. /\ Disjoint5(Asked, kernel, Told, Read, Wanted)
      /\ Asked \cup kernel \cup Told \cup Read \cup Wanted = Expected
      /\ AskedOnce /\ ToldOnce /\ ReadOnce /\ WantedOnce
  BY <1>2 DEF Flight
<1>4. /\ SubQ' /\ AskedOnce' /\ IsFiniteSet(kernel')
      /\ pending' <= pending /\ (pending > 0 => pending' < pending)
      /\ \E G : G \subseteq Asked /\ kernel' = kernel \cup G /\ Asked' = Asked \ G
  BY <1>2, <1>3, SubmitIs DEF Positions
<1>5. PICK G : G \subseteq Asked /\ kernel' = kernel \cup G /\ Asked' = Asked \ G BY <1>4
<1>6. Slotted' /\ Expected' = Expected BY <1>1, <1>2, SlottedKept
<1>7. OnePlace' BY <1>1, <1>2, OnePlaceKept
<1>8. ComQ' /\ Told' = Told /\ ToldOnce' BY <1>1, <1>2, <1>3, ComQKept DEF Positions
<1>9. Read' = Read /\ ReadOnce' /\ Wanted' = Wanted /\ WantedOnce'
  BY <1>1, <1>3 DEF Read, ReadOnce, Wanted, WantedOnce
<1>10. Flight'
  <2>1. Disjoint5(Asked', kernel', Told, Read, Wanted) BY <1>3, <1>5 DEF Disjoint5
  <2>2. Asked' \cup kernel' \cup Told \cup Read \cup Wanted = Expected BY <1>3, <1>5
  <2> QED BY <1>4, <1>6, <1>8, <1>9, <2>1, <2>2 DEF Flight
<1> QED BY <1>4, <1>6, <1>7, <1>8, <1>10

\* There is no room: what there is is handed over, and then there is.
LEMMA FlushInv ==
  ASSUME IInv, Flush
  PROVE  IInv'
<1>1. /\ pc \in {"boot", "batch"} /\ todo # <<>> /\ ~Room /\ Submit /\ tries' = tries + 1
      /\ pc' = (IF tries = 1 THEN "stuck" ELSE pc)
      /\ UNCHANGED <<target, loop, people, slots, polling, done, todo, arriving>>
  BY DEF Flush
<1>2. loop = "ring" /\ Serving BY <1>1, OnRing DEF Serving
<1>3. Control /\ Positions BY DEF IInv
<1>4. pending = ENTRIES /\ pending > 0 /\ tries = 0
  <2>1. pending \in Nat /\ pending <= ENTRIES /\ ~(pending < ENTRIES) BY <1>1, <1>3, RoomIs DEF Positions
  <2>2. tries \in 0 .. 1 /\ tries # 1 BY <1>3, <2>1 DEF Positions
  <2> QED BY <2>1, <2>2, Sizes
<1>5. pc' = pc /\ tries' = 1 /\ Serving' BY <1>1, <1>2, <1>4 DEF Serving
<1>6. /\ SubQ' /\ ComQ' /\ IsFiniteSet(kernel') /\ pending' <= pending /\ (pending > 0 => pending' < pending)
      /\ Slotted' /\ OnePlace' /\ Flight'
  BY <1>1, <1>2, <1>5, SubmitFlight
<1>7. Positions' BY <1>1, <1>2, <1>4, <1>5, <1>6 DEF Positions
<1>8. conns' = conns /\ ready' = ready BY <1>1 DEF slots, polling
<1>9. Control' BY <1>1, <1>3, <1>5, <1>8 DEF Control
<1> QED BY <1>1, <1>2, <1>6, <1>7, <1>9, RingKeep

\* The thread waits in the kernel.
LEMMA EnterInv ==
  ASSUME IInv, Enter
  PROVE  IInv'
<1>1. /\ pc = "wait" /\ loop = "ring" /\ Submit /\ pc' = "reap"
      /\ UNCHANGED <<target, loop, people, slots, polling, completing>>
  BY DEF Enter
<1>2. Serving /\ Serving' BY <1>1 DEF Serving
<1>3. Control /\ Positions BY DEF IInv
<1>4. /\ done' = done /\ todo' = todo /\ tries' = tries /\ arriving' = arriving /\ conns' = conns /\ ready' = ready
      /\ loop' = loop /\ target' = target
  BY <1>1 DEF completing, slots, polling
<1>5. /\ SubQ' /\ ComQ' /\ IsFiniteSet(kernel') /\ pending' <= pending /\ (pending > 0 => pending' < pending)
      /\ Slotted' /\ OnePlace' /\ Flight'
  BY <1>1, <1>2, <1>4, SubmitFlight
<1>6. Positions'
  <2>1. pending \in Int /\ pending' \in Int /\ ENTRIES \in Int BY <1>3, <1>5, Sizes DEF Positions, SubQ
  <2>2. tries = 1 => pending' < ENTRIES BY <1>3, <1>5, <2>1 DEF Positions
  <2> QED BY <1>1, <1>2, <1>3, <1>4, <1>5, <2>2 DEF Positions
<1>7. Control' BY <1>1, <1>3, <1>4, WorkerAssumption DEF Control
<1> QED BY <1>1, <1>5, <1>6, <1>7, RingKeep

\* What was posted is read.
LEMMA ReapInv ==
  ASSUME IInv, Reap
  PROVE  IInv'
<1>1. /\ pc = "reap" /\ done' = Reaped /\ reap /\ pc' = "batch"
      /\ UNCHANGED <<target, loop, people, slots, polling, todo, tries, arriving>>
  BY DEF Reap
<1>2. loop = "ring" BY <1>1, OnRing
<1>3. Serving /\ Serving' BY <1>1 DEF Serving
<1>4. Control /\ Slotted /\ Positions /\ OnePlace /\ Flight BY DEF IInv
<1>5. /\ came' = came /\ queue' = queue /\ conns' = conns /\ UNCHANGED slots /\ loop' = loop /\ ready' = ready
      /\ todo' = todo /\ tries' = tries /\ arriving' = arriving /\ target' = target
  BY <1>1 DEF people, slots, polling
<1>6. done = <<>> /\ todo = <<>> /\ arriving = None BY <1>1, <1>4 DEF Control
<1>7. /\ ComQ' /\ UNCHANGED <<sq, kernel>> /\ Posted' = {} /\ cq_head' = cq_tail'
      /\ Len(done') \in Nat /\ (\E V : done' \in Seq(V))
  BY <1>1, <1>4, ReapIs DEF Positions
<1>8. PICK at \in [1 .. Len(done') -> Posted] :
        /\ \A i \in 1 .. Len(done') : done'[i] = cqes[at[i]]
        /\ \A i, j \in 1 .. Len(done') : at[i] = at[j] => i = j
        /\ \A x \in Posted : \E i \in 1 .. Len(done') : at[i] = x
  BY <1>1, <1>4, ReapIs DEF Positions
<1>9. Read = {} /\ Heard = {}
  <2>1. Len(done) = 0 BY <1>6
  <2>2. \A i : ~(i \in 1 .. Len(done)) BY <2>1
  <2> QED BY <2>2 DEF Read, Heard
<1>10. Told' = {} /\ ToldOnce' /\ Landed' = {} /\ LandedOnce' BY <1>7 DEF Told, ToldOnce, Landed, LandedOnce
<1>11. Read' = Told
  <2>1. ASSUME NEW x \in Told PROVE x \in Read'
    <3>1. PICK p \in Posted : x = cqes[p].op BY DEF Told
    <3>2. PICK i \in 1 .. Len(done') : at[i] = p BY <1>8
    <3> QED BY <1>8, <3>1, <3>2 DEF Read
  <2>2. ASSUME NEW x \in Read' PROVE x \in Told
    <3>1. PICK i \in 1 .. Len(done') : x = done'[i].op BY <2>2 DEF Read
    <3> QED BY <1>8, <3>1 DEF Told
  <2> QED BY <2>1, <2>2
<1>12. Heard' = Landed
  <2>1. ASSUME NEW x \in Landed PROVE x \in Heard'
    <3>1. x \in Clients /\ \E p \in Posted : x = cqes[p].res BY DEF Landed
    <3>2. PICK p \in Posted : x = cqes[p].res BY <3>1
    <3>3. PICK i \in 1 .. Len(done') : at[i] = p BY <1>8
    <3> QED BY <1>8, <3>1, <3>2, <3>3 DEF Heard
  <2>2. ASSUME NEW x \in Heard' PROVE x \in Landed
    <3>1. x \in Clients /\ \E i \in 1 .. Len(done') : x = done'[i].res BY <2>2 DEF Heard
    <3> QED BY <1>8, <3>1 DEF Landed
  <2> QED BY <2>1, <2>2
<1>13. HeardOnce'
  <2> SUFFICES ASSUME NEW i \in 1 .. Len(done'), NEW j \in 1 .. Len(done'),
                      done'[i].res = done'[j].res, done'[i].res \in Clients
               PROVE  i = j
    BY DEF HeardOnce
  <2>1. at[i] = at[j] BY <1>4, <1>8 DEF OnePlace, LandedOnce
  <2> QED BY <1>8, <2>1
<1>14. /\ Disjoint5(Asked, kernel, Told, Read, Wanted)
       /\ Asked \cup kernel \cup Told \cup Read \cup Wanted = Expected
       /\ AskedOnce /\ ToldOnce /\ ReadOnce /\ WantedOnce
  BY <1>2, <1>3, <1>4 DEF Flight
<1>15. ReadOnce'
  <2> SUFFICES ASSUME NEW i \in 1 .. Len(done'), NEW j \in 1 .. Len(done'), done'[i].op = done'[j].op PROVE i = j
    BY DEF ReadOnce
  <2>1. at[i] = at[j] BY <1>8, <1>14 DEF ToldOnce
  <2> QED BY <1>8, <2>1
<1>16. Slotted' /\ Expected' = Expected /\ Held' = Held BY <1>4, <1>5, SlottedKept
<1>17. SubQ' /\ Asked' = Asked /\ AskedOnce' /\ pending' = pending BY <1>4, <1>7, <1>14, SubQKept DEF Positions
<1>18. Wanted' = Wanted /\ WantedOnce' BY <1>5, <1>14 DEF Wanted, WantedOnce
<1>19. Flight'
  <2>1. Disjoint5(Asked, kernel, {}, Told, Wanted) BY <1>9, <1>14 DEF Disjoint5
  <2>2. Asked \cup kernel \cup {} \cup Told \cup Wanted = Expected BY <1>9, <1>14
  <2> QED BY <1>7, <1>10, <1>11, <1>15, <1>16, <1>17, <1>18, <2>1, <2>2 DEF Flight
<1>20. OnePlace'
  <2>1. Queued' /\ Waiting' = Waiting BY <1>4, <1>5 DEF OnePlace, Queued, Waiting, Ports
  <2> QED BY <1>4, <1>5, <1>9, <1>10, <1>12, <1>13, <1>16, <2>1 DEF OnePlace, Disjoint5
<1>21. Positions' BY <1>2, <1>3, <1>4, <1>5, <1>7, <1>17 DEF Positions
<1>22. Control' BY <1>1, <1>2, <1>4, <1>5, <1>6, <1>7, WorkerAssumption DEF Control
<1> QED BY <1>1, <1>2, <1>16, <1>19, <1>20, <1>21, <1>22, RingKeep

\* Whose an operation is, by its kind.
LEMMA ExpectedIs ==
  ASSUME NEW op \in Expected
  PROVE  /\ op.kind = "tick" => op = Tick
         /\ op.kind = "accept" => op.index \in Ports /\ op = Accept(op.index)
         /\ op.kind \in {"recv", "send"} => \E i \in Seats : op = Mine(i)
<1>1. op = Tick \/ (\E l \in Ports : op = Accept(l)) \/ (\E i \in Seats : op = Mine(i)) BY DEF Expected
<1>2. CASE op = Tick
  <2>1. op.kind = "tick" BY <1>2 DEF Tick
  <2> QED BY <1>2, <2>1
<1>3. CASE \E l \in Ports : op = Accept(l)
  <2>1. PICK l \in Ports : op = Accept(l) BY <1>3
  <2>2. op.kind = "accept" /\ op.index = l BY <2>1 DEF Accept
  <2> QED BY <2>1, <2>2
<1>4. CASE \E i \in Seats : op = Mine(i)
  <2>1. op.kind \in {"recv", "send"} BY <1>4 DEF Mine
  <2> QED BY <1>4, <2>1
<1> QED BY <1>1, <1>2, <1>3, <1>4

\* A completion in its place: who lands, and what is told.
LEMMA PostTells ==
  ASSUME ComQ, NEW op, NEW res, Post(op, res), op \notin Told, ToldOnce, LandedOnce,
         res \notin Landed
  PROVE  /\ ComQ' /\ kernel' = kernel \ {op} /\ UNCHANGED sq
         /\ Told' = Told \cup {op} /\ ToldOnce' /\ LandedOnce'
         /\ Landed' = Landed \cup ({res} \cap Clients)
<1>1. ComQ' /\ kernel' = kernel \ {op} /\ UNCHANGED sq BY PostIs
<1>2. PICK z : /\ z \notin Posted /\ Posted' = Posted \cup {z}
               /\ cqes'[z].op = op /\ cqes'[z].res = res
               /\ \A i \in Posted : cqes'[i] = cqes[i]
  BY PostIs
<1>3. Told' = Told \cup {op} BY <1>2 DEF Told
<1>4. ToldOnce'
  <2>1. \A i \in Posted : cqes[i].op # op BY DEF Told
  <2> QED BY <1>2, <2>1 DEF ToldOnce
<1>5. Landed' = Landed \cup ({res} \cap Clients) BY <1>2 DEF Landed
<1>6. LandedOnce'
  <2>1. \A i \in Posted : cqes[i].res \in Clients => cqes[i].res # res BY DEF Landed
  <2> QED BY <1>2, <2>1 DEF LandedOnce
<1> QED BY <1>1, <1>3, <1>4, <1>5, <1>6

\* The kernel finishes an operation.
LEMMA FinishInv ==
  ASSUME IInv, NEW kind \in {"tick", "accept", "recv", "send"}, Finish(kind)
  PROVE  IInv'
<1>1. UNCHANGED <<target, loop, pc, came, gone, slots, polling, completing>> BY DEF Finish
<1>2. Control /\ Slotted /\ Positions /\ OnePlace /\ Flight BY DEF IInv
<1>3. PICK op \in kernel :
        /\ op.kind = kind
        /\ \/ kind = "tick" /\ Post(op, "time") /\ UNCHANGED queue
           \/ /\ kind = "accept"
              /\ \E c \in queue[op.index] :
                   /\ \/ Post(op, c)
                      \/ c \in gone /\ Post(op, "again")
                   /\ queue' = [queue EXCEPT ![op.index] = @ \ {c}]
           \/ /\ kind \in {"recv", "send"}
              /\ Post(op, IF op.who \in gone THEN "nothing" ELSE "bytes") /\ UNCHANGED queue
  BY DEF Finish
<1>4. loop = "ring" /\ Serving BY <1>2, <1>3 DEF Positions
<1>5. /\ came' = came /\ conns' = conns /\ UNCHANGED slots /\ loop' = loop /\ ready' = ready /\ pc' = pc
      /\ todo' = todo /\ tries' = tries /\ arriving' = arriving /\ target' = target /\ done' = done
  BY <1>1 DEF slots, polling, completing
<1>6. /\ Disjoint5(Asked, kernel, Told, Read, Wanted)
      /\ Asked \cup kernel \cup Told \cup Read \cup Wanted = Expected
      /\ AskedOnce /\ ToldOnce /\ ReadOnce /\ WantedOnce
  BY <1>2, <1>4 DEF Flight
<1>7. op \notin Told /\ op \in Expected BY <1>3, <1>6 DEF Disjoint5
<1>8. \A x \in {"time", "again", "nothing", "bytes"} : x \notin Clients /\ x \notin Landed
  BY WorkerAssumption DEF Landed
<1>9. ComQ /\ LandedOnce /\ Queued BY <1>2 DEF Positions, OnePlace
<1>10. \E res : /\ Post(op, res) /\ res \notin Landed
                /\ Queued'
                /\ \/ {res} \cap Clients = {} /\ Waiting' \subseteq Waiting
                   \/ res \in Waiting /\ res \in came /\ Waiting' = Waiting \ {res}
  <2>1. CASE queue' = queue /\ \E x \in {"time", "nothing", "bytes"} : Post(op, x)
    <3>1. Queued' /\ Waiting' = Waiting BY <1>5, <1>9, <2>1 DEF Queued, Waiting, Ports
    <3> QED BY <1>8, <2>1, <3>1
  <2>2. CASE kind = "accept" /\ \E c \in queue[op.index] :
                /\ Post(op, c) \/ Post(op, "again")
                /\ queue' = [queue EXCEPT ![op.index] = @ \ {c}]
    <3>1. PICK c \in queue[op.index] :
                /\ Post(op, c) \/ Post(op, "again")
                /\ queue' = [queue EXCEPT ![op.index] = @ \ {c}]
      BY <2>2
    <3>2. op.index \in Ports BY <1>3, <1>7, <2>2, ExpectedIs
    <3>3. Queued' /\ Waiting' = Waiting \ {c} /\ c \in Waiting /\ c \in Clients /\ c \in came
      BY <1>5, <1>9, <3>1, <3>2, QueueLess
    <3>4. c \notin Landed BY <1>2, <3>3 DEF OnePlace, Disjoint5
    <3>5. CASE Post(op, c) BY <3>3, <3>4, <3>5
    <3>6. CASE Post(op, "again")
      <4>1. {"again"} \cap Clients = {} BY <1>8
      <4>2. Waiting' \subseteq Waiting BY <3>3
      <4> QED BY <1>8, <3>3, <3>6, <4>1, <4>2
    <3> QED BY <3>1, <3>5, <3>6
  <2> QED BY <1>3, <2>1, <2>2
<1>11. PICK res : /\ Post(op, res) /\ res \notin Landed
                  /\ Queued'
                  /\ \/ {res} \cap Clients = {} /\ Waiting' \subseteq Waiting
                     \/ res \in Waiting /\ res \in came /\ Waiting' = Waiting \ {res}
  BY <1>10
<1>12. /\ ComQ' /\ kernel' = kernel \ {op} /\ UNCHANGED sq
       /\ Told' = Told \cup {op} /\ ToldOnce' /\ LandedOnce'
       /\ Landed' = Landed \cup ({res} \cap Clients)
  BY <1>6, <1>7, <1>9, <1>11, PostTells
<1>13. Slotted' /\ Expected' = Expected /\ Held' = Held BY <1>2, <1>5, SlottedKept
<1>14. SubQ' /\ Asked' = Asked /\ AskedOnce' /\ pending' = pending BY <1>2, <1>6, <1>12, SubQKept DEF Positions
<1>15. Read' = Read /\ ReadOnce' /\ Wanted' = Wanted /\ WantedOnce' /\ Heard' = Heard /\ HeardOnce'
  BY <1>2, <1>5, <1>6 DEF Read, ReadOnce, Wanted, WantedOnce, Heard, HeardOnce, OnePlace
<1>16. Flight'
  <2>1. Disjoint5(Asked, kernel', Told', Read, Wanted) BY <1>3, <1>6, <1>12 DEF Disjoint5
  <2>2. Asked \cup kernel' \cup Told' \cup Read \cup Wanted = Expected BY <1>3, <1>6, <1>12
  <2> QED BY <1>12, <1>13, <1>14, <1>15, <2>1, <2>2 DEF Flight
<1>17. OnePlace'
  <2>1. CASE {res} \cap Clients = {} /\ Waiting' \subseteq Waiting
    <3>1. Landed' = Landed BY <1>12, <2>1
    <3> QED BY <1>2, <1>5, <1>11, <1>12, <1>13, <1>15, <2>1, <3>1 DEF OnePlace, Disjoint5
  <2>2. CASE res \in Waiting /\ res \in came /\ Waiting' = Waiting \ {res}
    <3>1. Landed' = Landed \cup {res} BY <1>12, <2>2 DEF Waiting
    <3> QED BY <1>2, <1>5, <1>11, <1>12, <1>13, <1>15, <2>2, <3>1 DEF OnePlace, Disjoint5
  <2> QED BY <1>11, <2>1, <2>2
<1>18. Positions'
  <2>1. IsFiniteSet(kernel') BY <1>2, <1>12, FS_Subset DEF Positions
  <2> QED BY <1>2, <1>4, <1>5, <1>12, <1>14, <2>1 DEF Positions, Serving
<1>19. Control' BY <1>2, <1>5 DEF Control
<1> QED BY <1>1, <1>4, <1>13, <1>16, <1>17, <1>18, <1>19, RingKeep

\* The operations but for that of one slot.
Rest(i) == {Tick} \cup {Accept(l) : l \in Ports} \cup {Mine(j) : j \in Seats \ {i}}

\* No operation of the others names the slot.
LEMMA RestIs ==
  ASSUME NEW i \in Int
  PROVE  /\ i \in Seats => Expected = Rest(i) \cup {Mine(i)}
         /\ i \notin Seats => Expected = Rest(i)
         /\ \A x : x.kind \in {"recv", "send"} /\ x.index = i - 1 => x \notin Rest(i)
<1>1. i \in Seats => Expected = Rest(i) \cup {Mine(i)} BY DEF Expected, Rest
<1>2. i \notin Seats => Expected = Rest(i) BY DEF Expected, Rest
<1>3. ASSUME NEW x, x.kind \in {"recv", "send"}, x.index = i - 1, x \in Rest(i) PROVE FALSE
  <2>1. x # Tick BY <1>3 DEF Tick
  <2>2. ASSUME NEW l \in Ports PROVE x # Accept(l) BY <1>3 DEF Accept
  <2>3. PICK j \in Seats \ {i} : x = Mine(j) BY <1>3, <2>1, <2>2 DEF Rest
  <2>4. x.index = j - 1 BY <2>3 DEF Mine
  <2>5. j \in Int BY DEF Seats
  <2> QED BY <1>3, <2>4, <2>5
<1> QED BY <1>1, <1>2, <1>3

\* One slot's change leaves the others' operations.
LEMMA RestKept ==
  ASSUME NEW i \in Int, Seats' \ {i} = Seats \ {i},
         \A j \in Seats \ {i} : conns'[j] = conns[j] /\ (conns'[j] \in owing' <=> conns[j] \in owing)
  PROVE  Rest(i)' = Rest(i)
<1>1. ASSUME NEW j \in Seats \ {i} PROVE Mine(j)' = Mine(j) BY <1>1 DEF Mine
<1>2. Tick' = Tick /\ \A l \in Ports : Accept(l)' = Accept(l) BY DEF Tick, Accept
<1>3. {Mine(j)' : j \in (Seats \ {i})'} = {Mine(j) : j \in Seats \ {i}} BY <1>1
<1> QED BY <1>2, <1>3 DEF Rest, Ports, Accept, Tick

\* A list of one.
LEMMA WantedOne ==
  ASSUME NEW x \in Ops, todo' = <<x>>
  PROVE  todo' \in Seq(Ops) /\ Wanted' = {x} /\ WantedOnce' /\ todo' # <<>>
<1>1. todo' \in Seq(Ops) /\ Len(todo') = 1 /\ todo'[1] = x OBVIOUS
<1>2. \A i : i \in 1 .. Len(todo') <=> i = 1 BY <1>1
<1> QED BY <1>1, <1>2 DEF Wanted, WantedOnce

\* And none.
LEMMA WantedNone ==
  ASSUME todo = <<>>
  PROVE  Wanted = {}
<1>1. \A i : ~(i \in 1 .. Len(todo)) BY Len(todo) = 0
<1> QED BY <1>1 DEF Wanted

\* A listener or the clock asks again.
LEMMA TookInv ==
  ASSUME IInv, Took
  PROVE  IInv'
<1>1. /\ pc = "batch" /\ todo = <<>> /\ arriving = None /\ done # <<>> /\ Head(done).op.kind \in {"accept", "tick"}
      /\ done' = Tail(done)
      /\ UNCHANGED <<target, loop, pc, people, slots, polling, tries, ringVars>>
  BY DEF Took, Handling
<1>2. loop = "ring" BY <1>1, OnRing
<1>3. Serving BY <1>1 DEF Serving
<1>4. Control /\ Slotted /\ Positions /\ OnePlace /\ Flight BY DEF IInv
<1>5. /\ came' = came /\ queue' = queue /\ conns' = conns /\ UNCHANGED slots /\ loop' = loop /\ ready' = ready /\ pc' = pc
      /\ tries' = tries /\ target' = target /\ UNCHANGED sq /\ UNCHANGED cq /\ kernel' = kernel
  BY <1>1 DEF people, slots, polling, ringVars
<1>6. /\ Disjoint5(Asked, kernel, Told, Read, Wanted)
      /\ Asked \cup kernel \cup Told \cup Read \cup Wanted = Expected
      /\ AskedOnce /\ ToldOnce /\ ReadOnce /\ WantedOnce
  BY <1>2, <1>3, <1>4 DEF Flight
<1>7. PICK V : done \in Seq(V) BY <1>4 DEF Control
<1>8. PICK op, res : op = Head(done).op /\ res = Head(done).res OBVIOUS
<1>9. /\ done' \in Seq(V) /\ op \in Read /\ HeardOnce' /\ Heard' = Heard \ {res}
      /\ (res \in Clients => res \in Heard) /\ Read' = Read \ {op} /\ ReadOnce'
  BY <1>1, <1>4, <1>6, <1>7, <1>8, DoneTail DEF OnePlace
<1>10. op \in Expected BY <1>6, <1>9
<1>11. todo' = <<op>> /\ (arriving' = None \/ (arriving' = res /\ res \in Clients)) /\ op \in Ops
  <2>1. CASE op.kind = "tick"
    <3>1. todo' = <<Tick>> /\ arriving' = arriving BY <1>8, <2>1 DEF Took
    <3>2. op = Tick BY <1>10, <2>1, ExpectedIs
    <3>3. Tick \in Ops BY DEF Tick, Ops
    <3> QED BY <1>1, <3>1, <3>2, <3>3
  <2>2. CASE op.kind = "accept"
    <3>1. todo' = <<Accept(op.index)>> /\ arriving' = IF res \in Clients THEN res ELSE None
      BY <1>8, <2>2 DEF Took, Rearm
    <3>2. op.index \in Ports /\ op = Accept(op.index) BY <1>10, <2>2, ExpectedIs
    <3>3. op.index \in Nat BY <3>2, WorkerAssumption DEF Ports
    <3>4. Accept(op.index) \in Ops BY <3>3 DEF Accept, Ops
    <3> QED BY <3>1, <3>2, <3>4
  <2> QED BY <1>1, <1>8, <2>1, <2>2
<1>12. todo' \in Seq(Ops) /\ Wanted' = {op} /\ WantedOnce' /\ Wanted = {} BY <1>1, <1>11, WantedOne, WantedNone
<1>13. Slotted' /\ Expected' = Expected /\ Held' = Held BY <1>4, <1>5, SlottedKept
<1>14. /\ SubQ' /\ Asked' = Asked /\ AskedOnce' /\ ComQ' /\ Told' = Told /\ ToldOnce'
       /\ Landed' = Landed /\ LandedOnce'
  BY <1>4, <1>5, <1>6, SubQKept, ComQKept DEF Positions, OnePlace
<1>15. Flight'
  <2>1. Disjoint5(Asked, kernel, Told, Read', Wanted') BY <1>6, <1>9, <1>12 DEF Disjoint5
  <2>2. Asked \cup kernel \cup Told \cup Read' \cup Wanted' = Expected BY <1>6, <1>9, <1>12
  <2> QED BY <1>5, <1>9, <1>12, <1>13, <1>14, <2>1, <2>2 DEF Flight
<1>16. OnePlace'
  <2>1. Queued' /\ Waiting' = Waiting BY <1>4, <1>5 DEF OnePlace, Queued, Waiting, Ports
  <2>2. CASE arriving' = None BY <1>4, <1>5, <1>9, <1>13, <1>14, <2>1, <2>2 DEF OnePlace, Disjoint5
  <2>3. CASE arriving' = res /\ res \in Heard BY <1>4, <1>5, <1>9, <1>13, <1>14, <2>1, <2>3 DEF OnePlace, Disjoint5
  <2> QED BY <1>9, <1>11, <2>2, <2>3
<1>17. Positions' BY <1>1, <1>3, <1>4, PositionsKept DEF Serving
<1>18. Control' BY <1>1, <1>2, <1>4, <1>5, <1>9, <1>11, <1>12, WorkerAssumption DEF Control, Ops
<1> QED BY <1>1, <1>2, <1>13, <1>15, <1>16, <1>17, <1>18, RingKeep

\* A newcomer is turned away, or gets a slot and a read.
LEMMA SeatInv ==
  ASSUME IInv, Seat
  PROVE  IInv'
<1>1. /\ pc = "batch" /\ todo = <<>> /\ arriving # None /\ arriving' = None
      /\ UNCHANGED <<target, loop, pc, people, owing, polling, done, tries, ringVars>>
  BY DEF Seat
<1>2. loop = "ring" BY <1>1, OnRing
<1>3. Serving BY <1>1 DEF Serving
<1>4. Control /\ Slotted /\ Positions /\ OnePlace /\ Flight BY DEF IInv
<1>5. /\ came' = came /\ queue' = queue /\ owing' = owing /\ loop' = loop /\ ready' = ready /\ pc' = pc /\ done' = done
      /\ tries' = tries /\ target' = target /\ UNCHANGED sq /\ UNCHANGED cq /\ kernel' = kernel
  BY <1>1 DEF people, polling, ringVars
<1>6. /\ Disjoint5(Asked, kernel, Told, Read, Wanted)
      /\ Asked \cup kernel \cup Told \cup Read \cup Wanted = Expected
      /\ AskedOnce /\ ToldOnce /\ ReadOnce /\ WantedOnce
  BY <1>2, <1>3, <1>4 DEF Flight
<1>7. Wanted = {} BY <1>1, WantedNone
<1>8. PICK c \in Clients : c = arriving BY <1>1, <1>4 DEF Control
<1>9. c \notin Held /\ c \in came /\ c # None BY <1>1, <1>4, <1>8 DEF OnePlace, Disjoint5
<1>10. Queued' /\ Waiting' = Waiting /\ Heard' = Heard /\ HeardOnce' /\ Read' = Read /\ ReadOnce'
  BY <1>4, <1>5, <1>6 DEF OnePlace, Queued, Waiting, Heard, HeardOnce, Read, ReadOnce, Ports
<1>11. /\ SubQ' /\ Asked' = Asked /\ AskedOnce' /\ ComQ' /\ Told' = Told /\ ToldOnce'
       /\ Landed' = Landed /\ LandedOnce'
  BY <1>4, <1>5, <1>6, SubQKept, ComQKept DEF Positions, OnePlace
<1>12. Positions' BY <1>1, <1>3, <1>4, PositionsKept DEF Serving
<1>13. todo' \in Seq(Ops) => Control' BY <1>1, <1>2, <1>4, <1>5, WorkerAssumption DEF Control, Ops
<1>14. CASE UNCHANGED <<conns, free, todo>>
  <2>1. UNCHANGED slots /\ todo' = todo BY <1>5, <1>14 DEF slots
  <2>2. Slotted' /\ Expected' = Expected /\ Held' = Held BY <1>4, <2>1, SlottedKept
  <2>3. OnePlace' BY <1>1, <1>4, <1>5, <1>10, <1>11, <2>2 DEF OnePlace, Disjoint5
  <2>4. Flight' BY <1>3, <1>4, <1>5, <1>1, <2>1, FlightKept DEF Serving, ringVars
  <2>5. Control' BY <1>4, <1>13, <2>1 DEF Control, Ops
  <2> QED BY <1>1, <1>2, <1>12, <2>2, <2>3, <2>4, <2>5, RingKeep
<1>15. CASE Seated(arriving) /\ todo' = <<[kind |-> "recv", index |-> SlotFor, who |-> arriving]>>
  <2>1. /\ Slotted' /\ Held' = Held \cup {c}
        /\ SlotFor \in Nat /\ SlotFor + 1 \in 1..Len(conns') /\ conns'[SlotFor + 1] = c
        /\ \A i \in 1..Len(conns') : i = SlotFor + 1 \/ i \in 1..Len(conns)
        /\ \A i \in 1..Len(conns) : i \in 1..Len(conns') /\ (i # SlotFor + 1 => conns'[i] = conns[i])
        /\ SlotFor + 1 \in 1..Len(conns) => conns[SlotFor + 1] = None
    BY <1>4, <1>5, <1>8, <1>9, <1>15, SeatedIs
  <2>2. PICK s \in Int : s = SlotFor + 1 /\ s - 1 = SlotFor /\ s - 1 \in Nat BY <2>1
  <2>3. PICK x : x = [kind |-> "recv", index |-> s - 1, who |-> c] OBVIOUS
  <2>4. x \in Ops /\ x.kind \in {"recv", "send"} /\ x.index = s - 1 BY <2>2, <2>3 DEF Ops
  <2>5. todo' \in Seq(Ops) /\ Wanted' = {x} /\ WantedOnce' BY <1>8, <1>15, <2>2, <2>3, <2>4, WantedOne
  <2>6. s \notin Seats /\ s \in Seats' BY <1>9, <2>1, <2>2 DEF Seats
  <2>7. Seats' \ {s} = Seats \ {s} BY <2>1, <2>2 DEF Seats
  <2>8. \A j \in Seats \ {s} : conns'[j] = conns[j] BY <2>1, <2>2 DEF Seats
  <2>9. Rest(s)' = Rest(s) BY <1>5, <2>7, <2>8, RestKept
  <2>10. Mine(s)' = x
    <3>1. c \notin owing' BY <1>4, <1>5, <1>9 DEF Slotted
    <3>2. conns'[s] = c BY <2>1, <2>2
    <3> QED BY <2>3, <3>1, <3>2 DEF Mine
  <2>11. Expected' = Expected \cup {x} /\ x \notin Expected
    <3>1. Expected = Rest(s) /\ x \notin Rest(s) BY <2>4, <2>6, RestIs
    <3>2. Expected' = Rest(s)' \cup {Mine(s)'} BY <2>6 DEF Expected, Rest
    <3> QED BY <2>9, <2>10, <3>1, <3>2
  <2>12. Flight'
    <3>1. Disjoint5(Asked, kernel, Told, Read, {x}) BY <1>6, <2>11 DEF Disjoint5
    <3>2. Asked \cup kernel \cup Told \cup Read \cup {x} = Expected \cup {x} BY <1>6, <1>7
    <3> QED BY <1>5, <1>10, <1>11, <2>5, <2>11, <3>1, <3>2 DEF Flight
  <2>13. OnePlace' BY <1>1, <1>4, <1>5, <1>8, <1>10, <1>11, <2>1 DEF OnePlace, Disjoint5
  <2> QED BY <1>1, <1>2, <1>12, <1>13, <2>1, <2>5, <2>12, <2>13, RingKeep
<1> QED BY <1>14, <1>15 DEF Seat

\* A connection's operation has finished: it ends, or asks for its next.
LEMMA CarriedInv ==
  ASSUME IInv, Carried
  PROVE  IInv'
<1>1. /\ pc = "batch" /\ todo = <<>> /\ arriving = None /\ done # <<>> /\ Head(done).op.kind \in {"recv", "send"}
      /\ done' = Tail(done)
      /\ UNCHANGED <<target, loop, pc, people, polling, tries, arriving, ringVars>>
  BY DEF Carried, Handling
<1>2. loop = "ring" BY <1>1, OnRing
<1>3. Serving BY <1>1 DEF Serving
<1>4. Control /\ Slotted /\ Positions /\ OnePlace /\ Flight BY DEF IInv
<1>5. /\ came' = came /\ queue' = queue /\ arriving' = None /\ loop' = loop /\ ready' = ready /\ pc' = pc
      /\ tries' = tries /\ target' = target /\ UNCHANGED sq /\ UNCHANGED cq /\ kernel' = kernel
  BY <1>1 DEF people, polling, ringVars
<1>6. /\ Disjoint5(Asked, kernel, Told, Read, Wanted)
      /\ Asked \cup kernel \cup Told \cup Read \cup Wanted = Expected
      /\ AskedOnce /\ ToldOnce /\ ReadOnce /\ WantedOnce
  BY <1>2, <1>3, <1>4 DEF Flight
<1>7. PICK V : done \in Seq(V) BY <1>4 DEF Control
<1>8. PICK op, res : op = Head(done).op /\ res = Head(done).res OBVIOUS
<1>9. /\ done' \in Seq(V) /\ op \in Read /\ HeardOnce' /\ Heard' = Heard \ {res}
      /\ Read' = Read \ {op} /\ ReadOnce'
  BY <1>1, <1>4, <1>6, <1>7, <1>8, DoneTail DEF OnePlace
<1>10. op \in Expected BY <1>6, <1>9
<1>11. PICK i \in Seats : op = Mine(i) BY <1>1, <1>8, <1>10, ExpectedIs
<1>12. PICK s \in Int : s = i /\ s \in 1..Len(conns) /\ s - 1 \in Nat /\ (s - 1) + 1 = s /\ s \in Seats
  <2>1. Len(conns) \in Nat BY <1>4 DEF Slotted
  <2> QED BY <2>1 DEF Seats
<1>13. op.index = s - 1 /\ op.kind \in {"recv", "send"} BY <1>1, <1>8, <1>11, <1>12 DEF Mine
<1>14. PICK c \in Clients : c = conns[s] /\ c = At(s - 1) /\ c # None /\ c \in Held
  <2>1. conns \in Seq(Clients \cup {None}) BY <1>4 DEF Slotted
  <2>2. conns[s] \in Clients \cup {None} /\ conns[s] # None BY <1>12, <2>1 DEF Seats
  <2> QED BY <1>12, <2>1, <2>2, HeldIs DEF At
<1>15. Expected = Rest(s) \cup {op} /\ op \notin Rest(s) BY <1>11, <1>12, <1>13, RestIs
<1>16. /\ SubQ' /\ Asked' = Asked /\ AskedOnce' /\ ComQ' /\ Told' = Told /\ ToldOnce'
       /\ Landed' = Landed /\ LandedOnce'
  BY <1>4, <1>5, <1>6, SubQKept, ComQKept DEF Positions, OnePlace
<1>17. Positions' BY <1>1, <1>3, <1>4, PositionsKept DEF Serving
<1>18. todo' \in Seq(Ops) => Control' BY <1>1, <1>2, <1>4, <1>5, <1>9, WorkerAssumption DEF Control, Ops
<1>19. Held' \subseteq Held => OnePlace'
  <2>1. Queued' /\ Waiting' = Waiting BY <1>4, <1>5 DEF OnePlace, Queued, Waiting, Ports
  <2> QED BY <1>4, <1>5, <1>9, <1>16, <2>1 DEF OnePlace, Disjoint5
<1>20. \/ Vacated(s - 1) /\ todo' = todo
       \/ /\ \E kind \in {"recv", "send"} :
               /\ todo' = <<[kind |-> kind, index |-> s - 1, who |-> c]>>
               /\ owing' = IF kind = "send" THEN owing \cup {c} ELSE owing \ {c}
          /\ UNCHANGED <<conns, free>>
  BY <1>8, <1>13, <1>14 DEF Carried
<1>21. CASE Vacated(s - 1) /\ todo' = todo
  <2>1. /\ Slotted' /\ Held' = Held \ {c} /\ owing' = owing \ {c}
        /\ Len(conns') = Len(conns) /\ conns'[s] = None
        /\ \A j \in 1..Len(conns) : j # s => conns'[j] = conns[j]
    BY <1>4, <1>12, <1>14, <1>21, VacatedIs
  <2>2. s \notin Seats' /\ Seats' \ {s} = Seats \ {s} BY <2>1 DEF Seats
  <2>3. \A j \in Seats \ {s} : conns'[j] = conns[j] /\ (conns'[j] \in owing' <=> conns[j] \in owing)
    <3> SUFFICES ASSUME NEW j \in Seats \ {s}
                 PROVE  conns'[j] = conns[j] /\ (conns'[j] \in owing' <=> conns[j] \in owing)
      OBVIOUS
    <3>1. conns'[j] = conns[j] BY <2>1 DEF Seats
    <3>2. conns[j] # c BY <1>4, <1>12, <1>14 DEF Slotted, Seats
    <3> QED BY <2>1, <3>1, <3>2
  <2>4. Rest(s)' = Rest(s) BY <2>2, <2>3, RestKept
  <2>5. Expected' = Rest(s)
    <3>1. Expected' = Rest(s)' BY <2>2 DEF Expected, Rest
    <3> QED BY <2>4, <3>1
  <2>6. Wanted = {} /\ Wanted' = Wanted /\ WantedOnce' BY <1>1, <1>6, <1>21, WantedNone DEF Wanted, WantedOnce
  <2>7. Flight'
    <3>1. Disjoint5(Asked, kernel, Told, Read', Wanted) BY <1>6, <1>9 DEF Disjoint5
    <3>2. Asked \cup kernel \cup Told \cup Read' \cup Wanted = Rest(s) BY <1>6, <1>9, <1>15, <2>6 DEF Disjoint5
    <3> QED BY <1>5, <1>9, <1>16, <2>5, <2>6, <3>1, <3>2 DEF Flight
  <2>8. OnePlace' /\ Control' BY <1>4, <1>18, <1>19, <1>21, <2>1 DEF Control, Ops
  <2> QED BY <1>1, <1>2, <1>17, <2>1, <2>7, <2>8, RingKeep
<1>22. ASSUME NEW kind \in {"recv", "send"},
              todo' = <<[kind |-> kind, index |-> s - 1, who |-> c]>>,
              owing' = IF kind = "send" THEN owing \cup {c} ELSE owing \ {c},
              UNCHANGED <<conns, free>>
       PROVE  IInv'
  <2>1. conns' = conns /\ free' = free BY <1>22
  <2>2. PICK x : x = [kind |-> kind, index |-> s - 1, who |-> c] OBVIOUS
  <2>3. x \in Ops /\ x.kind \in {"recv", "send"} /\ x.index = s - 1 BY <1>12, <2>2 DEF Ops
  <2>4. todo' \in Seq(Ops) /\ Wanted' = {x} /\ WantedOnce' BY <1>22, <2>2, <2>3, WantedOne
  <2>5. Held' = Held BY <2>1 DEF Held
  <2>6. Slotted'
    <3>1. owing' \subseteq Held' BY <1>4, <1>14, <1>22, <2>5 DEF Slotted
    <3> QED BY <1>4, <2>1, <3>1 DEF Slotted
  <2>7. Seats' = Seats BY <2>1 DEF Seats
  <2>8. \A j \in Seats \ {s} : conns'[j] = conns[j] /\ (conns'[j] \in owing' <=> conns[j] \in owing)
    <3> SUFFICES ASSUME NEW j \in Seats \ {s}
                 PROVE  conns'[j] = conns[j] /\ (conns'[j] \in owing' <=> conns[j] \in owing)
      OBVIOUS
    <3>2. conns[j] # c BY <1>4, <1>12, <1>14 DEF Slotted, Seats
    <3> QED BY <1>22, <2>1, <3>2
  <2>9. Rest(s)' = Rest(s) BY <2>7, <2>8, RestKept
  <2>10. Mine(s)' = x
    <3>1. conns'[s] = c BY <1>14, <2>1
    <3>2. c \in owing' <=> kind = "send" BY <1>22
    <3>3. (IF c \in owing' THEN "send" ELSE "recv") = kind BY <3>2
    <3> QED BY <2>2, <3>1, <3>3 DEF Mine
  <2>11. Expected' = Rest(s) \cup {x} /\ x \notin Rest(s)
    <3>1. x \notin Rest(s) BY <2>3, RestIs
    <3>2. Expected' = Rest(s)' \cup {Mine(s)'} BY <1>12, <2>7 DEF Expected, Rest
    <3> QED BY <2>9, <2>10, <3>1, <3>2
  <2>12. Asked \cup kernel \cup Told \cup Read' = Rest(s)
    <3>1. Wanted = {} BY <1>1, WantedNone
    <3> QED BY <1>6, <1>9, <1>15, <3>1 DEF Disjoint5
  <2>13. Flight'
    <3>1. Disjoint5(Asked, kernel, Told, Read', {x}) BY <1>6, <1>9, <2>11, <2>12 DEF Disjoint5
    <3>2. Asked \cup kernel \cup Told \cup Read' \cup {x} = Rest(s) \cup {x} BY <2>12
    <3> QED BY <1>5, <1>9, <1>16, <2>4, <2>11, <3>1, <3>2 DEF Flight
  <2>14. OnePlace' /\ Control' BY <1>18, <1>19, <2>4, <2>5
  <2> QED BY <1>1, <1>2, <1>17, <2>6, <2>13, <2>14, RingKeep
<1> QED BY <1>20, <1>21, <1>22

\* It holds before the thread is made.
LEMMA InitInv ==
  ASSUME Init
  PROVE  IInv
<1>1. /\ target \in Targets /\ loop = None /\ pc = "boot" /\ came = {} /\ queue = [l \in Ports |-> {}]
      /\ conns = <<>> /\ free = <<>> /\ owing = {} /\ watch = [c \in Clients |-> None] /\ ready = <<>>
      /\ done = <<>> /\ todo = <<>> /\ tries = 0 /\ arriving = None /\ RingInit
  BY DEF Init
<1>2. None \notin {"epoll", "kqueue", "ring"} BY WorkerAssumption
<1>3. \A i : /\ ~(i \in 1..Len(conns)) /\ ~(i \in 1..Len(free)) /\ ~(i \in 1..Len(ready))
             /\ ~(i \in 1..Len(done)) /\ ~(i \in 1..Len(todo))
  <2>1. Len(<<>>) = 0 OBVIOUS
  <2> QED BY <1>1, <2>1
<1>4. Control
  <2>1. todo \in Seq(Ops) /\ done \in Seq({}) BY <1>1
  <2>2. (\E V : done \in Seq(V)) BY <2>1
  <2> QED BY <1>1, <1>2, <2>1, <2>2 DEF Control, Ops
<1>5. Slotted
  <2>1. conns \in Seq(Clients \cup {None}) /\ free \in Seq(Nat) BY <1>1
  <2> QED BY <1>1, <1>3, <2>1 DEF Slotted
<1>6. SubQ /\ ComQ /\ pending = 0 /\ kernel = {} /\ cq_head = cq_tail
  <2>1. (0 + 0) % WRAP = 0 /\ (0 - 0) % WRAP = 0 BY Sizes
  <2>2. /\ sqes = [i \in 0 .. ENTRIES - 1 |-> None] /\ tail = 0 /\ sq_head = 0 /\ pending = 0 /\ kernel = {}
        /\ cqes = [i \in 0 .. CQ_ENTRIES - 1 |-> None] /\ cq_tail = 0 /\ cq_head = 0
    BY <1>1 DEF RingInit
  <2>3. Posting = 0 BY <2>1, <2>2 DEF Posting, Between
  <2> QED BY <2>1, <2>2, <2>3, Sizes DEF SubQ, ComQ
<1>7. Positions BY <1>1, <1>6, FS_EmptySet, Sizes DEF Positions
<1>8. OnePlace
  <2>1. Posted = {} BY <1>6, Emptied
  <2>2. Landed = {} /\ LandedOnce BY <2>1 DEF Landed, LandedOnce
  <2>3. Heard = {} /\ HeardOnce BY <1>3 DEF Heard, HeardOnce
  <2>4. Held = {}
    <3>1. \A x : x \in Held <=> x \in Clients /\ \E i \in 1..Len(conns) : conns[i] = x BY <1>5, HeldIs DEF Slotted
    <3> QED BY <1>3, <3>1
  <2>5. Waiting = {} /\ Queued BY <1>1 DEF Waiting, Queued
  <2> QED BY <1>1, <2>2, <2>3, <2>4, <2>5 DEF OnePlace, Disjoint5
<1>9. Registered BY <1>1, <1>2 DEF Registered
<1>10. Events
  <2>1. ready \in Seq({}) BY <1>1
  <2> QED BY <1>3, <2>1 DEF Events
<1>11. Flight BY <1>1, <1>2 DEF Flight
<1> QED BY <1>4, <1>5, <1>7, <1>8, <1>9, <1>10, <1>11 DEF IInv

\* A step of another's.
LEMMA StutterInv ==
  ASSUME IInv, UNCHANGED vars
  PROVE  IInv'
<1>1. /\ UNCHANGED <<target, loop, pc, slots, polling, completing, ringVars>>
      /\ UNCHANGED <<came, queue, cq, done, arriving, conns>>
  BY DEF vars, people, slots, completing, ringVars
<1> QED BY <1>1, OnePlaceKept, PeopleKeep DEF IInv

\* It is inductive, one step per action.
LEMMA NextInv ==
  ASSUME IInv, [Next]_vars
  PROVE  IInv'
<1>1. CASE People BY <1>1, PeopleInv
<1>2. CASE Choose BY <1>2, ChooseInv
<1>3. CASE Close BY <1>3, CloseInv
<1>4. CASE Wait BY <1>4, WaitInv
<1>5. CASE Take BY <1>5, TakeInv
<1>6. CASE Pass BY <1>6, PassInv
<1>7. CASE Turn BY <1>7, TurnInv
<1>8. CASE Upkeep BY <1>8, UpkeepInv
<1>9. CASE Submits BY <1>9, SubmitsInv
<1>10. CASE Flush BY <1>10, FlushInv
<1>11. CASE Enter BY <1>11, EnterInv
<1>12. CASE Reap BY <1>12, ReapInv
<1>13. CASE Took BY <1>13, TookInv
<1>14. CASE Seat BY <1>14, SeatInv
<1>15. CASE Carried BY <1>15, CarriedInv
<1>16. CASE Fail BY <1>16, FailInv
<1>17. CASE Kernel BY <1>17, FinishInv DEF Kernel
<1>18. CASE UNCHANGED vars BY <1>18, StutterInv
<1> QED BY <1>1, <1>2, <1>3, <1>4, <1>5, <1>6, <1>7, <1>8, <1>9, <1>10, <1>11, <1>12, <1>13, <1>14, <1>15,
           <1>16, <1>17, <1>18 DEF Next, Thread

\* The inductive invariant holds for ever: slots, positions of the two queues,
\* clients, registrations, events and operations are as they are written down
\* above, whatever the thread, the kernel and the clients do.
THEOREM Invariance == Spec => []IInv
<1>1. Init => IInv BY InitInv
<1>2. IInv /\ [Next]_vars => IInv' BY NextInv
<1> QED BY <1>1, <1>2, PTL DEF Spec

-----------------------------------------------------------------------------
(* What it says. *)

\* On epoll the event at hand is for whom it was about.
LEMMA EventsMeant ==
  ASSUME IInv
  PROVE  EventMine
<1> SUFFICES ASSUME loop = "epoll", Hears PROVE At(Slot) = Head(ready).who BY DEF EventMine
<1>1. pc = "batch" /\ ready # <<>> /\ Head(ready).token >= LISTENERS BY DEF Hears
<1>2. Events BY DEF IInv
<1>3. PICK V : ready \in Seq(V) BY <1>2 DEF Events
<1>4. 1 \in 1..Len(ready) /\ Head(ready) = ready[1] BY <1>1, <1>3, TailIs
<1>5. conns[ready[1].token - LISTENERS + 1] = ready[1].who BY <1>1, <1>2, <1>4 DEF Events
<1> QED BY <1>4, <1>5 DEF At, Slot

\* Slots, registrations and positions are of their type.
LEMMA Typed ==
  ASSUME IInv
  PROVE  TypeOK
<1>1. Control /\ Slotted /\ Positions /\ Registered BY DEF IInv
<1>2. conns \in Seq(Clients \cup {None}) /\ free \in Seq(Nat) BY <1>1 DEF Slotted
<1>3. PICK n \in Nat, m \in Nat : n = Len(conns) /\ m = Len(free) /\ DOMAIN conns = 1..n /\ DOMAIN free = 1..m BY <1>2
<1>4. ToSet(free) = {free[j] : j \in 1..m} BY <1>3 DEF ToSet
<1>5. ToSet(free) = {i - 1 : i \in {i \in DOMAIN conns : conns[i] = None}}
  <2>1. ASSUME NEW x \in ToSet(free) PROVE \E i \in {i \in DOMAIN conns : conns[i] = None} : x = i - 1
    <3>1. PICK j \in 1..m : x = free[j] BY <1>4
    <3>2. x \in Nat BY <1>2, <1>3, <3>1
    <3>3. x + 1 \in 1..n /\ conns[x + 1] = None /\ x = (x + 1) - 1 BY <1>1, <1>3, <3>1, <3>2 DEF Slotted
    <3> QED BY <1>3, <3>3
  <2>2. ASSUME NEW i \in DOMAIN conns, conns[i] = None PROVE i - 1 \in ToSet(free)
    <3>1. PICK j \in 1..m : free[j] = i - 1 BY <1>1, <1>3, <2>2 DEF Slotted
    <3> QED BY <1>4, <3>1
  <2> QED BY <2>1, <2>2
<1>6. Cardinality(ToSet(free)) = Len(free)
  <2>1. PICK f : f = [j \in 1..m |-> free[j]] OBVIOUS
  <2>2. f \in Bijection(1..m, ToSet(free))
    <3>1. f \in [1..m -> ToSet(free)] BY <1>4, <2>1
    <3>2. \A i, j \in 1..m : f[i] = f[j] => i = j BY <1>1, <1>3, <2>1 DEF Slotted
    <3>3. \A x \in ToSet(free) : \E j \in 1..m : f[j] = x BY <1>4, <2>1
    <3> QED BY <3>1, <3>2, <3>3 DEF Bijection, Injection, Surjection, IsInjective
  <2>3. IsFiniteSet(1..m) /\ Cardinality(1..m) = m
    <3>1. PICK a \in Int, b \in Int : a = 1 /\ b = m OBVIOUS
    <3>2. IsFiniteSet(a..b) /\ Cardinality(a..b) = IF a > b THEN 0 ELSE b - a + 1 BY FS_Interval
    <3> QED BY <3>1, <3>2
  <2>4. ExistsBijection(1..m, ToSet(free)) BY <2>2 DEF ExistsBijection
  <2>5. Cardinality(ToSet(free)) = Cardinality(1..m) BY <2>3, <2>4, FS_Bijection
  <2> QED BY <1>3, <2>3, <2>5
<1>7. \A i, j \in DOMAIN conns : conns[i] = conns[j] /\ conns[i] # None => i = j BY <1>1, <1>3 DEF Slotted
<1>8. loop \in {"epoll", "kqueue"} /\ pc # "stopped" => \A c \in Clients : watch[c] # None <=> c \in Held
  <2>1. \A c : c \in Held <=> c \in Clients /\ \E i \in 1..Len(conns) : conns[i] = c BY <1>2, HeldIs
  <2> QED BY <1>1, <2>1 DEF Registered
<1>9. pending \in 0 .. ENTRIES /\ tries \in 0 .. 1 BY <1>1 DEF Positions, SubQ
<1>10. /\ target \in Targets /\ loop \in {None, "epoll", "kqueue", "ring"}
       /\ pc \in {"boot", "wait", "reap", "batch", "closing", "stopped"}
  BY <1>1 DEF Control
<1> QED BY <1>5, <1>6, <1>7, <1>8, <1>9, <1>10 DEF TypeOK

\* As many images as there are things, when no two share one.
LEMMA Images ==
  ASSUME NEW I, IsFiniteSet(I), NEW f, DOMAIN f = I, \A i, j \in I : f[i] = f[j] => i = j
  PROVE  IsFiniteSet({f[i] : i \in I}) /\ Cardinality({f[i] : i \in I}) = Cardinality(I)
<1>1. PICK g : g = [i \in I |-> f[i]] OBVIOUS
<1>2. PICK T : T = {f[i] : i \in I} OBVIOUS
<1>3. g \in [I -> T] BY <1>1, <1>2
<1>4. \A i, j \in I : g[i] = g[j] => i = j BY <1>1
<1>5. \A x \in T : \E i \in I : g[i] = x BY <1>1, <1>2
<1>6. g \in Bijection(I, T) BY <1>3, <1>4, <1>5 DEF Bijection, Injection, Surjection, IsInjective
<1>7. ExistsBijection(I, T) BY <1>6 DEF ExistsBijection
<1>8. IsFiniteSet(T) /\ Cardinality(T) = Cardinality(I) BY <1>7, FS_Bijection
<1> QED BY <1>2, <1>8

\* The sizes of two sets that share nothing add up.
LEMMA Sum2 ==
  ASSUME NEW A, NEW B, IsFiniteSet(A), IsFiniteSet(B), A \cap B = {}
  PROVE  IsFiniteSet(A \cup B) /\ Cardinality(A \cup B) = Cardinality(A) + Cardinality(B)
<1>1. /\ IsFiniteSet(A \cup B)
      /\ Cardinality(A \cup B) = Cardinality(A) + Cardinality(B) - Cardinality(A \cap B)
  BY FS_Union
<1>2. Cardinality(A \cap B) = 0 BY FS_EmptySet
<1>3. Cardinality(A) \in Nat /\ Cardinality(B) \in Nat BY FS_CardinalityType
<1> QED BY <1>1, <1>2, <1>3

\* The sizes of five sets that share nothing add up.
LEMMA Sum5 ==
  ASSUME NEW A, NEW B, NEW C, NEW D, NEW E, Disjoint5(A, B, C, D, E),
         IsFiniteSet(A), IsFiniteSet(B), IsFiniteSet(C), IsFiniteSet(D), IsFiniteSet(E)
  PROVE  Cardinality(A) + Cardinality(B) + Cardinality(C) + Cardinality(D) + Cardinality(E)
           = Cardinality(A \cup B \cup C \cup D \cup E)
<1>1. PICK P : P = A \cup B OBVIOUS
<1>2. PICK Q : Q = P \cup C OBVIOUS
<1>3. PICK R : R = Q \cup D OBVIOUS
<1>4. A \cap B = {} /\ P \cap C = {} /\ Q \cap D = {} /\ R \cap E = {} BY <1>1, <1>2, <1>3 DEF Disjoint5
<1>5. IsFiniteSet(P) /\ Cardinality(P) = Cardinality(A) + Cardinality(B) BY <1>1, <1>4, Sum2
<1>6. IsFiniteSet(Q) /\ Cardinality(Q) = Cardinality(P) + Cardinality(C) BY <1>2, <1>4, <1>5, Sum2
<1>7. IsFiniteSet(R) /\ Cardinality(R) = Cardinality(Q) + Cardinality(D) BY <1>3, <1>4, <1>6, Sum2
<1>8. Cardinality(R \cup E) = Cardinality(R) + Cardinality(E) BY <1>4, <1>7, Sum2
<1>9. R \cup E = A \cup B \cup C \cup D \cup E BY <1>1, <1>2, <1>3
<1> QED BY <1>5, <1>6, <1>7, <1>8, <1>9

\* The places where an operation of X is.
Tally(X) ==
  Cardinality({i \in Submitted : sqes[i] \in X}) + Cardinality({op \in kernel : op \in X})
    + Cardinality({i \in Posted : cqes[i].op \in X})
    + Cardinality({i \in DOMAIN done : done[i].op \in X})
    + Cardinality({i \in DOMAIN todo : todo[i] \in X})

\* On the ring there are as many as there should be.
LEMMA Tallies ==
  ASSUME IInv, loop = "ring", Serving, NEW X
  PROVE  Tally(X) = Cardinality(Expected \cap X)
<1>1. Control /\ Positions /\ Flight BY DEF IInv
<1>2. /\ Disjoint5(Asked, kernel, Told, Read, Wanted)
      /\ Asked \cup kernel \cup Told \cup Read \cup Wanted = Expected
      /\ AskedOnce /\ ToldOnce /\ ReadOnce /\ WantedOnce
  BY <1>1 DEF Flight
<1>3. /\ IsFiniteSet(Submitted) /\ IsFiniteSet(Posted) /\ IsFiniteSet(kernel)
      /\ IsFiniteSet(DOMAIN done) /\ IsFiniteSet(DOMAIN todo)
      /\ DOMAIN done = 1..Len(done) /\ DOMAIN todo = 1..Len(todo)
  <2>1. ASSUME NEW n \in Int PROVE IsFiniteSet(0 .. n) /\ IsFiniteSet(1 .. n)
    <3>1. PICK a \in Int, b \in Int : a = 0 /\ b = 1 OBVIOUS
    <3>2. IsFiniteSet(a .. n) /\ IsFiniteSet(b .. n) BY FS_Interval
    <3> QED BY <3>1, <3>2
  <2>2. ENTRIES - 1 \in Int /\ CQ_ENTRIES - 1 \in Int BY Sizes
  <2>3. IsFiniteSet(0 .. ENTRIES - 1) /\ IsFiniteSet(0 .. CQ_ENTRIES - 1) BY <2>1, <2>2
  <2>4. Submitted \subseteq 0 .. ENTRIES - 1 /\ Posted \subseteq 0 .. CQ_ENTRIES - 1 BY DEF Submitted, Posted
  <2>5. IsFiniteSet(Submitted) /\ IsFiniteSet(Posted) BY <2>3, <2>4, FS_Subset
  <2>6. DOMAIN done = 1..Len(done) /\ Len(done) \in Int BY <1>1 DEF Control
  <2>7. DOMAIN todo = 1..Len(todo) /\ Len(todo) \in Int BY <1>1 DEF Control
  <2>8. IsFiniteSet(DOMAIN done) /\ IsFiniteSet(DOMAIN todo) BY <2>1, <2>6, <2>7
  <2> QED BY <1>1, <2>5, <2>6, <2>7, <2>8 DEF Positions
<1>4. IsFiniteSet(Asked \cap X) /\ Cardinality(Asked \cap X) = Cardinality({i \in Submitted : sqes[i] \in X})
  <2>1. PICK I : I = {i \in Submitted : sqes[i] \in X} OBVIOUS
  <2>2. IsFiniteSet(I) BY <1>3, <2>1, FS_Subset
  <2>3. PICK f : f = [i \in I |-> sqes[i]] OBVIOUS
  <2>4. DOMAIN f = I /\ \A i, j \in I : f[i] = f[j] => i = j BY <1>2, <2>1, <2>3 DEF AskedOnce
  <2>5. IsFiniteSet({f[i] : i \in I}) /\ Cardinality({f[i] : i \in I}) = Cardinality(I) BY <2>2, <2>4, Images
  <2>6. {f[i] : i \in I} = Asked \cap X BY <2>1, <2>3 DEF Asked
  <2> QED BY <2>1, <2>5, <2>6
<1>5. IsFiniteSet(Told \cap X) /\ Cardinality(Told \cap X) = Cardinality({i \in Posted : cqes[i].op \in X})
  <2>1. PICK I : I = {i \in Posted : cqes[i].op \in X} OBVIOUS
  <2>2. IsFiniteSet(I) BY <1>3, <2>1, FS_Subset
  <2>3. PICK f : f = [i \in I |-> cqes[i].op] OBVIOUS
  <2>4. DOMAIN f = I /\ \A i, j \in I : f[i] = f[j] => i = j BY <1>2, <2>1, <2>3 DEF ToldOnce
  <2>5. IsFiniteSet({f[i] : i \in I}) /\ Cardinality({f[i] : i \in I}) = Cardinality(I) BY <2>2, <2>4, Images
  <2>6. {f[i] : i \in I} = Told \cap X BY <2>1, <2>3 DEF Told
  <2> QED BY <2>1, <2>5, <2>6
<1>6. IsFiniteSet(Read \cap X) /\ Cardinality(Read \cap X) = Cardinality({i \in DOMAIN done : done[i].op \in X})
  <2>1. PICK I : I = {i \in DOMAIN done : done[i].op \in X} OBVIOUS
  <2>2. IsFiniteSet(I) BY <1>3, <2>1, FS_Subset
  <2>3. PICK f : f = [i \in I |-> done[i].op] OBVIOUS
  <2>4. DOMAIN f = I /\ \A i, j \in I : f[i] = f[j] => i = j BY <1>2, <1>3, <2>1, <2>3 DEF ReadOnce
  <2>5. IsFiniteSet({f[i] : i \in I}) /\ Cardinality({f[i] : i \in I}) = Cardinality(I) BY <2>2, <2>4, Images
  <2>6. {f[i] : i \in I} = Read \cap X BY <1>3, <2>1, <2>3 DEF Read
  <2> QED BY <2>1, <2>5, <2>6
<1>7. IsFiniteSet(Wanted \cap X) /\ Cardinality(Wanted \cap X) = Cardinality({i \in DOMAIN todo : todo[i] \in X})
  <2>1. PICK I : I = {i \in DOMAIN todo : todo[i] \in X} OBVIOUS
  <2>2. IsFiniteSet(I) BY <1>3, <2>1, FS_Subset
  <2>3. PICK f : f = [i \in I |-> todo[i]] OBVIOUS
  <2>4. DOMAIN f = I /\ \A i, j \in I : f[i] = f[j] => i = j BY <1>2, <1>3, <2>1, <2>3 DEF WantedOnce
  <2>5. IsFiniteSet({f[i] : i \in I}) /\ Cardinality({f[i] : i \in I}) = Cardinality(I) BY <2>2, <2>4, Images
  <2>6. {f[i] : i \in I} = Wanted \cap X BY <1>3, <2>1, <2>3 DEF Wanted
  <2> QED BY <2>1, <2>5, <2>6
<1>8. {op \in kernel : op \in X} = kernel \cap X OBVIOUS
<1>9. IsFiniteSet(kernel \cap X) BY <1>3, FS_Subset
<1>10. Disjoint5(Asked \cap X, kernel \cap X, Told \cap X, Read \cap X, Wanted \cap X) BY <1>2 DEF Disjoint5
<1>11. Expected \cap X = (Asked \cap X) \cup (kernel \cap X) \cup (Told \cap X) \cup (Read \cap X) \cup (Wanted \cap X)
  BY <1>2
<1>12. Cardinality(Asked \cap X) + Cardinality(kernel \cap X) + Cardinality(Told \cap X) + Cardinality(Read \cap X)
         + Cardinality(Wanted \cap X) = Cardinality(Expected \cap X)
  BY <1>4, <1>5, <1>6, <1>7, <1>9, <1>10, <1>11, Sum5
<1> QED BY ONLY <1>4, <1>5, <1>6, <1>7, <1>8, <1>12 DEF Tally

\* What is anywhere in the ring is one of the operations there should be.
LEMMA Everywhere ==
  ASSUME IInv, loop = "ring", Serving
  PROVE  /\ \A i \in Submitted : sqes[i] \in Expected
         /\ kernel \subseteq Expected
         /\ \A i \in Posted : cqes[i].op \in Expected
         /\ \A i \in DOMAIN done : done[i].op \in Expected
         /\ \A i \in DOMAIN todo : todo[i] \in Expected
<1>1. Asked \cup kernel \cup Told \cup Read \cup Wanted = Expected BY DEF IInv, Flight
<1>2. DOMAIN done = 1..Len(done) /\ DOMAIN todo = 1..Len(todo) BY DEF IInv, Control
<1>3. \A i \in Submitted : sqes[i] \in Asked BY DEF Asked
<1>4. \A i \in Posted : cqes[i].op \in Told BY DEF Told
<1>5. \A i \in DOMAIN done : done[i].op \in Read BY <1>2 DEF Read
<1>6. \A i \in DOMAIN todo : todo[i] \in Wanted BY <1>2 DEF Wanted
<1> QED BY <1>1, <1>3, <1>4, <1>5, <1>6

\* A connection's operation names its slot and what it owes.
LEMMA MineIs ==
  ASSUME Slotted, NEW i \in Seats
  PROVE  /\ Mine(i).kind \in {"recv", "send"} /\ Mine(i).index = i - 1 /\ Mine(i).who = conns[i]
         /\ conns[i] \in Held /\ conns[i] \in Clients /\ conns[i] # None /\ At(i - 1) = conns[i]
         /\ Mine(i).kind = "send" <=> conns[i] \in owing
<1>1. conns \in Seq(Clients \cup {None}) BY DEF Slotted
<1>2. i \in 1..Len(conns) /\ conns[i] # None BY DEF Seats
<1>3. conns[i] \in Clients BY <1>1, <1>2
<1>4. conns[i] \in Held BY <1>1, <1>2, <1>3, HeldIs
<1>5. At(i - 1) = conns[i]
  <2>1. (i - 1) + 1 = i BY <1>1, <1>2
  <2> QED BY <2>1 DEF At
<1>6. Mine(i).kind = (IF conns[i] \in owing THEN "send" ELSE "recv") /\ Mine(i).index = i - 1 /\ Mine(i).who = conns[i]
  BY DEF Mine
<1> QED BY <1>2, <1>3, <1>4, <1>5, <1>6

\* One operation for everybody, wherever it is.
LEMMA Singles ==
  ASSUME IInv
  PROVE  OneInFlight
<1>1. Control /\ Slotted /\ Positions /\ Flight BY DEF IInv
<1>2. \A x \in Expected : x = Tick \/ (\E l \in Ports : x = Accept(l)) \/ (\E i \in Seats : x = Mine(i)) BY DEF Expected
<1>3. \A l : /\ Tick.kind = "tick" /\ Tick.who = None
             /\ Accept(l).kind = "accept" /\ Accept(l).who = None
  BY DEF Tick, Accept
<1>4. ASSUME NEW op \in kernel, op.who # None PROVE op.who \in Held
  <2>1. loop = "ring" /\ Serving BY <1>1 DEF Positions
  <2>2. op \in Expected BY <2>1, Everywhere
  <2>3. PICK i \in Seats : op = Mine(i) BY <1>2, <1>3, <1>4, <2>2
  <2> QED BY <1>1, <2>3, MineIs
<1>5. ASSUME loop = "ring", Serving PROVE Operations(LAMBDA op : op.kind = "tick") = 1
  <2>1. PICK X : X = {op \in Expected : op.kind = "tick"} OBVIOUS
  <2>2. Operations(LAMBDA op : op.kind = "tick") = Tally(X)
    BY <1>5, <2>1, Everywhere DEF Tally, Operations
  <2>3. Expected \cap X = {Tick} BY <1>3, <2>1, ExpectedIs DEF Expected
  <2> QED BY <1>5, <2>2, <2>3, Tallies, FS_Singleton
<1>6. ASSUME loop = "ring", Serving, NEW l \in Ports PROVE Operations(LAMBDA op : op = Accept(l)) = 1
  <2>1. PICK X : X = {op \in Expected : op = Accept(l)} OBVIOUS
  <2>2. Operations(LAMBDA op : op = Accept(l)) = Tally(X)
    BY <1>6, <2>1, Everywhere DEF Tally, Operations
  <2>3. Expected \cap X = {Accept(l)} BY <2>1 DEF Expected
  <2> QED BY <1>6, <2>2, <2>3, Tallies, FS_Singleton
<1>7. ASSUME loop = "ring", Serving, NEW c \in Clients
      PROVE  Operations(LAMBDA op : op.who = c) = IF c \in Held THEN 1 ELSE 0
  <2>1. PICK X : X = {op \in Expected : op.who = c} OBVIOUS
  <2>2. Operations(LAMBDA op : op.who = c) = Tally(X)
    BY <1>7, <2>1, Everywhere DEF Tally, Operations
  <2>3. Operations(LAMBDA op : op.who = c) = Cardinality(X)
    <3>1. Expected \cap X = X BY <2>1
    <3> QED BY <1>7, <2>2, <3>1, Tallies
  <2>4. c # None BY WorkerAssumption
  <2>5. ASSUME NEW x \in X PROVE \E i \in Seats : x = Mine(i) /\ conns[i] = c
    <3>1. x \in Expected /\ x.who = c BY <2>1, <2>5
    <3>2. PICK i \in Seats : x = Mine(i) BY <1>2, <1>3, <2>4, <3>1
    <3> QED BY <1>1, <3>1, <3>2, MineIs
  <2>6. CASE c \in Held
    <3>1. PICK i \in 1..Len(conns) : conns[i] = c BY <1>1, <2>6, HeldIs DEF Slotted
    <3>2. i \in Seats BY <2>4, <3>1 DEF Seats
    <3>3. Mine(i) \in X BY <1>1, <2>1, <3>1, <3>2, MineIs DEF Expected
    <3>4. ASSUME NEW x \in X PROVE x = Mine(i)
      <4>1. PICK j \in Seats : x = Mine(j) /\ conns[j] = c BY <2>5
      <4>2. j = i BY <1>1, <2>4, <3>1, <4>1 DEF Slotted, Seats
      <4> QED BY <4>1, <4>2
    <3>5. X = {Mine(i)} BY <3>3, <3>4
    <3> QED BY <2>3, <2>6, <3>5, FS_Singleton
  <2>7. CASE c \notin Held
    <3>1. X = {} BY <1>1, <2>5, <2>7, MineIs
    <3> QED BY <2>3, <2>7, <3>1, FS_EmptySet
  <2> QED BY <2>6, <2>7
<1>8. ASSUME loop = "ring", Serving
      PROVE  Operations(LAMBDA op : /\ op.kind \in {"recv", "send"}
                                    /\ \/ At(op.index) # op.who
                                       \/ (op.kind = "send") # (op.who \in owing)) = 0
  <2>1. PICK X : X = {op \in Expected : /\ op.kind \in {"recv", "send"}
                                        /\ \/ At(op.index) # op.who
                                           \/ (op.kind = "send") # (op.who \in owing)}
    OBVIOUS
  <2>2. Operations(LAMBDA op : /\ op.kind \in {"recv", "send"}
                               /\ \/ At(op.index) # op.who
                                  \/ (op.kind = "send") # (op.who \in owing)) = Tally(X)
    BY <1>8, <2>1, Everywhere DEF Tally, Operations
  <2>3. ASSUME NEW x \in X PROVE FALSE
    <3>1. x \in Expected /\ x.kind \in {"recv", "send"} BY <2>1, <2>3
    <3>2. PICK i \in Seats : x = Mine(i) BY <3>1, ExpectedIs
    <3>3. At(x.index) = x.who /\ (x.kind = "send" <=> x.who \in owing) BY <1>1, <3>2, MineIs
    <3> QED BY <2>1, <2>3, <3>3
  <2>4. Expected \cap X = {} BY <2>3
  <2> QED BY <1>8, <2>2, <2>4, Tallies, FS_EmptySet
<1> QED BY <1>4, <1>5, <1>6, <1>7, <1>8 DEF OneInFlight, Serving

\* Type correctness (TypeOK) of every reachable state: every slot there ever was
\* is empty and listed once or holds a connection no other slot holds, a poller
\* watches exactly who is seated, and submit's error, a queue that is full after
\* it was flushed, is never met, for any number of clients, listeners and entries.
THEOREM TypeCorrect == Spec => []TypeOK
<1>1. IInv => TypeOK BY Typed
<1> QED BY <1>1, Invariance, PTL

\* OneInFlight: on the ring every connection, every listener and the clock has
\* exactly one operation between its submission and its completion, which names
\* its own slot and is a write exactly when it owes bytes; nothing in the kernel
\* names the buffers of a connection that is gone.
THEOREM Single == Spec => []OneInFlight
<1>1. IInv => OneInFlight BY Singles
<1> QED BY <1>1, Invariance, PTL

\* EventMine: on epoll serve_poller hands an event to the connection it was
\* about, however slots are emptied and filled between the wait and its turn.
THEOREM Meant == Spec => []EventMine
<1>1. IInv => EventMine BY EventsMeant
<1> QED BY <1>1, Invariance, PTL
=============================================================================
