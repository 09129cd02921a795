----------------------------- MODULE ConnProofs -----------------------------
(***************************************************************************)
(* What Conn's runs check on a handful of scripts, for every script, every *)
(* buffer size and either loop: the client reads exactly the replies to    *)
(* its commands, the write buffer stays bounded, and on the ring the last  *)
(* reply is written before the connection goes.                            *)
(*                                                                         *)
(* Every byte is numbered, so the argument is one of places: the requests  *)
(* in the kernel, landed, and in the read buffer are consecutive runs, and *)
(* so are the replies received, in the kernel and in the write buffer.     *)
(* The two are tied by the number of commands executed.                    *)
(***************************************************************************)
EXTENDS Conn, TLAPS

\* The bytes of s are the consecutive ones after byte n.
Follows(s, n) == \A i \in 1..Len(s) : s[i] = n + i

\* Bytes of the requests taken out of the kernel's hands, and those executed.
TakenIn == asked - Len(inbox) - Len(landed)
Done == TakenIn - Len(buf) + at

\* Bytes the ring wrote and the connection has not been told of.
Untold == IF pc = "carried" /\ owes THEN res ELSE 0

\* The last byte that was dropped from the write buffer, and the last in it.
Dropped == Len(received) + Len(outbox) - sent - Untold
Written == Dropped + Len(out)

-----------------------------------------------------------------------------
(* The inductive invariant. *)

Buffers ==
  /\ inbox \in Seq(Nat) /\ outbox \in Seq(Nat) /\ received \in Seq(Nat)
  /\ buf \in Seq(Nat) /\ landed \in Seq(Nat) /\ out \in Seq(Nat)
  /\ Len(buf) + Len(landed) <= size

\* Where the loop is says what is in flight and what has been carried.
Control ==
  /\ pc \in {"fill", "flush_first", "flush"} => loop = "poller"
  /\ pc \in {"carried", "step", "stepped"} => loop = "ring"
  /\ flight # "none" => pc = "wait" /\ loop = "ring"
  /\ flight = "recv" => out = <<>>
  /\ flight = "send" => owes
  /\ ~open => pc = "closed"
  /\ landed # <<>> => pc = "carried" /\ ~owes
  /\ pc = "carried" =>
       /\ IF owes THEN res <= Len(out) - sent ELSE res = Len(landed)
       /\ res = 0 /\ owes => vanished

\* The requests in the kernel, landed and in the read buffer are consecutive.
Requests ==
  /\ Follows(inbox, asked - Len(inbox))
  /\ Follows(landed, TakenIn)
  /\ Follows(buf, TakenIn - Len(buf))

\* So are the replies received, in the kernel and in the write buffer.
Replies ==
  /\ Follows(received, 0)
  /\ Follows(outbox, Len(received))
  /\ Follows(out, Dropped)

\* The cursor is between two commands, and what has been written is the replies
\* to the ones before it.
Between == \E k \in 0..Len(script) : Done = Asks(k) /\ (closing \/ Written = Owes(k))

IInv ==
  /\ TypeOK /\ Buffers /\ Control /\ Requests /\ Replies /\ Between
  /\ ReplyBounded /\ LastReplyWritten

-----------------------------------------------------------------------------
(* Runs of consecutive bytes. *)

\* The larger of two, as res's bound takes it.
LEMMA MaxOfTwo ==
  ASSUME NEW a \in Nat, NEW b \in Nat
  PROVE  Max({a, b}) \in Nat /\ a <= Max({a, b}) /\ b <= Max({a, b})
<1>1. \E x \in {a, b} : \A y \in {a, b} : x >= y
  <2>1. CASE a >= b BY <2>1
  <2>2. CASE b >= a BY <2>2
  <2> QED BY <2>1, <2>2
<1> QED BY <1>1 DEF Max

\* The next byte, put at the end of a run, lengthens it: a byte the client sends.
LEMMA FollowsAppend ==
  ASSUME NEW s \in Seq(Nat), NEW n \in Int, Follows(s, n), n + Len(s) + 1 \in Nat
  PROVE  /\ Append(s, n + Len(s) + 1) \in Seq(Nat)
         /\ Len(Append(s, n + Len(s) + 1)) = Len(s) + 1
         /\ Follows(Append(s, n + Len(s) + 1), n)
BY DEF Follows

\* A run without its first byte is the run after it: a byte the client reads.
LEMMA FollowsTail ==
  ASSUME NEW s \in Seq(Nat), NEW n \in Int, Follows(s, n), s # <<>>
  PROVE  /\ Tail(s) \in Seq(Nat) /\ Len(Tail(s)) = Len(s) - 1 /\ Head(s) = n + 1
         /\ Follows(Tail(s), n + 1)
BY DEF Follows

\* Two runs, the second where the first ends, make one.
LEMMA FollowsConcat ==
  ASSUME NEW s \in Seq(Nat), NEW t \in Seq(Nat), NEW n \in Int,
         Follows(s, n), Follows(t, n + Len(s))
  PROVE  s \o t \in Seq(Nat) /\ Len(s \o t) = Len(s) + Len(t) /\ Follows(s \o t, n)
<1>1. s \o t \in Seq(Nat) /\ Len(s \o t) = Len(s) + Len(t) OBVIOUS
<1>2. ASSUME NEW i \in 1..Len(s \o t) PROVE (s \o t)[i] = n + i
  <2>1. CASE i <= Len(s) BY <2>1 DEF Follows
  <2>2. CASE i > Len(s)
    <3>1. i - Len(s) \in 1..Len(t) /\ (s \o t)[i] = t[i - Len(s)] BY <2>2
    <3> QED BY <3>1 DEF Follows
  <2> QED BY <2>1, <2>2
<1> QED BY <1>1, <1>2 DEF Follows

\* Part of a run is a run: what a read, a write or a compaction moves.
LEMMA FollowsPart ==
  ASSUME NEW s \in Seq(Nat), NEW n \in Int, Follows(s, n),
         NEW a \in 0..Len(s), NEW b \in a..Len(s)
  PROVE  /\ SubSeq(s, a + 1, b) \in Seq(Nat) /\ Len(SubSeq(s, a + 1, b)) = b - a
         /\ Follows(SubSeq(s, a + 1, b), n + a)
BY DEF Follows

\* The empty run is anywhere.
LEMMA FollowsNone == \A n : <<>> \in Seq(Nat) /\ Len(<<>>) = 0 /\ Follows(<<>>, n)
BY DEF Follows

-----------------------------------------------------------------------------
(* The commands of a script. *)

\* Commands and their replies come one after another.
LEMMA Ordered ==
  ASSUME script \in Scripts
  PROVE  /\ Len(script) \in Nat
         /\ \A k \in 0..Len(script) : Asks(k) \in Nat /\ Owes(k) \in Nat
         /\ \A j, k \in 0..Len(script) : j < k => Asks(j) < Asks(k) /\ Owes(j) <= Owes(k)
<1>1. /\ script \in Seq(Commands)
      /\ \A i, j \in DOMAIN script :
           i < j => script[i].ends < script[j].ends /\ script[i].answered <= script[j].answered
  BY ConnAssumption
<1>2. Len(script) \in Nat /\ DOMAIN script = 1..Len(script) BY <1>1
<1>3. \A k \in 1..Len(script) : script[k].ends \in Nat \ {0} /\ script[k].answered \in Nat
  <2>1. \A k \in 1..Len(script) : script[k] \in Commands BY <1>1, <1>2
  <2>2. \A c \in Commands : c.ends \in Nat \ {0} /\ c.answered \in Nat BY DEF Commands
  <2> QED BY <2>1, <2>2
<1>4. \A k \in 1..Len(script) : Asks(k) = script[k].ends /\ Owes(k) = script[k].answered
  BY <1>2 DEF Asks, Owes
<1>5. Asks(0) = 0 /\ Owes(0) = 0 BY <1>2 DEF Asks, Owes
<1>6. \A k \in 0..Len(script) : k = 0 \/ k \in 1..Len(script) BY <1>2
<1> QED BY <1>1, <1>2, <1>3, <1>4, <1>5, <1>6

\* The command at a byte is the one whose bytes it is among: the byte after k
\* commands belongs to the next.
LEMMA UpcomingIs ==
  ASSUME script \in Scripts, NEW k \in 0..Len(script),
         k < Len(script), buf[at + 1] = Asks(k) + 1
  PROVE  Upcoming = k + 1
<1>1. Len(script) \in Nat BY Ordered
<1>2. k + 1 \in 1..Len(script) /\ (k + 1) - 1 = k BY <1>1
<1>3. Asks(k) \in Nat /\ Asks(k + 1) \in Nat /\ Asks(k) < Asks(k + 1)
  BY <1>1, <1>2, Ordered
<1>4. Asks((k + 1) - 1) < buf[at + 1] /\ buf[at + 1] <= Asks(k + 1) BY <1>2, <1>3
<1>5. ASSUME NEW j \in 1..Len(script), Asks(j - 1) < buf[at + 1], buf[at + 1] <= Asks(j)
      PROVE  j = k + 1
  <2>1. j - 1 \in 0..Len(script) /\ j \in 0..Len(script) BY <1>1
  <2>2. Asks(j - 1) \in Nat /\ Asks(j) \in Nat BY <2>1, Ordered
  <2>3. ~(k < j - 1)
    <3>1. k < j - 1 => Asks(k) < Asks(j - 1) BY <2>1, Ordered
    <3> QED BY <3>1, <1>3, <1>5, <2>2
  <2>4. ~(j < k)
    <3>1. j < k => Asks(j) < Asks(k) BY <2>1, Ordered
    <3> QED BY <3>1, <1>3, <1>5, <2>2
  <2>5. j # k BY <1>3, <1>5
  <2> QED BY <2>3, <2>4, <2>5, <1>1
<1> QED BY <1>2, <1>4, <1>5 DEF Upcoming

-----------------------------------------------------------------------------
(* What every step starts from. *)

\* The sizes are positive and a first buffer has room for a read.
LEMMA SizesAre ==
  /\ CHUNK \in Nat /\ SPARE \in Nat /\ MAX_REQUEST \in Nat /\ MAX_REPLY \in Nat /\ SOCKET \in Nat
  /\ CHUNK > 0 /\ SPARE > 0 /\ MAX_REPLY > 0 /\ SOCKET > 0 /\ SPARE <= CHUNK /\ CHUNK <= MAX_REQUEST
BY ConnAssumption

\* The numbers of a state, with their bounds.
Counts ==
  /\ Len(inbox) \in Nat /\ Len(outbox) \in Nat /\ Len(received) \in Nat
  /\ Len(buf) \in Nat /\ Len(landed) \in Nat /\ Len(out) \in Nat
  /\ asked \in Nat /\ asked <= Asks(Len(script)) /\ Asks(Len(script)) \in Nat
  /\ size \in Nat /\ CHUNK <= size /\ size <= MAX_REQUEST
  /\ at \in Nat /\ at <= Len(buf) /\ Len(buf) + Len(landed) <= size
  /\ sent \in Nat /\ sent <= Len(out) /\ res \in Nat
  /\ Len(inbox) <= SOCKET /\ Len(outbox) <= SOCKET

\* They follow from the types.
LEMMA CountsAre == ASSUME TypeOK, Buffers PROVE Counts
<1>1. /\ Len(inbox) \in Nat /\ Len(outbox) \in Nat /\ Len(received) \in Nat
      /\ Len(buf) \in Nat /\ Len(landed) \in Nat /\ Len(out) \in Nat
  BY DEF Buffers
<1>2. Asks(Len(script)) \in Nat
  <2>1. script \in Scripts BY DEF TypeOK
  <2>2. Len(script) \in 0..Len(script) BY <2>1, Ordered
  <2> QED BY <2>1, <2>2, Ordered
<1>3. /\ asked \in Nat /\ asked <= Asks(Len(script))
      /\ size \in Nat /\ CHUNK <= size /\ size <= MAX_REQUEST
      /\ at \in Nat /\ at <= Len(buf) /\ Len(buf) + Len(landed) <= size
      /\ sent \in Nat /\ sent <= Len(out)
      /\ Len(inbox) <= SOCKET /\ Len(outbox) <= SOCKET
  BY <1>1, <1>2, SizesAre DEF TypeOK, Buffers
<1>4. res \in Nat
  <2>1. Max({MAX_REQUEST, SOCKET}) \in Nat BY MaxOfTwo, SizesAre
  <2> QED BY <2>1 DEF TypeOK
<1> QED BY <1>1, <1>2, <1>3, <1>4 DEF Counts

\* The invariant, apart, with the numbers.
LEMMA Parts ==
  ASSUME IInv
  PROVE  /\ TypeOK /\ Buffers /\ Control /\ Requests /\ Replies /\ Between
         /\ ReplyBounded /\ LastReplyWritten /\ Counts
BY CountsAre DEF IInv

\* A script's positions do not move while the script stays.
LEMMA ScriptKept ==
  ASSUME script' = script
  PROVE  /\ Len(script)' = Len(script) /\ DOMAIN script' = DOMAIN script
         /\ \A k : Asks(k)' = Asks(k) /\ Owes(k)' = Owes(k) /\ Reply(k)' = Reply(k)
BY DEF Asks, Owes, Reply

\* A step that runs no command leaves the number executed.
LEMMA BetweenKept ==
  ASSUME Between, script' = script, closing' = closing, Done' = Done, Written' = Written
  PROVE  Between'
<1>1. PICK k \in 0..Len(script) : Done = Asks(k) /\ (closing \/ Written = Owes(k)) BY DEF Between
<1>2. k \in (0..Len(script))' BY <1>1
<1>3. (Done = Asks(k) /\ (closing \/ Written = Owes(k)))' BY <1>1, ScriptKept
<1> QED BY <1>2, <1>3 DEF Between

\* A write buffer that does not grow stays within its bound.
LEMMA BoundedKept ==
  ASSUME ReplyBounded, script \in Scripts, script' = script, Len(out) \in Nat, Len(out)' \in Nat,
         Len(out)' <= Len(out), out = <<>> => out' = <<>>
  PROVE  ReplyBounded'
<1> SUFFICES ASSUME out' # <<>> PROVE (\E k \in DOMAIN script : Len(out) < MAX_REPLY + Reply(k))'
  BY DEF ReplyBounded
<1>1. PICK k \in DOMAIN script : Len(out) < MAX_REPLY + Reply(k) BY DEF ReplyBounded
<1>2. Reply(k) \in Int
  <2>1. script \in Seq(Commands) BY ConnAssumption
  <2>2. k \in 1..Len(script) BY <2>1
  <2>3. k \in 0..Len(script) /\ k - 1 \in 0..Len(script) BY <2>2, Ordered
  <2> QED BY <2>3, Ordered DEF Reply
<1>3. (Len(out) < MAX_REPLY + Reply(k))' BY <1>1, <1>2, SizesAre, ScriptKept
<1> QED BY <1>1, <1>3

-----------------------------------------------------------------------------
(* The client and the kernel. *)

\* The invariant holds of a new connection on either loop.
LEMMA InitInv == Init => IInv
<1> SUFFICES ASSUME Init PROVE IInv OBVIOUS
<1>1. script \in Scripts BY DEF Init
<1>2. 0 \in 0..Len(script) /\ Len(script) \in 0..Len(script) BY <1>1, Ordered
<1>3. Asks(0) = 0 /\ Owes(0) = 0
  <2>1. script \in Seq(Commands) BY <1>1, ConnAssumption
  <2> QED BY <2>1 DEF Asks, Owes
<1>4. TypeOK
  <2>1. 0 \in 0..Max({MAX_REQUEST, SOCKET}) BY MaxOfTwo, SizesAre
  <2>2. asked \in 0..Asks(Len(script)) BY <1>1, <1>2, Ordered DEF Init
  <2>3. size \in CHUNK..MAX_REQUEST BY SizesAre DEF Init
  <2>4. /\ Len(inbox) <= SOCKET /\ Len(outbox) <= SOCKET /\ at \in 0..Len(buf) /\ sent \in 0..Len(out)
        /\ Len(buf) <= size
    BY SizesAre DEF Init
  <2> QED BY <2>1, <2>2, <2>3, <2>4 DEF Init, TypeOK
<1>5. Buffers BY SizesAre DEF Init, Buffers
<1>6. Control BY DEF Init, Control, owes
<1>7. Requests BY FollowsNone DEF Init, Requests
<1>8. Replies BY FollowsNone DEF Init, Replies
<1>9. Done = 0 /\ Written = 0
  <2>1. Len(inbox) = 0 /\ Len(landed) = 0 /\ Len(buf) = 0 /\ Len(received) = 0 /\ Len(outbox) = 0
    BY DEF Init
  <2>2. Len(out) = 0 /\ asked = 0 /\ at = 0 /\ sent = 0 /\ Untold = 0 BY DEF Init, Untold
  <2> QED BY <2>1, <2>2 DEF Done, TakenIn, Written, Dropped
<1>10. Between BY <1>2, <1>3, <1>9 DEF Between
<1>11. ReplyBounded /\ LastReplyWritten BY DEF Init, ReplyBounded, LastReplyWritten
<1> QED BY <1>4, <1>5, <1>6, <1>7, <1>8, <1>10, <1>11 DEF IInv

\* A byte sent is the next one the kernel holds.
LEMMA SendInv == IInv /\ Send => IInv'
<1> SUFFICES ASSUME IInv, Send PROVE IInv' OBVIOUS
<1> USE DEF client, reading, writing, ring
<1>1. /\ TypeOK /\ Buffers /\ Control /\ Requests /\ Replies /\ Between
      /\ ReplyBounded /\ LastReplyWritten /\ Counts
  BY Parts
<1> DEFINE n == asked - Len(inbox)
<1>0. /\ asked < Asks(Len(script)) /\ Len(inbox) < SOCKET /\ asked' = asked + 1
      /\ UNCHANGED <<loop, script, shut, vanished, received, outbox, reading, writing, closing, armed,
                     open, pc, readable, ring>>
  BY DEF Send
<1>2. n \in Int /\ n + Len(inbox) + 1 = asked + 1 /\ asked + 1 \in Nat BY <1>1 DEF Counts
<1>3. /\ inbox' \in Seq(Nat) /\ Len(inbox') = Len(inbox) + 1 /\ Follows(inbox', n)
  <2>1. inbox \in Seq(Nat) /\ Follows(inbox, n) BY <1>1 DEF Buffers, Requests
  <2> HIDE DEF n
  <2>2. inbox' = Append(inbox, n + Len(inbox) + 1) BY <1>2 DEF Send
  <2> QED BY <1>2, <2>1, <2>2, FollowsAppend
<1>4. TypeOK'
  <2>1. asked' \in 0..Asks(Len(script)) BY <1>1, <1>0 DEF Counts
  <2>2. Len(inbox') <= SOCKET BY <1>1, <1>3, <1>0, SizesAre DEF Counts
  <2> QED BY <1>1, <1>0, <2>1, <2>2, ScriptKept DEF TypeOK
<1>5. Buffers' BY <1>1, <1>0, <1>3 DEF Buffers
<1>6. Control' BY <1>1, <1>0 DEF Control, owes
<1>7. TakenIn' = TakenIn /\ asked' - Len(inbox') = n BY <1>1, <1>0, <1>3 DEF TakenIn, Counts
<1>8. Requests' BY <1>1, <1>0, <1>3, <1>7 DEF Requests
<1>9. Dropped' = Dropped BY <1>0 DEF Dropped, Untold, owes
<1>10. Replies' BY <1>1, <1>0, <1>9 DEF Replies
<1>11. Between' BY <1>1, <1>0, <1>7, <1>9, BetweenKept DEF Done, Written
<1>12. ReplyBounded' /\ LastReplyWritten'
  BY <1>1, <1>0, ScriptKept DEF ReplyBounded, LastReplyWritten, owes
<1> QED BY <1>4, <1>5, <1>6, <1>8, <1>10, <1>11, <1>12 DEF IInv

\* A byte received is the next after those received before.
LEMMA ReceiveInv == IInv /\ Receive => IInv'
<1> SUFFICES ASSUME IInv, Receive PROVE IInv' OBVIOUS
<1> USE DEF client, reading, writing, ring
<1>1. /\ TypeOK /\ Buffers /\ Control /\ Requests /\ Replies /\ Between
      /\ ReplyBounded /\ LastReplyWritten /\ Counts
  BY Parts
<1>0. UNCHANGED <<loop, script, asked, shut, vanished, inbox, reading, writing, closing, armed,
                  open, pc, readable, ring>>
  BY DEF Receive
<1> DEFINE n == Len(received)
<1>2. n \in Nat BY <1>1 DEF Counts
<1>3. /\ outbox' \in Seq(Nat) /\ Len(outbox') = Len(outbox) - 1 /\ Head(outbox) = n + 1
      /\ Follows(outbox', n + 1)
  BY <1>1, <1>2, FollowsTail DEF Buffers, Replies, Receive
<1>4. received' \in Seq(Nat) /\ Len(received') = n + 1 /\ Follows(received', 0)
  <2>1. received \in Seq(Nat) /\ Follows(received, 0) /\ 0 + Len(received) + 1 = n + 1
    BY <1>1, <1>2 DEF Buffers, Replies
  <2>2. received' = Append(received, 0 + Len(received) + 1) BY <1>3, <2>1 DEF Receive
  <2> QED BY <1>2, <2>1, <2>2, FollowsAppend
<1>5. TypeOK'
  <2>1. Len(outbox') <= SOCKET BY <1>1, <1>3, SizesAre DEF Counts
  <2> QED BY <1>1, <1>0, <2>1, ScriptKept DEF TypeOK
<1>6. Buffers' BY <1>1, <1>0, <1>3, <1>4 DEF Buffers
<1>7. Control' BY <1>1, <1>0 DEF Control, owes
<1>8. TakenIn' = TakenIn BY <1>0 DEF TakenIn
<1>9. Requests' BY <1>1, <1>0, <1>8 DEF Requests
<1>10. Dropped' = Dropped
  <2>1. Untold' = Untold BY <1>0 DEF Untold, owes
  <2>2. Untold \in Nat BY <1>1 DEF Untold, Counts
  <2> QED BY <1>1, <1>0, <1>3, <1>4, <2>1, <2>2 DEF Dropped, Counts
<1>11. Replies' BY <1>1, <1>0, <1>3, <1>4, <1>10 DEF Replies
<1>12. Between' BY <1>1, <1>0, <1>8, <1>10, BetweenKept DEF Done, Written
<1>13. ReplyBounded' /\ LastReplyWritten'
  BY <1>1, <1>0, ScriptKept DEF ReplyBounded, LastReplyWritten, owes
<1> QED BY <1>5, <1>6, <1>7, <1>9, <1>11, <1>12, <1>13 DEF IInv

\* A step that moves no byte and leaves the loop where it is: the client ends.
LEMMA StillInv ==
  ASSUME IInv,
         UNCHANGED <<loop, script, asked, received, inbox, outbox, reading, writing, closing, armed,
                     open, pc, readable, ring>>,
         shut' \in BOOLEAN, vanished' \in BOOLEAN, vanished => vanished'
  PROVE  IInv'
<1> USE DEF client, reading, writing, ring
<1>1. /\ TypeOK /\ Buffers /\ Control /\ Requests /\ Replies /\ Between
      /\ ReplyBounded /\ LastReplyWritten /\ Counts
  BY Parts
<1>2. TypeOK' BY <1>1, ScriptKept DEF TypeOK
<1>3. Buffers' BY <1>1 DEF Buffers
<1>4. Control' BY <1>1 DEF Control, owes
<1>5. TakenIn' = TakenIn /\ Dropped' = Dropped BY DEF TakenIn, Dropped, Untold, owes
<1>6. Requests' /\ Replies' BY <1>1, <1>5 DEF Requests, Replies
<1>7. Between' BY <1>1, <1>5, BetweenKept DEF Done, Written
<1>8. ReplyBounded' BY <1>1, ScriptKept DEF ReplyBounded
<1>9. LastReplyWritten' BY <1>1 DEF LastReplyWritten, owes
<1> QED BY <1>2, <1>3, <1>4, <1>6, <1>7, <1>8, <1>9 DEF IInv

\* A client that ends its half, or goes.
LEMMA EndInv == IInv /\ (Shut \/ Vanish) => IInv'
<1> SUFFICES ASSUME IInv, Shut \/ Vanish PROVE IInv' OBVIOUS
<1>1. shut \in BOOLEAN /\ vanished \in BOOLEAN BY DEF IInv, TypeOK
<1>2. CASE Shut BY <1>1, <1>2, StillInv DEF Shut
<1>3. CASE Vanish BY <1>1, <1>3, StillInv DEF Vanish
<1> QED BY <1>2, <1>3

-----------------------------------------------------------------------------
(* Steps of the loops that move no byte. *)

\* A step that only moves the loop on keeps every byte in its place.
LEMMA MoveInv ==
  ASSUME IInv, UNCHANGED <<loop, client, inbox, outbox, reading, writing, closing, landed>>,
         TypeOK', Control', Untold' = Untold, LastReplyWritten'
  PROVE  IInv'
<1> USE DEF client, reading, writing
<1>1. /\ TypeOK /\ Buffers /\ Control /\ Requests /\ Replies /\ Between
      /\ ReplyBounded /\ LastReplyWritten /\ Counts
  BY Parts
<1>2. Buffers' BY <1>1 DEF Buffers
<1>3. TakenIn' = TakenIn /\ Dropped' = Dropped BY DEF TakenIn, Dropped
<1>4. Requests' /\ Replies' BY <1>1, <1>3 DEF Requests, Replies
<1>5. Between' BY <1>1, <1>3, BetweenKept DEF Done, Written
<1>6. ReplyBounded' BY <1>1, ScriptKept DEF ReplyBounded
<1> QED BY <1>2, <1>4, <1>5, <1>6 DEF IInv

\* The poller reports the connection.
LEMMA WakeInv == IInv /\ Wake => IInv'
<1> SUFFICES ASSUME IInv, Wake PROVE IInv' OBVIOUS
<1>1. TypeOK /\ Control /\ LastReplyWritten BY Parts
<1>2. /\ pc = "wait" /\ loop = "poller" /\ pc' \in {"flush_first", "fill"} /\ readable' \in BOOLEAN
      /\ UNCHANGED <<loop, client, inbox, outbox, reading, writing, closing, armed, open, ring>>
  BY <1>1 DEF Wake, TypeOK
<1> USE DEF client, reading, writing, ring
<1>3. TypeOK' BY <1>1, <1>2, ScriptKept DEF TypeOK
<1>4. Control' BY <1>1, <1>2 DEF Control, owes
<1>5. Untold' = Untold BY <1>1, <1>2 DEF Untold
<1>6. LastReplyWritten' BY <1>1, <1>2 DEF LastReplyWritten, owes
<1> QED BY <1>2, <1>3, <1>4, <1>5, <1>6, MoveInv

\* The loop drops a connection: on the ring, nothing is owed or the client has gone.
LEMMA CloseInv ==
  ASSUME IInv, Close, flight = "none", landed = <<>>, Untold = 0,
         loop = "ring" => ~owes \/ vanished
  PROVE  IInv'
<1>1. TypeOK /\ Control /\ LastReplyWritten BY Parts
<1>2. /\ pc' = "closed" /\ open' = FALSE
      /\ UNCHANGED <<loop, client, inbox, outbox, reading, writing, closing, armed, readable, ring>>
  BY DEF Close
<1> USE DEF client, reading, writing, ring
<1>3. TypeOK' BY <1>1, <1>2, ScriptKept DEF TypeOK
<1>4. Control' BY <1>1, <1>2 DEF Control, owes
<1>5. Untold' = Untold BY <1>1, <1>2 DEF Untold
<1>6. LastReplyWritten' BY <1>1, <1>2 DEF LastReplyWritten, owes
<1> QED BY <1>2, <1>3, <1>4, <1>5, <1>6, MoveInv

\* Every way a connection is dropped, but for the poller's last flush.
LEMMA ClosesInv == IInv /\ (Gone \/ Hangup \/ CarriedNothing \/ StepClose) => IInv'
<1> SUFFICES ASSUME IInv, Gone \/ Hangup \/ CarriedNothing \/ StepClose PROVE IInv' OBVIOUS
<1>1. TypeOK /\ Control /\ Buffers /\ Counts BY Parts
<1>2. CASE Gone
  <2>1. Close /\ loop = "poller" BY <1>2 DEF Gone
  <2>2. flight = "none" /\ pc # "carried" /\ landed = <<>> BY <1>1, <1>2, <2>1 DEF Gone, Control
  <2>3. Untold = 0 BY <2>2 DEF Untold
  <2> QED BY <2>1, <2>2, <2>3, CloseInv
<1>3. CASE Hangup
  <2>1. Close /\ pc = "fill" BY <1>3 DEF Hangup
  <2>2. flight = "none" /\ pc # "carried" /\ landed = <<>> /\ loop = "poller" BY <1>1, <2>1 DEF Control
  <2>3. Untold = 0 BY <2>2 DEF Untold
  <2> QED BY <2>1, <2>2, <2>3, CloseInv
<1>4. CASE CarriedNothing
  <2>1. Close /\ pc = "carried" /\ res = 0 BY <1>4 DEF CarriedNothing
  <2>2. flight = "none" /\ (owes => vanished) BY <1>1, <2>1 DEF Control
  <2>3. landed = <<>>
    <3>1. landed # <<>> => Len(landed) = 0 BY <1>1, <2>1 DEF Control
    <3>2. landed \in Seq(Nat) BY <1>1 DEF Buffers
    <3> QED BY <3>1, <3>2
  <2>4. Untold = 0 BY <2>1 DEF Untold
  <2> QED BY <2>1, <2>2, <2>3, <2>4, CloseInv
<1>5. CASE StepClose
  <2>1. Close /\ Idle BY <1>5 DEF StepClose
  <2>2. pc \in {"step", "stepped"} BY <2>1 DEF Idle
  <2>3. flight = "none" /\ pc # "carried" /\ landed = <<>> BY <1>1, <2>2 DEF Control
  <2>4. Untold = 0 BY <2>3 DEF Untold
  <2>5. ~owes
    <3>1. CASE out = <<>> BY <1>1, <3>1 DEF owes, Counts
    <3>2. CASE ~SendsFirst BY <3>2 DEF SendsFirst
    <3> QED BY <2>1, <3>1, <3>2 DEF Idle
  <2> QED BY <2>1, <2>3, <2>4, <2>5, CloseInv
<1> QED BY <1>2, <1>3, <1>4, <1>5

\* A send is put on the ring, or execute's answers are to be sent next.
LEMMA StepSendInv == IInv /\ (StepSend \/ StepAgain) => IInv'
<1> SUFFICES ASSUME IInv, StepSend \/ StepAgain PROVE IInv' OBVIOUS
<1>1. TypeOK /\ Control /\ LastReplyWritten BY Parts
<1> USE DEF client, reading, writing, ring
<1>2. CASE StepSend
  <2>1. /\ pc = "step" /\ owes /\ flight' = "send" /\ pc' = "wait"
        /\ UNCHANGED <<loop, client, inbox, outbox, reading, writing, closing, armed, open, readable,
                       res, landed>>
    BY <1>2 DEF StepSend, SendsFirst
  <2>2. TypeOK' BY <1>1, <2>1, ScriptKept DEF TypeOK
  <2>3. Control' BY <1>1, <2>1 DEF Control, owes
  <2>4. Untold' = Untold BY <2>1 DEF Untold
  <2>5. LastReplyWritten' BY <1>1, <2>1 DEF LastReplyWritten, owes
  <2> QED BY <2>1, <2>2, <2>3, <2>4, <2>5, MoveInv
<1>3. CASE StepAgain
  <2>1. /\ pc = "stepped" /\ pc' = "step"
        /\ UNCHANGED <<loop, client, inbox, outbox, reading, writing, closing, armed, open, readable,
                       ring>>
    BY <1>3 DEF StepAgain
  <2>2. TypeOK' BY <1>1, <2>1, ScriptKept DEF TypeOK
  <2>3. Control' BY <1>1, <2>1 DEF Control, owes
  <2>4. Untold' = Untold BY <2>1 DEF Untold
  <2>5. LastReplyWritten' BY <1>1, <2>1 DEF LastReplyWritten, owes
  <2> QED BY <2>1, <2>2, <2>3, <2>4, <2>5, MoveInv
<1> QED BY <1>2, <1>3

-----------------------------------------------------------------------------
(* Executing. *)

\* While execute may run there is a command to run, the next of the script, and
\* the bytes of its reply are the next to be written.
LEMMA NextCommand ==
  ASSUME IInv, pc = "execute", ~closing, at < Len(buf)
  PROVE  \E k \in 0..Len(script) :
           /\ k + 1 \in 1..Len(script) /\ Upcoming = k + 1
           /\ Done = Asks(k) /\ Written = Owes(k)
<1>1. /\ TypeOK /\ Buffers /\ Control /\ Requests /\ Between /\ Counts
  BY Parts
<1>2. script \in Scripts BY <1>1 DEF TypeOK
<1>3. PICK k \in 0..Len(script) : Done = Asks(k) /\ Written = Owes(k) BY <1>1 DEF Between
<1>4. Len(script) \in Nat /\ Asks(k) \in Nat BY <1>2, Ordered
<1>5. buf[at + 1] = Asks(k) + 1
  <2>1. at + 1 \in 1..Len(buf) BY <1>1 DEF Counts
  <2>2. buf[at + 1] = TakenIn - Len(buf) + (at + 1) BY <1>1, <2>1 DEF Requests, Follows
  <2>3. TakenIn \in Int /\ TakenIn - Len(buf) + at = Asks(k) BY <1>1, <1>3 DEF TakenIn, Done, Counts
  <2> QED BY <1>1, <1>4, <2>2, <2>3 DEF Counts
<1>6. k < Len(script)
  <2>1. Asks(k) < asked
    <3>1. asked - Len(inbox) - Len(landed) - Len(buf) + at = Asks(k) BY <1>3 DEF Done, TakenIn
    <3> QED BY <1>1, <1>4, <3>1 DEF Counts
  <2>2. Asks(k) < Asks(Len(script)) BY <1>1, <1>4, <2>1 DEF Counts
  <2>3. k # Len(script) BY <1>1, <2>2 DEF Counts
  <2> QED BY <1>4, <2>3
<1>7. k + 1 \in 1..Len(script) BY <1>4, <1>6
<1> QED BY <1>2, <1>3, <1>5, <1>6, <1>7, UpcomingIs

\* A command's reply is a run of bytes where the last reply ended.
LEMMA BytesFollow ==
  ASSUME script \in Scripts, NEW k \in 0..Len(script), k + 1 \in 1..Len(script)
  PROVE  /\ Owes(k) \in Nat /\ Owes(k + 1) \in Nat /\ Asks(k) \in Nat /\ Asks(k + 1) \in Nat
         /\ Reply(k + 1) = Owes(k + 1) - Owes(k) /\ Reply(k + 1) \in Nat
         /\ Request(k + 1) = Asks(k + 1) - Asks(k) /\ Request(k + 1) \in Nat
         /\ Bytes(k + 1) \in Seq(Nat) /\ Len(Bytes(k + 1)) = Reply(k + 1)
         /\ Follows(Bytes(k + 1), Owes(k))
<1>1. Len(script) \in Nat BY Ordered
<1>2. (k + 1) - 1 = k /\ k < k + 1 /\ k + 1 \in 0..Len(script) BY <1>1
<1>3. /\ Owes(k) \in Nat /\ Owes(k + 1) \in Nat /\ Asks(k) \in Nat /\ Asks(k + 1) \in Nat
      /\ Owes(k) <= Owes(k + 1) /\ Asks(k) < Asks(k + 1)
  BY <1>2, Ordered
<1>4. Reply(k + 1) = Owes(k + 1) - Owes(k) /\ Request(k + 1) = Asks(k + 1) - Asks(k)
  BY <1>2 DEF Reply, Request
<1>5. Reply(k + 1) \in Nat /\ Request(k + 1) \in Nat BY <1>3, <1>4
<1>6. Bytes(k + 1) = [i \in 1..Reply(k + 1) |-> Owes(k) + i] BY <1>2 DEF Bytes
<1>7. Bytes(k + 1) \in Seq(Nat) /\ Len(Bytes(k + 1)) = Reply(k + 1) BY <1>3, <1>5, <1>6
<1>8. Follows(Bytes(k + 1), Owes(k)) BY <1>5, <1>6, <1>7 DEF Follows
<1> QED BY <1>3, <1>4, <1>5, <1>7, <1>8

\* A command is run: its reply follows the ones before it, and the cursor is at
\* the next command.
LEMMA RunInv == IInv /\ Run => IInv'
<1> SUFFICES ASSUME IInv, Run PROVE IInv' OBVIOUS
<1>1. /\ TypeOK /\ Buffers /\ Control /\ Requests /\ Replies /\ Between
      /\ ReplyBounded /\ LastReplyWritten /\ Counts
  BY Parts
<1>2. /\ pc = "execute" /\ ~closing /\ Len(out) < MAX_REPLY /\ at < Len(buf)
      /\ UNCHANGED <<loop, client, inbox, outbox, buf, size, sent, armed, open, pc, readable, ring>>
  BY DEF Run, MayExecute
<1>3. PICK k \in 0..Len(script) :
        /\ k + 1 \in 1..Len(script) /\ Upcoming = k + 1
        /\ Done = Asks(k) /\ Written = Owes(k)
  BY <1>2, NextCommand
<1>4. /\ out' = out \o Bytes(k + 1)
      /\ \/ Whole(k + 1) /\ at' = at + Request(k + 1) /\ closing' \in BOOLEAN
         \/ closing' = TRUE /\ at' = at
  BY <1>3 DEF Run
<1> USE DEF client, reading, writing, ring
<1>5. script \in Scripts /\ script' = script BY <1>1, <1>2 DEF TypeOK
<1>6. /\ Owes(k) \in Nat /\ Owes(k + 1) \in Nat /\ Asks(k) \in Nat /\ Asks(k + 1) \in Nat
      /\ Reply(k + 1) = Owes(k + 1) - Owes(k) /\ Reply(k + 1) \in Nat
      /\ Request(k + 1) = Asks(k + 1) - Asks(k) /\ Request(k + 1) \in Nat
      /\ Bytes(k + 1) \in Seq(Nat) /\ Len(Bytes(k + 1)) = Reply(k + 1)
      /\ Follows(Bytes(k + 1), Owes(k))
  BY <1>3, <1>5, BytesFollow
<1>7. Untold = 0 /\ Untold' = 0 /\ Dropped' = Dropped /\ Dropped \in Int /\ Dropped + Len(out) = Owes(k)
  <2>1. Untold = 0 /\ Untold' = 0 BY <1>2 DEF Untold
  <2>2. Dropped' = Dropped BY <1>2, <2>1 DEF Dropped
  <2> QED BY <1>1, <1>3, <2>1, <2>2 DEF Dropped, Written, Counts
<1>8. out' \in Seq(Nat) /\ Len(out') = Len(out) + Reply(k + 1) /\ Follows(out', Dropped)
  <2>1. out \in Seq(Nat) /\ Follows(out, Dropped) BY <1>1 DEF Buffers, Replies
  <2> QED BY <1>4, <1>6, <1>7, <2>1, FollowsConcat
<1>20. PICK r \in Nat, q \in Nat, b \in Nat, o \in Nat, t \in Int :
         r = Reply(k + 1) /\ q = Request(k + 1) /\ b = Len(buf) /\ o = Len(out) /\ t = TakenIn
  <2>1. TakenIn \in Int /\ Len(buf) \in Nat /\ Len(out) \in Nat BY <1>1 DEF TakenIn, Counts
  <2> QED BY <1>6, <2>1
<1>21. Len(out') = o + r BY <1>8, <1>20
<1>9. at' \in 0..Len(buf) /\ closing' \in BOOLEAN
  <2>1. at \in Nat /\ at <= b BY <1>1, <1>20 DEF Counts
  <2>2. (b - at >= q /\ at' = at + q) \/ at' = at BY <1>4, <1>20 DEF Whole
  <2>3. at' \in 0..b BY <2>1, <2>2
  <2> QED BY <1>4, <1>20, <2>3
<1>10. TypeOK'
  <2>0. sent \in Nat /\ sent <= o BY <1>1, <1>20 DEF Counts
  <2>1. sent \in 0..Len(out') BY <1>20, <1>21, <2>0
  <2> QED BY <1>1, <1>2, <1>9, <2>1, ScriptKept DEF TypeOK
<1>11. Buffers' BY <1>1, <1>2, <1>8 DEF Buffers
<1>12. flight = "none" /\ landed = <<>> /\ open = TRUE BY <1>1, <1>2 DEF Control, TypeOK
<1>13. Control' BY <1>1, <1>2, <1>12 DEF Control
<1>14. TakenIn' = TakenIn BY <1>2 DEF TakenIn
<1>15. Requests' BY <1>1, <1>2, <1>14 DEF Requests
<1>16. Replies' BY <1>1, <1>2, <1>7, <1>8 DEF Replies
<1>17. Between'
  <2>1. Written' = Owes(k + 1)
    <3>1. PICK w \in Nat, v \in Nat, d \in Int : w = Owes(k) /\ v = Owes(k + 1) /\ d = Dropped
      BY <1>6, <1>7
    <3>2. d + o = w /\ r = v - w /\ Written' = d + (o + r) BY <1>6, <1>7, <1>20, <1>21, <3>1 DEF Written
    <3> QED BY <3>1, <3>2
  <2>2. CASE at' = at + Request(k + 1)
    <3>1. Done' = Done + Request(k + 1)
      <4>1. Done' = t - b + (at + q) BY <1>2, <1>14, <1>20, <2>2 DEF Done
      <4>2. Done = t - b + at /\ at \in Nat BY <1>1, <1>20 DEF Done, Counts
      <4>3. Done' = Done + q BY <4>1, <4>2
      <4> QED BY <1>20, <4>3
    <3>2. Done' = Asks(k + 1) BY <1>3, <1>6, <3>1
    <3>3. k + 1 \in (0..Len(script))' BY <1>3, <1>5
    <3>4. Done' = Asks(k + 1)' /\ Written' = Owes(k + 1)' BY <1>5, <2>1, <3>2, ScriptKept
    <3> QED BY <3>3, <3>4 DEF Between
  <2>3. CASE closing' = TRUE /\ at' = at
    <3>1. Done' = Done BY <1>2, <1>14, <2>3 DEF Done
    <3>2. Done' = Asks(k)' /\ k \in (0..Len(script))' BY <1>3, <1>5, <3>1, ScriptKept
    <3> QED BY <2>3, <3>2 DEF Between
  <2> QED BY <1>4, <2>2, <2>3
<1>18. ReplyBounded'
  <2>1. k + 1 \in DOMAIN script
    <3>1. script \in Seq(Commands) BY <1>5, ConnAssumption
    <3> QED BY <1>3, <3>1
  <2>2. Len(out') < MAX_REPLY + Reply(k + 1)
    <3>1. o < MAX_REPLY BY <1>2, <1>20
    <3>2. o + r < MAX_REPLY + r BY <3>1, SizesAre
    <3> QED BY <1>20, <1>21, <3>2
  <2>3. (k + 1 \in DOMAIN script /\ Len(out) < MAX_REPLY + Reply(k + 1))'
    BY <1>5, <2>1, <2>2, ScriptKept
  <2> QED BY <2>3 DEF ReplyBounded
<1>19. LastReplyWritten' BY <1>2, <1>12 DEF LastReplyWritten
<1> QED BY <1>10, <1>11, <1>13, <1>15, <1>16, <1>17, <1>18, <1>19 DEF IInv

\* execute ends: a buffer that was used up is emptied.
LEMMA RunEndsInv == IInv /\ RunEnds => IInv'
<1> SUFFICES ASSUME IInv, RunEnds PROVE IInv' OBVIOUS
<1>1. /\ TypeOK /\ Buffers /\ Control /\ Requests /\ Replies /\ Between
      /\ ReplyBounded /\ LastReplyWritten /\ Counts
  BY Parts
<1>2. /\ pc = "execute" /\ pc' = (IF loop = "ring" THEN "stepped" ELSE "flush")
      /\ UNCHANGED <<loop, client, inbox, outbox, size, writing, closing, armed, open, readable, ring>>
      /\ (at = Len(buf) /\ at' = 0 /\ buf' = <<>>) \/ (at' = at /\ buf' = buf)
  BY DEF RunEnds
<1> USE DEF client, reading, writing, ring
<1>3. /\ buf' \in Seq(Nat) /\ Len(buf') \in Nat /\ Len(buf') <= Len(buf)
      /\ at' \in 0..Len(buf') /\ Len(buf') - at' = Len(buf) - at
  <2>1. CASE buf' = <<>> /\ at' = 0 /\ at = Len(buf) BY <1>1, <2>1 DEF Counts
  <2>2. CASE buf' = buf /\ at' = at BY <1>1, <2>2 DEF Counts, Buffers
  <2> QED BY <1>2, <2>1, <2>2
<1>4. TypeOK'
  <2>1. Len(buf') <= size BY <1>1, <1>3 DEF Counts
  <2>2. pc' \in {"stepped", "flush"} BY <1>2
  <2> QED BY <1>1, <1>2, <1>3, <2>1, <2>2, ScriptKept DEF TypeOK
<1>5. Buffers'
  <2>1. Len(buf') + Len(landed) <= size BY <1>1, <1>3 DEF Counts
  <2> QED BY <1>1, <1>2, <1>3, <2>1 DEF Buffers
<1>6. Control'
  <2>1. loop \in {"poller", "ring"} BY <1>1, ConnAssumption DEF TypeOK
  <2> QED BY <1>1, <1>2, <2>1 DEF Control, owes
<1>7. TakenIn' = TakenIn /\ TakenIn \in Int BY <1>1, <1>2 DEF TakenIn, Counts
<1>8. Requests'
  <2>1. Follows(buf', TakenIn - Len(buf'))
    <3>1. CASE buf' = <<>> BY <3>1, FollowsNone
    <3>2. CASE buf' = buf BY <1>1, <3>2 DEF Requests
    <3> QED BY <1>2, <3>1, <3>2
  <2> QED BY <1>1, <1>2, <1>7, <2>1 DEF Requests
<1>9. Untold = 0 /\ Untold' = 0 BY <1>2 DEF Untold
<1>10. Dropped' = Dropped /\ Written' = Written BY <1>2, <1>9 DEF Dropped, Written
<1>11. Replies' BY <1>1, <1>2, <1>10 DEF Replies
<1>12. Done' = Done
  <2>1. PICK t \in Int, b \in Nat, c \in Nat : t = TakenIn /\ b = Len(buf) /\ c = Len(buf')
    BY <1>1, <1>3, <1>7 DEF Counts
  <2>2. Done' = t - c + at' /\ Done = t - b + at BY <1>7, <2>1 DEF Done
  <2>3. c - at' = b - at /\ at \in Nat /\ at' \in Nat BY <1>1, <1>3, <2>1 DEF Counts
  <2>4. t - c + at' = t - b + at BY <2>1, <2>3
  <2> QED BY <2>2, <2>4
<1>13. Between' BY <1>1, <1>2, <1>10, <1>12, BetweenKept
<1>14. ReplyBounded' /\ LastReplyWritten'
  BY <1>1, <1>2, ScriptKept DEF ReplyBounded, LastReplyWritten, owes
<1> QED BY <1>4, <1>5, <1>6, <1>8, <1>11, <1>13, <1>14 DEF IInv

-----------------------------------------------------------------------------
(* Reading. *)

\* make_room keeps what is not yet executed, with its cursor, and leaves a buffer
\* within its bounds.
LEMMA MakeRoom ==
  ASSUME TypeOK, Buffers, Requests, Counts, landed = <<>>, ~TooLarge
  PROVE  /\ Kept \in Seq(Nat) /\ Len(Kept) \in Nat /\ Size \in Nat /\ Size \in CHUNK..MAX_REQUEST
         /\ Len(Kept) <= Size /\ Cursor \in 0..Len(Kept) /\ Len(Kept) - Cursor = Len(buf) - at
         /\ Follows(Kept, TakenIn - Len(Kept))
<1>1. buf \in Seq(Nat) /\ Follows(buf, TakenIn - Len(buf)) BY DEF Buffers, Requests
<1>2. TakenIn \in Int /\ Len(landed) = 0 BY DEF TakenIn, Counts
<1>3. PICK b \in Nat, t \in Int : b = Len(buf) /\ t = TakenIn BY <1>2 DEF Counts
<1>4. at \in Nat /\ at <= b /\ b <= size /\ size \in Nat /\ CHUNK <= size /\ size <= MAX_REQUEST
  BY <1>2, <1>3 DEF Counts
<1>5. /\ Kept \in Seq(Nat) /\ Len(Kept) \in Nat /\ Len(Kept) <= b /\ Cursor \in 0..Len(Kept)
      /\ Len(Kept) - Cursor = b - at /\ Follows(Kept, t - Len(Kept))
  <2>1. CASE Short
    <3>1. Kept = SubSeq(buf, at + 1, b) /\ Cursor = 0 BY <1>3, <2>1 DEF Kept, Cursor
    <3>2. at \in 0..Len(buf) /\ b \in at..Len(buf) /\ t - b \in Int BY <1>3, <1>4
    <3>3. Kept \in Seq(Nat) /\ Len(Kept) = b - at /\ Follows(Kept, (t - b) + at)
      BY <1>1, <1>3, <3>1, <3>2, FollowsPart
    <3>4. (t - b) + at = t - (b - at) BY <1>3, <1>4
    <3> QED BY <1>3, <1>4, <3>1, <3>3, <3>4
  <2>2. CASE ~Short
    <3>1. Kept = buf /\ Cursor = at BY <2>2 DEF Kept, Cursor
    <3> QED BY <1>1, <1>3, <1>4, <3>1
  <2> QED BY <2>1, <2>2
<1>6. Size \in Nat /\ Size \in CHUNK..MAX_REQUEST /\ size <= Size
  <2>1. CASE Doubles
    <3>1. ~(2 * size > MAX_REQUEST) /\ Size = 2 * size BY <2>1 DEF TooLarge, Size
    <3> QED BY <1>4, <3>1, SizesAre
  <2>2. CASE ~Doubles BY <1>4, <2>2, SizesAre DEF Size
  <2> QED BY <2>1, <2>2
<1>7. Len(Kept) <= Size BY <1>4, <1>5, <1>6
<1> QED BY <1>3, <1>5, <1>6, <1>7

\* fill: what the kernel held and there was room for is put after what is kept.
LEMMA FillInv == IInv /\ fill => IInv'
<1> SUFFICES ASSUME IInv, fill PROVE IInv' OBVIOUS
<1>1. /\ TypeOK /\ Buffers /\ Control /\ Requests /\ Replies /\ Between
      /\ ReplyBounded /\ LastReplyWritten /\ Counts
  BY Parts
<1> DEFINE read == Least(Size - Len(Kept), Len(inbox))
<1>2. /\ pc = "fill" /\ ~TooLarge /\ pc' = "execute" /\ size' = Size /\ at' = Cursor
      /\ buf' = Kept \o SubSeq(inbox, 1, read)
      /\ inbox' = SubSeq(inbox, read + 1, Len(inbox))
      /\ UNCHANGED <<loop, client, outbox, writing, closing, armed, open, readable, ring>>
  BY DEF fill
<1> USE DEF client, reading, writing, ring
<1>3. flight = "none" /\ landed = <<>> /\ loop = "poller" /\ open = TRUE
  BY <1>1, <1>2 DEF Control, TypeOK
<1>4. /\ Kept \in Seq(Nat) /\ Len(Kept) \in Nat /\ Size \in Nat /\ Size \in CHUNK..MAX_REQUEST
      /\ Len(Kept) <= Size /\ Cursor \in 0..Len(Kept) /\ Len(Kept) - Cursor = Len(buf) - at
      /\ Follows(Kept, TakenIn - Len(Kept))
  BY <1>1, <1>2, <1>3, MakeRoom
<1>5. PICK n \in Nat, m \in Nat, i \in Nat, t \in Int :
         n = read /\ m = Len(Kept) /\ i = Len(inbox) /\ t = TakenIn
  <2>1. TakenIn \in Int /\ Len(inbox) \in Nat BY <1>1 DEF TakenIn, Counts
  <2>2. PICK m \in Nat, i \in Nat, x \in Nat : m = Len(Kept) /\ i = Len(inbox) /\ x = Size BY <1>4, <2>1
  <2>3. m <= x BY <1>4, <2>2
  <2>4. Least(x - m, i) \in Nat BY <2>2, <2>3 DEF Least
  <2> QED BY <1>4, <2>1, <2>2, <2>4
<1>20. n \in Nat /\ m \in Nat /\ i \in Nat /\ t \in Int BY <1>5
<1>6. n <= i /\ m + n <= Size BY <1>4, <1>5 DEF Least
<1>7. t = asked - i
  <2>1. Len(landed) = 0 BY <1>3
  <2> QED BY <1>1, <1>5, <2>1 DEF TakenIn, Counts
<1>8. /\ inbox' \in Seq(Nat) /\ Len(inbox') = i - n /\ Follows(inbox', t + n)
  <2>1. inbox \in Seq(Nat) /\ Follows(inbox, t) BY <1>1, <1>5, <1>7 DEF Buffers, Requests
  <2>2. n \in 0..Len(inbox) /\ Len(inbox) \in n..Len(inbox) BY <1>5, <1>6
  <2> QED BY <1>2, <1>5, <2>1, <2>2, FollowsPart
<1>9. /\ buf' \in Seq(Nat) /\ Len(buf') = m + n /\ Follows(buf', t - m)
  <2>1. inbox \in Seq(Nat) /\ Follows(inbox, t) BY <1>1, <1>5, <1>7 DEF Buffers, Requests
  <2>2. 0 \in 0..Len(inbox) /\ n \in 0..Len(inbox) /\ 0 + 1 = 1 /\ t + 0 = t /\ n - 0 = n BY <1>5, <1>6
  <2>3. /\ SubSeq(inbox, 1, n) \in Seq(Nat) /\ Len(SubSeq(inbox, 1, n)) = n
        /\ Follows(SubSeq(inbox, 1, n), t)
    BY <1>5, <2>1, <2>2, FollowsPart
  <2>4. t - m \in Int /\ t - m + Len(Kept) = t BY <1>5
  <2>5. Follows(Kept, t - m) BY <1>4, <1>5
  <2> QED BY <1>2, <1>4, <1>5, <2>3, <2>4, <2>5, FollowsConcat
<1>10. TypeOK'
  <2>1. Len(buf') <= size' /\ size' \in CHUNK..MAX_REQUEST BY <1>2, <1>4, <1>6, <1>9
  <2>2. at' \in 0..Len(buf') BY <1>2, <1>4, <1>5, <1>9
  <2>3. Len(inbox') <= SOCKET
    <3>1. i <= SOCKET BY <1>1, <1>5 DEF Counts
    <3>2. i - n <= SOCKET BY <1>20, <3>1, SizesAre
    <3> QED BY <1>8, <3>2
  <2> QED BY <1>1, <1>2, <2>1, <2>2, <2>3, ScriptKept DEF TypeOK
<1>11. Buffers'
  <2>1. Len(landed') = 0 /\ Len(buf') + 0 <= size' BY <1>2, <1>3, <1>4, <1>6, <1>9
  <2> QED BY <1>1, <1>2, <1>8, <1>9, <2>1 DEF Buffers
<1>12. Control' BY <1>1, <1>2, <1>3 DEF Control, owes
<1>13. TakenIn' = t + n /\ asked' - Len(inbox') = t + n
  <2>1. Len(landed') = 0 /\ asked' = asked /\ asked \in Nat BY <1>1, <1>2, <1>3 DEF Counts
  <2>2. TakenIn' = asked - (i - n) - 0 /\ asked' - Len(inbox') = asked - (i - n)
    BY <1>8, <2>1 DEF TakenIn
  <2>3. asked - (i - n) - 0 = t + n /\ asked - (i - n) = t + n BY <1>7, <1>20, <2>1
  <2> QED BY <2>2, <2>3
<1>14. Requests'
  <2>1. (t + n) - (m + n) = t - m BY <1>5
  <2>2. landed' = <<>> BY <1>2, <1>3
  <2> QED BY <1>8, <1>9, <1>13, <2>1, <2>2, FollowsNone DEF Requests
<1>15. Untold' = 0 /\ Untold = 0 BY <1>2 DEF Untold
<1>16. Dropped' = Dropped /\ Written' = Written BY <1>2, <1>15 DEF Dropped, Written
<1>17. Replies' BY <1>1, <1>2, <1>16 DEF Replies
<1>18. Between'
  <2>1. Done' = (t + n) - (m + n) + Cursor BY <1>2, <1>9, <1>13 DEF Done
  <2>2. PICK b \in Nat, c \in Nat : b = Len(buf) /\ c = Cursor BY <1>1, <1>4 DEF Counts
  <2>3. m - c = b - at /\ at \in Nat BY <1>1, <1>4, <1>5, <2>2 DEF Counts
  <2>4. (t + n) - (m + n) + c = t - b + at BY <1>20, <2>2, <2>3
  <2>5. Done' = Done BY <1>5, <2>1, <2>2, <2>4 DEF Done
  <2> QED BY <1>1, <1>2, <1>16, <2>5, BetweenKept
<1>19. ReplyBounded' /\ LastReplyWritten'
  BY <1>1, <1>2, ScriptKept DEF ReplyBounded, LastReplyWritten, owes
<1> QED BY <1>10, <1>11, <1>12, <1>14, <1>17, <1>18, <1>19 DEF IInv

\* The ring is given the room after what is kept.
LEMMA StepRecvInv == IInv /\ StepRecv => IInv'
<1> SUFFICES ASSUME IInv, StepRecv PROVE IInv' OBVIOUS
<1>1. /\ TypeOK /\ Buffers /\ Control /\ Requests /\ Replies /\ Between
      /\ ReplyBounded /\ LastReplyWritten /\ Counts
  BY Parts
<1>2. /\ Idle /\ ~TooLarge /\ buf' = Kept /\ size' = Size /\ at' = Cursor
      /\ out' = <<>> /\ sent' = 0 /\ flight' = "recv" /\ pc' = "wait"
      /\ UNCHANGED <<loop, client, inbox, outbox, closing, armed, open, readable, res, landed>>
  BY DEF StepRecv
<1> USE DEF client, reading, writing, ring
<1>3. pc \in {"step", "stepped"} BY <1>2 DEF Idle
<1>4. landed = <<>> /\ loop = "ring" /\ open = TRUE BY <1>1, <1>3 DEF Control, TypeOK
<1>5. /\ Kept \in Seq(Nat) /\ Len(Kept) \in Nat /\ Size \in Nat /\ Size \in CHUNK..MAX_REQUEST
      /\ Len(Kept) <= Size /\ Cursor \in 0..Len(Kept) /\ Len(Kept) - Cursor = Len(buf) - at
      /\ Follows(Kept, TakenIn - Len(Kept))
  BY <1>1, <1>2, <1>4, MakeRoom
<1>6. sent = Len(out)
  <2>1. CASE out = <<>> BY <1>1, <2>1 DEF Counts
  <2>2. CASE ~SendsFirst BY <1>1, <2>2 DEF Counts, SendsFirst, owes
  <2> QED BY <1>2, <2>1, <2>2 DEF Idle
<1>7. TypeOK'
  <2>1. sent' \in 0..Len(out') BY <1>2
  <2> QED BY <1>1, <1>2, <1>5, <2>1, ScriptKept DEF TypeOK
<1>8. Buffers'
  <2>1. Len(landed') = 0 /\ Len(buf') + 0 <= size' BY <1>2, <1>4, <1>5
  <2> QED BY <1>1, <1>2, <1>5, <2>1 DEF Buffers
<1>9. Control' BY <1>1, <1>2, <1>4 DEF Control, owes
<1>10. TakenIn' = TakenIn /\ TakenIn \in Int BY <1>1, <1>2 DEF TakenIn, Counts
<1>11. Requests' BY <1>1, <1>2, <1>5, <1>10 DEF Requests
<1>12. Written' = Written
  <2>1. Untold = 0 /\ Untold' = 0 BY <1>2, <1>3 DEF Untold
  <2>2. Len(out') = 0 BY <1>2
  <2>3. PICK o \in Nat, r \in Nat, k \in Nat : o = Len(out) /\ r = Len(received) /\ k = Len(outbox)
    BY <1>1 DEF Counts
  <2>4. Written' = r + k - 0 - 0 + 0 /\ Written = r + k - o - 0 + o
    BY <1>2, <1>6, <2>1, <2>2, <2>3 DEF Written, Dropped
  <2>5. r + k - 0 - 0 + 0 = r + k - o - 0 + o BY <2>3
  <2> QED BY <2>4, <2>5
<1>13. Replies' BY <1>1, <1>2, FollowsNone DEF Replies
<1>14. Between'
  <2>1. PICK t \in Int, b \in Nat, m \in Nat, c \in Nat :
          t = TakenIn /\ b = Len(buf) /\ m = Len(Kept) /\ c = Cursor
    <3>1. Cursor \in Nat BY <1>5
    <3> QED BY <1>1, <1>5, <1>10, <3>1 DEF Counts
  <2>2. Done' = t - m + c /\ Done = t - b + at BY <1>2, <1>10, <2>1 DEF Done
  <2>3. m - c = b - at /\ at \in Nat BY <1>1, <1>5, <2>1 DEF Counts
  <2>4. t - m + c = t - b + at BY <2>1, <2>3
  <2>5. Done' = Done BY <2>2, <2>4
  <2> QED BY <1>1, <1>2, <1>12, <2>5, BetweenKept
<1>15. ReplyBounded' /\ LastReplyWritten' BY <1>2, <1>4 DEF ReplyBounded, LastReplyWritten
<1> QED BY <1>7, <1>8, <1>9, <1>11, <1>13, <1>14, <1>15 DEF IInv

-----------------------------------------------------------------------------
(* Writing. *)

\* What a write of n bytes gives the kernel follows what it held.
LEMMA WritePart ==
  ASSUME TypeOK, Buffers, Replies, Counts, Untold = 0,
         NEW n \in Nat, n <= Len(out) - sent
  PROVE  LET part == SubSeq(out, sent + 1, sent + n)
         IN  /\ outbox \o part \in Seq(Nat) /\ Len(outbox \o part) = Len(outbox) + n
             /\ Follows(outbox \o part, Len(received))
<1> DEFINE part == SubSeq(out, sent + 1, sent + n)
<1>1. PICK o \in Nat, r \in Nat, k \in Nat, d \in Int :
        o = Len(out) /\ r = Len(received) /\ k = Len(outbox) /\ d = Dropped
  <2>1. Dropped = Len(received) + Len(outbox) - sent - 0 BY DEF Dropped
  <2>2. Dropped \in Int BY <2>1 DEF Counts
  <2> QED BY <2>2 DEF Counts
<1>2. sent \in Nat /\ sent <= o /\ n <= o - sent BY <1>1 DEF Counts
<1>3. sent \in 0..Len(out) /\ sent + n \in sent..Len(out) /\ (sent + n) - sent = n BY <1>1, <1>2
<1>4. d + sent = r + k
  <2>1. d = r + k - sent - 0 BY <1>1 DEF Dropped
  <2> QED BY <1>1, <1>2, <2>1
<1>5. out \in Seq(Nat) /\ Follows(out, d) /\ outbox \in Seq(Nat) /\ Follows(outbox, r)
  BY <1>1 DEF Buffers, Replies
<1>6. part \in Seq(Nat) /\ Len(part) = n /\ Follows(part, r + Len(outbox))
  <2>1. part \in Seq(Nat) /\ Len(part) = (sent + n) - sent /\ Follows(part, d + sent)
    BY <1>1, <1>3, <1>5, FollowsPart
  <2> QED BY <1>1, <1>3, <1>4, <2>1
<1>7. r \in Int BY <1>1
<1> HIDE DEF part
<1>8. /\ outbox \o part \in Seq(Nat) /\ Len(outbox \o part) = Len(outbox) + Len(part)
      /\ Follows(outbox \o part, r)
  BY <1>5, <1>6, <1>7, FollowsConcat
<1> QED BY <1>1, <1>6, <1>8 DEF part

\* flush: the kernel takes what it has room for, and the part taken is dropped
\* when that is all of it, or much.
LEMMA FlushInv == IInv /\ flush => IInv'
<1> SUFFICES ASSUME IInv, flush PROVE IInv' OBVIOUS
<1>1. /\ TypeOK /\ Buffers /\ Control /\ Requests /\ Replies /\ Between
      /\ ReplyBounded /\ LastReplyWritten /\ Counts
  BY Parts
<1>2. /\ pc \in {"flush_first", "flush"}
      /\ outbox' = outbox \o SubSeq(out, sent + 1, sent + Taken)
      /\ \/ out' = SubSeq(out, sent + Taken + 1, Len(out)) /\ sent' = 0
         \/ sent' = sent + Taken /\ out' = out
      /\ UNCHANGED <<loop, client, inbox, reading, closing, readable, ring>>
  BY DEF flush
<1>3. /\ pc' \in {"fill", "closed", "wait"} /\ armed' \in BOOLEAN /\ open' \in BOOLEAN
      /\ open' = FALSE => open = FALSE \/ pc' = "closed"
  <2> DEFINE left == sent' < Len(out')
  <2>1. \/ pc' = "fill" /\ armed' = armed /\ open' = open
        \/ pc' = "closed" /\ open' = FALSE /\ armed' = armed
        \/ pc' = "wait" /\ armed' = left /\ open' = open
    BY DEF flush, Wants
  <2>2. left \in BOOLEAN OBVIOUS
  <2>3. armed \in BOOLEAN /\ open \in BOOLEAN BY <1>1 DEF TypeOK
  <2> HIDE DEF left
  <2> QED BY <2>1, <2>2, <2>3
<1> USE DEF client, reading, writing, ring
<1>4. flight = "none" /\ landed = <<>> /\ loop = "poller" /\ open = TRUE
  BY <1>1, <1>2 DEF Control, TypeOK
<1>5. PICK n \in Nat, o \in Nat, r \in Nat, k \in Nat :
        n = Taken /\ o = Len(out) /\ r = Len(received) /\ k = Len(outbox)
  <2>1. Taken \in Nat
    <3>1. Len(out) - sent \in Nat /\ SOCKET - Len(outbox) \in Nat BY <1>1, SizesAre DEF Counts
    <3> QED BY <3>1 DEF Taken, Least
  <2> QED BY <1>1, <2>1 DEF Counts
<1>6. n <= o - sent /\ k + n <= SOCKET /\ sent \in Nat /\ sent <= o
  <2>1. sent \in Nat /\ sent <= o /\ k <= SOCKET BY <1>1, <1>5 DEF Counts
  <2>2. n = Least(o - sent, SOCKET - k) BY <1>5 DEF Taken
  <2>3. n <= o - sent /\ n <= SOCKET - k BY <1>5, <2>1, <2>2, SizesAre DEF Least
  <2> QED BY <1>5, <2>1, <2>3, SizesAre
<1>20. n \in Nat /\ o \in Nat /\ r \in Nat /\ k \in Nat BY <1>5
<1>7. Untold = 0 /\ Untold' = 0 BY <1>2, <1>3 DEF Untold
<1>8. outbox' \in Seq(Nat) /\ Len(outbox') = k + n /\ Follows(outbox', r)
  <2>1. n <= Len(out) - sent BY <1>5, <1>6
  <2> QED BY <1>1, <1>2, <1>5, <1>7, <2>1, WritePart
<1>9. PICK d \in Int : d = Dropped /\ d = r + k - sent /\ Follows(out, d) /\ out \in Seq(Nat)
  <2>1. Dropped = r + k - sent - 0 BY <1>5, <1>7 DEF Dropped
  <2>2. r + k - sent - 0 = r + k - sent /\ r + k - sent \in Int BY <1>6, <1>20
  <2> QED BY <1>1, <2>1, <2>2 DEF Replies, Buffers
<1>10. /\ out' \in Seq(Nat) /\ Len(out') \in Nat /\ Len(out') <= o /\ sent' \in 0..Len(out')
       /\ out = <<>> => out' = <<>>
       /\ Dropped' \in Int /\ Follows(out', Dropped') /\ Dropped' + Len(out') = d + o
  <2>0. Dropped' = r + (k + n) - sent' - 0 BY <1>2, <1>5, <1>7, <1>8 DEF Dropped
  <2>1. CASE out' = SubSeq(out, sent + Taken + 1, Len(out)) /\ sent' = 0
    <3>1. out' = SubSeq(out, (sent + n) + 1, o) BY <1>5, <2>1
    <3>2. sent + n \in 0..Len(out) /\ o \in (sent + n)..Len(out) BY <1>5, <1>6
    <3>3. out' \in Seq(Nat) /\ Len(out') = o - (sent + n) /\ Follows(out', d + (sent + n))
      BY <1>9, <3>1, <3>2, FollowsPart
    <3>4. Dropped' = d + (sent + n)
      <4>1. r + (k + n) - 0 - 0 = d + (sent + n) BY <1>6, <1>9, <1>20
      <4> QED BY <2>0, <2>1, <4>1
    <3>5. o - (sent + n) \in Nat /\ o - (sent + n) <= o /\ d + (sent + n) \in Int
          /\ d + (sent + n) + (o - (sent + n)) = d + o /\ 0 \in 0..(o - (sent + n))
      BY <1>6, <1>9, <1>20
    <3>6. out = <<>> => out' = <<>>
      <4>1. out = <<>> => o = 0 BY <1>5
      <4>2. out = <<>> => Len(out') = 0 BY <1>6, <1>20, <3>3, <4>1
      <4> QED BY <3>3, <4>2
    <3> QED BY <2>1, <3>3, <3>4, <3>5, <3>6
  <2>2. CASE sent' = sent + Taken /\ out' = out
    <3>1. sent' = sent + n /\ out' = out /\ Len(out') = o BY <1>5, <2>2
    <3>2. Dropped' = d
      <4>1. r + (k + n) - (sent + n) - 0 = d BY <1>6, <1>9, <1>20
      <4> QED BY <2>0, <3>1, <4>1
    <3>3. sent + n \in 0..o /\ o <= o BY <1>6, <1>20
    <3> QED BY <1>9, <1>20, <3>1, <3>2, <3>3
  <2> QED BY <1>2, <2>1, <2>2
<1>11. TypeOK'
  <2>1. Len(outbox') <= SOCKET BY <1>6, <1>8
  <2>2. /\ loop' = loop /\ script' = script /\ asked' = asked /\ shut' = shut /\ vanished' = vanished
        /\ inbox' = inbox /\ buf' = buf /\ size' = size /\ at' = at /\ closing' = closing
        /\ readable' = readable /\ flight' = flight /\ res' = res
    BY <1>2
  <2>3. pc' \in {"wait", "fill", "execute", "flush_first", "flush", "carried", "step", "stepped",
                 "closed"}
    BY <1>3
  <2> QED BY <1>1, <1>3, <1>10, <2>1, <2>2, <2>3, ScriptKept DEF TypeOK
<1>12. Buffers' BY <1>1, <1>2, <1>8, <1>10 DEF Buffers
<1>13. Control' BY <1>2, <1>3, <1>4 DEF Control
<1>14. TakenIn' = TakenIn /\ Done' = Done BY <1>2 DEF TakenIn, Done
<1>15. Requests' BY <1>1, <1>2, <1>14 DEF Requests
<1>16. Replies' BY <1>1, <1>2, <1>5, <1>8, <1>10 DEF Replies
<1>17. Between'
  <2>1. Written' = Written BY <1>5, <1>9, <1>10 DEF Written
  <2> QED BY <1>1, <1>2, <1>14, <2>1, BetweenKept
<1>18. ReplyBounded'
  <2>1. script \in Scripts /\ script' = script BY <1>1, <1>2 DEF TypeOK
  <2> QED BY <1>1, <1>5, <1>10, <2>1, BoundedKept
<1>19. LastReplyWritten' BY <1>2, <1>4 DEF LastReplyWritten
<1> QED BY <1>11, <1>12, <1>13, <1>15, <1>16, <1>17, <1>18, <1>19 DEF IInv

-----------------------------------------------------------------------------
(* The ring. *)

\* An operation ends: bytes land past the filled part, or the kernel has taken
\* some of the replies, or it failed.
LEMMA CompleteInv == IInv /\ Complete => IInv'
<1> SUFFICES ASSUME IInv, Complete PROVE IInv' OBVIOUS
<1>1. /\ TypeOK /\ Buffers /\ Control /\ Requests /\ Replies /\ Between
      /\ ReplyBounded /\ LastReplyWritten /\ Counts
  BY Parts
<1>2. /\ flight # "none" /\ flight' = "none" /\ pc' = "carried"
      /\ UNCHANGED <<loop, client, reading, writing, closing, armed, open, readable>>
  BY DEF Complete
<1> USE DEF client, reading, writing, ring
<1>3. pc = "wait" /\ loop = "ring" /\ landed = <<>> /\ open = TRUE /\ Untold = 0 /\ Len(landed) = 0
  BY <1>1, <1>2 DEF Control, TypeOK, Untold
<1>4. PICK o \in Nat, i \in Nat, k \in Nat, b \in Nat, r \in Nat, t \in Int, d \in Int :
        /\ o = Len(out) /\ i = Len(inbox) /\ k = Len(outbox) /\ b = Len(buf) /\ r = Len(received)
        /\ t = TakenIn /\ d = Dropped
  <2>1. TakenIn \in Int BY <1>1 DEF TakenIn, Counts
  <2>2. Dropped = Len(received) + Len(outbox) - sent - 0 BY <1>3 DEF Dropped
  <2>3. Dropped \in Int BY <1>1, <2>2 DEF Counts
  <2> QED BY <1>1, <2>1, <2>3 DEF Counts
<1>5. o \in Nat /\ i \in Nat /\ k \in Nat /\ b \in Nat /\ r \in Nat /\ t \in Int /\ d \in Int BY <1>4
<1>6. /\ asked \in Nat /\ sent \in Nat /\ sent <= o /\ i <= SOCKET /\ k <= SOCKET
      /\ size \in Nat /\ b <= size
  BY <1>1, <1>3, <1>4 DEF Counts
<1>7. t = asked - i /\ d = r + k - sent
  <2>1. t = asked - i - 0 /\ d = r + k - sent - 0 BY <1>3, <1>4 DEF TakenIn, Dropped
  <2> QED BY <1>5, <1>6, <2>1
<1>8. Max({MAX_REQUEST, SOCKET}) \in Nat /\ SOCKET <= Max({MAX_REQUEST, SOCKET}) BY MaxOfTwo, SizesAre
\* What is left to show, whichever way it ended.
<1>9. ASSUME /\ inbox' \in Seq(Nat) /\ outbox' \in Seq(Nat) /\ landed' \in Seq(Nat)
             /\ Len(inbox') <= SOCKET /\ Len(outbox') <= SOCKET /\ b + Len(landed') <= size
             /\ res' \in 0..Max({MAX_REQUEST, SOCKET})
             /\ TakenIn' = t /\ Dropped' = d
             /\ Follows(inbox', asked - Len(inbox')) /\ Follows(landed', t)
             /\ Follows(outbox', r)
             /\ landed' # <<>> => ~owes
             /\ IF owes THEN res' <= o - sent ELSE res' = Len(landed')
             /\ res' = 0 /\ owes => vanished
      PROVE  IInv'
  <2>1. TypeOK' BY <1>1, <1>2, <1>9, ScriptKept DEF TypeOK
  <2>2. Buffers' BY <1>1, <1>2, <1>4, <1>9 DEF Buffers
  <2>3. Control'
    <3>1. owes' = owes /\ Len(out') = o BY <1>2, <1>4 DEF owes
    <3> QED BY <1>2, <1>3, <1>9, <3>1 DEF Control
  <2>4. Requests' BY <1>1, <1>2, <1>4, <1>9 DEF Requests
  <2>5. Replies' BY <1>1, <1>2, <1>4, <1>9 DEF Replies
  <2>6. Done' = Done /\ Written' = Written BY <1>2, <1>4, <1>9 DEF Done, Written
  <2>7. Between' BY <1>1, <1>2, <2>6, BetweenKept
  <2>8. ReplyBounded' /\ LastReplyWritten'
    BY <1>1, <1>2, <1>3, ScriptKept DEF ReplyBounded, LastReplyWritten
  <2> QED BY <2>1, <2>2, <2>3, <2>4, <2>5, <2>7, <2>8 DEF IInv
<1>10. inbox \in Seq(Nat) /\ outbox \in Seq(Nat) /\ Follows(inbox, t) /\ Follows(outbox, r)
  BY <1>1, <1>4, <1>7 DEF Buffers, Requests, Replies
<1>11. CASE flight = "recv" /\ inbox # <<>> /\ ~vanished
            /\ \E n \in 1 .. Least(size - Len(buf), Len(inbox)) :
                 /\ landed' = SubSeq(inbox, 1, n) /\ res' = n
                 /\ inbox' = SubSeq(inbox, n + 1, Len(inbox))
            /\ UNCHANGED outbox
  <2>1. PICK n \in 1 .. Least(size - b, i) :
          /\ landed' = SubSeq(inbox, 0 + 1, n) /\ res' = n /\ inbox' = SubSeq(inbox, n + 1, i)
    BY <1>4, <1>11
  <2>2. n \in Nat /\ n <= size - b /\ n <= i
    <3>1. Least(size - b, i) \in Nat /\ Least(size - b, i) <= size - b /\ Least(size - b, i) <= i
      BY <1>5, <1>6 DEF Least
    <3>2. PICK l \in Nat : l = Least(size - b, i) BY <3>1
    <3>3. n \in 1..l /\ l <= size - b /\ l <= i BY <3>1, <3>2
    <3> QED BY <1>5, <1>6, <3>2, <3>3
  <2>3. ~owes
    <3>1. out = <<>> BY <1>1, <1>11 DEF Control
    <3>2. o = 0 BY <1>4, <3>1
    <3>3. ~(sent < o) BY <1>6, <3>2
    <3> QED BY <1>4, <3>3 DEF owes
  <2>4. landed' \in Seq(Nat) /\ Len(landed') = n /\ Follows(landed', t)
    <3>1. 0 \in 0..Len(inbox) /\ n \in 0..Len(inbox) /\ t + 0 = t /\ n - 0 = n BY <1>4, <1>5, <2>2
    <3> QED BY <1>5, <1>10, <2>1, <3>1, FollowsPart
  <2>5. inbox' \in Seq(Nat) /\ Len(inbox') = i - n /\ Follows(inbox', t + n)
    <3>1. n \in 0..Len(inbox) /\ i \in n..Len(inbox) BY <1>4, <1>5, <2>2
    <3> QED BY <1>5, <1>10, <2>1, <3>1, FollowsPart
  <2>6. asked - (i - n) = t + n /\ asked - (i - n) - n = t BY <1>5, <1>6, <1>7, <2>2
  <2>7. TakenIn' = t BY <1>2, <2>4, <2>5, <2>6 DEF TakenIn
  <2>8. Dropped' = d
    <3>1. Untold' = 0 BY <1>2, <2>3 DEF Untold, owes
    <3> QED BY <1>2, <1>3, <1>4, <1>11, <3>1 DEF Dropped
  <2>9. i - n <= SOCKET /\ b + n <= size /\ n <= SOCKET BY <1>5, <1>6, <2>2, SizesAre
  <2>10. res' \in 0..Max({MAX_REQUEST, SOCKET}) BY <1>8, <2>1, <2>2, <2>9, SizesAre
  <2>11. res' # 0 BY <2>1, <2>2
  <2>12. outbox' \in Seq(Nat) /\ Len(outbox') <= SOCKET /\ Follows(outbox', r)
    BY <1>4, <1>6, <1>10, <1>11
  <2>13. /\ Len(inbox') <= SOCKET /\ b + Len(landed') <= size
         /\ Follows(inbox', asked - Len(inbox')) /\ res' = Len(landed')
    BY <2>1, <2>4, <2>5, <2>6, <2>9
  <2> QED BY <1>9, <2>3, <2>4, <2>5, <2>7, <2>8, <2>10, <2>11, <2>12, <2>13
<1>12. CASE flight = "send" /\ (\E n \in 1 .. Taken :
              outbox' = outbox \o SubSeq(out, sent + 1, sent + n) /\ res' = n)
            /\ UNCHANGED <<inbox, landed>>
  <2>1. PICK n \in 1 .. Taken : outbox' = outbox \o SubSeq(out, sent + 1, sent + n) /\ res' = n
    BY <1>12
  <2>2. n \in Nat /\ n <= o - sent /\ n <= SOCKET - k /\ n > 0
    <3>1. Taken = Least(o - sent, SOCKET - k) BY <1>4 DEF Taken
    <3>2. Taken \in Int /\ Taken <= o - sent /\ Taken <= SOCKET - k
      BY <1>5, <1>6, <3>1, SizesAre DEF Least
    <3>3. PICK l \in Int : l = Taken BY <3>2
    <3>4. n \in 1..l /\ l <= o - sent /\ l <= SOCKET - k BY <3>2, <3>3
    <3> QED BY <1>5, <1>6, <3>3, <3>4, SizesAre
  <2>3. owes BY <1>1, <1>12 DEF Control
  <2>4. outbox' \in Seq(Nat) /\ Len(outbox') = k + n /\ Follows(outbox', r)
    <3>1. n <= Len(out) - sent BY <1>4, <2>2
    <3> QED BY <1>1, <1>3, <1>4, <2>1, <2>2, <3>1, WritePart
  <2>5. TakenIn' = t BY <1>2, <1>4, <1>12 DEF TakenIn
  <2>6. Dropped' = d
    <3>1. Untold' = n BY <1>2, <2>1, <2>3 DEF Untold, owes
    <3>2. Dropped' = r + (k + n) - sent - n BY <1>2, <1>4, <2>4, <3>1 DEF Dropped
    <3>3. r + (k + n) - sent - n = d BY <1>5, <1>6, <1>7, <2>2
    <3> QED BY <3>2, <3>3
  <2>7. k + n <= SOCKET /\ n <= SOCKET BY <1>5, <1>6, <2>2, SizesAre
  <2>8. res' \in 0..Max({MAX_REQUEST, SOCKET}) BY <1>8, <2>1, <2>2, <2>7, SizesAre
  <2>9. inbox' = inbox /\ landed' = <<>> /\ Len(landed') = 0 /\ landed' \in Seq(Nat)
    BY <1>1, <1>3, <1>12 DEF Buffers
  <2>10. Len(inbox') <= SOCKET /\ b + Len(landed') <= size BY <1>4, <1>5, <1>6, <2>9
  <2>11. Follows(inbox', asked - Len(inbox')) /\ Follows(landed', t)
    BY <1>1, <1>3, <2>9, FollowsNone DEF Requests
  <2>12. Len(outbox') <= SOCKET /\ res' <= o - sent /\ res' # 0 BY <2>1, <2>2, <2>4, <2>7
  <2> QED BY <1>9, <1>10, <2>3, <2>4, <2>5, <2>6, <2>8, <2>9, <2>10, <2>11, <2>12
<1>13. CASE ((flight # "none" /\ vanished) \/ flight = "recv") /\ res' = 0
            /\ UNCHANGED <<inbox, outbox, landed>>
  <2>1. Untold' = 0 BY <1>13 DEF Untold
  <2>2. TakenIn' = t /\ Dropped' = d BY <1>2, <1>3, <1>4, <1>13, <2>1 DEF TakenIn, Dropped
  <2>3. landed' = <<>> /\ Len(landed') = 0 /\ landed' \in Seq(Nat) /\ inbox' = inbox /\ outbox' = outbox
    BY <1>1, <1>3, <1>13 DEF Buffers
  <2>4. owes => vanished
    <3>1. CASE flight = "recv"
      <4>1. out = <<>> BY <1>1, <3>1 DEF Control
      <4>2. o = 0 BY <1>4, <4>1
      <4>3. ~(sent < o) BY <1>6, <4>2
      <4> QED BY <1>4, <4>3 DEF owes
    <3> QED BY <1>13, <3>1
  <2>5. IF owes THEN res' <= o - sent ELSE res' = Len(landed')
    <3>1. 0 <= o - sent BY <1>5, <1>6
    <3> QED BY <1>13, <2>3, <3>1
  <2>6. Len(inbox') <= SOCKET /\ Len(outbox') <= SOCKET /\ b + Len(landed') <= size
    BY <1>4, <1>5, <1>6, <2>3
  <2>7. res' \in 0..Max({MAX_REQUEST, SOCKET}) BY <1>8, <1>13
  <2>8. Follows(inbox', asked - Len(inbox')) /\ Follows(landed', t)
    BY <1>1, <1>3, <2>3, FollowsNone DEF Requests
  <2> QED BY <1>9, <1>10, <2>2, <2>3, <2>4, <2>5, <2>6, <2>7, <2>8
<1> QED BY <1>11, <1>12, <1>13 DEF Complete

\* carried: bytes read join the filled part, bytes written leave what is owed.
LEMMA CarriedInv == IInv /\ Carried => IInv'
<1> SUFFICES ASSUME IInv, Carried PROVE IInv' OBVIOUS
<1>1. /\ TypeOK /\ Buffers /\ Control /\ Requests /\ Replies /\ Between
      /\ ReplyBounded /\ LastReplyWritten /\ Counts
  BY Parts
<1>2. /\ pc = "carried" /\ res > 0 /\ pc' = "step"
      /\ UNCHANGED <<loop, client, inbox, outbox, size, at, out, closing, armed, open, readable, flight, res>>
  BY DEF Carried
<1> USE DEF client, reading, writing, ring
<1>3. loop = "ring" /\ open = TRUE /\ flight = "none" BY <1>1, <1>2 DEF Control, TypeOK
<1>4. Untold' = 0 BY <1>2 DEF Untold
<1>5. ReplyBounded' /\ LastReplyWritten'
  BY <1>1, <1>2, <1>3, ScriptKept DEF ReplyBounded, LastReplyWritten
<1>6. CASE owes
  <2>1. res \in Nat /\ sent \in Nat /\ res <= Len(out) - sent /\ Len(out) \in Nat
    BY <1>1, <1>2, <1>6 DEF Control, Counts
  <2>2. sent' = Least(Len(out), sent + res) /\ buf' = buf /\ landed' = landed BY <1>6 DEF Carried
  <2>3. sent' = sent + res /\ sent' \in 0..Len(out) BY <2>1, <2>2 DEF Least
  <2>4. landed = <<>> BY <1>1, <1>6 DEF Control
  <2>5. TypeOK' BY <1>1, <1>2, <2>2, <2>3, ScriptKept DEF TypeOK
  <2>6. Buffers' BY <1>1, <1>2, <2>2 DEF Buffers
  <2>7. Control' BY <1>2, <1>3, <2>2, <2>4 DEF Control
  <2>8. TakenIn' = TakenIn /\ Done' = Done BY <1>2, <2>2 DEF TakenIn, Done
  <2>9. Requests' BY <1>1, <1>2, <2>2, <2>8 DEF Requests
  <2>10. Dropped' = Dropped
    <3>1. PICK r \in Nat, k \in Nat, u \in Nat : r = Len(received) /\ k = Len(outbox) /\ u = res
      BY <1>1 DEF Counts
    <3>2. Dropped' = r + k - (sent + u) - 0 BY <1>2, <1>4, <2>3, <3>1 DEF Dropped
    <3>3. Dropped = r + k - sent - u BY <1>2, <1>6, <3>1 DEF Dropped, Untold
    <3>4. r + k - (sent + u) - 0 = r + k - sent - u BY <2>1, <3>1
    <3> QED BY <3>2, <3>3, <3>4
  <2>11. Replies' BY <1>1, <1>2, <2>10 DEF Replies
  <2>12. Between' BY <1>1, <1>2, <2>8, <2>10, BetweenKept DEF Written
  <2> QED BY <1>5, <2>5, <2>6, <2>7, <2>9, <2>11, <2>12 DEF IInv
<1>7. CASE ~owes
  <2>1. buf' = buf \o landed /\ landed' = <<>> /\ sent' = sent BY <1>7 DEF Carried
  <2>2. PICK b \in Nat, l \in Nat, i \in Nat, t \in Int :
          b = Len(buf) /\ l = Len(landed) /\ i = Len(inbox) /\ t = TakenIn
    <3>1. TakenIn \in Int BY <1>1 DEF TakenIn, Counts
    <3> QED BY <1>1, <3>1 DEF Counts
  <2>20. b \in Nat /\ l \in Nat /\ i \in Nat /\ t \in Int BY <2>2
  <2>3. asked \in Nat /\ at \in Nat /\ size \in Nat /\ at <= b /\ b + l <= size BY <1>1, <2>2 DEF Counts
  <2>4. t = asked - i - l BY <2>2 DEF TakenIn
  <2>5. buf' \in Seq(Nat) /\ Len(buf') = b + l /\ Follows(buf', t - b)
    <3>1. buf \in Seq(Nat) /\ landed \in Seq(Nat) /\ Follows(buf, t - b) /\ Follows(landed, t)
      BY <1>1, <2>2 DEF Buffers, Requests
    <3>2. t - b \in Int /\ (t - b) + Len(buf) = t BY <2>2
    <3> QED BY <2>1, <2>2, <3>1, <3>2, FollowsConcat
  <2>6. TakenIn' = t + l
    <3>1. Len(landed') = 0 BY <2>1
    <3>2. TakenIn' = asked - i - 0 BY <1>2, <2>2, <3>1 DEF TakenIn
    <3>3. asked - i - 0 = t + l BY <2>3, <2>4, <2>20
    <3> QED BY <3>2, <3>3
  <2>7. TypeOK'
    <3>1. at \in 0..Len(buf') /\ Len(buf') <= size BY <2>3, <2>5, <2>20
    <3> QED BY <1>1, <1>2, <2>1, <3>1, ScriptKept DEF TypeOK
  <2>8. Buffers'
    <3>1. Len(landed') = 0 /\ landed' \in Seq(Nat) /\ Len(buf') + 0 <= size BY <2>1, <2>3, <2>5, <2>20
    <3> QED BY <1>1, <1>2, <2>5, <3>1 DEF Buffers
  <2>9. Control' BY <1>2, <1>3, <2>1 DEF Control
  <2>10. Requests'
    <3>1. (t + l) - (b + l) = t - b BY <2>20
    <3> QED BY <1>1, <1>2, <2>1, <2>5, <2>6, <3>1, FollowsNone DEF Requests
  <2>11. Untold = 0 BY <1>7 DEF Untold
  <2>12. Dropped' = Dropped BY <1>2, <1>4, <2>1, <2>11 DEF Dropped
  <2>13. Replies' BY <1>1, <1>2, <2>12 DEF Replies
  <2>14. Done' = Done
    <3>1. Done' = (t + l) - (b + l) + at /\ Done = t - b + at BY <1>2, <2>2, <2>5, <2>6 DEF Done
    <3>2. (t + l) - (b + l) + at = t - b + at BY <2>3, <2>20
    <3> QED BY <3>1, <3>2
  <2>15. Between' BY <1>1, <1>2, <2>12, <2>14, BetweenKept DEF Written
  <2> QED BY <1>5, <2>7, <2>8, <2>9, <2>10, <2>13, <2>15 DEF IInv
<1> QED BY <1>6, <1>7

\* What has been sent is dropped before execute runs.
LEMMA StepExecuteInv == IInv /\ StepExecute => IInv'
<1> SUFFICES ASSUME IInv, StepExecute PROVE IInv' OBVIOUS
<1>1. /\ TypeOK /\ Buffers /\ Control /\ Requests /\ Replies /\ Between
      /\ ReplyBounded /\ LastReplyWritten /\ Counts
  BY Parts
<1>2. /\ pc = "step" /\ ~owes /\ out' = <<>> /\ sent' = 0 /\ pc' = "execute"
      /\ UNCHANGED <<loop, client, inbox, outbox, reading, closing, armed, open, readable, ring>>
  BY DEF StepExecute, SendsFirst
<1> USE DEF client, reading, writing, ring
<1>3. landed = <<>> /\ flight = "none" /\ open = TRUE BY <1>1, <1>2 DEF Control, TypeOK
<1>4. sent = Len(out) BY <1>1, <1>2 DEF Counts, owes
<1>5. TypeOK'
  <2>1. sent' \in 0..Len(out') BY <1>2
  <2> QED BY <1>1, <1>2, <2>1, ScriptKept DEF TypeOK
<1>6. Buffers' BY <1>1, <1>2 DEF Buffers
<1>7. Control' BY <1>2, <1>3 DEF Control
<1>8. TakenIn' = TakenIn /\ Done' = Done BY <1>2 DEF TakenIn, Done
<1>9. Requests' BY <1>1, <1>2, <1>8 DEF Requests
<1>10. Replies' BY <1>1, <1>2, FollowsNone DEF Replies
<1>11. Written' = Written
  <2>1. Untold = 0 /\ Untold' = 0 /\ Len(out') = 0 BY <1>2 DEF Untold
  <2>2. PICK o \in Nat, r \in Nat, k \in Nat : o = Len(out) /\ r = Len(received) /\ k = Len(outbox)
    BY <1>1 DEF Counts
  <2>3. Written' = r + k - 0 - 0 + 0 /\ Written = r + k - o - 0 + o
    BY <1>2, <1>4, <2>1, <2>2 DEF Written, Dropped
  <2>4. r + k - 0 - 0 + 0 = r + k - o - 0 + o BY <2>2
  <2> QED BY <2>3, <2>4
<1>12. Between' BY <1>1, <1>2, <1>8, <1>11, BetweenKept
<1>13. ReplyBounded' /\ LastReplyWritten' BY <1>2, <1>3 DEF ReplyBounded, LastReplyWritten
<1> QED BY <1>5, <1>6, <1>7, <1>9, <1>10, <1>12, <1>13 DEF IInv

-----------------------------------------------------------------------------
(* The theorems. *)

\* Every step of the client, the kernel and either loop keeps the invariant.
LEMMA NextInv == IInv /\ [Next]_vars => IInv'
<1> SUFFICES ASSUME IInv, [Next]_vars PROVE IInv' OBVIOUS
<1>1. CASE Client BY <1>1, SendInv, ReceiveInv, EndInv DEF Client
<1>2. CASE Turn BY <1>2, WakeInv, ClosesInv, FillInv, FlushInv DEF Turn
<1>3. CASE Step
  BY <1>3, CarriedInv, ClosesInv, StepSendInv, StepExecuteInv, StepRecvInv DEF Step
<1>4. CASE Run \/ RunEnds BY <1>4, RunInv, RunEndsInv
<1>5. CASE Complete BY <1>5, CompleteInv
<1>6. CASE UNCHANGED vars
  <2>1. shut \in BOOLEAN /\ vanished \in BOOLEAN BY DEF IInv, TypeOK
  <2> QED BY <1>6, <2>1, StillInv DEF vars, client
<1> QED BY <1>1, <1>2, <1>3, <1>4, <1>5, <1>6 DEF Next, Server

\* The inductive invariant: bytes stay in their places, on either loop, for every
\* script, every size of the buffers and of the kernel's, however reads and
\* writes are split.
THEOREM Invariance == Spec => []IInv
BY InitInv, NextInv, PTL DEF Spec

\* Every cursor of Conn is inside its buffer and no buffer outgrows its bound.
THEOREM TypeCorrect == Spec => []TypeOK
<1>1. IInv => TypeOK BY DEF IInv
<1> QED BY Invariance, <1>1, PTL

\* However requests are split on their way in and replies on their way out, the
\* client reads exactly the replies to its commands, in the order it sent them:
\* compaction, growth, draining and a short write lose and repeat no byte.
THEOREM InOrder == Spec => []RepliesInOrder
<1>1. IInv => RepliesInOrder
  <2> SUFFICES ASSUME IInv PROVE RepliesInOrder OBVIOUS
  <2>1. received \in Seq(Nat) /\ Follows(received, 0) BY DEF IInv, Buffers, Replies
  <2>2. \A i \in 1..Len(received) : received[i] = i BY <2>1 DEF Follows
  <2> QED BY <2>1, <2>2 DEF RepliesInOrder
<1> QED BY Invariance, <1>1, PTL

\* No reply is begun once MAX_REPLY bytes have piled up, so the write buffer holds
\* less than that and one reply.
THEOREM Bounded == Spec => []ReplyBounded
<1>1. IInv => ReplyBounded BY DEF IInv
<1> QED BY Invariance, <1>1, PTL

\* On the ring a connection goes only once every reply it made has been given to
\* the socket, unless the client disappeared.
THEOREM LastWritten == Spec => []LastReplyWritten
<1>1. IInv => LastReplyWritten BY DEF IInv
<1> QED BY Invariance, <1>1, PTL
=============================================================================
