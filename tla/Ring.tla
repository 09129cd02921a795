-------------------------------- MODULE Ring --------------------------------
(***************************************************************************)
(* The two queues a thread shares with the kernel (rugo-net/src/uring.rs): *)
(* submissions, which the thread writes and the kernel takes, and          *)
(* completions, the other way round.  Positions are words that wrap; the   *)
(* thread keeps its own tail and publishes it when it enters the kernel.   *)
(*                                                                         *)
(* An operation is a record with its user data, kind and index, and, for   *)
(* the properties, the client whose socket and buffer it names.            *)
(***************************************************************************)
EXTENDS Integers, Sequences, FiniteSets

CONSTANTS
  ENTRIES,       \* submissions the ring holds
  CQ_ENTRIES,    \* completions it holds
  WRAP,          \* 2^32, the number of positions
  None

ASSUME RingAssumption ==
  /\ {ENTRIES, CQ_ENTRIES, WRAP} \subseteq Nat \ {0}
  /\ WRAP % ENTRIES = 0 /\ WRAP % CQ_ENTRIES = 0 /\ ENTRIES < WRAP /\ CQ_ENTRIES < WRAP

VARIABLES
  sqes, tail, sq_tail, sq_head,      \* submissions: the entries, both tails, the kernel's head
  pending,       \* written and not yet taken by the kernel
  kernel,        \* operations the kernel has in flight
  cqes, cq_tail, cq_head             \* completions: the entries, the kernel's tail, our head

sq == <<sqes, tail, sq_tail, sq_head, pending>>
cq == <<cqes, cq_tail, cq_head>>
ringVars == <<sq, kernel, cq>>

\* wrapping_add and wrapping_sub
After(position, n) == (position + n) % WRAP
Between(head, end) == (end - head) % WRAP

RingInit ==
  /\ sqes = [i \in 0 .. ENTRIES - 1 |-> None] /\ tail = 0 /\ sq_tail = 0 /\ sq_head = 0
  /\ pending = 0 /\ kernel = {}
  /\ cqes = [i \in 0 .. CQ_ENTRIES - 1 |-> None] /\ cq_tail = 0 /\ cq_head = 0

\* (mutant) the test is one too many
Room_over == Between(sq_head, tail) <= ENTRIES

Room == Between(sq_head, tail) < ENTRIES

\* next, and the operation written in the entry it gives.
Put(op) ==
  /\ sqes' = [sqes EXCEPT ![tail % ENTRIES] = op]
  /\ tail' = After(tail, 1) /\ pending' = pending + 1
  /\ UNCHANGED <<sq_tail, sq_head, kernel, cq>>

\* The operations in the n entries the kernel takes next.
Offered(n) == {sqes[After(sq_head, i) % ENTRIES] : i \in 0 .. n - 1}

\* submit_and_wait, as far as the kernel taking what is offered: everything, or
\* less when it cannot keep up.  What was taken is not read again.
Submit ==
  /\ sq_tail' = tail
  /\ \E n \in (IF pending = 0 THEN 0 ELSE 1) .. pending :
       /\ kernel' = kernel \cup Offered(n)
       /\ sqes' = [i \in 0 .. ENTRIES - 1 |->
                     IF \E k \in 0 .. n - 1 : i = After(sq_head, k) % ENTRIES THEN None ELSE sqes[i]]
       /\ sq_head' = After(sq_head, n) /\ pending' = pending - n
  /\ UNCHANGED <<tail, cq>>

\* The kernel finishes op; a completion waits in the kernel while its queue is full.
Post(op, res) ==
  /\ Between(cq_head, cq_tail) < CQ_ENTRIES
  /\ kernel' = kernel \ {op}
  /\ cqes' = [cqes EXCEPT ![cq_tail % CQ_ENTRIES] = [op |-> op, res |-> res]]
  /\ cq_tail' = After(cq_tail, 1)
  /\ UNCHANGED <<sq, cq_head>>

\* What reap copies out.
Reaped == [i \in 1 .. Between(cq_head, cq_tail) |-> cqes[After(cq_head, i - 1) % CQ_ENTRIES]]

reap ==
  /\ cqes' = [i \in 0 .. CQ_ENTRIES - 1 |-> None]
  /\ cq_head' = cq_tail
  /\ UNCHANGED <<sq, kernel, cq_tail>>

\* Dropped: every operation still in it is cancelled, and that is waited for.
Dropped ==
  /\ kernel' = {} /\ sqes' = [i \in 0 .. ENTRIES - 1 |-> None] /\ pending' = 0
  /\ cqes' = [i \in 0 .. CQ_ENTRIES - 1 |-> None]
  /\ tail' = 0 /\ sq_tail' = 0 /\ sq_head' = 0 /\ cq_tail' = 0 /\ cq_head' = 0

-----------------------------------------------------------------------------
\* Every place an operation can be between its submission and its completion's
\* being read.
Submitted == {i \in 0 .. ENTRIES - 1 : \E k \in 0 .. pending - 1 : i = After(sq_head, k) % ENTRIES}
Posted == {i \in 0 .. CQ_ENTRIES - 1 :
             \E k \in 0 .. Between(cq_head, cq_tail) - 1 : i = After(cq_head, k) % CQ_ENTRIES}
=============================================================================
