------------------------------- MODULE Worker -------------------------------
(***************************************************************************)
(* One serving thread and the connections it carries                       *)
(* (rugo-server/src/lib.rs and uring.rs): which loop it is given, the      *)
(* slots connections live in, and the events or completions that name a    *)
(* slot.  The pollers are rugo-net/src/lib.rs, epoll on Linux and kqueue   *)
(* elsewhere; the ring is module Ring.                                     *)
(*                                                                         *)
(* What a connection does with its bytes is module Conn; here a turn or a  *)
(* step ends in any of the ways it can there.  Slots and tokens count from *)
(* 0, listeners first.                                                     *)
(***************************************************************************)
EXTENDS Ring, SequencesExt

CONSTANTS
  Clients,
  LISTENERS,     \* how many sockets the server listens on
  Targets        \* "linux" and "other", what the program was built for

ASSUME WorkerAssumption ==
  /\ LISTENERS \in Nat \ {0} /\ Targets \subseteq {"linux", "other"}
  /\ IsFiniteSet(Clients) /\ None \notin Clients
  /\ Clients \cap {"time", "again", "bytes", "nothing"} = {}
  /\ None \notin {"epoll", "kqueue", "ring"} \cup [token : Nat, write : BOOLEAN]

VARIABLES
  target,        \* which of them this is
  loop,          \* "epoll", "kqueue" or "ring", once it is chosen
  pc,            \* where the thread is
  came, queue, gone,     \* clients: that ever connected, per listener the waiting, that left
  conns, free,   \* slot -> connection, and the slots that are empty
  owing,         \* connections with bytes to write
  watch,         \* poller: connection -> the token and the interest it is registered with
  ready,         \* poller: events not yet handled
  done,          \* ring: completions not yet handled
  todo, tries,   \* ring: what is being submitted, and how often it was refused
  arriving       \* ring: the connection accepted and not yet seated

people == <<came, queue, gone>>
slots == <<conns, free, owing>>
polling == <<watch, ready>>
completing == <<done, todo, tries, arriving>>
vars == <<target, loop, pc, people, slots, polling, completing, ringVars>>

Ports == 0 .. LISTENERS - 1
At(slot) == conns[slot + 1]
Held == {c \in Clients : \E i \in DOMAIN conns : conns[i] = c}

-----------------------------------------------------------------------------
Init ==
  /\ target \in Targets /\ loop = None /\ pc = "boot"
  /\ came = {} /\ queue = [l \in Ports |-> {}] /\ gone = {}
  /\ conns = <<>> /\ free = <<>> /\ owing = {}
  /\ watch = [c \in Clients |-> None] /\ ready = <<>>
  /\ done = <<>> /\ todo = <<>> /\ tries = 0 /\ arriving = None
  /\ RingInit

(* Clients come and go; another thread may take one that waits. *)

Connect ==
  /\ \E c \in Clients \ came, l \in Ports : came' = came \cup {c} /\ queue' = [queue EXCEPT ![l] = @ \cup {c}]
  /\ UNCHANGED <<target, loop, pc, gone, slots, polling, completing, ringVars>>

Leave ==
  /\ \E c \in came \ gone : gone' = gone \cup {c}
  /\ UNCHANGED <<target, loop, pc, came, queue, slots, polling, completing, ringVars>>

TakenElsewhere ==
  /\ \E l \in Ports, c \in Clients : c \in queue[l] /\ queue' = [queue EXCEPT ![l] = @ \ {c}]
  /\ UNCHANGED <<target, loop, pc, came, gone, slots, polling, completing, ringVars>>

-----------------------------------------------------------------------------
(* Which loop, and how it ends. *)

Accept(l) == [kind |-> "accept", index |-> l, who |-> None]
Tick == [kind |-> "tick", index |-> 0, who |-> None]

\* Server::uring and Worker::serve: asked once, before any thread is made.  given
\* says whether the kernel gives a ring to one of the attempts of Ring::new.
Choose ==
  /\ pc = "boot" /\ loop = None
  /\ \E asked \in {"no", "auto", "yes"}, given \in BOOLEAN :
       LET ring == target = "linux" /\ given
       IN  IF asked = "yes" /\ ~ring
           THEN pc' = "stopped" /\ UNCHANGED <<loop, todo>>
           ELSE IF asked # "no" /\ ring
           THEN /\ loop' = "ring" /\ UNCHANGED pc
                /\ todo' = [i \in 1 .. LISTENERS |-> Accept(i - 1)] \o <<Tick>>
           ELSE /\ loop' = IF target = "linux" THEN "epoll" ELSE "kqueue"
                /\ pc' = "wait" /\ UNCHANGED todo
  /\ UNCHANGED <<target, people, slots, polling, done, tries, arriving, ringVars>>

\* A call the loop cannot go on without fails: the thread's ring goes, and then
\* everything else it holds.
Fail ==
  /\ loop # None
  /\ pc \in {"boot", "wait", "stuck"} \/ (pc = "batch" /\ (ready # <<>> \/ done # <<>> \/ todo # <<>>))
  /\ pc' = "closing"
  /\ Dropped
  /\ UNCHANGED <<target, loop, people, slots, polling, completing>>

Close ==
  /\ pc = "closing" /\ pc' = "stopped"
  /\ conns' = <<>> /\ free' = <<>> /\ owing' = {} /\ watch' = [c \in Clients |-> None]
  /\ ready' = <<>> /\ done' = <<>> /\ todo' = <<>> /\ tries' = 0 /\ arriving' = None
  /\ UNCHANGED <<target, loop, people, ringVars>>

-----------------------------------------------------------------------------
(* Slots. *)

\* A connection takes the slot that was freed last, or a new one.
SlotFor == IF free = <<>> THEN Len(conns) ELSE Last(free)

Seated(c) ==
  IF free = <<>> THEN conns' = Append(conns, c) /\ UNCHANGED free
                 ELSE conns' = [conns EXCEPT ![SlotFor + 1] = c] /\ free' = Front(free)

\* (mutant) the slot is put back and its connection stays in it
Vacated_half(slot) ==
  /\ free' = Append(free, slot) /\ owing' = owing \ {At(slot)}
  /\ UNCHANGED conns

Vacated(slot) ==
  /\ conns' = [conns EXCEPT ![slot + 1] = None] /\ free' = Append(free, slot)
  /\ owing' = owing \ {At(slot)}

-----------------------------------------------------------------------------
(* The readiness loop: serve_poller. *)

\* (mutant) epoll, too, reports reading and writing apart
Readiness_twice(c) ==
  {[token |-> watch[c].token, gone |-> c \in gone, filter |-> f, who |-> c] : f \in {"read", "write"}}

\* What a wait says of a connection: epoll one event, with everything in it,
\* kqueue one for each filter that is enabled.
Readiness(c) ==
  LET event == [token |-> watch[c].token, gone |-> c \in gone, filter |-> "both", who |-> c]
  IN  IF loop = "epoll" THEN {event}
      ELSE {[event EXCEPT !.filter = f] : f \in IF watch[c].write THEN {"read", "write"} ELSE {"read"}}

\* Poller::add, modify and remove, as what is registered afterwards.
add(c, token) == [watch EXCEPT ![c] = [token |-> token, write |-> FALSE]]
modify(c, left) == [watch EXCEPT ![c].write = left]
remove(c) == [watch EXCEPT ![c] = None]

Knock(l) == [token |-> l, gone |-> FALSE, filter |-> "read", who |-> None]

\* poller.wait, its events copied: the listeners with somebody waiting, every
\* connection that has gone, and any others; in any order.
Wait ==
  /\ pc = "wait" /\ loop \in {"epoll", "kqueue"}
  /\ LET registered == {c \in Clients : watch[c] # None}
         knocks == {Knock(l) : l \in {l \in Ports : queue[l] # {}}}
     IN  \E some \in SUBSET registered :
           LET about == some \cup (registered \cap gone)
           IN  \E batch \in SetToSeqs(knocks \cup UNION {Readiness(c) : c \in about}) : ready' = batch
  /\ pc' = "batch"
  /\ UNCHANGED <<target, loop, people, slots, watch, completing, ringVars>>

\* take: one connection, if nobody else has taken it.  One that cannot be
\* prepared is passed over for the next.
Take ==
  /\ pc = "batch" /\ ready # <<>> /\ Head(ready).token < LISTENERS
  /\ LET l == Head(ready).token
     IN  \/ /\ queue[l] = {}
            /\ ready' = Tail(ready)
            /\ UNCHANGED <<queue, conns, free, watch>>
         \/ \E c \in queue[l] :
              /\ queue' = [queue EXCEPT ![l] = @ \ {c}]
              /\ Seated(c)
              /\ watch' = add(c, SlotFor + LISTENERS)
              /\ ready' = Tail(ready)
         \/ \E c \in queue[l] :
              /\ queue' = [queue EXCEPT ![l] = @ \ {c}]
              /\ UNCHANGED <<conns, free, watch, ready>>
  /\ UNCHANGED <<target, loop, pc, came, gone, owing, completing, ringVars>>

\* An event of a connection is next.
Hears == pc = "batch" /\ ready # <<>> /\ Head(ready).token >= LISTENERS
Slot == Head(ready).token - LISTENERS

\* An event for a slot that is empty by now.
Pass ==
  /\ Hears /\ At(Slot) = None
  /\ ready' = Tail(ready)
  /\ UNCHANGED <<target, loop, pc, people, slots, watch, completing, ringVars>>

\* One that is not: the connection's turn, and what it is watched for after it.
Turn ==
  /\ Hears /\ At(Slot) # None
  /\ LET c == At(Slot)
     IN  \/ /\ ~Head(ready).gone
            /\ \E left \in BOOLEAN : watch' = modify(c, left)
            /\ UNCHANGED slots
         \/ Vacated(Slot) /\ watch' = remove(c)
  /\ ready' = Tail(ready)
  /\ UNCHANGED <<target, loop, pc, people, completing, ringVars>>

\* The batch is done with; upkeep, and round again.
Upkeep ==
  /\ pc = "batch" /\ ready = <<>> /\ done = <<>> /\ todo = <<>> /\ arriving = None
  /\ pc' = "wait"
  /\ UNCHANGED <<target, loop, people, slots, polling, completing, ringVars>>

-----------------------------------------------------------------------------
(* The completion loop: serve_uring, with submit, arm_accept and arm_tick. *)

Submits ==
  /\ pc \in {"boot", "batch"} /\ todo # <<>> /\ Room
  /\ Put(Head(todo))
  /\ todo' = Tail(todo) /\ tries' = 0
  /\ pc' = IF pc = "boot" /\ Len(todo) = 1 THEN "wait" ELSE pc
  /\ UNCHANGED <<target, loop, people, slots, polling, done, arriving>>

\* No room: hand over what there is and try again, once.
Flush ==
  /\ pc \in {"boot", "batch"} /\ todo # <<>> /\ ~Room
  /\ Submit
  /\ tries' = tries + 1
  /\ pc' = IF tries = 1 THEN "stuck" ELSE pc
  /\ UNCHANGED <<target, loop, people, slots, polling, done, todo, arriving>>

\* submit_and_wait(1); the wait may end early, for a signal.
Enter ==
  /\ pc = "wait" /\ loop = "ring"
  /\ Submit
  /\ pc' = "reap"
  /\ UNCHANGED <<target, loop, people, slots, polling, completing>>

Reap ==
  /\ pc = "reap"
  /\ done' = Reaped /\ reap
  /\ pc' = "batch"
  /\ UNCHANGED <<target, loop, people, slots, polling, todo, tries, arriving>>

\* The kernel finishes something: a tick when its time comes, an accept when
\* somebody waits, who may have gone away again, a read or a write.
Finish(kind) ==
  /\ \E op \in kernel :
       /\ op.kind = kind
       /\ \/ kind = "tick" /\ Post(op, "time") /\ UNCHANGED queue
          \/ /\ kind = "accept"
             /\ \E c \in queue[op.index] :
                  /\ \/ Post(op, c)
                     \/ c \in gone /\ Post(op, "again")
                  /\ queue' = [queue EXCEPT ![op.index] = @ \ {c}]
          \/ /\ kind \in {"recv", "send"}
             /\ Post(op, IF op.who \in gone THEN "nothing" ELSE "bytes") /\ UNCHANGED queue
  /\ UNCHANGED <<target, loop, pc, came, gone, slots, polling, completing>>

Handling(kinds) == pc = "batch" /\ todo = <<>> /\ arriving = None /\ done # <<>> /\ Head(done).op.kind \in kinds

\* (mutant) a refused accept is not asked for again
Rearm_taken(l, res) == IF res \in Clients THEN <<Accept(l)>> ELSE <<>>

Rearm(l, res) == <<Accept(l)>>

\* took, as far as asking for the next one; and the end of a tick.
Took ==
  /\ Handling({"accept", "tick"})
  /\ LET finished == Head(done)
     IN  IF finished.op.kind = "tick" THEN todo' = <<Tick>> /\ UNCHANGED arriving
         ELSE /\ todo' = Rearm(finished.op.index, finished.res)
              /\ arriving' = IF finished.res \in Clients THEN finished.res ELSE None
  /\ done' = Tail(done)
  /\ UNCHANGED <<target, loop, pc, people, slots, polling, tries, ringVars>>

\* The rest of took: its socket cannot be prepared, or it gets a slot and a read.
Seat ==
  /\ pc = "batch" /\ todo = <<>> /\ arriving # None
  /\ \/ UNCHANGED <<conns, free, todo>>
     \/ Seated(arriving) /\ todo' = <<[kind |-> "recv", index |-> SlotFor, who |-> arriving]>>
  /\ arriving' = None
  /\ UNCHANGED <<target, loop, pc, people, owing, polling, done, tries, ringVars>>

\* carried: whether it was a read or a write is read off the connection.  Nothing
\* more will come, or Conn::step says what is next: a read, a write or an end.
Carried ==
  /\ Handling({"recv", "send"})
  /\ LET finished == Head(done)
         slot == finished.op.index
         c == At(slot)
     IN  IF c = None THEN UNCHANGED <<slots, todo>>
         ELSE \/ Vacated(slot) /\ UNCHANGED todo
              \/ /\ finished.res = "bytes"
                 /\ \E kind \in {"recv", "send"} :
                      /\ todo' = <<[kind |-> kind, index |-> slot, who |-> c]>>
                      /\ owing' = IF kind = "send" THEN owing \cup {c} ELSE owing \ {c}
                 /\ UNCHANGED <<conns, free>>
  /\ done' = Tail(done)
  /\ UNCHANGED <<target, loop, pc, people, polling, tries, arriving, ringVars>>

-----------------------------------------------------------------------------
People == Connect \/ Leave \/ TakenElsewhere
Thread ==
  \/ Choose \/ Close \/ Wait \/ Take \/ Pass \/ Turn \/ Upkeep
  \/ Submits \/ Flush \/ Enter \/ Reap \/ Took \/ Seat \/ Carried

Kernel == \E kind \in {"tick", "accept", "recv", "send"} : Finish(kind)

Next == People \/ Thread \/ Fail \/ Kernel

Spec == Init /\ [][Next]_vars

\* The thread runs, and the kernel, which posts what it has finished in order,
\* does not pass over an accept for ever.
FairSpec == Spec /\ WF_vars(Thread) /\ WF_vars(Finish("tick")) /\ SF_vars(Finish("accept"))

-----------------------------------------------------------------------------
(* Properties. *)

\* Every slot that was ever made is either empty and listed once, or holds a
\* connection that no other slot holds; positions are in range; and the error
\* that has no explanation, a queue still full after it was flushed, is not met.
TypeOK ==
  /\ target \in Targets /\ loop \in {None, "epoll", "kqueue", "ring"}
  /\ pc \in {"boot", "wait", "reap", "batch", "closing", "stopped"}
  /\ pending \in 0 .. ENTRIES /\ tries \in 0 .. 1
  /\ ToSet(free) = {i - 1 : i \in {i \in DOMAIN conns : conns[i] = None}}
  /\ Cardinality(ToSet(free)) = Len(free)
  /\ \A i, j \in DOMAIN conns : conns[i] = conns[j] /\ conns[i] # None => i = j
  /\ loop \in {"epoll", "kqueue"} /\ pc # "stopped" =>
       \A c \in Clients : watch[c] # None <=> c \in Held

\* Where an operation such that Such(op) is, in as many places as it is.
Operations(Such(_)) ==
  Cardinality({i \in Submitted : Such(sqes[i])}) + Cardinality({op \in kernel : Such(op)})
    + Cardinality({i \in Posted : Such(cqes[i].op)})
    + Cardinality({i \in DOMAIN done : Such(done[i].op)})
    + Cardinality({i \in DOMAIN todo : Such(todo[i])})

\* On the ring every connection, every listener and the clock has exactly one
\* operation between its submission and its completion: none is lost when the
\* queue fills, wraps or is flushed in the middle of a handler, none is made
\* twice.  A connection's operation names its own slot, and is a write exactly
\* when the connection owes bytes; when a connection is gone nothing in the ring
\* names its buffers, not even while the thread is stopping.
OneInFlight ==
  /\ \A op \in kernel : op.who # None => op.who \in Held
  /\ loop = "ring" /\ pc \notin {"closing", "stopped"} =>
       /\ Operations(LAMBDA op : op.kind = "tick") = 1
       /\ \A l \in Ports : Operations(LAMBDA op : op = Accept(l)) = 1
       /\ \A c \in Clients : Operations(LAMBDA op : op.who = c) = IF c \in Held THEN 1 ELSE 0
       /\ Operations(LAMBDA op : /\ op.kind \in {"recv", "send"}
                                 /\ \/ At(op.index) # op.who
                                    \/ (op.kind = "send") # (op.who \in owing)) = 0

\* On epoll an event is handled for the connection it was about, though slots
\* are emptied and filled again between the wait and the handling.
EventMine ==
  loop = "epoll" /\ Hears => At(Slot) \in {None, Head(ready).who}

\* Nobody waits at a listener for ever while the thread serves, however many
\* others come, go or are refused.
Welcomed ==
  \A c \in Clients, l \in Ports : c \in queue[l] ~> c \notin queue[l] \/ pc = "stopped"
=============================================================================
