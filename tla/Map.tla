-------------------------------- MODULE Map --------------------------------
(***************************************************************************)
(* The sharded map and its threads (rugo-map/src/lib.rs, lock.rs, clock.rs *)
(* and the PERSIST of rugo-server/src/dispatch.rs).                        *)
(*                                                                         *)
(* A call reads the clock, takes its shard's lock, works on the table,     *)
(* publishes the shard's counters and lets the lock go; here each of those *)
(* is a step, and the read and the write of a conditional or arithmetic    *)
(* write are two, so that threads interleave wherever the lock lets them.  *)
(* What a table does in one call is what module Cache says and module      *)
(* Shard implements; here it is one entry per key.                         *)
(***************************************************************************)
EXTENDS Integers, FiniteSets

CONSTANTS
  Threads, Keys,
  Shards,        \* 0..n-1, in the order clear visits them
  ShardOf,       \* the shard of each key, its hash's top bits
  Calls,         \* the calls threads make
  Text,          \* a value that is not a decimal integer
  MAX,           \* the largest integer, i64::MAX
  MAX_TIME,      \* how far the system's clock runs (bound)
  MAY_EVICT,     \* whether a write may find its shard over its budget
  None, Nobody

VARIABLES
  os,            \* the operating system's clock
  clock,         \* the word the map reads the time from
  sweep_shard,   \* which shard the next sweep visits
  store,         \* key -> entry
  published,     \* shard -> the entry count readers may see
  lock,          \* shard -> who holds it
  pc, call, now, at, seen, had, said    \* per thread: where, what for, with what

shared == <<os, clock, sweep_shard, store, published, lock>>
locals == <<pc, call, now, at, seen, had, said>>
vars == <<shared, locals>>

Entry == [value : 0..MAX \cup {Text}, expiry : 0..MAX_TIME \cup {None}]
Ops == {"get", "set", "nx", "xx", "keep", "incr", "expire", "persist", "unexpire",
        "remove", "clear", "sweep", "tick"}
\* What ends a call without a write.
Verdicts == {"absent", "found", "refused", "not a number", "overflow", "looked"}

ASSUME MapAssumption ==
  /\ IsFiniteSet(Keys)
  /\ Shards # {} /\ IsFiniteSet(Shards) /\ Shards = 0..(Cardinality(Shards) - 1)
  /\ ShardOf \in [Keys -> Shards]
  /\ Calls \subseteq [op : Ops, key : Keys, value : 0..MAX \cup {Text},
                      expiry : 0..MAX_TIME \cup {None}]
  /\ MAX \in Nat \ {0} /\ MAX_TIME \in Nat /\ MAY_EVICT \in BOOLEAN
  /\ Text \notin 0..MAX /\ None \notin 0..MAX_TIME /\ None \notin Entry
  /\ None \notin Verdicts
  /\ Nobody \notin Threads

KeysOf(s) == {k \in Keys : ShardOf[k] = s}
Stored(st, s) == {k \in KeysOf(s) : st[k] # None}
Expired(e, when) == e.expiry # None /\ e.expiry <= when
Last == Cardinality(Shards) - 1

-----------------------------------------------------------------------------
Init ==
  /\ os = 0 /\ clock = 0 /\ sweep_shard = 0
  /\ store = [k \in Keys |-> None]
  /\ published = [s \in Shards |-> 0]
  /\ lock = [s \in Shards |-> Nobody]
  /\ pc = [t \in Threads |-> "idle"]
  /\ call = [t \in Threads |-> None]
  /\ now = [t \in Threads |-> 0] /\ at = [t \in Threads |-> 0]
  /\ seen = [t \in Threads |-> None] /\ had = [t \in Threads |-> FALSE]
  /\ said = [t \in Threads |-> None]

Goes(t, where) == pc' = [pc EXCEPT ![t] = where]
Says(t, what) == said' = [said EXCEPT ![t] = what]

\* A call returns, and its locals end with it.
Ends(t) ==
  /\ Goes(t, "idle")
  /\ call' = [call EXCEPT ![t] = None]
  /\ now' = [now EXCEPT ![t] = 0] /\ at' = [at EXCEPT ![t] = 0]
  /\ seen' = [seen EXCEPT ![t] = None] /\ had' = [had EXCEPT ![t] = FALSE]
  /\ said' = [said EXCEPT ![t] = None]

\* Time passes outside.
Wait ==
  /\ os < MAX_TIME /\ os' = os + 1
  /\ UNCHANGED <<clock, sweep_shard, store, published, lock, locals>>

\* fetch_add, modulo the number of shards.
NextSweep == (sweep_shard + 1) % Cardinality(Shards)

\* A call begins: with_key and sweep read the clock before they take the lock;
\* clear starts at the first shard.
Begin(t, c) ==
  /\ pc[t] = "idle"
  /\ call' = [call EXCEPT ![t] = c]
  /\ now' = [now EXCEPT ![t] = IF c.op = "tick" THEN os ELSE clock]
  /\ at' = [at EXCEPT ![t] = CASE c.op = "clear" -> 0
                               [] c.op = "sweep" -> sweep_shard
                               [] OTHER -> ShardOf[c.key]]
  /\ sweep_shard' = IF c.op = "sweep" THEN NextSweep ELSE sweep_shard
  /\ Goes(t, IF c.op = "tick" THEN "tick" ELSE "lock")
  /\ UNCHANGED <<os, clock, store, published, lock, seen, had, said>>

\* Clock::tick, between asking the system and storing the answer.
Tick(t) ==
  /\ pc[t] = "tick"
  /\ clock' = now[t]
  /\ Ends(t)
  /\ UNCHANGED <<os, sweep_shard, store, published, lock>>

\* (mutant) the exchange does not look at what it replaces
Free_ignored(s) == TRUE

Free(s) == lock[s] = Nobody

Lock(t) ==
  /\ pc[t] = "lock" /\ Free(at[t])
  /\ lock' = [lock EXCEPT ![at[t]] = t]
  /\ Goes(t, IF call[t].op \in {"set", "remove", "clear", "sweep"} THEN "write" ELSE "look")
  /\ UNCHANGED <<os, clock, sweep_shard, store, published, call, now, at, seen, had, said>>

\* What ends call c, having found entry e under its key, without a write.
Verdict(c, e) ==
  CASE c.op = "get" -> IF e = None THEN "absent" ELSE "found"
    [] c.op = "nx" /\ e # None -> "refused"
    [] c.op = "xx" /\ e = None -> "refused"
    [] c.op = "incr" /\ e # None /\ e.value = Text -> "not a number"
    [] c.op = "incr" /\ e # None /\ e.value = MAX -> "overflow"
    [] c.op \in {"expire", "unexpire"} /\ e = None -> "absent"
    [] c.op = "persist" -> "looked"
    [] OTHER -> None

\* table.view: an expired entry is erased and not seen.
Look(t) ==
  /\ pc[t] = "look"
  /\ LET k == call[t].key
         e == IF store[k] # None /\ ~Expired(store[k], now[t]) THEN store[k] ELSE None
     IN  /\ store' = [store EXCEPT ![k] = e]
         /\ seen' = [seen EXCEPT ![t] = e]
         /\ had' = IF call[t].op = "persist"
                   THEN [had EXCEPT ![t] = e # None /\ e.expiry # None] ELSE had
         /\ Says(t, Verdict(call[t], e))
         /\ Goes(t, IF Verdict(call[t], e) = None THEN "write" ELSE "publish")
  /\ UNCHANGED <<os, clock, sweep_shard, published, lock, call, now, at>>

\* The entry call c writes, having found e.
Written(c, e) ==
  CASE c.op = "keep" -> [value |-> c.value, expiry |-> IF e = None THEN None ELSE e.expiry]
    [] c.op = "incr" -> IF e = None THEN [value |-> 1, expiry |-> None]
                                    ELSE [e EXCEPT !.value = @ + 1]
    [] c.op = "expire" -> [e EXCEPT !.expiry = c.expiry]
    [] c.op = "unexpire" -> [e EXCEPT !.expiry = None]
    [] OTHER -> [value |-> c.value, expiry |-> c.expiry]

\* table.set or table.expire; a set may evict others of its shard.
Write(t) ==
  /\ pc[t] = "write" /\ call[t].op \notin {"remove", "clear", "sweep"}
  /\ \E gone \in IF MAY_EVICT /\ call[t].op \notin {"expire", "unexpire"}
                 THEN SUBSET (KeysOf(at[t]) \ {call[t].key}) ELSE {{}} :
       store' = [k \in Keys |-> CASE k = call[t].key -> Written(call[t], seen[t])
                                  [] k \in gone -> None
                                  [] OTHER -> store[k]]
  /\ Says(t, "ok")
  /\ Goes(t, "publish")
  /\ UNCHANGED <<os, clock, sweep_shard, published, lock, call, now, at, seen, had>>

\* An entry is written where the old one is if it takes as many bytes: the
\* numbers here are all of one length, Text of another, a deadline adds four.
InPlace(old, new) ==
  /\ old # None
  /\ (old.value = Text) = (new.value = Text) /\ (old.expiry = None) = (new.expiry = None)

\* The arena refuses a new block; the entry that was there stays.
Full(t) ==
  /\ pc[t] = "write" /\ call[t].op \notin {"remove", "clear", "sweep"}
  /\ ~InPlace(store[call[t].key], Written(call[t], seen[t]))
  /\ Says(t, "full")
  /\ Goes(t, "publish")
  /\ UNCHANGED <<shared, call, now, at, seen, had>>

\* table.remove, table.clear and table.sweep, which visits what its budget
\* lets it of the shard.
Drop(t) ==
  /\ pc[t] = "write" /\ call[t].op \in {"remove", "clear", "sweep"}
  /\ LET expired == {k \in Stored(store, at[t]) : Expired(store[k], now[t])}
     IN  \E gone \in CASE call[t].op = "remove" -> {{call[t].key}}
                       [] call[t].op = "clear" -> {KeysOf(at[t])}
                       [] call[t].op = "sweep" -> SUBSET expired :
           store' = [k \in Keys |-> IF k \in gone THEN None ELSE store[k]]
  /\ Says(t, IF call[t].op = "remove" /\ store[call[t].key] = None THEN "absent" ELSE "ok")
  /\ Goes(t, "publish")
  /\ UNCHANGED <<os, clock, sweep_shard, published, lock, call, now, at, seen, had>>

\* (mutant) only a call that wrote publishes
Counted_writes(t) ==
  IF said[t] = "ok" THEN Cardinality(Stored(store, at[t])) ELSE published[at[t]]

Counted(t) == Cardinality(Stored(store, at[t]))

Publish(t) ==
  /\ pc[t] = "publish"
  /\ published' = [published EXCEPT ![at[t]] = Counted(t)]
  /\ Goes(t, "unlock")
  /\ UNCHANGED <<os, clock, sweep_shard, store, lock, call, now, at, seen, had, said>>

\* (mutant) PERSIST asks again with the first guard still in scope
Released_late(t) == IF call[t].op = "persist" THEN lock ELSE [lock EXCEPT ![at[t]] = Nobody]

Released(t) == [lock EXCEPT ![at[t]] = Nobody]

\* The guard is dropped.  PERSIST goes on to its second call, clear to the next
\* shard; the rest return.
Unlock(t) ==
  /\ pc[t] = "unlock"
  /\ lock' = Released(t)
  /\ \/ /\ call[t].op = "persist"
        /\ call' = [call EXCEPT ![t].op = "unexpire"]
        /\ now' = [now EXCEPT ![t] = clock]
        /\ Goes(t, "lock")
        /\ UNCHANGED <<at, seen, had, said>>
     \/ /\ call[t].op = "clear" /\ at[t] < Last
        /\ at' = [at EXCEPT ![t] = @ + 1]
        /\ Goes(t, "lock")
        /\ UNCHANGED <<call, now, seen, had, said>>
     \/ /\ call[t].op # "persist" /\ ~(call[t].op = "clear" /\ at[t] < Last)
        /\ Ends(t)
  /\ UNCHANGED <<os, clock, sweep_shard, store, published>>

Holder(t) == Look(t) \/ Write(t) \/ Full(t) \/ Drop(t) \/ Publish(t) \/ Unlock(t)

Next ==
  \/ Wait
  \/ \E t \in Threads :
       \/ \E c \in Calls : Begin(t, c)
       \/ Tick(t) \/ Lock(t) \/ Holder(t)

Spec == Init /\ [][Next]_vars

-----------------------------------------------------------------------------
(* Properties. *)

Inside == {"look", "write", "publish", "unlock"}

\* Every variable has its type, and whoever is inside a shard holds its lock.
TypeOK ==
  /\ os \in 0..MAX_TIME /\ clock \in 0..MAX_TIME /\ sweep_shard \in Shards
  /\ store \in [Keys -> Entry \cup {None}]
  /\ published \in [Shards -> 0..Cardinality(Keys)]
  /\ lock \in [Shards -> Threads \cup {Nobody}]
  /\ pc \in [Threads -> Inside \cup {"idle", "lock", "tick"}]
  /\ now \in [Threads -> 0..MAX_TIME] /\ at \in [Threads -> Shards]
  /\ seen \in [Threads -> Entry \cup {None}] /\ had \in [Threads -> BOOLEAN]
  /\ \A t \in Threads : pc[t] \in Inside => lock[at[t]] = t

\* What a reader is told without the lock is the truth as soon as nobody holds
\* the lock: every path that changes a table publishes before it lets go.
PublishedWhenFree ==
  \A s \in Shards : lock[s] = Nobody => published[s] = Cardinality(Stored(store, s))

\* What call c, when the time is when, may make of the entry old of key k.
Makes(c, when, k, old, new) ==
  \/ k = c.key /\ c.op \notin {"remove", "clear", "sweep"} /\ Verdict(c, old) = None /\ new = Written(c, old)
  \/ /\ new = None
     /\ \/ Expired(old, when)
        \/ c.op = "clear" \/ (c.op = "remove" /\ k = c.key)
        \/ MAY_EVICT /\ c.op \in {"set", "nx", "xx", "keep", "incr"} /\ k # c.key

\* Every change to a key is what one call, that of its shard's lock holder, makes
\* of the entry there is at that moment, though the call read it a step earlier:
\* no increment is lost, NX never overwrites, KEEPTTL keeps the deadline the key
\* has.  And an entry leaves only by a call that may take it, or past the
\* deadline by the clock that call read.
ChangedAsAsked ==
  [][\A k \in Keys : store'[k] # store[k] =>
       \E t \in Threads : lock[ShardOf[k]] = t /\ Makes(call[t], now[t], k, store[k], store'[k])]_vars

\* A thread that asks for a shard's lock holds none, its own included: PERSIST
\* has let go between its two calls and clear between two shards.  A lock's
\* holder therefore waits for nobody, and no threads wait for each other.
AsksEmptyHanded ==
  \A t \in Threads : pc[t] \in {"idle", "lock", "tick"} => \A s \in Shards : lock[s] # t

\* PERSIST "says whether anything changed rather than whether the key is there".
PersistSaysWhatChanged ==
  \A t \in Threads :
    pc[t] = "publish" /\ call[t].op = "unexpire" /\ said[t] # "full" =>
      (had[t] <=> seen[t] # None /\ seen[t].expiry # None)
=============================================================================
