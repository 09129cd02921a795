----------------------------- MODULE MapProofs -----------------------------
(***************************************************************************)
(* Proofs about Map, for any threads, any shards, any keys and any calls:  *)
(* the lock is exclusive and covers the whole of a call's work, so that    *)
(* what a call read is still so when it writes, and whoever lets a lock go *)
(* has published what the shard holds.                                     *)
(***************************************************************************)
EXTENDS Map, FiniteSetTheorems, TLAPS

-----------------------------------------------------------------------------
(* The inductive invariant. *)

Request == [op : Ops, key : Keys, value : 0..MAX \cup {Text},
            expiry : 0..MAX_TIME \cup {None}]
Away == {"idle", "lock", "tick"}
Keyless == {"clear", "sweep"}
Straight == {"set", "remove", "clear", "sweep"}

\* A thread that is not idle is there for a call, one that looks first is there
\* for a call that must, and a tick asks for no lock.
Asking ==
  /\ call \in [Threads -> Request \cup {None}]
  /\ \A t \in Threads : pc[t] # "idle" => call[t] \in Request
  /\ \A t \in Threads : pc[t] = "look" => call[t].op \notin Straight
  /\ \A t \in Threads : pc[t] \in Inside \cup {"lock"} => call[t].op # "tick"

\* A call on a key is at that key's shard.
Placed ==
  \A t \in Threads :
    pc[t] \in Inside \cup {"lock"} /\ call[t].op \notin Keyless => at[t] = ShardOf[call[t].key]

\* A lock's holder is inside the shard, and in no other.
Holding ==
  \A s \in Shards, t \in Threads : lock[s] = t => pc[t] \in Inside /\ at[t] = s

\* A shard's published count is its count, but for a call that has looked or
\* written and not yet published.
Exact ==
  \A s \in Shards :
    \/ published[s] = Cardinality(Stored(store, s))
    \/ \E t \in Threads : lock[s] = t /\ pc[t] \in {"write", "publish"}

\* A call that looked before it writes was not ended by what it saw, and what
\* it saw is still there.
Looked ==
  \A t \in Threads :
    pc[t] = "write" /\ call[t].op \notin Straight =>
      store[call[t].key] = seen[t] /\ Verdict(call[t], seen[t]) = None

IInv == TypeOK /\ Asking /\ Placed /\ Holding /\ Exact /\ Looked

-----------------------------------------------------------------------------
(* Facts about the operators. *)

\* What a shard stores is counted by a number no larger than that of the keys.
LEMMA StoredCount ==
  ASSUME NEW st, NEW s
  PROVE  Cardinality(Stored(st, s)) \in 0..Cardinality(Keys)
<1>1. Stored(st, s) \subseteq Keys
  BY DEF Stored, KeysOf
<1>2. IsFiniteSet(Keys)
  BY MapAssumption
<1>3. /\ Cardinality(Stored(st, s)) \in Nat
      /\ Cardinality(Keys) \in Nat
      /\ Cardinality(Stored(st, s)) <= Cardinality(Keys)
  BY <1>1, <1>2, FS_Subset, FS_CardinalityType
<1> QED
  BY <1>3

\* A change to keys of other shards leaves what this one stores alone.
LEMMA StoredKept ==
  ASSUME NEW st, NEW st2, NEW s, \A k \in KeysOf(s) : st2[k] = st[k]
  PROVE  Stored(st2, s) = Stored(st, s)
BY DEF Stored

\* A call that a look did not end has an entry it may write: an increment found
\* a number below the largest, a change of deadline found an entry.
LEMMA WrittenTyped ==
  ASSUME NEW c \in Request, NEW e \in Entry \cup {None},
         c.op \in Straight \/ Verdict(c, e) = None
  PROVE  Written(c, e) \in Entry
<1> DEFINE V == 0..MAX \cup {Text}
           X == 0..MAX_TIME \cup {None}
<1>0. c.op \in Ops /\ c.value \in V /\ c.expiry \in X
  BY DEF Request
<1>1. 1 \in 0..MAX /\ \A v \in 0..MAX : v # MAX => v + 1 \in 0..MAX
  BY MapAssumption
<1>2. CASE c.op = "keep"
  BY <1>0, <1>2 DEF Written, Entry
<1>3. CASE c.op = "incr"
  <2>1. CASE e = None
    BY <1>1, <1>3, <2>1 DEF Written, Entry
  <2>2. CASE e # None
    <3>1. e.value # Text /\ e.value # MAX
      BY <1>3, <2>2, MapAssumption DEF Verdict, Straight, Verdicts
    <3>2. e \in Entry /\ e.value \in 0..MAX
      BY <2>2, <3>1 DEF Entry
    <3> QED
      BY <1>1, <1>3, <2>2, <3>1, <3>2 DEF Written, Entry
  <2> QED BY <2>1, <2>2
<1>4. CASE c.op \in {"expire", "unexpire"}
  <2>1. e # None
    BY <1>4, MapAssumption DEF Verdict, Straight, Verdicts
  <2> QED
    BY <1>0, <1>4, <2>1 DEF Written, Entry
<1>5. CASE c.op \notin {"keep", "incr", "expire", "unexpire"}
  BY <1>0, <1>5 DEF Written, Entry
<1> QED
  BY <1>2, <1>3, <1>4, <1>5

-----------------------------------------------------------------------------
(* One lemma per action. *)

\* Locks are exclusive: two threads inside are in different shards.
LEMMA Exclusive ==
  ASSUME IInv, NEW t \in Threads, NEW u \in Threads,
         pc[t] \in Inside, pc[u] \in Inside, t # u
  PROVE  at[t] # at[u]
BY DEF IInv, TypeOK

\* The clock outside moves.
LEMMA WaitInv ==
  ASSUME IInv, Wait
  PROVE  IInv'
<1>1. os' \in 0..MAX_TIME
  BY MapAssumption DEF IInv, TypeOK, Wait
<1>2. TypeOK'
  BY <1>1 DEF IInv, TypeOK, Wait, locals
<1>3. Asking' /\ Placed' /\ Holding' /\ Exact' /\ Looked'
  BY DEF IInv, Wait, locals, Asking, Placed, Holding, Exact, Looked, Stored, KeysOf
<1> QED
  BY <1>2, <1>3 DEF IInv

\* A call begins outside every shard.
LEMMA BeginInv ==
  ASSUME IInv, NEW t \in Threads, NEW c \in Calls, Begin(t, c)
  PROVE  IInv'
<1> USE DEF IInv
<1>0. c \in Request /\ c.op \in Ops /\ c.key \in Keys
  BY MapAssumption DEF Request
<1>1. 0 \in Shards /\ NextSweep \in Shards
  <2>1. Cardinality(Shards) \in Nat /\ Cardinality(Shards) > 0
    BY MapAssumption, FS_CardinalityType, FS_EmptySet
  <2> QED BY <2>1, MapAssumption DEF TypeOK, NextSweep
<1>2. ShardOf[c.key] \in Shards
  BY <1>0, MapAssumption
<1>3. pc' \in [Threads -> Inside \cup Away] /\ at' \in [Threads -> Shards]
      /\ now' \in [Threads -> 0..MAX_TIME] /\ sweep_shard' \in Shards
  <2>1. CASE c.op = "clear"
    BY <1>1, <2>1 DEF TypeOK, Begin, Goes, Inside, Away
  <2>2. CASE c.op = "sweep"
    BY <1>1, <2>2 DEF TypeOK, Begin, Goes, Inside, Away
  <2>3. CASE c.op \notin {"clear", "sweep"}
    BY <1>2, <2>3 DEF TypeOK, Begin, Goes, Inside, Away
  <2> QED BY <2>1, <2>2, <2>3
<1>4. /\ UNCHANGED <<os, clock, store, published, lock, seen, had>>
      /\ pc[t] = "idle" /\ pc'[t] = (IF c.op = "tick" THEN "tick" ELSE "lock") /\ call'[t] = c
      /\ \A u \in Threads \ {t} : pc'[u] = pc[u] /\ call'[u] = call[u] /\ at'[u] = at[u]
  BY DEF Begin, Goes, TypeOK, Asking
<1>5. TypeOK'
  BY <1>3, <1>4 DEF TypeOK, Inside, Away
<1>6. Asking'
  BY <1>0, <1>4 DEF Asking, Begin, Inside
<1>7. Placed'
  <2>1. c.op \notin Keyless => at'[t] = ShardOf[c.key]
    BY DEF Begin, Keyless, TypeOK
  <2> QED BY <1>4, <2>1 DEF Placed
<1>8. Holding' /\ Looked'
  BY <1>4 DEF Holding, Looked, Inside
<1>9. Exact'
  BY <1>4 DEF Exact, Stored, KeysOf
<1> QED BY <1>5, <1>6, <1>7, <1>8, <1>9

\* The locals a call ends with.
LEMMA EndsLocals ==
  ASSUME IInv, NEW t \in Threads, Ends(t)
  PROVE  /\ pc' \in [Threads -> Inside \cup Away] /\ pc'[t] = "idle"
         /\ now' \in [Threads -> 0..MAX_TIME] /\ at' \in [Threads -> Shards]
         /\ seen' \in [Threads -> Entry \cup {None}] /\ had' \in [Threads -> BOOLEAN]
         /\ call' \in [Threads -> Request \cup {None}]
         /\ \A u \in Threads \ {t} :
              pc'[u] = pc[u] /\ call'[u] = call[u] /\ at'[u] = at[u] /\ seen'[u] = seen[u]
<1>1. 0 \in Shards /\ 0 \in 0..MAX_TIME
  <2>1. Cardinality(Shards) \in Nat /\ Cardinality(Shards) > 0
    BY MapAssumption, FS_CardinalityType, FS_EmptySet
  <2> QED BY <2>1, MapAssumption
<1> QED
  BY <1>1 DEF IInv, TypeOK, Asking, Ends, Goes, Inside, Away

\* The clock is stored, and no shard is touched.
LEMMA TickInv ==
  ASSUME IInv, NEW t \in Threads, Tick(t)
  PROVE  IInv'
<1> USE DEF IInv
<1>1. /\ Ends(t) /\ pc[t] = "tick" /\ clock' \in 0..MAX_TIME
      /\ UNCHANGED <<os, sweep_shard, store, published, lock>>
  BY DEF Tick, TypeOK
<1>2. TypeOK'
  BY <1>1, EndsLocals DEF TypeOK, Inside, Away
<1>3. Asking' /\ Placed' /\ Holding' /\ Looked'
  BY <1>1, EndsLocals DEF Asking, Placed, Holding, Looked, Inside
<1>4. Exact'
  BY <1>1, EndsLocals DEF Exact, Stored, KeysOf
<1> QED BY <1>2, <1>3, <1>4

\* The exchange finds the lock free: the thread is in, and alone.
LEMMA LockInv ==
  ASSUME IInv, NEW t \in Threads, Lock(t)
  PROVE  IInv'
<1> USE DEF IInv
<1> DEFINE s == at[t]
<1>1. /\ pc[t] = "lock" /\ lock[s] = Nobody /\ s \in Shards
      /\ lock' \in [Shards -> Threads \cup {Nobody}] /\ lock'[s] = t
      /\ \A r \in Shards \ {s} : lock'[r] = lock[r]
      /\ UNCHANGED <<os, clock, sweep_shard, store, published, call, now, at, seen, had>>
  BY DEF Lock, Free, TypeOK
<1>2. /\ pc' \in [Threads -> Inside \cup Away]
      /\ pc'[t] = (IF call[t].op \in Straight THEN "write" ELSE "look")
      /\ \A u \in Threads \ {t} : pc'[u] = pc[u]
  BY DEF Lock, Goes, TypeOK, Inside, Away, Straight
<1>3. pc'[t] \in Inside /\ call[t] \in Request
  BY <1>1, <1>2 DEF Inside, Asking
<1>4. TypeOK'
  <2>1. ASSUME NEW u \in Threads, pc'[u] \in Inside
        PROVE  lock'[at'[u]] = u
    <3>1. CASE u = t
      BY <1>1, <3>1
    <3>2. CASE u # t
      <4>1. pc[u] \in Inside /\ lock[at[u]] = u /\ at[u] \in Shards
        BY <1>2, <2>1, <3>2 DEF TypeOK
      <4> QED BY <1>1, <4>1, MapAssumption
    <3> QED BY <3>1, <3>2
  <2> QED BY <1>1, <1>2, <2>1 DEF TypeOK, Away
<1>5. Asking' /\ Placed' /\ Looked'
  BY <1>1, <1>2, <1>3 DEF Asking, Placed, Looked, Inside
<1>6. Holding'
  BY <1>1, <1>2, <1>3 DEF Holding, TypeOK
<1>7. Exact'
  <2>1. ASSUME NEW r \in Shards, published[r] # Cardinality(Stored(store, r))
        PROVE  \E u \in Threads : lock'[r] = u /\ pc'[u] \in {"write", "publish"}
    <3>1. PICK u \in Threads : lock[r] = u /\ pc[u] \in {"write", "publish"}
      BY <2>1 DEF Exact
    <3> QED BY <1>1, <1>2, <3>1, MapAssumption
  <2> QED BY <1>1, <2>1 DEF Exact, Stored, KeysOf
<1> QED BY <1>4, <1>5, <1>6, <1>7

\* What the steps that change a shard's entries have in common: they are the
\* holder's, they stay inside, and they leave the other shards alone.
LEMMA WorkInv ==
  ASSUME IInv, NEW t \in Threads, pc[t] \in {"look", "write"},
         pc' \in [Threads -> Inside \cup Away], pc'[t] \in {"write", "publish"},
         \A u \in Threads \ {t} : pc'[u] = pc[u] /\ seen'[u] = seen[u],
         UNCHANGED <<os, clock, sweep_shard, published, lock, call, now, at>>,
         store' \in [Keys -> Entry \cup {None}],
         \A k \in Keys \ KeysOf(at[t]) : store'[k] = store[k],
         seen' \in [Threads -> Entry \cup {None}], had' \in [Threads -> BOOLEAN],
         pc'[t] = "write" =>
           store'[call[t].key] = seen'[t] /\ Verdict(call[t], seen'[t]) = None
  PROVE  IInv'
<1> USE DEF IInv
<1>1. pc[t] \in Inside /\ pc'[t] \in Inside /\ lock[at[t]] = t /\ at[t] \in Shards
  BY DEF Inside, TypeOK
<1>2. TypeOK'
  BY <1>1 DEF TypeOK, Away
<1>3. Asking' /\ Placed' /\ Holding'
  BY <1>1 DEF Asking, Placed, Holding, Inside
<1>4. Exact'
  <2> SUFFICES ASSUME NEW s \in Shards
               PROVE  \/ published[s] = Cardinality(Stored(store', s))
                      \/ \E u \in Threads : lock[s] = u /\ pc'[u] \in {"write", "publish"}
    BY DEF Exact, Stored, KeysOf
  <2>1. CASE s = at[t]
    BY <1>1, <2>1
  <2>2. CASE s # at[t]
    <3>1. Stored(store', s) = Stored(store, s)
      <4>1. \A k \in KeysOf(s) : store'[k] = store[k]
        BY <2>2 DEF KeysOf
      <4> QED BY <4>1, StoredKept
    <3>2. CASE published[s] = Cardinality(Stored(store, s))
      BY <3>1, <3>2
    <3>3. CASE \E u \in Threads : lock[s] = u /\ pc[u] \in {"write", "publish"}
      BY <1>1, <2>2, <3>3 DEF Holding
    <3> QED BY <3>2, <3>3 DEF Exact
  <2> QED BY <2>1, <2>2
<1>5. Looked'
  <2> SUFFICES ASSUME NEW u \in Threads \ {t}, pc[u] = "write", call[u].op \notin Straight
               PROVE  store'[call[u].key] = seen[u] /\ Verdict(call[u], seen[u]) = None
    BY DEF Looked
  <2>1. at[u] # at[t] /\ at[u] = ShardOf[call[u].key] /\ call[u].key \in Keys
    BY <1>1, Exclusive DEF Inside, Placed, Straight, Keyless, Asking, Request
  <2>2. store'[call[u].key] = store[call[u].key]
    BY <2>1 DEF KeysOf
  <2> QED BY <2>2 DEF Looked
<1> QED BY <1>2, <1>3, <1>4, <1>5

\* A look erases the entry it finds expired, and the rest of its shard stays.
LEMMA LookInv ==
  ASSUME IInv, NEW t \in Threads, Look(t)
  PROVE  IInv'
<1> USE DEF IInv
<1> DEFINE k == call[t].key
           e == IF store[k] # None /\ ~Expired(store[k], now[t]) THEN store[k] ELSE None
<1>1. pc[t] = "look" /\ k \in Keys /\ at[t] = ShardOf[k] /\ call[t] \in Request
  <2>1. call[t].op \notin Keyless
    BY DEF Look, Asking, Keyless, Straight
  <2> QED BY <2>1 DEF Look, Asking, Request, Placed, Inside
<1>2. e \in Entry \cup {None}
  BY <1>1 DEF TypeOK
<1>3. /\ store' = [store EXCEPT ![k] = e]
      /\ seen' = [seen EXCEPT ![t] = e]
      /\ had' = IF call[t].op = "persist"
                THEN [had EXCEPT ![t] = e # None /\ e.expiry # None] ELSE had
      /\ pc' = [pc EXCEPT ![t] = IF Verdict(call[t], e) = None THEN "write" ELSE "publish"]
      /\ UNCHANGED <<os, clock, sweep_shard, published, lock, call, now, at>>
  BY DEF Look, Goes
<1> HIDE DEF e
<1>4. /\ store' \in [Keys -> Entry \cup {None}]
      /\ \A j \in Keys \ KeysOf(at[t]) : store'[j] = store[j]
      /\ seen' \in [Threads -> Entry \cup {None}]
  BY <1>1, <1>2, <1>3 DEF TypeOK, KeysOf
<1>5. had' \in [Threads -> BOOLEAN]
  BY <1>3 DEF TypeOK
<1>6. /\ pc' \in [Threads -> Inside \cup Away] /\ pc'[t] \in {"write", "publish"}
      /\ pc'[t] = "write" => Verdict(call[t], e) = None
      /\ \A u \in Threads \ {t} : pc'[u] = pc[u] /\ seen'[u] = seen[u]
  BY <1>3 DEF TypeOK, Inside, Away
<1>7. store'[k] = e /\ seen'[t] = e
  BY <1>1, <1>3 DEF TypeOK
<1> QED
  BY <1>1, <1>3, <1>4, <1>5, <1>6, <1>7, WorkInv

\* A write stores an entry under the call's key, and evicts from that shard.
LEMMA WriteInv ==
  ASSUME IInv, NEW t \in Threads, Write(t)
  PROVE  IInv'
<1> USE DEF IInv
<1> DEFINE k == call[t].key
           e == Written(call[t], seen[t])
<1>1. pc[t] = "write" /\ call[t] \in Request /\ k \in Keys /\ at[t] = ShardOf[k]
  <2>1. pc[t] = "write" /\ call[t].op \notin Keyless
    BY DEF Write, Keyless
  <2> QED BY <2>1 DEF Asking, Request, Placed, Inside
<1>2. e \in Entry
  BY <1>1, WrittenTyped DEF Looked, TypeOK
<1>3. PICK gone \in SUBSET (KeysOf(at[t]) \ {k}) :
        store' = [j \in Keys |-> CASE j = k -> e [] j \in gone -> None [] OTHER -> store[j]]
  BY DEF Write
<1> HIDE DEF e
<1>4. /\ store' \in [Keys -> Entry \cup {None}]
      /\ \A j \in Keys \ KeysOf(at[t]) : store'[j] = store[j]
  BY <1>1, <1>2, <1>3 DEF TypeOK, KeysOf
<1>5. /\ pc' \in [Threads -> Inside \cup Away] /\ pc'[t] = "publish"
      /\ \A u \in Threads \ {t} : pc'[u] = pc[u]
      /\ UNCHANGED <<os, clock, sweep_shard, published, lock, call, now, at, seen, had>>
  BY DEF Write, Goes, TypeOK, Inside, Away
<1>6. seen' \in [Threads -> Entry \cup {None}] /\ had' \in [Threads -> BOOLEAN]
  BY <1>5 DEF TypeOK
<1> QED
  BY <1>1, <1>4, <1>5, <1>6, WorkInv

\* A refused write changes no entry.
LEMMA FullInv ==
  ASSUME IInv, NEW t \in Threads, Full(t)
  PROVE  IInv'
<1> USE DEF IInv
<1>1. /\ pc[t] = "write" /\ pc' \in [Threads -> Inside \cup Away] /\ pc'[t] = "publish"
      /\ \A u \in Threads \ {t} : pc'[u] = pc[u]
      /\ UNCHANGED <<os, clock, sweep_shard, store, published, lock, call, now, at, seen, had>>
  BY DEF Full, Goes, TypeOK, Inside, Away, shared
<1>2. /\ store' \in [Keys -> Entry \cup {None}]
      /\ seen' \in [Threads -> Entry \cup {None}] /\ had' \in [Threads -> BOOLEAN]
  BY <1>1 DEF TypeOK
<1> QED
  BY <1>1, <1>2, WorkInv

\* A removal, a clear and a sweep take entries from the shard they are in.
LEMMA DropInv ==
  ASSUME IInv, NEW t \in Threads, Drop(t)
  PROVE  IInv'
<1> USE DEF IInv
<1>1. PICK gone \in SUBSET KeysOf(at[t]) :
        store' = [k \in Keys |-> IF k \in gone THEN None ELSE store[k]]
  <2>1. CASE call[t].op = "remove"
    <3>1. {call[t].key} \subseteq KeysOf(at[t])
      BY <2>1 DEF Drop, Asking, Request, Placed, Inside, Keyless, KeysOf
    <3> QED BY <2>1, <3>1 DEF Drop
  <2>2. CASE call[t].op = "clear"
    BY <2>2 DEF Drop
  <2>3. CASE call[t].op = "sweep"
    BY <2>3 DEF Drop, Stored
  <2> QED BY <2>1, <2>2, <2>3 DEF Drop
<1>2. /\ store' \in [Keys -> Entry \cup {None}]
      /\ \A j \in Keys \ KeysOf(at[t]) : store'[j] = store[j]
  BY <1>1 DEF TypeOK
<1>3. /\ pc[t] = "write" /\ pc' \in [Threads -> Inside \cup Away] /\ pc'[t] = "publish"
      /\ \A u \in Threads \ {t} : pc'[u] = pc[u]
      /\ UNCHANGED <<os, clock, sweep_shard, published, lock, call, now, at, seen, had>>
  BY DEF Drop, Goes, TypeOK, Inside, Away
<1>4. seen' \in [Threads -> Entry \cup {None}] /\ had' \in [Threads -> BOOLEAN]
  BY <1>3 DEF TypeOK
<1> QED
  BY <1>2, <1>3, <1>4, WorkInv

\* The holder counts the shard it has, which is then told right.
LEMMA PublishInv ==
  ASSUME IInv, NEW t \in Threads, Publish(t)
  PROVE  IInv'
<1> USE DEF IInv
<1>1. pc[t] = "publish" /\ pc[t] \in Inside /\ lock[at[t]] = t /\ at[t] \in Shards
  BY DEF Publish, TypeOK, Inside
<1>2. /\ pc' \in [Threads -> Inside \cup Away] /\ pc'[t] = "unlock"
      /\ \A u \in Threads \ {t} : pc'[u] = pc[u]
      /\ UNCHANGED <<os, clock, sweep_shard, store, lock, call, now, at, seen, had>>
  BY DEF Publish, Goes, TypeOK, Inside, Away
<1>3. /\ published' \in [Shards -> 0..Cardinality(Keys)]
      /\ published'[at[t]] = Cardinality(Stored(store, at[t]))
      /\ \A s \in Shards \ {at[t]} : published'[s] = published[s]
  BY <1>1, StoredCount DEF Publish, Counted, TypeOK
<1>4. TypeOK'
  BY <1>1, <1>2, <1>3 DEF TypeOK, Inside, Away
<1>5. Asking' /\ Placed' /\ Holding' /\ Looked'
  BY <1>1, <1>2 DEF Asking, Placed, Holding, Looked, Inside
<1>6. Exact'
  <2> SUFFICES ASSUME NEW s \in Shards, s # at[t]
               PROVE  \/ published[s] = Cardinality(Stored(store, s))
                      \/ \E u \in Threads : lock[s] = u /\ pc'[u] \in {"write", "publish"}
    BY <1>2, <1>3 DEF Exact, Stored, KeysOf
  <2> QED BY <1>1, <1>2 DEF Exact, Holding
<1> QED BY <1>4, <1>5, <1>6

\* The lock is let go with nothing owed to it; the thread is away, asks again
\* for its key, or asks for the next shard.
LEMMA UnlockInv ==
  ASSUME IInv, NEW t \in Threads, Unlock(t)
  PROVE  IInv'
<1> USE DEF IInv
<1>1. /\ pc[t] = "unlock" /\ pc[t] \in Inside /\ lock[at[t]] = t /\ at[t] \in Shards
      /\ call[t] \in Request
      /\ UNCHANGED <<os, clock, sweep_shard, store, published>>
  BY DEF Unlock, TypeOK, Inside, Asking
<1>2. /\ lock' \in [Shards -> Threads \cup {Nobody}] /\ lock'[at[t]] = Nobody
      /\ \A s \in Shards \ {at[t]} : lock'[s] = lock[s]
  BY <1>1 DEF Unlock, Released, TypeOK
<1>3. /\ pc' \in [Threads -> Inside \cup Away] /\ pc'[t] \in {"idle", "lock"}
      /\ now' \in [Threads -> 0..MAX_TIME] /\ at' \in [Threads -> Shards]
      /\ seen' \in [Threads -> Entry \cup {None}] /\ had' \in [Threads -> BOOLEAN]
      /\ call' \in [Threads -> Request \cup {None}]
      /\ pc'[t] = "lock" =>
           /\ call'[t] \in Request /\ call'[t].op # "tick"
           /\ call'[t].op \notin Keyless => at'[t] = ShardOf[call'[t].key]
      /\ \A u \in Threads \ {t} :
           pc'[u] = pc[u] /\ call'[u] = call[u] /\ at'[u] = at[u] /\ seen'[u] = seen[u]
  <2>1. CASE /\ call[t].op = "persist"
             /\ call' = [call EXCEPT ![t].op = "unexpire"]
             /\ now' = [now EXCEPT ![t] = clock]
             /\ Goes(t, "lock")
             /\ UNCHANGED <<at, seen, had, said>>
    <3>1. /\ [call[t] EXCEPT !.op = "unexpire"] \in Request
          /\ [call[t] EXCEPT !.op = "unexpire"].key = call[t].key
          /\ [call[t] EXCEPT !.op = "unexpire"].op = "unexpire"
      BY <1>1 DEF Request, Ops
    <3>2. at[t] = ShardOf[call[t].key]
      BY <1>1, <2>1 DEF Placed, Keyless
    <3>3. call' = [call EXCEPT ![t] = [call[t] EXCEPT !.op = "unexpire"]]
      BY <2>1 DEF Asking
    <3> QED BY <1>1, <2>1, <3>1, <3>2, <3>3 DEF Goes, TypeOK, Inside, Away, Asking
  <2>2. CASE /\ call[t].op = "clear" /\ at[t] < Last
             /\ at' = [at EXCEPT ![t] = @ + 1]
             /\ Goes(t, "lock")
             /\ UNCHANGED <<call, now, seen, had, said>>
    <3>1. at[t] + 1 \in Shards
      BY <1>1, <2>2, MapAssumption, FS_CardinalityType DEF Last
    <3> QED BY <1>1, <2>2, <3>1 DEF Goes, TypeOK, Inside, Away, Asking, Keyless
  <2>3. CASE Ends(t)
    BY <2>3, EndsLocals
  <2> QED BY <2>1, <2>2, <2>3 DEF Unlock
<1>4. TypeOK'
  <2>1. ASSUME NEW u \in Threads, pc'[u] \in Inside
        PROVE  lock'[at'[u]] = u
    <3>1. u # t
      BY <1>3, <2>1 DEF Inside
    <3>2. pc[u] \in Inside /\ lock[at[u]] = u /\ at[u] \in Shards /\ at'[u] = at[u]
      BY <1>3, <2>1, <3>1 DEF TypeOK
    <3> QED BY <1>1, <1>2, <3>1, <3>2
  <2> QED BY <1>1, <1>2, <1>3, <2>1 DEF TypeOK, Away
<1>5. Asking'
  BY <1>3 DEF Asking, Inside
<1>6. Placed' /\ Looked'
  BY <1>1, <1>3 DEF Placed, Looked, Inside
<1>7. Holding'
  <2> SUFFICES ASSUME NEW s \in Shards, NEW u \in Threads, lock'[s] = u
               PROVE  pc'[u] \in Inside /\ at'[u] = s
    BY DEF Holding
  <2>1. s # at[t]
    BY <1>2, MapAssumption
  <2>2. pc[u] \in Inside /\ at[u] = s
    BY <1>2, <2>1 DEF Holding
  <2> QED BY <1>3, <2>1, <2>2
<1>8. Exact'
  <2> SUFFICES ASSUME NEW s \in Shards
               PROVE  \/ published[s] = Cardinality(Stored(store, s))
                      \/ \E u \in Threads : lock'[s] = u /\ pc'[u] \in {"write", "publish"}
    BY <1>1 DEF Exact, Stored, KeysOf
  <2>1. ASSUME NEW u \in Threads, lock[s] = u, pc[u] \in {"write", "publish"}
        PROVE  lock'[s] = u /\ pc'[u] \in {"write", "publish"}
    <3>1. u # t /\ s # at[t]
      BY <1>1, <2>1
    <3> QED BY <1>2, <1>3, <2>1, <3>1
  <2> QED BY <2>1 DEF Exact
<1> QED BY <1>4, <1>5, <1>6, <1>7, <1>8

-----------------------------------------------------------------------------
(* Theorems. *)

\* The map starts in the invariant.
LEMMA InitInv == Init => IInv
<1> SUFFICES ASSUME Init PROVE IInv
  OBVIOUS
<1>1. 0 \in Shards /\ 0 \in 0..MAX_TIME
  <2>1. Cardinality(Shards) \in Nat /\ Cardinality(Shards) > 0
    BY MapAssumption, FS_CardinalityType, FS_EmptySet
  <2> QED BY <2>1, MapAssumption
<1>2. 0 \in 0..Cardinality(Keys)
  BY MapAssumption, FS_CardinalityType
<1>3. TypeOK
  BY <1>1, <1>2 DEF Init, TypeOK, Inside
<1>4. Asking /\ Placed /\ Looked
  BY DEF Init, Asking, Placed, Looked, Inside
<1>5. Holding
  BY MapAssumption DEF Init, Holding
<1>6. Exact
  <2>1. \A s : Stored(store, s) = {}
    BY DEF Init, Stored, KeysOf
  <2> QED BY <2>1, FS_EmptySet DEF Init, Exact
<1> QED BY <1>3, <1>4, <1>5, <1>6 DEF IInv

\* Every step keeps it.
LEMMA NextInv == IInv /\ [Next]_vars => IInv'
<1> SUFFICES ASSUME IInv, [Next]_vars PROVE IInv'
  OBVIOUS
<1>1. CASE Wait
  BY <1>1, WaitInv
<1>2. ASSUME NEW t \in Threads, NEW c \in Calls, Begin(t, c) PROVE IInv'
  BY <1>2, BeginInv
<1>3. ASSUME NEW t \in Threads, Tick(t) \/ Lock(t) PROVE IInv'
  BY <1>3, TickInv, LockInv
<1>4. ASSUME NEW t \in Threads, Holder(t) PROVE IInv'
  BY <1>4, LookInv, WriteInv, FullInv, DropInv, PublishInv, UnlockInv DEF Holder
<1>5. CASE UNCHANGED vars
  BY <1>5 DEF vars, shared, locals, IInv, TypeOK, Asking, Placed, Holding, Exact, Looked,
              Stored, KeysOf
<1> QED BY <1>1, <1>2, <1>3, <1>4, <1>5 DEF Next

\* The invariant holds throughout, whatever the threads, shards, keys and calls.
THEOREM Invariance == Spec => []IInv
BY InitInv, NextInv, PTL DEF Spec

\* Every variable keeps its type, an increment's result included, and a thread
\* inside a shard holds that shard's lock: Lock::lock is exclusive.
THEOREM TypeCorrect == Spec => []TypeOK
BY Invariance, PTL DEF IInv

\* Every path through with_key, clear and sweep publishes the shard's counters
\* before it lets the lock go.
THEOREM PublishedRight == Spec => []PublishedWhenFree
<1>1. IInv => PublishedWhenFree
  <2> SUFFICES ASSUME IInv, NEW s \in Shards, lock[s] = Nobody
               PROVE  published[s] = Cardinality(Stored(store, s))
    BY DEF PublishedWhenFree
  <2> QED BY MapAssumption DEF IInv, Exact
<1> QED BY <1>1, Invariance, PTL

\* Every step changes a key only as the call of its shard's holder would.
LEMMA StepAsAsked ==
  ASSUME IInv, [Next]_vars, NEW k \in Keys, store'[k] # store[k]
  PROVE  \E t \in Threads : lock[ShardOf[k]] = t /\ Makes(call[t], now[t], k, store[k], store'[k])
<1> USE DEF IInv
<1>1. store \in [Keys -> Entry \cup {None}]
  BY DEF TypeOK
<1>2. PICK t \in Threads : Look(t) \/ Write(t) \/ Drop(t)
  <2>1. store' # store
    OBVIOUS
  <2> QED BY <2>1 DEF Next, Holder, Wait, Begin, Tick, Lock, Full, Publish, Unlock, vars, shared
<1>3. pc[t] \in {"look", "write"} /\ call[t] \in Request /\ lock[at[t]] = t
  BY <1>2 DEF Look, Write, Drop, Asking, TypeOK, Inside
<1>4. call[t].op \notin Keyless => at[t] = ShardOf[call[t].key] /\ call[t].key \in Keys
  BY <1>3 DEF Placed, Inside, Request
<1>5. CASE Look(t)
  <2>1. pc[t] = "look" /\ call[t].op \notin Keyless
    BY <1>5 DEF Look, Asking, Straight, Keyless
  <2>2. k = call[t].key /\ Expired(store[k], now[t]) /\ store'[k] = None
    BY <1>1, <1>4, <1>5, <2>1 DEF Look
  <2> QED BY <1>3, <1>4, <2>1, <2>2 DEF Makes
<1>6. CASE Write(t)
  <2>1. pc[t] = "write" /\ call[t].op \notin {"remove", "clear", "sweep"}
    BY <1>6 DEF Write
  <2>2. PICK gone \in IF MAY_EVICT /\ call[t].op \notin {"expire", "unexpire"}
                      THEN SUBSET (KeysOf(at[t]) \ {call[t].key}) ELSE {{}} :
          store' = [j \in Keys |-> CASE j = call[t].key -> Written(call[t], seen[t])
                                     [] j \in gone -> None
                                     [] OTHER -> store[j]]
    BY <1>6 DEF Write
  <2>3. CASE k = call[t].key
    <3>1. store'[k] = Written(call[t], seen[t])
      BY <2>2, <2>3
    <3>2. Written(call[t], seen[t]) = Written(call[t], store[k]) /\ Verdict(call[t], store[k]) = None
      <4>1. CASE call[t].op = "set"
        BY <4>1 DEF Written, Verdict
      <4>2. CASE call[t].op # "set"
        BY <2>1, <2>3, <4>2 DEF Looked, Straight
      <4> QED BY <4>1, <4>2
    <3>3. lock[ShardOf[k]] = t
      BY <1>3, <1>4, <2>1, <2>3 DEF Keyless
    <3> QED BY <2>1, <2>3, <3>1, <3>2, <3>3 DEF Makes
  <2>4. CASE k # call[t].key
    <3>1. k \in gone /\ store'[k] = None
      BY <2>2, <2>4
    <3>2. MAY_EVICT /\ call[t].op \notin {"expire", "unexpire"} /\ k \in KeysOf(at[t])
      BY <2>2, <3>1
    <3>3. lock[ShardOf[k]] = t
      BY <1>3, <3>2 DEF KeysOf
    <3>4. call[t].op \in {"set", "nx", "xx", "keep", "incr"}
      <4>1. call[t].op \in Ops
        BY <1>3 DEF Request
      <4>2. call[t].op \notin {"get", "persist"}
        <5>1. call[t].op \notin Straight => Verdict(call[t], seen[t]) = None
          BY <2>1 DEF Looked
        <5> QED BY <5>1, MapAssumption DEF Verdict, Verdicts, Straight
      <4>3. call[t].op # "tick"
        BY <1>3 DEF Asking, Inside
      <4> QED BY <2>1, <3>2, <4>1, <4>2, <4>3 DEF Ops
    <3> QED BY <2>4, <3>1, <3>2, <3>3, <3>4 DEF Makes
  <2> QED BY <2>3, <2>4
<1>7. CASE Drop(t)
  <2>1. pc[t] = "write" /\ call[t].op \in {"remove", "clear", "sweep"}
    BY <1>7 DEF Drop
  <2>2. CASE call[t].op = "remove"
    <3>1. k = call[t].key /\ store'[k] = None
      BY <1>1, <1>7, <2>2 DEF Drop
    <3> QED BY <1>3, <1>4, <2>2, <3>1 DEF Makes, Keyless
  <2>3. CASE call[t].op = "clear"
    <3>1. k \in KeysOf(at[t]) /\ store'[k] = None
      BY <1>1, <1>7, <2>3 DEF Drop
    <3> QED BY <1>3, <2>3, <3>1 DEF Makes, KeysOf
  <2>4. CASE call[t].op = "sweep"
    <3>1. /\ k \in Stored(store, at[t]) /\ Expired(store[k], now[t])
          /\ store'[k] = None
      BY <1>1, <1>7, <2>4 DEF Drop
    <3> QED BY <1>3, <3>1 DEF Makes, Stored, KeysOf
  <2> QED BY <2>1, <2>2, <2>3, <2>4
<1> QED BY <1>2, <1>5, <1>6, <1>7

\* A key changes only as one call makes it of what is there, that of the lock's
\* holder: the read and the write of a conditional or arithmetic write are one.
THEOREM AsAsked == Spec => ChangedAsAsked
<1>1. IInv /\ [Next]_vars =>
        [\A k \in Keys : store'[k] # store[k] =>
           \E t \in Threads : lock[ShardOf[k]] = t /\ Makes(call[t], now[t], k, store[k], store'[k])]_vars
  BY StepAsAsked
<1> QED BY <1>1, Invariance, PTL DEF Spec, ChangedAsAsked

\* A thread that waits for a lock holds none, so threads never wait for each
\* other in a circle.
THEOREM NoHoldAndWait == Spec => []AsksEmptyHanded
<1>1. IInv => AsksEmptyHanded
  BY DEF IInv, Holding, AsksEmptyHanded, Inside
<1> QED BY <1>1, Invariance, PTL
=============================================================================
