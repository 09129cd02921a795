------------------------------- MODULE MCMap -------------------------------
(* Small instances of Map: two threads, two shards, two or three keys. *)
EXTENDS Map, TLC

CONSTANTS t1, t2, a, b, c

TwoThreads == {t1, t2}
TwoKeys == {a, b}
ThreeKeys == {a, b, c}
MCShardOf == [k \in Keys |-> IF k = b THEN 1 ELSE 0]

Call(op, k, v, x) == [op |-> op, key |-> k, value |-> v, expiry |-> x]

\* Every kind of call; a and c share a shard.
AllCalls ==
  {Call(op, a, 0, None) : op \in {"get", "nx", "keep", "incr", "persist", "remove"}}
    \cup {Call("expire", a, 0, 1), Call("set", a, Text, 1), Call("xx", b, 0, None),
          Call("set", b, 0, 1),
          Call("set", c, 0, None), Call("clear", a, 0, None), Call("sweep", a, 0, None), Call("tick", a, 0, None)}

PersistCalls ==
  {Call("set", a, 0, 1), Call("persist", a, 0, None)}

ThreadsAlike == Permutations(Threads)
=============================================================================
