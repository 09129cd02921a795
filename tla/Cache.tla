------------------------------- MODULE Cache -------------------------------
(***************************************************************************)
(* What one shard of the map promises whoever holds its lock, with no      *)
(* table in it: a function from keys to entries, and what each call is     *)
(* told.  Every step says why an entry may change.  A write stores one     *)
(* entry; until it returns other keys may be evicted, never the one it     *)
(* wrote and never more than EVICT_MAX of them; a refused write changes    *)
(* nothing; otherwise an entry leaves when it is removed, when the shard   *)
(* is cleared, or when a call that looks at it finds it expired.           *)
(***************************************************************************)
EXTENDS Naturals

CONSTANTS
  Keys,       \* the keys of this shard
  Values,     \* what a key may hold
  Times,      \* readings of the clock
  Deadlines,  \* the deadlines a client may ask for
  EVICT_MAX,  \* most entries one write may evict
  None        \* no entry, no deadline, no call under way

VARIABLES
  store,      \* store[k] is the entry a lookup of k finds, or None
  writing,    \* the key the write under way has stored, or None
  evicted,    \* how many entries that write has evicted
  sweeping,   \* the time the sweep under way was given, or None
  reply       \* the last call to return and what it was told, or None during one

vars == <<store, writing, evicted, sweeping, reply>>

Deadline == Deadlines \cup {None}
Entry == [key : Keys, value : Values, expiry : Deadline]

Expired(e, now) == e # None /\ e.expiry # None /\ e.expiry <= now
Live(k, now) == store[k] # None /\ ~Expired(store[k], now)
Drop(k) == [store EXCEPT ![k] = None]

Idle == writing = None /\ sweeping = None
Told(call, said) == reply' = [call |-> call, said |-> said]
YesNo(b) == IF b THEN "yes" ELSE "no"

Init ==
  /\ store = [k \in Keys |-> None]
  /\ writing = None
  /\ evicted = 0
  /\ sweeping = None
  /\ reply = [call |-> <<"new">>, said |-> "ok"]

Get(k, now) ==
  /\ Idle
  /\ Told(<<"get", k, now>>, YesNo(Live(k, now)))
  /\ UNCHANGED <<writing, evicted, sweeping>>
  /\ store' = IF Expired(store[k], now) THEN Drop(k) ELSE store

Remove(k) ==
  /\ Idle
  /\ Told(<<"remove", k>>, YesNo(store[k] # None))
  /\ UNCHANGED <<writing, evicted, sweeping>>
  /\ store' = Drop(k)

Expire(k, x, now) ==
  /\ Idle
  /\ UNCHANGED <<writing, evicted, sweeping>>
  /\ \/ Told(<<"expire", k, now>>, "no") /\ ~Live(k, now) /\ store' = Drop(k)
     \/ Told(<<"expire", k, now>>, "full") /\ Live(k, now) /\ UNCHANGED store
     \/ /\ Told(<<"expire", k, now>>, "yes") /\ Live(k, now)
        /\ store' = [store EXCEPT ![k].expiry = x]

Write(k, v, x) ==
  /\ Idle
  /\ writing' = k /\ reply' = None
  /\ UNCHANGED <<evicted, sweeping>>
  /\ store' = [store EXCEPT ![k] = [key |-> k, value |-> v, expiry |-> x]]

Evict(k) ==
  /\ writing # None /\ k # writing
  /\ store[k] # None
  /\ evicted < EVICT_MAX
  /\ evicted' = evicted + 1
  /\ UNCHANGED <<writing, sweeping, reply>>
  /\ store' = Drop(k)

WriteReturns ==
  /\ writing # None
  /\ writing' = None
  /\ evicted' = 0
  /\ Told(<<"set", writing>>, "ok")
  /\ UNCHANGED <<store, sweeping>>

WriteRefused(k) ==
  /\ Idle
  /\ Told(<<"set", k>>, "full")
  /\ UNCHANGED <<store, writing, evicted, sweeping>>

SweepStarts(now) ==
  /\ Idle
  /\ sweeping' = now /\ reply' = None
  /\ UNCHANGED <<store, writing, evicted>>

Lapse(k) ==
  /\ sweeping # None
  /\ Expired(store[k], sweeping)
  /\ UNCHANGED <<writing, evicted, sweeping, reply>>
  /\ store' = Drop(k)

SweepReturns ==
  /\ sweeping # None
  /\ sweeping' = None
  /\ Told(<<"sweep", sweeping>>, "ok")
  /\ UNCHANGED <<store, writing, evicted>>

Clear ==
  /\ Idle
  /\ Told(<<"clear">>, "ok")
  /\ UNCHANGED <<writing, evicted, sweeping>>
  /\ store' = [k \in Keys |-> None]

Next ==
  \/ \E k \in Keys, now \in Times : Get(k, now)
  \/ \E k \in Keys : Remove(k)
  \/ \E k \in Keys, x \in Deadline, now \in Times : Expire(k, x, now)
  \/ \E k \in Keys, v \in Values, x \in Deadline : Write(k, v, x)
  \/ \E k \in Keys : Evict(k)
  \/ WriteReturns
  \/ \E k \in Keys : WriteRefused(k)
  \/ \E now \in Times : SweepStarts(now)
  \/ \E k \in Keys : Lapse(k)
  \/ SweepReturns
  \/ Clear

Spec == Init /\ [][Next]_vars
=============================================================================
