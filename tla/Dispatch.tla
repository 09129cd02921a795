------------------------------ MODULE Dispatch ------------------------------
(***************************************************************************)
(* What each command does (rugo-server/src/dispatch.rs), run by threads    *)
(* that share a map.  A command is its list of arguments; a reply is the   *)
(* list of frames the Encoder of rugo-resp writes for it.                  *)
(*                                                                         *)
(* One call of the map is one step, which module Map justifies; a command  *)
(* that makes several calls, or reads the clock before its call, takes     *)
(* several, so another thread, or a tick, may come in between.  Words are  *)
(* in the case the code compares them in.                                  *)
(***************************************************************************)
EXTENDS Integers, Sequences, SequencesExt, FiniteSets, TLC

CONSTANTS
  Threads, Keys,
  CommandsOf,    \* thread -> the commands its client sends, sequences of words
  Numerals,      \* the words that parse as an i64, and as which one
  INT_MAX,       \* i64::MAX
  CLOCK_MAX,     \* u32::MAX, the last second the map's clock has
  SCALE,         \* milliseconds in a second
  MAX_ARGS,      \* longest command of this instance, and the most shards (bound)
  Shards,        \* the keys that hash to each shard, in the order of the map's shards
  Keep, None

INT_MIN == -INT_MAX - 1

ASSUME DispatchAssumption ==
  /\ {INT_MAX, CLOCK_MAX, SCALE, MAX_ARGS} \subseteq Nat \ {0}
  /\ CLOCK_MAX < INT_MAX /\ SCALE > 1
  /\ \A w \in DOMAIN Numerals : Numerals[w] \in INT_MIN .. INT_MAX
  /\ \A t \in Threads : \A c \in CommandsOf[t] : c \in Seq(STRING) /\ Len(c) <= MAX_ARGS
  /\ None \notin INT_MIN .. INT_MAX /\ IsFiniteSet(Keys)
  /\ Shards \in Seq(SUBSET Keys) /\ Len(Shards) <= MAX_ARGS

VARIABLES
  up,            \* the process is running
  now,           \* the map's clock
  store,         \* key -> entry
  dialect,       \* thread -> what its client speaks, 2 or 3
  job            \* thread -> the command in hand and where it is

vars == <<up, now, store, dialect, job>>

\* A command in hand: its words, how far run has come with it, the argument it
\* is at, the clock it read, what the options said so far, the reply; and, for
\* the properties, what it saw of the map and how many entries it changed.
Idle == [pc |-> "idle", cmd |-> <<>>, n |-> 0, read |-> 0, when |-> "always", expiry |-> None,
         out |-> <<>>, hits |-> 0, saw |-> None, did |-> 0]

-----------------------------------------------------------------------------
(* Arguments. *)

arg(c, n) == IF n < Len(c) THEN c[n + 1] ELSE ""
Name(c) == arg(c, 0)
integer_of(word) == IF word \in DOMAIN Numerals THEN Numerals[word] ELSE None

Strings == {"GET", "SET", "SETEX", "PSETEX", "MGET", "MSET", "INCR", "DECR", "INCRBY",
            "DECRBY", "STRLEN"}
Keyspace == {"DEL", "UNLINK", "EXISTS", "EXPIRE", "PEXPIRE", "EXPIREAT", "PEXPIREAT", "TTL",
             "PTTL", "PERSIST", "DBSIZE", "FLUSHALL", "FLUSHDB"}
Connection == {"PING", "ECHO", "HELLO", "SELECT", "RESET", "QUIT"}
Admin == {"INFO", "COMMAND", "CONFIG", "CLIENT", "SHUTDOWN"}
Known == Strings \cup Keyspace \cup Connection \cup Admin

\* The lengths of a command that is not refused for its number of arguments.
arity(name) ==
  CASE name \in {"GET", "INCR", "DECR", "STRLEN", "TTL", "PTTL", "PERSIST", "ECHO", "SELECT"} -> {2}
    [] name \in {"INCRBY", "DECRBY", "EXPIRE", "PEXPIRE", "EXPIREAT", "PEXPIREAT"} -> {3}
    [] name \in {"SETEX", "PSETEX"} -> {4}
    [] name = "SET" -> 3 .. MAX_ARGS
    [] name = "MSET" -> {n \in 3 .. MAX_ARGS : n % 2 = 1}
    [] name \in {"MGET", "DEL", "UNLINK", "EXISTS"} -> 2 .. MAX_ARGS
    [] name = "PING" -> {1, 2}
    [] OTHER -> 1 .. MAX_ARGS

\* The clients of an instance use the words in Keys as keys.
ASSUME KeysAssumption ==
  \A t \in Threads : \A c \in CommandsOf[t] :
    LET many == Name(c) \in {"MGET", "DEL", "UNLINK", "EXISTS"}
        one == Name(c) \in (Strings \cup Keyspace) \ {"DBSIZE", "FLUSHALL", "FLUSHDB"}
    IN  \A i \in 2 .. Len(c) : many \/ (Name(c) = "MSET" /\ i % 2 = 0) \/ (one /\ i = 2) => c[i] \in Keys

(* Frames of a reply. *)

Simple == <<"+", 0>>
Error == <<"-", 0>>
Integer(n) == <<":", n>>
Bulk == <<"$", 0>>
Array(n) == <<"*", n>>
Null(d) == IF d = 2 THEN <<"$-1", 0>> ELSE <<"_", 0>>
MapOf(d, n) == IF d = 2 THEN Array(2 * n) ELSE <<"%", n>>

-----------------------------------------------------------------------------
(* Deadlines. *)

\* A sum of two i64 in a release build.
Wrapped(n) == ((n - INT_MIN) % (2 * (INT_MAX + 1))) + INT_MIN

unit(option) ==
  CASE option = "EX" -> [scale |-> 1, absolute |-> FALSE]
    [] option = "PX" -> [scale |-> SCALE, absolute |-> FALSE]
    [] option = "EXAT" -> [scale |-> 1, absolute |-> TRUE]
    [] option = "PXAT" -> [scale |-> SCALE, absolute |-> TRUE]
    [] OTHER -> None

\* (mutant) milliseconds are cut off rather than rounded up
moment_floor(read, value, scale, absolute) ==
  IF absolute THEN value \div scale ELSE Wrapped(read + value \div scale)

moment(read, value, scale, absolute) ==
  LET secs == value \div scale + (IF value % scale # 0 THEN 1 ELSE 0)
  IN  IF absolute THEN secs ELSE Wrapped(read + secs)

\* (mutant) only the lower end saturates
stamp_open(at) == IF at < 0 THEN 0 ELSE at

stamp(at) == IF at < 0 THEN 0 ELSE IF at > CLOCK_MAX THEN CLOCK_MAX ELSE at

\* EXPIRE and its three neighbours, SETEX and PSETEX.
Millis(name) == name \in {"PEXPIRE", "PEXPIREAT", "PSETEX"}
Absolute(name) == name \in {"EXPIREAT", "PEXPIREAT"}

-----------------------------------------------------------------------------
(* The map, one call at a time (module Map). *)

Live(k) == store[k] # None /\ (store[k].expiry # None => store[k].expiry > now)

\* A lookup erases an entry it finds expired.
Looked(k) == IF Live(k) THEN store ELSE [store EXCEPT ![k] = None]

\* Written over the entry that is there, which cannot be refused.
InPlace(k, e) ==
  /\ store[k] # None
  /\ Len(store[k].value) = Len(e.value) /\ (store[k].expiry = None) = (e.expiry = None)

\* table.set: stored, perhaps at the cost of other entries.
Stores(k, e) ==
  \E gone \in SUBSET (Keys \ {k}) :
    store' = [x \in Keys |-> IF x = k THEN e ELSE IF x \in gone THEN None ELSE store[x]]

Init ==
  /\ up = TRUE /\ now = 0
  /\ store = [k \in Keys |-> None]
  /\ dialect = [t \in Threads |-> 2]
  /\ job = [t \in Threads |-> Idle]

\* Upkeep of some thread stores the time; one that asked the system earlier may
\* store it later, a second behind.
Tick ==
  /\ up
  /\ now' \in {now - 1, now + 1} \cap 0 .. CLOCK_MAX
  /\ UNCHANGED <<up, store, dialect, job>>

Sweep ==
  /\ up
  /\ \E k \in Keys : store[k] # None /\ ~Live(k) /\ store' = [store EXCEPT ![k] = None]
  /\ UNCHANGED <<up, now, dialect, job>>

-----------------------------------------------------------------------------
(* Running one command. *)

Begin(t, c) ==
  /\ up /\ job[t].pc = "idle"
  /\ job' = [job EXCEPT ![t] = [Idle EXCEPT !.pc = "run", !.cmd = c]]
  /\ UNCHANGED <<up, now, store, dialect>>

At(t, pc, names) == up /\ job[t].pc = pc /\ Name(job[t].cmd) \in names
Fits(t) == Len(job[t].cmd) \in arity(Name(job[t].cmd))
Key(t) == arg(job[t].cmd, 1)
integer(t, n) == integer_of(arg(job[t].cmd, n))

\* The reply's last frames are written.
Says(t, frames) == job' = [job EXCEPT ![t].pc = "done", ![t].out = @ \o frames]

\* The same, with what the map showed and how many of its entries changed.
SaysOf(t, frames, saw, did) ==
  job' = [job EXCEPT ![t].pc = "done", ![t].out = @ \o frames, ![t].saw = saw, ![t].did = @ + did]

\* An unknown command, and one with too few or too many arguments.  The connection
\* passes over an empty one before it asks.
Refuse(t) ==
  /\ up /\ job[t].pc = "run"
  /\ Name(job[t].cmd) \in Known => ~Fits(t)
  /\ Says(t, <<Error>>)
  /\ UNCHANGED <<up, now, store, dialect>>

\* map.get, written straight into the reply: GET, and each key of MGET.
Fetched(t, k, j) ==
  [j EXCEPT !.out = @ \o <<IF Live(k) THEN Bulk ELSE Null(dialect[t])>>]

Get(t) ==
  /\ At(t, "run", {"GET"}) /\ Fits(t)
  /\ job' = [job EXCEPT ![t] = [Fetched(t, Key(t), @) EXCEPT !.pc = "done"]]
  /\ store' = Looked(Key(t))
  /\ UNCHANGED <<up, now, dialect>>

StrLen(t) ==
  /\ At(t, "run", {"STRLEN"}) /\ Fits(t)
  /\ Says(t, <<Integer(IF Live(Key(t)) THEN Len(store[Key(t)].value) ELSE 0)>>)
  /\ store' = Looked(Key(t))
  /\ UNCHANGED <<up, now, dialect>>

\* The commands that go key by key; MGET writes its header first.
EachBegins(t) ==
  /\ At(t, "run", {"MGET", "MSET", "DEL", "UNLINK", "EXISTS"}) /\ Fits(t)
  /\ job' = [job EXCEPT ![t].pc = "each", ![t].n = 1,
               ![t].out = IF Name(job[t].cmd) = "MGET" THEN <<Array(Len(job[t].cmd) - 1)>> ELSE <<>>]
  /\ UNCHANGED <<up, now, store, dialect>>

EachKey(t) ==
  LET c == job[t].cmd  n == job[t].n  k == arg(c, n)
  IN  /\ At(t, "each", {"MGET", "DEL", "UNLINK", "EXISTS"}) /\ n < Len(c)
      /\ \/ /\ Name(c) = "MGET"
            /\ job' = [job EXCEPT ![t] = [Fetched(t, k, @) EXCEPT !.n = n + 1]]
            /\ store' = Looked(k)
         \/ /\ Name(c) = "EXISTS"
            /\ job' = [job EXCEPT ![t].n = n + 1, ![t].hits = @ + IF Live(k) THEN 1 ELSE 0]
            /\ store' = Looked(k)
         \/ /\ Name(c) \in {"DEL", "UNLINK"}
            /\ job' = [job EXCEPT ![t].n = n + 1, ![t].did = @ + IF store[k] # None THEN 1 ELSE 0]
            /\ store' = [store EXCEPT ![k] = None]
  /\ UNCHANGED <<up, now, dialect>>

\* (mutant) MSET goes on past a pair the map refused
Stops_never(t) == job' = [job EXCEPT ![t].n = @ + 2]

\* MSET ends at the first refusal, the pairs before it written.
Stops(t) == Says(t, <<Error>>)

EachPair(t) ==
  LET c == job[t].cmd  n == job[t].n  k == arg(c, n)
      e == [value |-> arg(c, n + 1), expiry |-> None]
  IN  /\ At(t, "each", {"MSET"}) /\ n < Len(c)
      /\ \/ /\ Stores(k, e)
            /\ job' = [job EXCEPT ![t].n = n + 2, ![t].did = @ + 1]
         \/ ~InPlace(k, e) /\ UNCHANGED store /\ Stops(t)
  /\ UNCHANGED <<up, now, dialect>>

\* What DEL and EXISTS counted.
Answer(j) == IF Name(j.cmd) = "EXISTS" THEN j.hits ELSE j.did

EachEnds(t) ==
  /\ At(t, "each", Known) /\ job[t].n >= Len(job[t].cmd)
  /\ \/ Name(job[t].cmd) = "MGET" /\ Says(t, <<>>)
     \/ Name(job[t].cmd) = "MSET" /\ Says(t, <<Simple>>)
     \/ Name(job[t].cmd) \in {"DEL", "UNLINK", "EXISTS"} /\ Says(t, <<Integer(Answer(job[t]))>>)
  /\ UNCHANGED <<up, now, store, dialect>>

(* INCR and its neighbours. *)

\* (mutant) the negation wraps
by_wrapped(t) ==
  CASE Name(job[t].cmd) = "INCR" -> 1
    [] Name(job[t].cmd) = "DECR" -> -1
    [] Name(job[t].cmd) = "INCRBY" -> integer(t, 2)
    [] OTHER -> IF integer(t, 2) = None THEN None ELSE Wrapped(-integer(t, 2))

\* What is added, or None for an argument that is not a number or has no negative.
by(t) ==
  CASE Name(job[t].cmd) = "INCR" -> 1
    [] Name(job[t].cmd) = "DECR" -> -1
    [] Name(job[t].cmd) = "INCRBY" -> integer(t, 2)
    [] OTHER -> IF integer(t, 2) \in {None, INT_MIN} THEN None ELSE -integer(t, 2)

\* The map's decimal has one spelling for each integer, fewer than integer_of.
digits(n) == ToString(n)
decimal(word) == IF \E n \in INT_MIN .. INT_MAX : word = digits(n)
                 THEN CHOOSE n \in INT_MIN .. INT_MAX : word = digits(n) ELSE None

Count(t) ==
  LET k == Key(t)
      held == IF ~Live(k) THEN 0 ELSE decimal(store[k].value)
      sum == held + by(t)
      e == [value |-> digits(sum), expiry |-> IF Live(k) THEN store[k].expiry ELSE None]
      refused == IF held = None THEN TRUE ELSE sum \notin INT_MIN .. INT_MAX
  IN  /\ At(t, "run", {"INCR", "DECR", "INCRBY", "DECRBY"}) /\ Fits(t)
      /\ \/ by(t) = None /\ Says(t, <<Error>>) /\ UNCHANGED store
         \/ by(t) # None /\ refused /\ Says(t, <<Error>>) /\ store' = Looked(k)
         \/ by(t) # None /\ ~refused /\ Stores(k, e) /\ SaysOf(t, <<Integer(sum)>>, held, 1)
         \/ by(t) # None /\ ~refused /\ ~(Live(k) /\ InPlace(k, e)) /\ Says(t, <<Error>>)
            /\ store' = Looked(k)
  /\ UNCHANGED <<up, now, dialect>>

(* SET, SETEX and PSETEX. *)

\* map.set, for a SET with no options.
SetPlain(t) ==
  LET k == Key(t)  e == [value |-> arg(job[t].cmd, 2), expiry |-> None]
  IN  /\ At(t, "run", {"SET"}) /\ Len(job[t].cmd) = 3
      /\ \/ Stores(k, e) /\ SaysOf(t, <<Simple>>, None, 1)
         \/ ~InPlace(k, e) /\ UNCHANGED store /\ Says(t, <<Error>>)
  /\ UNCHANGED <<up, now, dialect>>

\* The clock is read once, before the options.
SetOptions(t) ==
  /\ At(t, "run", {"SET"}) /\ Len(job[t].cmd) > 3
  /\ job' = [job EXCEPT ![t].pc = "options", ![t].n = 3, ![t].read = now]
  /\ UNCHANGED <<up, now, store, dialect>>

\* One option: a condition, KEEPTTL, a deadline, or a refusal.
SetOption(t) ==
  LET n == job[t].n  option == arg(job[t].cmd, n)  u == unit(option)  value == integer(t, n + 1)
  IN  /\ At(t, "options", {"SET"}) /\ n < Len(job[t].cmd)
      /\ \/ /\ option \in {"NX", "XX"}
            /\ job' = [job EXCEPT ![t].n = n + 1,
                                  ![t].when = IF option = "NX" THEN "absent" ELSE "present"]
         \/ option = "KEEPTTL" /\ job' = [job EXCEPT ![t].n = n + 1, ![t].expiry = Keep]
         \/ /\ u # None /\ value # None /\ (u.absolute \/ value > 0)
            /\ job' = [job EXCEPT ![t].n = n + 2,
                         ![t].expiry = stamp(moment(job[t].read, value, u.scale, u.absolute))]
         \/ u # None /\ value # None /\ ~u.absolute /\ value <= 0 /\ Says(t, <<Error>>)
         \/ u # None /\ value = None /\ Says(t, <<Error>>)
         \/ u = None /\ option \notin {"NX", "XX", "KEEPTTL"} /\ Says(t, <<Error>>)
  /\ UNCHANGED <<up, now, store, dialect>>

\* SETEX and PSETEX, as far as their deadline.
TimedSet(t) ==
  /\ At(t, "run", {"SETEX", "PSETEX"}) /\ Fits(t)
  /\ LET value == integer(t, 2)  scale == IF Millis(Name(job[t].cmd)) THEN SCALE ELSE 1
     IN  \/ (value = None \/ value <= 0) /\ Says(t, <<Error>>)
         \/ /\ value # None /\ value > 0
            /\ job' = [job EXCEPT ![t].pc = "set", ![t].read = now,
                                  ![t].expiry = stamp(moment(now, value, scale, FALSE))]
  /\ UNCHANGED <<up, now, store, dialect>>

\* map.set_when: the condition and the write are one call.
SetWhen(t) ==
  LET j == job[t]
      k == Key(t)
      ready == At(t, "set", {"SETEX", "PSETEX"}) \/ (At(t, "options", {"SET"}) /\ j.n >= Len(j.cmd))
      refused == j.when = IF Live(k) THEN "absent" ELSE "present"
      e == [value |-> arg(j.cmd, IF Name(j.cmd) = "SET" THEN 2 ELSE 3),
            expiry |-> IF j.expiry # Keep THEN j.expiry ELSE IF Live(k) THEN store[k].expiry ELSE None]
  IN  /\ ready
      /\ \/ refused /\ store' = Looked(k) /\ Says(t, <<Null(dialect[t])>>)
         \/ ~refused /\ Stores(k, e) /\ SaysOf(t, <<Simple>>, None, 1)
         \/ ~refused /\ ~(Live(k) /\ InPlace(k, e)) /\ store' = Looked(k) /\ Says(t, <<Error>>)
  /\ UNCHANGED <<up, now, dialect>>

(* Expiry: each of these reads the clock, or the deadline, before the call. *)

Timed(t) ==
  /\ At(t, "run", {"EXPIRE", "PEXPIRE", "EXPIREAT", "PEXPIREAT", "TTL", "PTTL"}) /\ Fits(t)
  /\ IF Name(job[t].cmd) \notin {"TTL", "PTTL"} /\ integer(t, 2) = None
     THEN Says(t, <<Error>>)
     ELSE job' = [job EXCEPT ![t].pc = "timed", ![t].read = now]
  /\ UNCHANGED <<up, now, store, dialect>>

\* A moment that is not after the clock read is a removal, expired or not.
Expire(t) ==
  LET c == job[t].cmd  k == Key(t)  read == job[t].read
      at == moment(read, integer(t, 2), IF Millis(Name(c)) THEN SCALE ELSE 1, Absolute(Name(c)))
  IN  /\ At(t, "timed", {"EXPIRE", "PEXPIRE", "EXPIREAT", "PEXPIREAT"})
      /\ \/ /\ at <= read
            /\ LET went == IF store[k] # None THEN 1 ELSE 0 IN SaysOf(t, <<Integer(went)>>, None, went)
            /\ store' = [store EXCEPT ![k] = None]
         \/ at > read /\ ~Live(k) /\ store' = Looked(k) /\ Says(t, <<Integer(0)>>)
         \/ /\ at > read /\ Live(k)
            /\ store' = [store EXCEPT ![k].expiry = stamp(at)]
            /\ job' = [job EXCEPT ![t].pc = "done", ![t].out = <<Integer(1)>>, ![t].did = 1,
                                  ![t].expiry = stamp(at)]
         \/ at > read /\ Live(k) /\ store[k].expiry = None /\ UNCHANGED store /\ Says(t, <<Error>>)
  /\ UNCHANGED <<up, now, dialect>>

\* (mutant) the difference is not cut off at nought
Left_signed(deadline, read) == deadline - read

Left(deadline, read) == IF deadline > read THEN deadline - read ELSE 0

Ttl(t) ==
  LET k == Key(t)
      saw == IF ~Live(k) THEN "absent" ELSE IF store[k].expiry = None THEN "never" ELSE "timed"
      left == CASE saw = "absent" -> -2
                [] saw = "never" -> -1
                [] saw = "timed" -> Left(store[k].expiry, job[t].read)
                                      * (IF Name(job[t].cmd) = "PTTL" THEN SCALE ELSE 1)
  IN  /\ At(t, "timed", {"TTL", "PTTL"})
      /\ SaysOf(t, <<Integer(left)>>, saw, 0)
      /\ store' = Looked(k)
  /\ UNCHANGED <<up, now, dialect>>

\* PERSIST looks, and then clears.
Persist(t) ==
  LET k == Key(t)
  IN  \/ /\ At(t, "run", {"PERSIST"}) /\ Fits(t)
         /\ job' = [job EXCEPT ![t].pc = "persist",
                      ![t].hits = IF Live(k) /\ store[k].expiry # None THEN 1 ELSE 0]
         /\ store' = Looked(k)
         /\ UNCHANGED <<up, now, dialect>>
      \/ /\ At(t, "persist", {"PERSIST"})
         /\ \/ /\ store' = IF Live(k) THEN [store EXCEPT ![k].expiry = None] ELSE Looked(k)
               /\ Says(t, <<Integer(job[t].hits)>>)
            \/ /\ Live(k) /\ store[k].expiry # None
               /\ UNCHANGED store /\ Says(t, <<Error>>)
         /\ UNCHANGED <<up, now, dialect>>

\* Map::len: each shard's published count in turn, no lock held between them.
DbSize(t) ==
  LET n == job[t].n
  IN  /\ At(t, "run", {"DBSIZE"}) /\ n < Len(Shards)
      /\ job' = [job EXCEPT ![t].n = n + 1,
                   ![t].hits = @ + Cardinality({k \in Shards[n + 1] : store[k] # None})]
  /\ UNCHANGED <<up, now, store, dialect>>

\* Map::clear: each shard in turn, under its own lock.
FlushAll(t) ==
  LET n == job[t].n
  IN  /\ At(t, "run", {"FLUSHALL", "FLUSHDB"}) /\ n < Len(Shards)
      /\ job' = [job EXCEPT ![t].n = n + 1]
      /\ store' = [k \in Keys |-> IF k \in Shards[n + 1] THEN None ELSE store[k]]
  /\ UNCHANGED <<up, now, dialect>>

\* Past the last shard.
ShardsEnd(t) ==
  /\ At(t, "run", {"DBSIZE", "FLUSHALL", "FLUSHDB"}) /\ job[t].n >= Len(Shards)
  /\ Says(t, <<IF Name(job[t].cmd) = "DBSIZE" THEN Integer(job[t].hits) ELSE Simple>>)
  /\ UNCHANGED <<up, now, store, dialect>>

-----------------------------------------------------------------------------
(* The connection and the server. *)

Talk(t) ==
  /\ At(t, "run", {"PING", "ECHO", "SELECT", "QUIT"}) /\ Fits(t)
  /\ LET c == job[t].cmd
     IN  Says(t, CASE Name(c) = "PING" -> <<IF Len(c) = 1 THEN Simple ELSE Bulk>>
                   [] Name(c) = "ECHO" -> <<Bulk>>
                   [] Name(c) = "SELECT" -> <<IF integer(t, 1) = 0 THEN Simple ELSE Error>>
                   [] Name(c) = "QUIT" -> <<Simple>>)
  /\ UNCHANGED <<up, now, store, dialect>>

\* Seven pairs: five of two bulks, the protocol and the id with a number, and
\* an empty array.
greeting(d) ==
  <<MapOf(d, 7), Bulk, Bulk, Bulk, Bulk, Bulk, Integer(d), Bulk, Integer(0), Bulk, Bulk, Bulk, Bulk,
    Bulk, Array(0)>>

\* (mutant) the encoder in hand is used
hello_in_hand(t, d) == greeting(dialect[t])

hello(t, d) == greeting(d)

Hello(t) ==
  /\ At(t, "run", {"HELLO"})
  /\ LET d == IF Len(job[t].cmd) = 1 THEN dialect[t] ELSE integer(t, 1)
     IN  \/ d \notin {2, 3} /\ Says(t, <<Error>>) /\ UNCHANGED dialect
         \/ d \in {2, 3} /\ dialect' = [dialect EXCEPT ![t] = d] /\ Says(t, hello(t, d))
  /\ UNCHANGED <<up, now, store>>

Reset(t) ==
  /\ At(t, "run", {"RESET"})
  /\ dialect' = [dialect EXCEPT ![t] = 2]
  /\ Says(t, <<Simple>>)
  /\ UNCHANGED <<up, now, store>>

Settings == <<"maxmemory", "maxmemory-policy", "save", "appendonly">>

\* (mutant) the header counts the names asked for
Heads_asked(c, found) == Len(c) - 2

Heads(c, found) == found

\* CONFIG GET: every setting, as often as a name asks for it.
Config(t) ==
  LET c == job[t].cmd
      found == Cardinality({p \in (3 .. Len(c)) \X DOMAIN Settings :
                              c[p[1]] \in {"*", Settings[p[2]]}})
  IN  <<MapOf(dialect[t], Heads(c, found))>> \o [i \in 1 .. 2 * found |-> Bulk]

Ask(t) ==
  /\ At(t, "run", {"INFO", "COMMAND", "CONFIG", "CLIENT"})
  /\ LET c == job[t].cmd
     IN  Says(t, CASE Name(c) = "INFO" -> <<Bulk>>
                   [] Name(c) = "COMMAND" /\ arg(c, 1) = "COUNT" -> <<Integer(0)>>
                   [] Name(c) = "COMMAND" /\ arg(c, 1) = "DOCS" -> <<MapOf(dialect[t], 0)>>
                   [] Name(c) = "CONFIG" /\ arg(c, 1) = "GET" -> Config(t)
                   [] Name(c) = "CLIENT" /\ arg(c, 1) = "GETNAME" -> <<Null(dialect[t])>>
                   [] Name(c) = "CLIENT" /\ arg(c, 1) = "ID" -> <<Integer(0)>>
                   [] Name(c) = "COMMAND" /\ arg(c, 1) \notin {"COUNT", "DOCS"} -> <<Array(0)>>
                   [] OTHER -> <<Simple>>)
  /\ UNCHANGED <<up, now, store, dialect>>

Shutdown(t) ==
  /\ At(t, "run", {"SHUTDOWN"})
  /\ up' = FALSE
  /\ UNCHANGED <<now, store, dialect, job>>

\* The connection has the reply; after QUIT it goes, and the next client of
\* this thread speaks RESP2 again.
Return(t) ==
  /\ up /\ job[t].pc = "done"
  /\ job' = [job EXCEPT ![t] = Idle]
  /\ dialect' = IF Name(job[t].cmd) = "QUIT" THEN [dialect EXCEPT ![t] = 2] ELSE dialect
  /\ UNCHANGED <<up, now, store>>

strings(t) ==
  \/ Get(t) \/ StrLen(t) \/ Count(t)
  \/ SetPlain(t) \/ SetOptions(t) \/ SetOption(t) \/ TimedSet(t) \/ SetWhen(t)

keyspace(t) ==
  \/ EachBegins(t) \/ EachKey(t) \/ EachPair(t) \/ EachEnds(t)
  \/ Timed(t) \/ Expire(t) \/ Ttl(t) \/ Persist(t)
  \/ DbSize(t) \/ FlushAll(t) \/ ShardsEnd(t)

Run(t) ==
  \/ Refuse(t) \/ strings(t) \/ keyspace(t)
  \/ Talk(t) \/ Hello(t) \/ Reset(t) \/ Ask(t) \/ Shutdown(t)

Next ==
  \/ Tick \/ Sweep
  \/ \E t \in Threads : Run(t) \/ Return(t) \/ \E c \in CommandsOf[t] : Begin(t, c)

Spec == Init /\ [][Next]_vars

-----------------------------------------------------------------------------
(* Properties. *)

Done(t) == job[t].pc = "done"
First(t) == IF job[t].out = <<>> THEN None ELSE job[t].out[1]

\* How the frames begin that only the other dialect has.
Foreign(d) == IF d = 2 THEN {"%", "_"} ELSE {"$-1"}

\* The clock, the entries' deadlines and a command's cursors are in range: no
\* option, however large its number, puts a deadline past the clock's last second.
TypeOK ==
  /\ up \in BOOLEAN /\ now \in 0 .. CLOCK_MAX /\ dialect \in [Threads -> {2, 3}]
  /\ \A k \in Keys : store[k] # None => store[k].expiry \in 0 .. CLOCK_MAX \cup {None}
  /\ \A t \in Threads : /\ job[t].n \in 0 .. MAX_ARGS + 1 /\ job[t].read \in 0 .. CLOCK_MAX
                        /\ job[t].when \in {"always", "absent", "present"}

\* How many frames a header announces.
Announces(frame) ==
  CASE frame[1] = "*" -> frame[2] [] frame[1] = "%" -> 2 * frame[2] [] OTHER -> 0

\* How many frames a client that reads one reply still waits for at its end, or
\* less than nought when it was over before.
Owed(out) ==
  LET left[i \in 0 .. Len(out)] ==
        IF i = 0 THEN 1
        ELSE IF left[i - 1] <= 0 THEN -1 ELSE left[i - 1] - 1 + Announces(out[i])
  IN  left[Len(out)]

\* A command is answered with exactly one reply, nested headers and all: however
\* many keys it names, wherever among them a write is refused, a client that
\* counts frames is never left one short or one over.
Framed == \A t \in Threads : Done(t) => Owed(job[t].out) = 0

\* Nothing is spelt in a dialect the client has not agreed to, the greeting that
\* agrees to one included.
InDialect ==
  \A t \in Threads :
    Done(t) => \A i \in DOMAIN job[t].out : job[t].out[i][1] \notin Foreign(dialect[t])

\* The reply says what happened to the map: OK that everything was written, null
\* that nothing was, an error that not everything was, a number how many
\* entries went or changed.
ToldWhatHappened ==
  \A t \in Threads :
    LET c == job[t].cmd
        asked == IF Name(c) = "MSET" THEN Len(c) \div 2 ELSE 1
    IN  /\ Done(t) /\ Name(c) \in {"SET", "SETEX", "PSETEX", "MSET"} =>
             CASE First(t) = Simple -> job[t].did = asked
               [] First(t) = Error -> job[t].did = 0 \/ job[t].did < asked
               [] OTHER -> job[t].did = 0
        /\ Done(t) /\ Name(c) \in {"DEL", "UNLINK", "EXPIRE", "PEXPIRE", "EXPIREAT", "PEXPIREAT"} =>
             job[t].did = IF First(t)[1] = ":" THEN First(t)[2] ELSE 0

\* A key that is gone, one that has no deadline and one that has are told apart,
\* though the clock the answer is counted from was read before the deadline and
\* may have stepped back since.
AbsencesApart ==
  \A t \in Threads :
    Done(t) /\ Name(job[t].cmd) \in {"TTL", "PTTL"} /\ First(t) # Error =>
      /\ First(t)[2] = -2 <=> job[t].saw = "absent"
      /\ First(t)[2] = -1 <=> job[t].saw = "never"
      /\ First(t)[2] >= 0 <=> job[t].saw = "timed"

\* A number a counter answers is the one it held plus what was asked, in the
\* integers: at either end of the range it is refused, not wrapped.
CountsExactly ==
  \A t \in Threads :
    LET c == job[t].cmd
        asked == CASE Name(c) = "INCR" -> 1 [] Name(c) = "DECR" -> -1
                   [] Name(c) = "INCRBY" -> integer(t, 2) [] OTHER -> -integer(t, 2)
    IN  Done(t) /\ Name(c) \in {"INCR", "DECR", "INCRBY", "DECRBY"} /\ job[t].did = 1 =>
          First(t)[2] = job[t].saw + asked

\* A key given a positive time to live has it, in whole seconds rounded up from
\* the clock the command read, or lives to the end of the clock: "one after the
\* end of the map's clock is the end of it".
LivesAsAsked ==
  \A t \in Threads :
    LET c == job[t].cmd
        set == Name(c) = "SET"
        scale == IF Millis(Name(c)) \/ (set /\ arg(c, 3) = "PX") THEN SCALE ELSE 1
        value == integer(t, IF set THEN 4 ELSE 2)
        lives == job[t].expiry - job[t].read
    IN  /\ Done(t) /\ First(t) # Error
        /\ \/ Name(c) \in {"SETEX", "PSETEX"}
           \/ set /\ Len(c) = 5 /\ arg(c, 3) \in {"EX", "PX"}
           \/ Name(c) \in {"EXPIRE", "PEXPIRE"} /\ value > 0 /\ job[t].did = 1
        => \/ /\ job[t].expiry # None /\ lives * scale >= value /\ (lives - 1) * scale < value
           \/ job[t].expiry = CLOCK_MAX /\ value > lives * scale
=============================================================================
