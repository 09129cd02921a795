# rugo in TLA+

A verification project for rugo, a cache server that speaks RESP: TLA+ modules
for its table, allocator, sharded map, commands, wire protocol, connections and
event loops, the TLC runs that check them on small instances, and TLAPS proofs
of every safety property those runs check, for every value of the constants.

`PROJECT.json` names, for every definition that models code, the lines it
models; each run and its properties; a mutant of the code for every property
that passes; and the hazards the properties are for. Paths below are relative to
`src/crates/`.

## 1. The system

A serving thread per core runs an event loop (a poller, or an io_uring ring on
Linux) over its own connections. Bytes read go into the connection's buffer;
whole commands are parsed and dispatched to the map, which all threads share;
replies pile up in a second buffer and are written as the socket takes them. The
map is some thousands of shards, each a Swiss table and a slab arena behind a
spin lock. Nothing is persisted.

| component | state | operations | what makes it correct |
|---|---|---|---|
| shard table (`rugo-map/src/table.rs`, `group.rs`) | control bytes, slots, `len`, `tombstones`, `timed`, `growth_left` | get, set, remove, expire, sweep, clear, evict, and the rebuilds under them | an entry stored is found at one slot; counters count; probes end; a rebuild loses nothing and makes room; eviction spares the write it serves |
| arena (`rugo-arena/src/lib.rs`) | segments, cut position, free lists threaded through blocks, oversized rows, totals | alloc, free | live blocks are disjoint; no word leaks or is listed twice; totals are exact |
| segments (`rugo-arena/src/segment.rs`) | mappings | map, unmap | a segment granted has the size asked for |
| map (`rugo-map/src/lib.rs`) | shards, published counters, sweep cursor | get, set, conditional and arithmetic writes, expire, remove, clear, sweep, len | read and write are one under the lock; what is published is true when the lock is free |
| lock, clock (`lock.rs`, `clock.rs`) | one word each | lock, unlock; now, tick | one holder; nobody waits for a lock holding one |
| entry encoding (`entry.rs`) | bytes of an entry | write, read, size | what is written reads back, and is as long as everybody thinks |
| connection (`rugo-server/src/conn.rs`) | read buffer and cursor, reply buffer and cursor, `closing` | fill, make_room, execute, flush, turn, step | replies whole and in order; buffers bounded; every whole command answered; the last reply written before a close |
| readiness loop (`rugo-server/src/lib.rs`, `rugo-net/src/lib.rs`) | slots, interests, a batch of events | accept, serve, upkeep | what is owed is waited for; an event reaches the connection it is about; nobody waits at a listener for ever |
| completion loop (`rugo-server/src/uring.rs`, `rugo-net/src/uring.rs`) | operations in flight, two queues | submit, reap, accept, carried | a completion is counted for what it was; each connection has one operation in flight, and none when it is gone |
| dispatch (`dispatch.rs`) | the client's dialect | one arm per command | one reply of the announced shape; it says what happened; numbers and deadlines do not wrap |
| protocol (`rugo-resp/src/lib.rs`) | a reused argument list | parse, peek, encode | a stream means the same however it is split; the look-ahead reads what the parser reads |
| hash, configuration, statistics, tooling | - | - | - |

How they interact: dispatch calls the map with no lock held; a map call reads the
clock, takes one shard's lock, works on the table (which calls the arena),
publishes the shard's counters and unlocks. `len` and the memory report read the
published counters without a lock. The event loop drives a connection through
`turn` (poller) or `step` (ring); the connection calls dispatch from `execute`.

What is hard: probe sequences against tombstones and rebuilds; free lists that
live in the freed memory; threads meeting at the locks and beside them (clock,
counters, commands made of several calls); partial reads and writes against
cursors, ceilings and interest; slots and queue entries used again while something
still names them; refusals half way through a call; the ends of i64, of the clock
and of a varint. `hazards` in `PROJECT.json` lists them at their lines.

## 2. Modules

| module | models | runs |
|---|---|---|
| `Cache` | abstract: what a shard promises whoever holds its lock | refined in `MCShard` |
| `Shard` | the Swiss table, and eviction, sweep and clear as the map drives them | `MCShard` |
| `ShardProofs` | theorems about `Shard`; `Shard` implements `Cache` | - |
| `Arena` | the slab allocator | `MCArena`, `MCArenaTail` |
| `ArenaProofs` | theorems about `Arena` | - |
| `Map` | threads, shard locks, publication, clock | `MCMap`, `MCMapPersist` |
| `MapProofs` | theorems about `Map` | - |
| `Dispatch` | every command, the frames of its reply, the expiry arithmetic | `MCDispatch`, `MCDispatchEnd` |
| `DispatchProofs` | theorems about `Dispatch` | - |
| `Conn` | one client and its connection on either loop | `MCConn`, `MCConnStall`, `MCConnHalf` |
| `ConnProofs` | theorems about `Conn` | - |
| `Ring` | the two queues of an io_uring | extended by `Worker` |
| `Worker` | a thread: its loop, slots, events and completions | `MCWorker` |
| `WorkerProofs` | theorems about `Ring` and `Worker` | - |
| `Resp` | parsing, the look-ahead, and the bytes of a request | `MCCodec` |
| `Entry` | the bytes of an entry, and decimal text | `MCCodec` |
| `Group` | comparing a group of control bytes, on three builds | `MCCodec` |
| `CodecProofs` | theorems about `Resp` | - |
| `EncodingProofs` | theorems about `Entry` and `Group` | - |

The layers compose by what they promise each other.

- `Shard` treats the arena as a refusal that may or may not come (`Refuse`), and
  `Arena`'s owners are the entries of the table. A group's masks are what
  `HasMark` says they find; `Group` computes them.
- `Map` treats a table as one entry per key, which is what `Cache` says and
  `Shard` refines. An entry is a record; `Entry` is its bytes.
- `Dispatch` takes a map call as one step, which `Map`'s `ChangedAsAsked` justifies,
  and lets anything another thread can do come between two calls.
- `Conn` treats a command as its length, its reply's length and whether it ends the
  connection; `Resp` says what is a whole command, `Dispatch` what is one reply.
- `Worker` treats a connection's turn or step as ending in one of the ways `Conn`'s
  can. It EXTENDS `Ring`, and its ring actions are made of `Ring`'s.

### Shard

`ctrl`, `slots`, `len`, `tombstones`, `timed` and `growth_left` are the fields of
`Table`; `capacity` is `slots.len()`. A key's hash is an arbitrary first group
(`GroupHash`) and tag (`Tag`), so every collision a hash can produce is some value
of the constants. `find` is the set of slots at which the probe loop would stop
with a match: that it has exactly one element is the property, not the
definition. Calls that end in one pass are one action (`Get`, `Remove`,
`Expire`, `Clear`). A `set` is `Set` (as far as `reserve`), then `RehashSlot` and
`RehashEnds` if it has to rebuild, then `Refuse`, `Replace` or `Insert`, then
`Fit`, `Evict` and `EvictEnds`, which may shrink and so rebuild again. A sweep is
`Sweep`, `SweepSlot`, `SweepEnds`, and begins at a cursor saved in a table of any size
(`Saved`), which `Start` brings into the present one. The lock is held throughout, so no other call
comes in between; the loops are stepped because what holds half way is what
makes the end right. Random draws of `evict_one` are any two slots.

### Cache

Five variables and no table: `store`, the write under way, how many it has
evicted, the sweep under way, the last reply. It says the only reasons for which
an entry may change. `Shard` maps `store` to `Lookup`, which goes through the
probe, so an entry hidden by an erase is a missing entry to the abstraction.

### Arena

References keep their bit layout (a flag, a segment, an offset), with small
widths. Memory is kept by the word, a word being the four bytes of a link, and
`word[w]` holds either a link or the owner who wrote there, so that a link
written over a live block shows. `TakeFree`, `Cut`, `GrowAndCut` and `Refused` are
the four ways through `alloc` for a small block and `AllocLarge` the one for an oversized
block. `Free` returns at once for the reference NONE, and is `FreeSmall` or `FreeLarge`
for any other. `Refused` does what the code does before `grow` fails:
the tail has already been listed. The constant `REFUSED_ROOMS` says how many
words may be left uncut when a segment is refused; with `{0}` the tail case is
kept out and everything holds, with `{0, 1}` it is let in (see 6).

### Map

A thread's call is `Begin` (clock read, shard chosen), `Lock`, `Look`, `Write` or
`Full` or `Drop`, `Publish`, `Unlock`. The read and the write of a conditional or
arithmetic write are two steps, so that only the lock keeps them together.
`persist` is dispatch's PERSIST: a look under one lock and then an `unexpire`
under another. `Tick` is split from `Begin` because `Clock::tick` asks the system
and then stores. `clear` goes from shard to shard in one call, and `Unlock` lets each
lock go before the following one is asked for.

### Dispatch

A command is its list of words, a reply the list of frames the `Encoder` writes:
a header with its count, or a leaf. `job[t]` is the command a thread has in hand,
how far `run` has come with it, and the clock it read. Each arm is one action, or
as many as it makes calls on the map: `EachKey` and `EachPair` go key by key
(MGET, DEL, EXISTS, MSET), `SetOption` goes through SET's options, `Timed` reads
the clock before EXPIRE or TTL makes its call, `Persist` looks and then clears.
`Tick`, `Sweep` and the other threads come in between; a store may evict any other
key (`Stores`), and is refused unless it goes over the old bytes (`InPlace`). `DbSize` and
`FlushAll` go shard by shard, as `Map::len` and `Map::clear` do, so another thread may
come in between two shards and the count need not be that of any one moment.
Integers have the width of `INT_MAX`, and `moment` wraps as a release build does.
`saw`, `did` and `hits` record what the calls met and changed.

### Ring and Worker

`Ring` keeps both queues as arrays with positions that wrap at `WRAP`, the thread's
own tail beside the published one, and the operations the kernel holds. The kernel
takes all that is offered or part of it; a completion that finds its queue full
stays in the kernel.

`Worker` begins with `Choose`, the decision between ring and poller made from the
option, the build and what the kernel gives. On a poller a turn of the loop is
`Wait` (a batch copied out), then `Take`, `Pass` or `Turn` for each event, then
`Upkeep`. epoll gives one event a connection, kqueue one a filter. On the ring
it is `Enter`, `Reap`, then `Took` with `Seat`, or `Carried`, for each completion,
and each submission they make is `Submits`, or `Flush` when the queue is full.
`Fail` is any call the loop cannot go on without; the ring goes first, then what
outlives it (`Close`). Clients connect, leave and are taken by other threads at
any moment.

### Resp, Entry, Group

The codecs, with small alphabets and widths. `Resp` delivers a client's bytes in any
pieces and runs `execute` after each: `ask_ahead`, a command a step, and then `Parse`
into one argument list that is reused. `Goes` is the condition of `execute`'s loop: a last
reply (`Quits`) or a reply buffer at its ceiling (`full`, which any reply may bring about
and any write end) stops it with commands looked at and not run. Clients that keep to the protocol send
commands whose arguments look like framing, others send noise. `Entry` writes an entry and rewrites, retimes and increments it by
its bytes alone: a varint's byte spells one of `PAYLOAD` digits, so lengths cross a
varint's edge and that of the flags byte with short strings. `Group` compares every
group of control bytes with every byte and walks the mask as `BitMask::next` does,
for a bit, four bits or a byte a lane. The word at a time build is arithmetic on the
number the lanes make, with the borrows it really has.

What these modules compute is written as recursive functions of numbers (a varint, the
word of a group, exclusive or, the framing of a stream), not with folds or bitwise
operators, so that it can be proved about as well as evaluated.

### Conn

Bytes are numbered from the client's side: request byte i is the integer i, and
so is byte i of the replies the script should get, so a byte lost, repeated or
moved anywhere shows in `received`. A command of the script is where its bytes end
(`ends`) and where the reply to it ends (`answered`), counted from the first byte, so
no length has to be summed. `buf` is the filled part of the read buffer
(`filled` is its length), `at`, `out`, `sent`, `closing` are the code's fields. The
poller's `Wake`, `Gone`, `Hangup`, `fill` and `flush` are `serve_poller` and
`Conn::turn`; the ring's `Step...`, `Complete` and `Carried` are `Conn::step`,
the kernel, and `Worker::carried`; `Run` and `RunEnds` are `execute`, which both
share. The client and the kernel (`Send`, `Receive`, `Shut`, `Vanish`, `Complete`)
are the environment: any split of the bytes, a client that stops at any byte,
shuts its half or disappears.

## 3. Runs

| run | expects | shows |
|---|---|---|
| `MCShard` | pass | counters, probes, lookups, room after a rebuild; eviction spares its write; `Shard` implements `Cache`; every call returns |
| `MCArena` | pass | blocks disjoint, every word once, lists end, contents kept, totals exact |
| `MCArenaTail` | violation | finding 1 |
| `MCMap` | pass | a key changes only as one call makes it of what is there, published counts true when free, nobody asks for a lock holding one |
| `MCMapPersist` | violation | finding 2 |
| `MCConn` | pass | order, bounds, what is owed is drained; on the ring also the last reply and every whole command answered |
| `MCConnStall` | violation | finding 3 |
| `MCConnHalf` | violation | finding 4 |
| `MCDispatch` | pass | one whole reply, in the client's dialect, that says what happened; counters and deadlines exact |
| `MCDispatchEnd` | violation | finding 5 |
| `MCWorker` | pass | slots, one operation in flight, events and their connections, nobody waits at a listener for ever |
| `MCCodec` | pass | splits, look-ahead, entries, decimal text, lanes |

Bounds, and why they are enough to meet the interesting cases:

- `MCShard`: three keys that can start in one group of two lanes, two of which share
  a tag; capacities 2, 4 and 8; two values of different size, one deadline; a
  budget below what three entries cost and two evictions a write. Groups fill and
  overflow into the next, tombstones are made and reused, rebuilds happen at the
  same size and at the double, shrinks at half, and both ends of the eviction
  loop (fits, nothing left) happen. Three keys at load 3/4 need no more than 8.
- `MCArena`: three owners; blocks of one and two words and oversized ones; segments of
  four, four and eight words, offsets of three bits. The first two are each filled, or
  left with a tail, and the third is begun; a fourth would need more owners. The row
  whose reference is NONE is out of its reach, and is in the proof of `Totals`. Owners are
  symmetric: no action tells them apart.
- `MCMap`: two threads (every property is about two), two shards, three keys with
  two in one shard so that a sweep, a clear and an eviction touch another key,
  one tick of the clock, the largest integer 1 so that an increment overflows.
- `MCConn*`: scripts with replies past the ceiling, one reply larger than the
  ceiling, an empty command, QUIT with a command behind it, a framing error, a
  request that fills the largest buffer and one that does not fit. The read buffer
  starts at 6 bytes and may grow to 12; the kernel holds 3 or 4 bytes each way, less
  than the longest reply and more than the shortest.
- `MCDispatch`: one client that says some sixty commands, every arm and every kind of
  refusal among them, and a rival that overwrites a key or empties
  the map; integers of three bits, a clock of three seconds, two milliseconds a
  second, so that both ends of both and every rounding are met. Two keys are what
  a command of several keys needs, in two shards so that something comes between them. The largest relative deadlines are in
  `MCDispatchEnd` alone, where they wrap.
- `MCWorker`: two clients, so that a slot is emptied and filled again within a batch;
  one listener; queues of two entries and positions modulo 4, so that both fill
  and wrap: an accept, a tick and two connections are twice what fits.
- `MCCodec`: pipelines of two to four commands whose arguments hold line ends,
  asterisks and a length of two digits, one with a QUIT before its last command, a reply
  buffer that may be full after any command, every string of up to three bytes of an
  alphabet of eight, and every string one byte away from a right one; keys up to
  one and values up to one byte past the edge of their length's encoding; every
  group of three lanes with three-bit control bytes.

`CHECK_DEADLOCK FALSE` is given where the system may stop: in `Conn` a client may stop
and a connection close, in `Dispatch` SHUTDOWN ends the process, in `Worker` a call
that fails ends the thread, and in `MCCodec` the bytes or the lanes come to an end.

### Fairness

- `Shard`: `WF` on the steps of the loops. They are straight code under a lock
  held by a running thread.
- `Conn`: the serving thread runs, the kernel finishes what it can, and the client
  reads what comes back. Sending, shutting and vanishing are not fair.
- `Worker`: `WF` on the thread's steps; `WF` on the tick, a timer; `SF` on accepts,
  since the completion queue may be full again and again and the kernel posts
  what has waited in order. Reads, writes and clients are not fair.
- `Map`, `Dispatch` and the codecs state none. The spin lock has no queue, so a
  thread may starve, and no property says it does not.

## 4. What is proved

Every theorem holds for every value of the constants that satisfies the named
assumptions of its module, and TLC evaluates those assumptions on every run. A
component's `Invariance` is its inductive invariant, `Spec => []IInv`; the others
follow from it. Every property was checked by TLC on the component's run before it was
proved, and so was `IInv` where TLC can evaluate it.

| module | theorem | states |
|---|---|---|
| `ShardProofs` | `TypeCorrect` | `Spec => []TypeOK` |
| | `CountersExact` | `Spec => []Accounted` |
| | `EntriesFound` | `Spec => []EveryEntryFound` |
| | `RoomMade` | `Spec => []ReserveMakesRoom` |
| | `SpareKept` | `Spec => []SpareHeld` |
| | `ProbesEnd` | `Spec => []ProbeEnds` |
| | `Refinement` | `Spec => ImplementsCache` |
| `ArenaProofs` | `TypeCorrect` | `Spec => []TypeOK` |
| | `Disjoint` | `Spec => []LiveDisjoint` |
| | `Kept` | `Spec => []ReadsBack` |
| | `WordsOnce` | `Spec => []EveryWordOnce` |
| | `ListsFinite` | `Spec => []ListsEnd` |
| | `Totals` | `Spec => []Accounted` |
| `MapProofs` | `TypeCorrect` | `Spec => []TypeOK` |
| | `PublishedRight` | `Spec => []PublishedWhenFree` |
| | `NoHoldAndWait` | `Spec => []AsksEmptyHanded` |
| | `AsAsked` | `Spec => ChangedAsAsked` |
| `ConnProofs` | `TypeCorrect` | `Spec => []TypeOK` |
| | `InOrder` | `Spec => []RepliesInOrder` |
| | `Bounded` | `Spec => []ReplyBounded` |
| | `LastWritten` | `Spec => []LastReplyWritten` |
| `DispatchProofs` | `TypeCorrect` | `Spec => []TypeOK` |
| | `OneReply` | `Spec => []Framed` |
| | `Dialects` | `Spec => []InDialect` |
| | `Told` | `Spec => []ToldWhatHappened` |
| | `Apart` | `Spec => []AbsencesApart` |
| | `Exactly` | `Spec => []CountsExactly` |
| | `TimesKept` | `Spec => []LivesAsAsked`, given `NoWrap` |
| `WorkerProofs` | `TypeCorrect` | `Spec => []TypeOK` |
| | `Single` | `Spec => []OneInFlight` |
| | `Meant` | `Spec => []EventMine` |
| `CodecProofs` | `Reading` | `RespSpec => []Read`, the invariant |
| | `Uncut` | `RespSpec => []SplitFree` |
| | `Agreement` | `RespSpec => []PeekAgrees` |
| `EncodingProofs` | `Kept` | `EntrySpec => []Written`, the invariant |
| | `ReadsBack` | `EntrySpec => []EntryReads` |
| | `Spelling` | `EntrySpec => []OneSpelling` |
| | `WalkKept` | `GroupSpec => []Walked`, the invariant |
| | `Lanes` | `GroupSpec => []LanesOnce` |

Two hypotheses are not assumptions of a module, because the code does not give them:

- all of `ArenaProofs` supposes `WholeRefusals`: no step refuses a segment
  while the last one has room left uncut. Without it `Disjoint` is false, which is
  finding 1 and run `MCArenaTail`, so it speaks of every order of allocations, frees and
  refusals but those;
- `TimesKept` supposes `NoWrap`: no client asks for so many seconds that adding
  them to the clock passes `INT_MAX`. Without it the theorem is false, which is finding
  5 and run `MCDispatchEnd`. The commands of `MCDispatch` satisfy it.

### The table

Assumptions: the control marks differ from each other and from every tag (the tag
has its top bit clear, the marks have it set); `None` is no entry, key or time;
capacities are positive multiples of the group width, at least `MIN_CAPACITY`;
the load factor is below one, at least a half, and lets the smallest table hold
an entry; a table has a power of two of groups, which `rehash` asserts and which is
stated as having no odd divisor but 1.

`EveryEntryFound` is not inductive: an erase keeps it only because of what the
control bytes in between say, and a rebuild only because of what the arrays being
filled already hold. `IInv` has three parts:

- `TableInv`: slots and control bytes agree; no group before a stored key's slot on
  its probe sequence has an EMPTY lane (`Reachable`); no key twice (`Distinct`); the
  counters are cardinalities and add up to the load limit;
- `ControlInv`: what each loop relies on: while a set is writing an absent key there
  is growth left; while it evicts, the spare slot holds its entry;
- `RebuildInv`: the arrays a rebuild fills hold what has been read of the old ones,
  no more, no fewer, with no tombstone, and will have room for what asked.

The lemmas go bottom up: arithmetic of the load factor and of groups; what erase,
placing and rewriting do to a pair of arrays (`EraseArrays`, `PlaceArrays`,
`RewriteArrays`, shared by the installed table and the one being built); the same
with the counters; then one lemma per action, and `NextInv`. `ProbesEnd` counts:
fewer than `capacity` slots are not EMPTY, so some slot is, its group has an EMPTY
lane, and the walk comes to it. That the walk does (`WalkReaches`) was an assumption
once and is a lemma now: were two of its first n stops the same, n would divide half
the product of two numbers below 2n one of which is odd, and a power of two divides
the other factor then (`OddCancels`, by the least counterexample); so the n stops are
n groups.

`Refinement` is step simulation from `IInv`. The store of `Cache` is what `find` finds,
so each step needs to know what a lookup finds before and after it: in arrays that
are `Reachable` and `Distinct`, a key's lookup is its entry if some slot holds one and
nothing otherwise. Reserving, rebuilding and shrinking are stutters, because the
arrays installed at the end hold what the old ones held.

### The arena

The free lists live in the freed memory, so there is nothing in the state to say
which blocks are free. The invariant says there are stacks, one a class, that the
memory spells: each block's first word links to the one below and the last to NONE
(`Linked`); no block of a stack meets another, a live block or the room not yet cut
(`Separate`); every word is in one of them (`Covered`); and `dead` counts them
(`Tallied`). `Ground` is the geometry (segments, cut position), `Lives` the live blocks
and what their words hold, `Rows` the oversized table and its own free rows. `TakeFree`
pops a stack, `Free` pushes, `Cut` moves the boundary, `GrowAndCut` also pushes the tail
as blocks. `Totals` is the sum: the words of disjoint blocks add up to the words of
their union, and each total is one of those unions. The last row of the oversized table
has NONE for its reference: `free` returns at once for it, so once given up it stays
charged, by no owner. `Accounted` counts it apart (`lost`), and `Owned`, which says that
every other row with a length is somebody's, leaves it out.

`Accounted` is stated by counting words and bytes and not by summing lengths, so that
it can be proved without induction over a sum.

### The map

`Holding` is mutual exclusion: a lock's holder is inside that shard and no other. From
it `Looked` (what a call saw is still so when it writes, and did not end it) and
`Exact` (the published count is right unless the holder has written and not
published) are kept by every step of every other thread. `Asking` and `Placed` say
which call a thread has and that it is at its key's shard. `AsAsked` is an action
property: whatever a step changes is compared with what the holder's call would make
of the entry there is, which is right because of `Looked`, and only the holder's step
changes anything because of `Holding`. Assumed: finite keys and shards, `None` no
entry and no verdict, `Nobody` no thread.

### The connection

Bytes are numbered, so the argument is one of places. `Requests`: what is sent, what
is in the kernel, what has landed and what is in the read buffer are consecutive
runs. `Replies`: so are what the client has read, what is in the kernel and what is in
the write buffer. `Between` ties the two: both end at the same command, or the
connection is closing. `Control` says what is in flight on either loop and `Buffers`
that cursors are inside. Assumed: a script's commands have increasing ends, and the
buffer sizes are positive with `SPARE <= CHUNK <= MAX_REQUEST`.

### The commands

What a property says of a finished command the invariant (`Answered`) says too; what
it needs is what the earlier steps leave: nothing written and nothing said before the
map has answered (`Early`, `Parsed`), and, key by key, only MGET's frames and only MSET's
pairs (`Halfway`). Other threads change the map between any two steps and none of
this mentions the map, which is why it stays. `InFrame` adds to the
invariant that every reply is one frame: a leaf, or a header and as many leaves as it
counts, of which an MGET half way has written the header and one for each key it has
looked up. `InTime` adds the deadline from the step
that computes it (`Timely`). Assumed: clients' commands are no longer than `MAX_ARGS`,
their numerals are in range and their keys are among `Keys` (`KeysAssumption`).

The proof found `ToldWhatHappened` false as first stated: it said that a refused MSET
has written fewer pairs than it was given, and a bare MSET, refused, is given none. The
statement was corrected; no run had sent that command.

### The thread and its ring

`IInv` is a conjunction:

- `Control`: where the thread is says what it has in hand, and on which loop;
- `Slotted`: empty slots are listed once each, and a connection sits in one slot;
- `Positions`: heads, tails and `pending` fit together modulo `WRAP`, which needs `WRAP` to
  be a multiple of both sizes (`RingAssumption`; it is a power of two, and so are
  they); after a flush there is room;
- `OnePlace`: a client waits, is in a posted accept, in one that was read, is
  arriving, or is seated, and is in one of these only; else one client could be
  seated twice;
- `Registered`: a poller watches those who are seated, at their slots' tokens;
- `Events`: on epoll each event of a batch names the slot of the connection it is
  about, and no two the same slot, so a slot emptied in a batch has no event left in
  it when it is filled again. On kqueue there are two to a slot, and this fails;
- `Flight`: the operations submitted, in the kernel, posted, read and about to be
  submitted are five disjoint sets without repetition, whose union is exactly one
  operation for the clock, for each listener and for each seated connection.

The lemmas are arithmetic of positions that wrap (`ModApart`: entries closer than the
queue is long are different), what each ring call does to the sets (`PutIs`, `SubmitIs`,
`PostIs`, `ReapIs`), what seating and vacating do to slots (`SeatedIs`, `VacatedIs`), one
lemma per action, and `Tallies`: the sizes of the five sets add up, which turns `Flight`
into `OneInFlight`'s counts. Assumed: finitely many clients, and `None` and the results
of other operations are no clients (`WorkerAssumption`).

### The protocol

`Read` is the invariant. For a client that keeps to the protocol, the commands parsed are
the first ones it sent, and the parser stands where the next one starts (`Piped`), or the
last of them was its QUIT (`Quitting`). The look-ahead has gone over a chain of whole
commands from where the parser stands, and the keys noted are exactly those of commands
run or in the chain (`Scanned`), so that the two take the same bytes for framing. A last
reply or a full reply buffer ends `execute` with the chain not empty. The next `execute`
looks at its commands again: `FoundGrows` is that what was found once is found again when
more has arrived, and `ReadStop` that the chain outlives the stop. So what `PeekAgrees`
says of a key is said of one the parser is past, and of all of them only when `execute`
ended for want of a whole command.

`SplitFree` is about any bytes, a client that keeps to no protocol included. It rests on
what `line`, `number`, `parse_array` and `parse_inline` do on a prefix and on the whole
(`ParseGrows`): an answer other than "more" does not change when bytes are added. It leaves
out an inline line longer than `MAX_INLINE`, which really is refused in pieces and taken
whole (see 6). For `PeekAgrees` the bytes of a request, whatever its arguments hold, are
read back as that request (`EncodeReads`), less than all of them makes the parser wait
(`EncodeWaits`), and `peek` accepts what `parse` accepts, at the same place (`PeekIs`).

Assumed: the limits are positive and no count or length a client may send exceeds
`WIRE_MAX` (`RespAssumption`); commands of a pipeline are within `MAX_ARGS` and `MAX_BULK`
(`BytesAssumption`); `Nothing` is no number, pipeline, line, span or look-ahead result
(`NothingAssumption`).

### The bytes of an entry

`Written` says that an entry's bytes are those of writing what it was last made to hold
in one go, however it came to hold it. A deadline put over the old one is where that
could fail, and `RetimeWrites` is that it does not: the word has the same place in both.
The rest is reading: a varint is read back whatever follows it, in at most five bytes and
as many as `varint_len` says; so is a word; so is the header within the bytes `peek`
shows; so is the entry. `decimal` takes the digits of a number for it (`DecimalReads`)
and takes no other text (`DecimalOnly`), which needs that the sum below nought never
passes the lowest integer before it should. Assumed: a length fits a varint of five bytes
(`LengthAssumption`), a word its bytes, and a number its twenty bytes of text
(`EntryAssumption`, `TextAssumption`).

### A group of control bytes

`Walked` says that the lanes visited and the lanes whose bits are left answer the probe
between them, and that the visited ones come first; a step takes the least bit's lane, and
all its bits. That the mask answers the probe to begin with is immediate on two builds.
On the third, `LaneOfLess` is that a lane of the difference is the lane less one, or less
two where the lanes below it borrow, modulo the lane. So a lane lit though it is not
nought is 1: the byte there and the byte looked for differ in their lowest bit alone. If
one of them were EMPTY or DELETED the other would be odd and from `TOP` on, which no
control byte is (`SwarFinds`). Assumed: a control byte has two bits or more
(`GroupAssumption`).

### Recursive definitions

The library's induction theorems take operators, which the provers cannot instantiate. The
proofs use that a nonempty set of numbers has a least one (`NatLessThanWellFounded` and
`WFMin` of the library), and from it two lemmas with sets in place of operators: `Induct`,
and `Recurs`, that a recursive function of numbers exists and does what its equation
says. Every recursive function of the models is brought under `Recurs` by a lemma of its
own (`XorIs`, `WordIs`, `LaneIs` and the like).

### Only model-checked

Liveness (`Returns`, `Answered`, `Drains`, `Welcomed`), which the prover does not do.

## 5. What is not modelled

- Segments and their mappings, beyond granted or refused; the ring's mappings, raw
  calls and the flags `Ring::new` tries in turn.
- The hash: every key has an arbitrary group and tag.
- Configuration, statistics, the text of INFO and of error replies.
- Prefetching (`warm`), which reads nothing; the look-ahead that feeds it is `Resp`'s.
  `scan` of `rugo-resp`, which nothing calls yet.
- Memory ordering of the lock (the crate checks it with loom) and of the ring's
  positions.
- The published count that `Map::len` reads of a shard, as against the shard's real one:
  `Dispatch` adds up the real ones, and `PublishedWhenFree` says when they are the same.
- Spurious events of a poller, a reset on close with bytes unread, share_port.
- Benchmarks, the scoreboard, fuzz targets.

## 6. Findings

1. `rugo-arena/src/lib.rs:326`: a segment refused after the tail was listed leaves
   the tail both listed and uncut; two live blocks can then overlap
   (`MCArenaTail`).
2. `rugo-server/src/dispatch.rs:254`: PERSIST answers from one locked section and
   changes in another (`MCMapPersist`).
3. `rugo-server/src/conn.rs:226`: on the poller, commands left in the read buffer by
   the reply ceiling wait for an event that need not come (`MCConnStall`).
4. `rugo-server/src/conn.rs:234`: on the poller, a client that shuts its writing half
   can lose the rest of a reply (`MCConnHalf`).
5. `rugo-server/src/dispatch.rs:523`: EXPIRE with a number of seconds near `i64::MAX`
   wraps in a release build and removes the key (`MCDispatchEnd`).

Seen while modelling, with no run:

- `rugo-map/src/lib.rs:384`: `len` may add a key counted before it was removed to one
  counted after it was stored, a size the map never had; the comment above it says
  the count "was true recently".
- `rugo-net/src/lib.rs:363`: kqueue's two events for one socket are handled one after
  the other. If the first closes the connection and an accept between them fills
  its slot, the second, with EV_EOF, closes the new client. The comment says a
  caller "does the right thing either way". `Worker` has the behaviour; `EventMine`
  is claimed for epoll. EV_EOF also closes a client that has only shut its writing
  half, which `rugo-net/src/lib.rs:52` says expects its answer.
- `rugo-server/src/lib.rs:82`: an accept that fails because the client has gone again
  ends the thread on a poller, and is asked for again on the ring.
- `rugo-resp/src/lib.rs:208`: an inline line longer than `MAX_INLINE` is refused when
  it arrives in pieces and taken when it arrives at once.
- `rugo-map/src/group.rs:265`: in the word-at-a-time build a borrow can light a lane
  whose tag is one off the tag looked for, though the comment says it "cannot forge
  a match"; the key is compared afterwards, so nothing is lost (`LanesOnce` says
  which lanes may be lit so).
- `../README.md:55` lists GET among the options of SET, and `set` in `dispatch.rs`
  answers it with a syntax error; DEL counts a key that has expired and not been
  swept; `Map::expire` may add four bytes and never evicts.
- `rugo-arena/src/lib.rs:119` says the oversized table "is capped below the index" that
  NONE would name. The cap of `alloc_large`, line 366, is one higher: the last row's
  reference is NONE, and `free`, which returns at once for NONE, then leaves the row and its
  bytes charged.

## 7. Plan

Done, in this order, the most important behaviour first: `Shard` with `Cache` and
its proofs, `Arena`, `Map`, `Conn`; then `Dispatch`, the codecs, `Ring` and `Worker`,
with runs that asked related questions merged.

Then theorems: the refinement of `Cache`, the safety invariants of `Arena`, `Map`, `Conn`,
`Dispatch` and `Worker`, and those of the codecs; the action property of `Map`.

Left: `Worker`'s slots seen from `Conn`, with a connection's steps as the refinement of the
turns `Worker` gives it; and kqueue's two events, with a statement of what a caller may
rely on there.
