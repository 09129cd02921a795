--------------------------- MODULE DispatchProofs ---------------------------
(***************************************************************************)
(* Theorems about Dispatch, for any number of threads, any commands, any   *)
(* widths of the integers and of the clock.                                *)
(*                                                                         *)
(* What a property says of a command that is done, the invariant says of   *)
(* it, and with it what the command's earlier steps have to leave behind   *)
(* for its last one to make that true.                                     *)
(***************************************************************************)
EXTENDS Dispatch, SequenceTheorems, FiniteSetTheorems, WellFoundedInduction, TLAPS

Deadlines == 0 .. CLOCK_MAX \cup {None}
Marks == {"+", "-", ":", "$", "*", "$-1", "_", "%"}
Frames == Marks \X Int
Sights == {None, "absent", "never", "timed"} \cup Int
Stages == {"idle", "run", "each", "options", "set", "timed", "persist", "done"}

Jobs == [pc : Stages, cmd : Seq(STRING), n : 0 .. MAX_ARGS + 1, read : 0 .. CLOCK_MAX,
         when : {"always", "absent", "present"}, expiry : Deadlines \cup {Keep},
         out : Seq(Frames), hits : Nat, saw : Sights, did : Nat]

\* The frames of dialect d.
Spelt(d) == {f \in Frames : f[1] \notin Foreign(d)}

\* Every entry is a record with a deadline the clock has.
IsEntry(e) == e = [f \in {"value", "expiry"} |-> e[f]] /\ e.expiry \in Deadlines
Kept == store = [k \in Keys |-> store[k]] /\ \A k \in Keys : store[k] # None => IsEntry(store[k])

FirstOf(j) == IF j.out = <<>> THEN None ELSE j.out[1]

-----------------------------------------------------------------------------
(* What is so of a command in hand, at each of its stages. *)

Writes == {"SET", "SETEX", "PSETEX"}
Removes == {"DEL", "UNLINK"}
Expires == {"EXPIRE", "PEXPIRE", "EXPIREAT", "PEXPIREAT"}
Counters == {"INCR", "DECR", "INCRBY", "DECRBY"}

\* When a command reads the clock its other arguments are in order.
Parsed(j) ==
  /\ j.pc = "timed" /\ Name(j.cmd) \in Expires => integer_of(arg(j.cmd, 2)) # None
  /\ j.pc = "timed" /\ Name(j.cmd) \in {"TTL", "PTTL"} => arg(j.cmd, 1) \in Keys

\* Before the map has answered, nothing is written and nothing said.
Early(j) ==
  /\ j.pc \in {"idle", "run", "options", "set", "timed", "persist"} => j.out = <<>> /\ j.did = 0
  /\ Parsed(j)

\* Key by key: only MGET has said anything, and MSET has written the pairs it
\* has passed.
Halfway(j, d) ==
  j.pc = "each" =>
    /\ j.out \in Seq(Spelt(d)) /\ (Name(j.cmd) # "MGET" => j.out = <<>>)
    /\ Name(j.cmd) \in Removes \cup {"MGET", "MSET", "EXISTS"}
    /\ Name(j.cmd) = "MSET" =>
         /\ j.n = 2 * j.did + 1 /\ j.n <= Len(j.cmd)
         /\ Len(j.cmd) = 2 * (Len(j.cmd) \div 2) + 1

\* The parts of the properties that speak of one command c, whose reply begins
\* with f, that saw this of the map and changed so many entries.
ToldOf(c, f, did) ==
  LET asked == IF Name(c) = "MSET" THEN Len(c) \div 2 ELSE 1
  IN  /\ Name(c) \in Writes \cup {"MSET"} =>
           CASE f = Simple -> did = asked
             [] f = Error -> did = 0 \/ did < asked
             [] OTHER -> did = 0
      /\ Name(c) \in Removes \cup Expires => did = IF f[1] = ":" THEN f[2] ELSE 0

ApartOf(c, f, saw) ==
  Name(c) \in {"TTL", "PTTL"} /\ f # Error =>
    /\ f[2] = -2 <=> saw = "absent"
    /\ f[2] = -1 <=> saw = "never"
    /\ f[2] >= 0 <=> saw = "timed"

AskedOf(c) ==
  CASE Name(c) = "INCR" -> 1 [] Name(c) = "DECR" -> -1
    [] Name(c) = "INCRBY" -> integer_of(arg(c, 2)) [] OTHER -> -integer_of(arg(c, 2))

ExactOf(c, f, saw, did) == Name(c) \in Counters /\ did = 1 => f[2] = saw + AskedOf(c)

Truth(c, f, saw, did) == ToldOf(c, f, did) /\ ApartOf(c, f, saw) /\ ExactOf(c, f, saw, did)

Answered(j, d) == j.pc = "done" => j.out \in Seq(Spelt(d)) /\ Truth(j.cmd, FirstOf(j), j.saw, j.did)

\* A command one of the clients sends: not too long, and about a key of the map.
Sent(c) == Len(c) <= MAX_ARGS /\ (Name(c) \in {"TTL", "PTTL"} /\ Len(c) = 2 => arg(c, 1) \in Keys)

Sound(j, d) == Sent(j.cmd) /\ Early(j) /\ Halfway(j, d) /\ Answered(j, d)

\* The clock, the dialects, the entries and the commands are what they can be.
Shaped ==
  /\ up \in BOOLEAN /\ now \in 0 .. CLOCK_MAX /\ dialect \in [Threads -> {2, 3}]
  /\ Kept /\ job \in [Threads -> Jobs]

\* The inductive invariant.
IInv == Shaped /\ \A t \in Threads : Sound(job[t], dialect[t])


-----------------------------------------------------------------------------
(* Constants, frames and entries. *)

\* What is known of the numbers.
LEMMA Numbers ==
  /\ INT_MAX \in Nat /\ CLOCK_MAX \in Nat /\ SCALE \in Nat /\ MAX_ARGS \in Nat
  /\ INT_MAX > 0 /\ CLOCK_MAX > 0 /\ SCALE > 1 /\ MAX_ARGS > 0 /\ CLOCK_MAX < INT_MAX
  /\ INT_MIN \in Int /\ INT_MIN = -INT_MAX - 1
  /\ \A x \in INT_MIN .. INT_MAX : x # None
  /\ \A x \in 0 .. CLOCK_MAX : x # None
BY DispatchAssumption DEF INT_MIN

\* A word that is a number is one in range; others are None.
LEMMA IntegerIs ==
  ASSUME NEW w
  PROVE  integer_of(w) = None \/ (integer_of(w) \in INT_MIN .. INT_MAX /\ integer_of(w) \in Int)
BY DispatchAssumption, Numbers DEF integer_of

\* Each frame is one of the dialect it is written in, and they are told apart.
LEMMA FramesIn ==
  ASSUME NEW d \in {2, 3}
  PROVE  /\ Simple \in Spelt(d) /\ Error \in Spelt(d) /\ Bulk \in Spelt(d) /\ Null(d) \in Spelt(d)
         /\ \A n \in Int : Integer(n) \in Spelt(d) /\ Array(n) \in Spelt(d) /\ MapOf(d, n) \in Spelt(d)
<1>4. ASSUME NEW s \in Marks, NEW n \in Int, s \notin Foreign(d) PROVE <<s, n>> \in Spelt(d)
  <2>1. <<s, n>> \in Marks \X Int /\ <<s, n>>[1] = s OBVIOUS
  <2> QED BY <1>4, <2>1 DEF Spelt, Frames
<1>5. /\ "+" \notin Foreign(d) /\ "-" \notin Foreign(d) /\ "$" \notin Foreign(d)
      /\ ":" \notin Foreign(d) /\ "*" \notin Foreign(d)
      /\ d = 2 => "$-1" \notin Foreign(d)
      /\ d # 2 => "_" \notin Foreign(d) /\ "%" \notin Foreign(d)
  BY DEF Foreign
<1>6. PICK z \in Int : z = 0 OBVIOUS
<1>1. Simple \in Spelt(d) /\ Error \in Spelt(d) /\ Bulk \in Spelt(d)
  BY <1>4, <1>5, <1>6 DEF Simple, Error, Bulk, Marks
<1>2. Null(d) \in Spelt(d) BY <1>4, <1>5, <1>6 DEF Null, Marks
<1>3. ASSUME NEW n \in Int PROVE Integer(n) \in Spelt(d) /\ Array(n) \in Spelt(d) /\ MapOf(d, n) \in Spelt(d)
  <2>1. 2 * n \in Int OBVIOUS
  <2> QED BY <1>4, <1>5, <2>1 DEF Integer, Array, MapOf, Marks
<1> QED BY <1>1, <1>2, <1>3

\* No two of these frames are taken for each other.
LEMMA FramesApart ==
  /\ Simple # Error /\ Error[1] # ":"
  /\ \A d \in {2, 3} : Null(d) # Simple /\ Null(d) # Error
  /\ \A n \in Int : Integer(n) # Error /\ Integer(n) # Simple /\ Integer(n)[1] = ":" /\ Integer(n)[2] = n
BY DEF Simple, Error, Null, Integer

\* An entry that is written, and one whose deadline is changed.
LEMMA EntryMade ==
  ASSUME NEW v, NEW x \in Deadlines
  PROVE  IsEntry([value |-> v, expiry |-> x])
BY DEF IsEntry

\* A new deadline leaves an entry.
LEMMA EntryDated ==
  ASSUME NEW e, IsEntry(e), NEW x \in Deadlines
  PROVE  IsEntry([e EXCEPT !.expiry = x])
BY DEF IsEntry

\* A lookup, a removal, a store and a new deadline leave entries.
LEMMA KeptErased ==
  ASSUME Kept, NEW k, store' = [store EXCEPT ![k] = None]
  PROVE  Kept'
BY DEF Kept

\* A lookup, which may erase an expired entry, leaves entries.
LEMMA KeptLooked ==
  ASSUME Kept, NEW k, store' = Looked(k)
  PROVE  Kept'
BY KeptErased DEF Kept, Looked

\* So does a store that evicts others.
LEMMA KeptStored ==
  ASSUME Kept, NEW k, NEW e, k \in Keys => IsEntry(e), Stores(k, e)
  PROVE  Kept'
BY DEF Kept, Stores

\* So does a new deadline on a live entry.
LEMMA KeptDated ==
  ASSUME Kept, NEW k, Live(k), NEW x \in Deadlines, store' = [store EXCEPT ![k].expiry = x]
  PROVE  Kept'
<1>1. store' = [store EXCEPT ![k] = [store[k] EXCEPT !.expiry = x]] OBVIOUS
<1>2. store' = [y \in Keys |-> store'[y]] BY <1>1 DEF Kept
<1>3. ASSUME NEW y \in Keys, store'[y] # None PROVE IsEntry(store'[y])
  <2>1. CASE y = k
    <3>1. IsEntry(store[k]) BY <2>1 DEF Kept, Live
    <3>2. IsEntry([store[k] EXCEPT !.expiry = x]) BY <3>1, EntryDated
    <3> QED BY <1>1, <2>1, <3>2 DEF Kept
  <2>2. CASE y # k BY <1>1, <1>3, <2>2 DEF Kept
  <2> QED BY <2>1, <2>2
<1> QED BY <1>2, <1>3 DEF Kept

-----------------------------------------------------------------------------
(* The last step of a command. *)

\* Thread t's command, and no other, is done: these frames are added to its reply.
Ended(t, frames, saw, did) ==
  /\ job' \in [Threads -> Jobs] /\ \A u \in Threads : u # t => job'[u] = job[u]
  /\ job'[t].pc = "done" /\ job'[t].cmd = job[t].cmd /\ job'[t].out = job[t].out \o frames
  /\ job'[t].saw = saw /\ job'[t].did = job[t].did + did

\* A record of a command, with some of its fields set.
LEMMA JobSet ==
  ASSUME NEW j \in Jobs, NEW out \in Seq(Frames), NEW saw \in Sights, NEW did \in Nat
  PROVE  /\ [j EXCEPT !.pc = "done", !.out = out, !.saw = saw, !.did = did] \in Jobs
         /\ [j EXCEPT !.pc = "done", !.out = out] \in Jobs
BY DEF Jobs, Stages

\* SaysOf ends the command, and the record stays one of a command.
LEMMA SaysOfEnds ==
  ASSUME Shaped, NEW t \in Threads, NEW frames \in Seq(Frames), NEW saw \in Sights, NEW did \in Nat,
         SaysOf(t, frames, saw, did)
  PROVE  Ended(t, frames, saw, did)
<1>1. job[t] \in Jobs /\ job \in [Threads -> Jobs] BY DEF Shaped
<1>2. job[t].out \in Seq(Frames) /\ job[t].did \in Nat BY <1>1 DEF Jobs
<1> DEFINE out == job[t].out \o frames
           all == job[t].did + did
<1>3. out \in Seq(Frames) /\ all \in Nat BY <1>2
<1> DEFINE j == [job[t] EXCEPT !.pc = "done", !.out = out, !.saw = saw, !.did = all]
<1>4. job' = [job EXCEPT ![t] = j] BY DEF SaysOf
<1>5. j \in Jobs BY <1>1, <1>3, JobSet
<1>6. j.pc = "done" /\ j.cmd = job[t].cmd /\ j.out = out /\ j.saw = saw /\ j.did = all BY <1>1 DEF Jobs
<1> HIDE DEF j
<1>7. job' \in [Threads -> Jobs] /\ job'[t] = j /\ \A u \in Threads : u # t => job'[u] = job[u] BY <1>1, <1>4, <1>5
<1> QED BY <1>6, <1>7 DEF Ended

\* Says ends it with what it had seen and changed before.
LEMMA SaysEnds ==
  ASSUME Shaped, NEW t \in Threads, NEW frames \in Seq(Frames), Says(t, frames)
  PROVE  Ended(t, frames, job[t].saw, 0)
<1>1. job[t] \in Jobs /\ job \in [Threads -> Jobs] BY DEF Shaped
<1>2. job[t].out \in Seq(Frames) /\ job[t].did \in Nat /\ job[t].saw \in Sights BY <1>1 DEF Jobs
<1> DEFINE out == job[t].out \o frames
<1>3. out \in Seq(Frames) /\ job[t].did + 0 = job[t].did BY <1>2
<1> DEFINE j == [job[t] EXCEPT !.pc = "done", !.out = out]
<1>4. job' = [job EXCEPT ![t] = j] BY DEF Says
<1>5. j \in Jobs BY <1>1, <1>2, <1>3, JobSet
<1>6. j.pc = "done" /\ j.cmd = job[t].cmd /\ j.out = out /\ j.saw = job[t].saw /\ j.did = job[t].did BY <1>1 DEF Jobs
<1> HIDE DEF j
<1>7. job' \in [Threads -> Jobs] /\ job'[t] = j /\ \A u \in Threads : u # t => job'[u] = job[u] BY <1>1, <1>4, <1>5
<1> QED BY <1>3, <1>6, <1>7 DEF Ended

\* A command that had said nothing is done with one frame: it is sound when the
\* frame is in its dialect and true.
LEMMA SaidAtOnce ==
  ASSUME Shaped, NEW t \in Threads, Sound(job[t], dialect[t]), job[t].out = <<>>,
         NEW d, NEW f \in Spelt(d), NEW saw, NEW did, Ended(t, <<f>>, saw, did),
         Truth(job[t].cmd, f, saw, job[t].did + did)
  PROVE  Sound(job'[t], d)
<1>1. <<>> \o <<f>> = <<f>> OBVIOUS
<1>2. job'[t].out = <<f>> /\ FirstOf(job'[t]) = f BY <1>1 DEF Ended, FirstOf
<1>3. <<f>> \in Seq(Spelt(d)) OBVIOUS
<1>4. Early(job'[t]) /\ Halfway(job'[t], d) BY DEF Ended, Early, Halfway, Parsed
<1>5. Answered(job'[t], d) BY <1>2, <1>3 DEF Ended, Answered
<1>6. Sent(job'[t].cmd) BY DEF Ended, Sound
<1> QED BY <1>4, <1>5, <1>6 DEF Sound

\* The commands a property speaks of.
Judged == Writes \cup {"MSET"} \cup Removes \cup Expires \cup {"TTL", "PTTL"} \cup Counters

\* A refusal that changed nothing is true of any command, anything of a command
\* no property speaks of, and a write says OK when it was made, null when not.
LEMMA TruthOfError ==
  ASSUME NEW c, NEW saw
  PROVE  Truth(c, Error, saw, 0)
<1>1. ToldOf(c, Error, 0) BY FramesApart DEF ToldOf
<1>2. ApartOf(c, Error, saw) /\ ExactOf(c, Error, saw, 0) BY DEF ApartOf, ExactOf
<1> QED BY <1>1, <1>2 DEF Truth

\* No property speaks of the other commands, so any frame is true of them.
LEMMA TruthOfOthers ==
  ASSUME NEW c, NEW f, NEW saw, NEW did, Name(c) \notin Judged
  PROVE  Truth(c, f, saw, did)
BY DEF Truth, ToldOf, ApartOf, ExactOf, Judged

\* SET and its neighbours: OK for a write made, null for one refused by NX or XX.
LEMMA TruthOfWrite ==
  ASSUME NEW c, Name(c) \in Writes, NEW saw
  PROVE  Truth(c, Simple, saw, 1) /\ \A d \in {2, 3} : Truth(c, Null(d), saw, 0)
<1>1. ToldOf(c, Simple, 1) BY FramesApart DEF ToldOf, Writes, Removes, Expires
<1>2. ASSUME NEW d \in {2, 3} PROVE ToldOf(c, Null(d), 0)
  BY FramesApart DEF ToldOf, Writes, Removes, Expires
<1>3. ASSUME NEW f, NEW did PROVE ApartOf(c, f, saw) /\ ExactOf(c, f, saw, did)
  BY DEF ApartOf, ExactOf, Counters, Writes
<1> QED BY <1>1, <1>2, <1>3 DEF Truth

\* The step of an action of thread t that leaves the map as it should be.
Fine(t) ==
  /\ Kept' /\ dialect' \in [Threads -> {2, 3}] /\ \A u \in Threads : u # t => dialect'[u] = dialect[u]
  /\ job' \in [Threads -> Jobs] /\ \A u \in Threads : u # t => job'[u] = job[u]
  /\ Sound(job'[t], dialect'[t])

\* A fine step keeps the invariant of every thread.
LEMMA FineKeeps ==
  ASSUME IInv, NEW t \in Threads, Fine(t), up' \in BOOLEAN, UNCHANGED now
  PROVE  IInv'
<1>1. Shaped' BY DEF IInv, Shaped, Fine
<1>2. ASSUME NEW u \in Threads PROVE Sound(job'[u], dialect'[u])
  <2>1. CASE u = t BY <2>1 DEF Fine
  <2>2. CASE u # t
    <3>1. job'[u] = job[u] /\ dialect'[u] = dialect[u] BY <2>2 DEF Fine
    <3> QED BY <3>1 DEF IInv
  <2> QED BY <2>1, <2>2
<1>3. (\A u \in Threads : Sound(job[u], dialect[u]))' BY <1>2 DEF Sound, Early, Halfway, Answered
<1> QED BY <1>1, <1>3 DEF IInv

\* The ways a command that had said nothing yet ends.
LEMMA FineSaysOf ==
  ASSUME IInv, NEW t \in Threads, job[t].out = <<>>, Kept',
         dialect' \in [Threads -> {2, 3}], \A u \in Threads : u # t => dialect'[u] = dialect[u],
         NEW f \in Spelt(dialect'[t]), NEW saw \in Sights, NEW did \in Nat,
         SaysOf(t, <<f>>, saw, did), Truth(job[t].cmd, f, saw, job[t].did + did)
  PROVE  Fine(t)
<1>1. Shaped /\ Sound(job[t], dialect[t]) BY DEF IInv
<1>2. <<f>> \in Seq(Frames) BY DEF Spelt
<1>3. Ended(t, <<f>>, saw, did) BY <1>1, <1>2, SaysOfEnds
<1>4. Sound(job'[t], dialect'[t]) BY <1>1, <1>3, SaidAtOnce
<1> QED BY <1>3, <1>4 DEF Fine, Ended

\* The same where the step saw and changed nothing itself.
LEMMA FineSays ==
  ASSUME IInv, NEW t \in Threads, job[t].out = <<>>, Kept',
         dialect' \in [Threads -> {2, 3}], \A u \in Threads : u # t => dialect'[u] = dialect[u],
         NEW f \in Spelt(dialect'[t]), Says(t, <<f>>), Truth(job[t].cmd, f, job[t].saw, job[t].did)
  PROVE  Fine(t)
<1>1. Shaped /\ Sound(job[t], dialect[t]) BY DEF IInv
<1>2. <<f>> \in Seq(Frames) BY DEF Spelt
<1>3. Ended(t, <<f>>, job[t].saw, 0) BY <1>1, <1>2, SaysEnds
<1>4. job[t].did + 0 = job[t].did BY <1>1 DEF Shaped, Jobs
<1>5. Sound(job'[t], dialect'[t]) BY <1>1, <1>3, <1>4, SaidAtOnce
<1> QED BY <1>3, <1>5 DEF Fine, Ended

Quiet == {"idle", "run", "options", "set", "timed", "persist"}

\* An error from a command that has written nothing is fine.
LEMMA FineError ==
  ASSUME IInv, NEW t \in Threads, job[t].pc \in Quiet, Kept', UNCHANGED dialect, Says(t, <<Error>>)
  PROVE  Fine(t)
<1>1. job[t].out = <<>> /\ job[t].did = 0 BY DEF IInv, Sound, Early, Quiet
<1>2. dialect' \in [Threads -> {2, 3}] /\ dialect'[t] \in {2, 3} BY DEF IInv, Shaped
<1>3. Error \in Spelt(dialect'[t]) BY <1>2, FramesIn
<1>4. Truth(job[t].cmd, Error, job[t].saw, job[t].did) BY <1>1, TruthOfError
<1> QED BY <1>1, <1>2, <1>3, <1>4, FineSays

\* Of a command no property speaks of.
LEMMA FineOther ==
  ASSUME IInv, NEW t \in Threads, job[t].pc \in Quiet, Name(job[t].cmd) \notin Judged,
         Kept', UNCHANGED dialect, NEW f \in Spelt(dialect[t]), Says(t, <<f>>)
  PROVE  Fine(t)
<1>1. job[t].out = <<>> BY DEF IInv, Sound, Early, Quiet
<1>2. dialect' \in [Threads -> {2, 3}] BY DEF IInv, Shaped
<1>3. Truth(job[t].cmd, f, job[t].saw, job[t].did) BY TruthOfOthers
<1> QED BY <1>1, <1>2, <1>3, FineSays

-----------------------------------------------------------------------------
(* The commands, action by action. *)

\* A map that is not touched stays as it should be.
LEMMA KeptSame ==
  ASSUME Kept, UNCHANGED store
  PROVE  Kept'
BY DEF Kept, IsEntry

\* refuse: an unknown command, or one of the wrong length.
LEMMA RefuseFine ==
  ASSUME IInv, NEW t \in Threads, Refuse(t)
  PROVE  Fine(t)
<1>1. Kept' BY KeptSame DEF IInv, Shaped, Refuse
<1> QED BY <1>1, FineError DEF Refuse, Quiet

\* GET answers a bulk or a null of its client's dialect.
LEMMA GetFine ==
  ASSUME IInv, NEW t \in Threads, Get(t)
  PROVE  Fine(t)
<1> DEFINE f == IF Live(Key(t)) THEN Bulk ELSE Null(dialect[t])
<1>1. Kept' /\ UNCHANGED dialect BY KeptLooked DEF IInv, Shaped, Get
<1>2. job[t].pc = "run" /\ Name(job[t].cmd) = "GET" BY DEF Get, At
<1>3. dialect[t] \in {2, 3} /\ job \in [Threads -> Jobs] /\ job[t] \in Jobs BY DEF IInv, Shaped
<1>4. f \in Spelt(dialect[t]) BY <1>3, FramesIn
<1>5. Says(t, <<f>>) BY <1>3 DEF Get, Fetched, Says, Jobs
<1>6. Name(job[t].cmd) \notin Judged BY <1>2 DEF Judged, Writes, Removes, Expires, Counters
<1> HIDE DEF f
<1> QED BY <1>1, <1>2, <1>4, <1>5, <1>6, FineOther DEF Quiet

\* STRLEN answers a number.
LEMMA StrLenFine ==
  ASSUME IInv, NEW t \in Threads, StrLen(t)
  PROVE  Fine(t)
<1> DEFINE n == IF Live(Key(t)) THEN Len(store[Key(t)].value) ELSE 0
<1>1. Kept' /\ UNCHANGED dialect BY KeptLooked DEF IInv, Shaped, StrLen
<1>2. job[t].pc = "run" /\ Name(job[t].cmd) = "STRLEN" BY DEF StrLen, At
<1>3. dialect[t] \in {2, 3} BY DEF IInv, Shaped
<1>4. Integer(n) \in Spelt(dialect[t]) BY <1>3, FramesIn
<1>5. Says(t, <<Integer(n)>>) BY DEF StrLen
<1>6. Name(job[t].cmd) \notin Judged BY <1>2 DEF Judged, Writes, Removes, Expires, Counters
<1> HIDE DEF n
<1> QED BY <1>1, <1>2, <1>4, <1>5, <1>6, FineOther DEF Quiet

\* A step that is not the last.
LEMMA FineStep ==
  ASSUME IInv, NEW t \in Threads, Kept', UNCHANGED dialect, NEW j \in Jobs, job' = [job EXCEPT ![t] = j],
         Sound(j, dialect[t])
  PROVE  Fine(t)
<1>1. job \in [Threads -> Jobs] /\ dialect \in [Threads -> {2, 3}] BY DEF IInv, Shaped
<1>2. job' \in [Threads -> Jobs] /\ job'[t] = j /\ \A u \in Threads : u # t => job'[u] = job[u] BY <1>1
<1> QED BY <1>1, <1>2 DEF Fine

\* A step after which the command has still said and changed nothing.
LEMMA FineQuiet ==
  ASSUME IInv, NEW t \in Threads, Kept', UNCHANGED dialect, NEW j \in Jobs, job' = [job EXCEPT ![t] = j],
         j.pc \in Quiet, Parsed(j), j.out = <<>>, j.did = 0, j.cmd = job[t].cmd
  PROVE  Fine(t)
<1>1. Sound(j, dialect[t])
  <2>1. Early(j) /\ Halfway(j, dialect[t]) /\ Answered(j, dialect[t]) BY DEF Quiet, Early, Halfway, Answered
  <2>2. Sent(j.cmd) BY DEF IInv, Sound
  <2> QED BY <2>1, <2>2 DEF Sound
<1> QED BY <1>1, FineStep

\* An odd number is one more than twice its half.
LEMMA OddHalf ==
  ASSUME NEW n \in Nat, n % 2 = 1
  PROVE  n = 2 * (n \div 2) + 1
OBVIOUS

\* MGET writes its header, and MSET has as many pairs as it has room for.
LEMMA EachBeginsFine ==
  ASSUME IInv, NEW t \in Threads, EachBegins(t)
  PROVE  Fine(t)
<1> DEFINE c == job[t].cmd
           head == IF Name(c) = "MGET" THEN <<Array(Len(c) - 1)>> ELSE <<>>
           j == [job[t] EXCEPT !.pc = "each", !.n = 1, !.out = head]
<1>1. Kept' /\ UNCHANGED dialect BY KeptSame DEF IInv, Shaped, EachBegins
<1>2. /\ job[t].pc = "run" /\ Name(c) \in {"MGET", "MSET", "DEL", "UNLINK", "EXISTS"} /\ Len(c) \in arity(Name(c))
  BY DEF EachBegins, At, Fits
<1>3. /\ dialect[t] \in {2, 3} /\ job \in [Threads -> Jobs] /\ job[t] \in Jobs
      /\ job[t].out = <<>> /\ job[t].did = 0 /\ Len(c) <= MAX_ARGS /\ Sent(c)
  BY <1>2 DEF IInv, Shaped, Sound, Early, Sent
<1>4. c \in Seq(STRING) /\ Len(c) \in Nat BY <1>3 DEF Jobs
<1>5. head \in Seq(Spelt(dialect[t])) /\ head \in Seq(Frames)
  <2>1. PICK f \in Spelt(dialect[t]) : f = Array(Len(c) - 1)
    <3>1. Len(c) - 1 \in Int BY <1>4
    <3> QED BY <1>3, <3>1, FramesIn
  <2>2. <<f>> \in Seq(Spelt(dialect[t])) /\ <<f>> \in Seq(Frames) BY DEF Spelt
  <2>3. <<>> \in Seq(Spelt(dialect[t])) /\ <<>> \in Seq(Frames) OBVIOUS
  <2>4. head = <<f>> \/ head = <<>> BY <2>1
  <2> HIDE DEF head
  <2> QED BY <2>2, <2>3, <2>4
<1>6. 1 \in 0 .. MAX_ARGS + 1 BY Numbers
<1>7. j \in Jobs /\ j.pc = "each" /\ j.n = 1 /\ j.out = head /\ j.did = 0 /\ j.cmd = c
  BY <1>3, <1>5, <1>6 DEF Jobs, Stages
<1>8. job' = [job EXCEPT ![t] = j] BY DEF EachBegins
<1>9. Name(c) = "MSET" => 1 <= Len(c) /\ Len(c) = 2 * (Len(c) \div 2) + 1
  <2> SUFFICES ASSUME Name(c) = "MSET" PROVE 1 <= Len(c) /\ Len(c) = 2 * (Len(c) \div 2) + 1 OBVIOUS
  <2>1. PICK m \in Nat : m = Len(c) BY <1>4
  <2>2. m \in {n \in 3 .. MAX_ARGS : n % 2 = 1} BY <1>2, <2>1 DEF arity
  <2>3. m % 2 = 1 /\ m >= 3 BY <2>2, Numbers
  <2>4. 1 <= m /\ m = 2 * (m \div 2) + 1 BY <2>3, OddHalf
  <2> QED BY <2>1, <2>4
<1> HIDE DEF head, j
<1>10. Sound(j, dialect[t])
  <2>1. Early(j) /\ Answered(j, dialect[t]) BY <1>7 DEF Early, Answered, Parsed
  <2>2. Halfway(j, dialect[t])
    <3>1. Name(j.cmd) # "MGET" => j.out = <<>> BY <1>7 DEF head
    <3>2. j.n = 2 * j.did + 1 BY <1>7
    <3> QED BY <1>2, <1>5, <1>7, <1>9, <3>1, <3>2 DEF Halfway, Removes
  <2> QED BY <1>3, <1>7, <2>1, <2>2 DEF Sound
<1> QED BY <1>1, <1>7, <1>8, <1>10, FineStep

\* What is known of a command that goes key by key.
LEMMA EachSays ==
  ASSUME IInv, NEW t \in Threads, job[t].pc = "each"
  PROVE  /\ dialect[t] \in {2, 3} /\ job \in [Threads -> Jobs] /\ job[t] \in Jobs
         /\ job[t].n \in Nat /\ job[t].did \in Nat /\ job[t].hits \in Nat
         /\ job[t].cmd \in Seq(STRING) /\ Len(job[t].cmd) \in Nat /\ Len(job[t].cmd) <= MAX_ARGS
         /\ job[t].out \in Seq(Spelt(dialect[t])) /\ job[t].out \in Seq(Frames)
         /\ Halfway(job[t], dialect[t]) /\ Sent(job[t].cmd)
<1>1. /\ dialect[t] \in {2, 3} /\ job \in [Threads -> Jobs] /\ job[t] \in Jobs /\ Sound(job[t], dialect[t])
  BY DEF IInv, Shaped
<1>2. /\ job[t].n \in 0 .. MAX_ARGS + 1 /\ job[t].did \in Nat /\ job[t].hits \in Nat
      /\ job[t].cmd \in Seq(STRING) /\ job[t].out \in Seq(Frames)
  BY <1>1 DEF Jobs
<1>3. Len(job[t].cmd) <= MAX_ARGS /\ Halfway(job[t], dialect[t]) /\ Sent(job[t].cmd) BY <1>1 DEF Sound, Sent
<1>4. job[t].out \in Seq(Spelt(dialect[t])) BY <1>3 DEF Halfway
<1>5. job[t].n \in Nat /\ Len(job[t].cmd) \in Nat BY <1>2, Numbers
<1> QED BY <1>1, <1>2, <1>3, <1>4, <1>5

\* A step within it.
LEMMA FineEach ==
  ASSUME IInv, NEW t \in Threads, Kept', UNCHANGED dialect, job[t].pc = "each",
         NEW j \in Jobs, job' = [job EXCEPT ![t] = j],
         j.pc = "each", j.cmd = job[t].cmd, Halfway(j, dialect[t])
  PROVE  Fine(t)
<1>1. Early(j) /\ Answered(j, dialect[t]) BY DEF Early, Answered, Parsed
<1>2. Sent(j.cmd) BY EachSays
<1> QED BY <1>1, <1>2, FineStep DEF Sound

\* One key of MGET, DEL, UNLINK or EXISTS.
LEMMA EachKeyFine ==
  ASSUME IInv, NEW t \in Threads, EachKey(t)
  PROVE  Fine(t)
<1> DEFINE c == job[t].cmd
           n == job[t].n
           k == arg(c, n)
           d == dialect[t]
<1>1. /\ job[t].pc = "each" /\ UNCHANGED dialect /\ n < Len(c)
      /\ Name(c) \in {"MGET", "DEL", "UNLINK", "EXISTS"}
  BY DEF EachKey, At
<1>2. /\ d \in {2, 3} /\ job \in [Threads -> Jobs] /\ job[t] \in Jobs
      /\ n \in Nat /\ job[t].did \in Nat /\ job[t].hits \in Nat
      /\ Len(c) \in Nat /\ Len(c) <= MAX_ARGS
      /\ job[t].out \in Seq(Spelt(d)) /\ job[t].out \in Seq(Frames) /\ Halfway(job[t], d)
  BY <1>1, EachSays
<1>3. n + 1 \in 0 .. MAX_ARGS + 1 BY <1>1, <1>2, Numbers
<1>4. Kept BY DEF IInv, Shaped
<1>5. CASE Name(c) = "MGET" /\ job' = [job EXCEPT ![t] = [Fetched(t, k, @) EXCEPT !.n = n + 1]] /\ store' = Looked(k)
  <2> DEFINE f == IF Live(k) THEN Bulk ELSE Null(d)
             out == job[t].out \o <<f>>
             j == [job[t] EXCEPT !.out = out, !.n = n + 1]
  <2>1. Kept' BY <1>4, <1>5, KeptLooked
  <2>2. f \in Spelt(d) BY <1>2, FramesIn
  <2>3. f \in Frames BY <2>2 DEF Spelt
  <2> HIDE DEF f
  <2>4. out \in Seq(Spelt(d)) /\ out \in Seq(Frames) BY <1>2, <2>2, <2>3
  <2>5. job' = [job EXCEPT ![t] = j] BY <1>2, <1>5 DEF Fetched, f, Jobs
  <2> HIDE DEF out
  <2>6. j \in Jobs /\ j.pc = "each" /\ j.cmd = c /\ j.out = out BY <1>1, <1>2, <1>3, <2>4 DEF Jobs
  <2> HIDE DEF j
  <2>7. Halfway(j, d) BY <1>5, <2>4, <2>6 DEF Halfway
  <2> QED BY <1>1, <2>1, <2>5, <2>6, <2>7, FineEach
<1>6. CASE /\ Name(c) = "EXISTS" /\ store' = Looked(k)
           /\ job' = [job EXCEPT ![t].n = n + 1, ![t].hits = @ + IF Live(k) THEN 1 ELSE 0]
  <2> DEFINE hits == job[t].hits + (IF Live(k) THEN 1 ELSE 0)
             j == [job[t] EXCEPT !.n = n + 1, !.hits = hits]
  <2>1. Kept' BY <1>4, <1>6, KeptLooked
  <2>2. hits \in Nat BY <1>2
  <2>3. job' = [job EXCEPT ![t] = j] BY <1>6
  <2> HIDE DEF hits
  <2>4. j \in Jobs /\ j.pc = "each" /\ j.cmd = c /\ j.out = job[t].out BY <1>1, <1>2, <1>3, <2>2 DEF Jobs
  <2> HIDE DEF j
  <2>5. Halfway(j, d) BY <1>1, <1>2, <1>6, <2>4 DEF Halfway
  <2> QED BY <1>1, <2>1, <2>3, <2>4, <2>5, FineEach
<1>7. CASE /\ Name(c) \in {"DEL", "UNLINK"} /\ store' = [store EXCEPT ![k] = None]
           /\ job' = [job EXCEPT ![t].n = n + 1, ![t].did = @ + IF store[k] # None THEN 1 ELSE 0]
  <2> DEFINE did == job[t].did + (IF store[k] # None THEN 1 ELSE 0)
             j == [job[t] EXCEPT !.n = n + 1, !.did = did]
  <2>1. Kept' BY <1>4, <1>7, KeptErased
  <2>2. did \in Nat BY <1>2
  <2>3. job' = [job EXCEPT ![t] = j] BY <1>7
  <2> HIDE DEF did
  <2>4. j \in Jobs /\ j.pc = "each" /\ j.cmd = c /\ j.out = job[t].out BY <1>1, <1>2, <1>3, <2>2 DEF Jobs
  <2> HIDE DEF j
  <2>5. Halfway(j, d) BY <1>1, <1>2, <1>7, <2>4 DEF Halfway, Removes
  <2> QED BY <1>1, <2>1, <2>3, <2>4, <2>5, FineEach
<1> QED BY <1>5, <1>6, <1>7 DEF EachKey

\* The pairs passed and the pairs there are.
LEMMA Pairs ==
  ASSUME NEW h \in Nat, NEW l \in Nat, NEW m \in Nat, NEW did \in Nat, l = 2 * h + 1, m = 2 * did + 1, m <= l
  PROVE  /\ m < l => did < h /\ m + 2 <= l
         /\ m = l => did = h
         /\ m + 2 = 2 * (did + 1) + 1
OBVIOUS

\* Half of a natural number is one.
LEMMA Halves ==
  ASSUME NEW l \in Nat
  PROVE  l \div 2 \in Nat
OBVIOUS

\* One pair of MSET, written or refused: the pairs passed are the pairs written.
LEMMA EachPairFine ==
  ASSUME IInv, NEW t \in Threads, EachPair(t)
  PROVE  Fine(t)
<1> DEFINE c == job[t].cmd
           n == job[t].n
           k == arg(c, n)
           d == dialect[t]
           e == [value |-> arg(c, n + 1), expiry |-> None]
<1>1. /\ job[t].pc = "each" /\ UNCHANGED dialect /\ n < Len(c) /\ Name(c) = "MSET"
  BY DEF EachPair, At
<1>2. /\ d \in {2, 3} /\ dialect \in [Threads -> {2, 3}] /\ job \in [Threads -> Jobs] /\ job[t] \in Jobs
      /\ n \in Nat /\ job[t].did \in Nat
      /\ Len(c) \in Nat /\ Len(c) <= MAX_ARGS
      /\ job[t].out \in Seq(Spelt(d)) /\ job[t].out \in Seq(Frames) /\ Halfway(job[t], d)
  BY <1>1, EachSays DEF IInv, Shaped
<1>3. job[t].out = <<>> /\ n = 2 * job[t].did + 1 /\ Len(c) = 2 * (Len(c) \div 2) + 1
  BY <1>1, <1>2 DEF Halfway
<1>9. PICK l \in Nat, m \in Nat, did \in Nat : l = Len(c) /\ m = n /\ did = job[t].did BY <1>2
<1>10. PICK h \in Nat : h = l \div 2 BY Halves
<1>4. l = 2 * h + 1 /\ m = 2 * did + 1 /\ m < l /\ l <= MAX_ARGS
  BY <1>1, <1>2, <1>3, <1>9, <1>10
<1>5. did < h /\ m + 2 <= l /\ m + 2 = 2 * (did + 1) + 1 /\ m + 2 \in 0 .. MAX_ARGS + 1
  <2>1. m <= l /\ m < l BY <1>4
  <2>2. did < h /\ m + 2 <= l /\ m + 2 = 2 * (did + 1) + 1 BY <1>4, <2>1, Pairs
  <2>3. MAX_ARGS \in Nat BY Numbers
  <2>4. m + 2 <= MAX_ARGS + 1 BY <1>4, <2>2, <2>3
  <2> QED BY <2>2, <2>3, <2>4
<1>6. Kept BY DEF IInv, Shaped
<1>7. CASE Stores(k, e) /\ job' = [job EXCEPT ![t].n = n + 2, ![t].did = @ + 1]
  <2> DEFINE j == [job[t] EXCEPT !.n = m + 2, !.did = did + 1]
  <2>1. IsEntry(e) BY EntryMade DEF Deadlines
  <2>2. Kept' BY <1>6, <1>7, <2>1, KeptStored
  <2>3. job' = [job EXCEPT ![t] = j] BY <1>7, <1>9
  <2>7. m + 2 \in 0 .. MAX_ARGS + 1 /\ did + 1 \in Nat BY <1>4, <1>5
  <2>8. j \in Jobs BY <1>2, <2>7 DEF Jobs
  <2>9. j.pc = "each" /\ j.cmd = c /\ j.out = <<>> /\ j.n = m + 2 /\ j.did = did + 1
    BY <1>1, <1>2, <1>3 DEF Jobs
  <2>4. j \in Jobs /\ j.pc = "each" /\ j.cmd = c /\ j.out = <<>> /\ j.n = m + 2 /\ j.did = did + 1
    BY <2>8, <2>9
  <2> HIDE DEF j
  <2>5. <<>> \in Seq(Spelt(d)) OBVIOUS
  <2>6. Halfway(j, d) BY <1>1, <1>3, <1>5, <1>9, <2>4, <2>5 DEF Halfway
  <2> QED BY <1>1, <2>2, <2>3, <2>4, <2>6, FineEach
<1>8. CASE UNCHANGED store /\ Stops(t)
  <2>1. Kept' BY <1>6, <1>8, KeptSame
  <2>2. Truth(c, Error, job[t].saw, did)
    <3>1. ToldOf(c, Error, did) BY <1>1, <1>5, <1>9, <1>10, FramesApart DEF ToldOf, Removes, Expires
    <3>2. ApartOf(c, Error, job[t].saw) /\ ExactOf(c, Error, job[t].saw, did)
      BY <1>1 DEF ApartOf, ExactOf, Counters
    <3> QED BY <3>1, <3>2 DEF Truth
  <2>3. Error \in Spelt(dialect'[t]) /\ dialect' \in [Threads -> {2, 3}] BY <1>1, <1>2, FramesIn
  <2> QED BY <1>1, <1>3, <1>8, <1>9, <2>1, <2>2, <2>3, FineSays DEF Stops
<1> QED BY <1>7, <1>8 DEF EachPair

\* The end of the keys: a count, an OK, or the last of the values.
LEMMA EachEndsFine ==
  ASSUME IInv, NEW t \in Threads, EachEnds(t)
  PROVE  Fine(t)
<1> DEFINE c == job[t].cmd
           n == job[t].n
           d == dialect[t]
<1>1. job[t].pc = "each" /\ UNCHANGED <<dialect, store>> /\ n >= Len(c)
  BY DEF EachEnds, At
<1>2. /\ d \in {2, 3} /\ dialect \in [Threads -> {2, 3}] /\ job \in [Threads -> Jobs] /\ job[t] \in Jobs
      /\ n \in Nat /\ job[t].did \in Nat /\ job[t].hits \in Nat
      /\ Len(c) \in Nat /\ Len(c) <= MAX_ARGS
      /\ job[t].out \in Seq(Spelt(d)) /\ job[t].out \in Seq(Frames) /\ Halfway(job[t], d)
  BY <1>1, EachSays DEF IInv, Shaped
<1>8. Sent(c) BY <1>1, EachSays
<1>3. Kept' BY <1>1, KeptSame DEF IInv, Shaped
<1>4. dialect' \in [Threads -> {2, 3}] /\ dialect' = dialect BY <1>1, <1>2
<1>5. CASE Name(c) = "MGET" /\ Says(t, <<>>)
  <2>1. <<>> \in Seq(Frames) /\ job[t].out \o <<>> = job[t].out BY <1>2
  <2>2. Ended(t, <<>>, job[t].saw, 0) BY <1>5, <2>1, SaysEnds DEF IInv
  <2>3. Name(c) \notin Judged BY <1>5 DEF Judged, Writes, Removes, Expires, Counters
  <2>4. Answered(job'[t], d)
    <3>1. Truth(job'[t].cmd, FirstOf(job'[t]), job'[t].saw, job'[t].did) BY <2>2, <2>3, TruthOfOthers DEF Ended
    <3> QED BY <1>2, <2>1, <2>2, <3>1 DEF Answered, Ended
  <2>5. Sound(job'[t], d) BY <1>8, <2>2, <2>4 DEF Sound, Early, Halfway, Ended, Parsed
  <2> QED BY <1>3, <1>4, <2>2, <2>5 DEF Fine, Ended
<1>6. CASE Name(c) = "MSET" /\ Says(t, <<Simple>>)
  <2>1. job[t].out = <<>> /\ n = 2 * job[t].did + 1 /\ n <= Len(c) /\ Len(c) = 2 * (Len(c) \div 2) + 1
    BY <1>1, <1>2, <1>6 DEF Halfway
  <2>2. job[t].did = Len(c) \div 2
    <3>1. PICK l \in Nat, m \in Nat, did \in Nat : l = Len(c) /\ m = n /\ did = job[t].did BY <1>2
    <3>2. PICK h \in Nat : h = l \div 2 BY Halves
    <3>3. l = 2 * h + 1 /\ m = 2 * did + 1 /\ m >= l /\ m <= l BY <1>1, <2>1, <3>1, <3>2
    <3>4. did = h
      <4>1. m = l BY <3>3
      <4> QED BY <3>3, <4>1, Pairs
    <3> QED BY <3>1, <3>2, <3>4
  <2>3. Truth(c, Simple, job[t].saw, job[t].did)
    <3>1. ToldOf(c, Simple, job[t].did) BY <1>6, <2>2, FramesApart DEF ToldOf, Removes, Expires
    <3>2. ApartOf(c, Simple, job[t].saw) /\ ExactOf(c, Simple, job[t].saw, job[t].did)
      BY <1>6 DEF ApartOf, ExactOf, Counters
    <3> QED BY <3>1, <3>2 DEF Truth
  <2>4. Simple \in Spelt(dialect'[t]) BY <1>2, <1>4, FramesIn
  <2> QED BY <1>3, <1>4, <1>6, <2>1, <2>3, <2>4, FineSays
<1>7. CASE Name(c) \in {"DEL", "UNLINK", "EXISTS"} /\ Says(t, <<Integer(Answer(job[t]))>>)
  <2>1. job[t].out = <<>> BY <1>1, <1>2, <1>7 DEF Halfway
  <2>2. PICK a \in Int : a = Answer(job[t]) /\ (Name(c) # "EXISTS" => a = job[t].did) BY <1>2 DEF Answer
  <2>3. Truth(c, Integer(a), job[t].saw, job[t].did)
    <3>1. CASE Name(c) = "EXISTS"
      <4>1. Name(c) \notin Judged BY <3>1 DEF Judged, Writes, Removes, Expires, Counters
      <4> QED BY <4>1, TruthOfOthers
    <3>2. CASE Name(c) \in {"DEL", "UNLINK"}
      <4>1. ToldOf(c, Integer(a), job[t].did) BY <2>2, <3>2, FramesApart DEF ToldOf, Writes
      <4>2. ApartOf(c, Integer(a), job[t].saw) /\ ExactOf(c, Integer(a), job[t].saw, job[t].did)
        BY <3>2 DEF ApartOf, ExactOf, Counters
      <4> QED BY <4>1, <4>2 DEF Truth
    <3> QED BY <1>7, <3>1, <3>2
  <2>4. Integer(a) \in Spelt(dialect'[t]) BY <1>2, <1>4, FramesIn
  <2> QED BY <1>3, <1>4, <1>7, <2>1, <2>2, <2>3, <2>4, FineSays
<1> QED BY <1>5, <1>6, <1>7 DEF EachEnds

\* Of an early command whose step ends it; the common part of the proofs below.
LEMMA QuietSays ==
  ASSUME IInv, NEW t \in Threads, job[t].pc \in Quiet
  PROVE  /\ dialect[t] \in {2, 3} /\ dialect \in [Threads -> {2, 3}] /\ Kept
         /\ job \in [Threads -> Jobs] /\ job[t] \in Jobs
         /\ job[t].out = <<>> /\ job[t].did = 0
BY DEF IInv, Shaped, Sound, Early, Quiet

\* An answer that tells how many entries were changed, and what was seen.
LEMMA FineTold ==
  ASSUME IInv, NEW t \in Threads, job[t].pc \in Quiet, Kept', UNCHANGED dialect,
         NEW f \in Spelt(dialect[t]), NEW saw \in Sights, NEW did \in Nat,
         SaysOf(t, <<f>>, saw, did), Truth(job[t].cmd, f, saw, did)
  PROVE  Fine(t)
<1>1. dialect \in [Threads -> {2, 3}] /\ job[t].out = <<>> /\ job[t].did = 0 BY QuietSays
<1>2. job[t].did + did = did BY <1>1
<1> QED BY <1>1, <1>2, FineSaysOf

\* The deadline of a live entry.
LEMMA DeadlineIs ==
  ASSUME Kept, NEW k \in Keys, Live(k)
  PROVE  store[k] # None /\ IsEntry(store[k]) /\ store[k].expiry \in Deadlines
BY DEF Kept, Live, IsEntry

\* What the map reads as a decimal.
LEMMA DecimalIs ==
  ASSUME NEW w
  PROVE  decimal(w) = None \/ (decimal(w) \in INT_MIN .. INT_MAX /\ decimal(w) \in Int)
<1>1. CASE \E n \in INT_MIN .. INT_MAX : w = digits(n)
  <2> DEFINE m == CHOOSE n \in INT_MIN .. INT_MAX : w = digits(n)
  <2>1. m \in INT_MIN .. INT_MAX BY <1>1
  <2> QED BY <1>1, <2>1, Numbers DEF decimal
<1>2. CASE ~\E n \in INT_MIN .. INT_MAX : w = digits(n) BY <1>2 DEF decimal
<1> QED BY <1>1, <1>2

\* What a counter adds is what was asked.
LEMMA ByIs ==
  ASSUME NEW t, Name(job[t].cmd) \in Counters, by(t) # None
  PROVE  by(t) \in Int /\ by(t) = AskedOf(job[t].cmd)
<1> DEFINE i == integer(t, 2)
<1>1. i = None \/ (i \in INT_MIN .. INT_MAX /\ i \in Int) BY IntegerIs DEF integer
<1>2. i = integer_of(arg(job[t].cmd, 2)) BY DEF integer
<1> HIDE DEF i
<1>3. CASE Name(job[t].cmd) = "INCR" BY <1>3 DEF by, AskedOf
<1>4. CASE Name(job[t].cmd) = "DECR" BY <1>4 DEF by, AskedOf
<1>5. CASE Name(job[t].cmd) = "INCRBY"
  <2>1. by(t) = i BY <1>5 DEF by, i
  <2> QED BY <1>1, <1>2, <1>5, <2>1 DEF AskedOf
<1>6. CASE Name(job[t].cmd) = "DECRBY"
  <2>1. by(t) = (IF i \in {None, INT_MIN} THEN None ELSE -i) BY <1>6 DEF by, i
  <2>2. by(t) = -i /\ i \in Int BY <1>1, <2>1
  <2>3. AskedOf(job[t].cmd) = -i BY <1>2, <1>6 DEF AskedOf
  <2> QED BY <2>2, <2>3
<1> QED BY <1>3, <1>4, <1>5, <1>6 DEF Counters

\* INCR and its neighbours answer the sum, or refuse it.
LEMMA CountFine ==
  ASSUME IInv, NEW t \in Threads, Count(t)
  PROVE  Fine(t)
<1> DEFINE k == Key(t)
           held == IF ~Live(k) THEN 0 ELSE decimal(store[k].value)
           sum == held + by(t)
           e == [value |-> digits(sum), expiry |-> IF Live(k) THEN store[k].expiry ELSE None]
           refused == IF held = None THEN TRUE ELSE sum \notin INT_MIN .. INT_MAX
           c == job[t].cmd
<1>1. job[t].pc \in Quiet /\ Name(c) \in Counters /\ UNCHANGED dialect
  BY DEF Count, At, Counters, Quiet
<1>2. dialect[t] \in {2, 3} /\ Kept BY <1>1, QuietSays
<1>3. CASE by(t) = None /\ Says(t, <<Error>>) /\ UNCHANGED store
  BY <1>1, <1>2, <1>3, KeptSame, FineError
<1>4. CASE Says(t, <<Error>>) /\ store' = Looked(k)
  <2>1. Kept' BY <1>2, <1>4, KeptLooked
  <2> QED BY <1>1, <1>4, <2>1, FineError
<1>5. CASE by(t) # None /\ ~refused /\ Stores(k, e) /\ SaysOf(t, <<Integer(sum)>>, held, 1)
  <2>1. by(t) \in Int /\ by(t) = AskedOf(c) BY <1>1, <1>5, ByIs
  <2>2. held = 0 \/ held = None \/ held \in Int BY DecimalIs
  <2>3. held \in Int BY <1>5, <2>2
  <2>4. PICK s \in Int : s = sum /\ s = held + AskedOf(c) BY <2>1, <2>3
  <2>5. k \in Keys => IsEntry(e)
    <3> HIDE DEF sum
    <3> QED BY <1>2, DeadlineIs, EntryMade DEF Deadlines
  <2>6. Kept' BY <1>2, <1>5, <2>5, KeptStored
  <2>7. Integer(s) \in Spelt(dialect[t]) BY <1>2, FramesIn
  <2>8. Truth(c, Integer(s), held, 1)
    <3> HIDE DEF held
    <3>1. Integer(s)[2] = s BY FramesApart
    <3>2. ExactOf(c, Integer(s), held, 1) BY <2>4, <3>1 DEF ExactOf
    <3>3. ToldOf(c, Integer(s), 1) /\ ApartOf(c, Integer(s), held)
      BY <1>1 DEF ToldOf, ApartOf, Counters, Writes, Removes, Expires
    <3> QED BY <3>2, <3>3 DEF Truth
  <2>9. held \in Sights BY <2>3 DEF Sights
  <2> HIDE DEF held, e, sum, refused
  <2> QED BY <1>1, <1>5, <2>4, <2>6, <2>7, <2>8, <2>9, FineTold
<1> QED BY <1>3, <1>4, <1>5 DEF Count

\* A moment is an integer, and a stamp a second the clock has.
LEMMA StampIs ==
  ASSUME NEW at \in Int
  PROVE  stamp(at) \in 0 .. CLOCK_MAX /\ stamp(at) \in Deadlines
BY Numbers DEF stamp, Deadlines

\* However large its argument, a moment is an integer: the sum may have wrapped.
LEMMA MomentIs ==
  ASSUME NEW read \in 0 .. CLOCK_MAX, NEW value \in Int, NEW scale \in Nat, scale > 0, NEW absolute
  PROVE  moment(read, value, scale, absolute) \in Int
<1>1. PICK q \in Int, r \in Int : q = value \div scale /\ r = value % scale OBVIOUS
<1>2. PICK s \in Int : s = q + (IF r # 0 THEN 1 ELSE 0) BY <1>1
<1>3. PICK x \in Int : x = read + s BY Numbers
<1>4. Wrapped(x) \in Int
  <2>1. PICK w \in Nat : w = 2 * (INT_MAX + 1) /\ w > 0 BY Numbers
  <2>2. PICK y \in Int : y = x - INT_MIN BY Numbers
  <2>3. y % w \in Int BY <2>1
  <2> QED BY <2>1, <2>2, <2>3, Numbers DEF Wrapped
<1> QED BY <1>1, <1>2, <1>3, <1>4 DEF moment

\* An option with a unit has a positive scale.
LEMMA UnitIs ==
  ASSUME NEW option, unit(option) # None
  PROVE  /\ unit(option).scale \in Nat /\ unit(option).scale > 0
         /\ option \in {"EX", "PX", "EXAT", "PXAT"}
BY Numbers DEF unit

\* SET with no options.
LEMMA SetPlainFine ==
  ASSUME IInv, NEW t \in Threads, SetPlain(t)
  PROVE  Fine(t)
<1> DEFINE k == Key(t)
           e == [value |-> arg(job[t].cmd, 2), expiry |-> None]
           c == job[t].cmd
<1>1. job[t].pc \in Quiet /\ Name(c) = "SET" /\ UNCHANGED dialect
  BY DEF SetPlain, At, Quiet
<1>2. dialect[t] \in {2, 3} /\ Kept BY <1>1, QuietSays
<1>3. CASE Stores(k, e) /\ SaysOf(t, <<Simple>>, None, 1)
  <2>1. IsEntry(e) BY EntryMade DEF Deadlines
  <2>2. Kept' BY <1>2, <1>3, <2>1, KeptStored
  <2>3. Simple \in Spelt(dialect[t]) /\ None \in Sights BY <1>2, FramesIn DEF Sights
  <2>4. Truth(c, Simple, None, 1) BY <1>1, TruthOfWrite DEF Writes
  <2> QED BY <1>1, <1>3, <2>2, <2>3, <2>4, FineTold
<1>4. CASE UNCHANGED store /\ Says(t, <<Error>>)
  BY <1>1, <1>2, <1>4, KeptSame, FineError
<1> QED BY <1>3, <1>4 DEF SetPlain

\* SET reads the clock before its options.
LEMMA SetOptionsFine ==
  ASSUME IInv, NEW t \in Threads, SetOptions(t)
  PROVE  Fine(t)
<1> DEFINE j == [job[t] EXCEPT !.pc = "options", !.n = 3, !.read = now]
<1>1. job[t].pc \in Quiet /\ UNCHANGED <<dialect, store>> /\ Len(job[t].cmd) > 3
  BY DEF SetOptions, At, Quiet
<1>2. /\ Kept /\ job[t] \in Jobs /\ job[t].out = <<>> /\ job[t].did = 0 /\ now \in 0 .. CLOCK_MAX
  BY <1>1, QuietSays DEF IInv, Shaped
<1>3. 3 \in 0 .. MAX_ARGS + 1
  <2>1. Len(job[t].cmd) \in Nat BY <1>2 DEF Jobs
  <2>2. Len(job[t].cmd) <= MAX_ARGS BY DEF IInv, Sound, Sent
  <2> QED BY <1>1, <2>1, <2>2, Numbers
<1>4. Kept' BY <1>1, <1>2, KeptSame
<1>5. job' = [job EXCEPT ![t] = j] BY DEF SetOptions
<1>6. j \in Jobs /\ j.pc \in Quiet /\ Parsed(j) /\ j.out = <<>> /\ j.did = 0 /\ j.cmd = job[t].cmd
  BY <1>2, <1>3 DEF Jobs, Stages, Quiet, Parsed
<1> HIDE DEF j
<1> QED BY <1>1, <1>4, <1>5, <1>6, FineQuiet

\* One option of SET keeps the cursor within the command and the deadline in range.
LEMMA SetOptionFine ==
  ASSUME IInv, NEW t \in Threads, SetOption(t)
  PROVE  Fine(t)
<1> DEFINE n == job[t].n
           option == arg(job[t].cmd, n)
           u == unit(option)
           value == integer(t, n + 1)
<1>1. job[t].pc \in Quiet /\ job[t].pc = "options" /\ UNCHANGED <<dialect, store>> /\ n < Len(job[t].cmd)
  BY DEF SetOption, At, Quiet
<1>2. /\ Kept /\ job[t] \in Jobs /\ job[t].out = <<>> /\ job[t].did = 0
  BY <1>1, QuietSays
<1>3. n + 1 \in 0 .. MAX_ARGS + 1 /\ n + 2 \in 0 .. MAX_ARGS + 1
  <2>1. PICK l \in Nat : l = Len(job[t].cmd) BY <1>2 DEF Jobs
  <2>2. PICK m \in 0 .. MAX_ARGS + 1 : m = n BY <1>2 DEF Jobs
  <2>3. l <= MAX_ARGS BY <2>1 DEF IInv, Sound, Sent
  <2>4. m < l BY <1>1, <2>1, <2>2
  <2>5. m + 1 \in 0 .. MAX_ARGS + 1 /\ m + 2 \in 0 .. MAX_ARGS + 1 BY <2>3, <2>4, Numbers
  <2> QED BY <2>2, <2>5
<1>4. Kept' BY <1>1, <1>2, KeptSame
<1>5. CASE job' = [job EXCEPT ![t].n = n + 1, ![t].when = IF option = "NX" THEN "absent" ELSE "present"]
  <2> DEFINE w == IF option = "NX" THEN "absent" ELSE "present"
             j == [job[t] EXCEPT !.n = n + 1, !.when = w]
  <2>1. job' = [job EXCEPT ![t] = j] BY <1>5
  <2>2. w \in {"always", "absent", "present"} OBVIOUS
  <2> HIDE DEF w
  <2>3. j \in Jobs /\ j.pc \in Quiet /\ Parsed(j) /\ j.out = <<>> /\ j.did = 0 /\ j.cmd = job[t].cmd
    BY <1>1, <1>2, <1>3, <2>2 DEF Jobs, Parsed
  <2> HIDE DEF j
  <2> QED BY <1>1, <1>4, <2>1, <2>3, FineQuiet
<1>6. CASE job' = [job EXCEPT ![t].n = n + 1, ![t].expiry = Keep]
  <2> DEFINE j == [job[t] EXCEPT !.n = n + 1, !.expiry = Keep]
  <2>1. job' = [job EXCEPT ![t] = j] BY <1>6
  <2>2. j \in Jobs /\ j.pc \in Quiet /\ Parsed(j) /\ j.out = <<>> /\ j.did = 0 /\ j.cmd = job[t].cmd
    BY <1>1, <1>2, <1>3 DEF Jobs, Parsed
  <2> HIDE DEF j
  <2> QED BY <1>1, <1>4, <2>1, <2>2, FineQuiet
<1>7. CASE /\ u # None /\ value # None
           /\ job' = [job EXCEPT ![t].n = n + 2,
                        ![t].expiry = stamp(moment(job[t].read, value, u.scale, u.absolute))]
  <2> DEFINE x == stamp(moment(job[t].read, value, u.scale, u.absolute))
             j == [job[t] EXCEPT !.n = n + 2, !.expiry = x]
  <2>1. job' = [job EXCEPT ![t] = j] BY <1>7
  <2>2. u.scale \in Nat /\ u.scale > 0 BY <1>7, UnitIs
  <2>3. value \in Int BY <1>7, IntegerIs DEF integer
  <2>4. job[t].read \in 0 .. CLOCK_MAX BY <1>2 DEF Jobs
  <2> HIDE DEF u, value
  <2>5. moment(job[t].read, value, u.scale, u.absolute) \in Int BY <2>2, <2>3, <2>4, MomentIs
  <2>6. x \in Deadlines BY <2>5, StampIs
  <2> HIDE DEF x
  <2>7. j \in Jobs /\ j.pc \in Quiet /\ Parsed(j) /\ j.out = <<>> /\ j.did = 0 /\ j.cmd = job[t].cmd
    BY <1>1, <1>2, <1>3, <2>6 DEF Jobs, Parsed
  <2> HIDE DEF j
  <2> QED BY <1>1, <1>4, <2>1, <2>7, FineQuiet
<1>8. CASE Says(t, <<Error>>) BY <1>1, <1>4, <1>8, FineError
<1> QED BY <1>5, <1>6, <1>7, <1>8 DEF SetOption

\* SETEX and PSETEX compute a deadline the clock has, or refuse.
LEMMA TimedSetFine ==
  ASSUME IInv, NEW t \in Threads, TimedSet(t)
  PROVE  Fine(t)
<1> DEFINE value == integer(t, 2)
           scale == IF Millis(Name(job[t].cmd)) THEN SCALE ELSE 1
           x == stamp(moment(now, value, scale, FALSE))
           j == [job[t] EXCEPT !.pc = "set", !.read = now, !.expiry = x]
<1>1. job[t].pc \in Quiet /\ UNCHANGED <<dialect, store>> BY DEF TimedSet, At, Quiet
<1>2. /\ Kept /\ job[t] \in Jobs /\ job[t].out = <<>> /\ job[t].did = 0 /\ now \in 0 .. CLOCK_MAX
  BY <1>1, QuietSays DEF IInv, Shaped
<1>3. Kept' BY <1>1, <1>2, KeptSame
<1>4. CASE Says(t, <<Error>>) BY <1>1, <1>3, <1>4, FineError
<1>5. CASE value # None /\ job' = [job EXCEPT ![t].pc = "set", ![t].read = now, ![t].expiry = x]
  <2>1. job' = [job EXCEPT ![t] = j] BY <1>5
  <2>2. scale \in Nat /\ scale > 0 BY Numbers
  <2>3. value \in Int BY <1>5, IntegerIs DEF integer
  <2> HIDE DEF value, scale
  <2>4. moment(now, value, scale, FALSE) \in Int BY <1>2, <2>2, <2>3, MomentIs
  <2>5. x \in Deadlines BY <2>4, StampIs
  <2> HIDE DEF x
  <2>6. j \in Jobs /\ j.pc \in Quiet /\ Parsed(j) /\ j.out = <<>> /\ j.did = 0 /\ j.cmd = job[t].cmd
    BY <1>2, <2>5 DEF Jobs, Stages, Quiet, Parsed
  <2> HIDE DEF j
  <2> QED BY <1>1, <1>3, <2>1, <2>6, FineQuiet
<1> QED BY <1>4, <1>5 DEF TimedSet

\* The conditional write says OK, null or error as it went.
LEMMA SetWhenFine ==
  ASSUME IInv, NEW t \in Threads, SetWhen(t)
  PROVE  Fine(t)
<1> DEFINE c == job[t].cmd
           k == Key(t)
           e == [value |-> arg(c, IF Name(c) = "SET" THEN 2 ELSE 3),
                 expiry |-> IF job[t].expiry # Keep THEN job[t].expiry
                            ELSE IF Live(k) THEN store[k].expiry ELSE None]
<1>1. job[t].pc \in Quiet /\ Name(c) \in Writes /\ UNCHANGED dialect
  BY DEF SetWhen, At, Quiet, Writes
<1>2. /\ Kept /\ job[t] \in Jobs /\ dialect[t] \in {2, 3}
  BY <1>1, QuietSays
<1>3. CASE store' = Looked(k) /\ Says(t, <<Null(dialect[t])>>)
  <2>1. Kept' BY <1>2, <1>3, KeptLooked
  <2>2. Null(dialect[t]) \in Spelt(dialect[t]) /\ dialect \in [Threads -> {2, 3}]
    BY <1>1, <1>2, FramesIn, QuietSays
  <2>3. job[t].out = <<>> /\ job[t].did = 0 BY <1>1, QuietSays
  <2>4. Truth(c, Null(dialect[t]), job[t].saw, job[t].did) BY <1>1, <1>2, <2>3, TruthOfWrite
  <2> QED BY <1>1, <1>3, <2>1, <2>2, <2>3, <2>4, FineSays
<1>4. CASE Stores(k, e) /\ SaysOf(t, <<Simple>>, None, 1)
  <2>1. k \in Keys => IsEntry(e)
    <3> SUFFICES ASSUME k \in Keys PROVE IsEntry(e) OBVIOUS
    <3>1. job[t].expiry \in Deadlines \cup {Keep} BY <1>2 DEF Jobs
    <3>2. Live(k) => store[k].expiry \in Deadlines BY <1>2, DeadlineIs
    <3>3. (IF job[t].expiry # Keep THEN job[t].expiry ELSE IF Live(k) THEN store[k].expiry ELSE None) \in Deadlines
      BY <3>1, <3>2 DEF Deadlines
    <3> QED BY <3>3, EntryMade
  <2>2. Kept' BY <1>2, <1>4, <2>1, KeptStored
  <2>3. Simple \in Spelt(dialect[t]) /\ None \in Sights BY <1>2, FramesIn DEF Sights
  <2>4. Truth(c, Simple, None, 1) BY <1>1, TruthOfWrite
  <2> HIDE DEF e
  <2> QED BY <1>1, <1>4, <2>2, <2>3, <2>4, FineTold
<1>5. CASE store' = Looked(k) /\ Says(t, <<Error>>)
  <2>1. Kept' BY <1>2, <1>5, KeptLooked
  <2> QED BY <1>1, <1>5, <2>1, FineError
<1> QED BY <1>3, <1>4, <1>5 DEF SetWhen

\* EXPIRE, TTL and their neighbours read the clock once their arguments are in order.
LEMMA TimedFine ==
  ASSUME IInv, NEW t \in Threads, Timed(t)
  PROVE  Fine(t)
<1> DEFINE j == [job[t] EXCEPT !.pc = "timed", !.read = now]
<1>1. job[t].pc \in Quiet /\ UNCHANGED <<dialect, store>> BY DEF Timed, At, Quiet
<1>2. /\ Kept /\ job[t] \in Jobs /\ job[t].out = <<>> /\ job[t].did = 0 /\ now \in 0 .. CLOCK_MAX
  BY <1>1, QuietSays DEF IInv, Shaped
<1>3. Kept' BY <1>1, <1>2, KeptSame
<1>4. CASE Says(t, <<Error>>) BY <1>1, <1>3, <1>4, FineError
<1>6. Name(job[t].cmd) \in {"TTL", "PTTL"} => arg(job[t].cmd, 1) \in Keys
  <2> SUFFICES ASSUME Name(job[t].cmd) \in {"TTL", "PTTL"} PROVE arg(job[t].cmd, 1) \in Keys OBVIOUS
  <2>1. Len(job[t].cmd) = 2 BY DEF Timed, Fits, arity
  <2>2. Sent(job[t].cmd) BY DEF IInv, Sound
  <2> QED BY <2>1, <2>2 DEF Sent
<1>5. CASE /\ Name(job[t].cmd) \in Expires => integer(t, 2) # None
           /\ job' = [job EXCEPT ![t].pc = "timed", ![t].read = now]
  <2>1. job' = [job EXCEPT ![t] = j] BY <1>5
  <2>2. j \in Jobs /\ j.pc \in Quiet /\ Parsed(j) /\ j.out = <<>> /\ j.did = 0 /\ j.cmd = job[t].cmd
    BY <1>2, <1>5, <1>6 DEF Jobs, Stages, Quiet, Parsed, integer
  <2> HIDE DEF j
  <2> QED BY <1>1, <1>3, <2>1, <2>2, FineQuiet
<1> QED BY <1>4, <1>5 DEF Timed, Expires

\* An expiry that says how many entries it changed.
LEMMA TruthOfExpiry ==
  ASSUME NEW c, Name(c) \in Expires, NEW saw, NEW n \in Int
  PROVE  Truth(c, Integer(n), saw, n)
<1>1. ToldOf(c, Integer(n), n) BY FramesApart DEF ToldOf, Writes, Removes, Expires
<1>2. ApartOf(c, Integer(n), saw) /\ ExactOf(c, Integer(n), saw, n) BY DEF ApartOf, ExactOf, Counters, Expires
<1> QED BY <1>1, <1>2 DEF Truth

\* EXPIRE removes, dates or finds nothing, and says which.
LEMMA ExpireFine ==
  ASSUME IInv, NEW t \in Threads, Expire(t)
  PROVE  Fine(t)
<1> DEFINE c == job[t].cmd
           k == Key(t)
           value == integer(t, 2)
           scale == IF Millis(Name(c)) THEN SCALE ELSE 1
           at == moment(job[t].read, value, scale, Absolute(Name(c)))
           went == IF store[k] # None THEN 1 ELSE 0
<1>1. job[t].pc \in Quiet /\ Name(c) \in Expires /\ UNCHANGED dialect
  BY DEF Expire, At, Quiet, Expires
<1>2. /\ Kept /\ job \in [Threads -> Jobs] /\ job[t] \in Jobs /\ job[t].out = <<>> /\ job[t].did = 0
      /\ dialect[t] \in {2, 3} /\ dialect \in [Threads -> {2, 3}]
  BY <1>1, QuietSays
<1>3. CASE SaysOf(t, <<Integer(went)>>, None, went) /\ store' = [store EXCEPT ![k] = None]
  <2>1. Kept' BY <1>2, <1>3, KeptErased
  <2>2. went \in Nat /\ went \in Int /\ None \in Sights BY DEF Sights
  <2> HIDE DEF went
  <2>3. Integer(went) \in Spelt(dialect[t]) BY <1>2, <2>2, FramesIn
  <2>4. Truth(c, Integer(went), None, went) BY <1>1, <2>2, TruthOfExpiry
  <2> QED BY <1>1, <1>3, <2>1, <2>2, <2>3, <2>4, FineTold
<1>4. CASE store' = Looked(k) /\ Says(t, <<Integer(0)>>)
  <2>1. Kept' BY <1>2, <1>4, KeptLooked
  <2>2. Integer(0) \in Spelt(dialect[t]) BY <1>2, FramesIn
  <2>3. Truth(c, Integer(0), job[t].saw, job[t].did) BY <1>1, <1>2, TruthOfExpiry
  <2> QED BY <1>1, <1>2, <1>4, <2>1, <2>2, <2>3, FineSays
<1>5. CASE /\ Live(k) /\ store' = [store EXCEPT ![k].expiry = stamp(at)]
           /\ job' = [job EXCEPT ![t].pc = "done", ![t].out = <<Integer(1)>>, ![t].did = 1,
                                 ![t].expiry = stamp(at)]
  <2> DEFINE f == Integer(1)
             x == stamp(at)
             j == [job[t] EXCEPT !.pc = "done", !.out = <<f>>, !.did = 1, !.expiry = x]
  <2>1. x = x /\ scale \in Nat /\ scale > 0 BY Numbers
  <2>2. x \in Deadlines
    <3>1. value = None \/ value \in Int BY IntegerIs DEF integer
    <3>2. value # None
      <4>1. job[t].pc = "timed" /\ Name(c) \in Expires BY <1>1 DEF Expire, At
      <4> QED BY <4>1 DEF IInv, Sound, Early, Parsed, integer
    <3>3. job[t].read \in 0 .. CLOCK_MAX BY <1>2 DEF Jobs
    <3> HIDE DEF value, scale
    <3>4. at \in Int BY <2>1, <3>1, <3>2, <3>3, MomentIs
    <3> HIDE DEF at
    <3> QED BY <3>4, StampIs
  <2> HIDE DEF at, x
  <2>3. Kept' BY <1>2, <1>5, <2>2, KeptDated DEF x
  <2>4. f \in Spelt(dialect[t]) BY <1>2, FramesIn
  <2>5. <<f>> \in Seq(Frames) /\ f \in Frames BY <2>4 DEF Spelt
  <2>6. job' = [job EXCEPT ![t] = j] BY <1>5 DEF x
  <2> HIDE DEF f
  <2>7. j \in Jobs BY <1>2, <2>2, <2>5 DEF Jobs, Stages
  <2>8. j.pc = "done" /\ j.cmd = c /\ j.out = <<f>> /\ j.saw = job[t].saw /\ j.did = 1 BY <1>2 DEF Jobs
  <2> HIDE DEF j
  <2>9. job' \in [Threads -> Jobs] /\ job'[t] = j /\ \A u \in Threads : u # t => job'[u] = job[u] BY <1>2, <2>6, <2>7
  <2>10. <<>> \o <<f>> = <<f>> /\ 0 + 1 = 1 OBVIOUS
  <2>11. Ended(t, <<f>>, job[t].saw, 1) BY <1>2, <2>8, <2>9, <2>10 DEF Ended
  <2>12. Truth(c, f, job[t].saw, 1) BY <1>1, TruthOfExpiry DEF f
  <2>13. Sound(job'[t], dialect[t]) BY <1>2, <2>4, <2>10, <2>11, <2>12, SaidAtOnce DEF IInv
  <2> QED BY <1>1, <1>2, <2>3, <2>9, <2>13 DEF Fine
<1>6. CASE UNCHANGED store /\ Says(t, <<Error>>) BY <1>1, <1>2, <1>6, KeptSame, FineError
<1> QED BY <1>3, <1>4, <1>5, <1>6 DEF Expire

\* An answer about a time to live that tells the three cases apart.
LEMMA TruthOfTtl ==
  ASSUME NEW c, Name(c) \in {"TTL", "PTTL"}, NEW n \in Int, NEW saw,
         (saw = "absent" /\ n = -2) \/ (saw = "never" /\ n = -1) \/ (saw = "timed" /\ n >= 0)
  PROVE  Truth(c, Integer(n), saw, 0)
<1>1. ToldOf(c, Integer(n), 0) /\ ExactOf(c, Integer(n), saw, 0)
  BY DEF ToldOf, ExactOf, Writes, Removes, Expires, Counters
<1>2. Integer(n)[2] = n BY FramesApart
<1>3. /\ n = -2 <=> saw = "absent"
      /\ n = -1 <=> saw = "never"
      /\ n >= 0 <=> saw = "timed"
  OBVIOUS
<1>4. ApartOf(c, Integer(n), saw) BY <1>2, <1>3 DEF ApartOf
<1> QED BY <1>1, <1>4 DEF Truth

\* What is left of a time to live is never less than nothing.
LEMMA LeftIs ==
  ASSUME NEW x \in Nat, NEW read \in Nat, NEW scale \in Nat
  PROVE  Left(x, read) * scale \in Nat
<1>1. PICK l \in Nat : l = Left(x, read)
  <2>1. x > read => x - read \in Nat OBVIOUS
  <2>2. Left(x, read) = x - read \/ Left(x, read) = 0 BY DEF Left
  <2>3. Left(x, read) \in Nat BY <2>1, <2>2 DEF Left
  <2> QED BY <2>3
<1>2. l * scale \in Nat OBVIOUS
<1> QED BY <1>1, <1>2

\* TTL and PTTL answer -2, -1 or what is left.
LEMMA TtlFine ==
  ASSUME IInv, NEW t \in Threads, Ttl(t)
  PROVE  Fine(t)
<1> DEFINE c == job[t].cmd
           k == Key(t)
           saw == IF ~Live(k) THEN "absent" ELSE IF store[k].expiry = None THEN "never" ELSE "timed"
           scale == IF Name(c) = "PTTL" THEN SCALE ELSE 1
           left == CASE saw = "absent" -> -2
                     [] saw = "never" -> -1
                     [] saw = "timed" -> Left(store[k].expiry, job[t].read) * scale
<1>1. /\ job[t].pc \in Quiet /\ Name(c) \in {"TTL", "PTTL"} /\ UNCHANGED dialect
      /\ store' = Looked(k) /\ SaysOf(t, <<Integer(left)>>, saw, 0) /\ job[t].pc = "timed"
  BY DEF Ttl, At, Quiet
<1>2. Kept /\ job[t] \in Jobs /\ dialect[t] \in {2, 3} BY <1>1, QuietSays
<1>3. k \in Keys BY <1>1 DEF IInv, Sound, Early, Parsed, Key
<1>4. Kept' BY <1>1, <1>2, KeptLooked
<1>5. \/ saw = "absent" /\ left = -2
      \/ saw = "never" /\ left = -1
      \/ saw = "timed" /\ left \in Nat
  <2>1. CASE saw = "absent" \/ saw = "never" BY <2>1
  <2>2. CASE saw = "timed"
    <3>1. left = Left(store[k].expiry, job[t].read) * scale BY <2>2
    <3>2. Live(k) /\ store[k].expiry # None BY <2>2
    <3>3. store[k].expiry \in Nat BY <1>2, <1>3, <3>2, DeadlineIs, Numbers DEF Deadlines
    <3>4. job[t].read \in Nat BY <1>2, Numbers DEF Jobs
    <3>5. scale \in Nat BY Numbers
    <3> HIDE DEF left, saw, scale
    <3> QED BY <2>2, <3>1, <3>3, <3>4, <3>5, LeftIs
  <2> QED BY <2>1, <2>2
<1>6. saw \in {"absent", "never", "timed"} BY <1>5
<1> HIDE DEF saw, left
<1>7. saw \in Sights BY <1>6 DEF Sights
<1>8. PICK n \in Int :
        n = left /\ ((saw = "absent" /\ n = -2) \/ (saw = "never" /\ n = -1) \/ (saw = "timed" /\ n >= 0))
  BY <1>5
<1>9. Integer(n) \in Spelt(dialect[t]) BY <1>2, FramesIn
<1>10. Truth(c, Integer(n), saw, 0) BY <1>1, <1>8, TruthOfTtl
<1> QED BY <1>1, <1>4, <1>7, <1>8, <1>9, <1>10, FineTold

\* PERSIST looks, and then clears.
LEMMA PersistFine ==
  ASSUME IInv, NEW t \in Threads, Persist(t)
  PROVE  Fine(t)
<1> DEFINE k == Key(t)
           hits == IF Live(k) /\ store[k].expiry # None THEN 1 ELSE 0
           j == [job[t] EXCEPT !.pc = "persist", !.hits = hits]
<1>1. job[t].pc \in Quiet /\ Name(job[t].cmd) = "PERSIST" /\ UNCHANGED dialect BY DEF Persist, At, Quiet
<1>2. /\ Kept /\ job[t] \in Jobs /\ job[t].out = <<>> /\ job[t].did = 0 /\ dialect[t] \in {2, 3}
  BY <1>1, QuietSays
<1>3. Name(job[t].cmd) \notin Judged BY <1>1 DEF Judged, Writes, Removes, Expires, Counters
<1>4. CASE job' = [job EXCEPT ![t].pc = "persist", ![t].hits = hits] /\ store' = Looked(k)
  <2>1. Kept' BY <1>2, <1>4, KeptLooked
  <2>2. job' = [job EXCEPT ![t] = j] BY <1>4
  <2>3. hits \in Nat OBVIOUS
  <2> HIDE DEF hits
  <2>4. j \in Jobs /\ j.pc \in Quiet /\ Parsed(j) /\ j.out = <<>> /\ j.did = 0 /\ j.cmd = job[t].cmd
    BY <1>2, <2>3 DEF Jobs, Stages, Quiet, Parsed
  <2> HIDE DEF j
  <2> QED BY <1>1, <2>1, <2>2, <2>4, FineQuiet
<1>5. CASE /\ store' = IF Live(k) THEN [store EXCEPT ![k].expiry = None] ELSE Looked(k)
           /\ Says(t, <<Integer(job[t].hits)>>)
  <2>1. Kept'
    <3>1. CASE Live(k)
      <4>1. store' = [store EXCEPT ![k].expiry = None] /\ None \in Deadlines BY <1>5, <3>1 DEF Deadlines
      <4> QED BY <1>2, <3>1, <4>1, KeptDated
    <3>2. CASE ~Live(k) BY <1>2, <1>5, <3>2, KeptLooked
    <3> QED BY <3>1, <3>2
  <2>2. job[t].hits \in Int BY <1>2 DEF Jobs
  <2>3. Integer(job[t].hits) \in Spelt(dialect[t]) BY <1>2, <2>2, FramesIn
  <2> QED BY <1>1, <1>3, <1>5, <2>1, <2>3, FineOther
<1>6. CASE UNCHANGED store /\ Says(t, <<Error>>) BY <1>1, <1>2, <1>6, KeptSame, FineError
<1> QED BY <1>4, <1>5, <1>6 DEF Persist

\* DBSIZE adds a shard's count.
LEMMA DbSizeFine ==
  ASSUME IInv, NEW t \in Threads, DbSize(t)
  PROVE  Fine(t)
<1> DEFINE count == Cardinality({k \in Shards[job[t].n + 1] : store[k] # None})
           n == job[t].n + 1
           hits == job[t].hits + count
           j == [job[t] EXCEPT !.n = n, !.hits = hits]
<1>1. /\ job[t].pc = "run" /\ job[t].pc \in Quiet /\ UNCHANGED <<dialect, store>> /\ job[t].n < Len(Shards)
      /\ job' = [job EXCEPT ![t] = j]
  BY DEF DbSize, At, Quiet
<1>2. /\ Kept /\ job[t] \in Jobs /\ job[t].out = <<>> /\ job[t].did = 0
  BY <1>1, QuietSays DEF IInv, Shaped
<1>3. job[t].n \in Nat /\ job[t].hits \in Nat BY <1>2 DEF Jobs
<1>4. Shards \in Seq(SUBSET Keys) /\ Len(Shards) <= MAX_ARGS /\ IsFiniteSet(Keys) /\ MAX_ARGS \in Nat
  BY DispatchAssumption
<1>5. Shards[job[t].n + 1] \subseteq Keys BY <1>1, <1>3, <1>4
<1>6. count \in Nat
  <2>1. {k \in Shards[job[t].n + 1] : store[k] # None} \subseteq Keys BY <1>5
  <2> QED BY <1>4, <2>1, FS_Subset, FS_CardinalityType
<1>7. n \in 0 .. MAX_ARGS + 1 BY <1>1, <1>3, <1>4
<1> HIDE DEF count
<1>11. hits \in Nat BY <1>3, <1>6
<1> HIDE DEF n, hits
<1>8. j \in Jobs /\ j.pc = "run" /\ j.out = <<>> /\ j.did = 0 /\ j.cmd = job[t].cmd
  BY <1>1, <1>2, <1>7, <1>11 DEF Jobs
<1> HIDE DEF j
<1>9. j.pc \in Quiet /\ Parsed(j) BY <1>8 DEF Quiet, Parsed
<1>10. Kept' BY <1>1, <1>2, KeptSame
<1> QED BY <1>1, <1>8, <1>9, <1>10, FineQuiet

\* FLUSHALL leaves a shard with no entries.
LEMMA FlushAllFine ==
  ASSUME IInv, NEW t \in Threads, FlushAll(t)
  PROVE  Fine(t)
<1> DEFINE j == [job[t] EXCEPT !.n = job[t].n + 1]
<1>1. /\ job[t].pc = "run" /\ job[t].pc \in Quiet /\ UNCHANGED dialect /\ job[t].n < Len(Shards)
      /\ job' = [job EXCEPT ![t] = j]
  BY DEF FlushAll, At, Quiet
<1>2. /\ Kept /\ job[t] \in Jobs /\ job[t].out = <<>> /\ job[t].did = 0
  BY <1>1, QuietSays DEF IInv, Shaped
<1>3. Kept' BY <1>2 DEF FlushAll, Kept
<1>4. job[t].n + 1 \in 0 .. MAX_ARGS + 1 BY <1>1, <1>2, DispatchAssumption DEF Jobs
<1>5. j \in Jobs /\ j.pc = "run" /\ j.out = <<>> /\ j.did = 0 /\ j.cmd = job[t].cmd
  BY <1>1, <1>2, <1>4 DEF Jobs
<1> HIDE DEF j
<1>6. j.pc \in Quiet /\ Parsed(j) BY <1>5 DEF Quiet, Parsed
<1> QED BY <1>1, <1>3, <1>5, <1>6, FineQuiet

\* Past the last shard they answer a number, or that it was done.
LEMMA ShardsEndFine ==
  ASSUME IInv, NEW t \in Threads, ShardsEnd(t)
  PROVE  Fine(t)
<1> DEFINE f == IF Name(job[t].cmd) = "DBSIZE" THEN Integer(job[t].hits) ELSE Simple
<1>1. /\ job[t].pc \in Quiet /\ Name(job[t].cmd) \in {"DBSIZE", "FLUSHALL", "FLUSHDB"}
      /\ UNCHANGED <<dialect, store>> /\ Says(t, <<f>>)
  BY DEF ShardsEnd, At, Quiet
<1>2. Kept /\ job[t] \in Jobs /\ dialect[t] \in {2, 3} BY <1>1, QuietSays DEF IInv, Shaped
<1>3. Name(job[t].cmd) \notin Judged BY <1>1 DEF Judged, Writes, Removes, Expires, Counters
<1>4. job[t].hits \in Int BY <1>2 DEF Jobs
<1>5. f \in Spelt(dialect[t]) BY <1>2, <1>4, FramesIn
<1> HIDE DEF f
<1>6. Kept' BY <1>1, <1>2, KeptSame
<1> QED BY <1>1, <1>3, <1>5, <1>6, FineOther

\* A reply of several frames, of a command no property speaks of.
LEMMA FineFrames ==
  ASSUME IInv, NEW t \in Threads, job[t].pc \in Quiet, Name(job[t].cmd) \notin Judged, Kept',
         dialect' \in [Threads -> {2, 3}], \A u \in Threads : u # t => dialect'[u] = dialect[u],
         NEW frames \in Seq(Spelt(dialect'[t])), Says(t, frames)
  PROVE  Fine(t)
<1>1. Shaped /\ Sent(job[t].cmd) /\ job[t].out = <<>> BY QuietSays DEF IInv, Sound
<1>2. Seq(Spelt(dialect'[t])) \subseteq Seq(Frames) BY DEF Spelt
<1>3. Ended(t, frames, job[t].saw, 0) BY <1>1, <1>2, SaysEnds
<1>4. <<>> \o frames = frames OBVIOUS
<1>5. job'[t].out = frames BY <1>1, <1>3, <1>4 DEF Ended
<1>6. Truth(job'[t].cmd, FirstOf(job'[t]), job'[t].saw, job'[t].did) BY <1>3, TruthOfOthers DEF Ended
<1>7. Sound(job'[t], dialect'[t])
  <2>1. Early(job'[t]) /\ Halfway(job'[t], dialect'[t]) BY <1>3 DEF Ended, Early, Halfway, Parsed
  <2>2. Answered(job'[t], dialect'[t]) BY <1>5, <1>6 DEF Answered
  <2>3. Sent(job'[t].cmd) BY <1>1, <1>3 DEF Ended
  <2> QED BY <2>1, <2>2, <2>3 DEF Sound
<1> QED BY <1>3, <1>7 DEF Fine, Ended

\* PING, ECHO, SELECT and QUIT answer one frame.
LEMMA TalkFine ==
  ASSUME IInv, NEW t \in Threads, Talk(t)
  PROVE  Fine(t)
<1> DEFINE c == job[t].cmd
<1>1. job[t].pc \in Quiet /\ Name(c) \in {"PING", "ECHO", "SELECT", "QUIT"} /\ UNCHANGED <<dialect, store>>
  BY DEF Talk, At, Quiet
<1>2. Kept' BY <1>1, KeptSame, QuietSays
<1>3. Simple \in Spelt(dialect[t]) /\ Bulk \in Spelt(dialect[t]) /\ Error \in Spelt(dialect[t])
  BY <1>1, FramesIn, QuietSays
<1>4. Name(c) \notin Judged BY <1>1 DEF Judged, Writes, Removes, Expires, Counters
<1>5. Says(t, <<Simple>>) \/ Says(t, <<Bulk>>) \/ Says(t, <<Error>>) BY <1>1 DEF Talk
<1> QED BY <1>1, <1>2, <1>3, <1>4, <1>5, FineOther

\* The greeting in dialect d is in dialect d.
LEMMA GreetingIn ==
  ASSUME NEW d \in {2, 3}
  PROVE  greeting(d) \in Seq(Spelt(d))
<1>1. Bulk \in Spelt(d) /\ Integer(d) \in Spelt(d) /\ Integer(0) \in Spelt(d) /\ MapOf(d, 7) \in Spelt(d) /\ Array(0) \in Spelt(d)
  BY FramesIn
<1> QED BY <1>1 DEF greeting

\* HELLO agrees to a dialect and greets in that one, or refuses.
LEMMA HelloFine ==
  ASSUME IInv, NEW t \in Threads, Hello(t)
  PROVE  Fine(t)
<1> DEFINE d == IF Len(job[t].cmd) = 1 THEN dialect[t] ELSE integer(t, 1)
<1>1. job[t].pc \in Quiet /\ Name(job[t].cmd) = "HELLO" /\ UNCHANGED store BY DEF Hello, At, Quiet
<1>2. Kept' BY <1>1, KeptSame, QuietSays
<1>3. Name(job[t].cmd) \notin Judged BY <1>1 DEF Judged, Writes, Removes, Expires, Counters
<1>4. CASE Says(t, <<Error>>) /\ UNCHANGED dialect BY <1>1, <1>2, <1>4, FineError
<1>5. CASE d \in {2, 3} /\ dialect' = [dialect EXCEPT ![t] = d] /\ Says(t, hello(t, d))
  <2> HIDE DEF d
  <2>1. dialect \in [Threads -> {2, 3}] BY <1>1, QuietSays
  <2>2. dialect' \in [Threads -> {2, 3}] /\ dialect'[t] = d /\ \A u \in Threads : u # t => dialect'[u] = dialect[u]
    BY <1>5, <2>1
  <2>3. greeting(d) \in Seq(Spelt(dialect'[t])) BY <1>5, <2>2, GreetingIn
  <2>4. Says(t, greeting(d)) BY <1>5 DEF hello
  <2> QED BY <1>1, <1>2, <1>3, <2>2, <2>3, <2>4, FineFrames
<1> QED BY <1>4, <1>5 DEF Hello

\* RESET goes back to the first dialect.
LEMMA ResetFine ==
  ASSUME IInv, NEW t \in Threads, Reset(t)
  PROVE  Fine(t)
<1>1. job[t].pc \in Quiet /\ Name(job[t].cmd) = "RESET" /\ UNCHANGED store BY DEF Reset, At, Quiet
<1>2. Kept' BY <1>1, KeptSame, QuietSays
<1>3. Name(job[t].cmd) \notin Judged BY <1>1 DEF Judged, Writes, Removes, Expires, Counters
<1>4. dialect \in [Threads -> {2, 3}] BY <1>1, QuietSays
<1>5. dialect' \in [Threads -> {2, 3}] /\ dialect'[t] = 2 /\ \A u \in Threads : u # t => dialect'[u] = dialect[u]
  BY <1>4 DEF Reset
<1>6. Simple \in Spelt(dialect'[t]) BY <1>5, FramesIn
<1>7. <<Simple>> \in Seq(Spelt(dialect'[t])) BY <1>6
<1> QED BY <1>1, <1>2, <1>3, <1>5, <1>7, FineFrames DEF Reset

\* How many settings the names of a CONFIG GET ask for is a number.
LEMMA Found ==
  ASSUME NEW c \in Seq(STRING)
  PROVE  Cardinality({p \in (3 .. Len(c)) \X DOMAIN Settings : c[p[1]] \in {"*", Settings[p[2]]}}) \in Nat
<1> DEFINE S == {p \in (3 .. Len(c)) \X DOMAIN Settings : c[p[1]] \in {"*", Settings[p[2]]}}
<1>1. IsFiniteSet(3 .. Len(c)) BY FS_Interval
<1>2. IsFiniteSet(DOMAIN Settings)
  <2>1. PICK a \in Int, b \in Int : a = 1 /\ b = 4 OBVIOUS
  <2>2. IsFiniteSet(a .. b) BY FS_Interval
  <2>3. DOMAIN Settings = 1 .. 4 BY DEF Settings
  <2> QED BY <2>1, <2>2, <2>3
<1>3. IsFiniteSet((3 .. Len(c)) \X DOMAIN Settings) BY <1>1, <1>2, FS_Product
<1>4. S \subseteq (3 .. Len(c)) \X DOMAIN Settings OBVIOUS
<1> HIDE DEF S
<1>5. IsFiniteSet(S) BY <1>3, <1>4, FS_Subset
<1>6. Cardinality(S) \in Nat BY <1>5, FS_CardinalityType
<1> QED BY <1>6 DEF S

\* Settings and their values, behind a header, in the client's dialect.
LEMMA ConfigIn ==
  ASSUME NEW t \in Threads, dialect[t] \in {2, 3}, job[t].cmd \in Seq(STRING)
  PROVE  Config(t) \in Seq(Spelt(dialect[t]))
<1> DEFINE c == job[t].cmd
           found == Cardinality({p \in (3 .. Len(c)) \X DOMAIN Settings : c[p[1]] \in {"*", Settings[p[2]]}})
           bulks == [i \in 1 .. 2 * found |-> Bulk]
<1>1. found \in Nat BY Found
<1>2. Config(t) = <<MapOf(dialect[t], found)>> \o bulks BY DEF Config, Heads
<1> HIDE DEF found
<1>3. MapOf(dialect[t], found) \in Spelt(dialect[t]) /\ Bulk \in Spelt(dialect[t]) BY <1>1, FramesIn
<1>4. bulks \in Seq(Spelt(dialect[t]))
  <2>1. PICK n \in Nat : n = 2 * found BY <1>1
  <2>2. [i \in 1 .. n |-> Bulk] \in Seq(Spelt(dialect[t])) BY <1>3
  <2> QED BY <2>1, <2>2
<1> HIDE DEF bulks
<1>5. <<MapOf(dialect[t], found)>> \in Seq(Spelt(dialect[t])) BY <1>3
<1> QED BY <1>2, <1>4, <1>5

\* INFO, COMMAND, CONFIG and CLIENT answer in their client's dialect.
LEMMA AskFine ==
  ASSUME IInv, NEW t \in Threads, Ask(t)
  PROVE  Fine(t)
<1> DEFINE c == job[t].cmd
           d == dialect[t]
<1>1. job[t].pc \in Quiet /\ Name(c) \in {"INFO", "COMMAND", "CONFIG", "CLIENT"} /\ UNCHANGED <<dialect, store>>
  BY DEF Ask, At, Quiet
<1>2. Kept' /\ d \in {2, 3} /\ dialect \in [Threads -> {2, 3}] BY <1>1, KeptSame, QuietSays
<1>3. Name(c) \notin Judged BY <1>1 DEF Judged, Writes, Removes, Expires, Counters
<1>4. c \in Seq(STRING) BY <1>1, QuietSays DEF Jobs
<1>5. Config(t) \in Seq(Spelt(d)) BY <1>2, <1>4, ConfigIn
<1>6. /\ Bulk \in Spelt(d) /\ Integer(0) \in Spelt(d) /\ MapOf(d, 0) \in Spelt(d) /\ Null(d) \in Spelt(d)
      /\ Array(0) \in Spelt(d) /\ Simple \in Spelt(d)
  BY <1>2, FramesIn
<1>7. PICK frames : Says(t, frames) /\ (frames = Config(t) \/ \E f \in Spelt(d) : frames = <<f>>)
  BY <1>1, <1>6 DEF Ask
<1>8. frames \in Seq(Spelt(d))
  <2>1. \A f \in Spelt(d) : <<f>> \in Seq(Spelt(d)) OBVIOUS
  <2> QED BY <1>5, <1>7, <2>1
<1> QED BY <1>1, <1>2, <1>3, <1>7, <1>8, FineFrames

\* The server ends in the middle of whatever commands there are.
LEMMA ShutdownFine ==
  ASSUME IInv, NEW t \in Threads, Shutdown(t)
  PROVE  Fine(t)
<1>1. UNCHANGED <<store, dialect, job>> BY DEF Shutdown
<1>2. Shaped /\ Sound(job[t], dialect[t]) BY DEF IInv
<1>3. Kept' BY <1>1, <1>2, KeptSame DEF Shaped
<1> QED BY <1>1, <1>2, <1>3 DEF Fine, Shaped

\* A thread between two commands, and one that has just been given one.
LEMMA Blank ==
  ASSUME NEW j, j.pc \in {"idle", "run"}, j.out = <<>>, j.did = 0, Sent(j.cmd), NEW d
  PROVE  Sound(j, d)
<1>1. Early(j) /\ Halfway(j, d) /\ Answered(j, d) BY DEF Early, Parsed, Halfway, Answered
<1> QED BY <1>1 DEF Sound

\* No command in hand is as it should be in any dialect.
LEMMA IdleSound ==
  ASSUME NEW d
  PROVE  Idle \in Jobs /\ Sound(Idle, d)
<1>1. Sent(<<>>)
  <2>1. Name(<<>>) = "" /\ Len(<<>>) = 0 BY DEF Name, arg
  <2>2. Name(<<>>) \notin {"TTL", "PTTL"} BY <2>1
  <2>3. 0 <= MAX_ARGS BY Numbers
  <2>4. Len(<<>>) <= MAX_ARGS BY <2>1, <2>3
  <2> QED BY <2>2, <2>4 DEF Sent
<1>2. 0 \in 0 .. MAX_ARGS + 1 /\ 0 \in 0 .. CLOCK_MAX BY Numbers
<1>3. None \in Sights /\ None \in Deadlines \cup {Keep} /\ "idle" \in Stages BY DEF Sights, Deadlines, Stages
<1>4. <<>> \in Seq(Frames) /\ <<>> \in Seq(STRING) OBVIOUS
<1>5. Idle \in Jobs
  <2> HIDE DEF Sights, Deadlines, Stages, Frames
  <2> QED BY <1>2, <1>3, <1>4 DEF Idle, Jobs
<1>6. Idle.pc = "idle" /\ Idle.cmd = <<>> /\ Idle.out = <<>> /\ Idle.did = 0 BY DEF Idle
<1> QED BY <1>1, <1>5, <1>6, Blank

\* A command that begins has said and changed nothing.
LEMMA BeginFine ==
  ASSUME IInv, NEW t \in Threads, NEW c \in CommandsOf[t], Begin(t, c)
  PROVE  Fine(t)
<1>1. Sent(c) /\ c \in Seq(STRING)
  <2>1. c \in Seq(STRING) /\ Len(c) <= MAX_ARGS BY DispatchAssumption
  <2>2. Name(c) \in {"TTL", "PTTL"} /\ Len(c) = 2 => arg(c, 1) \in Keys
    <3> SUFFICES ASSUME Name(c) \in {"TTL", "PTTL"}, Len(c) = 2 PROVE arg(c, 1) \in Keys OBVIOUS
    <3>1. arg(c, 1) = c[2] BY DEF arg
    <3>2. Name(c) \in (Strings \cup Keyspace) \ {"DBSIZE", "FLUSHALL", "FLUSHDB"} BY DEF Strings, Keyspace
    <3>3. 2 \in 2 .. Len(c) OBVIOUS
    <3> QED BY <3>1, <3>2, <3>3, KeysAssumption
  <2> QED BY <2>1, <2>2 DEF Sent
<1> DEFINE j == [Idle EXCEPT !.pc = "run", !.cmd = c]
<1>5. Idle \in Jobs BY IdleSound
<1>6. j \in Jobs BY <1>1, <1>5 DEF Jobs, Stages
<1>7. j.pc = "run" /\ j.cmd = c /\ j.out = Idle.out /\ j.did = Idle.did BY <1>5 DEF Jobs
<1>8. Idle.out = <<>> /\ Idle.did = 0 BY DEF Idle
<1>2. j \in Jobs /\ Sound(j, dialect[t])
  <2> HIDE DEF j
  <2> QED BY <1>1, <1>6, <1>7, <1>8, Blank
<1>3. job' = [job EXCEPT ![t] = j] /\ UNCHANGED <<dialect, store>> BY DEF Begin
<1>4. Kept' BY <1>3, KeptSame DEF IInv, Shaped
<1> HIDE DEF j
<1> QED BY <1>2, <1>3, <1>4, FineStep

\* A command whose reply is taken leaves none in hand.
LEMMA ReturnFine ==
  ASSUME IInv, NEW t \in Threads, Return(t)
  PROVE  Fine(t)
<1>1. dialect \in [Threads -> {2, 3}] /\ job \in [Threads -> Jobs] /\ Kept BY DEF IInv, Shaped
<1>2. dialect' \in [Threads -> {2, 3}] /\ \A u \in Threads : u # t => dialect'[u] = dialect[u]
  BY <1>1 DEF Return
<1>3. Kept' BY <1>1, KeptSame DEF Return
<1>4. Idle \in Jobs /\ Sound(Idle, dialect'[t]) BY IdleSound
<1>5. job' \in [Threads -> Jobs] /\ job'[t] = Idle /\ \A u \in Threads : u # t => job'[u] = job[u]
  BY <1>1, <1>4 DEF Return
<1> QED BY <1>2, <1>3, <1>4, <1>5 DEF Fine

-----------------------------------------------------------------------------
(* The theorems. *)

\* Ticks and sweeps leave the commands in hand alone.
LEMMA TimeKeeps ==
  ASSUME IInv, Tick \/ Sweep
  PROVE  IInv'
<1>1. UNCHANGED <<up, dialect, job>> BY DEF Tick, Sweep
<1>2. now' \in 0 .. CLOCK_MAX BY DEF IInv, Shaped, Tick, Sweep
<1>3. Kept'
  <2>1. CASE Tick BY <2>1, KeptSame DEF Tick, IInv, Shaped
  <2>2. CASE Sweep BY <2>2, KeptErased DEF Sweep, IInv, Shaped
  <2> QED BY <2>1, <2>2
<1>4. Shaped' BY <1>1, <1>2, <1>3 DEF IInv, Shaped
<1>5. ASSUME NEW t \in Threads PROVE Sound(job'[t], dialect'[t]) BY <1>1 DEF IInv
<1>6. (\A t \in Threads : Sound(job[t], dialect[t]))' BY <1>5
<1> QED BY <1>4, <1>6 DEF IInv

\* Any step of a command is fine, and so keeps the invariant.
LEMMA RunFine ==
  ASSUME IInv, NEW t \in Threads, Run(t) \/ Return(t) \/ \E c \in CommandsOf[t] : Begin(t, c)
  PROVE  Fine(t)
<1>1. CASE Refuse(t) BY <1>1, RefuseFine
<1>2. CASE strings(t)
  BY <1>2, GetFine, StrLenFine, CountFine, SetPlainFine, SetOptionsFine, SetOptionFine, TimedSetFine, SetWhenFine
  DEF strings
<1>3. CASE keyspace(t)
  BY <1>3, EachBeginsFine, EachKeyFine, EachPairFine, EachEndsFine, TimedFine, ExpireFine, TtlFine, PersistFine,
     DbSizeFine, FlushAllFine, ShardsEndFine
  DEF keyspace
<1>4. CASE Talk(t) BY <1>4, TalkFine
<1>5. CASE Hello(t) BY <1>5, HelloFine
<1>6. CASE Reset(t) BY <1>6, ResetFine
<1>7. CASE Ask(t) BY <1>7, AskFine
<1>8. CASE Shutdown(t) BY <1>8, ShutdownFine
<1>9. CASE Return(t) BY <1>9, ReturnFine
<1>10. CASE \E c \in CommandsOf[t] : Begin(t, c) BY <1>10, BeginFine
<1> QED BY <1>1, <1>2, <1>3, <1>4, <1>5, <1>6, <1>7, <1>8, <1>9, <1>10 DEF Run

\* Every step of a thread keeps the invariant.
LEMMA RunKeeps ==
  ASSUME IInv, NEW t \in Threads, Run(t) \/ Return(t) \/ \E c \in CommandsOf[t] : Begin(t, c)
  PROVE  IInv'
<1>1. Fine(t) BY RunFine
<1>2. up' \in BOOLEAN /\ UNCHANGED now
  BY DEF IInv, Shaped, Run, Return, Begin, Refuse, strings, Get, StrLen, Count, SetPlain, SetOptions, SetOption,
         TimedSet, SetWhen, keyspace, EachBegins, EachKey, EachPair, EachEnds, Timed, Expire, Ttl, Persist, DbSize,
         FlushAll, ShardsEnd, Talk, Hello, Reset, Ask, Shutdown
<1> QED BY <1>1, <1>2, FineKeeps

\* No command is in hand at first, and every step keeps the invariant.
LEMMA InitFine ==
  ASSUME Init
  PROVE  IInv
<1>1. Kept BY DEF Init, Kept
<1>2. job = [t \in Threads |-> Idle] /\ \A t \in Threads : job[t] = Idle BY DEF Init
<1>3. job \in [Threads -> Jobs] BY <1>2, IdleSound
<1>4. dialect \in [Threads -> {2, 3}] /\ up \in BOOLEAN /\ now \in 0 .. CLOCK_MAX BY Numbers DEF Init
<1>5. \A t \in Threads : Sound(job[t], dialect[t]) BY <1>2, IdleSound
<1> QED BY <1>1, <1>3, <1>4, <1>5 DEF IInv, Shaped

\* So does every step of the system, and a stutter.
LEMMA NextFine ==
  ASSUME IInv, [Next]_vars
  PROVE  IInv'
<1>1. CASE Tick \/ Sweep BY <1>1, TimeKeeps
<1>2. CASE \E t \in Threads : Run(t) \/ Return(t) \/ \E c \in CommandsOf[t] : Begin(t, c) BY <1>2, RunKeeps
<1>3. CASE UNCHANGED vars
  <2>1. Kept' BY <1>3, KeptSame DEF vars, IInv, Shaped
  <2>2. Shaped' BY <1>3, <2>1 DEF vars, IInv, Shaped
  <2>3. ASSUME NEW t \in Threads PROVE Sound(job'[t], dialect'[t]) BY <1>3 DEF vars, IInv
  <2>4. (\A t \in Threads : Sound(job[t], dialect[t]))' BY <2>3
  <2> QED BY <2>2, <2>4 DEF IInv
<1> QED BY <1>1, <1>2, <1>3 DEF Next

\* What every command of every client leaves behind at each of its steps: the
\* inductive invariant of dispatch.rs's functions, run by threads that share a map.
THEOREM Invariance == Spec => []IInv
BY InitFine, NextFine, PTL DEF Spec

\* The clock, every deadline and every cursor stay in range, whatever numbers the
\* clients send: stamp saturates and the cursors stop at the end of a command.
THEOREM TypeCorrect == Spec => []TypeOK
<1>1. IInv => TypeOK
  <2> SUFFICES ASSUME IInv PROVE TypeOK OBVIOUS
  <2>1. up \in BOOLEAN /\ now \in 0 .. CLOCK_MAX /\ dialect \in [Threads -> {2, 3}] BY DEF IInv, Shaped
  <2>2. \A k \in Keys : store[k] # None => store[k].expiry \in 0 .. CLOCK_MAX \cup {None}
    BY DEF IInv, Shaped, Kept, IsEntry, Deadlines
  <2>3. ASSUME NEW t \in Threads
        PROVE  /\ job[t].n \in 0 .. MAX_ARGS + 1 /\ job[t].read \in 0 .. CLOCK_MAX
               /\ job[t].when \in {"always", "absent", "present"}
    BY DEF IInv, Shaped, Jobs
  <2> QED BY <2>1, <2>2, <2>3 DEF TypeOK
<1> QED BY <1>1, Invariance, PTL

\* No reply holds a frame of a dialect its client has not agreed to, the greeting
\* of hello that agrees to one included.
THEOREM Dialects == Spec => []InDialect
<1>1. IInv => InDialect
  <2> SUFFICES ASSUME IInv, NEW t \in Threads, Done(t), NEW i \in DOMAIN job[t].out
               PROVE  job[t].out[i][1] \notin Foreign(dialect[t])
    BY DEF InDialect
  <2>1. job[t].out \in Seq(Spelt(dialect[t])) BY DEF IInv, Sound, Answered, Done
  <2>2. job[t].out[i] \in Spelt(dialect[t]) BY <2>1
  <2> QED BY <2>2 DEF Spelt
<1> QED BY <1>1, Invariance, PTL

\* A finished command's reply, and what it says of the map.
LEMMA DoneTruth ==
  ASSUME IInv, NEW t \in Threads, Done(t)
  PROVE  Truth(job[t].cmd, First(t), job[t].saw, job[t].did)
BY DEF IInv, Sound, Answered, Done, First, FirstOf

\* A reply says what happened to the map: every write was made, none, or not all,
\* and a number is how many entries went or changed, wherever among the keys of a
\* command another thread came in or the map refused.
THEOREM Told == Spec => []ToldWhatHappened
<1>1. IInv => ToldWhatHappened
  <2> SUFFICES ASSUME IInv PROVE ToldWhatHappened OBVIOUS
  <2>1. ASSUME NEW t \in Threads, Done(t) PROVE ToldOf(job[t].cmd, First(t), job[t].did)
    BY <2>1, DoneTruth DEF Truth
  <2> QED BY <2>1 DEF ToldWhatHappened, ToldOf, Writes, Removes, Expires
<1> QED BY <1>1, Invariance, PTL

\* TTL and PTTL tell a key that is gone, one without a deadline and one with a
\* deadline apart, though the clock they count from was read before the deadline.
THEOREM Apart == Spec => []AbsencesApart
<1>1. IInv => AbsencesApart
  <2> SUFFICES ASSUME IInv PROVE AbsencesApart OBVIOUS
  <2>1. ASSUME NEW t \in Threads, Done(t) PROVE ApartOf(job[t].cmd, First(t), job[t].saw)
    BY <2>1, DoneTruth DEF Truth
  <2> QED BY <2>1 DEF AbsencesApart, ApartOf
<1> QED BY <1>1, Invariance, PTL

\* A counter answers what it held plus what was asked, in the integers and not
\* modulo 2^64.
THEOREM Exactly == Spec => []CountsExactly
<1>1. IInv => CountsExactly
  <2> SUFFICES ASSUME IInv PROVE CountsExactly OBVIOUS
  <2>1. ASSUME NEW t \in Threads, Done(t) PROVE ExactOf(job[t].cmd, First(t), job[t].saw, job[t].did)
    BY <2>1, DoneTruth DEF Truth
  <2> QED BY <2>1 DEF CountsExactly, ExactOf, AskedOf, Counters, integer
<1> QED BY <1>1, Invariance, PTL

-----------------------------------------------------------------------------
(* Times to live.  LivesAsAsked is refuted for numbers near the end of i64   *)
(* (run MCDispatchEnd); of clients that send none of those it is a theorem.  *)

\* The whole part and the rest, the parts rounded up, and a smaller number of parts.
LEMMA DivIs ==
  ASSUME NEW a \in Nat, NEW g \in Nat, g > 0
  PROVE  /\ a \div g \in Nat /\ a % g \in Nat /\ a % g < g
         /\ a = g * (a \div g) + (a % g)
OBVIOUS

\* A number below the modulus is its own rest.
LEMMA ModSmall ==
  ASSUME NEW a \in Nat, NEW g \in Nat, a < g
  PROVE  a % g = a
<1>1. PICK q \in Nat, r \in Nat : q = a \div g /\ r = a % g BY DivIs
<1>2. a = g * q + r /\ r < g BY <1>1, DivIs
<1>3. q = 0
  <2>1. q >= 1 => g * q >= g OBVIOUS
  <2> QED BY <1>2, <2>1
<1> QED BY <1>1, <1>2, <1>3

\* Rounding up gives the fewest whole parts that hold the number.
LEMMA RoundedUp ==
  ASSUME NEW a \in Nat, NEW g \in Nat, g > 0, a > 0
  PROVE  \E s \in Nat : /\ s = a \div g + (IF a % g # 0 THEN 1 ELSE 0)
                        /\ s >= 1 /\ s <= a /\ s * g >= a /\ (s - 1) * g < a
<1>1. PICK q \in Nat, r \in Nat : q = a \div g /\ r = a % g BY DivIs
<1>2. a = g * q + r /\ r < g BY <1>1, DivIs
<1>3. g * q >= q OBVIOUS
<1>4. CASE r = 0
  <2>1. q >= 1 BY <1>2, <1>4
  <2>2. q * g = g * q /\ (q - 1) * g = q * g - g OBVIOUS
  <2>3. q <= a /\ q * g >= a /\ (q - 1) * g < a BY <1>2, <1>3, <1>4, <2>2
  <2> QED BY <1>1, <1>4, <2>1, <2>3
<1>5. CASE r # 0
  <2>1. (q + 1) * g = q * g + g /\ ((q + 1) - 1) * g = q * g /\ q * g = g * q OBVIOUS
  <2>2. (q + 1) * g >= a /\ ((q + 1) - 1) * g < a BY <1>2, <1>5, <2>1
  <2>3. q + 1 >= 1 /\ q + 1 <= a BY <1>2, <1>3, <1>5
  <2> QED BY <1>1, <1>5, <2>2, <2>3
<1> QED BY <1>4, <1>5

\* Fewer parts hold less.
LEMMA FewerParts ==
  ASSUME NEW s \in Int, NEW u \in Int, s <= u, NEW g \in Nat
  PROVE  s * g <= u * g
OBVIOUS

\* A sum in range is not changed by the width of an i64.
LEMMA WrappedIs ==
  ASSUME NEW n \in INT_MIN .. INT_MAX
  PROVE  Wrapped(n) = n
<1>1. INT_MAX \in Nat /\ INT_MIN \in Int /\ INT_MIN = -INT_MAX - 1 /\ n \in Int BY Numbers
<1>2. PICK w \in Nat : w = 2 * (INT_MAX + 1) BY <1>1
<1>3. PICK y \in Nat : y = n - INT_MIN /\ y < w BY <1>1, <1>2
<1>4. y % w = y BY <1>3, ModSmall
<1>5. Wrapped(n) = (y % w) + INT_MIN BY <1>2, <1>3 DEF Wrapped
<1> QED BY <1>1, <1>3, <1>4, <1>5

\* Deadline x gives a key that was asked to live for value the time it should have.
Lasts(x, read, value, scale) ==
  \/ /\ x # None /\ (x - read) * scale >= value /\ ((x - read) - 1) * scale < value
  \/ x = CLOCK_MAX /\ value > (x - read) * scale

\* A time in range gives a moment after the clock read, whose stamp lasts as asked.
LEMMA MomentLasts ==
  ASSUME NEW read \in 0 .. CLOCK_MAX, NEW value \in Nat, value > 0,
         NEW scale \in Nat, scale > 0, value <= (INT_MAX - CLOCK_MAX) * scale
  PROVE  /\ moment(read, value, scale, FALSE) > read
         /\ Lasts(stamp(moment(read, value, scale, FALSE)), read, value, scale)
<1>1. PICK s \in Nat : /\ s = value \div scale + (IF value % scale # 0 THEN 1 ELSE 0)
                       /\ s >= 1 /\ s <= value /\ s * scale >= value /\ (s - 1) * scale < value
  BY RoundedUp
<1>2. INT_MAX \in Nat /\ CLOCK_MAX \in Nat /\ INT_MIN = -INT_MAX - 1 /\ read \in Nat /\ read <= CLOCK_MAX BY Numbers
<1>8. PICK m \in Nat : m = INT_MAX - CLOCK_MAX BY <1>2, Numbers
<1>9. s <= m
  <2>1. PICK b \in Int : b = s - 1 BY <1>1
  <2>2. m * scale \in Int /\ b * scale \in Int OBVIOUS
  <2>3. b * scale < m * scale BY <1>1, <1>8, <2>1, <2>2
  <2>4. m <= b => m * scale <= b * scale BY FewerParts
  <2>5. ~(m <= b) BY <2>2, <2>3, <2>4
  <2> QED BY <2>1, <2>5
<1>3. PICK a \in Nat : a = read + s BY <1>2
<1>4. a \in INT_MIN .. INT_MAX BY <1>1, <1>2, <1>3, <1>8, <1>9
<1>5. moment(read, value, scale, FALSE) = a BY <1>1, <1>3, <1>4, WrappedIs DEF moment
<1>6. a > read BY <1>1, <1>2, <1>3
<1>7. Lasts(stamp(a), read, value, scale)
  <2>1. CASE a > CLOCK_MAX
    <3>1. stamp(a) = CLOCK_MAX BY <1>2, <2>1 DEF stamp
    <3>2. CLOCK_MAX - read <= s - 1 BY <1>2, <1>3, <2>1
    <3>3. PICK u \in Int, v \in Int : u = CLOCK_MAX - read /\ v = s - 1 BY <1>2
    <3>4. u * scale <= v * scale BY <3>2, <3>3, FewerParts
    <3>5. v * scale < value BY <1>1, <3>3
    <3>6. u * scale \in Int /\ v * scale \in Int OBVIOUS
    <3>7. value > u * scale BY <3>4, <3>5, <3>6
    <3> QED BY <3>1, <3>3, <3>7 DEF Lasts
  <2>2. CASE a <= CLOCK_MAX
    <3>1. stamp(a) = a BY <1>2, <2>2 DEF stamp
    <3>2. a # None BY <1>2, <2>2, Numbers
    <3>3. a - read = s BY <1>2, <1>3
    <3> QED BY <1>1, <3>1, <3>2, <3>3 DEF Lasts
  <2> QED BY <1>2, <2>1, <2>2
<1> QED BY <1>5, <1>6, <1>7


\* What a command asked for, and in which unit.
ValueOf(c) == integer_of(arg(c, IF Name(c) = "SET" THEN 4 ELSE 2))
ScaleOf(c) == IF Millis(Name(c)) \/ (Name(c) = "SET" /\ arg(c, 3) = "PX") THEN SCALE ELSE 1

\* A SET whose only option is a time to live.
OneOption(c) == Name(c) = "SET" /\ Len(c) = 5 /\ arg(c, 3) \in {"EX", "PX"}

Lives(j) == Lasts(j.expiry, j.read, ValueOf(j.cmd), ScaleOf(j.cmd))

\* Commands that have given a key the time LivesAsAsked speaks of.
Due(j) ==
  \/ Name(j.cmd) \in {"SETEX", "PSETEX"} \/ OneOption(j.cmd)
  \/ Name(j.cmd) \in {"EXPIRE", "PEXPIRE"} /\ ValueOf(j.cmd) > 0 /\ j.did = 1

\* The deadline is right from the step that computes it on.
Timely(j) ==
  /\ j.pc = "set" /\ Name(j.cmd) \in {"SETEX", "PSETEX"} => Lives(j)
  /\ j.pc = "options" /\ OneOption(j.cmd) => j.n = 3 \/ (j.n = 5 /\ Lives(j))
  /\ j.pc = "done" /\ FirstOf(j) # Error /\ Due(j) => Lives(j)

Lasting == {"SET", "SETEX", "PSETEX", "EXPIRE", "PEXPIRE"}

\* Commands that ask for a time to live: however late the clock is read, the
\* seconds can be added to it.
Asks(c) == OneOption(c) \/ Name(c) \in Lasting \ {"SET"}
InRange(c) == Asks(c) /\ ValueOf(c) # None => ValueOf(c) <= (INT_MAX - CLOCK_MAX) * ScaleOf(c)

\* No client asks for a time to live that wraps.
NoWrap == \A t \in Threads : \A c \in CommandsOf[t] : InRange(c)

\* Of other commands, and at other stages, there is nothing to say.
LEMMA OthersTimely ==
  ASSUME NEW j, Name(j.cmd) \notin Lasting \/ j.pc \notin {"set", "options", "done"}
  PROVE  Timely(j)
BY DEF Timely, Lasting, Due, OneOption

\* A refusal gives no time to live.
LEMMA RefusedTimely ==
  ASSUME NEW j, j.pc = "done", j.out = <<Error>>
  PROVE  Timely(j)
<1>1. FirstOf(j) = Error BY DEF FirstOf
<1> QED BY <1>1 DEF Timely

\* What a last step leaves alone.
LEMMA SaysLeaves ==
  ASSUME IInv, NEW t \in Threads, NEW frames, NEW saw, NEW did,
         Says(t, frames) \/ SaysOf(t, frames, saw, did)
  PROVE  /\ job'[t].cmd = job[t].cmd /\ job'[t].read = job[t].read /\ job'[t].expiry = job[t].expiry
         /\ job'[t].pc = "done" /\ job'[t].out = job[t].out \o frames
         /\ Says(t, frames) => job'[t].did = job[t].did
<1>1. job \in [Threads -> Jobs] /\ job[t] \in Jobs BY DEF IInv, Shaped
<1> QED BY <1>1 DEF Says, SaysOf, Jobs

\* An error from a command that had said nothing.
LEMMA ErrorTimely ==
  ASSUME IInv, NEW t \in Threads, job[t].pc \in Quiet, Says(t, <<Error>>)
  PROVE  Timely(job'[t]) /\ job'[t].cmd = job[t].cmd
<1>1. job[t].out = <<>> BY QuietSays
<1>2. job'[t].pc = "done" /\ job'[t].out = job[t].out \o <<Error>> /\ job'[t].cmd = job[t].cmd BY SaysLeaves
<1>3. <<>> \o <<Error>> = <<Error>> OBVIOUS
<1> QED BY <1>1, <1>2, <1>3, RefusedTimely

\* A step of a command that is not one of those.
LEMMA SameTimely ==
  ASSUME NEW t, job'[t].cmd = job[t].cmd, Name(job[t].cmd) \notin Lasting
  PROVE  Timely(job'[t])
BY OthersTimely

\* GET, STRLEN and the counters give no time to live.
LEMMA StringsTimely ==
  ASSUME IInv, NEW t \in Threads, Get(t) \/ StrLen(t) \/ Count(t)
  PROVE  Timely(job'[t]) /\ job'[t].cmd = job[t].cmd
<1>1. job \in [Threads -> Jobs] /\ job[t] \in Jobs BY DEF IInv, Shaped
<1>2. Name(job[t].cmd) \notin Lasting BY DEF Get, StrLen, Count, At, Lasting
<1>3. job'[t].cmd = job[t].cmd
  <2>1. CASE Get(t) BY <1>1, <2>1 DEF Get, Fetched, Jobs
  <2>2. CASE StrLen(t) BY <2>2, SaysLeaves DEF StrLen
  <2>3. CASE Count(t) BY <2>3, SaysLeaves DEF Count
  <2> QED BY <2>1, <2>2, <2>3
<1> QED BY <1>2, <1>3, SameTimely

\* Nor do the commands that go key by key.
LEMMA EachTimely ==
  ASSUME IInv, NEW t \in Threads, EachBegins(t) \/ EachKey(t) \/ EachPair(t) \/ EachEnds(t)
  PROVE  Timely(job'[t]) /\ job'[t].cmd = job[t].cmd
<1>1. job \in [Threads -> Jobs] /\ job[t] \in Jobs BY DEF IInv, Shaped
<1>2. Name(job[t].cmd) \notin Lasting
  BY DEF EachBegins, EachKey, EachPair, EachEnds, At, Lasting
<1>3. job'[t].cmd = job[t].cmd
  <2>1. CASE EachBegins(t) BY <1>1, <2>1 DEF EachBegins, Jobs
  <2>2. CASE EachKey(t)
    <3> DEFINE n == job[t].n
               k == arg(job[t].cmd, n)
    <3>1. CASE job' = [job EXCEPT ![t] = [Fetched(t, k, @) EXCEPT !.n = n + 1]] BY <1>1, <3>1 DEF Fetched, Jobs
    <3>2. CASE job' = [job EXCEPT ![t].n = n + 1, ![t].hits = @ + IF Live(k) THEN 1 ELSE 0] BY <1>1, <3>2 DEF Jobs
    <3>3. CASE job' = [job EXCEPT ![t].n = n + 1, ![t].did = @ + IF store[k] # None THEN 1 ELSE 0]
      BY <1>1, <3>3 DEF Jobs
    <3> QED BY <2>2, <3>1, <3>2, <3>3 DEF EachKey
  <2>3. CASE EachPair(t)
    <3>1. Stops(t) => job'[t].cmd = job[t].cmd BY SaysLeaves DEF Stops
    <3>2. \A m, d : job' = [job EXCEPT ![t].n = m, ![t].did = d] => job'[t].cmd = job[t].cmd
      BY <1>1 DEF Jobs
    <3> QED BY <2>3, <3>1, <3>2 DEF EachPair
  <2>4. CASE EachEnds(t) BY <2>4, SaysLeaves DEF EachEnds
  <2> QED BY <2>1, <2>2, <2>3, <2>4
<1> QED BY <1>2, <1>3, SameTimely

\* Nor those that ask about time, the keyspace or the server.
LEMMA ServerTimely ==
  ASSUME IInv, NEW t \in Threads,
         \/ Ttl(t) \/ Persist(t) \/ DbSize(t) \/ FlushAll(t) \/ ShardsEnd(t)
         \/ Talk(t) \/ Hello(t) \/ Reset(t) \/ Ask(t)
  PROVE  Timely(job'[t]) /\ job'[t].cmd = job[t].cmd
<1>1. job \in [Threads -> Jobs] /\ job[t] \in Jobs BY DEF IInv, Shaped
<1>2. Name(job[t].cmd) \notin Lasting
  BY DEF Ttl, Persist, DbSize, FlushAll, ShardsEnd, Talk, Hello, Reset, Ask, At, Lasting
<1>3. job'[t].cmd = job[t].cmd
  <2>1. CASE Persist(t) BY <1>1, <2>1 DEF Persist, Says, Jobs
  <2>2. CASE Ttl(t) \/ ShardsEnd(t) BY <2>2, SaysLeaves DEF Ttl, ShardsEnd
  <2>5. CASE DbSize(t) \/ FlushAll(t) BY <1>1, <2>5 DEF DbSize, FlushAll, Jobs
  <2>3. CASE Talk(t) \/ Ask(t) BY <2>3, SaysLeaves DEF Talk, Ask
  <2>4. CASE Hello(t) \/ Reset(t) BY <2>4, SaysLeaves DEF Hello, Reset
  <2> QED BY <2>1, <2>2, <2>3, <2>4, <2>5
<1> QED BY <1>2, <1>3, SameTimely


\* A plain SET has no time to live to give; one with options begins at the first.
LEMMA SetPlainTimely ==
  ASSUME IInv, NEW t \in Threads, SetPlain(t)
  PROVE  Timely(job'[t]) /\ job'[t].cmd = job[t].cmd
<1>1. Name(job[t].cmd) = "SET" /\ Len(job[t].cmd) = 3 BY DEF SetPlain, At
<1>2. job'[t].cmd = job[t].cmd /\ job'[t].pc = "done" BY SaysLeaves DEF SetPlain
<1> QED BY <1>1, <1>2 DEF Timely, Due, OneOption

\* SET's first option is still to come.
LEMMA SetOptionsTimely ==
  ASSUME IInv, NEW t \in Threads, SetOptions(t)
  PROVE  Timely(job'[t]) /\ job'[t].cmd = job[t].cmd
<1>1. job \in [Threads -> Jobs] /\ job[t] \in Jobs BY DEF IInv, Shaped
<1>2. job'[t].pc = "options" /\ job'[t].n = 3 /\ job'[t].cmd = job[t].cmd BY <1>1 DEF SetOptions, Jobs
<1> QED BY <1>2 DEF Timely

\* A time to live asked for is a number, and in range.
LEMMA ValueIs ==
  ASSUME NEW c, InRange(c), Asks(c), ValueOf(c) # None
  PROVE  ValueOf(c) \in Int /\ ValueOf(c) <= (INT_MAX - CLOCK_MAX) * ScaleOf(c)
BY IntegerIs DEF InRange, ValueOf

\* The option that is SET's only one.
LEMMA SetOptionTimely ==
  ASSUME IInv, NEW t \in Threads, InRange(job[t].cmd), Timely(job[t]), SetOption(t)
  PROVE  Timely(job'[t]) /\ job'[t].cmd = job[t].cmd
<1> DEFINE n == job[t].n
           c == job[t].cmd
           option == arg(c, n)
           u == unit(option)
           value == integer(t, n + 1)
<1>1. job[t].pc \in Quiet /\ job[t].pc = "options" /\ n < Len(c) /\ Name(c) = "SET"
  BY DEF SetOption, At, Quiet
<1>2. job \in [Threads -> Jobs] /\ job[t] \in Jobs BY <1>1, QuietSays
<1>3. CASE ~OneOption(c) /\ ~Says(t, <<Error>>)
  <2>1. job'[t].cmd = c /\ job'[t].pc = "options"
    <3>1. \A m, w : job' = [job EXCEPT ![t].n = m, ![t].when = w] => job'[t].cmd = c /\ job'[t].pc = "options"
      BY <1>1, <1>2 DEF Jobs
    <3>2. \A m, x : job' = [job EXCEPT ![t].n = m, ![t].expiry = x] => job'[t].cmd = c /\ job'[t].pc = "options"
      BY <1>1, <1>2 DEF Jobs
    <3> QED BY <1>3, <3>1, <3>2 DEF SetOption
  <2> QED BY <1>3, <2>1 DEF Timely
<1>4. CASE Says(t, <<Error>>) BY <1>1, <1>4, ErrorTimely
<1>5. CASE OneOption(c) /\ ~Says(t, <<Error>>)
  <2>1. n = 3 /\ option \in {"EX", "PX"}
    <3>1. Len(c) = 5 /\ arg(c, 3) \in {"EX", "PX"} BY <1>5 DEF OneOption
    <3>2. n = 3 \/ n = 5 BY <1>1, <1>5 DEF Timely
    <3>3. n = 3 BY <1>1, <3>1, <3>2
    <3> QED BY <3>1, <3>3
  <2>2. /\ u # None /\ value # None /\ (u.absolute \/ value > 0)
        /\ job' = [job EXCEPT ![t].n = n + 2,
                     ![t].expiry = stamp(moment(job[t].read, value, u.scale, u.absolute))]
    BY <1>5, <2>1 DEF SetOption
  <2>3. /\ u.absolute = FALSE /\ u.scale = ScaleOf(c) /\ u.scale \in Nat /\ u.scale > 0
    <3>1. u.scale \in Nat /\ u.scale > 0 BY <2>2, UnitIs
    <3>2. u.absolute = FALSE /\ u.scale = (IF option = "PX" THEN SCALE ELSE 1) BY <2>1 DEF unit
    <3>3. ScaleOf(c) = (IF option = "PX" THEN SCALE ELSE 1) BY <1>1, <2>1 DEF ScaleOf, Millis
    <3> QED BY <3>1, <3>2, <3>3
  <2>4. value = ValueOf(c) BY <1>1, <2>1 DEF ValueOf, integer
  <2>5. value \in Nat /\ value > 0 /\ value <= (INT_MAX - CLOCK_MAX) * u.scale
    <3>1. value \in Int /\ value <= (INT_MAX - CLOCK_MAX) * u.scale
      BY <1>5, <2>2, <2>3, <2>4, ValueIs DEF Asks
    <3>2. value > 0 BY <2>2, <2>3
    <3> QED BY <3>1, <3>2
  <2>6. PICK read \in 0 .. CLOCK_MAX : read = job[t].read BY <1>2 DEF Jobs
  <2>7. PICK v \in Nat, s \in Nat : v = value /\ s = u.scale BY <2>3, <2>5
  <2>8. Lasts(stamp(moment(read, v, s, FALSE)), read, v, s) BY <2>3, <2>5, <2>7, MomentLasts
  <2>9. PICK x : x = stamp(moment(read, v, s, FALSE)) OBVIOUS
  <2>10. job' = [job EXCEPT ![t].n = 5, ![t].expiry = x]
    <3>1. n + 2 = 5 BY <2>1
    <3>2. stamp(moment(job[t].read, value, u.scale, u.absolute)) = x BY <2>3, <2>6, <2>7, <2>9
    <3>3. \A m, y : m = 5 /\ y = x => [job EXCEPT ![t].n = m, ![t].expiry = y] = [job EXCEPT ![t].n = 5, ![t].expiry = x]
      OBVIOUS
    <3> HIDE DEF n, u, value
    <3> QED BY <2>2, <3>1, <3>2, <3>3
  <2>11. job'[t].pc = "options" /\ job'[t].n = 5 /\ job'[t].expiry = x /\ job'[t].read = read /\ job'[t].cmd = c
    BY <1>1, <1>2, <2>6, <2>10 DEF Jobs
  <2>12. Lives(job'[t]) BY <2>3, <2>4, <2>7, <2>8, <2>9, <2>11 DEF Lives
  <2> QED BY <2>11, <2>12 DEF Timely
<1> QED BY <1>3, <1>4, <1>5

\* SETEX and PSETEX compute the deadline as they read the clock.
LEMMA TimedSetTimely ==
  ASSUME IInv, NEW t \in Threads, InRange(job[t].cmd), TimedSet(t)
  PROVE  Timely(job'[t]) /\ job'[t].cmd = job[t].cmd
<1> DEFINE c == job[t].cmd
           value == integer(t, 2)
           scale == IF Millis(Name(c)) THEN SCALE ELSE 1
<1>1. job[t].pc \in Quiet /\ Name(c) \in {"SETEX", "PSETEX"} BY DEF TimedSet, At, Quiet
<1>2. job \in [Threads -> Jobs] /\ job[t] \in Jobs /\ now \in 0 .. CLOCK_MAX BY <1>1, QuietSays DEF IInv, Shaped
<1>3. CASE Says(t, <<Error>>) BY <1>1, <1>3, ErrorTimely
<1>4. CASE /\ value # None /\ value > 0
           /\ job' = [job EXCEPT ![t].pc = "set", ![t].read = now,
                                 ![t].expiry = stamp(moment(now, value, scale, FALSE))]
  <2>1. scale \in Nat /\ scale > 0 /\ scale = ScaleOf(c) BY <1>1, Numbers DEF ScaleOf
  <2>2. value = ValueOf(c) BY <1>1 DEF ValueOf, integer
  <2>3. value \in Nat /\ value <= (INT_MAX - CLOCK_MAX) * scale
    <3>1. value \in Int /\ value <= (INT_MAX - CLOCK_MAX) * scale BY <1>1, <1>4, <2>1, <2>2, ValueIs DEF Asks, Lasting
    <3> QED BY <1>4, <3>1
  <2>4. PICK v \in Nat, s \in Nat : v = value /\ s = scale BY <2>1, <2>3
  <2>5. PICK read \in 0 .. CLOCK_MAX : read = now BY <1>2
  <2>6. Lasts(stamp(moment(read, v, s, FALSE)), read, v, s) BY <1>4, <2>1, <2>3, <2>4, MomentLasts
  <2>7. PICK x : x = stamp(moment(read, v, s, FALSE)) OBVIOUS
  <2>8. job' = [job EXCEPT ![t].pc = "set", ![t].read = read, ![t].expiry = x] BY <1>4, <2>4, <2>5, <2>7
  <2>9. job'[t].pc = "set" /\ job'[t].expiry = x /\ job'[t].read = read /\ job'[t].cmd = c BY <1>2, <2>8 DEF Jobs
  <2>10. Lives(job'[t]) BY <2>1, <2>2, <2>4, <2>6, <2>7, <2>9 DEF Lives
  <2> QED BY <2>9, <2>10 DEF Timely
<1> QED BY <1>3, <1>4 DEF TimedSet

\* The write, made or not, leaves the deadline as it was computed.
LEMMA SetWhenTimely ==
  ASSUME IInv, NEW t \in Threads, Timely(job[t]), SetWhen(t)
  PROVE  Timely(job'[t]) /\ job'[t].cmd = job[t].cmd
<1> DEFINE c == job[t].cmd
<1>1. \/ job[t].pc = "set" /\ Name(c) \in {"SETEX", "PSETEX"}
      \/ job[t].pc = "options" /\ Name(c) = "SET" /\ job[t].n >= Len(c)
  BY DEF SetWhen, At
<1>2. /\ job'[t].cmd = c /\ job'[t].read = job[t].read /\ job'[t].expiry = job[t].expiry /\ job'[t].pc = "done"
  BY SaysLeaves DEF SetWhen
<1>3. CASE Name(c) \in {"SETEX", "PSETEX"}
  <2>1. Lives(job[t]) BY <1>1, <1>3 DEF Timely
  <2> QED BY <1>2, <2>1 DEF Lives, Timely
<1>4. CASE Name(c) = "SET" /\ OneOption(c)
  <2>1. Len(c) = 5 /\ (job[t].n = 3 \/ (job[t].n = 5 /\ Lives(job[t]))) /\ job[t].n >= Len(c)
    BY <1>1, <1>4 DEF Timely, OneOption
  <2>2. Lives(job[t]) BY <2>1
  <2> QED BY <1>2, <2>2 DEF Lives, Timely
<1>5. CASE Name(c) = "SET" /\ ~OneOption(c) BY <1>2, <1>5 DEF Timely, Due
<1> QED BY <1>1, <1>3, <1>4, <1>5

\* EXPIRE and PEXPIRE have read the clock and computed nothing yet.
LEMMA TimedTimely ==
  ASSUME IInv, NEW t \in Threads, Timed(t)
  PROVE  Timely(job'[t]) /\ job'[t].cmd = job[t].cmd
<1>1. job[t].pc \in Quiet BY DEF Timed, At, Quiet
<1>2. job \in [Threads -> Jobs] /\ job[t] \in Jobs BY <1>1, QuietSays
<1>3. CASE Says(t, <<Error>>) BY <1>1, <1>3, ErrorTimely
<1>4. CASE job' = [job EXCEPT ![t].pc = "timed", ![t].read = now]
  <2>1. job'[t].pc = "timed" /\ job'[t].cmd = job[t].cmd BY <1>2, <1>4 DEF Jobs
  <2> QED BY <2>1, OthersTimely
<1> QED BY <1>3, <1>4 DEF Timed

\* A positive time to live is never taken for a removal, and its stamp is right.
LEMMA ExpireTimely ==
  ASSUME IInv, NEW t \in Threads, InRange(job[t].cmd), Expire(t)
  PROVE  Timely(job'[t]) /\ job'[t].cmd = job[t].cmd
<1> DEFINE c == job[t].cmd
           value == integer(t, 2)
           scale == IF Millis(Name(c)) THEN SCALE ELSE 1
           at == moment(job[t].read, value, scale, Absolute(Name(c)))
           went == IF store[Key(t)] # None THEN 1 ELSE 0
<1>1. job[t].pc \in Quiet /\ job[t].pc = "timed" /\ Name(c) \in Expires BY DEF Expire, At, Quiet, Expires
<1>2. job \in [Threads -> Jobs] /\ job[t] \in Jobs /\ job[t].did = 0 BY <1>1, QuietSays
<1>3. value # None /\ value = ValueOf(c) /\ scale = ScaleOf(c) /\ scale \in Nat /\ scale > 0
  <2>1. value # None BY <1>1 DEF IInv, Sound, Early, Parsed, integer
  <2>2. value = ValueOf(c) /\ scale = ScaleOf(c) BY <1>1 DEF ValueOf, ScaleOf, integer, Expires
  <2> QED BY <2>1, <2>2, Numbers
<1>4. /\ value \in Int
      /\ Name(c) \in {"EXPIRE", "PEXPIRE"} => value <= (INT_MAX - CLOCK_MAX) * scale
  BY <1>3, IntegerIs, ValueIs DEF integer, Asks, Lasting
<1>5. PICK read \in 0 .. CLOCK_MAX, s \in Nat, v \in Int :
        /\ read = job[t].read /\ s = scale /\ v = value /\ s > 0
        /\ Name(c) \in {"EXPIRE", "PEXPIRE"} => v <= (INT_MAX - CLOCK_MAX) * s
  BY <1>2, <1>3, <1>4 DEF Jobs
<1>6. PICK m : m = at OBVIOUS
<1>7. Name(c) \in {"EXPIRE", "PEXPIRE"} /\ v > 0 => m > read /\ Lasts(stamp(m), read, v, s)
  <2> SUFFICES ASSUME Name(c) \in {"EXPIRE", "PEXPIRE"}, v > 0 PROVE m > read /\ Lasts(stamp(m), read, v, s)
    OBVIOUS
  <2>1. Absolute(Name(c)) = FALSE BY DEF Absolute
  <2>2. m = moment(read, v, s, FALSE) BY <1>5, <1>6, <2>1
  <2>3. v \in Nat OBVIOUS
  <2> QED BY <1>5, <2>2, <2>3, MomentLasts
<1> HIDE DEF at, value, scale
<1>8. CASE m <= read /\ SaysOf(t, <<Integer(went)>>, None, went)
  <2>1. job'[t].cmd = c /\ job'[t].pc = "done" BY <1>8, SaysLeaves
  <2>2. ~(Name(c) \in {"EXPIRE", "PEXPIRE"} /\ v > 0) \/ ~(m \in Int) BY <1>5, <1>7, <1>8
  <2>3. m \in Int
    <3>1. at \in Int BY <1>3, <1>4, <1>5, MomentIs DEF at
    <3> QED BY <1>6, <3>1
  <2>4. ~Due(job'[t]) BY <1>1, <1>3, <1>5, <2>1, <2>2, <2>3 DEF Due, OneOption, Expires
  <2> QED BY <2>1, <2>4 DEF Timely
<1>9. CASE Says(t, <<Integer(0)>>)
  <2>1. job'[t].cmd = c /\ job'[t].pc = "done" /\ job'[t].did = 0 BY <1>2, <1>9, SaysLeaves
  <2>2. ~Due(job'[t]) BY <1>1, <2>1 DEF Due, OneOption, Expires
  <2> QED BY <2>1, <2>2 DEF Timely
<1>10. CASE job' = [job EXCEPT ![t].pc = "done", ![t].out = <<Integer(1)>>, ![t].did = 1, ![t].expiry = stamp(m)]
  <2>1. PICK x : x = stamp(m) OBVIOUS
  <2>2. PICK out : out = <<Integer(1)>> OBVIOUS
  <2>3. job' = [job EXCEPT ![t].pc = "done", ![t].out = out, ![t].did = 1, ![t].expiry = x] BY <1>10, <2>1, <2>2
  <2>4. job'[t].pc = "done" /\ job'[t].cmd = c /\ job'[t].expiry = x /\ job'[t].read = read
    BY <1>2, <1>5, <2>3 DEF Jobs
  <2>5. Name(c) \in {"EXPIRE", "PEXPIRE"} /\ v > 0 => Lives(job'[t]) BY <1>3, <1>5, <1>7, <2>1, <2>4 DEF Lives
  <2> QED BY <1>1, <1>3, <1>5, <2>4, <2>5 DEF Timely, Due, OneOption, Expires
<1>11. CASE Says(t, <<Error>>) BY <1>1, <1>11, ErrorTimely
<1>12. \/ m <= read /\ SaysOf(t, <<Integer(went)>>, None, went)
       \/ Says(t, <<Integer(0)>>)
       \/ job' = [job EXCEPT ![t].pc = "done", ![t].out = <<Integer(1)>>, ![t].did = 1, ![t].expiry = stamp(m)]
       \/ Says(t, <<Error>>)
  BY <1>5, <1>6 DEF Expire, at, value, scale
<1> QED BY <1>8, <1>9, <1>10, <1>11, <1>12


\* No command in hand asks for no time.
LEMMA IdleTimely == Timely(Idle) /\ InRange(Idle.cmd)
<1>1. Idle.pc = "idle" /\ Idle.cmd = <<>> BY DEF Idle
<1>2. Name(<<>>) = "" BY DEF Name, arg
<1>3. Name(Idle.cmd) \notin Lasting BY <1>1, <1>2 DEF Lasting
<1> QED BY <1>3, OthersTimely DEF InRange, Asks, OneOption, Lasting

\* A step of thread t leaves t's command timely, and touches no other's.
LEMMA RunTimely ==
  ASSUME IInv, NEW t \in Threads, InRange(job[t].cmd), Timely(job[t]), Run(t)
  PROVE  Timely(job'[t]) /\ job'[t].cmd = job[t].cmd
<1>1. CASE Refuse(t) BY <1>1, ErrorTimely DEF Refuse, Quiet
<1>2. CASE strings(t)
  BY <1>2, StringsTimely, SetPlainTimely, SetOptionsTimely, SetOptionTimely, TimedSetTimely, SetWhenTimely
  DEF strings
<1>3. CASE keyspace(t) BY <1>3, EachTimely, TimedTimely, ExpireTimely, ServerTimely DEF keyspace
<1>4. CASE Talk(t) \/ Hello(t) \/ Reset(t) \/ Ask(t) BY <1>4, ServerTimely
<1>5. CASE Shutdown(t)
  <2>1. job' = job BY <1>5 DEF Shutdown
  <2> QED BY <2>1
<1> QED BY <1>1, <1>2, <1>3, <1>4, <1>5 DEF Run

\* A thread between two commands, and a command that begins.
LEMMA BlankTimely ==
  ASSUME NoWrap, IInv, NEW t \in Threads, Return(t) \/ \E c \in CommandsOf[t] : Begin(t, c)
  PROVE  Timely(job'[t]) /\ InRange(job'[t].cmd)
<1>1. job \in [Threads -> Jobs] /\ job[t] \in Jobs BY DEF IInv, Shaped
<1>2. CASE Return(t)
  <2>1. job'[t] = Idle BY <1>1, <1>2 DEF Return
  <2> QED BY <2>1, IdleTimely
<1>3. CASE \E c \in CommandsOf[t] : Begin(t, c)
  <2>1. PICK c \in CommandsOf[t] : Begin(t, c) BY <1>3
  <2>2. job'[t] = [Idle EXCEPT !.pc = "run", !.cmd = c] BY <1>1, <2>1 DEF Begin
  <2>3. job'[t].pc = "run" /\ job'[t].cmd = c BY <2>2, IdleSound DEF Jobs
  <2> QED BY <2>1, <2>3, OthersTimely DEF NoWrap
<1> QED BY <1>2, <1>3

\* The invariant with the deadlines in it.
InTime == IInv /\ \A t \in Threads : Timely(job[t]) /\ InRange(job[t].cmd)

\* A positive time to live is given in whole seconds rounded up from the clock the
\* command read, or to the end of the clock, by SET, SETEX, PSETEX, EXPIRE and
\* PEXPIRE, whatever the clock does between the reading and the write: as long as
\* no client sends a number that wraps when the clock is added to it.
THEOREM TimesKept ==
  ASSUME NoWrap
  PROVE  Spec => []LivesAsAsked
<1>1. Init => InTime
  <2> SUFFICES ASSUME Init PROVE InTime OBVIOUS
  <2>1. IInv BY InitFine
  <2>2. ASSUME NEW t \in Threads PROVE Timely(job[t]) /\ InRange(job[t].cmd)
    <3>1. job[t] = Idle BY DEF Init
    <3> QED BY <3>1, IdleTimely
  <2> QED BY <2>1, <2>2 DEF InTime
<1>2. InTime /\ [Next]_vars => InTime'
  <2> SUFFICES ASSUME InTime, [Next]_vars PROVE InTime' OBVIOUS
  <2>1. IInv' BY NextFine DEF InTime
  <2>2. ASSUME NEW u \in Threads PROVE Timely(job'[u]) /\ InRange(job'[u].cmd)
    <3>1. CASE UNCHANGED job BY <3>1 DEF InTime
    <3>2. CASE \E t \in Threads : Run(t) \/ Return(t) \/ \E c \in CommandsOf[t] : Begin(t, c)
      <4>1. PICK t \in Threads : Run(t) \/ Return(t) \/ \E c \in CommandsOf[t] : Begin(t, c) BY <3>2
      <4>2. Timely(job[t]) /\ InRange(job[t].cmd) /\ IInv BY DEF InTime
      <4>3. Timely(job'[t]) /\ InRange(job'[t].cmd) BY <4>1, <4>2, RunTimely, BlankTimely
      <4>4. u # t => job'[u] = job[u] BY <4>1, <4>2, RunFine DEF Fine
      <4> QED BY <4>3, <4>4 DEF InTime
    <3>3. CASE Tick \/ Sweep BY <3>1, <3>3 DEF Tick, Sweep
    <3> QED BY <3>1, <3>2, <3>3 DEF Next, vars
  <2>3. (\A t \in Threads : Timely(job[t]) /\ InRange(job[t].cmd))' BY <2>2
  <2> QED BY <2>1, <2>3 DEF InTime
<1>3. InTime => LivesAsAsked
  <2> SUFFICES ASSUME InTime PROVE LivesAsAsked OBVIOUS
  <2>1. ASSUME NEW t \in Threads, Done(t), First(t) # Error, Due(job[t]) PROVE Lives(job[t])
    BY <2>1 DEF InTime, Timely, Done, First, FirstOf
  <2> QED BY <2>1 DEF LivesAsAsked, Due, OneOption, Lives, Lasts, ValueOf, ScaleOf, integer, Millis
<1> QED BY <1>1, <1>2, <1>3, PTL DEF Spec

-----------------------------------------------------------------------------
(* One reply to a command. *)

\* Every nonempty set of numbers has a least one.
LEMMA Smallest ==
  ASSUME NEW T, T \subseteq Nat, T # {}
  PROVE  \E n \in T : \A m \in T : n <= m
<1>1. IsWellFoundedOn(OpToRel(<, Nat), Nat) BY NatLessThanWellFounded
<1>2. PICK n \in T : \A m \in T : ~(<<m, n>> \in OpToRel(<, Nat)) BY <1>1, WFMin
<1>3. \A m \in T : ~(m < n) BY <1>2 DEF OpToRel
<1> QED BY <1>3

\* A reply is a frame and as many others as it announces, which announce none
\* themselves.
Whole(out) ==
  /\ Len(out) > 0 /\ Announces(out[1]) = Len(out) - 1
  /\ \A i \in 2 .. Len(out) : Announces(out[i]) = 0

\* What Owed's walk is.
Counts(f, out) ==
  f = [i \in 0 .. Len(out) |->
        IF i = 0 THEN 1 ELSE IF f[i - 1] <= 0 THEN -1 ELSE f[i - 1] - 1 + Announces(out[i])]

\* A client that reads such a reply waits for no other frame at its end.
LEMMA WholeOwesNone ==
  ASSUME NEW out \in Seq(Frames), Whole(out)
  PROVE  Owed(out) = 0
<1> DEFINE m == Len(out)
           g == [i \in 0 .. m |-> IF i = 0 THEN 1 ELSE m - i]
<1>1. m \in Nat /\ m > 0 BY DEF Whole
<1>2. Counts(g, out)
  <2> DEFINE h == [i \in 0 .. m |->
                    IF i = 0 THEN 1 ELSE IF g[i - 1] <= 0 THEN -1 ELSE g[i - 1] - 1 + Announces(out[i])]
  <2>1. ASSUME NEW i \in 0 .. m PROVE g[i] = h[i]
    <3>1. CASE i = 0 BY <3>1
    <3>2. CASE i = 1
      <4>1. Announces(out[i]) = m - 1 BY <3>2 DEF Whole
      <4>2. g[i] = m - 1 /\ g[i - 1] = 1 BY <1>1, <3>2
      <4>3. h[i] = IF g[i - 1] <= 0 THEN -1 ELSE g[i - 1] - 1 + Announces(out[i]) BY <3>2
      <4> HIDE DEF g, h
      <4> QED BY <1>1, <4>1, <4>2, <4>3
    <3>3. CASE i > 1
      <4>1. Announces(out[i]) = 0 BY <1>1, <3>3 DEF Whole
      <4>2. g[i] = m - i /\ g[i - 1] = m - (i - 1) BY <1>1, <3>3
      <4>3. h[i] = IF g[i - 1] <= 0 THEN -1 ELSE g[i - 1] - 1 + Announces(out[i]) BY <1>1, <3>3
      <4> HIDE DEF g, h
      <4> QED BY <1>1, <4>1, <4>2, <4>3
    <3> QED BY <1>1, <3>1, <3>2, <3>3
  <2>2. g = h BY <2>1
  <2> QED BY <2>2 DEF Counts
<1>3. PICK f : f = CHOOSE x : Counts(x, out) OBVIOUS
<1>4. Owed(out) = f[m] BY <1>3 DEF Owed, Counts
<1> HIDE DEF g
<1>5. Counts(f, out) BY <1>2, <1>3
<1>6. \A i \in 0 .. m : f[i] = g[i]
  <2> DEFINE T == {i \in 0 .. m : f[i] # g[i]}
  <2> SUFFICES ASSUME T # {} PROVE FALSE OBVIOUS
  <2>1. PICK i \in T : \A j \in T : i <= j
    <3>1. T \subseteq Nat BY <1>1
    <3> HIDE DEF T
    <3> QED BY <3>1, Smallest
  <2>2. i \in 0 .. m /\ f[i] # g[i] BY <2>1
  <2>3. CASE i = 0 BY <1>2, <1>5, <2>2, <2>3 DEF Counts
  <2>4. CASE i # 0
    <3>1. i - 1 \in 0 .. m BY <1>1, <2>2, <2>4
    <3>2. i - 1 \notin T BY <1>1, <2>1, <2>2
    <3>3. f[i - 1] = g[i - 1] BY <3>1, <3>2
    <3>4. f[i] = IF f[i - 1] <= 0 THEN -1 ELSE f[i - 1] - 1 + Announces(out[i]) BY <1>5, <2>2, <2>4 DEF Counts
    <3>5. g[i] = IF g[i - 1] <= 0 THEN -1 ELSE g[i - 1] - 1 + Announces(out[i]) BY <1>2, <2>2, <2>4 DEF Counts
    <3> QED BY <2>2, <3>3, <3>4, <3>5
  <2> QED BY <2>3, <2>4
<1>7. g[m] = 0 BY <1>1 DEF g
<1> QED BY <1>1, <1>4, <1>6, <1>7

\* A finished reply is whole; MGET's, before that, has its header and a frame for
\* each key that has been looked up.
Framing(j) ==
  /\ j.pc = "done" => Whole(j.out)
  /\ j.pc = "each" /\ Name(j.cmd) = "MGET" =>
       /\ j.n \in 1 .. Len(j.cmd) /\ Len(j.out) = j.n
       /\ Announces(j.out[1]) = Len(j.cmd) - 1
       /\ \A i \in 2 .. j.n : Announces(j.out[i]) = 0

\* Only headers announce frames.
LEMMA Leaves ==
  /\ Announces(Simple) = 0 /\ Announces(Error) = 0 /\ Announces(Bulk) = 0
  /\ \A n : Announces(Integer(n)) = 0
  /\ \A d : Announces(Null(d)) = 0
  /\ \A n : Announces(Array(n)) = n
  /\ \A d, n \in Int : Announces(MapOf(d, n)) = 2 * n
<1>1. Announces(Simple) = 0 BY DEF Announces, Simple
<1>2. Announces(Error) = 0 BY DEF Announces, Error
<1>3. Announces(Bulk) = 0 BY DEF Announces, Bulk
<1>4. \A n : Announces(Integer(n)) = 0 BY DEF Announces, Integer
<1>5. \A d : Announces(Null(d)) = 0 BY DEF Announces, Null
<1>6. \A n : Announces(Array(n)) = n BY DEF Announces, Array
<1>7. \A d, n \in Int : Announces(MapOf(d, n)) = 2 * n BY DEF Announces, MapOf, Array
<1> QED BY <1>1, <1>2, <1>3, <1>4, <1>5, <1>6, <1>7

\* One frame that announces none is a whole reply.
LEMMA LeafWhole ==
  ASSUME NEW f, Announces(f) = 0
  PROVE  Whole(<<f>>)
<1>1. Len(<<f>>) = 1 /\ <<f>>[1] = f OBVIOUS
<1> QED BY <1>1 DEF Whole

\* A command that had said nothing is done with such a frame.
LEMMA LeafFramed ==
  ASSUME IInv, NEW t \in Threads, job[t].pc \in Quiet, NEW f, NEW saw, NEW did, Announces(f) = 0,
         Says(t, <<f>>) \/ SaysOf(t, <<f>>, saw, did)
  PROVE  Framing(job'[t])
<1>1. job'[t].pc = "done" /\ job'[t].out = job[t].out \o <<f>> BY SaysLeaves
<1>2. job[t].out = <<>> BY QuietSays
<1>3. <<>> \o <<f>> = <<f>> OBVIOUS
<1> QED BY <1>1, <1>2, <1>3, LeafWhole DEF Framing

\* At other stages there is nothing to say.
LEMMA OthersFramed ==
  ASSUME NEW j, j.pc \notin {"done", "each"}
  PROVE  Framing(j)
BY DEF Framing

\* The commands on one key.
LEMMA StringsFramed ==
  ASSUME IInv, NEW t \in Threads, strings(t)
  PROVE  Framing(job'[t])
<1>1. job \in [Threads -> Jobs] /\ job[t] \in Jobs BY DEF IInv, Shaped
<1>2. job[t].pc \in Quiet
  BY DEF strings, Get, StrLen, Count, SetPlain, SetOptions, SetOption, TimedSet, SetWhen, At, Quiet
<1>3. CASE Get(t)
  <2> DEFINE f == IF Live(Key(t)) THEN Bulk ELSE Null(dialect[t])
  <2>1. Announces(f) = 0 BY Leaves
  <2>2. job' = [job EXCEPT ![t] = [[job[t] EXCEPT !.out = job[t].out \o <<f>>] EXCEPT !.pc = "done"]]
    BY <1>3 DEF Get, Fetched
  <2> HIDE DEF f
  <2>3. job'[t].pc = "done" /\ job'[t].out = job[t].out \o <<f>> BY <1>1, <2>2 DEF Jobs
  <2>4. job[t].out = <<>> BY <1>2, QuietSays
  <2>5. <<>> \o <<f>> = <<f>> OBVIOUS
  <2> QED BY <2>1, <2>3, <2>4, <2>5, LeafWhole DEF Framing
<1>4. CASE StrLen(t) BY <1>2, <1>4, LeafFramed, Leaves DEF StrLen
<1>5. CASE Count(t) BY <1>2, <1>5, LeafFramed, Leaves DEF Count
<1>6. CASE SetPlain(t) BY <1>2, <1>6, LeafFramed, Leaves DEF SetPlain
<1>7. CASE SetOptions(t)
  <2>1. job'[t].pc = "options" BY <1>1, <1>7 DEF SetOptions, Jobs
  <2> QED BY <2>1, OthersFramed
<1>8. CASE SetOption(t)
  <2>1. job[t].pc = "options" BY <1>8 DEF SetOption, At
  <2>2. CASE Says(t, <<Error>>) BY <1>2, <2>2, LeafFramed, Leaves
  <2>3. CASE ~Says(t, <<Error>>)
    <3>1. \A n, x : job' = [job EXCEPT ![t].n = n, ![t].when = x] => job'[t].pc = "options" BY <1>1, <2>1 DEF Jobs
    <3>2. \A n, x : job' = [job EXCEPT ![t].n = n, ![t].expiry = x] => job'[t].pc = "options" BY <1>1, <2>1 DEF Jobs
    <3>3. job'[t].pc = "options" BY <1>8, <2>3, <3>1, <3>2 DEF SetOption
    <3> QED BY <3>3, OthersFramed
  <2> QED BY <2>2, <2>3
<1>9. CASE TimedSet(t)
  <2>2. CASE Says(t, <<Error>>) BY <1>2, <2>2, LeafFramed, Leaves
  <2>3. CASE ~Says(t, <<Error>>)
    <3>1. \A n, x : job' = [job EXCEPT ![t].pc = "set", ![t].read = n, ![t].expiry = x] => job'[t].pc = "set"
      BY <1>1 DEF Jobs
    <3>2. job'[t].pc = "set" BY <1>9, <2>3, <3>1 DEF TimedSet
    <3> QED BY <3>2, OthersFramed
  <2> QED BY <2>2, <2>3
<1>10. CASE SetWhen(t) BY <1>2, <1>10, LeafFramed, Leaves DEF SetWhen
<1> QED BY <1>3, <1>4, <1>5, <1>6, <1>7, <1>8, <1>9, <1>10 DEF strings

\* Those about time.
LEMMA TimedFramed ==
  ASSUME IInv, NEW t \in Threads, Timed(t) \/ Expire(t) \/ Ttl(t) \/ Persist(t)
  PROVE  Framing(job'[t])
<1>1. job \in [Threads -> Jobs] /\ job[t] \in Jobs BY DEF IInv, Shaped
<1>2. job[t].pc \in Quiet BY DEF Timed, Expire, Ttl, Persist, At, Quiet
<1>3. CASE Timed(t)
  <2>1. CASE Says(t, <<Error>>) BY <1>2, <2>1, LeafFramed, Leaves
  <2>2. CASE job' = [job EXCEPT ![t].pc = "timed", ![t].read = now]
    <3>1. job'[t].pc = "timed" BY <1>1, <2>2 DEF Jobs
    <3> QED BY <3>1, OthersFramed
  <2> QED BY <1>3, <2>1, <2>2 DEF Timed
<1>4. CASE Expire(t)
  <2>1. CASE \E f, saw, did : Announces(f) = 0 /\ (Says(t, <<f>>) \/ SaysOf(t, <<f>>, saw, did))
    BY <1>2, <2>1, LeafFramed
  <2>2. CASE \E x : job' = [job EXCEPT ![t].pc = "done", ![t].out = <<Integer(1)>>, ![t].did = 1, ![t].expiry = x]
    <3>1. PICK out : out = <<Integer(1)>> OBVIOUS
    <3>2. PICK x : job' = [job EXCEPT ![t].pc = "done", ![t].out = out, ![t].did = 1, ![t].expiry = x]
      BY <2>2, <3>1
    <3>3. job'[t].pc = "done" /\ job'[t].out = out BY <1>1, <3>2 DEF Jobs
    <3>4. Whole(out) BY <3>1, Leaves, LeafWhole
    <3> QED BY <3>3, <3>4 DEF Framing
  <2>3. Announces(Error) = 0 /\ Announces(Integer(0)) = 0 /\ \A n : Announces(Integer(n)) = 0 BY Leaves
  <2> QED BY <1>4, <2>1, <2>2, <2>3 DEF Expire
<1>5. CASE Ttl(t) BY <1>2, <1>5, LeafFramed, Leaves DEF Ttl
<1>6. CASE Persist(t)
  <2>1. CASE \E f : Announces(f) = 0 /\ Says(t, <<f>>) BY <1>2, <2>1, LeafFramed
  <2>2. CASE \E x : job' = [job EXCEPT ![t].pc = "persist", ![t].hits = x]
    <3>1. job'[t].pc = "persist" BY <1>1, <2>2 DEF Jobs
    <3> QED BY <3>1, OthersFramed
  <2>3. Announces(Error) = 0 /\ \A n : Announces(Integer(n)) = 0 BY Leaves
  <2> QED BY <1>6, <2>1, <2>2, <2>3 DEF Persist
<1> QED BY <1>3, <1>4, <1>5, <1>6

\* MGET begins with its header, and the others with nothing.
LEMMA EachBeginsFramed ==
  ASSUME IInv, NEW t \in Threads, EachBegins(t)
  PROVE  Framing(job'[t])
<1> DEFINE c == job[t].cmd
           out == IF Name(c) = "MGET" THEN <<Array(Len(c) - 1)>> ELSE <<>>
<1>1. job \in [Threads -> Jobs] /\ job[t] \in Jobs BY DEF IInv, Shaped
<1>2. job' = [job EXCEPT ![t].pc = "each", ![t].n = 1, ![t].out = out] BY DEF EachBegins
<1>3. Name(c) = "MGET" => Len(out) = 1 /\ Announces(out[1]) = Len(c) - 1 BY Leaves
<1>4. Name(c) = "MGET" => Len(c) >= 1
  <2>1. Len(c) \in arity(Name(c)) BY DEF EachBegins, Fits
  <2> QED BY <2>1, Numbers DEF arity
<1>5. c \in Seq(STRING) /\ Len(c) \in Nat BY <1>1 DEF Jobs
<1> HIDE DEF out
<1>6. job'[t].pc = "each" /\ job'[t].n = 1 /\ job'[t].out = out /\ job'[t].cmd = c BY <1>1, <1>2 DEF Jobs
<1> QED BY <1>3, <1>4, <1>5, <1>6 DEF Framing

\* A key of MGET adds its frame; the other commands say nothing on the way.
LEMMA EachKeyFramed ==
  ASSUME IInv, NEW t \in Threads, Framing(job[t]), EachKey(t)
  PROVE  Framing(job'[t])
<1> DEFINE c == job[t].cmd
           n == job[t].n
           k == arg(c, n)
<1>1. job \in [Threads -> Jobs] /\ job[t] \in Jobs BY DEF IInv, Shaped
<1>2. job[t].pc = "each" /\ n < Len(c) BY DEF EachKey, At
<1>3. c \in Seq(STRING) /\ Len(c) \in Nat /\ job[t].out \in Seq(Frames) BY <1>1 DEF Jobs
<1>4. CASE Name(c) = "MGET" /\ job' = [job EXCEPT ![t] = [Fetched(t, k, @) EXCEPT !.n = n + 1]]
  <2> DEFINE f == IF Live(k) THEN Bulk ELSE Null(dialect[t])
             out == job[t].out \o <<f>>
  <2>1. Announces(f) = 0 BY Leaves
  <2>2. job' = [job EXCEPT ![t] = [[job[t] EXCEPT !.out = out] EXCEPT !.n = n + 1]] BY <1>4 DEF Fetched
  <2>3. n \in 1 .. Len(c) /\ Len(job[t].out) = n /\ Announces(job[t].out[1]) = Len(c) - 1
        /\ \A i \in 2 .. n : Announces(job[t].out[i]) = 0
    BY <1>2, <1>4 DEF Framing
  <2>4. Len(out) = n + 1 /\ out[n + 1] = f /\ \A i \in 1 .. n : out[i] = job[t].out[i]
    <3> HIDE DEF f
    <3>1. PICK old \in Seq(Frames) : old = job[t].out BY <1>3
    <3>2. Len(<<f>>) = 1 /\ <<f>>[1] = f OBVIOUS
    <3>3. Len(old \o <<f>>) = Len(old) + 1 /\ (old \o <<f>>)[Len(old) + 1] = f
          /\ \A i \in 1 .. Len(old) : (old \o <<f>>)[i] = old[i]
      OBVIOUS
    <3> QED BY <2>3, <3>1, <3>3
  <2> HIDE DEF f, out
  <2>5. job'[t].pc = "each" /\ job'[t].n = n + 1 /\ job'[t].out = out /\ job'[t].cmd = c
    BY <1>1, <1>2, <2>2 DEF Jobs
  <2>6. n + 1 \in 1 .. Len(c) BY <1>2, <1>3, <2>3
  <2>7. \A i \in 2 .. n + 1 : Announces(out[i]) = 0
    <3> SUFFICES ASSUME NEW i \in 2 .. n + 1 PROVE Announces(out[i]) = 0 OBVIOUS
    <3>1. CASE i = n + 1 BY <2>1, <2>4, <3>1
    <3>2. CASE i # n + 1
      <4>1. i \in 2 .. n /\ i \in 1 .. n BY <1>3, <2>3, <3>2
      <4> QED BY <2>3, <2>4, <4>1
    <3> QED BY <3>1, <3>2
  <2>8. Announces(out[1]) = Len(c) - 1 BY <1>3, <2>3, <2>4
  <2> QED BY <2>4, <2>5, <2>6, <2>7, <2>8 DEF Framing
<1>5. CASE Name(c) # "MGET"
  <2>1. \A m, x : job' = [job EXCEPT ![t].n = m, ![t].hits = x] => job'[t].cmd = c /\ job'[t].pc = "each"
    BY <1>1, <1>2 DEF Jobs
  <2>2. \A m, x : job' = [job EXCEPT ![t].n = m, ![t].did = x] => job'[t].cmd = c /\ job'[t].pc = "each"
    BY <1>1, <1>2 DEF Jobs
  <2>3. job'[t].cmd = c /\ job'[t].pc = "each" BY <1>5, <2>1, <2>2 DEF EachKey
  <2> QED BY <1>5, <2>3 DEF Framing
<1> QED BY <1>4, <1>5 DEF EachKey

\* MSET says nothing before its end, and the others nothing but their count.
LEMMA EachEndsFramed ==
  ASSUME IInv, NEW t \in Threads, Framing(job[t]), EachPair(t) \/ EachEnds(t)
  PROVE  Framing(job'[t])
<1>1. job \in [Threads -> Jobs] /\ job[t] \in Jobs BY DEF IInv, Shaped
<1>2. job[t].pc = "each" /\ job[t].out \in Seq(Frames) /\ job[t].cmd \in Seq(STRING)
  BY <1>1 DEF EachPair, EachEnds, At, Jobs
<1>3. Name(job[t].cmd) # "MGET" => job[t].out = <<>> BY <1>2 DEF IInv, Sound, Halfway
<1>4. ASSUME NEW f, Announces(f) = 0, Name(job[t].cmd) # "MGET", Says(t, <<f>>)
      PROVE  Framing(job'[t])
  <2>1. job'[t].pc = "done" /\ job'[t].out = job[t].out \o <<f>> BY <1>4, SaysLeaves
  <2>2. <<>> \o <<f>> = <<f>> OBVIOUS
  <2> QED BY <1>3, <1>4, <2>1, <2>2, LeafWhole DEF Framing
<1>5. CASE EachPair(t)
  <2>1. Name(job[t].cmd) = "MSET" BY <1>5 DEF EachPair, At
  <2>2. CASE Stops(t) BY <1>4, <2>1, <2>2, Leaves DEF Stops
  <2>3. CASE ~Stops(t)
    <3>1. \A m, x : job' = [job EXCEPT ![t].n = m, ![t].did = x] =>
            job'[t].cmd = job[t].cmd /\ job'[t].pc = "each"
      BY <1>1, <1>2 DEF Jobs
    <3>2. job'[t].cmd = job[t].cmd /\ job'[t].pc = "each" BY <1>5, <2>3, <3>1 DEF EachPair
    <3> QED BY <2>1, <3>2 DEF Framing
  <2> QED BY <2>2, <2>3
<1>6. CASE EachEnds(t)
  <2>1. CASE Name(job[t].cmd) = "MGET" /\ Says(t, <<>>)
    <3>1. job'[t].pc = "done" /\ job'[t].out = job[t].out \o <<>> BY <2>1, SaysLeaves
    <3>2. job[t].out \o <<>> = job[t].out BY <1>2
    <3>3. job[t].n >= Len(job[t].cmd) BY <1>6 DEF EachEnds
    <3>4. job[t].n \in 1 .. Len(job[t].cmd) /\ Len(job[t].out) = job[t].n
          /\ Announces(job[t].out[1]) = Len(job[t].cmd) - 1
          /\ \A i \in 2 .. job[t].n : Announces(job[t].out[i]) = 0
      BY <1>2, <2>1 DEF Framing
    <3>5. job[t].n = Len(job[t].cmd) /\ job[t].n > 0 BY <1>2, <3>3, <3>4
    <3>6. Whole(job[t].out) BY <3>4, <3>5 DEF Whole
    <3> QED BY <3>1, <3>2, <3>6 DEF Framing
  <2>2. CASE Name(job[t].cmd) # "MGET" BY <1>4, <1>6, <2>2, Leaves DEF EachEnds
  <2> QED BY <1>6, <2>1, <2>2 DEF EachEnds
<1> QED BY <1>5, <1>6

\* The greeting announces fourteen frames and has them; the empty array among
\* them announces none.
LEMMA GreetingWhole ==
  ASSUME NEW d \in {2, 3}
  PROVE  Whole(greeting(d))
<1>1. /\ Announces(MapOf(d, 7)) = 14 /\ Announces(Array(0)) = 0 /\ Announces(Bulk) = 0
      /\ Announces(Integer(d)) = 0 /\ Announces(Integer(0)) = 0
  BY Leaves
<1>2. PICK g : g = greeting(d) OBVIOUS
<1>3. /\ Len(g) = 15 /\ g[1] = MapOf(d, 7)
      /\ g[2] = Bulk /\ g[3] = Bulk /\ g[4] = Bulk /\ g[5] = Bulk /\ g[6] = Bulk /\ g[7] = Integer(d)
      /\ g[8] = Bulk /\ g[9] = Integer(0) /\ g[10] = Bulk /\ g[11] = Bulk /\ g[12] = Bulk /\ g[13] = Bulk
      /\ g[14] = Bulk /\ g[15] = Array(0)
  BY <1>2 DEF greeting
<1>4. ASSUME NEW i \in 2 .. 15 PROVE Announces(g[i]) = 0
  <2>1. \/ i = 2 \/ i = 3 \/ i = 4 \/ i = 5 \/ i = 6 \/ i = 7 \/ i = 8 \/ i = 9 \/ i = 10 \/ i = 11 \/ i = 12
        \/ i = 13 \/ i = 14 \/ i = 15
    OBVIOUS
  <2> QED BY <1>1, <1>3, <2>1
<1> QED BY <1>1, <1>2, <1>3, <1>4 DEF Whole

\* CONFIG GET announces two frames for every setting it found, and writes them.
LEMMA ConfigWhole ==
  ASSUME NEW t \in Threads, dialect[t] \in {2, 3}, job[t].cmd \in Seq(STRING)
  PROVE  Whole(Config(t))
<1> DEFINE c == job[t].cmd
           S == {p \in (3 .. Len(c)) \X DOMAIN Settings : c[p[1]] \in {"*", Settings[p[2]]}}
           found == Cardinality(S)
<1>1. found \in Nat BY Found
<1>2. Config(t) = <<MapOf(dialect[t], found)>> \o [i \in 1 .. 2 * found |-> Bulk] BY DEF Config, Heads
<1> HIDE DEF found
<1>3. PICK n \in Nat : n = 2 * found BY <1>1
<1> DEFINE head == <<MapOf(dialect[t], found)>>
           bulks == [i \in 1 .. n |-> Bulk]
<1>4. Announces(head[1]) = n /\ Announces(Bulk) = 0
  <2>1. head[1] = MapOf(dialect[t], found) OBVIOUS
  <2>3. PICK d \in Int : d = dialect[t] OBVIOUS
  <2>4. Announces(MapOf(d, found)) = 2 * found /\ Announces(Bulk) = 0 BY <1>1, Leaves
  <2>2. Announces(MapOf(dialect[t], found)) = 2 * found /\ Announces(Bulk) = 0 BY <2>3, <2>4
  <2> QED BY <1>3, <2>1, <2>2
<1>5. head \in Seq(Frames) /\ bulks \in Seq(Frames)
  <2>1. MapOf(dialect[t], found) \in Frames /\ Bulk \in Frames BY <1>1, FramesIn DEF Spelt
  <2> QED BY <2>1
<1>6. Len(head) = 1 /\ Len(bulks) = n OBVIOUS
<1>7. \A i \in 1 .. n : bulks[i] = Bulk OBVIOUS
<1> HIDE DEF head, bulks
<1>8. PICK all : all = head \o bulks OBVIOUS
<1>12. /\ Len(head \o bulks) = 1 + n
       /\ \A i \in 1 .. 1 + n : (head \o bulks)[i] = IF i <= 1 THEN head[i] ELSE bulks[i - 1]
  <2>1. /\ Len(head \o bulks) = Len(head) + Len(bulks)
        /\ \A i \in 1 .. Len(head) + Len(bulks) :
             (head \o bulks)[i] = IF i <= Len(head) THEN head[i] ELSE bulks[i - Len(head)]
    BY <1>5, ConcatProperties
  <2> QED BY <1>6, <2>1
<1>9. Len(all) = 1 + n /\ all[1] = head[1] BY <1>8, <1>12
<1>10. \A i \in 2 .. 1 + n : all[i] = Bulk
  <2> SUFFICES ASSUME NEW i \in 2 .. 1 + n PROVE all[i] = Bulk OBVIOUS
  <2>1. i - 1 \in 1 .. n BY <1>3
  <2>2. all[i] = bulks[i - 1] BY <1>8, <1>12
  <2> QED BY <1>7, <2>1, <2>2
<1>11. Whole(all) BY <1>4, <1>9, <1>10 DEF Whole
<1> QED BY <1>2, <1>3, <1>8, <1>11 DEF head, bulks

\* Those about the connection and the server.
LEMMA ServerFramed ==
  ASSUME IInv, NEW t \in Threads,
         DbSize(t) \/ FlushAll(t) \/ ShardsEnd(t) \/ Talk(t) \/ Hello(t) \/ Reset(t) \/ Ask(t)
  PROVE  Framing(job'[t])
<1>1. job \in [Threads -> Jobs] /\ job[t] \in Jobs /\ dialect[t] \in {2, 3} BY DEF IInv, Shaped
<1>2. job[t].pc \in Quiet BY DEF DbSize, FlushAll, ShardsEnd, Talk, Hello, Reset, Ask, At, Quiet
<1>3. ASSUME NEW frames, Says(t, frames), frames = <<>> \o frames, Whole(frames)
      PROVE  Framing(job'[t])
  <2>1. job'[t].pc = "done" /\ job'[t].out = job[t].out \o frames BY <1>3, SaysLeaves
  <2> QED BY <1>2, <1>3, <2>1, QuietSays DEF Framing
<1>4. CASE \E f : Announces(f) = 0 /\ Says(t, <<f>>) BY <1>2, <1>4, LeafFramed
<1>5. CASE ShardsEnd(t) \/ Reset(t) BY <1>4, <1>5, Leaves DEF ShardsEnd, Reset
<1>9. CASE DbSize(t) \/ FlushAll(t)
  <2>1. job'[t].pc = "run" BY <1>1, <1>9 DEF DbSize, FlushAll, At, Jobs
  <2> QED BY <2>1, OthersFramed
<1>6. CASE Talk(t) BY <1>4, <1>6, Leaves DEF Talk, At
<1>7. CASE Hello(t)
  <2> DEFINE d == IF Len(job[t].cmd) = 1 THEN dialect[t] ELSE integer(t, 1)
  <2>1. CASE Says(t, <<Error>>) BY <1>4, <2>1, Leaves
  <2>2. CASE d \in {2, 3} /\ Says(t, hello(t, d))
    <3> HIDE DEF d
    <3>1. greeting(d) \in Seq(Spelt(d)) BY <2>2, GreetingIn
    <3>2. <<>> \o greeting(d) = greeting(d) BY <3>1
    <3> QED BY <1>3, <2>2, <3>2, GreetingWhole DEF hello
  <2> QED BY <1>7, <2>1, <2>2 DEF Hello
<1>8. CASE Ask(t)
  <2>1. job[t].cmd \in Seq(STRING) BY <1>1 DEF Jobs
  <2>2. Config(t) \in Seq(Spelt(dialect[t])) /\ Whole(Config(t)) BY <1>1, <2>1, ConfigIn, ConfigWhole
  <2>3. <<>> \o Config(t) = Config(t) BY <2>2
  <2>4. /\ Announces(Bulk) = 0 /\ Announces(Integer(0)) = 0 /\ Announces(MapOf(dialect[t], 0)) = 0
        /\ Announces(Null(dialect[t])) = 0 /\ Announces(Array(0)) = 0 /\ Announces(Simple) = 0
    BY <1>1, Leaves
  <2>5. Says(t, Config(t)) \/ \E f : Announces(f) = 0 /\ Says(t, <<f>>) BY <1>8, <2>4 DEF Ask, At
  <2> QED BY <1>3, <1>4, <2>2, <2>3, <2>5
<1> QED BY <1>5, <1>6, <1>7, <1>8, <1>9

\* Every step of a command leaves its reply whole or on the way to it.
LEMMA RunFramed ==
  ASSUME IInv, NEW t \in Threads, Framing(job[t]), Run(t)
  PROVE  Framing(job'[t])
<1>1. CASE Refuse(t) BY <1>1, LeafFramed, Leaves DEF Refuse, Quiet
<1>2. CASE strings(t) BY <1>2, StringsFramed
<1>3. CASE keyspace(t)
  BY <1>3, EachBeginsFramed, EachKeyFramed, EachEndsFramed, TimedFramed, ServerFramed DEF keyspace
<1>4. CASE Talk(t) \/ Hello(t) \/ Reset(t) \/ Ask(t) BY <1>4, ServerFramed
<1>5. CASE Shutdown(t)
  <2>1. job' = job BY <1>5 DEF Shutdown
  <2> QED BY <2>1
<1> QED BY <1>1, <1>2, <1>3, <1>4, <1>5 DEF Run

\* A thread between two commands, and a command that begins, have said nothing.
LEMMA BlankFramed ==
  ASSUME IInv, NEW t \in Threads, Return(t) \/ \E c \in CommandsOf[t] : Begin(t, c)
  PROVE  Framing(job'[t])
<1>1. job \in [Threads -> Jobs] /\ job[t] \in Jobs BY DEF IInv, Shaped
<1>2. CASE Return(t)
  <2>1. job'[t] = Idle BY <1>1, <1>2 DEF Return
  <2>2. Idle.pc = "idle" BY DEF Idle
  <2> QED BY <2>1, <2>2, OthersFramed
<1>3. CASE \E c \in CommandsOf[t] : Begin(t, c)
  <2>1. PICK c \in CommandsOf[t] : Begin(t, c) BY <1>3
  <2>2. job'[t] = [Idle EXCEPT !.pc = "run", !.cmd = c] BY <1>1, <2>1 DEF Begin
  <2>3. job'[t].pc = "run" BY <2>2, IdleSound DEF Jobs
  <2> QED BY <2>3, OthersFramed
<1> QED BY <1>2, <1>3

\* The invariant with the replies' frames in it.
InFrame == IInv /\ \A t \in Threads : Framing(job[t])

\* Every command is answered with exactly one reply, nested headers and all: a
\* client that counts the frames MGET, CONFIG GET and HELLO announce finds them,
\* whatever another thread does between the keys of a command.
THEOREM OneReply == Spec => []Framed
<1>1. Init => InFrame
  <2> SUFFICES ASSUME Init PROVE InFrame OBVIOUS
  <2>1. IInv BY InitFine
  <2>2. ASSUME NEW t \in Threads PROVE Framing(job[t])
    <3>1. job[t] = Idle BY DEF Init
    <3>2. Idle.pc = "idle" BY DEF Idle
    <3> QED BY <3>1, <3>2, OthersFramed
  <2> QED BY <2>1, <2>2 DEF InFrame
<1>2. InFrame /\ [Next]_vars => InFrame'
  <2> SUFFICES ASSUME InFrame, [Next]_vars PROVE InFrame' OBVIOUS
  <2>1. IInv' BY NextFine DEF InFrame
  <2>2. ASSUME NEW u \in Threads PROVE Framing(job'[u])
    <3>1. CASE UNCHANGED job BY <3>1 DEF InFrame
    <3>2. CASE \E t \in Threads : Run(t) \/ Return(t) \/ \E c \in CommandsOf[t] : Begin(t, c)
      <4>1. PICK t \in Threads : Run(t) \/ Return(t) \/ \E c \in CommandsOf[t] : Begin(t, c) BY <3>2
      <4>2. Framing(job[t]) /\ IInv BY DEF InFrame
      <4>3. Framing(job'[t]) BY <4>1, <4>2, RunFramed, BlankFramed
      <4>4. u # t => job'[u] = job[u] BY <4>1, <4>2, RunFine DEF Fine
      <4> QED BY <4>3, <4>4 DEF InFrame
    <3>3. CASE Tick \/ Sweep BY <3>1, <3>3 DEF Tick, Sweep
    <3> QED BY <3>1, <3>2, <3>3 DEF Next, vars
  <2>3. (\A t \in Threads : Framing(job[t]))' BY <2>2
  <2> QED BY <2>1, <2>3 DEF InFrame
<1>3. InFrame => Framed
  <2> SUFFICES ASSUME InFrame, NEW t \in Threads, Done(t) PROVE Owed(job[t].out) = 0 BY DEF Framed
  <2>1. Whole(job[t].out) BY DEF InFrame, Framing, Done
  <2>2. job[t].out \in Seq(Frames) BY DEF InFrame, IInv, Shaped, Jobs
  <2> QED BY <2>1, <2>2, WholeOwesNone
<1> QED BY <1>1, <1>2, <1>3, PTL DEF Spec
=============================================================================
