-------------------------------- MODULE Resp --------------------------------
(***************************************************************************)
(* The wire protocol (rugo-resp/src/lib.rs) as a connection reads it       *)
(* (Conn::execute and Conn::ask_ahead).  A client's bytes arrive in        *)
(* whatever pieces the network makes of them; after each the connection    *)
(* looks at the commands ahead, and parses from the end of the last one    *)
(* into an argument list it reuses, until there is no whole one left, the  *)
(* connection closes, or the replies it owes reach their ceiling.          *)
(*                                                                         *)
(* A byte is a number.  Digits are 0 to 9; the others are named below.     *)
(* Offsets count from 0, as the code's do.                                 *)
(***************************************************************************)
EXTENDS Integers, Sequences, SequencesExt

CONSTANTS
  Pipelines,     \* what clients that keep to the protocol send: sequences of commands
  Noise,         \* byte strings other clients send
  Quits,         \* the names of a command after whose reply the connection closes
  WIRE_MAX,      \* i64::MAX
  MAX_ARGS, MAX_BULK, MAX_INLINE,
  AHEAD,         \* how many commands ask_ahead looks at
  Nothing        \* Rust's None

NL == 10
CR == 11
STAR == 12
DOLLAR == 13
MINUS == 14
PLUS == 15
SPACE == 16
LETTER == 17

ASSUME RespAssumption ==
  /\ {WIRE_MAX, MAX_ARGS, MAX_BULK, MAX_INLINE, AHEAD} \subseteq Nat \ {0}
  /\ MAX_ARGS <= WIRE_MAX /\ MAX_BULK <= WIRE_MAX

\* A client that keeps to the protocol stays within its limits.
ASSUME BytesAssumption ==
  /\ {Noise, Quits} \subseteq SUBSET Seq(Nat) /\ Pipelines \subseteq Seq(Seq(Seq(Nat)))
  /\ \A pipeline \in Pipelines : \A n \in DOMAIN pipeline :
       /\ Len(pipeline[n]) <= MAX_ARGS
       /\ \A i \in DOMAIN pipeline[n] : Len(pipeline[n][i]) <= MAX_BULK

ASSUME NothingAssumption ==
  /\ Nothing \notin Int /\ Nothing \notin Pipelines
  /\ Nothing \notin [text : Seq(Nat), next : Nat] /\ Nothing \notin [at : Nat, len : Nat]
  /\ Nothing \notin [used : Nat, key : [at : Nat, len : Nat] \cup {Nothing}]

VARIABLES
  sent,          \* the commands the stream spells, or Nothing for noise
  stream,        \* the bytes
  filled,        \* how many have arrived
  at,            \* how many belong to commands already parsed
  doing,         \* "fill", or in execute: "execute", "ask" or "parse"
  asked, looks,  \* how far the look-ahead has come, and in how many commands
  keys,          \* where it found keys
  into,          \* the argument list, reused
  commands,      \* where the arguments of the commands parsed so far are
  closing,       \* "no", or why: "lost" after a protocol error, "last" after a last reply
  full           \* the replies owed have reached MAX_REPLY

respVars == <<sent, stream, filled, at, doing, asked, looks, keys, into, commands, closing, full>>

Drop(s, n) == SubSeq(s, n + 1, Len(s))
Slice(s, span) == SubSeq(s, span.at + 1, span.at + span.len)

-----------------------------------------------------------------------------
(* Encoder: a request is spelt as an array of bulks, as a reply is. *)

decimalOf[n \in Nat] == IF n < 10 THEN <<n>> ELSE Append(decimalOf[n \div 10], n % 10)
header(mark, n) == <<mark>> \o decimalOf[n] \o <<CR, NL>>
bulk(bytes) == header(DOLLAR, Len(bytes)) \o bytes \o <<CR, NL>>
encode(args) == header(STAR, Len(args)) \o FlattenSeq([i \in DOMAIN args |-> bulk(args[i])])

-----------------------------------------------------------------------------
(* Lines and numbers. *)

newline(from) == SelectInSeq(from, LAMBDA byte : byte = NL)

\* A line without its terminator, and where the next one starts.
line(buf, start) ==
  LET from == Drop(buf, start)
      end == newline(from)
      cut == IF end > 1 /\ from[end - 1] = CR THEN end - 2 ELSE end - 1
  IN  IF end = 0 THEN Nothing ELSE [text |-> SubSeq(from, 1, cut), next |-> start + end]

\* The number digits spell, or Nothing when one is no digit or the i64 overflows.
value_of(digits) ==
  LET value[i \in 0 .. Len(digits)] ==
        IF i = 0 THEN 0
        ELSE IF value[i - 1] = Nothing \/ digits[i] \notin 0 .. 9 THEN Nothing
        ELSE IF 10 * value[i - 1] + digits[i] > WIRE_MAX THEN Nothing
        ELSE 10 * value[i - 1] + digits[i]
  IN  value[Len(digits)]

\* A signed decimal; a sum that leaves the i64 is refused, and so is the most
\* negative one, which is read as a positive first.
number(text) ==
  LET signed == text # <<>> /\ text[1] \in {MINUS, PLUS}
      digits == IF signed THEN Tail(text) ELSE text
      value == value_of(digits)
  IN  IF digits = <<>> \/ value = Nothing THEN Nothing
      ELSE IF signed /\ text[1] = MINUS THEN -value ELSE value

-----------------------------------------------------------------------------
(* parse *)

More(spans) == [is |-> "more", used |-> 0, spans |-> spans]
Bad(spans) == [is |-> "bad", used |-> 0, spans |-> spans]
Done(used, spans) == [is |-> "done", used |-> used, spans |-> spans]

\* The announced length of the bulk whose header is text, or Nothing.
bulk_len(text) ==
  IF text = <<>> \/ text[1] # DOLLAR THEN Nothing
  ELSE LET len == number(Tail(text))
       IN  IF len = Nothing THEN Nothing ELSE IF len \in 0 .. MAX_BULK THEN len ELSE Nothing

\* One bulk of an array, after so much of it.
parse_bulk(buf, so) ==
  LET head == line(buf, so.used)
      len == bulk_len(head.text)
  IN  IF head = Nothing THEN More(so.spans)
      ELSE IF len = Nothing THEN Bad(so.spans)
      ELSE IF Len(buf) < head.next + len + 2 THEN More(so.spans)
      ELSE IF Len(so.spans) >= MAX_ARGS THEN Bad(so.spans)
      ELSE Done(head.next + len + 2, Append(so.spans, [at |-> head.next, len |-> len]))

parse_array(buf, spans) ==
  LET first == line(buf, 0)
      count == number(Tail(first.text))
      walk[i \in 0 .. count] ==
        IF i = 0 THEN Done(first.next, spans)
        ELSE IF walk[i - 1].is # "done" THEN walk[i - 1] ELSE parse_bulk(buf, walk[i - 1])
  IN  IF first = Nothing THEN More(spans)
      ELSE IF count = Nothing THEN Bad(spans)
      ELSE IF count < 0 THEN Done(first.next, spans)
      ELSE IF count > MAX_ARGS THEN Bad(spans)
      ELSE walk[count]

\* The words of a line: the longest runs without white space.
words(text) ==
  LET Blank(i) == text[i] \in {SPACE, CR}
      starts == SelectSeq([i \in DOMAIN text |-> i],
                          LAMBDA i : ~Blank(i) /\ (i = 1 \/ Blank(i - 1)))
      Width(i) == SelectInSeq(Drop(text, i - 1) \o <<SPACE>>, LAMBDA byte : byte \in {SPACE, CR}) - 1
  IN  [n \in DOMAIN starts |-> [at |-> starts[n] - 1, len |-> Width(starts[n])]]

parse_inline(buf, spans) ==
  LET first == line(buf, 0)
  IN  IF first = Nothing
      THEN IF Len(buf) > MAX_INLINE THEN Bad(spans) ELSE More(spans)
      ELSE IF Len(words(first.text)) > MAX_ARGS THEN Bad(spans)
      ELSE Done(first.next, spans \o words(first.text))

\* (mutant) what an attempt that came too early pushed is still there
Cleared_never(spans) == spans

Cleared(spans) == <<>>

parse(buf, spans) ==
  IF buf = <<>> THEN More(Cleared(spans))
  ELSE IF buf[1] = STAR THEN parse_array(buf, Cleared(spans)) ELSE parse_inline(buf, Cleared(spans))

-----------------------------------------------------------------------------
(* peek *)

\* (mutant) the key is taken to be the first argument
KEY_first == 0

\* Which argument is the key.
KEY == 1

\* The bulk of argument n, after so much of the command.
peek_bulk(buf, so, n) ==
  LET head == line(buf, so.used)
      len == bulk_len(head.text)
  IN  IF head = Nothing THEN Nothing
      ELSE IF len = Nothing THEN Nothing
      ELSE IF Len(buf) < head.next + len + 2 THEN Nothing
      ELSE [used |-> head.next + len + 2,
            key |-> IF n = KEY THEN [at |-> head.next, len |-> len] ELSE so.key]

\* Where the command at the front ends and where its key is, if all of it can
\* be read.
peek(buf) ==
  LET first == line(buf, 0)
      count == number(Tail(first.text))
      walk[i \in 0 .. count] ==
        IF i = 0 THEN [used |-> first.next, key |-> Nothing]
        ELSE IF walk[i - 1] = Nothing THEN Nothing ELSE peek_bulk(buf, walk[i - 1], i - 1)
  IN  IF buf = <<>> THEN Nothing
      ELSE IF buf[1] # STAR \/ first = Nothing THEN Nothing
      ELSE IF count = Nothing THEN Nothing
      ELSE IF count \notin 0 .. MAX_ARGS THEN Nothing ELSE walk[count]

-----------------------------------------------------------------------------
(* The connection. *)

Rest(from) == SubSeq(stream, from + 1, filled)
Moved(span, from) == [span EXCEPT !.at = @ + from]

RespInit ==
  /\ \/ sent \in Pipelines /\ stream = FlattenSeq([i \in DOMAIN sent |-> encode(sent[i])])
     \/ sent = Nothing /\ stream \in Noise
  /\ filled = 0 /\ at = 0 /\ doing = "fill" /\ asked = 0 /\ looks = 0 /\ keys = {}
  /\ into = <<>> /\ commands = <<>> /\ closing = "no" /\ full = FALSE

\* A read brings some more of it, or nothing; what was owed may have been written
\* since; and execute begins.
Arrive ==
  /\ doing = "fill" /\ closing = "no"
  /\ \E n \in 0 .. Len(stream) - filled : filled' = filled + n
  /\ full' \in {FALSE, full}
  /\ doing' = "execute" /\ asked' = at
  /\ UNCHANGED <<sent, stream, at, looks, keys, into, commands, closing>>

\* The condition of execute's loop, and its end.
Goes == closing = "no" /\ ~full

Stop ==
  /\ doing = "execute" /\ ~Goes
  /\ doing' = "fill"
  /\ UNCHANGED <<sent, stream, filled, at, asked, looks, keys, into, commands, closing, full>>

\* Everything asked for has been run: ask_ahead begins.
Ask ==
  /\ doing = "execute" /\ Goes /\ at >= asked
  /\ doing' = "ask" /\ asked' = at /\ looks' = 0
  /\ UNCHANGED <<sent, stream, filled, at, keys, into, commands, closing, full>>

\* One command of ask_ahead, or its end.
ask_ahead ==
  /\ doing = "ask"
  /\ \E next \in {peek(Rest(asked))} :
       IF looks = AHEAD \/ next = Nothing
       THEN doing' = "parse" /\ UNCHANGED <<asked, looks, keys>>
       ELSE /\ keys' = keys \cup (IF next.key = Nothing THEN {} ELSE {Moved(next.key, asked)})
            /\ asked' = asked + next.used /\ looks' = looks + 1
            /\ UNCHANGED doing
  /\ UNCHANGED <<sent, stream, filled, at, into, commands, closing, full>>

quits(command) == command # <<>> /\ Slice(stream, command[1]) \in Quits

\* A command is run, unless it is an empty one: its reply may fill the buffer, and
\* may be the last.
Runs(command) ==
  /\ commands' = Append(commands, command)
  /\ closing' = IF quits(command) THEN "last" ELSE closing
  /\ full' \in IF command = <<>> THEN {full} ELSE BOOLEAN

\* One pass of execute's loop over what has arrived.  An error is answered too.
Parse ==
  /\ doing = "parse" \/ (doing = "execute" /\ Goes /\ at < asked)
  /\ \E found \in {parse(Rest(at), into)} :
       /\ into' = found.spans
       /\ \/ /\ found.is = "done"
             /\ at' = at + found.used /\ doing' = "execute"
             /\ Runs([i \in DOMAIN found.spans |-> Moved(found.spans[i], at)])
          \/ found.is = "more" /\ doing' = "fill" /\ UNCHANGED <<at, commands, closing, full>>
          \/ /\ found.is = "bad" /\ doing' = "fill" /\ closing' = "lost" /\ full' \in BOOLEAN
             /\ UNCHANGED <<at, commands>>
  /\ UNCHANGED <<sent, stream, filled, asked, looks, keys>>

RespNext == Arrive \/ Stop \/ Ask \/ ask_ahead \/ Parse

RespSpec == RespInit /\ [][RespNext]_respVars

-----------------------------------------------------------------------------
(* Properties. *)

\* A line that is not an array and ends past MAX_INLINE: it is refused when it is
\* looked at before its end has arrived, and run when it is not.
Overlong(from) == from # <<>> /\ from[1] # STAR /\ newline(from) > MAX_INLINE + 1

\* What a client's bytes mean does not depend on how they are cut up on the way, nor
\* on where a full reply buffer interrupts them.  A client that keeps to the
\* protocol gets exactly the commands it sent, line ends, asterisks and dollars in
\* its arguments included, and nothing after its QUIT; for any other, what is
\* decided from the bytes that have arrived, and with what earlier commands and
\* attempts left in the argument list, is what the whole stream would have
\* decided, an overlong line apart.
SplitFree ==
  LET read == [n \in DOMAIN commands |-> [i \in DOMAIN commands[n] |-> Slice(stream, commands[n][i])]]
  IN  /\ sent # Nothing =>
           /\ IsPrefix(read, sent) /\ closing # "lost"
           /\ doing = "fill" /\ filled = Len(stream) /\ Goes => read = sent
      /\ \A n \in DOMAIN commands : quits(commands[n]) => n = Len(commands) /\ closing = "last"
      /\ ~Overlong(Drop(stream, at)) =>
           \A part \in {parse(Rest(at), into)}, whole \in {parse(Drop(stream, at), <<>>)} :
             part.is # "more" \/ filled = Len(stream) => part = whole

\* The look-ahead reads the framing the parser reads: once the parser is past a key
\* it found, that was the second argument of a command; when execute ends for want
\* of a whole command the parser is past all of them, and only a last reply or a
\* full buffer leaves some for later, or for never; and of a client that keeps to
\* the protocol it misses none.
PeekAgrees ==
  LET seconds == {commands[n][2] : n \in {n \in DOMAIN commands : Len(commands[n]) > 1}}
  IN  /\ \A key \in keys : key.at < at => key \in seconds
      /\ doing = "fill" /\ closing # "last" /\ ~full => keys \subseteq seconds
      /\ sent # Nothing => seconds \subseteq keys
=============================================================================
