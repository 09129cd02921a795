-------------------------------- MODULE Conn --------------------------------
(***************************************************************************)
(* One client and its connection (rugo-server/src/conn.rs), driven by      *)
(* either of the two event loops: the readiness loop over a level          *)
(* triggered poller (rugo-server/src/lib.rs) or the completion loop over a *)
(* ring (rugo-server/src/uring.rs).                                        *)
(*                                                                         *)
(* A client sends a script of commands and reads replies, each as fast as  *)
(* it likes; the kernel holds a bounded number of bytes each way.  Bytes   *)
(* are numbered: byte i of the requests is the integer i, and so is byte i *)
(* of the replies the script should get, so that a byte lost, repeated or  *)
(* out of place anywhere on the way shows in what the client reads.        *)
(***************************************************************************)
EXTENDS Integers, Sequences, FiniteSetsExt

CONSTANTS
  Loops,         \* the loops a connection may be on, "poller" and "ring"
  Scripts,       \* the scripts a client may send, sequences of commands
  CHUNK,         \* the read buffer's first size
  SPARE,         \* the room a read needs
  MAX_REQUEST,   \* the largest the read buffer grows
  MAX_REPLY,     \* the replies that may pile up
  SOCKET,        \* bytes the kernel holds each way
  MAY_SHUT,      \* whether the client may shut its writing half
  MAY_VANISH     \* whether the client may disappear

\* A command: the byte of the requests it ends at, the byte of the replies its
\* reply ends at, and whether it is ordinary, ends the connection (QUIT) or is
\* not a command at all.
Commands == [ends : Nat \ {0}, answered : Nat, kind : {"plain", "last", "bad"}]

ASSUME ConnAssumption ==
  /\ Loops \subseteq {"poller", "ring"} /\ MAY_SHUT \in BOOLEAN /\ MAY_VANISH \in BOOLEAN
  /\ \A s \in Scripts :
       /\ s \in Seq(Commands)
       /\ \A i, j \in DOMAIN s : i < j => s[i].ends < s[j].ends /\ s[i].answered <= s[j].answered
  /\ {CHUNK, SPARE, MAX_REQUEST, MAX_REPLY, SOCKET} \subseteq Nat \ {0}
  /\ SPARE <= CHUNK /\ CHUNK <= MAX_REQUEST

VARIABLES
  loop,          \* which loop this connection is on
  script,        \* what this client sends
  asked, shut, vanished, received,   \* the client: bytes sent, whether it ended, replies
  inbox, outbox, \* what the kernel holds for the server and for the client
  buf, size, at, \* the filled part of the read buffer, its whole size, how much is done with
  out, sent,     \* the replies, and how many bytes of them the socket has taken
  closing, armed,      \* go after the last reply; watched for writing
  open,          \* the server still has the connection
  pc, readable,  \* where the loop is, and what the event said
  flight, res,   \* ring: the operation in flight, and how the last one ended
  landed         \* ring: bytes the kernel put past the filled part

client == <<script, asked, shut, vanished, received>>
reading == <<buf, size, at>>
writing == <<out, sent>>
ring == <<flight, res, landed>>
vars == <<loop, client, inbox, outbox, reading, writing, closing, armed, open, pc, readable, ring>>

\* Bytes of the first k commands, and of their replies.
Asks(k) == IF k \in DOMAIN script THEN script[k].ends ELSE 0
Owes(k) == IF k \in DOMAIN script THEN script[k].answered ELSE 0
Request(k) == Asks(k) - Asks(k - 1)
Reply(k) == Owes(k) - Owes(k - 1)

owes == sent < Len(out)
Least(a, b) == IF a < b THEN a ELSE b

-----------------------------------------------------------------------------
Init ==
  /\ loop \in Loops /\ script \in Scripts
  /\ asked = 0 /\ shut = FALSE /\ vanished = FALSE /\ received = <<>>
  /\ inbox = <<>> /\ outbox = <<>>
  /\ buf = <<>> /\ size = CHUNK /\ at = 0
  /\ out = <<>> /\ sent = 0 /\ closing = FALSE /\ armed = FALSE /\ open = TRUE
  /\ pc = (IF loop = "ring" THEN "step" ELSE "wait")
  /\ readable = FALSE /\ flight = "none" /\ res = 0 /\ landed = <<>>

(* The client and the kernel. *)

Send ==
  /\ ~shut /\ ~vanished /\ open
  /\ asked < Asks(Len(script)) /\ Len(inbox) < SOCKET
  /\ asked' = asked + 1 /\ inbox' = Append(inbox, asked + 1)
  /\ UNCHANGED <<loop, script, shut, vanished, received, outbox, reading, writing, closing, armed,
                 open, pc, readable, ring>>

Receive ==
  /\ ~vanished /\ outbox # <<>>
  /\ received' = Append(received, Head(outbox)) /\ outbox' = Tail(outbox)
  /\ UNCHANGED <<loop, script, asked, shut, vanished, inbox, reading, writing, closing, armed,
                 open, pc, readable, ring>>

\* A client that has sent everything shuts its writing half and reads on.
Shut ==
  /\ MAY_SHUT /\ ~shut /\ ~vanished /\ asked = Asks(Len(script))
  /\ shut' = TRUE
  /\ UNCHANGED <<loop, script, asked, vanished, received, inbox, outbox, reading, writing, closing,
                 armed, open, pc, readable, ring>>

Vanish ==
  /\ MAY_VANISH /\ ~vanished /\ open
  /\ vanished' = TRUE
  /\ UNCHANGED <<loop, script, asked, shut, received, inbox, outbox, reading, writing, closing,
                 armed, open, pc, readable, ring>>

-----------------------------------------------------------------------------
(* What both loops are made of. *)

\* The loop drops the connection, which closes its socket.
Close ==
  /\ open' = FALSE /\ pc' = "closed"
  /\ UNCHANGED <<loop, client, inbox, outbox, reading, writing, closing, armed, readable, ring>>

(* make_room: drop what was done with, then double, unless that is too much. *)

Short == size - Len(buf) < SPARE
Kept == IF Short THEN SubSeq(buf, at + 1, Len(buf)) ELSE buf

\* (mutant) the bytes are moved to the front and the cursor stays
Cursor_stays == at

Cursor == IF Short THEN 0 ELSE at
Doubles == size - Len(Kept) < SPARE

\* (mutant) the bound is checked before doubling
TooLarge_late == Doubles /\ size > MAX_REQUEST

TooLarge == Doubles /\ 2 * size > MAX_REQUEST
Size == IF Doubles THEN 2 * size ELSE size

\* The command whose byte is next in the read buffer, and whether all of it is there.
Upcoming == CHOOSE k \in 1..Len(script) : Asks(k - 1) < buf[at + 1] /\ buf[at + 1] <= Asks(k)
Whole(k) == Len(buf) - at >= Request(k)
Bytes(k) == [i \in 1..Reply(k) |-> Owes(k - 1) + i]

\* (mutants) no ceiling, or one on what is owed rather than on the buffer
MayExecute_piled == ~closing
MayExecute_owed == ~closing /\ Len(out) - sent < MAX_REPLY

\* execute goes on while there is something to run and room for its reply.
MayExecute == ~closing /\ Len(out) < MAX_REPLY

\* One pass of execute's loop: a whole command is run and its reply appended.
Run ==
  /\ pc = "execute" /\ MayExecute /\ at < Len(buf)
  /\ LET k == Upcoming
     IN  /\ out' = out \o Bytes(k)
         /\ \/ /\ script[k].kind # "bad" /\ Whole(k)
               /\ at' = at + Request(k)
               /\ closing' = (script[k].kind = "last")
            \* Framing is lost: say so and hang up.
            \/ /\ script[k].kind = "bad"
               /\ closing' = TRUE /\ UNCHANGED at
  /\ UNCHANGED <<loop, client, inbox, outbox, buf, size, sent, armed, open, pc, readable, ring>>

\* Its end: nothing whole is left, or the replies have piled up.
RunEnds ==
  /\ pc = "execute"
  /\ MayExecute /\ at < Len(buf) => script[Upcoming].kind # "bad" /\ ~Whole(Upcoming)
  /\ IF at = Len(buf) THEN at' = 0 /\ buf' = <<>> ELSE UNCHANGED <<at, buf>>
  /\ pc' = (IF loop = "ring" THEN "stepped" ELSE "flush")
  /\ UNCHANGED <<loop, client, inbox, outbox, size, writing, closing, armed, open, readable, ring>>

-----------------------------------------------------------------------------
(* The readiness loop: serve_poller and Conn::turn. *)

\* The poller reports the connection.  It is always watched for reading, which
\* a peer that shut its half satisfies for ever.
Wake ==
  /\ pc = "wait" /\ loop = "poller" /\ ~vanished
  /\ LET read == inbox # <<>> \/ shut
         write == armed /\ Len(outbox) < SOCKET
     IN  /\ read \/ write
         /\ readable' = read
         /\ pc' = IF write THEN "flush_first" ELSE "fill"
  /\ UNCHANGED <<loop, client, inbox, outbox, reading, writing, closing, armed, open, ring>>

\* A client that has gone: the event says so, or reading or writing fails.
Gone ==
  /\ loop = "poller" /\ vanished
  /\ pc \in {"wait", "fill"} \/ (pc \in {"flush_first", "flush"} /\ owes)
  /\ Close

\* fill has nowhere to read into, or reads the end of what the peer will send.
Hangup ==
  /\ pc = "fill" /\ ~vanished /\ (TooLarge \/ inbox = <<>>)
  /\ Close

fill ==
  /\ pc = "fill" /\ ~vanished /\ ~TooLarge /\ inbox # <<>>
  /\ LET read == Least(Size - Len(Kept), Len(inbox))
     IN  /\ buf' = Kept \o SubSeq(inbox, 1, read)
         /\ inbox' = SubSeq(inbox, read + 1, Len(inbox))
  /\ size' = Size /\ at' = Cursor
  /\ pc' = "execute"
  /\ UNCHANGED <<loop, client, outbox, writing, closing, armed, open, readable, ring>>

\* What flush's write takes: as much as the kernel has room for.
Taken == Least(Len(out) - sent, SOCKET - Len(outbox))

\* The part already taken is dropped when it is all, or when it is much.
Drained == sent + Taken = Len(out) \/ sent + Taken > MAX_REPLY

\* (mutant) the interest is changed only to stop writing
Wants_never(left) == FALSE

\* The interest a turn ends with: writing is watched for while something is owed.
Wants(left) == left

\* flush, before the read if the socket was writable and after it if it was
\* readable; a turn that is not going on to read ends here.
flush ==
  /\ pc \in {"flush_first", "flush"} /\ ~(vanished /\ owes)
  /\ outbox' = outbox \o SubSeq(out, sent + 1, sent + Taken)
  /\ IF Drained THEN out' = SubSeq(out, sent + Taken + 1, Len(out)) /\ sent' = 0
                ELSE sent' = sent + Taken /\ UNCHANGED out
  /\ LET left == sent' < Len(out')
     IN  IF pc = "flush_first" /\ readable
         THEN pc' = "fill" /\ UNCHANGED <<armed, open>>
         ELSE IF closing /\ ~left
         THEN pc' = "closed" /\ open' = FALSE /\ UNCHANGED armed
         ELSE pc' = "wait" /\ armed' = Wants(left) /\ UNCHANGED open
  /\ UNCHANGED <<loop, client, inbox, reading, closing, readable, ring>>

-----------------------------------------------------------------------------
(* The completion loop: serve_uring, carried and Conn::step. *)

\* The kernel finishes the operation in flight, some of it at least.
Complete ==
  /\ \/ /\ flight = "recv" /\ inbox # <<>> /\ ~vanished
        /\ \E n \in 1 .. Least(size - Len(buf), Len(inbox)) :
             /\ landed' = SubSeq(inbox, 1, n) /\ res' = n
             /\ inbox' = SubSeq(inbox, n + 1, Len(inbox))
        /\ UNCHANGED outbox
     \/ /\ flight = "send" /\ Len(outbox) < SOCKET /\ ~vanished
        /\ \E n \in 1 .. Taken :
             outbox' = outbox \o SubSeq(out, sent + 1, sent + n) /\ res' = n
        /\ UNCHANGED <<inbox, landed>>
     \/ /\ \/ flight # "none" /\ vanished
           \/ flight = "recv" /\ inbox = <<>> /\ shut
        /\ res' = 0 /\ UNCHANGED <<inbox, outbox, landed>>
  /\ flight' = "none"
  /\ pc' = "carried"
  /\ UNCHANGED <<loop, client, reading, writing, closing, armed, open, readable>>

\* carried: what completed is told by what the connection owes.
Carried ==
  /\ pc = "carried" /\ res > 0
  /\ IF owes THEN sent' = Least(Len(out), sent + res) /\ UNCHANGED <<buf, landed>>
             ELSE /\ buf' = buf \o landed
                  /\ landed' = <<>> /\ UNCHANGED sent
  /\ pc' = "step"
  /\ UNCHANGED <<loop, client, inbox, outbox, size, at, out, closing, armed, open, readable, flight, res>>

CarriedNothing == pc = "carried" /\ res = 0 /\ Close

\* (mutant) a closing connection goes without its last reply
SendsFirst_open == owes /\ ~closing

SendsFirst == owes

StepSend ==
  /\ pc = "step" /\ SendsFirst
  /\ flight' = "send" /\ pc' = "wait"
  /\ UNCHANGED <<loop, client, inbox, outbox, reading, writing, closing, armed, open, readable, res,
                 landed>>

StepExecute ==
  /\ pc = "step" /\ ~SendsFirst /\ ~closing /\ at < Len(buf)
  /\ out' = <<>> /\ sent' = 0
  /\ pc' = "execute"
  /\ UNCHANGED <<loop, client, inbox, outbox, reading, closing, armed, open, readable, ring>>

\* (mutant) what execute answered is not sent before the next read
Idle_after == pc = "stepped" \/ (pc = "step" /\ ~SendsFirst /\ (closing \/ at = Len(buf)))

\* The other ways round: execute answered nothing, or there was nothing to run.
Idle ==
  \/ pc = "stepped" /\ out = <<>>
  \/ pc = "step" /\ ~SendsFirst /\ (closing \/ at = Len(buf))

StepAgain ==
  /\ pc = "stepped" /\ out # <<>> /\ pc' = "step"
  /\ UNCHANGED <<loop, client, inbox, outbox, reading, writing, closing, armed, open, readable, ring>>

StepRecv ==
  /\ Idle /\ ~closing /\ ~TooLarge
  /\ buf' = Kept /\ size' = Size /\ at' = Cursor
  /\ out' = <<>> /\ sent' = 0
  /\ flight' = "recv" /\ pc' = "wait"
  /\ UNCHANGED <<loop, client, inbox, outbox, closing, armed, open, readable, res, landed>>

StepClose == Idle /\ (closing \/ TooLarge) /\ Close

-----------------------------------------------------------------------------
Client == Send \/ Receive \/ Shut \/ Vanish
Turn == Wake \/ Gone \/ Hangup \/ fill \/ flush
Step == Carried \/ CarriedNothing \/ StepSend \/ StepExecute \/ StepAgain \/ StepRecv \/ StepClose
Server == Run \/ RunEnds \/ Turn \/ Step

Next == Client \/ Server \/ Complete

Spec == Init /\ [][Next]_vars

\* The thread runs, the kernel finishes what it can, and a client that sent a
\* command reads what comes back.  It need not send more, or shut, or vanish.
FairSpec == Spec /\ WF_vars(Server) /\ WF_vars(Complete) /\ WF_vars(Receive)

-----------------------------------------------------------------------------
(* Properties. *)

\* Every cursor is inside its buffer and no buffer outgrows its bound.
TypeOK ==
  /\ loop \in Loops /\ script \in Scripts /\ asked \in 0..Asks(Len(script))
  /\ {shut, vanished, closing, armed, open, readable} \subseteq BOOLEAN
  /\ Len(inbox) <= SOCKET /\ Len(outbox) <= SOCKET
  /\ at \in 0..Len(buf) /\ Len(buf) <= size /\ size \in CHUNK..MAX_REQUEST
  /\ sent \in 0..Len(out)
  /\ pc \in {"wait", "fill", "execute", "flush_first", "flush", "carried", "step", "stepped",
             "closed"}
  /\ flight \in {"none", "recv", "send"} /\ res \in 0..Max({MAX_REQUEST, SOCKET})

\* However requests are split on their way in, replies on their way out, and the
\* buffers moved, grown, drained and cleared in between, the client reads
\* exactly the replies to its commands, in the order it sent them.
RepliesInOrder == received = [i \in 1..Len(received) |-> i]

\* A pipeline of commands with large replies does not make an unbounded write
\* buffer: no reply is begun once MAX_REPLY bytes have piled up.
ReplyBounded == out # <<>> => \E k \in DOMAIN script : Len(out) < MAX_REPLY + Reply(k)

\* What the client sent whole is answered.
AllAnswered(k) == Len(received) >= Owes(k) \/ ~open \/ vanished
Longest == Max({Len(s) : s \in Scripts})

\* On the ring a connection goes only once every reply it made has been given to
\* the socket, whatever the client ended or shut meanwhile, unless the client
\* disappeared.
LastReplyWritten == loop = "ring" /\ ~open /\ ~vanished => ~owes

\* "Even a closing connection gets its last reply written before it goes": the
\* same on either loop.
LastReplyAlwaysWritten == ~open /\ ~vanished => ~owes

\* On the ring a command that has arrived whole is answered, as long as the
\* client reads, unless the connection goes.
Answered ==
  \A k \in 1 .. Longest :
    (loop = "ring" /\ k <= Len(script) /\ asked >= Asks(k)) ~> AllAnswered(k)

\* "the rest wait in the read buffer ... until the socket takes what is here": the
\* same on either loop.
AlwaysAnswered ==
  \A k \in 1 .. Longest : (k <= Len(script) /\ asked >= Asks(k)) ~> AllAnswered(k)

\* On either loop a connection that owes a reply gets it written, and one that is
\* closing goes.
Drains == (owes ~> ~owes \/ ~open \/ vanished) /\ (closing ~> ~open)
=============================================================================
