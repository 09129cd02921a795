------------------------------ MODULE MCCodec ------------------------------
(* The three encodings, one at a time: the sides that are not being looked   *)
(* at stay as they are.                                                      *)
EXTENDS Resp, Entry, Group, TLC

CONSTANTS Sides, none

VARIABLE side

vars == <<side, respVars, entryVars, groupVars>>

-----------------------------------------------------------------------------
(* Commands whose arguments look like framing, and lengths of two digits.    *)

Empty == <<>>
Plain == <<LETTER>>
Lines == <<CR, NL>>
Framing == <<STAR, 1, CR, NL, DOLLAR, 1>>
Quit == <<2, LETTER>>
Long == <<1, 1, 1, 1, 1, NL, 1, 1, 1, 1, 1>>

RespPipelines == {<< <<Plain, Framing>>, <<Empty, Lines, Plain>> >>,
                  << <<Lines>>, <<Plain, Empty>>, <<Framing, Plain>> >>,
                  << <<Plain, Long>>, <<Plain, Plain>> >>,
                  << <<Plain, Empty>>, <<>>, <<Quit>>, <<Plain, Plain>> >>}

RespQuits == {Quit}

\* Every short string, strings one byte away from a command, and an inline line
\* that is never ended, or ended late.
Short == UNION {[1 .. n -> {STAR, DOLLAR, MINUS, 0, 2, NL, SPACE, LETTER}] : n \in 1 .. 3}
Right == encode(<<Plain, Plain>>) \o encode(<<Lines>>)
Off(bad) == {[Right EXCEPT ![i] = bad] : i \in 1 .. Len(Right)}
RespNoise == Short \cup UNION {Off(bad) : bad \in {NL, MINUS, 0, 3, 9}}
               \cup {Quit \o <<NL, LETTER, SPACE, LETTER, NL>>, [i \in 1 .. 8 |-> LETTER], [i \in 1 .. 8 |-> LETTER] \o <<NL>>,
                     <<STAR, MINUS, 1, CR, NL, LETTER, SPACE, LETTER, CR, NL>>,
                     <<STAR, 0, CR, NL>> \o encode(<<Plain>>)}

EKeys == {<<>>, <<LETTER % 16, 1>>, <<1, 2, 3>>}
Run(n) == [i \in 1 .. n |-> 5]
EValues == {<<>>, Run(7), Run(8), <<0>>, <<0, 0, 7>>, <<SIGN>>, <<SIGN, 0>>, <<1, 2>>, <<SIGN, 1, 3>>,
            <<1, 3>>, <<SIGN, 1, 4>>, <<1, 11>>}
EWords == {0, 37, 255}
ESteps == {1, -1, 12, -13}

-----------------------------------------------------------------------------
RespIdle == /\ sent = <<>> /\ stream = <<>> /\ filled = 0 /\ at = 0 /\ doing = "execute"
            /\ asked = 0 /\ looks = 0 /\ keys = {} /\ into = <<>> /\ commands = <<>>
            /\ closing = "no" /\ full = FALSE
EntryIdle == bytes = <<>> /\ meant = none
GroupIdle == /\ build = "sse2" /\ lanes = [i \in 1 .. LANES |-> EMPTY] /\ wanted = 0 /\ mask = {}
             /\ visited = <<>>

Init ==
  /\ side \in Sides
  /\ \/ side = "resp" /\ RespInit /\ EntryIdle /\ GroupIdle
     \/ side = "entry" /\ EntryInit /\ RespIdle /\ GroupIdle
     \/ side = "group" /\ GroupInit /\ RespIdle /\ EntryIdle

Next ==
  \/ side = "resp" /\ RespNext /\ UNCHANGED <<side, entryVars, groupVars>>
  \/ side = "entry" /\ EntryNext /\ UNCHANGED <<side, respVars, groupVars>>
  \/ side = "group" /\ GroupNext /\ UNCHANGED <<side, respVars, entryVars>>

Spec == Init /\ [][Next]_vars
=============================================================================
