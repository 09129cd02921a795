------------------------------- MODULE MCConn -------------------------------
(* Small instances of Conn: scripts that fill and overflow each buffer. *)
EXTENDS Conn, Functions

Plain(len, reply) == [len |-> len, reply |-> reply, kind |-> "plain"]
Quit == [len |-> 1, reply |-> 1, kind |-> "last"]
Bad == [len |-> 1, reply |-> 2, kind |-> "bad"]

\* A script, from the lengths of its commands and of their replies.
Script(cs) ==
  [i \in DOMAIN cs |->
     [ends |-> SumFunctionOnSet([j \in DOMAIN cs |-> cs[j].len], 1..i),
      answered |-> SumFunctionOnSet([j \in DOMAIN cs |-> cs[j].reply], 1..i),
      kind |-> cs[i].kind]]

\* Replies that together pass the ceiling, one that does by itself, an empty
\* line, an end with a command behind it, a framing error, a request too large.
AllScripts ==
  {Script(cs) : cs \in
    {<<Plain(1, 1), Plain(1, 2), Plain(1, 2), Plain(1, 2)>>,
     <<Plain(1, 2), Plain(2, 6), Plain(1, 1)>>,
     <<Plain(2, 1), Plain(1, 0), Quit, Plain(2, 1)>>,
     <<Plain(3, 1), Plain(9, 1), Bad>>,
     <<Plain(1, 1), Plain(14, 1)>>}}

\* Three commands whose replies together pass the ceiling.
Pipelines == {Script(<<Plain(2, 2), Plain(2, 2), Plain(2, 2)>>)}
=============================================================================
