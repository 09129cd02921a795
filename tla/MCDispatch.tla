----------------------------- MODULE MCDispatch -----------------------------
(* Small instances of Dispatch: a client that says everything, and a rival   *)
(* whose writes land between the calls of the first one's commands.          *)
EXTENDS Dispatch

CONSTANTS t1, t2

TwoThreads == {t1, t2}

\* A shard for each key; and a map of one shard.
TwoShards == <<{"a"}, {"b"}>>
OneShard == <<{"a"}>>

\* 3-bit integers, with the ends and a spelling only one of the parsers reads.
MCNumerals == [w \in {"-4", "-1", "0", "1", "2", "3", "+1"} |->
                 CASE w = "-4" -> -4 [] w = "-1" -> -1 [] w = "0" -> 0 [] w \in {"1", "+1"} -> 1
                   [] w = "2" -> 2 [] w = "3" -> 3]

Said ==
  {<<"LPUSH", "a">>, <<"GET">>, <<"GET", "a">>, <<"STRLEN", "a">>,
   <<"MGET", "a", "b">>, <<"MSET", "a", "x", "b", "x">>, <<"MSET", "a">>, <<"MSET">>,
   <<"INCR", "a">>, <<"DECR", "a">>, <<"INCRBY", "a", "3">>, <<"INCRBY", "a", "x">>,
   <<"DECRBY", "a", "3">>, <<"DECRBY", "a", "-4">>,
   <<"SET", "a", "x">>, <<"SET", "a", "+1">>,
   <<"SET", "a", "x", "NX", "EX", "1">>, <<"SET", "a", "1", "XX", "KEEPTTL">>,
   <<"SET", "a", "x", "PX", "1">>, <<"SET", "a", "x", "EX", "-1">>,
   <<"SET", "a", "x", "PXAT", "3">>, <<"SET", "a", "x", "EX">>, <<"SET", "a", "x", "GET">>,
   <<"SETEX", "a", "1", "x">>, <<"PSETEX", "a", "2", "x">>, <<"SETEX", "a", "0", "x">>,
   <<"DEL", "a", "b">>, <<"EXISTS", "a", "a">>,
   <<"EXPIRE", "a", "1">>, <<"PEXPIRE", "a", "1">>, <<"EXPIREAT", "a", "1">>,
   <<"PEXPIREAT", "a", "-1">>, <<"EXPIRE", "a", "x">>,
   <<"TTL", "a">>, <<"PTTL", "a">>, <<"PERSIST", "a">>, <<"DBSIZE">>, <<"FLUSHALL">>,
   <<"PING">>, <<"PING", "x">>, <<"PING", "x", "x">>, <<"ECHO", "x">>, <<"SELECT", "0">>,
   <<"SELECT", "1">>, <<"HELLO">>, <<"HELLO", "2">>, <<"HELLO", "3">>, <<"HELLO", "1">>,
   <<"RESET">>, <<"QUIT">>, <<"INFO">>, <<"COMMAND">>, <<"COMMAND", "DOCS">>,
   <<"COMMAND", "COUNT">>, <<"CONFIG", "GET", "save">>, <<"CONFIG", "GET", "*", "port">>,
   <<"CONFIG", "SET">>, <<"CLIENT", "GETNAME">>, <<"CLIENT", "ID">>, <<"CLIENT">>,
   <<"SHUTDOWN">>}

Rival == {<<"SET", "a", "x">>, <<"FLUSHALL">>}

MCCommandsOf == [t \in Threads |-> IF t = t1 THEN Said ELSE Rival]

\* One client, one key and the largest of numbers.
Lone == {t1}
LongLives == [t \in Threads |-> {<<"SET", "a", "x">>, <<"EXPIRE", "a", "3">>}]
=============================================================================
