------------------------------ MODULE MCWorker ------------------------------
(* Two clients and one listener: enough for a slot to be emptied and filled  *)
(* within a batch, and for more operations than a ring of two holds.         *)
EXTENDS Worker

CONSTANTS c1, c2

TwoClients == {c1, c2}
=============================================================================
