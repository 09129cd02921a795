------------------------------ MODULE MCShard ------------------------------
(* A small instance of Shard: three keys that start in the same group of a   *)
(* table of two groups, two of them with the same tag.                       *)
EXTENDS Shard

CONSTANTS k1, k2, k3

OneGroup == {k1, k2, k3}
MCGroupHash == [k \in Keys |-> IF k = k3 THEN 2 ELSE 0]
MCTag == [k \in Keys |-> IF k = k3 THEN "b" ELSE "a"]
MCSizeOf == [v \in Values |-> v]
=============================================================================
