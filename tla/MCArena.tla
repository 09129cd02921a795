------------------------------ MODULE MCArena ------------------------------
(* Small instances of Arena: owners are interchangeable. *)
EXTENDS Arena, TLC

CONSTANTS o1, o2, o3

ThreeOwners == {o1, o2, o3}
OwnersAlike == Permutations(Owners)
=============================================================================
