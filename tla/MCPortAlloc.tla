------------------------------ MODULE MCPortAlloc ------------------------------
(* Small instances of PortAlloc: two sizes of one pool. *)
EXTENDS PortAlloc, TLC

CONSTANTS s1, s2, s3, p1, p2

Pools == {[first |-> 1, last |-> 2], [first |-> 1, last |-> 4]}

Symmetry == Permutations({s1, s2, s3}) \cup Permutations({p1, p2})
===============================================================================
