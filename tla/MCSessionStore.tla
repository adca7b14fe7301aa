---------------------------- MODULE MCSessionStore ----------------------------
(* Invocations and session names are interchangeable. *)
EXTENDS SessionStore, TLC

CONSTANTS n1, n2, n3, p1, p2, p3

Interchangeable == Permutations(Name) \cup Permutations(Proc)
===============================================================================
