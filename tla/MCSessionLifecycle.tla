-------------------------- MODULE MCSessionLifecycle --------------------------
(* Commands that come one at a time on one name, and two creators that race. *)
EXTENDS SessionLifecycle, TLC, FiniteSets

CONSTANTS p1, p2

\* Invocations are interchangeable.
Interchangeable == Permutations(Procs)

\* Bound: commands come one at a time and pass over two failures at most, or two
\* creators race whose teardown succeeds.  Rules of the operator's own, which no
\* property of this instance tells from the seeded ones, during the first command.
OneOrTwoCreators ==
  /\ \/ Alone /\ \A p \in Procs : Cardinality(proc[p].missed) <= 2
     \/ issued <= 2 /\ \A p \in Procs : proc[p].cmd \in {"none", "new"} /\ proc[p].missed = {}
  /\ disk.state = "user" => issued = 1
===============================================================================
