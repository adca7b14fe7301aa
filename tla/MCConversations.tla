---------------------------- MODULE MCConversations ----------------------------
(* Two conversations of up to two versions, two sessions, two terminals. *)
EXTENDS Conversations, FiniteSets, TLC

CONSTANTS a, b, s, t, p, q

Symmetry == Permutations({a, b}) \cup Permutations({s, t}) \cup Permutations({p, q})

\* Bound: deletions, resumptions and copies cut short, over all conversations.
FewMishaps ==
  Cardinality(given_up.deleted) + Cardinality(given_up.resumed) + Cardinality(cut) <= 2
===============================================================================
