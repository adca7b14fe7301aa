----------------------------- MODULE MCProxyAddon -----------------------------
(* Small instances of ProxyAddon. *)
EXTENDS ProxyAddon

CONSTANTS f1, f2, f3, r1, r2, r3

MCBody ==
  {[action |-> "allow", covers |-> {f1, f2}, malformed |-> FALSE, temporary |-> TRUE],
   [action |-> "deny",  covers |-> {f1},     malformed |-> FALSE, temporary |-> FALSE],
   [action |-> "allow", covers |-> {f2},     malformed |-> TRUE,  temporary |-> FALSE]}

\* The rules a preset seeds the session with.
MCSeed ==
  {[id |-> r1, body |-> [action |-> "deny", covers |-> {f2}, malformed |-> FALSE,
                         temporary |-> TRUE]]}
===============================================================================
