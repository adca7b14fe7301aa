------------------------------ MODULE MCUdpDaemon ------------------------------
(* A small instance of the whole daemon: two destinations, two requests, and  *)
(* a file that either says nothing or allows all but the first destination.   *)
EXTENDS UdpDaemon

CONSTANTS k1, k2, q1, q2

MCSaveable ==
  {{}, {[action |-> "allow", keys |-> {k1, k2}], [action |-> "deny", keys |-> {k1}]}}
===============================================================================
