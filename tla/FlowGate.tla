------------------------------- MODULE FlowGate -------------------------------
(***************************************************************************)
(* What the traffic gate promises about each connection, whatever threads, *)
(* locks and timers implement it: a connection is let through or killed at *)
(* once, or held and later let through or killed; a decision is final, and *)
(* a connection is never decided twice.                                    *)
(***************************************************************************)

CONSTANT Flow    \* the connections the gate is asked about

VARIABLE gate    \* gate[f]: what happened to f so far

Verdict == {"passed", "killed"}

TypeOK == gate \in [Flow -> {"idle", "held"} \cup Verdict]

Init == gate = [f \in Flow |-> "idle"]

Hold(f) ==
  /\ gate[f] = "idle"
  /\ gate' = [gate EXCEPT ![f] = "held"]

\* One step may settle several flows: a timeout pass does.
Settle(F, verdict) ==
  /\ \A f \in F : gate[f] \notin Verdict
  /\ gate' = [f \in Flow |-> IF f \in F THEN verdict ELSE gate[f]]

Next ==
  \/ \E f \in Flow : Hold(f)
  \/ \E F \in SUBSET Flow, v \in Verdict : Settle(F, v)

Spec == Init /\ [][Next]_gate

===============================================================================
