------------------------------- MODULE UdpDaemon -------------------------------
(***************************************************************************)
(* The whole daemon: the hold buffer of UdpRedir and the rules it decides  *)
(* by (proxy/udp-redir: main.go, rules.go).  The rules are a copy of the   *)
(* file that the dashboard, a process of its own, rewrites after every     *)
(* edit.  No signal passes between the two: for each datagram the callback *)
(* asks for the file's modification time, whose clock advances in ticks,   *)
(* and reads the file again if that time is later than its copy's.         *)
(***************************************************************************)
EXTENDS UdpRedir

CONSTANT Saveable  \* the lists of rules there may be to save

\* What the matcher needs of a rule: its action and the flows it covers.
ASSUME SaveableAssumption ==
  /\ Saveable # {}
  /\ \A rs \in Saveable : \A r \in rs : r.action \in {"allow", "deny"} /\ r.keys \subseteq Key

VARIABLES
  readable, \* does rulesPath name the file that the dashboard saves?
  file,     \* the rules in the file, and whether it is being rewritten
  newer,    \* is its modification time later than rulesMtime, the copy's?
  copy,     \* state.rules, the rules as last read
  hurried   \* history: was it written again in the tick of the copy's own time?

disk == <<readable, file, newer, copy, hurried>>
all == <<vars, disk>>

Whole(rules) == [rules |-> rules, torn |-> FALSE]
Torn == [rules |-> {}, torn |-> TRUE]

\* newState and the first reload.  Unless PROXY_RULES_PATH says otherwise the
\* path is that of the host, and there is no such file in the container.
DaemonInit ==
  /\ Init
  /\ readable \in BOOLEAN /\ file \in {Whole(rs) : rs \in Saveable} /\ newer = FALSE /\ hurried = FALSE
  /\ copy = IF readable THEN file.rules ELSE {}

-------------------------------------------------------------------------------
(* RuleStore.save: open, which truncates the file, and then write. *)

\* Each of the two sets the modification time; the clock may have advanced.
SaveOpen ==
  /\ readable /\ file # Torn
  /\ file' = Torn /\ newer' \in {newer, TRUE}
  /\ UNCHANGED <<vars, readable, copy, hurried>>

SaveWrite ==
  /\ file = Torn
  /\ file' \in {Whole(rs) : rs \in Saveable} /\ newer' \in {newer, TRUE}
  /\ hurried' = ~newer'
  /\ UNCHANGED <<vars, readable, copy>>

-------------------------------------------------------------------------------
(* The callback *)

\* reloadIfChanged: a file that is not there, not newer, or cannot be parsed
\* leaves the copy and its time as they are.
Reload ==
  IF readable /\ newer /\ file # Torn
  THEN newer' = FALSE /\ copy' = file.rules
  ELSE UNCHANGED <<newer, copy>>

\* matchUDP: a deny rule before an allow rule.
Ruling(rules, k) ==
  IF \E r \in rules : r.action = "deny" /\ k \in r.keys THEN "deny"
  ELSE IF \E r \in rules : r.action = "allow" /\ k \in r.keys THEN "allow" ELSE "none"

\* Mutant: the file is looked at after the verdict.
CallbackReloadsLate(k) ==
  /\ Reload /\ UNCHANGED <<readable, file, hurried>>
  /\ \/ Ruling(copy, k) = "allow" /\ DecideNow("accepted")
     \/ Ruling(copy, k) = "deny" /\ DecideNow("dropped")
     \/ Ruling(copy, k) = "none" /\ Hold(k)

\* What becomes of a datagram with key k.
Callback(k) ==
  /\ Reload /\ UNCHANGED <<readable, file, hurried>>
  /\ \/ Ruling(copy', k) = "allow" /\ DecideNow("accepted")
     \/ Ruling(copy', k) = "deny" /\ DecideNow("dropped")
     \/ Ruling(copy', k) = "none" /\ Hold(k)

\* One that does not parse is dropped.
Malformed == Reload /\ DecideNow("dropped") /\ UNCHANGED <<readable, file, hurried>>

HoldBuffer ==
  /\ \/ DropEvicted \/ KernelDrops \/ Tick
     \/ \E p \in Packet : HoldExpires(p)
     \/ \E r \in Request, k \in Key, a \in {"allow", "deny"} : ResolveFind(r, k, a)
     \/ \E r \in Request : Handle(r)
  /\ UNCHANGED disk

DaemonNext ==
  \/ SaveOpen \/ SaveWrite
  \/ \E k \in Key : Callback(k)
  \/ Malformed \/ HoldBuffer

DaemonSpec == DaemonInit /\ [][DaemonNext]_all /\ Fairness

-------------------------------------------------------------------------------
(* Properties *)

Judged(k) ==
  LET accepted == outcome'[next] = "accepted"
      isHeld   == next \in held'[k]
  IN /\ accepted => readable
     /\ (readable /\ ~file.torn /\ ~hurried) =>
          /\ accepted => Ruling(file.rules, k) = "allow"
          /\ isHeld => Ruling(file.rules, k) = "none"

(* A datagram is judged by the rules saved last: it passes at once only if
   they allow it and is held only if they are silent on it, although no lock
   and no signal connects the save and the reload.  (While a save is under
   way, or when two of them share a tick of the clock, the rules before may
   still be in force.)  If the file is not where the daemon looks, nothing
   passes at once. *)
JudgedByLastSave == [][\A k \in Key : Callback(k) => Judged(k)]_all
===============================================================================
