------------------------------- MODULE UdpRedir -------------------------------
(***************************************************************************)
(* udp-redir, the daemon that decides every outbound UDP datagram of a     *)
(* session (proxy/udp-redir: main.go, holdbuf.go, api.go).  The kernel     *)
(* queues a datagram until the daemon sets a verdict on its id.            *)
(*                                                                         *)
(* Three kinds of goroutine meet in the hold buffer: the netfilter         *)
(* callback, one datagram at a time; the five-second ticker; and one       *)
(* goroutine per HTTP request to /resolve.  Each holds the buffer's mutex  *)
(* only while it takes datagrams in or out: the verdicts are set after the *)
(* unlock, so a datagram is at any time in the buffer or in the hands of   *)
(* the one goroutine that took it out.  UdpDaemon adds the rules by which  *)
(* the callback decides; here it decides or holds as it likes.             *)
(***************************************************************************)

EXTENDS Naturals, FiniteSets

CONSTANTS
  Key,        \* flow keys: destination address, port and DNS name
  Request,    \* /resolve requests that may run at the same time
  Max,        \* HoldBuf.max, datagrams held per key
  QueueLen,   \* MaxQueueLen: datagrams the kernel keeps without a verdict
  MaxPackets  \* bound: datagrams in one behaviour

ASSUME ConstantsAssumption ==
  /\ Key # {} /\ Max \in Nat \ {0}
  /\ QueueLen \in Nat
  /\ MaxPackets \in Nat

VARIABLES
  next,     \* the id the kernel gives to the next datagram
  keyOf,    \* the key of each datagram that was ever held
  outcome,  \* what became of each: "none" (no verdict asked for), "accepted",
            \* "dropped", or "refused" (the one call for its verdict failed)
  held,     \* HoldBuf.pending; ids grow in arrival order, so the set is the queue
  stale,    \* the held datagrams whose ExpiresAt is past
  evicted,  \* the set with the id Add returned to the callback, or {}
  swept,    \* what EvictExpired returned and the ticker has yet to drop
  req       \* each request's position, key, action and ids left

vars == <<next, keyOf, outcome, held, stale, evicted, swept, req>>

Packet == 1..MaxPackets

Arrived == {p \in Packet : p < next}

Idle == [pc |-> "idle"]

Found(k, action) == [pc |-> "found", key |-> k, action |-> action]

Answering(k, action, ids) ==
  [pc |-> "answer", key |-> k, action |-> action, ids |-> ids]

\* The datagrams a request has drained and not yet decided.
InHand(r) == IF req[r].pc = "answer" THEN req[r].ids ELSE {}

TypeOK ==
  /\ next \in 1..(MaxPackets + 1)
  /\ keyOf \in [Packet -> Key]
  /\ outcome \in [Packet -> {"none", "refused", "accepted", "dropped"}]
  /\ held \in [Key -> SUBSET Packet]
  /\ stale \subseteq UNION {held[k] : k \in Key}
  /\ evicted \subseteq Packet
  /\ swept \subseteq Packet
  /\ req \in [Request ->
       {Idle}
       \cup {Found(k, a) : k \in Key, a \in {"allow", "deny"}}
       \cup {Answering(k, a, I) :
               k \in Key, a \in {"allow", "deny"}, I \in SUBSET Packet}]

Init ==
  /\ next = 1
  /\ keyOf = [p \in Packet |-> CHOOSE k \in Key : TRUE]
  /\ outcome = [p \in Packet |-> "none"]
  /\ held = [k \in Key |-> {}]
  /\ stale = {}
  /\ evicted = {}
  /\ swept = {}
  /\ req = [r \in Request |-> Idle]

\* The datagrams nobody has asked a verdict for, and those whose one call for
\* it failed: the kernel keeps both in its queue.
Unasked == {p \in Arrived : outcome[p] = "none"}

Refused == {p \in Arrived : outcome[p] = "refused"}

Undecided == Unasked \cup Refused

\* Calls of nfqueue's SetVerdict for the datagrams of D.  It is a netlink write
\* with a deadline of 200 ms and may fail; the daemon discards its error, goes
\* on as if the verdict were set, and never calls for these datagrams again.
SetVerdict(D, verdict) ==
  \E answer \in {verdict, "refused"} :
    outcome' = [p \in Packet |-> IF p \in D THEN answer ELSE outcome[p]]

-------------------------------------------------------------------------------
(* The netfilter callback. *)

\* The kernel hands over a datagram, if its queue is not full and the callback
\* has returned from the last one.
Arrives ==
  /\ evicted = {}
  /\ next \in Packet
  /\ Cardinality(Undecided) < QueueLen
  /\ next' = next + 1

\* The callback decides it at once: it does not parse, or a deny rule covers it,
\* or an allow rule does.
DecideNow(verdict) ==
  /\ Arrives
  /\ SetVerdict({next}, verdict)
  /\ UNCHANGED <<keyOf, held, stale, evicted, swept, req>>

Oldest(S) == {p \in S : \A q \in S : p <= q}

\* Mutant: off by one in the bound.
HoldOneTooMany(k) ==
  /\ Arrives /\ keyOf' = [keyOf EXCEPT ![next] = k]
  /\ LET out == IF Cardinality(held[k]) > Max THEN Oldest(held[k]) ELSE {}
     IN /\ held' = [held EXCEPT ![k] = (@ \ out) \cup {next}]
        /\ evicted' = out
        /\ stale' = stale \ out
  /\ UNCHANGED <<outcome, swept, req>>

\* No rule covers it: HoldBuf.Add stores it, and takes out the oldest of its
\* key when there are already Max.
Hold(k) ==
  /\ Arrives /\ keyOf' = [keyOf EXCEPT ![next] = k]
  /\ LET out == IF Cardinality(held[k]) >= Max THEN Oldest(held[k]) ELSE {}
     IN /\ held' = [held EXCEPT ![k] = (@ \ out) \cup {next}]
        /\ evicted' = out
        /\ stale' = stale \ out
  /\ UNCHANGED <<outcome, swept, req>>

\* The callback drops the datagram that Add gave back.
DropEvicted ==
  /\ evicted # {}
  /\ SetVerdict(evicted, "dropped")
  /\ evicted' = {}
  /\ UNCHANGED <<next, keyOf, held, stale, swept, req>>

\* The kernel's queue is full: it drops the datagram itself, whatever the rules.
KernelDrops ==
  /\ next \in Packet
  /\ Cardinality(Undecided) >= QueueLen
  /\ outcome' = [outcome EXCEPT ![next] = "dropped"]
  /\ next' = next + 1
  /\ UNCHANGED <<keyOf, held, stale, evicted, swept, req>>

-------------------------------------------------------------------------------
(* The ticker. *)

\* The TTL of a held datagram runs out, in arrival order.
HoldExpires(p) ==
  /\ \E k \in Key : p \in held[k]
  /\ p \notin stale
  /\ \A k \in Key : \A q \in held[k] : q < p => q \in stale
  /\ stale' = stale \cup {p}
  /\ UNCHANGED <<next, keyOf, outcome, held, evicted, swept, req>>

\* Mutant: the expired datagrams are collected but stay in the buffer.
EvictKeepsEntries ==
  /\ swept = {}
  /\ stale # {}
  /\ swept' = stale
  /\ UNCHANGED <<next, keyOf, outcome, held, stale, evicted, req>>

\* HoldBuf.EvictExpired, called once the drops of the last tick are out.
EvictExpired ==
  /\ swept = {}
  /\ stale # {}
  /\ swept' = stale
  /\ held' = [k \in Key |-> held[k] \ stale]
  /\ stale' = {}
  /\ UNCHANGED <<next, keyOf, outcome, evicted, req>>

DropSwept(p) ==
  /\ p \in swept
  /\ SetVerdict({p}, "dropped")
  /\ swept' = swept \ {p}
  /\ UNCHANGED <<next, keyOf, held, stale, evicted, req>>

-------------------------------------------------------------------------------
(* POST /resolve. *)

\* The handler looks the flow id up in a snapshot of the keys; one that is not
\* there answers 404 and changes nothing.
ResolveFind(r, k, action) ==
  /\ req[r] = Idle
  /\ held[k] # {}
  /\ req' = [req EXCEPT ![r] = Found(k, action)]
  /\ UNCHANGED <<next, keyOf, outcome, held, stale, evicted, swept>>

\* Mutant: the drained key is not deleted from the map.
DrainKeepsKey(r) ==
  /\ req[r].pc = "found"
  /\ req' = [req EXCEPT ![r] = Answering(@.key, @.action, held[@.key])]
  /\ UNCHANGED <<next, keyOf, outcome, held, stale, evicted, swept>>

\* Mutant: the drain takes every held datagram.
DrainTakesAll(r) ==
  /\ req[r].pc = "found"
  /\ req' = [req EXCEPT ![r] = Answering(@.key, @.action, UNION {held[k] : k \in Key})]
  /\ held' = [k \in Key |-> {}]
  /\ stale' = {}
  /\ UNCHANGED <<next, keyOf, outcome, evicted, swept>>

\* Drain takes what the key holds by then: more, fewer or none of the datagrams
\* the lookup saw.
ResolveDrain(r) ==
  /\ req[r].pc = "found"
  /\ LET k == req[r].key
     IN /\ req' = [req EXCEPT ![r] = Answering(k, @.action, held[k])]
        /\ held' = [held EXCEPT ![k] = {}]
        /\ stale' = stale \ held[k]
  /\ UNCHANGED <<next, keyOf, outcome, evicted, swept>>

ResolveVerdict(r, p) ==
  /\ p \in InHand(r)
  /\ SetVerdict({p}, IF req[r].action = "allow" THEN "accepted" ELSE "dropped")
  /\ req' = [req EXCEPT ![r] = Answering(@.key, @.action, @.ids \ {p})]
  /\ UNCHANGED <<next, keyOf, held, stale, evicted, swept>>

\* Mutant: the handler returns after the first verdict.
ReplyEarly(r) ==
  /\ req[r].pc = "answer"
  /\ req' = [req EXCEPT ![r] = Idle]
  /\ UNCHANGED <<next, keyOf, outcome, held, stale, evicted, swept>>

\* 200 OK once a verdict was asked for every drained datagram, even if there was
\* none and whatever became of the calls.
ResolveReply(r) ==
  /\ req[r].pc = "answer"
  /\ InHand(r) = {}
  /\ req' = [req EXCEPT ![r] = Idle]
  /\ UNCHANGED <<next, keyOf, outcome, held, stale, evicted, swept>>

-------------------------------------------------------------------------------

Handle(r) ==
  \/ ResolveDrain(r)
  \/ \E p \in Packet : ResolveVerdict(r, p)
  \/ ResolveReply(r)

Tick == EvictExpired \/ \E p \in Packet : DropSwept(p)

Next ==
  \/ \E v \in {"accepted", "dropped"} : DecideNow(v)
  \/ \E k \in Key : Hold(k)
  \/ DropEvicted
  \/ KernelDrops
  \/ \E p \in Packet : HoldExpires(p)
  \/ Tick
  \/ \E r \in Request, k \in Key, a \in {"allow", "deny"} : ResolveFind(r, k, a)
  \/ \E r \in Request : Handle(r)

Spec == Init /\ [][Next]_vars

\* The daemon's goroutines run and time passes.
Fairness ==
  /\ WF_vars(DropEvicted)
  /\ WF_vars(\E p \in Packet : HoldExpires(p))
  /\ WF_vars(Tick)
  /\ \A r \in Request : WF_vars(Handle(r))

FairSpec == Spec /\ Fairness

-------------------------------------------------------------------------------
(* Safety. *)

\* The places an undecided datagram can be in.
Places ==
  {<<"held", k>> : k \in Key} \cup {<<"evicted", 0>>, <<"swept", 0>>, <<"refused", 0>>}
  \cup {<<"req", r>> : r \in Request}

In(place) ==
  CASE place[1] = "held"    -> held[place[2]]
    [] place[1] = "evicted" -> evicted
    [] place[1] = "swept"   -> swept
    [] place[1] = "refused" -> Refused
    [] place[1] = "req"     -> InHand(place[2])

\* Every datagram the kernel is still keeping is in exactly one place, and
\* nothing that has its verdict is in any: no datagram drops out of the buffer
\* and the goroutines' hands before a verdict was asked for it, no two
\* goroutines ask for the same one, and nobody asks a second time.  One whose
\* call failed is in nobody's hands: the kernel keeps it and nothing retries.
OnePlace ==
  /\ \A p \in Undecided : \E a \in Places : p \in In(a)
  /\ \A a \in Places : In(a) \subseteq Undecided
  /\ \A a, b \in Places : a # b => In(a) \cap In(b) = {}

\* At most Max datagrams of a key are held, however arrivals, expiries and
\* drains interleave.
HeldBounded == \A k \in Key : Cardinality(held[k]) <= Max

OwnAllowOnly ==
  \A p \in Undecided : outcome'[p] = "accepted" =>
    \E r \in Request : p \in InHand(r) /\ req[r].action = "allow" /\ req[r].key = keyOf[p]

\* A datagram that was held reaches the wire only by an "allow" for its own
\* destination: no timeout, overflow or answer for another key releases it.
ReleasedByItsOwnAllow == [][OwnAllowOnly]_vars

\* Where a datagram is on its way through the gate.
Passage ==
  [p \in Packet |->
     IF p >= next THEN "idle"
     ELSE IF outcome[p] \in {"none", "refused"} THEN "held"
     ELSE IF outcome[p] = "accepted" THEN "passed" ELSE "killed"]

Gate == INSTANCE FlowGate WITH Flow <- Packet, gate <- Passage

\* Datagrams get what connections get: decided at once or held and then
\* decided, and no verdict is ever followed by the opposite one.
ImplementsFlowGate == Gate!Spec

(* Liveness. *)

\* A verdict is asked for every datagram, though nobody need answer for it: the
\* kernel's queue always empties again down to the datagrams whose call failed
\* (MaxPackets ends the arrivals).  Those stay, each taking a place in the queue.
AllDecided == []<>(Undecided = Refused)

===============================================================================
