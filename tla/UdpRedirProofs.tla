---------------------------- MODULE UdpRedirProofs ----------------------------
(***************************************************************************)
(* Proofs about udp-redir, for every number of destinations, requests and  *)
(* datagrams and every size of the buffer: a datagram without a verdict is *)
(* in the hands of exactly one goroutine, the buffer keeps its bound, and  *)
(* a held datagram is released only by an allow for its own destination.   *)
(***************************************************************************)
EXTENDS UdpDaemon, FiniteSetTheorems, WellFoundedInduction, TLAPS

\* What a call for a verdict may come to.
Answer == {"refused", "accepted", "dropped"}

\* Somebody has p and will see to its verdict.
Owned(p) ==
  \/ \E k \in Key : p \in held[k]
  \/ p \in evicted \/ p \in swept
  \/ \E r \in Request : p \in InHand(r)

Apart ==
  /\ \A p \in Packet : p >= next => outcome[p] = "none"
  /\ \A p \in Packet : Owned(p) <=> p \in Unasked
  /\ \A k \in Key : \A p \in held[k] :
       p \notin evicted /\ p \notin swept /\ \A r \in Request : p \notin InHand(r)
  /\ \A p \in evicted : p \notin swept /\ \A r \in Request : p \notin InHand(r)
  /\ \A p \in swept, r \in Request : p \notin InHand(r)
  /\ \A r, q \in Request : \A p \in InHand(r) : p \in InHand(q) => r = q

\* Datagrams are held, and answered for, under their own key.
Keyed ==
  /\ \A k \in Key : \A p \in held[k] : keyOf[p] = k
  /\ \A r \in Request : \A p \in InHand(r) : keyOf[p] = req[r].key

Inv == TypeOK /\ Apart /\ Keyed /\ HeldBounded

-------------------------------------------------------------------------------
(* Sets of datagrams *)

LEMMA PacketsFinite ==
  ASSUME NEW S \in SUBSET Packet
  PROVE  IsFiniteSet(S) /\ Cardinality(S) \in Nat
<1>1. IsFiniteSet(Packet)
  BY FS_Interval, ConstantsAssumption DEF Packet
<1>2. IsFiniteSet(S)
  BY <1>1, FS_Subset
<1>. QED BY <1>2, FS_CardinalityType

\* What Add takes out of a full queue is one datagram, its oldest.
LEMMA OldestIsOne ==
  ASSUME NEW S \in SUBSET Packet, S # {}
  PROVE  \E p \in S : Oldest(S) = {p}
<1>1. PICK p \in S : \A q \in S : p <= q
  <2>1. S \in SUBSET Nat
    BY DEF Packet
  <2>2. PICK p \in S : \A q \in S : ~ (<<q, p>> \in OpToRel(<, Nat))
    BY <2>1, NatLessThanWellFounded, WFMin, Zenon
  <2>3. \A q \in S : ~ (q < p)
    BY <2>1, <2>2, Zenon DEF OpToRel
  <2>. QED BY <2>1, <2>3
<1>2. \A q \in Oldest(S) : q = p
  BY <1>1, ConstantsAssumption DEF Oldest, Packet
<1>3. p \in Oldest(S)
  BY <1>1 DEF Oldest
<1>. QED BY <1>2, <1>3

\* Adding a datagram keeps the bound.
LEMMA AddKeepsBound ==
  ASSUME NEW S \in SUBSET Packet, NEW x \in Packet, x \notin S, Cardinality(S) <= Max
  PROVE  LET out == IF Cardinality(S) >= Max THEN Oldest(S) ELSE {}
         IN  out \in SUBSET S /\ Cardinality((S \ out) \cup {x}) <= Max
<1>0. Max \in Nat \ {0} /\ IsFiniteSet(S) /\ Cardinality(S) \in Nat
  BY PacketsFinite, ConstantsAssumption
<1>1. CASE Cardinality(S) >= Max
  <2>1. S # {}
    BY <1>0, <1>1, FS_EmptySet
  <2>2. PICK p \in S : Oldest(S) = {p}
    BY <2>1, OldestIsOne
  <2>3. IsFiniteSet(S \ {p}) /\ Cardinality(S \ {p}) = Cardinality(S) - 1
    BY <1>0, FS_RemoveElement
  <2>4. Cardinality((S \ {p}) \cup {x}) = Cardinality(S \ {p}) + 1
    BY <2>3, FS_AddElement
  <2>. QED BY <1>0, <1>1, <2>2, <2>3, <2>4
<1>2. CASE ~(Cardinality(S) >= Max)
  <2>1. Cardinality(S \cup {x}) = Cardinality(S) + 1
    BY <1>0, FS_AddElement
  <2>2. (S \ {}) \cup {x} = S \cup {x}
    OBVIOUS
  <2>. QED BY <1>0, <1>2, <2>1, <2>2
<1>. QED BY <1>1, <1>2

LEMMA TakingOutKeepsBound ==
  ASSUME NEW S \in SUBSET Packet, Cardinality(S) <= Max, NEW T \in SUBSET S
  PROVE  Cardinality(T) <= Max
<1>1. Cardinality(T) <= Cardinality(S)
  BY PacketsFinite, FS_Subset
<1>2. Cardinality(T) \in Nat /\ Cardinality(S) \in Nat /\ Max \in Nat
  BY PacketsFinite, ConstantsAssumption
<1>. QED BY <1>1, <1>2

\* What a request is doing.
LEMMA RequestIs ==
  ASSUME TypeOK, NEW r \in Request
  PROVE  \/ req[r] = Idle /\ InHand(r) = {}
         \/ /\ req[r].pc = "found" /\ InHand(r) = {}
            /\ req[r].key \in Key /\ req[r].action \in {"allow", "deny"}
         \/ /\ req[r].pc = "answer" /\ InHand(r) = req[r].ids
            /\ req[r].key \in Key /\ req[r].action \in {"allow", "deny"}
            /\ req[r].ids \in SUBSET Packet
BY DEF TypeOK, InHand, Idle, Found, Answering

-------------------------------------------------------------------------------
(* The invariant *)

LEMMA InitInv == Init => Inv
<1> SUFFICES ASSUME Init PROVE Inv
  OBVIOUS
<1>1. TypeOK
  <2>1. MaxPackets \in Nat /\ (CHOOSE k \in Key : TRUE) \in Key
    BY ConstantsAssumption
  <2>. QED BY <2>1 DEF Init, TypeOK, Packet
<1>2. \A r \in Request : InHand(r) = {}
  BY DEF Init, InHand, Idle
<1>3. Apart /\ Keyed
  BY <1>2 DEF Init, Apart, Keyed, Owned, Unasked, Arrived, Packet
<1>4. HeldBounded
  BY FS_EmptySet, ConstantsAssumption DEF Init, HeldBounded
<1>. QED BY <1>1, <1>3, <1>4 DEF Inv


\* Of a step that leaves the buffer and its goroutines alone.
LEMMA SameOwners ==
  ASSUME UNCHANGED <<held, evicted, swept, req>>
  PROVE  /\ \A r \in Request : InHand(r)' = InHand(r)
         /\ \A p : Owned(p)' <=> Owned(p)
BY DEF InHand, Owned

LEMMA NextDecided ==
  ASSUME Inv, NEW v \in Answer, next \in Packet, next' = next + 1,
         \A p \in Packet : outcome'[p] = IF p = next THEN v ELSE outcome[p],
         outcome' \in [Packet -> {"none", "refused", "accepted", "dropped"}],
         UNCHANGED <<keyOf, held, stale, evicted, swept, req>>
  PROVE  Inv'
<1>0. MaxPackets \in Nat
  BY ConstantsAssumption
<1>1. TypeOK
  BY DEF Inv
<1>2. next' \in 1..(MaxPackets + 1) /\ outcome' \in [Packet -> {"none", "refused", "accepted", "dropped"}]
  BY <1>0, <1>1 DEF TypeOK, Packet
<1>3. TypeOK'
  BY <1>1, <1>2 DEF TypeOK
<1>4. Unasked' = Unasked
  BY <1>0, <1>1 DEF Unasked, Arrived, TypeOK, Packet, Answer
<1>5. \A p \in Packet : p >= next' => outcome'[p] = "none"
  BY <1>0, <1>1 DEF Inv, Apart, TypeOK, Packet
<1>6. Apart' /\ Keyed'
  BY <1>4, <1>5, SameOwners DEF Inv, Apart, Keyed
<1>. QED BY <1>3, <1>6 DEF Inv, HeldBounded

LEMMA NextHold ==
  ASSUME Inv, NEW k \in Key, Hold(k)
  PROVE  Inv'
<1> DEFINE out == IF Cardinality(held[k]) >= Max THEN Oldest(held[k]) ELSE {}
<1>0. /\ MaxPackets \in Nat /\ next \in Packet /\ next' = next + 1 /\ evicted = {}
      /\ keyOf' = [keyOf EXCEPT ![next] = k]
      /\ held' = [held EXCEPT ![k] = (held[k] \ out) \cup {next}]
      /\ evicted' = out /\ stale' = stale \ out
      /\ UNCHANGED <<outcome, swept, req>>
  BY ConstantsAssumption DEF Hold, Arrives
<1>1. TypeOK /\ held[k] \in SUBSET Packet /\ Cardinality(held[k]) <= Max
  BY DEF Inv, TypeOK, HeldBounded
<1>2. next \notin Unasked /\ Unasked' = Unasked \cup {next}
  BY <1>0, <1>1 DEF Inv, Apart, Unasked, Arrived, TypeOK, Packet
<1>3. ~Owned(next)
  BY <1>0, <1>2 DEF Inv, Apart
<1>4. next \notin held[k]
  BY <1>3 DEF Owned
<1>5. out \in SUBSET held[k] /\ Cardinality((held[k] \ out) \cup {next}) <= Max
  BY <1>0, <1>1, <1>4, AddKeepsBound
<1> HIDE DEF out
<1>6. \A l \in Key : held'[l] = IF l = k THEN (held[k] \ out) \cup {next} ELSE held[l]
  BY <1>0, <1>1 DEF TypeOK
<1>7. HeldBounded'
  BY <1>5, <1>6 DEF Inv, HeldBounded
<1>8. TypeOK'
  <2>1. next' \in 1..(MaxPackets + 1)
    BY <1>0 DEF Packet
  <2>2. keyOf' \in [Packet -> Key] /\ outcome' \in [Packet -> {"none", "refused", "accepted", "dropped"}]
    BY <1>0, <1>1 DEF TypeOK
  <2>3. held' \in [Key -> SUBSET Packet]
    BY <1>0, <1>1, <1>5 DEF TypeOK
  <2>4. stale' \subseteq UNION {held'[l] : l \in Key}
    BY <1>0, <1>1, <1>6 DEF TypeOK
  <2>. QED BY <1>0, <1>1, <1>5, <2>1, <2>2, <2>3, <2>4 DEF TypeOK
<1>9. \A r \in Request : InHand(r)' = InHand(r)
  BY <1>0 DEF InHand
<1>10. Keyed'
  <2>1. \A r \in Request : next \notin InHand(r)
    BY <1>3 DEF Owned
  <2>2. \A l \in Key : next \notin held[l]
    BY <1>3 DEF Owned
  <2>3. \A p \in Packet : keyOf'[p] = IF p = next THEN k ELSE keyOf[p]
    BY <1>0, <1>1 DEF TypeOK
  <2>4. ASSUME NEW l \in Key, NEW p \in held'[l] PROVE keyOf'[p] = l
    <3>1. p \in Packet /\ (p = next \/ p \in held[l]) /\ (p = next => l = k)
      BY <1>0, <1>1, <1>6, <2>2, <2>4 DEF TypeOK
    <3>. QED BY <2>2, <2>3, <3>1 DEF Inv, Keyed
  <2>5. ASSUME NEW r \in Request, NEW p \in InHand(r) PROVE keyOf'[p] = req[r].key
    <3>1. p \in Packet /\ p # next
      BY <1>1, <2>1, <2>5, RequestIs
    <3>. QED BY <2>3, <3>1 DEF Inv, Keyed
  <2>. QED BY <1>0, <1>9, <2>4, <2>5 DEF Keyed
<1>11. Apart'
  <2>1. \A p \in Packet : p >= next' => outcome'[p] = "none"
    BY <1>0, <1>1 DEF Inv, Apart, TypeOK, Packet
  <2>2. \A p : Owned(p)' <=> Owned(p) \/ p = next
    BY <1>0, <1>5, <1>6, <1>9 DEF Owned
  <2>3. \A p \in Packet : Owned(p)' <=> p \in Unasked'
    BY <1>2, <2>2 DEF Inv, Apart
  <2>4. \A l \in Key : \A p \in held'[l] : p = next \/ (p \in held[l] /\ (l = k => p \notin out))
    BY <1>6
  <2>5. \A p \in out : p \in held[k] /\ p # next
    BY <1>4, <1>5
  <2>6. next \notin swept /\ \A r \in Request : next \notin InHand(r)
    BY <1>3 DEF Owned
  <2>7. \A l \in Key : l # k => \A p \in out : p \notin held[l]
    BY <1>5 DEF Inv, Keyed
  <2>8. \A l \in Key : \A p \in held'[l] :
          p \notin evicted' /\ p \notin swept' /\ \A r \in Request : p \notin InHand(r)'
    BY <1>0, <1>9, <2>4, <2>5, <2>6, <2>7 DEF Inv, Apart
  <2>9. \A p \in evicted' : p \notin swept' /\ \A r \in Request : p \notin InHand(r)'
    BY <1>0, <1>9, <2>5 DEF Inv, Apart
  <2>. QED BY <1>0, <1>9, <2>1, <2>3, <2>8, <2>9 DEF Inv, Apart
<1>. QED BY <1>7, <1>8, <1>10, <1>11 DEF Inv

\* One call for a verdict, whatever it comes to.
LEMMA VerdictCall ==
  ASSUME outcome \in [Packet -> {"none", "refused", "accepted", "dropped"}],
         NEW D, NEW v \in {"accepted", "dropped"}, SetVerdict(D, v)
  PROVE  /\ outcome' \in [Packet -> {"none", "refused", "accepted", "dropped"}]
         /\ \E a \in Answer : /\ a = v \/ a = "refused"
                              /\ \A p \in Packet : outcome'[p] = IF p \in D THEN a ELSE outcome[p]
<1>1. PICK a \in {v, "refused"} : outcome' = [p \in Packet |-> IF p \in D THEN a ELSE outcome[p]]
  BY Zenon DEF SetVerdict
<1>2. a \in Answer /\ (a = v \/ a = "refused")
  BY <1>1 DEF Answer
<1>. QED BY <1>1, <1>2 DEF Answer

\* A verdict is asked for the datagrams of D, and whoever had them lets go of them.
LEMMA VerdictsAsked ==
  ASSUME Inv, NEW D \in SUBSET Unasked, NEW v \in Answer,
         outcome' \in [Packet -> {"none", "refused", "accepted", "dropped"}],
         \A p \in Packet : outcome'[p] = IF p \in D THEN v ELSE outcome[p],
         next' = next
  PROVE  /\ Unasked' = Unasked \ D
         /\ \A p \in Packet : p >= next' => outcome'[p] = "none"
<1>0. MaxPackets \in Nat
  BY ConstantsAssumption
<1>. QED BY <1>0 DEF Inv, Apart, TypeOK, Unasked, Arrived, Packet, Answer

LEMMA NextDropEvicted ==
  ASSUME Inv, DropEvicted
  PROVE  Inv'
<1>1. TypeOK /\ evicted \in SUBSET Unasked
  BY DEF Inv, TypeOK, Apart, Owned
<1>2. /\ SetVerdict(evicted, "dropped")
      /\ evicted' = {} /\ UNCHANGED <<next, keyOf, held, stale, swept, req>>
  BY DEF DropEvicted
<1>21. PICK a \in Answer : \A q \in Packet : outcome'[q] = IF q \in evicted THEN a ELSE outcome[q]
  BY <1>1, <1>2, VerdictCall DEF TypeOK
<1>3. TypeOK'
  <2>1. outcome' \in [Packet -> {"none", "refused", "accepted", "dropped"}]
    BY <1>1, <1>2, VerdictCall DEF TypeOK
  <2>. QED BY <1>1, <1>2, <2>1 DEF TypeOK
<1>4. /\ Unasked' = Unasked \ evicted
      /\ \A p \in Packet : p >= next' => outcome'[p] = "none"
  <2>1. outcome' \in [Packet -> {"none", "refused", "accepted", "dropped"}] /\ next' = next
    BY <1>1, <1>2, <1>3 DEF TypeOK
  <2>. QED BY <1>1, <1>21, <2>1, VerdictsAsked
<1>5. \A r \in Request : InHand(r)' = InHand(r)
  BY <1>2 DEF InHand
<1>6. \A p \in Packet : Owned(p)' <=> Owned(p) /\ p \notin evicted
  BY <1>2, <1>5 DEF Inv, Apart, Owned
<1>7. Apart' /\ Keyed'
  BY <1>2, <1>4, <1>5, <1>6 DEF Inv, Apart, Keyed
<1>. QED BY <1>2, <1>3, <1>7 DEF Inv, HeldBounded

LEMMA NextHoldExpires ==
  ASSUME Inv, NEW p \in Packet, HoldExpires(p)
  PROVE  Inv'
<1>1. /\ stale' = stale \cup {p} /\ \E k \in Key : p \in held[k]
      /\ UNCHANGED <<next, keyOf, outcome, held, evicted, swept, req>>
  BY DEF HoldExpires
<1>2. TypeOK'
  BY <1>1 DEF Inv, TypeOK
<1>3. Unasked' = Unasked
  BY <1>1 DEF Unasked, Arrived
<1>4. Apart' /\ Keyed'
  BY <1>1, <1>3, SameOwners DEF Inv, Apart, Keyed
<1>. QED BY <1>1, <1>2, <1>4 DEF Inv, HeldBounded

LEMMA NextEvictExpired ==
  ASSUME Inv, EvictExpired
  PROVE  Inv'
<1>1. /\ swept = {} /\ swept' = stale /\ held' = [k \in Key |-> held[k] \ stale] /\ stale' = {}
      /\ UNCHANGED <<next, keyOf, outcome, evicted, req>>
  BY DEF EvictExpired
<1>2. TypeOK /\ stale \in SUBSET Packet /\ \A p \in stale : \E k \in Key : p \in held[k]
  BY DEF Inv, TypeOK
<1>3. TypeOK'
  BY <1>1, <1>2 DEF TypeOK
<1>4. Unasked' = Unasked
  BY <1>1 DEF Unasked, Arrived
<1>5. \A r \in Request : InHand(r)' = InHand(r)
  BY <1>1 DEF InHand
<1>6. \A k \in Key : held'[k] = held[k] \ stale
  BY <1>1
<1>7. \A p \in Packet : Owned(p)' <=> Owned(p)
  BY <1>1, <1>2, <1>5, <1>6 DEF Owned
<1>8. Apart' /\ Keyed'
  BY <1>1, <1>2, <1>4, <1>5, <1>6, <1>7 DEF Inv, Apart, Keyed
<1>9. HeldBounded'
  <2>1. \A k \in Key : held[k] \in SUBSET Packet /\ Cardinality(held[k]) <= Max
    BY <1>2 DEF Inv, TypeOK, HeldBounded
  <2>. QED BY <1>6, <2>1, TakingOutKeepsBound DEF HeldBounded
<1>. QED BY <1>3, <1>8, <1>9 DEF Inv

LEMMA NextDropSwept ==
  ASSUME Inv, NEW p \in Packet, DropSwept(p)
  PROVE  Inv'
<1>1. /\ p \in swept /\ swept' = swept \ {p} /\ SetVerdict({p}, "dropped")
      /\ UNCHANGED <<next, keyOf, held, stale, evicted, req>>
  BY DEF DropSwept
<1>2. TypeOK /\ {p} \in SUBSET Unasked
  BY <1>1 DEF Inv, Apart, Owned
<1>21. PICK a \in Answer : \A q \in Packet : outcome'[q] = IF q \in {p} THEN a ELSE outcome[q]
  BY <1>1, <1>2, VerdictCall DEF TypeOK
<1>3. TypeOK'
  <2>1. outcome' \in [Packet -> {"none", "refused", "accepted", "dropped"}]
    BY <1>1, <1>2, VerdictCall DEF TypeOK
  <2>. QED BY <1>1, <1>2, <2>1 DEF TypeOK
<1>4. /\ Unasked' = Unasked \ {p}
      /\ \A q \in Packet : q >= next' => outcome'[q] = "none"
  <2>1. outcome' \in [Packet -> {"none", "refused", "accepted", "dropped"}] /\ next' = next
    BY <1>1, <1>2, <1>3 DEF TypeOK
  <2>. QED BY <1>2, <1>21, <2>1, VerdictsAsked
<1>5. \A r \in Request : InHand(r)' = InHand(r)
  BY <1>1 DEF InHand
<1>6. \A q \in Packet : Owned(q)' <=> Owned(q) /\ q # p
  BY <1>1, <1>5 DEF Inv, Apart, Owned
<1>7. Apart' /\ Keyed'
  BY <1>1, <1>4, <1>5, <1>6 DEF Inv, Apart, Keyed
<1>. QED BY <1>1, <1>3, <1>7 DEF Inv, HeldBounded

LEMMA NextResolveFind ==
  ASSUME Inv, NEW r \in Request, NEW k \in Key, NEW a \in {"allow", "deny"}, ResolveFind(r, k, a)
  PROVE  Inv'
<1>1. /\ req[r] = Idle /\ req' = [req EXCEPT ![r] = Found(k, a)]
      /\ UNCHANGED <<next, keyOf, outcome, held, stale, evicted, swept>>
  BY DEF ResolveFind
<1>2. TypeOK /\ TypeOK'
  BY <1>1 DEF Inv, TypeOK
<1>3. \A q \in Request : req'[q] = IF q = r THEN Found(k, a) ELSE req[q]
  BY <1>1, <1>2 DEF TypeOK
<1>4. \A q \in Request : InHand(q)' = InHand(q)
  BY <1>1, <1>3 DEF InHand, Idle, Found
<1>5. \A p \in Packet : Owned(p)' <=> Owned(p)
  BY <1>1, <1>4 DEF Owned
<1>6. InHand(r) = {} /\ Unasked' = Unasked
  BY <1>1 DEF InHand, Idle, Unasked, Arrived
<1>7. Apart' /\ Keyed'
  BY <1>1, <1>3, <1>4, <1>5, <1>6 DEF Inv, Apart, Keyed
<1>. QED BY <1>1, <1>2, <1>7 DEF Inv, HeldBounded

LEMMA NextResolveDrain ==
  ASSUME Inv, NEW r \in Request, ResolveDrain(r)
  PROVE  Inv'
<1> DEFINE k == req[r].key
           a == req[r].action
<1>1. /\ req[r].pc = "found" /\ req' = [req EXCEPT ![r] = Answering(k, a, held[k])]
      /\ held' = [held EXCEPT ![k] = {}] /\ stale' = stale \ held[k]
      /\ UNCHANGED <<next, keyOf, outcome, evicted, swept>>
  BY DEF ResolveDrain
<1>2. TypeOK /\ InHand(r) = {} /\ k \in Key /\ a \in {"allow", "deny"}
  BY <1>1, RequestIs DEF Inv, Idle
<1> HIDE DEF k, a
<1>3. held[k] \in SUBSET Packet
  BY <1>2 DEF TypeOK
<1>4. TypeOK'
  <2>1. req' \in [Request -> {Idle} \cup {Found(l, b) : l \in Key, b \in {"allow", "deny"}}
                     \cup {Answering(l, b, I) :
                             l \in Key, b \in {"allow", "deny"}, I \in SUBSET Packet}]
    BY <1>1, <1>2, <1>3 DEF TypeOK
  <2>2. held' \in [Key -> SUBSET Packet] /\ stale' \subseteq UNION {held'[l] : l \in Key}
    BY <1>1, <1>2 DEF TypeOK
  <2>. QED BY <1>1, <1>2, <2>1, <2>2 DEF TypeOK
<1>5. \A q \in Request : req'[q] = IF q = r THEN Answering(k, a, held[k]) ELSE req[q]
  BY <1>1, <1>2 DEF TypeOK
<1>6. \A q \in Request : InHand(q)' = IF q = r THEN held[k] ELSE InHand(q)
  BY <1>5 DEF InHand, Answering
<1>7. \A l \in Key : held'[l] = IF l = k THEN {} ELSE held[l]
  BY <1>1, <1>2 DEF TypeOK
<1>8. \A p \in Packet : Owned(p)' <=> Owned(p)
  BY <1>1, <1>2, <1>6, <1>7 DEF Owned
<1>9. Unasked' = Unasked
  BY <1>1 DEF Unasked, Arrived
<1>10. Keyed'
  <2>1. req'[r].key = k
    BY <1>5 DEF Answering
  <2>. QED BY <1>1, <1>2, <1>5, <1>6, <1>7, <2>1 DEF Inv, Keyed
<1>11. Apart'
  <2>1. \A l \in Key : \A p \in held'[l] : l # k /\ p \in held[l] /\ p \notin held[k]
    BY <1>2, <1>7 DEF Inv, Keyed
  <2>2. \A l \in Key : \A p \in held'[l] :
          p \notin evicted' /\ p \notin swept' /\ \A q \in Request : p \notin InHand(q)'
    BY <1>1, <1>6, <2>1 DEF Inv, Apart
  <2>3. \A p \in evicted' : p \notin swept' /\ \A q \in Request : p \notin InHand(q)'
    BY <1>1, <1>2, <1>6 DEF Inv, Apart
  <2>4. \A p \in swept', q \in Request : p \notin InHand(q)'
    BY <1>1, <1>2, <1>6 DEF Inv, Apart
  <2>5. \A q, t \in Request : \A p \in InHand(q)' : p \in InHand(t)' => q = t
    BY <1>2, <1>6 DEF Inv, Apart
  <2>6. \A p \in Packet : p >= next' => outcome'[p] = "none"
    BY <1>1 DEF Inv, Apart
  <2>. QED BY <1>8, <1>9, <2>2, <2>3, <2>4, <2>5, <2>6 DEF Inv, Apart
<1>12. HeldBounded'
  BY <1>7, FS_EmptySet, ConstantsAssumption DEF Inv, HeldBounded
<1>. QED BY <1>4, <1>10, <1>11, <1>12 DEF Inv

LEMMA NextResolveVerdict ==
  ASSUME Inv, NEW r \in Request, NEW p \in Packet, ResolveVerdict(r, p)
  PROVE  Inv'
<1> DEFINE v == IF req[r].action = "allow" THEN "accepted" ELSE "dropped"
<1>1. /\ p \in InHand(r) /\ SetVerdict({p}, v)
      /\ req' = [req EXCEPT ![r] = Answering(req[r].key, req[r].action, req[r].ids \ {p})]
      /\ UNCHANGED <<next, keyOf, held, stale, evicted, swept>>
  BY DEF ResolveVerdict
<1>2. /\ TypeOK /\ req[r].pc = "answer" /\ InHand(r) = req[r].ids /\ {p} \in SUBSET Unasked
      /\ req[r].key \in Key /\ req[r].action \in {"allow", "deny"} /\ req[r].ids \in SUBSET Packet
  BY <1>1, RequestIs DEF Inv, Apart, Owned
<1>21. v \in {"accepted", "dropped"}
  OBVIOUS
<1> HIDE DEF v
<1>22. /\ outcome' \in [Packet -> {"none", "refused", "accepted", "dropped"}]
       /\ \E a \in Answer : \A q \in Packet : outcome'[q] = IF q \in {p} THEN a ELSE outcome[q]
  BY <1>1, <1>2, <1>21, VerdictCall DEF TypeOK
<1>3. TypeOK'
  <2>1. req' \in [Request -> {Idle} \cup {Found(l, b) : l \in Key, b \in {"allow", "deny"}}
                     \cup {Answering(l, b, I) :
                             l \in Key, b \in {"allow", "deny"}, I \in SUBSET Packet}]
    BY <1>1, <1>2 DEF TypeOK
  <2>. QED BY <1>1, <1>2, <1>22, <2>1 DEF TypeOK
<1>5. /\ Unasked' = Unasked \ {p}
      /\ \A q \in Packet : q >= next' => outcome'[q] = "none"
  BY <1>1, <1>2, <1>22, VerdictsAsked
<1>6. \A q \in Request :
        req'[q] = IF q = r THEN Answering(req[r].key, req[r].action, req[r].ids \ {p})
                  ELSE req[q]
  BY <1>1, <1>2 DEF TypeOK
<1>7. \A q \in Request : InHand(q)' = IF q = r THEN InHand(r) \ {p} ELSE InHand(q)
  BY <1>2, <1>6 DEF InHand, Answering
<1>8. \A q \in Packet : Owned(q)' <=> Owned(q) /\ q # p
  BY <1>1, <1>7 DEF Inv, Apart, Owned
<1>9. \A q \in Request : req'[q].key = req[q].key
  BY <1>6 DEF Answering
<1>10. Keyed'
  BY <1>1, <1>7, <1>9 DEF Inv, Keyed
<1>11. \A q \in Packet : Owned(q)' <=> q \in Unasked'
  BY <1>5, <1>8 DEF Inv, Apart
<1>12. \A k \in Key : \A q \in held'[k] :
         q \notin evicted' /\ q \notin swept' /\ \A t \in Request : q \notin InHand(t)'
  BY <1>1, <1>7 DEF Inv, Apart
<1>13. /\ \A q \in evicted' : q \notin swept' /\ \A t \in Request : q \notin InHand(t)'
       /\ \A q \in swept', t \in Request : q \notin InHand(t)'
  BY <1>1, <1>7 DEF Inv, Apart
<1>14. \A q, t \in Request : \A x \in InHand(q)' : x \in InHand(t)' => q = t
  BY <1>7 DEF Inv, Apart
<1>15. Apart'
  BY <1>5, <1>11, <1>12, <1>13, <1>14 DEF Apart
<1>. QED BY <1>1, <1>3, <1>10, <1>15 DEF Inv, HeldBounded

LEMMA NextResolveReply ==
  ASSUME Inv, NEW r \in Request, ResolveReply(r)
  PROVE  Inv'
<1>1. /\ InHand(r) = {} /\ req' = [req EXCEPT ![r] = Idle]
      /\ UNCHANGED <<next, keyOf, outcome, held, stale, evicted, swept>>
  BY DEF ResolveReply
<1>2. TypeOK /\ TypeOK'
  BY <1>1 DEF Inv, TypeOK
<1>3. \A q \in Request : req'[q] = IF q = r THEN Idle ELSE req[q]
  BY <1>1, <1>2 DEF TypeOK
<1>4. \A q \in Request : InHand(q)' = InHand(q)
  BY <1>1, <1>3 DEF InHand, Idle
<1>5. \A p \in Packet : Owned(p)' <=> Owned(p)
  BY <1>1, <1>4 DEF Owned
<1>6. Unasked' = Unasked
  BY <1>1 DEF Unasked, Arrived
<1>7. Apart' /\ Keyed'
  BY <1>1, <1>3, <1>4, <1>5, <1>6 DEF Inv, Apart, Keyed
<1>. QED BY <1>1, <1>2, <1>7 DEF Inv, HeldBounded

LEMMA NextInv == Inv /\ [Next]_vars => Inv'
<1> SUFFICES ASSUME Inv, [Next]_vars PROVE Inv'
  OBVIOUS
<1>1. ASSUME NEW v \in {"accepted", "dropped"}, DecideNow(v) PROVE Inv'
  <2>1. /\ next \in Packet /\ next' = next + 1 /\ SetVerdict({next}, v)
        /\ UNCHANGED <<keyOf, held, stale, evicted, swept, req>>
    BY <1>1 DEF DecideNow, Arrives
  <2>2. /\ outcome' \in [Packet -> {"none", "refused", "accepted", "dropped"}]
        /\ \E a \in Answer : \A q \in Packet : outcome'[q] = IF q \in {next} THEN a ELSE outcome[q]
    BY <2>1, VerdictCall DEF Inv, TypeOK
  <2>3. PICK a \in Answer : \A q \in Packet : outcome'[q] = IF q = next THEN a ELSE outcome[q]
    BY <2>2
  <2>. QED BY <2>1, <2>2, <2>3, NextDecided
<1>2. ASSUME NEW k \in Key, Hold(k) PROVE Inv'
  BY <1>2, NextHold
<1>3. CASE DropEvicted
  BY <1>3, NextDropEvicted
<1>4. CASE KernelDrops
  <2>1. /\ next \in Packet /\ next' = next + 1 /\ outcome' = [outcome EXCEPT ![next] = "dropped"]
        /\ UNCHANGED <<keyOf, held, stale, evicted, swept, req>>
    BY <1>4 DEF KernelDrops
  <2>2. outcome \in [Packet -> {"none", "refused", "accepted", "dropped"}] /\ "dropped" \in Answer
    BY DEF Inv, TypeOK, Answer
  <2>3. \A q \in Packet : outcome'[q] = IF q = next THEN "dropped" ELSE outcome[q]
    BY <2>1, <2>2
  <2>. QED BY <2>1, <2>2, <2>3, NextDecided
<1>5. ASSUME NEW p \in Packet, HoldExpires(p) PROVE Inv'
  BY <1>5, NextHoldExpires
<1>6. CASE Tick
  BY <1>6, NextEvictExpired, NextDropSwept DEF Tick
<1>7. ASSUME NEW r \in Request, NEW k \in Key, NEW a \in {"allow", "deny"}, ResolveFind(r, k, a)
      PROVE  Inv'
  BY <1>7, NextResolveFind
<1>8. ASSUME NEW r \in Request, Handle(r) PROVE Inv'
  BY <1>8, NextResolveDrain, NextResolveVerdict, NextResolveReply DEF Handle
<1>9. CASE UNCHANGED vars
  <2>1. /\ UNCHANGED <<next, outcome, keyOf, stale>> /\ Unasked' = Unasked
        /\ UNCHANGED <<held, evicted, swept, req>>
    BY <1>9 DEF vars, Unasked, Arrived
  <2>2. TypeOK'
    BY <2>1 DEF Inv, TypeOK
  <2>3. Apart' /\ Keyed'
    BY <2>1, SameOwners DEF Inv, Apart, Keyed
  <2>. QED BY <2>1, <2>2, <2>3 DEF Inv, HeldBounded
<1>. QED BY <1>1, <1>2, <1>3, <1>4, <1>5, <1>6, <1>7, <1>8, <1>9 DEF Next

-------------------------------------------------------------------------------
(* The daemon is a way of using the hold buffer. *)

LEMMA UsesBuffer == DaemonSpec => Spec
<1>1. DaemonInit => Init
  BY DEF DaemonInit
<1>2. [DaemonNext]_all => [Next]_vars
  <2>1. DaemonNext => Next \/ UNCHANGED vars
    BY DEF DaemonNext, SaveOpen, SaveWrite, Callback, Malformed, HoldBuffer, Next
  <2>2. UNCHANGED all => UNCHANGED vars
    BY DEF all
  <2>. QED BY <2>1, <2>2
<1>. QED BY <1>1, <1>2, PTL DEF DaemonSpec, Spec

LEMMA Invariance == Spec => []Inv
<1>. QED BY InitInv, NextInv, PTL DEF Spec

(* A datagram without a verdict is in exactly one place: it waits in the buffer
   or in the hands of one goroutine until a verdict is asked for it, and is
   left in the kernel's queue only if that call failed. *)
THEOREM NoneForgotten == DaemonSpec => []OnePlace
<1>1. Inv => OnePlace
  <2> SUFFICES ASSUME Inv PROVE OnePlace
    OBVIOUS
  <2>1. ASSUME NEW a \in Places
        PROVE  \/ a[1] = "held" /\ a[2] \in Key /\ a = <<"held", a[2]>> /\ In(a) = held[a[2]]
               \/ a = <<"evicted", 0>> /\ In(a) = evicted
               \/ a = <<"swept", 0>> /\ In(a) = swept
               \/ a = <<"refused", 0>> /\ In(a) = Refused
               \/ a[1] = "req" /\ a[2] \in Request /\ a = <<"req", a[2]>> /\ In(a) = InHand(a[2])
    BY DEF Places, In
  <2>2. /\ \A k \in Key : <<"held", k>> \in Places /\ In(<<"held", k>>) = held[k]
        /\ <<"evicted", 0>> \in Places /\ In(<<"evicted", 0>>) = evicted
        /\ <<"swept", 0>> \in Places /\ In(<<"swept", 0>>) = swept
        /\ <<"refused", 0>> \in Places /\ In(<<"refused", 0>>) = Refused
        /\ \A r \in Request : <<"req", r>> \in Places /\ In(<<"req", r>>) = InHand(r)
    BY DEF Places, In
  <2>3. ASSUME NEW p \in Undecided PROVE \E a \in Places : p \in In(a)
    <3>1. CASE p \in Refused
      BY <2>2, <3>1
    <3>2. CASE p \in Unasked
      <4>1. Owned(p)
        BY <3>2 DEF Inv, Apart, Unasked, Arrived
      <4>. QED BY <2>2, <4>1 DEF Owned
    <3>. QED BY <3>1, <3>2 DEF Undecided
  <2>4. ASSUME NEW a \in Places, NEW p \in In(a), a # <<"refused", 0>> PROVE p \in Unasked
    <3>1. Owned(p)
      BY <2>1, <2>4 DEF Owned
    <3>2. p \in Packet
      BY <2>1, <2>4, RequestIs DEF Inv, TypeOK
    <3>. QED BY <3>1, <3>2 DEF Inv, Apart
  <2>5. ASSUME NEW a \in Places, NEW p \in In(a), a = <<"refused", 0>> PROVE p \in Refused
    BY <2>2, <2>5
  <2>6. ASSUME NEW a \in Places, NEW b \in Places, a # b, NEW p \in In(a) PROVE p \notin In(b)
    <3>0. Unasked \cap Refused = {}
      BY DEF Unasked, Refused
    <3>1. CASE a[1] = "held" /\ a[2] \in Key /\ a = <<"held", a[2]>> /\ In(a) = held[a[2]]
               /\ b # <<"refused", 0>>
      BY <2>1, <2>6, <3>1 DEF Inv, Apart, Keyed
    <3>2. CASE a = <<"evicted", 0>> /\ In(a) = evicted /\ b # <<"refused", 0>>
      BY <2>1, <2>6, <3>2 DEF Inv, Apart
    <3>3. CASE a = <<"swept", 0>> /\ In(a) = swept /\ b # <<"refused", 0>>
      BY <2>1, <2>6, <3>3 DEF Inv, Apart
    <3>4. CASE a[1] = "req" /\ a[2] \in Request /\ a = <<"req", a[2]>> /\ In(a) = InHand(a[2])
               /\ b # <<"refused", 0>>
      BY <2>1, <2>6, <3>4 DEF Inv, Apart
    <3>5. CASE a = <<"refused", 0>> \/ b = <<"refused", 0>>
      BY <2>4, <2>5, <2>6, <3>0, <3>5
    <3>. QED BY <2>1, <3>1, <3>2, <3>3, <3>4, <3>5
  <2>7. ASSUME NEW a \in Places, NEW p \in In(a) PROVE p \in Undecided
    BY <2>4, <2>5, <2>7 DEF Undecided
  <2>. QED BY <2>3, <2>6, <2>7 DEF OnePlace
<1>. QED BY <1>1, UsesBuffer, Invariance, PTL

(* The buffer never holds more than Max datagrams of a key. *)
THEOREM BufferBounded == DaemonSpec => []HeldBounded
<1>1. Inv => HeldBounded
  BY DEF Inv
<1>. QED BY <1>1, UsesBuffer, Invariance, PTL

\* Which steps ask for the verdicts of datagrams that have none.
LEMMA VerdictOf ==
  ASSUME Inv, [Next]_vars, NEW p \in Undecided, outcome'[p] = "accepted"
  PROVE  \E r \in Request : p \in InHand(r) /\ req[r].action = "allow"
<1>1. /\ p \in Packet /\ p < next /\ outcome[p] # "accepted" /\ p # next /\ MaxPackets \in Nat
      /\ outcome \in [Packet -> {"none", "refused", "accepted", "dropped"}]
  BY ConstantsAssumption DEF Undecided, Unasked, Refused, Arrived, Inv, TypeOK, Packet
<1>2. ASSUME NEW D, NEW v \in {"accepted", "dropped"}, SetVerdict(D, v)
      PROVE  p \in D /\ v = "accepted"
  BY <1>1, <1>2, VerdictCall
<1>3. ASSUME NEW v \in {"accepted", "dropped"}, DecideNow(v) PROVE FALSE
  BY <1>1, <1>2, <1>3 DEF DecideNow
<1>4. CASE KernelDrops
  BY <1>1, <1>4 DEF KernelDrops
<1>5. CASE DropEvicted
  <2>1. SetVerdict(evicted, "dropped")
    BY <1>5 DEF DropEvicted
  <2>. QED BY <1>2, <2>1
<1>6. ASSUME NEW q \in Packet, DropSwept(q) PROVE FALSE
  <2>1. SetVerdict({q}, "dropped")
    BY <1>6 DEF DropSwept
  <2>. QED BY <1>2, <2>1
<1>7. ASSUME NEW r \in Request, NEW q \in Packet, ResolveVerdict(r, q)
      PROVE  p \in InHand(r) /\ req[r].action = "allow"
  <2> DEFINE v == IF req[r].action = "allow" THEN "accepted" ELSE "dropped"
  <2>1. SetVerdict({q}, v) /\ q \in InHand(r) /\ v \in {"accepted", "dropped"}
    BY <1>7 DEF ResolveVerdict
  <2>2. p \in {q} /\ v = "accepted"
    BY <1>2, <2>1
  <2>. QED BY <2>1, <2>2
<1>8. ASSUME outcome' = outcome PROVE FALSE
  BY <1>1, <1>8
<1>9. CASE EvictExpired \/ (\E q \in Packet : HoldExpires(q)) \/ (\E k \in Key : Hold(k))
           \/ (\E r \in Request : ResolveDrain(r) \/ ResolveReply(r))
           \/ (\E r \in Request, k \in Key, a \in {"allow", "deny"} : ResolveFind(r, k, a))
           \/ UNCHANGED vars
  BY <1>8, <1>9 DEF EvictExpired, HoldExpires, Hold, ResolveDrain, ResolveReply, ResolveFind, vars
<1>. QED BY <1>3, <1>4, <1>5, <1>6, <1>7, <1>9 DEF Next, Tick, Handle

(* Only an allow for its own destination releases a held datagram. *)
THEOREM ReleasedOnPurpose == DaemonSpec => ReleasedByItsOwnAllow
<1>1. Inv /\ [Next]_vars => OwnAllowOnly
  <2> SUFFICES ASSUME Inv, [Next]_vars, NEW p \in Undecided, outcome'[p] = "accepted"
               PROVE  \E r \in Request :
                        p \in InHand(r) /\ req[r].action = "allow" /\ req[r].key = keyOf[p]
    BY DEF OwnAllowOnly
  <2>1. PICK r \in Request : p \in InHand(r) /\ req[r].action = "allow"
    BY VerdictOf
  <2>. QED BY <2>1 DEF Inv, Keyed
<1>. QED BY <1>1, UsesBuffer, Invariance, PTL DEF Spec, ReleasedByItsOwnAllow

-------------------------------------------------------------------------------
(* Refinement *)

LEMMA GateIs ==
  ASSUME TypeOK
  PROVE  \A p \in Packet :
           /\ p >= next => Passage[p] = "idle"
           /\ p < next /\ outcome[p] \in {"none", "refused"} => Passage[p] = "held"
           /\ p < next /\ outcome[p] = "accepted" => Passage[p] = "passed"
           /\ p < next /\ outcome[p] = "dropped" => Passage[p] = "killed"
BY ConstantsAssumption DEF TypeOK, Passage, Packet

LEMMA GateBecomes ==
  ASSUME TypeOK'
  PROVE  \A p \in Packet :
           /\ p >= next' => Passage'[p] = "idle"
           /\ p < next' /\ outcome'[p] \in {"none", "refused"} => Passage'[p] = "held"
           /\ p < next' /\ outcome'[p] = "accepted" => Passage'[p] = "passed"
           /\ p < next' /\ outcome'[p] = "dropped" => Passage'[p] = "killed"
BY ConstantsAssumption DEF TypeOK, Passage, Packet

LEMMA GateFunction ==
  Passage = [p \in Packet |-> Passage[p]] /\ Passage' = [p \in Packet |-> Passage'[p]]
BY DEF Passage

\* A new datagram waits: nothing has been said of it, or in vain.
LEMMA Waits ==
  ASSUME TypeOK, TypeOK', next \in Packet, next' = next + 1,
         \A p \in Packet : p # next => outcome'[p] = outcome[p],
         outcome'[next] \in {"none", "refused"}
  PROVE  Gate!Next
<1>0. MaxPackets \in Nat
  BY ConstantsAssumption
<1>1. Passage[next] = "idle"
  BY <1>0, GateIs DEF Packet
<1>2. ASSUME NEW p \in Packet PROVE Passage'[p] = IF p = next THEN "held" ELSE Passage[p]
  <2>1. CASE p = next
    <3>1. p < next' /\ outcome'[p] \in {"none", "refused"}
      BY <1>0, <2>1 DEF Packet
    <3>. QED BY <2>1, <3>1, GateBecomes
  <2>2. CASE p # next
    <3>1. /\ (p < next <=> p < next') /\ (p >= next <=> p >= next')
          /\ (p >= next \/ p < next)
          /\ outcome[p] \in {"none", "refused", "accepted", "dropped"} /\ outcome'[p] = outcome[p]
      BY <1>0, <2>2 DEF Packet, TypeOK
    <3>. QED BY <2>2, <3>1, GateIs, GateBecomes
  <2>. QED BY <2>1, <2>2
<1>3. Passage' = [Passage EXCEPT ![next] = "held"]
  BY <1>2, GateFunction
<1>4. PICK f \in Packet : f = next
  OBVIOUS
<1>5. Gate!Hold(f)
  BY <1>1, <1>3, <1>4 DEF Gate!Hold
<1>. QED BY <1>5 DEF Gate!Next

\* Calls that failed leave the datagrams waiting.
LEMMA StillWaits ==
  ASSUME TypeOK, TypeOK', NEW D \in SUBSET Unasked, next' = next,
         \A p \in Packet : outcome'[p] = IF p \in D THEN "refused" ELSE outcome[p]
  PROVE  Passage' = Passage
<1>0. MaxPackets \in Nat
  BY ConstantsAssumption
<1>1. ASSUME NEW p \in Packet PROVE Passage'[p] = Passage[p]
  <2>1. CASE p \in D
    BY <2>1, GateIs, GateBecomes DEF Unasked, Arrived
  <2>2. CASE p \notin D
    <3>1. /\ (p < next <=> p < next') /\ (p >= next <=> p >= next')
          /\ (p >= next \/ p < next)
          /\ outcome[p] \in {"none", "refused", "accepted", "dropped"} /\ outcome'[p] = outcome[p]
      BY <1>0, <2>2 DEF Packet, TypeOK
    <3>. QED BY <2>2, <3>1, GateIs, GateBecomes
  <2>. QED BY <2>1, <2>2
<1>. QED BY <1>1, GateFunction

\* Verdicts for datagrams that had none.
LEMMA Settles ==
  ASSUME TypeOK, TypeOK', NEW D \in SUBSET Packet, NEW v \in {"accepted", "dropped"},
         \A p \in D : p < next' /\ (p < next => outcome[p] = "none"),
         \A p \in Packet : outcome'[p] = IF p \in D THEN v ELSE outcome[p],
         \A p \in Packet \ D : p < next <=> p < next'
  PROVE  Gate!Next
<1> DEFINE verdict == IF v = "accepted" THEN "passed" ELSE "killed"
<1>0. \A p \in Packet : (p < next <=> ~(p >= next)) /\ (p < next' <=> ~(p >= next'))
  BY ConstantsAssumption DEF TypeOK, Packet
<1>1. \A p \in D : Passage[p] \notin {"passed", "killed"}
  BY <1>0, GateIs
<1>2. ASSUME NEW p \in Packet PROVE Passage'[p] = IF p \in D THEN verdict ELSE Passage[p]
  <2>1. CASE p \in D
    BY <2>1, GateBecomes
  <2>2. CASE p \notin D
    <3>1. outcome[p] \in {"none", "refused", "accepted", "dropped"} /\ outcome'[p] = outcome[p]
      BY <2>2 DEF TypeOK
    <3>. QED BY <1>0, <2>2, <3>1, GateIs, GateBecomes
  <2>. QED BY <2>1, <2>2
<1>3. Passage' = [p \in Packet |-> IF p \in D THEN verdict ELSE Passage[p]]
  BY <1>2, GateFunction
<1>4. Gate!Settle(D, verdict)
  BY <1>1, <1>3 DEF Gate!Settle, Gate!Verdict
<1>. QED BY <1>4 DEF Gate!Next, Gate!Verdict

LEMMA StepGate == Inv /\ Inv' /\ [Next]_vars => [Gate!Next]_Passage
<1> SUFFICES ASSUME Inv, Inv', [Next]_vars PROVE Gate!Next \/ Passage' = Passage
  OBVIOUS
<1>0. TypeOK /\ TypeOK' /\ MaxPackets \in Nat
      /\ \A p \in Packet : p >= next => outcome[p] = "none"
  BY ConstantsAssumption DEF Inv, Apart
<1>1. ASSUME NEW a \in Answer, next \in Packet, next' = next + 1,
             \A p \in Packet : outcome'[p] = IF p = next THEN a ELSE outcome[p]
      PROVE  Gate!Next
  <2>1. CASE a = "refused"
    BY <1>0, <1>1, <2>1, Waits
  <2>2. CASE a # "refused"
    <3>0. a \in {"accepted", "dropped"}
      BY <2>2 DEF Answer
    <3>1. {next} \in SUBSET Packet /\ \A p \in {next} : p < next' /\ (p < next => outcome[p] = "none")
      BY <1>0, <1>1 DEF Packet
    <3>2. \A p \in Packet : outcome'[p] = IF p \in {next} THEN a ELSE outcome[p]
      BY <1>1
    <3>3. \A p \in Packet \ {next} : p < next <=> p < next'
      BY <1>0, <1>1 DEF Packet
    <3>. QED BY <1>0, <3>0, <3>1, <3>2, <3>3, Settles
  <2>. QED BY <2>1, <2>2
<1>2. ASSUME NEW k \in Key, Hold(k) PROVE Gate!Next
  <2>1. next \in Packet /\ next' = next + 1 /\ outcome' = outcome
    BY <1>2 DEF Hold, Arrives
  <2>2. outcome[next] = "none"
    BY <1>0, <2>1 DEF Packet
  <2>. QED BY <1>0, <2>1, <2>2, Waits
<1>3. ASSUME NEW D \in SUBSET Unasked, NEW v \in {"accepted", "dropped"}, SetVerdict(D, v),
             next' = next
      PROVE  Gate!Next \/ Passage' = Passage
  <2>1. PICK a \in Answer : /\ a = v \/ a = "refused"
                            /\ \A p \in Packet : outcome'[p] = IF p \in D THEN a ELSE outcome[p]
    BY <1>0, <1>3, VerdictCall DEF TypeOK
  <2>2. CASE a = "refused"
    BY <1>0, <1>3, <2>1, <2>2, StillWaits
  <2>3. CASE a = v
    <3>1. D \in SUBSET Packet /\ \A p \in D : p < next' /\ (p < next => outcome[p] = "none")
      BY <1>3 DEF Unasked, Arrived
    <3>. QED BY <1>0, <1>3, <2>1, <2>3, <3>1, Settles
  <2>. QED BY <2>1, <2>2, <2>3
<1>4. ASSUME UNCHANGED <<next, outcome>> PROVE Passage' = Passage
  BY <1>4 DEF Passage
<1>5. ASSUME NEW p \in Packet, Owned(p) PROVE {p} \in SUBSET Unasked
  BY <1>5 DEF Inv, Apart
<1>6. CASE DropEvicted
  <2>1. evicted \in SUBSET Unasked
    BY DEF Inv, TypeOK, Apart, Owned
  <2>. QED BY <1>3, <1>6, <2>1 DEF DropEvicted
<1>7. ASSUME NEW p \in Packet, DropSwept(p) PROVE Gate!Next \/ Passage' = Passage
  <2>1. {p} \in SUBSET Unasked
    BY <1>5, <1>7 DEF DropSwept, Owned
  <2>. QED BY <1>3, <1>7, <2>1 DEF DropSwept
<1>8. ASSUME NEW r \in Request, NEW p \in Packet, ResolveVerdict(r, p)
      PROVE  Gate!Next \/ Passage' = Passage
  <2>1. {p} \in SUBSET Unasked
    BY <1>5, <1>8 DEF ResolveVerdict, Owned
  <2> DEFINE v == IF req[r].action = "allow" THEN "accepted" ELSE "dropped"
  <2>2. v \in {"accepted", "dropped"} /\ SetVerdict({p}, v) /\ next' = next
    BY <1>8 DEF ResolveVerdict
  <2> HIDE DEF v
  <2>. QED BY <1>3, <2>1, <2>2
<1>9. CASE EvictExpired \/ (\E q \in Packet : HoldExpires(q))
           \/ (\E r \in Request : ResolveDrain(r) \/ ResolveReply(r))
           \/ (\E r \in Request, k \in Key, a \in {"allow", "deny"} : ResolveFind(r, k, a))
           \/ UNCHANGED vars
  <2>1. UNCHANGED <<next, outcome>>
    BY <1>9 DEF EvictExpired, HoldExpires, ResolveDrain, ResolveReply, ResolveFind, vars
  <2>. QED BY <1>4, <2>1
<1>10. ASSUME NEW v \in {"accepted", "dropped"}, DecideNow(v) PROVE Gate!Next
  <2>1. next \in Packet /\ next' = next + 1 /\ SetVerdict({next}, v)
    BY <1>10 DEF DecideNow, Arrives
  <2>2. PICK a \in Answer : \A p \in Packet : outcome'[p] = IF p \in {next} THEN a ELSE outcome[p]
    BY <1>0, <2>1, VerdictCall DEF TypeOK
  <2>. QED BY <1>1, <2>1, <2>2
<1>11. CASE KernelDrops
  <2>1. /\ next \in Packet /\ next' = next + 1 /\ outcome' = [outcome EXCEPT ![next] = "dropped"]
    BY <1>11 DEF KernelDrops
  <2>2. "dropped" \in Answer /\ \A p \in Packet : outcome'[p] = IF p = next THEN "dropped" ELSE outcome[p]
    BY <1>0, <2>1 DEF Answer, TypeOK
  <2>. QED BY <1>1, <2>1, <2>2
<1>. QED BY <1>2, <1>6, <1>7, <1>8, <1>9, <1>10, <1>11 DEF Next, Tick, Handle

(* Datagrams get what connections get: decided at once, or held and decided
   later, once and for all. *)
THEOREM Refinement == DaemonSpec => ImplementsFlowGate
<1>1. Init => Gate!Init
  BY ConstantsAssumption DEF Init, Gate!Init, Passage, Packet
<1>. QED BY <1>1, StepGate, UsesBuffer, Invariance, PTL
            DEF Spec, ImplementsFlowGate, Gate!Spec

-------------------------------------------------------------------------------
(* The rules *)

\* A copy that is not older than the file is the file's, and there is none of a
\* file that cannot be read.
DiskInv ==
  /\ readable \in BOOLEAN /\ newer \in BOOLEAN /\ hurried \in BOOLEAN
  /\ file \in {Whole(rs) : rs \in Saveable} \cup {Torn}
  /\ ~readable => copy = {}
  /\ readable /\ file # Torn /\ ~newer /\ ~hurried => copy = file.rules

LEMMA InitDisk == DaemonInit => DiskInv
  BY DEF DaemonInit, DiskInv, Whole

LEMMA StepDisk == DiskInv /\ [DaemonNext]_all => DiskInv'
<1> SUFFICES ASSUME DiskInv, [DaemonNext]_all PROVE DiskInv'
  OBVIOUS
<1>0. Torn.torn /\ \A rs : ~Whole(rs).torn /\ Whole(rs).rules = rs /\ Whole(rs) # Torn
  BY DEF Torn, Whole
<1>1. CASE SaveOpen
  BY <1>1 DEF SaveOpen, DiskInv
<1>2. CASE SaveWrite
  BY <1>0, <1>2 DEF SaveWrite, DiskInv
<1>3. ASSUME Reload, UNCHANGED <<readable, file, hurried>> PROVE DiskInv'
  BY <1>3 DEF Reload, DiskInv
<1>4. ASSUME UNCHANGED disk PROVE DiskInv'
  BY <1>4 DEF disk, DiskInv
<1>. QED BY <1>1, <1>2, <1>3, <1>4 DEF DaemonNext, Callback, Malformed, HoldBuffer, all

(* No datagram is judged by other rules than those saved last, but for a save
   under way or two in one tick of the clock. *)
THEOREM LastSaveJudges == DaemonSpec => JudgedByLastSave
<1>1. Inv /\ DiskInv => \A k \in Key : Callback(k) => Judged(k)
  <2> SUFFICES ASSUME Inv, DiskInv, NEW k \in Key, Callback(k) PROVE Judged(k)
    OBVIOUS
  <2>1. ~readable => copy' = {}
    BY DEF Callback, Reload, DiskInv
  <2>2. readable /\ ~file.torn /\ ~hurried => copy' = file.rules
    BY DEF Callback, Reload, DiskInv, Torn
  <2>3. Ruling({}, k) = "none"
    BY DEF Ruling
  <2>4. next \in Packet
    BY DEF Callback, DecideNow, Hold, Arrives
  <2>5. outcome[next] = "none" /\ next \notin held[k]
    <3>1. next >= next /\ next \notin Unasked
      BY <2>4 DEF Packet, Unasked, Arrived
    <3>. QED BY <2>4, <3>1 DEF Inv, Apart, Owned
  <2>6. outcome'[next] = "accepted" => Ruling(copy', k) = "allow"
    <3>1. outcome \in [Packet -> {"none", "refused", "accepted", "dropped"}]
      BY DEF Inv, TypeOK
    <3>2. DecideNow("dropped") => outcome'[next] # "accepted"
      <4>1. DecideNow("dropped") => SetVerdict({next}, "dropped")
        BY DEF DecideNow
      <4>. QED BY <2>4, <3>1, <4>1, VerdictCall
    <3>3. Hold(k) => outcome'[next] # "accepted"
      BY <2>5 DEF Hold
    <3>. QED BY <3>2, <3>3 DEF Callback
  <2>7. next \in held'[k] => Ruling(copy', k) = "none"
    BY <2>5 DEF Callback, DecideNow
  <2>. QED BY <2>1, <2>2, <2>3, <2>6, <2>7 DEF Judged
<1>. QED BY <1>1, InitDisk, StepDisk, UsesBuffer, Invariance, PTL DEF DaemonSpec, JudgedByLastSave
===============================================================================
