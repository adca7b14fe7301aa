--------------------------- MODULE PublishMgrProofs ---------------------------
(***************************************************************************)
(* Theorems about publish-mgr, for every range of ports, every set of      *)
(* statements and any number of requests in service: neither of its two    *)
(* chains of firewall rules drifts away from the table it stands for.      *)
(*                                                                         *)
(* Both properties count rules against entries, so the invariant is about  *)
(* cardinalities; what makes it inductive is that an entry's key is new    *)
(* when it is added (a free port, an identifier never given out) and that  *)
(* a request leaves the chain and the table alone once it is answered.     *)
(***************************************************************************)
EXTENDS PublishMgr, FiniteSetTheorems, SequenceTheorems, WellFoundedInduction, TLAPS

-------------------------------------------------------------------------------
(* Tables, chains and their counts *)

Entries(table, proto, cont) == {pp \in DOMAIN table : pp[1] = proto /\ table[pp] = cont}
Listing(table, s) == {id \in DOMAIN table : table[id] = s}
Lines(rules, s) == {i \in DOMAIN rules : rules[i] = s}

LEMMA LeastMember == ASSUME NEW I \in SUBSET Nat, I # {} PROVE Min(I) \in I
<1>1. PICK n \in I : \A m \in I : ~ (<<m, n>> \in OpToRel(<, Nat))
  BY NatLessThanWellFounded, WFMin, Zenon
<1>2. \A m \in I : ~ (m < n)
  BY <1>1, Zenon DEF OpToRel
<1>3. \A m \in I : n <= m
  BY <1>2
<1>. QED BY <1>3 DEF Min

LEMMA ListingGrows ==
  ASSUME NEW f, NEW k, NEW v, k \notin DOMAIN f, IsFiniteSet(DOMAIN f), NEW s
  PROVE  Cardinality(Listing(With(f, k, v), s)) =
           Cardinality(Listing(f, s)) + (IF v = s THEN 1 ELSE 0)
<1>1. IsFiniteSet(Listing(f, s)) /\ Cardinality(Listing(f, s)) \in Nat
  BY FS_Subset, FS_CardinalityType DEF Listing
<1>2. CASE v = s
  <2>1. Listing(With(f, k, v), s) = Listing(f, s) \cup {k}
    BY <1>2 DEF Listing, With
  <2>2. k \notin Listing(f, s)
    BY DEF Listing
  <2>. QED BY <1>1, <1>2, <2>1, <2>2, FS_AddElement
<1>3. CASE v # s
  <2>1. Listing(With(f, k, v), s) = Listing(f, s)
    BY <1>3 DEF Listing, With
  <2>. QED BY <1>1, <1>3, <2>1
<1>. QED BY <1>2, <1>3

LEMMA ListingShrinks ==
  ASSUME NEW f, NEW k \in DOMAIN f, IsFiniteSet(DOMAIN f), NEW s
  PROVE  Cardinality(Listing(Without(f, k), s)) =
           Cardinality(Listing(f, s)) - (IF f[k] = s THEN 1 ELSE 0)
<1>1. IsFiniteSet(Listing(f, s)) /\ Cardinality(Listing(f, s)) \in Nat
  BY FS_Subset, FS_CardinalityType DEF Listing
<1>2. Listing(Without(f, k), s) = Listing(f, s) \ {k}
  <2>1. ASSUME NEW x PROVE x \in Listing(Without(f, k), s) <=> x \in Listing(f, s) \ {k}
    BY DEF Listing, Without, Restrict
  <2>. QED BY <2>1
<1>3. k \in Listing(f, s) <=> f[k] = s
  BY DEF Listing
<1>4. Cardinality(Listing(f, s) \ {k}) =
        IF k \in Listing(f, s) THEN Cardinality(Listing(f, s)) - 1 ELSE Cardinality(Listing(f, s))
  BY <1>1, FS_RemoveElement
<1>. QED BY <1>1, <1>2, <1>3, <1>4

LEMMA EntriesGrow ==
  ASSUME NEW f, NEW proto, NEW hp, NEW v, <<proto, hp>> \notin DOMAIN f, IsFiniteSet(DOMAIN f),
         NEW p, NEW cont
  PROVE  Cardinality(Entries(With(f, <<proto, hp>>, v), p, cont)) =
           Cardinality(Entries(f, p, cont)) + (IF p = proto /\ cont = v THEN 1 ELSE 0)
<1> DEFINE k == <<proto, hp>>
           g == With(f, k, v)
<1>1. IsFiniteSet(Entries(f, p, cont)) /\ Cardinality(Entries(f, p, cont)) \in Nat
  BY FS_Subset, FS_CardinalityType DEF Entries
<1>2. k[1] = proto
  OBVIOUS
<1>3. k \notin DOMAIN f
  OBVIOUS
<1>4. DOMAIN g = DOMAIN f \cup {k} /\ g[k] = v /\ \A x \in DOMAIN f : g[x] = f[x]
  BY <1>3 DEF With
<1> HIDE DEF k, g
<1>5. CASE p = proto /\ cont = v
  <2>1. Entries(g, p, cont) = Entries(f, p, cont) \cup {k}
    BY <1>2, <1>4, <1>5 DEF Entries
  <2>2. k \notin Entries(f, p, cont)
    BY <1>3 DEF Entries
  <2>. QED BY <1>1, <1>5, <2>1, <2>2, FS_AddElement DEF g, k
<1>6. CASE ~(p = proto /\ cont = v)
  <2>1. Entries(g, p, cont) = Entries(f, p, cont)
    BY <1>2, <1>4, <1>6 DEF Entries
  <2>. QED BY <1>1, <1>6, <2>1 DEF g, k
<1>. QED BY <1>5, <1>6

LEMMA EntriesShrink ==
  ASSUME NEW f, NEW k \in DOMAIN f, IsFiniteSet(DOMAIN f), NEW p, NEW cont
  PROVE  Cardinality(Entries(Without(f, k), p, cont)) =
           Cardinality(Entries(f, p, cont)) - (IF p = k[1] /\ cont = f[k] THEN 1 ELSE 0)
<1>1. IsFiniteSet(Entries(f, p, cont)) /\ Cardinality(Entries(f, p, cont)) \in Nat
  BY FS_Subset, FS_CardinalityType DEF Entries
<1>2. Entries(Without(f, k), p, cont) = Entries(f, p, cont) \ {k}
  <2>1. ASSUME NEW x PROVE x \in Entries(Without(f, k), p, cont) <=> x \in Entries(f, p, cont) \ {k}
    BY DEF Entries, Without, Restrict
  <2>. QED BY <2>1
<1>3. k \in Entries(f, p, cont) <=> p = k[1] /\ cont = f[k]
  BY DEF Entries
<1>4. Cardinality(Entries(f, p, cont) \ {k}) =
        IF k \in Entries(f, p, cont) THEN Cardinality(Entries(f, p, cont)) - 1
        ELSE Cardinality(Entries(f, p, cont))
  BY <1>1, FS_RemoveElement
<1>. QED BY <1>1, <1>2, <1>3, <1>4

LEMMA LinesFinite ==
  ASSUME NEW S, NEW q \in Seq(S), NEW s
  PROVE  IsFiniteSet(Lines(q, s)) /\ Cardinality(Lines(q, s)) \in Nat /\ Lines(q, s) \in SUBSET (1..Len(q))
<1>1. Lines(q, s) \in SUBSET (1..Len(q)) /\ Len(q) \in Nat
  BY DEF Lines
<1>2. IsFiniteSet(1..Len(q))
  BY <1>1, FS_Interval
<1>. QED BY <1>1, <1>2, FS_Subset, FS_CardinalityType

LEMMA LinesGrow ==
  ASSUME NEW S, NEW q \in Seq(S), NEW e \in S, NEW s
  PROVE  Cardinality(Lines(Append(q, e), s)) =
           Cardinality(Lines(q, s)) + (IF e = s THEN 1 ELSE 0)
<1>1. /\ DOMAIN Append(q, e) = DOMAIN q \cup {Len(q) + 1} /\ Append(q, e)[Len(q) + 1] = e
      /\ \A i \in DOMAIN q : Append(q, e)[i] = q[i]
  OBVIOUS
<1>2. CASE e = s
  <2>1. Lines(Append(q, e), s) = Lines(q, s) \cup {Len(q) + 1}
    BY <1>1, <1>2 DEF Lines
  <2>2. Len(q) + 1 \notin Lines(q, s)
    BY LinesFinite
  <2>. QED BY <1>2, <2>1, <2>2, LinesFinite, FS_AddElement
<1>3. CASE e # s
  <2>1. Lines(Append(q, e), s) = Lines(q, s)
    BY <1>1, <1>3 DEF Lines
  <2>. QED BY <1>3, <2>1, LinesFinite
<1>. QED BY <1>2, <1>3

\* Dropping line k renumbers the lines behind it.
LEMMA LinesShrink ==
  ASSUME NEW S, NEW q \in Seq(S), NEW k \in 1..Len(q), NEW s
  PROVE  LET r == SubSeq(q, 1, k - 1) \o SubSeq(q, k + 1, Len(q)) IN
         /\ r \in Seq(S)
         /\ Cardinality(Lines(r, s)) = Cardinality(Lines(q, s)) - (IF q[k] = s THEN 1 ELSE 0)
<1> DEFINE r == SubSeq(q, 1, k - 1) \o SubSeq(q, k + 1, Len(q))
           left == SubSeq(q, 1, k - 1)
           right == SubSeq(q, k + 1, Len(q))
           Old == Lines(q, s) \ {k}
           shift == [i \in Old |-> IF i < k THEN i ELSE i - 1]
<1>1. left \in Seq(S) /\ Len(left) = k - 1 /\ \A i \in 1..(k - 1) : left[i] = q[i]
  OBVIOUS
<1>2. right \in Seq(S) /\ Len(right) = Len(q) - k
      /\ \A i \in 1..(Len(q) - k) : right[i] = q[k + i]
  OBVIOUS
<1>3. r = left \o right
  OBVIOUS
<1> HIDE DEF left, right, r
<1>4. /\ r \in Seq(S) /\ DOMAIN r = 1..(Len(q) - 1)
      /\ \A i \in 1..(k - 1) : r[i] = q[i]
      /\ \A i \in k..(Len(q) - 1) : r[i] = q[i + 1]
  <2>1. r \in Seq(S) /\ DOMAIN r = 1..(Len(q) - 1)
    BY <1>1, <1>2, <1>3
  <2>2. ASSUME NEW i \in 1..(k - 1) PROVE r[i] = q[i]
    BY <1>1, <1>2, <1>3
  <2>3. ASSUME NEW i \in k..(Len(q) - 1) PROVE r[i] = q[i + 1]
    <3>1. r[i] = right[i - (k - 1)]
      BY <1>1, <1>2, <1>3
    <3>2. i - (k - 1) \in 1..(Len(q) - k) /\ k + (i - (k - 1)) = i + 1
      OBVIOUS
    <3>. QED BY <1>2, <3>1, <3>2
  <2>. QED BY <2>1, <2>2, <2>3
<1>5. shift \in Bijection(Old, Lines(r, s))
  <2>1. ASSUME NEW i \in Old PROVE shift[i] \in Lines(r, s)
    BY <1>4 DEF Lines
  <2>2. ASSUME NEW i \in Old, NEW j \in Old, shift[i] = shift[j] PROVE i = j
    BY <2>2 DEF Lines
  <2>3. ASSUME NEW j \in Lines(r, s) PROVE \E i \in Old : shift[i] = j
    <3>1. CASE j < k
      <4>1. j \in Old /\ shift[j] = j
        BY <1>4, <3>1 DEF Lines
      <4>. QED BY <4>1
    <3>2. CASE j >= k
      <4>1. j + 1 \in Old /\ shift[j + 1] = j
        BY <1>4, <3>2 DEF Lines
      <4>. QED BY <4>1
    <3>3. j \in Nat
      BY <1>4 DEF Lines
    <3>. QED BY <3>1, <3>2, <3>3
  <2>. QED BY <2>1, <2>2, <2>3 DEF Bijection, Injection, Surjection, IsInjective
<1>6. IsFiniteSet(Old) /\ Cardinality(Old) = Cardinality(Lines(q, s)) - (IF q[k] = s THEN 1 ELSE 0)
  <2>1. k \in Lines(q, s) <=> q[k] = s
    BY DEF Lines
  <2>2. IsFiniteSet(Lines(q, s)) /\ Cardinality(Lines(q, s)) \in Nat
    BY LinesFinite
  <2>3. IsFiniteSet(Old) /\ Cardinality(Old) =
          IF k \in Lines(q, s) THEN Cardinality(Lines(q, s)) - 1 ELSE Cardinality(Lines(q, s))
    BY <2>2, FS_RemoveElement
  <2>. QED BY <2>1, <2>2, <2>3
<1>7. Cardinality(Lines(r, s)) = Cardinality(Old)
  BY <1>5, <1>6, FS_Bijection DEF ExistsBijection
<1>. QED BY <1>4, <1>6, <1>7 DEF r

-------------------------------------------------------------------------------
(* The published ports *)

(* Each container port is open once for each entry that names it. *)
PortsInv ==
  /\ DOMAIN published \subseteq Proto \X Port /\ IsFiniteSet(DOMAIN published)
  /\ \A pp \in DOMAIN published : published[pp] \in Port
  /\ opened \in [Proto \X Port -> Nat]
  /\ \A proto \in Proto, cont \in Port :
       opened[<<proto, cont>>] = Cardinality(Entries(published, proto, cont))

LEMMA EmptyTable ==
  /\ DOMAIN <<>> = {} /\ IsFiniteSet({})
  /\ \A proto, cont : Cardinality(Entries(<<>>, proto, cont)) = 0
  /\ \A s : Cardinality(Listing(<<>>, s)) = 0 /\ Cardinality(Lines(<<>>, s)) = 0
<1>1. DOMAIN <<>> = {}
  OBVIOUS
<1>2. /\ \A proto, cont : Entries(<<>>, proto, cont) = {}
      /\ \A s : Listing(<<>>, s) = {} /\ Lines(<<>>, s) = {}
  BY <1>1 DEF Entries, Listing, Lines
<1>. QED BY <1>1, <1>2, FS_EmptySet

LEMMA PublishKeeps ==
  ASSUME PortsInv, NEW proto \in Proto, NEW hp \in Port, NEW cont \in Port,
         <<proto, hp>> \notin DOMAIN published, Publish(proto, hp, cont)
  PROVE  PortsInv'
<1> USE DEF PortsInv, Publish
<1>1. /\ DOMAIN published' = DOMAIN published \cup {<<proto, hp>>}
      /\ \A pp \in DOMAIN published' :
           published'[pp] = IF pp = <<proto, hp>> THEN cont ELSE published[pp]
  BY DEF With
<1>2. DOMAIN published' \subseteq Proto \X Port
      /\ \A pp \in DOMAIN published' : published'[pp] \in Port
  BY <1>1
<1>3. IsFiniteSet(DOMAIN published')
  BY <1>1, FS_AddElement
<1>4. opened' \in [Proto \X Port -> Nat]
  OBVIOUS
<1>5. ASSUME NEW p \in Proto, NEW c \in Port
      PROVE  opened'[<<p, c>>] = Cardinality(Entries(published', p, c))
  <2>1. opened'[<<p, c>>] = opened[<<p, c>>] + (IF p = proto /\ c = cont THEN 1 ELSE 0)
    OBVIOUS
  <2>. QED BY <2>1, EntriesGrow
<1>. QED BY <1>2, <1>3, <1>4, <1>5

LEMMA UnpublishKeeps ==
  ASSUME PortsInv, NEW pp \in DOMAIN published, Unpublish(pp)
  PROVE  PortsInv'
<1> USE DEF PortsInv
<1> DEFINE proto == pp[1]
           cont == published[pp]
<1>1. proto \in Proto /\ cont \in Port
  OBVIOUS
<1>2. /\ opened[<<proto, cont>>] > 0
      /\ opened' = [opened EXCEPT ![<<proto, cont>>] = @ - 1]
      /\ published' = Without(published, pp)
  BY DEF Unpublish
<1>3. DOMAIN published' = DOMAIN published \ {pp}
      /\ \A x \in DOMAIN published' : published'[x] = published[x]
  BY <1>2 DEF Without, Restrict
<1>4. IsFiniteSet(DOMAIN published')
  BY <1>3, FS_RemoveElement
<1> HIDE DEF proto, cont
<1>5. opened' \in [Proto \X Port -> Nat]
  <2>1. opened[<<proto, cont>>] - 1 \in Nat
    BY <1>1, <1>2
  <2>. QED BY <1>2, <2>1
<1>6. ASSUME NEW p \in Proto, NEW c \in Port
      PROVE  opened'[<<p, c>>] = Cardinality(Entries(published', p, c))
  <2>1. opened'[<<p, c>>] = opened[<<p, c>>] - (IF p = proto /\ c = cont THEN 1 ELSE 0)
    BY <1>1, <1>2
  <2>2. Cardinality(Entries(published', p, c)) =
          Cardinality(Entries(published, p, c)) - (IF p = proto /\ c = cont THEN 1 ELSE 0)
    BY <1>2, EntriesShrink DEF proto, cont
  <2>. QED BY <2>1, <2>2
<1>. QED BY <1>3, <1>4, <1>5, <1>6

LEMMA PortsKept == PortsInv /\ [Next]_vars => PortsInv'
<1> SUFFICES ASSUME PortsInv, [Next]_vars PROVE PortsInv'
  OBVIOUS
<1>1. CASE UNCHANGED ports
  BY <1>1 DEF ports, PortsInv
<1>2. ASSUME NEW proto \in Proto, NEW cont \in Port, PublishAny(proto, cont) PROVE PortsInv'
  <2>1. FreePorts \in SUBSET Nat /\ FreePorts \in SUBSET Port /\ FreePorts # {}
    BY <1>2, ConstantsAssumption DEF PublishAny, FreePorts
  <2>2. Min(FreePorts) \in FreePorts
    BY <2>1, LeastMember
  <2>3. Min(FreePorts) \in Port /\ <<proto, Min(FreePorts)>> \notin DOMAIN published
    <3> DEFINE hp == Min(FreePorts)
    <3>1. hp \in Port /\ hp \notin HostPorts
      BY <2>2 DEF FreePorts
    <3> HIDE DEF hp
    <3>2. <<proto, hp>>[2] = hp
      OBVIOUS
    <3>3. <<proto, hp>> \notin DOMAIN published
      BY <3>1, <3>2 DEF HostPorts
    <3>. QED BY <3>1, <3>3 DEF hp
  <2>. QED BY <1>2, <2>3, PublishKeeps DEF PublishAny
<1>3. ASSUME NEW proto \in Proto, NEW cont \in Port, NEW hp \in Port, PublishNamed(proto, hp, cont)
      PROVE  PortsInv'
  BY <1>3, PublishKeeps DEF PublishNamed, NamedPort
<1>4. ASSUME NEW pp \in DOMAIN published, Unpublish(pp) PROVE PortsInv'
  BY <1>4, UnpublishKeeps
<1>5. ASSUME NEW c \in Call, Serve(c) PROVE PortsInv'
  BY <1>1, <1>5 DEF Serve, Apply, Record, Remove, Refuse
<1>6. ASSUME NEW c \in Call, Dashboard(c) PROVE PortsInv'
  BY <1>1, <1>6 DEF Dashboard, UserAllowAdd, UserAllowDel, Send, Answer, TimeOut
<1>7. ASSUME NEW r \in stored, DeleteRule(r) PROVE PortsInv'
  BY <1>1, <1>7 DEF DeleteRule
<1>8. CASE Restart
  <2>1. published' = <<>> /\ opened' = NoRules
    BY <1>8 DEF Restart
  <2>. QED BY <2>1, EmptyTable DEF PortsInv, NoRules
<1>9. CASE UNCHANGED vars
  BY <1>1, <1>9 DEF vars, ports
<1>. QED BY <1>2, <1>3, <1>4, <1>5, <1>6, <1>7, <1>8, <1>9 DEF Next
-------------------------------------------------------------------------------
(* The requests in service *)

Request ==
  {Idle} \cup [pc : {"sent"}, op : {"add"}, stmt : Stmt]
         \cup [pc : {"sent"}, op : {"del"}, id : Nat]
         \cup [pc : {"applied"}, op : {"add"}, stmt : Stmt]
         \cup [pc : {"done"}, op : {"add"}, id : 1..minted, stmt : Stmt]
         \cup [pc : {"done"}, op : {"del"}, id : Nat, stmt : {None}]

(* What TypeOK says but of the ports, and what keeps it true: there is room for an
   identifier for each request whose rule is already in the chain. *)
CallsInv ==
  /\ call \in [Call -> Request]
  /\ minted \in Nat /\ IsFiniteSet(Applied) /\ minted + Cardinality(Applied) <= MaxIds
  /\ DOMAIN allowed \subseteq 1..minted
  /\ \A id \in DOMAIN allowed : allowed[id] \in Stmt
  /\ chain \in Seq(Stmt)
  /\ stored \subseteq [id : {"store"} \X (1..minted), stmt : Stmt]
  /\ awaited \in Call \cup {None} /\ (awaited # None => call[awaited] # Idle)

LEMMA CallsKept == CallsInv /\ [Next]_vars => CallsInv'
<1> SUFFICES ASSUME CallsInv, [Next]_vars PROVE CallsInv'
  OBVIOUS
<1> USE ConstantsAssumption DEF CallsInv
<1> DEFINE Quiet == UNCHANGED <<allowed, chain, stored, call, awaited, minted>>
<1>1. CASE Quiet
  BY <1>1 DEF Applied, Request
<1>2. ASSUME NEW c \in Call, NEW r \in Request, r # Idle, r.pc = "sent", Send(c, r) PROVE CallsInv'
  <2>1. Applied' = Applied
    BY <1>2 DEF Send, Idle, Applied
  <2>. QED BY <1>2, <2>1 DEF Send, Request
<1>3. ASSUME NEW c \in Call, NEW op \in {"add", "del"}, Refuse(c, op) PROVE CallsInv'
  <2>1. Applied' = Applied
    BY <1>3 DEF Refuse, Sent, Idle, Applied
  <2>. QED BY <1>3, <2>1 DEF Refuse, Sent, Request
<1>4. ASSUME NEW c \in Call, Apply(c) PROVE CallsInv'
  <2>1. call[c] \in [pc : {"sent"}, op : {"add"}, stmt : Stmt]
    BY <1>4 DEF Apply, Sent, Request, Idle
  <2>2. call' = [call EXCEPT ![c] = [call[c] EXCEPT !.pc = "applied"]]
        /\ [call[c] EXCEPT !.pc = "applied"] \in [pc : {"applied"}, op : {"add"}, stmt : Stmt]
    BY <1>4, <2>1 DEF Apply
  <2>3. Applied' = Applied \cup {c}
    BY <2>2 DEF Applied
  <2>4. IsFiniteSet(Applied') /\ Cardinality(Applied') <= Cardinality(Applied) + 1
    <3>1. IsFiniteSet(Applied) /\ Cardinality(Applied) \in Nat
      BY FS_CardinalityType
    <3>2. /\ IsFiniteSet(Applied \cup {c})
          /\ Cardinality(Applied \cup {c}) =
               IF c \in Applied THEN Cardinality(Applied) ELSE Cardinality(Applied) + 1
      BY <3>1, FS_AddElement
    <3>. QED BY <2>3, <3>1, <3>2
  <2>5. minted' + Cardinality(Applied') <= MaxIds
    BY <1>4, <2>4, FS_CardinalityType DEF Apply
  <2>6. call' \in [Call -> Request]
    BY <2>2 DEF Request
  <2>7. chain' \in Seq(Stmt)
    BY <1>4, <2>1 DEF Apply
  <2>8. awaited' # None => call'[awaited'] # Idle
    BY <1>4, <2>2 DEF Apply, Idle
  <2>. QED BY <1>4, <2>4, <2>5, <2>6, <2>7, <2>8 DEF Apply, Request
<1>5. ASSUME NEW c \in Call, Record(c) PROVE CallsInv'
  <2>1. call[c] \in [pc : {"applied"}, op : {"add"}, stmt : Stmt]
    BY <1>5 DEF Record, Applied, Request, Idle
  <2> DEFINE r == IF awaited = c
                  THEN [pc |-> "done", op |-> "add", id |-> minted + 1, stmt |-> call[c].stmt]
                  ELSE Idle
  <2>2. call' = [call EXCEPT ![c] = r] /\ minted' = minted + 1
    BY <1>5 DEF Record, Reply
  <2>3. r.pc # "applied" /\ (awaited = c => r # Idle)
    BY DEF Idle
  <2>4. r \in Request'
    BY <2>1, <2>2 DEF Request
  <2> HIDE DEF r
  <2>5. Applied' = Applied \ {c} /\ c \in Applied
    BY <1>5, <2>2, <2>3 DEF Applied, Record
  <2>6. IsFiniteSet(Applied') /\ Cardinality(Applied') = Cardinality(Applied) - 1
    BY <2>5, FS_RemoveElement
  <2>7. minted' + Cardinality(Applied') <= MaxIds
    BY <2>2, <2>6, FS_CardinalityType
  <2>8. Request \subseteq Request'
    BY <2>2 DEF Request
  <2>9. call' \in [Call -> Request']
    BY <2>2, <2>4, <2>8
  <2>10. /\ DOMAIN allowed' = DOMAIN allowed \cup {minted'}
         /\ \A id \in DOMAIN allowed' : allowed'[id] \in Stmt
    BY <1>5, <2>1, <2>2 DEF Record, With
  <2>11. DOMAIN allowed' \subseteq 1..minted'
    BY <2>2, <2>10
  <2>12. stored' \subseteq [id : {"store"} \X (1..minted'), stmt : Stmt]
    BY <1>5, <2>2 DEF Record
  <2>13. awaited' # None => call'[awaited'] # Idle
    BY <1>5, <2>2, <2>3 DEF Record
  <2>. QED BY <1>5, <2>2, <2>6, <2>7, <2>9, <2>10, <2>11, <2>12, <2>13 DEF Record
<1>6. ASSUME NEW c \in Call, Remove(c) PROVE CallsInv'
  <2>1. call[c] \in [pc : {"sent"}, op : {"del"}, id : Nat]
    BY <1>6 DEF Remove, Sent, Request, Idle
  <2> DEFINE r == IF awaited = c
                  THEN [pc |-> "done", op |-> "del", id |-> call[c].id, stmt |-> None]
                  ELSE Idle
  <2>2. call' = [call EXCEPT ![c] = r] /\ minted' = minted
    BY <1>6 DEF Remove, Reply
  <2>3. r.pc # "applied" /\ (awaited = c => r # Idle)
    BY DEF Idle
  <2>4. r \in Request
    BY <2>1 DEF Request
  <2> HIDE DEF r
  <2>5. Applied' = Applied
    BY <2>1, <2>2, <2>3 DEF Applied
  <2>6. chain' \in Seq(Stmt)
    BY <1>6, LinesShrink, SMTT(30) DEF Remove, Match
  <2>7. DOMAIN allowed' \subseteq DOMAIN allowed
        /\ \A id \in DOMAIN allowed' : allowed'[id] = allowed[id]
    BY <1>6 DEF Remove, Without, Restrict
  <2>8. Request' = Request
    BY <2>2 DEF Request
  <2>9. call' \in [Call -> Request'] /\ (awaited' # None => call'[awaited'] # Idle)
    BY <1>6, <2>2, <2>3, <2>4, <2>8 DEF Remove
  <2>. QED BY <1>6, <2>2, <2>5, <2>6, <2>7, <2>9 DEF Remove
<1>7. ASSUME NEW c \in Call, Answer(c) PROVE CallsInv'
  <2>1. call[c].pc = "done"
    BY <1>7 DEF Answer
  <2>2. Applied' = Applied
    BY <1>7, <2>1 DEF Answer, Idle, Applied
  <2>3. call[c].op = "add" => call[c].id \in 1..minted /\ call[c].stmt \in Stmt
    BY <2>1 DEF Request, Idle
  <2>4. stored' \subseteq [id : {"store"} \X (1..minted), stmt : Stmt]
    BY <1>7, <2>3 DEF Answer
  <2>. QED BY <1>7, <2>2, <2>4 DEF Answer, Request
<1>8. ASSUME NEW c \in Call, TimeOut(c) PROVE CallsInv'
  <2>1. Applied' = Applied
    BY <1>8 DEF TimeOut, Idle, Applied
  <2>. QED BY <1>8, <2>1 DEF TimeOut, Request
<1>9. ASSUME NEW r \in stored, DeleteRule(r) PROVE CallsInv'
  BY <1>9 DEF DeleteRule, Applied, Request
<1>10. CASE Restart
  <2>1. call' = NoCalls /\ allowed' = <<>> /\ chain' = <<>> /\ awaited' = None
        /\ UNCHANGED <<stored, minted>>
    BY <1>10 DEF Restart
  <2>2. Applied' = {}
    BY <2>1 DEF Applied, NoCalls, Idle
  <2>3. call' \in [Call -> Request']
    BY <2>1 DEF NoCalls, Request
  <2>4. minted <= MaxIds
    BY FS_CardinalityType
  <2>. QED BY <2>1, <2>2, <2>3, <2>4, FS_EmptySet, EmptyTable
<1>11. ASSUME NEW c \in Call, Dashboard(c) PROVE CallsInv'
  <2>1. ASSUME NEW s \in Stmt, UserAllowAdd(c, s) PROVE CallsInv'
    <3>1. [pc |-> "sent", op |-> "add", stmt |-> s] \in Request
      BY DEF Request
    <3>. QED BY <1>2, <2>1, <3>1 DEF UserAllowAdd, Idle
  <2>2. ASSUME NEW id \in 1..minted, UserAllowDel(c, id) PROVE CallsInv'
    <3>1. [pc |-> "sent", op |-> "del", id |-> id] \in Request
      BY DEF Request
    <3>. QED BY <1>2, <2>2, <3>1 DEF UserAllowDel, Idle
  <2>. QED BY <1>7, <1>8, <1>11, <2>1, <2>2 DEF Dashboard
<1>12. ASSUME NEW proto \in Proto, NEW hp, NEW cont \in Port, Publish(proto, hp, cont) PROVE CallsInv'
  BY <1>1, <1>12 DEF Publish
<1>13. ASSUME NEW pp \in DOMAIN published, Unpublish(pp) PROVE CallsInv'
  BY <1>1, <1>13 DEF Unpublish
<1>14. CASE UNCHANGED vars
  BY <1>1, <1>14 DEF vars
<1> HIDE DEF CallsInv, Quiet
<1>. QED BY <1>3, <1>4, <1>5, <1>6, <1>9, <1>10, <1>11, <1>12, <1>13, <1>14
         DEF Next, Serve, PublishAny, PublishNamed
-------------------------------------------------------------------------------
(* The chain and the table of user rules *)

(* The requests whose rule is in the chain and not yet in the table. *)
Coming(calls, s) == {c \in Call : calls[c].pc = "applied" /\ calls[c].stmt = s}

ChainInv ==
  \A s \in Stmt : Cardinality(Lines(chain, s)) =
                   Cardinality(Listing(allowed, s)) + Cardinality(Coming(call, s))

LEMMA CountsAreNumbers ==
  ASSUME CallsInv, NEW s
  PROVE  /\ Cardinality(Lines(chain, s)) \in Nat
         /\ Cardinality(Listing(allowed, s)) \in Nat
         /\ IsFiniteSet(Coming(call, s)) /\ Cardinality(Coming(call, s)) \in Nat
         /\ IsFiniteSet(DOMAIN allowed)
<1>1. IsFiniteSet(DOMAIN allowed)
  <2>1. IsFiniteSet(1..minted) /\ DOMAIN allowed \in SUBSET (1..minted)
    BY FS_Interval DEF CallsInv
  <2>. QED BY <2>1, FS_Subset
<1>2. Listing(allowed, s) \in SUBSET DOMAIN allowed
  BY DEF Listing
<1>3. IsFiniteSet(Applied) /\ Coming(call, s) \in SUBSET Applied
  BY DEF CallsInv, Coming, Applied
<1>4. IsFiniteSet(Listing(allowed, s)) /\ IsFiniteSet(Coming(call, s))
  BY <1>1, <1>2, <1>3, FS_Subset
<1>5. Cardinality(Lines(chain, s)) \in Nat
  BY LinesFinite DEF CallsInv
<1>. QED BY <1>1, <1>4, <1>5, FS_CardinalityType

\* A request that is answered, refused or given up was not on its way.
LEMMA ComingKept ==
  ASSUME NEW calls, DOMAIN calls = Call, NEW c \in Call, NEW r, NEW s,
         calls[c].pc # "applied", r.pc # "applied"
  PROVE  Coming([calls EXCEPT ![c] = r], s) = Coming(calls, s)
<1>1. ASSUME NEW d \in Call
      PROVE  [calls EXCEPT ![c] = r][d] = IF d = c THEN r ELSE calls[d]
  OBVIOUS
<1>. QED BY <1>1 DEF Coming

LEMMA StillCounted ==
  ASSUME ChainInv, UNCHANGED <<chain, allowed>>, \A s \in Stmt : Coming(call', s) = Coming(call, s)
  PROVE  ChainInv'
BY DEF ChainInv

(* Where no statement's text is part of another's, the rule removed is one of the entry's
   statement, and the two counts go down together. *)
LEMMA ChainKept ==
  ASSUME \A s, t \in Stmt : <<s, t>> \in Within => s = t,
         CallsInv, ChainInv, [Next]_vars
  PROVE  ChainInv'
<1> USE DEF CallsInv
<1>1. CASE UNCHANGED <<chain, allowed, call>>
  BY <1>1, StillCounted
<1>2. ASSUME NEW c \in Call, Serve(c) PROVE ChainInv'
  <2>1. CASE Apply(c)
    <3>1. call[c] \in [pc : {"sent"}, op : {"add"}, stmt : Stmt]
      BY <2>1 DEF Apply, Sent, Request, Idle
    <3>2. /\ chain' = Append(chain, call[c].stmt) /\ allowed' = allowed
          /\ call'[c].pc = "applied" /\ call'[c].stmt = call[c].stmt
          /\ \A d \in Call : d # c => call'[d] = call[d]
      BY <2>1, <3>1 DEF Apply
    <3>3. ASSUME NEW s \in Stmt
          PROVE  Cardinality(Lines(chain', s)) =
                   Cardinality(Listing(allowed', s)) + Cardinality(Coming(call', s))
      <4>1. Cardinality(Lines(chain', s)) = Cardinality(Lines(chain, s)) + (IF call[c].stmt = s THEN 1 ELSE 0)
        BY <3>1, <3>2, LinesGrow
      <4>2. CASE call[c].stmt = s
        <5>1. Coming(call', s) = Coming(call, s) \cup {c} /\ c \notin Coming(call, s)
          BY <3>1, <3>2, <4>2 DEF Coming
        <5>2. Cardinality(Coming(call', s)) = Cardinality(Coming(call, s)) + 1
          BY <5>1, CountsAreNumbers, FS_AddElement
        <5>. QED BY <3>2, <4>1, <4>2, <5>2, CountsAreNumbers DEF ChainInv
      <4>3. CASE call[c].stmt # s
        <5>1. Coming(call', s) = Coming(call, s)
          BY <3>1, <3>2, <4>3 DEF Coming
        <5>. QED BY <3>2, <4>1, <4>3, <5>1, CountsAreNumbers DEF ChainInv
      <4>. QED BY <4>2, <4>3
    <3>. QED BY <3>3 DEF ChainInv
  <2>2. CASE Record(c)
    <3>1. call[c] \in [pc : {"applied"}, op : {"add"}, stmt : Stmt]
      BY <2>2 DEF Record, Applied, Request, Idle
    <3>2. /\ chain' = chain /\ allowed' = With(allowed, minted + 1, call[c].stmt)
          /\ call'[c].pc # "applied" /\ \A d \in Call : d # c => call'[d] = call[d]
      BY <2>2, <3>1 DEF Record, Reply, Idle
    <3>3. minted + 1 \notin DOMAIN allowed
      OBVIOUS
    <3>4. ASSUME NEW s \in Stmt
          PROVE  Cardinality(Lines(chain', s)) =
                   Cardinality(Listing(allowed', s)) + Cardinality(Coming(call', s))
      <4>1. Cardinality(Listing(allowed', s)) =
              Cardinality(Listing(allowed, s)) + (IF call[c].stmt = s THEN 1 ELSE 0)
        BY <3>2, <3>3, CountsAreNumbers, ListingGrows
      <4>2. Coming(call', s) = Coming(call, s) \ {c} /\ (c \in Coming(call, s) <=> call[c].stmt = s)
        BY <3>1, <3>2 DEF Coming
      <4>3. Cardinality(Coming(call', s)) =
              Cardinality(Coming(call, s)) - (IF call[c].stmt = s THEN 1 ELSE 0)
        <5>1. IsFiniteSet(Coming(call, s)) /\ Cardinality(Coming(call, s)) \in Nat
          BY CountsAreNumbers
        <5>2. Cardinality(Coming(call, s) \ {c}) =
                IF c \in Coming(call, s) THEN Cardinality(Coming(call, s)) - 1
                ELSE Cardinality(Coming(call, s))
          BY <5>1, FS_RemoveElement
        <5>. QED BY <4>2, <5>1, <5>2
      <4>. QED BY <3>2, <4>1, <4>3, CountsAreNumbers DEF ChainInv
    <3>. QED BY <3>4 DEF ChainInv
  <2>3. CASE Remove(c)
    <3>1. call[c] \in [pc : {"sent"}, op : {"del"}, id : Nat]
      BY <2>3 DEF Remove, Sent, Request, Idle
    <3> DEFINE gone == allowed[call[c].id]
    <3>2. call[c].id \in DOMAIN allowed /\ gone \in Stmt
      BY <2>3 DEF Remove
    <3>3. PICK i \in DOMAIN chain :
            /\ Match(gone, i)
            /\ chain' = SubSeq(chain, 1, i - 1) \o SubSeq(chain, i + 1, Len(chain))
      BY <2>3 DEF Remove
    <3>4. chain[i] = gone
      BY <3>2, <3>3 DEF Match
    <3>5. allowed' = Without(allowed, call[c].id)
      BY <2>3 DEF Remove
    <3>6. \A s : Coming(call', s) = Coming(call, s)
      BY <2>3, <3>1 DEF Remove, Reply, Idle, Coming
    <3> HIDE DEF gone
    <3>7. ASSUME NEW s \in Stmt
          PROVE  Cardinality(Lines(chain', s)) =
                   Cardinality(Listing(allowed', s)) + Cardinality(Coming(call', s))
      <4>1. Cardinality(Lines(chain', s)) = Cardinality(Lines(chain, s)) - (IF gone = s THEN 1 ELSE 0)
        <5>1. Cardinality(Lines(SubSeq(chain, 1, i - 1) \o SubSeq(chain, i + 1, Len(chain)), s)) =
                Cardinality(Lines(chain, s)) - (IF chain[i] = s THEN 1 ELSE 0)
          BY LinesShrink
        <5>. QED BY <3>3, <3>4, <5>1
      <4>2. Cardinality(Listing(allowed', s)) =
              Cardinality(Listing(allowed, s)) - (IF gone = s THEN 1 ELSE 0)
        BY <3>2, <3>5, CountsAreNumbers, ListingShrinks DEF gone
      <4>3. /\ Cardinality(Lines(chain, s)) \in Nat /\ Cardinality(Listing(allowed, s)) \in Nat
            /\ Cardinality(Coming(call, s)) \in Nat
        BY CountsAreNumbers
      <4>4. Cardinality(Lines(chain, s)) =
              Cardinality(Listing(allowed, s)) + Cardinality(Coming(call, s))
        BY DEF ChainInv
      <4>5. Coming(call', s) = Coming(call, s)
        BY <3>6
      <4>. QED BY <4>1, <4>2, <4>3, <4>4, <4>5
    <3>. QED BY <3>7 DEF ChainInv
  <2>4. ASSUME NEW op \in {"add", "del"}, Refuse(c, op) PROVE ChainInv'
    <3>1. \A s : Coming(call', s) = Coming(call, s)
      BY <2>4 DEF Refuse, Sent, Idle, Coming
    <3>. QED BY <2>4, <3>1, StillCounted DEF Refuse
  <2>. QED BY <1>2, <2>1, <2>2, <2>3, <2>4 DEF Serve
<1>3. ASSUME NEW c \in Call, Dashboard(c) PROVE ChainInv'
  <2>1. ASSUME NEW r, r.pc = "sent", Send(c, r) PROVE ChainInv'
    <3>1. \A s : Coming(call', s) = Coming(call, s)
      BY <2>1 DEF Send, Idle, Coming
    <3>. QED BY <2>1, <3>1, StillCounted DEF Send
  <2>2. CASE Answer(c)
    <3>1. \A s : Coming(call', s) = Coming(call, s)
      BY <2>2 DEF Answer, Idle, Coming
    <3>. QED BY <2>2, <3>1, StillCounted DEF Answer
  <2>3. CASE TimeOut(c)
    <3>1. \A s : Coming(call', s) = Coming(call, s)
      BY <2>3 DEF TimeOut, Idle, Coming
    <3>. QED BY <2>3, <3>1, StillCounted DEF TimeOut
  <2>. QED BY <1>3, <2>1, <2>2, <2>3 DEF Dashboard, UserAllowAdd, UserAllowDel
<1>4. CASE Restart
  <2>1. chain' = <<>> /\ allowed' = <<>> /\ \A s : Coming(call', s) = {}
    BY <1>4 DEF Restart, NoCalls, Idle, Coming
  <2>2. \A s : Cardinality(Lines(chain', s)) = 0 /\ Cardinality(Listing(allowed', s)) = 0
    BY <2>1, EmptyTable
  <2>3. \A s : Cardinality(Coming(call', s)) = 0
    BY <2>1, FS_EmptySet
  <2>. QED BY <2>2, <2>3 DEF ChainInv
<1>5. ASSUME NEW proto \in Proto, NEW hp, NEW cont \in Port, Publish(proto, hp, cont) PROVE ChainInv'
  BY <1>1, <1>5 DEF Publish
<1>6. ASSUME NEW pp \in DOMAIN published, Unpublish(pp) PROVE ChainInv'
  BY <1>1, <1>6 DEF Unpublish
<1>7. ASSUME NEW r \in stored, DeleteRule(r) PROVE ChainInv'
  BY <1>1, <1>7 DEF DeleteRule
<1>8. CASE UNCHANGED vars
  BY <1>1, <1>8 DEF vars
<1> HIDE DEF CallsInv
<1>. QED BY <1>2, <1>3, <1>4, <1>5, <1>6, <1>7, <1>8 DEF Next, PublishAny, PublishNamed

-------------------------------------------------------------------------------
(* The theorems *)

LEMMA Initially == Init => PortsInv /\ CallsInv /\ ChainInv
<1> SUFFICES ASSUME Init PROVE PortsInv /\ CallsInv /\ ChainInv
  OBVIOUS
<1> USE DEF Init
<1>1. PortsInv
  BY EmptyTable DEF PortsInv, NoRules
<1>2. Applied = {} /\ \A s : Coming(call, s) = {}
  BY DEF Applied, NoCalls, Idle, Coming
<1>3. CallsInv
  BY <1>2, EmptyTable, FS_EmptySet, ConstantsAssumption DEF CallsInv, NoCalls, Request
<1>4. ChainInv
  <2>1. \A s : Cardinality(Lines(chain, s)) = 0 /\ Cardinality(Listing(allowed, s)) = 0
    BY EmptyTable
  <2>. QED BY <1>2, <2>1, FS_EmptySet, SMTT(30) DEF ChainInv
<1>. QED BY <1>1, <1>3, <1>4

LEMMA Invariance == Spec => [](PortsInv /\ CallsInv)
BY Initially, PortsKept, CallsKept, PTL DEF Spec

(* The shape of the state; in particular the dashboard waits for a request only while
   publish-mgr has it or its answer. *)
THEOREM TypeCorrect == Spec => []TypeOK
<1>1. PortsInv /\ CallsInv => TypeOK
  <2> SUFFICES ASSUME PortsInv, CallsInv PROVE TypeOK
    OBVIOUS
  <2>1. minted <= MaxIds
    BY FS_CardinalityType, ConstantsAssumption DEF CallsInv
  <2>. QED BY <2>1, ConstantsAssumption DEF PortsInv, CallsInv, TypeOK
<1>. QED BY <1>1, Invariance, PTL

(* handlePublish, handleUnpublish (publish-mgr/main.go): whatever ports are published
   and withdrawn in whatever order, a container port is open as many times as the table
   lists it. *)
THEOREM OpenAsListed == Spec => []RulesMatchEntries
<1>1. TypeOK /\ PortsInv => RulesMatchEntries
  BY DEF RulesMatchEntries, PortsInv, Entries
<1>. QED BY <1>1, TypeCorrect, Invariance, PTL

(* handleUserAllowAdd, handleUserAllowDel (publish-mgr/main.go, userallow.go): where no
   statement's text is part of another's, the chain has the rules of the table and of
   the requests on their way into it, whichever of them the dashboard waits for. *)
THEOREM AllowedAsListed ==
  ASSUME \A s, t \in Stmt : <<s, t>> \in Within => s = t
  PROVE  Spec => []ChainMatchesEntries
<1>1. CallsInv /\ ChainInv /\ [Next]_vars => ChainInv'
  BY ChainKept
<1>2. ChainInv => ChainMatchesEntries
  <2> SUFFICES ASSUME ChainInv, NEW s \in Stmt
               PROVE  Cardinality({i \in DOMAIN chain : chain[i] = s}) =
                        Cardinality({id \in DOMAIN allowed : allowed[id] = s})
                        + Cardinality({c \in Applied : call[c].stmt = s})
    BY DEF ChainMatchesEntries
  <2>1. {c \in Applied : call[c].stmt = s} = Coming(call, s)
    BY DEF Applied, Coming
  <2>. QED BY <2>1 DEF ChainInv, Lines, Listing
<1>. QED BY <1>1, <1>2, Initially, Invariance, PTL DEF Spec
===============================================================================
