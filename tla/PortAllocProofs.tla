--------------------------- MODULE PortAllocProofs ---------------------------
(***************************************************************************)
(* Proofs about the allocator, for every set of sessions, processes, pools *)
(* and sizes: the scan returns a free range and gives up only when there   *)
(* is none, no ledger ever holds overlapping ranges, and no two running    *)
(* sessions share a port unless two calls have overlapped in time.         *)
(***************************************************************************)
EXTENDS PortAlloc, WellFoundedInduction, TLAPS

\* A ledger with disjoint ranges, none past the last port.
Good(m) ==
  /\ IsLedger(m) /\ Disjoint(m)
  /\ \A s \in Session : m[s] # None => Last(m[s]) <= MaxPort

-------------------------------------------------------------------------------
(* The scan *)

LEMMA LeastNatural ==
  ASSUME NEW S \in SUBSET Nat, S # {}
  PROVE  \E n \in S : \A m \in S : n <= m
<1>1. PICK n \in S : \A m \in S : ~ (<<m, n>> \in OpToRel(<, Nat))
  BY NatLessThanWellFounded, WFMin, Zenon
<1>2. \A m \in S : ~ (m < n)
  BY <1>1, Zenon DEF OpToRel
<1>. QED BY <1>2

\* Ranges have a first one ...
LEMMA Earliest ==
  ASSUME NEW R \in SUBSET Range, R # {}
  PROVE  \E a \in R : \A b \in R : a.base <= b.base
<1> DEFINE S == {a.base : a \in R}
<1>1. S \in SUBSET Nat /\ S # {}
  BY DEF Range
<1>2. PICK n \in S : \A m \in S : n <= m
  BY <1>1, LeastNatural
<1>. QED BY <1>2

\* ... and, as ports end somewhere, a last one.
LEMMA Latest ==
  ASSUME NEW R \in SUBSET Range, R # {}, \A a \in R : Last(a) <= MaxPort
  PROVE  \E a \in R : \A b \in R : b.base <= a.base
<1> DEFINE S == {MaxPort - a.base : a \in R}
<1>0. MaxPort \in Nat
  BY ConstantsAssumption
<1>1. S \in SUBSET Nat /\ S # {}
  BY <1>0 DEF Range, Last
<1>2. PICK n \in S : \A m \in S : n <= m
  BY <1>1, LeastNatural
<1>3. PICK a \in R : n = MaxPort - a.base
  BY <1>2
<1>4. ASSUME NEW b \in R PROVE b.base <= a.base
  <2>1. MaxPort - a.base <= MaxPort - b.base
    BY <1>2, <1>3
  <2>2. a.base \in Nat /\ b.base \in Nat
    BY DEF Range
  <2>. QED BY <2>1, <2>2, <1>0
<1>. QED BY <1>4

\* The ranges of a ledger are ranges, and disjoint.
LEMMA OccupiedRanges ==
  ASSUME NEW m, Good(m)
  PROVE  /\ Occupied(m) \in SUBSET Range
         /\ \A a \in Occupied(m) : Last(a) <= MaxPort
         /\ \A a, b \in Occupied(m) : a.base < b.base => Last(a) < b.base
         /\ \A a, b \in Occupied(m) : a.base = b.base => a = b
<1>1. Occupied(m) \in SUBSET Range /\ \A a \in Occupied(m) : Last(a) <= MaxPort
  BY DEF Good, IsLedger, Occupied
<1>2. ASSUME NEW a \in Occupied(m), NEW b \in Occupied(m), a # b
      PROVE  Ports(a) \cap Ports(b) = {}
  BY <1>2 DEF Good, Disjoint, Occupied
<1>3. ASSUME NEW a \in Occupied(m), NEW b \in Occupied(m), a.base < b.base
      PROVE  Last(a) < b.base
  <2>1. a.base \in Nat /\ b.base \in Nat /\ a.size \in Nat \ {0} /\ b.size \in Nat \ {0}
    BY <1>1 DEF Range
  <2>2. b.base \in Ports(b)
    BY <2>1 DEF Ports, Last
  <2>3. b.base \notin Ports(a)
    BY <1>2, <1>3, <2>1, <2>2
  <2>. QED BY <1>3, <2>1, <2>3 DEF Ports, Last
<1>4. ASSUME NEW a \in Occupied(m), NEW b \in Occupied(m), a.base = b.base
      PROVE  a = b
  <2>1. a.base \in Nat /\ b.base \in Nat /\ a.size \in Nat \ {0} /\ b.size \in Nat \ {0}
    BY <1>1 DEF Range
  <2>2. a.base \in Ports(a) /\ b.base \in Ports(b)
    BY <2>1 DEF Ports, Last
  <2>. QED BY <1>2, <1>4, <2>2
<1>. QED BY <1>1, <1>3, <1>4

\* The cursor is past every range behind it, and no further than it must be.
LEMMA CursorPast ==
  ASSUME NEW m, Good(m), NEW pool \in Pool, NEW behind \in SUBSET Occupied(m)
  PROVE  /\ Cursor(pool, behind) \in Nat
         /\ \A a \in behind : Last(a) < Cursor(pool, behind)
         /\ \/ Cursor(pool, behind) = pool.first
            \/ \E a \in behind : Cursor(pool, behind) = Last(a) + 1
<1>1. CASE behind = {}
  <2>1. pool.first \in Nat
    BY ConstantsAssumption
  <2>. QED BY <1>1, <2>1 DEF Cursor
<1>2. CASE behind # {}
  <2>1. \E a \in behind : \A b \in behind : b.base <= a.base
    BY <1>2, Latest, OccupiedRanges
  <2>2. PICK a \in behind : /\ \A b \in behind : b.base <= a.base
                            /\ Cursor(pool, behind) = Last(a) + 1
    BY <1>2, <2>1 DEF Cursor
  <2>3. behind \in SUBSET Range
    BY OccupiedRanges
  <2>4. Last(a) \in Nat
    BY <2>3 DEF Range, Last
  <2>5. ASSUME NEW b \in behind PROVE Last(b) <= Last(a)
    <3>1. a.base \in Nat /\ b.base \in Nat /\ a.size \in Nat \ {0} /\ b.size \in Nat \ {0}
      BY <2>3 DEF Range
    <3>2. CASE b.base < a.base
      <4>1. Last(b) < a.base
        BY <3>2, OccupiedRanges
      <4>. QED BY <3>1, <4>1 DEF Last
    <3>3. CASE b.base = a.base
      <4>1. b = a
        BY <3>3, OccupiedRanges
      <4>. QED BY <2>4, <4>1
    <3>. QED BY <2>2, <3>1, <3>2, <3>3
  <2>6. \A b \in behind : Last(b) \in Nat
    BY <2>3 DEF Range, Last
  <2>. QED BY <2>2, <2>4, <2>5, <2>6
<1>. QED BY <1>1, <1>2

\* The ranges behind the place the scan chose, and those ahead of it.
LEMMA ScanSplits ==
  ASSUME NEW m, Good(m), NEW pool \in Pool, NEW size \in Nat \ {0}
  PROVE  \E behind \in SUBSET Occupied(m) :
           /\ Base(m, pool, size) = Cursor(pool, behind)
           /\ \A o \in Occupied(m) \ behind : Base(m, pool, size) + size - 1 < o.base
           /\ \A o \in behind, q \in Occupied(m) : StopsAt(m, pool, size, q) => o.base < q.base
<1> DEFINE stops == {o \in Occupied(m) : StopsAt(m, pool, size, o)}
<1>1. Occupied(m) \in SUBSET Range
  BY OccupiedRanges
<1>2. CASE stops = {}
  <2>1. Base(m, pool, size) = Cursor(pool, Occupied(m))
    BY <1>2 DEF Base
  <2>. QED BY <1>2, <2>1
<1>3. CASE stops # {}
  <2>1. \E o \in stops : \A b \in stops : o.base <= b.base
    BY <1>1, <1>3, Earliest
  <2> DEFINE first == CHOOSE o \in stops : \A b \in stops : o.base <= b.base
             behind == {a \in Occupied(m) : a.base < first.base}
  <2>2. first \in stops /\ \A b \in stops : first.base <= b.base
    BY <2>1
  <2>3. Base(m, pool, size) = Cursor(pool, behind)
    BY <1>3 DEF Base
  <2>4. Cursor(pool, behind) + size - 1 < first.base
    BY <2>2 DEF StopsAt
  <2>5. Cursor(pool, behind) \in Nat
    BY CursorPast
  <2> HIDE DEF first
  <2>6. ASSUME NEW o \in Occupied(m) \ behind PROVE Cursor(pool, behind) + size - 1 < o.base
    <3>1. o.base \in Nat /\ first.base \in Nat
      BY <1>1, <2>2 DEF Range
    <3>. QED BY <2>4, <2>5, <3>1
  <2>7. ASSUME NEW o \in behind, NEW q \in Occupied(m), StopsAt(m, pool, size, q)
        PROVE  o.base < q.base
    <3>1. o.base < first.base /\ first.base <= q.base
      BY <2>2, <2>7
    <3>2. o.base \in Nat /\ first.base \in Nat /\ q.base \in Nat
      BY <1>1, <2>2 DEF Range
    <3>. QED BY <3>1, <3>2
  <2>8. behind \in SUBSET Occupied(m)
    OBVIOUS
  <2>. QED BY <2>3, <2>6, <2>7, <2>8
<1>. QED BY <1>2, <1>3

(* What the scan returns is free: no range of the ledger has a port in it. *)
THEOREM ScanFindsAGap ==
  ASSUME NEW m, Good(m), NEW pool \in Pool, NEW size \in Nat \ {0}
  PROVE  /\ Base(m, pool, size) \in Nat
         /\ \A o \in Occupied(m) :
              Ports([base |-> Base(m, pool, size), size |-> size]) \cap Ports(o) = {}
<1> DEFINE base == Base(m, pool, size)
<1>1. PICK behind \in SUBSET Occupied(m) :
        /\ base = Cursor(pool, behind)
        /\ \A o \in Occupied(m) \ behind : base + size - 1 < o.base
  BY ScanSplits
<1>2. base \in Nat /\ \A a \in behind : Last(a) < base
  BY <1>1, CursorPast
<1> HIDE DEF base
<1>3. ASSUME NEW o \in Occupied(m)
      PROVE  Ports([base |-> base, size |-> size]) \cap Ports(o) = {}
  <2>1. o.base \in Nat /\ Last(o) \in Nat
    BY OccupiedRanges DEF Range, Last
  <2>2. CASE o \in behind
    BY <1>2, <2>1, <2>2 DEF Ports, Last
  <2>3. CASE o \notin behind
    BY <1>1, <1>2, <2>1, <2>3 DEF Ports, Last
  <2>. QED BY <2>2, <2>3
<1>. QED BY <1>2, <1>3 DEF base

(* "pool exhausted" is only reported when no run of ports is left. *)
THEOREM ScanIsExhaustive ==
  ASSUME NEW m, Good(m), NEW pool \in Pool, NEW size \in Nat \ {0},
         NEW b \in pool.first .. (pool.last - size + 1),
         \A a \in Occupied(m) : (b .. (b + size - 1)) \cap Ports(a) = {}
  PROVE  Fits(m, pool, size)
<1>1. pool.first \in Nat /\ pool.last \in Nat /\ b \in Nat /\ pool.first <= b
      /\ b + size - 1 <= pool.last
  BY ConstantsAssumption
<1>2. Occupied(m) \in SUBSET Range
  BY OccupiedRanges
<1>3. ASSUME NEW a \in Occupied(m) PROVE Last(a) < b \/ b + size - 1 < a.base
  <2>1. a.base \in Nat /\ a.size \in Nat \ {0}
    BY <1>2 DEF Range
  <2>2. CASE a.base <= b
    <3>1. b \notin Ports(a)
      BY <1>1
    <3>. QED BY <1>1, <2>1, <2>2, <3>1 DEF Ports, Last
  <2>3. CASE b < a.base
    <3>1. a.base \in Ports(a)
      BY <2>1 DEF Ports, Last
    <3>2. a.base \notin b .. (b + size - 1)
      BY <3>1
    <3>. QED BY <1>1, <2>1, <2>3, <3>2
  <2>. QED BY <1>1, <2>1, <2>2, <2>3
<1>4. ASSUME NEW behind \in SUBSET Occupied(m), \A a \in behind : Last(a) < b
      PROVE  Cursor(pool, behind) <= b
  <2>1. \/ Cursor(pool, behind) = pool.first
        \/ \E a \in behind : Cursor(pool, behind) = Last(a) + 1
    BY CursorPast
  <2>2. \A a \in behind : Last(a) \in Nat
    BY <1>2 DEF Range, Last
  <2>. QED BY <1>1, <1>4, <2>1, <2>2
<1>5. PICK behind \in SUBSET Occupied(m) :
        /\ Base(m, pool, size) = Cursor(pool, behind)
        /\ \A o \in behind, q \in Occupied(m) : StopsAt(m, pool, size, q) => o.base < q.base
  BY ScanSplits
<1>6. Cursor(pool, behind) \in Nat
  BY CursorPast
<1>7. CASE \A a \in behind : Last(a) < b
  <2>1. Cursor(pool, behind) <= b
    BY <1>4, <1>7
  <2>. QED BY <1>1, <1>5, <1>6, <2>1 DEF Fits
<1>8. CASE \E a \in behind : ~(Last(a) < b)
  <2> DEFINE ahead == {a \in Occupied(m) : b + size - 1 < a.base}
  <2>1. ahead \in SUBSET Range /\ ahead # {}
    BY <1>2, <1>3, <1>8
  <2>2. PICK o \in ahead : \A a \in ahead : o.base <= a.base
    BY <2>1, Earliest
  <2>3. o \in Occupied(m) /\ o.base \in Nat /\ b + size - 1 < o.base
    BY <1>2, <2>2 DEF Range
  <2> DEFINE before == {a \in Occupied(m) : a.base < o.base}
  <2>4. ASSUME NEW a \in before PROVE Last(a) < b
    <3>1. a.base \in Nat /\ a.base < o.base
      BY <1>2 DEF Range
    <3>2. ~(b + size - 1 < a.base)
      BY <2>2, <2>3, <3>1
    <3>. QED BY <1>3, <3>2
  <2>5. Cursor(pool, before) <= b /\ Cursor(pool, before) \in Nat
    BY <1>4, <2>4, CursorPast
  <2>6. StopsAt(m, pool, size, o)
    BY <1>1, <2>3, <2>5 DEF StopsAt
  <2>7. \A a \in behind : a \in before
    BY <1>5, <2>3, <2>6
  <2>. QED BY <1>8, <2>4, <2>7
<1>. QED BY <1>7, <1>8

-------------------------------------------------------------------------------
(* The ledgers *)

Called(p) == proc[p] # Idle

\* A call is between its load and its rename, with a good ledger in hand.
CallOK(p) ==
  /\ proc[p] = [pc |-> proc[p].pc, op |-> proc[p].op, session |-> proc[p].session,
                m |-> proc[p].m]
  /\ proc[p].pc \in {"write", "rename"} /\ proc[p].op \in {"claim", "release"}
  /\ proc[p].session \in Session /\ Good(proc[p].m)

LedgersGood ==
  /\ proc = [p \in Proc |-> proc[p]] /\ \A p \in Proc : Called(p) => CallOK(p)
  /\ Good(ledger) /\ (tmp = None \/ Good(tmp))

\* With a range the scan found, or without one of its ranges, a ledger stays good.
LEMMA ClaimedIsGood ==
  ASSUME NEW m, Good(m), NEW s \in Session, NEW pool \in Pool, NEW size \in Size,
         Fits(m, pool, size)
  PROVE  Good([m EXCEPT ![s] = [base |-> Base(m, pool, size), size |-> size]])
<1> DEFINE base == Base(m, pool, size)
           range == [base |-> base, size |-> size]
           mm == [m EXCEPT ![s] = range]
<1>1. size \in Nat \ {0} /\ pool.last \in Nat /\ pool.last <= MaxPort /\ MaxPort \in Nat
  BY ConstantsAssumption
<1>2. base \in Nat /\ \A o \in Occupied(m) : Ports(range) \cap Ports(o) = {}
  BY <1>1, ScanFindsAGap
<1>3. base + size - 1 <= pool.last
  BY DEF Fits
<1> HIDE DEF base
<1>4. range \in Range /\ Last(range) <= MaxPort
  BY <1>1, <1>2, <1>3 DEF Range, Last
<1> HIDE DEF range
<1>5. m \in [Session -> Range \cup {None}]
  BY DEF Good, IsLedger
<1>6. mm \in [Session -> Range \cup {None}]
  BY <1>4, <1>5
<1>7. \A t \in Session : mm[t] = IF t = s THEN range ELSE m[t]
  BY <1>5
<1>8. ASSUME NEW t \in Session, NEW u \in Session, t # u, mm[t] # None, mm[u] # None
      PROVE  Ports(mm[t]) \cap Ports(mm[u]) = {}
  <2>1. CASE t = s
    <3>1. m[u] \in Occupied(m) /\ mm[u] = m[u] /\ mm[t] = range
      BY <1>7, <1>8, <2>1 DEF Occupied
    <3>. QED BY <1>2, <3>1
  <2>2. CASE u = s
    <3>1. m[t] \in Occupied(m) /\ mm[t] = m[t] /\ mm[u] = range
      BY <1>7, <1>8, <2>2 DEF Occupied
    <3>. QED BY <1>2, <3>1
  <2>3. CASE t # s /\ u # s
    BY <1>7, <1>8, <2>3 DEF Good, Disjoint
  <2>. QED BY <2>1, <2>2, <2>3
<1>9. \A t \in Session : mm[t] # None => Last(mm[t]) <= MaxPort
  BY <1>4, <1>7 DEF Good
<1>10. Good(mm)
  BY <1>6, <1>8, <1>9 DEF Good, IsLedger, Disjoint
<1>. QED BY <1>10 DEF range, base

LEMMA ReleasedIsGood ==
  ASSUME NEW m, Good(m), NEW s \in Session
  PROVE  Good([m EXCEPT ![s] = None])
<1> DEFINE mm == [m EXCEPT ![s] = None]
<1>1. m \in [Session -> Range \cup {None}]
  BY DEF Good, IsLedger
<1>2. mm \in [Session -> Range \cup {None}] /\ \A t \in Session : mm[t] = None \/ mm[t] = m[t]
  BY <1>1
<1>. QED BY <1>2 DEF Good, IsLedger, Disjoint

LEMMA InitGood == Init => LedgersGood
<1> SUFFICES ASSUME Init PROVE LedgersGood
  OBVIOUS
<1>1. Good(NoLedger)
  BY DEF Good, IsLedger, Disjoint, NoLedger
<1>2. proc = [p \in Proc |-> proc[p]] /\ \A p \in Proc : proc[p] = Idle
  BY DEF Init
<1>. QED BY <1>1, <1>2 DEF Init, LedgersGood, Called

LEMMA StepGood == LedgersGood /\ [Next]_vars => LedgersGood'
<1> SUFFICES ASSUME LedgersGood, [Next]_vars PROVE LedgersGood'
  OBVIOUS
<1>1. ASSUME NEW p \in Proc, NEW s \in Session, Release(p, s) PROVE LedgersGood'
  <2>1. UNCHANGED <<ledger, tmp>>
    BY <1>1 DEF Release
  <2>2. CASE proc' = proc
    BY <2>1, <2>2 DEF LedgersGood, Called, CallOK
  <2>3. CASE proc' = [proc EXCEPT ![p] = Writing("release", s, [ledger EXCEPT ![s] = None])]
    <3>1. Good([ledger EXCEPT ![s] = None])
      BY ReleasedIsGood DEF LedgersGood
    <3>. QED BY <2>1, <2>3, <3>1 DEF LedgersGood, Called, CallOK, Writing
  <2>. QED BY <1>1, <2>2, <2>3 DEF Release
<1>2. ASSUME NEW p \in Proc, NEW s \in Session, NEW n \in Size, NEW pool \in Pool,
             Claim(p, s, n, pool)
      PROVE  LedgersGood'
  <2> DEFINE mm == [ledger EXCEPT ![s] = [base |-> Base(ledger, pool, n), size |-> n]]
  <2>1. UNCHANGED <<ledger, tmp>>
    BY <1>2 DEF Claim
  <2>2. CASE proc' = proc
    BY <2>1, <2>2 DEF LedgersGood, Called, CallOK
  <2>3. CASE Fits(ledger, pool, n) /\ proc' = [proc EXCEPT ![p] = Writing("claim", s, mm)]
    <3>1. Good(mm)
      BY <2>3, ClaimedIsGood DEF LedgersGood
    <3> HIDE DEF mm
    <3>. QED BY <2>1, <2>3, <3>1 DEF LedgersGood, Called, CallOK, Writing
  <2>. QED BY <1>2, <2>2, <2>3 DEF Claim
<1>3. ASSUME NEW p \in Proc, WriteTmp(p) PROVE LedgersGood'
  <2>1. Called(p) /\ CallOK(p)
    BY <1>3 DEF WriteTmp, LedgersGood, Called, Idle
  <2>. QED BY <1>3, <2>1 DEF WriteTmp, LedgersGood, Called, CallOK
<1>4. ASSUME NEW p \in Proc, Rename(p) PROVE LedgersGood'
  BY <1>4 DEF Rename, LedgersGood, Called, CallOK
<1>5. ASSUME NEW p \in Proc, RenameFails(p) PROVE LedgersGood'
  BY <1>5 DEF RenameFails, LedgersGood, Called, CallOK
<1>6. CASE UNCHANGED vars
  BY <1>6 DEF vars, LedgersGood, Called, CallOK
<1>. QED BY <1>1, <1>2, <1>3, <1>4, <1>5, <1>6 DEF Next

LEMMA LedgersStayGood == Spec => []LedgersGood
<1>. QED BY InitGood, StepGood, PTL DEF Spec

(* No ledger, on disk, in the temporary file or in hand, ever holds overlapping
   ranges, however calls interleave. *)
THEOREM LedgersDisjoint == Spec => []LedgerDisjoint
<1>1. LedgersGood => LedgerDisjoint
  BY DEF LedgersGood, LedgerDisjoint, Ledgers, Called, CallOK, Good
<1>. QED BY <1>1, LedgersStayGood, PTL

(* Whenever a claim is refused, the pool has no run of ports left for it. *)
THEOREM ExhaustedForGood == Spec => []ExhaustionIsReal
<1>1. LedgersGood => ExhaustionIsReal
  <2> SUFFICES ASSUME LedgersGood, NEW pool \in Pool, NEW n \in Size, ~Fits(ledger, pool, n),
                      NEW b \in pool.first .. (pool.last - n + 1)
               PROVE  \E a \in Occupied(ledger) : (b .. (b + n - 1)) \cap Ports(a) # {}
    BY DEF ExhaustionIsReal
  <2>1. n \in Nat \ {0} /\ Good(ledger)
    BY ConstantsAssumption DEF LedgersGood
  <2>. QED BY <2>1, ScanIsExhaustive
<1>. QED BY <1>1, LedgersStayGood, PTL

-------------------------------------------------------------------------------
(* The running sessions *)

\* As long as no two calls have overlapped: there is one call at most, it
\* changes the entry of a session that is not running, and the temporary file
\* is its own.
OneAtATime ==
  /\ \A p, q \in Proc : Called(p) /\ Called(q) => p = q
  /\ \A s \in Session : given[s] # None => ledger[s] = given[s]
  /\ \A p \in Proc : Called(p) =>
       /\ given[proc[p].session] = None
       /\ \A s \in Session : s # proc[p].session => proc[p].m[s] = ledger[s]
       /\ proc[p].pc = "rename" => tmp = proc[p].m

InStep == given = [s \in Session |-> given[s]] /\ (~raced => OneAtATime)

LEMMA InitInStep == Init => InStep
  BY DEF Init, InStep, OneAtATime, Called, NoLedger

LEMMA StepInStep == LedgersGood /\ InStep /\ [Next]_vars => InStep'
<1> SUFFICES ASSUME LedgersGood, InStep, [Next]_vars PROVE InStep'
  OBVIOUS
<1> USE DEF InStep, OneAtATime, Called
<1>0. /\ proc = [p \in Proc |-> proc[p]]
      /\ \A p \in Proc : proc[p] # Idle => proc[p].session \in Session
      /\ Good(ledger) /\ ledger = [s \in Session |-> ledger[s]]
  BY DEF LedgersGood, CallOK, Good, IsLedger
<1>1. ASSUME NEW p \in Proc, NEW s \in Session, Release(p, s) PROVE InStep'
  <2>1. /\ UNCHANGED <<ledger, tmp>> /\ given' = [given EXCEPT ![s] = None]
        /\ ~raced' => ~raced /\ \A q \in Proc : proc[q] = Idle
    BY <1>1 DEF Release, Call
  <2>2. CASE proc' = proc
    BY <1>0, <2>1, <2>2
  <2>3. CASE proc' = [proc EXCEPT ![p] = Writing("release", s, [ledger EXCEPT ![s] = None])]
    BY <1>0, <2>1, <2>3 DEF Writing
  <2>. QED BY <1>1, <2>2, <2>3 DEF Release
<1>2. ASSUME NEW p \in Proc, NEW s \in Session, NEW n \in Size, NEW pool \in Pool,
             Claim(p, s, n, pool)
      PROVE  InStep'
  <2> DEFINE mm == [ledger EXCEPT ![s] = [base |-> Base(ledger, pool, n), size |-> n]]
  <2>1. /\ UNCHANGED <<ledger, tmp>> /\ given[s] = None
        /\ ~raced' => ~raced /\ \A q \in Proc : proc[q] = Idle
    BY <1>2 DEF Claim, Call
  <2>2. CASE proc' = proc /\ given' = [given EXCEPT ![s] = ledger[s]]
    BY <1>0, <2>1, <2>2
  <2>3. CASE given' = given /\ proc' = [proc EXCEPT ![p] = Writing("claim", s, mm)]
    <3>1. \A t \in Session : t # s => mm[t] = ledger[t]
      BY <1>0
    <3> HIDE DEF mm
    <3>. QED BY <1>0, <2>1, <2>3, <3>1 DEF Writing
  <2>. QED BY <1>2, <2>2, <2>3 DEF Claim
<1>3. ASSUME NEW p \in Proc, WriteTmp(p) PROVE InStep'
  <2>1. proc[p] # Idle /\ CallOK(p)
    BY <1>3 DEF WriteTmp, LedgersGood, Idle
  <2>. QED BY <1>0, <1>3, <2>1 DEF WriteTmp, CallOK
<1>4. ASSUME NEW p \in Proc, Rename(p) PROVE InStep'
  <2>1. proc[p] # Idle /\ CallOK(p)
    BY <1>4 DEF Rename, LedgersGood, Idle
  <2>. QED BY <1>0, <1>4, <2>1 DEF Rename, CallOK
<1>5. ASSUME NEW p \in Proc, RenameFails(p) PROVE InStep'
  BY <1>0, <1>5 DEF RenameFails
<1>6. CASE UNCHANGED vars
  BY <1>6 DEF vars
<1>. QED BY <1>1, <1>2, <1>3, <1>4, <1>5, <1>6 DEF Next

LEMMA StaysInStep == Spec => [](LedgersGood /\ InStep)
<1>. QED BY InitGood, StepGood, InitInStep, StepInStep, PTL DEF Spec

(* Until two calls overlap, the ledger has the range of every running session. *)
THEOREM RunningIsRecorded == Spec => []LedgerKnowsRunning
<1>1. LedgersGood /\ InStep => LedgerKnowsRunning
  BY DEF InStep, OneAtATime, LedgerKnowsRunning
<1>. QED BY <1>1, StaysInStep, PTL

(* Until two calls overlap, no two running sessions share a port. *)
THEOREM NoPortIsShared == Spec => []NoOverlapUnlessRaced
<1>1. LedgersGood /\ InStep => NoOverlapUnlessRaced
  <2> SUFFICES ASSUME LedgersGood, InStep, ~raced, NEW s \in Session, NEW t \in Session,
                      s # t, given[s] # None, given[t] # None
               PROVE  Ports(given[s]) \cap Ports(given[t]) = {}
    BY DEF NoOverlapUnlessRaced, NoOverlap, Disjoint
  <2>1. ledger[s] = given[s] /\ ledger[t] = given[t]
    BY DEF InStep, OneAtATime
  <2>. QED BY <2>1 DEF LedgersGood, Good, Disjoint
<1>. QED BY <1>1, StaysInStep, PTL
===============================================================================
