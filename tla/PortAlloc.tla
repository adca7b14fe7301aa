------------------------------ MODULE PortAlloc ------------------------------
(***************************************************************************)
(* The allocator of host port ranges                                       *)
(* (internal/httpproxy/portalloc/allocator.go) as the processes of the     *)
(* command-line tool use it: each invocation opens the same ledger, with   *)
(* the pool its flags give, and claims or releases the range of one        *)
(* session.  A call holds only a mutex of its own process from the load to *)
(* the rename; writing the temporary file and renaming it are separate     *)
(* steps, and the temporary file has one name for everybody.               *)
(***************************************************************************)

EXTENDS Integers, FiniteSets

CONSTANTS
  Session,  \* session names
  Proc,     \* invocations of the tool that may run at the same time
  Pool,     \* the pools their flags may give: records [first, last]
  Size,     \* the sizes a launch may ask for
  MaxPort,  \* the highest port number
  None      \* "no range", "no file"

ASSUME ConstantsAssumption ==
  /\ MaxPort \in Nat /\ Pool \subseteq [first : 0 .. MaxPort, last : 0 .. MaxPort]
  /\ Size \subseteq Nat \ {0}

Last(a) == a.base + a.size - 1

Ports(a) == a.base .. Last(a)

VARIABLES
  ledger,  \* published-port-allocations.json: ledger[s] is a range or None
  tmp,     \* the temporary file: a ledger or None
  given,   \* given[s]: the range the running session s was launched with
  proc,    \* each process: "idle", or a call between its load and its rename
  raced    \* history: a call has begun while another was under way

vars == <<ledger, tmp, given, proc, raced>>

NoLedger == [s \in Session |-> None]

Idle == [pc |-> "idle"]

Init ==
  /\ ledger = NoLedger
  /\ tmp = None
  /\ given = NoLedger
  /\ proc = [p \in Proc |-> Idle]
  /\ raced = FALSE

-------------------------------------------------------------------------------
(* The scan for a gap. *)

Occupied(m) == {m[s] : s \in {t \in Session : m[t] # None}}

\* Mutant: the cursor stays on the last port of a range.
CursorOnLast(pool, behind) ==
  IF behind = {} THEN pool.first
  ELSE Last(CHOOSE a \in behind : \A b \in behind : b.base <= a.base)

\* The cursor once the scan, in the order of their starts, has the ranges of
\* behind behind it: the pool's start, or one past the latest of them.
Cursor(pool, behind) ==
  IF behind = {} THEN pool.first
  ELSE Last(CHOOSE a \in behind : \A b \in behind : b.base <= a.base) + 1

\* The scan stops before a range that leaves size ports after the cursor.
StopsAt(m, pool, size, o) ==
  Cursor(pool, {a \in Occupied(m) : a.base < o.base}) + size - 1 < o.base

\* Mutant: no gap between two ranges is ever taken.
BaseAtEnd(m, pool, size) == Cursor(pool, Occupied(m))

\* Where the scan ends: before the first range it stops at, or past them all.
Base(m, pool, size) ==
  LET stops == {o \in Occupied(m) : StopsAt(m, pool, size, o)}
      first == CHOOSE o \in stops : \A b \in stops : o.base <= b.base
  IN Cursor(pool, IF stops = {} THEN Occupied(m)
                  ELSE {a \in Occupied(m) : a.base < first.base})

Fits(m, pool, size) == Base(m, pool, size) + size - 1 <= pool.last

-------------------------------------------------------------------------------
(* The calls. *)

Writing(op, s, m) == [pc |-> "write", op |-> op, session |-> s, m |-> m]

Call(p) ==
  /\ proc[p] = Idle
  /\ raced' = (raced \/ \E q \in Proc : proc[q] # Idle)

\* Claim up to the save.  A session that has a range gets it back, whatever it
\* asks for; a pool without room is an error that changes nothing.
Claim(p, s, size, pool) ==
  /\ Call(p)
  /\ given[s] = None
  /\ \/ /\ ledger[s] # None
        /\ given' = [given EXCEPT ![s] = ledger[s]]
        /\ proc' = proc
     \/ /\ ledger[s] = None
        /\ Fits(ledger, pool, size)
        /\ LET range == [base |-> Base(ledger, pool, size), size |-> size]
           IN proc' = [proc EXCEPT ![p] =
                Writing("claim", s, [ledger EXCEPT ![s] = range])]
        /\ given' = given
  /\ UNCHANGED <<ledger, tmp>>

\* Release up to the save, once the session's containers are gone.  A session
\* the ledger does not know is a no-op.
Release(p, s) ==
  /\ Call(p)
  /\ given[s] # None
  /\ given' = [given EXCEPT ![s] = None]
  /\ proc' = IF ledger[s] = None THEN proc
             ELSE [proc EXCEPT ![p] =
                Writing("release", s, [ledger EXCEPT ![s] = None])]
  /\ UNCHANGED <<ledger, tmp>>

\* save: the temporary file is written ...
WriteTmp(p) ==
  /\ proc[p].pc = "write"
  /\ tmp' = proc[p].m
  /\ proc' = [proc EXCEPT ![p].pc = "rename"]
  /\ UNCHANGED <<ledger, given, raced>>

\* Mutant: Claim returns the range without recording it.
RenameForgets(p) ==
  /\ proc[p].pc = "rename"
  /\ tmp # None
  /\ ledger' = [tmp EXCEPT ![proc[p].session] = None]
  /\ tmp' = None
  /\ given' = IF proc[p].op = "claim"
              THEN [given EXCEPT ![proc[p].session] = proc[p].m[proc[p].session]]
              ELSE given
  /\ proc' = [proc EXCEPT ![p] = Idle]
  /\ UNCHANGED raced

\* ... and renamed over the ledger, and the call returns.
Rename(p) ==
  /\ proc[p].pc = "rename"
  /\ tmp # None
  /\ ledger' = tmp
  /\ tmp' = None
  /\ given' = IF proc[p].op = "claim"
              THEN [given EXCEPT ![proc[p].session] = proc[p].m[proc[p].session]]
              ELSE given
  /\ proc' = [proc EXCEPT ![p] = Idle]
  /\ UNCHANGED raced

\* Another process renamed the temporary file first: the call returns an error.
RenameFails(p) ==
  /\ proc[p].pc = "rename"
  /\ tmp = None
  /\ proc' = [proc EXCEPT ![p] = Idle]
  /\ UNCHANGED <<ledger, tmp, given, raced>>

Next ==
  \E p \in Proc :
    \/ \E s \in Session :
         Release(p, s) \/ \E n \in Size, pool \in Pool : Claim(p, s, n, pool)
    \/ WriteTmp(p)
    \/ Rename(p)
    \/ RenameFails(p)

Spec == Init /\ [][Next]_vars

-------------------------------------------------------------------------------
(* Safety. *)

Range == [base : Nat, size : Nat \ {0}]
IsLedger(m) == m \in [Session -> Range \cup {None}]

Disjoint(m) ==
  \A s, t \in Session :
    s # t /\ m[s] # None /\ m[t] # None => Ports(m[s]) \cap Ports(m[t]) = {}

\* Two sessions that run at the same time are never given the same host port,
\* "concurrent invocations coordinate" (allocator.go:5-7).
NoOverlap == Disjoint(given)

\* ... unless two calls have overlapped in time.
NoOverlapUnlessRaced == ~raced => NoOverlap

\* The ledger on disk, the one in the temporary file and those in hand.
Ledgers ==
  {ledger} \cup ({tmp} \ {None}) \cup {proc[p].m : p \in {q \in Proc : proc[q] # Idle}}

\* The ranges of one ledger never overlap, in whatever order processes load and
\* rename it: each is a disjoint one plus a range the scan found free.
LedgerDisjoint == \A m \in Ledgers : IsLedger(m) /\ Disjoint(m)

\* Unless two calls have overlapped, the ledger has the range of every running
\* session, so a later claim cannot be given it.
LedgerKnowsRunning ==
  ~raced => \A s \in Session : given[s] # None => ledger[s] = given[s]

\* "pool exhausted" is true: when the scan finds no room for a size, no free
\* run of that many ports exists in the pool.
ExhaustionIsReal ==
  \A pool \in Pool, n \in Size :
    ~Fits(ledger, pool, n) =>
      \A b \in pool.first .. (pool.last - n + 1) :
        \E a \in Occupied(ledger) : (b .. (b + n - 1)) \cap Ports(a) # {}

===============================================================================
