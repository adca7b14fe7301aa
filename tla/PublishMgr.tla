------------------------------- MODULE PublishMgr -------------------------------
(***************************************************************************)
(* publish-mgr (proxy/publish-mgr), the root daemon that edits the proxy   *)
(* container's firewall, and the dashboard handlers that call it           *)
(* (proxy/claude_proxy/dashboard.py).  It keeps two tables, the published  *)
(* ports and the user's accept rules, each beside a chain of nft rules     *)
(* that has to say the same.                                               *)
(*                                                                         *)
(* The dashboard's event loop is blocked while it waits for publish-mgr,   *)
(* five seconds at most: a call that takes longer goes on without it.      *)
(*                                                                         *)
(* This is the daemon as it runs once it is given a range; without one it  *)
(* exits at once (main.go:79-83).                                          *)
(***************************************************************************)
EXTENDS Naturals, Sequences, FiniteSets, FiniteSetsExt, Functions

CONSTANTS
  Port,      \* the session's range: host ports, and container ports as well
  Stmt,      \* accept statements that pass the validator
  Within,    \* <<s, t>>: the text of s, without its "accept", occurs in t's line
  Call,      \* user-allow requests publish-mgr may be serving at the same time
  MaxIds,    \* bound: statements ever added
  None       \* "no call"

ASSUME ConstantsAssumption ==
  /\ Port \subseteq Nat \ {0} /\ Port # {} /\ MaxIds \in Nat
  /\ Within \subseteq Stmt \X Stmt /\ \A s \in Stmt : <<s, s>> \in Within
  /\ None \notin Call

Proto == {"tcp", "udp"}

VARIABLES
  published,  \* the table of published ports: <<proto, host port>> |-> container port
  opened,     \* the chain publish_in: how many accept rules each port has
  allowed,    \* the table of user rules: id |-> statement
  chain,      \* the chain user_allow
  stored,     \* the rules of proto "nft" in the dashboard's store and its file
  call,       \* the user-allow requests publish-mgr is serving
  awaited,    \* the one the dashboard waits for, or None
  minted      \* identifiers given out so far

vars == <<published, opened, allowed, chain, stored, call, awaited, minted>>

ports == <<published, opened>>

NoRules == [pp \in Proto \X Port |-> 0]

Idle == [pc |-> "idle"]

NoCalls == [c \in Call |-> Idle]

Init ==
  /\ published = <<>> /\ opened = NoRules
  /\ allowed = <<>> /\ chain = <<>>
  /\ call = NoCalls /\ awaited = None
  /\ stored = {} /\ minted = 0

With(f, key, value) ==
  [k \in DOMAIN f \cup {key} |-> IF k = key THEN value ELSE f[k]]
Without(f, key) == Restrict(f, DOMAIN f \ {key})

-------------------------------------------------------------------------------
(* /publish and /unpublish: one critical section each. *)

HostPorts == {pp[2] : pp \in DOMAIN published}

\* nextFreePort wants a port that no protocol uses.
FreePorts == Port \ HostPorts

\* Mutant: a port the caller names is taken as it is.
AnyPort(proto, hp) == hp \in Port

\* A port the caller names must be free for its own protocol only.
NamedPort(proto, hp) == hp \in Port /\ <<proto, hp>> \notin DOMAIN published

Publish(proto, hp, cont) ==
  /\ opened' = [opened EXCEPT ![<<proto, cont>>] = @ + 1]
  /\ published' = With(published, <<proto, hp>>, cont)
  /\ UNCHANGED <<allowed, chain, stored, call, awaited, minted>>

PublishAny(proto, cont) == FreePorts # {} /\ Publish(proto, Min(FreePorts), cont)

PublishNamed(proto, hp, cont) == NamedPort(proto, hp) /\ Publish(proto, hp, cont)

\* The entry goes only when nft has deleted a rule for its container port.
Unpublish(pp) ==
  LET rule == <<pp[1], published[pp]>>
  IN /\ opened[rule] > 0
     /\ opened' = [opened EXCEPT ![rule] = @ - 1]
     /\ published' = Without(published, pp)
     /\ UNCHANGED <<allowed, chain, stored, call, awaited, minted>>

-------------------------------------------------------------------------------
(* /user-allow: the dashboard sends, publish-mgr works, the dashboard stores. *)

Send(c, request) ==
  /\ awaited = None /\ call[c] = Idle
  /\ call' = [call EXCEPT ![c] = request] /\ awaited' = c
  /\ UNCHANGED <<ports, allowed, chain, stored, minted>>

UserAllowAdd(c, s) == Send(c, [pc |-> "sent", op |-> "add", stmt |-> s])

UserAllowDel(c, id) == Send(c, [pc |-> "sent", op |-> "del", id |-> id])

Sent(c, op) == call[c].pc = "sent" /\ call[c].op = op

\* 200: the answer waits for the dashboard, or is lost if it has given up.
Reply(c, op, id, s) ==
  call' = [call EXCEPT ![c] =
    IF awaited = c THEN [pc |-> "done", op |-> op, id |-> id, stmt |-> s] ELSE Idle]

\* 404 or 500: the dashboard reports the error and stores nothing.
Refuse(c, op) ==
  /\ Sent(c, op)
  /\ call' = [call EXCEPT ![c] = Idle]
  /\ awaited' = IF awaited = c THEN None ELSE awaited
  /\ UNCHANGED <<ports, allowed, chain, stored, minted>>

Applied == {c \in Call : call[c].pc = "applied"}

\* The nft rule is added before the lock is taken ...
Apply(c) ==
  /\ Sent(c, "add") /\ minted + Cardinality(Applied) < MaxIds
  /\ chain' = Append(chain, call[c].stmt)
  /\ call' = [call EXCEPT ![c].pc = "applied"]
  /\ UNCHANGED <<ports, allowed, stored, awaited, minted>>

\* Mutant: a request whose caller has given up leaves no entry.
RecordAwaited(c) ==
  LET id == minted + 1
  IN /\ c \in Applied
     /\ allowed' = IF awaited = c THEN With(allowed, id, call[c].stmt) ELSE allowed
     /\ minted' = id /\ Reply(c, "add", id, call[c].stmt)
     /\ UNCHANGED <<ports, chain, stored, awaited>>

\* ... and recorded under it, with a random identifier: here a new one.
Record(c) ==
  LET id == minted + 1
  IN /\ c \in Applied
     /\ allowed' = With(allowed, id, call[c].stmt)
     /\ minted' = id /\ Reply(c, "add", id, call[c].stmt)
     /\ UNCHANGED <<ports, chain, stored, awaited>>

\* The first line that contains the statement.
Match(s, i) ==
  /\ i \in DOMAIN chain /\ <<s, chain[i]>> \in Within
  /\ \A j \in 1..(i - 1) : <<s, chain[j]>> \notin Within

Remove(c) ==
  /\ Sent(c, "del") /\ call[c].id \in DOMAIN allowed
  /\ \E i \in DOMAIN chain :
       /\ Match(allowed[call[c].id], i)
       /\ chain' = SubSeq(chain, 1, i - 1) \o SubSeq(chain, i + 1, Len(chain))
  /\ allowed' = Without(allowed, call[c].id)
  /\ Reply(c, "del", call[c].id, None)
  /\ UNCHANGED <<ports, stored, awaited, minted>>

\* The dashboard stores an added rule under an identifier of the store's own,
\* and looks for publish-mgr's when it deletes one.
Answer(c) ==
  LET a == call[c]
  IN /\ awaited = c /\ a.pc = "done"
     /\ stored' = IF a.op = "add"
                  THEN stored \cup {[id |-> <<"store", a.id>>, stmt |-> a.stmt]}
                  ELSE {r \in stored : r.id # <<"mgr", a.id>>}
     /\ call' = [call EXCEPT ![c] = Idle] /\ awaited' = None
     /\ UNCHANGED <<ports, allowed, chain, minted>>

\* Five seconds have passed: 502, and nothing is stored.
TimeOut(c) ==
  /\ awaited = c /\ awaited' = None
  /\ call' = IF call[c].pc = "done" THEN [call EXCEPT ![c] = Idle] ELSE call
  /\ UNCHANGED <<ports, allowed, chain, stored, minted>>

\* DELETE /api/rules/{id} drops a stored rule of any kind.
DeleteRule(r) ==
  /\ awaited = None /\ stored' = stored \ {r}
  /\ UNCHANGED <<ports, allowed, chain, call, awaited, minted>>

\* The proxy container is restarted, in a new network namespace.  The replay reads
\* /config/proxy-state/<session>/rules.json, but what is mounted at /config is the
\* session's own directory: there is no such file, and nothing is replayed.
Restart ==
  /\ published' = <<>> /\ opened' = NoRules
  /\ allowed' = <<>> /\ chain' = <<>>
  /\ call' = NoCalls /\ awaited' = None
  /\ UNCHANGED <<stored, minted>>

-------------------------------------------------------------------------------

Serve(c) ==
  \/ Apply(c) \/ Record(c) \/ Remove(c)
  \/ \E op \in {"add", "del"} : Refuse(c, op)

Dashboard(c) ==
  \/ \E s \in Stmt : UserAllowAdd(c, s)
  \/ \E id \in 1..minted : UserAllowDel(c, id)
  \/ Answer(c) \/ TimeOut(c)

Next ==
  \/ \E proto \in Proto, cont \in Port :
       PublishAny(proto, cont) \/ \E hp \in Port : PublishNamed(proto, hp, cont)
  \/ \E pp \in DOMAIN published : Unpublish(pp)
  \/ \E c \in Call : Serve(c) \/ Dashboard(c)
  \/ \E r \in stored : DeleteRule(r)
  \/ Restart

Spec == Init /\ [][Next]_vars

-------------------------------------------------------------------------------
(* Properties. *)

\* The shape of the state; the dashboard waits for a request only while
\* publish-mgr has it or its answer.
TypeOK ==
  /\ DOMAIN published \subseteq Proto \X Port
  /\ \A pp \in DOMAIN published : published[pp] \in Port
  /\ opened \in [Proto \X Port -> Nat] /\ minted \in 0..MaxIds
  /\ DOMAIN allowed \subseteq 1..minted
  /\ \A id \in DOMAIN allowed : allowed[id] \in Stmt
  /\ stored \subseteq [id : {"store"} \X (1..minted), stmt : Stmt]
  /\ awaited \in Call \cup {None} /\ (awaited # None => call[awaited] # Idle)

\* A container port is open exactly as many times as the table publishes it: an
\* unpublish never closes what another entry needs, and nothing stays open unlisted.
RulesMatchEntries ==
  /\ TypeOK
  /\ \A proto \in Proto, cont \in Port :
       opened[<<proto, cont>>] =
         Cardinality({pp \in DOMAIN published : pp[1] = proto /\ published[pp] = cont})

\* The user_allow chain holds exactly the statements of the table and of the
\* requests on their way into it, those the dashboard has given up included.
ChainMatchesEntries ==
  \A s \in Stmt :
    Cardinality({i \in DOMAIN chain : chain[i] = s}) =
      Cardinality({id \in DOMAIN allowed : allowed[id] = s})
      + Cardinality({c \in Applied : call[c].stmt = s})

===============================================================================
