------------------------------ MODULE ProxyAddon ------------------------------
(***************************************************************************)
(* The TCP/HTTP half of a session's proxy: the mitmproxy addon, its rule   *)
(* store, the rules file and the dashboard handlers that answer held flows *)
(* (proxy/claude_proxy: addon.py, rules.py, app.py, dashboard.py).         *)
(*                                                                         *)
(* Two threads share the store and the pending table.                      *)
(*   - mitmproxy's loop runs the request and tcp_start hooks and, every    *)
(*     ten seconds, the cleanup pass.  A hook reads the store under the    *)
(*     store's lock and fills the pending table under the addon's lock;    *)
(*     in between it holds neither (the variable hook).                    *)
(*   - the dashboard's loop runs one handler at a time up to its first     *)
(*     await, which comes after the save; the handler's position is dash.  *)
(* Wall-clock time is the two sets overdue and expired, which only grow by *)
(* HoldExpires and RuleExpires.                                            *)
(***************************************************************************)

CONSTANTS
  Flow,         \* the connections mitmproxy hands to the addon
  Unaddressed,  \* the raw TCP ones that come without a server address
  RuleId,       \* the uuids rules are given
  Body,         \* the rules a request to the dashboard may ask for
  Seed,         \* the rules in rules.json when the proxy first starts
  None          \* "no flow", "no rule"

\* "hold" stands for every action other than the two the matcher looks for.
\* covers: the flows whose direction, protocol, host, port and name a rule's
\* match object accepts (for a malformed one, those it gets to the regex for).
\* malformed: the rule's host_regex does not compile.  temporary: it has an
\* expires_at.
RuleBody == [action : {"allow", "deny", "hold"}, covers : SUBSET Flow,
             malformed : BOOLEAN, temporary : BOOLEAN]

Rule == [id : RuleId, body : RuleBody]

ASSUME ConstantsAssumption ==
  /\ Unaddressed \subseteq Flow
  /\ Body \subseteq RuleBody
  /\ Seed \subseteq Rule
  /\ None \notin Flow

VARIABLES
  flow,     \* flow[f]: idle, held (intercepted), passed or killed
  gone,     \* held flows whose client hung up: kill() on them raises
  pending,  \* the flows in ProxyAddon.pending
  overdue,  \* the pending flows older than hold_timeout
  hook,     \* the flow no rule matched and that is not yet in pending, or None
  loop,     \* cleanup_loop: "sleep", "notify" (broadcasting) or "sweep"
  rules,    \* RuleStore._rules
  expired,  \* the ids of rules whose expires_at is past
  minted,   \* the rule ids given out so far
  file,     \* the rules a load of rules.json would give: none if it is torn
  dash,     \* the handler the dashboard thread is in
  dirty     \* history: the last change of the store was never written out

vars == <<flow, gone, pending, overdue, hook, loop, rules, expired, minted,
          file, dash, dirty>>

Ready == [pc |-> "idle", flow |-> None, body |-> None, snap |-> {}]

\* The steps of a handler that has taken a flow out of pending and has not
\* yet killed or resumed it.
Resolving == {"add", "verdict"}

TypeOK ==
  /\ flow \in [Flow -> {"idle", "held", "passed", "killed"}]
  /\ gone \subseteq Flow
  /\ pending \subseteq Flow
  /\ overdue \subseteq pending
  /\ hook \in Flow \cup {None}
  /\ loop \in {"sleep", "notify", "sweep"}
  /\ rules \subseteq Rule
  /\ expired \subseteq RuleId
  /\ minted \subseteq RuleId
  /\ file \subseteq Rule
  /\ dash \in [pc : {"idle", "open", "write"} \cup Resolving,
               flow : Flow \cup {None}, body : Body \cup {None},
               snap : SUBSET Rule]
  /\ dirty \in BOOLEAN

Init ==
  /\ flow = [f \in Flow |-> "idle"]
  /\ gone = {}
  /\ pending = {}
  /\ overdue = {}
  /\ hook = None
  /\ loop = "sleep"
  /\ rules = Seed
  /\ expired = {}
  /\ minted = {r.id : r \in Seed}
  /\ file = Seed
  /\ dash = Ready
  /\ dirty = FALSE

-------------------------------------------------------------------------------
(* The rule store. *)

Expired(r) == r.body.temporary /\ r.id \in expired

Effective(R) == {r \in R : ~Expired(r)}

Covers(f, action) ==
  \E r \in Effective(rules) :
    r.body.action = action /\ f \in r.body.covers /\ ~r.body.malformed

Raises(f, action) ==
  \E r \in Effective(rules) :
    r.body.action = action /\ f \in r.body.covers /\ r.body.malformed

\* Mutant: allow rules are tried first.
MatchAllowFirst(f) ==
  IF Covers(f, "allow") THEN {"allow"}
  ELSE IF Covers(f, "deny") THEN {"deny"} ELSE {"none"}

\* The outcomes of match_request: all deny rules are tried before any allow
\* rule, and a regex that does not compile raises if it is reached.  The order
\* of the list is abstracted: either of two rules may be reached first.
MatchRequest(f) ==
  LET denials == {v \in {"deny", "raise"} :
                    \/ v = "deny"  /\ Covers(f, "deny")
                    \/ v = "raise" /\ Raises(f, "deny")}
      permits == {v \in {"allow", "raise"} :
                    \/ v = "allow" /\ Covers(f, "allow")
                    \/ v = "raise" /\ Raises(f, "allow")}
  IN IF denials # {} THEN denials
     ELSE IF permits # {} THEN permits
     ELSE {"none"}

AddToStore(id, body) ==
  /\ minted' = minted \cup {id}
  /\ rules' = rules \cup {[id |-> id, body |-> body]}

-------------------------------------------------------------------------------
(* mitmproxy's thread: the hooks. *)

\* request and tcp_start up to the verdict.  A rule that raises lands in the
\* except clause, which kills the flow.
Request(f) ==
  /\ hook = None
  /\ flow[f] = "idle"
  /\ f \notin Unaddressed
  /\ \E verdict \in MatchRequest(f) :
       \/ /\ verdict = "allow"
          /\ flow' = [flow EXCEPT ![f] = "passed"]
          /\ hook' = hook
       \/ /\ verdict \in {"deny", "raise"}
          /\ flow' = [flow EXCEPT ![f] = "killed"]
          /\ hook' = hook
       \/ /\ verdict = "none"
          /\ hook' = f
          /\ flow' = flow
  /\ UNCHANGED <<gone, pending, overdue, loop, rules, expired, minted, file,
                 dash, dirty>>

\* tcp_start returns before it looks at the rules when there is no address.
TcpStartUnaddressed(f) ==
  /\ hook = None
  /\ flow[f] = "idle"
  /\ f \in Unaddressed
  /\ flow' = [flow EXCEPT ![f] = "passed"]
  /\ UNCHANGED <<gone, pending, overdue, hook, loop, rules, expired, minted,
                 file, dash, dirty>>

\* The rest of the hook: intercept, time-stamp, insert under the lock.
Hold ==
  /\ hook # None
  /\ flow' = [flow EXCEPT ![hook] = "held"]
  /\ pending' = pending \cup {hook}
  /\ hook' = None
  /\ UNCHANGED <<gone, overdue, loop, rules, expired, minted, file, dash,
                 dirty>>

\* The client of a held flow hangs up; mitmproxy marks the flow as not live.
ClientHangsUp(f) ==
  /\ hook = None
  /\ flow[f] = "held"
  /\ gone' = gone \cup {f}
  /\ UNCHANGED <<flow, pending, overdue, hook, loop, rules, expired, minted,
                 file, dash, dirty>>

-------------------------------------------------------------------------------
(* mitmproxy's thread: the cleanup loop. *)

\* Mutant: the pass pops every overdue flow before it kills the first.
CleanupPopsAllFirst ==
  /\ hook = None
  /\ loop = "sleep"
  /\ \E killed \in SUBSET (overdue \ gone) :
       /\ killed # overdue => overdue \cap gone # {}
       /\ flow' = [f \in Flow |-> IF f \in killed THEN "killed" ELSE flow[f]]
  /\ pending' = pending \ overdue
  /\ overdue' = {}
  /\ UNCHANGED <<gone, hook, loop, rules, expired, minted, file, dash, dirty>>

\* Mutant: a timed-out flow is resumed instead of killed.
CleanupResumes ==
  /\ hook = None
  /\ loop = "sleep"
  /\ pending' = pending \ overdue
  /\ overdue' = {}
  /\ flow' = [f \in Flow |-> IF f \in overdue THEN "passed" ELSE flow[f]]
  /\ UNCHANGED <<gone, hook, loop, rules, expired, minted, file, dash, dirty>>

\* Mutant: a flow is popped after it is killed, so a dead one, whose kill
\* raises, stays in front of the others and ends every later pass.
CleanupKillsThenPops ==
  /\ hook = None
  /\ loop = "sleep"
  /\ overdue \cap gone = {}
  /\ pending' = pending \ overdue
  /\ overdue' = {}
  /\ flow' = [f \in Flow |-> IF f \in overdue THEN "killed" ELSE flow[f]]
  /\ loop' = (IF overdue = {} THEN "sweep" ELSE "notify")
  /\ UNCHANGED <<gone, hook, rules, expired, minted, file, dash, dirty>>

\* cleanup_timed_out, all of it under the addon's lock.  Each overdue flow is
\* popped and then killed; the first kill that raises ends the pass with its
\* flow already popped and the ones after it untouched.  The order of the dict
\* is abstracted: any set of live flows may precede the first dead one.
CleanupTimedOut ==
  /\ hook = None
  /\ loop = "sleep"
  /\ \E killed \in SUBSET (overdue \ gone), dead \in SUBSET (overdue \cap gone) :
       /\ \/ killed = overdue /\ loop' = (IF overdue = {} THEN "sweep" ELSE "notify")
          \/ (\E d \in overdue : dead = {d}) /\ loop' = "sleep"
       /\ pending' = pending \ (killed \cup dead)
       /\ overdue' = overdue \ (killed \cup dead)
       /\ flow' = [f \in Flow |-> IF f \in killed THEN "killed" ELSE flow[f]]
  /\ UNCHANGED <<gone, hook, rules, expired, minted, file, dash, dirty>>

\* The broadcasts of the pass raise (the set of clients changed under the
\* iteration): the rest of the pass is skipped.
BroadcastRaises ==
  /\ hook = None
  /\ loop = "notify"
  /\ loop' = "sleep"
  /\ UNCHANGED <<flow, gone, pending, overdue, hook, rules, expired, minted,
                 file, dash, dirty>>

\* store.cleanup_expired: memory only, rules.json is left as it is.
CleanupExpired ==
  /\ hook = None
  /\ loop \in {"notify", "sweep"}
  /\ rules' = Effective(rules)
  /\ loop' = "sleep"
  /\ UNCHANGED <<flow, gone, pending, overdue, hook, expired, minted, file,
                 dash, dirty>>

-------------------------------------------------------------------------------
(* The dashboard's thread. *)

\* Mutant: the entry is read but stays in the table until later.
ResolveReads(f, body) ==
  /\ dash.pc = "idle"
  /\ f \in pending
  /\ RuleId \ minted # {}
  /\ dash' = [Ready EXCEPT !.pc = "add", !.flow = f, !.body = body]
  /\ UNCHANGED <<flow, gone, pending, overdue, hook, loop, rules, expired,
                 minted, file, dirty>>

\* Mutant: the pop leaves the flow's timer behind.
ResolveLeavesTimer(f, body) ==
  /\ dash.pc = "idle"
  /\ f \in pending
  /\ RuleId \ minted # {}
  /\ pending' = pending \ {f}
  /\ dash' = [Ready EXCEPT !.pc = "add", !.flow = f, !.body = body]
  /\ UNCHANGED <<flow, gone, overdue, hook, loop, rules, expired, minted, file,
                 dirty>>

\* ProxyAddon.resolve, from POST /api/pending/resolve or a WebSocket message:
\* the pop under the addon's lock ...
ResolvePop(f, body) ==
  /\ dash.pc = "idle"
  /\ f \in pending
  /\ RuleId \ minted # {}              \* the bound on rules ever created
  /\ pending' = pending \ {f}
  /\ overdue' = overdue \ {f}
  /\ dash' = [Ready EXCEPT !.pc = "add", !.flow = f, !.body = body]
  /\ UNCHANGED <<flow, gone, hook, loop, rules, expired, minted, file, dirty>>

\* ... the new rule ...
ResolveAdd ==
  /\ dash.pc = "add"
  /\ \E id \in RuleId \ minted : AddToStore(id, dash.body)
  /\ dash' = [dash EXCEPT !.pc = "verdict"]
  /\ UNCHANGED <<flow, gone, pending, overdue, hook, loop, expired, file,
                 dirty>>

\* ... and the verdict on the flow itself.  A kill that raises aborts the
\* handler before its save; every action other than "deny" resumes.
ResolveVerdict ==
  /\ dash.pc = "verdict"
  /\ IF dash.body.action # "deny"
     THEN /\ flow' = [flow EXCEPT ![dash.flow] = "passed"]
          /\ dash' = [dash EXCEPT !.pc = "open"]
          /\ dirty' = dirty
     ELSE IF dash.flow \in gone
     THEN /\ dash' = Ready
          /\ dirty' = TRUE
          /\ flow' = flow
     ELSE /\ flow' = [flow EXCEPT ![dash.flow] = "killed"]
          /\ dash' = [dash EXCEPT !.pc = "open"]
          /\ dirty' = dirty
  /\ UNCHANGED <<gone, pending, overdue, hook, loop, rules, expired, minted,
                 file>>

\* POST /api/rules, with the old or the new shape.
AddRule(body) ==
  /\ dash.pc = "idle"
  /\ \E id \in RuleId \ minted : AddToStore(id, body)
  /\ dash' = [Ready EXCEPT !.pc = "open"]
  /\ UNCHANGED <<flow, gone, pending, overdue, hook, loop, expired, file,
                 dirty>>

\* Mutant: the removal is not saved.
DeleteRuleUnsaved(r) ==
  /\ dash.pc = "idle"
  /\ r \in rules
  /\ rules' = rules \ {r}
  /\ UNCHANGED <<flow, gone, pending, overdue, hook, loop, expired, minted,
                 file, dash, dirty>>

\* DELETE /api/rules/{id}
DeleteRule(r) ==
  /\ dash.pc = "idle"
  /\ r \in rules
  /\ rules' = rules \ {r}
  /\ dash' = [Ready EXCEPT !.pc = "open"]
  /\ UNCHANGED <<flow, gone, pending, overdue, hook, loop, expired, minted,
                 file, dirty>>

\* POST /api/rules/import of an edited export: replaces the whole list.
ImportRules(R) ==
  /\ dash.pc = "idle"
  /\ rules' = R
  /\ dash' = [Ready EXCEPT !.pc = "open"]
  /\ UNCHANGED <<flow, gone, pending, overdue, hook, loop, expired, minted,
                 file, dirty>>

\* _save_profile: snapshot under the store's lock, open(path, "w") truncates
\* (a file that does not parse loads as no rules) ...
SaveOpen ==
  /\ dash.pc = "open"
  /\ file' = {}
  /\ dash' = [dash EXCEPT !.pc = "write", !.snap = rules]
  /\ UNCHANGED <<flow, gone, pending, overdue, hook, loop, rules, expired,
                 minted, dirty>>

\* ... and the JSON is written outside the lock.
SaveWrite ==
  /\ dash.pc = "write"
  /\ file' = dash.snap
  /\ dash' = Ready
  /\ dirty' = FALSE
  /\ UNCHANGED <<flow, gone, pending, overdue, hook, loop, rules, expired,
                 minted>>

\* The open or the write fails: _save_profile logs it and returns.
SaveFails ==
  /\ dash.pc \in {"open", "write"}
  /\ dash' = Ready
  /\ dirty' = TRUE
  /\ UNCHANGED <<flow, gone, pending, overdue, hook, loop, rules, expired,
                 minted, file>>

-------------------------------------------------------------------------------
(* Time, and the proxy container being replaced. *)

HoldExpires(f) ==
  /\ f \in pending \ overdue
  /\ overdue' = overdue \cup {f}
  /\ UNCHANGED <<flow, gone, pending, hook, loop, rules, expired, minted,
                 file, dash, dirty>>

RuleExpires(r) ==
  /\ r \in Effective(rules)
  /\ r.body.temporary
  /\ expired' = expired \cup {r.id}
  /\ UNCHANGED <<flow, gone, pending, overdue, hook, loop, rules, minted,
                 file, dash, dirty>>

\* The container stops at any point and a new one starts on the same state
\* directory: open connections die and run_proxy loads rules.json.
Restart ==
  /\ flow' = [f \in Flow |->
                IF flow[f] = "held" \/ f = hook THEN "killed" ELSE flow[f]]
  /\ gone' = {}
  /\ pending' = {}
  /\ overdue' = {}
  /\ hook' = None
  /\ loop' = "sleep"
  /\ rules' = file
  /\ dash' = Ready
  /\ dirty' = FALSE
  /\ UNCHANGED <<expired, minted, file>>

-------------------------------------------------------------------------------

Handler ==
  ResolveAdd \/ ResolveVerdict \/ SaveOpen \/ SaveWrite \/ SaveFails

Next ==
  \/ \E f \in Flow : Request(f) \/ TcpStartUnaddressed(f) \/ ClientHangsUp(f)
  \/ Hold
  \/ CleanupTimedOut
  \/ BroadcastRaises
  \/ CleanupExpired
  \/ \E f \in Flow, body \in Body : ResolvePop(f, body)
  \/ \E body \in Body : AddRule(body)
  \/ \E r \in rules : DeleteRule(r)
  \/ \E R \in SUBSET rules : ImportRules(R)
  \/ Handler
  \/ \E f \in Flow : HoldExpires(f)
  \/ \E r \in rules : RuleExpires(r)
  \/ Restart

Spec == Init /\ [][Next]_vars

\* The threads run and time passes; nothing is assumed of clients, of the
\* operator or of crashes.
Fairness ==
  /\ WF_vars(Hold)
  /\ WF_vars(CleanupTimedOut)
  /\ WF_vars(BroadcastRaises \/ CleanupExpired)
  /\ WF_vars(Handler)
  /\ \A f \in Flow : WF_vars(HoldExpires(f))

FairSpec == Spec /\ Fairness

-------------------------------------------------------------------------------
(* Safety. *)

\* Every flow that mitmproxy holds for a client still connected is in the
\* pending table or in the hands of a handler that is about to decide it:
\* no interleaving of hook, cleanup and dashboard strands a client.
HeldIsTracked ==
  \A f \in Flow :
    flow[f] = "held" /\ f \notin gone =>
      f \in pending \/ (dash.pc \in Resolving /\ dash.flow = f)

\* The pending table lists only flows that are still undecided, and never the
\* one a handler has taken out: the operator's answer and the timeout cannot
\* both decide a flow.
OneDecider ==
  /\ \A f \in pending : flow[f] = "held"
  /\ dash.pc \in Resolving =>
       dash.flow \notin pending /\ flow[dash.flow] = "held"
  /\ hook # None => flow[hook] = "idle" /\ hook \notin pending

\* When no handler is running and the last save was not lost, the rules a
\* restart would load are the rules being enforced: cleanup_expired, which
\* rewrites only memory, a torn file and a restart included.
FileMatchesStore ==
  dash.pc = "idle" /\ ~dirty =>
    Effective(rules) = Effective(file)

\* A held flow goes through only because the operator answered that very flow
\* with something other than "deny": timeouts, errors, other flows' answers
\* and restarts fail closed.
FailsClosed ==
  [][\A f \in Flow : flow[f] = "held" /\ flow'[f] = "passed" =>
       dash.pc = "verdict" /\ dash.flow = f /\ dash.body.action # "deny"]_vars

\* A flow that passes without being held matched an allow rule in force and no
\* deny rule, whichever was added first.
DenyWins ==
  [][\A f \in Flow \ Unaddressed :
       flow[f] = "idle" /\ flow'[f] = "passed" =>
         Covers(f, "allow") /\ ~Covers(f, "deny")]_vars

\* What the addon does to each flow is what the gate promises: decided at once
\* or held and then decided, once and for all.
Gate == INSTANCE FlowGate WITH gate <- flow
ImplementsFlowGate == Gate!Spec

(* Liveness. *)

\* No client waits forever: a held flow is decided, by the operator or by a
\* cleanup pass, or its client gives up, even when kill() keeps raising for
\* other flows and broadcasts keep failing.
HeldIsDecided ==
  \A f \in Flow :
    flow[f] = "held" ~> flow[f] \in {"passed", "killed"} \/ f \in gone

===============================================================================
