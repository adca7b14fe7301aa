--------------------------- MODULE ProxyAddonProofs ---------------------------
(***************************************************************************)
(* Theorems about ProxyAddon, for every set of flows, rules and handlers'  *)
(* requests.                                                               *)
(***************************************************************************)

EXTENDS ProxyAddon, TLAPS

\* While a handler is resolving, it has a flow and a rule; once its snapshot is
\* taken, the snapshot and the store differ at most by expired rules.
HandlerInv ==
  /\ dash.pc \in Resolving => dash.flow \in Flow /\ dash.body \in Body
  /\ dash.pc = "write" => Effective(dash.snap) = Effective(rules)

\* The inductive invariant.  OneDecider alone is not inductive: that a flow is
\* still held when its handler decides it rests on HandlerInv and TypeOK.
Inv == TypeOK /\ HandlerInv /\ OneDecider /\ HeldIsTracked /\ FileMatchesStore

LEMMA InitInv == Init => Inv
<1> SUFFICES ASSUME Init PROVE Inv
  OBVIOUS
<1> USE DEF Init, Ready, Resolving
<1>1. TypeOK
  <2>1. Seed \subseteq Rule
    BY ConstantsAssumption
  <2>2. {r.id : r \in Seed} \subseteq RuleId
    BY <2>1 DEF Rule
  <2> QED
    BY <2>1, <2>2 DEF TypeOK
<1>2. HandlerInv
  BY DEF HandlerInv
<1>3. OneDecider
  BY DEF OneDecider
<1>4. HeldIsTracked
  BY DEF HeldIsTracked
<1>5. FileMatchesStore
  BY DEF FileMatchesStore
<1> QED
  BY <1>1, <1>2, <1>3, <1>4, <1>5 DEF Inv

\* Every step keeps every variable in its type.
LEMMA NextTypeOK == ASSUME TypeOK, HandlerInv, OneDecider, Next
                    PROVE  TypeOK'
<1> USE DEF TypeOK
<1>1. ASSUME NEW f \in Flow, Request(f) PROVE TypeOK'
  BY <1>1 DEF Request
<1>2. ASSUME NEW f \in Flow, TcpStartUnaddressed(f) PROVE TypeOK'
  BY <1>2 DEF TcpStartUnaddressed
<1>3. ASSUME NEW f \in Flow, ClientHangsUp(f) PROVE TypeOK'
  BY <1>3 DEF ClientHangsUp
<1>4. CASE Hold
  BY <1>4 DEF Hold
<1>5. CASE CleanupTimedOut
  BY <1>5 DEF CleanupTimedOut
<1>6. CASE BroadcastRaises
  BY <1>6 DEF BroadcastRaises
<1>7. CASE CleanupExpired
  BY <1>7 DEF CleanupExpired, Effective
<1>8. ASSUME NEW f \in Flow, NEW b \in Body, ResolvePop(f, b) PROVE TypeOK'
  BY <1>8 DEF ResolvePop, Ready, Resolving
<1>9. ASSUME NEW b \in Body, AddRule(b) PROVE TypeOK'
  BY <1>9, ConstantsAssumption DEF AddRule, AddToStore, Ready, Rule
<1>10. ASSUME NEW r \in rules, DeleteRule(r) PROVE TypeOK'
  BY <1>10 DEF DeleteRule, Ready
<1>11. ASSUME NEW R \in SUBSET rules, ImportRules(R) PROVE TypeOK'
  BY <1>11 DEF ImportRules, Ready
<1>12. CASE ResolveAdd
  <2>1. dash.body \in Body
    BY <1>12 DEF ResolveAdd, HandlerInv, Resolving
  <2> QED
    BY <1>12, <2>1, ConstantsAssumption
    DEF ResolveAdd, AddToStore, Rule, Resolving
<1>13. CASE ResolveVerdict
  <2>1. dash.flow \in Flow
    BY <1>13 DEF ResolveVerdict, HandlerInv, Resolving
  <2>2. dash' \in [pc : {"idle", "open", "write"} \cup Resolving,
                   flow : Flow \cup {None}, body : Body \cup {None},
                   snap : SUBSET Rule]
    BY <1>13 DEF ResolveVerdict, Ready
  <2>3. flow' \in [Flow -> {"idle", "held", "passed", "killed"}]
    BY <1>13, <2>1 DEF ResolveVerdict
  <2>4. dirty' \in BOOLEAN
    BY <1>13 DEF ResolveVerdict
  <2> QED
    BY <1>13, <2>2, <2>3, <2>4 DEF ResolveVerdict
<1>14. CASE SaveOpen
  BY <1>14 DEF SaveOpen
<1>15. CASE SaveWrite
  BY <1>15 DEF SaveWrite, Ready
<1>16. CASE SaveFails
  BY <1>16 DEF SaveFails, Ready
<1>17. ASSUME NEW f \in Flow, HoldExpires(f) PROVE TypeOK'
  BY <1>17 DEF HoldExpires
<1>18. ASSUME NEW r \in rules, RuleExpires(r) PROVE TypeOK'
  BY <1>18 DEF RuleExpires, Rule
<1>19. CASE Restart
  BY <1>19 DEF Restart, Ready
<1> HIDE DEF TypeOK
<1> QED
  BY <1>1, <1>2, <1>3, <1>4, <1>5, <1>6, <1>7, <1>8, <1>9, <1>10, <1>11,
     <1>12, <1>13, <1>14, <1>15, <1>16, <1>17, <1>18, <1>19
  DEF Next, Handler

\* A handler's flow, its rule and its snapshot stay good.
LEMMA NextHandlerInv == ASSUME TypeOK, HandlerInv, Next
                        PROVE  HandlerInv'
<1> USE DEF TypeOK, HandlerInv, Resolving
<1>1. ASSUME UNCHANGED <<dash, rules, expired>> PROVE HandlerInv'
  BY <1>1 DEF Effective, Expired
<1>2. ASSUME dash'.pc \in {"idle", "open"} PROVE HandlerInv'
  BY <1>2
<1>3. CASE CleanupExpired
  <2>1. /\ expired' = expired /\ dash' = dash /\ rules' = Effective(rules)
    BY <1>3 DEF CleanupExpired
  <2>2. Effective(rules)' = Effective(rules)
    BY <2>1 DEF Effective, Expired
  <2>3. Effective(dash.snap)' = Effective(dash.snap)
    BY <2>1 DEF Effective, Expired
  <2> QED
    BY <2>1, <2>2, <2>3
<1>4. ASSUME NEW f \in Flow, NEW b \in Body, ResolvePop(f, b) PROVE HandlerInv'
  BY <1>4 DEF ResolvePop, Ready
<1>5. CASE ResolveAdd
  BY <1>5 DEF ResolveAdd
<1>6. CASE ResolveVerdict
  <2>1. dash'.pc \in {"idle", "open"}
    BY <1>6 DEF ResolveVerdict, Ready
  <2> QED
    BY <2>1, <1>2
<1>7. CASE SaveOpen
  <2>1. dash'.pc = "write" /\ dash'.snap = rules /\ rules' = rules
        /\ expired' = expired
    BY <1>7 DEF SaveOpen
  <2> QED
    BY <2>1 DEF Effective, Expired
<1>8. ASSUME NEW r \in rules, RuleExpires(r) PROVE HandlerInv'
  <2>1. dash' = dash /\ rules' = rules /\ expired \subseteq expired'
    BY <1>8 DEF RuleExpires
  <2>2. CASE dash.pc = "write"
    BY <2>1, <2>2 DEF Effective, Expired
  <2> QED
    BY <2>1, <2>2
<1>9. CASE \/ \E f \in Flow : Request(f) \/ TcpStartUnaddressed(f)
                              \/ ClientHangsUp(f) \/ HoldExpires(f)
           \/ Hold \/ CleanupTimedOut \/ BroadcastRaises
  <2>1. UNCHANGED <<dash, rules, expired>>
    BY <1>9 DEF Request, TcpStartUnaddressed, ClientHangsUp, HoldExpires, Hold,
                CleanupTimedOut, BroadcastRaises
  <2> QED
    BY <2>1, <1>1
<1>10. CASE \/ \E b \in Body : AddRule(b)
            \/ \E r \in rules : DeleteRule(r)
            \/ \E R \in SUBSET rules : ImportRules(R)
            \/ SaveWrite \/ SaveFails \/ Restart
  <2>1. dash'.pc \in {"idle", "open"}
    BY <1>10 DEF AddRule, DeleteRule, ImportRules, SaveWrite, SaveFails,
                 Restart, Ready
  <2> QED
    BY <2>1, <1>2
<1> HIDE DEF HandlerInv, TypeOK
<1> QED
  BY <1>3, <1>4, <1>5, <1>6, <1>7, <1>8, <1>9, <1>10 DEF Next, Handler

\* No step gives a flow two deciders, or leaves a decided one in the table.
LEMMA NextOneDecider == ASSUME TypeOK, HandlerInv, OneDecider, Next
                        PROVE  OneDecider'
<1> USE DEF TypeOK, OneDecider, Resolving
<1>1. ASSUME NEW f \in Flow, Request(f) PROVE OneDecider'
  <2>1. flow[f] = "idle" /\ hook = None /\ f \notin pending
        /\ (dash.pc \in Resolving => dash.flow # f)
    BY <1>1 DEF Request
  <2>2. \A g \in Flow : g # f => flow'[g] = flow[g]
    BY <1>1 DEF Request
  <2>3. hook' # None => hook' = f /\ flow'[f] = "idle"
    BY <1>1 DEF Request
  <2>4. pending' = pending /\ dash' = dash
    BY <1>1 DEF Request
  <2> QED
    BY <2>1, <2>2, <2>3, <2>4 DEF HandlerInv
<1>2. ASSUME NEW f \in Flow, TcpStartUnaddressed(f) PROVE OneDecider'
  BY <1>2 DEF TcpStartUnaddressed, HandlerInv
<1>3. ASSUME NEW f \in Flow, ClientHangsUp(f) PROVE OneDecider'
  BY <1>3 DEF ClientHangsUp
<1>4. CASE Hold
  BY <1>4, ConstantsAssumption DEF Hold, HandlerInv
<1>5. CASE CleanupTimedOut
  BY <1>5 DEF CleanupTimedOut, HandlerInv
<1>6. ASSUME UNCHANGED <<flow, pending, hook>>,
             dash' = dash \/ dash'.pc \notin Resolving
      PROVE  OneDecider'
  BY <1>6
<1>7. ASSUME NEW f \in Flow, NEW b \in Body, ResolvePop(f, b) PROVE OneDecider'
  BY <1>7 DEF ResolvePop, Ready
<1>8. CASE ResolveAdd
  BY <1>8 DEF ResolveAdd
<1>9. CASE ResolveVerdict
  <2>1. dash'.pc \notin Resolving
    BY <1>9 DEF ResolveVerdict, Ready
  <2>2. \A g \in Flow : g # dash.flow => flow'[g] = flow[g]
    BY <1>9 DEF ResolveVerdict
  <2>3. hook' = hook /\ pending' = pending
    BY <1>9 DEF ResolveVerdict
  <2>4. dash.flow \notin pending /\ flow[dash.flow] = "held"
    BY <1>9 DEF ResolveVerdict
  <2> QED
    BY <2>1, <2>2, <2>3, <2>4
<1>10. CASE \/ BroadcastRaises \/ CleanupExpired
            \/ \E b \in Body : AddRule(b)
            \/ \E r \in rules : DeleteRule(r) \/ RuleExpires(r)
            \/ \E R \in SUBSET rules : ImportRules(R)
            \/ \E f \in Flow : HoldExpires(f)
            \/ SaveOpen \/ SaveWrite \/ SaveFails
  <2>1. UNCHANGED <<flow, pending, hook>>
    BY <1>10 DEF BroadcastRaises, CleanupExpired, AddRule, DeleteRule,
                 RuleExpires, ImportRules, HoldExpires, SaveOpen, SaveWrite,
                 SaveFails
  <2>2. ASSUME NEW r \in rules, RuleExpires(r) PROVE dash' = dash
    BY <2>2 DEF RuleExpires
  <2>3. CASE \/ \E b \in Body : AddRule(b)
             \/ \E r \in rules : DeleteRule(r)
             \/ \E R \in SUBSET rules : ImportRules(R)
             \/ SaveWrite \/ SaveFails
    <3>1. dash'.pc \in {"idle", "open"}
      BY <2>3 DEF AddRule, DeleteRule, ImportRules, SaveWrite, SaveFails, Ready
    <3> QED
      BY <3>1, <2>1, <1>6
  <2>5. CASE SaveOpen
    <3>1. dash'.pc = "write"
      BY <2>5 DEF SaveOpen
    <3> QED
      BY <3>1, <2>1, <1>6
  <2>4. CASE \/ BroadcastRaises \/ CleanupExpired
             \/ \E f \in Flow : HoldExpires(f)
    <3>1. dash' = dash
      BY <2>4 DEF BroadcastRaises, CleanupExpired, HoldExpires
    <3> QED
      BY <3>1, <2>1, <1>6
  <2> HIDE DEF TypeOK, OneDecider
  <2> QED
    BY <1>10, <2>1, <2>2, <2>3, <2>4, <2>5, <1>6
<1>11. CASE Restart
  BY <1>11 DEF Restart, Ready
<1> HIDE DEF TypeOK, OneDecider
<1> QED
  BY <1>1, <1>2, <1>3, <1>4, <1>5, <1>7, <1>8, <1>9, <1>10, <1>11
  DEF Next, Handler

\* No step strands a held flow whose client is still there.
LEMMA NextHeldIsTracked ==
  ASSUME TypeOK, HandlerInv, OneDecider, HeldIsTracked, Next
  PROVE  HeldIsTracked'
<1> USE DEF TypeOK, HeldIsTracked, Resolving
<1>1. ASSUME NEW f \in Flow, Request(f) PROVE HeldIsTracked'
  BY <1>1 DEF Request
<1>2. ASSUME NEW f \in Flow, TcpStartUnaddressed(f) PROVE HeldIsTracked'
  BY <1>2 DEF TcpStartUnaddressed
<1>3. ASSUME NEW f \in Flow, ClientHangsUp(f) PROVE HeldIsTracked'
  BY <1>3 DEF ClientHangsUp
<1>4. CASE Hold
  BY <1>4 DEF Hold
<1>5. CASE CleanupTimedOut
  BY <1>5 DEF CleanupTimedOut
<1>6. ASSUME UNCHANGED <<flow, gone, pending>>,
             dash' = dash \/ dash.pc \notin Resolving
      PROVE  HeldIsTracked'
  BY <1>6
<1>7. ASSUME NEW f \in Flow, NEW b \in Body, ResolvePop(f, b)
      PROVE  HeldIsTracked'
  BY <1>7 DEF ResolvePop, Ready
<1>8. CASE ResolveAdd
  BY <1>8 DEF ResolveAdd
<1>9. CASE ResolveVerdict
  BY <1>9 DEF ResolveVerdict, HandlerInv
<1>10. CASE \/ BroadcastRaises \/ CleanupExpired
            \/ \E b \in Body : AddRule(b)
            \/ \E r \in rules : DeleteRule(r) \/ RuleExpires(r)
            \/ \E R \in SUBSET rules : ImportRules(R)
            \/ \E f \in Flow : HoldExpires(f)
            \/ SaveOpen \/ SaveWrite \/ SaveFails
  <2>1. /\ UNCHANGED <<flow, gone, pending>>
        /\ dash' = dash \/ dash.pc \notin Resolving
    BY <1>10 DEF BroadcastRaises, CleanupExpired, AddRule, DeleteRule,
                 RuleExpires, ImportRules, HoldExpires, SaveOpen, SaveWrite,
                 SaveFails
  <2> QED
    BY <2>1, <1>6
<1>11. CASE Restart
  BY <1>11 DEF Restart
<1> HIDE DEF TypeOK, HeldIsTracked
<1> QED
  BY <1>1, <1>2, <1>3, <1>4, <1>5, <1>7, <1>8, <1>9, <1>10, <1>11
  DEF Next, Handler

\* No step lets the store and the file drift apart unnoticed.
LEMMA NextFileMatchesStore ==
  ASSUME TypeOK, HandlerInv, FileMatchesStore, Next
  PROVE  FileMatchesStore'
<1> USE DEF FileMatchesStore
<1>1. ASSUME UNCHANGED <<rules, file, expired, dash, dirty>>
      PROVE  FileMatchesStore'
  BY <1>1 DEF Effective, Expired
<1>2. ASSUME dash'.pc # "idle" \/ dirty' = TRUE PROVE FileMatchesStore'
  BY <1>2
<1>3. CASE CleanupExpired
  <2>1. /\ rules' = Effective(rules)
        /\ UNCHANGED <<file, expired, dash, dirty>>
    BY <1>3 DEF CleanupExpired
  <2>2. Effective(rules)' = Effective(rules) /\ Effective(file)' = Effective(file)
    BY <2>1 DEF Effective, Expired
  <2> QED
    BY <2>1, <2>2
<1>4. ASSUME NEW r \in rules, RuleExpires(r) PROVE FileMatchesStore'
  <2>1. expired \subseteq expired' /\ UNCHANGED <<rules, file, dash, dirty>>
    BY <1>4 DEF RuleExpires
  <2>2. ASSUME Effective(rules) = Effective(file)
        PROVE  Effective(rules)' = Effective(file)'
    BY <2>1, <2>2 DEF Effective, Expired
  <2> QED
    BY <2>1, <2>2
<1>5. CASE SaveWrite
  <2>1. dash.pc = "write" /\ file' = dash.snap /\ UNCHANGED <<rules, expired>>
    BY <1>5 DEF SaveWrite
  <2>2. Effective(dash.snap) = Effective(rules)
    BY <2>1 DEF HandlerInv
  <2>3. Effective(rules)' = Effective(rules)
        /\ Effective(file)' = Effective(dash.snap)
    BY <2>1 DEF Effective, Expired
  <2> QED
    BY <2>2, <2>3
<1>6. CASE Restart
  <2>1. rules' = file /\ file' = file /\ expired' = expired
    BY <1>6 DEF Restart
  <2> QED
    BY <2>1 DEF Effective, Expired
<1>7. CASE \/ \E b \in Body : AddRule(b)
           \/ \E r \in rules : DeleteRule(r)
           \/ \E R \in SUBSET rules : ImportRules(R)
           \/ \E f \in Flow, b \in Body : ResolvePop(f, b)
  <2>1. dash'.pc \in {"open", "add"}
    BY <1>7 DEF AddRule, DeleteRule, ImportRules, ResolvePop, Ready
  <2> QED
    BY <2>1, <1>2
<1>8. CASE ResolveAdd \/ SaveOpen
  <2>1. dash'.pc \in {"verdict", "write"}
    BY <1>8 DEF ResolveAdd, SaveOpen, TypeOK
  <2> QED
    BY <2>1, <1>2
<1>9. CASE ResolveVerdict \/ SaveFails
  <2>1. CASE SaveFails
    BY <2>1, <1>2 DEF SaveFails
  <2>2. CASE ResolveVerdict /\ dirty' = dirty
    <3>1. dash'.pc = "open" \/ dirty' = TRUE
      BY <2>2 DEF ResolveVerdict, TypeOK
    <3> QED
      BY <3>1, <1>2
  <2>3. CASE ResolveVerdict /\ dirty' # dirty
    <3>1. dirty' = TRUE
      BY <2>3 DEF ResolveVerdict
    <3> QED
      BY <3>1, <1>2
  <2> QED
    BY <1>9, <2>1, <2>2, <2>3
<1>10. CASE \/ \E f \in Flow : Request(f) \/ TcpStartUnaddressed(f)
                               \/ ClientHangsUp(f) \/ HoldExpires(f)
            \/ Hold \/ CleanupTimedOut \/ BroadcastRaises
  <2>1. UNCHANGED <<rules, file, expired, dash, dirty>>
    BY <1>10 DEF Request, TcpStartUnaddressed, ClientHangsUp, HoldExpires, Hold,
                 CleanupTimedOut, BroadcastRaises
  <2> QED
    BY <2>1, <1>1
<1> HIDE DEF FileMatchesStore
<1> QED
  BY <1>3, <1>4, <1>5, <1>6, <1>7, <1>8, <1>9, <1>10 DEF Next, Handler

LEMMA NextInv == Inv /\ [Next]_vars => Inv'
<1> SUFFICES ASSUME Inv, [Next]_vars PROVE Inv'
  OBVIOUS
<1>1. CASE Next
  BY <1>1, NextTypeOK, NextHandlerInv, NextOneDecider, NextHeldIsTracked,
     NextFileMatchesStore DEF Inv
<1>2. CASE UNCHANGED vars
  BY <1>2 DEF vars, Inv, TypeOK, HandlerInv, OneDecider, HeldIsTracked,
              FileMatchesStore, Effective, Expired
<1> QED
  BY <1>1, <1>2

\* Inv holds in every reachable state.
THEOREM Invariance == Spec => []Inv
<1> QED
  BY InitInv, NextInv, PTL DEF Spec

\* Every variable of the proxy keeps its type.
THEOREM TypeCorrect == Spec => []TypeOK
<1>1. Inv => TypeOK
  BY DEF Inv
<1> QED
  BY <1>1, Invariance, PTL

\* addon.py: no interleaving of the hooks, the cleanup pass and the dashboard
\* strands a connection whose client is still waiting.
THEOREM NoneStranded == Spec => []HeldIsTracked
<1>1. Inv => HeldIsTracked
  BY DEF Inv
<1> QED
  BY <1>1, Invariance, PTL

\* addon.py: the operator's answer and the timeout never both decide a
\* connection.
THEOREM DecidedByOne == Spec => []OneDecider
<1>1. Inv => OneDecider
  BY DEF Inv
<1> QED
  BY <1>1, Invariance, PTL

\* dashboard.py, rules.py: the saved rules are the enforced ones whenever no
\* handler is at work and no save was lost.
THEOREM SavedIsEnforced == Spec => []FileMatchesStore
<1>1. Inv => FileMatchesStore
  BY DEF Inv
<1> QED
  BY <1>1, Invariance, PTL

-------------------------------------------------------------------------------
(* Action properties: each follows from Inv in the state the step starts in. *)

\* The only steps that change a flow's state, and how.
LEMMA FlowSteps ==
  ASSUME Inv, [Next]_vars
  PROVE  \/ flow' = flow
         \/ \E f \in Flow : Request(f) \/ TcpStartUnaddressed(f)
         \/ Hold \/ CleanupTimedOut \/ ResolveVerdict \/ Restart
  BY DEF Next, Handler, vars, ClientHangsUp, BroadcastRaises, CleanupExpired,
         ResolvePop, AddRule, DeleteRule, ImportRules, ResolveAdd, SaveOpen,
         SaveWrite, SaveFails, HoldExpires, RuleExpires

LEMMA StepFailsClosed ==
  ASSUME Inv, [Next]_vars, NEW f \in Flow,
         flow[f] = "held", flow'[f] = "passed"
  PROVE  dash.pc = "verdict" /\ dash.flow = f /\ dash.body.action # "deny"
<1> USE DEF Inv, TypeOK
<1>1. ASSUME NEW g \in Flow, Request(g) PROVE FALSE
  BY <1>1 DEF Request
<1>2. ASSUME NEW g \in Flow, TcpStartUnaddressed(g) PROVE FALSE
  BY <1>2 DEF TcpStartUnaddressed
<1>3. CASE Hold
  BY <1>3 DEF Hold
<1>4. CASE CleanupTimedOut
  BY <1>4 DEF CleanupTimedOut
<1>5. CASE Restart
  BY <1>5 DEF Restart
<1>6. CASE ResolveVerdict
  BY <1>6 DEF ResolveVerdict
<1> HIDE DEF Inv, TypeOK
<1> QED
  BY <1>1, <1>2, <1>3, <1>4, <1>5, <1>6, FlowSteps

\* addon.py: timeouts, errors, answers for other connections and restarts never
\* let a held connection through.
THEOREM HeldFailsClosed == Spec => FailsClosed
<1>1. Inv /\ [Next]_vars =>
        [\A f \in Flow : flow[f] = "held" /\ flow'[f] = "passed" =>
           dash.pc = "verdict" /\ dash.flow = f /\ dash.body.action # "deny"]_vars
  BY StepFailsClosed
<1> QED
  BY <1>1, Invariance, PTL DEF Spec, FailsClosed

LEMMA StepDenyWins ==
  ASSUME Inv, [Next]_vars, NEW f \in Flow \ Unaddressed,
         flow[f] = "idle", flow'[f] = "passed"
  PROVE  Covers(f, "allow") /\ ~Covers(f, "deny")
<1> USE DEF Inv, TypeOK
<1>1. ASSUME NEW g \in Flow, Request(g)
      PROVE  Covers(f, "allow") /\ ~Covers(f, "deny")
  <2>1. g = f /\ "allow" \in MatchRequest(f)
    BY <1>1 DEF Request
  <2> QED
    BY <2>1 DEF MatchRequest
<1>2. ASSUME NEW g \in Flow, TcpStartUnaddressed(g) PROVE FALSE
  BY <1>2 DEF TcpStartUnaddressed
<1>3. CASE Hold
  BY <1>3 DEF Hold
<1>4. CASE CleanupTimedOut
  BY <1>4 DEF CleanupTimedOut
<1>5. CASE Restart
  BY <1>5 DEF Restart
<1>6. CASE ResolveVerdict
  <2>1. dash.flow # f
    BY <1>6 DEF ResolveVerdict, OneDecider, Resolving
  <2> QED
    BY <1>6, <2>1 DEF ResolveVerdict
<1> HIDE DEF Inv, TypeOK
<1> QED
  BY <1>1, <1>2, <1>3, <1>4, <1>5, <1>6, FlowSteps

\* rules.py match_request: a connection let through at once matched an allow
\* rule in force and no deny rule.
THEOREM DenyTakesPrecedence == Spec => DenyWins
<1>1. Inv /\ [Next]_vars =>
        [\A f \in Flow \ Unaddressed : flow[f] = "idle" /\ flow'[f] = "passed" =>
           Covers(f, "allow") /\ ~Covers(f, "deny")]_vars
  BY StepDenyWins
<1> QED
  BY <1>1, Invariance, PTL DEF Spec, DenyWins

-------------------------------------------------------------------------------
(* The addon implements the gate. *)

LEMMA StepGate == Inv /\ [Next]_vars => [Gate!Next]_flow
<1> SUFFICES ASSUME Inv, [Next]_vars PROVE Gate!Next \/ flow' = flow
  OBVIOUS
<1>0. flow \in [Flow -> {"idle", "held", "passed", "killed"}]
  BY DEF Inv, TypeOK
<1>1. ASSUME NEW F \in SUBSET Flow, NEW v \in {"passed", "killed"},
             \A f \in F : flow[f] \in {"idle", "held"},
             flow' = [f \in Flow |-> IF f \in F THEN v ELSE flow[f]]
      PROVE  Gate!Next
  <2>1. Gate!Settle(F, v)
    BY <1>1 DEF Gate!Settle, Gate!Verdict
  <2> QED
    BY <2>1, <1>1 DEF Gate!Next, Gate!Verdict
<1>2. ASSUME NEW f \in Flow, NEW v \in {"passed", "killed"},
             flow[f] \in {"idle", "held"}, flow' = [flow EXCEPT ![f] = v]
      PROVE  Gate!Next
  <2>1. flow' = [g \in Flow |-> IF g \in {f} THEN v ELSE flow[g]]
    BY <1>0, <1>2
  <2> QED
    BY <2>1, <1>1, <1>2
<1>3. ASSUME NEW f \in Flow, Request(f) PROVE Gate!Next \/ flow' = flow
  <2>1. /\ flow[f] = "idle"
        /\ \/ flow' = flow
           \/ flow' = [flow EXCEPT ![f] = "passed"]
           \/ flow' = [flow EXCEPT ![f] = "killed"]
    BY <1>3 DEF Request
  <2> QED
    BY <2>1, <1>2
<1>4. ASSUME NEW f \in Flow, TcpStartUnaddressed(f) PROVE Gate!Next
  BY <1>4, <1>2 DEF TcpStartUnaddressed
<1>5. CASE Hold
  <2>1. hook \in Flow /\ flow[hook] = "idle"
    BY <1>5 DEF Hold, Inv, OneDecider, TypeOK
  <2>2. Gate!Hold(hook)
    BY <1>5, <2>1 DEF Hold, Gate!Hold
  <2> QED
    BY <2>1, <2>2 DEF Gate!Next
<1>6. CASE CleanupTimedOut
  <2>1. PICK killed \in SUBSET (overdue \ gone) :
          flow' = [f \in Flow |-> IF f \in killed THEN "killed" ELSE flow[f]]
    BY <1>6 DEF CleanupTimedOut
  <2>2. killed \in SUBSET Flow /\ \A f \in killed : flow[f] = "held"
    BY <2>1 DEF Inv, TypeOK, OneDecider
  <2> QED
    BY <2>1, <2>2, <1>1
<1>7. CASE ResolveVerdict
  <2>1. dash.flow \in Flow /\ flow[dash.flow] = "held"
    BY <1>7 DEF ResolveVerdict, Inv, HandlerInv, OneDecider, Resolving
  <2>2. \/ flow' = flow
        \/ flow' = [flow EXCEPT ![dash.flow] = "passed"]
        \/ flow' = [flow EXCEPT ![dash.flow] = "killed"]
    BY <1>7 DEF ResolveVerdict
  <2> QED
    BY <2>1, <2>2, <1>2
<1>8. CASE Restart
  <2> DEFINE F == {f \in Flow : flow[f] = "held" \/ f = hook}
  <2>1. \A f \in F : flow[f] \in {"idle", "held"}
    BY ConstantsAssumption DEF Inv, OneDecider
  <2>2. flow' = [f \in Flow |-> IF f \in F THEN "killed" ELSE flow[f]]
    BY <1>8 DEF Restart
  <2> QED
    BY <2>1, <2>2, <1>1
<1> QED
  BY <1>3, <1>4, <1>5, <1>6, <1>7, <1>8, FlowSteps

\* addon.py implements FlowGate: a connection is decided at once, or held and
\* then decided, and a decision is final.
THEOREM Refinement == Spec => ImplementsFlowGate
<1>1. Init => Gate!Init
  BY DEF Init, Gate!Init
<1> QED
  BY <1>1, StepGate, Invariance, PTL DEF Spec, ImplementsFlowGate, Gate!Spec

===============================================================================
