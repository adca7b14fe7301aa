---------------------------- MODULE SessionProofs ----------------------------
(***************************************************************************)
(* Theorems about SessionStore and SessionLifecycle: the file of recorded  *)
(* sessions, for every set of names and invocations and every number of    *)
(* saves, and the commands that create, attach, stop, remove and collect   *)
(* one session, for every set of invocations and commands and every bound. *)
(***************************************************************************)
EXTENDS SessionStore, SessionLifecycle, SequenceTheorems, TLAPS

\* Before the first save no name has a record.
NothingYet ==
  file.form = "absent" =>
    \A n \in Name : file.record[n] = 0 /\ want[n] = 0

\* An invocation that holds the list has every bystander's record right: nobody
\* else's update can have happened since it read the file.
HoldersKnowBystanders ==
  \A p \in InFlight : \A n \in Name \ contested :
    n # job[p].name => job[p].all[n] = want[n]

\* The inductive invariant.  BystandersKept alone is not inductive: what a write
\* leaves in the file is what its process read, however long ago.
StoreInv == StoreTypeOK /\ NothingYet /\ HoldersKnowBystanders /\ BystandersKept

LEMMA StoreInitInv == StoreInit => StoreInv
<1> SUFFICES ASSUME StoreInit PROVE StoreInv
  OBVIOUS
<1> USE StoreAssumption DEF StoreInit, NoJob
<1>1. StoreTypeOK
  BY DEF StoreTypeOK, Record
<1>2. NothingYet /\ BystandersKept
  BY DEF NothingYet, BystandersKept
<1>3. HoldersKnowBystanders
  BY DEF HoldersKnowBystanders, InFlight
<1> QED
  BY <1>1, <1>2, <1>3 DEF StoreInv

\* What an edit makes of the list a process read.
LEMMA EditedIsHeld ==
  ASSUME StoreTypeOK, NEW p \in Proc, job[p].pc = "begun"
  PROVE  Edited(p) \in Held /\ Edited(p).pc = "edited"
<1>1. job[p] \in Begun
  BY DEF StoreTypeOK, NoJob, Begun, Held
<1> QED
  BY <1>1 DEF Edited, StoreTypeOK, Begun, Held

\* Every step keeps every variable in its type.
LEMMA StoreStepTyped == ASSUME StoreTypeOK, StoreNext PROVE StoreTypeOK'
<1> USE StoreAssumption DEF StoreTypeOK, Record
<1>1. ASSUME NEW p \in Proc, NEW n \in Name, BeginSave(p, n) PROVE StoreTypeOK'
  BY <1>1 DEF BeginSave, Begun
<1>2. ASSUME NEW p \in Proc, NEW n \in Name, BeginResume(p, n) PROVE StoreTypeOK'
  BY <1>1, <1>2 DEF BeginResume
<1>3. ASSUME NEW p \in Proc, NEW n \in Name, BeginDelete(p, n) PROVE StoreTypeOK'
  BY <1>3 DEF BeginDelete, Begun
<1>4. ASSUME NEW p \in Proc, Load(p) PROVE StoreTypeOK'
  BY <1>4, EditedIsHeld DEF Load
<1>5. ASSUME NEW p \in Proc, LoadFails(p) PROVE StoreTypeOK'
  BY <1>5 DEF LoadFails
<1>6. ASSUME NEW p \in Proc, Empty(p) PROVE StoreTypeOK'
  <2>1. job[p] \in Held
    BY <1>6 DEF Empty, NoJob, Begun, Held
  <2>2. [job[p] EXCEPT !.pc = "emptied"] \in Held
    BY <2>1 DEF Held
  <2>3. job' \in [Proc -> {NoJob} \cup Begun \cup Held]
    BY <1>6, <2>2 DEF Empty
  <2> QED
    BY <1>6, <2>3 DEF Empty
<1>7. ASSUME NEW p \in Proc, Write(p) PROVE StoreTypeOK'
  <2>1. job[p].name \in Name /\ job[p].all \in [Name -> Record]
    BY <1>7 DEF Write, NoJob, Begun, Held
  <2>2. Outcome(job[p].all) \subseteq {"good", "torn"}
    BY DEF Outcome
  <2>3. file'.form \in {"good", "torn"} /\ file'.record = job[p].all
    BY <1>7, <2>2 DEF Write
  <2>4. want' \in [Name -> Record] /\ contested' \subseteq Name
    BY <1>7, <2>1 DEF Write
  <2>5. job' \in [Proc -> {NoJob} \cup Begun \cup Held]
    BY <1>7 DEF Write
  <2> QED
    BY <1>7, <2>1, <2>3, <2>4, <2>5 DEF Write
<1>8. ASSUME NEW p \in Proc, JobKilled(p) PROVE StoreTypeOK'
  BY <1>8 DEF JobKilled
<1> HIDE DEF StoreTypeOK
<1> QED
  BY <1>1, <1>2, <1>3, <1>4, <1>5, <1>6, <1>7, <1>8 DEF StoreNext

\* A step that leaves the file and the history alone, and in which nobody comes
\* to hold a list or changes the one it holds, preserves the rest.
LEMMA QuietStep ==
  ASSUME NothingYet, HoldersKnowBystanders, BystandersKept,
         UNCHANGED <<file, want, contested>>,
         \A q \in Proc : q \in InFlight' => q \in InFlight /\ job'[q] = job[q]
  PROVE  NothingYet' /\ HoldersKnowBystanders' /\ BystandersKept'
<1>1. NothingYet' /\ BystandersKept'
  BY DEF NothingYet, BystandersKept
<1>2. HoldersKnowBystanders'
  BY DEF HoldersKnowBystanders, InFlight
<1> QED
  BY <1>1, <1>2

\* The records of the bystanders survive every step.
LEMMA StoreStepInv == ASSUME StoreInv, StoreNext PROVE StoreInv'
<1> USE DEF StoreInv
<1>1. StoreTypeOK'
  BY StoreStepTyped
<1> DEFINE Others == NothingYet' /\ HoldersKnowBystanders' /\ BystandersKept'
<1>2. ASSUME NEW p \in Proc, NEW n \in Name, BeginSave(p, n) PROVE Others
  BY <1>2, QuietStep DEF BeginSave, InFlight, StoreTypeOK
<1>3. ASSUME NEW p \in Proc, NEW n \in Name, BeginResume(p, n) PROVE Others
  BY <1>2, <1>3 DEF BeginResume
<1>4. ASSUME NEW p \in Proc, NEW n \in Name, BeginDelete(p, n) PROVE Others
  BY <1>4, QuietStep DEF BeginDelete, InFlight, StoreTypeOK
<1>5. ASSUME NEW p \in Proc, LoadFails(p) PROVE Others
  BY <1>5, QuietStep DEF LoadFails, NoJob, InFlight, StoreTypeOK
<1>6. ASSUME NEW p \in Proc, JobKilled(p) PROVE Others
  BY <1>6, QuietStep DEF JobKilled, NoJob, InFlight, StoreTypeOK
<1>7. ASSUME NEW p \in Proc, Load(p) PROVE Others
  <2>1. \A n \in Name \ contested : file.record[n] = want[n]
    BY <1>7 DEF Load, Readable, NothingYet, BystandersKept
  <2>2. \A n \in Name : n # job'[p].name => job'[p].all[n] = file.record[n]
    BY <1>7 DEF Load, Edited, StoreTypeOK
  <2>3. \A q \in InFlight' : q = p \/ (q \in InFlight /\ job'[q] = job[q])
    BY <1>7 DEF Load, InFlight, StoreTypeOK
  <2>4. HoldersKnowBystanders'
    BY <1>7, <2>1, <2>2, <2>3 DEF Load, HoldersKnowBystanders, InFlight
  <2> QED
    BY <1>7, <2>4 DEF Load, NothingYet, BystandersKept
<1>8. ASSUME NEW p \in Proc, Empty(p) PROVE Others
  <2>1. p \in InFlight /\ job'[p].name = job[p].name /\ job'[p].all = job[p].all
    BY <1>8 DEF Empty, InFlight, StoreTypeOK, NoJob, Begun, Held
  <2>2. \A q \in InFlight' : q = p \/ (q \in InFlight /\ job'[q] = job[q])
    BY <1>8 DEF Empty, InFlight, StoreTypeOK
  <2>3. HoldersKnowBystanders'
    BY <1>8, <2>1, <2>2 DEF Empty, HoldersKnowBystanders, InFlight
  <2> QED
    BY <1>8, <2>3 DEF Empty, NothingYet, BystandersKept
<1>9. ASSUME NEW p \in Proc, Write(p) PROVE Others
  <2> DEFINE name == job[p].name
             all == job[p].all
  <2>1. p \in InFlight /\ name \in Name /\ all \in [Name -> Record]
    BY <1>9 DEF Write, InFlight, StoreTypeOK, NoJob, Begun, Held
  <2>2. file'.record = all /\ file'.form \in {"good", "torn"}
    BY <1>9 DEF Write, Outcome
  <2>3. want'[name] = all[name] /\ \A n \in Name : n # name => want'[n] = want[n]
    BY <1>9, <2>1 DEF Write, StoreTypeOK
  <2>4. \A n \in Name \ contested' : n = name \/ n \notin contested
    BY <1>9 DEF Write
  <2>5. BystandersKept'
    BY <2>1, <2>2, <2>3, <2>4 DEF BystandersKept, HoldersKnowBystanders
  <2>6. \A q \in InFlight' : q # p /\ q \in InFlight /\ job'[q] = job[q]
    BY <1>9 DEF Write, InFlight, StoreTypeOK, NoJob
  <2>7. \A q \in InFlight' : name \in contested'
    BY <1>9, <2>1, <2>6 DEF Write
  <2>8. HoldersKnowBystanders'
    BY <2>1, <2>3, <2>4, <2>6, <2>7 DEF HoldersKnowBystanders
  <2> QED
    BY <2>2, <2>5, <2>8 DEF NothingYet
<1> QED
  BY <1>1, <1>2, <1>3, <1>4, <1>5, <1>6, <1>7, <1>8, <1>9 DEF StoreNext

LEMMA StoreStutterInv == ASSUME StoreInv, UNCHANGED storeVars PROVE StoreInv'
<1> USE DEF StoreInv, storeVars
<1>1. StoreTypeOK'
  BY DEF StoreTypeOK
<1>2. NothingYet' /\ BystandersKept'
  BY DEF NothingYet, BystandersKept
<1>3. HoldersKnowBystanders'
  BY DEF HoldersKnowBystanders, InFlight
<1> QED
  BY <1>1, <1>2, <1>3

\* The invariant holds in every behaviour.
THEOREM StoreInvariance == StoreSpec => []StoreInv
<1>1. StoreInv /\ [StoreNext]_storeVars => StoreInv'
  BY StoreStepInv, StoreStutterInv
<1> QED
  BY StoreInitInv, <1>1, PTL DEF StoreSpec

\* Every variable keeps its type, whatever processes leave of the file: in
\* particular each holder of a list holds a record, or none, for every name.
THEOREM StoreTypeCorrect == StoreSpec => []StoreTypeOK
<1>1. StoreInv => StoreTypeOK
  BY DEF StoreInv
<1> QED
  BY StoreInvariance, <1>1, PTL

\* Store.Save and Store.Delete (config.go:329-415), however many processes run
\* them at once: whenever the file parses, a session whose own last update nobody
\* overlapped has the record it was given.
THEOREM OthersAreKept == StoreSpec => []BystandersKept
<1>1. StoreInv => BystandersKept
  BY DEF StoreInv
<1> QED
  BY StoreInvariance, <1>1, PTL

-------------------------------------------------------------------------------
(***************************************************************************)
(* SessionLifecycle.                                                       *)
(*                                                                         *)
(* What a step does depends on the steps that are left, so the invariant   *)
(* speaks of the set of these; Fine says what may be left behind a step.   *)
(***************************************************************************)
ListedSteps ==
  {"CheckName", "Seed", "Claim", "KillProxy", "EnsureProxy", "StartProxy", "AwaitReady",
   "AwaitToken", "StartBox", "Save", "Lookup", "EnsureBox", "TuiBox", "TuiProxy", "TuiRun",
   "Session", "ReadResume", "SaveResume", "Read", "StopRunning", "StopBox", "RmBox",
   "StopProxy", "RmState", "Release", "Delete", "RmBranch", "Collect", "Reap", "ReapRecord"}

\* The steps that a command no longer has before it once its rollback has work to do.
Early == {"CheckName", "Seed", "Claim", "EnsureBox", "TuiBox", "TuiRun", "StopRunning"}

\* A command may come to step a when the set of steps still behind it is later.
Fine(a, later) ==
  /\ a \in ListedSteps
  /\ "SaveResume" \notin later
  /\ "KillProxy" \in later => a \in {"CheckName", "Seed", "Claim"}
  /\ "Save" \in later => a = "StartBox" \/ "StartBox" \in later
  /\ "Release" \in later => a \in {"StopBox", "RmBox", "StopProxy", "RmState"}
  /\ a \in {"EnsureProxy", "StartProxy", "AwaitReady"} =>
       "StartBox" \in later \/ "EnsureBox" \in later
  /\ a \in {"KillProxy", "AwaitToken"} => "StartBox" \in later /\ "CheckName" \notin later
  /\ a \in {"Claim", "AwaitToken"} => later \cap Early = {}
  /\ a = "StartBox" => later = {"Save", "Session"}
  /\ a \in {"Save", "EnsureBox", "TuiBox", "TuiRun"} => later = {"Session"}
  /\ a \in {"Session", "ReadResume", "SaveResume", "Collect", "Reap", "ReapRecord"} => later = {}
  /\ a = "RmBox" => /\ later \cap {"StartBox", "Session"} = {}
                    /\ "StopBox" \in later => "RmBox" \in later
  /\ a = "StopProxy" => /\ later \cap {"RmBox", "StopRunning"} = {}
                        /\ "Delete" \in later => "Release" \in later
  /\ a = "Release" => later \cap {"RmBox", "StopProxy", "StartBox"} = {}

\* Every step of list q is fine, when the steps of after follow the list.
Sound(q, after) ==
  /\ q \in Seq(ListedSteps)
  /\ \A i \in 1..Len(q) : Fine(q[i], {q[j] : j \in (i + 1)..Len(q)} \cup after)

Recorded == [found : BOOLEAN, auto : BOOLEAN, wt : BOOLEAN]
Things == {"range", "proxy", "box"}
Outs == {"ok", "failed", "killed", "background", "detach", "quit", "exit"}
Invocation ==
  [cmd : (DOMAIN Program) \cup {"none"}, auto : BOOLEAN, wt : BOOLEAN, todo : Seq(ListedSteps),
   mine : SUBSET Things, missed : SUBSET ListedSteps,
   seen : Recorded, out : Outs]
Box == [st : {"none", "running", "stopped"}, net : Nat, lost : BOOLEAN, harmed : BOOLEAN,
        at : {"none", "tree", "repo"}]
Docker == [box : Box, proxy : Nat, ports : BOOLEAN, minted : 0..MaxProxies]
Disk == [state : {"none", "seed", "user"}, range : BOOLEAN, record : Recorded, branch : BOOLEAN]

\* The types of all variables, and the order of the steps that are left; an
\* invocation that never began has nothing to do and owns nothing, and one that
\* launches has no box of an earlier launch to restart.
DockerTyped(d) ==
  /\ d \in Docker /\ d.proxy <= d.minted /\ d.box.net <= d.minted
  /\ d.box.st = "none" <=> d.box.net = 0

ProcTyped(ps) ==
  /\ ps \in [Procs -> Invocation]
  /\ \A p \in Procs : /\ Sound(ps[p].todo, {}) /\ (ps[p].cmd = "none" => ps[p] = Idle)
                      /\ "EnsureBox" \in Range(ps[p].todo) => ps[p].cmd \notin Launchers

Typed == DockerTyped(docker) /\ disk \in Disk /\ ProcTyped(proc)

-------------------------------------------------------------------------------

\* Nothing that is recorded runs, or could be started again; or its box is known to
\* be one that a teardown failed on or that a launch came upon.
Free(d, k) == ~k.record.found \/ d.box.st = "none" \/ d.box.harmed

\* A box that runs is in the namespace of the live proxy, or it is known why not.
Gated(d) == d.box.st = "running" => d.box.net = d.proxy \/ d.box.lost \/ d.box.harmed

World(d, k) ==
  /\ k.record.found => Gated(d)
  /\ k.record.found /\ d.box.st # "none" /\ d.box.at # "none" => k.range \/ d.box.harmed

\* The cleanup closure as far as it has come: what it no longer has to undo is undone,
\* or the step for it was passed over.
CleanedSoFar(d, k, missed, left) ==
  /\ left \subseteq {"StopBox", "RmBox", "StopProxy", "RmState", "Release", "Delete",
                     "ReadResume", "SaveResume"}
  /\ "StopBox" \notin left => d.box.st # "running" \/ "StopBox" \in missed
  /\ "RmBox" \notin left => d.box.st = "none" \/ "RmBox" \in missed
  /\ "StopProxy" \notin left => d.proxy = 0 \/ "StopProxy" \in missed
  /\ "RmState" \notin left => k.state = "none" \/ "RmState" \in missed
  /\ "Release" \notin left => ~k.range \/ "Release" \in missed
  /\ "Delete" \notin left => ~k.record.found \/ "Delete" \in missed

\* What the world is like for an invocation that is alone and has the steps left
\* before it: from the stop of the old proxy until it has started its box a launch has
\* no recorded box before it but a harmed one, and the range its own from the claim on;
\* a rollback gives the range back when the box is gone or harmed; nothing else that is
\* recorded and runs loses its proxy.
Right(d, k, me, missed, left) ==
  /\ "StartBox" \in left /\ "KillProxy" \notin left => Free(d, k)
  /\ "StartBox" \in left /\ "Claim" \notin left => "range" \in me.mine /\ k.range
  /\ "Save" \in left /\ "StartBox" \notin left => {"range", "box"} \subseteq me.mine /\ k.range /\ Gated(d)
  /\ me.mine # {} => "range" \in me.mine /\ left \cap Early = {}
  /\ "Release" \in left /\ "RmBox" \in left => "StopBox" \in left \/ d.box.st # "running" \/ d.box.harmed
  /\ "Release" \in left /\ "RmBox" \notin left => Free(d, k)
  /\ "StopProxy" \in left => \/ left \cap {"Release", "StopRunning", "Delete"} # {}
                             \/ ~k.record.found \/ d.box.st # "running" \/ d.box.harmed
  /\ "SaveResume" \in left => k.record.found /\ me.seen = k.record
  /\ me.cmd \in Launchers /\ me.auto /\ me.out \in {"detach", "quit", "exit"} =>
       CleanedSoFar(d, k, missed, left)

\* The invariant of a name that one invocation after the other works on.
OneAtATime ==
  Alone => /\ World(docker, disk)
           /\ \A p \in Procs : Right(docker, disk, proc[p], proc[p].missed, Range(proc[p].todo))

\* Nothing left.
LEMMA SoundNil == ASSUME NEW after PROVE Sound(<<>>, after) /\ Range(<<>>) = {}
  BY EmptySeq DEF Sound, Range

\* A list that is sound loses its first step and stays so.
LEMMA SoundTail ==
  ASSUME NEW q, Sound(q, {}), q # <<>>
  PROVE  /\ Sound(Tail(q), {}) /\ Tail(q) \in Seq(ListedSteps)
         /\ Head(q) \in ListedSteps /\ Fine(Head(q), Range(Tail(q)))
         /\ Range(q) = {Head(q)} \cup Range(Tail(q))
<1> DEFINE t == Tail(q)
<1>1. q \in Seq(ListedSteps) /\ \A i \in 1..Len(q) : Fine(q[i], {q[j] : j \in (i + 1)..Len(q)} \cup {})
  BY DEF Sound
<1>2. /\ Len(q) \in Nat /\ Len(q) >= 1 /\ Head(q) = q[1] /\ Head(q) \in ListedSteps
      /\ t \in Seq(ListedSteps) /\ Len(t) = Len(q) - 1 /\ \A i \in 1..Len(t) : t[i] = q[i + 1]
  BY <1>1
<1> HIDE DEF t
<1>3. DOMAIN q = 1..Len(q) /\ DOMAIN t = 1..Len(t)
  BY <1>1, <1>2
<1>4. Range(t) = {q[j] : j \in 2..Len(q)}
  <2>1. ASSUME NEW j \in 2..Len(q) PROVE j - 1 \in 1..Len(t) /\ t[j - 1] = q[j]
    BY <1>2
  <2> QED
    BY <2>1, <1>2, <1>3, SMTT(30) DEF Range
<1>5. Range(q) = {Head(q)} \cup Range(t)
  <2>1. ASSUME NEW j \in 1..Len(q) PROVE q[j] \in {Head(q)} \cup Range(t)
    BY <1>2, <1>4
  <2>2. ASSUME NEW x \in Range(t) PROVE \E j \in 1..Len(q) : q[j] = x
    BY <1>2, <1>4
  <2>3. Range(q) = {q[j] : j \in 1..Len(q)} /\ Head(q) = q[1] /\ 1 \in 1..Len(q)
    BY <1>2, <1>3 DEF Range
  <2> QED
    BY <2>1, <2>2, <2>3
<1>6. Fine(Head(q), Range(t))
  <2>1. 1 \in 1..Len(q)
    BY <1>2
  <2>2. Fine(q[1], {q[j] : j \in (1 + 1)..Len(q)} \cup {})
    BY <1>1, <2>1
  <2>3. 1 + 1 = 2 /\ {q[j] : j \in 2..Len(q)} \cup {} = Range(t)
    BY <1>4
  <2> QED
    BY <2>2, <2>3, <1>2
<1>7. ASSUME NEW i \in 1..Len(t) PROVE Fine(t[i], {t[j] : j \in (i + 1)..Len(t)} \cup {})
  <2>1. i + 1 \in 1..Len(q) /\ t[i] = q[i + 1]
    BY <1>2
  <2>2. {t[j] : j \in (i + 1)..Len(t)} = {q[j] : j \in ((i + 1) + 1)..Len(q)}
    <3>1. ASSUME NEW j \in ((i + 1) + 1)..Len(q) PROVE j - 1 \in (i + 1)..Len(t) /\ t[j - 1] = q[j]
      BY <1>2
    <3>2. ASSUME NEW j \in (i + 1)..Len(t) PROVE j + 1 \in ((i + 1) + 1)..Len(q) /\ t[j] = q[j + 1]
      BY <1>2
    <3>3. ASSUME NEW x \in {t[j] : j \in (i + 1)..Len(t)}
          PROVE x \in {q[j] : j \in ((i + 1) + 1)..Len(q)}
      BY <3>2
    <3>4. ASSUME NEW x \in {q[j] : j \in ((i + 1) + 1)..Len(q)}
          PROVE x \in {t[j] : j \in (i + 1)..Len(t)}
      BY <3>1
    <3> QED
      BY <3>3, <3>4
  <2>3. Fine(q[i + 1], {q[j] : j \in ((i + 1) + 1)..Len(q)} \cup {})
    BY <1>1, <2>1
  <2> QED
    BY <2>1, <2>2, <2>3
<1>8. Sound(t, {})
  BY <1>2, <1>7 DEF Sound
<1> QED
  BY <1>2, <1>5, <1>6, <1>8 DEF t

\* Of two lists, one behind the other.
LEMMA SoundConcat ==
  ASSUME NEW q, NEW r, NEW after, Sound(q, Range(r) \cup after), Sound(r, after)
  PROVE  Sound(q \o r, after) /\ Range(q \o r) = Range(q) \cup Range(r)
<1> DEFINE s == q \o r
<1>1. q \in Seq(ListedSteps) /\ r \in Seq(ListedSteps)
  BY DEF Sound
<1>2. /\ s \in Seq(ListedSteps) /\ Len(s) = Len(q) + Len(r) /\ Len(q) \in Nat /\ Len(r) \in Nat
      /\ \A i \in 1..Len(q) : s[i] = q[i]
      /\ \A i \in 1..Len(r) : s[Len(q) + i] = r[i]
  BY <1>1
<1> HIDE DEF s
<1>3. DOMAIN q = 1..Len(q) /\ DOMAIN r = 1..Len(r) /\ DOMAIN s = 1..Len(s)
  BY <1>1, <1>2
<1>4. ASSUME NEW i \in (Len(q) + 1)..Len(s) PROVE i - Len(q) \in 1..Len(r) /\ s[i] = r[i - Len(q)]
  <2>1. i - Len(q) \in 1..Len(r) /\ Len(q) + (i - Len(q)) = i
    BY <1>2
  <2> QED
    BY <2>1, <1>2
<1>5. Range(s) = Range(q) \cup Range(r)
  <2>1. ASSUME NEW x \in Range(s) PROVE x \in Range(q) \cup Range(r)
    <3>1. PICK i \in 1..Len(s) : x = s[i]
      BY <1>3 DEF Range
    <3>2. CASE i <= Len(q)
      BY <3>1, <3>2, <1>2, <1>3 DEF Range
    <3>3. CASE ~(i <= Len(q))
      <4>1. i \in (Len(q) + 1)..Len(s)
        BY <3>1, <3>3, <1>2
      <4>2. i - Len(q) \in DOMAIN r /\ x = r[i - Len(q)]
        BY <3>1, <4>1, <1>3, <1>4
      <4> QED
        BY <4>2 DEF Range
    <3> QED
      BY <3>2, <3>3
  <2>2. ASSUME NEW x \in Range(q) PROVE x \in Range(s)
    BY <1>2, <1>3 DEF Range
  <2>3. ASSUME NEW x \in Range(r) PROVE x \in Range(s)
    <3>1. PICK i \in 1..Len(r) : x = r[i]
      BY <1>3 DEF Range
    <3>2. Len(q) + i \in 1..Len(s)
      BY <1>2
    <3> QED
      BY <3>1, <3>2, <1>2, <1>3 DEF Range
  <2> QED
    BY <2>1, <2>2, <2>3
<1>6. ASSUME NEW i \in 1..Len(s) PROVE Fine(s[i], {s[j] : j \in (i + 1)..Len(s)} \cup after)
  <2>1. CASE i <= Len(q)
    <3>1. i \in 1..Len(q) /\ s[i] = q[i]
      BY <2>1, <1>2
    <3>2. {s[j] : j \in (i + 1)..Len(s)} = {q[j] : j \in (i + 1)..Len(q)} \cup Range(r)
      <4>1. ASSUME NEW j \in (i + 1)..Len(s)
            PROVE s[j] \in {q[k] : k \in (i + 1)..Len(q)} \cup Range(r)
        <5>1. CASE j <= Len(q)
          BY <5>1, <3>1, <1>2
        <5>2. CASE ~(j <= Len(q))
          <6>1. j \in (Len(q) + 1)..Len(s)
            BY <5>2, <1>2, <3>1
          <6>2. j - Len(q) \in DOMAIN r /\ s[j] = r[j - Len(q)]
            BY <6>1, <1>3, <1>4
          <6> QED
            BY <6>2 DEF Range
        <5> QED
          BY <5>1, <5>2
      <4>2. ASSUME NEW j \in (i + 1)..Len(q) PROVE j \in (i + 1)..Len(s) /\ s[j] = q[j]
        BY <1>2, <3>1
      <4>3. ASSUME NEW x \in Range(r) PROVE \E j \in (i + 1)..Len(s) : s[j] = x
        <5>1. PICK m \in 1..Len(r) : x = r[m]
          BY <1>3 DEF Range
        <5>2. Len(q) + m \in (i + 1)..Len(s)
          BY <1>2, <3>1
        <5> QED
          BY <5>1, <5>2, <1>2
      <4> QED
        BY <4>1, <4>2, <4>3
    <3>3. Fine(q[i], {q[j] : j \in (i + 1)..Len(q)} \cup (Range(r) \cup after))
      BY <3>1 DEF Sound
    <3>4. {s[j] : j \in (i + 1)..Len(s)} \cup after
            = {q[j] : j \in (i + 1)..Len(q)} \cup (Range(r) \cup after)
      BY <3>2
    <3> QED
      BY <3>1, <3>3, <3>4
  <2>2. CASE ~(i <= Len(q))
    <3> DEFINE m == i - Len(q)
    <3>1. m \in 1..Len(r) /\ s[i] = r[m]
      BY <2>2, <1>2, <1>4
    <3>2. {s[j] : j \in (i + 1)..Len(s)} = {r[j] : j \in (m + 1)..Len(r)}
      <4>1. ASSUME NEW j \in (i + 1)..Len(s)
            PROVE j - Len(q) \in (m + 1)..Len(r) /\ s[j] = r[j - Len(q)]
        BY <1>2, <1>4, <2>2
      <4>2. ASSUME NEW j \in (m + 1)..Len(r)
            PROVE Len(q) + j \in (i + 1)..Len(s) /\ s[Len(q) + j] = r[j]
        BY <1>2, <3>1
      <4>3. ASSUME NEW x \in {s[j] : j \in (i + 1)..Len(s)}
            PROVE x \in {r[j] : j \in (m + 1)..Len(r)}
        BY <4>1
      <4>4. ASSUME NEW x \in {r[j] : j \in (m + 1)..Len(r)}
            PROVE x \in {s[j] : j \in (i + 1)..Len(s)}
        BY <4>2
      <4> QED
        BY <4>3, <4>4
    <3>3. Fine(r[m], {r[j] : j \in (m + 1)..Len(r)} \cup after)
      BY <3>1 DEF Sound
    <3> QED
      BY <3>1, <3>2, <3>3
  <2> QED
    BY <2>1, <2>2
<1>7. Sound(s, after)
  BY <1>2, <1>6 DEF Sound
<1> QED
  BY <1>5, <1>7 DEF s

\* The lists that the code makes, one by one, and what is on them.
LEMMA LaunchSound ==
  /\ Sound(Launch, {"Session"})
  /\ Range(Launch) = {"Seed", "Claim", "KillProxy", "EnsureProxy", "AwaitToken", "StartBox", "Save"}
<1> DEFINE q == <<"Seed", "Claim", "KillProxy", "EnsureProxy", "AwaitToken", "StartBox", "Save">>
           L(i) == {q[j] : j \in (i + 1)..Len(q)} \cup {"Session"}
<1>1. q \in Seq(ListedSteps) /\ Len(q) = 7
  BY DEF ListedSteps
<1>2. ASSUME NEW i \in 1..7 PROVE Fine(q[i], L(i))
  BY DEF Fine, ListedSteps, Early
<1>3. Sound(q, {"Session"})
  BY <1>1, <1>2 DEF Sound
<1> QED
  BY <1>3 DEF Launch, Range

\* A list with one more step before it.
LEMMA SoundCons ==
  ASSUME NEW a, NEW q, NEW after, Sound(q, after), Fine(a, Range(q) \cup after)
  PROVE  Sound(<<a>> \o q, after) /\ Range(<<a>> \o q) = {a} \cup Range(q)
<1>1. a \in ListedSteps
  BY DEF Fine
<1>2. <<a>> \in Seq(ListedSteps) /\ Len(<<a>>) = 1
  BY <1>1
<1>3. ASSUME NEW i \in 1..Len(<<a>>)
      PROVE  Fine(<<a>>[i], {<<a>>[j] : j \in (i + 1)..Len(<<a>>)} \cup (Range(q) \cup after))
  <2>1. i = 1 /\ <<a>>[i] = a
    BY <1>2
  <2>2. {<<a>>[j] : j \in (1 + 1)..1} = {}
    OBVIOUS
  <2> QED
    BY <2>1, <2>2, <1>2
<1>4. Sound(<<a>>, Range(q) \cup after)
  BY <1>2, <1>3 DEF Sound
<1>5. Range(<<a>>) = {a}
  BY <1>2 DEF Range
<1> QED
  BY <1>4, <1>5, SoundConcat

LEMMA OneStep ==
  ASSUME NEW a, NEW after, Fine(a, after)
  PROVE  Sound(<<a>>, after) /\ Range(<<a>>) = {a}
<1>1. Sound(<<>>, after) /\ Range(<<>>) = {}
  BY SoundNil
<1>2. Sound(<<a>> \o <<>>, after) /\ Range(<<a>> \o <<>>) = {a} \cup {}
  <2>1. Fine(a, Range(<<>>) \cup after)
    <3>1. Range(<<>>) \cup after = after
      BY <1>1
    <3> QED
      BY <3>1
  <2>2. Sound(<<a>> \o <<>>, after) /\ Range(<<a>> \o <<>>) = {a} \cup Range(<<>>)
    BY <1>1, <2>1, SoundCons, ZenonT(20)
  <2> QED
    BY <1>1, <2>2
<1>3. <<a>> \o <<>> = <<a>>
  BY DEF Fine
<1> QED
  BY <1>2, <1>3

LEMMA SessionSound == Sound(<<"Session">>, {}) /\ Range(<<"Session">>) = {"Session"}
  BY OneStep DEF Fine, ListedSteps

LEMMA BoxRemovalSound ==
  ASSUME NEW after, after \cap {"KillProxy", "Save", "SaveResume", "StartBox", "Session"} = {}, "StopBox" \in after => "RmBox" \in after
  PROVE  Sound(<<"StopBox", "RmBox">>, after) /\ Range(<<"StopBox", "RmBox">>) = {"StopBox", "RmBox"}
<1> DEFINE q == <<"StopBox", "RmBox">>
           L(i) == {q[j] : j \in (i + 1)..Len(q)} \cup after
<1>1. q \in Seq(ListedSteps) /\ Len(q) = 2
  BY DEF ListedSteps
<1>2. ASSUME NEW i \in 1..2 PROVE Fine(q[i], L(i))
  BY DEF Fine, ListedSteps
<1>3. Sound(q, after)
  BY <1>1, <1>2 DEF Sound
<1> QED
  BY <1>3 DEF Range

LEMMA CleanupSound ==
  ASSUME NEW after, after \subseteq {"ReadResume"}
  PROVE  /\ Sound(Cleanup, after)
         /\ Range(Cleanup) = {"StopBox", "RmBox", "StopProxy", "RmState", "Release", "Delete"}
<1> DEFINE q == <<"StopBox", "RmBox", "StopProxy", "RmState", "Release", "Delete">>
           L(i) == {q[j] : j \in (i + 1)..Len(q)} \cup after
<1>1. q \in Seq(ListedSteps) /\ Len(q) = 6
  BY DEF ListedSteps
<1>2. ASSUME NEW i \in 1..6 PROVE Fine(q[i], L(i))
  BY DEF Fine, ListedSteps
<1>3. Sound(q, after)
  BY <1>1, <1>2 DEF Sound
<1> QED
  BY <1>3 DEF Cleanup, Range

\* The lists of the commands.
LEMMA RemovalSound ==
  ASSUME NEW after, after \subseteq {"ReadResume"}
  PROVE  /\ Sound(Removal, after)
         /\ Range(Removal) = {"Read", "RmBox", "RmBranch", "Delete", "StopProxy", "RmState"}
<1> DEFINE q == <<"Read", "RmBox", "RmBranch", "Delete", "StopProxy", "RmState">>
           L(i) == {q[j] : j \in (i + 1)..Len(q)} \cup after
<1>1. q \in Seq(ListedSteps) /\ Len(q) = 6
  BY DEF ListedSteps
<1>2. ASSUME NEW i \in 1..6 PROVE Fine(q[i], L(i))
  BY DEF Fine, ListedSteps
<1>3. Sound(q, after)
  BY <1>1, <1>2 DEF Sound
<1> QED
  BY <1>3 DEF Removal, Range

LEMMA AttachSound ==
  /\ Sound(Attach, {})
  /\ Range(Attach) = {"Lookup", "Seed", "EnsureProxy", "EnsureBox", "Session"}
<1> DEFINE q == <<"Lookup", "Seed", "EnsureProxy", "EnsureBox", "Session">>
           L(i) == {q[j] : j \in (i + 1)..Len(q)} \cup {}
<1>1. q \in Seq(ListedSteps) /\ Len(q) = 5
  BY DEF ListedSteps
<1>2. ASSUME NEW i \in 1..5 PROVE Fine(q[i], L(i))
  BY DEF Fine, ListedSteps
<1>3. Sound(q, {})
  BY <1>1, <1>2 DEF Sound
<1> QED
  BY <1>3 DEF Attach, Range

LEMMA StopSound == Sound(Stop, {}) /\ Range(Stop) = {"Lookup", "StopRunning", "StopProxy"}
<1> DEFINE q == <<"Lookup", "StopRunning", "StopProxy">>
           L(i) == {q[j] : j \in (i + 1)..Len(q)} \cup {}
<1>1. q \in Seq(ListedSteps) /\ Len(q) = 3
  BY DEF ListedSteps
<1>2. ASSUME NEW i \in 1..3 PROVE Fine(q[i], L(i))
  BY DEF Fine, ListedSteps
<1>3. Sound(q, {})
  BY <1>1, <1>2 DEF Sound
<1> QED
  BY <1>3 DEF Stop, Range

LEMMA TuiRemoveSound ==
  /\ Sound(TuiRemove, {})
  /\ Range(TuiRemove) = {"Read", "StopBox", "RmBox", "RmBranch", "Delete"}
<1> DEFINE q == <<"Read", "StopBox", "RmBox", "RmBranch", "Delete">>
           L(i) == {q[j] : j \in (i + 1)..Len(q)} \cup {}
<1>1. q \in Seq(ListedSteps) /\ Len(q) = 5
  BY DEF ListedSteps
<1>2. ASSUME NEW i \in 1..5 PROVE Fine(q[i], L(i))
  BY DEF Fine, ListedSteps
<1>3. Sound(q, {})
  BY <1>1, <1>2 DEF Sound
<1> QED
  BY <1>3 DEF TuiRemove, Range

LEMMA TuiAttachSound == Sound(TuiAttach, {}) /\ Range(TuiAttach) = {"Read", "TuiBox", "Session"}
<1> DEFINE q == <<"Read", "TuiBox", "Session">>
           L(i) == {q[j] : j \in (i + 1)..Len(q)} \cup {}
<1>1. q \in Seq(ListedSteps) /\ Len(q) = 3
  BY DEF ListedSteps
<1>2. ASSUME NEW i \in 1..3 PROVE Fine(q[i], L(i))
  BY DEF Fine, ListedSteps
<1>3. Sound(q, {})
  BY <1>1, <1>2 DEF Sound
<1> QED
  BY <1>3 DEF TuiAttach, Range

\* The launch and the terminal behind it.
LEMMA BareSound ==
  /\ Sound(Launch \o <<"Session">>, {})
  /\ Range(Launch \o <<"Session">>) =
       {"Seed", "Claim", "KillProxy", "EnsureProxy", "AwaitToken", "StartBox", "Save", "Session"}
<1>1. Range(<<"Session">>) \cup {} = {"Session"}
  BY SessionSound
<1>2. Sound(Launch, Range(<<"Session">>) \cup {})
  BY <1>1, LaunchSound
<1>3. /\ Sound(Launch \o <<"Session">>, {})
      /\ Range(Launch \o <<"Session">>) = Range(Launch) \cup {"Session"}
  BY <1>2, SessionSound, SoundConcat
<1> QED
  BY <1>3, LaunchSound

LEMMA NewSound ==
  /\ Sound(New, {})
  /\ Range(New) = {"CheckName", "Seed", "Claim", "KillProxy", "EnsureProxy", "AwaitToken",
                   "StartBox", "Save", "Session"}
<1> DEFINE checked == <<"CheckName">> \o Launch
<1>1. Fine("CheckName", Range(Launch) \cup {"Session"})
  BY LaunchSound DEF Fine, ListedSteps
<1>2. Sound(checked, {"Session"}) /\ Range(checked) = {"CheckName"} \cup Range(Launch)
  BY <1>1, LaunchSound, SoundCons
<1> HIDE DEF checked
<1>3. Sound(checked, Range(<<"Session">>) \cup {})
  <2>1. Range(<<"Session">>) \cup {} = {"Session"}
    BY SessionSound
  <2> QED
    BY <1>2, <2>1
<1>4. Sound(checked \o <<"Session">>, {}) /\ Range(checked \o <<"Session">>) = Range(checked) \cup {"Session"}
  BY <1>3, SessionSound, SoundConcat
<1> QED
  BY <1>2, <1>4, LaunchSound DEF New, checked

\* What a command is as it begins.
Opening(cmd, left) ==
  /\ "StartBox" \in left <=> cmd \in Launchers
  /\ "StartBox" \in left => {"Claim", "KillProxy"} \subseteq left
  /\ "EnsureBox" \in left => cmd \notin Launchers
  /\ "Save" \in left => "StartBox" \in left
  /\ left \cap {"Release", "SaveResume"} = {}
  /\ "StopProxy" \in left => left \cap {"StopRunning", "Delete"} # {}

LEMMA ProgramsSound ==
  ASSUME NEW cmd \in DOMAIN Program
  PROVE  Sound(Program[cmd], {}) /\ Opening(cmd, Range(Program[cmd]))
<1>1. DOMAIN Program = Launchers \cup {"attach", "stop", "rm", "gc", "gcAll", "tuiStop", "tuiRemove", "tuiAttach"}
  BY DEF Program, Launchers
<1>2. CASE cmd = "new"
  <2>1. Program[cmd] = New
    BY <1>2 DEF Program
  <2> QED
    BY <1>2, <2>1, NewSound DEF Opening, Launchers
<1>3. CASE cmd \in Launchers \ {"new"}
  <2>1. Program[cmd] = Launch \o <<"Session">>
    BY <1>3 DEF Program, Launchers, Bare, Run, Work, Task
  <2> QED
    BY <1>3, <2>1, BareSound DEF Opening, Launchers
<1>4. CASE cmd = "attach"
  <2>1. Program[cmd] = Attach
    BY <1>4 DEF Program
  <2> QED
    BY <1>4, <2>1, AttachSound DEF Opening, Launchers
<1>5. CASE cmd = "stop"
  <2>1. Program[cmd] = Stop
    BY <1>5 DEF Program
  <2> QED
    BY <1>5, <2>1, StopSound DEF Opening, Launchers
<1>6. CASE cmd = "rm"
  <2>1. Program[cmd] = Removal
    BY <1>6 DEF Program
  <2> QED
    BY <1>6, <2>1, RemovalSound DEF Opening, Launchers
<1>7. CASE cmd \in {"gc", "gcAll"}
  <2>1. Program[cmd] = <<"Collect">>
    BY <1>7 DEF Program, Gc
  <2>2. Sound(<<"Collect">>, {}) /\ Range(<<"Collect">>) = {"Collect"}
    BY OneStep DEF Fine, ListedSteps
  <2> QED
    BY <1>7, <2>1, <2>2 DEF Opening, Launchers
<1>8. CASE cmd = "tuiStop"
  <2>1. Program[cmd] = <<"StopBox">>
    BY <1>8 DEF Program, TuiStop
  <2>2. Sound(<<"StopBox">>, {}) /\ Range(<<"StopBox">>) = {"StopBox"}
    BY OneStep DEF Fine, ListedSteps
  <2> QED
    BY <1>8, <2>1, <2>2 DEF Opening, Launchers
<1>9. CASE cmd = "tuiRemove"
  <2>1. Program[cmd] = TuiRemove
    BY <1>9 DEF Program
  <2> QED
    BY <1>9, <2>1, TuiRemoveSound DEF Opening, Launchers
<1>10. CASE cmd = "tuiAttach"
  <2>1. Program[cmd] = TuiAttach
    BY <1>10 DEF Program
  <2> QED
    BY <1>10, <2>1, TuiAttachSound DEF Opening, Launchers
<1> QED
  BY <1>1, <1>2, <1>3, <1>4, <1>5, <1>6, <1>7, <1>8, <1>9, <1>10

\* The lists hold no step but those of the type invariant.
LEMMA StepsListed == ListedSteps \subseteq Steps
<1>1. Range(Program["new"]) \cup Range(Program["attach"]) \cup Range(Program["stop"])
        \cup Range(Program["rm"]) \cup Range(Program["gc"]) \cup Range(Program["tuiRemove"])
        \cup Range(Program["tuiAttach"]) \subseteq Steps
  BY DEF Steps, Program
<1>2. /\ Range(Program["new"]) = Range(New) /\ Range(Program["attach"]) = Range(Attach)
      /\ Range(Program["stop"]) = Range(Stop) /\ Range(Program["rm"]) = Range(Removal)
      /\ Range(Program["gc"]) = Range(Gc) /\ Range(Program["tuiRemove"]) = Range(TuiRemove)
      /\ Range(Program["tuiAttach"]) = Range(TuiAttach)
  BY DEF Program
<1>3. /\ Range(New) \cup Range(Attach) \cup Range(Stop) \cup Range(TuiRemove) \cup Range(TuiAttach)
           \subseteq Steps
      /\ Range(Removal) \subseteq Steps /\ Range(Gc) \subseteq Steps
  BY <1>1, <1>2
<1>4. Range(Removal) = {"Read", "RmBox", "RmBranch", "Delete", "StopProxy", "RmState"}
  BY RemovalSound
<1>5. Range(Gc) = {"Collect"}
  BY DEF Gc, Range
<1>6. {"StartProxy", "AwaitReady", "TuiProxy", "TuiRun", "Release", "ReadResume", "SaveResume",
       "Reap", "ReapRecord"} \subseteq Steps
  <2>1. \A x : x \in {"StartProxy", "AwaitReady", "TuiProxy", "TuiRun", "Release",
                     "ReadResume", "SaveResume", "Reap", "ReapRecord"} => x \in Steps
    BY Zenon DEF Steps
  <2> QED
    BY <2>1
<1> QED
  BY <1>3, <1>4, <1>5, <1>6, NewSound, AttachSound, StopSound, TuiRemoveSound, TuiAttachSound
     DEF ListedSteps

\* What the rollback of a launch that owns the things of mine comes to.
LEMMA RollbackSound ==
  ASSUME NEW mine, mine \subseteq Things
  PROVE  /\ Sound(Rollback(mine), {})
         /\ Range(Rollback(mine)) =
                 (IF "box" \in mine THEN {"StopBox", "RmBox"} ELSE {})
            \cup (IF "proxy" \in mine THEN {"StopProxy", "RmState"} ELSE {})
            \cup (IF "range" \in mine THEN {"Release"} ELSE {})
<1> DEFINE box == IF "box" \in mine THEN <<"StopBox", "RmBox">> ELSE <<>>
           proxy == IF "proxy" \in mine THEN <<"StopProxy", "RmState">> ELSE <<>>
           range == IF "range" \in mine THEN <<"Release">> ELSE <<>>
           boxes == IF "box" \in mine THEN {"StopBox", "RmBox"} ELSE {}
           proxies == IF "proxy" \in mine THEN {"StopProxy", "RmState"} ELSE {}
           ranges == IF "range" \in mine THEN {"Release"} ELSE {}
<1>1. Sound(range, {}) /\ Range(range) = ranges
  <2>1. Fine("Release", {})
    BY DEF Fine, ListedSteps
  <2>2. Sound(<<"Release">>, {}) /\ Range(<<"Release">>) = {"Release"}
    BY <2>1, OneStep
  <2> QED
    BY <2>2, SoundNil
<1>2. Sound(proxy, Range(range) \cup {}) /\ Range(proxy) = proxies
  <2> DEFINE q == <<"StopProxy", "RmState">>
             L(i) == {q[j] : j \in (i + 1)..Len(q)} \cup ranges
  <2>1. q \in Seq(ListedSteps) /\ Len(q) = 2
    BY DEF ListedSteps
  <2>2. ASSUME NEW i \in 1..2 PROVE Fine(q[i], L(i))
    BY DEF Fine, ListedSteps
  <2>3. Sound(q, ranges) /\ Range(q) = {"StopProxy", "RmState"}
    BY <2>1, <2>2 DEF Sound, Range
  <2>4. Sound(<<>>, ranges) /\ Range(<<>>) = {} /\ Range(range) \cup {} = ranges
    BY <1>1, SoundNil
  <2> QED
    BY <2>3, <2>4
<1>3. Sound(proxy \o range, {}) /\ Range(proxy \o range) = proxies \cup ranges
  BY <1>1, <1>2, SoundConcat
<1>4. Sound(box, Range(proxy \o range) \cup {}) /\ Range(box) = boxes
  <2> DEFINE after == proxies \cup ranges
  <2>1. after \cap {"KillProxy", "Save", "SaveResume", "StartBox", "Session"} = {} /\ "StopBox" \notin after
    OBVIOUS
  <2>2. Sound(<<"StopBox", "RmBox">>, after) /\ Range(<<"StopBox", "RmBox">>) = {"StopBox", "RmBox"}
    BY <2>1, BoxRemovalSound
  <2>3. Sound(<<>>, after) /\ Range(<<>>) = {} /\ Range(proxy \o range) \cup {} = after
    BY <1>3, SoundNil
  <2> QED
    BY <2>2, <2>3
<1> HIDE DEF box, proxy, range
<1>5. Sound(box \o (proxy \o range), {}) /\ Range(box \o (proxy \o range)) = boxes \cup proxies \cup ranges
  BY <1>3, <1>4, SoundConcat
<1>6. Rollback(mine) = (box \o proxy) \o range
  BY DEF Rollback, box, proxy, range
<1>7. box \in Seq(ListedSteps) /\ proxy \in Seq(ListedSteps) /\ range \in Seq(ListedSteps)
  BY <1>1, <1>2, <1>4 DEF Sound
<1>8. (box \o proxy) \o range = box \o (proxy \o range)
  BY <1>7, ConcatAssociative, SMTT(30)
<1> QED
  BY <1>5, <1>6, <1>8

\* What the end of a terminal leaves to do.
LEMMA EndingSound ==
  ASSUME NEW p, NEW how
  PROVE  LET rest == Range(Ending(p, how))
             cleans == proc[p].cmd \in Launchers /\ proc[p].auto /\ how # "background"
         IN  /\ Sound(Ending(p, how), {})
             /\ rest \cap ({"KillProxy", "Save", "StartBox", "SaveResume", "Session"} \cup Early) = {}
             /\ "Release" \in rest => {"StopBox", "RmBox"} \subseteq rest
             /\ "StopProxy" \in rest => "Delete" \in rest
             /\ cleans => /\ Range(Cleanup) \subseteq rest
                          /\ rest \subseteq Range(Cleanup) \cup {"ReadResume"}
<1> DEFINE me == proc[p]
           owner == me.cmd \in Launchers
           front == IF how = "quit" THEN <<"StopBox", "RmBox">> ELSE <<>>
           end == CASE how = "background"                               -> <<>>
                    [] owner /\ me.auto                                 -> Cleanup
                    [] ~owner /\ me.seen.auto /\ how \in {"quit", "exit"} -> Removal
                    [] OTHER                                            -> <<>>
           back == IF how = "background" \/ me.cmd = "task" THEN <<>> ELSE <<"ReadResume">>
           mid == Range(end)
<1>1. end \in {<<>>, Cleanup, Removal} /\ (owner /\ me.auto /\ how # "background" => end = Cleanup)
  <2>1. CASE how = "background"
    BY <2>1
  <2>2. CASE how # "background" /\ owner /\ me.auto
    BY <2>2
  <2>3. CASE how # "background" /\ ~(owner /\ me.auto) /\ ~owner /\ me.seen.auto /\ how \in {"quit", "exit"}
    BY <2>3
  <2>4. CASE how # "background" /\ ~(owner /\ me.auto) /\ ~(~owner /\ me.seen.auto /\ how \in {"quit", "exit"})
    BY <2>4
  <2> QED
    BY <2>1, <2>2, <2>3, <2>4
<1>2. Ending(p, how) = (front \o end) \o back
  BY DEF Ending
<1> HIDE DEF end
<1>3. Sound(back, {}) /\ Range(back) \subseteq {"ReadResume"}
  <2>1. Fine("ReadResume", {})
    BY DEF Fine, ListedSteps
  <2>2. Sound(<<"ReadResume">>, {}) /\ Range(<<"ReadResume">>) = {"ReadResume"}
    BY <2>1, OneStep
  <2> QED
    BY <2>2, SoundNil
<1> HIDE DEF back
<1>4. Sound(end, Range(back))
  BY <1>1, <1>3, CleanupSound, RemovalSound, SoundNil
<1>5. /\ mid \subseteq Range(Cleanup) \cup {"Read", "RmBranch"}
      /\ "Release" \in mid => end = Cleanup
      /\ "StopProxy" \in mid => "Delete" \in mid
      /\ "StopBox" \in mid => "RmBox" \in mid
      /\ {"StopBox", "RmBox"} \subseteq Range(Cleanup)
      /\ Range(Cleanup) \subseteq {"StopBox", "RmBox", "StopProxy", "RmState", "Release", "Delete"}
  <2>1. /\ Range(<<>>) = {}
        /\ Range(Cleanup) = {"StopBox", "RmBox", "StopProxy", "RmState", "Release", "Delete"}
        /\ Range(Removal) = {"Read", "RmBox", "RmBranch", "Delete", "StopProxy", "RmState"}
    BY CleanupSound, RemovalSound, SoundNil
  <2>2. mid \in {{}, Range(Cleanup), Range(Removal)}
    BY <2>1, <1>1
  <2>3. "Release" \in mid => end = Cleanup
    BY <2>1, <1>1
  <2> HIDE DEF mid
  <2> QED
    BY <2>1, <2>2, <2>3
<1>6. /\ Sound(front, mid \cup Range(back)) /\ Range(front) \subseteq {"StopBox", "RmBox"}
  <2> DEFINE after == mid \cup Range(back)
  <2>1. after \cap {"KillProxy", "Save", "SaveResume", "StartBox", "Session"} = {} /\ ("StopBox" \in after => "RmBox" \in after)
    BY <1>3, <1>5
  <2>2. Sound(<<"StopBox", "RmBox">>, after) /\ Range(<<"StopBox", "RmBox">>) = {"StopBox", "RmBox"}
    BY <2>1, BoxRemovalSound
  <2>3. Sound(<<>>, after) /\ Range(<<>>) = {}
    BY SoundNil
  <2> QED
    BY <2>2, <2>3
<1> HIDE DEF front
<1>7. Sound(front \o end, Range(back)) /\ Range(front \o end) = Range(front) \cup mid
  BY <1>4, <1>6, SoundConcat
<1>8. Sound((front \o end) \o back, {}) /\ Range((front \o end) \o back) = Range(front) \cup mid \cup Range(back)
  <2>1. Sound(front \o end, Range(back) \cup {})
    BY <1>7
  <2> QED
    BY <1>3, <1>7, <2>1, SoundConcat
<1> DEFINE rest == Range(Ending(p, how))
<1>9. Sound(Ending(p, how), {}) /\ rest = Range(front) \cup mid \cup Range(back)
  BY <1>2, <1>8
<1>10. rest \cap ({"KillProxy", "Save", "StartBox", "SaveResume", "Session"} \cup Early) = {}
  BY <1>3, <1>5, <1>6, <1>9 DEF Early
<1>11. "Release" \in rest => {"StopBox", "RmBox"} \subseteq rest
  BY <1>3, <1>5, <1>6, <1>9
<1>12. "StopProxy" \in rest => "Delete" \in rest
  BY <1>3, <1>5, <1>6, <1>9
<1>13. owner /\ me.auto /\ how # "background" =>
         Range(Cleanup) \subseteq rest /\ rest \subseteq Range(Cleanup) \cup {"ReadResume"}
  BY <1>1, <1>3, <1>5, <1>6, <1>9
<1> QED
  BY <1>9, <1>10, <1>11, <1>12, <1>13

\* The lists that a step puts before what is left.
LEMMA TuiRunSound ==
  /\ Sound(<<"Seed", "TuiProxy", "TuiRun">>, {"Session"})
  /\ Range(<<"Seed", "TuiProxy", "TuiRun">>) = {"Seed", "TuiProxy", "TuiRun"}
<1> DEFINE q == <<"Seed", "TuiProxy", "TuiRun">>
           L(i) == {q[j] : j \in (i + 1)..Len(q)} \cup {"Session"}
<1>1. q \in Seq(ListedSteps) /\ Len(q) = 3
  BY DEF ListedSteps
<1>2. ASSUME NEW i \in 1..3 PROVE Fine(q[i], L(i))
  BY DEF Fine, ListedSteps
<1>3. Sound(q, {"Session"})
  BY <1>1, <1>2 DEF Sound
<1> QED
  BY <1>3 DEF Range

LEMMA StartProxySound ==
  ASSUME NEW later, Fine("EnsureProxy", later)
  PROVE  /\ Sound(<<"StartProxy", "AwaitReady">>, later)
         /\ Range(<<"StartProxy", "AwaitReady">>) = {"StartProxy", "AwaitReady"}
<1> DEFINE q == <<"StartProxy", "AwaitReady">>
           L(i) == {q[j] : j \in (i + 1)..Len(q)} \cup later
<1>1. q \in Seq(ListedSteps) /\ Len(q) = 2
  BY DEF ListedSteps
<1>2. ASSUME NEW i \in 1..2 PROVE Fine(q[i], L(i))
  BY DEF Fine, ListedSteps
<1>3. Sound(q, later)
  BY <1>1, <1>2 DEF Sound
<1> QED
  BY <1>3 DEF Range

-------------------------------------------------------------------------------

\* What is known of an invocation that is about to take step a.
LEMMA AboutTo ==
  ASSUME Typed, NEW p \in Procs, NEW a, At(p, a)
  PROVE  /\ proc[p] \in Invocation /\ proc[p].cmd # "none"
         /\ "EnsureBox" \in Range(proc[p].todo) => proc[p].cmd \notin Launchers
         /\ Sound(Rest(p), {}) /\ Rest(p) \in Seq(ListedSteps)
         /\ Fine(a, Range(Rest(p))) /\ Range(proc[p].todo) = {a} \cup Range(Rest(p))
<1>1. /\ proc[p] \in Invocation /\ Sound(proc[p].todo, {}) /\ (proc[p].cmd = "none" => proc[p] = Idle)
      /\ "EnsureBox" \in Range(proc[p].todo) => proc[p].cmd \notin Launchers
  BY DEF Typed, ProcTyped
<1>2. proc[p].todo # <<>> /\ Head(proc[p].todo) = a
  BY DEF At
<1>3. proc[p].cmd # "none"
  BY <1>1, <1>2 DEF Idle
<1> QED
  BY <1>1, <1>2, <1>3, SoundTail DEF Rest

\* A step of p that leaves it as me, and keeps the types, and what p relies on if it
\* is alone.
KeptBy(p, me) ==
  /\ me \in Invocation /\ me.cmd # "none" /\ Sound(me.todo, {})
  /\ "EnsureBox" \in Range(me.todo) => me.cmd \notin Launchers
  /\ proc' = [proc EXCEPT ![p] = me]
  /\ DockerTyped(docker') /\ disk' \in Disk
  /\ World(docker, disk) /\ Right(docker, disk, proc[p], proc[p].missed, Range(proc[p].todo)) =>
       World(docker', disk') /\ Right(docker', disk', me, me.missed, Range(me.todo))

\* A command gets past StartBox only by starting the box where there was none, and
\* none that has yet to start one, or to open its terminal, takes the box away.
Follows(before, after, cmd, st, nextSt) ==
  /\ "Session" \in after => "Session" \in before
  /\ "EnsureBox" \in after => "EnsureBox" \in before
  /\ cmd \in Launchers /\ "StartBox" \in after => "StartBox" \in before
  /\ "Session" \in after /\ "StartBox" \in before =>
       "StartBox" \in after \/ (st = "none" /\ nextSt # "none")
  /\ st # "none" /\ nextSt = "none" => after \cap {"StartBox", "Session"} = {}

GoesOn(p) ==
  \E me : /\ KeptBy(p, me) /\ proc[p].cmd # "none" /\ me.cmd = proc[p].cmd
          /\ Follows(Range(proc[p].todo), Range(me.todo), me.cmd, docker.box.st, docker'.box.st)

\* An invocation that never began relies on nothing.
LEMMA IdleIsRight == ASSUME NEW d, NEW k PROVE Right(d, k, Idle, Idle.missed, Range(Idle.todo))
<1>1. Idle.todo = <<>> /\ Idle.mine = {} /\ Idle.cmd = "none"
  BY DEF Idle
<1>2. Range(Idle.todo) = {}
  BY <1>1, SoundNil
<1> QED
  BY <1>1, <1>2 DEF Right, Launchers

\* What p alone relies on, it finds after each of its steps.
LEMMA KeptByOne ==
  ASSUME Typed, NEW p \in Procs, NEW me, KeptBy(p, me)
  PROVE  Typed' /\ (OneAtATime => OneAtATime')
<1>1. /\ ProcTyped(proc) /\ proc' = [proc EXCEPT ![p] = me]
      /\ me \in Invocation /\ me.cmd # "none" /\ Sound(me.todo, {})
      /\ "EnsureBox" \in Range(me.todo) => me.cmd \notin Launchers
  BY DEF Typed, KeptBy
<1>2. proc'[p] = me /\ \A q \in Procs : q # p => proc'[q] = proc[q]
  BY <1>1 DEF ProcTyped
<1>3. ProcTyped(proc')
  BY <1>1, <1>2 DEF ProcTyped
<1>4. Typed'
  BY <1>3 DEF Typed, KeptBy
<1>5. ASSUME OneAtATime, Alone' PROVE World(docker', disk') /\ \A q \in Procs : Right(docker', disk', proc'[q], proc'[q].missed, Range(proc'[q].todo))
  <2>1. \A q \in Procs : q # p => proc[q] = Idle
    BY <1>1, <1>2, <1>5 DEF Alone, ProcTyped
  <2>2. Alone
    BY <2>1 DEF Alone, Idle
  <2>3. World(docker, disk) /\ Right(docker, disk, proc[p], proc[p].missed, Range(proc[p].todo))
    BY <1>5, <2>2 DEF OneAtATime
  <2>4. World(docker', disk') /\ Right(docker', disk', me, me.missed, Range(me.todo))
    BY <1>5, <2>3 DEF KeptBy
  <2>5. ASSUME NEW q \in Procs PROVE Right(docker', disk', proc'[q], proc'[q].missed, Range(proc'[q].todo))
    <3>1. CASE q = p
      BY <2>4, <3>1, <1>2
    <3>2. CASE q # p
      <4>1. proc'[q] = Idle
        BY <3>2, <2>1, <1>2
      <4> QED
        BY <4>1, IdleIsRight
    <3> QED
      BY <3>1, <3>2
  <2> QED
    BY <2>4, <2>5
<1>6. OneAtATime => OneAtATime'
  BY <1>5 DEF OneAtATime
<1> QED
  BY <1>4, <1>6

\* The step replaces the list; the rest of the invocation stays.
LEMMA GotoKept ==
  ASSUME Typed, NEW p \in Procs, NEW a, At(p, a), NEW s, Sound(s, {}), Goto(p, s),
         DockerTyped(docker'), disk' \in Disk,
         /\ World(docker, disk) /\ Right(docker, disk, proc[p], proc[p].missed, {a} \cup Range(Rest(p)))
         => World(docker', disk') /\ Right(docker', disk', proc[p], proc[p].missed, Range(s)),
         Follows({a} \cup Range(Rest(p)), Range(s), proc[p].cmd, docker.box.st, docker'.box.st)
  PROVE  GoesOn(p)
<1> DEFINE me == [proc[p] EXCEPT !.todo = s]
<1>1. /\ proc[p] \in Invocation /\ proc[p].cmd # "none"
      /\ "EnsureBox" \in Range(proc[p].todo) => proc[p].cmd \notin Launchers
      /\ Range(proc[p].todo) = {a} \cup Range(Rest(p))
  BY AboutTo
<1>2. s \in Seq(ListedSteps)
  BY DEF Sound
<1>3. /\ me \in Invocation /\ me.cmd = proc[p].cmd /\ me.todo = s /\ me.mine = proc[p].mine
      /\ me.auto = proc[p].auto /\ me.out = proc[p].out /\ me.seen = proc[p].seen
      /\ me.missed = proc[p].missed
  BY <1>1, <1>2 DEF Invocation
<1>4. proc' = [proc EXCEPT ![p] = me]
  BY DEF Goto
<1> HIDE DEF me
<1>5. Right(docker', disk', proc[p], proc[p].missed, Range(s)) => Right(docker', disk', me, me.missed, Range(me.todo))
  BY <1>3 DEF Right
<1>6. "EnsureBox" \in Range(me.todo) => me.cmd \notin Launchers
  BY <1>1, <1>3 DEF Follows
<1>7. KeptBy(p, me)
  BY <1>1, <1>3, <1>4, <1>5, <1>6 DEF KeptBy
<1> QED
  BY <1>1, <1>3, <1>7 DEF GoesOn

\* The step takes itself off the list.
LEMMA DoneKept ==
  ASSUME Typed, NEW p \in Procs, NEW a, At(p, a), Done(p), DockerTyped(docker'), disk' \in Disk,
         NEW later, later = Range(Rest(p)),
         /\ World(docker, disk) /\ Right(docker, disk, proc[p], proc[p].missed, {a} \cup later) /\ Fine(a, later)
         => World(docker', disk') /\ Right(docker', disk', proc[p], proc[p].missed, later),
         a # "StartBox", docker'.box.st = "none" => docker.box.st = "none" \/ a = "RmBox"
  PROVE  GoesOn(p)
<1>1. Sound(Rest(p), {}) /\ Fine(a, later)
  BY AboutTo
<1>2. Follows({a} \cup later, later, proc[p].cmd, docker.box.st, docker'.box.st)
  BY <1>1 DEF Follows, Fine
<1> QED
  BY <1>1, <1>2, GotoKept DEF Done

\* The step failed and is passed over.
LEMMA PassKept ==
  ASSUME Typed, NEW p \in Procs, NEW a, At(p, a), PassOver(p), DockerTyped(docker'), disk' \in Disk,
         NEW later, later = Range(Rest(p)),
         /\ World(docker, disk) /\ Right(docker, disk, proc[p], proc[p].missed, {a} \cup later) /\ Fine(a, later)
         => World(docker', disk') /\ Right(docker', disk', proc[p], proc[p].missed \cup {a}, later),
         a # "StartBox", docker'.box.st = docker.box.st
  PROVE  GoesOn(p)
<1> DEFINE missed == proc[p].missed \cup {a}
           me == [proc[p] EXCEPT !.todo = Rest(p), !.missed = missed]
<1>1. /\ proc[p] \in Invocation /\ proc[p].cmd # "none"
      /\ "EnsureBox" \in Range(proc[p].todo) => proc[p].cmd \notin Launchers
      /\ Range(proc[p].todo) = {a} \cup later /\ Fine(a, later)
      /\ Sound(Rest(p), {}) /\ Rest(p) \in Seq(ListedSteps) /\ Head(proc[p].todo) = a
  BY AboutTo DEF At
<1>2. missed \in SUBSET ListedSteps
  BY <1>1 DEF Invocation, Fine
<1>3. /\ me \in Invocation /\ me.cmd = proc[p].cmd /\ me.todo = Rest(p) /\ me.mine = proc[p].mine
      /\ me.auto = proc[p].auto /\ me.out = proc[p].out /\ me.seen = proc[p].seen /\ me.missed = missed
  BY <1>1, <1>2 DEF Invocation
<1>4. proc' = [proc EXCEPT ![p] = me]
  BY <1>1 DEF PassOver, Rest
<1> HIDE DEF me
<1>5. Right(docker', disk', proc[p], missed, later) => Right(docker', disk', me, me.missed, Range(me.todo))
  BY <1>3 DEF Right
<1>6. KeptBy(p, me)
  BY <1>1, <1>3, <1>4, <1>5 DEF KeptBy
<1>7. Follows({a} \cup later, later, proc[p].cmd, docker.box.st, docker'.box.st)
  BY DEF Follows
<1> QED
  BY <1>1, <1>3, <1>6, <1>7 DEF GoesOn

\* The step comes to own a thing.
LEMMA OwnKept ==
  ASSUME Typed, NEW p \in Procs, NEW a, At(p, a), NEW thing \in Things, DoneOwning(p, thing),
         DockerTyped(docker'), disk' \in Disk,
         NEW later, later = Range(Rest(p)),
         NEW mine, mine = proc[p].mine \cup {thing},
         /\ World(docker, disk) /\ Right(docker, disk, proc[p], proc[p].missed, {a} \cup later) /\ Fine(a, later)
         => World(docker', disk') /\ Right(docker', disk', [proc[p] EXCEPT !.mine = mine], proc[p].missed, later),
         a = "StartBox" => docker.box.st = "none",
         docker'.box.st = "none" <=> docker.box.st = "none" /\ a # "StartBox"
  PROVE  GoesOn(p)
<1> DEFINE me == [proc[p] EXCEPT !.todo = Rest(p), !.mine = mine]
           owning == [proc[p] EXCEPT !.mine = mine]
<1>1. /\ proc[p] \in Invocation /\ proc[p].cmd # "none"
      /\ "EnsureBox" \in Range(proc[p].todo) => proc[p].cmd \notin Launchers
      /\ Range(proc[p].todo) = {a} \cup later /\ Fine(a, later)
      /\ Sound(Rest(p), {}) /\ Rest(p) \in Seq(ListedSteps)
  BY AboutTo
<1>2. mine \in SUBSET Things
  BY <1>1 DEF Invocation
<1>3. /\ me \in Invocation /\ me.cmd = proc[p].cmd /\ me.todo = Rest(p) /\ me.mine = mine
      /\ me.auto = proc[p].auto /\ me.out = proc[p].out /\ me.seen = proc[p].seen
      /\ me.missed = proc[p].missed /\ owning.mine = mine /\ owning.cmd = proc[p].cmd
      /\ owning.auto = proc[p].auto /\ owning.out = proc[p].out /\ owning.seen = proc[p].seen
  BY <1>1, <1>2 DEF Invocation
<1>4. proc' = [proc EXCEPT ![p] = me]
  BY DEF DoneOwning, Rest
<1> HIDE DEF me, owning
<1>5. Right(docker', disk', owning, proc[p].missed, later) => Right(docker', disk', me, me.missed, Range(me.todo))
  BY <1>3 DEF Right
<1>6. KeptBy(p, me)
  BY <1>1, <1>3, <1>4, <1>5 DEF KeptBy, owning
<1>7. Follows({a} \cup later, later, proc[p].cmd, docker.box.st, docker'.box.st)
  BY DEF Follows
<1> QED
  BY <1>1, <1>3, <1>6, <1>7 DEF GoesOn

\* The steps that may fail, and what makes the rollback right: whoever owns a range
\* has nothing recorded in his way, unless the rollback begins with the box.
Fallible == {"CheckName", "Seed", "Claim", "StartProxy", "AwaitReady", "AwaitToken", "StartBox", "Save",
             "EnsureBox", "TuiBox", "TuiRun", "StopRunning"}

LEMMA FailKept ==
  ASSUME Typed, NEW p \in Procs, NEW a \in Fallible, At(p, a), Fail(p)
  PROVE  GoesOn(p)
<1> DEFINE mine == proc[p].mine
           me == [proc[p] EXCEPT !.todo = Rollback(mine), !.out = "failed"]
           later == Range(Rest(p))
           left == Range(Rollback(mine))
<1>1. /\ proc[p] \in Invocation /\ proc[p].cmd # "none"
      /\ "EnsureBox" \in Range(proc[p].todo) => proc[p].cmd \notin Launchers
      /\ Range(proc[p].todo) = {a} \cup later /\ Fine(a, later)
  BY AboutTo
<1>2. mine \subseteq Things
  BY <1>1 DEF Invocation
<1>3. Sound(Rollback(mine), {}) /\ Rollback(mine) \in Seq(ListedSteps)
  <2>1. Sound(Rollback(mine), {})
    BY <1>2, RollbackSound
  <2> QED
    BY <2>1 DEF Sound
<1>4. /\ me \in Invocation /\ me.cmd = proc[p].cmd /\ me.todo = Rollback(mine) /\ me.mine = mine
      /\ me.out = "failed"
  BY <1>1, <1>3 DEF Invocation, Outs
<1>5. proc' = [proc EXCEPT ![p] = me] /\ docker' = docker /\ disk' = disk
  BY DEF Fail
<1>6. /\ left \subseteq {"StopBox", "RmBox", "StopProxy", "RmState", "Release"}
      /\ "box" \in mine => {"StopBox", "RmBox"} \subseteq left
      /\ "range" \in mine <=> "Release" \in left
      /\ mine = {} => left = {}
      /\ "box" \in mine <=> "RmBox" \in left
  BY <1>2, RollbackSound
<1> HIDE DEF me, mine
<1>7. ASSUME World(docker, disk), Right(docker, disk, proc[p], proc[p].missed, {a} \cup later)
      PROVE  Right(docker, disk, me, me.missed, left)
  <2>1. CASE mine = {}
    BY <2>1, <1>4, <1>6 DEF Right
  <2>2. CASE mine # {}
    <3>1. "range" \in mine /\ ({a} \cup later) \cap Early = {}
      BY <2>2, <1>7 DEF Right, mine
    <3>2. "box" \in mine \/ Free(docker, disk)
      BY <3>1, <1>1, <1>7 DEF Right, mine, Early, Fine, Fallible
    <3> QED
      BY <3>1, <3>2, <1>4, <1>6 DEF Right, Early
  <2> QED
    BY <2>1, <2>2
<1>8. KeptBy(p, me)
  <2>1. "EnsureBox" \notin Range(me.todo)
    BY <1>4, <1>6
  <2> QED
    BY <1>1, <1>3, <1>4, <1>5, <1>7, <2>1 DEF KeptBy, Typed
<1>9. Follows({a} \cup later, left, proc[p].cmd, docker.box.st, docker'.box.st)
  BY <1>5, <1>6 DEF Follows
<1> QED
  BY <1>1, <1>4, <1>8, <1>9 DEF GoesOn

-------------------------------------------------------------------------------

\* Containers come and go with their types kept.
LEMMA RunBoxTyped ==
  ASSUME DockerTyped(docker), NEW at \in {"none", "tree", "repo"}, RunBox(at)
  PROVE  /\ DockerTyped(docker') /\ docker.box.st = "none"
         /\ docker'.box.st = "running" /\ docker'.box.net = docker'.proxy /\ docker'.box.at = at
         /\ docker'.proxy = docker.proxy
<1>1. docker \in Docker /\ docker.proxy # 0 /\ docker.proxy <= docker.minted /\ docker.box.st = "none"
  BY DEF DockerTyped, RunBox, ProxyIsRunning
<1> DEFINE box == [st |-> "running", net |-> docker.proxy, lost |-> FALSE, harmed |-> FALSE, at |-> at]
<1>2. box \in Box
  BY <1>1 DEF Box, Docker
<1>3. docker' = [docker EXCEPT !.box = box]
  BY DEF RunBox, Namespace
<1>4. docker' \in Docker /\ docker'.box = box /\ docker'.proxy = docker.proxy /\ docker'.minted = docker.minted
  BY <1>1, <1>2, <1>3 DEF Docker
<1> QED
  BY <1>1, <1>4 DEF DockerTyped

LEMMA RunProxyTyped ==
  ASSUME DockerTyped(docker), NEW opts, opts.ports \in BOOLEAN, RunProxy(opts)
  PROVE  DockerTyped(docker') /\ docker'.box = docker.box /\ docker.proxy = 0
<1>1. /\ docker \in Docker /\ docker.proxy = 0 /\ docker.minted \in Nat /\ docker.minted < MaxProxies
      /\ docker.box.net <= docker.minted /\ docker.box.net \in Nat
  BY LifecycleAssumption DEF DockerTyped, RunProxy, ProxyIsRunning, Docker, Box
<1>2. docker.minted + 1 \in 0..MaxProxies /\ docker.minted + 1 \in Nat
  BY <1>1, LifecycleAssumption
<1>3. docker' = [docker EXCEPT !.minted = docker.minted + 1, !.proxy = docker.minted + 1, !.ports = opts.ports]
  BY DEF RunProxy
<1>4. docker' \in Docker
  BY <1>1, <1>2, <1>3 DEF Docker
<1>5. /\ docker'.box = docker.box /\ docker'.proxy = docker.minted + 1 /\ docker'.minted = docker.minted + 1
  BY <1>1, <1>3 DEF Docker
<1> QED
  BY <1>1, <1>4, <1>5 DEF DockerTyped

LEMMA HaltBoxTyped ==
  ASSUME DockerTyped(docker), HaltBox
  PROVE  /\ DockerTyped(docker') /\ docker'.proxy = docker.proxy
         /\ docker'.box.st = IF docker.box.st = "running" THEN "stopped" ELSE docker.box.st
         /\ docker'.box.net = docker.box.net /\ docker'.box.lost = docker.box.lost
         /\ docker'.box.at = docker.box.at /\ docker'.box.harmed = docker.box.harmed
<1>1. docker \in Docker /\ docker.proxy <= docker.minted /\ docker.box.net <= docker.minted
  BY DEF DockerTyped
<1>2. docker' \in Docker
  BY <1>1 DEF HaltBox, Docker, Box
<1>3. /\ docker'.proxy = docker.proxy /\ docker'.minted = docker.minted
      /\ docker'.box.st = IF docker.box.st = "running" THEN "stopped" ELSE docker.box.st
      /\ docker'.box.net = docker.box.net /\ docker'.box.lost = docker.box.lost
      /\ docker'.box.at = docker.box.at /\ docker'.box.harmed = docker.box.harmed
  BY <1>1 DEF HaltBox, Docker, Box
<1> QED
  BY <1>1, <1>2, <1>3 DEF DockerTyped

\* A teardown of the box has failed, or not.
LEMMA HarmTyped ==
  ASSUME NEW d, DockerTyped(d), NEW h \in BOOLEAN
  PROVE  LET e == [d EXCEPT !.box.harmed = h]
         IN  /\ DockerTyped(e) /\ e.proxy = d.proxy /\ e.box.harmed = h
             /\ e.box.st = d.box.st /\ e.box.net = d.box.net /\ e.box.lost = d.box.lost
             /\ e.box.at = d.box.at
<1> DEFINE e == [d EXCEPT !.box.harmed = h]
<1>1. d \in Docker /\ d.proxy <= d.minted /\ d.box.net <= d.minted /\ (d.box.st = "none" <=> d.box.net = 0)
  BY DEF DockerTyped
<1>2. /\ e \in Docker /\ e.proxy = d.proxy /\ e.minted = d.minted /\ e.box.harmed = h
      /\ e.box.st = d.box.st /\ e.box.net = d.box.net /\ e.box.lost = d.box.lost /\ e.box.at = d.box.at
  BY <1>1 DEF Docker, Box
<1> QED
  BY <1>1, <1>2 DEF DockerTyped

LEMMA NoProxyTyped ==
  ASSUME NEW d, DockerTyped(d)
  PROVE  DockerTyped(NoProxy(d)) /\ NoProxy(d).box = d.box /\ NoProxy(d).proxy = 0
<1>1. d \in Docker /\ d.minted \in Nat /\ d.box.net <= d.minted
  BY LifecycleAssumption DEF DockerTyped, Docker
<1>2. NoProxy(d) \in Docker /\ NoProxy(d).box = d.box /\ NoProxy(d).proxy = 0 /\ NoProxy(d).minted = d.minted
  BY <1>1 DEF Docker, NoProxy
<1> QED
  BY <1>1, <1>2 DEF DockerTyped

LEMMA GoneBoxTyped ==
  ASSUME DockerTyped(docker), docker' = [docker EXCEPT !.box = NoBox]
  PROVE  DockerTyped(docker') /\ docker'.proxy = docker.proxy /\ docker'.box.st = "none"
<1>1. docker \in Docker /\ docker.minted \in Nat /\ docker.proxy <= docker.minted
  BY LifecycleAssumption DEF DockerTyped, Docker
<1>2. NoBox \in Box /\ NoBox.st = "none" /\ NoBox.net = 0
  BY DEF Box, NoBox
<1>3. /\ docker' \in Docker /\ docker'.box = NoBox /\ docker'.proxy = docker.proxy
      /\ docker'.minted = docker.minted
  BY <1>1, <1>2 DEF Docker
<1> QED
  BY <1>1, <1>2, <1>3 DEF DockerTyped

-------------------------------------------------------------------------------

\* A step is passed over and nothing happened: docker rm because the box runs.
LEMMA NothingDoneKept ==
  ASSUME Typed, NEW p \in Procs,
         NEW a \in {"Seed", "RmBox", "StopProxy", "RmState", "Release", "RmBranch", "SaveResume"},
         At(p, a), PassOver(p), UNCHANGED <<docker, disk>>,
         a = "RmBox" => docker.box.st = "running"
  PROVE  GoesOn(p)
<1> DEFINE later == Range(Rest(p))
<1>1. ASSUME World(docker, disk), Right(docker, disk, proc[p], proc[p].missed, {a} \cup later), Fine(a, later)
      PROVE  World(docker', disk') /\ Right(docker', disk', proc[p], proc[p].missed \cup {a}, later)
  BY <1>1 DEF World, Right, Fine, Free, CleanedSoFar
<1> QED
  BY <1>1, PassKept DEF Typed

\* A step is passed over and the box is marked as harmed, if there is one.
LEMMA HarmKept ==
  ASSUME Typed, NEW p \in Procs, NEW a \in {"KillProxy", "StopBox", "RmBox", "Delete"}, At(p, a),
         PassOver(p), UNCHANGED disk, NEW h \in BOOLEAN, docker' = [docker EXCEPT !.box.harmed = h],
         docker.box.harmed \/ docker.box.st # "none" => h
  PROVE  GoesOn(p)
<1> DEFINE later == Range(Rest(p))
<1>1. /\ DockerTyped(docker') /\ docker'.proxy = docker.proxy /\ docker'.box.harmed = h
      /\ docker'.box.st = docker.box.st
  BY HarmTyped DEF Typed
<1>2. ASSUME World(docker, disk), Right(docker, disk, proc[p], proc[p].missed, {a} \cup later), Fine(a, later)
      PROVE  World(docker', disk') /\ Right(docker', disk', proc[p], proc[p].missed \cup {a}, later)
  <2>1. World(docker', disk') /\ Free(docker', disk') /\ Gated(docker')
    BY <1>1 DEF World, Gated, Free
  <2> QED
    BY <1>1, <1>2, <2>1 DEF Right, Fine, CleanedSoFar
<1> QED
  BY <1>1, <1>2, PassKept DEF Typed

\* The steps of a teardown, done or passed over.
LEMMA SeedKept == ASSUME Typed, NEW p \in Procs, Seed(p) PROVE GoesOn(p)
<1> DEFINE later == Range(Rest(p))
<1>1. At(p, "Seed")
  BY DEF Seed
<1>2. CASE Done(p) /\ disk' = [disk EXCEPT !.state = IF @ = "none" THEN "seed" ELSE @] /\ UNCHANGED docker
  <2>1. docker' = docker /\ disk'.range = disk.range /\ disk'.record = disk.record /\ disk' \in Disk
    BY <1>2 DEF Typed, Disk
  <2>2. ASSUME World(docker, disk), Right(docker, disk, proc[p], proc[p].missed, {"Seed"} \cup later), Fine("Seed", later)
        PROVE  World(docker', disk') /\ Right(docker', disk', proc[p], proc[p].missed, later)
    BY <2>1, <2>2 DEF World, Right, Free, CleanedSoFar
  <2> QED
    BY <1>1, <1>2, <2>1, <2>2, DoneKept DEF Typed
<1>3. CASE Fail(p)
  BY <1>1, <1>3, FailKept DEF Fallible
<1>4. CASE PassOver(p) /\ UNCHANGED <<docker, disk>>
  BY <1>1, <1>4, NothingDoneKept
<1> QED
  BY <1>2, <1>3, <1>4 DEF Seed

\* A step of a teardown on disk, done.
LEMMA DiskStepKept ==
  ASSUME Typed, NEW p \in Procs, NEW a \in {"RmState", "Release", "RmBranch"}, At(p, a), Done(p),
         docker' = docker, disk' \in Disk, disk'.record = disk.record,
         a = "RmState" => disk'.state = "none", a # "RmState" => disk'.state = disk.state,
         a = "Release" => ~disk'.range, a # "Release" => disk'.range = disk.range
  PROVE  GoesOn(p)
<1> DEFINE later == Range(Rest(p))
<1>1. ASSUME World(docker, disk), Right(docker, disk, proc[p], proc[p].missed, {a} \cup later), Fine(a, later)
      PROVE  World(docker', disk') /\ Right(docker', disk', proc[p], proc[p].missed, later)
  <2>1. CASE a = "Release"
    BY <1>1, <2>1 DEF World, Right, Fine, Free, CleanedSoFar
  <2>2. CASE a # "Release"
    BY <1>1, <2>2 DEF World, Right, Fine, Free, CleanedSoFar
  <2> QED
    BY <2>1, <2>2
<1> QED
  BY <1>1, DoneKept DEF Typed

LEMMA RmStateKept == ASSUME Typed, NEW p \in Procs, RmState(p) PROVE GoesOn(p)
<1>1. disk \in Disk
  BY DEF Typed
<1>2. CASE disk' = [disk EXCEPT !.state = "none"] /\ Done(p)
  <2>1. disk' \in Disk /\ disk'.record = disk.record /\ disk'.state = "none" /\ disk'.range = disk.range
    BY <1>1, <1>2 DEF Disk
  <2> QED
    BY <1>1, <1>2, <2>1, DiskStepKept DEF RmState, KeepDocker
<1>3. CASE UNCHANGED disk /\ PassOver(p)
  BY <1>3, NothingDoneKept DEF RmState, KeepDocker
<1> QED
  BY <1>2, <1>3 DEF RmState

LEMMA ReleaseKept == ASSUME Typed, NEW p \in Procs, Release(p) PROVE GoesOn(p)
<1>1. disk \in Disk
  BY DEF Typed
<1>2. CASE disk' = [disk EXCEPT !.range = FALSE] /\ Done(p)
  <2>1. disk' \in Disk /\ disk'.record = disk.record /\ disk'.state = disk.state /\ disk'.range = FALSE
    BY <1>1, <1>2 DEF Disk
  <2> QED
    BY <1>2, <2>1, DiskStepKept DEF Release, KeepDocker
<1>3. CASE UNCHANGED disk /\ PassOver(p)
  BY <1>3, NothingDoneKept DEF Release, KeepDocker
<1> QED
  BY <1>2, <1>3 DEF Release

LEMMA RmBranchKept == ASSUME Typed, NEW p \in Procs, RmBranch(p) PROVE GoesOn(p)
<1> DEFINE branch == disk.branch /\ ~(proc[p].seen.found /\ proc[p].seen.wt)
<1>1. disk \in Disk
  BY DEF Typed
<1>2. CASE disk' = [disk EXCEPT !.branch = branch] /\ Done(p)
  <2>1. branch \in BOOLEAN
    OBVIOUS
  <2> HIDE DEF branch
  <2>2. disk' \in Disk /\ disk'.record = disk.record /\ disk'.state = disk.state /\ disk'.range = disk.range
    BY <1>1, <1>2, <2>1 DEF Disk
  <2> QED
    BY <1>1, <1>2, <2>2, DiskStepKept DEF RmBranch, KeepDocker
<1>3. CASE UNCHANGED disk /\ PassOver(p)
  BY <1>3, NothingDoneKept DEF RmBranch, KeepDocker
<1> QED
  BY <1>2, <1>3 DEF RmBranch

LEMMA DeleteKept == ASSUME Typed, NEW p \in Procs, Delete(p) PROVE GoesOn(p)
<1> DEFINE later == Range(Rest(p))
           harmed == docker.box.harmed \/ docker.box.st # "none"
<1>1. At(p, "Delete")
  BY DEF Delete
<1>2. CASE disk' = [disk EXCEPT !.record = NoRecord] /\ UNCHANGED docker /\ Done(p)
  <2>1. /\ disk'.range = disk.range /\ disk'.state = disk.state /\ ~disk'.record.found /\ disk' \in Disk
    BY <1>2 DEF Typed, Disk, Recorded, NoRecord
  <2>2. ASSUME World(docker, disk), Right(docker, disk, proc[p], proc[p].missed, {"Delete"} \cup later), Fine("Delete", later)
        PROVE  World(docker', disk') /\ Right(docker', disk', proc[p], proc[p].missed, later)
    BY <1>2, <2>1, <2>2 DEF World, Right, Fine, Free, CleanedSoFar
  <2> QED
    BY <1>1, <1>2, <2>1, <2>2, DoneKept DEF Typed
<1>3. CASE UNCHANGED disk /\ PassOver(p) /\ docker' = [docker EXCEPT !.box.harmed = harmed]
  <2>1. harmed \in BOOLEAN
    BY DEF Typed, DockerTyped, Docker, Box
  <2>2. (docker.box.harmed \/ docker.box.st # "none") => harmed
    OBVIOUS
  <2> HIDE DEF harmed
  <2> QED
    BY <1>1, <1>3, <2>1, <2>2, HarmKept
<1> QED
  BY <1>2, <1>3 DEF Delete

\* A launch that comes upon a box takes its proxy from it, or tries to.
LEMMA KillProxyKept == ASSUME Typed, NEW p \in Procs, KillProxy(p) PROVE GoesOn(p)
<1> DEFINE later == Range(Rest(p))
           harmed == docker.box.harmed \/ docker.box.st # "none"
           found == [docker EXCEPT !.box.harmed = harmed]
<1>1. At(p, "KillProxy") /\ disk' = disk
  BY DEF KillProxy, KeepDisk
<1>2. harmed \in BOOLEAN
  BY DEF Typed, DockerTyped, Docker, Box
<1>3. docker.box.harmed \/ docker.box.st # "none" => harmed
  OBVIOUS
<1>4. (docker' = NoProxy(found) /\ Done(p)) \/ (docker' = found /\ PassOver(p))
  BY DEF KillProxy
<1> HIDE DEF harmed
<1>5. /\ DockerTyped(found) /\ found.box.harmed = harmed
      /\ found.box.st = docker.box.st /\ found.box.at = docker.box.at
  BY <1>2, HarmTyped DEF Typed
<1> HIDE DEF found
<1>6. DockerTyped(docker') /\ docker'.box = found.box
  BY <1>4, <1>5, NoProxyTyped
<1>7. ASSUME World(docker, disk), Right(docker, disk, proc[p], proc[p].missed, {"KillProxy"} \cup later),
             Fine("KillProxy", later)
      PROVE  World(docker', disk') /\ Right(docker', disk', proc[p], proc[p].missed, later)
  <2>1. docker'.box.st # "none" => docker'.box.harmed
    BY <1>3, <1>5, <1>6
  <2>2. World(docker', disk') /\ Free(docker', disk')
    BY <1>1, <2>1 DEF World, Gated, Free
  <2>3. ~(proc[p].cmd \in Launchers /\ proc[p].auto /\ proc[p].out \in {"detach", "quit", "exit"})
    BY <1>7 DEF Right, CleanedSoFar
  <2> QED
    BY <1>1, <1>7, <2>1, <2>2, <2>3 DEF Right, Fine
<1>8. CASE Done(p)
  BY <1>1, <1>5, <1>6, <1>7, <1>8, DoneKept DEF Typed
<1>9. CASE docker' = found /\ PassOver(p)
  BY <1>1, <1>2, <1>3, <1>9, HarmKept DEF found
<1> QED
  BY <1>4, <1>8, <1>9

LEMMA StopProxyKept == ASSUME Typed, NEW p \in Procs, StopProxy(p) PROVE GoesOn(p)
<1> DEFINE later == Range(Rest(p))
<1>1. At(p, "StopProxy") /\ disk' = disk
  BY DEF StopProxy, KeepDisk
<1>2. CASE docker' = NoProxy(docker) /\ Done(p)
  <2>1. DockerTyped(docker') /\ docker'.box = docker.box /\ docker'.proxy = 0
    BY <1>2, NoProxyTyped DEF Typed
  <2>2. ASSUME World(docker, disk), Right(docker, disk, proc[p], proc[p].missed, {"StopProxy"} \cup later),
               Fine("StopProxy", later)
        PROVE  World(docker', disk') /\ Right(docker', disk', proc[p], proc[p].missed, later)
    BY <1>1, <2>1, <2>2 DEF World, Right, Fine, Free, Gated, CleanedSoFar
  <2> QED
    BY <1>1, <1>2, <2>1, <2>2, DoneKept DEF Typed
<1>3. CASE UNCHANGED docker /\ PassOver(p)
  BY <1>1, <1>3, NothingDoneKept
<1> QED
  BY <1>2, <1>3 DEF StopProxy

LEMMA StopBoxKept == ASSUME Typed, NEW p \in Procs, StopBox(p) PROVE GoesOn(p)
<1> DEFINE later == Range(Rest(p))
<1>1. At(p, "StopBox") /\ disk' = disk
  BY DEF StopBox, KeepDisk
<1>2. CASE HaltBox /\ Done(p)
  <2>1. /\ DockerTyped(docker') /\ docker'.proxy = docker.proxy
        /\ docker'.box.st = IF docker.box.st = "running" THEN "stopped" ELSE docker.box.st
        /\ docker'.box.net = docker.box.net /\ docker'.box.lost = docker.box.lost
        /\ docker'.box.at = docker.box.at /\ docker'.box.harmed = docker.box.harmed
    BY <1>2, HaltBoxTyped DEF Typed
  <2>2. ASSUME World(docker, disk), Right(docker, disk, proc[p], proc[p].missed, {"StopBox"} \cup later),
               Fine("StopBox", later)
        PROVE  World(docker', disk') /\ Right(docker', disk', proc[p], proc[p].missed, later)
    BY <1>1, <2>1, <2>2 DEF World, Right, Fine, Free, Gated, CleanedSoFar
  <2> QED
    BY <1>1, <1>2, <2>1, <2>2, DoneKept DEF Typed
<1>3. CASE Harm /\ PassOver(p)
  BY <1>1, <1>3, HarmKept DEF Harm
<1> QED
  BY <1>2, <1>3 DEF StopBox

LEMMA RmBoxKept == ASSUME Typed, NEW p \in Procs, RmBox(p) PROVE GoesOn(p)
<1> DEFINE later == Range(Rest(p))
<1>1. At(p, "RmBox") /\ disk' = disk
  BY DEF RmBox, KeepDisk
<1>2. CASE docker' = [docker EXCEPT !.box = NoBox] /\ Done(p)
  <2>1. DockerTyped(docker') /\ docker'.proxy = docker.proxy /\ docker'.box.st = "none"
    BY <1>2, GoneBoxTyped DEF Typed
  <2>2. ASSUME World(docker, disk), Right(docker, disk, proc[p], proc[p].missed, {"RmBox"} \cup later),
               Fine("RmBox", later)
        PROVE  World(docker', disk') /\ Right(docker', disk', proc[p], proc[p].missed, later)
    BY <1>1, <2>1, <2>2 DEF World, Right, Fine, Free, Gated, CleanedSoFar
  <2> QED
    BY <1>1, <1>2, <2>1, <2>2, DoneKept DEF Typed
<1>3. CASE Harm /\ PassOver(p)
  BY <1>1, <1>3, HarmKept DEF Harm
<1>4. CASE docker.box.st = "running" /\ UNCHANGED docker /\ PassOver(p)
  BY <1>1, <1>4, NothingDoneKept
<1> QED
  BY <1>2, <1>3, <1>4 DEF RmBox

-------------------------------------------------------------------------------

\* The launch.

LEMMA CheckNameKept == ASSUME Typed, NEW p \in Procs, CheckName(p) PROVE GoesOn(p)
<1> DEFINE later == Range(Rest(p))
<1>1. CASE disk.record.found
  BY <1>1, FailKept DEF CheckName, Fallible
<1>2. CASE ~disk.record.found
  <2>1. docker' = docker /\ disk' = disk /\ Done(p)
    BY <1>2 DEF CheckName
  <2>2. ASSUME World(docker, disk), Right(docker, disk, proc[p], proc[p].missed, {"CheckName"} \cup later), Fine("CheckName", later)
        PROVE  World(docker', disk') /\ Right(docker', disk', proc[p], proc[p].missed, later)
    BY <1>2, <2>1, <2>2 DEF Right, Free, CleanedSoFar
  <2> QED
    BY <2>1, <2>2, DoneKept DEF CheckName, Typed
<1> QED
  BY <1>1, <1>2

LEMMA ClaimKept == ASSUME Typed, NEW p \in Procs, Claim(p) PROVE GoesOn(p)
<1> DEFINE later == Range(Rest(p))
           mine == proc[p].mine \cup {"range"}
           me == [proc[p] EXCEPT !.mine = mine]
<1>1. CASE DoneOwning(p, "range") /\ disk' = [disk EXCEPT !.range = TRUE] /\ UNCHANGED docker
  <2>1. proc[p] \in Invocation /\ disk \in Disk
    BY AboutTo DEF Claim, Typed
  <2>2. /\ docker' = docker /\ disk'.state = disk.state /\ disk'.record = disk.record /\ disk'.range
        /\ disk' \in Disk
    BY <1>1, <2>1 DEF Disk
  <2>3. /\ me.mine = mine /\ me.cmd = proc[p].cmd /\ me.auto = proc[p].auto
        /\ me.out = proc[p].out /\ me.seen = proc[p].seen /\ "range" \in me.mine
    BY <2>1 DEF Invocation
  <2> HIDE DEF me, mine
  <2>4. ASSUME World(docker, disk), Right(docker, disk, proc[p], proc[p].missed, {"Claim"} \cup later), Fine("Claim", later)
        PROVE  World(docker', disk') /\ Right(docker', disk', me, proc[p].missed, later)
    <3>1. World(docker', disk')
      BY <2>2, <2>4 DEF World
    <3>2. Right(docker', disk', me, proc[p].missed, later)
      BY <2>2, <2>3, <2>4 DEF Right, Fine, Free, Gated, CleanedSoFar
    <3> QED
      BY <3>1, <3>2
  <2>5. At(p, "Claim") /\ DoneOwning(p, "range") /\ "range" \in Things /\ DockerTyped(docker')
    BY <1>1, <2>2 DEF Claim, Things, Typed
  <2>6. /\ "Claim" = "StartBox" => docker.box.st = "none"
        /\ docker'.box.st = "none" <=> docker.box.st = "none" /\ "Claim" # "StartBox"
    BY <2>2
  <2> QED
    BY <2>2, <2>4, <2>5, <2>6, OwnKept DEF me, mine
<1>2. CASE Fail(p)
  BY <1>2, FailKept DEF Claim, Fallible
<1> QED
  BY <1>1, <1>2 DEF Claim

LEMMA EnsureProxyKept == ASSUME Typed, NEW p \in Procs, EnsureProxy(p) PROVE GoesOn(p)
<1> DEFINE later == Range(Rest(p))
<1>1. /\ Sound(Rest(p), {}) /\ Rest(p) \in Seq(ListedSteps) /\ Fine("EnsureProxy", later)
  BY AboutTo DEF EnsureProxy
<1>2. docker' = docker /\ disk' = disk
  BY DEF EnsureProxy, KeepWorld
<1>3. CASE ProxyIsRunning
  <2>1. <<>> \o Rest(p) = Rest(p)
    BY <1>1
  <2>2. Done(p)
    BY <1>3, <2>1 DEF EnsureProxy, Done
  <2>3. ASSUME World(docker, disk), Right(docker, disk, proc[p], proc[p].missed, {"EnsureProxy"} \cup later), Fine("EnsureProxy", later)
        PROVE  World(docker', disk') /\ Right(docker', disk', proc[p], proc[p].missed, later)
    BY <1>2, <2>3 DEF Right, Fine, CleanedSoFar
  <2> QED
    BY <1>2, <2>2, <2>3, DoneKept DEF EnsureProxy, Typed
<1>4. CASE ~ProxyIsRunning
  <2> DEFINE s == <<"StartProxy", "AwaitReady">> \o Rest(p)
  <2>1. Sound(<<"StartProxy", "AwaitReady">>, later \cup {})
    <3>1. later \cup {} = later
      OBVIOUS
    <3> QED
      BY <1>1, <3>1, StartProxySound
  <2>2. Sound(s, {}) /\ Range(s) = {"StartProxy", "AwaitReady"} \cup later
    BY <1>1, <2>1, StartProxySound, SoundConcat
  <2>3. Goto(p, s)
    BY <1>4 DEF EnsureProxy
  <2> HIDE DEF s
  <2>4. ASSUME World(docker, disk), Right(docker, disk, proc[p], proc[p].missed, {"EnsureProxy"} \cup later)
        PROVE  World(docker', disk') /\ Right(docker', disk', proc[p], proc[p].missed, Range(s))
    BY <1>1, <1>2, <2>2, <2>4 DEF Right, Fine, CleanedSoFar, Early
  <2>5. Follows({"EnsureProxy"} \cup later, Range(s), proc[p].cmd, docker.box.st, docker'.box.st)
    BY <1>1, <1>2, <2>2 DEF Follows, Fine
  <2>6. At(p, "EnsureProxy") /\ DockerTyped(docker') /\ disk' \in Disk
    BY <1>2 DEF EnsureProxy, Typed
  <2> QED
    BY <2>2, <2>3, <2>4, <2>5, <2>6, GotoKept
<1> QED
  BY <1>3, <1>4

LEMMA StartProxyKept == ASSUME Typed, NEW p \in Procs, StartProxy(p) PROVE GoesOn(p)
<1> DEFINE later == Range(Rest(p))
           opts == Resolved([ports |-> "range" \in proc[p].mine])
<1>1. CASE RunProxy(opts) /\ disk' = [disk EXCEPT !.state = IF @ = "none" THEN "seed" ELSE @] /\ Done(p)
  <2>1. opts.ports \in BOOLEAN
    BY DEF Resolved
  <2> HIDE DEF opts
  <2>2. DockerTyped(docker') /\ docker'.box = docker.box /\ docker.proxy = 0
    BY <1>1, <2>1, RunProxyTyped DEF Typed
  <2>3. disk' \in Disk /\ disk'.range = disk.range /\ disk'.record = disk.record
    BY <1>1 DEF Typed, Disk
  <2>4. ASSUME World(docker, disk), Right(docker, disk, proc[p], proc[p].missed, {"StartProxy"} \cup later), Fine("StartProxy", later)
        PROVE  World(docker', disk') /\ Right(docker', disk', proc[p], proc[p].missed, later)
    <3>1. docker.box.st = "running" => docker.box.net # 0
      BY DEF Typed, DockerTyped
    <3>2. Gated(docker) => Gated(docker')
      BY <2>2, <3>1 DEF Gated
    <3>3. World(docker', disk')
      BY <2>2, <2>3, <2>4, <3>2 DEF World
    <3>4. Right(docker', disk', proc[p], proc[p].missed, later)
      BY <2>2, <2>3, <2>4, <3>2 DEF Right, Fine, Free, CleanedSoFar
    <3> QED
      BY <3>3, <3>4
  <2> QED
    BY <1>1, <2>2, <2>3, <2>4, DoneKept DEF StartProxy
<1>2. CASE Fail(p)
  BY <1>2, FailKept DEF StartProxy, Fallible
<1> QED
  BY <1>1, <1>2 DEF StartProxy

LEMMA AwaitReadyKept == ASSUME Typed, NEW p \in Procs, AwaitReady(p) PROVE GoesOn(p)
<1> DEFINE later == Range(Rest(p))
<1>1. CASE Done(p) /\ UNCHANGED <<docker, disk>>
  <2>1. ASSUME World(docker, disk), Right(docker, disk, proc[p], proc[p].missed, {"AwaitReady"} \cup later), Fine("AwaitReady", later)
        PROVE  World(docker', disk') /\ Right(docker', disk', proc[p], proc[p].missed, later)
    BY <1>1, <2>1 DEF Right, Fine, CleanedSoFar
  <2> QED
    BY <1>1, <2>1, DoneKept DEF AwaitReady, Typed
<1>2. CASE Fail(p)
  BY <1>2, FailKept DEF AwaitReady, Fallible
<1> QED
  BY <1>1, <1>2 DEF AwaitReady

LEMMA AwaitTokenKept == ASSUME Typed, NEW p \in Procs, AwaitToken(p) PROVE GoesOn(p)
<1> DEFINE later == Range(Rest(p))
           mine == proc[p].mine \cup {"proxy"}
           me == [proc[p] EXCEPT !.mine = mine]
<1>1. CASE DoneOwning(p, "proxy") /\ UNCHANGED <<docker, disk>>
  <2>1. proc[p] \in Invocation
    BY AboutTo DEF AwaitToken
  <2>2. /\ me.mine = mine /\ me.cmd = proc[p].cmd /\ me.auto = proc[p].auto
        /\ me.out = proc[p].out /\ me.seen = proc[p].seen /\ proc[p].mine \subseteq me.mine
    BY <2>1 DEF Invocation
  <2> HIDE DEF me, mine
  <2>3. ASSUME World(docker, disk), Right(docker, disk, proc[p], proc[p].missed, {"AwaitToken"} \cup later), Fine("AwaitToken", later)
        PROVE  World(docker', disk') /\ Right(docker', disk', me, proc[p].missed, later)
    <3>1. "range" \in proc[p].mine
      BY <2>3 DEF Right, Fine, Early
    <3> QED
      BY <1>1, <2>2, <2>3, <3>1 DEF Right, Fine, CleanedSoFar
  <2>4. /\ At(p, "AwaitToken") /\ DoneOwning(p, "proxy") /\ "proxy" \in Things
        /\ DockerTyped(docker') /\ disk' \in Disk /\ docker' = docker
    BY <1>1 DEF AwaitToken, Things, Typed
  <2>5. /\ "AwaitToken" = "StartBox" => docker.box.st = "none"
        /\ docker'.box.st = "none" <=> docker.box.st = "none" /\ "AwaitToken" # "StartBox"
    BY <2>4
  <2> QED
    BY <2>3, <2>4, <2>5, OwnKept DEF me, mine
<1>2. CASE Fail(p)
  BY <1>2, FailKept DEF AwaitToken, Fallible
<1> QED
  BY <1>1, <1>2 DEF AwaitToken

LEMMA StartBoxKept == ASSUME Typed, NEW p \in Procs, StartBox(p) PROVE GoesOn(p)
<1> DEFINE later == Range(Rest(p))
           mine == proc[p].mine \cup {"box"}
           me == [proc[p] EXCEPT !.mine = mine]
           at == IF proc[p].wt THEN "tree" ELSE "repo"
<1>1. CASE RunBox(at) /\ disk' = [disk EXCEPT !.branch = @ \/ proc[p].wt] /\ DoneOwning(p, "box")
  <2>1. proc[p] \in Invocation /\ disk \in Disk
    BY AboutTo DEF StartBox, Typed
  <2>2. /\ disk' \in Disk /\ disk'.state = disk.state /\ disk'.range = disk.range /\ disk'.record = disk.record
    BY <1>1, <2>1 DEF Disk, Invocation
  <2>3. /\ me.mine = mine /\ me.cmd = proc[p].cmd /\ me.auto = proc[p].auto
        /\ me.out = proc[p].out /\ me.seen = proc[p].seen
        /\ "box" \in me.mine /\ proc[p].mine \subseteq me.mine
    BY <2>1 DEF Invocation
  <2>4. /\ DockerTyped(docker') /\ docker'.box.st = "running" /\ docker'.box.net = docker'.proxy
    BY <1>1, RunBoxTyped DEF Typed
  <2> HIDE DEF me, mine
  <2>5. ASSUME World(docker, disk), Right(docker, disk, proc[p], proc[p].missed, {"StartBox"} \cup later), Fine("StartBox", later)
        PROVE  World(docker', disk') /\ Right(docker', disk', me, proc[p].missed, later)
    <3>1. later = {"Save", "Session"} /\ "range" \in proc[p].mine /\ disk.range
      BY <2>5 DEF Right, Fine
    <3>2. World(docker', disk')
      BY <2>2, <2>4, <3>1 DEF World, Gated
    <3>3. ~(me.cmd \in Launchers /\ me.auto /\ me.out \in {"detach", "quit", "exit"})
      BY <2>3, <2>5 DEF Right, CleanedSoFar
    <3>4. Right(docker', disk', me, proc[p].missed, later)
      BY <2>2, <2>3, <2>4, <3>1, <3>3 DEF Right, Gated, Early
    <3> QED
      BY <3>2, <3>4
  <2>6. At(p, "StartBox") /\ DoneOwning(p, "box") /\ "box" \in Things /\ docker.box.st = "none"
    BY <1>1 DEF StartBox, Things, RunBox
  <2> QED
    BY <2>2, <2>4, <2>5, <2>6, OwnKept DEF me, mine
<1>2. CASE Fail(p)
  BY <1>2, FailKept DEF StartBox, Fallible
<1> QED
  BY <1>1, <1>2 DEF StartBox

LEMMA SaveKept == ASSUME Typed, NEW p \in Procs, Save(p) PROVE GoesOn(p)
<1> DEFINE later == Range(Rest(p))
           record == [found |-> TRUE, auto |-> proc[p].auto, wt |-> proc[p].wt]
<1>1. CASE disk' = [disk EXCEPT !.record = record] /\ Done(p) /\ UNCHANGED docker
  <2>1. proc[p] \in Invocation /\ disk \in Disk
    BY AboutTo DEF Save, Typed
  <2>2. record \in Recorded
    BY <2>1 DEF Invocation, Recorded
  <2>3. disk' \in Disk /\ disk'.range = disk.range
    BY <1>1, <2>1, <2>2 DEF Disk
  <2>4. ASSUME World(docker, disk), Right(docker, disk, proc[p], proc[p].missed, {"Save"} \cup later), Fine("Save", later)
        PROVE  World(docker', disk') /\ Right(docker', disk', proc[p], proc[p].missed, later)
    <3>1. later = {"Session"} /\ disk.range /\ Gated(docker)
      BY <2>4 DEF Right, Fine
    <3>2. World(docker', disk')
      BY <1>1, <2>3, <3>1 DEF World
    <3>3. ~(proc[p].cmd \in Launchers /\ proc[p].auto /\ proc[p].out \in {"detach", "quit", "exit"})
      BY <2>4 DEF Right, CleanedSoFar
    <3>4. Right(docker', disk', proc[p], proc[p].missed, later)
      BY <2>4, <3>1, <3>3 DEF Right, Early
    <3> QED
      BY <3>2, <3>4
  <2>5. At(p, "Save") /\ Done(p) /\ DockerTyped(docker') /\ docker' = docker
    BY <1>1 DEF Save, Typed
  <2> QED
    BY <2>3, <2>4, <2>5, DoneKept
<1>2. CASE Fail(p)
  BY <1>2, FailKept DEF Save, Fallible
<1> QED
  BY <1>1, <1>2 DEF Save

-------------------------------------------------------------------------------

\* Attaching and the terminal.

\* Nothing is left to do.
LEMMA NothingLeft ==
  ASSUME NEW me, me.out \in {"failed", "killed"} \/ me.cmd \notin Launchers, me.mine = {} \/ "range" \in me.mine,
         NEW d, NEW k
  PROVE  Right(d, k, me, me.missed, {})
  BY DEF Right

\* A step of a command that cleans nothing up: nothing happened, and seen is the record.
LEMMA SeenKept ==
  ASSUME Typed, NEW p \in Procs, NEW a \in {"Lookup", "Read"}, At(p, a), UNCHANGED <<docker, disk>>,
         proc' = [proc EXCEPT ![p].todo = Rest(p), ![p].seen = disk.record]
  PROVE  GoesOn(p)
<1> DEFINE later == Range(Rest(p))
           me == [proc[p] EXCEPT !.todo = Rest(p), !.seen = disk.record]
<1>1. /\ proc[p] \in Invocation /\ proc[p].cmd # "none"
      /\ Sound(Rest(p), {}) /\ Rest(p) \in Seq(ListedSteps)
      /\ Fine(a, later) /\ Range(proc[p].todo) = {a} \cup later /\ disk.record \in Recorded
  BY AboutTo DEF Typed, Disk
<1>2. /\ me \in Invocation /\ me.todo = Rest(p) /\ me.cmd = proc[p].cmd /\ me.mine = proc[p].mine
      /\ me.missed = proc[p].missed /\ me.auto = proc[p].auto /\ me.out = proc[p].out
  BY <1>1 DEF Invocation
<1>3. proc' = [proc EXCEPT ![p] = me]
  OBVIOUS
<1> HIDE DEF me
<1>4. "EnsureBox" \in later => me.cmd \notin Launchers
  BY <1>1, <1>2, AboutTo
<1>5. ASSUME World(docker, disk), Right(docker, disk, proc[p], proc[p].missed, {a} \cup later)
      PROVE  Right(docker, disk, me, me.missed, later)
  <2>1. ~(me.cmd \in Launchers /\ me.auto /\ me.out \in {"detach", "quit", "exit"})
    BY <1>2, <1>5 DEF Right, CleanedSoFar
  <2> QED
    BY <1>1, <1>2, <1>5, <2>1 DEF Right, Fine
<1>6. KeptBy(p, me)
  BY <1>1, <1>2, <1>3, <1>4, <1>5 DEF KeptBy, Typed
<1>7. Follows({a} \cup later, later, me.cmd, docker.box.st, docker'.box.st)
  BY DEF Follows
<1> QED
  BY <1>1, <1>2, <1>6, <1>7 DEF GoesOn

LEMMA LookupKept == ASSUME Typed, NEW p \in Procs, Lookup(p) PROVE GoesOn(p)
<1>1. UNCHANGED <<docker, disk>> /\ At(p, "Lookup")
  BY DEF Lookup, KeepWorld
<1>2. CASE disk.record.found
  BY <1>1, <1>2, SeenKept DEF Lookup, Rest
<1>3. CASE ~disk.record.found
  <2> DEFINE me == [proc[p] EXCEPT !.todo = <<>>, !.out = "failed"]
  <2>1. proc[p] \in Invocation /\ proc[p].cmd # "none" /\ Range(proc[p].todo) = {"Lookup"} \cup Range(Rest(p))
    BY <1>1, AboutTo
  <2>2. me \in Invocation /\ me.todo = <<>> /\ me.cmd = proc[p].cmd /\ me.out = "failed" /\ me.mine = proc[p].mine
    <3>1. <<>> \in Seq(ListedSteps)
      BY SoundNil DEF Sound
    <3> QED
      BY <2>1, <3>1 DEF Invocation, Outs
  <2>3. proc' = [proc EXCEPT ![p] = me]
    BY <1>3 DEF Lookup
  <2> HIDE DEF me
  <2>4. Sound(me.todo, {}) /\ Range(me.todo) = {}
    BY <2>2, SoundNil
  <2>5. ASSUME Right(docker, disk, proc[p], proc[p].missed, Range(proc[p].todo))
        PROVE  Right(docker, disk, me, me.missed, {})
    BY <2>2, <2>5, NothingLeft DEF Right
  <2>6. KeptBy(p, me)
    BY <1>1, <2>1, <2>2, <2>3, <2>4, <2>5 DEF KeptBy, Typed
  <2>7. Follows(Range(proc[p].todo), Range(me.todo), me.cmd, docker.box.st, docker'.box.st)
    BY <2>4 DEF Follows
  <2> QED
    BY <2>1, <2>2, <2>6, <2>7 DEF GoesOn
<1> QED
  BY <1>2, <1>3

LEMMA ReadKept == ASSUME Typed, NEW p \in Procs, Read(p) PROVE GoesOn(p)
  BY SeenKept DEF Read, KeepWorld, Rest

\* docker start.
LEMMA RestartBoxKept ==
  ASSUME Typed, NEW p \in Procs, NEW a \in {"EnsureBox", "TuiBox"}, At(p, a), RestartBox(p)
  PROVE  GoesOn(p)
<1> DEFINE later == Range(Rest(p))
<1>1. CASE Fail(p)
  BY <1>1, FailKept DEF Fallible
<1>2. CASE ~Fail(p)
  <2>1. /\ docker \in Docker /\ docker.proxy # 0 /\ docker.proxy <= docker.minted
        /\ docker.box.st = "stopped" /\ DockerTyped(docker) /\ disk' = disk /\ Done(p)
        /\ docker' = [docker EXCEPT !.box.st = "running", !.box.net = docker.proxy, !.box.lost = FALSE]
    BY <1>2 DEF RestartBox, ProxyIsRunning, Namespace, Typed, DockerTyped
  <2>2. /\ docker' \in Docker /\ docker'.proxy = docker.proxy /\ docker'.minted = docker.minted
        /\ docker'.box.st = "running" /\ docker'.box.net = docker.proxy /\ docker'.box.at = docker.box.at
        /\ docker'.box.harmed = docker.box.harmed
    BY <2>1 DEF Docker, Box
  <2>3. DockerTyped(docker')
    BY <2>1, <2>2 DEF DockerTyped
  <2>4. ASSUME World(docker, disk), Right(docker, disk, proc[p], proc[p].missed, {a} \cup later), Fine(a, later)
        PROVE  World(docker', disk') /\ Right(docker', disk', proc[p], proc[p].missed, later)
    <3>1. World(docker', disk')
      BY <2>1, <2>2, <2>4 DEF World, Gated
    <3>2. later = {"Session"} /\ ~(proc[p].cmd \in Launchers /\ proc[p].auto /\ proc[p].out \in {"detach", "quit", "exit"})
      BY <2>4 DEF Right, Fine, CleanedSoFar
    <3> QED
      BY <2>4, <3>1, <3>2 DEF Right, Early
  <2> QED
    BY <2>1, <2>2, <2>3, <2>4, DoneKept DEF Typed
<1> QED
  BY <1>1, <1>2

LEMMA EnsureBoxKept == ASSUME Typed, NEW p \in Procs, EnsureBox(p) PROVE GoesOn(p)
<1> DEFINE later == Range(Rest(p))
           me == [proc[p] EXCEPT !.todo = Launch \o Rest(p), !.auto = proc[p].seen.auto]
<1>1. At(p, "EnsureBox")
  BY DEF EnsureBox
<1>2. /\ proc[p] \in Invocation /\ proc[p].cmd # "none" /\ Sound(Rest(p), {})
      /\ proc[p].cmd \notin Launchers /\ Fine("EnsureBox", later)
      /\ Range(proc[p].todo) = {"EnsureBox"} \cup later /\ later = {"Session"}
  BY <1>1, AboutTo DEF Fine
<1>3. CASE docker.box.st = "running" /\ Done(p) /\ UNCHANGED <<docker, disk>>
  <2>1. ASSUME World(docker, disk), Right(docker, disk, proc[p], proc[p].missed, {"EnsureBox"} \cup later), Fine("EnsureBox", later)
        PROVE  World(docker', disk') /\ Right(docker', disk', proc[p], proc[p].missed, later)
    BY <1>2, <1>3, <2>1 DEF Right, CleanedSoFar
  <2> QED
    BY <1>1, <1>3, <2>1, DoneKept DEF Typed
<1>4. CASE RestartBox(p)
  BY <1>1, <1>4, RestartBoxKept
<1>5. CASE /\ docker.box.st = "none"
           /\ proc' = [proc EXCEPT ![p].todo = Launch \o Tail(@), ![p].auto = proc[p].seen.auto]
           /\ UNCHANGED <<docker, disk>>
  <2>1. Sound(Launch, later \cup {})
    <3>1. later \cup {} = {"Session"}
      BY <1>2
    <3> QED
      BY <3>1, LaunchSound
  <2>2. /\ Sound(Launch \o Rest(p), {}) /\ Range(Launch \o Rest(p)) = Range(Launch) \cup {"Session"}
    BY <1>2, <2>1, SoundConcat
  <2>3. /\ me \in Invocation /\ me.todo = Launch \o Rest(p) /\ me.cmd = proc[p].cmd
        /\ me.mine = proc[p].mine /\ me.out = proc[p].out
    <3>1. Launch \o Rest(p) \in Seq(ListedSteps)
      BY <2>2 DEF Sound
    <3> QED
      BY <1>2, <3>1 DEF Invocation, Recorded
  <2>4. proc' = [proc EXCEPT ![p] = me]
    BY <1>5 DEF Rest
  <2> HIDE DEF me
  <2>6. ASSUME Right(docker, disk, proc[p], proc[p].missed, {"EnsureBox"} \cup later)
        PROVE  Right(docker, disk, me, me.missed, Range(me.todo))
    <3>1. Range(me.todo) = {"Seed", "Claim", "KillProxy", "EnsureProxy", "AwaitToken", "StartBox", "Save", "Session"}
      BY <2>2, <2>3, LaunchSound
    <3>2. me.mine = {}
      BY <2>3, <2>6 DEF Right, Early
    <3>3. Free(docker, disk)
      BY <1>5 DEF Free
    <3>4. me.cmd \notin Launchers
      BY <1>2, <2>3
    <3> QED
      BY <3>1, <3>2, <3>3, <3>4 DEF Right
  <2>7. KeptBy(p, me)
    BY <1>2, <1>5, <2>2, <2>3, <2>4, <2>6 DEF KeptBy, Typed
  <2>8. Follows(Range(proc[p].todo), Range(me.todo), me.cmd, docker.box.st, docker'.box.st)
    <3>1. /\ Range(me.todo) = {"Seed", "Claim", "KillProxy", "EnsureProxy", "AwaitToken", "StartBox", "Save", "Session"}
          /\ docker' = docker
      BY <1>5, <2>2, <2>3, LaunchSound
    <3> QED
      BY <1>2, <2>3, <3>1 DEF Follows
  <2> QED
    BY <1>2, <2>3, <2>7, <2>8 DEF GoesOn
<1> QED
  BY <1>3, <1>4, <1>5 DEF EnsureBox

LEMMA TuiBoxKept == ASSUME Typed, NEW p \in Procs, TuiBox(p) PROVE GoesOn(p)
<1> DEFINE later == Range(Rest(p))
<1>1. At(p, "TuiBox")
  BY DEF TuiBox
<1>2. /\ Sound(Rest(p), {}) /\ Fine("TuiBox", later) /\ later = {"Session"}
  BY <1>1, AboutTo DEF Fine
<1>3. CASE docker.box.st = "running" /\ Done(p) /\ UNCHANGED <<docker, disk>>
  <2>1. ASSUME World(docker, disk), Right(docker, disk, proc[p], proc[p].missed, {"TuiBox"} \cup later), Fine("TuiBox", later)
        PROVE  World(docker', disk') /\ Right(docker', disk', proc[p], proc[p].missed, later)
    BY <1>2, <1>3, <2>1 DEF Right, CleanedSoFar
  <2> QED
    BY <1>1, <1>3, <2>1, DoneKept DEF Typed
<1>4. CASE RestartBox(p)
  BY <1>1, <1>4, RestartBoxKept
<1>5. CASE /\ docker.box.st = "none" /\ UNCHANGED <<docker, disk>>
           /\ Goto(p, IF proc[p].seen.found THEN <<"Seed", "TuiProxy", "TuiRun">> \o Rest(p) ELSE <<>>)
  <2> DEFINE s == IF proc[p].seen.found THEN <<"Seed", "TuiProxy", "TuiRun">> \o Rest(p) ELSE <<>>
  <2>1. Sound(<<"Seed", "TuiProxy", "TuiRun">>, later \cup {})
    <3>1. later \cup {} = {"Session"}
      BY <1>2
    <3> QED
      BY <3>1, TuiRunSound
  <2>2. /\ Sound(<<"Seed", "TuiProxy", "TuiRun">> \o Rest(p), {})
        /\ Range(<<"Seed", "TuiProxy", "TuiRun">> \o Rest(p)) = {"Seed", "TuiProxy", "TuiRun", "Session"}
    <3> DEFINE q == <<"Seed", "TuiProxy", "TuiRun">>
    <3>1. Range(q) = {"Seed", "TuiProxy", "TuiRun"}
      BY TuiRunSound
    <3> HIDE DEF q
    <3>2. Sound(q \o Rest(p), {}) /\ Range(q \o Rest(p)) = Range(q) \cup later
      BY <1>2, <2>1, SoundConcat DEF q
    <3> QED
      BY <1>2, <3>1, <3>2 DEF q
  <2>3. Sound(s, {}) /\ Range(s) \subseteq {"Seed", "TuiProxy", "TuiRun", "Session"}
    BY <2>2, SoundNil
  <2> HIDE DEF s
  <2>4. ASSUME World(docker, disk), Right(docker, disk, proc[p], proc[p].missed, {"TuiBox"} \cup later)
        PROVE  World(docker', disk') /\ Right(docker', disk', proc[p], proc[p].missed, Range(s))
    <3>1. proc[p].mine = {} /\ ~(proc[p].cmd \in Launchers /\ proc[p].auto /\ proc[p].out \in {"detach", "quit", "exit"})
      BY <2>4 DEF Right, CleanedSoFar, Early
    <3> QED
      BY <1>5, <2>3, <2>4, <3>1 DEF Right
  <2>5. Follows({"TuiBox"} \cup later, Range(s), proc[p].cmd, docker.box.st, docker'.box.st)
    BY <1>2, <1>5, <2>3 DEF Follows
  <2> QED
    BY <1>1, <1>5, <2>3, <2>4, <2>5, GotoKept DEF Typed, s
<1> QED
  BY <1>3, <1>4, <1>5 DEF TuiBox

LEMMA TuiProxyKept == ASSUME Typed, NEW p \in Procs, TuiProxy(p) PROVE GoesOn(p)
<1> DEFINE later == Range(Rest(p))
           opts == Resolved([ports |-> FALSE])
<1>1. disk' = disk /\ Done(p) /\ At(p, "TuiProxy")
  BY DEF TuiProxy, KeepDisk
<1>2. DockerTyped(docker') /\ docker'.box = docker.box /\ (docker'.proxy = docker.proxy \/ docker.proxy = 0)
  <2>1. opts.ports \in BOOLEAN
    BY DEF Resolved
  <2> HIDE DEF opts
  <2>2. CASE RunProxy(opts)
    BY <2>1, <2>2, RunProxyTyped DEF Typed
  <2>3. CASE UNCHANGED docker
    BY <2>3 DEF Typed
  <2> QED
    BY <2>2, <2>3 DEF TuiProxy, opts
<1>3. ASSUME World(docker, disk), Right(docker, disk, proc[p], proc[p].missed, {"TuiProxy"} \cup later), Fine("TuiProxy", later)
      PROVE  World(docker', disk') /\ Right(docker', disk', proc[p], proc[p].missed, later)
  <2>1. docker.box.st = "running" => docker.box.net # 0
    BY DEF Typed, DockerTyped
  <2>2. Gated(docker) => Gated(docker')
    BY <1>2, <2>1 DEF Gated
  <2>3. World(docker', disk')
    BY <1>1, <1>2, <1>3, <2>2 DEF World
  <2>4. ~(proc[p].cmd \in Launchers /\ proc[p].auto /\ proc[p].out \in {"detach", "quit", "exit"})
    BY <1>3 DEF Right, CleanedSoFar
  <2>5. Right(docker', disk', proc[p], proc[p].missed, later)
    BY <1>1, <1>2, <1>3, <2>2, <2>4 DEF Right, Fine, Free
  <2> QED
    BY <2>3, <2>5
<1> QED
  BY <1>1, <1>2, <1>3, DoneKept DEF Typed

LEMMA TuiRunKept == ASSUME Typed, NEW p \in Procs, TuiRun(p) PROVE GoesOn(p)
<1> DEFINE later == Range(Rest(p))
<1>1. At(p, "TuiRun")
  BY DEF TuiRun
<1>2. CASE RunBox("none") /\ Done(p) /\ UNCHANGED disk
  <2>1. /\ DockerTyped(docker') /\ docker'.box.st = "running" /\ docker'.box.net = docker'.proxy
        /\ docker'.box.at = "none"
    BY <1>2, RunBoxTyped DEF Typed
  <2>2. ASSUME World(docker, disk), Right(docker, disk, proc[p], proc[p].missed, {"TuiRun"} \cup later), Fine("TuiRun", later)
        PROVE  World(docker', disk') /\ Right(docker', disk', proc[p], proc[p].missed, later)
    <3>1. World(docker', disk')
      BY <2>1 DEF World, Gated
    <3>2. later = {"Session"} /\ ~(proc[p].cmd \in Launchers /\ proc[p].auto /\ proc[p].out \in {"detach", "quit", "exit"})
      BY <2>2 DEF Right, Fine, CleanedSoFar
    <3> QED
      BY <2>2, <3>1, <3>2 DEF Right, Early
  <2> QED
    BY <1>1, <1>2, <2>1, <2>2, DoneKept DEF Typed
<1>3. CASE Fail(p)
  BY <1>1, <1>3, FailKept DEF Fallible
<1> QED
  BY <1>2, <1>3 DEF TuiRun

LEMMA SessionKept ==
  ASSUME Typed, NEW p \in Procs, NEW how \in {"background", "detach", "quit", "exit"}, Session(p, how)
  PROVE  GoesOn(p)
<1> DEFINE rest == Range(Ending(p, how))
           me == [proc[p] EXCEPT !.todo = Ending(p, how), !.out = how]
<1>1. /\ proc[p] \in Invocation /\ proc[p].cmd # "none"
      /\ Range(proc[p].todo) = {"Session"} \cup Range(Rest(p))
  BY AboutTo DEF Session
<1>2. /\ Sound(Ending(p, how), {})
      /\ rest \cap ({"KillProxy", "Save", "StartBox", "SaveResume", "Session"} \cup Early) = {}
      /\ "Release" \in rest => {"StopBox", "RmBox"} \subseteq rest
      /\ "StopProxy" \in rest => "Delete" \in rest
      /\ proc[p].cmd \in Launchers /\ proc[p].auto /\ how # "background" =>
           Range(Cleanup) \subseteq rest /\ rest \subseteq Range(Cleanup) \cup {"ReadResume"}
  BY EndingSound
<1>3. Ending(p, how) \in Seq(ListedSteps)
  BY <1>2 DEF Sound
<1>4. /\ me \in Invocation /\ me.todo = Ending(p, how) /\ me.cmd = proc[p].cmd /\ me.out = how
      /\ me.auto = proc[p].auto /\ me.mine = proc[p].mine
  BY <1>1, <1>3 DEF Invocation, Outs
<1>5. proc' = [proc EXCEPT ![p] = me] /\ docker' = docker /\ disk' = disk
  BY DEF Session, KeepWorld
<1> HIDE DEF me, rest
<1>6. ASSUME Right(docker, disk, proc[p], proc[p].missed, {"Session"} \cup Range(Rest(p)))
      PROVE  Right(docker, disk, me, me.missed, rest)
  <2>1. me.mine # {} => "range" \in me.mine
    BY <1>4, <1>6 DEF Right
  <2>2. Range(Cleanup) = {"StopBox", "RmBox", "StopProxy", "RmState", "Release", "Delete"}
    BY CleanupSound
  <2>3. ASSUME me.cmd \in Launchers, me.auto, how \in {"detach", "quit", "exit"}
        PROVE  CleanedSoFar(docker, disk, me.missed, rest)
    <3>1. Range(Cleanup) \subseteq rest /\ rest \subseteq Range(Cleanup) \cup {"ReadResume"}
      BY <1>2, <1>4, <2>3
    <3> QED
      BY <2>2, <3>1 DEF CleanedSoFar
  <2> QED
    BY <1>2, <1>4, <2>1, <2>3 DEF Right, Early
<1>7. "EnsureBox" \notin rest /\ rest \cap {"StartBox", "Session"} = {}
  BY <1>2 DEF Early
<1>8. KeptBy(p, me)
  BY <1>1, <1>2, <1>4, <1>5, <1>6, <1>7 DEF KeptBy, Typed, rest
<1>9. Follows(Range(proc[p].todo), Range(me.todo), me.cmd, docker.box.st, docker'.box.st)
  BY <1>1, <1>4, <1>5, <1>7 DEF Follows, rest
<1> QED
  BY <1>1, <1>4, <1>8, <1>9 DEF GoesOn

LEMMA ReadResumeKept == ASSUME Typed, NEW p \in Procs, ReadResume(p) PROVE GoesOn(p)
<1> DEFINE later == Range(Rest(p))
           me == [proc[p] EXCEPT !.todo = <<"SaveResume">>, !.seen = disk.record]
<1>1. At(p, "ReadResume") /\ docker' = docker /\ disk' = disk
  BY DEF ReadResume, KeepWorld
<1>2. /\ proc[p] \in Invocation /\ proc[p].cmd # "none"
      /\ Range(proc[p].todo) = {"ReadResume"} \cup later /\ later = {}
  BY <1>1, AboutTo DEF Fine
<1>3. CASE Goto(p, <<>>)
  <2>1. Sound(<<>>, {}) /\ Range(<<>>) = {}
    BY SoundNil
  <2>2. ASSUME World(docker, disk), Right(docker, disk, proc[p], proc[p].missed, {"ReadResume"} \cup later)
        PROVE  World(docker', disk') /\ Right(docker', disk', proc[p], proc[p].missed, Range(<<>>))
    BY <1>1, <1>2, <2>1, <2>2 DEF Right, CleanedSoFar
  <2>3. Follows({"ReadResume"} \cup Range(Rest(p)), Range(<<>>), proc[p].cmd, docker.box.st, docker'.box.st)
    BY <1>1, <2>1 DEF Follows
  <2> QED
    BY <1>1, <1>3, <2>1, <2>2, <2>3, GotoKept DEF Typed
<1>4. CASE /\ docker.box.st # "none" /\ disk.record.found
           /\ proc' = [proc EXCEPT ![p].todo = <<"SaveResume">>, ![p].seen = disk.record]
  <2>1. Sound(<<"SaveResume">>, {}) /\ Range(<<"SaveResume">>) = {"SaveResume"}
    <3>1. Fine("SaveResume", {})
      BY DEF Fine, ListedSteps
    <3> QED
      BY <3>1, OneStep
  <2>2. disk.record \in Recorded
    BY DEF Typed, Disk
  <2>3. /\ me \in Invocation /\ me.todo = <<"SaveResume">> /\ me.cmd = proc[p].cmd /\ me.mine = proc[p].mine
        /\ me.missed = proc[p].missed /\ me.seen = disk.record /\ me.auto = proc[p].auto /\ me.out = proc[p].out
    <3>1. <<"SaveResume">> \in Seq(ListedSteps)
      BY <2>1 DEF Sound
    <3> QED
      BY <1>2, <2>2, <3>1 DEF Invocation
  <2>4. proc' = [proc EXCEPT ![p] = me]
    BY <1>4
  <2> HIDE DEF me
  <2>5. ASSUME Right(docker, disk, proc[p], proc[p].missed, {"ReadResume"} \cup later)
        PROVE  Right(docker, disk, me, me.missed, {"SaveResume"})
    BY <1>2, <1>4, <2>3, <2>5 DEF Right, Early, CleanedSoFar
  <2>6. KeptBy(p, me)
    BY <1>1, <1>2, <2>1, <2>3, <2>4, <2>5 DEF KeptBy, Typed
  <2>7. Follows(Range(proc[p].todo), Range(me.todo), me.cmd, docker.box.st, docker'.box.st)
    BY <1>1, <2>1, <2>3 DEF Follows
  <2> QED
    BY <1>2, <2>3, <2>6, <2>7 DEF GoesOn
<1> QED
  BY <1>3, <1>4 DEF ReadResume

LEMMA SaveResumeKept == ASSUME Typed, NEW p \in Procs, SaveResume(p) PROVE GoesOn(p)
<1> DEFINE later == Range(Rest(p))
<1>1. At(p, "SaveResume") /\ docker' = docker
  BY DEF SaveResume, KeepDocker
<1>2. proc[p] \in Invocation /\ disk \in Disk
  BY <1>1, AboutTo DEF Typed
<1>3. CASE disk' = [disk EXCEPT !.record = proc[p].seen] /\ Done(p)
  <2>1. disk' \in Disk /\ disk'.record = proc[p].seen /\ disk'.range = disk.range /\ disk'.state = disk.state
    BY <1>2, <1>3 DEF Disk, Invocation
  <2>2. ASSUME World(docker, disk), Right(docker, disk, proc[p], proc[p].missed, {"SaveResume"} \cup later),
               Fine("SaveResume", later)
        PROVE  World(docker', disk') /\ Right(docker', disk', proc[p], proc[p].missed, later)
    <3>1. disk'.record = disk.record /\ later = {}
      BY <2>1, <2>2 DEF Right, Fine
    <3> QED
      BY <1>1, <2>1, <2>2, <3>1 DEF World, Right, CleanedSoFar
  <2> QED
    BY <1>1, <1>3, <2>1, <2>2, DoneKept DEF Typed
<1>4. CASE UNCHANGED disk /\ PassOver(p)
  BY <1>1, <1>4, NothingDoneKept
<1> QED
  BY <1>3, <1>4 DEF SaveResume

-------------------------------------------------------------------------------

\* Stopping, collecting, and being killed.

LEMMA StopRunningKept == ASSUME Typed, NEW p \in Procs, StopRunning(p) PROVE GoesOn(p)
<1> DEFINE later == Range(Rest(p))
<1>1. At(p, "StopRunning")
  BY DEF StopRunning
<1>2. CASE HaltBox /\ Done(p) /\ UNCHANGED disk
  <2>1. /\ DockerTyped(docker') /\ docker'.proxy = docker.proxy
        /\ docker'.box.st = IF docker.box.st = "running" THEN "stopped" ELSE docker.box.st
        /\ docker'.box.net = docker.box.net /\ docker'.box.lost = docker.box.lost
        /\ docker'.box.at = docker.box.at /\ docker'.box.harmed = docker.box.harmed
    BY <1>2, HaltBoxTyped DEF Typed
  <2>2. ASSUME World(docker, disk), Right(docker, disk, proc[p], proc[p].missed, {"StopRunning"} \cup later), Fine("StopRunning", later)
        PROVE  World(docker', disk') /\ Right(docker', disk', proc[p], proc[p].missed, later)
    <3>1. World(docker', disk')
      BY <1>2, <2>1, <2>2 DEF World, Gated
    <3>2. proc[p].mine = {} /\ ~(proc[p].cmd \in Launchers /\ proc[p].auto /\ proc[p].out \in {"detach", "quit", "exit"})
      BY <2>2 DEF Right, CleanedSoFar, Early
    <3>3. Right(docker', disk', proc[p], proc[p].missed, later)
      BY <1>2, <2>1, <2>2, <3>2 DEF Right, Fine, Free, Gated
    <3> QED
      BY <3>1, <3>3
  <2> QED
    BY <1>1, <1>2, <2>1, <2>2, DoneKept DEF Typed
<1>3. CASE Fail(p)
  BY <1>1, <1>3, FailKept DEF Fallible
<1> QED
  BY <1>2, <1>3 DEF StopRunning

\* The steps of gc have nothing behind them, and none of them belongs to a launch.
LEMMA GcStepKept ==
  ASSUME Typed, NEW p \in Procs, NEW a \in {"Collect", "Reap", "ReapRecord"}, At(p, a),
         NEW s, s \in {<<>>, <<"Reap">>, <<"ReapRecord">>, Removal}, Goto(p, s),
         DockerTyped(docker'), disk' = disk,
         docker'.proxy = docker.proxy, docker'.box = docker.box \/ docker'.box.st = "none"
  PROVE  GoesOn(p)
<1> DEFINE later == Range(Rest(p))
<1>1. Fine("Reap", {}) /\ Fine("ReapRecord", {})
  BY DEF Fine, ListedSteps
<1>2. /\ Sound(<<"Reap">>, {}) /\ Range(<<"Reap">>) = {"Reap"}
      /\ Sound(<<"ReapRecord">>, {}) /\ Range(<<"ReapRecord">>) = {"ReapRecord"}
  BY <1>1, OneStep
<1>3. /\ Sound(<<>>, {}) /\ Range(<<>>) = {}
  BY SoundNil
<1>4. Sound(Removal, {}) /\ Range(Removal) = {"Read", "RmBox", "RmBranch", "Delete", "StopProxy", "RmState"}
  BY RemovalSound
<1>5. Sound(s, {})
  BY <1>2, <1>3, <1>4
<1>6. /\ Range(s) \subseteq {"Reap", "ReapRecord", "Read", "RmBox", "RmBranch", "Delete", "StopProxy", "RmState"}
      /\ "StopProxy" \in Range(s) => "Delete" \in Range(s)
  BY <1>2, <1>3, <1>4
<1>7. ASSUME World(docker, disk), Right(docker, disk, proc[p], proc[p].missed, {a} \cup later)
      PROVE  World(docker', disk') /\ Right(docker', disk', proc[p], proc[p].missed, Range(s))
  <2>1. World(docker', disk')
    BY <1>7 DEF World, Gated
  <2>2. ~(proc[p].cmd \in Launchers /\ proc[p].auto /\ proc[p].out \in {"detach", "quit", "exit"})
    BY <1>7 DEF Right, CleanedSoFar
  <2>3. Right(docker', disk', proc[p], proc[p].missed, Range(s))
    BY <1>6, <1>7, <2>2 DEF Right, Early
  <2> QED
    BY <2>1, <2>3
<1>8. Follows({a} \cup later, Range(s), proc[p].cmd, docker.box.st, docker'.box.st)
  BY <1>6 DEF Follows
<1> QED
  BY <1>5, <1>7, <1>8, GotoKept DEF Typed

LEMMA CollectKept == ASSUME Typed, NEW p \in Procs, Collect(p) PROVE GoesOn(p)
<1> DEFINE s == IF disk.record.found /\ docker.box.st # "running" THEN <<"Reap">> ELSE <<>>
<1>1. s \in {<<>>, <<"Reap">>, <<"ReapRecord">>, Removal}
  OBVIOUS
<1>2. Goto(p, s) /\ docker' = docker /\ disk' = disk /\ At(p, "Collect")
  BY DEF Collect, KeepWorld
<1> QED
  BY <1>1, <1>2, GcStepKept DEF Typed

LEMMA ReapKept == ASSUME Typed, NEW p \in Procs, Reap(p) PROVE GoesOn(p)
<1>1. disk' = disk /\ At(p, "Reap")
  BY DEF Reap, KeepDisk
<1>2. CASE docker' = [docker EXCEPT !.box = NoBox] /\ Goto(p, <<"ReapRecord">>)
  <2>1. DockerTyped(docker') /\ docker'.proxy = docker.proxy /\ docker'.box.st = "none"
    BY <1>2, GoneBoxTyped DEF Typed
  <2> QED
    BY <1>1, <1>2, <2>1, GcStepKept
<1>3. CASE UNCHANGED docker /\ Goto(p, <<>>)
  BY <1>1, <1>3, GcStepKept DEF Typed
<1> QED
  BY <1>2, <1>3 DEF Reap

LEMMA ReapRecordKept == ASSUME Typed, NEW p \in Procs, ReapRecord(p) PROVE GoesOn(p)
<1> DEFINE s == IF proc[p].cmd = "gcAll" \/ docker.box.st = "none" THEN Removal ELSE <<>>
<1>1. s \in {<<>>, <<"Reap">>, <<"ReapRecord">>, Removal}
  OBVIOUS
<1>2. Goto(p, s) /\ docker' = docker /\ disk' = disk /\ At(p, "ReapRecord")
  BY DEF ReapRecord, KeepWorld
<1> QED
  BY <1>1, <1>2, GcStepKept DEF Typed

\* Wherever it has come to.
LEMMA KilledKept == ASSUME Typed, NEW p \in Procs, Killed(p) PROVE GoesOn(p)
<1> DEFINE me == [proc[p] EXCEPT !.todo = <<>>, !.out = "killed"]
<1>1. At(p, Head(proc[p].todo))
  BY DEF Killed, At
<1>2. proc[p] \in Invocation /\ proc[p].cmd # "none"
  BY <1>1, AboutTo
<1>3. Sound(<<>>, {}) /\ Range(<<>>) = {} /\ <<>> \in Seq(ListedSteps)
  BY SoundNil DEF Sound
<1>4. me \in Invocation /\ me.todo = <<>> /\ me.cmd = proc[p].cmd /\ me.out = "killed" /\ me.mine = proc[p].mine
  BY <1>2, <1>3 DEF Invocation, Outs
<1>5. proc' = [proc EXCEPT ![p] = me] /\ docker' = docker /\ disk' = disk
  BY DEF Killed
<1> HIDE DEF me
<1>6. ASSUME Right(docker, disk, proc[p], proc[p].missed, Range(proc[p].todo)) PROVE Right(docker, disk, me, me.missed, {})
  BY <1>4, <1>6, NothingLeft DEF Right
<1>7. KeptBy(p, me)
  BY <1>2, <1>3, <1>4, <1>5, <1>6 DEF KeptBy, Typed
<1>8. Follows(Range(proc[p].todo), {}, me.cmd, docker.box.st, docker'.box.st)
  BY <1>5 DEF Follows
<1> QED
  BY <1>2, <1>3, <1>4, <1>7, <1>8 DEF GoesOn

\* An invocation begins: it has nothing left of the last one.
SetsOut(p) ==
  \E me : /\ KeptBy(p, me) /\ proc[p].todo = <<>> /\ docker' = docker
          /\ me.cmd \in Launchers => "StartBox" \in Range(me.todo)
          /\ issued < MaxCommands /\ issued' = issued + 1

\* A launch of a name that is recorded is one that checks the name first.
LEMMA BeginKept ==
  ASSUME Typed, NEW p \in Procs, NEW cmd \in Commands,
         NEW asked \in BOOLEAN, NEW wt \in BOOLEAN, Begin(p, cmd, asked, wt)
  PROVE  SetsOut(p)
<1> DEFINE me == [Idle EXCEPT !.cmd = cmd, !.wt = wt, !.todo = Program[cmd], !.auto = EffectiveAuto(cmd, asked)]
           left == Range(Program[cmd])
<1>1. cmd \in DOMAIN Program /\ cmd # "none"
  BY CommandsAssumption DEF Program
<1>2. Sound(Program[cmd], {}) /\ Opening(cmd, left) /\ Program[cmd] \in Seq(ListedSteps)
  <2>1. Sound(Program[cmd], {}) /\ Opening(cmd, left)
    BY <1>1, ProgramsSound
  <2> QED
    BY <2>1 DEF Sound
<1>3. EffectiveAuto(cmd, asked) \in BOOLEAN
  BY DEF EffectiveAuto
<1>4. /\ me.cmd = cmd /\ me.todo = Program[cmd] /\ me.mine = {} /\ me.out = "ok"
      /\ me.auto = EffectiveAuto(cmd, asked) /\ me.wt = wt /\ me.seen = NoRecord
  BY DEF Idle
<1>5. me \in Invocation
  <2>1. Idle \in Invocation
    <3>1. <<>> \in Seq(ListedSteps)
      BY SoundNil DEF Sound
    <3> QED
      BY <3>1 DEF Idle, Invocation, Outs, Recorded, NoRecord
  <2> QED
    BY <1>1, <1>2, <1>3, <2>1 DEF Invocation
<1>6. /\ proc' = [proc EXCEPT ![p] = me] /\ docker' = docker /\ disk' = disk
      /\ proc[p].todo = <<>> /\ issued < MaxCommands /\ issued' = issued + 1
  BY DEF Begin
<1> HIDE DEF me, left
<1>7. Right(docker, disk, me, me.missed, left)
  BY <1>2, <1>4, <1>6 DEF Right, Opening, Free
<1>8. KeptBy(p, me)
  <2>1. "EnsureBox" \in Range(me.todo) => me.cmd \notin Launchers
    BY <1>2, <1>4 DEF Opening, left
  <2> QED
    BY <1>1, <1>2, <1>4, <1>5, <1>6, <1>7, <2>1 DEF KeptBy, Typed, left
<1>9. me.cmd \in Launchers => "StartBox" \in Range(me.todo)
  BY <1>2, <1>4 DEF Opening, left
<1> QED
  BY <1>6, <1>8, <1>9 DEF SetsOut

\* What happens by itself takes nothing away that anybody relies on.
LEMMA OutsideKept ==
  ASSUME Typed, BoxExits \/ ProxyDies \/ UserAddsRule
  PROVE  /\ Typed' /\ (OneAtATime => OneAtATime')
         /\ proc' = proc /\ issued' = issued
         /\ docker'.box.st = "none" <=> docker.box.st = "none"
<1>1. /\ docker \in Docker /\ disk \in Disk /\ DockerTyped(docker) /\ docker.minted \in Nat
      /\ docker.proxy <= docker.minted /\ docker.box.net <= docker.minted /\ docker.box.lost \in BOOLEAN
      /\ docker.box.st = "none" <=> docker.box.net = 0
  BY LifecycleAssumption DEF Typed, DockerTyped, Docker, Box
<1>2. proc' = proc /\ issued' = issued
  BY DEF BoxExits, ProxyDies, UserAddsRule
<1>3. /\ DockerTyped(docker') /\ disk' \in Disk
      /\ World(docker, disk) => World(docker', disk')
      /\ \A me, left : Right(docker, disk, me, me.missed, left) => Right(docker', disk', me, me.missed, left)
      /\ docker'.box.st = "none" <=> docker.box.st = "none"
  <2>1. CASE BoxExits
    <3>1. /\ DockerTyped(docker') /\ docker'.proxy = docker.proxy
          /\ docker'.box.st = IF docker.box.st = "running" THEN "stopped" ELSE docker.box.st
          /\ docker'.box.net = docker.box.net /\ docker'.box.lost = docker.box.lost
          /\ docker'.box.at = docker.box.at /\ docker'.box.harmed = docker.box.harmed
      BY <1>1, <2>1, HaltBoxTyped DEF BoxExits
    <3>2. disk' = disk
      BY <2>1 DEF BoxExits
    <3>3. World(docker, disk) => World(docker', disk')
      BY <3>1, <3>2 DEF World, Gated
    <3>4. ASSUME NEW me, NEW left, Right(docker, disk, me, me.missed, left) PROVE Right(docker', disk', me, me.missed, left)
      BY <3>1, <3>2, <3>4 DEF Right, Free, Gated, CleanedSoFar
    <3> QED
      BY <1>1, <3>1, <3>2, <3>3, <3>4
  <2>2. CASE ProxyDies
    <3> DEFINE lost == docker.box.lost \/ docker.box.net = docker.proxy
    <3>1. disk' = disk /\ docker' = [docker EXCEPT !.proxy = 0, !.ports = FALSE, !.box.lost = lost] /\ lost \in BOOLEAN
      BY <1>1, <2>2 DEF ProxyDies
    <3> HIDE DEF lost
    <3>2. /\ docker' \in Docker /\ docker'.proxy = 0 /\ docker'.minted = docker.minted
          /\ docker'.box.st = docker.box.st /\ docker'.box.net = docker.box.net
          /\ docker'.box.at = docker.box.at /\ docker'.box.harmed = docker.box.harmed
          /\ docker'.box.lost = lost
      BY <1>1, <3>1 DEF Docker, Box
    <3>3. DockerTyped(docker')
      BY <1>1, <3>2 DEF DockerTyped
    <3>4. Gated(docker) => Gated(docker')
      BY <3>2 DEF Gated, lost
    <3>5. World(docker, disk) => World(docker', disk')
      BY <3>1, <3>2, <3>4 DEF World
    <3>6. ASSUME NEW me, NEW left, Right(docker, disk, me, me.missed, left) PROVE Right(docker', disk', me, me.missed, left)
      BY <3>1, <3>2, <3>4, <3>6 DEF Right, Free, CleanedSoFar
    <3> QED
      BY <1>1, <3>1, <3>2, <3>3, <3>5, <3>6
  <2>3. CASE UserAddsRule
    <3>1. docker' = docker /\ docker.proxy # 0 /\ disk.state = "seed" /\ disk' = [disk EXCEPT !.state = "user"]
      BY <2>3 DEF UserAddsRule
    <3>2. disk' \in Disk /\ disk'.range = disk.range /\ disk'.record = disk.record
      BY <1>1, <3>1 DEF Disk
    <3>3. World(docker, disk) => World(docker', disk')
      BY <3>1, <3>2 DEF World
    <3>4. ASSUME NEW me, NEW left, Right(docker, disk, me, me.missed, left) PROVE Right(docker', disk', me, me.missed, left)
      BY <3>1, <3>2, <3>4 DEF Right, Free, CleanedSoFar
    <3> QED
      BY <1>1, <3>1, <3>2, <3>3, <3>4
  <2> QED
    BY <2>1, <2>2, <2>3
<1>4. Typed'
  BY <1>2, <1>3 DEF Typed
<1>5. ASSUME OneAtATime PROVE OneAtATime'
  <2> SUFFICES ASSUME Alone'
               PROVE  World(docker', disk') /\ \A p \in Procs : Right(docker', disk', proc[p], proc[p].missed, Range(proc[p].todo))
    BY <1>2 DEF OneAtATime
  <2>1. World(docker, disk) /\ \A p \in Procs : Right(docker, disk, proc[p], proc[p].missed, Range(proc[p].todo))
    BY <1>2, <1>5 DEF OneAtATime, Alone
  <2> QED
    BY <1>2, <1>3, <2>1
<1> QED
  BY <1>2, <1>3, <1>4, <1>5

\* Nothing runs and nothing is recorded yet.
LEMMA InitKept == Init => Typed /\ OneAtATime
<1> SUFFICES ASSUME Init PROVE Typed /\ OneAtATime
  OBVIOUS
<1>1. NoBox \in Box /\ NoRecord \in Recorded /\ 0 \in 0..MaxProxies
  BY LifecycleAssumption DEF NoBox, Box, NoRecord, Recorded
<1>2. DockerTyped(docker) /\ docker.box = NoBox /\ disk \in Disk /\ disk.record = NoRecord
  BY <1>1 DEF Init, DockerTyped, Docker, Disk, NoBox
<1>3. \A p \in Procs : proc[p] = Idle
  BY DEF Init
<1>4. Idle \in Invocation /\ Sound(Idle.todo, {}) /\ "EnsureBox" \notin Range(Idle.todo)
  <2>1. Sound(<<>>, {}) /\ <<>> \in Seq(ListedSteps) /\ Range(<<>>) = {}
    BY SoundNil DEF Sound
  <2> QED
    BY <1>1, <2>1 DEF Idle, Invocation, Outs
<1>5. ProcTyped(proc)
  BY <1>3, <1>4 DEF Init, ProcTyped
<1>6. World(docker, disk)
  BY <1>2 DEF World, NoRecord
<1>7. OneAtATime
  BY <1>3, <1>6, IdleIsRight DEF OneAtATime
<1> QED
  BY <1>2, <1>5, <1>7 DEF Typed

\* Every step of a command that is under way.
LEMMA StepGoesOn ==
  ASSUME Typed, NEW p \in Procs, LaunchStep(p) \/ AttachStep(p) \/ TeardownStep(p) \/ Killed(p)
  PROVE  GoesOn(p) /\ issued' = issued
<1>1. LaunchStep(p) => GoesOn(p)
  BY CheckNameKept, SeedKept, ClaimKept, KillProxyKept, EnsureProxyKept, StartProxyKept,
     AwaitReadyKept, AwaitTokenKept, StartBoxKept, SaveKept DEF LaunchStep
<1>2. AttachStep(p) => GoesOn(p)
  BY LookupKept, EnsureBoxKept, TuiBoxKept, TuiProxyKept, TuiRunKept, SessionKept,
     ReadResumeKept, SaveResumeKept DEF AttachStep
<1>3. TeardownStep(p) => GoesOn(p)
  BY ReadKept, StopRunningKept, StopBoxKept, RmBoxKept, StopProxyKept, RmStateKept,
     ReleaseKept, DeleteKept, RmBranchKept, CollectKept, ReapKept, ReapRecordKept DEF TeardownStep
<1>4. LaunchStep(p) => issued' = issued
  BY DEF LaunchStep, CheckName, Seed, Claim, KillProxy, EnsureProxy, StartProxy, AwaitReady,
         AwaitToken, StartBox, Save, KeepDocker, KeepDisk, KeepWorld
<1>5. AttachStep(p) => issued' = issued
  BY DEF AttachStep, Lookup, EnsureBox, TuiBox, TuiProxy, TuiRun, Session, ReadResume,
         SaveResume, KeepDocker, KeepDisk, KeepWorld
<1>6. TeardownStep(p) => issued' = issued
  BY DEF TeardownStep, Read, StopRunning, StopBox, RmBox, StopProxy, RmState, Release, Delete,
         RmBranch, Collect, Reap, ReapRecord, KeepDocker, KeepDisk, KeepWorld
<1>7. Killed(p) => GoesOn(p) /\ issued' = issued
  BY KilledKept DEF Killed
<1> QED
  BY <1>1, <1>2, <1>3, <1>4, <1>5, <1>6, <1>7

\* What a step of the whole is.
LEMMA StepOfAny ==
  ASSUME Typed, [Next]_vars
  PROVE  \/ \E p \in Procs : GoesOn(p) /\ issued' = issued
         \/ \E p \in Procs : SetsOut(p)
         \/ BoxExits \/ ProxyDies \/ UserAddsRule
         \/ UNCHANGED vars
<1>1. ASSUME NEW p \in Procs, NEW cmd \in Commands, NEW asked \in BOOLEAN, NEW wt \in BOOLEAN,
             Begin(p, cmd, asked, wt)
      PROVE  SetsOut(p)
  BY <1>1, BeginKept
<1>2. ASSUME NEW p \in Procs, LaunchStep(p) \/ AttachStep(p) \/ TeardownStep(p) \/ Killed(p)
      PROVE  GoesOn(p) /\ issued' = issued
  BY <1>2, StepGoesOn
<1> QED
  BY <1>1, <1>2 DEF Next

\* Every step, of whomever.
LEMMA NextKept ==
  ASSUME Typed, [Next]_vars
  PROVE  Typed' /\ (OneAtATime => OneAtATime')
<1>1. ASSUME NEW p \in Procs, GoesOn(p) \/ SetsOut(p)
      PROVE  Typed' /\ (OneAtATime => OneAtATime')
  <2>1. \E me : KeptBy(p, me)
    BY <1>1 DEF GoesOn, SetsOut
  <2> QED
    BY <2>1, KeptByOne
<1>2. CASE BoxExits \/ ProxyDies \/ UserAddsRule
  BY <1>2, OutsideKept
<1>3. CASE UNCHANGED vars
  <2>1. docker' = docker /\ disk' = disk /\ proc' = proc
    BY <1>3 DEF vars
  <2> QED
    BY <2>1 DEF Typed, OneAtATime, Alone
<1> QED
  BY <1>1, <1>2, <1>3, StepOfAny

\* The two invariants; the second one of a name that is worked on alone.
LEMMA AlwaysTyped == Spec => []Typed
<1>1. Init => Typed
  BY InitKept
<1>2. Typed /\ [Next]_vars => Typed'
  BY NextKept
<1> QED
  BY <1>1, <1>2, PTL DEF Spec

LEMMA AlwaysOneAtATime ==
  Spec => [](Typed /\ OneAtATime)
<1>1. Typed /\ OneAtATime /\ [Next]_vars => (Typed /\ OneAtATime)'
  BY NextKept
<1> QED
  BY InitKept, <1>1, PTL DEF Spec

\* The types are those of the run.
LEMMA TypedIsTypeOK == Typed => TypeOK
<1> SUFFICES ASSUME Typed PROVE TypeOK
  OBVIOUS
<1>1. /\ docker.box.st \in {"none", "running", "stopped"} /\ docker.box.at \in {"none", "tree", "repo"}
      /\ docker.minted \in 0..MaxProxies /\ docker.proxy \in Nat /\ docker.box.net \in Nat
      /\ docker.proxy <= docker.minted /\ docker.box.net <= docker.minted
      /\ docker.box.st = "none" <=> docker.box.net = 0
      /\ docker.ports \in BOOLEAN /\ docker.box.harmed \in BOOLEAN
  BY DEF Typed, DockerTyped, Docker, Box
<1>2. docker.proxy \in 0..docker.minted /\ docker.box.net \in 0..docker.minted
  BY <1>1, LifecycleAssumption
<1>3. /\ disk.state \in {"none", "seed", "user"} /\ disk.range \in BOOLEAN /\ disk.branch \in BOOLEAN
  BY DEF Typed, Disk
<1>4. ASSUME NEW p \in Procs
      PROVE  /\ Range(proc[p].todo) \cup proc[p].missed \subseteq Steps
             /\ proc[p].mine \subseteq {"range", "proxy", "box"}
  <2>1. proc[p] \in Invocation /\ Sound(proc[p].todo, {})
    BY DEF Typed, ProcTyped
  <2>2. proc[p].todo \in Seq(ListedSteps) /\ proc[p].mine \subseteq Things
        /\ proc[p].missed \subseteq ListedSteps
    BY <2>1 DEF Sound, Invocation
  <2>3. Range(proc[p].todo) \subseteq ListedSteps
    BY <2>2 DEF Range
  <2> QED
    BY <2>2, <2>3, StepsListed DEF Things
<1> QED
  BY <1>1, <1>2, <1>3, <1>4 DEF TypeOK

-------------------------------------------------------------------------------

\* The state of the name keeps its shape, whatever commands overlap and wherever they
\* fail or are killed, and no name without a container is in a network namespace.
THEOREM LifecycleTypeCorrect == Spec => []TypeOK
  BY AlwaysTyped, TypedIsTypeOK, PTL

\* Commands that come one at a time never leave a recorded session running outside the
\* namespace of its live proxy, wherever they fail or are killed and whatever fails
\* unnoticed in a teardown (launch.go's rollback, cmd/stop.go, cmd/rm.go and the cleanup
\* closure), unless that proxy died by itself, a docker stop or rm of the container or
\* the deletion of its record failed, or a launcher other than new was given its name.
THEOREM RecordedIsGated == Spec => []RecordedBoxGated
<1>1. Typed /\ OneAtATime => RecordedBoxGated
  BY TypedIsTypeOK DEF OneAtATime, World, Gated, RecordedBoxGated
<1> QED
  BY AlwaysOneAtATime, <1>1, PTL

\* ... nor without its entry in the port registry, when a launch created its box: the
\* rollback of launch.go gives the range back after the box is gone, and only a
\* docker stop or rm that failed leaves a box that the range was taken from.
THEOREM RecordedHasRange == Spec => []RecordedBoxHasRange
<1>1. Typed /\ OneAtATime => RecordedBoxHasRange
  BY DEF OneAtATime, World, RecordedBoxHasRange
<1> QED
  BY AlwaysOneAtATime, <1>1, PTL

\* The cleanup closure of a --rm session that ran to its end (launch.go:285-294), over
\* the failure of any of its steps, leaves nothing but what failed to be removed.
THEOREM CleanedUp == Spec => []CleanupLeavesOnlyFailures
<1>1. ASSUME OneAtATime, Alone, NEW p \in Procs,
             Finished(p, Launchers, {"detach", "quit", "exit"}), proc[p].auto
      PROVE  CleanedSoFar(docker, disk, proc[p].missed, {})
  <2>1. Right(docker, disk, proc[p], proc[p].missed, {})
    BY <1>1, SoundNil DEF OneAtATime, Finished
  <2> QED
    BY <1>1, <2>1 DEF Right, Finished
<1>2. Typed /\ OneAtATime => CleanupLeavesOnlyFailures
  BY <1>1 DEF CleanupLeavesOnlyFailures, CleanedSoFar
<1> QED
  BY AlwaysOneAtATime, <1>2, PTL

-------------------------------------------------------------------------------

\* Two creators of one name.  Whoever has been told that the session has started, or
\* is about to be, got past docker run, which gives a name to one container only.
HasBegun(p) == proc[p].cmd # "none"

Holds(p) ==
  /\ proc[p].cmd \in Launchers /\ "Session" \in Range(proc[p].todo)
  /\ "StartBox" \notin Range(proc[p].todo)

WillStart(p) == proc[p].cmd \in Launchers /\ "StartBox" \in Range(proc[p].todo)

\* No more invocations have begun than have been issued.
Counted ==
  /\ issued \in Nat
  /\ issued = 0 => \A p \in Procs : ~HasBegun(p)
  /\ issued <= 1 => \A p, q \in Procs : HasBegun(p) /\ HasBegun(q) => p = q
  /\ issued <= 2 => \A p, q, r \in Procs :
                      HasBegun(p) /\ HasBegun(q) /\ HasBegun(r) => p = q \/ q = r \/ p = r

\* While one holds the session no other one does, and its container is there as long
\* as another one may yet try to start its own.
OneHolds ==
  issued <= 2 =>
    \A p \in Procs : Holds(p) =>
      /\ issued <= 1 => docker.box.st # "none"
      /\ \A q \in Procs : q # p => ~Holds(q) /\ (WillStart(q) => docker.box.st # "none")

Creators == Counted /\ OneHolds

\* A step of one invocation.
LEMMA CreatorsStep ==
  ASSUME Typed, Creators, NEW p \in Procs, GoesOn(p), issued' = issued
  PROVE  Creators'
<1>1. PICK me : /\ KeptBy(p, me) /\ proc[p].cmd # "none" /\ me.cmd = proc[p].cmd
                /\ Follows(Range(proc[p].todo), Range(me.todo), me.cmd, docker.box.st, docker'.box.st)
  BY DEF GoesOn
<1>2. /\ proc'[p] = me /\ \A q \in Procs : q # p => proc'[q] = proc[q]
      /\ \A q \in Procs : proc'[q].cmd = proc[q].cmd
  BY <1>1 DEF Typed, ProcTyped, KeptBy
<1>3. Counted'
  BY <1>2 DEF Creators, Counted, HasBegun
<1>4. \A q \in Procs : q # p => (Holds(q)' <=> Holds(q)) /\ (WillStart(q)' <=> WillStart(q))
  BY <1>2 DEF Holds, WillStart
<1>5. WillStart(p)' => WillStart(p) /\ (docker.box.st # "none" => docker'.box.st # "none")
  BY <1>1, <1>2 DEF WillStart, Follows
<1>6. Holds(p)' => \/ Holds(p) /\ (docker.box.st # "none" => docker'.box.st # "none")
                   \/ WillStart(p) /\ docker.box.st = "none" /\ docker'.box.st # "none"
  BY <1>1, <1>2 DEF Holds, WillStart, Follows
<1>7. ASSUME issued <= 2, NEW x \in Procs, Holds(x)'
      PROVE  /\ issued <= 1 => docker'.box.st # "none"
             /\ \A y \in Procs : y # x => ~Holds(y)' /\ (WillStart(y)' => docker'.box.st # "none")
  <2>1. CASE x = p
    BY <1>4, <1>6, <1>7, <2>1 DEF Creators, OneHolds
  <2>2. CASE x # p
    <3>1. Holds(x) /\ HasBegun(x) /\ HasBegun(p)
      BY <1>1, <1>4, <1>7, <2>2 DEF HasBegun, Holds, Launchers
    <3>2. ~(issued <= 1)
      BY <2>2, <3>1 DEF Creators, Counted
    <3>3. ~Holds(p) /\ (WillStart(p) => docker.box.st # "none")
      BY <1>7, <2>2, <3>1 DEF Creators, OneHolds
    <3>4. ASSUME NEW y \in Procs, y # x, y # p PROVE ~HasBegun(y)
      BY <1>7, <2>2, <3>1, <3>4 DEF Creators, Counted
    <3>5. ASSUME NEW y \in Procs, y # x PROVE ~Holds(y)' /\ (WillStart(y)' => docker'.box.st # "none")
      <4>1. CASE y = p
        BY <1>5, <1>6, <3>3, <4>1
      <4>2. CASE y # p
        BY <1>4, <3>4, <3>5, <4>2 DEF HasBegun, Holds, WillStart, Launchers
      <4> QED
        BY <4>1, <4>2
    <3> QED
      BY <3>2, <3>5
  <2> QED
    BY <2>1, <2>2
<1>8. OneHolds'
  BY <1>7 DEF OneHolds
<1> QED
  BY <1>3, <1>8 DEF Creators

\* A new invocation holds nothing.
LEMMA CreatorsBegin ==
  ASSUME Typed, Creators, NEW p \in Procs, SetsOut(p)
  PROVE  Creators'
<1>1. PICK me : /\ KeptBy(p, me) /\ proc[p].todo = <<>> /\ docker' = docker
                /\ me.cmd \in Launchers => "StartBox" \in Range(me.todo)
                /\ issued' = issued + 1
  BY DEF SetsOut
<1>2. /\ proc'[p] = me /\ \A q \in Procs : q # p => proc'[q] = proc[q]
  BY <1>1 DEF Typed, ProcTyped, KeptBy
<1>3. issued \in Nat /\ \A q \in Procs : HasBegun(q)' => q = p \/ HasBegun(q)
  BY <1>2 DEF Creators, Counted, HasBegun
<1>4. Counted'
  BY <1>1, <1>3 DEF Creators, Counted
<1>5. ~Holds(p)'
  BY <1>1, <1>2 DEF Holds
<1>6. \A q \in Procs : q # p => (Holds(q)' <=> Holds(q)) /\ (WillStart(q)' <=> WillStart(q))
  BY <1>2 DEF Holds, WillStart
<1>7. ASSUME issued' <= 2, NEW x \in Procs, Holds(x)'
      PROVE  /\ issued' <= 1 => docker'.box.st # "none"
             /\ \A y \in Procs : y # x => ~Holds(y)' /\ (WillStart(y)' => docker'.box.st # "none")
  <2>1. x # p /\ Holds(x) /\ HasBegun(x)
    BY <1>5, <1>6, <1>7 DEF Holds, HasBegun, Launchers
  <2>2. issued <= 1 /\ issued <= 2
    BY <1>1, <1>3, <1>7
  <2>3. docker'.box.st # "none"
    BY <1>1, <1>7, <2>1, <2>2 DEF Creators, OneHolds
  <2>4. ASSUME NEW y \in Procs, y # x PROVE ~Holds(y)'
    <3>1. y # p => ~Holds(y)
      BY <2>1, <2>2, <2>4 DEF Creators, OneHolds
    <3> QED
      BY <1>5, <1>6, <3>1
  <2> QED
    BY <2>3, <2>4
<1>8. OneHolds'
  BY <1>7 DEF OneHolds
<1> QED
  BY <1>4, <1>8 DEF Creators

LEMMA CreatorsKept == ASSUME Typed, Creators, [Next]_vars PROVE Creators'
<1>1. ASSUME BoxExits \/ ProxyDies \/ UserAddsRule \/ UNCHANGED vars PROVE Creators'
  <2>1. proc' = proc /\ issued' = issued /\ (docker'.box.st = "none" <=> docker.box.st = "none")
    BY <1>1, OutsideKept DEF vars
  <2> QED
    BY <2>1 DEF Creators, Counted, OneHolds, Holds, WillStart, HasBegun
<1> QED
  BY <1>1, StepOfAny, CreatorsStep, CreatorsBegin

\* Two creators of one name that both found it free (only new looks, and nothing locks
\* a session): docker's own name check lets at most one of them start its container,
\* and the one that failed touches neither it nor whoever was told it is his.  It
\* takes a third command, such as a removal in between, to give the name twice.
THEOREM TwoCreatorsOneOwner == Spec => [](Alone \/ issued <= 2 => OneOwner)
<1>1. Init => Creators
  BY DEF Init, Creators, Counted, OneHolds, Holds, WillStart, HasBegun, Idle, Launchers
<1>2. Typed /\ Creators => (Alone \/ issued <= 2 => OneOwner)
  <2> SUFFICES ASSUME Typed, Creators, Alone \/ issued <= 2, NEW p \in Procs, NEW q \in Procs,
                      At(p, "Session"), At(q, "Session"), {proc[p].cmd, proc[q].cmd} \subseteq Launchers
               PROVE  p = q
    BY DEF OneOwner
  <2>1. ASSUME NEW x \in Procs, At(x, "Session"), proc[x].cmd \in Launchers
        PROVE  Holds(x) /\ HasBegun(x)
    <3>1. Fine("Session", Range(Rest(x))) /\ Range(proc[x].todo) = {"Session"} \cup Range(Rest(x))
      BY <2>1, AboutTo
    <3> QED
      BY <2>1, <3>1 DEF Holds, HasBegun, Launchers, Fine
  <2>2. CASE Alone
    BY <2>1, <2>2 DEF Alone, HasBegun
  <2>3. CASE issued <= 2
    BY <2>1, <2>3 DEF Creators, OneHolds
  <2> QED
    BY <2>2, <2>3
<1> QED
  BY <1>1, <1>2, CreatorsKept, InitKept, NextKept, AlwaysTyped, PTL DEF Spec

===============================================================================
