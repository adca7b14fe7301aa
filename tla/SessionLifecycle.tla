-------------------------- MODULE SessionLifecycle --------------------------
(***************************************************************************)
(* One session name and the command-line invocations that create, attach,  *)
(* stop, remove and collect it.  Nothing locks a session: every process    *)
(* runs docker commands and edits files one after the other, any of them   *)
(* may fail, the process may be killed between two of them, and the box    *)
(* may exit whenever it likes.  A failure ends the command, or the code    *)
(* takes no notice of it and goes on: all teardown is of the second kind.  *)
(*                                                                         *)
(* A command is the list of steps it has left (todo); a step may replace   *)
(* the rest of the list.  A failed launch replaces it by Rollback.         *)
(***************************************************************************)
EXTENDS Naturals, Sequences, Functions

CONSTANTS
  Procs,        \* command-line invocations at work at the same time
  Commands,     \* the commands a user gives in this instance
  MaxProxies,   \* bound: proxy containers ever started
  MaxCommands   \* bound: commands ever begun

ASSUME LifecycleAssumption ==
  Procs # {} /\ MaxProxies \in Nat /\ MaxCommands \in Nat

VARIABLES
  docker,  \* box: the Claude container (st), the proxy whose network namespace
           \* it is in (net), what the box works on (at), and of its history
           \* whether that proxy died by itself (lost) and whether a teardown of
           \* it failed in part or a launch came upon it (harmed); proxy: the live
           \* sidecar, 0 if none; ports: whether docker forwards the session's
           \* port range to it
  disk,    \* state: the session's proxy directory; range: its entry in the port
           \* ledger; record: its line of sessions.json; branch: its git branch
  proc,    \* the invocations; missed: the steps that failed and were passed over
  issued   \* commands begun so far

vars == <<docker, disk, proc, issued>>

NoBox == [st |-> "none", net |-> 0, lost |-> FALSE, harmed |-> FALSE, at |-> "none"]
NoRecord == [found |-> FALSE, auto |-> FALSE, wt |-> FALSE]
Idle == [cmd |-> "none", auto |-> FALSE, wt |-> FALSE,
         todo |-> <<>>, mine |-> {}, missed |-> {}, seen |-> NoRecord, out |-> "ok"]

Init ==
  /\ docker = [box |-> NoBox, proxy |-> 0, ports |-> FALSE, minted |-> 0]
  /\ disk = [state |-> "none", range |-> FALSE, record |-> NoRecord, branch |-> FALSE]
  /\ proc = [p \in Procs |-> Idle]
  /\ issued = 0

(***************************************************************************)
(* The programs                                                            *)
(***************************************************************************)
Launch ==
  <<"Seed", "Claim", "KillProxy", "EnsureProxy", "AwaitToken", "StartBox", "Save">>

\* Mutant: the port range is given back while the container may still run.
RollbackRangeFirst(mine) ==
     (IF "range" \in mine THEN <<"Release">> ELSE <<>>)
  \o (IF "box" \in mine THEN <<"StopBox", "RmBox">> ELSE <<>>)
  \o (IF "proxy" \in mine THEN <<"StopProxy", "RmState">> ELSE <<>>)

\* The deferred rollback undoes what the launch has marked as its own.
Rollback(mine) ==
     (IF "box" \in mine THEN <<"StopBox", "RmBox">> ELSE <<>>)
  \o (IF "proxy" \in mine THEN <<"StopProxy", "RmState">> ELSE <<>>)
  \o (IF "range" \in mine THEN <<"Release">> ELSE <<>>)

\* Mutant: the range is not released.
CleanupKeepsRange == <<"StopBox", "RmBox", "StopProxy", "RmState", "Delete">>

\* The cleanup closure of a session that was launched with --rm.
Cleanup == <<"StopBox", "RmBox", "StopProxy", "RmState", "Release", "Delete">>

\* Mutant: the proxy is stopped before the record is gone.
RemovalProxyFirst == <<"Read", "RmBox", "RmBranch", "StopProxy", "RmState", "Delete">>

Removal == <<"Read", "RmBox", "RmBranch", "Delete", "StopProxy", "RmState">>

New       == <<"CheckName">> \o Launch \o <<"Session">>
Bare      == Launch \o <<"Session">>
Run       == Launch \o <<"Session">>
Work      == Launch \o <<"Session">>
Task      == Launch \o <<"Session">>
Attach    == <<"Lookup", "Seed", "EnsureProxy", "EnsureBox", "Session">>
Stop      == <<"Lookup", "StopRunning", "StopProxy">>
Gc        == <<"Collect">>
TuiStop   == <<"StopBox">>
TuiRemove == <<"Read", "StopBox", "RmBox", "RmBranch", "Delete">>
TuiAttach == <<"Read", "TuiBox", "Session">>

Program ==
  [new |-> New, bare |-> Bare, run |-> Run, work |-> Work, task |-> Task, attach |-> Attach, stop |-> Stop,
   rm |-> Removal, gc |-> Gc, gcAll |-> Gc,
   tuiStop |-> TuiStop, tuiRemove |-> TuiRemove, tuiAttach |-> TuiAttach]

ASSUME CommandsAssumption == Commands \subseteq DOMAIN Program

Launchers == {"new", "bare", "run", "work", "task"}

\* Opts.ApplyDefaults: task mode turns AutoRemove on whenever it is off.
EffectiveAuto(cmd, asked) == IF cmd = "task" THEN TRUE ELSE asked

(***************************************************************************)
(* Steps                                                                   *)
(***************************************************************************)
At(p, step) == proc[p].todo # <<>> /\ Head(proc[p].todo) = step
Rest(p) == Tail(proc[p].todo)
Goto(p, steps) == proc' = [proc EXCEPT ![p].todo = steps]
Done(p) == Goto(p, Rest(p))
DoneOwning(p, thing) ==
  proc' = [proc EXCEPT ![p].todo = Tail(@), ![p].mine = @ \cup {thing}]
PassOver(p) ==
  proc' = [proc EXCEPT ![p].todo = Tail(@), ![p].missed = @ \cup {Head(proc[p].todo)}]
Fail(p) ==
  /\ proc' = [proc EXCEPT ![p].todo = Rollback(proc[p].mine), ![p].out = "failed"]
  /\ UNCHANGED <<docker, disk>>
KeepDocker == UNCHANGED <<docker, issued>>
KeepDisk == UNCHANGED <<disk, issued>>
KeepWorld == UNCHANGED <<docker, disk, issued>>

Begin(p, cmd, asked, wt) ==
  /\ proc[p].todo = <<>> /\ issued < MaxCommands
  /\ cmd \notin Launchers => ~asked
  /\ cmd \notin {"new", "bare"} => wt = (cmd = "work")
  /\ proc' = [proc EXCEPT ![p] =
       [Idle EXCEPT !.cmd = cmd, !.wt = wt, !.todo = Program[cmd], !.auto = EffectiveAuto(cmd, asked)]]
  /\ issued' = issued + 1
  /\ UNCHANGED <<docker, disk>>

CheckName(p) ==
  /\ At(p, "CheckName")
  /\ IF disk.record.found THEN Fail(p) ELSE Done(p) /\ UNCHANGED <<docker, disk>>
  /\ UNCHANGED issued

\* EnsureSessionRules keeps the rules that are there.  The dashboard takes no notice
\* of its error.
Seed(p) ==
  /\ At(p, "Seed")
  /\ \/ Done(p) /\ disk' = [disk EXCEPT !.state = IF @ = "none" THEN "seed" ELSE @] /\ UNCHANGED docker
     \/ proc[p].cmd # "tuiAttach" /\ Fail(p)
     \/ proc[p].cmd = "tuiAttach" /\ PassOver(p) /\ UNCHANGED <<docker, disk>>
  /\ UNCHANGED issued

Claim(p) ==
  /\ At(p, "Claim")
  /\ \/ DoneOwning(p, "range") /\ disk' = [disk EXCEPT !.range = TRUE] /\ UNCHANGED docker
     \/ Fail(p)
  /\ UNCHANGED issued

ProxyIsRunning == docker.proxy # 0

\* docker without the proxy.
NoProxy(d) == [d EXCEPT !.proxy = 0, !.ports = FALSE]

\* ForceRestart: the proxy of the name is stopped, be it that of a box that runs: only
\* new looks for an earlier session of the name.  A failure is not noticed.
KillProxy(p) ==
  /\ At(p, "KillProxy") /\ KeepDisk
  /\ LET found == [docker EXCEPT !.box.harmed = @ \/ docker.box.st # "none"]
     IN \/ docker' = NoProxy(found) /\ Done(p)
        \/ ProxyIsRunning /\ docker' = found /\ PassOver(p)

EnsureProxy(p) ==
  /\ At(p, "EnsureProxy") /\ KeepWorld
  /\ Goto(p, (IF ProxyIsRunning THEN <<>> ELSE <<"StartProxy", "AwaitReady">>) \o Rest(p))

\* EnsureRunning starts the proxy with options of its own making, in which it
\* copies all of the caller's but the port range.
Resolved(opts) == [opts EXCEPT !.ports = FALSE]

\* docker run: a new container under the session's one proxy name.
RunProxy(opts) ==
  /\ ~ProxyIsRunning /\ docker.minted < MaxProxies
  /\ docker' = [docker EXCEPT !.minted = @ + 1, !.proxy = docker.minted + 1, !.ports = opts.ports]

\* Launch asks for the range it has claimed, attach for none.
StartProxy(p) ==
  /\ At(p, "StartProxy")
  /\ \/ /\ RunProxy(Resolved([ports |-> "range" \in proc[p].mine]))
        /\ disk' = [disk EXCEPT !.state = IF @ = "none" THEN "seed" ELSE @]
        /\ Done(p)
     \/ Fail(p)
  /\ UNCHANGED issued

AwaitReady(p) ==
  /\ At(p, "AwaitReady")
  /\ \/ ProxyIsRunning /\ Done(p) /\ UNCHANGED <<docker, disk>>
     \/ Fail(p)
  /\ UNCHANGED issued

\* Only from here on does the rollback know of the proxy.
AwaitToken(p) ==
  /\ At(p, "AwaitToken")
  /\ \/ disk.state # "none" /\ DoneOwning(p, "proxy") /\ UNCHANGED <<docker, disk>>
     \/ Fail(p)
  /\ UNCHANGED issued

\* --network container:<name>: the namespace of the proxy that has the name now.
Namespace == docker.proxy

\* docker run: the name must be free and the proxy's namespace there to join.
\* The entrypoint of a worktree box creates the branch.
RunBox(at) ==
  /\ docker.box.st = "none" /\ ProxyIsRunning
  /\ docker' = [docker EXCEPT !.box =
       [st |-> "running", net |-> Namespace, lost |-> FALSE, harmed |-> FALSE, at |-> at]]

\* Mutant: docker run's failure is ignored.
StartBoxUnchecked(p) ==
  /\ At(p, "StartBox") /\ DoneOwning(p, "box") /\ UNCHANGED issued
  /\ \/ /\ RunBox(IF proc[p].wt THEN "tree" ELSE "repo")
        /\ disk' = [disk EXCEPT !.branch = @ \/ proc[p].wt]
     \/ UNCHANGED <<docker, disk>>

StartBox(p) ==
  /\ At(p, "StartBox")
  /\ \/ /\ RunBox(IF proc[p].wt THEN "tree" ELSE "repo")
        /\ disk' = [disk EXCEPT !.branch = @ \/ proc[p].wt]
        /\ DoneOwning(p, "box")
     \/ Fail(p)
  /\ UNCHANGED issued

Save(p) ==
  /\ At(p, "Save")
  /\ \/ /\ disk' = [disk EXCEPT !.record =
                      [found |-> TRUE, auto |-> proc[p].auto, wt |-> proc[p].wt]]
        /\ Done(p) /\ UNCHANGED docker
     \/ Fail(p)
  /\ UNCHANGED issued

\* docker start: the box joins the proxy that now has the name, or fails.
RestartBox(p) ==
  /\ docker.box.st = "stopped"
  /\ \/ /\ ProxyIsRunning
        /\ docker' = [docker EXCEPT !.box.st = "running", !.box.net = Namespace, !.box.lost = FALSE]
        /\ Done(p) /\ UNCHANGED disk
     \/ Fail(p)

EnsureBox(p) ==
  /\ At(p, "EnsureBox")
  /\ \/ docker.box.st = "running" /\ Done(p) /\ UNCHANGED <<docker, disk>>
     \/ RestartBox(p)
     \/ /\ docker.box.st = "none"
        /\ proc' = [proc EXCEPT ![p].todo = Launch \o Tail(@), ![p].auto = proc[p].seen.auto]
        /\ UNCHANGED <<docker, disk>>
  /\ UNCHANGED issued

TuiBox(p) ==
  /\ At(p, "TuiBox")
  /\ \/ docker.box.st = "running" /\ Done(p) /\ UNCHANGED <<docker, disk>>
     \/ RestartBox(p)
     \/ /\ docker.box.st = "none" /\ UNCHANGED <<docker, disk>>
        /\ Goto(p, IF proc[p].seen.found
                   THEN <<"Seed", "TuiProxy", "TuiRun">> \o Rest(p) ELSE <<>>)
  /\ UNCHANGED issued

\* The dashboard ignores what EnsureRunning returns ...
TuiProxy(p) ==
  /\ At(p, "TuiProxy") /\ Done(p) /\ KeepDisk
  /\ \/ UNCHANGED docker
     \/ RunProxy(Resolved([ports |-> FALSE]))

\* ... and recreates the box itself, without Launch.
TuiRun(p) ==
  /\ At(p, "TuiRun")
  /\ \/ RunBox("none") /\ Done(p) /\ UNCHANGED disk
     \/ Fail(p)
  /\ UNCHANGED issued

\* The terminal: the caller goes to the background, the user detaches or
\* quits, or docker attach ends ("exit": with the box, by its own detach keys or
\* because it failed, which the code does not tell apart).  A launcher's handle
\* cleans up on every return but the first; an attached terminal removes the
\* session on the last two.
Ending(p, how) ==
  LET me == proc[p]
      owner == me.cmd \in Launchers
      end == CASE how = "background"                               -> <<>>
               [] owner /\ me.auto                                 -> Cleanup
               [] ~owner /\ me.seen.auto /\ how \in {"quit", "exit"} -> Removal
               [] OTHER                                            -> <<>>
  IN  (IF how = "quit" THEN <<"StopBox", "RmBox">> ELSE <<>>) \o end
      \o (IF how = "background" \/ me.cmd = "task" THEN <<>> ELSE <<"ReadResume">>)

Session(p, how) ==
  /\ At(p, "Session") /\ KeepWorld
  /\ proc[p].cmd = "task" => how = "exit"
  /\ proc' = [proc EXCEPT
       ![p].todo = Ending(p, how),
       ![p].out = how]

\* saveResumeID reads the record, then writes back what it read.
ReadResume(p) ==
  /\ At(p, "ReadResume") /\ KeepWorld
  /\ \/ /\ docker.box.st # "none" /\ disk.record.found
        /\ proc' = [proc EXCEPT ![p].todo = <<"SaveResume">>, ![p].seen = disk.record]
     \/ Goto(p, <<>>)

SaveResume(p) ==
  /\ At(p, "SaveResume") /\ KeepDocker
  /\ \/ disk' = [disk EXCEPT !.record = proc[p].seen] /\ Done(p)
     \/ UNCHANGED disk /\ PassOver(p)

Lookup(p) ==
  /\ At(p, "Lookup") /\ KeepWorld
  /\ proc' = IF disk.record.found
             THEN [proc EXCEPT ![p].todo = Tail(@), ![p].seen = disk.record]
             ELSE [proc EXCEPT ![p].todo = <<>>, ![p].out = "failed"]

Read(p) ==
  /\ At(p, "Read") /\ KeepWorld
  /\ proc' = [proc EXCEPT ![p].todo = Tail(@), ![p].seen = disk.record]

HaltBox == docker' = [docker EXCEPT !.box.st = IF @ = "running" THEN "stopped" ELSE @]

\* docker stop fails: the command stops before it touches the proxy.
StopRunning(p) ==
  /\ At(p, "StopRunning")
  /\ \/ HaltBox /\ Done(p) /\ UNCHANGED disk
     \/ docker.box.st = "running" /\ Fail(p)
  /\ UNCHANGED issued

\* From here to RmBranch the code takes no notice of an error, or only prints it.
\* Where there is something to undo the step may fail, and what comes after it is done.
Harm == docker' = [docker EXCEPT !.box.harmed = TRUE]

StopBox(p) ==
  /\ At(p, "StopBox") /\ KeepDisk
  /\ \/ HaltBox /\ Done(p)
     \/ docker.box.st = "running" /\ Harm /\ PassOver(p)

\* docker rm without -f: a running container stays.
RmBox(p) ==
  /\ At(p, "RmBox") /\ KeepDisk
  /\ \/ docker.box.st # "running" /\ docker' = [docker EXCEPT !.box = NoBox] /\ Done(p)
     \/ docker.box.st = "stopped" /\ Harm /\ PassOver(p)
     \/ docker.box.st = "running" /\ UNCHANGED docker /\ PassOver(p)

StopProxy(p) ==
  /\ At(p, "StopProxy") /\ KeepDisk
  /\ \/ docker' = NoProxy(docker) /\ Done(p)
     \/ ProxyIsRunning /\ UNCHANGED docker /\ PassOver(p)

RmState(p) ==
  /\ At(p, "RmState") /\ KeepDocker
  /\ \/ disk' = [disk EXCEPT !.state = "none"] /\ Done(p)
     \/ disk.state # "none" /\ UNCHANGED disk /\ PassOver(p)

Release(p) ==
  /\ At(p, "Release") /\ KeepDocker
  /\ \/ disk' = [disk EXCEPT !.range = FALSE] /\ Done(p)
     \/ disk.range /\ UNCHANGED disk /\ PassOver(p)

\* A record that stays although its container exists goes on naming it.
Delete(p) ==
  /\ At(p, "Delete") /\ UNCHANGED issued
  /\ \/ disk' = [disk EXCEPT !.record = NoRecord] /\ UNCHANGED docker /\ Done(p)
     \/ /\ disk.record.found /\ UNCHANGED disk /\ PassOver(p)
        /\ docker' = [docker EXCEPT !.box.harmed = @ \/ docker.box.st # "none"]

RmBranch(p) ==
  /\ At(p, "RmBranch") /\ KeepDocker
  /\ \/ disk' = [disk EXCEPT !.branch = @ /\ ~(proc[p].seen.found /\ proc[p].seen.wt)] /\ Done(p)
     \/ disk.branch /\ UNCHANGED disk /\ PassOver(p)

Collect(p) ==
  /\ At(p, "Collect") /\ KeepWorld
  /\ Goto(p, IF disk.record.found /\ docker.box.st # "running" THEN <<"Reap">> ELSE <<>>)

\* A container that cannot be removed is left, and its session with it.
Reap(p) ==
  /\ At(p, "Reap") /\ KeepDisk
  /\ \/ docker.box.st # "running" /\ docker' = [docker EXCEPT !.box = NoBox] /\ Goto(p, <<"ReapRecord">>)
     \/ docker.box.st # "none" /\ UNCHANGED docker /\ Goto(p, <<>>)

ReapRecord(p) ==
  /\ At(p, "ReapRecord") /\ KeepWorld
  /\ Goto(p, IF proc[p].cmd = "gcAll" \/ docker.box.st = "none" THEN Removal ELSE <<>>)

(***************************************************************************)
(* What happens by itself                                                  *)
(***************************************************************************)
BoxExits == docker.box.st = "running" /\ HaltBox /\ UNCHANGED <<disk, proc, issued>>

ProxyDies ==
  /\ ProxyIsRunning
  /\ docker' = [docker EXCEPT !.proxy = 0, !.ports = FALSE, !.box.lost = @ \/ docker.box.net = docker.proxy]
  /\ UNCHANGED <<disk, proc, issued>>

\* A rule is saved from the proxy's own dashboard.
UserAddsRule ==
  /\ docker.proxy # 0 /\ disk.state = "seed"
  /\ disk' = [disk EXCEPT !.state = "user"] /\ UNCHANGED <<docker, proc, issued>>

Killed(p) ==
  /\ proc[p].todo # <<>>
  /\ proc' = [proc EXCEPT ![p].todo = <<>>, ![p].out = "killed"]
  /\ UNCHANGED <<docker, disk, issued>>

LaunchStep(p) ==
  \/ CheckName(p) \/ Seed(p) \/ Claim(p) \/ KillProxy(p) \/ EnsureProxy(p) \/ StartProxy(p)
  \/ AwaitReady(p) \/ AwaitToken(p) \/ StartBox(p) \/ Save(p)

AttachStep(p) ==
  \/ Lookup(p) \/ EnsureBox(p) \/ TuiBox(p) \/ TuiProxy(p) \/ TuiRun(p)
  \/ (\E how \in {"background", "detach", "quit", "exit"} : Session(p, how))
  \/ ReadResume(p) \/ SaveResume(p)

TeardownStep(p) ==
  \/ Read(p) \/ StopRunning(p) \/ StopBox(p) \/ RmBox(p) \/ StopProxy(p) \/ RmState(p)
  \/ Release(p) \/ Delete(p) \/ RmBranch(p) \/ Collect(p) \/ Reap(p) \/ ReapRecord(p)

Next ==
  \/ \E p \in Procs :
       \/ \E cmd \in Commands, asked, wt \in BOOLEAN : Begin(p, cmd, asked, wt)
       \/ LaunchStep(p) \/ AttachStep(p) \/ TeardownStep(p) \/ Killed(p)
  \/ BoxExits \/ ProxyDies \/ UserAddsRule

Spec == Init /\ [][Next]_vars

(***************************************************************************)
(* Properties                                                              *)
(***************************************************************************)
\* One invocation works on the name, and no second one ever has.
Alone == \A p, q \in Procs : proc[p].cmd # "none" /\ proc[q].cmd # "none" => p = q
Quiet == \A p \in Procs : proc[p].todo = <<>>
Finished(p, cmds, outs) ==
  proc[p].todo = <<>> /\ proc[p].cmd \in cmds /\ proc[p].out \in outs

Steps == (UNION {Range(Program[c]) : c \in DOMAIN Program})
         \cup {"StartProxy", "AwaitReady", "TuiProxy", "TuiRun", "Release",
               "ReadResume", "SaveResume", "Reap", "ReapRecord"}

\* The shape of the state; a name without a container has no namespace either.
TypeOK ==
  /\ docker.box.st \in {"none", "running", "stopped"}
  /\ docker.box.at \in {"none", "tree", "repo"}
  /\ docker.minted \in 0..MaxProxies /\ {docker.proxy, docker.box.net} \subseteq 0..docker.minted
  /\ docker.box.st = "none" <=> docker.box.net = 0
  /\ {disk.range, disk.branch, docker.ports, docker.box.harmed} \subseteq BOOLEAN
  /\ disk.state \in {"none", "seed", "user"}
  /\ \A p \in Procs : /\ Range(proc[p].todo) \cup proc[p].missed \subseteq Steps
                      /\ proc[p].mine \subseteq {"range", "proxy", "box"}

\* When commands come one at a time: whenever none is at work, a recorded session
\* whose container runs has it in the network namespace of the live proxy.  No order
\* of commands, kills and failures that are noticed takes its proxy from it.  What
\* can: the proxy's own death; a docker stop or a deletion of the record that failed
\* while the teardown went on; a launcher other than new that was given its name.
RecordedBoxGated ==
  /\ TypeOK
  /\ Alone /\ Quiet /\ disk.record.found /\ docker.box.st = "running"
       => docker.box.net = docker.proxy \/ docker.box.lost \/ docker.box.harmed

\* ... and, if Launch created it (the dashboard's own recreation claims nothing), it
\* holds its port range, so that no other session is given its ports: unless a docker
\* stop or rm of it or the deletion of its record failed unnoticed, or a launcher
\* other than new was given its name.
RecordedBoxHasRange ==
  Alone /\ Quiet /\ disk.record.found /\ docker.box.st = "running" /\ docker.box.at # "none"
    => disk.range \/ docker.box.harmed

\* A --rm session whose cleanup closure ran to the end, over the failure of any of
\* its steps and however the terminal was left, has left of its container, proxy,
\* rules, port range and record only what the step for that one failed to remove: no
\* failure spares another thing, and nothing that follows brings one back.
CleanupLeavesOnlyFailures ==
  Alone => \A p \in Procs :
    Finished(p, Launchers, {"detach", "quit", "exit"}) /\ proc[p].auto =>
      /\ docker.box.st = "running" => "StopBox" \in proc[p].missed
      /\ docker.box.st # "none"    => "RmBox" \in proc[p].missed
      /\ docker.proxy # 0          => "StopProxy" \in proc[p].missed
      /\ disk.state # "none"       => "RmState" \in proc[p].missed
      /\ disk.range                => "Release" \in proc[p].missed
      /\ disk.record.found         => "Delete" \in proc[p].missed

\* Of two creators of one name that both found it free, at most one is told that
\* the session is its own.
OneOwner ==
  \A p, q \in Procs : At(p, "Session") /\ At(q, "Session")
                      /\ {proc[p].cmd, proc[q].cmd} \subseteq Launchers => p = q

\* "Use --all to also remove worktrees and branches" (gc.go:24): gc without --all
\* deletes no branch.
PlainGcKeepsBranch ==
  [][\A p \in Procs : proc[p].cmd = "gc" /\ disk.branch => disk'.branch]_vars

=============================================================================
