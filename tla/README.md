# A TLA+ model of claude-container

claude-container runs Claude Code sessions in docker containers.  Each session
has a *box* (the container Claude runs in) and a *sidecar proxy* whose network
namespace the box joins; every connection and datagram the box sends is decided
by rules, or held until the operator decides it in the proxy's dashboard.  A Go
command line (`cmd/`, `internal/`) creates, attaches, stops and removes
sessions; the proxy container runs a mitmproxy addon with its dashboard
(Python, `proxy/claude_proxy`) and two Go daemons, `udp-redir` and
`publish-mgr`.

This directory holds the modules, the instances TLC checks, and proofs that
TLAPS checks.  All paths below are relative to the source tree.
`PROJECT.json` lists, per definition, the lines it was translated from, and
the hazards that the properties were chosen for.

To check an instance: `tlc -config X.cfg MCX.tla`; to check the proofs:
`tlapm M.tla` for each `M` in ProxyAddonProofs, UdpRedirProofs,
PortAllocProofs, PtyProxyProofs, ConversationsProofs, SessionProofs, TuiProofs,
PublishMgrProofs.

## 1. Inventory

### The parts, their state and their operations

| Part | Source | State it keeps | Operations that change it | Module |
|---|---|---|---|---|
| TCP/HTTP gate | `claude_proxy/addon.py`, `app.py` | the pending table with its time stamps, each flow's fate | `request`, `tcp_start`, `resolve`, `cleanup_timed_out`, the ten-second loop | ProxyAddon |
| Rule store | `claude_proxy/rules.py`, `patterns.py` | the rule list, `rules.json` | add, remove, import, expire, load, save; match | ProxyAddon |
| Dashboard handlers | `claude_proxy/dashboard.py` | WebSocket clients | resolve, rules, profiles, publish, user-allow | ProxyAddon, PublishMgr |
| UDP gate | `udp-redir/main.go`, `holdbuf.go`, `api.go` | held datagrams by destination | netfilter callback, ticker, `/resolve` | UdpRedir, UdpDaemon |
| UDP rule file, parsers | `udp-redir/rules.go`, `dnsparse.go`, `ipparse.go` | cached rules and their mtime | reload | UdpDaemon (parsers: no) |
| Publish manager | `publish-mgr/*.go` | published ports, user accept rules, two nft chains | publish, unpublish, user-allow, replay | PublishMgr |
| Port allocator | `portalloc/allocator.go` | the ledger of host port ranges | Claim, Release | PortAlloc |
| Session launch | `internal/session/*.go` | what a launch marked as its own | Launch, rollback, cleanup closure | SessionLifecycle |
| Session commands | `cmd/new,run,work,task,attach,stop,rm,gc.go` | none of their own | the commands | SessionLifecycle |
| TUI dashboard | `internal/tui/dashboard.go`, `conversations.go`, `cmd/tui.go` | the lists on screen, prompts, commands in flight, the timer | keys, messages, refresh and scan commands, the loop around it | Dashboard, Tui; stop, remove and recreate also in SessionLifecycle |
| Wizard | `internal/tui/wizard.go`, `cmd/new.go` | step, cursor, list, scroll offset, text input, answers | enter, back, keys; `createSession` | Wizard, Tui |
| Proxy container | `internal/httpproxy/httpproxy.go` | the container, its token, its state directory | ForceRestart, EnsureRunning, Stop | SessionLifecycle |
| Session store | `internal/config/config.go` | `sessions.json` | Save, Delete | SessionStore |
| Conversations | `internal/config/config.go`, `cmd/conversations.go` | each session's and each repository's `projects` directory | prepare, save, delete, gc --auth | Conversations |
| PTY proxy | `internal/proxy/proxy.go` | the goroutines around the docker client | Run | PtyProxy |
| Worktrees, workspaces | `internal/git`, `config/workspace.go` | worktrees and branches | create, prune, remove | the branch in SessionLifecycle, the choice of a worktree in Tui |
| Auth, profiles, extract, other commands, page, images | see `PROJECT.json` | none that outlives a call | – | not modelled |

### How they interact

- A *launch* (one process) writes session rules, claims a port range in the
  shared ledger, replaces the proxy container, waits for it and for its token,
  starts the box in the proxy's namespace, and saves the record.  Each of these
  is a docker command or a file edit that may fail; a deferred rollback undoes
  what was marked.
- Processes share files (`sessions.json`, the ledger, the conversation
  directories) and docker's containers by name.  Nothing locks a session or a
  file between processes.
- In the proxy container mitmproxy's event loop and the dashboard's event loop
  are two threads over one rule store and one pending table, each under its own
  lock; `rules.json` is written by the dashboard's thread.
- The dashboard forwards UDP answers to `udp-redir` and port and accept-rule
  requests to `publish-mgr` over HTTP.  `udp-redir` reads the rules from the file
  that the dashboard saves; no lock and no signal connects the two.
- The TUI dashboard and its conversation browser are one program that handles one
  message at a time; the commands it starts run in goroutines and their answers
  arrive late, out of order, and whatever is on the screen by then.  It ends to
  attach to a session or to run the wizard, and is started anew afterwards.
- A terminal (`internal/proxy`) is a docker client with five goroutines; its
  ending triggers the session's cleanup and the copy of its conversations.

### What is hard here, and what makes each part correct

| Part | Hard behaviour | Correct means |
|---|---|---|
| TCP/HTTP gate | verdict, intercept and insertion are separate steps; the operator's answer races the timeout; `kill()` raises for a client that hung up; a broadcast that raises ends the cleanup pass | nobody waits for ever, nobody is decided twice, errors fail closed |
| Rule store | save truncates before it writes, outside the lock; failed saves are swallowed; expiry; malformed patterns raise in the middle of a match | saved = enforced; deny before allow |
| UDP gate | verdicts are set after the unlock, by three kinds of goroutine, in calls whose failure is ignored; lookup and drain are two steps | each datagram has one owner until its verdict is asked for, once; the buffer is bounded; the rules saved last decide |
| Publish manager | nft first, table later, lock only around one of them; callers time out | the chains say what the tables say |
| Port allocator | load–scan–save under a mutex of one process; one temporary file name for all | no two running sessions share a port |
| Sessions | some thirty steps in thirteen commands, each may fail, noticed or not, or be the last | a listed running box is behind a live proxy and owns its ports; cleanup leaves only what it failed to remove |
| PTY proxy | two goroutines close one channel; every goroutine must be woken; a prefix expires while its second key is under way; the docker client may end without its container | Run always returns; no running container is cleaned up; keys are neither lost nor misread |
| Conversations | copies race with writers and other copies; a killed copy is torn; links | what Claude wrote last stays on disk; a finished save leaves a whole copy |
| Session store | whole-file rewrite in place by several processes | a lost update loses only a contested name |
| Wizard | ten steps share a cursor, a list and an input; `goBack` computes the step before from the result and the optional questions | a row is always highlighted, back leads where the user came from, the review says what will be launched |
| TUI dashboard | stale lists, answers out of order or for a screen that is closed, a timer that the browser swallows | `y` destroys only what the prompt was about; a dashboard left alone catches up |

## 2. Modules

`FlowGate` is the one abstract specification: a connection is decided at once,
or held and then decided, and a decision is final.  Both gates are shown to
implement it, with the refinement mappings `Gate` in their modules.

**ProxyAddon.**  `flow[f]` is what mitmproxy did with a connection, `pending`
the addon's table, `hook` the position of the hook between the verdict and the
insertion (it holds neither lock there), `loop` the position of the cleanup
pass, `dash` the position of the dashboard's handler, `file` what a load of
`rules.json` would give.  Actions follow the lock scopes: `Request` is the hook
up to its verdict, `Hold` the rest; `ResolvePop`, `ResolveAdd`,
`ResolveVerdict`, `SaveOpen`, `SaveWrite`, `SaveFails` are the handler;
`CleanupTimedOut` is one critical section, after which `BroadcastRaises` or
`CleanupExpired` ends the pass.  `Restart` is the container being replaced at
any point.  What a pattern matches is data: a rule carries the set of
connections it `covers`; a rule whose regular expression does not compile
raises when it is reached.  The order of the rule list is abstracted (either of
two rules of one action may be reached first), so `MatchRequest` is a set of
outcomes.

**UdpRedir.**  The hold buffer and the three kinds of goroutine around it.
What a goroutine took out of the buffer and has not decided is in a variable of
its own (`evicted`, `swept`, `req[r].ids`).  Datagram ids grow in arrival order
and the TTL is one constant, so a set of ids is the queue and expiry goes in
order.  The outcome of the rules is a free choice (`DecideNow`, `Hold`).  The
kernel's queue drops at its limit.  Every verdict is a `SetVerdict`, a netlink
write with a deadline (`main.go:98`) whose error all four callers discard: the
outcome may be `refused`, after which nobody has the datagram, nobody asks again,
and the kernel keeps it in its queue.

**UdpDaemon** composes it with the rules: the dashboard's save (`SaveOpen`,
`SaveWrite`), the file's modification time (`newer` compares it with the copy's,
`hurried` remembers two writes in one tick of its clock), and `Callback`, which
reloads and then decides by `Ruling`.  `readable` says whether the daemon's path
names the dashboard's file at all.  The stat and the read of a reload are one
step.

**PortAlloc.**  `ledger` is the file, `tmp` the temporary file, `proc[p]` a
call between its load and its rename, `given` what running sessions were
launched with.  `Base` says where the scan for a gap ends, without a loop;
`PortAllocProofs` shows that it finds a gap, and one whenever there is one.

**SessionLifecycle.**  One session name.  A command is a list of steps
(`Program`), the process holds what is left of it (`todo`); a step may replace
the rest of the list: a failed launch by its `Rollback`, an ending terminal by
`Ending`, an attach without a box by `Launch`.  Each step is one docker command
or file edit and may fail.  Where the code looks at the error the command ends
(`Fail`, with its rollback); where it does not, as in all of the rollback, the
cleanup closure, `rm` and the shutdown, the step is passed over (`PassOver`,
remembered in `missed`) and the next one is done.  `Killed` ends any process
anywhere, the box exits and the proxy dies whenever they like.
`docker.box.harmed` remembers that a docker stop or rm of this box, or the
deletion of its record, failed in that way, or that a launcher which does not ask
whether its name is taken came upon it.
`docker.box.net` is the proxy instance whose namespace the box is in, which is
what tells a box behind its session's proxy from one left in a namespace
that is gone.

**PtyProxy.**  `Run` and its goroutines: the reader, the channel of one key,
the input loop with the prefix key, the output pump, the redraw helpers, the
goroutine that waits for the client, and `Run`'s own select, grace period,
kill, reap, `docker stop`, `docker rm`, join and cleanup.  Closing a closed
channel is a panic, and is in the model: `MainSeesExit` looks, `MainCloses`
closes, and a process that panicked has not returned.  `raw` is the state of the
terminal.  `slips` remembers the two ways in which docker leaves a container
running that the code takes for gone: the client ends without it (its own detach
keys, Ctrl-P Ctrl-Q, which `output_tty.go:17` leaves on, a lost daemon, or Run
killing it) and a `docker stop` that fails.

**PublishMgr.**  The tables and the two nft chains, and the calls the dashboard
makes.  The dashboard's loop is blocked while it waits for a call and gives up
after five seconds while the call goes on.  `Apply` (nft) and `Record` (table)
are two steps, as in `main.go:342-365`; `Remove` finds its rule by substring.

**Conversations.**  `dir[s]` is a session's `projects` (missing, a directory
with files, or a link), `repo` the repository's directory, `proc` the copies
under way: each checks, opens the file, which empties it (`Open`), and then
writes it (`Fill`).  `latest` is what Claude last wrote, `cut` the conversations
of which a writer was cut short, `given_up` those that the user deleted or
resumed by id.

**SessionStore.**  `sessions.json` as several processes load, edit, empty and
rewrite it; `Outcome` says when two writers that both emptied the file leave a
torn one.  `job[p]` is where a process is in its load, edit and write; `want` is
what the last update of each name asked for, `contested` the names of which two
updates overlapped.

**Wizard.**  `step`, the shared `cursor`, `choices`, `scroll` and `field`, the
saved cursors, and `result`; one action per handler, and `Back` for `goBack`.
`via` is a history of the step each step was last entered from and the row that was
highlighted there, against which `Back` is judged; `declined` of whether "No
worktree" was ever answered.  Layout and colours are left out; what the screen
shows is `VisibleRows`, `ReviewedType` (the review's summary) and `CommandType`
(its "CLI equivalent").

**Dashboard.**  The model of the bubbletea program: `screen`, the lists as last
received, the prompts, and `jobs`, the commands in flight.  A refresh reads the
records and then the containers' states (`ListRecords`, `ReadStatuses`), between
which anything may change them; its answer is handed over later (`Deliver`), in
any order.
`things` is the world that this program and `Outside` ones change.  A conversation
is a repository and an ID, and two repositories may have one ID (`conversations
copy` makes that): `y` deletes by ID out of the list that is loaded by then, as
`conversations.go:120-124` does.

**Tui** has the two commands over both: `new`, which runs the wizard and creates
what it describes (`Created`), and `tui`, the loop around the dashboard.  There
the wizard is replaced by what it promises (`Promised`).

## 3. What the runs check

| Run | Module, cfg | Question | States |
|---|---|---|---|
| `proxy_addon` | MCProxyAddon, ProxyAddon.cfg | does any interleaving of hooks, cleanup, dashboard, expiry, failed saves and restarts strand, double-decide or wrongly pass a connection; are the saved rules the enforced ones; is every held connection decided; does the addon implement FlowGate | 156 k |
| `udp` | MCUdpDaemon, UdpDaemon.cfg | has each datagram one owner until its verdict is asked for, and only once, though any `SetVerdict` may fail; is the buffer bounded; does only its own "allow" release it; is a verdict always asked for; is it judged by the rules saved last; does the daemon implement FlowGate | 792 k |
| `port_alloc` | MCPortAlloc, PortAlloc.cfg | is one ledger always disjoint, whatever processes race; is "exhausted" true; does the ledger have every running session, and are their ports disjoint, as long as calls do not overlap | 1.1 M |
| `lifecycle` | MCSessionLifecycle, Lifecycle.cfg | three commands of any kinds on one name, with noticed and unnoticed failures of any step and kills between any two: is a listed running box gated, does it own its ports, does `--rm` leave only what it failed to remove; two creators of one name that race: is at most one told that the session is its own | 740 k |
| `gc_deletes_branch` | SessionLifecycle, LifecycleGc.cfg | does `gc` without `--all` keep branches, as its help says: **no** | – |
| `pty_proxy` | PtyProxy, PtyProxy.cfg | are keys interpreted as documented; is a running container cleaned up, or left by quit, only when docker slipped; does `Run` return, or the process die of a command of the user's | 696 k |
| `pty_terminal` | PtyProxy, PtyTerminal.cfg | is the terminal always restored: **no** | – |
| `publish_mgr` | MCPublishMgr, PublishMgr.cfg | do the two nft chains say what the two tables say, with overlapping calls, time-outs and restarts | 397 k |
| `conversations` | MCConversations, Conversations.cfg | is what Claude wrote last on disk, whatever copies race or are killed, and does a finished save leave a whole copy | 1.4 M |
| `conversation_lost` | MCConversations, ConversationLost.cfg | does resuming replace only a link, as the comment says: **no** | – |
| `session_store` | MCSessionStore, SessionStore.cfg | do overlapping rewrites of `sessions.json` leave the sessions nobody contests alone | 290 k |
| `tui` | MCTui, Tui.cfg | is a row of the list that is asked always highlighted; does going back retrace the way, rows included; does the review follow the answers, and the launch the review; does `y` destroy only what was asked; is there one timer; does the list catch up | 831 k |

The three runs answered "no" each end in a counterexample; see section 6.

### Bounds, and why they are enough

- `proxy_addon`: three connections, so that a cleanup pass can meet a live one
  and one whose `kill()` raises while a third is in the handler's hands; one of
  the three is a raw TCP one without an address.  Two rule ids, of
  which a seeded deny rule that expires has one; three rule bodies: a temporary
  allow, a deny that overlaps it, and an allow that does not compile.
- `udp`: two destinations, one held datagram each (`Max` = 1), a kernel
  queue of two and three datagrams (`MaxPackets`), so that both limits are met,
  also by datagrams whose verdict was refused;
  two concurrent `/resolve` requests, so that one can drain what the other
  looked up.  The file either says nothing or allows both and denies the first,
  so that precedence matters.  The proofs have no such bounds.
- `port_alloc`: three sessions and pools 1..2 and 1..4, sizes 1 and 2, so that
  there are gaps that are too small, gaps that fit exactly, and exhaustion; two
  processes suffice for every race between a load and a rename.  Ports end at
  `MaxPort` (65535 in the code).  The pools have
  one start: with different ones a claim may lie below its pool, because the
  cursor starts at the pool's start but the base of the ledger's ranges is not
  compared with it (`allocator.go:32-34,125`).
- `lifecycle`: three commands one after the other reach every pairing such as
  create–kill–attach or create–rollback–gc; three proxies, the first and two that replace it; two failures passed over in a row of steps, which is what it takes for one to spare
  or to spoil another (a docker stop that fails makes the rm fail too).  `bare`
  with both of its forms stands for `run` and `work`, whose programs are the same.
  The properties are stated for invocations that come one at a time (`Alone`): no
  lock makes more true.  Two overlapping invocations are explored for two `new` of
  one name whose teardown succeeds (the constraint `OneOrTwoCreators`).  Launchers
  other than `new` take any name, recorded or not, as in the code.  The operator's
  own rules, which no property tells from the seeded ones, come during the first
  command.
- `pty_proxy`: four keys, which is enough for two prefix sequences and for a
  literal prefix followed by a command; a channel of one key instead of 64
  (`proxy.go:280`), so that the reader does block on a full one.  `pty_terminal`
  needs two keys.
- `publish_mgr`: a range of two ports, two statements, two calls at a time and
  two identifiers: one host port published for the other's container port, an
  addition overtaking a deletion, a late call after its caller has given up.
- `conversations`: two conversations growing to two versions, two sessions, two
  terminals; at most two mishaps (deletions, resumptions by id and cut writers
  counted together, the constraint `FewMishaps`).  `conversation_lost` has no such
  constraint.
- `session_store`: three names and three processes, so that two updates overlap
  over a third's record; three records ever written.
- `tui`: two branches on a screen of one row (`MaxVisible` = 1), so that the list
  scrolls; two profiles of which the second is the default; one workspace; in and
  out of a repository, with and without branches.  Two sessions; two repositories
  that have a conversation of one ID, and one of them another; two commands in
  flight (`MaxJobs`), so that
  a stale answer overtakes a newer one; two changes of the world
  (`MaxChanges`), whoever makes them.

### Fairness

Without a liveness property a run assumes none.  Four runs have one:

- `proxy_addon`: weak fairness of the hook's second half, of the cleanup pass
  and its ending, of the handler's next step, and of the time-out of a held
  flow.  mitmproxy's loop and the dashboard's loop are threads that run, each
  of those steps once enabled stays so until it is taken, and the clock goes
  on.  Nothing makes a client, the operator, rule expiry or a restart act, and a
  broadcast may raise every time.
- `udp`: weak fairness of the callback's drop, of the next expiry of a held
  datagram, of the ticker's steps and of each request's next step: goroutines
  run and time passes.  No arrival, request or save is fair.  `AllDecided` says
  that the kernel's queue always empties again, down to the datagrams whose
  `SetVerdict` failed.
- `pty_proxy`: weak fairness of the goroutines, and of the docker client
  exiting once its container no longer runs.  Nothing makes the user type or the
  container write, so no goroutine may need one more key or one more byte.
- `tui`: weak fairness of each command in flight (its goroutine runs, its answer
  is handed over), strong fairness of the timer's tick: a timer fires whatever
  else is in flight, while the bound `MaxJobs` disables it again and again.
  Nothing is assumed of the user, and `ListCatchesUp` is about one who leaves the
  dashboard alone.

## 4. What is proved

TLC checks the instances above; these hold for all values of the constants.

`ProxyAddonProofs` (assumption: `ConstantsAssumption`, i.e. the sets of rules
and bodies have their shapes and `None` is not a flow).  The inductive invariant
is

    Inv == TypeOK /\ HandlerInv /\ OneDecider /\ HeldIsTracked /\ FileMatchesStore

`OneDecider` alone is not inductive: that a flow is still held when its handler
decides it needs to know that the handler's flow is one (`HandlerInv`) and that
the overdue flows are pending (`TypeOK`).  `FileMatchesStore` needs the second
half of `HandlerInv`: the snapshot being written and the store differ at most by
expired rules, which the cleanup pass may have swept meanwhile.  There is one
lemma per conjunct, with one step per action; then

- `TypeCorrect`, `DecidedByOne`, `NoneStranded`, `SavedIsEnforced`: the four
  invariants;
- `HeldFailsClosed`, `DenyTakesPrecedence`: the two action properties;
- `Refinement`: `Spec => Gate!Spec`.  `FlowSteps` says how each action changes
  `flow`; every change is a `Hold` or a `Settle` of the abstract gate, or a
  stutter.

`UdpRedirProofs` is about `DaemonSpec` (assumptions: `ConstantsAssumption`,
`SaveableAssumption`).  The inductive invariant of the buffer is

    Inv == TypeOK /\ Apart /\ Keyed /\ HeldBounded

`Apart` is `OnePlace` in the form a step preserves: the places are pairwise
disjoint and together they are what nobody has asked a verdict for.  `Keyed` says that what a
place of key `k` holds was held under `k`; without it nothing says that an
answer for `k` releases only `k`'s datagrams.  `HeldBounded` needs that
`Add` takes the oldest out of a set that is finite and full, whence lemmas on
cardinality.  `DiskInv` relates the copy of the rules to the file through the
modification time, and is an invariant of the daemon's part alone.

- `NoneForgotten`, `BufferBounded`: the invariants `OnePlace` and `HeldBounded`.
  The places of `OnePlace` include that of the datagrams whose `SetVerdict`
  failed: a datagram without a verdict is waiting, in one goroutine's hands, or
  refused, and in one of these only;
- `ReleasedOnPurpose`, `LastSaveJudges`: the action properties;
- `Refinement`: `DaemonSpec => Gate!Spec`, so both gates implement FlowGate.

`PortAllocProofs` (assumption: `ConstantsAssumption`).  `ScanFindsAGap` and
`ScanIsExhaustive` are about the scan for any ledger of disjoint ranges: the base
it ends at begins a gap that is wide enough, and if it ends past the pool, every
base in the pool would have overlapped.  They rest on `ScanSplits`: the ranges
are below the base the scan stopped at or above the range it found.  The
invariant is `Good` for every ledger there is — the file, the temporary file and
each process's copy have disjoint ranges in which every session has one — with
`OneAtATime` for the theorems about running sessions: as long as no two calls
overlapped, one process is at work and its copy is the file.

- `LedgersDisjoint`, `ExhaustedForGood`: whatever the processes race on;
- `RunningIsRecorded`, `NoPortIsShared`: unless calls overlapped.

`PtyProxyProofs` (assumption: `ConstantsAssumption`).  The parity of prefixes
needs no induction over the keys: one more prefix adds its position to the run
before the next key, any other key ends the run (`RunGrows`), so a command
becomes the key after the next prefix and back (`CommandGrows`).  The invariant
`Understood` says that the input loop's state is that parity, beside what
`KeysInterpreted` says; `Chosen` says when the user's choice is final, and `Gone`
follows Run along its branches with what each knows of the container.

- `KeysAsDocumented`: the invariant `KeysInterpreted`, for any number of keys;
- `CleanedAfterEnd`, `QuitHasStopped`: the invariants `NoRunningCleanedUp` and
  `QuitStopsContainer`.  Nothing is assumed of docker: both say that a running
  container is cleaned up, or left by a quit, only after one of the two `slips`.

`ConversationsProofs` (assumption: `ConstantsAssumption`).  `KeptUnlessResumed`
holds because a session's own copy is never touched but by Claude and by a
resumption of that conversation (`OwnCopy`), which is inductive.
`SavedWhenDone` needs `Progress`, what a save has seen to, `LinksResumed`, that the
links it passes over are those of resumed conversations, and `Torns`, that an
empty copy which nobody is filling is one whose writer was cut short.

- `LastWordsKept`, `FinishedSaveCopied`: the two invariants.  The second says
  *whole* copy, perhaps of an earlier version, or one that another save is filling;
  it excepts what was deleted, resumed by id or cut short.

`TuiProofs` (assumptions: `WizardAssumption`, `DashboardAssumption`,
`TuiAssumption`; the last says that no two of the sessions there are at first
share a name, which is how the store keys them, and that what the name question
takes, typed or generated, is the name of a session).  About the wizard: each step's
screen is what its handler put there, but what the *later* steps need is what the
earlier ones left in the result and the saved cursors, so the invariant says of
each step what the steps on the way to it have left behind, and that `goBack`
leads to a step whose saved cursor fits.

- `ARowIsHighlighted`, `AnswersReviewed`: the invariants `RowHighlighted` and
  `ReviewFollowsAnswers`, for any branches, profiles and workspaces.  The second
  is exact about "No worktree", which is never taken back: the review's command
  has `--no-worktree` if and only if that was ever answered, or outside a repository
  (`DeclineSettled`);
- `BackIsBack`: the action property `BackRetraces`, the step gone back to and the
  row that was highlighted there;
- `RunsTheForm` (`Spec => WizardSpec`: within the commands the wizard is the one of
  its module) carries these over to Tui, and `LaunchedAsReviewed` proves
  `ReviewedIsLaunched`: what `new` launches is what the command of the review
  says, and what its summary says but for a "No worktree" taken back.

About the dashboard, for any sessions, conversations and repositories:

- `PollsOnce`: the invariant `OneTimer`.  Not inductive: which screens a timer may
  be missing on depends on whether the browser has been opened (`visited`) since
  the program was last started, and whether it runs at all (`TimerInv`);
- `PromptsMeanWhatTheySay`: the action property `OnlyWhatWasAsked`.  A stale
  answer may move the rows and even replace the list under an open prompt; the
  proof shows that the name or ID `y` acts on was fixed when the prompt was put up and
  that taking the first match out of a list leaves every other member in it: no
  session but the one named goes, and at most one conversation, of the ID that `d`
  was pressed on.  Which repository's it is, is not said (section 6);
- `TuiTypeCorrect`: `TypeOK` of both programs.  A list on the screen is whatever the
  last answer brought, so the invariant (`Typed`) also says of each command in
  flight that it brings what it is for, at every stage of its work; of every cursor
  that it never falls below the first row, and of `RowAt` that it stays within a
  list that became shorter (`ClampedRow`); and of the form that it names what can
  be a session (`NameTyped`), which is where the two programs meet.

`PublishMgrProofs` (assumption: `ConstantsAssumption`).  Both properties count
rules against entries, so their invariants are about cardinalities: adding an
entry under a new key adds one to one count (a free port, an identifier never
given out), taking out the one rule that a deletion finds takes one from it.

- `TypeCorrect`, `OpenAsListed`: types, and `RulesMatchEntries`;
- `AllowedAsListed`: `ChainMatchesEntries`, with calls that overlap, time out or
  are refused at any step.  Its hypothesis is that no statement's text is part of
  another's; the deletion searches by text, and without it the property is false
  (section 6).

`SessionProofs` has two parts.  *The store* (assumption: `MaxSaves` is a natural
number): the inductive invariant adds `HoldersKnowBystanders` to
`BystandersKept`: a process that has read the list has the right record of every
name that is neither its own nor contested, since any update that happened since
its read overlapped it and so is contested.  `OthersAreKept` follows
(`StoreTypeCorrect` is a lemma on types).

*The lifecycle* (assumptions: `LifecycleAssumption`; `CommandsAssumption`, that
every command has a program).  What an invocation relies on depends on the steps
it has left, in no order that a state shows, because a step replaces the rest of
the list.  The invariant therefore speaks of the *set* of steps that are left,
and `Fine(a, later)` says which sets may stand behind a step `a`: "the release of
the range comes only behind the removal of the box", "behind the start of the
box come the save and the terminal and nothing else".  `Sound` lists, the ones all
of whose steps are fine, are closed under tail and concatenation, and every list
that the code makes (programs, rollbacks, endings, a relaunch) is sound.  Over
that stand

- `Typed`, inductive for any interleaving: types and sound lists;
- `OneAtATime`, when commands come one at a time: `World`, what is true of the
  name at every step, and `Right`, what the invocation at work relies on: a launch
  that has yet to start its box finds nothing recorded that has one (`Free`), and
  owns its range from the claim on; a rollback gives the range back only once the
  box is gone or has been harmed; the cleanup closure has undone what it no longer
  has before it, or has missed just that (`CleanedSoFar`);
- `Creators`, for the race of two launches: at most one of them has got past
  `docker run` and not yet left its terminal, and while it is there the container
  is, so the other one's `docker run` fails.

No property is provable from the three variables alone: each needs what the steps
that are left say about them.  There is one lemma per step, from which follow

- `LifecycleTypeCorrect`: `TypeOK`, whatever commands overlap;
- `RecordedIsGated`, `RecordedHasRange`, `CleanedUp`: the invariants
  `RecordedBoxGated`, `RecordedBoxHasRange` and `CleanupLeavesOnlyFailures`, for any
  number of commands and proxies, with any step failing noticed or unnoticed.  The
  failures that do break the first two (`harmed`) and that the third excepts
  (`missed`) are named in the statements, each for its own resource;
- `TwoCreatorsOneOwner`: `OneOwner` as long as commands come one at a time or no
  more than two have been given, for any two commands; the run takes two `new`.  A third command, such as a removal between
  the two, may free the name while the first owner's terminal is still open.

Only model-checked: the liveness properties (`HeldIsDecided`, `AllDecided`,
`RunReturns`, `ListCatchesUp`; liveness under fairness and ENABLED are beyond the
prover).  The prover also does no induction over data and has no SMT backend next
to RECURSIVE operators, which is why no module here declares one: the scan of the
port allocator is described by where it ends, the browser's sorted lists by what is true of them (`NewestFirst`, `ConvosOf`), and
the parity of prefixes by counting.

## 5. What is not modelled

- Pattern semantics (wildcards, regular expressions, ports, methods), the
  suggestions of `patterns.py`, IP and DNS parsing, nft templates and the
  statement validator: pure functions; a rule covers a set, a statement is a
  value.
- `udp-redir` between the stat and the read of one reload.  A save between them
  is read at once with the older time and read again at the next datagram; one
  that truncates between them is a parse error, as in the model's torn file.
- `/pending` and the counters of `udp-redir`: read-only and informative.
- What WebSocket clients see, the token check, TLS passthrough settings.
- docker: what `docker inspect` answers is true, and a `docker run` that fails
  leaves no container; a name is used by one container at a time; `docker rm` without `-f`
  leaves a running container; `docker start` joins the proxy that has the name
  now, or fails.  The network, images and mounts are not modelled.  mitmproxy's
  `kill()` and `resume()` are external in the same sense.
- Errors of the local filesystem, except in saving rules and the killed writers
  of conversations and `sessions.json`.  Writing the ledger's temporary file is
  one step, so are preparing a session's directory and `gc --auth`.
- The TUI's own creation of a session (`tui.go:189-225`) is not a command of
  SessionLifecycle; in Tui it is `PickEnter`, one step.
- Worktree set-up and `git worktree prune` on the host, workspaces, `repos.json`
  (kept like `sessions.json`), the migration, the layout of the TUI's screens,
  authentication, sandbox profiles, extraction and transcripts, the auto-accept
  of prompts (`proxy.go:124-255`).

## 6. Where the code and its texts differ

Shown by a run:

1. `gc_deletes_branch`: `gc.go:65` asks whether the container exists after
   having removed it, so plain `gc` deletes branches that its help
   (`gc.go:23-25`) reserves for `--all`.
2. `conversation_lost`: `PrepareSessionConfig` (`config.go:273`, "remove stale
   symlink") removes whatever has the conversation's name, which may be the
   only copy of what was written since.
3. `pty_terminal`: the input loop and `Run` both look whether `done` is closed and
   then close it (`proxy.go:338-347,397-404`).  When the client's exit and the
   user's `d` or `q` coincide, the second close panics; in the input loop's
   goroutine that ends the process without the deferred restoration
   (`proxy.go:77`), the terminal is left raw and the session is not cleaned up.

Met while modelling, but not the subject of a run of its own:

- `EnsureRunning` (`httpproxy.go:430-434`) rebuilds the options without
  `PublishRange`; no port is ever forwarded, and `publish-mgr` exits at its start
  (`main.go:79-83`), against `README.md:724-728`.  The model has it (`Resolved`).
- "When you approve, the held packet is released to the wire"
  (`README.md:601-602`): an approved datagram whose
  `SetVerdict` fails is not released, is in nobody's hands, and stays in the
  kernel's queue, while the reply is ok (`api.go:101`).
- Teardown goes on over failures without saying so: a docker stop that fails in the
  rollback leaves a recorded running box without its proxy and its range
  (`launch.go:40-51`), one that fails in the `--rm` closure leaves a box that no
  record names (`launch.go:285-294`).  The model's `harmed` and `missed`.

- The allocator's comment (`allocator.go:5-7`) claims a flock; none is taken, and
  two overlapping invocations can give two running sessions the same host ports.
  `NoOverlapUnlessRaced` states that exception.
- The wizard's "No worktree" is not taken back by answering the worktree question
  again (`wizard.go:240-246` against `222-226`); the review's summary then says
  worktree (`wizard.go:828-839`) while its command has `--no-worktree`
  (`wizard.go:891-892`) and `new` runs in the directory itself (`new.go:238-243`).  Out of a
  repository the name step sets it too.  `ReviewedIsLaunched` has the exception.
- The wizard's equivalent command line prints `--worktree` without the value that
  the flag takes (`new.go:165`); packages and permissions prefer the flags to the
  wizard's answers, against the comment at `new.go:92`; the review's help says
  "esc cancel" while esc goes back; the case of the prompt step in `goBack` is
  never reached.
- The conversation browser drops the timer's tick (`dashboard.go:103`), so a
  dashboard that has been to the browser polls no more: `ListCatchesUp` excludes
  it, and `OneTimer` says what is left.
- A late answer may put the conversations of one repository under the heading of
  another (`conversations.go:216,321`), also under an open prompt.  `y` then looks the
  ID up in that list (`conversations.go:120-124`): if `conversations copy` has put
  the conversation in both, the other repository's file is deleted.
  `OnlyWhatWasAsked` says what is left: one conversation at most, of that ID.
- `README.md:519` has `tab` toggle a diff view; there is no such key.
- `main.go:46-48` of `udp-redir` says that the rules "always reflect the latest
  dashboard edits"; two saves within one tick of the file's clock are the
  exception in `JudgedByLastSave`.
- `udp-redir` matches rules without regard to `expires_at` (`rules.go:36`), and
  skips a deny rule whose regular expression does not compile
  (`rules.go:79-81`), where the HTTP gate fails closed.
- A launch that fails between the proxy's start and `proxyUp` leaves its proxy
  (`launch.go:190` against `25-27`).
- `run`, `work` and `task` with the `--name` of a recorded session launch over
  it: the launch replaces the proxy of a box that still runs, fails at
  `docker run`, and its rollback or a kill leaves that box without a proxy
  (`launch.go:174-190`).  The model has it, and calls such a box `harmed`.
- A recreation by attach works on the primary checkout (`attach.go:104-108`);
  if it fails, the rollback deletes the user's rules (`launch.go:46`).
- `rm` leaves a running box (`rm.go:28-34`) and the port range (`rm.go:51`);
  TUI remove leaves proxy, state directory and range
  (`internal/tui/dashboard.go:123-141`), and the TUI's recreation claims no
  range (`tui.go:67-97`).
- Detaching from a `--rm` session removes it (`README.md:484` against
  `output_tty.go:15`); `task --keep` has no effect (`options.go:93-96`).
- `saveResumeID` writes back the record it read and may bring back one that was
  deleted meanwhile (`rm.go:66-78`).
- A box that still runs in the namespace of a proxy that died is taken as good
  (`attach.go:93`); the model says `lost`.
- `docker attach` that ends by docker's own detach keys, or without its container
  for another reason, makes Run clean up a session at work (`proxy.go:398`, against
  the comment at `proxy.go:41`): the exception `clientLeft` in
  `NoRunningCleanedUp`.  A failed `docker stop` of a quit goes unnoticed
  (`proxy.go:418-419`).  A detached `shell` may wait for output that never comes,
  and is left out of `RunReturns`.
- Two terminals that save one conversation at once: the second `WriteFile` empties
  the whole copy of the first (`config.go:320`) although it had found none
  (`config.go:312`); killed there, it leaves an empty copy, which every later save
  passes over.
- With one accept statement part of another, deleting the shorter may remove
  the longer's rule (`userallow.go:102-116`); the run takes statements apart.
- Nothing is replayed after a restart: `publish-mgr` reads
  `/config/proxy-state/<session>/rules.json` (`main.go:115`) while the session's
  own directory is mounted at `/config` (`httpproxy.go:280`), against
  `README.md:632-635`.  `udp-redir` reads the same path (`main.go:88`; the image,
  `proxy-image.nix:101-104,179`, sets no other), so that outside the tests it has
  no rules and holds every datagram; `JudgedByLastSave` covers both cases of
  `readable`.
- A user-allow rule is stored under one id and deleted under another
  (`dashboard.py:477,544`), so it stays in the file.
- `git worktree prune` on the host drops the entries of worktrees whose paths
  exist only in other sessions' containers (`git.go:108`).
- A `sessions.json` torn by two writers never parses again: every Save, Get and
  Delete fails from then on, while List shows no sessions.

## 7. Plan

Modelled, in this order: ProxyAddon with FlowGate and its proofs, UdpRedir,
PortAlloc, SessionLifecycle, PtyProxy, PublishMgr, Conversations, SessionStore
with its proofs, Wizard, Dashboard and Tui with theirs, UdpDaemon; then the proofs
of UdpRedir, PortAlloc, PtyProxy and Conversations; of the dashboard's timer and
prompts, PublishMgr and SessionLifecycle; then the failures that the code ignores
(verdicts, teardown, the docker client) and the exact exceptions they force.

Next modules:

1. *Worktrees*: several sessions on one repository, prune, removal, workspaces.
2. *Broadcast*: WebSocket clients that come and go while broadcasts iterate
   over them; what a client that reconnects has missed.
3. Matching: precedence and wildcards against a reference definition.

4. The TUI's creation and recreation as commands of SessionLifecycle, with a
   `docker run` that fails and leaves a created container.

Every safety property of the passing runs has its theorem (section 4 names the
hypotheses, of which those of `OneOwner` are the ones worth weakening: more than
two commands at a time); further proofs go with the modules above.
