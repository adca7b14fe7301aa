--------------------------------- MODULE Tui ---------------------------------
(***************************************************************************)
(* The two commands that talk to a user in full screen.  "new" runs the    *)
(* wizard and creates the session it describes (cmd/new.go); "tui" runs    *)
(* the dashboard in a loop (cmd/tui.go), which each time ends to attach to *)
(* a session, to create one with the wizard, or for good.  On the way to   *)
(* the dashboard's loop the wizard stands for what it promises, Promised;  *)
(* on the other it is there in full.                                       *)
(***************************************************************************)
EXTENDS Wizard, Dashboard

VARIABLES
  program,  \* what is on the terminal
  attached, \* the session the terminal is attached to
  launched  \* "new": the session it launched, as the review would put it

tui == <<program, attached, launched>>
vars == <<form, world, dash, tui>>

CONSTANT FirstRecords  \* the sessions there are to begin with

ASSUME TuiAssumption ==
  /\ FirstRecords \in Seq(Record)
  /\ {Trim(t) : t \in Texts} \cup {Generated} \subseteq Sessions \cup {Empty}
  /\ \A i, j \in DOMAIN FirstRecords : FirstRecords[i].name = FirstRecords[j].name => i = j

Init ==
  /\ records = FirstRecords
  /\ boxes = [s \in Sessions |-> IF s \in Named(records) THEN "running" ELSE "none"]
  /\ gitBranches = {r.name : r \in {q \in ToSet(records) : q.branch}}
  /\ files = SetToSeq(Conversations) /\ changes = 0
  /\ rows = <<>> /\ row = 0 /\ asked = None
  /\ repos = <<>> /\ repoRow = 0 /\ convos = <<>> /\ convoRow = 0 /\ askedConvo = NoConvo
  /\ visited = FALSE
  /\ WizardInit
  /\ attached = None /\ launched = None
  /\ \/ /\ program = "wizard" /\ screen = "closed" /\ ticks = 0 /\ jobs = <<>>
     \/ /\ program = "dashboard" /\ repo = FALSE /\ screen = "list" /\ ticks = 1
        /\ jobs = <<Command("refresh", None)>>

-------------------------------------------------------------------------------
(* createSession *)

\* Mutant: only the worktree's name is looked at.
WorktreeModeByName(res) == IF res.Worktree # Empty THEN "always" ELSE "auto"

\* NoWorktree wins over a worktree's name.
WorktreeMode(res) ==
  IF res.NoWorktree THEN "never" ELSE IF res.Worktree # Empty THEN "always" ELSE "auto"

\* The worktree's branch, Empty for the directory itself.
ResolveWorkspace(inGit, mode, res) ==
  IF mode = "never" \/ ~inGit THEN Empty
  ELSE IF res.Worktree = Empty THEN res.Name ELSE res.Worktree

\* The checks before the launch, and those of ResolveWorkspace.
Creatable(inGit, res) ==
  /\ res.Yolo => res.Profile \in {Empty, "low", "default"}
  /\ res.Name \notin Named(records)
  /\ ~inGit => WorktreeMode(res) # "always"

Created(inGit, res) ==
  LET branch == ResolveWorkspace(inGit, WorktreeMode(res), res) IN
  /\ records' = Append(records, [name |-> res.Name, branch |-> branch # Empty])
  /\ boxes' = [boxes EXCEPT ![res.Name] = "running"]
  /\ gitBranches' = IF branch # Empty THEN gitBranches \cup {res.Name} ELSE gitBranches
  /\ UNCHANGED files /\ Bounded

LaunchedType(inGit, res) ==
  IF ResolveWorkspace(inGit, WorktreeMode(res), res) = Empty THEN "run"
  ELSE IF res.From = Empty THEN "new worktree" ELSE res.From

-------------------------------------------------------------------------------
(* claude-container new *)

FormStep == program = "wizard" /\ WizardNext /\ UNCHANGED <<world, dash, tui>>

\* A refused or failed creation ends the command like a cancelled wizard.
Submit ==
  /\ program = "wizard" /\ ~Open /\ program' = "ended"
  /\ \/ /\ step = "done" /\ Creatable(repo, result)
        /\ Created(repo, result) /\ launched' = LaunchedType(repo, result)
     \/ UNCHANGED <<world, launched>>
  /\ UNCHANGED <<form, dash, attached>>

-------------------------------------------------------------------------------
(* claude-container tui *)

DashboardActs ==
  /\ program = "dashboard" /\ (DashboardStep \/ Outside) /\ UNCHANGED <<form, tui>>

Quit ==
  /\ program = "dashboard" /\ screen \in ListScreen
  /\ program' = "ended" /\ StopDashboard
  /\ UNCHANGED <<form, world, attached, launched>>

Attach(s) == program' = "attached" /\ attached' = s /\ StopDashboard
Return == program' = "loop" /\ attached' = None /\ StopDashboard

\* Each turn of the loop starts a new dashboard.
Restart ==
  /\ program = "loop" /\ program' = "dashboard" /\ StartDashboard
  /\ UNCHANGED <<form, world, attached, launched>>

\* A stopped container is started again and a missing one recreated from the
\* record; what cannot be attached leads back to the dashboard.
EnterKey ==
  /\ program = "dashboard" /\ OnList /\ rows # <<>>
  /\ LET s == RowAt(rows, row).name IN
     \/ boxes[s] = "running" /\ Attach(s) /\ UNCHANGED boxes
     \/ /\ boxes[s] = "stopped" \/ (boxes[s] = "none" /\ s \in Named(records))
        /\ boxes' = [boxes EXCEPT ![s] = "running"] /\ Attach(s)
     \/ boxes[s] # "running" /\ Return /\ UNCHANGED boxes
  /\ UNCHANGED <<form, records, gitBranches, files, launched>> /\ Bounded

\* Detaching leaves the container alone, quitting stops it, and the exit of a
\* session that was created with --rm removes it.
AttachEnds ==
  /\ program = "attached" /\ Return
  /\ \/ UNCHANGED <<records, boxes, gitBranches>>
     \/ boxes' = [boxes EXCEPT ![attached] = "stopped"] /\ UNCHANGED <<records, gitBranches>>
     \/ /\ boxes' = [boxes EXCEPT ![attached] = "none"]
        /\ records' = Without(records, attached) /\ gitBranches' = gitBranches \ {attached}
  /\ UNCHANGED <<form, files, launched>> /\ Bounded

\* What the wizard promises of its result, whatever the user did in it.
Promised(inGit, res) ==
  /\ res.Name # Empty /\ res.Worktree \in {Empty, res.Name}
  /\ ~inGit => res.Worktree = Empty
  /\ res.Worktree = Empty => res.NoWorktree /\ res.From = Empty
  /\ res.Profile \in ToSet(Profiles) /\ res.Yolo = (res.Profile \in YoloProfiles)

Answered(n, w, f, p, nw, bg) ==
  [NoResult EXCEPT !.Name = n, !.Worktree = w, !.From = f, !.Profile = p,
                   !.Yolo = p \in YoloProfiles, !.NoWorktree = nw, !.Background = bg]
Answers ==
  {Answered(n, w, f, p, nw, bg) :
     n \in Sessions, w \in Sessions \cup {Empty}, f \in ToSet(Branches) \cup {Empty},
     p \in ToSet(Profiles), nw \in BOOLEAN, bg \in BOOLEAN}

WizardResults(inGit) == {res \in Answers : Promised(inGit, res)}

\* The directory is made and entered, or else there is a new dashboard; so
\* too after a cancelled wizard, a refused creation and a background launch.
PickEnter ==
  /\ program = "dashboard" /\ screen = "picking"
  /\ \/ \E inGit \in BOOLEAN : \E res \in WizardResults(inGit) :
          /\ Creatable(inGit, res) /\ Created(inGit, res)
          /\ IF res.Background THEN Return ELSE Attach(res.Name)
     \/ Return /\ UNCHANGED world
  /\ UNCHANGED <<form, launched>>

Next ==
  \/ FormStep \/ Submit
  \/ DashboardActs \/ Quit \/ Restart \/ EnterKey \/ AttachEnds \/ PickEnter

Spec == Init /\ [][Next]_vars

\* The runtime runs the commands and hands over what they return; a timer
\* fires whatever else is in flight, so its turn comes although the bound on
\* jobs may hold it up again and again.  Nothing is assumed of the user.
Background(A) == program = "dashboard" /\ A /\ UNCHANGED <<form, tui>>
Fairness ==
  /\ \A j \in 1..MaxJobs : WF_vars(Background(j \in DOMAIN jobs /\ (Work(j) \/ Deliver(j))))
  /\ SF_vars(Background(Tick))

FairSpec == Spec /\ Fairness

-------------------------------------------------------------------------------
(* Properties *)

TypeOK ==
  /\ WizardTypeOK /\ DashboardTypeOK
  /\ program \in {"wizard", "dashboard", "loop", "attached", "ended"}
  /\ attached \in Sessions \cup {None}

\* A "No worktree" taken back: nothing resets it, and it wins.
Reconsidered == repo /\ declined /\ saved["worktree"] # 2

(* The session that "new" launches is of the type that the command of its
   review has; and of the type the review announces, unless a "No worktree" was
   answered and taken back: then the session runs in the directory itself. *)
ReviewedIsLaunched ==
  launched # None => launched = CommandType /\ (launched = ReviewedType \/ Reconsidered)
===============================================================================
