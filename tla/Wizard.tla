------------------------------- MODULE Wizard -------------------------------
(***************************************************************************)
(* The new-session wizard (internal/tui/wizard.go): a form of ten steps,   *)
(* gone through with enter and back with the left arrow.  The steps share  *)
(* one cursor, one list of choices and one text input, and leave out the   *)
(* questions that do not arise, so each handler has to know which step     *)
(* comes before it and to restore what that step had on the screen.        *)
(***************************************************************************)
EXTENDS Integers, Sequences

Empty == ""   \* no text; in a result, not chosen
Spaces == " " \* blanks only

CONSTANTS
  Branches,      \* the branches of the repository, in git's order
  Profiles,      \* the names of the sandbox profiles, in display order
  YoloProfiles,  \* those that skip permission prompts
  Workspaces,    \* the names of the workspaces that are defined
  MaxVisible,    \* branchListMaxVisible: rows of the branch list on the screen
  Texts,         \* what a user leaves in a text input; Empty and Spaces are blank
  Generated      \* the name GenerateName proposed

ASSUME WizardAssumption ==
  /\ Branches \in Seq(STRING \ {Empty}) /\ Workspaces \in Seq(STRING \ {Empty})
  /\ Profiles \in Seq(STRING) /\ Profiles # <<>> /\ MaxVisible \in Nat \ {0}
  /\ Texts \subseteq STRING /\ Empty \in Texts
  /\ Generated \in STRING \ {Empty, Spaces}

VARIABLES
  repo,     \* is the directory in a git repository?
  branches, \* the branches listed when the wizard started
  step,     \* the question on the screen
  field,    \* the value of the text input
  choices,  \* the rows of the list on the screen
  cursor,   \* the highlighted row, from 0
  scroll,   \* rows of the branch list above the screen
  saved,    \* savedCursors: the row chosen at each list, Unsaved before
  via,      \* history: from which step, on which row, each step was last entered
  declined, \* history: has "No worktree" been answered, perhaps to be taken back?
  result    \* WizardResult; DenyPerms is left out, no step sets it

form == <<repo, branches, step, field, choices, cursor, scroll, saved, via, declined, result>>

ListStep == {"worktree", "branch", "profile", "workspace"}
TextStep == {"name", "packages", "permissions", "prompt"}
Step == ListStep \cup TextStep \cup {"review", "done", "cancelled"}
Open == step \notin {"done", "cancelled"}

WorktreeChoices == <<"New branch", "From existing branch", "No worktree">>
WorkspaceChoices == <<"(none)">> \o Workspaces
Unsaved == -1

Trim(t) == IF t = Spaces THEN Empty ELSE t

\* The row a list opens on: the one chosen before, or else the default.
SavedRow(s, default) == IF saved[s] = Unsaved THEN default ELSE saved[s]

\* The first row of the profile "default", or row 0.
DefaultRow ==
  IF \E i \in 1..Len(Profiles) : Profiles[i] = "default"
  THEN (CHOOSE i \in 1..Len(Profiles) :
          Profiles[i] = "default" /\ \A j \in 1..(i - 1) : Profiles[j] # "default") - 1
  ELSE 0

NoResult ==
  [Name |-> Empty, Worktree |-> Empty, From |-> Empty, Profile |-> Empty, Yolo |-> FALSE,
   Workspace |-> Empty, Packages |-> Empty, AllowPerms |-> Empty, Prompt |-> Empty,
   NoWorktree |-> FALSE, Background |-> FALSE]

WizardInit ==
  /\ repo \in BOOLEAN
  /\ branches \in IF repo THEN {<<>>, Branches} ELSE {<<>>}
  /\ step = "name" /\ field = Empty /\ choices = <<>> /\ cursor = 0 /\ scroll = 0
  /\ saved = [s \in ListStep |-> Unsaved]
  /\ via = [s \in Step |-> [step |-> "name", row |-> 0]] /\ declined = FALSE
  /\ result = NoResult

-------------------------------------------------------------------------------
(* Opening a step: what the setup helpers put on the screen. *)

ShowList(s, rows, row) == step' = s /\ choices' = rows /\ cursor' = row /\ UNCHANGED field
ShowText(s, value) == step' = s /\ field' = value /\ UNCHANGED <<choices, cursor>>

OpenProfile == ShowList("profile", Profiles, SavedRow("profile", DefaultRow)) /\ UNCHANGED scroll
OpenWorkspace == ShowList("workspace", WorkspaceChoices, SavedRow("workspace", 0)) /\ UNCHANGED scroll
OpenWorktree(row) == ShowList("worktree", WorktreeChoices, row) /\ UNCHANGED scroll

\* Mutant: the scroll offset stays at the top when the list is entered again.
OpenBranchUnscrolled(row) == ShowList("branch", branches, row) /\ scroll' = 0

OpenBranch(row) ==
  /\ ShowList("branch", branches, row)
  /\ scroll' = IF row >= MaxVisible THEN row - MaxVisible + 1 ELSE 0

OpenText(s, value) == ShowText(s, value) /\ UNCHANGED scroll

Forward(s) ==
  /\ via' = [via EXCEPT ![s] = [step |-> step, row |-> IF step \in ListStep THEN cursor ELSE 0]]
  /\ declined' = (declined \/ (step = "worktree" /\ cursor = 2))
  /\ UNCHANGED <<repo, branches>>
Chosen == saved' = [saved EXCEPT ![step] = cursor]
Same == UNCHANGED <<repo, branches, choices, cursor, scroll, saved, via, declined, result>>

-------------------------------------------------------------------------------
(* The handlers of the steps *)

\* Typing: any key but the ones below edits the text input.
Type(t) == step \in TextStep /\ t # field /\ step' = step /\ field' = t /\ Same

Down ==
  /\ step \in ListStep /\ cursor < Len(choices) - 1
  /\ cursor' = cursor + 1
  /\ scroll' = IF step = "branch" /\ cursor' >= scroll + MaxVisible
               THEN cursor' - MaxVisible + 1 ELSE scroll
  /\ UNCHANGED <<repo, branches, step, field, choices, saved, via, declined, result>>

Up ==
  /\ step \in ListStep /\ cursor > 0
  /\ cursor' = cursor - 1
  /\ scroll' = IF step = "branch" /\ cursor' < scroll THEN cursor' ELSE scroll
  /\ UNCHANGED <<repo, branches, step, field, choices, saved, via, declined, result>>

EnterName ==
  /\ step = "name"
  /\ LET name == IF Trim(field) = Empty THEN Generated ELSE Trim(field) IN
     IF repo
     THEN /\ result' = [result EXCEPT !.Name = name]
          /\ OpenWorktree(0) /\ Forward("worktree")
     ELSE /\ result' = [result EXCEPT !.Name = name, !.NoWorktree = TRUE]
          /\ OpenProfile /\ Forward("profile")
  /\ UNCHANGED saved

\* Mutant: the base branch chosen before is kept.
NewBranchKeepsFrom == result' = [result EXCEPT !.Worktree = result.Name]

NewBranch == result' = [result EXCEPT !.Worktree = result.Name, !.From = Empty]

EnterWorktree ==
  /\ step = "worktree" /\ Chosen
  /\ \/ /\ cursor = 0 \/ (cursor = 1 /\ branches = <<>>)
        /\ NewBranch /\ OpenProfile /\ Forward("profile")
     \/ /\ cursor = 1 /\ branches # <<>>
        /\ OpenBranch(0) /\ Forward("branch") /\ UNCHANGED result
     \/ /\ cursor = 2
        /\ result' = [result EXCEPT !.NoWorktree = TRUE, !.Worktree = Empty, !.From = Empty]
        /\ OpenProfile /\ Forward("profile")

EnterBranch ==
  /\ step = "branch" /\ Chosen
  /\ result' = [result EXCEPT !.From = choices[cursor + 1], !.Worktree = result.Name]
  /\ OpenProfile /\ Forward("profile")

EnterProfile ==
  /\ step = "profile" /\ Chosen
  /\ LET p == Profiles[cursor + 1] IN
     result' = [result EXCEPT !.Profile = p, !.Yolo = p \in YoloProfiles]
  /\ IF Workspaces # <<>>
     THEN OpenWorkspace /\ Forward("workspace")
     ELSE OpenText("packages", result.Packages) /\ Forward("packages")

EnterWorkspace ==
  /\ step = "workspace" /\ Chosen
  /\ result' = [result EXCEPT !.Workspace = IF cursor = 0 THEN Empty ELSE Workspaces[cursor]]
  /\ OpenText("packages", result.Packages) /\ Forward("packages")

EnterPackages ==
  /\ step = "packages"
  /\ result' = [result EXCEPT !.Packages = Trim(field)]
  /\ OpenText("permissions", result.AllowPerms) /\ Forward("permissions") /\ UNCHANGED saved

EnterPermissions ==
  /\ step = "permissions"
  /\ result' = [result EXCEPT !.AllowPerms = Trim(field)]
  /\ OpenText("prompt", result.Prompt) /\ Forward("prompt") /\ UNCHANGED saved

EnterPrompt ==
  /\ step = "prompt"
  /\ result' = [result EXCEPT !.Prompt = Trim(field)]
  /\ OpenText("review", field) /\ Forward("review") /\ UNCHANGED saved

\* enter launches, ctrl+b launches in the background.
EnterReview(background) ==
  /\ step = "review"
  /\ result' = [result EXCEPT !.Background = background]
  /\ OpenText("done", field) /\ Forward("done") /\ UNCHANGED saved

-------------------------------------------------------------------------------
(* goBack: the left arrow where it is not a key of the text input, and esc  *)
(* at the review, which cancels everywhere else.                            *)

BackToName == OpenText("name", result.Name)

\* Mutant: the profile step forgets that the branch question is optional.
BackFromProfileToBranch ==
  IF ~repo THEN BackToName
  ELSE IF branches # <<>> THEN OpenBranch(SavedRow("branch", 0))
  ELSE OpenWorktree(SavedRow("worktree", 0))

BackFromProfile ==
  IF ~repo THEN BackToName
  ELSE IF result.From # Empty THEN OpenBranch(SavedRow("branch", 0))
  ELSE OpenWorktree(SavedRow("worktree", 0))

Back ==
  /\ \/ step = "worktree"    /\ BackToName
     \/ step = "branch"      /\ OpenWorktree(SavedRow("worktree", 0))
     \/ step = "profile"     /\ BackFromProfile
     \/ step = "workspace"   /\ OpenProfile
     \/ step = "packages"    /\ IF Workspaces # <<>> THEN OpenWorkspace ELSE OpenProfile
     \/ step = "permissions" /\ OpenText("packages", result.Packages)
     \/ step = "review"      /\ OpenText("prompt", result.Prompt)
  /\ UNCHANGED <<repo, branches, saved, via, declined, result>>

Cancel == Open /\ step' = "cancelled" /\ UNCHANGED field /\ Same

WizardNext ==
  \/ \E t \in Texts : Type(t)
  \/ Down \/ Up
  \/ EnterName \/ EnterWorktree \/ EnterBranch \/ EnterProfile \/ EnterWorkspace
  \/ EnterPackages \/ EnterPermissions \/ EnterPrompt
  \/ \E background \in BOOLEAN : EnterReview(background)
  \/ Back \/ Cancel

WizardSpec == WizardInit /\ [][WizardNext]_form

-------------------------------------------------------------------------------
(* What the screen shows *)

\* renderReview: the session type that its "Type" line names.
ReviewedType ==
  IF result.Worktree = Empty THEN "run"
  ELSE IF result.From = Empty THEN "new worktree" ELSE result.From

\* buildCLICommand: the session type that its "CLI equivalent" asks for.
\* --no-worktree goes before --worktree and --from; one of them is always there.
CommandType == IF result.NoWorktree THEN "run" ELSE ReviewedType

\* renderBranchList: the rows on the screen.
VisibleRows == {i \in 0..(Len(choices) - 1) : scroll <= i /\ i < scroll + MaxVisible}

-------------------------------------------------------------------------------
(* Properties *)

RowsOf(s) ==
  CASE s = "worktree" -> WorktreeChoices
    [] s = "branch" -> branches
    [] s = "profile" -> Profiles
    [] s = "workspace" -> WorkspaceChoices

WizardTypeOK ==
  /\ repo \in BOOLEAN /\ branches \in {<<>>, Branches} /\ step \in Step
  /\ field \in STRING /\ cursor \in Nat /\ scroll \in Nat
  /\ saved \in [ListStep -> Nat \cup {Unsaved}] /\ via \in [Step -> [step : Step, row : Nat]]
  /\ declined \in BOOLEAN
  /\ result \in [Name : STRING, Worktree : STRING, From : STRING, Profile : STRING, Yolo : BOOLEAN,
                 Workspace : STRING, Packages : STRING, AllowPerms : STRING, Prompt : STRING,
                 NoWorktree : BOOLEAN, Background : BOOLEAN]

(* The rows on the screen are those of the question asked, one of them is
   highlighted, and the branch list is scrolled to show it: whichever way the
   step was reached, enter indexes a row that exists and that the user sees. *)
RowHighlighted ==
  step \in ListStep =>
    /\ choices = RowsOf(step)
    /\ cursor < Len(choices)
    /\ step = "branch" => cursor \in VisibleRows

(* A step back leads to the step from which this one was last entered, and if
   that is a list, to the row it was left on. *)
Retraces ==
  Back => /\ step' = via[step].step
          /\ step' \in ListStep => cursor' = via[step].row

(* Going back leads to the step this one was entered from, although goBack
   computes it anew from the result and the optional questions; and a list
   highlights the row with which it was answered, the first row included. *)
BackRetraces == [][Retraces]_form

(* However often the user went back, the review shows the answers given last:
   the worktree is named after the session as it is named now, and a base
   branch is kept only if the branch question was the way to the profile.  The
   exception is the --no-worktree of its command, which stays there once
   "No worktree" has been answered, whatever was answered later. *)
ReviewFollowsAnswers ==
  step \in {"review", "done"} =>
    /\ result.Name # Empty
    /\ result.Worktree = IF repo /\ saved["worktree"] # 2 THEN result.Name ELSE Empty
    /\ result.From = IF via["profile"].step = "branch" THEN branches[via["profile"].row + 1]
                     ELSE Empty
    /\ result.NoWorktree <=> ~repo \/ declined
    /\ result.Profile = Profiles[saved["profile"] + 1]
    /\ result.Yolo <=> result.Profile \in YoloProfiles
    /\ result.Workspace = IF Workspaces = <<>> \/ saved["workspace"] = 0 THEN Empty
                          ELSE Workspaces[saved["workspace"]]

===============================================================================
