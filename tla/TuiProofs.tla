------------------------------ MODULE TuiProofs ------------------------------
(***************************************************************************)
(* Proofs about the two full-screen commands.                              *)
(*                                                                         *)
(* The new-session wizard: for every list of branches, profiles and        *)
(* workspaces and every height of the screen, no way through the form,     *)
(* however often back and forth, highlights a row that is not there,       *)
(* returns to the wrong question or the wrong answer, or reviews an answer *)
(* that was taken back, save for the --no-worktree of its command.  The    *)
(* strengthening Inv says, for each step, what the steps on the way to it  *)
(* have left behind: the rows saved for them, the answers derived from     *)
(* those rows, and the step and row from which each was entered.           *)
(*                                                                         *)
(* The programs: what the form guarantees holds of them too, since nothing *)
(* but the form's handlers touches it; the session that "new" launches is  *)
(* of the type the review announced, but for the answer nothing resets;    *)
(* and the dashboard keeps to one timer, to rows its lists have and to     *)
(* what its prompts name.  Typed says of each command in flight what it    *)
(* will bring back, since its answer becomes a list of the screen.         *)
(***************************************************************************)
EXTENDS Tui, FiniteSetTheorems, SequenceTheorems, WellFoundedInduction, TLAPS

PastWorkspace == {"packages", "permissions", "prompt", "review", "done"}
PastProfile == PastWorkspace \cup {"workspace"}
PastKind == PastProfile \cup {"profile"}

SavedInRange == \A s \in ListStep : saved[s] # Unsaved => saved[s] < Len(RowsOf(s))

\* The worktree and branch questions, which a session without a repository skips.
KindSettled ==
  /\ step \in {"worktree", "branch"} => repo
  /\ step \in {"worktree", "branch"} \cup PastKind => result.Name # Empty
  /\ ~repo => result.Worktree = Empty /\ result.From = Empty
  /\ via["worktree"].step = "name"
  /\ step = "branch" =>
       branches # <<>> /\ saved["worktree"] = 1 /\ via["branch"].step = "worktree" /\ via["branch"].row = 1
  /\ step \in PastKind =>
       /\ repo => saved["worktree"] # Unsaved
       /\ result.Worktree = IF repo /\ saved["worktree"] # 2 THEN result.Name ELSE Empty
       /\ result.From = IF via["profile"].step = "branch" THEN branches[saved["branch"] + 1]
                        ELSE Empty
       /\ via["profile"].step = IF ~repo THEN "name"
                                ELSE IF result.From # Empty THEN "branch" ELSE "worktree"
       /\ via["profile"].step = "branch" =>
            /\ branches # <<>> /\ via["branch"].step = "worktree" /\ via["branch"].row = 1
            /\ saved["worktree"] = 1 /\ saved["branch"] # Unsaved
            /\ via["profile"].row = saved["branch"]
       /\ via["profile"].step = "worktree" => via["profile"].row = saved["worktree"]
       /\ result.Worktree = Empty => result.NoWorktree

ProfileSettled ==
  step \in PastProfile =>
    /\ saved["profile"] # Unsaved
    /\ result.Profile = Profiles[saved["profile"] + 1]
    /\ result.Yolo <=> result.Profile \in YoloProfiles
    /\ step = "workspace" \/ Workspaces # <<>> =>
         via["workspace"].step = "profile" /\ via["workspace"].row = saved["profile"]

WorkspaceSettled ==
  /\ step = "workspace" => Workspaces # <<>>
  /\ step \in PastWorkspace =>
       /\ LET before == IF Workspaces # <<>> THEN "workspace" ELSE "profile" IN
          via["packages"].step = before /\ via["packages"].row = saved[before]
       /\ Workspaces # <<>> => saved["workspace"] # Unsaved
       /\ result.Workspace = IF Workspaces = <<>> \/ saved["workspace"] = 0 THEN Empty
                             ELSE Workspaces[saved["workspace"]]
  /\ step \in PastWorkspace \ {"packages"} => via["permissions"].step = "packages"
  /\ step = "review" => via["review"].step = "prompt"

\* Without workspaces nothing ever sets one.
NoWorkspace == Workspaces = <<>> => result.Workspace = Empty

Inv ==
  /\ WizardTypeOK /\ RowHighlighted /\ SavedInRange
  /\ KindSettled /\ ProfileSettled /\ WorkspaceSettled /\ NoWorkspace

\* In a repository, --no-worktree is there once "No worktree" has been answered.
DeclineSettled ==
  /\ declined => result.NoWorktree
  /\ result.NoWorktree => ~repo \/ declined
  /\ repo /\ saved["worktree"] = 2 => declined

-------------------------------------------------------------------------------
(* The lists *)

LEMMA LeastNatural ==
  ASSUME NEW S \in SUBSET Nat, S # {}
  PROVE  \E n \in S : \A m \in S : n <= m
<1>1. PICK n \in S : \A m \in S : ~ (<<m, n>> \in OpToRel(<, Nat))
  BY NatLessThanWellFounded, WFMin, Zenon
<1>2. \A m \in S : ~ (m < n)
  BY <1>1, Zenon DEF OpToRel
<1>. QED BY <1>2

LEMMA Lists ==
  /\ Len(Branches) \in Nat /\ (Branches # <<>> <=> Len(Branches) > 0)
  /\ \A i \in 1..Len(Branches) : Branches[i] \in STRING /\ Branches[i] # Empty
  /\ Len(Profiles) \in Nat /\ Len(Profiles) > 0
  /\ \A i \in 1..Len(Profiles) : Profiles[i] \in STRING
  /\ Len(Workspaces) \in Nat /\ (Workspaces # <<>> <=> Len(Workspaces) > 0)
  /\ \A i \in 1..Len(Workspaces) : Workspaces[i] \in STRING
  /\ Len(WorktreeChoices) = 3
  /\ Len(WorkspaceChoices) = Len(Workspaces) + 1
  /\ MaxVisible \in Nat /\ MaxVisible > 0
  /\ Texts \subseteq STRING /\ Empty \in STRING /\ Generated \in STRING /\ Generated # Empty
<1> USE WizardAssumption
<1> DEFINE Listed(entries) ==
      /\ Len(entries) \in Nat /\ (entries # <<>> <=> Len(entries) > 0)
      /\ \A i \in 1..Len(entries) : entries[i] \in STRING /\ entries[i] # Empty
<1>1. ASSUME NEW entries \in Seq(STRING \ {Empty})
      PROVE  Listed(entries)
  <2>1. Len(entries) \in Nat /\ (entries # <<>> => Len(entries) > 0)
    BY EmptySeq, LenProperties
  <2>2. entries = <<>> => Len(entries) = 0
    BY EmptySeq
  <2>3. \A i \in 1..Len(entries) : entries[i] \in STRING \ {Empty}
    BY ElementOfSeq
  <2>4. \A i \in 1..Len(entries) : entries[i] \in STRING /\ entries[i] # Empty
    BY <2>3, Zenon
  <2>5. entries # <<>> <=> Len(entries) > 0
    BY <2>1, <2>2
  <2>. QED BY <2>1, <2>4, <2>5
<1>2. /\ Len(Profiles) \in Nat /\ Len(Profiles) > 0
      /\ \A i \in 1..Len(Profiles) : Profiles[i] \in STRING
  OBVIOUS
<1>3. Listed(Branches) /\ Listed(Workspaces)
  BY <1>1
<1>4. Len(WorktreeChoices) = 3
  BY DEF WorktreeChoices
<1>5. Len(WorkspaceChoices) = Len(Workspaces) + 1
  BY DEF WorkspaceChoices
<1>6. MaxVisible \in Nat /\ MaxVisible > 0
  OBVIOUS
<1>7. Texts \subseteq STRING /\ Empty \in STRING /\ Generated \in STRING /\ Generated # Empty
  OBVIOUS
<1>. QED BY <1>2, <1>3, <1>4, <1>5, <1>6, <1>7

(* The profile list opens on a row that it has. *)
LEMMA DefaultRowExists == DefaultRow \in Nat /\ DefaultRow < Len(Profiles)
<1>1. CASE \E i \in 1..Len(Profiles) : Profiles[i] = "default"
  <2> DEFINE D == {i \in 1..Len(Profiles) : Profiles[i] = "default"}
  <2>1. D \in SUBSET Nat /\ D # {}
    BY <1>1
  <2> HIDE DEF D
  <2>2. PICK n \in D : \A m \in D : n <= m
    BY <2>1, LeastNatural
  <2>3. n \in 1..Len(Profiles) /\ Profiles[n] = "default"
        /\ \A j \in 1..(n - 1) : Profiles[j] # "default"
    BY <2>2, Lists DEF D
  <2> DEFINE First(i) == Profiles[i] = "default" /\ \A j \in 1..(i - 1) : Profiles[j] # "default"
  <2>4. \E i \in 1..Len(Profiles) : First(i)
    BY <2>3
  <2> HIDE DEF First
  <2>5. (CHOOSE i \in 1..Len(Profiles) : First(i)) \in 1..Len(Profiles)
    BY <2>4
  <2>6. DefaultRow = (CHOOSE i \in 1..Len(Profiles) : First(i)) - 1
    BY <1>1 DEF DefaultRow, First
  <2>. QED BY <2>5, <2>6, Lists
<1>2. CASE ~ \E i \in 1..Len(Profiles) : Profiles[i] = "default"
  BY <1>2, Lists DEF DefaultRow
<1>. QED BY <1>1, <1>2

(* Each list that a helper opens has the row it opens on. *)
LEMMA ProfileOpens ==
  ASSUME Inv, OpenProfile
  PROVE  /\ step' = "profile" /\ choices' = Profiles /\ field' = field /\ scroll' = scroll
         /\ cursor' \in Nat /\ cursor' < Len(Profiles)
         /\ saved["profile"] # Unsaved => cursor' = saved["profile"]
BY DefaultRowExists
   DEF Inv, WizardTypeOK, SavedInRange, ListStep, RowsOf, OpenProfile, ShowList, SavedRow

LEMMA WorkspaceOpens ==
  ASSUME Inv, OpenWorkspace
  PROVE  /\ step' = "workspace" /\ choices' = WorkspaceChoices /\ field' = field /\ scroll' = scroll
         /\ cursor' \in Nat /\ cursor' < Len(WorkspaceChoices)
         /\ saved["workspace"] # Unsaved => cursor' = saved["workspace"]
BY Lists DEF Inv, WizardTypeOK, SavedInRange, ListStep, RowsOf, OpenWorkspace, ShowList, SavedRow

LEMMA WorktreeOpens ==
  ASSUME Inv, NEW r \in {0, SavedRow("worktree", 0)}, OpenWorktree(r)
  PROVE  /\ step' = "worktree" /\ choices' = WorktreeChoices /\ field' = field /\ scroll' = scroll
         /\ cursor' \in Nat /\ cursor' < Len(WorktreeChoices) /\ cursor' = r
<1>1. Len(WorktreeChoices) = 3
  BY Lists
<1>2. saved["worktree"] # Unsaved => saved["worktree"] \in Nat /\ saved["worktree"] < 3
  BY <1>1 DEF Inv, WizardTypeOK, SavedInRange, ListStep, RowsOf
<1>3. r \in Nat /\ r < 3
  BY <1>2 DEF SavedRow
<1>. QED BY <1>1, <1>3 DEF OpenWorktree, ShowList

LEMMA BranchOpens ==
  ASSUME Inv, branches # <<>>, NEW r \in {0, SavedRow("branch", 0)}, OpenBranch(r)
  PROVE  /\ step' = "branch" /\ choices' = branches /\ field' = field
         /\ cursor' \in Nat /\ cursor' < Len(branches) /\ cursor' = r
         /\ scroll' \in Nat /\ scroll' <= cursor' /\ cursor' < scroll' + MaxVisible
<1>1. Len(branches) \in Nat /\ Len(branches) > 0
  BY Lists DEF Inv, WizardTypeOK
<1>2. r \in Nat /\ r < Len(branches)
  BY <1>1 DEF Inv, WizardTypeOK, SavedInRange, ListStep, RowsOf, SavedRow
<1>. QED BY <1>2, Lists DEF OpenBranch, ShowList

-------------------------------------------------------------------------------
(* The invariant *)

LEMMA InvInit == WizardInit => Inv
<1> SUFFICES ASSUME WizardInit PROVE Inv
  OBVIOUS
<1>1. via \in [Step -> [step : Step, row : Nat]] /\ via["worktree"].step = "name"
  BY DEF WizardInit, Step, ListStep, TextStep
<1>2. result = NoResult
  BY DEF WizardInit
<1>3. WizardTypeOK
  <2>1. result \in [Name : STRING, Worktree : STRING, From : STRING, Profile : STRING,
                    Yolo : BOOLEAN, Workspace : STRING, Packages : STRING, AllowPerms : STRING,
                    Prompt : STRING, NoWorktree : BOOLEAN, Background : BOOLEAN]
    BY <1>2, WizardAssumption DEF NoResult
  <2>2. saved \in [ListStep -> Nat \cup {Unsaved}] /\ declined \in BOOLEAN
        /\ field \in STRING /\ cursor \in Nat /\ scroll \in Nat /\ step \in Step
    BY WizardAssumption DEF WizardInit, Step, TextStep
  <2>3. repo \in BOOLEAN /\ branches \in {<<>>, Branches}
    BY DEF WizardInit
  <2>. QED BY <1>1, <2>1, <2>2, <2>3 DEF WizardTypeOK
<1>4. RowHighlighted /\ SavedInRange /\ NoWorkspace
  BY <1>2 DEF WizardInit, RowHighlighted, SavedInRange, NoWorkspace, NoResult, ListStep, Unsaved
<1>5. KindSettled /\ ProfileSettled /\ WorkspaceSettled
  BY <1>1, <1>2 DEF WizardInit, KindSettled, ProfileSettled, WorkspaceSettled, NoResult,
                    PastKind, PastProfile, PastWorkspace
<1>. QED BY <1>3, <1>4, <1>5 DEF Inv

LEMMA InvStep == Inv /\ [WizardNext]_form => Inv'
<1> SUFFICES ASSUME Inv, [WizardNext]_form PROVE Inv'
  OBVIOUS
<1> USE Lists DEF Inv, ListStep, RowsOf, PastKind, PastProfile, PastWorkspace
<1>1. ASSUME NEW t \in Texts, Type(t) PROVE Inv'
  BY <1>1, SMTT(60) DEF Type, Same, TextStep, WizardTypeOK, Step, RowHighlighted, SavedInRange, KindSettled,
       ProfileSettled, WorkspaceSettled, NoWorkspace
<1>2. CASE Down
  BY <1>2, SMTT(60) DEF Down, VisibleRows, WizardTypeOK, Step, RowHighlighted, SavedInRange, KindSettled,
       ProfileSettled, WorkspaceSettled, NoWorkspace
<1>3. CASE Up
  BY <1>3, SMTT(60) DEF Up, VisibleRows, WizardTypeOK, Step, RowHighlighted, SavedInRange, KindSettled,
       ProfileSettled, WorkspaceSettled, NoWorkspace
<1>4. CASE EnterName
  <2> DEFINE name == IF Trim(field) = Empty THEN Generated ELSE Trim(field)
  <2>1. name \in STRING /\ name # Empty
    BY DEF Trim, WizardTypeOK
  <2> HIDE DEF name
  <2>2. CASE repo
    <3>1. /\ OpenWorktree(0) /\ Forward("worktree") /\ step = "name" /\ UNCHANGED saved
          /\ result' = [result EXCEPT !.Name = name]
      BY <1>4, <2>2 DEF EnterName, name
    <3>2. /\ step' = "worktree" /\ choices' = WorktreeChoices /\ field' = field /\ scroll' = scroll
          /\ cursor' \in Nat /\ cursor' < Len(WorktreeChoices)
      BY <3>1, WorktreeOpens
    <3>3. WizardTypeOK' /\ SavedInRange' /\ RowHighlighted'
      BY <2>1, <3>1, <3>2 DEF Forward, WizardTypeOK, Step, SavedInRange, RowHighlighted
    <3>4. KindSettled' /\ ProfileSettled' /\ WorkspaceSettled' /\ NoWorkspace'
      BY <2>1, <2>2, <3>1, <3>2 DEF Forward, WizardTypeOK, Step, TextStep, KindSettled,
                                    ProfileSettled, WorkspaceSettled, NoWorkspace
    <3>. QED BY <3>3, <3>4
  <2>3. CASE ~repo
    <3>1. /\ OpenProfile /\ Forward("profile") /\ step = "name" /\ UNCHANGED saved
          /\ result' = [result EXCEPT !.Name = name, !.NoWorktree = TRUE]
      BY <1>4, <2>3 DEF EnterName, name
    <3>2. /\ step' = "profile" /\ choices' = Profiles /\ field' = field /\ scroll' = scroll
          /\ cursor' \in Nat /\ cursor' < Len(Profiles)
      BY <3>1, ProfileOpens
    <3>3. WizardTypeOK' /\ SavedInRange' /\ RowHighlighted'
      BY <2>1, <3>1, <3>2 DEF Forward, WizardTypeOK, Step, SavedInRange, RowHighlighted
    <3>4. KindSettled' /\ ProfileSettled' /\ WorkspaceSettled' /\ NoWorkspace'
      BY <2>1, <2>3, <3>1, <3>2 DEF Forward, WizardTypeOK, Step, TextStep, KindSettled,
                                    ProfileSettled, WorkspaceSettled, NoWorkspace
    <3>. QED BY <3>3, <3>4
  <2>. QED BY <2>2, <2>3
<1>5. CASE EnterWorktree
  <2>1. CASE (cursor = 0 \/ (cursor = 1 /\ branches = <<>>))
             /\ NewBranch /\ OpenProfile /\ Forward("profile")
    <3>1. /\ step = "worktree" /\ saved' = [saved EXCEPT !["worktree"] = cursor]
          /\ result' = [result EXCEPT !.Worktree = result.Name, !.From = Empty]
      BY <1>5, <2>1 DEF EnterWorktree, Chosen, NewBranch
    <3>2. /\ step' = "profile" /\ choices' = Profiles /\ field' = field /\ scroll' = scroll
          /\ cursor' \in Nat /\ cursor' < Len(Profiles)
      BY <2>1, ProfileOpens
    <3>3. WizardTypeOK' /\ SavedInRange' /\ RowHighlighted'
      BY <2>1, <3>1, <3>2 DEF Forward, WizardTypeOK, Step, SavedInRange, RowHighlighted
    <3>4. KindSettled' /\ ProfileSettled' /\ WorkspaceSettled' /\ NoWorkspace'
      BY <2>1, <3>1, <3>2, SMTT(60) DEF Forward, WizardTypeOK, Step, TextStep, Unsaved, KindSettled,
                              ProfileSettled, WorkspaceSettled, NoWorkspace
    <3>. QED BY <3>3, <3>4
  <2>2. CASE /\ cursor = 1 /\ branches # <<>>
             /\ OpenBranch(0) /\ Forward("branch") /\ UNCHANGED result
    <3>1. step = "worktree" /\ saved' = [saved EXCEPT !["worktree"] = cursor]
      BY <1>5 DEF EnterWorktree, Chosen
    <3>2. /\ step' = "branch" /\ choices' = branches /\ field' = field
          /\ cursor' \in Nat /\ cursor' < Len(branches)
          /\ scroll' \in Nat /\ scroll' <= cursor' /\ cursor' < scroll' + MaxVisible
      BY <2>2, BranchOpens
    <3>3. WizardTypeOK' /\ SavedInRange' /\ RowHighlighted'
      BY <2>2, <3>1, <3>2 DEF Forward, WizardTypeOK, Step, SavedInRange, RowHighlighted, VisibleRows
    <3>4. KindSettled' /\ ProfileSettled' /\ WorkspaceSettled' /\ NoWorkspace'
      BY <2>2, <3>1, <3>2 DEF Forward, WizardTypeOK, Step, TextStep, Unsaved, KindSettled,
                              ProfileSettled, WorkspaceSettled, NoWorkspace
    <3>. QED BY <3>3, <3>4
  <2>3. CASE /\ cursor = 2
             /\ result' = [result EXCEPT !.NoWorktree = TRUE, !.Worktree = Empty, !.From = Empty]
             /\ OpenProfile /\ Forward("profile")
    <3>1. step = "worktree" /\ saved' = [saved EXCEPT !["worktree"] = cursor]
      BY <1>5 DEF EnterWorktree, Chosen
    <3>2. /\ step' = "profile" /\ choices' = Profiles /\ field' = field /\ scroll' = scroll
          /\ cursor' \in Nat /\ cursor' < Len(Profiles)
      BY <2>3, ProfileOpens
    <3>3. WizardTypeOK' /\ SavedInRange' /\ RowHighlighted'
      BY <2>3, <3>1, <3>2 DEF Forward, WizardTypeOK, Step, SavedInRange, RowHighlighted
    <3>4. KindSettled' /\ ProfileSettled' /\ WorkspaceSettled' /\ NoWorkspace'
      BY <2>3, <3>1, <3>2 DEF Forward, WizardTypeOK, Step, TextStep, Unsaved, KindSettled,
                              ProfileSettled, WorkspaceSettled, NoWorkspace
    <3>. QED BY <3>3, <3>4
  <2>. QED BY <1>5, <2>1, <2>2, <2>3 DEF EnterWorktree
<1>6. CASE EnterBranch
  <2>1. /\ step = "branch" /\ saved' = [saved EXCEPT !["branch"] = cursor]
        /\ OpenProfile /\ Forward("profile")
        /\ result' = [result EXCEPT !.From = branches[cursor + 1], !.Worktree = result.Name]
    BY <1>6 DEF EnterBranch, Chosen, RowHighlighted
  <2>2. /\ step' = "profile" /\ choices' = Profiles /\ field' = field /\ scroll' = scroll
        /\ cursor' \in Nat /\ cursor' < Len(Profiles)
    BY <2>1, ProfileOpens
  <2>3. cursor < Len(branches) /\ branches[cursor + 1] \in STRING /\ branches[cursor + 1] # Empty
    <3>1. branches = Branches /\ cursor \in Nat /\ cursor < Len(branches)
      BY <2>1 DEF WizardTypeOK, RowHighlighted, KindSettled
    <3>2. cursor + 1 \in 1..Len(Branches)
      BY <3>1
    <3>. QED BY <3>1, <3>2
  <2>4. WizardTypeOK' /\ SavedInRange' /\ RowHighlighted'
    BY <2>1, <2>2, <2>3 DEF Forward, WizardTypeOK, Step, SavedInRange, RowHighlighted
  <2>5. KindSettled' /\ ProfileSettled' /\ WorkspaceSettled' /\ NoWorkspace'
    BY <2>1, <2>2, <2>3, SMTT(60) DEF Forward, WizardTypeOK, Step, TextStep, Unsaved, KindSettled,
                            ProfileSettled, WorkspaceSettled, NoWorkspace
  <2>. QED BY <2>4, <2>5
<1>7. CASE EnterProfile
  <2> DEFINE yolo == Profiles[cursor + 1] \in YoloProfiles
  <2>0. yolo \in BOOLEAN
    OBVIOUS
  <2>1. /\ step = "profile" /\ saved' = [saved EXCEPT !["profile"] = cursor]
        /\ result' = [result EXCEPT !.Profile = Profiles[cursor + 1],
                                    !.Yolo = yolo]
    BY <1>7 DEF EnterProfile, Chosen
  <2> HIDE DEF yolo
  <2>2. cursor < Len(Profiles) /\ Profiles[cursor + 1] \in STRING
    BY <2>1 DEF WizardTypeOK, RowHighlighted
  <2>5. /\ saved'["profile"] = cursor /\ cursor # Unsaved
        /\ result'.Profile = Profiles[cursor + 1] /\ result'.Yolo = yolo
        /\ result.Packages \in STRING
    BY <2>1 DEF WizardTypeOK, Unsaved
  <2>6. result'.Yolo <=> result'.Profile \in YoloProfiles
    BY <2>5, Zenon DEF yolo
  <2>3. CASE Workspaces # <<>>
    <3>1. OpenWorkspace /\ Forward("workspace")
      BY <1>7, <2>3 DEF EnterProfile
    <3>2. /\ step' = "workspace" /\ choices' = WorkspaceChoices
          /\ field' = field /\ scroll' = scroll
          /\ cursor' \in Nat /\ cursor' < Len(WorkspaceChoices)
      BY <3>1, WorkspaceOpens
    <3>3. WizardTypeOK' /\ SavedInRange' /\ RowHighlighted'
      BY <2>0, <2>1, <2>2, <3>1, <3>2 DEF Forward, WizardTypeOK, Step, SavedInRange, RowHighlighted
    <3>4. KindSettled' /\ WorkspaceSettled' /\ NoWorkspace'
      BY <2>0, <2>1, <2>3, <3>1, <3>2 DEF Forward, WizardTypeOK, Step, TextStep, Unsaved,
                                          KindSettled, WorkspaceSettled, NoWorkspace
    <3>5. ProfileSettled'
      BY <2>1, <2>3, <2>5, <2>6, <3>1, <3>2 DEF Forward, WizardTypeOK, Step, ProfileSettled
    <3>. QED BY <3>3, <3>4, <3>5
  <2>4. CASE Workspaces = <<>>
    <3>1. /\ step' = "packages" /\ field' = result.Packages /\ UNCHANGED <<choices, cursor, scroll>>
          /\ Forward("packages")
      BY <1>7, <2>4 DEF EnterProfile, OpenText, ShowText
    <3>2. WizardTypeOK'
      BY <2>0, <2>1, <2>2, <2>5, <3>1 DEF Forward, WizardTypeOK, Step, TextStep
    <3>3. SavedInRange' /\ RowHighlighted'
      BY <2>0, <2>1, <2>2, <3>1 DEF Forward, WizardTypeOK, SavedInRange, RowHighlighted
    <3>4. KindSettled' /\ WorkspaceSettled' /\ NoWorkspace'
      BY <2>0, <2>1, <2>4, <3>1 DEF Forward, WizardTypeOK, Step, TextStep, Unsaved, KindSettled,
                                    WorkspaceSettled, NoWorkspace
    <3>5. ProfileSettled'
      BY <2>1, <2>4, <2>5, <2>6, <3>1 DEF Forward, WizardTypeOK, Step, ProfileSettled
    <3>. QED BY <3>2, <3>3, <3>4, <3>5
  <2>. QED BY <2>3, <2>4
<1>8. CASE EnterWorkspace
  <2>1. /\ step = "workspace" /\ saved' = [saved EXCEPT !["workspace"] = cursor]
        /\ result' = [result EXCEPT !.Workspace = IF cursor = 0 THEN Empty ELSE Workspaces[cursor]]
        /\ step' = "packages" /\ field' = result.Packages /\ UNCHANGED <<choices, cursor, scroll>>
        /\ Forward("packages")
    BY <1>8 DEF EnterWorkspace, Chosen, OpenText, ShowText
  <2>2. cursor < Len(Workspaces) + 1 /\ (cursor # 0 => Workspaces[cursor] \in STRING)
    BY <2>1 DEF WizardTypeOK, RowHighlighted
  <2>6. (IF cursor = 0 THEN Empty ELSE Workspaces[cursor]) \in STRING /\ result.Packages \in STRING
    BY <2>2 DEF WizardTypeOK
  <2>3. WizardTypeOK'
    BY <2>1, <2>2, <2>6 DEF Forward, WizardTypeOK, Step, TextStep
  <2>5. SavedInRange' /\ RowHighlighted'
    BY <2>1, <2>2 DEF Forward, WizardTypeOK, SavedInRange, RowHighlighted
  <2>4. KindSettled' /\ ProfileSettled' /\ WorkspaceSettled' /\ NoWorkspace'
    BY <2>1, <2>2 DEF Forward, WizardTypeOK, Step, TextStep, Unsaved, KindSettled,
                      ProfileSettled, WorkspaceSettled, NoWorkspace
  <2>. QED BY <2>3, <2>4, <2>5
<1>9. CASE EnterPackages
  <2>1. WizardTypeOK'
    BY <1>9 DEF EnterPackages, OpenText, ShowText, Forward, Trim, WizardTypeOK, Step, TextStep,
                RowHighlighted
  <2>2. RowHighlighted'
    BY <1>9 DEF EnterPackages, OpenText, ShowText, Forward, Trim, WizardTypeOK, RowHighlighted,
                SavedInRange, VisibleRows, KindSettled
  <2>3. SavedInRange'
    BY <1>9 DEF EnterPackages, OpenText, ShowText, Forward, Trim, WizardTypeOK, RowHighlighted,
                SavedInRange
  <2>4. KindSettled'
    BY <1>9 DEF EnterPackages, OpenText, ShowText, Forward, Trim, WizardTypeOK, RowHighlighted,
                KindSettled, Step, TextStep
  <2>5. ProfileSettled'
    BY <1>9 DEF EnterPackages, OpenText, ShowText, Forward, Trim, WizardTypeOK, RowHighlighted,
                ProfileSettled, Step, TextStep
  <2>6. WorkspaceSettled'
    BY <1>9 DEF EnterPackages, OpenText, ShowText, Forward, Trim, WizardTypeOK, RowHighlighted,
                WorkspaceSettled, NoWorkspace, Step, TextStep
  <2>7. NoWorkspace'
    BY <1>9 DEF EnterPackages, OpenText, ShowText, Forward, Trim, WizardTypeOK, NoWorkspace,
                WorkspaceSettled
  <2>. QED BY <2>1, <2>2, <2>3, <2>4, <2>5, <2>6, <2>7
<1>10. CASE EnterPermissions
  <2>1. WizardTypeOK'
    BY <1>10 DEF EnterPermissions, OpenText, ShowText, Forward, Trim, WizardTypeOK, Step,
                 TextStep, RowHighlighted
  <2>2. RowHighlighted'
    BY <1>10 DEF EnterPermissions, OpenText, ShowText, Forward, Trim, WizardTypeOK,
                 RowHighlighted, SavedInRange, VisibleRows, KindSettled
  <2>3. SavedInRange'
    BY <1>10 DEF EnterPermissions, OpenText, ShowText, Forward, Trim, WizardTypeOK,
                 RowHighlighted, SavedInRange
  <2>4. KindSettled'
    BY <1>10 DEF EnterPermissions, OpenText, ShowText, Forward, Trim, WizardTypeOK,
                 RowHighlighted, KindSettled, Step, TextStep
  <2>5. ProfileSettled'
    BY <1>10 DEF EnterPermissions, OpenText, ShowText, Forward, Trim, WizardTypeOK,
                 RowHighlighted, ProfileSettled, Step, TextStep
  <2>6. WorkspaceSettled'
    BY <1>10 DEF EnterPermissions, OpenText, ShowText, Forward, Trim, WizardTypeOK,
                 RowHighlighted, WorkspaceSettled, NoWorkspace, Step, TextStep
  <2>7. NoWorkspace'
    BY <1>10 DEF EnterPermissions, OpenText, ShowText, Forward, Trim, WizardTypeOK, NoWorkspace,
                 WorkspaceSettled
  <2>. QED BY <2>1, <2>2, <2>3, <2>4, <2>5, <2>6, <2>7
<1>11. CASE EnterPrompt
  <2>1. WizardTypeOK'
    BY <1>11 DEF EnterPrompt, OpenText, ShowText, Forward, Trim, WizardTypeOK, Step, TextStep,
                 RowHighlighted
  <2>2. RowHighlighted'
    BY <1>11 DEF EnterPrompt, OpenText, ShowText, Forward, Trim, WizardTypeOK, RowHighlighted,
                 SavedInRange, VisibleRows, KindSettled
  <2>3. SavedInRange'
    BY <1>11 DEF EnterPrompt, OpenText, ShowText, Forward, Trim, WizardTypeOK, RowHighlighted,
                 SavedInRange
  <2>4. KindSettled'
    BY <1>11 DEF EnterPrompt, OpenText, ShowText, Forward, Trim, WizardTypeOK, RowHighlighted,
                 KindSettled, Step, TextStep
  <2>5. ProfileSettled'
    BY <1>11 DEF EnterPrompt, OpenText, ShowText, Forward, Trim, WizardTypeOK, RowHighlighted,
                 ProfileSettled, Step, TextStep
  <2>6. WorkspaceSettled'
    BY <1>11 DEF EnterPrompt, OpenText, ShowText, Forward, Trim, WizardTypeOK, RowHighlighted,
                 WorkspaceSettled, NoWorkspace, Step, TextStep
  <2>7. NoWorkspace'
    BY <1>11 DEF EnterPrompt, OpenText, ShowText, Forward, Trim, WizardTypeOK, NoWorkspace,
                 WorkspaceSettled
  <2>. QED BY <2>1, <2>2, <2>3, <2>4, <2>5, <2>6, <2>7
<1>12. ASSUME NEW background \in BOOLEAN, EnterReview(background) PROVE Inv'
  <2>1. WizardTypeOK'
    BY <1>12 DEF EnterReview, OpenText, ShowText, Forward, WizardTypeOK, Step, TextStep,
                 RowHighlighted
  <2>2. RowHighlighted'
    BY <1>12 DEF EnterReview, OpenText, ShowText, Forward, WizardTypeOK, RowHighlighted,
                 SavedInRange, VisibleRows, KindSettled
  <2>3. SavedInRange'
    BY <1>12 DEF EnterReview, OpenText, ShowText, Forward, WizardTypeOK, RowHighlighted,
                 SavedInRange
  <2>4. KindSettled'
    BY <1>12 DEF EnterReview, OpenText, ShowText, Forward, WizardTypeOK, RowHighlighted,
                 KindSettled, Step, TextStep
  <2>5. ProfileSettled'
    BY <1>12 DEF EnterReview, OpenText, ShowText, Forward, WizardTypeOK, RowHighlighted,
                 ProfileSettled, Step, TextStep
  <2>6. WorkspaceSettled'
    BY <1>12 DEF EnterReview, OpenText, ShowText, Forward, WizardTypeOK, RowHighlighted,
                 WorkspaceSettled, NoWorkspace, Step, TextStep
  <2>7. NoWorkspace'
    BY <1>12 DEF EnterReview, OpenText, ShowText, Forward, WizardTypeOK, NoWorkspace,
                 WorkspaceSettled
  <2>. QED BY <2>1, <2>2, <2>3, <2>4, <2>5, <2>6, <2>7
<1>13. CASE Cancel
  BY <1>13 DEF Cancel, Same, WizardTypeOK, Step, TextStep, RowHighlighted, SavedInRange,
               KindSettled,
       ProfileSettled, WorkspaceSettled, NoWorkspace
<1>14. CASE Back
  <2>1. UNCHANGED <<repo, branches, saved, via, declined, result>>
    BY <1>14 DEF Back
  <2>2. CASE step \in {"worktree", "permissions", "review"} \/ (step = "profile" /\ ~repo)
    <3>1. /\ step' \in {"name", "packages", "prompt"} /\ field' \in STRING
          /\ UNCHANGED <<choices, cursor, scroll>>
          /\ step' = "packages" => step = "permissions"
          /\ step' = "prompt" => step = "review"
      BY <1>14, <2>2 DEF Back, BackToName, BackFromProfile, OpenText, ShowText, WizardTypeOK
    <3>2. WizardTypeOK' /\ SavedInRange' /\ RowHighlighted'
      BY <2>1, <3>1 DEF WizardTypeOK, Step, TextStep, SavedInRange, RowHighlighted
    <3>3. KindSettled' /\ ProfileSettled' /\ WorkspaceSettled' /\ NoWorkspace'
      BY <2>1, <3>1 DEF KindSettled, ProfileSettled, WorkspaceSettled, NoWorkspace
    <3>. QED BY <3>2, <3>3
  <2>3. CASE step = "branch" \/ (step = "profile" /\ repo /\ result.From = Empty)
    <3>1. OpenWorktree(SavedRow("worktree", 0)) /\ repo
      BY <1>14, <2>3 DEF Back, BackFromProfile, KindSettled
    <3>2. /\ step' = "worktree" /\ choices' = WorktreeChoices /\ field' = field /\ scroll' = scroll
          /\ cursor' \in Nat /\ cursor' < Len(WorktreeChoices)
      BY <3>1, WorktreeOpens
    <3>3. WizardTypeOK' /\ SavedInRange' /\ RowHighlighted'
      BY <2>1, <3>2 DEF WizardTypeOK, Step, SavedInRange, RowHighlighted
    <3>4. KindSettled' /\ ProfileSettled' /\ WorkspaceSettled' /\ NoWorkspace'
      BY <2>1, <2>3, <3>1, <3>2 DEF KindSettled, ProfileSettled, WorkspaceSettled, NoWorkspace
    <3>. QED BY <3>3, <3>4
  <2>4. CASE step = "profile" /\ repo /\ result.From # Empty
    <3>1. OpenBranch(SavedRow("branch", 0)) /\ via["profile"].step = "branch" /\ branches # <<>>
      BY <1>14, <2>4 DEF Back, BackFromProfile, KindSettled
    <3>2. /\ step' = "branch" /\ choices' = branches /\ field' = field
          /\ cursor' \in Nat /\ cursor' < Len(branches)
          /\ scroll' \in Nat /\ scroll' <= cursor' /\ cursor' < scroll' + MaxVisible
      BY <3>1, BranchOpens
    <3>3. WizardTypeOK' /\ SavedInRange' /\ RowHighlighted'
      BY <2>1, <3>2 DEF WizardTypeOK, Step, SavedInRange, RowHighlighted, VisibleRows
    <3>4. KindSettled' /\ ProfileSettled' /\ WorkspaceSettled' /\ NoWorkspace'
      BY <2>1, <2>4, <3>1, <3>2 DEF KindSettled, ProfileSettled, WorkspaceSettled, NoWorkspace
    <3>. QED BY <3>3, <3>4
  <2>5. CASE step = "workspace" \/ (step = "packages" /\ Workspaces = <<>>)
    <3>1. OpenProfile
      BY <1>14, <2>5 DEF Back
    <3>2. /\ step' = "profile" /\ choices' = Profiles /\ field' = field /\ scroll' = scroll
          /\ cursor' \in Nat /\ cursor' < Len(Profiles)
      BY <3>1, ProfileOpens
    <3>3. WizardTypeOK' /\ SavedInRange' /\ RowHighlighted'
      BY <2>1, <3>2 DEF WizardTypeOK, Step, SavedInRange, RowHighlighted
    <3>4. KindSettled' /\ ProfileSettled' /\ WorkspaceSettled' /\ NoWorkspace'
      BY <2>1, <2>5, <3>2 DEF KindSettled, ProfileSettled, WorkspaceSettled, NoWorkspace
    <3>. QED BY <3>3, <3>4
  <2>6. CASE step = "packages" /\ Workspaces # <<>>
    <3>1. OpenWorkspace
      BY <1>14, <2>6 DEF Back
    <3>2. /\ step' = "workspace" /\ choices' = WorkspaceChoices
          /\ field' = field /\ scroll' = scroll
          /\ cursor' \in Nat /\ cursor' < Len(WorkspaceChoices)
      BY <3>1, WorkspaceOpens
    <3>3. WizardTypeOK' /\ SavedInRange' /\ RowHighlighted'
      BY <2>1, <3>2 DEF WizardTypeOK, Step, SavedInRange, RowHighlighted
    <3>4. KindSettled' /\ ProfileSettled' /\ WorkspaceSettled' /\ NoWorkspace'
      BY <2>1, <2>6, <3>2 DEF KindSettled, ProfileSettled, WorkspaceSettled, NoWorkspace
    <3>. QED BY <3>3, <3>4
  <2>. QED BY <1>14, <2>2, <2>3, <2>4, <2>5, <2>6 DEF Back
<1>15. CASE UNCHANGED form
  BY <1>15, SMTT(60) DEF form, VisibleRows, WizardTypeOK, Step, TextStep, RowHighlighted, SavedInRange,
               KindSettled,
       ProfileSettled, WorkspaceSettled, NoWorkspace
<1>. QED BY <1>1, <1>2, <1>3, <1>4, <1>5, <1>6, <1>7, <1>8, <1>9, <1>10, <1>11, <1>12, <1>13, <1>14,
            <1>15 DEF WizardNext

LEMMA Invariant == WizardSpec => []Inv
BY InvInit, InvStep, PTL DEF WizardSpec

LEMMA DeclineStep == Inv /\ DeclineSettled /\ [WizardNext]_form => DeclineSettled'
<1> SUFFICES ASSUME Inv, DeclineSettled, [WizardNext]_form PROVE DeclineSettled'
  OBVIOUS
<1> USE DEF DeclineSettled, Inv, WizardTypeOK, ListStep
<1>1. CASE UNCHANGED <<repo, saved, declined, result>>
  BY <1>1
<1>2. CASE EnterName
  <2>1. UNCHANGED <<repo, saved, declined>>
    BY <1>2 DEF EnterName, Forward
  <2>2. result'.NoWorktree = IF repo THEN result.NoWorktree ELSE TRUE
    BY <1>2 DEF EnterName
  <2>. QED BY <2>1, <2>2
<1>3. CASE EnterWorktree
  <2>1. step = "worktree" /\ repo' = repo /\ saved'["worktree"] = cursor
        /\ declined' = (declined \/ cursor = 2)
    BY <1>3 DEF EnterWorktree, Chosen, Forward
  <2>2. CASE cursor = 2
    <3>1. result' = [result EXCEPT !.NoWorktree = TRUE, !.Worktree = Empty, !.From = Empty]
      BY <1>3, <2>2 DEF EnterWorktree
    <3>2. result'.NoWorktree
      BY <3>1
    <3>. QED BY <2>1, <2>2, <3>2
  <2>3. CASE cursor # 2
    <3>1. result'.NoWorktree = result.NoWorktree
      BY <1>3, <2>3 DEF EnterWorktree, NewBranch
    <3>. QED BY <2>1, <2>3, <3>1
  <2>. QED BY <2>2, <2>3
<1>4. CASE EnterBranch \/ EnterProfile \/ EnterWorkspace
  <2>1. UNCHANGED <<repo, declined>> /\ saved'["worktree"] = saved["worktree"]
    BY <1>4 DEF EnterBranch, EnterProfile, EnterWorkspace, Chosen, Forward
  <2>2. result'.NoWorktree = result.NoWorktree
    BY <1>4 DEF EnterBranch, EnterProfile, EnterWorkspace
  <2>. QED BY <2>1, <2>2
<1>5. CASE EnterPackages \/ EnterPermissions \/ EnterPrompt \/ \E b \in BOOLEAN : EnterReview(b)
  <2>1. UNCHANGED <<repo, saved, declined>>
    BY <1>5 DEF EnterPackages, EnterPermissions, EnterPrompt, EnterReview, Forward
  <2>2. result'.NoWorktree = result.NoWorktree
    BY <1>5 DEF EnterPackages, EnterPermissions, EnterPrompt, EnterReview
  <2>. QED BY <2>1, <2>2
<1>6. (\E t \in Texts : Type(t)) \/ Down \/ Up \/ Back \/ Cancel \/ UNCHANGED form
        => UNCHANGED <<repo, saved, declined, result>>
  BY DEF Type, Down, Up, Back, Cancel, Same, form
<1>. QED BY <1>1, <1>2, <1>3, <1>4, <1>5, <1>6 DEF WizardNext

LEMMA DeclineInvariant == WizardSpec => []DeclineSettled
<1>1. WizardInit => DeclineSettled
  BY DEF WizardInit, DeclineSettled, NoResult, ListStep, Unsaved
<1>. QED BY <1>1, DeclineStep, Invariant, PTL DEF WizardSpec

-------------------------------------------------------------------------------
(* The theorems *)

(* Every variable of the form keeps its type. *)
THEOREM FormTypeCorrect == WizardSpec => []WizardTypeOK
<1>1. Inv => WizardTypeOK
  BY DEF Inv
<1>. QED BY <1>1, Invariant, PTL

(* Whichever way a list was reached, its highlighted row exists and shows. *)
THEOREM ARowIsHighlighted == WizardSpec => []RowHighlighted
<1>1. Inv => RowHighlighted
  BY DEF Inv
<1>. QED BY <1>1, Invariant, PTL

(* internal/tui/wizard.go: however often the user went back, the review has the
   answers given last, and its command has --no-worktree if that was answered ever. *)
THEOREM AnswersReviewed == WizardSpec => []ReviewFollowsAnswers
<1>1. Inv /\ DeclineSettled => ReviewFollowsAnswers
  BY DEF Inv, DeclineSettled, KindSettled, ProfileSettled, WorkspaceSettled, ReviewFollowsAnswers,
         PastKind, PastProfile, PastWorkspace
<1>. QED BY <1>1, Invariant, DeclineInvariant, PTL

(* internal/tui/wizard.go, goBack: going back leads to where the user came from, and
   in a list to the row with which it was answered. *)
THEOREM BackIsBack == WizardSpec => BackRetraces
<1>1. Inv => Retraces
  <2> SUFFICES ASSUME Inv, Back
               PROVE  /\ step' = via[step].step
                      /\ step' \in ListStep => cursor' = via[step].row
    BY DEF Retraces
  <2> USE DEF PastKind, PastProfile, PastWorkspace, Unsaved
  <2>1. CASE step \in {"worktree", "permissions", "review"} \/ (step = "profile" /\ ~repo)
    BY <2>1 DEF Inv, KindSettled, WorkspaceSettled, Back, BackFromProfile, BackToName,
                OpenText, ShowText, ListStep
  <2>2. CASE step = "branch"
    <3>1. step' = "worktree" /\ cursor' = saved["worktree"]
      BY <2>2, WorktreeOpens DEF Inv, KindSettled, Back, SavedRow
    <3>. QED BY <2>2, <3>1 DEF Inv, KindSettled
  <2>3. CASE step = "profile" /\ repo /\ result.From = Empty
    <3>1. step' = "worktree" /\ cursor' = saved["worktree"]
      BY <2>3, WorktreeOpens DEF Inv, KindSettled, Back, BackFromProfile, SavedRow
    <3>. QED BY <2>3, <3>1 DEF Inv, KindSettled
  <2>4. CASE step = "profile" /\ repo /\ result.From # Empty
    <3>1. step' = "branch" /\ cursor' = saved["branch"]
      BY <2>4, BranchOpens DEF Inv, KindSettled, Back, BackFromProfile, SavedRow
    <3>. QED BY <2>4, <3>1 DEF Inv, KindSettled
  <2>5. CASE step = "workspace" \/ (step = "packages" /\ Workspaces = <<>>)
    <3>1. step' = "profile" /\ cursor' = saved["profile"]
      BY <2>5, ProfileOpens DEF Inv, ProfileSettled, Back
    <3>. QED BY <2>5, <3>1 DEF Inv, ProfileSettled, WorkspaceSettled
  <2>6. CASE step = "packages" /\ Workspaces # <<>>
    <3>1. step' = "workspace" /\ cursor' = saved["workspace"]
      BY <2>6, WorkspaceOpens DEF Inv, WorkspaceSettled, Back
    <3>. QED BY <2>6, <3>1 DEF Inv, ProfileSettled, WorkspaceSettled
  <2>. QED BY <2>1, <2>2, <2>3, <2>4, <2>5, <2>6 DEF Back
<1>. QED BY <1>1, Invariant, PTL DEF WizardSpec, BackRetraces

-------------------------------------------------------------------------------
(* The program runs the form *)

(* The program's steps are steps of the form, or leave it alone. *)
THEOREM RunsTheForm == Spec => WizardSpec
<1>1. Init => WizardInit
  BY DEF Init
<1>2. [Next]_vars => [WizardNext]_form
  <2>1. FormStep => WizardNext
    BY DEF FormStep
  <2>2. Submit \/ DashboardActs \/ Quit \/ Restart \/ EnterKey \/ AttachEnds \/ PickEnter
          => UNCHANGED form
    BY DEF Submit, DashboardActs, Quit, Restart, EnterKey, AttachEnds, PickEnter
  <2>3. UNCHANGED vars => UNCHANGED form
    BY DEF vars
  <2>. QED BY <2>1, <2>2, <2>3 DEF Next
<1>. QED BY <1>1, <1>2, PTL DEF Spec, WizardSpec

(* In the program, too, the highlighted row exists and shows. *)
THEOREM ProgramHighlights == Spec => []RowHighlighted
<1>. QED BY RunsTheForm, ARowIsHighlighted, PTL

(* In the program, too, the review shows the answers given last. *)
THEOREM ProgramReviews == Spec => []ReviewFollowsAnswers
<1>. QED BY RunsTheForm, AnswersReviewed, PTL

(* In the program, too, going back retraces the way. *)
THEOREM ProgramRetraces == Spec => BackRetraces
<1>. QED BY RunsTheForm, BackIsBack, PTL

-------------------------------------------------------------------------------

(* A launch ends "new", and with it the form. *)
Announced(type) == type = CommandType /\ (type = ReviewedType \/ Reconsidered)
EndsWithLaunch == launched # None => program = "ended" /\ Announced(launched)

\* The checks of createSession leave no other type to launch.
LEMMA LaunchesReviewed ==
  ASSUME Inv, DeclineSettled, step = "done", Creatable(repo, result)
  PROVE  Announced(LaunchedType(repo, result))
<1>1. /\ result.Worktree = Empty => result.NoWorktree
      /\ result.Worktree = IF repo /\ saved["worktree"] # 2 THEN result.Name ELSE Empty
  BY DEF Inv, KindSettled, PastKind, PastProfile, PastWorkspace
<1>2. CASE result.NoWorktree
  <2>1. LaunchedType(repo, result) = "run" /\ CommandType = "run"
    BY <1>2 DEF LaunchedType, ResolveWorkspace, WorktreeMode, CommandType
  <2>2. result.Worktree = Empty \/ Reconsidered
    BY <1>1, <1>2 DEF DeclineSettled, Reconsidered
  <2>. QED BY <2>1, <2>2 DEF Announced, ReviewedType
<1>3. CASE ~result.NoWorktree
  BY <1>1, <1>3 DEF Creatable, LaunchedType, ResolveWorkspace, WorktreeMode, Announced,
                    CommandType, ReviewedType
<1>. QED BY <1>2, <1>3

(* The session launched is the one the review's command describes; and the one its
   summary describes, unless a "No worktree" was taken back. *)
THEOREM LaunchedAsReviewed == Spec => []ReviewedIsLaunched
<1>1. Init => EndsWithLaunch
  BY DEF Init, EndsWithLaunch
<1>2. Inv /\ DeclineSettled /\ EndsWithLaunch /\ [Next]_vars => EndsWithLaunch'
  <2> SUFFICES ASSUME Inv, DeclineSettled, EndsWithLaunch, [Next]_vars PROVE EndsWithLaunch'
    OBVIOUS
  <2>2. CASE FormStep
    BY <2>2 DEF FormStep, EndsWithLaunch, tui
  <2>3. CASE Submit
    <3>1. launched = None
      BY <2>3 DEF Submit, EndsWithLaunch
    <3>2. CASE launched' = launched
      BY <3>1, <3>2 DEF EndsWithLaunch
    <3>3. CASE /\ step = "done" /\ Creatable(repo, result)
               /\ launched' = LaunchedType(repo, result)
      <4>1. Announced(launched')
        BY <3>3, LaunchesReviewed
      <4>2. UNCHANGED form
        BY <2>3 DEF Submit
      <4>3. Announced(launched)'
        BY <4>1, <4>2 DEF form, Announced, Reconsidered, CommandType, ReviewedType
      <4>. QED BY <2>3, <4>3 DEF Submit, EndsWithLaunch
    <3>. QED BY <2>3, <3>2, <3>3 DEF Submit
  <2>4. CASE DashboardActs \/ Quit \/ Restart \/ EnterKey \/ AttachEnds \/ PickEnter
    <3>1. program # "ended" /\ launched' = launched
      BY <2>4 DEF DashboardActs, Quit, Restart, EnterKey, AttachEnds, PickEnter, tui
    <3>. QED BY <3>1 DEF EndsWithLaunch
  <2>5. CASE UNCHANGED vars
    <3>1. UNCHANGED form /\ program' = program /\ launched' = launched
      BY <2>5 DEF vars, tui
    <3>. QED BY <3>1 DEF EndsWithLaunch, form, Announced, Reconsidered, CommandType, ReviewedType
  <2>. QED BY <2>2, <2>3, <2>4, <2>5 DEF Next
<1>3. EndsWithLaunch => ReviewedIsLaunched
  BY DEF EndsWithLaunch, Announced, ReviewedIsLaunched
<1>. QED BY <1>1, <1>2, <1>3, RunsTheForm, Invariant, DeclineInvariant, PTL DEF Spec

-------------------------------------------------------------------------------
(* The dashboard's timer *)

(* Only in the browser can the timer be lost, and it is never doubled. *)
TimerInv ==
  /\ screen \in ListScreen \cup BrowserScreen \cup {"closed"}
  /\ visited \in BOOLEAN /\ ticks \in {0, 1}
  /\ screen \in ListScreen /\ ~visited => ticks = 1
  /\ screen \in BrowserScreen => visited

\* Commands and their answers leave the timer alone, and the screen too.
LEMMA AnswersKeepTimer ==
  ASSUME NEW j \in DOMAIN jobs, Work(j) \/ Deliver(j)
  PROVE  UNCHANGED <<screen, ticks, visited>>
<1>1. CASE Work(j)
  BY <1>1 DEF Work, ListRecords, ReadStatuses, ScanRepos, ScanConvos, KeepView
<1>2. CASE Deliver(j)
  BY <1>2 DEF Deliver, Refreshed, ReposLoaded, ConvosLoaded, Ignored, Arrived
<1>. QED BY <1>1, <1>2

LEMMA DashboardKeepsTimer ==
  ASSUME TimerInv, DashboardStep \/ Outside
  PROVE  TimerInv'
<1> USE DEF TimerInv, ListScreen, BrowserScreen
<1>1. ASSUME UNCHANGED <<screen, ticks, visited>> PROVE TimerInv'
  BY <1>1
<1>2. CASE Outside
  BY <1>1, <1>2 DEF Outside, dash
<1>3. CASE \E j \in DOMAIN jobs : Work(j) \/ Deliver(j)
  BY <1>1, <1>3, AnswersKeepTimer
<1>4. CASE Tick
  BY <1>4 DEF Tick
<1>5. CASE RowDown \/ RowUp \/ StopKey \/ BrowserRow
  BY <1>1, <1>5 DEF RowDown, RowUp, StopKey, BrowserRow, KeepRest, KeepWorldAndList, list
<1>6. CASE RemoveKey \/ RemoveYes \/ RemoveNo \/ NewKey \/ PickEsc
  BY <1>6 DEF RemoveKey, RemoveYes, RemoveNo, NewKey, PickEsc, OnList, KeepRest
<1>7. CASE ConvosKey
  BY <1>7 DEF ConvosKey
<1>8. CASE OpenRepo \/ DeleteKey \/ DeleteYes \/ DeleteNo \/ LeaveRepo \/ LeaveBrowser
  BY <1>8 DEF OpenRepo, DeleteKey, DeleteYes, DeleteNo, LeaveRepo, LeaveBrowser, KeepWorldAndList
<1>. QED BY <1>2, <1>3, <1>4, <1>5, <1>6, <1>7, <1>8 DEF DashboardStep, Keys

LEMMA TimerIsKept == Spec => []TimerInv
<1>1. Init => TimerInv
  BY DEF Init, TimerInv, ListScreen, BrowserScreen
<1>2. TimerInv /\ [Next]_vars => TimerInv'
  <2> SUFFICES ASSUME TimerInv, [Next]_vars PROVE TimerInv'
    OBVIOUS
  <2>1. CASE FormStep \/ Submit \/ UNCHANGED vars
    BY <2>1 DEF FormStep, Submit, vars, dash, TimerInv
  <2>2. CASE DashboardActs
    BY <2>2, DashboardKeepsTimer DEF DashboardActs
  <2>3. CASE Restart
    BY <2>3 DEF Restart, StartDashboard, TimerInv, ListScreen, BrowserScreen
  <2>4. CASE Quit \/ EnterKey \/ AttachEnds \/ PickEnter
    <3>1. StopDashboard
      BY <2>4 DEF Quit, EnterKey, AttachEnds, PickEnter, Attach, Return
    <3>. QED BY <3>1 DEF StopDashboard, TimerInv, ListScreen, BrowserScreen
  <2>. QED BY <2>1, <2>2, <2>3, <2>4 DEF Next
<1>. QED BY <1>1, <1>2, PTL DEF Spec

(* internal/tui/dashboard.go: one two-second timer at most however often the user
   goes to the conversation browser and back, and none lost before the first time. *)
THEOREM PollsOnce == Spec => []OneTimer
<1>1. TimerInv => OneTimer
  BY DEF TimerInv, OneTimer
<1>. QED BY <1>1, TimerIsKept, PTL

-------------------------------------------------------------------------------
(* Lists that lose a member, and lists that are scanned *)

LEMMA LeastMember == ASSUME NEW I \in SUBSET Nat, I # {} PROVE Min(I) \in I
<1>1. \E n \in I : \A m \in I : n <= m
  BY LeastNatural
<1>. QED BY <1>1 DEF Min

LEMMA OneElementGoes ==
  ASSUME NEW S, NEW q \in Seq(S), NEW k \in 1..Len(q)
  PROVE  /\ RemoveAt(q, k) \in Seq(S)
         /\ \A i \in DOMAIN q : i # k =>
              \E m \in DOMAIN RemoveAt(q, k) : RemoveAt(q, k)[m] = q[i]
<1> DEFINE left == SubSeq(q, 1, k - 1)
           right == SubSeq(q, k + 1, Len(q))
<1>1. left \in Seq(S) /\ Len(left) = k - 1 /\ \A i \in 1..(k - 1) : left[i] = q[i]
  OBVIOUS
<1>2. right \in Seq(S) /\ Len(right) = Len(q) - k
      /\ \A i \in 1..(Len(q) - k) : right[i] = q[k + i]
  OBVIOUS
<1> HIDE DEF left, right
<1>3. RemoveAt(q, k) = left \o right
  BY DEF RemoveAt, left, right
<1>4. left \o right \in Seq(S)
  BY <1>1, <1>2
<1>5. ASSUME NEW i \in DOMAIN q, i # k
      PROVE  \E m \in DOMAIN (left \o right) : (left \o right)[m] = q[i]
  <2>1. CASE i < k
    <3>1. i \in DOMAIN (left \o right) /\ (left \o right)[i] = q[i]
      BY <1>1, <1>2, <2>1
    <3>. QED BY <3>1
  <2>2. CASE i > k
    <3>1. i - 1 \in DOMAIN (left \o right) /\ (left \o right)[i - 1] = right[i - k]
      BY <1>1, <1>2, <2>2
    <3>2. right[i - k] = q[i]
      BY <1>2, <2>2
    <3>. QED BY <3>1, <3>2
  <2>. QED BY <1>5, <2>1, <2>2
<1>. QED BY <1>3, <1>4, <1>5

LEMMA OneElementLess ==
  ASSUME NEW S, NEW q \in Seq(S), NEW k \in 1..Len(q)
  PROVE  Len(RemoveAt(q, k)) = Len(q) - 1
<1> DEFINE left == SubSeq(q, 1, k - 1)
           right == SubSeq(q, k + 1, Len(q))
<1>1. left \in Seq(S) /\ Len(left) = k - 1 /\ right \in Seq(S) /\ Len(right) = Len(q) - k
  OBVIOUS
<1>2. RemoveAt(q, k) = left \o right
  BY DEF RemoveAt
<1> HIDE DEF left, right
<1>3. Len(left \o right) = Len(left) + Len(right)
  BY <1>1
<1>. QED BY <1>1, <1>2, <1>3

\* Dropping a session's record leaves all other names.
LEMMA OthersStayNamed ==
  ASSUME NEW S, NEW recs \in Seq(S), NEW s
  PROVE  /\ Without(recs, s) \in Seq(S)
         /\ \A n \in Named(recs) : n # s => n \in Named(Without(recs, s))
<1> DEFINE I == {i \in 1..Len(recs) : recs[i].name = s}
<1>1. CASE I = {}
  <2>1. Without(recs, s) = recs
    BY <1>1 DEF Without, RemoveFirstMatch
  <2>. QED BY <2>1
<1>2. CASE I # {}
  <2>1. I \in SUBSET Nat
    OBVIOUS
  <2>2. Min(I) \in I
    BY <1>2, <2>1, LeastMember, Zenon
  <2>3. Without(recs, s) = RemoveAt(recs, Min(I))
    BY <1>2 DEF Without, RemoveFirstMatch, SelectInSeq
  <2> HIDE DEF I
  <2>4. Min(I) \in 1..Len(recs) /\ recs[Min(I)].name = s
    BY <2>2 DEF I
  <2>. QED BY <2>3, <2>4, OneElementGoes DEF Named
<1>. QED BY <1>1, <1>2

\* Deleting a conversation leaves all others.
LEMMA OthersStaySaved ==
  ASSUME NEW S, NEW q \in Seq(S), NEW c
  PROVE  /\ RemoveFirst(q, c) \in Seq(S) /\ Len(RemoveFirst(q, c)) >= Len(q) - 1
         /\ ToSet(q) \ {c} \subseteq ToSet(RemoveFirst(q, c))
<1> DEFINE I == {i \in 1..Len(q) : q[i] = c}
<1>1. CASE I = {}
  <2>1. RemoveFirst(q, c) = q
    BY <1>1 DEF RemoveFirst
  <2>. QED BY <2>1
<1>2. CASE I # {}
  <2>1. I \in SUBSET Nat
    OBVIOUS
  <2>2. Min(I) \in I
    BY <1>2, <2>1, LeastMember, Zenon
  <2>3. RemoveFirst(q, c) = RemoveAt(q, Min(I))
    BY <1>2 DEF RemoveFirst, SelectInSeq
  <2> HIDE DEF I
  <2>4. Min(I) \in 1..Len(q) /\ q[Min(I)] = c
    BY <2>2 DEF I
  <2>5. Len(RemoveFirst(q, c)) = Len(q) - 1
    BY <2>3, <2>4, OneElementLess
  <2>6. RemoveFirst(q, c) \in Seq(S) /\ ToSet(q) \ {c} \subseteq ToSet(RemoveFirst(q, c))
    BY <2>3, <2>4, OneElementGoes DEF ToSet
  <2>. QED BY <2>5, <2>6
<1>. QED BY <1>1, <1>2

LEMMA EveryFileIsListed ==
  SetToSeq(Conversations) \in Seq(Conversations)
<1>1. IsFiniteSet(Conversations)
  BY DashboardAssumption
<1>2. Cardinality(Conversations) \in Nat
      /\ ExistsBijection(1..Cardinality(Conversations), Conversations)
  BY <1>1, FS_CardinalityType
<1>3. \E f \in [1..Cardinality(Conversations) -> Conversations] : IsInjective(f)
  BY <1>2 DEF ExistsBijection, Bijection, Injection, IsInjective
<1>4. SetToSeq(Conversations) \in [1..Cardinality(Conversations) -> Conversations]
  BY <1>3 DEF SetToSeq
<1>. QED BY <1>2, <1>4

LEMMA ReposAreFinite == IsFiniteSet(ToSet(Repos))
<1>1. Repos \in Seq(STRING) /\ Len(Repos) \in Nat /\ DOMAIN Repos = 1..Len(Repos)
  BY DashboardAssumption
<1>2. IsFiniteSet(1..Len(Repos))
  BY <1>1, FS_Interval
<1>3. Repos \in Surjection(1..Len(Repos), ToSet(Repos))
  BY <1>1 DEF Surjection, ToSet
<1>. QED BY <1>2, <1>3, FS_Surjection

LEMMA ArrangedTyped ==
  ASSUME NEW S, IsFiniteSet(S), NEW q \in SetToSeqs(S)
  PROVE  q \in Seq(S)
<1>1. Cardinality(S) \in Nat
  BY FS_CardinalityType
<1>2. q \in [1..Cardinality(S) -> S]
  BY DEF SetToSeqs
<1>. QED BY <1>1, <1>2

\* The scans return repositories of the index and saved conversations.
LEMMA ScansTyped ==
  /\ NewestFirst \subseteq Seq(ToSet(Repos))
  /\ ToSet(files) \subseteq Conversations =>
       \A r : ConvosOf(r) \subseteq Seq(Conversations)
<1>1. NewestFirst \subseteq Seq(ToSet(Repos))
  BY ReposAreFinite, ArrangedTyped DEF NewestFirst
<1>2. ASSUME ToSet(files) \subseteq Conversations, NEW r
      PROVE  ConvosOf(r) \subseteq Seq(Conversations)
  <2> DEFINE C == {c \in ToSet(files) : c.repo = r}
  <2>1. C \in SUBSET Conversations
    BY <1>2
  <2>2. IsFiniteSet(C)
    BY <2>1, FS_Subset, DashboardAssumption
  <2>3. ConvosOf(r) \subseteq SetToSeqs(C)
    BY DEF ConvosOf
  <2> HIDE DEF C
  <2>4. SetToSeqs(C) \subseteq Seq(C)
    BY <2>2, ArrangedTyped
  <2>5. Seq(C) \subseteq Seq(Conversations)
    BY <2>1, SeqMonotonic
  <2>. QED BY <2>3, <2>4, <2>5
<1>. QED BY <1>1, <1>2

\* A cursor is somewhere in its list, whatever became of the list.
LEMMA ClampedRow ==
  ASSUME NEW S, NEW l \in Seq(S), NEW r \in Nat
  PROVE  Clamp(r, l) \in Nat /\ (l # <<>> => RowAt(l, r) \in S)
<1>1. Len(l) \in Nat /\ (l # <<>> => Len(l) > 0)
  BY LenProperties, EmptySeq
<1>2. Clamp(r, l) \in Nat
  BY <1>1 DEF Clamp
<1>3. ASSUME l # <<>> PROVE RowAt(l, r) \in S
  <2>1. Clamp(r, l) + 1 \in 1..Len(l)
    BY <1>1, <1>3 DEF Clamp
  <2>. QED BY <2>1, ElementOfSeq DEF RowAt
<1>. QED BY <1>2, <1>3

-------------------------------------------------------------------------------
(* Types *)

(* A name the form gives is one that a session can have. *)
NameTyped ==
  /\ result.Name \in Sessions \cup {Empty}
  /\ step = "name" => Trim(field) \in Sessions \cup {Empty}

LEMMA FormKeepsName == Inv /\ NameTyped /\ [WizardNext]_form => NameTyped'
<1> SUFFICES ASSUME Inv, NameTyped, [WizardNext]_form PROVE NameTyped'
  OBVIOUS
<1> USE DEF NameTyped
<1>1. result \in [Name : STRING, Worktree : STRING, From : STRING, Profile : STRING, Yolo : BOOLEAN,
                 Workspace : STRING, Packages : STRING, AllowPerms : STRING, Prompt : STRING,
                 NoWorktree : BOOLEAN, Background : BOOLEAN]
  BY DEF Inv, WizardTypeOK
<1>2. ASSUME NEW t \in Texts, Type(t) PROVE NameTyped'
  BY <1>2, TuiAssumption DEF Type, Same, Trim
<1>3. CASE Down \/ Up \/ Cancel \/ UNCHANGED form
  BY <1>3 DEF Down, Up, Cancel, Same, form, Trim
<1>4. CASE EnterName
  <2> DEFINE name == IF Trim(field) = Empty THEN Generated ELSE Trim(field)
  <2>1. name \in Sessions \cup {Empty}
    BY <1>4, TuiAssumption DEF EnterName
  <2>2. step' # "name" /\ (result' = [result EXCEPT !.Name = name]
          \/ result' = [result EXCEPT !.Name = name, !.NoWorktree = TRUE])
    BY <1>4 DEF EnterName, OpenWorktree, OpenProfile, ShowList
  <2> HIDE DEF name
  <2>. QED BY <1>1, <2>1, <2>2
<1>5. CASE EnterWorktree \/ EnterBranch \/ EnterProfile \/ EnterWorkspace
  <2>1. step' # "name"
    BY <1>5 DEF EnterWorktree, EnterBranch, EnterProfile, EnterWorkspace,
                OpenBranch, OpenProfile, OpenWorkspace, OpenText, ShowList, ShowText
  <2>2. result'.Name = result.Name
    <3>1. CASE EnterWorktree
      BY <1>1, <3>1 DEF EnterWorktree, NewBranch
    <3>2. CASE EnterBranch
      BY <1>1, <3>2 DEF EnterBranch
    <3>3. CASE EnterProfile
      <4>1. PICK p, y : result' = [result EXCEPT !.Profile = p, !.Yolo = y]
        BY <3>3, Zenon DEF EnterProfile
      <4>. QED BY <1>1, <4>1
    <3>4. CASE EnterWorkspace
      BY <1>1, <3>4 DEF EnterWorkspace
    <3>. QED BY <1>5, <3>1, <3>2, <3>3, <3>4
  <2>. QED BY <2>1, <2>2
<1>6. CASE EnterPackages \/ EnterPermissions \/ EnterPrompt \/ \E b \in BOOLEAN : EnterReview(b)
  BY <1>1, <1>6 DEF EnterPackages, EnterPermissions, EnterPrompt, EnterReview, OpenText, ShowText
<1>7. CASE Back
  <2>1. result' = result
    BY <1>7 DEF Back
  <2>2. step' = "name" => field' = result.Name
    BY <1>7 DEF Back, BackToName, BackFromProfile, OpenText, ShowText, OpenWorktree, OpenBranch,
                OpenProfile, OpenWorkspace, ShowList
  <2>. QED BY <2>1, <2>2 DEF Trim
<1>. QED BY <1>2, <1>3, <1>4, <1>5, <1>6, <1>7 DEF WizardNext

RowType == [name : Sessions, branch : BOOLEAN, status : {"none", "stopped", "running"}]
Data == Seq(Record) \cup Seq(RowType) \cup Seq(ToSet(Repos)) \cup Seq(Conversations)

\* A command in flight: what it brings back is of the type of what it is for.
Job ==
  {q \in [st : {"run", "listed", "loaded"}, kind : {"refresh", "repos", "convos"},
          of : ToSet(Repos) \cup {None}, data : Data] :
     /\ q.st = "listed" => q.kind = "refresh" /\ q.data \in Seq(Record)
     /\ q.st = "loaded" => CASE q.kind = "refresh" -> q.data \in Seq(RowType)
                             [] q.kind = "repos" -> q.data \in Seq(ToSet(Repos))
                             [] q.kind = "convos" -> q.data \in Seq(Conversations)}

WorldTyped ==
  /\ records \in Seq(Record) /\ boxes \in [Sessions -> {"none", "stopped", "running"}]
  /\ gitBranches \subseteq Sessions /\ files \in Seq(Conversations)

ListTyped == rows \in Seq(RowType) /\ row \in Nat /\ asked \in Sessions \cup {None}

BrowserTyped ==
  /\ repos \in Seq(ToSet(Repos)) /\ repoRow \in Nat
  /\ convos \in Seq(Conversations) /\ convoRow \in Nat
  /\ askedConvo \in Conversations \cup {NoConvo}

JobsTyped == jobs \in Seq(Job)

ProgramTyped ==
  /\ program \in {"wizard", "dashboard", "loop", "attached", "ended"}
  /\ attached \in Sessions \cup {None}

Typed == NameTyped /\ WorldTyped /\ ListTyped /\ BrowserTyped /\ JobsTyped /\ ProgramTyped

LEMMA StartTyped ==
  ASSUME JobsTyped, NEW kind \in {"refresh", "repos", "convos"},
         NEW of \in ToSet(Repos) \cup {None}, Start(kind, of)
  PROVE  JobsTyped'
<1>1. <<>> \in Data
  BY DEF Data
<1>2. Command(kind, of) \in Job
  BY <1>1 DEF Command, Job
<1>. QED BY <1>2 DEF Start, JobsTyped

LEMMA RefreshTyped == ASSUME JobsTyped, Refresh PROVE JobsTyped'
BY StartTyped DEF Refresh

LEMMA WorkTyped ==
  ASSUME WorldTyped, JobsTyped, NEW j \in DOMAIN jobs, Work(j)
  PROVE  JobsTyped'
<1> DEFINE Fits(kind, st, data) ==
      /\ st = "listed" => kind = "refresh" /\ data \in Seq(Record)
      /\ st = "loaded" => CASE kind = "refresh" -> data \in Seq(RowType)
                            [] kind = "repos" -> data \in Seq(ToSet(Repos))
                            [] kind = "convos" -> data \in Seq(Conversations)
<1>1. jobs[j] \in Job
  BY DEF JobsTyped
<1>2. ASSUME NEW st \in {"listed", "loaded"}, NEW data \in Data, Fits(jobs[j].kind, st, data),
             SetJob(j, st, data)
      PROVE  JobsTyped'
  <2> DEFINE new == [jobs[j] EXCEPT !.st = st, !.data = data]
  <2>1. jobs[j] \in [st : {"run", "listed", "loaded"}, kind : {"refresh", "repos", "convos"},
                     of : ToSet(Repos) \cup {None}, data : Data]
    BY <1>1 DEF Job
  <2>2. /\ new \in [st : {"run", "listed", "loaded"}, kind : {"refresh", "repos", "convos"},
                   of : ToSet(Repos) \cup {None}, data : Data]
        /\ new.st = st /\ new.kind = jobs[j].kind /\ new.data = data
    BY <2>1
  <2>3. new \in Job
    BY <1>2, <2>1, <2>2 DEF Job
  <2>4. jobs' = [jobs EXCEPT ![j] = new]
    BY <1>2, <2>1, <2>2 DEF SetJob, JobsTyped
  <2> HIDE DEF new
  <2>. QED BY <2>3, <2>4 DEF JobsTyped
<1>3. CASE ListRecords(j)
  <2>1. records \in Data /\ <<>> \in Data /\ records \in Seq(Record) /\ <<>> \in Seq(Record)
    BY DEF WorldTyped, Data
  <2>2. jobs[j].kind = "refresh" /\ (SetJob(j, "listed", records) \/ SetJob(j, "listed", <<>>))
    BY <1>3 DEF ListRecords, Running
  <2>. QED BY <1>2, <2>1, <2>2
<1>4. CASE ReadStatuses(j)
  <2> DEFINE read == [i \in DOMAIN jobs[j].data |-> Row(jobs[j].data[i])]
  <2>1. jobs[j].kind = "refresh" /\ jobs[j].data \in Seq(Record) /\ SetJob(j, "loaded", read)
    BY <1>1, <1>4 DEF ReadStatuses, Job
  <2>2. \A r \in Record : Row(r) \in RowType
    BY DEF Row, Record, RowType, WorldTyped
  <2>3. read \in Seq(RowType)
    BY <2>1, <2>2
  <2> HIDE DEF read
  <2>. QED BY <1>2, <2>1, <2>3 DEF Data
<1>5. CASE ScanRepos(j)
  <2>1. PICK found \in NewestFirst : SetJob(j, "loaded", found)
    BY <1>5 DEF ScanRepos
  <2>2. found \in Seq(ToSet(Repos)) /\ jobs[j].kind = "repos"
    BY <1>5, ScansTyped DEF ScanRepos, Running
  <2>. QED BY <1>2, <2>1, <2>2 DEF Data
<1>6. CASE ScanConvos(j)
  <2>1. PICK found \in ConvosOf(jobs[j].of) : SetJob(j, "loaded", found)
    BY <1>6 DEF ScanConvos
  <2>2. ToSet(files) \subseteq Conversations
    BY DEF ToSet, WorldTyped
  <2>3. found \in Seq(Conversations) /\ jobs[j].kind = "convos"
    BY <1>6, <2>2, ScansTyped DEF ScanConvos, Running
  <2>. QED BY <1>2, <2>1, <2>3 DEF Data
<1>. QED BY <1>3, <1>4, <1>5, <1>6 DEF Work

\* What arrives is of the type of the list it replaces.
LEMMA DeliverTyped ==
  ASSUME ListTyped, BrowserTyped, JobsTyped, NEW j \in DOMAIN jobs, Deliver(j)
  PROVE  ListTyped' /\ BrowserTyped' /\ JobsTyped'
<1>1. jobs[j] \in Job
  BY DEF JobsTyped
<1>2. jobs' = RemoveAt(jobs, j) /\ jobs[j].st = "loaded" /\ UNCHANGED <<asked, askedConvo>>
  BY DEF Deliver, Refreshed, ReposLoaded, ConvosLoaded, Ignored, Arrived
<1>3. JobsTyped'
  BY <1>2, OneElementGoes DEF JobsTyped
<1>4. CASE Refreshed(j)
  <2>1. jobs[j].data \in Seq(RowType)
    BY <1>1, <1>2, <1>4 DEF Refreshed, Arrived, Job
  <2>2. rows' \in Seq(RowType) /\ row' \in Nat
    BY <1>4, <2>1, ClampedRow DEF Refreshed, ListTyped
  <2>. QED BY <1>2, <1>3, <1>4, <2>2 DEF Refreshed, ListTyped, BrowserTyped
<1>5. CASE ReposLoaded(j)
  <2>1. jobs[j].data \in Seq(ToSet(Repos))
    BY <1>1, <1>2, <1>5 DEF ReposLoaded, Arrived, Job
  <2>2. repos' \in Seq(ToSet(Repos)) /\ repoRow' \in Nat
    BY <1>5, <2>1, ClampedRow DEF ReposLoaded, BrowserTyped
  <2>. QED BY <1>2, <1>3, <1>5, <2>2 DEF ReposLoaded, ListTyped, BrowserTyped
<1>6. CASE ConvosLoaded(j)
  <2>1. jobs[j].data \in Seq(Conversations)
    BY <1>1, <1>2, <1>6 DEF ConvosLoaded, Arrived, Job
  <2>2. convos' \in Seq(Conversations) /\ convoRow' \in Nat
    BY <1>6, <2>1, ClampedRow DEF ConvosLoaded, BrowserTyped
  <2>. QED BY <1>2, <1>3, <1>6, <2>2 DEF ConvosLoaded, ListTyped, BrowserTyped
<1>7. CASE Ignored(j)
  BY <1>2, <1>3, <1>7 DEF Ignored, ListTyped, BrowserTyped
<1>. QED BY <1>4, <1>5, <1>6, <1>7 DEF Deliver

LEMMA FreshTyped ==
  /\ StartDashboard => ListTyped' /\ BrowserTyped' /\ JobsTyped'
  /\ StopDashboard => ListTyped' /\ BrowserTyped' /\ JobsTyped'
<1>1. <<>> \in Data
  BY DEF Data
<1>2. Command("refresh", None) \in Job
  BY <1>1 DEF Command, Job
<1>3. StartDashboard => ListTyped' /\ BrowserTyped' /\ JobsTyped'
  BY <1>2 DEF StartDashboard, NoBrowser, ListTyped, BrowserTyped, JobsTyped
<1>4. StopDashboard => ListTyped' /\ BrowserTyped' /\ JobsTyped'
  BY DEF StopDashboard, NoBrowser, ListTyped, BrowserTyped, JobsTyped
<1>. QED BY <1>3, <1>4

LEMMA KeysTyped ==
  ASSUME WorldTyped, ListTyped, BrowserTyped, JobsTyped, Tick \/ Keys
  PROVE  WorldTyped' /\ ListTyped' /\ BrowserTyped' /\ JobsTyped'
<1> USE DEF world, things, list, browser, KeepRest, KeepWorldAndList, OnList
<1>1. CASE Tick
  BY <1>1, RefreshTyped DEF Tick, WorldTyped, ListTyped, BrowserTyped, JobsTyped
<1>2. CASE RowDown \/ RowUp
  BY <1>2 DEF RowDown, RowUp, WorldTyped, ListTyped, BrowserTyped, JobsTyped
<1>3. CASE StopKey
  <2>1. boxes' \in [Sessions -> {"none", "stopped", "running"}]
    BY <1>3 DEF StopKey, Stopped, WorldTyped
  <2>. QED BY <1>3, <2>1, RefreshTyped DEF StopKey, WorldTyped, ListTyped, BrowserTyped
<1>4. CASE RemoveKey
  <2>1. RowAt(rows, row) \in RowType
    BY <1>4, ClampedRow DEF RemoveKey, ListTyped
  <2>2. RowAt(rows, row).name \in Sessions
    BY <2>1 DEF RowType
  <2>. QED BY <1>4, <2>2 DEF RemoveKey, WorldTyped, ListTyped, BrowserTyped, JobsTyped
<1>5. CASE RemoveYes
  <2>1. records' \in Seq(Record)
    BY <1>5, OthersStayNamed DEF RemoveYes, WorldTyped
  <2>2. boxes' \in [Sessions -> {"none", "stopped", "running"}] /\ gitBranches' \subseteq Sessions
    BY <1>5 DEF RemoveYes, Stopped, WorldTyped
  <2>3. row' \in Nat
    BY <1>5 DEF RemoveYes, ListTyped
  <2>. QED BY <1>5, <2>1, <2>2, <2>3, RefreshTyped DEF RemoveYes, WorldTyped, ListTyped, BrowserTyped
<1>6. CASE RemoveNo \/ NewKey \/ PickEsc
  BY <1>6 DEF RemoveNo, NewKey, PickEsc, WorldTyped, ListTyped, BrowserTyped, JobsTyped
<1>7. CASE ConvosKey
  BY <1>7, StartTyped DEF ConvosKey, NoBrowser, WorldTyped, ListTyped, BrowserTyped
<1>8. CASE BrowserRow
  BY <1>8, SMTT(30) DEF BrowserRow, WorldTyped, ListTyped, BrowserTyped, JobsTyped
<1>9. CASE OpenRepo
  <2>1. RowAt(repos, repoRow) \in ToSet(Repos)
    BY <1>9, ClampedRow DEF OpenRepo, BrowserTyped
  <2>2. JobsTyped'
    BY <1>9, <2>1, StartTyped DEF OpenRepo
  <2>. QED BY <1>9, <2>2 DEF OpenRepo, WorldTyped, ListTyped, BrowserTyped
<1>10. CASE DeleteKey
  <2>1. RowAt(convos, convoRow) \in Conversations
    BY <1>10, ClampedRow DEF DeleteKey, BrowserTyped
  <2>. QED BY <1>10, <2>1 DEF DeleteKey, WorldTyped, ListTyped, BrowserTyped, JobsTyped
<1>11. CASE DeleteYes
  <2>1. files' \in Seq(Conversations)
    BY <1>11, OthersStaySaved DEF DeleteYes, WorldTyped
  <2>2. repoRow < Len(repos) => repos[repoRow + 1] \in ToSet(Repos)
    BY DEF BrowserTyped
  <2>3. JobsTyped'
    BY <1>11, <2>2, StartTyped DEF DeleteYes, JobsTyped
  <2>. QED BY <1>11, <2>1, <2>3 DEF DeleteYes, WorldTyped, ListTyped, BrowserTyped
<1>12. CASE DeleteNo
  BY <1>12 DEF DeleteNo, WorldTyped, ListTyped, BrowserTyped, JobsTyped
<1>13. CASE LeaveRepo
  BY <1>13, StartTyped DEF LeaveRepo, WorldTyped, ListTyped, BrowserTyped
<1>14. CASE LeaveBrowser
  BY <1>14, RefreshTyped DEF LeaveBrowser, NoBrowser, WorldTyped, ListTyped, BrowserTyped
<1>. QED BY <1>1, <1>2, <1>3, <1>4, <1>5, <1>6, <1>7, <1>8, <1>9, <1>10, <1>11, <1>12, <1>13, <1>14
         DEF Keys

LEMMA OutsideTyped == ASSUME WorldTyped, Outside PROVE WorldTyped'
<1>1. ASSUME NEW s \in Sessions, NEW b \in BOOLEAN,
             records' = Append(records, [name |-> s, branch |-> b])
      PROVE  records' \in Seq(Record)
  <2>1. [name |-> s, branch |-> b] \in Record
    BY DEF Record
  <2>. QED BY <1>1, <2>1 DEF WorldTyped
<1>2. ASSUME NEW s, records' = Without(records, s) PROVE records' \in Seq(Record)
  BY <1>2, OthersStayNamed DEF WorldTyped
<1>3. records' \in Seq(Record)
  BY <1>1, <1>2 DEF Outside, WorldTyped
<1>4. files' \in Seq(Conversations)
  <2>1. ASSUME NEW c \in Conversations PROVE <<c>> \o files \in Seq(Conversations)
    BY DEF WorldTyped
  <2>. QED BY <2>1 DEF Outside, WorldTyped
<1>5. boxes' \in [Sessions -> {"none", "stopped", "running"}] /\ gitBranches' \subseteq Sessions
  BY DEF Outside, WorldTyped
<1>. QED BY <1>3, <1>4, <1>5 DEF WorldTyped

LEMMA CreatedTyped ==
  ASSUME WorldTyped, NEW inGit, NEW res, res.Name \in Sessions, Created(inGit, res)
  PROVE  WorldTyped'
<1> DEFINE b == ResolveWorkspace(inGit, WorktreeMode(res), res) # Empty
<1>1. /\ records' = Append(records, [name |-> res.Name, branch |-> b])
      /\ boxes' = [boxes EXCEPT ![res.Name] = "running"]
      /\ gitBranches' \subseteq gitBranches \cup {res.Name} /\ files' = files
  BY DEF Created
<1>2. [name |-> res.Name, branch |-> b] \in Record
  BY DEF Record
<1> HIDE DEF b
<1>3. records' \in Seq(Record)
  BY <1>1, <1>2 DEF WorldTyped
<1>. QED BY <1>1, <1>3 DEF WorldTyped

LEMMA TypedInit == Init => Typed
<1> SUFFICES ASSUME Init PROVE Typed
  OBVIOUS
<1>1. <<>> \in Data
  BY DEF Data
<1>2. Command("refresh", None) \in Job
  BY <1>1 DEF Command, Job
<1>3. JobsTyped
  <2>1. <<>> \in Seq(Job) /\ <<Command("refresh", None)>> \in Seq(Job)
    BY <1>2
  <2>. QED BY <2>1, Zenon DEF Init, JobsTyped
<1>4. NameTyped
  BY DEF Init, WizardInit, NoResult, NameTyped, Trim
<1>5. WorldTyped
  <2>1. records \in Seq(Record) /\ files \in Seq(Conversations)
    BY TuiAssumption, EveryFileIsListed DEF Init
  <2>2. \A r \in ToSet(records) : r.name \in Sessions
    <3>1. \A i \in DOMAIN records : records[i] \in Record
      BY <2>1
    <3>2. ToSet(records) \subseteq Record
      BY <3>1, Zenon DEF ToSet
    <3>. QED BY <3>2 DEF Record
  <2>3. boxes \in [Sessions -> {"none", "stopped", "running"}]
    BY DEF Init
  <2>4. gitBranches \subseteq Sessions
    BY <2>2 DEF Init
  <2>. QED BY <2>1, <2>3, <2>4 DEF WorldTyped
<1>6. ListTyped /\ BrowserTyped /\ ProgramTyped
  BY DEF Init, ListTyped, BrowserTyped, ProgramTyped
<1>. QED BY <1>3, <1>4, <1>5, <1>6 DEF Typed

LEMMA TypedStep == Inv /\ Typed /\ [Next]_vars => Typed'
<1> SUFFICES ASSUME Inv, Typed, [Next]_vars PROVE Typed'
  OBVIOUS
<1> DEFINE DashTyped == ListTyped /\ BrowserTyped /\ JobsTyped
<1>1. NameTyped'
  <2>1. [WizardNext]_form
    BY DEF Next, vars, FormStep, Submit, DashboardActs, Quit, Restart, EnterKey, AttachEnds, PickEnter
  <2>. QED BY <2>1, FormKeepsName DEF Typed
<1>2. UNCHANGED world => WorldTyped'
  BY DEF world, things, WorldTyped, Typed
<1>3. UNCHANGED dash => DashTyped'
  BY DEF dash, list, browser, ListTyped, BrowserTyped, JobsTyped, Typed
<1>4. CASE FormStep \/ UNCHANGED vars
  BY <1>1, <1>2, <1>3, <1>4 DEF FormStep, vars, tui, ProgramTyped, Typed
<1>5. CASE Submit
  <2>1. WorldTyped'
    <3>1. ASSUME step = "done", Created(repo, result) PROVE WorldTyped'
      <4>1. result.Name # Empty
        BY <3>1 DEF Inv, KindSettled, PastKind, PastProfile, PastWorkspace
      <4>. QED BY <3>1, <4>1, CreatedTyped DEF Typed, NameTyped
    <3>. QED BY <1>2, <1>5, <3>1 DEF Submit
  <2>. QED BY <1>1, <1>3, <1>5, <2>1 DEF Submit, ProgramTyped, Typed
<1>6. CASE DashboardActs
  <2>1. CASE \E j \in DOMAIN jobs : Work(j)
    <3>1. PICK j \in DOMAIN jobs : Work(j)
      BY <2>1
    <3>2. JobsTyped'
      BY <3>1, WorkTyped DEF Typed
    <3>3. UNCHANGED <<things, list, browser>>
      BY <3>1 DEF Work, ListRecords, ReadStatuses, ScanRepos, ScanConvos, KeepView, world
    <3>4. WorldTyped' /\ ListTyped' /\ BrowserTyped'
      BY <3>3 DEF things, list, browser, WorldTyped, ListTyped, BrowserTyped, Typed
    <3>. QED BY <1>1, <1>6, <3>2, <3>4 DEF DashboardActs, tui, ProgramTyped, Typed
  <2>2. CASE \E j \in DOMAIN jobs : Deliver(j)
    <3>1. PICK j \in DOMAIN jobs : Deliver(j)
      BY <2>2
    <3>2. DashTyped'
      BY <3>1, DeliverTyped DEF Typed
    <3>3. UNCHANGED world
      BY <3>1 DEF Deliver, Refreshed, ReposLoaded, ConvosLoaded, Ignored, Arrived
    <3>. QED BY <1>1, <1>2, <1>6, <3>2, <3>3 DEF DashboardActs, tui, ProgramTyped, Typed
  <2>3. CASE Tick \/ Keys
    BY <1>1, <1>6, <2>3, KeysTyped DEF DashboardActs, tui, ProgramTyped, Typed
  <2>4. CASE Outside
    <3>1. WorldTyped' /\ UNCHANGED dash
      BY <2>4, OutsideTyped DEF Outside, Typed
    <3>. QED BY <1>1, <1>3, <1>6, <3>1 DEF DashboardActs, tui, ProgramTyped, Typed
  <2>. QED BY <1>6, <2>1, <2>2, <2>3, <2>4 DEF DashboardActs, DashboardStep
<1>7. CASE Quit \/ Restart
  BY <1>1, <1>2, <1>7, FreshTyped DEF Quit, Restart, ProgramTyped, Typed
<1>8. CASE EnterKey
  <2>1. RowAt(rows, row) \in RowType
    BY <1>8, ClampedRow DEF EnterKey, ListTyped, Typed
  <2>2. RowAt(rows, row).name \in Sessions
    BY <2>1 DEF RowType
  <2>3. StopDashboard /\ ProgramTyped'
    BY <1>8, <2>2 DEF EnterKey, Attach, Return, ProgramTyped
  <2>4. WorldTyped'
    BY <1>8 DEF EnterKey, WorldTyped, Typed
  <2>. QED BY <1>1, <2>3, <2>4, FreshTyped DEF Typed
<1>9. CASE AttachEnds
  <2>1. records' \in Seq(Record)
    BY <1>9, OthersStayNamed DEF AttachEnds, WorldTyped, Typed
  <2>2. WorldTyped'
    BY <1>9, <2>1 DEF AttachEnds, WorldTyped, Typed
  <2>3. StopDashboard /\ ProgramTyped'
    BY <1>9 DEF AttachEnds, Return, ProgramTyped
  <2>. QED BY <1>1, <2>2, <2>3, FreshTyped DEF Typed
<1>10. CASE PickEnter
  <2>1. ASSUME NEW inGit, NEW res \in WizardResults(inGit) PROVE res.Name \in Sessions
    <3>1. \A n, w, f, p, nw, bg : Answered(n, w, f, p, nw, bg).Name = n
      BY DEF Answered, NoResult
    <3>. QED BY <3>1 DEF WizardResults, Answers
  <2>2. WorldTyped'
    BY <1>2, <1>10, <2>1, CreatedTyped DEF PickEnter, Typed
  <2>3. StopDashboard /\ ProgramTyped'
    BY <1>10, <2>1 DEF PickEnter, Attach, Return, ProgramTyped
  <2>. QED BY <1>1, <2>2, <2>3, FreshTyped DEF Typed
<1>. QED BY <1>4, <1>5, <1>6, <1>7, <1>8, <1>9, <1>10 DEF Next

LEMMA TypedAlways == Spec => []Typed
BY TypedInit, TypedStep, RunsTheForm, Invariant, PTL DEF Spec

(* internal/tui/dashboard.go, conversations.go, cmd/tui.go: every variable of the two
   programs keeps its type; in particular no cursor falls below its list's first row,
   whatever answers come late and however short the list has become. *)
THEOREM TuiTypeCorrect == Spec => []TypeOK
<1>1. Inv /\ Typed /\ TimerInv => TypeOK
  <2> SUFFICES ASSUME Inv, Typed, TimerInv PROVE TypeOK
    OBVIOUS
  <2>1. \A i \in DOMAIN records : records[i] \in Record
    BY DEF Typed, WorldTyped
  <2>2. ToSet(files) \subseteq Conversations
    BY DEF Typed, WorldTyped, ToSet
  <2>3. ToSet(repos) \subseteq ToSet(Repos) /\ ToSet(convos) \subseteq Conversations
    <3>1. \A i \in DOMAIN repos : repos[i] \in ToSet(Repos)
      BY DEF Typed, BrowserTyped
    <3>2. \A i \in DOMAIN convos : convos[i] \in Conversations
      BY DEF Typed, BrowserTyped
    <3>3. ToSet(repos) = {repos[i] : i \in DOMAIN repos}
          /\ ToSet(convos) = {convos[i] : i \in DOMAIN convos}
      BY DEF ToSet
    <3>. QED BY <3>1, <3>2, <3>3
  <2>4. DashboardTypeOK
    BY <2>1, <2>2, <2>3 DEF Typed, WorldTyped, ListTyped, BrowserTyped, TimerInv, DashboardTypeOK
  <2>. QED BY <2>4 DEF Inv, Typed, ProgramTyped, TypeOK
<1>. QED BY <1>1, TypedAlways, TimerIsKept, RunsTheForm, Invariant, PTL

-------------------------------------------------------------------------------
(* What a prompt destroys *)

(* internal/tui/dashboard.go, conversations.go: y destroys no other session than the
   one the prompt names, and one conversation at most, of the ID that d was pressed on,
   wherever refreshes have moved the highlighted row and whatever list has come since. *)
THEOREM PromptsMeanWhatTheySay == Spec => OnlyWhatWasAsked
<1> DEFINE Sessions_ == \A s \in Sessions \ {asked} :
             /\ s \in Named(records) => s \in Named(records')
             /\ boxes'[s] = boxes[s] /\ (s \in gitBranches => s \in gitBranches')
           Convos_ == /\ \A c \in ToSet(files) : c.id # askedConvo.id => c \in ToSet(files')
                      /\ Len(files') >= Len(files) - 1
<1>1. WorldTyped => (RemoveYes => Sessions_)
  <2> SUFFICES ASSUME WorldTyped, RemoveYes, NEW s \in Sessions, s # asked
               PROVE  /\ s \in Named(records) => s \in Named(records')
                      /\ boxes'[s] = boxes[s] /\ (s \in gitBranches => s \in gitBranches')
    OBVIOUS
  <2>1. s \in Named(records) => s \in Named(records')
    BY OthersStayNamed DEF RemoveYes, Doomed, WorldTyped
  <2>2. boxes'[s] = boxes[s]
    BY DEF RemoveYes, Doomed, Stopped, WorldTyped
  <2>3. s \in gitBranches => s \in gitBranches'
    BY DEF RemoveYes, Doomed
  <2>. QED BY <2>1, <2>2, <2>3
<1>2. WorldTyped => (DeleteYes => Convos_)
  <2> SUFFICES ASSUME WorldTyped, DeleteYes PROVE Convos_
    OBVIOUS
  <2>1. CASE files' = files
    BY <2>1 DEF WorldTyped
  <2>2. CASE \E c \in DoomedConvo : files' = RemoveFirst(files, c)
    <3>1. PICK c \in DoomedConvo : files' = RemoveFirst(files, c)
      BY <2>2
    <3>2. c.id = askedConvo.id
      BY DEF DoomedConvo
    <3>3. Len(files') >= Len(files) - 1 /\ ToSet(files) \ {c} \subseteq ToSet(files')
      BY <3>1, OthersStaySaved DEF WorldTyped
    <3>. QED BY <3>2, <3>3
  <2>. QED BY <2>1, <2>2 DEF DeleteYes
<1>3. Typed => [(RemoveYes => Sessions_) /\ (DeleteYes => Convos_)]_<<world, dash>>
  BY <1>1, <1>2 DEF Typed
<1>. QED BY <1>3, TypedAlways, PTL DEF OnlyWhatWasAsked
===============================================================================
