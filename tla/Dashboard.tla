------------------------------ MODULE Dashboard ------------------------------
(***************************************************************************)
(* The terminal dashboard (internal/tui/dashboard.go) and the conversation *)
(* browser it opens (conversations.go).  Update handles one message at a   *)
(* time and returns commands; each command runs in a goroutine of its own, *)
(* reads what it needs when it gets there, and its answer is handled       *)
(* whenever it arrives, on whatever screen is open by then.                *)
(***************************************************************************)
EXTENDS Integers, Sequences, SequencesExt, FiniteSets

CONSTANTS
  Sessions,       \* names of sessions
  Repos,          \* the repositories in the index, in order of their names
  Conversations,  \* the conversations there can be: a repository and an ID
  MaxJobs,        \* bound: commands in flight
  MaxChanges      \* bound: changes of the world, whoever makes them

ASSUME DashboardAssumption ==
  /\ MaxJobs \in Nat \ {0} /\ MaxChanges \in Nat
  /\ Repos \in Seq(STRING) /\ IsFiniteSet(Conversations)
  /\ Conversations \subseteq [repo : ToSet(Repos), id : STRING]

VARIABLES
  records,     \* the session store: names and whether there is a worktree branch
  boxes,       \* the containers
  gitBranches, \* sessions whose worktree branch exists
  files,       \* the saved conversations, newest first
  changes,     \* changes of these four so far
  screen,      \* what the dashboard shows (showConversations, confirming, ...)
  rows,        \* the session list as last received
  row,         \* its highlighted row, from 0
  asked,       \* confirmName while there is a prompt: the session it names
  repos,       \* the browser's list of repositories, as last received
  repoRow,     \* its highlighted row
  convos,      \* its list of conversations, as last received
  convoRow,    \* its highlighted row
  askedConvo,  \* the conversation d was pressed on while there is a prompt; the
               \* program keeps its ID, confirmID, and its repository is history
  jobs,        \* the commands in flight
  ticks,       \* two-second timers that are running
  visited      \* history: has the browser been opened since the start?

things  == <<records, boxes, gitBranches, files>>
world   == <<things, changes>>
list    == <<rows, row, asked>>
browser == <<repos, repoRow, convos, convoRow, askedConvo>>
dash    == <<screen, list, browser, jobs, ticks, visited>>

Record == [name : Sessions, branch : BOOLEAN]
ListScreen == {"list", "removing", "picking"}
BrowserScreen == {"repos", "convos", "deleting"}
None == "none"
NoConvo == [repo |-> None, id |-> None]

Named(recs) == {recs[i].name : i \in DOMAIN recs}

\* The list without a session; no two of its records have one name.
Without(recs, s) == RemoveFirstMatch(recs, LAMBDA r : r.name = s)

\* Mutant: an empty list is not thought of.
ClampEmpty(r, l) == IF r >= Len(l) THEN Len(l) - 1 ELSE r

\* A cursor past the end of a list that got shorter falls back to its last row.
Clamp(r, l) == IF r >= Len(l) /\ l # <<>> THEN Len(l) - 1 ELSE r
RowAt(l, r) == l[Clamp(r, l) + 1]

Bounded ==
  /\ changes' = IF UNCHANGED things THEN changes ELSE changes + 1
  /\ changes' <= MaxChanges

\* A command joins those in flight.
Command(kind, of) == [st |-> "run", kind |-> kind, of |-> of, data |-> <<>>]
Start(kind, of) == Len(jobs) < MaxJobs /\ jobs' = Append(jobs, Command(kind, of))
Refresh == Start("refresh", None)

NoBrowser == repos' = <<>> /\ repoRow' = 0 /\ convos' = <<>> /\ convoRow' = 0 /\ askedConvo' = NoConvo

\* NewDashboard and Init: the first refresh and the timer.
StartDashboard ==
  /\ screen' = "list" /\ rows' = <<>> /\ row' = 0 /\ asked' = None /\ NoBrowser
  /\ jobs' = <<Command("refresh", None)>>
  /\ ticks' = 1 /\ visited' = FALSE

\* The program has ended: what is still in flight is never handled.
StopDashboard ==
  /\ screen' = "closed" /\ rows' = <<>> /\ row' = 0 /\ asked' = None /\ NoBrowser
  /\ jobs' = <<>> /\ ticks' = 0 /\ visited' = FALSE

-------------------------------------------------------------------------------
(* Commands *)

SetJob(j, st, data) == jobs' = [jobs EXCEPT ![j].st = st, ![j].data = data]
KeepView == UNCHANGED <<screen, list, browser, ticks, visited>>
Running(j, kind) == jobs[j].st = "run" /\ jobs[j].kind = kind

\* refreshSessions, first half: List, which is empty if the file cannot be
\* parsed, as happens while another process is writing it.
ListRecords(j) ==
  /\ Running(j, "refresh") /\ KeepView
  /\ \/ SetJob(j, "listed", records) /\ UNCHANGED world
     \/ /\ changes < MaxChanges /\ changes' = changes + 1
        /\ SetJob(j, "listed", <<>>) /\ UNCHANGED things

Row(r) == [name |-> r.name, branch |-> r.branch, status |-> boxes[r.name]]

\* refreshSessions, second half: IsRunning and Exists for each of them.
ReadStatuses(j) ==
  /\ jobs[j].st = "listed" /\ KeepView /\ UNCHANGED world
  /\ SetJob(j, "loaded", [i \in DOMAIN jobs[j].data |-> Row(jobs[j].data[i])])

Precedes(l, a, b) == \E i, k \in DOMAIN l : i < k /\ l[i] = a /\ l[k] = b

\* The lists as sort.Slice leaves them; the orders are strict, so there is one of each.
ConvosOf(repo) ==
  {q \in SetToSeqs({c \in ToSet(files) : c.repo = repo}) :
     \A i, k \in DOMAIN q : i < k => Precedes(files, q[i], q[k])}

\* The newest conversation first; repositories without one come last, by name.
Newer(a, b) ==
  \E i \in DOMAIN files : files[i].repo = a /\ \A k \in 1..i : files[k].repo # b
NewestFirst ==
  {q \in SetToSeqs(ToSet(Repos)) : \A i, k \in DOMAIN q : i < k =>
     Newer(q[i], q[k]) \/ (~Newer(q[k], q[i]) /\ Precedes(Repos, q[i], q[k]))}

ScanRepos(j) ==
  /\ Running(j, "repos") /\ KeepView /\ UNCHANGED world
  /\ \E found \in NewestFirst : SetJob(j, "loaded", found)

ScanConvos(j) ==
  /\ Running(j, "convos") /\ KeepView /\ UNCHANGED world
  /\ \E found \in ConvosOf(jobs[j].of) : SetJob(j, "loaded", found)

Work(j) == ListRecords(j) \/ ReadStatuses(j) \/ ScanRepos(j) \/ ScanConvos(j)

-------------------------------------------------------------------------------
(* Messages.  The browser gets all of them while it is open. *)

Arrived(j, kind) ==
  /\ jobs[j].st = "loaded" /\ jobs[j].kind = kind
  /\ jobs' = RemoveAt(jobs, j)
  /\ UNCHANGED <<world, screen, asked, askedConvo, ticks, visited>>

Refreshed(j) ==
  /\ screen \in ListScreen /\ Arrived(j, "refresh")
  /\ rows' = jobs[j].data /\ row' = Clamp(row, rows')
  /\ UNCHANGED <<repos, repoRow, convos, convoRow>>

ReposLoaded(j) ==
  /\ screen \in BrowserScreen /\ Arrived(j, "repos")
  /\ repos' = jobs[j].data /\ repoRow' = Clamp(repoRow, repos')
  /\ UNCHANGED <<rows, row, convos, convoRow>>

ConvosLoaded(j) ==
  /\ screen \in BrowserScreen /\ Arrived(j, "convos")
  /\ convos' = jobs[j].data /\ convoRow' = Clamp(convoRow, convos')
  /\ UNCHANGED <<rows, row, repos, repoRow>>

\* A message for the model that is not on the screen has no effect.
Ignored(j) ==
  /\ \/ screen \in ListScreen /\ (Arrived(j, "repos") \/ Arrived(j, "convos"))
     \/ screen \in BrowserScreen /\ Arrived(j, "refresh")
  /\ UNCHANGED <<rows, row, repos, repoRow, convos, convoRow>>

Deliver(j) == Refreshed(j) \/ ReposLoaded(j) \/ ConvosLoaded(j) \/ Ignored(j)

\* Mutant: handling a tick does not set the next one.
TickOnce ==
  /\ ticks > 0 /\ UNCHANGED <<world, screen, list, browser, visited>>
  /\ ticks' = ticks - 1
  /\ IF screen \in ListScreen THEN Refresh ELSE UNCHANGED jobs

\* The dashboard answers a tick with a refresh and the next tick; the browser
\* does not know it and drops it.
Tick ==
  /\ ticks > 0 /\ UNCHANGED <<world, screen, list, browser, visited>>
  /\ \/ screen \in ListScreen /\ Refresh /\ UNCHANGED ticks
     \/ screen \in BrowserScreen /\ ticks' = ticks - 1 /\ UNCHANGED jobs

-------------------------------------------------------------------------------
(* Keys of the session list *)

OnList == screen = "list"
KeepRest == UNCHANGED <<browser, ticks, visited>>

RowDown == OnList /\ row < Len(rows) - 1 /\ row' = row + 1
           /\ KeepRest /\ UNCHANGED <<world, screen, rows, asked, jobs>>
RowUp == OnList /\ row > 0 /\ row' = row - 1
         /\ KeepRest /\ UNCHANGED <<world, screen, rows, asked, jobs>>

Stopped(s) == [boxes EXCEPT ![s] = IF @ = "running" THEN "stopped" ELSE @]

\* d: docker stop, whose failure is ignored.
StopKey ==
  /\ OnList /\ Refresh /\ KeepRest
  /\ \/ rows # <<>> /\ boxes' = Stopped(RowAt(rows, row).name)
     \/ UNCHANGED boxes
  /\ UNCHANGED <<records, gitBranches, files, screen, list>> /\ Bounded

RemoveKey ==
  /\ OnList /\ rows # <<>> /\ screen' = "removing" /\ asked' = RowAt(rows, row).name
  /\ KeepRest /\ UNCHANGED <<world, rows, row, jobs>>

\* Mutant: the session removed is the highlighted one, not the one in the prompt.
DoomedHighlighted == IF rows = <<>> THEN asked ELSE RowAt(rows, row).name

\* The session that y removes.
Doomed == asked

\* y: docker stop and rm, the branch if the list still has the session, and
\* the record; what fails is ignored.
RemoveYes ==
  /\ screen = "removing" /\ screen' = "list" /\ Refresh /\ KeepRest
  /\ boxes' \in {boxes, Stopped(Doomed), [boxes EXCEPT ![Doomed] = "none"]}
  /\ gitBranches' \in {gitBranches, gitBranches \ {rows[i].name : i \in
                        {k \in DOMAIN rows : rows[k].name = Doomed /\ rows[k].branch}}}
  /\ records' \in {records, Without(records, Doomed)}
  /\ row' = IF row > 0 /\ row >= Len(rows) - 1 THEN row - 1 ELSE row
  /\ asked' = None /\ UNCHANGED <<files, rows>> /\ Bounded

RemoveNo == screen = "removing" /\ screen' = "list" /\ asked' = None
            /\ KeepRest /\ UNCHANGED <<world, rows, row, jobs>>

NewKey == OnList /\ screen' = "picking" /\ KeepRest /\ UNCHANGED <<world, list, jobs>>
PickEsc == screen = "picking" /\ screen' = "list" /\ KeepRest /\ UNCHANGED <<world, list, jobs>>

ConvosKey ==
  /\ OnList /\ screen' = "repos" /\ Start("repos", None) /\ visited' = TRUE
  /\ NoBrowser /\ UNCHANGED <<world, list, ticks>>

-------------------------------------------------------------------------------
(* Keys of the browser *)

KeepWorldAndList == UNCHANGED <<world, list, ticks, visited>>

BrowserRow ==
  /\ \/ /\ screen = "repos" /\ UNCHANGED convoRow
        /\ \/ repoRow < Len(repos) - 1 /\ repoRow' = repoRow + 1
           \/ repoRow > 0 /\ repoRow' = repoRow - 1
     \/ /\ screen = "convos" /\ UNCHANGED repoRow
        /\ \/ convoRow < Len(convos) - 1 /\ convoRow' = convoRow + 1
           \/ convoRow > 0 /\ convoRow' = convoRow - 1
  /\ KeepWorldAndList /\ UNCHANGED <<screen, repos, convos, askedConvo, jobs>>

OpenRepo ==
  /\ screen = "repos" /\ repos # <<>> /\ screen' = "convos" /\ convoRow' = 0
  /\ Start("convos", RowAt(repos, repoRow))
  /\ KeepWorldAndList /\ UNCHANGED <<repos, repoRow, convos, askedConvo>>

DeleteKey ==
  /\ screen = "convos" /\ convos # <<>>
  /\ screen' = "deleting" /\ askedConvo' = RowAt(convos, convoRow)
  /\ KeepWorldAndList /\ UNCHANGED <<repos, repoRow, convos, convoRow, jobs>>

\* The conversation that y deletes: the list's conversation of the ID asked about,
\* if it has one.  One ID may be in several repositories (conversations copy).
DoomedConvo == {c \in ToSet(convos) : c.id = askedConvo.id}

DeleteYes ==
  /\ screen = "deleting" /\ screen' = "convos"
  /\ files' \in {files} \cup {RemoveFirst(files, c) : c \in DoomedConvo}
  /\ IF repoRow < Len(repos) THEN Start("convos", repos[repoRow + 1]) ELSE UNCHANGED jobs
  /\ askedConvo' = NoConvo
  /\ UNCHANGED <<records, boxes, gitBranches, list, repos, repoRow, convos, convoRow, ticks, visited>>
  /\ Bounded

DeleteNo ==
  /\ screen = "deleting" /\ screen' = "convos" /\ askedConvo' = NoConvo
  /\ KeepWorldAndList /\ UNCHANGED <<repos, repoRow, convos, convoRow, jobs>>

LeaveRepo ==
  /\ screen = "convos" /\ screen' = "repos" /\ convos' = <<>> /\ convoRow' = 0
  /\ Start("repos", None)
  /\ KeepWorldAndList /\ UNCHANGED <<repos, repoRow, askedConvo>>

\* Mutant: a timer is set on the way back.
LeaveBrowserTicking ==
  /\ screen \in BrowserScreen /\ screen' = "list" /\ Refresh /\ NoBrowser
  /\ ticks' = ticks + 1 /\ UNCHANGED <<world, list, visited>>

\* esc among the repositories, q or ctrl+c anywhere: back to the session list,
\* with a refresh but no new timer.
LeaveBrowser ==
  /\ screen \in BrowserScreen /\ screen' = "list" /\ Refresh /\ NoBrowser
  /\ KeepWorldAndList

Keys ==
  \/ RowDown \/ RowUp \/ StopKey \/ RemoveKey \/ RemoveYes \/ RemoveNo
  \/ NewKey \/ PickEsc \/ ConvosKey
  \/ BrowserRow \/ OpenRepo \/ DeleteKey \/ DeleteYes \/ DeleteNo \/ LeaveRepo \/ LeaveBrowser

-------------------------------------------------------------------------------
(* Other programs *)

Outside ==
  /\ UNCHANGED dash
  /\ \/ \E s \in Sessions \ Named(records), b \in BOOLEAN :
          /\ records' = Append(records, [name |-> s, branch |-> b])
          /\ boxes' = [boxes EXCEPT ![s] = "running"]
          /\ gitBranches' = IF b THEN gitBranches \cup {s} ELSE gitBranches
          /\ UNCHANGED files
     \/ \E s \in Named(records) :
          /\ records' = Without(records, s)
          /\ boxes' = [boxes EXCEPT ![s] = "none"]
          /\ gitBranches' = gitBranches \ {s} /\ UNCHANGED files
     \/ \E s \in Sessions, b \in {"stopped", "none"} :
          /\ boxes[s] = "running" /\ boxes' = [boxes EXCEPT ![s] = b]
          /\ UNCHANGED <<records, gitBranches, files>>
     \/ \E c \in Conversations \ ToSet(files) :
          /\ files' = <<c>> \o files /\ UNCHANGED <<records, boxes, gitBranches>>
  /\ Bounded

DashboardStep == (\E j \in DOMAIN jobs : Work(j) \/ Deliver(j)) \/ Tick \/ Keys

-------------------------------------------------------------------------------
(* Properties *)

DashboardTypeOK ==
  /\ \A i \in DOMAIN records : records[i] \in Record
  /\ boxes \in [Sessions -> {"none", "stopped", "running"}] /\ gitBranches \subseteq Sessions
  /\ ToSet(files) \subseteq Conversations
  /\ screen \in ListScreen \cup BrowserScreen \cup {"closed"}
  /\ row \in Nat /\ asked \in Sessions \cup {None}
  /\ ToSet(repos) \subseteq ToSet(Repos) /\ ToSet(convos) \subseteq Conversations
  /\ askedConvo \in Conversations \cup {NoConvo}
  /\ ticks \in Nat /\ visited \in BOOLEAN

(* What y destroys is what the prompt was about when it was put: the session
   it names and no other, or one conversation of the ID d was pressed on.
   Refreshes, late or stale, may since have moved the highlighted row, or have
   put the conversations of another repository under the prompt. *)
OnlyWhatWasAsked ==
  [][/\ RemoveYes => \A s \in Sessions \ {asked} :
          /\ s \in Named(records) => s \in Named(records')
          /\ boxes'[s] = boxes[s] /\ (s \in gitBranches => s \in gitBranches')
     /\ DeleteYes => /\ \A c \in ToSet(files) : c.id # askedConvo.id => c \in ToSet(files')
                     /\ Len(files') >= Len(files) - 1]_<<world, dash>>

(* One timer at most, and none only after the browser swallowed its tick:
   going to the browser and back never doubles the polling. *)
OneTimer ==
  /\ ticks <= 1
  /\ (screen \in ListScreen /\ ~visited) => ticks = 1

Truth == [i \in DOMAIN records |-> Row(records[i])]

(* A dashboard left alone comes to show what is there, whatever order the
   refreshes in flight arrive in, provided the browser was never opened. *)
ListCatchesUp == <>[](OnList /\ ~visited) => <>[](rows = Truth)
===============================================================================
