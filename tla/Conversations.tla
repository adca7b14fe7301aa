----------------------------- MODULE Conversations -----------------------------
(***************************************************************************)
(* Where conversations live (internal/config/config.go): Claude appends    *)
(* them to the config directory of its session, which is mounted into the  *)
(* container, keeps its name for ever and outlives the session; when a     *)
(* terminal ends they are copied to the directory of the repository, from  *)
(* which later sessions resume them through symbolic links.                *)
(*                                                                         *)
(* The links lead to paths of the host that do not exist in the container. *)
(* Preparing a directory is one step here; a save takes one step for each  *)
(* file that it checks and reads, and two to write it: WriteFile opens,    *)
(* which empties the file, and then writes.                                *)
(***************************************************************************)
EXTENDS Naturals

CONSTANTS
  Conv,     \* conversations: what Claude will ever start
  Session,  \* session names
  Proc,     \* terminals that may save conversations at the same time
  MaxVer,   \* bound: how often a conversation grows
  Link,     \* a session's file that is a link into the repository's directory
  Torn,     \* a repository's file that is open for writing, or was when its writer died
  Loop      \* a repository's file that is a link to itself

ASSUME ConstantsAssumption ==
  MaxVer \in Nat \ {0} /\ {Link, Torn, Loop} \cap Nat = {} /\ Torn # Loop

Version == 1..MaxVer
Absent == 0

VARIABLES
  dir,      \* each session's directory: projects is "none", a "dir" or a "link"
            \* to the repository's; the files of a "dir", by conversation
  repo,     \* the repository's projects directory, by conversation
  shelf,    \* whether that directory exists
  running,  \* the sessions whose container runs
  latest,   \* history: what Claude last wrote of each conversation
  given_up, \* history: conversations the user deleted, or resumed by id
  cut,      \* history: conversations whose copying was cut short
  proc      \* SaveNewConversations, as far as each terminal has come

vars == <<dir, repo, shelf, running, latest, given_up, cut, proc>>

NoFiles == [c \in Conv |-> Absent]
Idle == [pc |-> "idle"]

Init ==
  /\ dir = [s \in Session |-> [projects |-> "none", file |-> NoFiles]]
  /\ repo = NoFiles /\ shelf \in BOOLEAN
  /\ running = {} /\ latest = NoFiles
  /\ given_up = [deleted |-> {}, resumed |-> {}] /\ cut = {}
  /\ proc = [p \in Proc |-> Idle]

-------------------------------------------------------------------------------
(* PrepareSessionConfig, before docker run, which refuses a name that runs.  *)

Launch(s) == running' = running \cup {s} /\ UNCHANGED <<shelf, latest, cut>>

Filling(p, c) == proc[p].pc = "fill" /\ proc[p].conv = c
Onward(save) == [pc |-> "check", s |-> save.s, todo |-> save.todo, new |-> save.new]

\* Whoever has a file open that is removed writes it where nobody will look.
Remove(files) ==
  proc' = [p \in Proc |-> IF \E c \in files : Filling(p, c) THEN Onward(proc[p]) ELSE proc[p]]

\* A fresh session finds the directory as an earlier one of its name left it.
StartFresh(s) == Launch(s) /\ UNCHANGED <<dir, repo, given_up, proc>>

\* Mutant: whatever is there is removed, not just a link.
PickerReplaces(s) ==
  /\ Launch(s) /\ UNCHANGED <<repo, given_up, proc>>
  /\ dir' = IF shelf THEN [dir EXCEPT ![s] = [projects |-> "link", file |-> NoFiles]] ELSE dir

\* --resume: the whole directory is linked.  Remove takes away a link but not a
\* directory with files, and then the launch fails.
StartPicker(s) ==
  /\ Launch(s) /\ UNCHANGED <<repo, given_up, proc>>
  /\ IF shelf THEN /\ dir[s].projects # "dir"
                   /\ dir' = [dir EXCEPT ![s].projects = "link"]
     ELSE dir' = dir

\* os.Stat follows a link: a loop is not there.
Readable(c) == repo[c] \notin {Absent, Loop}

\* --resume <id>: whatever has the conversation's name is replaced by a link to
\* the repository's file.  Through a linked directory that is the file itself.
StartResume(s, c) ==
  /\ Launch(s)
  /\ given_up' = [given_up EXCEPT !.resumed = @ \cup {c}]
  /\ IF ~Readable(c) THEN UNCHANGED <<dir, repo, proc>>
     ELSE IF dir[s].projects = "link"
     THEN repo' = [repo EXCEPT ![c] = Loop] /\ Remove({c}) /\ UNCHANGED dir
     ELSE /\ dir' = [dir EXCEPT ![s].projects = "dir", ![s].file[c] = Link]
          /\ UNCHANGED <<repo, proc>>

-------------------------------------------------------------------------------
(* Claude in the container. *)

Write(s, c, version) ==
  /\ s \in running
  /\ dir' = [dir EXCEPT ![s].projects = "dir", ![s].file[c] = version]
  /\ latest' = [latest EXCEPT ![c] = version]
  /\ UNCHANGED <<repo, shelf, running, given_up, cut, proc>>

\* A dangling projects link cannot be written through.
Converse(s, c) ==
  /\ latest[c] = Absent /\ dir[s].projects # "link"
  /\ Write(s, c, 1)

Continue(s, c) == dir[s].file[c] \in 1..(MaxVer - 1) /\ Write(s, c, dir[s].file[c] + 1)

Exit(s) ==
  /\ s \in running /\ running' = running \ {s}
  /\ UNCHANGED <<dir, repo, shelf, latest, given_up, cut, proc>>

-------------------------------------------------------------------------------
(* SaveNewConversations, when a terminal ends; conversations rm; gc --auth. *)

\* A linked directory is the repository's own and has nothing to copy.
List(p, s) ==
  /\ proc[p] = Idle /\ dir[s].projects = "dir" /\ shelf' = TRUE
  /\ LET new == {c \in Conv : dir[s].file[c] \in Version}
         all == {c \in Conv : dir[s].file[c] # Absent}
     IN proc' = [proc EXCEPT ![p] = [pc |-> "check", s |-> s, todo |-> all, new |-> new]]
  /\ UNCHANGED <<dir, repo, running, latest, given_up, cut>>

\* Mutant: the test for the copy is the wrong way round.
CheckInverted(p, c) ==
  /\ proc[p].pc = "check" /\ c \in proc[p].todo
  /\ LET v == dir[proc[p].s].file[c]
         next == [proc[p] EXCEPT !.todo = @ \ {c}]
     IN proc' = [proc EXCEPT ![p] =
          IF v = Link \/ ~Readable(c) THEN next
          ELSE [pc |-> "write", s |-> next.s, todo |-> next.todo, new |-> next.new, conv |-> c, ver |-> v]]
  /\ UNCHANGED <<dir, repo, shelf, running, latest, given_up, cut>>

\* Links and files the repository has are passed over; any other file is read.
Check(p, c) ==
  /\ proc[p].pc = "check" /\ c \in proc[p].todo
  /\ LET v == dir[proc[p].s].file[c]
         next == [proc[p] EXCEPT !.todo = @ \ {c}]
     IN proc' = [proc EXCEPT ![p] =
          IF v = Link \/ Readable(c) THEN next
          ELSE [pc |-> "write", s |-> next.s, todo |-> next.todo, new |-> next.new, conv |-> c, ver |-> v]]
  /\ UNCHANGED <<dir, repo, shelf, running, latest, given_up, cut>>

\* A loop cannot be opened, nor anything in a directory that is gone.
Writable(c) == shelf /\ repo[c] # Loop

Open(p) ==
  /\ proc[p].pc = "write" /\ Writable(proc[p].conv)
  /\ repo' = [repo EXCEPT ![proc[p].conv] = Torn]
  /\ proc' = [proc EXCEPT ![p].pc = "fill"]
  /\ UNCHANGED <<dir, shelf, running, latest, given_up, cut>>

\* Conversations only grow, so the shorter of two that are written over each other
\* leaves the longer.
Fill(p) ==
  /\ proc[p].pc = "fill"
  /\ LET c == proc[p].conv
     IN repo' = IF repo[c] \in Version /\ repo[c] >= proc[p].ver THEN repo
                ELSE [repo EXCEPT ![c] = proc[p].ver]
  /\ proc' = [proc EXCEPT ![p] = Onward(@)]
  /\ UNCHANGED <<dir, shelf, running, latest, given_up, cut>>

\* The error ends the save, with a warning at most.
CopyFails(p) ==
  /\ proc[p].pc = "write" /\ ~Writable(proc[p].conv)
  /\ proc' = [proc EXCEPT ![p] = Idle]
  /\ UNCHANGED <<dir, repo, shelf, running, latest, given_up, cut>>

Saved(p) == proc[p].pc = "check" /\ proc[p].todo = {}

Return(p) ==
  /\ Saved(p) /\ proc' = [proc EXCEPT ![p] = Idle]
  /\ UNCHANGED <<dir, repo, shelf, running, latest, given_up, cut>>

\* The process is killed, or its disk is full: the file stays as it was opened.
Killed(p) ==
  /\ proc[p] # Idle /\ proc' = [proc EXCEPT ![p] = Idle]
  /\ cut' = IF proc[p].pc = "fill" THEN cut \cup {proc[p].conv} ELSE cut
  /\ UNCHANGED <<dir, repo, shelf, running, latest, given_up>>

Delete(c) ==
  /\ Readable(c) /\ repo' = [repo EXCEPT ![c] = Absent] /\ Remove({c})
  /\ given_up' = [given_up EXCEPT !.deleted = @ \cup {c}]
  /\ UNCHANGED <<dir, shelf, running, latest, cut>>

\* gc --auth, which "logs you out": the directories of all repositories go.
RemoveClaudeConfig ==
  /\ shelf /\ shelf' = FALSE /\ repo' = NoFiles /\ Remove(Conv)
  /\ given_up' = [given_up EXCEPT !.deleted = @ \cup {c \in Conv : repo[c] # Absent}]
  /\ UNCHANGED <<dir, running, latest, cut>>

-------------------------------------------------------------------------------

Next ==
  \/ \E s \in Session : StartFresh(s) \/ StartPicker(s) \/ Exit(s)
  \/ \E s \in Session, c \in Conv : StartResume(s, c) \/ Converse(s, c) \/ Continue(s, c)
  \/ \E p \in Proc, s \in Session : List(p, s)
  \/ \E p \in Proc, c \in Conv : Check(p, c)
  \/ \E p \in Proc : Open(p) \/ Fill(p) \/ CopyFails(p) \/ Return(p) \/ Killed(p)
  \/ \E c \in Conv : Delete(c)
  \/ RemoveClaudeConfig

Spec == Init /\ [][Next]_vars

-------------------------------------------------------------------------------
(* Properties. *)

\* The shape of the state: only a directory has files, and a container's
\* conversation is never a copy of a link.
TypeOK ==
  /\ \A s \in Session : /\ dir[s].projects \in {"none", "dir", "link"}
                        /\ dir[s].file \in [Conv -> {Absent, Link} \cup Version]
                        /\ dir[s].projects # "dir" => dir[s].file = NoFiles
  /\ repo \in [Conv -> {Absent, Torn, Loop} \cup Version] /\ shelf \in BOOLEAN
  /\ running \subseteq Session /\ latest \in [Conv -> {Absent} \cup Version]
  /\ cut \subseteq Conv
  /\ \A p \in Proc : proc[p] # Idle => proc[p].todo \subseteq Conv

Kept(c) ==
  latest[c] # Absent =>
    repo[c] = latest[c] \/ \E s \in Session : dir[s].file[c] = latest[c]

\* What Claude last wrote of a conversation is on disk, in the session's directory
\* or the repository's, whatever copies race, fail or are killed.
KeptUnlessResumed == TypeOK /\ \A c \in Conv \ given_up.resumed : Kept(c)

\* The repository has a whole copy, perhaps of an earlier version, or is being
\* given one by a save that has emptied the file.
Whole(c) == repo[c] \in Version \/ \E p \in Proc : Filling(p, c)

\* A save that comes to its end leaves a whole copy of every conversation its
\* session had started, though others save, grow and delete meanwhile; but not if
\* the user deleted it or resumed it by id, or if a writer of it was cut short,
\* because what that left is passed over (config.go:312).
SavedWhenDone ==
  \A p \in Proc : Saved(p) =>
    \A c \in proc[p].new \ (given_up.deleted \cup given_up.resumed \cup cut) : Whole(c)

\* "remove stale symlink" (config.go:273): resuming a conversation of which the
\* repository has a whole copy replaces a link, never the conversation's last words.
NothingLost ==
  [][\A s \in Session, c \in Conv :
       StartResume(s, c) /\ repo[c] \in Version /\ Kept(c) => Kept(c)']_vars

===============================================================================
