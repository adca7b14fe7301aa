----------------------------- MODULE SessionStore -----------------------------
(***************************************************************************)
(* sessions.json (internal/config/config.go), as the invocations of the    *)
(* command line share it: each loads the whole file, edits the list and    *)
(* rewrites it in place, under a mutex that only its own process takes.    *)
(*                                                                         *)
(* os.WriteFile empties the file and then writes from its start.  Of two   *)
(* writers that both emptied it the shorter list, written last, leaves the *)
(* tail of the longer one behind it, which no longer parses.               *)
(***************************************************************************)
EXTENDS Naturals, FiniteSets

CONSTANTS
  Name,     \* session names
  Proc,     \* command-line invocations at work at the same time
  MaxSaves  \* bound: records ever written, of all names together

ASSUME StoreAssumption == MaxSaves \in Nat

VARIABLES
  file,       \* sessions.json: its form, and the record of each name (0: none)
  job,       \* the update each invocation is making
  saves,     \* records written so far: each save brings one of its own
  want,       \* history: the record each name should have, update after update
  contested   \* history: names whose last update another one overlapped

storeVars == <<file, job, saves, want, contested>>

Record == 0..MaxSaves
NoJob == [pc |-> "idle"]
Begun == [pc : {"begun"}, name : Name, rec : Record]
Held == [pc : {"edited", "emptied"}, name : Name, all : [Name -> Record]]

\* What loadLocked can make a list of; neither an emptied file nor a torn one parses.
Readable == file.form \in {"absent", "good"}

\* Invocations that have read the file and not yet written it.
InFlight == {p \in Proc : job[p].pc \in {"edited", "emptied"}}

StoreInit ==
  /\ file = [form |-> "absent", record |-> [n \in Name |-> 0]]
  /\ job = [p \in Proc |-> NoJob] /\ saves = 0
  /\ want = [n \in Name |-> 0] /\ contested = {}

-------------------------------------------------------------------------------

\* Launch saves a record of its own making.
BeginSave(p, n) ==
  /\ job[p] = NoJob /\ saves < MaxSaves /\ saves' = saves + 1
  /\ job' = [job EXCEPT ![p] = [pc |-> "begun", name |-> n, rec |-> saves + 1]]
  /\ UNCHANGED <<file, want, contested>>

\* saveResumeID gets the record and saves it with a conversation's id; nobody holds
\* the file in between.
BeginResume(p, n) ==
  /\ Readable /\ file.record[n] # 0
  /\ BeginSave(p, n)

BeginDelete(p, n) ==
  /\ job[p] = NoJob
  /\ job' = [job EXCEPT ![p] = [pc |-> "begun", name |-> n, rec |-> 0]]
  /\ UNCHANGED <<file, saves, want, contested>>

\* A save replaces its record or appends it; a deletion filters it out.
Edited(p) ==
  [pc |-> "edited", name |-> job[p].name,
   all |-> [file.record EXCEPT ![job[p].name] = job[p].rec]]

\* Mutant: an unreadable file passes for no sessions, as it does in List.
LoadAnyway(p) ==
  /\ job[p].pc = "begun"
  /\ job' = [job EXCEPT ![p] =
       IF Readable THEN Edited(p)
       ELSE [Edited(p) EXCEPT !.all = [n \in Name |-> IF n = job[p].name THEN job[p].rec ELSE 0]]]
  /\ UNCHANGED <<file, saves, want, contested>>

\* loadLocked, and the edit; a deletion must find its record.
Load(p) ==
  /\ job[p].pc = "begun" /\ Readable
  /\ job[p].rec = 0 => file.record[job[p].name] # 0
  /\ job' = [job EXCEPT ![p] = Edited(p)]
  /\ UNCHANGED <<file, saves, want, contested>>

LoadFails(p) ==
  /\ job[p].pc = "begun"
  /\ ~Readable \/ (job[p].rec = 0 /\ file.record[job[p].name] = 0)
  /\ job' = [job EXCEPT ![p] = NoJob]
  /\ UNCHANGED <<file, saves, want, contested>>

\* writeLocked, first half.
Empty(p) ==
  /\ job[p].pc = "edited"
  /\ file' = [form |-> "empty", record |-> [n \in Name |-> 0]]
  /\ job' = [job EXCEPT ![p].pc = "emptied"]
  /\ UNCHANGED <<saves, want, contested>>

\* May a list written over what is there leave a tail?  Never over its own part,
\* always over one that it is a part of; else the lengths are anybody's guess.
PartOf(a, b) == \A n \in Name : a[n] # 0 => a[n] = b[n]
Outcome(list) ==
  CASE file.form = "empty"                                     -> {"good"}
    [] file.form = "good" /\ PartOf(file.record, list)         -> {"good"}
    [] file.form = "good" /\ PartOf(list, file.record)         -> {"torn"}
    [] OTHER                                                   -> {"good", "torn"}

\* writeLocked, second half.
Write(p) ==
  /\ job[p].pc = "emptied"
  /\ \E form \in Outcome(job[p].all) : file' = [form |-> form, record |-> job[p].all]
  /\ want' = [want EXCEPT ![job[p].name] = job[p].all[job[p].name]]
  /\ contested' = IF InFlight = {p} THEN contested \ {job[p].name}
                                    ELSE contested \cup {job[p].name}
  /\ job' = [job EXCEPT ![p] = NoJob]
  /\ UNCHANGED saves

\* Killed, or the write fails, wherever the update has come to.
JobKilled(p) ==
  /\ job[p] # NoJob /\ job' = [job EXCEPT ![p] = NoJob]
  /\ UNCHANGED <<file, saves, want, contested>>

StoreNext ==
  \/ \E p \in Proc, n \in Name : BeginSave(p, n) \/ BeginResume(p, n) \/ BeginDelete(p, n)
  \/ \E p \in Proc : Load(p) \/ LoadFails(p) \/ Empty(p) \/ Write(p) \/ JobKilled(p)

StoreSpec == StoreInit /\ [][StoreNext]_storeVars

-------------------------------------------------------------------------------
(* Properties. *)

\* The shape of the state.
StoreTypeOK ==
  /\ file.form \in {"absent", "empty", "good", "torn"} /\ file.record \in [Name -> Record]
  /\ job \in [Proc -> {NoJob} \cup Begun \cup Held]
  /\ saves \in Record /\ want \in [Name -> Record] /\ contested \subseteq Name

\* "thread-safe persistence of sessions" (config.go:67), as far as processes go: two
\* updates that overlap may lose one of the two, never a third, and no update that
\* finds the list unreadable starts a new one.  Whenever the file can be read, a
\* session whose own last update nobody overlapped has the record it was given.
BystandersKept ==
  file.form = "good" => \A n \in Name \ contested : file.record[n] = want[n]

===============================================================================
