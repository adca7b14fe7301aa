-------------------------- MODULE ConversationsProofs --------------------------
(***************************************************************************)
(* Theorems about Conversations, for any conversations, sessions and       *)
(* terminals and however long the conversations grow.                      *)
(***************************************************************************)
EXTENDS Conversations, TLAPS

Checking == [pc : {"check"}, s : Session, todo : SUBSET Conv, new : SUBSET Conv]
Writing ==
  [pc : {"write", "fill"}, s : Session, todo : SUBSET Conv, new : SUBSET Conv, conv : Conv, ver : Version]

\* TypeOK, and the whole of a save and of the history.
Shape ==
  /\ TypeOK
  /\ dir \in [Session -> [projects : {"none", "dir", "link"}, file : [Conv -> {Absent, Link} \cup Version]]]
  /\ proc \in [Proc -> {Idle} \cup Checking \cup Writing]
  /\ given_up \in [deleted : SUBSET Conv, resumed : SUBSET Conv]

\* A session's own copy of a conversation stays until it is resumed by id: this
\* is what is inductive about KeptUnlessResumed.
OwnCopy ==
  \A c \in Conv \ given_up.resumed :
    latest[c] # Absent => \E s \in Session : dir[s].file[c] = latest[c]

\* A link in a session's directory comes of a resumption by id.
LinksResumed ==
  \A s \in Session, c \in Conv : dir[s].file[c] = Link => c \in given_up.resumed

\* The conversations that a save makes no promise about.
Harmed == given_up.deleted \cup given_up.resumed \cup cut

\* A file of the repository that is not whole is being written, its writer was cut
\* short, or it is a link to itself, which again comes of a resumption.  A file
\* that is written is there.
Torns ==
  \A c \in Conv : /\ repo[c] = Torn => Whole(c) \/ c \in Harmed
                  /\ repo[c] = Loop => c \in given_up.resumed
                  /\ \A p \in Proc : Filling(p, c) => repo[c] # Absent

\* What a save has still to do, and what it has seen to.
ToCome(p) == proc[p].todo \cup IF proc[p].pc \in {"write", "fill"} THEN {proc[p].conv} ELSE {}
Progress ==
  \A p \in Proc : proc[p] # Idle =>
    /\ \A c \in proc[p].todo : dir[proc[p].s].file[c] # Absent
    /\ \A c \in proc[p].new \ Harmed : c \in ToCome(p) \/ Whole(c)

Inv == Shape /\ OwnCopy /\ LinksResumed /\ Torns /\ Progress

LEMMA Distinct ==
  /\ Link # Absent /\ Torn # Absent /\ Loop # Absent
  /\ Link \notin Version /\ Absent \notin Version /\ Version \subseteq Nat
  /\ Torn \notin Version /\ Loop \notin Version /\ Torn # Loop
BY ConstantsAssumption DEF Absent, Version

\* What Claude writes is a version.
LEMMA WritesVersion ==
  ASSUME NEW s \in Session, NEW c \in Conv, Converse(s, c) \/ Continue(s, c)
  PROVE  \E v \in Version : Write(s, c, v)
<1>1. 1 \in Version /\ \A v \in 1..(MaxVer - 1) : v + 1 \in Version
  BY ConstantsAssumption DEF Version
<1> QED
  BY <1>1 DEF Converse, Continue

LEMMA InitInv == Init => Inv
<1> SUFFICES ASSUME Init PROVE Inv
  OBVIOUS
<1> USE DEF Init, NoFiles
<1>1. Shape
  BY DEF Shape, TypeOK
<1>2. OwnCopy /\ LinksResumed /\ Torns /\ Progress
  BY Distinct DEF OwnCopy, LinksResumed, Torns, Progress, Filling, Idle
<1> QED
  BY <1>1, <1>2 DEF Inv

\* A save under way, by what it is about to do.
LEMMA InSave ==
  ASSUME Shape, NEW p \in Proc
  PROVE  /\ proc[p] = Idle \/ proc[p] \in Checking \/ proc[p] \in Writing
         /\ proc[p].pc = "check" => proc[p] \in Checking
         /\ proc[p].pc \in {"write", "fill"} => proc[p] \in Writing
         /\ Onward(proc[p]) \in Checking \/ proc[p] = Idle
         /\ proc[p] # Idle => /\ proc[p].todo \subseteq Conv /\ proc[p].new \subseteq Conv
                              /\ proc[p].s \in Session
BY DEF Shape, Idle, Checking, Writing, Onward

\* A removal takes the file away from those who write it, and leaves all else.
LEMMA Removed ==
  ASSUME Shape, NEW files, Remove(files)
  PROVE  /\ proc' \in [Proc -> {Idle} \cup Checking \cup Writing]
         /\ \A p \in Proc : proc'[p] # Idle => proc'[p].todo \subseteq Conv
         /\ \A p \in Proc : \/ proc'[p] = proc[p] /\ \A c \in files : ~Filling(p, c)
                            \/ proc'[p] = Onward(proc[p]) /\ \E c \in files : Filling(p, c)
<1>1. ASSUME NEW p \in Proc
      PROVE  /\ proc'[p] \in {Idle} \cup Checking \cup Writing
             /\ proc'[p] # Idle => proc'[p].todo \subseteq Conv
             /\ \/ proc'[p] = proc[p] /\ \A c \in files : ~Filling(p, c)
                \/ proc'[p] = Onward(proc[p]) /\ \E c \in files : Filling(p, c)
  <2>1. CASE \E c \in files : Filling(p, c)
    <3>1. proc'[p] = Onward(proc[p]) /\ proc[p] # Idle
      BY <2>1 DEF Remove, Filling, Idle
    <3>2. Onward(proc[p]) \in Checking
      BY <3>1, InSave
    <3> QED
      BY <2>1, <3>1, <3>2 DEF Checking
  <2>2. CASE \A c \in files : ~Filling(p, c)
    <3>1. proc'[p] = proc[p]
      BY <2>2 DEF Remove
    <3> QED
      BY <2>2, <3>1, InSave DEF Shape
  <2> QED
    BY <2>1, <2>2
<1>2. proc' = [p \in Proc |-> proc'[p]]
  BY DEF Remove
<1> QED
  BY <1>1, <1>2

-------------------------------------------------------------------------------
(* The shape *)

\* Every step keeps every variable in its type.
\* A directory whose fields are replaced is a directory.
LEMMA FieldsUpdated ==
  ASSUME NEW Kinds, NEW Files, NEW d \in [projects : Kinds, file : Files],
         NEW k \in Kinds, NEW f \in Files
  PROVE  [d EXCEPT !.projects = k, !.file = f] \in [projects : Kinds, file : Files]
OBVIOUS

LEMMA NextShape == ASSUME Inv, Next PROVE Shape'
<1> USE Distinct DEF Inv, Shape, TypeOK
<1>1. ASSUME NEW s \in Session, StartFresh(s) PROVE Shape'
  BY <1>1 DEF StartFresh, Launch
<1>2. ASSUME NEW s \in Session, StartPicker(s) PROVE Shape'
  <2>1. dir' = dir \/ (dir[s].projects # "dir" /\ dir' = [dir EXCEPT ![s].projects = "link"])
    BY <1>2 DEF StartPicker
  <2>2. UNCHANGED <<repo, given_up, proc, shelf, latest, cut>> /\ running' = running \cup {s}
    BY <1>2 DEF StartPicker, Launch
  <2>3. dir' \in [Session -> [projects : {"none", "dir", "link"}, file : [Conv -> {Absent, Link} \cup Version]]]
        /\ \A t \in Session : dir'[t].projects # "dir" => dir'[t].file = NoFiles
    <3>1. CASE dir' = dir
      BY <3>1
    <3>2. CASE dir[s].projects # "dir" /\ dir' = [dir EXCEPT ![s].projects = "link"]
      <4>1. dir[s].file = NoFiles
        BY <3>2
      <4>2. dir'[s].projects = "link" /\ dir'[s].file = NoFiles
            /\ \A t \in Session \ {s} : dir'[t] = dir[t]
        BY <3>2, <4>1
      <4>3. dir' \in [Session -> [projects : {"none", "dir", "link"}, file : [Conv -> {Absent, Link} \cup Version]]]
        BY <3>2
      <4> QED
        BY <4>2, <4>3
    <3> QED
      BY <2>1, <3>1, <3>2
  <2> QED
    BY <2>2, <2>3
<1>3. ASSUME NEW s \in Session, Exit(s) PROVE Shape'
  BY <1>3 DEF Exit
<1>4. ASSUME NEW s \in Session, NEW c \in Conv, StartResume(s, c) PROVE Shape'
  <2>1. given_up' = [given_up EXCEPT !.resumed = @ \cup {c}] /\ UNCHANGED <<shelf, latest, cut>>
        /\ running' = running \cup {s}
    BY <1>4 DEF StartResume, Launch
  <2>6. UNCHANGED proc \/ Remove({c})
    BY <1>4 DEF StartResume
  <2>2. dir' = dir \/ (dir' = [dir EXCEPT ![s].projects = "dir", ![s].file[c] = Link])
    BY <1>4 DEF StartResume
  <2>3. repo' = repo \/ repo' = [repo EXCEPT ![c] = Loop]
    BY <1>4 DEF StartResume
  <2>4. dir' \in [Session -> [projects : {"none", "dir", "link"}, file : [Conv -> {Absent, Link} \cup Version]]]
    BY <2>2
  <2>5. \A t \in Session : dir'[t].projects # "dir" => dir'[t].file = NoFiles
    BY <2>2
  <2>7. /\ proc' \in [Proc -> {Idle} \cup Checking \cup Writing]
        /\ \A p \in Proc : proc'[p] # Idle => proc'[p].todo \subseteq Conv
    BY <2>6, Removed
  <2> QED
    BY <2>1, <2>3, <2>4, <2>5, <2>7
<1>5. ASSUME NEW s \in Session, NEW c \in Conv, NEW v \in Version, Write(s, c, v) PROVE Shape'
  <2>1. dir' = [dir EXCEPT ![s].projects = "dir", ![s].file[c] = v]
    BY <1>5 DEF Write
  <2> DEFINE Dirs == [projects : {"none", "dir", "link"}, file : [Conv -> {Absent, Link} \cup Version]]
             files == [dir[s].file EXCEPT ![c] = v]
             d == [dir[s] EXCEPT !.projects = "dir", !.file = files]
  <2>2. dir' \in [Session -> Dirs]
    <3>1. files \in [Conv -> {Absent, Link} \cup Version]
      OBVIOUS
    <3>2. dir[s] \in Dirs
      OBVIOUS
    <3> HIDE DEF files
    <3>3. d \in Dirs
      BY <3>1, <3>2, FieldsUpdated
    <3>4. dir' = [dir EXCEPT ![s] = d]
      BY <2>1 DEF files
    <3> HIDE DEF d
    <3> QED
      BY <3>3, <3>4
  <2>3. \A t \in Session : dir'[t].projects # "dir" => dir'[t].file = NoFiles
    BY <2>1
  <2>4. latest' \in [Conv -> {Absent} \cup Version]
    BY <1>5 DEF Write
  <2>5. UNCHANGED <<repo, shelf, running, given_up, cut, proc>>
    BY <1>5 DEF Write
  <2> QED
    BY <2>2, <2>3, <2>4, <2>5
<1>6. ASSUME NEW p \in Proc, NEW s \in Session, List(p, s) PROVE Shape'
  <2>1. proc'[p] \in Checking
    BY <1>6 DEF List, Checking
  <2>2. proc' \in [Proc -> {Idle} \cup Checking \cup Writing]
    BY <1>6, <2>1 DEF List
  <2> QED
    BY <1>6, <2>2, InSave DEF List, Checking, Writing
<1>7. ASSUME NEW p \in Proc, NEW c \in Conv, Check(p, c) PROVE Shape'
  <2>1. proc[p] \in Checking /\ dir[proc[p].s].file[c] \in {Link} \cup Version
    BY <1>7, InSave DEF Check, Progress, Checking, Idle
  <2>2. proc'[p] \in Checking \cup Writing
    BY <1>7, <2>1 DEF Check, Checking, Writing
  <2>3. proc' \in [Proc -> {Idle} \cup Checking \cup Writing]
    BY <1>7, <2>2 DEF Check
  <2> QED
    BY <1>7, <2>3 DEF Check, Checking, Writing
<1>8. ASSUME NEW p \in Proc, Open(p) PROVE Shape'
  <2>1. proc[p] \in Writing
    BY <1>8, InSave DEF Open
  <2>2. proc'[p] \in Writing
    BY <1>8, <2>1 DEF Open, Writing
  <2>3. proc' \in [Proc -> {Idle} \cup Checking \cup Writing]
    BY <1>8, <2>2 DEF Open
  <2> QED
    BY <1>8, <2>1, <2>3 DEF Open, Checking, Writing
<1>9. ASSUME NEW p \in Proc, Fill(p) PROVE Shape'
  <2>1. proc[p] \in Writing
    BY <1>9, InSave DEF Fill
  <2>2. proc' \in [Proc -> {Idle} \cup Checking \cup Writing]
    BY <1>9, <2>1, InSave DEF Fill, Idle, Writing
  <2>3. \A c \in Conv : repo' = [repo EXCEPT ![c] = proc[p].ver] =>
          repo' \in [Conv -> {Absent, Torn, Loop} \cup Version]
    BY <2>1 DEF Writing
  <2>4. repo' = repo \/ \E c \in Conv : repo' = [repo EXCEPT ![c] = proc[p].ver]
    BY <1>9, <2>1 DEF Fill, Writing
  <2>5. repo' \in [Conv -> {Absent, Torn, Loop} \cup Version]
    BY <2>3, <2>4
  <2>6. UNCHANGED <<dir, shelf, running, latest, given_up, cut>>
    BY <1>9 DEF Fill
  <2>7. \A q \in Proc : proc'[q] # Idle => proc'[q].todo \subseteq Conv
    BY <2>2 DEF Checking, Writing
  <2> QED
    BY <2>2, <2>5, <2>6, <2>7
<1>10. ASSUME NEW p \in Proc, CopyFails(p) \/ Return(p) \/ Killed(p) PROVE Shape'
  <2>1. proc' = [proc EXCEPT ![p] = Idle]
    BY <1>10 DEF CopyFails, Return, Killed
  <2>2. cut' \subseteq Conv
    BY <1>10, InSave DEF CopyFails, Return, Killed, Writing
  <2> QED
    BY <1>10, <2>1, <2>2 DEF CopyFails, Return, Killed
<1>11. ASSUME NEW c \in Conv, Delete(c) PROVE Shape'
  BY <1>11, Removed DEF Delete
<1>12. CASE RemoveClaudeConfig
  BY <1>12, Removed DEF RemoveClaudeConfig, NoFiles
<1> QED
  BY <1>1, <1>2, <1>3, <1>4, <1>5, <1>6, <1>7, <1>8, <1>9, <1>10, <1>11, <1>12, WritesVersion
     DEF Next

-------------------------------------------------------------------------------
(* What the sessions keep *)

\* Only Claude and a resumption write in a session's directory, and what Claude
\* writes is the latest.
LEMMA NextOwnCopy == ASSUME Inv, Next PROVE OwnCopy'
<1> USE Distinct DEF Inv, Shape, OwnCopy
<1>1. ASSUME NEW s \in Session, StartPicker(s) PROVE OwnCopy'
  <2>1. \A t \in Session : dir'[t].file = dir[t].file
    <3>1. dir' = dir \/ dir' = [dir EXCEPT ![s].projects = "link"]
      BY <1>1 DEF StartPicker
    <3> QED
      BY <3>1
  <2> QED
    BY <1>1, <2>1 DEF StartPicker, Launch
<1>2. ASSUME NEW s \in Session, NEW c \in Conv, StartResume(s, c) PROVE OwnCopy'
  <2>1. \A t \in Session, d \in Conv \ {c} : dir'[t].file[d] = dir[t].file[d]
    BY <1>2 DEF StartResume, Launch
  <2>2. given_up'.resumed = given_up.resumed \cup {c} /\ latest' = latest
    BY <1>2 DEF StartResume, Launch
  <2> QED
    BY <2>1, <2>2
<1>3. ASSUME NEW s \in Session, NEW c \in Conv, NEW v \in Version, Write(s, c, v) PROVE OwnCopy'
  <2>1. dir'[s].file[c] = v /\ latest' = [latest EXCEPT ![c] = v] /\ given_up' = given_up
    BY <1>3 DEF Write
  <2>2. \A t \in Session, d \in Conv \ {c} : dir'[t].file[d] = dir[t].file[d]
    BY <1>3 DEF Write
  <2> QED
    BY <2>1, <2>2 DEF TypeOK
<1>4. CASE UNCHANGED <<dir, latest>> /\ given_up'.resumed = given_up.resumed
  BY <1>4
<1>5. ASSUME NEW s \in Session, StartFresh(s) \/ Exit(s) PROVE OwnCopy'
  BY <1>4, <1>5 DEF StartFresh, Launch, Exit
<1>6. ASSUME NEW p \in Proc, CopyFails(p) \/ Return(p) \/ Killed(p) \/ Open(p) \/ Fill(p)
      PROVE  OwnCopy'
  BY <1>4, <1>6 DEF CopyFails, Return, Killed, Open, Fill
<1>7. ASSUME NEW p \in Proc, (\E s \in Session : List(p, s)) \/ (\E c \in Conv : Check(p, c))
      PROVE  OwnCopy'
  BY <1>4, <1>7 DEF List, Check
<1>8. ASSUME NEW c \in Conv, Delete(c) PROVE OwnCopy'
  BY <1>4, <1>8 DEF Delete
<1>9. CASE RemoveClaudeConfig
  BY <1>4, <1>9 DEF RemoveClaudeConfig
<1> QED
  BY <1>1, <1>2, <1>3, <1>5, <1>6, <1>7, <1>8, <1>9, WritesVersion DEF Next

-------------------------------------------------------------------------------
(* What a save leaves *)

\* What is deleted, resumed or cut short once is counted so for ever.
LEMMA HarmedForGood ==
  ASSUME Inv, Next PROVE Harmed \subseteq Harmed' /\ given_up.resumed \subseteq given_up'.resumed
<1> USE DEF Inv, Shape, Harmed
<1>1. ASSUME NEW s \in Session, NEW c \in Conv, StartResume(s, c)
      PROVE  /\ given_up'.deleted = given_up.deleted /\ cut' = cut
             /\ given_up'.resumed = given_up.resumed \cup {c}
  BY <1>1 DEF StartResume, Launch
<1>2. ASSUME NEW c \in Conv, Delete(c)
      PROVE  /\ given_up.deleted \subseteq given_up'.deleted /\ cut' = cut
             /\ given_up'.resumed = given_up.resumed
  BY <1>2 DEF Delete
<1>3. CASE RemoveClaudeConfig
  <2>1. given_up.deleted \subseteq given_up'.deleted /\ cut' = cut /\ given_up'.resumed = given_up.resumed
    BY <1>3 DEF RemoveClaudeConfig
  <2> QED
    BY <2>1
<1>4. ASSUME NEW p \in Proc, Killed(p) PROVE cut \subseteq cut' /\ given_up' = given_up
  BY <1>4 DEF Killed
<1>5. CASE UNCHANGED <<given_up, cut>>
  BY <1>5
<1> QED
  BY <1>1, <1>2, <1>3, <1>4, <1>5, WritesVersion
     DEF Next, StartFresh, StartPicker, Launch, Exit, Write, List, Check, Open, Fill, CopyFails, Return

\* A file in a session's directory keeps its name for ever, and becomes a link only
\* by a resumption.
LEMMA FilesStay ==
  ASSUME Inv, Next, NEW s \in Session, NEW c \in Conv
  PROVE  /\ dir[s].file[c] # Absent => dir'[s].file[c] # Absent
         /\ dir'[s].file[c] = Link =>
              dir[s].file[c] = Link \/ c \in given_up'.resumed
<1> USE Distinct DEF Inv, Shape, TypeOK
<1>1. ASSUME NEW t \in Session, StartPicker(t) PROVE dir'[s].file = dir[s].file
  BY <1>1 DEF StartPicker, Launch
<1>2. ASSUME NEW t \in Session, NEW d \in Conv, StartResume(t, d)
      PROVE  \/ dir'[s].file[c] = dir[s].file[c]
             \/ dir'[s].file[c] = Link /\ c \in given_up'.resumed
  BY <1>2 DEF StartResume, Launch
<1>3. ASSUME NEW t \in Session, NEW d \in Conv, NEW v \in Version, Write(t, d, v)
      PROVE  dir'[s].file[c] \in {dir[s].file[c], v}
  BY <1>3 DEF Write
<1> DEFINE Stays ==
      /\ dir[s].file[c] # Absent => dir'[s].file[c] # Absent
      /\ dir'[s].file[c] = Link => dir[s].file[c] = Link \/ c \in given_up'.resumed
<1>4. ASSUME NEW t \in Session, StartFresh(t) \/ StartPicker(t) \/ Exit(t) PROVE Stays
  BY <1>1, <1>4 DEF StartFresh, Exit
<1>5. ASSUME NEW t \in Session, NEW d \in Conv, StartResume(t, d) PROVE Stays
  BY <1>2, <1>5
<1>6. ASSUME NEW t \in Session, NEW d \in Conv, Converse(t, d) \/ Continue(t, d) PROVE Stays
  BY <1>3, <1>6, WritesVersion
<1>7. CASE UNCHANGED dir
  BY <1>7
<1> QED
  BY <1>4, <1>5, <1>6, <1>7
     DEF Next, List, Check, Open, Fill, CopyFails, Return, Killed, Delete, RemoveClaudeConfig

\* A copy stays whole, or is being written, unless it comes to harm.
LEMMA WholeStays ==
  ASSUME Inv, Next, NEW c \in Conv, Whole(c)
  PROVE  Whole(c)' \/ c \in Harmed'
<1> USE DEF Inv, Shape, TypeOK
<1>0. \A q \in Proc : proc'[q] = proc[q] /\ Filling(q, c) => Whole(c)'
  BY DEF Whole, Filling
<1>1. CASE UNCHANGED <<repo, proc>>
  BY <1>0, <1>1 DEF Whole, Filling
<1>2. ASSUME NEW files, Remove(files), c \notin files, repo'[c] = repo[c] PROVE Whole(c)'
  <2>1. \A q \in Proc : Filling(q, c) => proc'[q] = proc[q]
    BY <1>2, Removed DEF Filling
  <2> QED
    BY <1>0, <1>2, <2>1 DEF Whole
<1>3. ASSUME NEW s \in Session, NEW d \in Conv, StartResume(s, d)
      PROVE  Whole(c)' \/ c \in Harmed'
  <2>1. d \in Harmed'
    BY <1>3 DEF StartResume, Harmed
  <2>2. UNCHANGED <<repo, proc>> \/ (Remove({d}) /\ repo' = [repo EXCEPT ![d] = Loop])
    BY <1>3 DEF StartResume
  <2> QED
    BY <1>1, <1>2, <2>1, <2>2
<1>4. ASSUME NEW p \in Proc, proc[p].pc # "fill", \A q \in Proc \ {p} : proc'[q] = proc[q], repo' = repo
      PROVE  Whole(c)'
  BY <1>0, <1>4 DEF Whole, Filling
<1>5. ASSUME NEW p \in Proc, (\E s \in Session : List(p, s)) \/ (\E d \in Conv : Check(p, d))
      PROVE  Whole(c)'
  BY <1>4, <1>5 DEF List, Check, Idle
<1>6. ASSUME NEW p \in Proc, CopyFails(p) \/ Return(p) PROVE Whole(c)'
  BY <1>4, <1>6 DEF CopyFails, Return, Saved
<1>7. ASSUME NEW p \in Proc, Open(p) PROVE Whole(c)'
  <2>1. proc[p] \in Writing /\ proc[p].pc = "write" /\ \A q \in Proc \ {p} : proc'[q] = proc[q]
    BY <1>7, InSave DEF Open
  <2>2. repo' = [repo EXCEPT ![proc[p].conv] = Torn]
    BY <1>7 DEF Open
  <2>3. proc'[p].pc = "fill" /\ proc'[p].conv = proc[p].conv
    BY <1>7, <2>1 DEF Open, Writing
  <2>4. CASE c = proc[p].conv
    BY <2>3, <2>4 DEF Whole, Filling
  <2>5. CASE c # proc[p].conv
    <3>1. repo'[c] = repo[c]
      BY <2>2, <2>5
    <3>2. \A q \in Proc : Filling(q, c) => proc'[q] = proc[q]
      BY <2>1 DEF Filling
    <3> QED
      BY <1>0, <3>1, <3>2 DEF Whole
  <2> QED
    BY <2>4, <2>5
<1>8. ASSUME NEW p \in Proc, Fill(p) PROVE Whole(c)'
  <2>1. proc[p] \in Writing /\ \A q \in Proc \ {p} : proc'[q] = proc[q]
    BY <1>8, InSave DEF Fill
  <2>2. CASE c = proc[p].conv
    BY <1>8, <2>1, <2>2 DEF Fill, Whole, Writing
  <2>3. CASE c # proc[p].conv
    <3>1. repo'[c] = repo[c]
      BY <1>8, <2>3 DEF Fill
    <3>2. \A q \in Proc : Filling(q, c) => proc'[q] = proc[q]
      BY <2>1, <2>3 DEF Filling
    <3> QED
      BY <1>0, <3>1, <3>2 DEF Whole
  <2> QED
    BY <2>2, <2>3
<1>9. ASSUME NEW p \in Proc, Killed(p) PROVE Whole(c)' \/ c \in Harmed'
  <2>1. repo' = repo /\ \A q \in Proc \ {p} : proc'[q] = proc[q]
    BY <1>9 DEF Killed
  <2>2. CASE Filling(p, c)
    BY <1>9, <2>2 DEF Killed, Filling, Harmed
  <2>3. CASE ~Filling(p, c)
    BY <1>0, <2>1, <2>3 DEF Whole
  <2> QED
    BY <2>2, <2>3
<1>10. ASSUME NEW d \in Conv, Delete(d) PROVE Whole(c)' \/ c \in Harmed'
  <2>1. d \in Harmed' /\ Remove({d}) /\ repo' = [repo EXCEPT ![d] = Absent]
    BY <1>10 DEF Delete, Harmed
  <2> QED
    BY <1>2, <2>1
<1>11. ASSUME RemoveClaudeConfig PROVE c \in Harmed'
  <2>1. repo[c] # Absent
    BY Distinct DEF Whole, Torns
  <2> QED
    BY <1>11, <2>1 DEF RemoveClaudeConfig, Harmed
<1> QED
  BY <1>1, <1>3, <1>5, <1>6, <1>7, <1>8, <1>9, <1>10, <1>11
     DEF Next, StartFresh, StartPicker, Launch, Exit, Converse, Continue, Write

LEMMA NextLinksResumed == ASSUME Inv, Next PROVE LinksResumed'
<1> SUFFICES ASSUME NEW s \in Session, NEW c \in Conv, dir'[s].file[c] = Link
             PROVE  c \in given_up'.resumed
  BY DEF LinksResumed
<1>1. CASE dir[s].file[c] = Link
  BY <1>1, HarmedForGood DEF Inv, LinksResumed
<1> QED
  BY <1>1, FilesStay

\* How a step changes the record of a save.
LEMMA NextProc ==
  ASSUME Inv, Next, NEW p \in Proc
  PROVE  \/ proc'[p] = proc[p]
         \/ proc'[p] = Idle
         \/ \E s \in Session : List(p, s)
         \/ \E d \in Conv : Check(p, d)
         \/ Open(p)
         \/ Fill(p)
         \/ \E d \in Conv : Filling(p, d) /\ d \in Harmed' /\ proc'[p] = Onward(proc[p])
<1> USE DEF Inv, Shape, TypeOK
<1>1. ASSUME NEW s \in Session, NEW d \in Conv, StartResume(s, d)
      PROVE  proc'[p] = proc[p] \/ (Filling(p, d) /\ d \in Harmed' /\ proc'[p] = Onward(proc[p]))
  <2>1. d \in Harmed' /\ (UNCHANGED proc \/ Remove({d}))
    BY <1>1 DEF StartResume, Harmed
  <2> QED
    BY <2>1, Removed
<1>2. ASSUME NEW d \in Conv, Delete(d)
      PROVE  proc'[p] = proc[p] \/ (Filling(p, d) /\ d \in Harmed' /\ proc'[p] = Onward(proc[p]))
  <2>1. d \in Harmed' /\ Remove({d})
    BY <1>2 DEF Delete, Harmed
  <2> QED
    BY <2>1, Removed
<1>3. ASSUME RemoveClaudeConfig
      PROVE  \/ proc'[p] = proc[p]
             \/ \E d \in Conv : Filling(p, d) /\ d \in Harmed' /\ proc'[p] = Onward(proc[p])
  <2>1. Remove(Conv) /\ \A d \in Conv : repo[d] # Absent => d \in Harmed'
    BY <1>3 DEF RemoveClaudeConfig, Harmed
  <2>2. \A d \in Conv : Filling(p, d) => d \in Harmed'
    BY <2>1 DEF Torns
  <2> QED
    BY <2>1, <2>2, Removed
<1>4. ASSUME NEW q \in Proc, q # p,
             \/ \E s \in Session : List(q, s)
             \/ \E d \in Conv : Check(q, d)
             \/ Open(q) \/ Fill(q) \/ CopyFails(q) \/ Return(q) \/ Killed(q)
      PROVE  proc'[p] = proc[p]
  BY <1>4 DEF List, Check, Open, Fill, CopyFails, Return, Killed
<1>5. ASSUME CopyFails(p) \/ Return(p) \/ Killed(p) PROVE proc'[p] = Idle
  BY <1>5 DEF CopyFails, Return, Killed
<1>6. CASE UNCHANGED proc
  BY <1>6
<1>7. ASSUME NEW q \in Proc,
             \/ \E s \in Session : List(q, s)
             \/ \E d \in Conv : Check(q, d)
             \/ Open(q) \/ Fill(q) \/ CopyFails(q) \/ Return(q) \/ Killed(q)
      PROVE  \/ proc'[p] = proc[p]
             \/ proc'[p] = Idle
             \/ \E s \in Session : List(p, s)
             \/ \E d \in Conv : Check(p, d)
             \/ Open(p)
             \/ Fill(p)
  <2>1. CASE q # p
    BY <1>4, <1>7, <2>1
  <2>2. CASE q = p
    BY <1>5, <1>7, <2>2
  <2> QED
    BY <2>1, <2>2
<1> HIDE DEF Inv, Shape, TypeOK
<1> QED
  BY <1>1, <1>2, <1>3, <1>6, <1>7
     DEF Next, StartFresh, StartPicker, Exit, Converse, Continue, Write

LEMMA NextTorns == ASSUME Inv, Next PROVE Torns'
<1> SUFFICES ASSUME NEW c \in Conv
             PROVE  /\ repo'[c] = Torn => Whole(c)' \/ c \in Harmed'
                    /\ repo'[c] = Loop => c \in given_up'.resumed
                    /\ \A p \in Proc : Filling(p, c)' => repo'[c] # Absent
  BY DEF Torns
<1> USE Distinct DEF Inv, Shape, TypeOK
<1> DEFINE Kin == /\ repo'[c] = Torn => repo[c] = Torn \/ \E p \in Proc : Filling(p, c)'
                  /\ repo'[c] = Loop => repo[c] = Loop \/ c \in given_up'.resumed
                  /\ repo'[c] = Absent => repo[c] = Absent \/ \A p \in Proc : ~Filling(p, c)'
<1>1. ASSUME NEW s \in Session, NEW d \in Conv, StartResume(s, d) PROVE Kin
  <2>1. repo' = repo \/ repo' = [repo EXCEPT ![d] = Loop]
    BY <1>1 DEF StartResume
  <2>2. d \in given_up'.resumed
    BY <1>1 DEF StartResume
  <2>3. c # d => repo'[c] = repo[c]
    BY <2>1
  <2>4. c = d => repo'[c] \in {repo[c], Loop}
    BY <2>1
  <2> QED
    BY <2>2, <2>3, <2>4
<1>2. ASSUME NEW p \in Proc, Open(p) PROVE Kin
  <2>1. proc[p] \in Writing
    BY <1>2, InSave DEF Open
  <2>2. proc'[p].pc = "fill" /\ proc'[p].conv = proc[p].conv
    BY <1>2, <2>1 DEF Open, Writing
  <2>3. repo' = [repo EXCEPT ![proc[p].conv] = Torn]
    BY <1>2 DEF Open
  <2>4. c # proc[p].conv => repo'[c] = repo[c]
    BY <2>3
  <2>5. c = proc[p].conv => Filling(p, c)' /\ repo'[c] = Torn
    BY <2>2, <2>3 DEF Filling
  <2> QED
    BY <2>4, <2>5
<1>3. ASSUME NEW p \in Proc, Fill(p) PROVE Kin
  <2>1. proc[p] \in Writing
    BY <1>3, InSave DEF Fill
  <2>2. repo'[c] = repo[c] \/ repo'[c] = proc[p].ver
    BY <1>3 DEF Fill
  <2>3. proc[p].ver \in Version
    BY <2>1 DEF Writing
  <2> QED
    BY <2>2, <2>3
<1>4. ASSUME NEW files, Remove(files), c \in files PROVE \A p \in Proc : ~Filling(p, c)'
  <2>1. ASSUME NEW p \in Proc, proc'[p] = Onward(proc[p]) PROVE ~Filling(p, c)'
    BY <2>1 DEF Onward, Filling
  <2>2. ASSUME NEW p \in Proc, proc'[p] = proc[p], ~Filling(p, c) PROVE ~Filling(p, c)'
    BY <2>2 DEF Filling
  <2> QED
    BY <1>4, <2>1, <2>2, Removed
<1>5. ASSUME NEW d \in Conv, Delete(d) PROVE Kin
  <2>1. Remove({d}) /\ repo' = [repo EXCEPT ![d] = Absent]
    BY <1>5 DEF Delete
  <2> QED
    BY <1>4, <2>1
<1>6. ASSUME RemoveClaudeConfig PROVE Kin
  <2>1. Remove(Conv) /\ repo' = NoFiles
    BY <1>6 DEF RemoveClaudeConfig
  <2> QED
    BY <1>4, <2>1 DEF NoFiles
<1>7. ASSUME UNCHANGED repo PROVE Kin
  BY <1>7
<1>8. Kin
  BY <1>1, <1>2, <1>3, <1>5, <1>6, <1>7
     DEF Next, StartFresh, StartPicker, Exit, Converse, Continue, Write, List, Check, CopyFails, Return, Killed
<1>9. repo'[c] = Torn => Whole(c)' \/ c \in Harmed'
  <2>1. (\E p \in Proc : Filling(p, c)') => Whole(c)'
    BY DEF Whole
  <2> QED
    BY <1>8, <2>1, WholeStays, HarmedForGood DEF Torns
<1>10. repo'[c] = Loop => c \in given_up'.resumed
  BY <1>8, HarmedForGood DEF Torns
<1>11. ASSUME NEW p \in Proc, Filling(p, c)', repo'[c] = Absent PROVE FALSE
  <2>1. repo[c] = Absent
    BY <1>8, <1>11
  <2>2. ~Filling(p, c)
    BY <2>1 DEF Torns
  <2>3. proc'[p].pc = "fill" /\ proc'[p].conv = c
    BY <1>11 DEF Filling
  <2>4. Open(p) => repo'[c] = Torn
    <3>1. Open(p) => proc[p].conv = c
      BY <2>3, InSave DEF Open, Writing
    <3> QED
      BY <3>1 DEF Open
  <2>5. proc'[p] # proc[p] /\ proc'[p] # Idle /\ proc'[p] # Onward(proc[p])
    BY <2>2, <2>3 DEF Filling, Idle, Onward
  <2>6. ASSUME NEW s \in Session, List(p, s) PROVE FALSE
    BY <2>3, <2>6 DEF List
  <2>7. ASSUME NEW d \in Conv, Check(p, d) PROVE FALSE
    <3>1. proc[p] \in Checking
      BY <2>7, InSave DEF Check
    <3> QED
      BY <2>3, <2>7, <3>1 DEF Check, Checking
  <2>8. Fill(p) => proc'[p] = Onward(proc[p])
    BY DEF Fill
  <2> QED
    BY <1>11, <2>4, <2>5, <2>6, <2>7, <2>8, NextProc
<1> QED
  BY <1>9, <1>10, <1>11

\* Each step of a save has dealt with what it takes off its list: the repository
\* had it, or it is a link, or it is copied, or it has come to harm.
LEMMA NextProgress == ASSUME Inv, Next PROVE Progress'
<1> SUFFICES ASSUME NEW p \in Proc, proc'[p] # Idle
             PROVE  /\ \A c \in proc'[p].todo : dir'[proc'[p].s].file[c] # Absent
                    /\ \A c \in proc'[p].new \ Harmed' : c \in ToCome(p)' \/ Whole(c)'
  BY DEF Progress
\* Enough: the save is about the same session, and drops only what is dealt with.
<1>0. ASSUME proc[p] # Idle, proc'[p].s = proc[p].s, proc'[p].new = proc[p].new,
             proc'[p].todo \subseteq proc[p].todo,
             \A c \in ToCome(p) : c \in ToCome(p)' \/ Whole(c)' \/ c \in Harmed'
      PROVE  /\ \A c \in proc'[p].todo : dir'[proc'[p].s].file[c] # Absent
             /\ \A c \in proc'[p].new \ Harmed' : c \in ToCome(p)' \/ Whole(c)'
  <2>1. proc[p].s \in Session /\ proc[p].todo \subseteq Conv /\ proc[p].new \subseteq Conv
    BY <1>0, InSave DEF Inv
  <2>2. \A c \in proc'[p].todo : dir'[proc'[p].s].file[c] # Absent
    BY <1>0, <2>1, FilesStay DEF Inv, Progress
  <2>3. ASSUME NEW c \in proc[p].new, c \notin Harmed' PROVE c \in ToCome(p)' \/ Whole(c)'
    <3>1. c \in Conv /\ c \notin Harmed
      BY <2>1, <2>3, HarmedForGood
    <3>2. c \in ToCome(p) \/ Whole(c)
      BY <1>0, <3>1 DEF Inv, Progress
    <3> QED
      BY <1>0, <2>3, <3>1, <3>2, WholeStays
  <2> QED
    BY <1>0, <2>2, <2>3
<1>1. CASE proc'[p] = proc[p]
  BY <1>0, <1>1 DEF ToCome
<1>2. ASSUME NEW s \in Session, List(p, s)
      PROVE  /\ \A c \in proc'[p].todo : dir'[proc'[p].s].file[c] # Absent
             /\ \A c \in proc'[p].new \ Harmed' : c \in ToCome(p)' \/ Whole(c)'
  BY <1>2, Distinct DEF List, Inv, Shape, ToCome
<1>3. ASSUME NEW d \in Conv, Check(p, d)
      PROVE  /\ \A c \in proc'[p].todo : dir'[proc'[p].s].file[c] # Absent
             /\ \A c \in proc'[p].new \ Harmed' : c \in ToCome(p)' \/ Whole(c)'
  <2>1. proc[p] \in Checking /\ proc[p] # Idle /\ ToCome(p) = proc[p].todo
    BY <1>3, InSave DEF Check, Inv, Idle, ToCome, Checking
  <2>2. proc[p].s \in Session
    BY <2>1 DEF Checking
  <2>4. CASE dir[proc[p].s].file[d] = Link \/ Readable(d)
    <3>1. proc'[p] = [proc[p] EXCEPT !.todo = @ \ {d}]
      BY <1>3, <2>4 DEF Check, Inv, Shape
    <3>2. proc'[p].s = proc[p].s /\ proc'[p].todo = proc[p].todo \ {d}
          /\ proc'[p].new = proc[p].new /\ ToCome(p)' = proc[p].todo \ {d}
      BY <2>1, <3>1 DEF Checking, ToCome
    <3>3. Whole(d) \/ d \in Harmed
      BY <2>2, <2>4 DEF Readable, Inv, Shape, TypeOK, LinksResumed, Torns, Whole, Harmed
    <3>4. Whole(d)' \/ d \in Harmed'
      BY <3>3, WholeStays, HarmedForGood
    <3> QED
      BY <1>0, <2>1, <3>2, <3>4
  <2>5. CASE ~(dir[proc[p].s].file[d] = Link \/ Readable(d))
    <3>1. proc'[p] = [pc |-> "write", s |-> proc[p].s, todo |-> proc[p].todo \ {d}, new |-> proc[p].new,
                      conv |-> d, ver |-> dir[proc[p].s].file[d]]
      BY <1>3, <2>1, <2>5 DEF Check, Inv, Shape, Checking
    <3>2. ToCome(p)' = (proc[p].todo \ {d}) \cup {d}
      BY <3>1 DEF ToCome
    <3> QED
      BY <1>0, <2>1, <3>1, <3>2
  <2> QED
    BY <2>4, <2>5
<1>4. CASE Open(p)
  <2>1. proc[p] \in Writing /\ proc[p] # Idle /\ proc[p].pc = "write"
    BY <1>4, InSave DEF Open, Inv, Idle
  <2>2. proc'[p] = [proc[p] EXCEPT !.pc = "fill"]
    BY <1>4 DEF Open, Inv, Shape
  <2>3. ToCome(p)' = ToCome(p) /\ proc'[p].s = proc[p].s /\ proc'[p].new = proc[p].new
        /\ proc'[p].todo = proc[p].todo
    BY <2>1, <2>2 DEF ToCome, Writing
  <2> QED
    BY <1>0, <2>1, <2>3
<1>5. ASSUME NEW d \in Conv, Filling(p, d), proc'[p] = Onward(proc[p]), Whole(d)' \/ d \in Harmed'
      PROVE  /\ \A c \in proc'[p].todo : dir'[proc'[p].s].file[c] # Absent
             /\ \A c \in proc'[p].new \ Harmed' : c \in ToCome(p)' \/ Whole(c)'
  <2>1. proc[p] # Idle
    BY <1>5 DEF Filling, Idle
  <2>3. \A c \in ToCome(p) : c \in proc[p].todo \/ c = d
    BY <1>5 DEF ToCome, Filling
  <2>2. ToCome(p)' = proc[p].todo /\ proc'[p].s = proc[p].s /\ proc'[p].new = proc[p].new
        /\ proc'[p].todo = proc[p].todo
    BY <1>5 DEF ToCome, Onward
  <2> QED
    BY <1>0, <1>5, <2>1, <2>2, <2>3
<1>6. CASE Fill(p)
  <2>1. proc[p] \in Writing
    BY <1>6, InSave DEF Fill, Inv
  <2>2. PICK d \in Conv : Filling(p, d)
    BY <1>6, <2>1 DEF Fill, Writing, Filling
  <2>3. Whole(d)
    BY <2>2 DEF Whole
  <2>4. proc'[p] = Onward(proc[p])
    BY <1>6 DEF Fill, Inv, Shape
  <2> QED
    BY <1>5, <2>2, <2>3, <2>4, WholeStays
<1>7. ASSUME NEW d \in Conv, Filling(p, d), d \in Harmed', proc'[p] = Onward(proc[p])
      PROVE  /\ \A c \in proc'[p].todo : dir'[proc'[p].s].file[c] # Absent
             /\ \A c \in proc'[p].new \ Harmed' : c \in ToCome(p)' \/ Whole(c)'
  BY <1>5, <1>7
<1> QED
  BY <1>1, <1>2, <1>3, <1>4, <1>6, <1>7, NextProc

LEMMA StutterInv == Inv /\ UNCHANGED vars => Inv'
BY DEF Inv, vars, Shape, TypeOK, OwnCopy, LinksResumed, Torns, Progress, ToCome, Whole, Filling, Harmed,
       Checking, Writing

THEOREM InvHolds == Spec => []Inv
<1>1. Inv /\ Next => Inv'
  BY NextShape, NextOwnCopy, NextLinksResumed, NextTorns, NextProgress DEF Inv
<1> QED
  BY <1>1, InitInv, StutterInv, PTL DEF Spec

-------------------------------------------------------------------------------

\* What Claude last wrote of a conversation that was never resumed by id is on
\* disk, whatever terminals save, race, fail or are killed, and whatever the user
\* deletes (PrepareSessionConfig, SaveNewConversations).
THEOREM LastWordsKept == Spec => []KeptUnlessResumed
<1>1. Inv => KeptUnlessResumed
  BY DEF Inv, Shape, OwnCopy, KeptUnlessResumed, Kept
<1> QED
  BY <1>1, InvHolds, PTL

\* A save that comes to its end leaves a whole copy of every conversation the
\* session had started, or another save is at it now, unless the user deleted or
\* resumed it or a writer of it was cut short (SaveNewConversations).
THEOREM FinishedSaveCopied == Spec => []SavedWhenDone
<1>1. Inv => SavedWhenDone
  <2> SUFFICES ASSUME Inv, NEW p \in Proc, Saved(p), NEW c \in proc[p].new \ Harmed
               PROVE  Whole(c)
    BY DEF SavedWhenDone, Harmed
  <2>1. proc[p] # Idle /\ ToCome(p) = {}
    BY DEF Saved, ToCome, Idle
  <2> QED
    BY <2>1 DEF Inv, Progress
<1> QED
  BY <1>1, InvHolds, PTL
===============================================================================
