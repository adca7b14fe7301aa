----------------------------- MODULE PtyProxyProofs -----------------------------
(***************************************************************************)
(* Theorems about PtyProxy, for any number of keys and any capacity of the *)
(* channel between the reader and the input loop.                          *)
(***************************************************************************)
EXTENDS PtyProxy, FiniteSetTheorems, TLAPS

-------------------------------------------------------------------------------
(* Keys and prefixes: facts about any sequence of what was taken. *)

Taken == Key \cup {"expired"}

\* PrefixesBefore, IsCommand and IsForwarded of any sequence e.
RunBefore(e, i) == {j \in 1..(i - 1) : \A l \in j..(i - 1) : e[l] = "prefix"}
Command(e, i) == Cardinality(RunBefore(e, i)) % 2 = 1
Meant(e, i, k) == k # "expired" /\ (Command(e, i) <=> k = "prefix")
Forwarded(e) == {i \in DOMAIN e : Meant(e, i, e[i])}
UpTo(e, i) == {j \in Forwarded(e) : j <= i}

LEMMA RunIsFinite ==
  ASSUME NEW e, NEW i \in Nat \ {0}
  PROVE  /\ IsFiniteSet(RunBefore(e, i)) /\ Cardinality(RunBefore(e, i)) \in Nat
         /\ i \notin RunBefore(e, i)
<1>1. IsFiniteSet(1..(i - 1))
  BY FS_Interval
<1>2. RunBefore(e, i) \subseteq 1..(i - 1)
  BY DEF RunBefore
<1> QED
  BY <1>1, <1>2, FS_Subset, FS_CardinalityType

\* One more key makes the run before its successor one longer, or ends it, and
\* changes no run before.
LEMMA RunGrows ==
  ASSUME NEW e \in Seq(Taken), NEW k \in Taken
  PROVE  LET f == Append(e, k)  n == Len(e) + 1
         IN /\ \A i \in 1..n : RunBefore(f, i) = RunBefore(e, i)
            /\ RunBefore(f, n + 1) = IF k = "prefix" THEN RunBefore(e, n) \cup {n} ELSE {}
<1> DEFINE f == Append(e, k)  n == Len(e) + 1
<1>1. f \in Seq(Taken) /\ Len(f) = n /\ f[n] = k /\ \A l \in 1..(n - 1) : f[l] = e[l]
  OBVIOUS
<1>2. \A i \in 1..n : RunBefore(f, i) = RunBefore(e, i)
  BY <1>1 DEF RunBefore
<1>3. ASSUME k # "prefix" PROVE RunBefore(f, n + 1) = {}
  BY <1>1, <1>3 DEF RunBefore
<1>4. ASSUME k = "prefix" PROVE RunBefore(f, n + 1) = RunBefore(e, n) \cup {n}
  <2>1. RunBefore(f, n + 1) = {j \in 1..n : \A l \in j..n : f[l] = "prefix"}
    BY DEF RunBefore
  <2>2. ASSUME NEW j \in 1..n
        PROVE  (\A l \in j..n : f[l] = "prefix") <=>
                 (j = n \/ \A l \in j..(n - 1) : e[l] = "prefix")
    BY <1>1, <1>4
  <2> QED
    BY <2>1, <2>2 DEF RunBefore
<1> QED
  BY <1>2, <1>3, <1>4

\* So a key is a command after an odd number of prefixes, and the number changes
\* with each prefix.
LEMMA CommandGrows ==
  ASSUME NEW e \in Seq(Taken), NEW k \in Taken
  PROVE  LET f == Append(e, k)  n == Len(e) + 1
         IN /\ \A i \in 1..n : Command(f, i) <=> Command(e, i)
            /\ Command(f, n + 1) <=> (k = "prefix" /\ ~Command(e, n))
<1> DEFINE f == Append(e, k)  n == Len(e) + 1  R == RunBefore(e, n)
<1>1. IsFiniteSet(R) /\ Cardinality(R) \in Nat /\ n \notin R
  BY RunIsFinite
<1>2. Cardinality(R \cup {n}) = Cardinality(R) + 1
  BY <1>1, FS_AddElement
<1>3. \A x \in Nat : (x + 1) % 2 = 1 <=> ~(x % 2 = 1)
  OBVIOUS
<1>4. CASE k = "prefix"
  <2>1. Command(f, n + 1) <=> (Cardinality(R) + 1) % 2 = 1
    BY <1>2, <1>4, RunGrows DEF Command
  <2> QED
    BY <1>1, <1>3, <1>4, <2>1, RunGrows DEF Command
<1>5. CASE k # "prefix"
  <2>1. Cardinality(RunBefore(f, n + 1)) = 0
    BY <1>5, RunGrows, FS_EmptySet
  <2>2. ~(0 % 2 = 1)
    OBVIOUS
  <2>3. ~Command(f, n + 1)
    BY <2>1, <2>2 DEF Command
  <2>4. \A i \in 1..n : Command(f, i) <=> Command(e, i)
    BY RunGrows DEF Command
  <2> QED
    BY <1>5, <2>3, <2>4
<1> QED
  BY <1>4, <1>5

LEMMA ForwardedIsFinite ==
  ASSUME NEW e \in Seq(Taken)
  PROVE  /\ IsFiniteSet(Forwarded(e)) /\ Cardinality(Forwarded(e)) \in Nat
         /\ \A i \in Nat : IsFiniteSet(UpTo(e, i)) /\ Cardinality(UpTo(e, i)) \in Nat
         /\ \A i \in Forwarded(e) : Cardinality(UpTo(e, i)) \in 1..Cardinality(Forwarded(e))
<1>1. IsFiniteSet(1..Len(e)) /\ Forwarded(e) \subseteq 1..Len(e)
  BY FS_Interval DEF Forwarded
<1>2. IsFiniteSet(Forwarded(e)) /\ Cardinality(Forwarded(e)) \in Nat
  BY <1>1, FS_Subset, FS_CardinalityType
<1>3. ASSUME NEW i \in Nat
      PROVE  /\ IsFiniteSet(UpTo(e, i)) /\ Cardinality(UpTo(e, i)) \in Nat
             /\ Cardinality(UpTo(e, i)) <= Cardinality(Forwarded(e))
  <2>1. UpTo(e, i) \subseteq Forwarded(e)
    BY DEF UpTo
  <2> QED
    BY <1>2, <2>1, FS_Subset, FS_CardinalityType
<1>4. ASSUME NEW i \in Forwarded(e) PROVE Cardinality(UpTo(e, i)) # 0
  <2>1. i \in Nat /\ i \in UpTo(e, i)
    BY <1>1 DEF UpTo
  <2> QED
    BY <1>3, <2>1, FS_EmptySet
<1>5. Forwarded(e) \subseteq Nat
  BY <1>1
<1> QED
  BY <1>2, <1>3, <1>4, <1>5, SMTT(30)

\* What the container has got of e.
Delivered(e, s) ==
  /\ Len(s) = Cardinality(Forwarded(e))
  /\ \A i \in Forwarded(e) : s[Cardinality(UpTo(e, i))] = e[i]

\* It stays so if a key is passed on just when it is meant for the container.
LEMMA DeliveredGrows ==
  ASSUME NEW e \in Seq(Taken), NEW s \in Seq(Key), NEW k \in Taken, Delivered(e, s)
  PROVE  Delivered(Append(e, k), IF Meant(e, Len(e) + 1, k) THEN Append(s, k) ELSE s)
<1> DEFINE f == Append(e, k)  n == Len(e) + 1
<1>1. f \in Seq(Taken) /\ Len(f) = n /\ f[n] = k /\ \A i \in 1..(n - 1) : f[i] = e[i]
  OBVIOUS
<1>2. \A i \in 1..(n - 1) : i \in Forwarded(f) <=> i \in Forwarded(e)
  BY <1>1, CommandGrows DEF Forwarded, Meant
<1>3. n \in Forwarded(f) <=> Meant(e, n, k)
  BY <1>1, CommandGrows DEF Forwarded, Meant
<1>4. Forwarded(f) \subseteq 1..n /\ Forwarded(e) \subseteq 1..(n - 1)
  BY <1>1 DEF Forwarded
<1>5. Forwarded(f) = IF Meant(e, n, k) THEN Forwarded(e) \cup {n} ELSE Forwarded(e)
  <2>1. \A i : i \in 1..n <=> i \in 1..(n - 1) \/ i = n
    OBVIOUS
  <2>2. ~Meant(e, n, k) => Forwarded(f) = Forwarded(e)
    BY <1>2, <1>3, <1>4, <2>1, Zenon
  <2>3. Meant(e, n, k) => Forwarded(f) = Forwarded(e) \cup {n}
    BY <1>2, <1>3, <1>4, <2>1, Zenon
  <2> QED
    BY <2>2, <2>3
<1>6. \A i \in Forwarded(e) : UpTo(f, i) = UpTo(e, i) /\ f[i] = e[i]
  BY <1>1, <1>4, <1>5 DEF UpTo
<1>7. CASE ~Meant(e, n, k)
  BY <1>5, <1>6, <1>7 DEF Delivered
<1>8. CASE Meant(e, n, k)
  <2>1. Cardinality(Forwarded(f)) = Cardinality(Forwarded(e)) + 1
    <3>1. n \notin Forwarded(e) /\ IsFiniteSet(Forwarded(e))
      BY <1>4, ForwardedIsFinite
    <3> QED
      BY <1>5, <1>8, <3>1, FS_AddElement
  <2>2. UpTo(f, n) = Forwarded(f)
    BY <1>4 DEF UpTo
  <2>3. Len(Append(s, k)) = Len(s) + 1 /\ Append(s, k)[Len(s) + 1] = k
        /\ \A i \in 1..Len(s) : Append(s, k)[i] = s[i]
    OBVIOUS
  <2>4. Append(s, k)[Cardinality(UpTo(f, n))] = f[n]
    BY <1>1, <2>1, <2>2, <2>3 DEF Delivered
  <2>5. \A i \in Forwarded(e) : Append(s, k)[Cardinality(UpTo(f, i))] = f[i]
    <3> SUFFICES ASSUME NEW i \in Forwarded(e)
                 PROVE  Append(s, k)[Cardinality(UpTo(f, i))] = f[i]
      OBVIOUS
    <3>1. Cardinality(UpTo(e, i)) \in 1..Len(s)
      BY ForwardedIsFinite DEF Delivered
    <3>2. s[Cardinality(UpTo(e, i))] = e[i]
      BY DEF Delivered
    <3> QED
      BY <1>6, <2>3, <3>1, <3>2
  <2> QED
    BY <1>5, <1>8, <2>1, <2>3, <2>4, <2>5 DEF Delivered
<1> QED
  BY <1>7, <1>8

-------------------------------------------------------------------------------
(* The invariant *)

Phase ==
  {"await", "closing", "grace", "kill", "reap", "stop", "rm", "join", "post", "returned", "panicked"}

\* TypeOK, and the variables it leaves out.
Control ==
  /\ opts.auto => opts.attached
  /\ main \in Phase /\ done \in BOOLEAN /\ cleaned \in BOOLEAN
  /\ client \in {"running", "exited"} /\ container \in {"running", "exited", "removed"}
Shape ==
  /\ TypeOK /\ Control
  /\ eaten \in Seq(Taken) /\ sent \in Seq(Key)

\* The input loop has read what it has taken as documented, and knows whether the
\* next key is a command.
Understood ==
  /\ Delivered(eaten, sent)
  /\ input = "normal" => ~Command(eaten, Len(eaten) + 1)
  /\ input = "prefix" => Command(eaten, Len(eaten) + 1)
  /\ choice # None <=> \E i \in DOMAIN eaten : Command(eaten, i) /\ eaten[i] \in {"d", "q"}

\* Once done is closed and Run has not seen the client exit, the user has chosen,
\* and the choice is final.
Chosen ==
  /\ choice # None => input \in {"closing", "ended"}
  /\ input = "closing" => choice # None
  /\ (done /\ main = "await") \/ main \in {"grace", "kill", "reap", "stop", "rm"} => choice # None

\* How far the container is gone, unless the client has left it or docker stop failed.
Gone == slips # {} \/
  /\ client = "exited" /\ main \in {"await", "grace"} => container # "running"
  /\ main \in {"closing", "rm"} \/ cleaned => container # "running"
  /\ main \in {"join", "post", "returned"} /\ opts.attached /\ choice # "detach" =>
       container # "running"

Inv == Shape /\ Understood /\ Chosen

LEMMA Opts == opts \in [attached : BOOLEAN, auto : BOOLEAN] => opts.attached \in BOOLEAN /\ opts.auto \in BOOLEAN
OBVIOUS

LEMMA InitInv == Init => Inv /\ Gone
<1> SUFFICES ASSUME Init PROVE Inv /\ Gone
  OBVIOUS
<1> USE DEF Init
<1>1. TypeOK
  BY ConstantsAssumption, Opts DEF TypeOK, None, Helper, Key
<1>2. Control
  BY DEF Control, Phase
<1>3. Shape
  BY <1>1, <1>2 DEF Shape
<1>4. Chosen /\ Gone
  BY DEF Chosen, Gone, None
<1>5. Forwarded(eaten) = {} /\ DOMAIN eaten = {} /\ Len(eaten) = 0 /\ Len(sent) = 0
  BY DEF Forwarded
<1>6. RunBefore(eaten, 1) = {}
  BY DEF RunBefore
<1>7. ~Command(eaten, 1)
  <2>1. ~(0 % 2 = 1)
    OBVIOUS
  <2> QED
    BY <1>6, <2>1, FS_EmptySet DEF Command
<1>8. Understood
  <2>1. Delivered(eaten, sent)
    BY <1>5, FS_EmptySet DEF Delivered
  <2>2. input = "normal" /\ choice = None /\ Len(eaten) + 1 = 1
    BY <1>5
  <2> QED
    BY <1>5, <1>7, <2>1, <2>2 DEF Understood
<1> HIDE DEF Init
<1> QED
  BY <1>3, <1>4, <1>8 DEF Inv

-------------------------------------------------------------------------------
(* The shape *)

\* Every step keeps the control variables in their types.
LEMMA NextControl == ASSUME Shape, Next PROVE Control'
<1> USE DEF Shape, Control, Phase, docker, run, Goto, KeepRest
<1>1. CASE InputCloses
  BY <1>1 DEF InputCloses, docker
<1>2. CASE ContainerExits \/ ClientExits
  BY <1>2 DEF ContainerExits, ClientExits
<1>3. CASE MainSeesExit
  BY <1>3 DEF MainSeesExit, TakeStatus
<1>4. CASE MainCloses
  BY <1>4 DEF MainCloses
<1>5. CASE MainSeesDone
  BY <1>5 DEF MainSeesDone
<1>6. CASE GraceEnds \/ KillClient \/ MainReaps
  BY <1>6 DEF GraceEnds, KillClient, MainReaps, TakeStatus
<1>7. CASE StopContainer \/ RmContainer
  BY <1>7 DEF StopContainer, RmContainer
<1>8. CASE Join
  BY <1>8 DEF Join
<1>9. CASE Post
  BY <1>9 DEF Post
<1>10. CASE UNCHANGED <<opts, done, docker, run>>
  BY <1>10
<1> QED
  BY <1>1, <1>2, <1>3, <1>4, <1>5, <1>6, <1>7, <1>8, <1>9, <1>10
     DEF Next, ReaderStep, InputStep, MainStep, Type, ReaderSends, ReaderEnds, InputTakesKey, InputObeys,
         InputEnds, PrefixExpires, PumpFails, PumpSeesDone, HelperEnds, WaitReturns

\* What went wrong with docker, and the terminal's mode, keep their types.
LEMMA NextEnding ==
  ASSUME Shape, Next PROVE slips' \subseteq {"clientLeft", "stopFailed"} /\ raw' \in BOOLEAN
<1> USE DEF Shape, TypeOK, docker, run, Goto, KeepRest
<1>1. CASE InputCloses
  BY <1>1 DEF InputCloses
<1>2. CASE ContainerExits \/ ClientExits \/ WaitReturns
  BY <1>2 DEF ContainerExits, ClientExits, WaitReturns
<1>3. CASE MainStep
  <2>1. raw' = raw \/ raw' = FALSE
    BY <1>3 DEF MainStep, MainSeesExit, MainCloses, MainSeesDone, GraceEnds, KillClient, MainReaps,
                StopContainer, RmContainer, Join, Post
  <2>2. slips' = slips \/ slips' = slips \cup {"stopFailed"}
    BY <1>3 DEF MainStep, MainSeesExit, MainCloses, MainSeesDone, GraceEnds, KillClient, MainReaps,
                StopContainer, RmContainer, Join, Post, TakeStatus
  <2> QED
    BY <2>1, <2>2
<1>4. CASE UNCHANGED <<slips, raw>>
  BY <1>4
<1> QED
  BY <1>1, <1>2, <1>3, <1>4
     DEF Next, ReaderStep, InputStep, Type, ReaderSends, ReaderEnds, InputTakesKey, InputObeys,
         InputEnds, PrefixExpires, PumpFails, PumpSeesDone, HelperEnds

\* Every step keeps the variables of TypeOK in their types: the input loop and the
\* helpers end only when done is closed, and Run gets the exit status once.
LEMMA NextShape == ASSUME Shape, Next PROVE Shape'
<1> USE ConstantsAssumption DEF Shape, TypeOK, terminal, loop, workers, docker, None
<1>1. Control' /\ slips' \subseteq {"clientLeft", "stopFailed"} /\ raw' \in BOOLEAN
  BY NextControl, NextEnding
<1>2. ASSUME NEW k \in Key, Type(k) PROVE Shape'
  BY <1>1, <1>2 DEF Type
<1>3. CASE ReaderSends
  BY <1>1, <1>3 DEF ReaderSends
<1>4. CASE ReaderEnds
  BY <1>1, <1>4 DEF ReaderEnds
<1>5. ASSUME Takes
      PROVE  /\ Head(chan) \in Key /\ chan' \in Seq(Key) /\ Len(chan') <= ChanCap
             /\ eaten' \in Seq(Taken)
  BY <1>5 DEF Takes, Taken
<1>6. CASE InputTakesKey
  BY <1>1, <1>5, <1>6 DEF InputTakesKey
<1>7. CASE InputObeys
  BY <1>1, <1>5, <1>7 DEF InputObeys
<1>8. CASE InputCloses
  BY <1>1, <1>8 DEF InputCloses
<1>9. CASE InputEnds
  BY <1>1, <1>9 DEF InputEnds
<1>10. CASE PrefixExpires
  BY <1>1, <1>10 DEF PrefixExpires, Taken
<1>11. CASE PumpFails
  BY <1>1, <1>11 DEF PumpFails
<1>12. CASE PumpSeesDone
  BY <1>1, <1>12 DEF PumpSeesDone
<1>13. ASSUME NEW h \in Helper, HelperEnds(h) PROVE Shape'
  BY <1>1, <1>13 DEF HelperEnds
<1>14. CASE ContainerExits \/ ClientExits \/ WaitReturns
  BY <1>1, <1>14 DEF ContainerExits, ClientExits, WaitReturns
<1>15. CASE MainStep
  <2>1. UNCHANGED <<opts, terminal, loop, workers>>
    BY <1>15 DEF MainStep, MainSeesExit, MainCloses, MainSeesDone, GraceEnds, KillClient, MainReaps,
                 StopContainer, RmContainer, Join, Post, KeepRest
  <2>2. done' = done \/ done' = TRUE
    BY <1>15 DEF MainStep, MainSeesExit, MainCloses, MainSeesDone, GraceEnds, KillClient, MainReaps,
                 StopContainer, RmContainer, Join, Post
  <2>3. cmdDone' \in {None, "ready", "taken"} /\ (cmdDone' # None => client' = "exited")
    BY <1>15 DEF MainStep, MainSeesExit, MainCloses, MainSeesDone, GraceEnds, KillClient, MainReaps,
                 StopContainer, RmContainer, Join, Post, TakeStatus
  <2> QED
    BY <1>1, <2>1, <2>2, <2>3
<1> QED
  BY <1>2, <1>3, <1>4, <1>6, <1>7, <1>8, <1>9, <1>10, <1>11, <1>12, <1>13, <1>14, <1>15
     DEF Next, ReaderStep, InputStep

-------------------------------------------------------------------------------
(* The keys *)

\* One more thing taken; passed on if it was meant for the container.
LEMMA OneMore ==
  ASSUME Inv, NEW k \in Taken, eaten' = Append(eaten, k),
         sent' = IF Meant(eaten, Len(eaten) + 1, k) THEN Append(sent, k) ELSE sent
  PROVE  /\ Delivered(eaten', sent')
         /\ Command(eaten', Len(eaten') + 1) <=> (k = "prefix" /\ ~Command(eaten, Len(eaten) + 1))
         /\ (\E i \in DOMAIN eaten' : Command(eaten', i) /\ eaten'[i] \in {"d", "q"}) <=>
              \/ choice # None
              \/ Command(eaten, Len(eaten) + 1) /\ k \in {"d", "q"}
<1> DEFINE n == Len(eaten) + 1
<1>1. /\ eaten \in Seq(Taken) /\ sent \in Seq(Key) /\ DOMAIN eaten' = 1..n /\ eaten'[n] = k
      /\ Len(eaten') = n /\ DOMAIN eaten = 1..(n - 1) /\ \A i \in 1..(n - 1) : eaten'[i] = eaten[i]
  BY DEF Inv, Shape
<1>2. Delivered(eaten', sent')
  BY <1>1, DeliveredGrows DEF Inv, Understood
<1>3. Command(eaten', n + 1) <=> (k = "prefix" /\ ~Command(eaten, n))
  BY <1>1, CommandGrows
<1>4. \A i \in 1..n : Command(eaten', i) <=> Command(eaten, i)
  BY <1>1, CommandGrows
<1> QED
  BY <1>1, <1>2, <1>3, <1>4 DEF Inv, Understood

LEMMA NextUnderstood == ASSUME Inv, Next PROVE Understood'
<1> DEFINE n == Len(eaten) + 1
<1>1. ASSUME UNCHANGED <<eaten, sent, choice>>, input' \in {input, "closing", "ended"}
      PROVE  Understood'
  BY <1>1 DEF Inv, Understood
<1>2. ASSUME Takes PROVE Head(chan) \in Key /\ Head(chan) \in Taken /\ Head(chan) # "expired"
  BY <1>2 DEF Takes, Inv, Shape, TypeOK, Taken, Key
<1>3. CASE InputTakesKey
  <2> DEFINE k == Head(chan)
  <2>1. Takes /\ k \in Taken /\ k # "expired" /\ eaten' = Append(eaten, k) /\ choice' = choice
    BY <1>2, <1>3 DEF InputTakesKey, Takes
  <2>2. Command(eaten, n) <=> input = "prefix"
    BY <2>1 DEF Takes, Inv, Understood
  <2>3. Meant(eaten, n, k) <=> Forwards(k)
    BY <2>1, <2>2 DEF Meant, Forwards, Takes
  <2>4. sent' = IF Meant(eaten, n, k) THEN Append(sent, k) ELSE sent
    BY <1>3, <2>3 DEF InputTakesKey
  <2>5. input' = IF input = "normal" /\ k = "prefix" THEN "prefix" ELSE "normal"
    BY <1>3 DEF InputTakesKey
  <2>6. input = "prefix" => k \notin {"d", "q"}
    BY <1>3 DEF InputTakesKey
  <2>7. input \in {"normal", "prefix"}
    BY <2>1 DEF Takes
  <2> QED
    BY <2>1, <2>2, <2>4, <2>5, <2>6, <2>7, OneMore DEF Understood
<1>4. CASE InputObeys
  <2> DEFINE k == Head(chan)
  <2>1. /\ Takes /\ k \in Taken /\ eaten' = Append(eaten, k) /\ sent' = sent
        /\ input = "prefix" /\ k \in {"d", "q"} /\ choice' # None /\ input' = "closing"
    BY <1>2, <1>4 DEF InputObeys, Takes, None
  <2>2. Command(eaten, n) /\ ~Meant(eaten, n, k)
    BY <2>1 DEF Inv, Understood, Meant
  <2> QED
    BY <2>1, <2>2, OneMore DEF Understood
<1>5. CASE PrefixExpires
  <2>1. eaten' = Append(eaten, "expired") /\ UNCHANGED <<sent, choice>> /\ input' = "normal"
    BY <1>5 DEF PrefixExpires
  <2>2. "expired" \in Taken /\ ~Meant(eaten, n, "expired")
    BY DEF Taken, Meant
  <2>3. /\ Delivered(eaten', sent')
        /\ ~Command(eaten', Len(eaten') + 1)
        /\ (\E i \in DOMAIN eaten' : Command(eaten', i) /\ eaten'[i] \in {"d", "q"}) <=> choice # None
    BY <2>1, <2>2, OneMore
  <2> QED
    BY <2>1, <2>3 DEF Understood
<1>6. CASE InputCloses \/ InputEnds
  BY <1>1, <1>6 DEF InputCloses, InputEnds
<1>7. CASE UNCHANGED loop
  BY <1>1, <1>7 DEF loop
<1> QED
  BY <1>3, <1>4, <1>5, <1>6, <1>7
     DEF Next, ReaderStep, InputStep, MainStep, Type, ReaderSends, ReaderEnds, PumpFails, PumpSeesDone,
         HelperEnds, ContainerExits, ClientExits, WaitReturns, MainSeesExit, MainCloses, MainSeesDone,
         GraceEnds, KillClient, MainReaps, StopContainer, RmContainer, Join, Post, KeepRest

-------------------------------------------------------------------------------
(* The ending *)

LEMMA NextChosen == ASSUME Inv, Next PROVE Chosen'
<1> USE DEF Chosen, None, loop, run
<1>1. CASE InputTakesKey \/ PrefixExpires \/ InputObeys
  BY <1>1 DEF InputTakesKey, PrefixExpires, InputObeys, Takes, Inv
<1>2. CASE InputCloses
  BY <1>2 DEF InputCloses, Inv
<1>3. CASE InputEnds
  BY <1>3 DEF InputEnds, Inv
<1>4. CASE MainStep
  <2>1. UNCHANGED <<input, choice>>
    BY <1>4 DEF MainStep, MainSeesExit, MainCloses, MainSeesDone, GraceEnds, KillClient, MainReaps,
                StopContainer, RmContainer, Join, Post, KeepRest
  <2>2. \/ main' \in {"closing", "join", "post", "returned", "panicked"}
        \/ main' \in {"grace", "kill"} /\ main = "await" /\ done
        \/ main \in {"grace", "kill", "reap", "stop"}
    BY <1>4 DEF MainStep, MainSeesExit, MainCloses, MainSeesDone, GraceEnds, KillClient, MainReaps,
                StopContainer, RmContainer, Join, Post, Goto
  <2>3. main' # "await"
    BY <1>4 DEF MainStep, MainSeesExit, MainCloses, MainSeesDone, GraceEnds, KillClient, MainReaps,
                StopContainer, RmContainer, Join, Post, Goto
  <2> QED
    BY <2>1, <2>2, <2>3 DEF Inv
<1>5. CASE UNCHANGED <<loop, done, main>>
  BY <1>5 DEF Inv
<1> QED
  BY <1>1, <1>2, <1>3, <1>4, <1>5
     DEF Next, ReaderStep, InputStep, Type, ReaderSends, ReaderEnds, PumpFails, PumpSeesDone,
         HelperEnds, ContainerExits, ClientExits, WaitReturns

\* Run comes to its end on a way on which the container has exited, or the user
\* detached, unless the client left a running container or docker stop failed.
LEMMA NextGone == ASSUME Inv, Gone, Next PROVE Gone'
<1> USE Opts DEF Inv, Shape, TypeOK, Control, Chosen, Gone, None, Goto, KeepRest, loop, docker
<1>1. CASE InputObeys
  BY <1>1 DEF InputObeys, Takes, UnderWay, run
<1>2. CASE InputCloses
  BY <1>2 DEF InputCloses
<1>3. CASE ContainerExits \/ ClientExits
  BY <1>3 DEF ContainerExits, ClientExits, run
<1>4. CASE MainSeesExit \/ MainCloses \/ MainSeesDone
  BY <1>4 DEF MainSeesExit, MainCloses, MainSeesDone, TakeStatus
<1>5. CASE GraceEnds \/ KillClient \/ MainReaps
  BY <1>5 DEF GraceEnds, KillClient, MainReaps, TakeStatus
<1>6. CASE StopContainer \/ RmContainer
  <2>1. slips' = slips \/ slips' = slips \cup {"stopFailed"}
    BY <1>6 DEF StopContainer, RmContainer
  <2>2. "stopFailed" \in slips' => slips' # {}
    OBVIOUS
  <2>3. slips # {} => slips' # {}
    BY <2>1
  <2>4. slips' = slips \/ slips' # {}
    BY <2>1, <2>2
  <2> QED
    BY <1>6, <2>3, <2>4 DEF StopContainer, RmContainer
<1>7. CASE Join \/ Post
  BY <1>7 DEF Join, Post
<1>8. CASE UNCHANGED <<opts, choice, client, container, slips, main, cleaned>>
  BY <1>8
<1> QED
  BY <1>1, <1>2, <1>3, <1>4, <1>5, <1>6, <1>7, <1>8
     DEF Next, ReaderStep, InputStep, MainStep, Type, ReaderSends, ReaderEnds, PumpFails, PumpSeesDone,
         HelperEnds, WaitReturns, InputTakesKey, InputEnds, PrefixExpires, run

LEMMA StutterInv == Inv /\ UNCHANGED vars => Inv'
BY DEF Inv, Shape, TypeOK, Control, Understood, Chosen, vars

THEOREM InvHolds == Spec => []Inv
<1>1. Inv /\ Next => Inv'
  BY NextShape, NextUnderstood, NextChosen DEF Inv
<1> QED
  BY <1>1, InitInv, StutterInv, PTL DEF Spec

LEMMA GoneHolds == Spec => []Gone
<1>1. Gone /\ UNCHANGED vars => Gone'
  BY DEF Gone, vars
<1>2. Inv /\ Gone /\ Next => Gone'
  BY NextGone
<1> QED
  BY <1>1, <1>2, InitInv, InvHolds, PTL DEF Spec

-------------------------------------------------------------------------------

\* The container gets the keys outside prefix commands and the literal prefixes, in
\* order, and the terminal ends by the user's will only on a d or q after an odd
\* number of prefixes, however keys, expiries and the shutdown interleave
\* (proxy.go's input loop).
THEOREM KeysAsDocumented == Spec => []KeysInterpreted
<1>1. Inv => KeysInterpreted
  <2> SUFFICES ASSUME Inv PROVE KeysInterpreted
    OBVIOUS
  <2>1. \A i : IsCommand(i) <=> Command(eaten, i)
    BY DEF IsCommand, Command, PrefixesBefore, RunBefore
  <2>2. {i \in DOMAIN eaten : IsForwarded(i)} = Forwarded(eaten)
    BY <2>1 DEF IsForwarded, Forwarded, Meant, IsCommand
  <2>3. \A i : {j \in Forwarded(eaten) : j <= i} = UpTo(eaten, i)
    BY DEF UpTo
  <2> QED
    BY <2>1, <2>2, <2>3 DEF KeysInterpreted, Inv, Shape, Understood, Delivered
<1> QED
  BY <1>1, InvHolds, PTL

\* The session of a running container is cleaned up only if the client had left the
\* container running or docker stop had failed (Run's cleanup, proxy.go).
THEOREM CleanedAfterEnd == Spec => []NoRunningCleanedUp
<1>1. Gone => NoRunningCleanedUp
  BY DEF Gone, NoRunningCleanedUp
<1> QED
  BY <1>1, GoneHolds, PTL

\* And only then has whoever quit and got the shell back left a running container.
THEOREM QuitHasStopped == Spec => []QuitStopsContainer
<1>1. Gone => QuitStopsContainer
  BY DEF Gone, QuitStopsContainer
<1> QED
  BY <1>1, GoneHolds, PTL
===============================================================================
