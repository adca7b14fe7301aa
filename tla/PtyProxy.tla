------------------------------- MODULE PtyProxy -------------------------------
(***************************************************************************)
(* The terminal of a session (internal/proxy/proxy.go, Run): a docker      *)
(* client under a pseudo terminal, and the goroutines around it.  The      *)
(* reader takes keys from the host terminal, the input loop forwards them  *)
(* or obeys the prefix key, the pump copies the container's output, the    *)
(* helpers redraw the status bar, and Run itself waits for the client to   *)
(* exit or for the channel "done", which both Run and the input loop       *)
(* close.                                                                  *)
(***************************************************************************)
EXTENDS Naturals, Sequences, FiniteSets

CONSTANTS
  MaxKeys,  \* bound: keys the user types
  ChanCap   \* capacity of stdinCh

ASSUME ConstantsAssumption == MaxKeys \in Nat /\ ChanCap \in Nat \ {0}

Key == {"prefix", "d", "q", "other"}
Helper == {"ticker", "winch"}
None == "none"

VARIABLES
  opts,       \* attached: ContainerName is set; auto: AutoRemove with a Cleanup
  reader,     \* the key the reader holds, None, or "ended"
  chan,       \* stdinCh
  typed,      \* keys typed so far
  input,      \* the input loop
  eaten,      \* what the input loop has taken: keys and expired prefixes
  sent,       \* keys written to the container
  choice,     \* what the user asked for: None, "detach" or "quit"
  done,       \* is the channel closed?
  pump,       \* is the pump still running?
  helpers,    \* the helpers still running
  client,     \* the docker client: "running" or "exited"
  cmdDone,    \* its exit status: not there, "ready" in the channel, or "taken"
  container,  \* "running", "exited" or "removed"
  slips,      \* "clientLeft": the client exited and its container ran on;
              \* "stopFailed": so did docker stop
  main,       \* where Run is; "panicked" when the process has died
  cleaned,    \* has Cleanup been called?
  raw         \* is the host terminal still in raw mode?

vars == <<opts, reader, chan, typed, input, eaten, sent, choice, done, pump, helpers,
          client, cmdDone, container, slips, main, cleaned, raw>>

terminal == <<reader, chan, typed>>
loop     == <<input, eaten, sent, choice>>
workers  == <<pump, helpers>>
docker   == <<client, cmdDone, container, slips>>
run      == <<main, cleaned, raw>>

\* shell runs its container directly and removes nothing.
Init ==
  /\ opts \in {o \in [attached : BOOLEAN, auto : BOOLEAN] : o.auto => o.attached}
  /\ reader = None /\ chan = <<>> /\ typed = 0
  /\ input = "normal" /\ eaten = <<>> /\ sent = <<>> /\ choice = None
  /\ done = FALSE /\ pump = TRUE /\ helpers = Helper
  /\ client = "running" /\ cmdDone = None /\ container = "running"
  /\ slips = {} /\ main = "await" /\ cleaned = FALSE /\ raw = TRUE

\* Run is under way: it has not returned, nor has the process died of a panic.
UnderWay == main \notin {"returned", "panicked"}

-------------------------------------------------------------------------------
(* The reader, which may block on the terminal for ever. *)

Type(k) ==
  /\ UnderWay /\ reader = None /\ typed < MaxKeys
  /\ reader' = k /\ typed' = typed + 1
  /\ UNCHANGED <<opts, chan, loop, done, workers, docker, run>>

ReaderSends ==
  /\ UnderWay /\ reader \in Key /\ Len(chan) < ChanCap
  /\ chan' = Append(chan, reader) /\ reader' = None
  /\ UNCHANGED <<opts, typed, loop, done, workers, docker, run>>

ReaderEnds ==
  /\ UnderWay /\ reader \in Key /\ done
  /\ reader' = "ended"
  /\ UNCHANGED <<opts, chan, typed, loop, done, workers, docker, run>>

-------------------------------------------------------------------------------
(* The input loop. *)

\* A key outside a prefix, or the second of two prefixes, is meant for the container.
Forwards(k) == input = "normal" <=> k # "prefix"

Takes ==
  /\ UnderWay /\ input \in {"normal", "prefix"} /\ chan # <<>>
  /\ chan' = Tail(chan) /\ eaten' = Append(eaten, Head(chan))

InputTakesStaysInPrefix ==
  /\ Takes
  /\ input = "prefix" => Head(chan) \notin {"d", "q"}
  /\ sent' = IF Forwards(Head(chan)) THEN Append(sent, Head(chan)) ELSE sent
  /\ input' = IF Forwards(Head(chan)) THEN "normal" ELSE "prefix"
  /\ UNCHANGED <<opts, reader, typed, choice, done, workers, docker, run>>

\* After a prefix, any key but d, q and the prefix is ignored.
InputTakesKey ==
  /\ Takes
  /\ input = "prefix" => Head(chan) \notin {"d", "q"}
  /\ sent' = IF Forwards(Head(chan)) THEN Append(sent, Head(chan)) ELSE sent
  /\ input' = IF input = "normal" /\ Head(chan) = "prefix" THEN "prefix" ELSE "normal"
  /\ UNCHANGED <<opts, reader, typed, choice, done, workers, docker, run>>

\* detached or quit is set and the overlay is drawn; closing done comes next.
InputObeys ==
  /\ Takes
  /\ input = "prefix" /\ Head(chan) \in {"d", "q"}
  /\ choice' = IF Head(chan) = "d" THEN "detach" ELSE "quit"
  /\ input' = "closing"
  /\ UNCHANGED <<opts, reader, typed, sent, done, workers, docker, run>>

\* Closing a closed channel panics.  In this goroutine nothing recovers it, and
\* the deferred term.Restore of Run, another goroutine, does not happen.
InputCloses ==
  /\ UnderWay /\ input = "closing"
  /\ input' = "ended" /\ done' = TRUE
  /\ main' = IF done THEN "panicked" ELSE main
  /\ UNCHANGED <<opts, terminal, eaten, sent, choice, workers, docker, cleaned, raw>>

PrefixExpires ==
  /\ UnderWay /\ input = "prefix"
  /\ input' = "normal" /\ eaten' = Append(eaten, "expired")
  /\ UNCHANGED <<opts, terminal, sent, choice, done, workers, docker, run>>

InputEnds ==
  /\ UnderWay /\ input \in {"normal", "prefix"} /\ done
  /\ input' = "ended"
  /\ UNCHANGED <<opts, terminal, eaten, sent, choice, done, workers, docker, run>>

-------------------------------------------------------------------------------
(* The pump, the helpers and docker. *)

\* The blocked read fails once the client is gone.
PumpFails ==
  /\ UnderWay /\ pump /\ client = "exited"
  /\ pump' = FALSE
  /\ UNCHANGED <<opts, terminal, loop, done, helpers, docker, run>>

\* ... or some output comes, and the pump sees that done is closed.
PumpSeesDone ==
  /\ UnderWay /\ pump /\ done
  /\ pump' = FALSE
  /\ UNCHANGED <<opts, terminal, loop, done, helpers, docker, run>>

HelperEnds(h) ==
  /\ UnderWay /\ h \in helpers /\ done
  /\ helpers' = helpers \ {h}
  /\ UNCHANGED <<opts, terminal, loop, done, pump, docker, run>>

ContainerExits ==
  /\ container = "running"
  /\ container' = "exited"
  /\ UNCHANGED <<opts, terminal, loop, done, workers, client, cmdDone, slips, run>>

\* The client exits with its container, or leaves it running: on docker's own
\* detach keys, which no argument turns off, or when it loses the daemon.
ClientExits ==
  /\ client = "running"
  /\ client' = "exited"
  /\ slips' = IF container = "running" THEN slips \cup {"clientLeft"} ELSE slips
  /\ UNCHANGED <<opts, terminal, loop, done, workers, cmdDone, container, run>>

WaitReturns ==
  /\ UnderWay /\ client = "exited" /\ cmdDone = None
  /\ cmdDone' = "ready"
  /\ UNCHANGED <<opts, terminal, loop, done, workers, client, container, slips, run>>

-------------------------------------------------------------------------------
(* Run, from its select on. *)

\* Run restores the terminal after the join, and, deferred, when it panics itself.
Goto(from, to) ==
  /\ main = from /\ main' = to
  /\ cleaned' = cleaned /\ raw' = (raw /\ to \notin {"post", "panicked"})
KeepRest == UNCHANGED <<opts, terminal, loop, workers>>

TakeStatus == cmdDone = "ready" /\ cmdDone' = "taken" /\ UNCHANGED <<client, container, slips>>

\* The client exited first.  done is closed unless it is closed already, but
\* looking and closing are two steps.
MainSeesExit ==
  /\ Goto("await", IF done THEN "join" ELSE "closing")
  /\ TakeStatus /\ KeepRest /\ UNCHANGED done

MainCloses ==
  /\ Goto("closing", IF done THEN "panicked" ELSE "join")
  /\ done' = TRUE /\ KeepRest /\ UNCHANGED docker

\* The user detached or quit first.
MainSeesDone ==
  /\ done
  /\ Goto("await", IF opts.attached THEN "kill" ELSE IF choice = "quit" THEN "grace" ELSE "join")
  /\ KeepRest /\ UNCHANGED <<done, docker>>

\* Five seconds after a SIGTERM the client is killed.
GraceEnds ==
  /\ \/ TakeStatus /\ Goto("grace", "join")
     \/ Goto("grace", "kill") /\ UNCHANGED docker
  /\ KeepRest /\ UNCHANGED done

KillClient ==
  /\ Goto("kill", "reap")
  /\ client' = "exited" /\ KeepRest /\ UNCHANGED <<done, cmdDone, container, slips>>

MainReapsOnly ==
  /\ Goto("reap", "join")
  /\ TakeStatus /\ KeepRest /\ UNCHANGED done

MainReaps ==
  /\ Goto("reap", IF opts.attached /\ choice = "quit" THEN "stop" ELSE "join")
  /\ TakeStatus /\ KeepRest /\ UNCHANGED done

StopContainer ==
  /\ Goto("stop", "rm")
  /\ \/ container' = (IF container = "running" THEN "exited" ELSE container) /\ slips' = slips
     \/ container = "running" /\ container' = container /\ slips' = slips \cup {"stopFailed"}
  /\ KeepRest /\ UNCHANGED <<done, client, cmdDone>>

\* docker rm does not remove a running container.
RmContainer ==
  /\ Goto("rm", "join")
  /\ container' = IF container = "running" THEN container ELSE "removed"
  /\ KeepRest /\ UNCHANGED <<done, client, cmdDone, slips>>

JoinReaderToo ==
  /\ input = "ended" /\ ~pump /\ helpers = {} /\ reader = "ended"
  /\ Goto("join", "post") /\ KeepRest /\ UNCHANGED <<done, docker>>

\* wg.Wait: every goroutine but the reader.
Join ==
  /\ input = "ended" /\ ~pump /\ helpers = {}
  /\ Goto("join", "post") /\ KeepRest /\ UNCHANGED <<done, docker>>

PostAlwaysCleans ==
  /\ main = "post" /\ main' = "returned" /\ cleaned' = opts.auto /\ raw' = raw
  /\ KeepRest /\ UNCHANGED <<done, docker>>

Post ==
  /\ main = "post" /\ main' = "returned"
  /\ cleaned' = (opts.auto /\ choice # "detach") /\ raw' = raw
  /\ KeepRest /\ UNCHANGED <<done, docker>>

-------------------------------------------------------------------------------

ReaderStep == (\E k \in Key : Type(k)) \/ ReaderSends \/ ReaderEnds

InputStep == InputTakesKey \/ InputObeys \/ InputCloses \/ InputEnds

MainStep ==
  \/ MainSeesExit \/ MainCloses \/ MainSeesDone \/ GraceEnds \/ KillClient \/ MainReaps
  \/ StopContainer \/ RmContainer \/ Join \/ Post

Next ==
  \/ ReaderStep \/ InputStep \/ PrefixExpires
  \/ PumpFails \/ PumpSeesDone \/ \E h \in Helper : HelperEnds(h)
  \/ ContainerExits \/ ClientExits \/ WaitReturns
  \/ MainStep

Spec == Init /\ [][Next]_vars

\* The goroutines run, and a client whose container is gone exits.  Nothing
\* makes the user type or the container write.
Fairness ==
  /\ WF_vars(InputStep) /\ WF_vars(PumpFails) /\ WF_vars(WaitReturns) /\ WF_vars(MainStep)
  /\ \A h \in Helper : WF_vars(HelperEnds(h))
  /\ WF_vars(container # "running" /\ ClientExits)

FairSpec == Spec /\ Fairness

-------------------------------------------------------------------------------
(* Properties. *)

\* The shape of the state; the input loop and the helpers end only when done is closed.
TypeOK ==
  /\ opts \in [attached : BOOLEAN, auto : BOOLEAN]
  /\ reader \in Key \cup {None, "ended"} /\ chan \in Seq(Key) /\ Len(chan) <= ChanCap
  /\ input \in {"normal", "prefix", "closing", "ended"}
  /\ choice \in {None, "detach", "quit"} /\ pump \in BOOLEAN /\ helpers \subseteq Helper
  /\ cmdDone \in {None, "ready", "taken"} /\ (cmdDone # None => client = "exited")
  /\ slips \subseteq {"clientLeft", "stopFailed"} /\ raw \in BOOLEAN
  /\ input = "ended" \/ helpers # Helper => done

\* How many prefixes stand right before position i of what the loop has taken.
PrefixesBefore(i) ==
  Cardinality({j \in 1..(i - 1) : \A l \in j..(i - 1) : eaten[l] = "prefix"})
IsCommand(i) == PrefixesBefore(i) % 2 = 1
IsForwarded(i) == eaten[i] # "expired" /\ IsCommand(i) = (eaten[i] = "prefix")

\* The keys the container gets are exactly those outside a prefix command and the
\* literal prefixes, in order; the terminal ends by the user's will only on a d or
\* a q that follows an odd number of prefixes.
KeysInterpreted ==
  /\ TypeOK
  /\ LET Forwarded == {i \in DOMAIN eaten : IsForwarded(i)}
     IN /\ Len(sent) = Cardinality(Forwarded)
        /\ \A i \in Forwarded :
             sent[Cardinality({j \in Forwarded : j <= i})] = eaten[i]
  /\ choice # None <=> \E i \in DOMAIN eaten : IsCommand(i) /\ eaten[i] \in {"d", "q"}

\* The session of a running container is cleaned up only if the client had left the
\* container running or docker stop had failed: detaching never does it, however
\* the user, the exit and the shutdown race (proxy.go's "Post-exit cleanup").
NoRunningCleanedUp == cleaned /\ container = "running" => slips # {}

\* Whoever asked for "quit" and got the shell back has left no running container,
\* unless the client had left it or docker stop failed.
QuitStopsContainer ==
  main = "returned" /\ opts.attached /\ choice = "quit" /\ container = "running" => slips # {}

\* Run returns once the client has exited, or the user quit or detached from an
\* attached session, without waiting for one more key; the process dies instead only
\* when the user had given a command (see TerminalRestored).
RunReturns ==
  (client = "exited" \/ choice = "quit" \/ (choice = "detach" /\ opts.attached)) ~>
     (main = "returned" \/ (main = "panicked" /\ choice # None))

\* "Save and restore terminal state" (proxy.go:77): however Run or the process ends,
\* the terminal is out of raw mode.  It is not when the client's exit and the user's
\* d or q both find done open: the second close kills the process.
TerminalRestored == ~UnderWay => ~raw

===============================================================================
