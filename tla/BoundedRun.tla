----------------------------- MODULE BoundedRun -----------------------------
(***************************************************************************)
(* The bounded, killable run of src/src/executor/bounded.rs, as the three  *)
(* executors of src/src/executor.rs drive it: the engine that pumps three  *)
(* non-blocking pipes under two limits and a deadline, and the processes   *)
(* on the other side of them: sudo or ssh, the supervisor script with its  *)
(* sleep, and a command that does whatever its bounds allow.               *)
(*                                                                         *)
(* A byte is a token.  The command's own are "c", and what looks like the  *)
(* head ("R1") and the rest ("L2") of an exit-status line.  The framing is *)
(* two tokens a word: the sentinel S1 S2, the run's timeout marker M1 M2   *)
(* and the wrapper's exit-status line R1 R2; a transport's own token is    *)
(* "t".  The scripts print from two halves and carry a nonce, so neither a *)
(* denial nor a command prints a sentinel or a marker.  Standard input is  *)
(* the password line "pw", the handoff line "h" and the caller's "i1",     *)
(* "i2", ...                                                               *)
(*                                                                         *)
(* Time is what may pass between two steps: the deadline, the framing      *)
(* grace and the supervisor's sleep run out by steps of their own, and the *)
(* graces of terminate at any moment.                                      *)
(***************************************************************************)
EXTENDS Naturals, Sequences, FiniteSets

CONSTANTS
    Cases,                 \* transports, each with bounds on what its command does
    MaxStdout, MaxStderr,  \* RunLimits
    TransportLimit,        \* TRANSPORT_STDERR_LIMIT
    Cap,                   \* what stdin and stdout hold; stderr holds one more
    MaxTransport           \* bound: what the transport writes

\* input: bytes the caller feeds.  out, err: bounds on what the command writes.
\* tokens: what it writes on stderr.  kids: how a descendant may outlive it.
ASSUME BoundedRunAssumption ==
    /\ \A c \in Cases :
         /\ c.mode \in {"direct", "sudo", "ssh", "sshsudo"}
         /\ c.input \in 0..3 /\ c.out \in Nat /\ c.err \in Nat
         /\ c.tokens \subseteq {"c", "R1", "L2"}
         /\ "none" \in c.kids /\ c.kids \subseteq {"none", "group", "escaped"}
    /\ MaxStdout \in Nat /\ MaxStderr \in Nat /\ TransportLimit \in Nat
    /\ Cap \in Nat \ {0} /\ MaxTransport \in Nat

VARIABLES
    case, password,            \* the case; whether sudo is fed a password
    pc, open,                  \* the engine: its place and its pipe ends
    feed, gotOut, gotErr,      \* bytes not yet fed; the captured output
    grace, ended, result,      \* undecided, Ended, and what finish returned
    inPipe, outPipe, errPipe,  \* the pipes
    expired,                   \* the deadline has passed
    child, linked,             \* the spawned process; the connection
    sup, nap, sub,             \* the script, its sleep, its subshell
    want, closed, kid,         \* the command's current call, its streams, its child
    cmdIn, cmdOut, cmdErr,     \* history: what the command read and wrote
    noise,                     \* history: tokens of the transport
    framed, stalled, dropped,  \* history: framing was written, and outlived its grace; the
                               \*   connection was lost
    strayKill, strayCancel     \* history: a signal to a reaped pid

given == <<case, password>>
engine == <<pc, open, feed, gotOut, gotErr, grace, ended, result>>
pipes == <<inPipe, outPipe, errPipe>>
script == <<sup, nap, sub>>
command == <<want, closed, kid>>
history == <<cmdIn, cmdOut, cmdErr, noise, framed, stalled, dropped, strayKill,
             strayCancel>>
vars == <<given, engine, pipes, expired, child, linked, script, command, history>>

Sentinel == <<"S1", "S2">>
Marker == <<"M1", "M2">>
RcLine == <<"R1", "R2">>

mode == case.mode
Supervised == mode # "direct"
Elevated == mode \in {"sudo", "sshsudo"}
Remote == mode \in {"ssh", "sshsudo"}

Input == SubSeq(<<"i1", "i2", "i3">>, 1, case.input)
\* password_preamble, ahead of the caller's bytes.
Feed == IF password THEN <<"pw", "h">> \o Input ELSE Input

Init ==
    /\ case \in Cases /\ password \in (IF Elevated THEN BOOLEAN ELSE {FALSE})
    /\ pc = "nonblock" /\ open = {"in", "out", "err"}
    /\ feed = Feed /\ gotOut = 0 /\ gotErr = <<>>
    /\ grace = "none" /\ ended = "none" /\ result = [kind |-> "none", err |-> <<>>, code |-> "none"]
    /\ inPipe = <<>> /\ outPipe = 0 /\ errPipe = <<>>
    /\ expired = FALSE /\ child = "alive" /\ linked = Remote
    /\ sup = (CASE mode = "direct" -> "none" [] Elevated -> "elevating" [] OTHER -> "start")
    /\ nap = "none" /\ sub = (IF Supervised THEN "none" ELSE "command")
    /\ want = "none" /\ closed = FALSE /\ kid = "none"
    /\ cmdIn = <<>> /\ cmdOut = 0 /\ cmdErr = <<>> /\ noise = 0
    /\ framed = FALSE /\ stalled = FALSE /\ dropped = FALSE /\ strayKill = FALSE /\ strayCancel = FALSE
-----------------------------------------------------------------------------
(* Reading the captured standard error.                                    *)

\* find: where a word starts in s.
Places(s, word) == {i \in 1..(Len(s) - 1) : SubSeq(s, i, i + 1) = word}
Found(s, word) == Places(s, word) # {}
First(S) == CHOOSE i \in S : \A j \in S : i <= j
Last(S) == CHOOSE i \in S : \A j \in S : i >= j

\* take_sudo_sentinel: all up to the first sentinel goes.
PastSentinel(s) == SubSeq(s, First(Places(s, Sentinel)) + 2, Len(s))

EndsWith(s, t) == Len(t) <= Len(s) /\ SubSeq(s, Len(s) - Len(t) + 1, Len(s)) = t
\* partial_suffix and remote_code_suffix: trailing bytes that may be framing.
PartialSuffix(s) == IF EndsWith(s, <<"M1">>) THEN 1 ELSE 0
RemoteCodeSuffix(s) ==
    CASE EndsWith(s, RcLine) \/ EndsWith(s, <<"R1", "L2">>) -> 2
      [] EndsWith(s, <<"R1">>) -> 1
      [] OTHER -> 0

Larger(a, b) == IF a >= b THEN a ELSE b
Less(a, b) == IF a >= b THEN a - b ELSE 0

\* Framing::attribute.
Attribute(s) ==
    IF ~Supervised THEN [who |-> "command", own |-> Len(s), pending |-> 0]
    ELSE IF ~Found(s, Sentinel) THEN [who |-> "transport", own |-> Len(s), pending |-> 0]
    ELSE LET tail == PastSentinel(s)
             framing == IF Found(tail, Marker) THEN 2 ELSE 0
             arriving == IF framing = 0 THEN PartialSuffix(tail) ELSE 0
             pending == Larger(arriving, IF Remote THEN RemoteCodeSuffix(tail) ELSE 0)
         IN [who |-> "command", own |-> Less(Len(tail), framing + pending),
             pending |-> pending]

\* extract_remote_code: the last exit-status marker, where a number follows it.
RcAt(s) == LET heads == {i \in 1..Len(s) : s[i] = "R1"}
           IN IF heads = {} THEN 0
              ELSE LET at == Last(heads)
                   IN IF at < Len(s) /\ s[at + 1] \in {"R2", "L2"} THEN at ELSE 0

Failed(kind) == [kind |-> kind, err |-> <<>>, code |-> "none"]

\* settle_remote_code, then classify_elevation or take_sudo_sentinel.
Settle(s) ==
    IF Remote /\ RcAt(s) = 0 THEN Failed("connection")
    ELSE LET own == IF Remote THEN SubSeq(s, 1, RcAt(s) - 1) ELSE s
             code == IF Remote THEN s[RcAt(s) + 1] ELSE "R2"
         IN IF ~Supervised THEN [kind |-> "ok", err |-> own, code |-> code]
            ELSE IF Found(own, Sentinel)
                 THEN [kind |-> "ok", err |-> PastSentinel(own), code |-> code]
                 ELSE IF Elevated THEN Failed("refused")
                      ELSE [kind |-> "ok", err |-> own, code |-> code]

\* finish: the supervisor's deadline, the transport's framing, the limits again.
Finish(how, out, err) ==
    CASE how \in {"breachout", "breacherr", "timeout", "spawn"} -> Failed(how)
      [] how \in {"exited", "abandoned"} ->
           IF Supervised /\ Found(err, Marker) THEN Failed("timeout")
           ELSE LET settled == Settle(err)
                IN IF settled.kind # "ok" THEN settled
                   ELSE IF out > MaxStdout THEN Failed("breachout")
                   ELSE IF Len(settled.err) > MaxStderr THEN Failed("breacherr") ELSE settled
-----------------------------------------------------------------------------
(* The pipes as each side sees them.                                       *)

ErrCap == Cap + 1
\* The other side still reaches this one's pipes.
Reaches == Remote => linked
\* Somebody may still write on an output pipe, or read standard input.
InHeld == child = "alive" /\ (Supervised \/ ~closed)
Held == InHeld \/ (kid # "none" /\ ~Remote)
InEof == ~Reaches \/ (inPipe = <<>> /\ "in" \notin open)

\* A write on standard error waits for room; with nobody to read it is lost.
WriteErr(word) ==
    IF "err" \in open /\ Reaches
    THEN Len(errPipe) + Len(word) <= ErrCap /\ errPipe' = errPipe \o word
    ELSE UNCHANGED errPipe

\* Nobody reads the script's standard error: the engine has closed the pipe
\* sudo hands down, or the connection is gone.  A local ssh that has lost its
\* reader goes on reading the far side.
Unread == IF Remote THEN ~linked ELSE "err" \notin open

\* print_split: the shell's own write.  With nobody to read, it raises SIGPIPE,
\* which the script does not trap and which kills it there, unless sudo or
\* sshd, between the two, still takes the write.
ScriptPrints(word, next) ==
    \/ WriteErr(word) /\ sup' = next
    \/ Unread /\ sup' = "piped" /\ UNCHANGED errPipe
-----------------------------------------------------------------------------
(* The engine: run, pump, await_exit, terminate.                           *)

\* The rest of the world during a step of the engine.
Alone == UNCHANGED <<given, expired, script, command, history>>

\* Pumped::Stopped, or an error: the pipes are dropped, then the child killed.
Stop(how) == pc' = "terminate" /\ ended' = how /\ open' = {}

NonBlocking ==
    /\ pc = "nonblock" /\ pc' = "pump"
    /\ open' = IF feed = <<>> THEN open \ {"in"} ELSE open
    /\ UNCHANGED <<feed, gotOut, gotErr, grace, ended, result, pipes, child, linked>>
    /\ Alone

\* Mutant: the input is written first, the output read afterwards.
ReadyPipesInFirst ==
    IF "in" \in open THEN IF Len(inPipe) < Cap \/ ~InHeld THEN {"in"} ELSE {}
    ELSE (IF "out" \in open /\ (outPipe > 0 \/ ~Held) THEN {"out"} ELSE {})
           \cup (IF "err" \in open /\ (errPipe # <<>> \/ ~Held) THEN {"err"} ELSE {})

\* wait_ready: a hang-up is readiness too.
ReadyPipes ==
    (IF "in" \in open /\ (Len(inPipe) < Cap \/ ~InHeld) THEN {"in"} ELSE {})
      \cup (IF "out" \in open /\ (outPipe > 0 \/ ~Held) THEN {"out"} ELSE {})
      \cup (IF "err" \in open /\ (errPipe # <<>> \/ ~Held) THEN {"err"} ELSE {})

\* pump: the write.  A broken pipe is the end of the feeding, not an error.
FeedStdin ==
    CASE "in" \in ReadyPipes /\ InHeld ->
           \E n \in 1..Len(feed) :
             /\ Len(inPipe) + n <= Cap
             /\ inPipe' = inPipe \o SubSeq(feed, 1, n)
             /\ feed' = SubSeq(feed, n + 1, Len(feed))
      [] OTHER -> UNCHANGED <<inPipe, feed>>

\* drain: a read returns some of what a ready pipe holds.
DrainStdout ==
    \E n \in 0..outPipe :
      /\ (n = 0) = ("out" \notin ReadyPipes \/ outPipe = 0)
      /\ gotOut' = gotOut + n /\ outPipe' = outPipe - n

DrainStderr ==
    \E n \in 0..Len(errPipe) :
      /\ (n = 0) = ("err" \notin ReadyPipes \/ errPipe = <<>>)
      /\ gotErr' = gotErr \o SubSeq(errPipe, 1, n)
      /\ errPipe' = SubSeq(errPipe, n + 1, Len(errPipe))

\* The pipes that a turn finishes with: all fed, nobody to feed, end of file.
Finished ==
    (IF feed' = <<>> \/ ("in" \in ReadyPipes /\ ~InHeld) THEN {"in"} ELSE {})
      \cup (IF "out" \in ReadyPipes /\ outPipe = 0 THEN {"out"} ELSE {})
      \cup (IF "err" \in ReadyPipes /\ errPipe = <<>> THEN {"err"} ELSE {})

\* pump: what is done about whose bytes standard error holds.
JudgeStderr ==
    LET whose == Attribute(gotErr')
    IN CASE whose.who = "command" /\ whose.own > MaxStderr ->
              Stop("breacherr") /\ UNCHANGED grace
         [] whose.who = "command" /\ whose.own <= MaxStderr
              /\ whose.own + whose.pending > MaxStderr ->
              IF grace = "over" THEN Stop("breacherr") /\ UNCHANGED grace
              ELSE grace' = "running" /\ open' = open \ Finished /\ UNCHANGED <<pc, ended>>
         [] whose.who = "transport" /\ whose.own > TransportLimit ->
              Stop("abandoned") /\ UNCHANGED grace
         [] OTHER -> grace' = "none" /\ open' = open \ Finished /\ UNCHANGED <<pc, ended>>

\* pump: one turn of its loop, once wait_ready has something ready, or the
\* grace has run out.  Standard output is judged before standard error is read.
PumpTurn ==
    /\ pc = "pump" /\ open # {} /\ ~expired /\ (ReadyPipes # {} \/ grace = "over")
    /\ FeedStdin /\ DrainStdout
    /\ IF gotOut' > MaxStdout
       THEN Stop("breachout") /\ UNCHANGED <<gotErr, errPipe, grace>>
       ELSE DrainStderr /\ JudgeStderr
    /\ UNCHANGED <<result, child, linked>>
    /\ Alone

\* Mutant: an exited child ends the loop too.
PumpEndsOnExit ==
    /\ pc = "pump"
    /\ \/ (open = {} \/ child = "zombie") /\ pc' = "await" /\ open' = {} /\ UNCHANGED ended
       \/ open # {} /\ expired /\ Stop("timeout")
    /\ UNCHANGED <<feed, gotOut, gotErr, grace, result, pipes, child, linked>>
    /\ Alone

\* pump: its loop ends, with every pipe closed or at the deadline.
PumpEnds ==
    /\ pc = "pump"
    /\ \/ open = {} /\ pc' = "await" /\ UNCHANGED <<open, ended>>
       \/ open # {} /\ expired /\ Stop("timeout")
    /\ UNCHANGED <<feed, gotOut, gotErr, grace, result, pipes, child, linked>>
    /\ Alone

\* Mutant: the deadline is looked at once more after the child was reaped.
AwaitExitLate ==
    /\ pc = "await"
    /\ CASE child = "zombie" /\ ~expired ->
              child' = "reaped" /\ ended' = "exited" /\ pc' = "finish" /\ UNCHANGED open
         [] child = "zombie" /\ expired -> child' = "reaped" /\ Stop("timeout")
         [] child # "zombie" /\ expired -> Stop("timeout") /\ UNCHANGED child
         [] child # "zombie" /\ ~expired /\ grace = "over" ->
              Stop("breacherr") /\ UNCHANGED child
         [] OTHER -> FALSE
    /\ UNCHANGED <<feed, gotOut, gotErr, grace, result, pipes, linked>>
    /\ Alone

\* await_exit: reap, or kill at the deadline or at the end of the grace.
AwaitExit ==
    /\ pc = "await"
    /\ CASE child = "zombie" ->
              child' = "reaped" /\ ended' = "exited" /\ pc' = "finish" /\ UNCHANGED open
         [] child # "zombie" /\ expired -> Stop("timeout") /\ UNCHANGED child
         [] child # "zombie" /\ ~expired /\ grace = "over" ->
              Stop("breacherr") /\ UNCHANGED child
         [] OTHER -> FALSE
    /\ UNCHANGED <<feed, gotOut, gotErr, grace, result, pipes, linked>>
    /\ Alone

\* What is left of the script and its group when the group is killed.
GroupDies ==
    /\ sup' = IF sup \in {"none", "exited", "refused", "reported", "piped"} THEN sup ELSE "killed"
    /\ sub' = IF sub \in {"command", "cancel"} THEN "killed" ELSE sub
    /\ nap' = IF nap = "sleeping" THEN "killed" ELSE nap
    /\ kid' = IF kid = "group" THEN "none" ELSE kid
    /\ want' = "none" /\ UNCHANGED closed

NoSignal == UNCHANGED <<script, command>>

\* terminate, Kill::Relay: SIGTERM to sudo, which may or may not relay it.  A
\* script that died has no trap left to kill the group from.
TerminateRelay ==
    /\ pc = "terminate" /\ mode = "sudo" /\ pc' = "relay"
    /\ (sup # "piped" /\ GroupDies) \/ NoSignal
    /\ UNCHANGED <<given, open, feed, gotOut, gotErr, grace, ended, result, pipes,
                   expired, child, linked, history>>

\* terminate: the group is killed before the child is reaped.
TerminateGroup ==
    /\ (pc = "terminate" /\ mode # "sudo") \/ pc = "relay"
    /\ pc' = "reap"
    /\ strayKill' = (strayKill \/ child = "reaped")
    /\ CASE mode = "direct" -> GroupDies /\ UNCHANGED linked
              /\ child' = IF child = "alive" THEN "closed" ELSE child
         [] mode = "sudo" -> /\ UNCHANGED linked
                             /\ \/ NoSignal /\ UNCHANGED child
                                \/ GroupDies /\ child' = IF child = "alive" THEN "closed"
                                                           ELSE child
         [] OTHER -> /\ linked' = FALSE /\ NoSignal
                     /\ child' = IF child = "alive" THEN "closed" ELSE child
    /\ UNCHANGED <<given, open, feed, gotOut, gotErr, grace, ended, result, pipes,
                   expired, cmdIn, cmdOut, cmdErr, noise, framed, stalled, dropped, strayCancel>>

\* reap_within: until the child is reaped or KILL_GRACE runs out.
ReapWithin ==
    /\ pc = "reap" /\ pc' = "finish"
    /\ child' = IF child = "zombie" THEN "reaped" ELSE child
    /\ UNCHANGED <<open, feed, gotOut, gotErr, grace, ended, result, pipes, linked>>
    /\ Alone

RunReturns ==
    /\ pc = "finish" /\ pc' = "returned"
    /\ result' = Finish(ended, gotOut, gotErr)
    /\ UNCHANGED <<open, feed, gotOut, gotErr, grace, ended, pipes, child, linked>>
    /\ Alone

\* A call of the engine fails while it feeds or reads.
Fault ==
    /\ pc \in {"nonblock", "pump"} /\ Stop("spawn")
    /\ UNCHANGED <<given, feed, gotOut, gotErr, grace, result, pipes, expired, child,
                   linked, script, command, history>>

Engine == \/ NonBlocking \/ PumpTurn \/ PumpEnds \/ AwaitExit \/ TerminateRelay \/ TerminateGroup \/ ReapWithin \/ RunReturns
-----------------------------------------------------------------------------
(* The other side: external, as the engine and the script's text use it.   *)

\* The rest of the world during a step of the other side.
Beside == UNCHANGED <<given, engine, expired>>
Quiet == UNCHANGED <<cmdIn, cmdOut, cmdErr, stalled, dropped, strayKill>>

\* sudo or ssh writes before the command starts.
TransportWrites ==
    /\ sup \in {"elevating", "asking", "start"} /\ child = "alive" /\ noise < MaxTransport
    /\ noise' = noise + 1 /\ WriteErr(<<"t">>)
    /\ UNCHANGED <<inPipe, outPipe, child, linked, script, command, framed, strayCancel>>
    /\ Beside /\ Quiet

\* sudo reads a line as a password, and where it is none the next one too.
SudoReads ==
    /\ sup \in {"elevating", "asking"} /\ password /\ inPipe # <<>> /\ Reaches
    /\ inPipe' = Tail(inPipe)
    /\ sup' \in (IF Head(inPipe) = "pw" THEN {"asking", "start"} ELSE {"asking"})
    /\ UNCHANGED <<outPipe, errPipe, child, linked, nap, sub, command, noise, framed, strayCancel>>
    /\ Beside /\ Quiet

\* sudo grants without a password, or refuses.
SudoDecides ==
    /\ sup \in {"elevating", "asking"}
    /\ sup' \in (IF sup = "elevating" THEN {"start", "refused"} ELSE {"refused"})
    /\ UNCHANGED <<pipes, child, linked, nap, sub, command, noise, framed, strayCancel>>
    /\ Beside /\ Quiet

\* script: the sentinel first, so that a refusal is told from a failure.
SupervisorStarts ==
    /\ sup = "start" /\ ScriptPrints(Sentinel, IF password THEN "discard" ELSE "nap")
    /\ UNCHANGED <<inPipe, outPipe, child, linked, nap, sub, command, noise, framed, strayCancel>>
    /\ Beside /\ Quiet

\* Mutant: one line is discarded, whichever it is.
DiscardsOneLine ==
    /\ sup = "discard"
    /\ IF InEof THEN sup' = "exited" /\ UNCHANGED inPipe
       ELSE /\ inPipe # <<>> /\ inPipe' = Tail(inPipe) /\ sup' = "nap"
    /\ UNCHANGED <<outPipe, errPipe, child, linked, nap, sub, command, noise, framed, strayCancel>>
    /\ Beside /\ Quiet

\* Handoff::discard: lines go until the handoff line; an end before it is exit 1.
SupervisorDiscards ==
    /\ sup = "discard"
    /\ IF InEof THEN sup' = "exited" /\ UNCHANGED inPipe
       ELSE /\ inPipe # <<>> /\ inPipe' = Tail(inPipe)
            /\ sup' = IF Head(inPipe) = "h" THEN "nap" ELSE "discard"
    /\ UNCHANGED <<outPipe, errPipe, child, linked, nap, sub, command, noise, framed, strayCancel>>
    /\ Beside /\ Quiet

\* script: the sleep is started before the command.
SupervisorRuns ==
    /\ sup = "nap" /\ sup' = "waitnap" /\ nap' = "sleeping" /\ sub' = "command"
    /\ UNCHANGED <<pipes, child, linked, command, noise, framed, strayCancel>>
    /\ Beside /\ Quiet

NapRunsOut ==
    /\ nap = "sleeping" /\ nap' = "done"
    /\ UNCHANGED <<pipes, child, linked, sup, sub, command, noise, framed, strayCancel>>
    /\ Beside /\ Quiet

\* script: `wait "$nap"`, which reaps the sleep, and then `wait "$run"`.
SupervisorWaits ==
    /\ \/ /\ sup = "waitnap" /\ nap \in {"done", "killed"} /\ nap' = "reaped"
          /\ sup' = IF nap = "done" THEN "marker" ELSE "waitrun"
       \/ sup = "waitrun" /\ sub = "exited" /\ sup' = "exited" /\ UNCHANGED nap
    /\ UNCHANGED <<pipes, child, linked, sub, command, noise, framed, strayCancel>>
    /\ Beside /\ Quiet

\* script: the timeout marker.
SupervisorMarks ==
    /\ sup = "marker" /\ ScriptPrints(Marker, "killall") /\ framed' = TRUE
    /\ UNCHANGED <<inPipe, outPipe, child, linked, nap, sub, command, noise, strayCancel>>
    /\ Beside /\ Quiet

\* Mutant: the script exits at its deadline.
SupervisorGivesUp ==
    /\ sup = "killall" /\ sup' = "exited"
    /\ UNCHANGED <<pipes, child, linked, nap, sub, command, noise, framed, strayCancel>>
    /\ Beside /\ Quiet

\* script: `kill -KILL 0`.
SupervisorKillsAll ==
    /\ sup = "killall" /\ GroupDies
    /\ UNCHANGED <<pipes, child, linked, noise, framed, strayCancel>>
    /\ Beside /\ Quiet

\* script: the subshell kills the sleep the moment the command exits.
SubshellCancels ==
    /\ sub = "cancel" /\ sub' = "exited"
    /\ nap' = IF nap = "sleeping" THEN "killed" ELSE nap
    /\ strayCancel' = (nap = "reaped")
    /\ UNCHANGED <<pipes, child, linked, sup, command, noise, framed>>
    /\ Beside /\ Quiet

\* wrap_with_rc_marker: the line after the script; a killed group may have
\* held the wrapper.  After a script that died at a print there is nobody to
\* read it.
WrapperReports ==
    /\ Remote /\ sup \in {"exited", "refused", "killed"} /\ sup' = "reported"
    /\ \/ WriteErr(RcLine) /\ framed' = TRUE
       \/ sup = "killed" /\ UNCHANGED <<errPipe, framed>>
    /\ UNCHANGED <<inPipe, outPipe, child, linked, nap, sub, command, noise, strayCancel>>
    /\ Beside /\ Quiet

\* sudo after the script, ssh after the wrapper and all that holds its pipes.
ChildCloses ==
    /\ child = "alive" /\ child' = "closed"
    /\ \/ mode = "sudo" /\ sup \in {"exited", "refused", "killed", "piped"} /\ UNCHANGED linked
       \/ Remote /\ sup = "reported" /\ kid = "none" /\ linked' = FALSE
    /\ UNCHANGED <<pipes, script, command, noise, framed, strayCancel>>
    /\ Beside /\ Quiet

\* The connection is lost: ssh says so and exits, the far side runs on.
ConnectionLost ==
    /\ Remote /\ linked /\ child = "alive"
    /\ linked' = FALSE /\ child' = "closed" /\ dropped' = TRUE
    /\ errPipe' \in (IF "err" \in open /\ Len(errPipe) < ErrCap
                     THEN {errPipe, Append(errPipe, "t")} ELSE {errPipe})
    /\ UNCHANGED <<inPipe, outPipe, script, command, cmdIn, cmdOut, cmdErr, noise, framed, stalled,
                   strayKill, strayCancel>>
    /\ Beside

\* A process that closed its files has yet to become one to wait for.
ChildExits ==
    /\ child = "closed" /\ child' = "zombie"
    /\ UNCHANGED <<pipes, linked, script, command, noise, framed, strayCancel>>
    /\ Beside /\ Quiet
-----------------------------------------------------------------------------
(* The command: any reads and writes within its bounds, each waiting until *)
(* it can be done, then an exit.                                           *)

Calls == {"in", "out"} \cup case.tokens
Wants(w) ==
    /\ ~closed
    /\ CASE w = "in" -> Len(cmdIn) < case.input /\ ~InEof
         [] w = "out" -> cmdOut < case.out
         [] OTHER -> Len(cmdErr) < case.err
Can(w) == CASE w = "in" -> InEof \/ inPipe # <<>>
            [] w = "out" -> "out" \notin open \/ ~Reaches \/ outPipe < Cap
            [] OTHER -> "err" \notin open \/ ~Reaches \/ Len(errPipe) < ErrCap

CommandCalls(w) ==
    /\ sub = "command" /\ (want = w \/ (want = "none" /\ Wants(w)))
    /\ Can(w) /\ want' = "none"
    /\ CASE w = "in" ->
              IF InEof THEN UNCHANGED <<inPipe, cmdIn, outPipe, cmdOut, errPipe, cmdErr>>
              ELSE /\ inPipe' = Tail(inPipe) /\ cmdIn' = Append(cmdIn, Head(inPipe))
                   /\ UNCHANGED <<outPipe, cmdOut, errPipe, cmdErr>>
         [] w = "out" ->
              /\ outPipe' = IF "out" \in open /\ Reaches THEN outPipe + 1 ELSE outPipe
              /\ cmdOut' = cmdOut + 1 /\ UNCHANGED <<inPipe, cmdIn, errPipe, cmdErr>>
         [] OTHER ->
              /\ WriteErr(<<w>>) /\ cmdErr' = Append(cmdErr, w)
              /\ UNCHANGED <<inPipe, cmdIn, outPipe, cmdOut>>
    /\ UNCHANGED <<child, linked, script, closed, kid, noise, framed, stalled, dropped, strayKill,
                   strayCancel>>
    /\ Beside

CommandBlocks(w) ==
    /\ sub = "command" /\ want = "none" /\ Wants(w) /\ ~Can(w) /\ want' = w
    /\ UNCHANGED <<pipes, child, linked, script, closed, kid, noise, framed, strayCancel>>
    /\ Beside /\ Quiet

\* The command closes its standard streams and runs on.
CommandCloses ==
    /\ sub = "command" /\ want = "none" /\ ~Supervised /\ ~closed /\ closed' = TRUE
    /\ UNCHANGED <<pipes, child, linked, script, want, kid, noise, framed, strayCancel>>
    /\ Beside /\ Quiet

CommandExits ==
    /\ sub = "command" /\ want = "none"
    /\ sub' = IF Supervised THEN "cancel" ELSE "exited"
    /\ child' = IF Supervised THEN child ELSE "closed"
    /\ kid' \in (IF closed THEN {"none"} ELSE case.kids)
    /\ UNCHANGED <<pipes, linked, sup, nap, want, closed, noise, framed, strayCancel>>
    /\ Beside /\ Quiet

DescendantExits ==
    /\ kid # "none" /\ kid' = "none"
    /\ UNCHANGED <<pipes, child, linked, script, want, closed, noise, framed, strayCancel>>
    /\ Beside /\ Quiet
-----------------------------------------------------------------------------
(* Time.                                                                   *)

DeadlinePasses ==
    /\ ~expired /\ pc \notin {"finish", "returned"} /\ expired' = TRUE
    /\ UNCHANGED <<given, engine, pipes, child, linked, script, command, history>>

GraceRunsOut ==
    /\ grace = "running" /\ grace' = "over" /\ pc \in {"pump", "await"}
    /\ stalled' = (stalled \/ framed)
    /\ UNCHANGED <<given, pc, open, feed, gotOut, gotErr, ended, result, pipes, expired,
                   child, linked, script, command, cmdIn, cmdOut, cmdErr, noise, framed,
                   dropped, strayKill, strayCancel>>

Script == \/ SudoReads \/ SudoDecides \/ SupervisorStarts \/ SupervisorDiscards
          \/ SupervisorRuns \/ SupervisorWaits \/ SupervisorMarks \/ SupervisorKillsAll
          \/ SubshellCancels \/ WrapperReports \/ ChildCloses \/ ChildExits
Command == (\E w \in Calls : CommandCalls(w) \/ CommandBlocks(w)) \/ CommandExits

Next == \/ Engine \/ Fault \/ Script \/ Command \/ TransportWrites \/ NapRunsOut
        \/ ConnectionLost \/ CommandCloses \/ DescendantExits \/ DeadlinePasses \/ GraceRunsOut

\* The engine is one sequential thread, and sudo, ssh and the script run as any
\* process does.  Nothing is assumed of the command, of its descendants, of
\* the deadline or of the sleep: the properties that need one of them say so.
Spec == Init /\ [][Next]_vars /\ WF_vars(Engine) /\ WF_vars(Script)
-----------------------------------------------------------------------------
(* Properties.                                                             *)

TypeOK ==
    /\ case \in Cases /\ password \in BOOLEAN
    /\ pc \in {"nonblock", "pump", "await", "terminate", "relay", "reap", "finish", "returned"}
    /\ open \subseteq {"in", "out", "err"}
    /\ Len(inPipe) <= Cap /\ outPipe \in 0..Cap /\ Len(errPipe) <= ErrCap
    /\ grace \in {"none", "running", "over"}
    /\ ended \in {"none", "exited", "abandoned", "breachout", "breacherr", "timeout", "spawn"}
    /\ child \in {"alive", "closed", "zombie", "reaped"} /\ linked \in BOOLEAN
    /\ nap \in {"none", "sleeping", "done", "killed", "reaped"}
    /\ sub \in {"none", "command", "cancel", "exited", "killed"}
    /\ kid \in case.kids /\ closed \in BOOLEAN /\ expired \in BOOLEAN

\* A result is what happened.  An output that is returned is the command's,
\* whole and alone: the command exited by itself, every byte it wrote on either
\* stream was captured and is within its limit, and nothing of sudo, ssh or the
\* script is left in it.  The one exception is a command that printed an
\* exit-status line of its own on a connection that was then lost.  A run
\* reported past a limit was: what a transport writes before the command starts,
\* the sentinel, the marker and the exit-status line never count as the
\* command's, however the reads split them, unless a line that was written stayed
\* unresolved for the whole of FRAMING_GRACE, or ssh reported a connection lost
\* under a running command.  After an exit, a refusal of sudo means the command
\* was never started, and a failed connection that the wrapper's line did not
\* come through.
ResultIsReal ==
    /\ result.kind = "ok" =>
         /\ ended = "exited"
         /\ \/ /\ sub = "exited" /\ gotOut = cmdOut /\ cmdOut <= MaxStdout
               /\ result.err = cmdErr /\ Len(cmdErr) <= MaxStderr
            \/ result.code = "L2" /\ Remote
    /\ result.kind = "breachout" => cmdOut > MaxStdout
    /\ result.kind = "breacherr" => Len(cmdErr) > MaxStderr \/ stalled \/ dropped
    /\ result.kind = "refused" /\ ended = "exited" => sub = "none"
    /\ result.kind = "connection" /\ ended = "exited" => ~Found(gotErr, RcLine)

\* Whether sudo read the password line or left it, and whatever it did with
\* the handoff line, the command's input is the caller's from the first byte.
StdinIsTheCallers == cmdIn = SubSeq(Input, 1, Len(cmdIn))

\* Kills reach the run and nothing else.  The engine never signals a group
\* whose leader it has reaped; the subshell signals a sleep that was reaped only
\* after the sleep ran out, between the end of the script's wait and its killing
\* the group, or after the script died at its marker.  A run of a command spawned directly that stops early has killed
\* the command and every descendant that stayed in its group before it returns.
KillsAreTheRuns ==
    /\ ~strayKill /\ (strayCancel => sup \notin {"waitnap", "waitrun", "exited"})
    /\ pc = "returned" /\ mode = "direct" /\ ended # "exited" => sub # "command" /\ kid # "group"

\* Every run returns, whatever the command and its descendants do and whoever
\* holds the pipes, if the deadline passes; and no deadline is needed for a
\* command that keeps going and leaves nobody behind: the pipes never block the
\* engine and the command on each other.
Returns ==
    /\ WF_vars(DeadlinePasses) => <>(pc = "returned")
    /\ WF_vars(Command) /\ [](kid = "none") => <>(pc = "returned")

\* Both deadlines pass, the engine's and the supervisor's.
DeadlinesPass == WF_vars(DeadlinePasses) /\ WF_vars(NapRunsOut)

\* A command that outlives its run for good is one whose script died printing
\* its marker with nobody to read it: wherever else the engine's kill does not
\* reach, a connection that was lost before the command's end or a signal that
\* was not relayed included, the supervisor's own deadline does.
OutlivesOnlyPiped == DeadlinesPass => <>[](sub = "command" => sup = "piped")

\* "This is what ends the command on the far side of an SSH connection, which
\* a signal to the local `ssh` never reaches, and it is the backstop wherever
\* the relay fails to arrive" (Supervisor).  It is not: the engine's pipes are
\* gone by then, and the print ahead of `kill -KILL 0` kills the script alone.
CommandDies == DeadlinesPass => <>[](sub # "command")
=============================================================================
