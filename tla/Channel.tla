------------------------------ MODULE Channel ------------------------------
(***************************************************************************)
(* The long-lived channel of src/src/executor/channel.rs: open_started and *)
(* open_direct, the start script on the other end, the drain thread that   *)
(* empties standard error for the channel's life, and wait, kill and drop. *)
(*                                                                         *)
(* A pipe is a sequence of tokens.  On standard input a password line is   *)
(* "p" "q" ("q" ends the line), the handoff line is "H", and the caller's  *)
(* bytes are CallerBytes.  On standard error "t" is the transport's text,  *)
(* "s" "S" the sentinel in two parts, "nl" "M" digit "nl" the exit-status  *)
(* line of the SSH wrapper, and anything the command writes is one of the  *)
(* words of the case, an exit-status line of its own among them.           *)
(***************************************************************************)
EXTENDS Integers, Sequences, FiniteSets, SequencesExt

CONSTANTS
    Cases,           \* the channels to open: see CaseType
    Cap,             \* room in a pipe
    TransportLimit,  \* TRANSPORT_STDERR_LIMIT
    MaxTransport,    \* bound: the transport's text before the sentinel
    StatusHold,      \* STATUS_HOLD
    MaxStderr        \* ChannelLimits::max_stderr

CaseType ==
    [mode : {"direct", "sudo", "ssh", "sshsudo"}, password : BOOLEAN,
     asks : SUBSET {"ask", "cached", "refuse", "hang"},   \* what sudo does
     killable : SUBSET BOOLEAN,                           \* kill(2) is allowed
     input : 0..3, out : Nat, err : Nat,                   \* bytes and words
     words : SUBSET Seq({"c", "nl", "M", "0", "1"}),
     kids : SUBSET {"gone", "holds"},                     \* a descendant
     takes : SUBSET {"in", "out"}]

ASSUME ChannelAssumption ==
    /\ Cases \subseteq CaseType
    /\ Cap \in Nat \ {0} /\ TransportLimit \in Nat /\ MaxTransport \in Nat
    /\ StatusHold \in Nat /\ StatusHold >= 4 /\ MaxStderr \in Nat

VARIABLES
    case, asks, killable,        \* the channel, and what its host does
    pc, result,                  \* the caller's thread
    fed, read,                   \* password written, standard error read
    inEnd, sent,                 \* who holds our end of stdin
    stdin, err, out,             \* the pipes
    proc, line,                  \* sudo, the start script, the command
    got, eof, cmdErr, errLeft, outLeft, rc, kid,   \* the command
    tail,                        \* what the SSH wrapper still has to print
    up, status, reaped,          \* the local transport process
    drain, wake, sink            \* the drain thread

opener == <<pc, result, fed, read>>
ours == <<inEnd, sent>>
pipes == <<stdin, err, out>>
said == <<cmdErr, errLeft>>
theirs == <<proc, line, got, eof, said, outLeft, rc, kid, tail>>
local == <<up, status, reaped>>
thread == <<drain, wake, sink>>
setup == <<case, asks, killable>>
vars == <<setup, opener, ours, pipes, theirs, local, thread>>

Remote == case.mode \in {"ssh", "sshsudo"}
Elevated == case.mode \in {"sudo", "sshsudo"}
CallerBytes == <<"b1", "b2", "b3">>
PasswordLine == IF case.password THEN <<"p", "q">> ELSE <<>>
-----------------------------------------------------------------------------
(* What is read out of standard error *)

\* find, for the sentinel: the place of its first part, 0 if it is not there.
FindSentinel(s) ==
    LET at == {i \in 1..(Len(s) - 1) : s[i] = "s" /\ s[i + 1] = "S"}
    IN IF at = {} THEN 0 ELSE CHOOSE i \in at : \A j \in at : i <= j

\* partial_suffix: how much of the end may be the start of the sentinel.
PartialSuffix(s) == IF s # <<>> /\ Last(s) = "s" THEN 1 ELSE 0

\* announcement: text past the limit ahead of the sentinel is an overrun.
Announcement(s) ==
    LET at == FindSentinel(s)
    IN CASE at # 0 /\ at - 1 > TransportLimit -> [is |-> "overran", at |-> at - 1]
         [] at # 0 /\ at - 1 <= TransportLimit -> [is |-> "started", at |-> at + 1]
         [] at = 0 /\ Len(s) - PartialSuffix(s) > TransportLimit -> [is |-> "overran", at |-> Len(s)]
         [] OTHER -> [is |-> "undecided", at |-> 0]

\* judge: a start counts once the password was written in full.
Judge(s, full) ==
    LET a == Announcement(s)
    IN CASE a.is = "overran" -> "ended" [] a.is = "started" /\ full -> "started"
         [] OTHER -> "none"

\* split_status_line: the line has to be the last, its digits nothing else,
\* and the newline ahead of it is the wrapper's too.
SplitStatusLine(s) ==
    LET body == SubSeq(s, 1, Len(s) - 1)
        marks == {i \in 1..Len(body) : body[i] = "M"}
        at == CHOOSE i \in marks : \A j \in marks : j <= i
        digits == SubSeq(body, at + 1, Len(body))
        none == [cut |-> Len(s), code |-> "none"]
    IN IF s = <<>> \/ marks = {} THEN none
       ELSE IF Last(s) # "nl" \/ digits = <<>> \/ \E i \in 1..Len(digits) : digits[i] \notin {"0", "1"}
       THEN none
       ELSE [cut |-> IF at > 1 /\ body[at - 1] = "nl" THEN at - 2 ELSE at - 1,
             code |-> Last(digits)]

\* Sink::keep_bytes.
KeepBytes(k, bytes) ==
    LET room == MaxStderr - Len(k.kept)
        n == IF Len(bytes) < room THEN Len(bytes) ELSE room
    IN [k EXCEPT !.kept = @ \o SubSeq(bytes, 1, n), !.truncated = @ \/ n < Len(bytes)]

\* Sink::push: the last StatusHold are held back over SSH.
Push(k, bytes) ==
    LET all == k.held \o bytes
        excess == IF Len(all) > k.hold THEN Len(all) - k.hold ELSE 0
    IN IF k.hold = 0 THEN KeepBytes(k, bytes)
       ELSE [KeepBytes(k, SubSeq(all, 1, excess)) EXCEPT !.held = SubSeq(all, excess + 1, Len(all))]

\* Sink::finish.
FinishSink(k, ended) ==
    LET s == SplitStatusLine(k.held)
        kept == KeepBytes(k, SubSeq(k.held, 1, s.cut))
    IN [kept EXCEPT !.code = s.code, !.ended = ended, !.held = <<>>]

NewSink(hold) ==
    [kept |-> <<>>, truncated |-> FALSE, hold |-> hold, held |-> <<>>, code |-> "none", ended |-> FALSE]
-----------------------------------------------------------------------------
(* The other end *)

Room(pipe) == Len(pipe) < Cap

\* A write on standard error, which fails once nobody reads it any more.
ErrClosed == drain \in {"done", "failed"} \/ (pc = "ended" /\ drain = "none")
WriteErr(word) == IF ErrClosed THEN UNCHANGED err ELSE Room(err) /\ err' = err \o word

\* A transport that dies takes sudo and the script with it; a command already
\* started it does not signal, except when it is the command.
TransportGoes(how) ==
    /\ up' = FALSE /\ status' = how
    /\ proc' = IF proc = "command" /\ case.mode # "direct" /\ ~Remote THEN proc ELSE "gone"

\* Text of the transport ahead of the start.
TransportText(tok) ==
    /\ up /\ proc \in {"sudo", "announce"}
    /\ Cardinality({i \in 1..Len(read \o err) : (read \o err)[i] \in {"t", "s"}}) < MaxTransport
    /\ WriteErr(<<tok>>)
    /\ UNCHANGED <<setup, opener, ours, stdin, out, theirs, local, thread>>

\* sudo reads its line, does not ask, refuses, or asks again and waits.
Sudo ==
    /\ up /\ proc = "sudo"
    /\ \/ /\ asks = "cached" \/ ~case.password
          /\ asks # "refuse"
          /\ proc' = "announce" /\ UNCHANGED <<stdin, up, status>>
       \/ /\ case.password /\ asks # "cached" /\ stdin # <<>>
          /\ stdin' = Tail(stdin)
          /\ IF Head(stdin) # "q" \/ asks = "hang" THEN UNCHANGED <<proc, up, status>>
             ELSE IF asks = "ask" THEN proc' = "announce" /\ UNCHANGED <<up, status>>
             ELSE TransportGoes("1")
       \/ /\ \/ asks = "refuse" /\ ~case.password
             \/ stdin = <<>> /\ inEnd = "closed"
          /\ TransportGoes("1") /\ UNCHANGED stdin
    /\ UNCHANGED <<setup, opener, ours, err, out, line, got, eof, said, outLeft, rc, kid, tail,
                   reaped, thread>>

\* The start script announces the start.
Announce ==
    /\ up /\ proc \in {"announce", "announced"}
    /\ WriteErr(<<IF proc = "announce" THEN "s" ELSE "S">>)
    /\ proc' = IF proc = "announce" THEN "announced" ELSE "discard"
    /\ UNCHANGED <<setup, opener, ours, stdin, out, line, got, eof, said, outLeft, rc, kid, tail,
                   local, thread>>

\* Mutant: a script that drops one line, the password's when sudo asked.
DiscardOneLine ==
    /\ proc = "discard" /\ up
    /\ \/ /\ stdin # <<>>
          /\ stdin' = Tail(stdin)
          /\ proc' = IF Head(stdin) \in {"q", "H"} THEN "command" ELSE proc
          /\ UNCHANGED <<tail, rc, up, status>>
       \/ /\ stdin = <<>> /\ inEnd = "closed"
          /\ TransportGoes("1") /\ UNCHANGED <<stdin, tail, rc>>
    /\ UNCHANGED <<setup, opener, ours, err, out, line, got, eof, said, outLeft, kid, reaped, thread>>

\* Handoff::discard: line by line up to the handoff line; standard input that
\* ends first ends the script with 1.
Discard ==
    /\ proc = "discard" /\ up
    /\ \/ /\ stdin # <<>>
          /\ stdin' = Tail(stdin)
          /\ line' = IF Head(stdin) \in {"q", "H"} THEN <<>> ELSE Append(line, Head(stdin))
          /\ proc' = IF line = <<>> /\ Head(stdin) = "H" THEN "command" ELSE proc
          /\ UNCHANGED <<tail, rc, up, status>>
       \/ /\ stdin = <<>> /\ inEnd = "closed"
          /\ IF Remote THEN proc' = "wrapper" /\ tail' = <<"nl", "M", "1", "nl">> /\ rc' = "1"
                            /\ UNCHANGED <<up, status>>
             ELSE TransportGoes("1") /\ UNCHANGED <<tail, rc>>
          /\ UNCHANGED <<stdin, line>>
    /\ UNCHANGED <<setup, opener, ours, err, out, got, eof, said, outLeft, kid, reaped, thread>>

CommandReads ==
    /\ proc = "command"
    /\ \/ /\ stdin # <<>>
          /\ got' = Append(got, Head(stdin)) /\ stdin' = Tail(stdin) /\ UNCHANGED eof
       \/ /\ stdin = <<>> /\ inEnd = "closed" /\ ~eof
          /\ eof' = TRUE /\ UNCHANGED <<got, stdin>>
    /\ UNCHANGED <<setup, opener, ours, err, out, proc, line, said, outLeft, rc, kid, tail,
                   local, thread>>

CommandPrints ==
    /\ proc = "command" /\ outLeft > 0 /\ out < Cap
    /\ outLeft' = outLeft - 1 /\ out' = out + 1
    /\ UNCHANGED <<setup, opener, ours, stdin, err, proc, line, got, eof, said, rc, kid,
                   tail, local, thread>>

\* The command, or a descendant that outlives it, writes on standard error.
CommandErrs(word) ==
    /\ errLeft > 0
    /\ \/ proc = "command" /\ word \in case.words
       \/ /\ rc # "none" /\ kid = "holds" /\ word = <<"c">>
          /\ Remote => up /\ Len(tail) \in {0, 4}
    /\ WriteErr(word)
    /\ cmdErr' = cmdErr \o word /\ errLeft' = errLeft - 1
    /\ UNCHANGED <<setup, opener, ours, stdin, out, proc, line, got, eof, outLeft, rc, kid, tail,
                   local, thread>>

\* The command ends: sudo passes its status on, the wrapper has it to report.
CommandExits(code) ==
    /\ proc = "command"
    /\ rc' = code
    /\ IF Remote THEN /\ proc' = "wrapper" /\ tail' = <<"nl", "M", code, "nl">>
                      /\ UNCHANGED <<up, status>>
       ELSE /\ proc' = "gone" /\ up' = FALSE /\ UNCHANGED tail
            /\ status' = IF up THEN code ELSE status
    /\ UNCHANGED <<setup, opener, ours, pipes, line, got, eof, said, outLeft, kid, reaped, thread>>

\* wrap_with_rc_marker: the line is the wrapper's last act, and ssh exits 0.
WrapperReports ==
    /\ proc = "wrapper" /\ up
    /\ IF tail # <<>>
       THEN /\ WriteErr(<<Head(tail)>>) /\ tail' = Tail(tail)
            /\ UNCHANGED <<proc, up, status>>
       ELSE TransportGoes("0") /\ UNCHANGED <<err, tail>>
    /\ UNCHANGED <<setup, opener, ours, stdin, out, line, got, eof, said, outLeft, rc, kid,
                   reaped, thread>>

\* ssh loses its connection.
ConnectionLost ==
    /\ Remote /\ up
    /\ TransportGoes("255")
    /\ UNCHANGED <<setup, opener, ours, pipes, line, got, eof, said, outLeft, rc, kid, tail,
                   reaped, thread>>

DescendantGoes ==
    /\ kid = "holds" /\ rc # "none" /\ kid' = "gone"
    /\ UNCHANGED <<setup, opener, ours, pipes, proc, line, got, eof, said, outLeft, rc, tail,
                   local, thread>>

\* Standard error ends when nobody holds it any more.
ErrEnds == err = <<>> /\ ~up /\ (Remote \/ proc # "command") /\ kid = "gone"
-----------------------------------------------------------------------------
(* open_started, open_direct *)

Finish(how) == result' = how

\* spawn fails: there is no child.
SpawnFails ==
    /\ pc = "spawn"
    /\ pc' = "ended" /\ result' = "spawn" /\ reaped' = TRUE /\ up' = FALSE /\ proc' = "gone"
    /\ UNCHANGED <<setup, fed, read, ours, pipes, line, got, eof, said, outLeft, rc, kid, tail,
                   status, thread>>

Spawn ==
    /\ pc = "spawn"
    /\ pc' = IF case.mode = "direct" THEN "assemble" ELSE "settle"
    /\ proc' = CASE case.mode = "direct" -> "command" [] Elevated -> "sudo" [] OTHER -> "announce"
    /\ up' = TRUE
    /\ UNCHANGED <<setup, result, fed, read, ours, pipes, line, got, eof, said, outLeft, rc, kid,
                   tail, status, reaped, thread>>

Full == fed >= Len(PasswordLine)
Settled == Judge(read, Full)

\* One turn of feed_and_settle's loop that is neither decided nor out of time:
\* the password goes out as the pipe takes it, what is there is read.
SettleTurn ==
    /\ pc = "settle" /\ Settled = "none"
    /\ LET inReady == ~Full /\ (Room(stdin) \/ proc = "gone")
           errReady == err # <<>> \/ ErrEnds
       IN /\ inReady \/ errReady
          /\ IF inReady
             THEN IF proc = "gone" THEN fed' = Len(PasswordLine) /\ UNCHANGED stdin
                  ELSE fed' = fed + 1 /\ stdin' = Append(stdin, PasswordLine[fed + 1])
             ELSE UNCHANGED <<fed, stdin>>
          /\ IF errReady /\ err = <<>>
             THEN pc' = "refuse" /\ UNCHANGED <<err, read>>
             ELSE \E n \in (IF errReady THEN 1..Len(err) ELSE {0}) :
                    /\ read' = read \o SubSeq(err, 1, n)
                    /\ err' = SubSeq(err, n + 1, Len(err))
                    /\ UNCHANGED pc
    /\ UNCHANGED <<setup, result, ours, out, theirs, local, thread>>

SettleDecides ==
    /\ pc = "settle" /\ Settled # "none"
    /\ pc' = IF Settled = "started" THEN "handoff" ELSE "refuse"
    /\ UNCHANGED <<setup, result, fed, read, ours, pipes, theirs, local, thread>>

\* The elevation timeout, which a poll(2) or a pipe that fails ends as well.
SettleTimesOut(how) ==
    /\ pc = "settle" /\ Settled = "none"
    /\ pc' = "refuse" /\ Finish(how)
    /\ UNCHANGED <<setup, fed, read, ours, pipes, theirs, local, thread>>

\* hand_off: a blocking write; a transport that closed its end is no error.
HandOff ==
    /\ pc = "handoff"
    /\ IF proc = "gone" THEN UNCHANGED stdin ELSE Room(stdin) /\ stdin' = Append(stdin, "H")
    /\ pc' = "assemble"
    /\ UNCHANGED <<setup, result, fed, read, ours, err, out, theirs, local, thread>>

\* Channel::assemble: the drain thread starts with what followed the sentinel.
Assemble ==
    /\ pc = "assemble"
    /\ LET first == IF case.mode = "direct" THEN <<>>
                    ELSE SubSeq(read, Announcement(read).at + 1, Len(read))
       IN sink' = Push(NewSink(IF Remote THEN StatusHold ELSE 0), first)
    /\ drain' = "poll" /\ pc' = "open"
    /\ inEnd' = IF "in" \in case.takes THEN "caller" ELSE "channel"
    /\ UNCHANGED <<setup, result, fed, read, sent, pipes, theirs, local, wake>>

\* The thread or its pipe cannot be made.
AssembleFails ==
    /\ pc = "assemble"
    /\ pc' = "refuse" /\ Finish("spawn")
    /\ UNCHANGED <<setup, fed, read, ours, pipes, theirs, local, thread>>

\* Mutant: a start that failed is reported and its process forgotten.
RefuseForgetting ==
    /\ pc = "refuse"
    /\ result' = IF result = "none" THEN "refused" ELSE result
    /\ pc' = "ended" /\ inEnd' = "closed"
    /\ UNCHANGED <<setup, fed, read, sent, pipes, theirs, local, thread>>

\* kill_and_reap of a start that failed, and the pipe ends going with it.
Refuse ==
    /\ pc = "refuse"
    /\ \/ killable /\ reaped' = TRUE /\ IF up THEN TransportGoes("killed") ELSE UNCHANGED <<up, status, proc>>
       \/ ~killable /\ ~up /\ reaped' = TRUE /\ UNCHANGED <<up, status, proc>>
       \/ ~killable /\ up /\ UNCHANGED <<up, status, proc, reaped>>
    /\ result' = IF result = "none" THEN "refused" ELSE result
    /\ pc' = "ended" /\ inEnd' = "closed"
    /\ UNCHANGED <<setup, fed, read, sent, pipes, line, got, eof, said, outLeft, rc, kid, tail, thread>>
-----------------------------------------------------------------------------
(* The channel's life, and its end *)

CallerWrites ==
    /\ inEnd = "caller" /\ sent < case.input /\ proc # "gone" /\ Room(stdin)
    /\ sent' = sent + 1 /\ stdin' = Append(stdin, CallerBytes[sent + 1])
    /\ UNCHANGED <<setup, opener, inEnd, err, out, theirs, local, thread>>

CallerCloses ==
    /\ inEnd = "caller" /\ inEnd' = "closed"
    /\ UNCHANGED <<setup, opener, sent, pipes, theirs, local, thread>>

CallerReads ==
    /\ "out" \in case.takes /\ out > 0 /\ pc # "spawn"
    /\ out' = out - 1
    /\ UNCHANGED <<setup, opener, ours, stdin, err, theirs, local, thread>>

\* wait, or kill, or a channel dropped without either; a stdin that was taken
\* stays the caller's.
Ends(how) ==
    /\ pc = "open"
    /\ pc' = how
    /\ inEnd' = IF inEnd = "channel" THEN "closed" ELSE inEnd
    /\ UNCHANGED <<setup, result, fed, read, sent, pipes, theirs, local, thread>>

WaitReaps ==
    /\ pc = "wait" /\ ~up
    /\ reaped' = TRUE /\ pc' = "grace"
    /\ UNCHANGED <<setup, result, fed, read, ours, pipes, theirs, up, status, thread>>

\* The wait fails: the channel is dropped, not ended, and shuts down.
WaitFails ==
    /\ pc = "wait"
    /\ pc' = "shutdown" /\ Finish("spawn")
    /\ UNCHANGED <<setup, fed, read, ours, pipes, theirs, local, thread>>

\* Mutant: a wait for the end of standard error without a bound.
StopDrainUnbounded ==
    /\ pc = "grace" /\ drain # "poll"
    /\ wake' = TRUE /\ pc' = "join"
    /\ UNCHANGED <<setup, result, fed, read, ours, pipes, theirs, local, drain, sink>>

\* stop_drain: the drain hangs up, or STDERR_GRACE passes; it is longer than
\* the drain takes to read what a pipe holds.
StopDrain ==
    /\ pc = "grace"
    /\ drain # "poll" \/ err = <<>>
    /\ wake' = TRUE /\ pc' = "join"
    /\ UNCHANGED <<setup, result, fed, read, ours, pipes, theirs, local, drain, sink>>

\* kill_and_reap, then the drain is told to stop.
ShutDown ==
    /\ pc = "shutdown"
    /\ \/ killable /\ reaped' = TRUE /\ IF up THEN TransportGoes("killed") ELSE UNCHANGED <<up, status, proc>>
       \/ ~killable /\ ~up /\ reaped' = TRUE /\ UNCHANGED <<up, status, proc>>
       \/ ~killable /\ up /\ UNCHANGED <<up, status, proc, reaped>>
    /\ result' = CASE result # "none" -> result [] killable -> "killed" [] OTHER -> "spawn"
    /\ wake' = TRUE /\ pc' = "join"
    /\ UNCHANGED <<setup, fed, read, ours, pipes, line, got, eof, said, outLeft, rc, kid, tail,
                   drain, sink>>

\* The exit of wait: over SSH only a successful ssh delivered the line.
ExitOf ==
    CASE drain = "failed" -> "spawn"
      [] drain = "done" /\ ~Remote -> "exit"
      [] drain = "done" /\ Remote /\ sink.code # "none" /\ status = "0" -> "exit"
      [] OTHER -> "unknown"

ExitCode == IF Remote THEN sink.code ELSE status

Join ==
    /\ pc = "join" /\ drain # "poll"
    /\ pc' = "ended"
    /\ result' = IF result = "none" THEN ExitOf ELSE result
    /\ UNCHANGED <<setup, fed, read, ours, pipes, theirs, local, thread>>

\* drain: woken before reading.
DrainStops ==
    /\ drain = "poll" /\ wake
    /\ sink' = FinishSink(sink, FALSE) /\ drain' = "done"
    /\ UNCHANGED <<setup, opener, ours, pipes, theirs, local, wake>>

DrainReads ==
    /\ drain = "poll" /\ ~wake
    /\ \/ \E n \in 1..Len(err) :
            /\ sink' = Push(sink, SubSeq(err, 1, n))
            /\ err' = SubSeq(err, n + 1, Len(err))
            /\ UNCHANGED drain
       \/ ErrEnds /\ sink' = FinishSink(sink, TRUE) /\ drain' = "done" /\ UNCHANGED err
    /\ UNCHANGED <<setup, opener, ours, stdin, out, theirs, local, wake>>

DrainFails ==
    /\ drain = "poll" /\ ~wake /\ err # <<>>
    /\ drain' = "failed"
    /\ UNCHANGED <<setup, opener, ours, pipes, theirs, local, wake, sink>>
-----------------------------------------------------------------------------
Init ==
    /\ case \in Cases
    /\ asks \in case.asks /\ killable \in case.killable /\ kid \in case.kids
    /\ pc = "spawn" /\ result = "none" /\ fed = 0 /\ read = <<>>
    /\ inEnd = "channel" /\ sent = 0
    /\ stdin = <<>> /\ err = <<>> /\ out = 0
    /\ proc = "none" /\ line = <<>> /\ got = <<>> /\ eof = FALSE /\ cmdErr = <<>>
    /\ outLeft = case.out /\ errLeft = case.err /\ rc = "none" /\ tail = <<>>
    /\ up = FALSE /\ status = "0" /\ reaped = FALSE
    /\ drain = "none" /\ wake = FALSE /\ sink = NewSink(0)

Opening == Spawn \/ SettleTurn \/ SettleDecides \/ HandOff \/ Assemble \/ Refuse
Ending == WaitReaps \/ StopDrain \/ ShutDown \/ Join
Draining == DrainStops \/ DrainReads
CommandSteps == CommandReads \/ CommandPrints \/ \E w \in case.words : CommandErrs(w)
CommandEnds ==
    /\ eof /\ outLeft = 0 /\ errLeft = 0
    /\ \E code \in {"0", "1"} : CommandExits(code)
Feeding == CallerWrites \/ CallerReads

Next ==
    \/ Opening \/ Ending \/ Draining \/ CommandSteps
    \/ \E tok \in {"t", "s"} : TransportText(tok)
    \/ Sudo \/ Announce \/ Discard \/ WrapperReports \/ ConnectionLost
    \/ CommandErrs(<<"c">>) \/ DescendantGoes
    \/ \E code \in {"0", "1"} : CommandExits(code)
    \/ SpawnFails \/ AssembleFails \/ DrainFails \/ WaitFails
    \/ \E how \in {"timeout", "spawn"} : SettleTimesOut(how)
    \/ Feeding \/ CallerCloses
    \/ \E how \in {"wait", "shutdown"} : Ends(how)

Spec == Init /\ [][Next]_vars

\* The caller's thread, the timeout and the drain run; so do the transport
\* and a command that reads its input to the end, and a caller that took a
\* stream uses it.  When the channel is ended, and when a descendant goes,
\* is left open.
Fairness ==
    /\ WF_vars(Opening) /\ WF_vars(SettleTimesOut("timeout")) /\ WF_vars(Ending)
    /\ WF_vars(Draining)
    /\ WF_vars(Announce) /\ WF_vars(Discard) /\ WF_vars(WrapperReports)
    /\ WF_vars(CommandReads) /\ WF_vars(CommandPrints) /\ WF_vars(CommandEnds)
    /\ WF_vars(proc = "command" /\ \E w \in case.words : CommandErrs(w))
    /\ WF_vars(CallerReads) /\ WF_vars(CallerCloses)

FairSpec == Spec /\ Fairness
-----------------------------------------------------------------------------
\* Each side gets the other's bytes and no others.  The command reads the
\* caller's from the first, and never a byte of the password or of the handoff,
\* whether or not sudo asked and however the pipe split what was written
\* (StartScript, feed_and_settle, hand_off).  What wait reports is the
\* command's own, whatever it wrote itself and however ssh ended: it ran and
\* exited with that code, and the standard error returned is what it wrote from
\* its first byte, without the sentinel and without the wrapper's line, all of
\* it unless it says it is truncated (Channel::wait, Sink, split_status_line).
ExchangeIsTheCallers ==
    /\ IsPrefix(got, CallerBytes)
    /\ (pc = "ended" /\ result = "exit") =>
         /\ rc # "none" /\ ExitCode = rc
         /\ IsPrefix(sink.kept, cmdErr)
         /\ (~sink.truncated /\ sink.ended) => sink.kept = cmdErr

\* Once a call has returned, the local transport is reaped and the drain has
\* stopped; only a process this one may not signal can be left, and then the
\* call failed (kill_and_reap, Channel::drop).
NothingLeftBehind ==
    pc = "ended" =>
        /\ drain # "poll"
        /\ ~reaped => (~killable /\ result # "exit")

\* A channel that is being opened opens or fails; one that is waited for, with
\* its standard output read and its input closed, ends, though its command
\* fills standard error and a descendant never lets go of it; and one that is
\* killed ends (feed_and_settle, Channel::wait, stop_drain).
Returns ==
    /\ (pc = "settle") ~> (pc \in {"open", "ended"})
    /\ (pc = "wait" /\ (case.out <= Cap \/ "out" \in case.takes)) ~> (pc = "ended")
    /\ (pc = "shutdown") ~> (pc = "ended")
=============================================================================
