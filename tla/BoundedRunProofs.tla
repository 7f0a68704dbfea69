-------------------------- MODULE BoundedRunProofs --------------------------
(***************************************************************************)
(* What BoundedRun promises of one run, proved for every transport, every  *)
(* limit, every capacity of a pipe and every command.                      *)
(***************************************************************************)
EXTENDS BoundedRun, SequenceTheorems, WellFoundedInduction, TLAPS

Spoken == {"c", "R1", "L2"}
Tokens == Spoken \cup {"t", "S1", "S2", "M1", "M2", "R2", "pw", "h", "i1", "i2", "i3"}
Streams == {"in", "out", "err"}
Early == {"elevating", "asking", "start", "discard", "nap", "refused"}
Over == {"exited", "killed", "reported"}

\* What every variable holds.
Types ==
    /\ case \in Cases /\ password \in BOOLEAN /\ (password => Elevated)
    /\ pc \in {"nonblock", "pump", "await", "terminate", "relay", "reap", "finish", "returned"}
    /\ open \subseteq Streams
    /\ feed \in Seq(Tokens) /\ inPipe \in Seq(Tokens) /\ cmdIn \in Seq(Tokens)
    /\ gotOut \in Nat /\ outPipe \in Nat /\ cmdOut \in Nat
    /\ gotErr \in Seq(Tokens) /\ errPipe \in Seq(Tokens) /\ cmdErr \in Seq(Spoken)
    /\ grace \in {"none", "running", "over"}
    /\ ended \in {"none", "exited", "abandoned", "breachout", "breacherr", "timeout", "spawn"}
    /\ child \in {"alive", "closed", "zombie", "reaped"} /\ linked \in BOOLEAN
    /\ sup \in Early \cup Over \cup {"none", "waitnap", "waitrun", "marker", "killall", "piped"}
    /\ nap \in {"none", "sleeping", "done", "killed", "reaped"}
    /\ sub \in {"none", "command", "cancel", "exited", "killed"}
    /\ want \in {"none", "in", "out"} \cup Spoken
    /\ kid \in case.kids /\ closed \in BOOLEAN
    /\ framed \in BOOLEAN /\ stalled \in BOOLEAN /\ dropped \in BOOLEAN
    /\ strayKill \in BOOLEAN /\ strayCancel \in BOOLEAN

\* The engine has not stopped the run.
Going == ended \in {"none", "exited"}
\* Every write of the other side so far reached a pipe.
Heard == Going /\ Reaches
\* Nobody is left to write.
Muted == ~InHeld

\* Where the engine is.
Engaged ==
    /\ pc \in {"nonblock", "pump", "await"} <=> ended = "none"
    /\ ended = "exited" => pc \in {"finish", "returned"} /\ child # "alive"
    /\ pc = "nonblock" => open = Streams
    /\ ~Going \/ pc = "await" \/ ended = "exited" => open = {}
    /\ child = "reaped" => pc \in {"finish", "returned"}
    /\ Going /\ "in" \notin open => feed = <<>> \/ Muted
    /\ Going /\ "out" \notin open => outPipe = 0 /\ Muted
    /\ Going /\ "err" \notin open => errPipe = <<>> /\ Muted
    /\ result = IF pc = "returned" THEN Finish(ended, gotOut, gotErr)
                ELSE Failed("none")

\* Where the processes of the other side are, and what that says of one another.
Staged ==
    /\ ~Supervised => /\ sup = "none" /\ nap = "none" /\ sub \in {"command", "exited", "killed"}
                      /\ (sub = "command" => child = "alive")
                      /\ (Going /\ child # "alive" => sub = "exited")
    /\ Supervised => sup # "none" /\ ~closed
    /\ sup \in Early => sub = "none"
    /\ ~Elevated => sup \notin {"elevating", "asking", "refused"}
    /\ sup \in {"waitnap", "marker", "killall"} => sub \in {"command", "cancel", "exited"}
    /\ sup = "waitrun" => sub = "exited"
    /\ sup = "reported" => Remote
    /\ sup \in Over => sub \in {"none", "exited", "killed"}
    /\ sup = "exited" /\ Heard => sub = "exited"
    /\ sup = "waitnap" /\ nap = "killed" => sub = "exited"
    /\ closed => want = "none"
    /\ linked => Remote /\ child = "alive"
    /\ Remote /\ child = "alive" => linked
    /\ mode = "sudo" /\ child # "alive" => sup \in {"exited", "refused", "killed", "piped"}
    /\ sup = "piped" => ~Heard

\* The bytes of the input that nobody has taken.
Rest == inPipe \o feed
Taken == Len(Feed) - Len(Rest)

Fed ==
    /\ Taken \in Nat /\ \A i \in 1..Len(Rest) : Rest[i] = Feed[Taken + i]
    /\ sup \in Early => cmdIn = <<>>
    /\ ~password => Taken = Len(cmdIn) /\ sup # "discard"
    /\ password =>
         /\ sup = "elevating" => Taken = 0
         /\ sup \in {"start", "discard"} => Taken <= 1
         /\ (sup = "nap" \/ sub # "none") => Taken = 2 + Len(cmdIn)
         /\ sub = "none" => cmdIn = <<>>
    /\ \A i \in 1..Len(cmdIn) : cmdIn[i] = Input[i]

\* Whom a signal may reach.
Aimed ==
    /\ ~strayKill
    /\ nap = "reaped" /\ sub \in {"command", "cancel"} => sup \in {"marker", "killall", "piped"}
    /\ sub \in {"command", "cancel"} => nap # "killed"
    /\ strayCancel => sup \in {"marker", "killall", "killed", "reported", "piped"}
    /\ ~Supervised /\ pc \in {"reap", "finish", "returned"} /\ ended # "exited" =>
         sub # "command" /\ kid # "group"

\* What came, or is still to come, over standard error.
Err == gotErr \o errPipe

\* p tokens of the transport, the sentinel, c bytes of the command with the
\* marker after the first a of them, the wrapper's line, a last word of ssh.
Laid(E, said, p, s, c, a, m, r, x) ==
    /\ Len(E) = p + s + c + m + r + x /\ c <= Len(said) /\ a <= c
    /\ \A i \in 1..p : E[i] = "t"
    /\ s = 2 => E[p + 1] = "S1" /\ E[p + 2] = "S2"
    /\ \A i \in 1..c : E[p + s + i + (IF i > a THEN m ELSE 0)] = said[i]
    /\ m = 2 => E[p + s + a + 1] = "M1" /\ E[p + s + a + 2] = "M2"
    /\ r = 2 => E[p + s + c + m + 1] = "R1" /\ E[p + s + c + m + 2] = "R2"
    /\ x = 1 => E[p + s + c + m + r + 1] = "t"

\* What each part says of the processes.
Told(p, s, c, m, r, x) ==
    /\ ~Supervised => p = 0 /\ s = 0 /\ m = 0 /\ x = 0
    /\ Supervised /\ s = 0 => c = 0 /\ m = 0
    /\ m = 2 \/ r = 2 => framed
    /\ x = 1 => dropped
    /\ Heard =>
         /\ x = 0 /\ c = Len(cmdErr) /\ gotOut + outPipe = cmdOut
         /\ Supervised /\ s = 0 =>
              sub = "none" /\ sup \in {"elevating", "asking", "start", "refused", "reported"}
         /\ s = 2 => sup \notin {"elevating", "asking", "start", "refused"}
         /\ m = 2 => sup \in {"killall", "killed", "reported"}
         /\ m = 0 => sup \notin {"killall", "killed"}
    /\ r = 2 =>
         /\ Remote /\ sup = "reported" /\ c = Len(cmdErr) /\ gotOut + outPipe = cmdOut
         /\ s = 0 => Elevated /\ sub = "none"
         /\ s = 2 /\ m = 0 => sub = "exited"

Layout ==
    \E p, c, a \in Nat, s, m, r \in {0, 2}, x \in {0, 1} :
        Told(p, s, c, m, r, x) /\ Laid(Err, cmdErr, p, s, c, a, m, r, x)

\* A limit that was found passed was, unless framing stayed unresolved.
Excused == Len(cmdErr) > MaxStderr \/ dropped
Judged ==
    /\ gotOut + outPipe <= cmdOut
    /\ grace = "running" => Excused \/ framed
    /\ grace = "over" => Excused \/ stalled
    /\ ended = "breacherr" => Excused \/ stalled
    /\ ended = "breachout" => cmdOut > MaxStdout
    /\ ended = "abandoned" => Supervised /\ ~Found(gotErr, Sentinel)
-----------------------------------------------------------------------------
(* Sequences.                                                              *)

\* Short sequences are sequences.
LEMMA OneIsSeq == ASSUME NEW S, NEW a \in S PROVE <<a>> \in Seq(S)
OBVIOUS
LEMMA TwoIsSeq == ASSUME NEW S, NEW a \in S, NEW b \in S PROVE <<a, b>> \in Seq(S)
OBVIOUS

\* A sequence over fewer tokens is one over more.
LEMMA WiderSeq == ASSUME NEW S, NEW T, S \subseteq T, NEW q \in Seq(S) PROVE q \in Seq(T)
OBVIOUS
LEMMA ThreeIsSeq ==
    ASSUME NEW S, NEW a \in S, NEW b \in S, NEW c \in S PROVE <<a, b, c>> \in Seq(S)
OBVIOUS

\* The words of the framing and of a transport.
LEMMA Words ==
    /\ Sentinel \in Seq(Tokens) /\ Len(Sentinel) = 2
    /\ Sentinel[1] = "S1" /\ Sentinel[2] = "S2"
    /\ Marker \in Seq(Tokens) /\ Len(Marker) = 2 /\ Marker[1] = "M1" /\ Marker[2] = "M2"
    /\ RcLine \in Seq(Tokens) /\ Len(RcLine) = 2 /\ RcLine[1] = "R1" /\ RcLine[2] = "R2"
    /\ \A w \in Tokens : <<w>> \in Seq(Tokens) /\ Len(<<w>>) = 1 /\ <<w>>[1] = w
<1>1. Sentinel \in Seq(Tokens) /\ Marker \in Seq(Tokens) /\ RcLine \in Seq(Tokens)
  BY TwoIsSeq DEF Sentinel, Marker, RcLine, Tokens, Spoken
<1>2. /\ Len(Sentinel) = 2 /\ Sentinel[1] = "S1" /\ Sentinel[2] = "S2"
      /\ Len(Marker) = 2 /\ Marker[1] = "M1" /\ Marker[2] = "M2"
      /\ Len(RcLine) = 2 /\ RcLine[1] = "R1" /\ RcLine[2] = "R2"
  BY DEF Sentinel, Marker, RcLine
<1>3. \A w \in Tokens : <<w>> \in Seq(Tokens) 
  BY OneIsSeq, Zenon
<1>4. \A w : Len(<<w>>) = 1 /\ <<w>>[1] = w
  OBVIOUS
<1> QED
  BY <1>1, <1>2, <1>3, <1>4

\* A read that takes some of a pipe leaves what was taken and what is left.
LEMMA MoveKeeps ==
    ASSUME NEW a \in Seq(Tokens), NEW b \in Seq(Tokens), NEW n \in 0..Len(b)
    PROVE  /\ SubSeq(b, 1, n) \in Seq(Tokens) /\ SubSeq(b, n + 1, Len(b)) \in Seq(Tokens)
           /\ Len(SubSeq(b, 1, n)) = n /\ Len(SubSeq(b, n + 1, Len(b))) = Len(b) - n
           /\ (a \o SubSeq(b, 1, n)) \o SubSeq(b, n + 1, Len(b)) = a \o b
<1> DEFINE l == SubSeq(b, 1, n)
           r == SubSeq(b, n + 1, Len(b))
<1>1. /\ l \in Seq(Tokens) /\ r \in Seq(Tokens) /\ Len(l) = n /\ Len(r) = Len(b) - n
      /\ \A i \in 1..n : l[i] = b[i]
      /\ \A i \in 1..(Len(b) - n) : r[i] = b[n + i]
  BY SubSeqProperties, SMTT(30)
<1> HIDE DEF l, r
<1>a. Len(b) \in Nat
  BY LenProperties
<1>b. /\ l \o r \in Seq(Tokens) /\ Len(l \o r) = Len(l) + Len(r)
      /\ \A i \in 1..(Len(l) + Len(r)) :
           (l \o r)[i] = IF i <= Len(l) THEN l[i] ELSE r[i - Len(l)]
  BY <1>1, ConcatProperties
<1>2. l \o r \in Seq(Tokens) /\ Len(l \o r) = Len(b)
  BY <1>1, <1>a, <1>b
<1>3. \A i \in 1..Len(b) : (l \o r)[i] = b[i]
  BY <1>1, <1>a, <1>b
<1>4. l \o r = b
  BY <1>2, <1>3, SeqEqual
<1>5. (a \o l) \o r = a \o (l \o r)
  BY <1>1, ConcatAssociative
<1> QED
  BY <1>1, <1>4, <1>5 DEF l, r

\* Taking the head of a pipe takes the head of what is still to come.
LEMMA TailTakes ==
    ASSUME NEW a \in Seq(Tokens), NEW b \in Seq(Tokens), a # <<>>
    PROVE  /\ Tail(a) \in Seq(Tokens) /\ Head(a) \in Tokens /\ Head(a) = (a \o b)[1]
           /\ Len(Tail(a) \o b) = Len(a \o b) - 1
           /\ \A i \in 1..(Len(a \o b) - 1) : (Tail(a) \o b)[i] = (a \o b)[i + 1]
<1>1. /\ Tail(a) \in Seq(Tokens) /\ Len(Tail(a)) = Len(a) - 1 /\ Len(a) \in Nat \ {0}
      /\ Head(a) = a[1] /\ Head(a) \in Tokens
      /\ \A i \in 1..(Len(a) - 1) : Tail(a)[i] = a[i + 1]
  BY HeadTailProperties, LenProperties, EmptySeq
<1>2. Len(b) \in Nat
  BY LenProperties
<1> QED
  BY <1>1, <1>2, ConcatProperties

\* What the case says.
LEMMA GivenFacts ==
    ASSUME Types
    PROVE  /\ mode \in {"direct", "sudo", "ssh", "sshsudo"}
           /\ case.tokens \subseteq Spoken /\ "none" \in case.kids
           /\ Input \in Seq(Tokens) /\ Feed \in Seq(Tokens)
           /\ \A i \in 1..Len(Input) : Input[i] \notin {"pw", "h"}
           /\ Len(Feed) = (IF password THEN 2 ELSE 0) + Len(Input)
           /\ password => /\ Feed[1] = "pw" /\ Feed[2] = "h"
                          /\ \A i \in 1..Len(Input) : Feed[2 + i] = Input[i]
           /\ ~password => Feed = Input
<1>1. /\ mode \in {"direct", "sudo", "ssh", "sshsudo"} /\ case.input \in 0..3
      /\ case.tokens \subseteq Spoken /\ "none" \in case.kids
  BY BoundedRunAssumption DEF Types, mode, Spoken
<1> DEFINE all == <<"i1", "i2", "i3">>
<1>2. /\ Len(all) = 3 /\ all[1] = "i1" /\ all[2] = "i2" /\ all[3] = "i3"
  OBVIOUS
<1>3. /\ SubSeq(all, 1, case.input) \in Seq(Tokens)
      /\ \A i \in 1..Len(SubSeq(all, 1, case.input)) :
           SubSeq(all, 1, case.input)[i] \in {"i1", "i2", "i3"}
  <2> HIDE DEF all
  <2>1. \A i \in 1..case.input : all[i] = "i1" \/ all[i] = "i2" \/ all[i] = "i3"
    BY <1>1, <1>2
  <2>2. \A i \in 1..case.input : all[i] \in Tokens
    BY <2>1 DEF Tokens
  <2> QED
    BY <1>1, <2>1, <2>2, SubSeqProperties
<1>4. /\ Input \in Seq(Tokens) /\ Len(Input) \in Nat
      /\ \A i \in 1..Len(Input) : Input[i] \notin {"pw", "h"}
  <2>1. Input = SubSeq(all, 1, case.input)
    BY DEF Input
  <2> HIDE DEF all
  <2> QED
    BY <1>3, <2>1, LenProperties
<1> DEFINE ahead == <<"pw", "h">>
<1>5. ahead \in Seq(Tokens) /\ Len(ahead) = 2 /\ ahead[1] = "pw" /\ ahead[2] = "h"
  <2>1. Len(ahead) = 2 /\ ahead[1] = "pw" /\ ahead[2] = "h"
    OBVIOUS
  <2>2. ahead \in Seq(Tokens)
    BY TwoIsSeq DEF Tokens
  <2> QED
    BY <2>1, <2>2
<1>6. Feed = IF password THEN ahead \o Input ELSE Input
  BY DEF Feed
<1> HIDE DEF ahead
<1>7. /\ ahead \o Input \in Seq(Tokens) /\ Len(ahead \o Input) = 2 + Len(Input)
      /\ (ahead \o Input)[1] = "pw" /\ (ahead \o Input)[2] = "h"
      /\ \A i \in 1..Len(Input) : (ahead \o Input)[2 + i] = Input[i]
  <2>1. /\ ahead \o Input \in Seq(Tokens) /\ Len(ahead \o Input) = Len(ahead) + Len(Input)
        /\ \A i \in 1..(Len(ahead) + Len(Input)) :
             (ahead \o Input)[i] = IF i <= Len(ahead) THEN ahead[i] ELSE Input[i - Len(ahead)]
    BY <1>4, <1>5, ConcatProperties
  <2> QED
    BY <1>4, <1>5, <2>1
<1>8. password \in BOOLEAN
  BY DEF Types
<1> QED
  BY <1>1, <1>4, <1>6, <1>7, <1>8
-----------------------------------------------------------------------------
(* What the steps do to the pipes.                                         *)

\* pump's write moves bytes from what is not yet fed into the pipe, in order.
LEMMA FeedKeeps ==
    ASSUME Types, FeedStdin
    PROVE  /\ inPipe' \in Seq(Tokens) /\ feed' \in Seq(Tokens)
           /\ inPipe' \o feed' = inPipe \o feed
<1>1. CASE "in" \in ReadyPipes /\ InHeld
  <2>1. PICK n \in 1..Len(feed) :
             /\ inPipe' = inPipe \o SubSeq(feed, 1, n)
             /\ feed' = SubSeq(feed, n + 1, Len(feed))
    BY <1>1 DEF FeedStdin
  <2>2. n \in 0..Len(feed) /\ inPipe \in Seq(Tokens) /\ feed \in Seq(Tokens)
    BY LenProperties DEF Types
  <2> QED
    BY <2>1, <2>2, MoveKeeps, ConcatProperties
<1>2. CASE ~("in" \in ReadyPipes /\ InHeld)
  BY <1>2 DEF FeedStdin, Types
<1> QED
  BY <1>1, <1>2

\* drain of standard output moves bytes, and loses none.
LEMMA OutKeeps ==
    ASSUME Types, DrainStdout
    PROVE  gotOut' \in Nat /\ outPipe' \in Nat /\ gotOut' + outPipe' = gotOut + outPipe
BY DEF DrainStdout, Types

\* drain of standard error moves tokens, in order, and loses none.
LEMMA ErrKeeps ==
    ASSUME Types, DrainStderr
    PROVE  /\ gotErr' \in Seq(Tokens) /\ errPipe' \in Seq(Tokens)
           /\ gotErr' \o errPipe' = gotErr \o errPipe
<1>1. PICK n \in 0..Len(errPipe) :
           /\ gotErr' = gotErr \o SubSeq(errPipe, 1, n)
           /\ errPipe' = SubSeq(errPipe, n + 1, Len(errPipe))
  BY DEF DrainStderr
<1>2. gotErr \in Seq(Tokens) /\ errPipe \in Seq(Tokens)
  BY DEF Types
<1> QED
  BY <1>1, <1>2, MoveKeeps, ConcatProperties

\* A write on standard error is heard where somebody listens.
Live == "err" \in open /\ Reaches
LEMMA WriteAdds ==
    ASSUME Types, NEW word \in Seq(Tokens), WriteErr(word), gotErr' = gotErr
    PROVE  /\ errPipe' \in Seq(Tokens)
           /\ Live => Err' = Err \o word
           /\ ~Live => Err' = Err /\ errPipe' = errPipe
<1>1. gotErr \in Seq(Tokens) /\ errPipe \in Seq(Tokens)
  BY DEF Types
<1>2. CASE Live
  <2>1. errPipe' = errPipe \o word
    BY <1>2 DEF WriteErr, Live
  <2> QED
    BY <1>1, <1>2, <2>1, ConcatProperties, ConcatAssociative DEF Err
<1>3. CASE ~Live
  BY <1>1, <1>3 DEF WriteErr, Live, Err
<1> QED
  BY <1>2, <1>3

\* What one turn of the pump comes to: it stops the run, or goes on with the
\* pipes that it has not finished with.
Stopped(how) == pc' = "terminate" /\ ended' = how /\ open' = {} /\ grace' = grace
LEMMA PumpEffect ==
    ASSUME Types, PumpTurn
    PROVE  /\ pc = "pump"
           /\ inPipe' \in Seq(Tokens) /\ feed' \in Seq(Tokens) /\ Rest' = Rest
           /\ gotOut' \in Nat /\ outPipe' \in Nat /\ gotOut' + outPipe' = gotOut + outPipe
           /\ gotErr' \in Seq(Tokens) /\ errPipe' \in Seq(Tokens) /\ Err' = Err
           /\ \/ Stopped("breachout") /\ gotOut' > MaxStdout
              \/ /\ Stopped("breacherr") /\ Attribute(gotErr').who = "command"
                 /\ Attribute(gotErr').own > MaxStderr \/ grace = "over"
              \/ Stopped("abandoned") /\ Attribute(gotErr').who = "transport"
              \/ /\ pc' = pc /\ ended' = ended /\ open' = open \ Finished
                 /\ \/ grace' = "none"
                    \/ /\ grace' = "running" /\ Attribute(gotErr').who = "command"
                       /\ Attribute(gotErr').own + Attribute(gotErr').pending > MaxStderr
           /\ UNCHANGED <<case, password, result, child, linked, expired, script, command, history>>
<1>1. /\ pc = "pump" /\ FeedStdin /\ DrainStdout
      /\ UNCHANGED <<case, password, result, child, linked, expired, script, command, history>>
  BY DEF PumpTurn, Alone, given
<1>2. /\ inPipe' \in Seq(Tokens) /\ feed' \in Seq(Tokens) /\ Rest' = Rest
      /\ gotOut' \in Nat /\ outPipe' \in Nat /\ gotOut' + outPipe' = gotOut + outPipe
  BY <1>1, FeedKeeps, OutKeeps DEF Rest
<1>3. CASE gotOut' > MaxStdout
  BY <1>1, <1>2, <1>3 DEF PumpTurn, Stop, Stopped, Err, Types
<1>4. CASE ~(gotOut' > MaxStdout)
  <2>1. DrainStderr /\ JudgeStderr
    BY <1>4 DEF PumpTurn
  <2>2. gotErr' \in Seq(Tokens) /\ errPipe' \in Seq(Tokens) /\ Err' = Err
    BY <2>1, ErrKeeps DEF Err
  <2> DEFINE w == Attribute(gotErr')
  <2>3. \/ /\ Stopped("breacherr") /\ w.who = "command"
           /\ w.own > MaxStderr \/ grace = "over"
        \/ Stopped("abandoned") /\ w.who = "transport"
        \/ /\ pc' = pc /\ ended' = ended /\ open' = open \ Finished
           /\ \/ grace' = "none"
              \/ /\ grace' = "running" /\ w.who = "command"
                 /\ w.own + w.pending > MaxStderr
    <3>1. CASE w.who = "command" /\ w.own > MaxStderr
      BY <2>1, <3>1 DEF JudgeStderr, Stop, Stopped
    <3>2. CASE w.who = "command" /\ w.own <= MaxStderr /\ w.own + w.pending > MaxStderr
      <4>1. ~(w.who = "command" /\ w.own > MaxStderr) \/ w.own > MaxStderr
        OBVIOUS
      <4> QED
        BY <2>1, <3>2, <4>1 DEF JudgeStderr, Stop, Stopped
    <3>3. CASE w.who = "transport" /\ w.own > TransportLimit
      BY <2>1, <3>3 DEF JudgeStderr, Stop, Stopped
    <3>4. CASE /\ ~(w.who = "command" /\ w.own > MaxStderr)
               /\ ~(w.who = "command" /\ w.own <= MaxStderr /\ w.own + w.pending > MaxStderr)
               /\ ~(w.who = "transport" /\ w.own > TransportLimit)
      BY <2>1, <3>4 DEF JudgeStderr
    <3> QED
      BY <3>1, <3>2, <3>3, <3>4
  <2> QED
    BY <1>1, <1>2, <2>2, <2>3
<1> QED
  BY <1>3, <1>4
-----------------------------------------------------------------------------
(* Types.                                                                  *)

\* Types hold at the start.
LEMMA TypesInit == Init => Types
<1> SUFFICES ASSUME Init PROVE Types
  OBVIOUS
<1>1. /\ case \in Cases /\ password \in BOOLEAN /\ (password => Elevated)
      /\ mode \in {"direct", "sudo", "ssh", "sshsudo"} /\ kid \in case.kids
  BY BoundedRunAssumption DEF Init, mode
<1>2. <<>> \in Seq(Tokens) /\ <<>> \in Seq(Spoken)
  BY EmptySeq
<1>3. Input \in Seq(Tokens) /\ Feed \in Seq(Tokens)
  <2> DEFINE all == <<"i1", "i2", "i3">>
  <2>1. Len(all) = 3 /\ all[1] = "i1" /\ all[2] = "i2" /\ all[3] = "i3" /\ case.input \in 0..3
    BY <1>1, BoundedRunAssumption
  <2>2. Input = SubSeq(all, 1, case.input)
    BY DEF Input
  <2> HIDE DEF all
  <2>3. \A i \in 1..case.input : all[i] \in Tokens
    BY <2>1 DEF Tokens
  <2>4. Input \in Seq(Tokens)
    BY <2>1, <2>2, <2>3, SubSeqProperties
  <2>5. <<"pw", "h">> \in Seq(Tokens)
    BY TwoIsSeq DEF Tokens
  <2> QED
    BY <2>4, <2>5, ConcatProperties DEF Feed
<1>4. sup \in Early \cup Over \cup {"none", "waitnap", "waitrun", "marker", "killall", "piped"}
  BY <1>1 DEF Init, Early, Over, Elevated
<1>5. /\ feed \in Seq(Tokens) /\ inPipe \in Seq(Tokens) /\ cmdIn \in Seq(Tokens)
      /\ gotErr \in Seq(Tokens) /\ errPipe \in Seq(Tokens) /\ cmdErr \in Seq(Spoken)
  BY <1>2, <1>3 DEF Init
<1>6. linked \in BOOLEAN
  BY DEF Init, Remote
<1>7. open \subseteq Streams
  BY DEF Init, Streams
<1> QED
  BY <1>1, <1>4, <1>5, <1>6, <1>7 DEF Init, Types

\* Every step keeps the types.
LEMMA TypesStep == Types /\ [Next]_vars => Types'
<1> SUFFICES ASSUME Types, [Next]_vars PROVE Types'
  OBVIOUS
<1> USE DEF given, engine, pipes, script, command, history, Beside, Quiet, Alone, mode, Elevated
<1>g. case' = case /\ password' = password /\ case.tokens \subseteq Spoken /\ "none" \in case.kids
  <2>1. case.tokens \subseteq Spoken /\ "none" \in case.kids
    BY GivenFacts
  <2> QED
    BY <2>1 DEF Next, vars, Engine, Script, Command, NonBlocking, PumpTurn, PumpEnds, AwaitExit,
       TerminateRelay, TerminateGroup, ReapWithin, RunReturns, Fault, SudoReads, SudoDecides,
       SupervisorStarts, SupervisorDiscards, SupervisorRuns, SupervisorWaits, SupervisorMarks,
       SupervisorKillsAll, SubshellCancels, WrapperReports, ChildCloses, ChildExits, CommandCalls,
       CommandBlocks, CommandExits, TransportWrites, NapRunsOut, ConnectionLost, CommandCloses,
       DescendantExits, DeadlinePasses, GraceRunsOut
<1>1. CASE UNCHANGED vars
  BY <1>1 DEF vars, Types
<1>2. CASE NonBlocking
  BY <1>2 DEF NonBlocking, Types
<1>3. CASE PumpTurn
  <2>1. open' \subseteq open
    BY <1>3, PumpEffect DEF Stopped
  <2>2. /\ pc' \in {"pump", "terminate"} /\ grace' \in {grace, "none", "running"}
        /\ ended' \in {ended, "breachout", "breacherr", "abandoned"}
    BY <1>3, PumpEffect DEF Stopped
  <2>3. /\ inPipe' \in Seq(Tokens) /\ feed' \in Seq(Tokens)
        /\ gotOut' \in Nat /\ outPipe' \in Nat
        /\ gotErr' \in Seq(Tokens) /\ errPipe' \in Seq(Tokens)
        /\ UNCHANGED <<case, password, result, child, linked, expired, script, command, history>>
    BY <1>3, PumpEffect
  <2> QED
    BY <2>1, <2>2, <2>3 DEF Types
<1>4. CASE PumpEnds
  BY <1>4 DEF PumpEnds, Stop, Types
<1>5. CASE AwaitExit
  BY <1>5 DEF AwaitExit, Stop, Types
<1>6. CASE TerminateRelay
  BY <1>6, <1>g DEF TerminateRelay, GroupDies, NoSignal, Types, Over
<1>7. CASE TerminateGroup
  <2>1. strayKill' \in BOOLEAN /\ linked' \in BOOLEAN
    BY <1>7 DEF TerminateGroup, Types
  <2>2. child' \in {child, "closed"} /\ (GroupDies \/ NoSignal)
    BY <1>7 DEF TerminateGroup
  <2>3. /\ sup' \in {sup, "killed"} /\ sub' \in {sub, "killed"} /\ nap' \in {nap, "killed"}
        /\ kid' \in {kid, "none"} /\ want' \in {want, "none"} /\ closed' = closed
    BY <2>2 DEF GroupDies, NoSignal
  <2> QED
    BY <1>7, <1>g, <2>1, <2>2, <2>3 DEF TerminateGroup, Types, Over
<1>8. CASE ReapWithin
  BY <1>8 DEF ReapWithin, Types
<1>9. CASE RunReturns
  BY <1>9 DEF RunReturns, Types
<1>10. CASE Fault
  BY <1>10 DEF Fault, Stop, Types
<1>11. CASE SudoReads
  <2>1. Tail(inPipe) \in Seq(Tokens)
    BY <1>11, HeadTailProperties DEF SudoReads, Types
  <2> QED
    BY <1>11, <2>1 DEF SudoReads, Types, Early
<1>12. CASE SudoDecides
  BY <1>12 DEF SudoDecides, Types, Early
<1>13. CASE SupervisorStarts
  <2>1. errPipe' \in Seq(Tokens)
    BY <1>13, WriteAdds, Words DEF SupervisorStarts, ScriptPrints, Types
  <2> QED
    BY <1>13, <2>1 DEF SupervisorStarts, ScriptPrints, Types, Early
<1>14. CASE SupervisorDiscards
  <2>1. inPipe' \in Seq(Tokens)
    BY <1>14, HeadTailProperties DEF SupervisorDiscards, Types
  <2> QED
    BY <1>14, <2>1 DEF SupervisorDiscards, Types, Early, Over
<1>15. CASE SupervisorRuns
  BY <1>15 DEF SupervisorRuns, Types
<1>16. CASE SupervisorWaits
  BY <1>16 DEF SupervisorWaits, Types, Over
<1>17. CASE SupervisorMarks
  <2>1. errPipe' \in Seq(Tokens)
    BY <1>17, WriteAdds, Words DEF SupervisorMarks, ScriptPrints, Types
  <2> QED
    BY <1>17, <2>1 DEF SupervisorMarks, ScriptPrints, Types
<1>18. CASE SupervisorKillsAll
  BY <1>18, <1>g DEF SupervisorKillsAll, GroupDies, Types, Over
<1>19. CASE SubshellCancels
  BY <1>19 DEF SubshellCancels, Types
<1>20. CASE WrapperReports
  <2>1. errPipe' \in Seq(Tokens)
    <3>1. CASE WriteErr(RcLine)
      BY <1>20, <3>1, WriteAdds, Words DEF WrapperReports
    <3>2. CASE errPipe' = errPipe
      BY <3>2 DEF Types
    <3> QED
      BY <1>20, <3>1, <3>2 DEF WrapperReports
  <2>2. framed' \in BOOLEAN
    BY <1>20 DEF WrapperReports, Types
  <2> QED
    BY <1>20, <2>1, <2>2 DEF WrapperReports, Types, Over
<1>21. CASE ChildCloses
  <2>1. linked' \in BOOLEAN
    BY <1>21 DEF ChildCloses, Types
  <2> QED
    BY <1>21, <2>1 DEF ChildCloses, Types
<1>22. CASE ChildExits
  BY <1>22 DEF ChildExits, Types
<1>23. ASSUME NEW w \in Calls, CommandCalls(w) PROVE Types'
  <2>1. w \in {"in", "out"} \/ w \in Spoken
    BY <1>g DEF Calls
  <2>2. CASE w = "in"
    <3>1. inPipe' \in Seq(Tokens) /\ cmdIn' \in Seq(Tokens)
      <4>1. CASE InEof
        BY <1>23, <2>2, <4>1 DEF CommandCalls, Types
      <4>2. CASE ~InEof
        <5>1. /\ inPipe # <<>> /\ inPipe' = Tail(inPipe) /\ cmdIn' = Append(cmdIn, Head(inPipe))
              /\ inPipe \in Seq(Tokens) /\ cmdIn \in Seq(Tokens)
          BY <1>23, <2>2, <4>2 DEF CommandCalls, Can, Types
        <5> QED
          BY <5>1, HeadTailProperties, AppendProperties
      <4> QED
        BY <4>1, <4>2
    <3> QED
      BY <1>23, <2>2, <3>1 DEF CommandCalls, Types
  <2>3. CASE w = "out"
    BY <1>23, <2>3 DEF CommandCalls, Types
  <2>4. CASE w \in Spoken
    <3>1. w \notin {"in", "out"} /\ w \in Tokens
      BY <2>4 DEF Spoken, Tokens
    <3>2. WriteErr(<<w>>) /\ cmdErr' = Append(cmdErr, w)
      BY <1>23, <3>1 DEF CommandCalls
    <3>3. errPipe' \in Seq(Tokens) /\ cmdErr' \in Seq(Spoken)
      BY <1>23, <2>4, <3>1, <3>2, WriteAdds, Words, AppendProperties DEF CommandCalls, Types
    <3> QED
      BY <1>23, <3>1, <3>3 DEF CommandCalls, Types
  <2> QED
    BY <2>1, <2>2, <2>3, <2>4
<1>24. ASSUME NEW w \in Calls, CommandBlocks(w) PROVE Types'
  BY <1>24, <1>g DEF CommandBlocks, Calls, Types
<1>25. CASE CommandExits
  <2>1. kid' \in case.kids
    BY <1>25, <1>g DEF CommandExits
  <2> QED
    BY <1>25, <2>1 DEF CommandExits, Types
<1>26. CASE TransportWrites
  <2>1. errPipe' \in Seq(Tokens)
    <3>1. "t" \in Tokens
      BY DEF Tokens
    <3> QED
      BY <1>26, <3>1, WriteAdds, Words DEF TransportWrites
  <2> QED
    BY <1>26, <2>1 DEF TransportWrites, Types
<1>27. CASE NapRunsOut
  BY <1>27 DEF NapRunsOut, Types
<1>28. CASE ConnectionLost
  <2>1. errPipe' \in Seq(Tokens)
    <3>1. "t" \in Tokens
      BY DEF Tokens
    <3>2. errPipe \in Seq(Tokens) /\ (errPipe' = errPipe \/ errPipe' = Append(errPipe, "t"))
      BY <1>28 DEF ConnectionLost, Types
    <3> QED
      BY <3>1, <3>2, AppendProperties
  <2>2. /\ linked' \in BOOLEAN /\ child' = "closed" /\ dropped' \in BOOLEAN
        /\ UNCHANGED <<case, password, pc, open, feed, gotOut, gotErr, grace, ended, inPipe, outPipe,
                       script, command, cmdIn, cmdOut, cmdErr, framed, stalled, strayKill, strayCancel>>
    BY <1>28 DEF ConnectionLost
  <2> QED
    BY <2>1, <2>2 DEF Types
<1>29. CASE CommandCloses
  BY <1>29 DEF CommandCloses, Types
<1>30. CASE DescendantExits
  BY <1>30, <1>g DEF DescendantExits, Types
<1>31. CASE DeadlinePasses
  BY <1>31 DEF DeadlinePasses, Types
<1>32. CASE GraceRunsOut
  BY <1>32 DEF GraceRunsOut, Types
<1> QED
  BY <1>1, <1>2, <1>3, <1>4, <1>5, <1>6, <1>7, <1>8, <1>9, <1>10, <1>11, <1>12, <1>13, <1>14,
     <1>15, <1>16, <1>17, <1>18, <1>19, <1>20, <1>21, <1>22, <1>23, <1>24, <1>25, <1>26, <1>27,
     <1>28, <1>29, <1>30, <1>31, <1>32 DEF Next, Engine, Script, Command
-----------------------------------------------------------------------------
(* The engine.                                                             *)

\* What finish would return changes only with what it is given.
LEMMA FinishKept ==
    ASSUME case' = case, ended' = ended, gotOut' = gotOut, gotErr' = gotErr
    PROVE  Finish(ended, gotOut, gotErr)' = Finish(ended, gotOut, gotErr)
BY DEF Finish, Settle, Supervised, Remote, Elevated, mode

\* The engine starts with its three pipes open.
LEMMA EngagedInit == Init => Engaged
BY DEF Init, Engaged, Going, Streams, Failed

\* A step of the other side leaves the engine as it was, gives up pipes and
\* takes none back, and writes on none that is closed.
LEMMA EngagedBeside ==
    ASSUME Types, Engaged, case' = case, UNCHANGED engine,
           child # "alive" => child' # "alive", child' = "reaped" => child = "reaped",
           closed => closed',
           "out" \notin open => outPipe' = outPipe,
           "err" \notin open => errPipe' = errPipe
    PROVE  Engaged'
<1>1. Finish(ended, gotOut, gotErr)' = Finish(ended, gotOut, gotErr)
  BY FinishKept DEF engine
<1>2. Muted => Muted'
  BY DEF Muted, InHeld, Supervised, mode
<1>3. Failed("none")' = Failed("none")
  BY DEF Failed
<1>4. UNCHANGED <<pc, open, feed, gotOut, gotErr, grace, ended, result>> /\ Going' = Going
  BY DEF engine, Going
<1> QED
  BY <1>1, <1>2, <1>3, <1>4 DEF Engaged

\* Every step keeps where the engine is.
LEMMA EngagedStep == Types /\ Engaged /\ Staged /\ [Next]_vars => Engaged'
<1> SUFFICES ASSUME Types, Engaged, Staged, [Next]_vars PROVE Engaged'
  OBVIOUS
<1> USE DEF given, pipes, script, command, history, Beside, Quiet, Alone
<1>f. Failed("none")' = Failed("none")
  BY DEF Failed
<1>1. CASE UNCHANGED vars
  BY <1>1, EngagedBeside DEF vars
<1>2. CASE NonBlocking
  <2>1. Muted' = Muted /\ Going' = Going
    BY <1>2 DEF NonBlocking, Muted, InHeld, Supervised, mode, Going
  <2> QED
    BY <1>2, <1>f, <2>1 DEF NonBlocking, Engaged, Streams
<1>3. CASE PumpTurn
  <2> USE PumpEffect
  <2>1. Muted' = Muted /\ pc = "pump" /\ ended = "none" /\ result = Failed("none") /\ result' = result
    BY <1>3 DEF Muted, InHeld, Supervised, mode, Engaged
  <2>2. CASE \E how \in {"breachout", "breacherr", "abandoned"} : Stopped(how)
    BY <1>3, <1>f, <2>1, <2>2 DEF Stopped, Engaged, Going
  <2>3. CASE pc' = pc /\ ended' = ended /\ open' = open \ Finished
    <3>1. "in" \in Finished => feed' = <<>> \/ Muted
      BY DEF Finished, Muted
    <3>2. "out" \in Finished \/ "out" \notin open => outPipe' = 0 /\ Muted
      BY <1>3, <2>1 DEF Finished, Muted, ReadyPipes, Held, PumpTurn, DrainStdout, Types, Engaged, Going
    <3>3. "err" \in Finished \/ "err" \notin open => errPipe' = <<>> /\ Muted
      <4>1. "err" \in Finished \/ "err" \notin open => errPipe = <<>> /\ Muted
        BY <2>1 DEF Finished, Muted, ReadyPipes, Held, Engaged, Going
      <4>2. errPipe = <<>> => errPipe' = <<>>
        <5> SUFFICES ASSUME errPipe = <<>> PROVE errPipe' = <<>>
          OBVIOUS
        <5>1. Len(errPipe) = 0
          OBVIOUS
        <5>2. errPipe' = errPipe \/ DrainStderr
          BY <1>3 DEF PumpTurn
        <5>3. DrainStderr => errPipe' = SubSeq(errPipe, 1, 0)
          BY <5>1 DEF DrainStderr
        <5> QED
          BY <5>2, <5>3, SubSeqEmpty
      <4> QED
        BY <4>1, <4>2
    <3>4. "in" \notin open => feed' = <<>> \/ Muted
      <4>1. feed = <<>> \/ Muted \/ "in" \in open
        BY <2>1 DEF Engaged, Going
      <4>2. feed = <<>> => feed' = <<>>
        <5> SUFFICES ASSUME feed = <<>> PROVE feed' = <<>>
          OBVIOUS
        <5>1. Len(feed) = 0
          OBVIOUS
        <5> QED
          BY <1>3, <5>1 DEF PumpTurn, FeedStdin
      <4> QED
        BY <4>1, <4>2
    <3> QED
      BY <1>3, <1>f, <2>1, <2>3, <3>1, <3>2, <3>3, <3>4 DEF Engaged, Going
  <2> QED
    BY <1>3, <2>2, <2>3
<1>4. CASE PumpEnds
  <2>1. Muted' = Muted
    BY <1>4 DEF PumpEnds, Muted, InHeld, Supervised, mode
  <2> QED
    BY <1>4, <1>f, <2>1 DEF PumpEnds, Stop, Engaged, Going
<1>5. CASE AwaitExit
  <2>1. Muted => Muted'
    BY <1>5 DEF AwaitExit, Muted, InHeld, Supervised, mode
  <2>2. \/ ended' = "exited" /\ pc' = "finish" /\ child = "zombie" /\ child' = "reaped" /\ open' = open
        \/ ended' \in {"timeout", "breacherr"} /\ pc' = "terminate" /\ open' = {} /\ child' = child
    BY <1>5 DEF AwaitExit, Stop
  <2>3. pc = "await" /\ UNCHANGED <<feed, outPipe, errPipe, result>>
    BY <1>5 DEF AwaitExit
  <2> QED
    BY <1>f, <2>1, <2>2, <2>3 DEF Engaged, Going
<1>6. CASE TerminateRelay
  BY <1>6, <1>f DEF TerminateRelay, Engaged, Going
<1>7. CASE TerminateGroup
  <2>1. child' \in {child, "closed"}
    BY <1>7 DEF TerminateGroup
  <2> QED
    BY <1>7, <1>f, <2>1 DEF TerminateGroup, Engaged, Going
<1>8. CASE ReapWithin
  BY <1>8, <1>f DEF ReapWithin, Engaged, Going
<1>9. CASE RunReturns
  <2>1. Finish(ended, gotOut, gotErr)' = Finish(ended, gotOut, gotErr)
    BY <1>9, FinishKept DEF RunReturns
  <2>2. Muted' = Muted /\ Going' = Going
    BY <1>9 DEF RunReturns, Muted, InHeld, Supervised, mode, Going
  <2> QED
    BY <1>9, <2>1, <2>2 DEF RunReturns, Engaged, Going
<1>10. CASE Fault
  BY <1>10, <1>f DEF Fault, Stop, Engaged, Going
<1>11. CASE SudoReads
  BY <1>11, EngagedBeside DEF SudoReads
<1>12. CASE SudoDecides
  BY <1>12, EngagedBeside DEF SudoDecides
<1>13. CASE SupervisorStarts
  BY <1>13, EngagedBeside DEF SupervisorStarts, ScriptPrints, WriteErr
<1>14. CASE SupervisorDiscards
  BY <1>14, EngagedBeside DEF SupervisorDiscards
<1>15. CASE SupervisorRuns
  BY <1>15, EngagedBeside DEF SupervisorRuns
<1>16. CASE SupervisorWaits
  BY <1>16, EngagedBeside DEF SupervisorWaits
<1>17. CASE SupervisorMarks
  BY <1>17, EngagedBeside DEF SupervisorMarks, ScriptPrints, WriteErr
<1>18. CASE SupervisorKillsAll
  BY <1>18, EngagedBeside DEF SupervisorKillsAll, GroupDies
<1>19. CASE SubshellCancels
  BY <1>19, EngagedBeside DEF SubshellCancels
<1>20. CASE WrapperReports
  BY <1>20, EngagedBeside DEF WrapperReports, WriteErr
<1>21. CASE ChildCloses
  BY <1>21, EngagedBeside DEF ChildCloses
<1>22. CASE ChildExits
  BY <1>22, EngagedBeside DEF ChildExits
<1>23. ASSUME NEW w \in Calls, CommandCalls(w) PROVE Engaged'
  <2>1. UNCHANGED <<child, closed>> /\ case' = case /\ UNCHANGED engine
    BY <1>23 DEF CommandCalls
  <2>2. ("out" \notin open => outPipe' = outPipe) /\ ("err" \notin open => errPipe' = errPipe)
    BY <1>23 DEF CommandCalls, WriteErr
  <2> QED
    BY <2>1, <2>2, EngagedBeside
<1>24. ASSUME NEW w \in Calls, CommandBlocks(w) PROVE Engaged'
  BY <1>24, EngagedBeside DEF CommandBlocks
<1>25. CASE CommandExits
  BY <1>25, EngagedBeside DEF CommandExits
<1>26. CASE TransportWrites
  BY <1>26, EngagedBeside DEF TransportWrites, WriteErr
<1>27. CASE NapRunsOut
  BY <1>27, EngagedBeside DEF NapRunsOut
<1>28. CASE ConnectionLost
  BY <1>28, EngagedBeside DEF ConnectionLost
<1>29. CASE CommandCloses
  BY <1>29, EngagedBeside DEF CommandCloses
<1>30. CASE DescendantExits
  BY <1>30, EngagedBeside DEF DescendantExits
<1>31. CASE DeadlinePasses
  BY <1>31, EngagedBeside DEF DeadlinePasses
<1>32. CASE GraceRunsOut
  <2>1. Muted' = Muted /\ Going' = Going
    BY <1>32 DEF GraceRunsOut, Muted, InHeld, Supervised, mode, Going
  <2> QED
    BY <1>32, <1>f, <2>1 DEF GraceRunsOut, Engaged
<1> QED
  BY <1>1, <1>2, <1>3, <1>4, <1>5, <1>6, <1>7, <1>8, <1>9, <1>10, <1>11, <1>12, <1>13, <1>14,
     <1>15, <1>16, <1>17, <1>18, <1>19, <1>20, <1>21, <1>22, <1>23, <1>24, <1>25, <1>26, <1>27,
     <1>28, <1>29, <1>30, <1>31, <1>32 DEF Next, Engine, Script, Command
-----------------------------------------------------------------------------
(* The processes.                                                          *)

\* The other side starts in an order its processes can be in.
LEMMA StagedInit == Init => Staged
<1> SUFFICES ASSUME Init PROVE Staged
  OBVIOUS
<1>1. mode \in {"direct", "sudo", "ssh", "sshsudo"}
  BY BoundedRunAssumption DEF Init, mode
<1> QED
  BY <1>1 DEF Init, Staged, Supervised, Elevated, Remote, Early, Over

\* The script's wait for the handoff line ends only in a run that is lost.
LEMMA DiscardEnds ==
    ASSUME Types, Engaged, Staged, Fed, sup = "discard", InEof
    PROVE  ~Heard
<1> SUFFICES ASSUME Heard PROVE FALSE
  OBVIOUS
<1>1. password /\ Supervised /\ child = "alive"
  BY DEF Fed, Staged, Types, Heard, Reaches, Supervised, Elevated, Remote, mode
<1>2. inPipe = <<>> /\ feed = <<>>
  BY <1>1 DEF InEof, Heard, Engaged, Muted, InHeld
<1>3. Len(Rest) = 0
  BY <1>2, EmptySeq, ConcatProperties DEF Rest
<1>4. Taken <= 1 /\ Len(Feed) = 2 + Len(Input) /\ Len(Input) \in Nat
  BY <1>1, GivenFacts, LenProperties DEF Fed
<1> QED
  BY <1>3, <1>4 DEF Taken

\* A print kills the script only in a run that is lost.
LEMMA Prints ==
    ASSUME Types, Engaged, Staged, sup \in {"start", "marker"}, NEW word, NEW next,
           ScriptPrints(word, next)
    PROVE  \/ WriteErr(word) /\ sup' = next
           \/ sup' = "piped" /\ errPipe' = errPipe /\ ~Heard
<1> SUFFICES ASSUME Unread, Heard PROVE FALSE
  BY DEF ScriptPrints
<1>1. mode = "sudo" /\ "err" \notin open
  BY GivenFacts DEF Unread, Heard, Reaches, Remote, Staged, Supervised
<1>2. child # "alive"
  BY <1>1 DEF Heard, Engaged, Muted, InHeld, Supervised
<1> QED
  BY <1>1, <1>2 DEF Staged

\* Every step keeps the order among the script, its sleep and its subshell.
LEMMA StagedStep == Types /\ Engaged /\ Staged /\ Fed /\ [Next]_vars => Staged'
<1> SUFFICES ASSUME Types, Engaged, Staged, Fed, [Next]_vars PROVE Staged'
  OBVIOUS
<1> USE DEF given, engine, pipes, script, command, history, Beside, Quiet, Alone, Supervised,
            Elevated, Remote, mode, Heard, Going, Reaches, Early, Over
<1>m. mode \in {"direct", "sudo", "ssh", "sshsudo"}
  BY GivenFacts
<1>e. Engaged => (pc \in {"terminate", "relay", "reap"} => ~Going)
  BY DEF Engaged
<1>1. CASE UNCHANGED vars
  BY <1>1 DEF vars, Staged
<1>2. CASE NonBlocking
  BY <1>2 DEF NonBlocking, Staged
<1>3. CASE PumpTurn
  <2>1. /\ ended' = ended \/ ~Going'
        /\ UNCHANGED <<case, password, result, child, linked, expired, script, command, history>>
    BY <1>3, PumpEffect DEF Stopped
  <2> QED
    BY <2>1 DEF Staged
<1>4. CASE PumpEnds
  BY <1>4 DEF PumpEnds, Stop, Staged
<1>5. CASE AwaitExit
  <2>1. /\ \/ child' = child /\ ~Going' 
           \/ child = "zombie" /\ child' = "reaped"
        /\ ended = "none" /\ UNCHANGED <<case, linked, script, command>>
    BY <1>5 DEF AwaitExit, Stop, Engaged
  <2> QED
    BY <2>1 DEF Staged
<1>6. CASE TerminateRelay
  <2>1. ~Going' /\ UNCHANGED <<case, child, linked>> /\ Supervised
    BY <1>6, <1>e DEF TerminateRelay
  <2>2. CASE NoSignal
    BY <2>1, <2>2 DEF NoSignal, Staged
  <2>3. CASE GroupDies
    BY <2>1, <2>3 DEF GroupDies, Staged, Types
  <2> QED
    BY <1>6, <2>2, <2>3 DEF TerminateRelay
<1>7. CASE TerminateGroup
  <2>1. ~Going /\ ended' = ended /\ UNCHANGED <<case, closed>>
    BY <1>7, <1>e DEF TerminateGroup, GroupDies, NoSignal
  <2>2. CASE mode = "direct"
    BY <1>7, <2>1, <2>2 DEF TerminateGroup, GroupDies, Staged
  <2>3. CASE mode = "sudo"
    <3>1. /\ linked' = linked
          /\ (child' = child /\ NoSignal) \/ (child' \in {child, "closed"} /\ GroupDies)
      BY <1>7, <2>3 DEF TerminateGroup
    <3>2. CASE child' = child /\ NoSignal
      BY <2>1, <2>3, <3>1, <3>2 DEF NoSignal, Staged
    <3>3. CASE child' \in {child, "closed"} /\ GroupDies
      BY <2>1, <2>3, <3>1, <3>3 DEF GroupDies, Staged, Types
    <3> QED
      BY <3>1, <3>2, <3>3
  <2>4. CASE mode \in {"ssh", "sshsudo"}
    BY <1>7, <2>1, <2>4 DEF TerminateGroup, NoSignal, Staged
  <2> QED
    BY <1>m, <2>2, <2>3, <2>4
<1>8. CASE ReapWithin
  BY <1>8, <1>e DEF ReapWithin, Staged
<1>9. CASE RunReturns
  BY <1>9 DEF RunReturns, Staged
<1>10. CASE Fault
  BY <1>10 DEF Fault, Stop, Staged
<1>11. CASE SudoReads
  BY <1>11 DEF SudoReads, Staged, Types
<1>12. CASE SudoDecides
  BY <1>12 DEF SudoDecides, Staged, Types
<1>13. CASE SupervisorStarts
  BY <1>13, Prints DEF SupervisorStarts, Staged, Types
<1>14. CASE SupervisorDiscards
  <2>1. CASE InEof
    BY <1>14, <2>1, DiscardEnds DEF SupervisorDiscards, Staged, Types
  <2>2. CASE ~InEof
    BY <1>14, <2>2 DEF SupervisorDiscards, Staged, Types
  <2> QED
    BY <2>1, <2>2
<1>15. CASE SupervisorRuns
  BY <1>15 DEF SupervisorRuns, Staged, Types
<1>16. CASE SupervisorWaits
  BY <1>16 DEF SupervisorWaits, Staged, Types
<1>17. CASE SupervisorMarks
  BY <1>17, Prints DEF SupervisorMarks, Staged, Types
<1>18. CASE SupervisorKillsAll
  BY <1>18 DEF SupervisorKillsAll, GroupDies, Staged, Types
<1>19. CASE SubshellCancels
  BY <1>19 DEF SubshellCancels, Staged, Types
<1>20. CASE WrapperReports
  BY <1>20 DEF WrapperReports, Staged, Types
<1>21. CASE ChildCloses
  BY <1>21 DEF ChildCloses, Staged, Types
<1>22. CASE ChildExits
  BY <1>22 DEF ChildExits, Staged, Types
<1>23. ASSUME NEW w \in Calls, CommandCalls(w) PROVE Staged'
  BY <1>23 DEF CommandCalls, Staged, Types
<1>24. ASSUME NEW w \in Calls, CommandBlocks(w) PROVE Staged'
  BY <1>24 DEF CommandBlocks, Wants, Staged, Types
<1>25. CASE CommandExits
  BY <1>25 DEF CommandExits, Staged, Types
<1>26. CASE TransportWrites
  BY <1>26 DEF TransportWrites, Staged, Types
<1>27. CASE NapRunsOut
  BY <1>27 DEF NapRunsOut, Staged, Types
<1>28. CASE ConnectionLost
  BY <1>28 DEF ConnectionLost, Staged, Types
<1>29. CASE CommandCloses
  BY <1>29 DEF CommandCloses, Staged, Types
<1>30. CASE DescendantExits
  BY <1>30 DEF DescendantExits, Staged, Types
<1>31. CASE DeadlinePasses
  BY <1>31 DEF DeadlinePasses, Staged, Types
<1>32. CASE GraceRunsOut
  BY <1>32 DEF GraceRunsOut, Staged, Types
<1> QED
  BY <1>1, <1>2, <1>3, <1>4, <1>5, <1>6, <1>7, <1>8, <1>9, <1>10, <1>11, <1>12, <1>13, <1>14,
     <1>15, <1>16, <1>17, <1>18, <1>19, <1>20, <1>21, <1>22, <1>23, <1>24, <1>25, <1>26, <1>27,
     <1>28, <1>29, <1>30, <1>31, <1>32 DEF Next, Engine, Script, Command
-----------------------------------------------------------------------------
(* Signals.                                                                *)

\* Nothing was signalled at the start.
LEMMA AimedInit == Init => Aimed
BY DEF Init, Aimed

\* Every signal of a step reaches somebody of this run.
LEMMA AimedStep == Types /\ Engaged /\ Staged /\ Aimed /\ [Next]_vars => Aimed'
<1> SUFFICES ASSUME Types, Engaged, Staged, Aimed, [Next]_vars PROVE Aimed'
  OBVIOUS
<1> USE DEF given, engine, pipes, script, command, history, Beside, Quiet, Alone, Supervised, mode,
            Early, Over
<1>m. mode \in {"direct", "sudo", "ssh", "sshsudo"}
  BY GivenFacts
<1>1. CASE UNCHANGED vars
  BY <1>1 DEF vars, Aimed
<1>2. CASE NonBlocking
  BY <1>2 DEF NonBlocking, Aimed
<1>3. CASE PumpTurn
  <2>1. /\ pc' \in {"pump", "terminate"}
        /\ UNCHANGED <<case, password, result, child, linked, expired, script, command, history>>
    BY <1>3, PumpEffect DEF Stopped
  <2> QED
    BY <2>1 DEF Aimed
<1>4. CASE PumpEnds
  BY <1>4 DEF PumpEnds, Stop, Aimed
<1>5. CASE AwaitExit
  BY <1>5 DEF AwaitExit, Stop, Aimed
<1>6. CASE TerminateRelay
  BY <1>6 DEF TerminateRelay, GroupDies, NoSignal, Aimed, Types
<1>7. CASE TerminateGroup
  <2>1. /\ strayKill' = FALSE /\ pc' = "reap" /\ UNCHANGED <<case, ended, strayCancel, closed>>
    BY <1>7 DEF TerminateGroup, GroupDies, NoSignal, Engaged, Aimed
  <2>2. CASE NoSignal /\ mode # "direct"
    BY <2>1, <2>2 DEF NoSignal, Aimed
  <2>3. CASE GroupDies
    BY <2>1, <2>3 DEF GroupDies, Aimed, Types
  <2> QED
    BY <1>7, <1>m, <2>2, <2>3 DEF TerminateGroup
<1>8. CASE ReapWithin
  BY <1>8 DEF ReapWithin, Aimed
<1>9. CASE RunReturns
  BY <1>9 DEF RunReturns, Aimed
<1>10. CASE Fault
  BY <1>10 DEF Fault, Stop, Aimed
<1>11. CASE SudoReads
  BY <1>11 DEF SudoReads, Staged, Aimed
<1>12. CASE SudoDecides
  BY <1>12 DEF SudoDecides, Staged, Aimed
<1>13. CASE SupervisorStarts
  BY <1>13 DEF SupervisorStarts, ScriptPrints, Staged, Aimed
<1>14. CASE SupervisorDiscards
  BY <1>14 DEF SupervisorDiscards, Staged, Aimed
<1>15. CASE SupervisorRuns
  BY <1>15 DEF SupervisorRuns, Staged, Aimed
<1>16. CASE SupervisorWaits
  BY <1>16 DEF SupervisorWaits, Staged, Aimed
<1>17. CASE SupervisorMarks
  BY <1>17 DEF SupervisorMarks, ScriptPrints, Staged, Aimed
<1>18. CASE SupervisorKillsAll
  BY <1>18 DEF SupervisorKillsAll, GroupDies, Staged, Aimed, Types
<1>19. CASE SubshellCancels
  BY <1>19 DEF SubshellCancels, Staged, Aimed
<1>20. CASE WrapperReports
  BY <1>20 DEF WrapperReports, Staged, Aimed
<1>21. CASE ChildCloses
  BY <1>21 DEF ChildCloses, Aimed
<1>22. CASE ChildExits
  BY <1>22 DEF ChildExits, Aimed
<1>23. ASSUME NEW w \in Calls, CommandCalls(w) PROVE Aimed'
  <2>1. UNCHANGED <<case, pc, ended, script, kid, strayKill, strayCancel>>
    BY <1>23 DEF CommandCalls
  <2> QED
    BY <2>1 DEF Aimed
<1>24. ASSUME NEW w \in Calls, CommandBlocks(w) PROVE Aimed'
  BY <1>24 DEF CommandBlocks, Aimed
<1>25. CASE CommandExits
  BY <1>25 DEF CommandExits, Staged, Aimed, Types
<1>26. CASE TransportWrites
  BY <1>26 DEF TransportWrites, Aimed
<1>27. CASE NapRunsOut
  BY <1>27 DEF NapRunsOut, Aimed
<1>28. CASE ConnectionLost
  BY <1>28 DEF ConnectionLost, Aimed
<1>29. CASE CommandCloses
  BY <1>29 DEF CommandCloses, Aimed
<1>30. CASE DescendantExits
  BY <1>30 DEF DescendantExits, Aimed
<1>31. CASE DeadlinePasses
  BY <1>31 DEF DeadlinePasses, Aimed
<1>32. CASE GraceRunsOut
  BY <1>32 DEF GraceRunsOut, Aimed
<1> QED
  BY <1>1, <1>2, <1>3, <1>4, <1>5, <1>6, <1>7, <1>8, <1>9, <1>10, <1>11, <1>12, <1>13, <1>14,
     <1>15, <1>16, <1>17, <1>18, <1>19, <1>20, <1>21, <1>22, <1>23, <1>24, <1>25, <1>26, <1>27,
     <1>28, <1>29, <1>30, <1>31, <1>32 DEF Next, Engine, Script, Command
-----------------------------------------------------------------------------
(* Standard input.                                                         *)

\* Nothing was fed at the start.
LEMMA FedInit == Init => Fed
<1> SUFFICES ASSUME Init PROVE Fed
  OBVIOUS
<1>1. Types
  BY TypesInit
<1>2. Feed \in Seq(Tokens) /\ Len(Feed) \in Nat /\ feed = Feed /\ inPipe = <<>> /\ cmdIn = <<>>
  BY <1>1, GivenFacts, LenProperties DEF Init
<1>3. Rest = Feed /\ Taken = 0 /\ Len(cmdIn) = 0
  BY <1>2, ConcatEmptySeq DEF Rest, Taken
<1>4. sup \in {"none", "elevating", "start"} /\ (password => sup = "elevating")
  BY <1>1 DEF Init, Types, Elevated
<1>5. password => sub = "none"
  BY <1>1 DEF Init, Types, Elevated, Supervised
<1> QED
  BY <1>2, <1>3, <1>4, <1>5 DEF Fed

\* A step that moves no input keeps what was fed.
LEMMA FedFrame ==
    ASSUME Types, Fed, case' = case, password' = password, cmdIn' = cmdIn, Rest' = Rest,
           sup' = sup \/ sup' \notin Early, sub' = "none" <=> sub = "none"
    PROVE  Fed'
<1>1. Input' = Input /\ Feed' = Feed
  BY DEF Input, Feed
<1>2. Taken' = Taken
  BY <1>1 DEF Taken
<1> QED
  BY <1>1, <1>2 DEF Fed, Early

\* A line or a byte is read.
LEMMA TakeOne ==
    ASSUME Types, Fed, case' = case, password' = password, feed' = feed,
           inPipe # <<>>, inPipe' = Tail(inPipe)
    PROVE  /\ Input' = Input /\ Feed' = Feed /\ Taken' = Taken + 1
           /\ Taken < Len(Feed) /\ Head(inPipe) = Feed[Taken + 1]
           /\ \A i \in 1..Len(Rest') : Rest'[i] = Feed[Taken + 1 + i]
<1>1. Input' = Input /\ Feed' = Feed
  BY DEF Input, Feed
<1>2. inPipe \in Seq(Tokens) /\ feed \in Seq(Tokens) /\ Rest \in Seq(Tokens)
  BY ConcatProperties DEF Types, Rest
<1>3. /\ Head(inPipe) = Rest[1] /\ Len(Rest') = Len(Rest) - 1
      /\ \A i \in 1..(Len(Rest) - 1) : Rest'[i] = Rest[i + 1]
  BY <1>2, TailTakes DEF Rest
<1>4. Len(Rest) \in Nat /\ Len(Rest) > 0 /\ Len(Feed) \in Nat
  <2>1. Len(inPipe) \in Nat \ {0} /\ Len(feed) \in Nat /\ Len(Rest) = Len(inPipe) + Len(feed)
    BY <1>2, EmptySeq, LenProperties, ConcatProperties DEF Rest
  <2> QED
    BY <2>1, GivenFacts, LenProperties
<1>5. Taken' = Taken + 1 /\ Taken \in Nat
  BY <1>1, <1>3, <1>4 DEF Taken, Fed
<1>6. \A i \in 1..Len(Rest) : Rest[i] = Feed[Taken + i]
  BY DEF Fed
<1>7. Taken < Len(Feed)
  BY <1>4 DEF Taken
<1>8. \A i \in 1..Len(Rest') : Rest'[i] = Feed[Taken + 1 + i]
  <2> SUFFICES ASSUME NEW i \in 1..Len(Rest') PROVE Rest'[i] = Feed[Taken + 1 + i]
    OBVIOUS
  <2>1. i \in 1..(Len(Rest) - 1) /\ i + 1 \in 1..Len(Rest) /\ Taken + (i + 1) = Taken + 1 + i
    BY <1>3, <1>4, <1>5
  <2> QED
    BY <1>3, <1>6, <2>1
<1>9. 1 \in 1..Len(Rest)
  BY <1>4
<1> QED
  BY <1>1, <1>3, <1>5, <1>6, <1>7, <1>8, <1>9

\* Every step keeps the input in order: what was taken, what is in the pipe, what is left.
LEMMA FedStep == Types /\ Staged /\ Fed /\ [Next]_vars => Fed'
<1> SUFFICES ASSUME Types, Staged, Fed, [Next]_vars PROVE Fed'
  OBVIOUS
<1> USE DEF given, engine, pipes, script, command, history, Beside, Quiet, Alone
<1>r. inPipe' = inPipe /\ feed' = feed => Rest' = Rest
  BY DEF Rest
<1>k. GroupDies => (sup' = sup \/ sup' \notin Early) /\ (sub' = "none" <=> sub = "none")
  BY DEF GroupDies, Early
<1>g. Len(Feed) = (IF password THEN 2 ELSE 0) + Len(Input) /\ Len(Input) \in Nat /\ Len(cmdIn) \in Nat
  BY GivenFacts, LenProperties DEF Types
<1>t. /\ password => /\ Feed[1] = "pw" /\ Feed[2] = "h"
                     /\ \A i \in 1..Len(Input) : Feed[2 + i] = Input[i] /\ Input[i] \notin {"pw", "h"}
      /\ ~password => Feed = Input
  BY GivenFacts
<1>1. CASE UNCHANGED vars
  BY <1>1, <1>r, FedFrame DEF vars
<1>2. CASE NonBlocking
  BY <1>2, <1>r, FedFrame DEF NonBlocking
<1>3. CASE PumpTurn
  BY <1>3, PumpEffect, FedFrame
<1>4. CASE PumpEnds
  BY <1>4, <1>r, FedFrame DEF PumpEnds
<1>5. CASE AwaitExit
  BY <1>5, <1>r, FedFrame DEF AwaitExit
<1>6. CASE TerminateRelay
  BY <1>6, <1>r, <1>k, FedFrame DEF TerminateRelay, NoSignal
<1>7. CASE TerminateGroup
  <2>1. (GroupDies \/ NoSignal) /\ UNCHANGED <<case, password, inPipe, feed, cmdIn>>
    BY <1>7 DEF TerminateGroup
  <2> QED
    BY <2>1, <1>r, <1>k, FedFrame DEF NoSignal
<1>8. CASE ReapWithin
  BY <1>8, <1>r, FedFrame DEF ReapWithin
<1>9. CASE RunReturns
  BY <1>9, <1>r, FedFrame DEF RunReturns
<1>10. CASE Fault
  BY <1>10, <1>r, FedFrame DEF Fault
<1>11. CASE SudoReads
  <2>1. /\ password /\ sup \in {"elevating", "asking"} /\ sub = "none" /\ sub' = sub /\ cmdIn' = cmdIn
        /\ password' = password /\ inPipe # <<>> /\ inPipe' = Tail(inPipe) /\ feed' = feed
        /\ case' = case /\ cmdIn = <<>>
        /\ sup' \in {"asking", "start"} /\ (sup' = "start" => Head(inPipe) = "pw")
    BY <1>11 DEF SudoReads, Staged, Early, Fed
  <2>2. /\ Input' = Input /\ Feed' = Feed /\ Taken' = Taken + 1
        /\ Taken < Len(Feed) /\ Head(inPipe) = Feed[Taken + 1]
        /\ \A i \in 1..Len(Rest') : Rest'[i] = Feed[Taken + 1 + i]
    BY <2>1, TakeOne
  <2>3. Taken \in Nat /\ Taken' \in Nat
    BY <2>2 DEF Fed
  <2>4. Head(inPipe) = "pw" => Taken = 0
    <3> SUFFICES ASSUME Taken # 0 PROVE Feed[Taken + 1] # "pw"
      BY <2>2
    <3>1. CASE Taken = 1
      BY <2>1, <1>t, <3>1
    <3>2. CASE Taken > 1
      <4>1. Taken - 1 \in 1..Len(Input) /\ Taken + 1 = 2 + (Taken - 1)
        BY <2>1, <2>2, <2>3, <1>g, <3>2
      <4> QED
        BY <2>1, <1>t, <4>1
    <3> QED
      BY <2>3, <3>1, <3>2
  <2> QED
    BY <2>1, <2>2, <2>3, <2>4 DEF Fed, Early
<1>12. CASE SudoDecides
  <2>1. /\ sup \in {"elevating", "asking"} /\ sup' \in {"start", "refused"}
        /\ (sup' = "start" => sup = "elevating")
        /\ UNCHANGED <<case, password, inPipe, feed, cmdIn, sub>> /\ sub = "none"
    BY <1>12 DEF SudoDecides, Staged, Early
  <2>2. Rest' = Rest /\ Input' = Input /\ Feed' = Feed /\ Taken' = Taken
    BY <2>1 DEF Rest, Input, Feed, Taken
  <2> QED
    BY <2>1, <2>2 DEF Fed, Early
<1>13. CASE SupervisorStarts
  <2>1. /\ sup = "start" /\ sup' \in {IF password THEN "discard" ELSE "nap", "piped"}
        /\ UNCHANGED <<case, password, inPipe, feed, cmdIn, sub>> /\ sub = "none"
    BY <1>13 DEF SupervisorStarts, ScriptPrints, Staged, Early
  <2>2. Rest' = Rest /\ Input' = Input /\ Feed' = Feed /\ Taken' = Taken
    BY <2>1 DEF Rest, Input, Feed, Taken
  <2>3. CASE sup' = "piped"
    BY <1>r, <2>1, <2>3, FedFrame DEF Early
  <2>4. CASE sup' = IF password THEN "discard" ELSE "nap"
    BY <2>1, <2>2, <2>4 DEF Fed, Early
  <2> QED
    BY <2>1, <2>3, <2>4
<1>14. CASE SupervisorDiscards
  <2>1. CASE InEof
    BY <1>14, <2>1, <1>r, FedFrame DEF SupervisorDiscards, Early
  <2>2. CASE ~InEof
    <3>1. /\ password /\ sup = "discard" /\ sub = "none" /\ sub' = sub /\ cmdIn' = cmdIn
          /\ password' = password /\ inPipe # <<>> /\ inPipe' = Tail(inPipe) /\ feed' = feed
          /\ case' = case /\ cmdIn = <<>> /\ Taken <= 1 /\ Taken \in Nat
          /\ sup' = (IF Head(inPipe) = "h" THEN "nap" ELSE "discard")
      BY <1>14, <2>2 DEF SupervisorDiscards, Staged, Early, Fed, Types
    <3>2. /\ Input' = Input /\ Feed' = Feed /\ Taken' = Taken + 1
          /\ Taken < Len(Feed) /\ Head(inPipe) = Feed[Taken + 1]
          /\ \A i \in 1..Len(Rest') : Rest'[i] = Feed[Taken + 1 + i]
      BY <3>1, TakeOne
    <3>3. Head(inPipe) = "h" <=> Taken = 1
      BY <3>1, <3>2, <1>t
    <3>4. Len(cmdIn) = 0
      BY <3>1
    <3> QED
      BY <3>1, <3>2, <3>3, <3>4 DEF Fed, Early
  <2> QED
    BY <2>1, <2>2
<1>15. CASE SupervisorRuns
  <2>1. /\ sup = "nap" /\ sup' = "waitnap" /\ sub' = "command" /\ cmdIn = <<>>
        /\ UNCHANGED <<case, password, inPipe, feed, cmdIn>>
    BY <1>15 DEF SupervisorRuns, Fed, Early
  <2>2. Rest' = Rest /\ Input' = Input /\ Feed' = Feed /\ Taken' = Taken
    BY <2>1 DEF Rest, Input, Feed, Taken
  <2> QED
    BY <2>1, <2>2 DEF Fed, Early
<1>16. CASE SupervisorWaits
  BY <1>16, <1>r, FedFrame DEF SupervisorWaits, Early
<1>17. CASE SupervisorMarks
  BY <1>17, <1>r, FedFrame DEF SupervisorMarks, ScriptPrints, Early
<1>18. CASE SupervisorKillsAll
  BY <1>18, <1>r, <1>k, FedFrame DEF SupervisorKillsAll
<1>19. CASE SubshellCancels
  BY <1>19, <1>r, FedFrame DEF SubshellCancels
<1>20. CASE WrapperReports
  BY <1>20, <1>r, FedFrame DEF WrapperReports, Early
<1>21. CASE ChildCloses
  BY <1>21, <1>r, FedFrame DEF ChildCloses
<1>22. CASE ChildExits
  BY <1>22, <1>r, FedFrame DEF ChildExits
<1>23. ASSUME NEW w \in Calls, CommandCalls(w) PROVE Fed'
  <2>0. sub = "command" /\ UNCHANGED <<case, password, feed, sup, sub>> /\ sup \notin Early
    BY <1>23 DEF CommandCalls, Staged
  <2>1. CASE w # "in" \/ InEof
    <3>1. inPipe' = inPipe /\ cmdIn' = cmdIn
      BY <1>23, <2>1 DEF CommandCalls
    <3> QED
      BY <2>0, <3>1, <1>r, FedFrame
  <2>2. CASE w = "in" /\ ~InEof
    <3>1. inPipe # <<>> /\ inPipe' = Tail(inPipe) /\ cmdIn' = Append(cmdIn, Head(inPipe))
      BY <1>23, <2>2 DEF CommandCalls, Can
    <3>2. /\ Input' = Input /\ Feed' = Feed /\ Taken' = Taken + 1
          /\ Taken < Len(Feed) /\ Head(inPipe) = Feed[Taken + 1]
          /\ \A i \in 1..Len(Rest') : Rest'[i] = Feed[Taken + 1 + i]
      BY <2>0, <3>1, TakeOne
    <3>3. Taken = (IF password THEN 2 ELSE 0) + Len(cmdIn) /\ Taken \in Nat
      BY <2>0 DEF Fed, Types
    <3>4. Len(cmdIn) + 1 \in 1..Len(Input) /\ Head(inPipe) = Input[Len(cmdIn) + 1]
      <4>1. Len(cmdIn) + 1 \in 1..Len(Input)
        BY <3>2, <3>3, <1>g
      <4>2. password \in BOOLEAN
        BY DEF Types
      <4>3. CASE password
        <5>1. Taken + 1 = 2 + (Len(cmdIn) + 1)
          BY <3>3, <1>g, <4>3
        <5> QED
          BY <3>2, <4>1, <4>3, <5>1, <1>t
      <4>4. CASE ~password
        BY <3>2, <3>3, <4>1, <4>4, <1>t, <1>g
      <4> QED
        BY <4>1, <4>2, <4>3, <4>4
    <3>5. /\ Len(cmdIn') = Len(cmdIn) + 1
          /\ \A i \in 1..Len(cmdIn) : cmdIn'[i] = cmdIn[i]
          /\ cmdIn'[Len(cmdIn) + 1] = Head(inPipe)
      <4>1. cmdIn \in Seq(Tokens) /\ Head(inPipe) \in Tokens
        BY <3>1, HeadTailProperties DEF Types
      <4> QED
        BY <3>1, <4>1, AppendProperties
    <3>6. \A i \in 1..Len(cmdIn') : cmdIn'[i] = Input[i]
      <4>1. \A i \in 1..Len(cmdIn) : cmdIn[i] = Input[i]
        BY DEF Fed
      <4> QED
        BY <3>4, <3>5, <4>1, <1>g
    <3> QED
      BY <2>0, <3>2, <3>3, <3>5, <3>6, <1>g DEF Fed, Early
  <2> QED
    BY <2>1, <2>2
<1>24. ASSUME NEW w \in Calls, CommandBlocks(w) PROVE Fed'
  BY <1>24, <1>r, FedFrame DEF CommandBlocks
<1>25. CASE CommandExits
  BY <1>25, <1>r, FedFrame DEF CommandExits
<1>26. CASE TransportWrites
  BY <1>26, <1>r, FedFrame DEF TransportWrites
<1>27. CASE NapRunsOut
  BY <1>27, <1>r, FedFrame DEF NapRunsOut
<1>28. CASE ConnectionLost
  BY <1>28, <1>r, FedFrame DEF ConnectionLost
<1>29. CASE CommandCloses
  BY <1>29, <1>r, FedFrame DEF CommandCloses
<1>30. CASE DescendantExits
  BY <1>30, <1>r, FedFrame DEF DescendantExits
<1>31. CASE DeadlinePasses
  BY <1>31, <1>r, FedFrame DEF DeadlinePasses
<1>32. CASE GraceRunsOut
  BY <1>32, <1>r, FedFrame DEF GraceRunsOut
<1> QED
  BY <1>1, <1>2, <1>3, <1>4, <1>5, <1>6, <1>7, <1>8, <1>9, <1>10, <1>11, <1>12, <1>13, <1>14,
     <1>15, <1>16, <1>17, <1>18, <1>19, <1>20, <1>21, <1>22, <1>23, <1>24, <1>25, <1>26, <1>27,
     <1>28, <1>29, <1>30, <1>31, <1>32 DEF Next, Engine, Script, Command
-----------------------------------------------------------------------------
(* Standard error: how its layout grows.                                   *)

\* A sequence that another one continues keeps its tokens.
LEMMA Longer ==
    ASSUME NEW E \in Seq(Tokens), NEW w \in Seq(Tokens)
    PROVE  /\ Len(E \o w) = Len(E) + Len(w) /\ Len(E) \in Nat /\ Len(w) \in Nat
           /\ \A i \in 1..Len(E) : (E \o w)[i] = E[i]
           /\ \A j \in 1..Len(w) : (E \o w)[Len(E) + j] = w[j]
<1>1. Len(E) \in Nat /\ Len(w) \in Nat
  BY LenProperties
<1>2. /\ Len(E \o w) = Len(E) + Len(w)
      /\ \A i \in 1..(Len(E) + Len(w)) :
           (E \o w)[i] = IF i <= Len(E) THEN E[i] ELSE w[i - Len(E)]
  BY ConcatProperties
<1>3. ASSUME NEW j \in 1..Len(w) PROVE (E \o w)[Len(E) + j] = w[j]
  <2>1. /\ Len(E) + j \in 1..(Len(E) + Len(w)) /\ ~(Len(E) + j <= Len(E))
        /\ Len(E) + j - Len(E) = j
    BY <1>1
  <2> QED
    BY <1>2, <2>1
<1> QED
  BY <1>1, <1>2, <1>3

LEMMA LongerByOne ==
    ASSUME NEW E \in Seq(Tokens), NEW v \in Tokens
    PROVE  /\ Len(E \o <<v>>) = Len(E) + 1 /\ Len(E) \in Nat
           /\ (E \o <<v>>)[Len(E) + 1] = v
           /\ \A i \in 1..Len(E) : (E \o <<v>>)[i] = E[i]
<1> DEFINE w == <<v>>
<1>1. w \in Seq(Tokens) /\ Len(w) = 1 /\ w[1] = v
  BY Words
<1> HIDE DEF w
<1>2. 1 \in 1..Len(w)
  BY <1>1
<1>3. /\ Len(E \o w) = Len(E) + 1 /\ Len(E) \in Nat
      /\ (E \o w)[Len(E) + 1] = v
      /\ \A i \in 1..Len(E) : (E \o w)[i] = E[i]
  BY <1>1, <1>2, Longer
<1> QED
  BY <1>3 DEF w

LEMMA LongerByTwo ==
    ASSUME NEW E \in Seq(Tokens), NEW w \in Seq(Tokens), Len(w) = 2
    PROVE  /\ Len(E \o w) = Len(E) + 2 /\ Len(E) \in Nat
           /\ (E \o w)[Len(E) + 1] = w[1] /\ (E \o w)[Len(E) + 2] = w[2]
           /\ \A i \in 1..Len(E) : (E \o w)[i] = E[i]
<1>1. 1 \in 1..Len(w) /\ 2 \in 1..Len(w)
  OBVIOUS
<1> QED
  BY <1>1, Longer

\* A byte that nobody hears changes no layout.
LEMMA LaidSaid ==
    ASSUME NEW E, NEW said \in Seq(Spoken), NEW w \in Spoken,
           NEW p \in Nat, NEW c \in Nat, NEW a \in Nat, NEW s \in {0, 2}, NEW m \in {0, 2},
           NEW r \in {0, 2}, NEW x \in {0, 1}, Laid(E, said, p, s, c, a, m, r, x)
    PROVE  Laid(E, Append(said, w), p, s, c, a, m, r, x)
<1>1. /\ Len(said) \in Nat /\ Len(Append(said, w)) = Len(said) + 1
      /\ \A i \in 1..Len(said) : Append(said, w)[i] = said[i]
  BY AppendProperties, LenProperties
<1> QED
  BY <1>1 DEF Laid

\* A token of the transport comes before the sentinel.
LEMMA LaidTransport ==
    ASSUME NEW E \in Seq(Tokens), NEW said \in Seq(Spoken), NEW p \in Nat, NEW a \in Nat,
           Laid(E, said, p, 0, 0, a, 0, 0, 0)
    PROVE  Laid(E \o <<"t">>, said, p + 1, 0, 0, a, 0, 0, 0)
<1> DEFINE F == E \o <<"t">>
<1>2. "t" \in Tokens
  BY DEF Tokens
<1>3. /\ Len(F) = Len(E) + 1 /\ Len(E) \in Nat /\ F[Len(E) + 1] = "t"
      /\ \A i \in 1..Len(E) : F[i] = E[i]
  BY <1>2, LongerByOne
<1> HIDE DEF F
<1>4. Laid(F, said, p + 1, 0, 0, a, 0, 0, 0)
  BY <1>3 DEF Laid
<1> QED
  BY <1>4 DEF F

\* The sentinel comes after the transport's tokens.
LEMMA LaidSentinel ==
    ASSUME NEW E \in Seq(Tokens), NEW said \in Seq(Spoken), NEW p \in Nat, NEW a \in Nat,
           Laid(E, said, p, 0, 0, a, 0, 0, 0)
    PROVE  Laid(E \o Sentinel, said, p, 2, 0, a, 0, 0, 0)
<1> DEFINE F == E \o Sentinel
<1>1. /\ Len(F) = Len(E) + 2 /\ Len(E) \in Nat
      /\ F[Len(E) + 1] = "S1" /\ F[Len(E) + 2] = "S2"
      /\ \A i \in 1..Len(E) : F[i] = E[i]
  BY Words, LongerByTwo
<1> HIDE DEF F
<1>2. Laid(F, said, p, 2, 0, a, 0, 0, 0)
  BY <1>1 DEF Laid
<1> QED
  BY <1>2 DEF F

\* The marker comes after the bytes the command has written so far.
LEMMA LaidMarker ==
    ASSUME NEW E \in Seq(Tokens), NEW said \in Seq(Spoken), NEW p \in Nat, NEW a \in Nat,
           NEW c \in Nat, NEW s \in {0, 2}, Laid(E, said, p, s, c, a, 0, 0, 0)
    PROVE  Laid(E \o Marker, said, p, s, c, c, 2, 0, 0)
<1> DEFINE F == E \o Marker
<1>1. /\ Len(F) = Len(E) + 2 /\ Len(E) \in Nat
      /\ F[Len(E) + 1] = "M1" /\ F[Len(E) + 2] = "M2"
      /\ \A i \in 1..Len(E) : F[i] = E[i]
  BY Words, LongerByTwo
<1> HIDE DEF F
<1>2. /\ Len(E) = p + s + c /\ c <= Len(said) /\ s \in Nat
      /\ \A i \in 1..p : E[i] = "t"
      /\ s = 2 => E[p + 1] = "S1" /\ E[p + 2] = "S2"
      /\ \A i \in 1..c : E[p + s + i] = said[i]
  BY DEF Laid
<1>3. \A i \in 1..c : F[p + s + i + (IF i > c THEN 2 ELSE 0)] = said[i]
  <2> SUFFICES ASSUME NEW i \in 1..c PROVE F[p + s + i] = said[i]
    OBVIOUS
  <2>1. p + s + i \in 1..Len(E)
    BY <1>2
  <2> QED
    BY <1>1, <1>2, <2>1
<1>4. Laid(F, said, p, s, c, c, 2, 0, 0)
  BY <1>1, <1>2, <1>3 DEF Laid
<1> QED
  BY <1>4 DEF F

\* The wrapper's line comes after the command's bytes.
LEMMA LaidReport ==
    ASSUME NEW E \in Seq(Tokens), NEW said \in Seq(Spoken), NEW p \in Nat, NEW a \in Nat,
           NEW c \in Nat, NEW s \in {0, 2}, NEW m \in {0, 2}, Laid(E, said, p, s, c, a, m, 0, 0)
    PROVE  Laid(E \o RcLine, said, p, s, c, a, m, 2, 0)
<1> DEFINE F == E \o RcLine
<1>1. /\ Len(F) = Len(E) + 2 /\ Len(E) \in Nat
      /\ F[Len(E) + 1] = "R1" /\ F[Len(E) + 2] = "R2"
      /\ \A i \in 1..Len(E) : F[i] = E[i]
  BY Words, LongerByTwo
<1> HIDE DEF F
<1>2. Laid(F, said, p, s, c, a, m, 2, 0)
  BY <1>1 DEF Laid
<1> QED
  BY <1>2 DEF F

\* ssh's last word comes last.
LEMMA LaidLoss ==
    ASSUME NEW E \in Seq(Tokens), NEW said \in Seq(Spoken), NEW p \in Nat, NEW a \in Nat,
           NEW c \in Nat, NEW s \in {0, 2}, NEW m \in {0, 2}, NEW r \in {0, 2},
           Laid(E, said, p, s, c, a, m, r, 0)
    PROVE  Laid(E \o <<"t">>, said, p, s, c, a, m, r, 1)
<1> DEFINE F == E \o <<"t">>
<1>2. "t" \in Tokens
  BY DEF Tokens
<1>3. /\ Len(F) = Len(E) + 1 /\ Len(E) \in Nat /\ F[Len(E) + 1] = "t"
      /\ \A i \in 1..Len(E) : F[i] = E[i]
  BY <1>2, LongerByOne
<1> HIDE DEF F
<1>4. Laid(F, said, p, s, c, a, m, r, 1)
  BY <1>3 DEF Laid
<1> QED
  BY <1>4 DEF F

\* A byte of the command comes after the ones it wrote before, and after a marker.
LEMMA LaidCommand ==
    ASSUME NEW E \in Seq(Tokens), NEW said \in Seq(Spoken), NEW v \in Spoken,
           NEW p \in Nat, NEW a \in Nat, NEW s \in {0, 2}, NEW m \in {0, 2},
           Laid(E, said, p, s, Len(said), a, m, 0, 0)
    PROVE  Laid(E \o <<v>>, Append(said, v), p, s, Len(said) + 1, a, m, 0, 0)
<1> DEFINE F == E \o <<v>>
           S == Append(said, v)
<1>1. v \in Tokens
  BY DEF Tokens
<1>2. s \in Nat /\ m \in Nat
  OBVIOUS
<1>3. /\ Len(said) \in Nat /\ Len(S) = Len(said) + 1
      /\ \A i \in 1..Len(said) : S[i] = said[i]
      /\ S[Len(said) + 1] = v
  BY AppendProperties, LenProperties
<1>4. /\ Len(F) = Len(E) + 1 /\ Len(E) \in Nat /\ F[Len(E) + 1] = v
      /\ \A i \in 1..Len(E) : F[i] = E[i]
  BY <1>1, LongerByOne
<1> HIDE DEF F, S
<1>5. /\ Len(E) = p + s + Len(said) + m /\ a <= Len(said)
      /\ \A i \in 1..Len(said) : E[p + s + i + (IF i > a THEN m ELSE 0)] = said[i]
  BY <1>3 DEF Laid
<1>6. \A i \in 1..(Len(said) + 1) : F[p + s + i + (IF i > a THEN m ELSE 0)] = S[i]
  <2> SUFFICES ASSUME NEW i \in 1..(Len(said) + 1)
               PROVE  F[p + s + i + (IF i > a THEN m ELSE 0)] = S[i]
    OBVIOUS
  <2>1. CASE i \in 1..Len(said)
    <3>1. p + s + i + (IF i > a THEN m ELSE 0) \in 1..Len(E)
      BY <1>3, <1>5, <2>1
    <3> QED
      BY <1>3, <1>4, <1>5, <2>1, <3>1
  <2>2. CASE i = Len(said) + 1
    <3>1. p + s + i + (IF i > a THEN m ELSE 0) = Len(E) + 1
      <4>1. i > a
        BY <1>3, <1>5, <2>2
      <4>2. p + s + i + m = Len(E) + 1
        BY <1>2, <1>3, <1>5, <2>2
      <4> QED
        BY <4>1, <4>2
    <3> QED
      BY <1>3, <1>4, <2>2, <3>1
  <2> QED
    BY <1>3, <2>1, <2>2
<1>7. Laid(F, S, p, s, Len(said) + 1, a, m, 0, 0)
  <2>1. /\ Len(F) = p + s + (Len(said) + 1) + m + 0 + 0 /\ Len(said) + 1 <= Len(S)
        /\ a <= Len(said) + 1
    BY <1>2, <1>3, <1>4, <1>5
  <2>2. \A i \in 1..p : F[i] = "t"
    BY <1>2, <1>3, <1>4, <1>5 DEF Laid
  <2>3. s = 2 => F[p + 1] = "S1" /\ F[p + 2] = "S2"
    BY <1>2, <1>3, <1>4, <1>5 DEF Laid
  <2>4. m = 2 => F[p + s + a + 1] = "M1" /\ F[p + s + a + 2] = "M2"
    <3> SUFFICES ASSUME m = 2 PROVE F[p + s + a + 1] = "M1" /\ F[p + s + a + 2] = "M2"
      OBVIOUS
    <3>0. Len(E) = p + s + Len(said) + 2 /\ a <= Len(said) /\ Len(said) \in Nat
      BY <1>3, <1>5
    <3>1. p + s + a + 1 \in 1..Len(E) /\ p + s + a + 2 \in 1..Len(E)
      BY <1>2, <3>0
    <3> QED
      BY <1>4, <3>1 DEF Laid
  <2> QED
    BY <1>6, <2>1, <2>2, <2>3, <2>4 DEF Laid
<1> QED
  BY <1>7 DEF F, S
-----------------------------------------------------------------------------
(* Standard error: every step keeps a layout.                              *)

\* A run that was stopped or lost stays so.
LEMMA HeardFalls == Types /\ Engaged /\ [Next]_vars => (Heard' => Heard)
<1> SUFFICES ASSUME Types, Engaged, [Next]_vars, Heard' PROVE Heard
  OBVIOUS
<1> USE DEF given, engine, pipes, script, command, history, Beside, Quiet, Alone
<1>0. case' = case
  BY DEF Next, vars, Engine, Script, Command, NonBlocking, PumpTurn, PumpEnds, AwaitExit,
     TerminateRelay, TerminateGroup, ReapWithin, RunReturns, Fault, SudoReads, SudoDecides,
     SupervisorStarts, SupervisorDiscards, SupervisorRuns, SupervisorWaits, SupervisorMarks,
     SupervisorKillsAll, SubshellCancels, WrapperReports, ChildCloses, ChildExits, CommandCalls,
     CommandBlocks, CommandExits, TransportWrites, NapRunsOut, ConnectionLost, CommandCloses,
     DescendantExits, DeadlinePasses, GraceRunsOut
<1>1. linked' = linked \/ linked' = FALSE
  <2>1. CASE PumpTurn
    BY <2>1 DEF PumpTurn
  <2>2. CASE TerminateGroup
    BY <2>2 DEF TerminateGroup
  <2>3. CASE ChildCloses
    BY <2>3 DEF ChildCloses
  <2>4. CASE ConnectionLost
    BY <2>4 DEF ConnectionLost
  <2> QED
    BY <2>1, <2>2, <2>3, <2>4 DEF Next, vars, Engine, Script, Command, NonBlocking, PumpEnds, AwaitExit,
       TerminateRelay, ReapWithin, RunReturns, Fault, SudoReads, SudoDecides,
       SupervisorStarts, SupervisorDiscards, SupervisorRuns, SupervisorWaits, SupervisorMarks,
       SupervisorKillsAll, SubshellCancels, WrapperReports, ChildExits, CommandCalls,
       CommandBlocks, CommandExits, TransportWrites, NapRunsOut, CommandCloses,
       DescendantExits, DeadlinePasses, GraceRunsOut
<1>2. ended' = ended \/ ended = "none"
  <2>1. CASE PumpTurn
    BY <2>1 DEF PumpTurn, Engaged
  <2> QED
    BY <2>1 DEF Next, vars, Engine, Script, Command, NonBlocking, PumpEnds, AwaitExit,
       TerminateRelay, TerminateGroup, ReapWithin, RunReturns, Fault, SudoReads, SudoDecides,
       SupervisorStarts, SupervisorDiscards, SupervisorRuns, SupervisorWaits, SupervisorMarks,
       SupervisorKillsAll, SubshellCancels, WrapperReports, ChildCloses, ChildExits, CommandCalls,
       CommandBlocks, CommandExits, TransportWrites, NapRunsOut, ConnectionLost, CommandCloses,
       DescendantExits, DeadlinePasses, GraceRunsOut, Engaged
<1> QED
  BY <1>0, <1>1, <1>2 DEF Heard, Going, Reaches, Remote, mode

\* Whoever may still write in a run that is heard is listened to.
LEMMA HeardIsLive ==
    ASSUME Types, Engaged, Staged, Heard,
           \/ Supervised /\ (Remote \/ sup \notin {"exited", "refused", "killed"})
           \/ ~Supervised /\ sub = "command" /\ ~closed
    PROVE  Live /\ "out" \in open
<1>1. child = "alive"
  BY GivenFacts DEF Staged, Heard, Reaches, Supervised, Remote, mode
<1>2. ~Muted
  BY <1>1 DEF Muted, InHeld
<1> QED
  BY <1>2 DEF Engaged, Heard, Live

\* Whom is listened to is heard.
LEMMA LiveIsHeard == Engaged /\ Live => Heard
BY DEF Engaged, Live, Heard

Unstarted == {"elevating", "asking", "start", "refused"}
LEMMA LayoutFrame ==
    ASSUME Types, Layout, case' = case, Err' = Err, cmdErr' = cmdErr,
           framed => framed', dropped => dropped', Heard' => Heard,
           sup = "reported" => sup' = "reported" /\ sub' = sub,
           gotOut + outPipe = cmdOut /\ (Heard' \/ sup = "reported") => gotOut' + outPipe' = cmdOut',
           Heard' => /\ Supervised /\ sub = "none" /\ sup \in Unstarted \cup {"reported"} =>
                          sub' = "none" /\ sup' \in Unstarted \cup {"reported"}
                     /\ sup \notin Unstarted => sup' \notin Unstarted
                     /\ sup \in {"killall", "killed", "reported"} =>
                          sup' \in {"killall", "killed", "reported"}
                     /\ sup \notin {"killall", "killed"} => sup' \notin {"killall", "killed"}
    PROVE  Layout'
<1>1. PICK p \in Nat, c \in Nat, a \in Nat, s \in {0, 2}, m \in {0, 2}, r \in {0, 2}, x \in {0, 1} :
           Told(p, s, c, m, r, x) /\ Laid(Err, cmdErr, p, s, c, a, m, r, x)
  BY DEF Layout
<1>2. Told(p, s, c, m, r, x)'
  BY <1>1 DEF Told, Supervised, Remote, Elevated, mode, Unstarted
<1>3. Laid(Err', cmdErr', p, s, c, a, m, r, x)
  BY <1>1
<1> QED
  BY <1>2, <1>3 DEF Layout

\* Nothing is written at the start.
LEMMA LayoutInit == Init => Layout
<1> SUFFICES ASSUME Init PROVE Layout
  OBVIOUS
<1>1. Types
  BY TypesInit
<1>2. Err = <<>> /\ cmdErr = <<>>
  BY EmptySeq, ConcatEmptySeq DEF Init, Err
<1>3. sup \in {"none", "elevating", "start"} /\ (Supervised => sup # "none" /\ sub = "none")
  BY <1>1, GivenFacts DEF Init, Elevated, Supervised
<1>4. Told(0, 0, 0, 0, 0, 0)
  BY <1>2, <1>3 DEF Told, Init
<1>5. Laid(Err, cmdErr, 0, 0, 0, 0, 0, 0, 0)
  BY <1>2 DEF Laid
<1> QED
  BY <1>4, <1>5 DEF Layout

\* Every step keeps a layout of standard error.
LEMMA LayoutStep == Types /\ Engaged /\ Staged /\ Layout /\ [Next]_vars => Layout'
<1> SUFFICES ASSUME Types, Engaged, Staged, Layout, [Next]_vars PROVE Layout'
  OBVIOUS
<1> USE DEF given, engine, pipes, script, command, history, Beside, Quiet, Alone
<1>h. Heard' => Heard
  BY HeardFalls
<1>e. gotErr' = gotErr /\ errPipe' = errPipe => Err' = Err
  BY DEF Err
<1>m. /\ mode \in {"direct", "sudo", "ssh", "sshsudo"} /\ Err \in Seq(Tokens)
      /\ cmdErr \in Seq(Spoken) /\ Len(cmdErr) \in Nat
  BY GivenFacts, ConcatProperties, LenProperties DEF Err, Types
<1>u. sup \in Unstarted \cup {"reported"} => sub # "command" /\ sub # "cancel"
  BY DEF Staged, Unstarted, Early, Over
<1>l. PICK p \in Nat, c \in Nat, a \in Nat, s \in {0, 2}, m \in {0, 2}, r \in {0, 2}, x \in {0, 1} :
           Told(p, s, c, m, r, x) /\ Laid(Err, cmdErr, p, s, c, a, m, r, x)
  BY DEF Layout
<1>1. CASE UNCHANGED vars
  BY <1>1, <1>h, <1>e, LayoutFrame DEF vars
<1>2. CASE NonBlocking
  BY <1>2, <1>h, <1>e, LayoutFrame DEF NonBlocking
<1>3. CASE PumpTurn
  BY <1>3, <1>h, PumpEffect, LayoutFrame
<1>4. CASE PumpEnds
  BY <1>4, <1>h, <1>e, LayoutFrame DEF PumpEnds
<1>5. CASE AwaitExit
  BY <1>5, <1>h, <1>e, LayoutFrame DEF AwaitExit
<1>6. CASE TerminateRelay
  <2>1. ~Heard'
    BY <1>6 DEF TerminateRelay, Heard, Going, Engaged
  <2>2. sup = "reported" => sup' = "reported" /\ sub' = sub
    BY <1>6, <1>u DEF TerminateRelay, GroupDies, NoSignal
  <2> QED
    BY <1>6, <1>e, <2>1, <2>2, LayoutFrame DEF TerminateRelay
<1>7. CASE TerminateGroup
  <2>1. ~Heard'
    BY <1>7 DEF TerminateGroup, Heard, Going, Engaged
  <2>2. GroupDies \/ NoSignal
    BY <1>7 DEF TerminateGroup
  <2>3. sup = "reported" => sup' = "reported" /\ sub' = sub
    BY <2>2, <1>u DEF GroupDies, NoSignal
  <2>4. UNCHANGED <<case, gotErr, errPipe, cmdErr, framed, dropped, gotOut, outPipe, cmdOut>>
    BY <1>7 DEF TerminateGroup
  <2> QED
    BY <1>e, <2>1, <2>3, <2>4, LayoutFrame
<1>8. CASE ReapWithin
  BY <1>8, <1>h, <1>e, LayoutFrame DEF ReapWithin
<1>9. CASE RunReturns
  BY <1>9, <1>h, <1>e, LayoutFrame DEF RunReturns
<1>10. CASE Fault
  BY <1>10, <1>h, <1>e, LayoutFrame DEF Fault
<1>11. CASE SudoReads
  BY <1>11, <1>h, <1>e, LayoutFrame DEF SudoReads, Unstarted
<1>12. CASE SudoDecides
  BY <1>12, <1>h, <1>e, LayoutFrame DEF SudoDecides, Unstarted
<1>13. CASE SupervisorStarts
  <2>1. /\ sup = "start" /\ sub = "none" /\ ScriptPrints(Sentinel, IF password THEN "discard" ELSE "nap")
        /\ UNCHANGED <<case, gotErr, outPipe, gotOut, cmdOut, cmdErr, sub, framed, dropped, closed>>
    BY <1>13 DEF SupervisorStarts, Staged, Early
  <2>2. Supervised
    BY <2>1 DEF Staged
  <2>3. CASE sup' = "piped" /\ errPipe' = errPipe /\ ~Heard
    BY <1>h, <1>e, <2>1, <2>3, LayoutFrame
  <2>4. CASE WriteErr(Sentinel) /\ sup' \in {"discard", "nap"}
    <3>3. (Live => Err' = Err \o Sentinel) /\ (~Live => Err' = Err)
      BY <2>1, <2>4, WriteAdds, Words
    <3>4. CASE ~Live
      <4>1. ~Heard'
        BY <1>h, <2>1, <2>2, <3>4, HeardIsLive
      <4> QED
        BY <2>1, <3>3, <3>4, <4>1, LayoutFrame
    <3>5. CASE Live
      <4>1. Heard
        BY <3>5, LiveIsHeard
      <4>2. s = 0 /\ c = 0 /\ m = 0 /\ r = 0 /\ x = 0
        BY <1>l, <2>1, <2>2, <4>1 DEF Told
      <4>3. Laid(Err', cmdErr', p, 2, 0, a, 0, 0, 0)
        BY <1>l, <1>m, <2>1, <3>3, <3>5, <4>2, LaidSentinel
      <4>4. Told(p, 2, 0, 0, 0, 0)'
        BY <1>l, <2>1, <2>2, <2>4, <4>1, <4>2 DEF Told, Supervised, mode
      <4> QED
        BY <4>3, <4>4 DEF Layout
    <3> QED
      BY <3>4, <3>5
  <2> QED
    BY <2>1, <2>3, <2>4, Prints
<1>14. CASE SupervisorDiscards
  BY <1>14, <1>h, <1>e, LayoutFrame DEF SupervisorDiscards, Unstarted
<1>15. CASE SupervisorRuns
  BY <1>15, <1>h, <1>e, LayoutFrame DEF SupervisorRuns, Unstarted
<1>16. CASE SupervisorWaits
  BY <1>16, <1>h, <1>e, LayoutFrame DEF SupervisorWaits, Unstarted
<1>17. CASE SupervisorMarks
  <2>1. /\ sup = "marker" /\ ScriptPrints(Marker, "killall") /\ framed' = TRUE
        /\ UNCHANGED <<case, gotErr, outPipe, gotOut, cmdOut, cmdErr, sub, dropped, closed>>
    BY <1>17 DEF SupervisorMarks
  <2>2. Supervised
    BY <2>1 DEF Staged
  <2>3. CASE sup' = "piped" /\ errPipe' = errPipe /\ ~Heard
    BY <1>h, <1>e, <2>1, <2>3, LayoutFrame
  <2>4. CASE WriteErr(Marker) /\ sup' = "killall"
    <3>3. (Live => Err' = Err \o Marker) /\ (~Live => Err' = Err)
      BY <2>1, <2>4, WriteAdds, Words
    <3>4. CASE ~Live
      <4>1. ~Heard'
        BY <1>h, <2>1, <2>2, <3>4, HeardIsLive
      <4> QED
        BY <2>1, <3>3, <3>4, <4>1, LayoutFrame
    <3>5. CASE Live
      <4>1. Heard
        BY <3>5, LiveIsHeard
      <4>2. s = 2 /\ m = 0 /\ r = 0 /\ x = 0
        BY <1>l, <2>1, <2>2, <4>1 DEF Told
      <4>3. Laid(Err', cmdErr', p, s, c, c, 2, 0, 0)
        BY <1>l, <1>m, <2>1, <3>3, <3>5, <4>2, LaidMarker
      <4>4. Told(p, s, c, 2, 0, 0)'
        BY <1>l, <2>1, <2>2, <2>4, <4>1, <4>2 DEF Told, Supervised, mode
      <4> QED
        BY <4>3, <4>4 DEF Layout
    <3> QED
      BY <3>4, <3>5
  <2> QED
    BY <2>1, <2>3, <2>4, Prints
<1>18. CASE SupervisorKillsAll
  <2>1. sup = "killall" /\ sup' = "killed"
    BY <1>18 DEF SupervisorKillsAll, GroupDies
  <2> QED
    BY <1>18, <2>1, <1>h, <1>e, LayoutFrame DEF SupervisorKillsAll, Unstarted
<1>19. CASE SubshellCancels
  BY <1>19, <1>h, <1>e, <1>u, LayoutFrame DEF SubshellCancels, Unstarted
<1>20. CASE WrapperReports
  <2>1. /\ Remote /\ Supervised /\ sup \in {"exited", "refused", "killed"} /\ sup' = "reported"
        /\ UNCHANGED <<case, gotErr, outPipe, gotOut, cmdOut, cmdErr, sub, dropped, closed>>
        /\ framed => framed'
    BY <1>20 DEF WrapperReports, Remote, Supervised
  <2>2. sub \in {"none", "exited", "killed"} /\ (sup = "refused" => sub = "none" /\ Elevated)
    BY <2>1 DEF Staged, Early, Over
  <2>3. CASE WriteErr(RcLine) /\ framed' = TRUE
    <3>1. (Live => Err' = Err \o RcLine) /\ (~Live => Err' = Err)
      BY <2>1, <2>3, WriteAdds, Words
    <3>2. CASE ~Live
      <4>1. ~Heard'
        BY <1>h, <2>1, <3>2, HeardIsLive
      <4> QED
        BY <2>1, <3>1, <3>2, <4>1, LayoutFrame
    <3>3. CASE Live
      <4>1. Heard
        BY <3>3, LiveIsHeard
      <4>2. r = 0 /\ x = 0 /\ c = Len(cmdErr) /\ gotOut + outPipe = cmdOut
        BY <1>l, <2>1, <4>1 DEF Told
      <4>3. (s = 0 => sup = "refused") /\ (s = 2 /\ m = 0 => sup = "exited")
        BY <1>l, <2>1, <4>1 DEF Told
      <4>4. sup = "exited" => sub = "exited"
        BY <4>1 DEF Staged
      <4>5. Laid(Err', cmdErr', p, s, c, a, m, 2, 0)
        <5>1. Laid(Err, cmdErr, p, s, c, a, m, 0, 0)
          BY <1>l, <4>2
        <5>2. Laid(Err \o RcLine, cmdErr, p, s, c, a, m, 2, 0)
          BY <1>m, <5>1, LaidReport
        <5> QED
          BY <2>1, <3>1, <3>3, <5>2
      <4>6. Told(p, s, c, m, 2, 0)'
        BY <1>l, <2>1, <2>2, <2>3, <4>1, <4>2, <4>3, <4>4
        DEF Told, Supervised, Remote, Elevated, mode
      <4> QED
        BY <4>5, <4>6 DEF Layout
    <3> QED
      BY <3>2, <3>3
  <2>4. CASE sup = "killed" /\ errPipe' = errPipe
    BY <2>1, <2>2, <2>4, <1>h, <1>e, LayoutFrame DEF Unstarted
  <2> QED
    BY <1>20, <2>3, <2>4 DEF WrapperReports
<1>21. CASE ChildCloses
  BY <1>21, <1>h, <1>e, LayoutFrame DEF ChildCloses
<1>22. CASE ChildExits
  BY <1>22, <1>h, <1>e, LayoutFrame DEF ChildExits
<1>23. ASSUME NEW w \in Calls, CommandCalls(w) PROVE Layout'
  <2>1. /\ sub = "command" /\ UNCHANGED <<case, gotErr, gotOut, sup, sub, framed, dropped, closed>>
        /\ sup \notin Unstarted \cup {"reported", "exited", "refused", "killed"}
    BY <1>23, <1>u DEF CommandCalls, Staged, Over, Early
  <2>2. ~Supervised => ~closed
    <3>1. w # "none"
      <4>1. case.tokens \subseteq Spoken
        BY GivenFacts
      <4> QED
        BY <4>1 DEF Calls, Spoken
    <3> QED
      BY <1>23, <3>1 DEF CommandCalls, Wants, Staged
  <2>3. Heard => Live /\ "out" \in open
    BY <2>1, <2>2, HeardIsLive
  <2>4. CASE w = "in"
    <3>1. UNCHANGED <<outPipe, cmdOut, errPipe, cmdErr>>
      BY <1>23, <2>4 DEF CommandCalls
    <3> QED
      BY <2>1, <3>1, <1>h, <1>e, LayoutFrame
  <2>5. CASE w = "out"
    <3>1. /\ outPipe' = (IF "out" \in open /\ Reaches THEN outPipe + 1 ELSE outPipe)
          /\ cmdOut' = cmdOut + 1 /\ UNCHANGED <<errPipe, cmdErr>>
      BY <1>23, <2>5 DEF CommandCalls
    <3>2. gotOut + outPipe = cmdOut /\ Heard' => gotOut' + outPipe' = cmdOut'
      BY <2>1, <2>3, <3>1, <1>h DEF Live, Types
    <3> QED
      BY <2>1, <3>1, <3>2, <1>h, <1>e, LayoutFrame
  <2>6. CASE w \notin {"in", "out"}
    <3>1. w \in Spoken
      BY <2>6, GivenFacts DEF Calls
    <3>2. /\ WriteErr(<<w>>) /\ cmdErr' = Append(cmdErr, w) /\ UNCHANGED <<outPipe, cmdOut>>
      BY <1>23, <2>6 DEF CommandCalls
    <3>3. (Live => Err' = Err \o <<w>>) /\ (~Live => Err' = Err)
      <4>1. <<w>> \in Seq(Tokens)
        BY <3>1, Words DEF Tokens
      <4> QED
        BY <2>1, <3>2, <4>1, WriteAdds
    <3>4. r = 0 /\ Len(cmdErr') = Len(cmdErr) + 1
      BY <1>l, <1>m, <2>1, <3>1, <3>2, AppendProperties DEF Told
    <3>5. CASE ~Live
      <4>1. ~Heard'
        BY <1>h, <2>3, <3>5
      <4>2. Laid(Err', cmdErr', p, s, c, a, m, r, x)
        BY <1>l, <1>m, <3>1, <3>2, <3>3, <3>5, LaidSaid
      <4>3. Told(p, s, c, m, r, x)'
        BY <1>l, <2>1, <3>4, <4>1 DEF Told, Supervised, mode
      <4> QED
        BY <4>2, <4>3 DEF Layout
    <3>6. CASE Live
      <4>1. Heard
        BY <3>6, LiveIsHeard
      <4>2. x = 0 /\ c = Len(cmdErr)
        BY <1>l, <4>1 DEF Told
      <4>n. PICK n \in Nat : n = Len(cmdErr) + 1
        BY <1>m
      <4>3. Laid(Err', cmdErr', p, s, n, a, m, 0, 0)
        <5>1. Laid(Err, cmdErr, p, s, Len(cmdErr), a, m, 0, 0)
          BY <1>l, <3>4, <4>2
        <5>2. Laid(Err \o <<w>>, Append(cmdErr, w), p, s, Len(cmdErr) + 1, a, m, 0, 0)
          BY <1>m, <3>1, <5>1, LaidCommand
        <5> QED
          BY <3>2, <3>3, <3>6, <4>n, <5>2
      <4>4. Supervised => s = 2
        BY <1>l, <2>1, <4>1 DEF Told
      <4>5. Told(p, s, n, m, 0, 0)'
        BY <1>l, <2>1, <3>2, <3>4, <4>1, <4>4, <4>n DEF Told, Supervised, mode
      <4> QED
        BY <4>3, <4>5 DEF Layout
    <3> QED
      BY <3>5, <3>6
  <2> QED
    BY <2>4, <2>5, <2>6
<1>24. ASSUME NEW w \in Calls, CommandBlocks(w) PROVE Layout'
  BY <1>24, <1>h, <1>e, LayoutFrame DEF CommandBlocks
<1>25. CASE CommandExits
  BY <1>25, <1>h, <1>e, <1>u, LayoutFrame DEF CommandExits
<1>26. CASE TransportWrites
  <2>1. /\ sup \in {"elevating", "asking", "start"} /\ WriteErr(<<"t">>)
        /\ UNCHANGED <<case, gotErr, outPipe, gotOut, cmdOut, cmdErr, sup, sub, framed, dropped>>
    BY <1>26 DEF TransportWrites
  <2>2. Supervised
    BY <2>1 DEF Staged
  <2>3. (Live => Err' = Err \o <<"t">>) /\ (~Live => Err' = Err)
    <3>1. <<"t">> \in Seq(Tokens)
      BY Words DEF Tokens
    <3> QED
      BY <2>1, <3>1, WriteAdds
  <2>4. CASE ~Live
    BY <2>1, <2>3, <2>4, <1>h, LayoutFrame
  <2>5. CASE Live
    <3>1. Heard
      BY <2>5, LiveIsHeard
    <3>2. s = 0 /\ c = 0 /\ m = 0 /\ r = 0 /\ x = 0
      BY <1>l, <2>1, <2>2, <3>1 DEF Told
    <3>3. Laid(Err', cmdErr', p + 1, 0, 0, a, 0, 0, 0)
      BY <1>l, <1>m, <2>1, <2>3, <2>5, <3>2, LaidTransport
    <3>4. Told(p + 1, 0, 0, 0, 0, 0)'
      BY <1>l, <2>1, <2>2, <3>1, <3>2 DEF Told, Supervised, mode
    <3>5. p + 1 \in Nat
      OBVIOUS
    <3> QED
      BY <3>3, <3>4, <3>5 DEF Layout
  <2> QED
    BY <2>4, <2>5
<1>27. CASE NapRunsOut
  BY <1>27, <1>h, <1>e, LayoutFrame DEF NapRunsOut
<1>28. CASE ConnectionLost
  <2>1. /\ Remote /\ linked /\ linked' = FALSE /\ dropped' = TRUE
        /\ UNCHANGED <<case, gotErr, outPipe, gotOut, cmdOut, cmdErr, sup, sub, framed>>
        /\ errPipe' = errPipe \/ ("err" \in open /\ errPipe' = Append(errPipe, "t"))
    BY <1>28 DEF ConnectionLost
  <2>2. CASE errPipe' = errPipe
    BY <2>1, <2>2, <1>h, <1>e, LayoutFrame
  <2>3. CASE "err" \in open /\ errPipe' = Append(errPipe, "t")
    <3>1. Heard
      BY <2>1, <2>3, LiveIsHeard DEF Live, Reaches
    <3>2. x = 0
      BY <1>l, <3>1 DEF Told
    <3>3. Err' = Err \o <<"t">>
      <4>1. "t" \in Tokens /\ <<"t">> \in Seq(Tokens)
        BY Words DEF Tokens
      <4>2. gotErr \in Seq(Tokens) /\ errPipe \in Seq(Tokens)
        BY DEF Types
      <4>3. errPipe' = errPipe \o <<"t">>
        BY <2>3, <4>1, <4>2, AppendIsConcat
      <4> QED
        BY <2>1, <4>1, <4>2, <4>3, ConcatAssociative DEF Err
    <3>4. Laid(Err', cmdErr', p, s, c, a, m, r, 1)
      BY <1>l, <1>m, <2>1, <3>2, <3>3, LaidLoss
    <3>5. ~Heard' /\ Supervised
      BY <2>1 DEF Heard, Reaches, Remote, Supervised, mode
    <3>6. Told(p, s, c, m, r, 1)'
      BY <1>l, <2>1, <3>5 DEF Told, Supervised, Remote, Elevated, mode
    <3> QED
      BY <3>4, <3>6 DEF Layout
  <2> QED
    BY <2>1, <2>2, <2>3
<1>29. CASE CommandCloses
  BY <1>29, <1>h, <1>e, LayoutFrame DEF CommandCloses
<1>30. CASE DescendantExits
  BY <1>30, <1>h, <1>e, LayoutFrame DEF DescendantExits
<1>31. CASE DeadlinePasses
  BY <1>31, <1>h, <1>e, LayoutFrame DEF DeadlinePasses
<1>32. CASE GraceRunsOut
  BY <1>32, <1>h, <1>e, LayoutFrame DEF GraceRunsOut
<1> QED
  BY <1>1, <1>2, <1>3, <1>4, <1>5, <1>6, <1>7, <1>8, <1>9, <1>10, <1>11, <1>12, <1>13, <1>14,
     <1>15, <1>16, <1>17, <1>18, <1>19, <1>20, <1>21, <1>22, <1>23, <1>24, <1>25, <1>26, <1>27,
     <1>28, <1>29, <1>30, <1>31, <1>32 DEF Next, Engine, Script, Command
-----------------------------------------------------------------------------
(* Reading the captured standard error.                                    *)

\* Two tokens in a row, one by one.
LEMMA PairAt ==
    ASSUME NEW G \in Seq(Tokens), NEW w \in Seq(Tokens), Len(w) = 2, NEW i \in 1..(Len(G) - 1)
    PROVE  SubSeq(G, i, i + 1) = w <=> G[i] = w[1] /\ G[i + 1] = w[2]
<1> DEFINE t == SubSeq(G, i, i + 1)
<1>1. Len(G) \in Nat /\ \A j \in i..(i + 1) : G[j] \in Tokens
  BY LenProperties, ElementOfSeq
<1>2. t \in Seq(Tokens) /\ Len(t) = 2 /\ \A j \in 1..2 : t[j] = G[i + j - 1]
  <2>1. i \in Int /\ i + 1 \in Int /\ i <= i + 1 /\ (i + 1) - i + 1 = 2
    BY <1>1
  <2> QED
    BY <1>1, <2>1, SubSeqProperties
<1> HIDE DEF t
<1>3. t[1] = G[i] /\ t[2] = G[i + 1]
  <2>1. i + 1 - 1 = i /\ i + 2 - 1 = i + 1 /\ 1 \in 1..2 /\ 2 \in 1..2
    BY <1>1
  <2> QED
    BY <1>2, <2>1
<1>4. ASSUME t[1] = w[1], t[2] = w[2] PROVE t = w
  <2>1. \A j \in 1..Len(t) : t[j] = w[j]
    BY <1>2, <1>4
  <2> QED
    BY <1>2, <2>1, SeqEqual
<1> QED
  BY <1>3, <1>4 DEF t

\* find, one token at a time.
LEMMA FoundAt ==
    ASSUME NEW G \in Seq(Tokens), NEW w \in Seq(Tokens), Len(w) = 2
    PROVE  /\ Found(G, w) <=> \E i \in 1..(Len(G) - 1) : G[i] = w[1] /\ G[i + 1] = w[2]
           /\ \A i : i \in Places(G, w) <=> i \in 1..(Len(G) - 1) /\ G[i] = w[1] /\ G[i + 1] = w[2]
<1>1. ASSUME NEW i \in 1..(Len(G) - 1)
      PROVE  SubSeq(G, i, i + 1) = w <=> G[i] = w[1] /\ G[i + 1] = w[2]
  BY PairAt
<1>2. \A i : i \in Places(G, w) <=> i \in 1..(Len(G) - 1) /\ G[i] = w[1] /\ G[i + 1] = w[2]
  BY <1>1, Zenon DEF Places
<1> QED
  BY <1>2, Zenon DEF Found

\* The least and the greatest of a set of places.
LEMMA FirstIs ==
    ASSUME NEW S \in SUBSET Int, NEW i \in S, \A j \in S : i <= j
    PROVE  First(S) = i
<1>1. First(S) \in S /\ \A j \in S : First(S) <= j
  BY DEF First
<1>2. First(S) \in Int /\ i \in Int /\ First(S) <= i /\ i <= First(S)
  BY <1>1
<1> QED
  BY <1>2

LEMMA LastIs ==
    ASSUME NEW S \in SUBSET Int, NEW i \in S, \A j \in S : i >= j
    PROVE  Last(S) = i
<1>1. Last(S) \in S /\ \A j \in S : Last(S) >= j
  BY DEF Last
<1>2. Last(S) \in Int /\ i \in Int /\ Last(S) >= i /\ i >= Last(S)
  BY <1>1
<1> QED
  BY <1>2

\* How a capture ends, one token at a time.
LEMMA EndsWithOne ==
    ASSUME NEW G \in Seq(Tokens), NEW v \in Tokens
    PROVE  EndsWith(G, <<v>>) <=> Len(G) >= 1 /\ G[Len(G)] = v
<1> DEFINE w == <<v>>
           t == SubSeq(G, Len(G), Len(G))
<1>1. w \in Seq(Tokens) /\ Len(w) = 1 /\ w[1] = v /\ Len(G) \in Nat
  BY Words, LenProperties
<1>2. EndsWith(G, w) <=> Len(w) <= Len(G) /\ SubSeq(G, Len(G) - Len(w) + 1, Len(G)) = w
  BY DEF EndsWith
<1> HIDE DEF w
<1>3. Len(G) - Len(w) + 1 = Len(G)
  BY <1>1
<1>4. ASSUME Len(G) >= 1 PROVE t = w <=> G[Len(G)] = v
  <2>1. \A j \in Len(G)..Len(G) : G[j] \in Tokens
    BY <1>1, <1>4, ElementOfSeq
  <2>2. t \in Seq(Tokens) /\ Len(t) = 1 /\ \A j \in 1..1 : t[j] = G[Len(G) + j - 1]
    <3>1. Len(G) \in Int /\ Len(G) <= Len(G) /\ Len(G) - Len(G) + 1 = 1
      BY <1>1
    <3> QED
      BY <2>1, <3>1, SubSeqProperties
  <2> HIDE DEF t
  <2>3. t[1] = G[Len(G)]
    BY <1>1, <2>2
  <2>4. ASSUME t[1] = w[1] PROVE t = w
    <3>1. \A j \in 1..Len(t) : t[j] = w[j]
      BY <2>2, <2>4
    <3> QED
      BY <1>1, <2>2, <3>1, SeqEqual
  <2> QED
    BY <1>1, <2>3, <2>4
<1> QED
  BY <1>1, <1>2, <1>3, <1>4 DEF w

LEMMA EndsWithTwo ==
    ASSUME NEW G \in Seq(Tokens), NEW w \in Seq(Tokens), Len(w) = 2
    PROVE  EndsWith(G, w) <=> Len(G) >= 2 /\ G[Len(G) - 1] = w[1] /\ G[Len(G)] = w[2]
<1>1. Len(G) \in Nat
  BY LenProperties
<1>2. EndsWith(G, w) <=> Len(G) >= 2 /\ SubSeq(G, Len(G) - 1, Len(G)) = w
  <2>1. Len(G) - Len(w) + 1 = Len(G) - 1
    BY <1>1
  <2> QED
    BY <1>1, <2>1 DEF EndsWith
<1>3. ASSUME Len(G) >= 2
      PROVE  SubSeq(G, Len(G) - 1, Len(G)) = w <=> G[Len(G) - 1] = w[1] /\ G[Len(G)] = w[2]
  <2>1. Len(G) - 1 \in 1..(Len(G) - 1) /\ (Len(G) - 1) + 1 = Len(G)
    BY <1>1, <1>3
  <2>2. ASSUME NEW i \in 1..(Len(G) - 1)
        PROVE  SubSeq(G, i, i + 1) = w <=> G[i] = w[1] /\ G[i + 1] = w[2]
    BY PairAt
  <2> QED
    BY <2>1, <2>2
<1> QED
  BY <1>2, <1>3

\* What was captured of what was written: how E starts.
Starts(G, E) ==
    Len(G) <= Len(E) /\ (\A i \in 1..Len(G) : G[i] = E[i]) /\ Len(E) \in Nat

Fits(E, said, p, s, c, a, m, r, x) ==
    /\ said \in Seq(Spoken) /\ p \in Nat /\ c \in Nat /\ a \in Nat
    /\ s \in {0, 2} /\ m \in {0, 2} /\ r \in {0, 2} /\ x \in {0, 1}
    /\ Laid(E, said, p, s, c, a, m, r, x)

\* Where each token of a layout is.
LEMMA Zones ==
    ASSUME NEW E, NEW said \in Seq(Spoken),
           NEW p \in Nat, NEW c \in Nat, NEW a \in Nat, NEW s \in {0, 2}, NEW m \in {0, 2},
           NEW r \in {0, 2}, NEW x \in {0, 1}, Laid(E, said, p, s, c, a, m, r, x),
           NEW i \in 1..Len(E)
    PROVE  /\ E[i] = "S1" => s = 2 /\ i = p + 1
           /\ E[i] = "M1" => m = 2 /\ i = p + s + a + 1
           /\ E[i] = "R2" => r = 2 /\ i = p + s + c + m + 2
           /\ E[i] = "R1" => i > p + s /\ (r = 0 => i <= p + s + c + m)
           /\ E[i] = "R1" /\ r = 2 => i <= p + s + c + m + 1
           /\ E[i] = "L2" => i > p + s /\ i <= p + s + c + m
<1>1. /\ Len(E) = p + s + c + m + r + x /\ c <= Len(said) /\ a <= c
      /\ \A j \in 1..p : E[j] = "t"
      /\ s = 2 => E[p + 1] = "S1" /\ E[p + 2] = "S2"
      /\ \A j \in 1..c : E[p + s + j + (IF j > a THEN m ELSE 0)] = said[j]
      /\ m = 2 => E[p + s + a + 1] = "M1" /\ E[p + s + a + 2] = "M2"
      /\ r = 2 => E[p + s + c + m + 1] = "R1" /\ E[p + s + c + m + 2] = "R2"
      /\ x = 1 => E[p + s + c + m + r + 1] = "t"
  BY DEF Laid
<1>2. CASE i <= p
  BY <1>1, <1>2
<1>3. CASE i > p /\ i <= p + s
  <2>1. s = 2 /\ (i = p + 1 \/ i = p + 2)
    BY <1>3
  <2> QED
    BY <1>1, <2>1
<1>4. CASE i > p + s /\ i <= p + s + a
  <2>1. i - p - s \in 1..c
    BY <1>1, <1>4
  <2>2. PICK j \in 1..c : j = i - p - s
    BY <2>1
  <2>3. p + s + j + (IF j > a THEN m ELSE 0) = i
    BY <1>4, <2>2
  <2>4. E[i] = said[j] /\ j \in 1..Len(said)
    <3>1. E[p + s + j + (IF j > a THEN m ELSE 0)] = said[j]
      BY <1>1
    <3>2. j \in 1..Len(said)
      BY <1>1, LenProperties
    <3> QED
      BY <2>3, <3>1, <3>2, Zenon
  <2>5. E[i] \in Spoken
    BY <2>4, ElementOfSeq
  <2> QED
    BY <1>1, <1>4, <2>5 DEF Spoken
<1>5. CASE i > p + s + a /\ i <= p + s + a + m
  <2>1. m = 2 /\ (i = p + s + a + 1 \/ i = p + s + a + 2)
    BY <1>5
  <2> QED
    BY <1>1, <2>1
<1>6. CASE i > p + s + a + m /\ i <= p + s + c + m
  <2>1. i - p - s - m \in 1..c
    BY <1>1, <1>6
  <2>2. PICK j \in 1..c : j = i - p - s - m
    BY <2>1
  <2>3. p + s + j + (IF j > a THEN m ELSE 0) = i
    BY <1>6, <2>2
  <2>4. E[i] = said[j] /\ j \in 1..Len(said)
    <3>1. E[p + s + j + (IF j > a THEN m ELSE 0)] = said[j]
      BY <1>1
    <3>2. j \in 1..Len(said)
      BY <1>1, LenProperties
    <3> QED
      BY <2>3, <3>1, <3>2, Zenon
  <2>5. E[i] \in Spoken
    BY <2>4, ElementOfSeq
  <2> QED
    BY <1>1, <1>6, <2>5 DEF Spoken
<1>7. CASE i > p + s + c + m /\ i <= p + s + c + m + r
  <2>1. r = 2 /\ (i = p + s + c + m + 1 \/ i = p + s + c + m + 2)
    BY <1>7
  <2> QED
    BY <1>1, <2>1
<1>8. CASE i > p + s + c + m + r
  <2>1. x = 1 /\ i = p + s + c + m + r + 1
    BY <1>1, <1>8
  <2> QED
    BY <1>1, <2>1
<1> QED
  BY <1>1, <1>2, <1>3, <1>4, <1>5, <1>6, <1>7, <1>8

\* What take_sudo_sentinel leaves of a capture.
Parted(G, p, s) ==
    /\ Found(G, Sentinel) <=> s = 2 /\ Len(G) >= p + 2
    /\ Found(G, Sentinel) =>
         /\ PastSentinel(G) \in Seq(Tokens) /\ Len(PastSentinel(G)) = Len(G) - p - 2
         /\ \A i \in 1..(Len(G) - p - 2) : PastSentinel(G)[i] = G[p + 2 + i]

LEMMA TailIs ==
    ASSUME NEW G \in Seq(Tokens), NEW E, NEW said \in Seq(Spoken),
           NEW p \in Nat, NEW c \in Nat, NEW a \in Nat, NEW s \in {0, 2}, NEW m \in {0, 2},
           NEW r \in {0, 2}, NEW x \in {0, 1}, Laid(E, said, p, s, c, a, m, r, x),
           Starts(G, E)
    PROVE  Parted(G, p, s)
<1>s. Len(G) <= Len(E) /\ (\A i \in 1..Len(G) : G[i] = E[i]) /\ Len(E) \in Nat
  BY DEF Starts
<1>1. Len(G) \in Nat
  BY LenProperties
<1>2. /\ Found(G, Sentinel) <=> \E i \in 1..(Len(G) - 1) : G[i] = "S1" /\ G[i + 1] = "S2"
      /\ \A i : i \in Places(G, Sentinel) <=>
                  i \in 1..(Len(G) - 1) /\ G[i] = "S1" /\ G[i + 1] = "S2"
  <2>1. /\ Found(G, Sentinel) <=>
              \E i \in 1..(Len(G) - 1) : G[i] = Sentinel[1] /\ G[i + 1] = Sentinel[2]
        /\ \A i : i \in Places(G, Sentinel) <=>
                  i \in 1..(Len(G) - 1) /\ G[i] = Sentinel[1] /\ G[i + 1] = Sentinel[2]
    BY FoundAt, Words, Zenon
  <2> QED
    BY <2>1, Words, Zenon
<1>3. \A i \in 1..Len(G) : G[i] = "S1" => s = 2 /\ i = p + 1
  <2> SUFFICES ASSUME NEW i \in 1..Len(G), G[i] = "S1" PROVE s = 2 /\ i = p + 1
    OBVIOUS
  <2>1. i \in 1..Len(E) /\ E[i] = "S1"
    BY <1>s, <1>1
  <2>2. ASSUME NEW k \in 1..Len(E) PROVE E[k] = "S1" => s = 2 /\ k = p + 1
    BY Zones, SMTT(30)
  <2> QED
    BY <2>1, <2>2
<1>4. s = 2 /\ Len(G) >= p + 2 => G[p + 1] = "S1" /\ G[p + 2] = "S2"
  BY <1>s, <1>1 DEF Laid
<1>5. Found(G, Sentinel) <=> s = 2 /\ Len(G) >= p + 2
  <2>1. ASSUME s = 2, Len(G) >= p + 2
        PROVE  p + 1 \in 1..(Len(G) - 1) /\ (p + 1) + 1 = p + 2
    BY <1>1, <2>1
  <2>2. ASSUME NEW i \in 1..(Len(G) - 1), G[i] = "S1"
        PROVE  s = 2 /\ Len(G) >= p + 2
    <3>1. i \in 1..Len(G)
      BY <1>1
    <3>2. s = 2 /\ i = p + 1
      BY <1>3, <2>2, <3>1
    <3> QED
      BY <1>1, <3>2
  <2> QED
    BY <1>2, <1>4, <2>1, <2>2
<1>6. ASSUME Found(G, Sentinel)
      PROVE  /\ PastSentinel(G) \in Seq(Tokens) /\ Len(PastSentinel(G)) = Len(G) - p - 2
             /\ \A i \in 1..(Len(G) - p - 2) : PastSentinel(G)[i] = G[p + 2 + i]
  <2>1. s = 2 /\ Len(G) >= p + 2
    BY <1>5, <1>6
  <2>2. First(Places(G, Sentinel)) = p + 1
    <3>1. p + 1 \in Places(G, Sentinel)
      <4>1. p + 1 \in 1..(Len(G) - 1) /\ (p + 1) + 1 = p + 2
        BY <1>1, <2>1
      <4> QED
        BY <1>2, <1>4, <2>1, <4>1
    <3>2. ASSUME NEW j \in Places(G, Sentinel) PROVE j = p + 1
      <4>1. j \in 1..(Len(G) - 1) /\ G[j] = "S1"
        BY <1>2
      <4>2. j \in 1..Len(G)
        BY <1>1, <4>1
      <4> QED
        BY <1>3, <4>1, <4>2
    <3>3. Places(G, Sentinel) \in SUBSET Int
      BY <3>2
    <3> QED
      BY <3>1, <3>2, <3>3, FirstIs
  <2>3. PastSentinel(G) = SubSeq(G, p + 3, Len(G))
    BY <2>2 DEF PastSentinel
  <2>4. \A j \in (p + 3)..Len(G) : G[j] \in Tokens
    BY <1>1, ElementOfSeq
  <2> DEFINE t == SubSeq(G, p + 3, Len(G))
  <2>5. /\ t \in Seq(Tokens)
        /\ Len(t) = (IF p + 3 <= Len(G) THEN Len(G) - (p + 3) + 1 ELSE 0)
        /\ \A i \in 1..(Len(G) - (p + 3) + 1) : t[i] = G[p + 3 + i - 1]
    BY <1>1, <2>4, SubSeqProperties
  <2> HIDE DEF t
  <2>6. Len(t) = Len(G) - p - 2
    BY <1>1, <2>1, <2>5
  <2>7. ASSUME NEW i \in 1..(Len(G) - p - 2) PROVE t[i] = G[p + 2 + i]
    <3>1. i \in 1..(Len(G) - (p + 3) + 1) /\ p + 3 + i - 1 = p + 2 + i
      BY <1>1
    <3> QED
      BY <2>5, <3>1
  <2> QED
    BY <2>3, <2>5, <2>6, <2>7 DEF t
<1> QED
  BY <1>5, <1>6 DEF Parted

\* The same, from the layout as a whole.
LEMMA TailOf ==
    ASSUME NEW G \in Seq(Tokens), NEW E, NEW said, NEW p, NEW s, NEW c, NEW a, NEW m, NEW r,
           NEW x, Fits(E, said, p, s, c, a, m, r, x), Starts(G, E)
    PROVE  Parted(G, p, s)
<1>1. /\ said \in Seq(Spoken) /\ p \in Nat /\ c \in Nat /\ a \in Nat
      /\ s \in {0, 2} /\ m \in {0, 2} /\ r \in {0, 2} /\ x \in {0, 1}
      /\ Laid(E, said, p, s, c, a, m, r, x)
  BY DEF Fits
<1> QED
  BY <1>1, TailIs

\* What trails a capture and may be framing is part of it.
LEMMA Suffixes ==
    ASSUME NEW T \in Seq(Tokens)
    PROVE  /\ PartialSuffix(T) \in {0, 1} /\ PartialSuffix(T) <= Len(T)
           /\ RemoteCodeSuffix(T) \in {0, 1, 2} /\ RemoteCodeSuffix(T) <= Len(T)
           /\ Len(T) >= 1 /\ T[Len(T)] = "M1" => PartialSuffix(T) = 1
           /\ Len(T) >= 1 /\ T[Len(T)] = "R1" => RemoteCodeSuffix(T) = 1
           /\ Len(T) >= 2 /\ T[Len(T) - 1] = "R1" /\ T[Len(T)] = "R2" => RemoteCodeSuffix(T) = 2
<1>1. Len(T) \in Nat
  BY LenProperties
<1>2. /\ EndsWith(T, <<"M1">>) <=> Len(T) >= 1 /\ T[Len(T)] = "M1"
      /\ EndsWith(T, <<"R1">>) <=> Len(T) >= 1 /\ T[Len(T)] = "R1"
  <2>1. "M1" \in Tokens /\ "R1" \in Tokens
    BY DEF Tokens, Spoken
  <2> QED
    BY <2>1, EndsWithOne
<1>3. EndsWith(T, RcLine) <=> Len(T) >= 2 /\ T[Len(T) - 1] = "R1" /\ T[Len(T)] = "R2"
  <2>1. EndsWith(T, RcLine) <=> Len(T) >= 2 /\ T[Len(T) - 1] = RcLine[1] /\ T[Len(T)] = RcLine[2]
    BY Words, EndsWithTwo, Zenon
  <2> QED
    BY <2>1, Words, Zenon
<1>4. EndsWith(T, <<"R1", "L2">>) <=> Len(T) >= 2 /\ T[Len(T) - 1] = "R1" /\ T[Len(T)] = "L2"
  <2> DEFINE w == <<"R1", "L2">>
  <2>1. Len(w) = 2 /\ w[1] = "R1" /\ w[2] = "L2"
    OBVIOUS
  <2>2. w \in Seq(Tokens)
    BY TwoIsSeq DEF Tokens, Spoken
  <2> HIDE DEF w
  <2>3. EndsWith(T, w) <=> Len(T) >= 2 /\ T[Len(T) - 1] = w[1] /\ T[Len(T)] = w[2]
    BY <2>1, <2>2, EndsWithTwo, Zenon
  <2>4. EndsWith(T, w) <=> Len(T) >= 2 /\ T[Len(T) - 1] = "R1" /\ T[Len(T)] = "L2"
    BY <2>1, <2>3, Zenon
  <2> QED
    BY <2>4 DEF w
<1>5. PartialSuffix(T) = IF Len(T) >= 1 /\ T[Len(T)] = "M1" THEN 1 ELSE 0
  BY <1>2, Zenon DEF PartialSuffix
<1>6. RemoteCodeSuffix(T) = IF EndsWith(T, RcLine) \/ EndsWith(T, <<"R1", "L2">>) THEN 2
                            ELSE IF EndsWith(T, <<"R1">>) THEN 1 ELSE 0
  <2> DEFINE line == EndsWith(T, RcLine) \/ EndsWith(T, <<"R1", "L2">>)
             head == EndsWith(T, <<"R1">>)
  <2>1. RemoteCodeSuffix(T) = CASE line -> 2 [] head -> 1 [] OTHER -> 0
    BY DEF RemoteCodeSuffix
  <2>2. line => ~head
    BY <1>2, <1>3, <1>4
  <2> HIDE DEF line, head
  <2>3. RemoteCodeSuffix(T) = IF line THEN 2 ELSE IF head THEN 1 ELSE 0
    BY <2>1, <2>2
  <2> QED
    BY <2>3 DEF line, head
<1>7. CASE EndsWith(T, RcLine) \/ EndsWith(T, <<"R1", "L2">>)
  <2>1. RemoteCodeSuffix(T) = 2 /\ Len(T) >= 2 /\ T[Len(T)] # "R1"
    BY <1>3, <1>4, <1>6, <1>7
  <2> QED
    BY <1>1, <1>5, <2>1
<1>8. CASE ~EndsWith(T, RcLine) /\ ~EndsWith(T, <<"R1", "L2">>) /\ EndsWith(T, <<"R1">>)
  <2>1. RemoteCodeSuffix(T) = 1 /\ Len(T) >= 1 /\ T[Len(T)] = "R1"
    BY <1>2, <1>6, <1>8
  <2> QED
    BY <1>1, <1>5, <2>1
<1>9. CASE ~EndsWith(T, RcLine) /\ ~EndsWith(T, <<"R1", "L2">>) /\ ~EndsWith(T, <<"R1">>)
  <2>1. RemoteCodeSuffix(T) = 0
    BY <1>6, <1>9
  <2> QED
    BY <1>1, <1>2, <1>3, <1>5, <1>9, <2>1
<1> QED
  BY <1>7, <1>8, <1>9

\* attribute never takes framing for the command's: what it counts as the
\* command's own the command wrote, and so it is with what is pending where no
\* framing was written.
LEMMA AttributeIsFair ==
    ASSUME Types, NEW G \in Seq(Tokens), NEW E, NEW said \in Seq(Spoken),
           NEW p \in Nat, NEW c \in Nat, NEW a \in Nat, NEW s \in {0, 2}, NEW m \in {0, 2},
           NEW r \in {0, 2}, Laid(E, said, p, s, c, a, m, r, 0),
           Starts(G, E),
           r = 2 => Remote, ~Supervised => p = 0 /\ s = 0 /\ m = 0,
           Attribute(G).who = "command"
    PROVE  /\ Attribute(G).own \in Nat /\ Attribute(G).pending \in Nat
           /\ Attribute(G).own <= c
           /\ m = 0 /\ r = 0 => Attribute(G).own + Attribute(G).pending <= c
<1>s. Len(G) <= Len(E) /\ (\A i \in 1..Len(G) : G[i] = E[i]) /\ Len(E) \in Nat
  BY DEF Starts
<1>1. /\ Len(G) \in Nat /\ Len(E) = p + s + c + m + r /\ a <= c
  BY LenProperties DEF Laid
<1>2. CASE ~Supervised
  <2>1. r = 0
    BY <1>2 DEF Supervised, Remote, mode
  <2> QED
    BY <1>s, <1>1, <1>2, <2>1 DEF Attribute
<1>3. CASE Supervised
  <2>1. Found(G, Sentinel)
    BY <1>3 DEF Attribute
  <2> DEFINE T == PastSentinel(G)
             n == Len(T)
             f == IF Found(T, Marker) THEN 2 ELSE 0
             v == IF f = 0 THEN PartialSuffix(T) ELSE 0
             d == Larger(v, IF Remote THEN RemoteCodeSuffix(T) ELSE 0)
  <2>2. Attribute(G).own = Less(n, f + d) /\ Attribute(G).pending = d
    BY <1>3, <2>1 DEF Attribute
  <2>3. s = 2 /\ Len(G) >= p + 2 /\ T \in Seq(Tokens) /\ n = Len(G) - p - 2
        /\ \A i \in 1..(Len(G) - p - 2) : T[i] = G[p + 2 + i]
    <3>1. Fits(E, said, p, s, c, a, m, r, 0)
      BY DEF Fits
    <3>2. Parted(G, p, s)
      BY <3>1, TailOf
    <3> QED
      BY <2>1, <3>2 DEF Parted
  <2> HIDE DEF T
  <2>4. n \in Nat /\ n <= c + m + r
    <3>1. s = 2 /\ Len(G) >= p + 2 /\ n = Len(G) - p - 2
      BY <2>3
    <3> QED
      BY <1>s, <1>1, <3>1
  <2>22. s = 2 /\ p + 2 + n <= Len(E)
    <3>1. s = 2 /\ n = Len(G) - p - 2
      BY <2>3
    <3> QED
      BY <1>s, <1>1, <3>1
  <2>5. \A i \in 1..n : T[i] = E[p + 2 + i]
    <3> SUFFICES ASSUME NEW i \in 1..n PROVE T[i] = E[p + 2 + i]
      OBVIOUS
    <3>1. i \in 1..(Len(G) - p - 2) /\ p + 2 + i \in 1..Len(G)
      BY <1>1, <2>3
    <3> QED
      BY <1>s, <2>3, <3>1
  <2>6. /\ PartialSuffix(T) \in {0, 1} /\ PartialSuffix(T) <= n
        /\ RemoteCodeSuffix(T) \in {0, 1, 2} /\ RemoteCodeSuffix(T) <= n
        /\ n >= 1 /\ T[n] = "M1" => PartialSuffix(T) = 1
        /\ n >= 1 /\ T[n] = "R1" => RemoteCodeSuffix(T) = 1
        /\ n >= 2 /\ T[n - 1] = "R1" /\ T[n] = "R2" => RemoteCodeSuffix(T) = 2
    BY <2>3, Suffixes
  <2>7. /\ Found(T, Marker) <=> \E i \in 1..(n - 1) : T[i] = "M1" /\ T[i + 1] = "M2"
    <3>1. Found(T, Marker) <=> \E i \in 1..(n - 1) : T[i] = Marker[1] /\ T[i + 1] = Marker[2]
      BY <2>3, FoundAt, Words, Zenon
    <3> QED
      BY <3>1, Words, Zenon
  <2>8. m = 0 => ~Found(T, Marker)
    <3> SUFFICES ASSUME m = 0, NEW i \in 1..(n - 1), T[i] = "M1" PROVE FALSE
      BY <2>7
    <3>1. p + 2 + i \in 1..Len(E) /\ i \in 1..n
      BY <2>4, <2>22
    <3>2. E[p + 2 + i] = "M1"
      BY <2>5, <3>1
    <3>3. ASSUME NEW k \in 1..Len(E) PROVE E[k] = "M1" => m = 2
      <4>1. PICK x \in {0, 1} : x = 0
        OBVIOUS
      <4>2. Laid(E, said, p, s, c, a, m, r, x)
        BY <4>1
      <4> QED
        BY <4>2, Zones, SMTT(30)
    <3> QED
      BY <3>1, <3>2, <3>3
  <2>9. m = 2 /\ n >= a + 2 => Found(T, Marker)
    <3> SUFFICES ASSUME m = 2, n >= a + 2 PROVE Found(T, Marker)
      OBVIOUS
    <3>1. E[p + 2 + (a + 1)] = "M1" /\ E[p + 2 + (a + 2)] = "M2"
      <4>1. p + s + a + 1 = p + 2 + (a + 1) /\ p + s + a + 2 = p + 2 + (a + 2)
        BY <2>22
      <4>2. E[p + s + a + 1] = "M1" /\ E[p + s + a + 2] = "M2"
        BY DEF Laid
      <4> QED
        BY <4>1, <4>2
    <3>2. a + 1 \in 1..(n - 1) /\ (a + 1) + 1 = a + 2 /\ a + 2 \in 1..n /\ a + 1 \in 1..n
      BY <2>4
    <3> QED
      BY <2>5, <2>7, <3>1, <3>2
  <2>10. m = 2 /\ n = a + 1 => PartialSuffix(T) = 1
    <3> SUFFICES ASSUME m = 2, n = a + 1 PROVE n >= 1 /\ T[n] = "M1"
      BY <2>6
    <3>1. p + s + a + 1 = p + 2 + n /\ n \in 1..n
      BY <2>4, <2>22
    <3>2. E[p + s + a + 1] = "M1"
      BY DEF Laid
    <3> QED
      BY <2>5, <3>1, <3>2
  <2>11. r = 2 /\ n = c + m + 1 => RemoteCodeSuffix(T) = 1
    <3> SUFFICES ASSUME r = 2, n = c + m + 1 PROVE n >= 1 /\ T[n] = "R1"
      BY <2>6
    <3>1. p + s + c + m + 1 = p + 2 + n /\ n \in 1..n
      BY <2>4, <2>22
    <3>2. E[p + s + c + m + 1] = "R1"
      BY DEF Laid
    <3> QED
      BY <2>5, <3>1, <3>2
  <2>12. r = 2 /\ n = c + m + 2 => RemoteCodeSuffix(T) = 2
    <3> SUFFICES ASSUME r = 2, n = c + m + 2 PROVE n >= 2 /\ T[n - 1] = "R1" /\ T[n] = "R2"
      BY <2>6
    <3>1. /\ p + s + c + m + 1 = p + 2 + (n - 1) /\ n - 1 \in 1..n
          /\ p + s + c + m + 2 = p + 2 + n /\ n \in 1..n
      BY <2>4, <2>22
    <3>2. E[p + s + c + m + 1] = "R1" /\ E[p + s + c + m + 2] = "R2"
      BY DEF Laid
    <3> QED
      BY <2>5, <3>1, <3>2
  <2> DEFINE q == PartialSuffix(T)
             u == RemoteCodeSuffix(T)
  <2>13. q \in {0, 1} /\ u \in {0, 1, 2} /\ q <= n /\ u <= n
    BY <2>6
  <2>14. (m = 2 /\ n = a + 1 => q = 1) /\ (r = 2 /\ n = c + m + 1 => u = 1)
         /\ (r = 2 /\ n = c + m + 2 => u = 2)
    BY <2>10, <2>11, <2>12
  <2> HIDE DEF n, q, u
  <2>15. /\ f \in {0, 2} /\ (m = 0 => f = 0) /\ (m = 2 /\ n >= a + 2 => f = 2)
    BY <2>8, <2>9
  <2>16. /\ v = (IF f = 0 THEN q ELSE 0) /\ d = (IF v >= (IF Remote THEN u ELSE 0) THEN v ELSE (IF Remote THEN u ELSE 0))
    BY DEF Larger, q, u
  <2> HIDE DEF f
  <2>17. v \in {0, 1} /\ v <= n /\ (f = 0 /\ m = 2 /\ n = a + 1 => v = 1)
    BY <2>4, <2>13, <2>14, <2>16
  <2> HIDE DEF v
  <2>18. d \in {0, 1, 2} /\ d <= n /\ d >= v /\ (r = 2 => d >= u)
    BY <2>4, <2>13, <2>16, <2>17
  <2> HIDE DEF d
  <2>19. Less(n, f + d) = (IF n >= f + d THEN n - (f + d) ELSE 0)
    BY DEF Less
  <2>20. n - (f + d) <= c
    <3>1. CASE n <= c
      BY <1>1, <2>4, <2>15, <2>18, <3>1
    <3>2. CASE n > c /\ n <= c + m
      <4>1. m = 2
        BY <2>4, <3>2
      <4>2. CASE n >= a + 2
        BY <2>4, <2>15, <2>18, <3>2, <4>1, <4>2
      <4>3. CASE n = a + 1
        BY <1>1, <2>4, <2>15, <2>17, <2>18, <4>1, <4>3
      <4> QED
        BY <1>1, <2>4, <3>2, <4>2, <4>3
    <3>3. CASE n = c + m + 1
      <4>1. f = m
        BY <1>1, <2>4, <2>15, <3>3
      <4>2. r = 2
        BY <2>4, <3>3
      <4> QED
        BY <2>4, <2>14, <2>18, <3>3, <4>1, <4>2
    <3>4. CASE n = c + m + 2
      <4>1. f = m
        BY <1>1, <2>4, <2>15, <3>4
      <4>2. r = 2
        BY <2>4, <3>4
      <4> QED
        BY <2>4, <2>14, <2>18, <3>4, <4>1, <4>2
    <3> QED
      BY <2>4, <3>1, <3>2, <3>3, <3>4
  <2>21. m = 0 /\ r = 0 => n <= c /\ f = 0
    BY <2>4, <2>15
  <2> QED
    BY <2>2, <2>4, <2>15, <2>18, <2>19, <2>20, <2>21
<1> QED
  BY <1>2, <1>3
-----------------------------------------------------------------------------
(* The limits: every step keeps Judged.                                    *)

\* On a connection that stands, what attribute counts the command wrote.
LEMMA CountIsFair ==
    ASSUME Types, Layout, ~dropped, NEW G \in Seq(Tokens), NEW H \in Seq(Tokens), Err = G \o H,
           Attribute(G).who = "command"
    PROVE  /\ Attribute(G).own \in Nat /\ Attribute(G).pending \in Nat
           /\ Attribute(G).own <= Len(cmdErr)
           /\ ~framed => Attribute(G).own + Attribute(G).pending <= Len(cmdErr)
<1>1. PICK p \in Nat, c \in Nat, a \in Nat, s \in {0, 2}, m \in {0, 2}, r \in {0, 2}, x \in {0, 1} :
           Told(p, s, c, m, r, x) /\ Laid(Err, cmdErr, p, s, c, a, m, r, x)
  BY DEF Layout
<1>2. PICK E \in Seq(Tokens) : E = Err
  BY ConcatProperties DEF Err, Types
<1>3. /\ Len(G) \in Nat /\ Len(E) \in Nat /\ Len(G) <= Len(E)
      /\ \A i \in 1..Len(G) : G[i] = E[i]
  <2>1. Len(G) \in Nat /\ Len(H) \in Nat /\ Len(E) = Len(G) + Len(H)
    BY <1>2, LenProperties, ConcatProperties
  <2> QED
    BY <1>2, <2>1, ConcatProperties
<1>4. cmdErr \in Seq(Spoken)
  BY DEF Types
<1>5. /\ x = 0 /\ (r = 2 => Remote) /\ (~Supervised => p = 0 /\ s = 0 /\ m = 0)
      /\ (~framed => m = 0 /\ r = 0)
  BY <1>1 DEF Told
<1>6. Laid(E, cmdErr, p, s, c, a, m, r, 0) /\ c <= Len(cmdErr) /\ Len(cmdErr) \in Nat
  BY <1>1, <1>2, <1>4, <1>5, LenProperties DEF Laid
<1>7. /\ Attribute(G).own \in Nat /\ Attribute(G).pending \in Nat /\ Attribute(G).own <= c
      /\ m = 0 /\ r = 0 => Attribute(G).own + Attribute(G).pending <= c
  <2>0. /\ Starts(G, E) /\ Laid(E, cmdErr, p, s, c, a, m, r, 0) /\ (r = 2 => Remote)
        /\ ~Supervised => p = 0 /\ s = 0 /\ m = 0
    BY <1>3, <1>5, <1>6 DEF Starts
  <2>1. Attribute(G).own \in Nat
    BY <1>4, <2>0, AttributeIsFair, SMTT(30)
  <2>2. Attribute(G).pending \in Nat
    BY <1>4, <2>0, AttributeIsFair, SMTT(30)
  <2>3. Attribute(G).own <= c
    BY <1>4, <2>0, AttributeIsFair, SMTT(30)
  <2>4. m = 0 /\ r = 0 => Attribute(G).own + Attribute(G).pending <= c
    BY <1>4, <2>0, AttributeIsFair, SMTT(30)
  <2> QED
    BY <2>1, <2>2, <2>3, <2>4
<1> QED
  BY <1>5, <1>6, <1>7

\* Counting.
LEMMA AtMostSum ==
    ASSUME NEW i \in Nat, NEW j \in Nat, NEW k \in Nat, NEW n \in Nat, i + j <= n
    PROVE  i > k => n > k
OBVIOUS
LEMMA OneMore ==
    ASSUME NEW i \in Nat, NEW j \in Nat, NEW k \in Nat, NEW n \in Nat, i + j <= n, k <= j + 1
    PROVE  i + k <= n + 1 /\ n <= n + 1
OBVIOUS

\* Nothing was judged at the start.
LEMMA JudgedInit == Init => Judged
BY DEF Init, Judged

\* What a step leaves of it that judges nothing and loses no byte.
LEMMA JudgedFrame ==
    ASSUME Types, Types', Judged, case' = case, gotErr' = gotErr, grace' = grace,
           ended' \in {ended, "exited", "timeout", "spawn"},
           gotOut' + outPipe' <= cmdOut', cmdOut <= cmdOut', Len(cmdErr) <= Len(cmdErr'),
           framed => framed', stalled => stalled', dropped => dropped'
    PROVE  Judged'
<1>1. Len(cmdErr) \in Nat /\ Len(cmdErr') \in Nat /\ MaxStderr \in Nat /\ MaxStdout \in Nat
  BY BoundedRunAssumption, LenProperties DEF Types
<1>2. Excused => Excused'
  BY <1>1 DEF Excused
<1>3. ended' = "breachout" => cmdOut' > MaxStdout
  BY <1>1 DEF Judged, Types
<1>4. ended' = "abandoned" => Supervised' /\ ~Found(gotErr', Sentinel)
  BY DEF Judged, Supervised, mode
<1> QED
  BY <1>2, <1>3, <1>4 DEF Judged

\* Every step keeps what the limits were judged by.
LEMMA JudgedStep == Types /\ Engaged /\ Layout /\ Judged /\ [Next]_vars => Judged'
<1> SUFFICES ASSUME Types, Engaged, Layout, Judged, [Next]_vars PROVE Judged'
  OBVIOUS
<1> USE DEF given, engine, pipes, script, command, history, Beside, Quiet, Alone
<1>t. Types' /\ case' = case
  <2>1. Types'
    BY TypesStep
  <2>2. case' = case
    BY DEF Next, vars, Engine, Script, Command, NonBlocking, PumpTurn, PumpEnds, AwaitExit,
       TerminateRelay, TerminateGroup, ReapWithin, RunReturns, Fault, SudoReads, SudoDecides,
       SupervisorStarts, SupervisorDiscards, SupervisorRuns, SupervisorWaits, SupervisorMarks,
       SupervisorKillsAll, SubshellCancels, WrapperReports, ChildCloses, ChildExits, CommandCalls,
       CommandBlocks, CommandExits, TransportWrites, NapRunsOut, ConnectionLost, CommandCloses,
       DescendantExits, DeadlinePasses, GraceRunsOut
  <2> QED
    BY <2>1, <2>2
<1>n. /\ Len(cmdErr) \in Nat /\ cmdOut \in Nat /\ gotOut + outPipe <= cmdOut
      /\ MaxStdout \in Nat /\ MaxStderr \in Nat
  BY BoundedRunAssumption, LenProperties DEF Types, Judged
<1>f. ASSUME UNCHANGED <<case, gotErr, grace, gotOut, outPipe, cmdOut, cmdErr>>,
             ended' \in {ended, "exited", "timeout", "spawn"},
             framed => framed', stalled => stalled', dropped => dropped'
      PROVE  Judged'
  <2>1. gotOut' + outPipe' <= cmdOut' /\ cmdOut <= cmdOut' /\ Len(cmdErr) <= Len(cmdErr')
    BY <1>f, <1>n
  <2> QED
    BY <1>f, <1>t, <2>1, JudgedFrame
<1>1. CASE UNCHANGED vars
  BY <1>1, <1>f DEF vars
<1>2. CASE NonBlocking
  BY <1>2, <1>f DEF NonBlocking
<1>3. CASE PumpTurn
  <2>1. /\ gotErr' \in Seq(Tokens) /\ errPipe' \in Seq(Tokens) /\ Err = gotErr' \o errPipe'
        /\ gotOut' \in Nat /\ outPipe' \in Nat /\ gotOut' + outPipe' = gotOut + outPipe
        /\ UNCHANGED <<case, cmdOut, cmdErr, framed, stalled, dropped>>
    BY <1>3, PumpEffect DEF Err
  <2>2. ended = "none"
    BY <1>3 DEF PumpTurn, Engaged
  <2>3. gotOut' + outPipe' <= cmdOut' /\ (gotOut' > MaxStdout => cmdOut' > MaxStdout)
    <3>1. /\ gotOut' \in Nat /\ outPipe' \in Nat /\ gotOut' + outPipe' = gotOut + outPipe
          /\ cmdOut' = cmdOut
      BY <2>1
    <3>2. gotOut' + outPipe' <= cmdOut'
      BY <1>n, <3>1
    <3>3. cmdOut' \in Nat /\ MaxStdout \in Nat
      BY <1>n, <3>1
    <3>4. gotOut' > MaxStdout => cmdOut' > MaxStdout
      <4>1. gotOut' \in Nat /\ outPipe' \in Nat
        BY <3>1
      <4> QED
        BY <3>2, <3>3, <4>1, AtMostSum
    <3> QED
      BY <3>2, <3>4
  <2>4. Excused' <=> Excused
    BY <2>1 DEF Excused
  <2>5. ASSUME Attribute(gotErr').who = "command", ~dropped
        PROVE  /\ Attribute(gotErr').own > MaxStderr => Excused
               /\ Attribute(gotErr').own + Attribute(gotErr').pending > MaxStderr =>
                    Excused \/ framed
    <3>1. PICK G \in Seq(Tokens), H \in Seq(Tokens) : G = gotErr' /\ H = errPipe'
      BY <2>1
    <3>2. Err = G \o H /\ Attribute(G).who = "command"
      BY <2>1, <2>5, <3>1
    <3>3. /\ Attribute(G).own \in Nat /\ Attribute(G).own <= Len(cmdErr)
          /\ Attribute(G).pending \in Nat
          /\ ~framed => Attribute(G).own + Attribute(G).pending <= Len(cmdErr)
      BY <2>5, <3>2, CountIsFair
    <3>4. /\ Attribute(G).own > MaxStderr => Excused
          /\ Attribute(G).own + Attribute(G).pending > MaxStderr => Excused \/ framed
      BY <1>n, <3>3 DEF Excused
    <3> QED
      BY <3>1, <3>4
  <2>6. dropped => Excused
    BY DEF Excused
  <2>7. CASE Stopped("breachout") /\ gotOut' > MaxStdout
    BY <2>1, <2>3, <2>4, <2>7 DEF Stopped, Judged
  <2>8. CASE /\ Stopped("breacherr") /\ Attribute(gotErr').who = "command"
             /\ Attribute(gotErr').own > MaxStderr \/ grace = "over"
    <3>1. Excused \/ stalled
      BY <2>5, <2>6, <2>8 DEF Judged
    <3> QED
      BY <2>1, <2>3, <2>4, <2>8, <3>1 DEF Stopped, Judged
  <2>9. CASE Stopped("abandoned") /\ Attribute(gotErr').who = "transport"
    <3>1. Supervised' /\ ~Found(gotErr', Sentinel)
      BY <2>1, <2>9 DEF Attribute, Supervised, mode
    <3> QED
      BY <2>1, <2>3, <2>4, <2>9, <3>1 DEF Stopped, Judged
  <2>10. CASE /\ pc' = pc /\ ended' = ended /\ open' = open \ Finished
              /\ \/ grace' = "none"
                 \/ /\ grace' = "running" /\ Attribute(gotErr').who = "command"
                    /\ Attribute(gotErr').own + Attribute(gotErr').pending > MaxStderr
    <3>1. grace' # "over" /\ (grace' = "running" => Excused \/ framed)
      BY <2>5, <2>6, <2>10
    <3> QED
      BY <2>1, <2>2, <2>3, <2>4, <2>10, <3>1 DEF Judged
  <2> QED
    BY <1>3, <2>7, <2>8, <2>9, <2>10, PumpEffect
<1>4. CASE PumpEnds
  BY <1>4, <1>f DEF PumpEnds, Stop
<1>5. CASE AwaitExit
  <2>1. /\ UNCHANGED <<case, gotErr, grace, gotOut, outPipe, cmdOut, cmdErr, framed, stalled, dropped>>
        /\ \/ ended' \in {"exited", "timeout"}
           \/ ended' = "breacherr" /\ grace = "over"
    BY <1>5 DEF AwaitExit, Stop
  <2>2. CASE ended' \in {"exited", "timeout"}
    BY <2>1, <2>2, <1>f
  <2>3. CASE ended' = "breacherr" /\ grace = "over"
    BY <2>1, <2>3 DEF Judged, Excused
  <2> QED
    BY <2>1, <2>2, <2>3
<1>6. CASE TerminateRelay
  BY <1>6, <1>f DEF TerminateRelay
<1>7. CASE TerminateGroup
  BY <1>7, <1>f DEF TerminateGroup
<1>8. CASE ReapWithin
  BY <1>8, <1>f DEF ReapWithin
<1>9. CASE RunReturns
  BY <1>9, <1>f DEF RunReturns
<1>10. CASE Fault
  BY <1>10, <1>f DEF Fault, Stop
<1>11. CASE SudoReads
  BY <1>11, <1>f DEF SudoReads
<1>12. CASE SudoDecides
  BY <1>12, <1>f DEF SudoDecides
<1>13. CASE SupervisorStarts
  BY <1>13, <1>f DEF SupervisorStarts
<1>14. CASE SupervisorDiscards
  BY <1>14, <1>f DEF SupervisorDiscards
<1>15. CASE SupervisorRuns
  BY <1>15, <1>f DEF SupervisorRuns
<1>16. CASE SupervisorWaits
  BY <1>16, <1>f DEF SupervisorWaits
<1>17. CASE SupervisorMarks
  BY <1>17, <1>f DEF SupervisorMarks
<1>18. CASE SupervisorKillsAll
  BY <1>18, <1>f DEF SupervisorKillsAll
<1>19. CASE SubshellCancels
  BY <1>19, <1>f DEF SubshellCancels
<1>20. CASE WrapperReports
  <2>1. framed => framed'
    BY <1>20 DEF WrapperReports
  <2> QED
    BY <1>20, <1>f, <2>1 DEF WrapperReports
<1>21. CASE ChildCloses
  BY <1>21, <1>f DEF ChildCloses
<1>22. CASE ChildExits
  BY <1>22, <1>f DEF ChildExits
<1>23. ASSUME NEW w \in Calls, CommandCalls(w) PROVE Judged'
  <2>1. UNCHANGED <<case, gotErr, grace, ended, gotOut, framed, stalled, dropped>>
    BY <1>23 DEF CommandCalls
  <2>2. CASE w = "in"
    BY <1>23, <2>1, <2>2, <1>f DEF CommandCalls
  <2>3. CASE w = "out"
    <3>1. outPipe' <= outPipe + 1 /\ cmdOut' = cmdOut + 1 /\ cmdErr' = cmdErr
      BY <1>23, <2>3 DEF CommandCalls, Types
    <3>2. gotOut' + outPipe' <= cmdOut' /\ cmdOut <= cmdOut' /\ Len(cmdErr) <= Len(cmdErr')
      <4>1. outPipe' \in Nat /\ outPipe \in Nat /\ gotOut \in Nat /\ gotOut' = gotOut
        BY <1>t, <2>1 DEF Types
      <4>2. Len(cmdErr') = Len(cmdErr)
        BY <3>1
      <4>3. cmdOut \in Nat /\ gotOut + outPipe <= cmdOut /\ cmdOut' = cmdOut + 1
        BY <1>n, <3>1
      <4>4. outPipe' <= outPipe + 1
        BY <3>1
      <4>5. gotOut' + outPipe' <= cmdOut' /\ cmdOut <= cmdOut'
        BY <4>1, <4>3, <4>4, OneMore
      <4> QED
        BY <1>n, <4>2, <4>5
    <3> QED
      BY <1>t, <2>1, <3>2, JudgedFrame
  <2>4. CASE w \notin {"in", "out"}
    <3>1. w \in Spoken
      BY <2>4, GivenFacts DEF Calls
    <3>2. cmdErr' = Append(cmdErr, w) /\ UNCHANGED <<outPipe, cmdOut>>
      BY <1>23, <2>4 DEF CommandCalls
    <3>3. Len(cmdErr') = Len(cmdErr) + 1
      BY <3>1, <3>2, AppendProperties DEF Types
    <3>4. gotOut' + outPipe' <= cmdOut' /\ cmdOut <= cmdOut' /\ Len(cmdErr) <= Len(cmdErr')
      BY <1>n, <2>1, <3>2, <3>3
    <3> QED
      BY <1>t, <2>1, <3>4, JudgedFrame
  <2> QED
    BY <2>2, <2>3, <2>4
<1>24. ASSUME NEW w \in Calls, CommandBlocks(w) PROVE Judged'
  BY <1>24, <1>f DEF CommandBlocks
<1>25. CASE CommandExits
  BY <1>25, <1>f DEF CommandExits
<1>26. CASE TransportWrites
  BY <1>26, <1>f DEF TransportWrites
<1>27. CASE NapRunsOut
  BY <1>27, <1>f DEF NapRunsOut
<1>28. CASE ConnectionLost
  BY <1>28, <1>f DEF ConnectionLost
<1>29. CASE CommandCloses
  BY <1>29, <1>f DEF CommandCloses
<1>30. CASE DescendantExits
  BY <1>30, <1>f DEF DescendantExits
<1>31. CASE DeadlinePasses
  BY <1>31, <1>f DEF DeadlinePasses
<1>32. CASE GraceRunsOut
  BY <1>32 DEF GraceRunsOut, Judged, Excused, Supervised, mode
<1> QED
  BY <1>1, <1>2, <1>3, <1>4, <1>5, <1>6, <1>7, <1>8, <1>9, <1>10, <1>11, <1>12, <1>13, <1>14,
     <1>15, <1>16, <1>17, <1>18, <1>19, <1>20, <1>21, <1>22, <1>23, <1>24, <1>25, <1>26, <1>27,
     <1>28, <1>29, <1>30, <1>31, <1>32 DEF Next, Engine, Script, Command
-----------------------------------------------------------------------------
(* The inductive invariant, and what it proves.                            *)

IInv == Types /\ Engaged /\ Staged /\ Fed /\ Aimed /\ Layout /\ Judged

\* Every step of the engine, of the processes on the other side and of the
\* command keeps the invariant, on every transport and under every limit.
THEOREM Invariance == Spec => []IInv
<1>1. Init => IInv
  BY TypesInit, EngagedInit, StagedInit, FedInit, AimedInit, LayoutInit, JudgedInit DEF IInv
<1>2. IInv /\ [Next]_vars => IInv'
  BY TypesStep, EngagedStep, StagedStep, FedStep, AimedStep, LayoutStep, JudgedStep DEF IInv
<1> QED
  BY <1>1, <1>2, PTL DEF Spec

\* terminate and `kill -KILL 0` reach the run and nothing else, the subshell
\* signals a sleep that was reaped only once the script's wait for it ended at
\* the deadline, and a directly spawned command that was stopped is dead, with
\* what stayed in its group, when run returns.
THEOREM KillsSafety == Spec => []KillsAreTheRuns
<1>1. IInv => KillsAreTheRuns
  BY DEF IInv, Aimed, KillsAreTheRuns, Supervised
<1> QED
  BY <1>1, Invariance, PTL

\* Whatever sudo does with the password line and the handoff line, the bytes the
\* command reads are the caller's, in order and from the first.
THEOREM StdinSafety == Spec => []StdinIsTheCallers
<1>1. ASSUME IInv PROVE StdinIsTheCallers
  <2>1. /\ cmdIn \in Seq(Tokens) /\ \A i \in 1..Len(cmdIn) : cmdIn[i] = Input[i]
    BY <1>1 DEF IInv, Types, Fed
  <2>2. Len(cmdIn) \in Nat
    BY <2>1, LenProperties
  <2>3. \A i \in 1..Len(cmdIn) : Input[i] \in Tokens
    BY <2>1, ElementOfSeq
  <2> DEFINE t == SubSeq(Input, 1, Len(cmdIn))
  <2>4. t \in Seq(Tokens) /\ Len(t) = Len(cmdIn) /\ \A i \in 1..Len(cmdIn) : t[i] = Input[i]
    <3>1. /\ t \in Seq(Tokens) /\ Len(t) = (IF 1 <= Len(cmdIn) THEN Len(cmdIn) - 1 + 1 ELSE 0)
          /\ \A i \in 1..(Len(cmdIn) - 1 + 1) : t[i] = Input[1 + i - 1]
      BY <2>2, <2>3, SubSeqProperties
    <3> HIDE DEF t
    <3> QED
      BY <2>2, <3>1
  <2> HIDE DEF t
  <2>5. \A i \in 1..Len(cmdIn) : cmdIn[i] = t[i]
    BY <2>1, <2>4
  <2>6. cmdIn = t
    BY <2>1, <2>4, <2>5, SeqEqual
  <2> QED
    BY <2>6 DEF StdinIsTheCallers, t
<1> QED
  BY <1>1, Invariance, PTL
-----------------------------------------------------------------------------
(* The result.                                                             *)

\* A set of places that is not empty has a last one.
LEMMA LastIsThere ==
    ASSUME NEW n \in Nat, NEW S \in SUBSET (1..n), S # {}
    PROVE  Last(S) \in S /\ \A j \in S : Last(S) >= j
<1> DEFINE R == OpToRel(<, Nat)
           D == {d \in Nat : d <= n /\ n - d \in S}
<1>1. IsWellFoundedOn(R, Nat) /\ \A i, j \in Nat : i < j => <<i, j>> \in R
  BY NatLessThanWellFounded DEF OpToRel
<1>2. ASSUME NEW j \in S PROVE j \in 1..n /\ n - j \in Nat /\ n - j \in D
  <2>1. j \in 1..n
    OBVIOUS
  <2>2. n - j \in Nat /\ n - j <= n /\ n - (n - j) = j
    BY <2>1
  <2> QED
    BY <2>1, <2>2
<1>3. D \subseteq Nat /\ D # {} /\ \A d \in D : n - d \in S
  <2>1. PICK j \in S : TRUE
    OBVIOUS
  <2> QED
    BY <1>2, <2>1
<1> HIDE DEF R, D
<1>4. PICK d \in D : \A e \in D : <<e, d>> \notin R
  <2>1. IsWellFoundedOn(R, Nat) /\ D \subseteq Nat /\ D # {}
    BY <1>1, <1>3
  <2> QED
    BY <2>1, WFMin, Zenon
<1>5. PICK i \in S : i = n - d
  BY <1>3
<1>6. ASSUME NEW j \in S PROVE i >= j
  <2>1. n - j \in D /\ n - j \in Nat /\ d \in Nat /\ j \in 1..n
    BY <1>2, <1>3
  <2>2. ~(n - j < d)
    BY <1>1, <1>4, <2>1
  <2> QED
    BY <1>5, <2>1, <2>2
<1> QED
  BY <1>6 DEF Last

\* extract_remote_code: the place it finds is the last head, and where it finds
\* none, no head that a number follows is the last one.
LEMMA RcFacts ==
    ASSUME NEW G \in Seq(Tokens)
    PROVE  /\ RcAt(G) # 0 =>
                /\ RcAt(G) \in 1..(Len(G) - 1) /\ G[RcAt(G)] = "R1"
                /\ G[RcAt(G) + 1] \in {"R2", "L2"}
                /\ \A j \in 1..Len(G) : G[j] = "R1" => j <= RcAt(G)
           /\ RcAt(G) = 0 =>
                \A j \in 1..(Len(G) - 1) : G[j] = "R1" /\ G[j + 1] = "R2" =>
                    \E k \in 1..Len(G) : k > j /\ G[k] = "R1"
<1> DEFINE heads == {i \in 1..Len(G) : G[i] = "R1"}
           at == Last(heads)
<1>1. Len(G) \in Nat
  BY LenProperties
<1>2. RcAt(G) = IF heads = {} THEN 0
                ELSE IF at < Len(G) /\ G[at + 1] \in {"R2", "L2"} THEN at ELSE 0
  BY DEF RcAt
<1>3. CASE heads = {}
  <2>1. RcAt(G) = 0
    BY <1>2, <1>3
  <2>2. \A j \in 1..Len(G) : G[j] # "R1"
    BY <1>3
  <2>3. ASSUME NEW j \in 1..(Len(G) - 1) PROVE j \in 1..Len(G)
    BY <1>1
  <2> QED
    BY <2>1, <2>2, <2>3
<1>4. CASE heads # {}
  <2>1. at \in heads /\ \A j \in heads : at >= j
    <3>1. heads \in SUBSET (1..Len(G))
      OBVIOUS
    <3> HIDE DEF heads
    <3> QED
      BY <1>1, <1>4, <3>1, LastIsThere
  <2> HIDE DEF at
  <2>2. /\ at \in 1..Len(G) /\ G[at] = "R1"
        /\ \A j \in 1..Len(G) : G[j] = "R1" => j <= at
    BY <1>1, <2>1
  <2>3. CASE at < Len(G) /\ G[at + 1] \in {"R2", "L2"}
    <3>1. RcAt(G) = at
      BY <1>2, <1>4, <2>3
    <3>2. at \in 1..(Len(G) - 1) /\ at # 0
      BY <1>1, <2>2, <2>3
    <3> QED
      BY <2>2, <2>3, <3>1, <3>2
  <2>4. CASE ~(at < Len(G) /\ G[at + 1] \in {"R2", "L2"})
    <3>1. RcAt(G) = 0
      BY <1>2, <1>4, <2>4
    <3>2. ASSUME NEW j \in 1..(Len(G) - 1), G[j] = "R1", G[j + 1] = "R2"
          PROVE  \E k \in 1..Len(G) : k > j /\ G[k] = "R1"
      <4>1. j \in 1..Len(G) /\ j < Len(G)
        BY <1>1
      <4>2. j # at
        BY <2>4, <3>2, <4>1
      <4>3. j <= at
        BY <2>2, <3>2, <4>1
      <4>4. at > j
        BY <1>1, <2>2, <4>1, <4>2, <4>3
      <4> QED
        BY <2>2, <4>4
    <3> QED
      BY <3>1, <3>2
  <2> QED
    BY <2>3, <2>4
<1> QED
  BY <1>3, <1>4

\* Places before a place.
LEMMA Within ==
    ASSUME NEW n \in Nat, NEW k \in Nat, n <= k, NEW h \in 1..(n - 1)
    PROVE  /\ h \in 1..n /\ h \in 1..k /\ h + 1 \in 1..n /\ h + 1 \in 1..k
           /\ \A j \in 1..(h - 1) : j \in 1..n
           /\ h - 1 <= k /\ (IF 1 <= h - 1 THEN (h - 1) - 1 + 1 ELSE 0) = h - 1
OBVIOUS

\* What is left before the exit-status line that extract_remote_code finds.
Cut(G, E, p, s, c, m, r) ==
    \E h \in Nat, own \in Seq(Tokens) :
       /\ h = RcAt(G) /\ own = SubSeq(G, 1, h - 1) /\ Len(own) = h - 1
       /\ Starts(own, E) /\ h > p + s
       /\ r = 0 => h <= p + s + c + m
       /\ r = 2 => h <= p + s + c + m + 1
       /\ G[h + 1] \in {"R2", "L2"}
       /\ G[h + 1] = "R2" => r = 2 /\ h = p + s + c + m + 1

LEMMA OwnIs ==
    ASSUME NEW G \in Seq(Tokens), NEW E, NEW said \in Seq(Spoken),
           NEW p \in Nat, NEW c \in Nat, NEW a \in Nat, NEW s \in {0, 2}, NEW m \in {0, 2},
           NEW r \in {0, 2}, NEW x \in {0, 1}, Laid(E, said, p, s, c, a, m, r, x),
           Starts(G, E), RcAt(G) # 0
    PROVE  Cut(G, E, p, s, c, m, r)
<1>s. Len(G) <= Len(E) /\ (\A i \in 1..Len(G) : G[i] = E[i]) /\ Len(E) \in Nat
  BY DEF Starts
<1>1. Len(G) \in Nat
  BY LenProperties
<1>h. PICK h \in Nat : h = RcAt(G) /\ h # 0
  BY RcFacts
<1>2. h \in 1..(Len(G) - 1) /\ G[h] = "R1" /\ G[h + 1] \in {"R2", "L2"}
  BY <1>h, RcFacts
<1>3. /\ h \in 1..Len(E) /\ h + 1 \in 1..Len(E) /\ h \in 1..Len(G) /\ h + 1 \in 1..Len(G)
      /\ \A j \in 1..(h - 1) : j \in 1..Len(G)
      /\ h - 1 <= Len(E) /\ (IF 1 <= h - 1 THEN (h - 1) - 1 + 1 ELSE 0) = h - 1
  BY <1>s, <1>1, <1>2, Within, Zenon
<1>4. E[h] = "R1" /\ E[h + 1] = G[h + 1]
  BY <1>s, <1>2, <1>3
<1>5. ASSUME NEW i \in 1..Len(E)
      PROVE  /\ E[i] = "R2" => r = 2 /\ i = p + s + c + m + 2
             /\ E[i] = "R1" => i > p + s /\ (r = 0 => i <= p + s + c + m)
             /\ E[i] = "R1" /\ r = 2 => i <= p + s + c + m + 1
  BY Zones, SMTT(30)
<1>6. /\ h > p + s /\ (r = 0 => h <= p + s + c + m) /\ (r = 2 => h <= p + s + c + m + 1)
      /\ G[h + 1] = "R2" => r = 2 /\ h + 1 = p + s + c + m + 2
  BY <1>3, <1>4, <1>5
<1>7. G[h + 1] = "R2" => h = p + s + c + m + 1
  BY <1>6
<1> DEFINE t == SubSeq(G, 1, h - 1)
<1>8. \A j \in 1..(h - 1) : j \in 1..Len(G) /\ G[j] \in Tokens
  BY <1>3, ElementOfSeq, Zenon
<1>9. /\ t \in Seq(Tokens) /\ Len(t) = (IF 1 <= h - 1 THEN (h - 1) - 1 + 1 ELSE 0)
      /\ \A i \in 1..((h - 1) - 1 + 1) : t[i] = G[1 + i - 1]
  BY <1>8, SubSeqProperties
<1> HIDE DEF t
<1>10. Len(t) = h - 1 /\ h - 1 <= Len(E)
  <2>1. h - 1 <= Len(E) /\ (IF 1 <= h - 1 THEN (h - 1) - 1 + 1 ELSE 0) = h - 1
    BY <1>3
  <2> QED
    BY <1>9, <2>1
<1>11. ASSUME NEW i \in 1..(h - 1) PROVE t[i] = E[i]
  <2>1. i \in 1..((h - 1) - 1 + 1) /\ 1 + i - 1 = i
    OBVIOUS
  <2>2. i \in 1..Len(G)
    BY <1>8
  <2> QED
    BY <1>s, <1>9, <2>1, <2>2
<1>12. Starts(t, E)
  BY <1>s, <1>10, <1>11 DEF Starts
<1> QED
  BY <1>2, <1>6, <1>7, <1>9, <1>10, <1>12, <1>h, Zenon DEF t, Cut

\* The same, from the layout as a whole.
LEMMA OwnOf ==
    ASSUME NEW G \in Seq(Tokens), NEW E, NEW said, NEW p, NEW s, NEW c, NEW a, NEW m, NEW r,
           NEW x, Fits(E, said, p, s, c, a, m, r, x), Starts(G, E), RcAt(G) # 0
    PROVE  Cut(G, E, p, s, c, m, r)
<1>1. /\ said \in Seq(Spoken) /\ p \in Nat /\ c \in Nat /\ a \in Nat
      /\ s \in {0, 2} /\ m \in {0, 2} /\ r \in {0, 2} /\ x \in {0, 1}
      /\ Laid(E, said, p, s, c, a, m, r, x)
  BY DEF Fits
<1> QED
  BY <1>1, OwnIs

\* With no marker in it, what take_sudo_sentinel leaves is the command's.
LeftSaid(G, said, p, c, m) ==
    m = 0 /\ Len(G) <= p + 2 + c =>
      /\ Len(PastSentinel(G)) \in Nat /\ Len(PastSentinel(G)) <= Len(said)
      /\ Len(G) = p + 2 + c /\ c = Len(said) => PastSentinel(G) = said

LEMMA LeftIsSaid ==
    ASSUME NEW G \in Seq(Tokens), NEW E, NEW said \in Seq(Spoken),
           NEW p \in Nat, NEW c \in Nat, NEW a \in Nat, NEW s \in {0, 2}, NEW m \in {0, 2},
           NEW r \in {0, 2}, NEW x \in {0, 1}, Laid(E, said, p, s, c, a, m, r, x),
           Starts(G, E),
           Found(G, Sentinel)
    PROVE  LeftSaid(G, said, p, c, m)
<1>s. Len(G) <= Len(E) /\ (\A i \in 1..Len(G) : G[i] = E[i]) /\ Len(E) \in Nat
  BY DEF Starts
<1>1. Len(G) \in Nat /\ c <= Len(said) /\ Len(said) \in Nat
  BY LenProperties DEF Laid
<1>v. Fits(E, said, p, s, c, a, m, r, x)
  BY DEF Fits
<1>q. Parted(G, p, s)
  BY <1>v, TailOf
<1>2. s = 2 /\ Len(G) >= p + 2
  BY <1>q DEF Parted
<1>3. PastSentinel(G) \in Seq(Tokens) /\ Len(PastSentinel(G)) = Len(G) - p - 2
  BY <1>q DEF Parted
<1>4. ASSUME NEW i \in 1..(Len(G) - p - 2) PROVE PastSentinel(G)[i] = G[p + 2 + i]
  BY <1>q DEF Parted
<1> SUFFICES ASSUME m = 0, Len(G) <= p + 2 + c
             PROVE  /\ Len(PastSentinel(G)) \in Nat /\ Len(PastSentinel(G)) <= Len(said)
                    /\ Len(G) = p + 2 + c /\ c = Len(said) => PastSentinel(G) = said
  BY DEF LeftSaid
<1> DEFINE t == PastSentinel(G)
<1> HIDE DEF t
<1>5. t \in Seq(Tokens) /\ Len(t) = Len(G) - p - 2
  BY <1>3 DEF t
<1>6. ASSUME NEW i \in 1..Len(t) PROVE t[i] = said[i] /\ i \in 1..c
  <2>1. i \in 1..(Len(G) - p - 2) /\ p + 2 + i \in 1..Len(G) /\ i \in 1..c
    BY <1>1, <1>2, <1>5
  <2>2. t[i] = E[p + 2 + i]
    BY <1>s, <1>4, <2>1 DEF t
  <2>3. \A j \in 1..c : E[p + s + j + (IF j > a THEN m ELSE 0)] = said[j]
    BY DEF Laid
  <2>4. p + s + i + (IF i > a THEN m ELSE 0) = p + 2 + i
    BY <1>2, <2>1
  <2> QED
    BY <2>1, <2>2, <2>3, <2>4
<1>7. Len(t) \in Nat /\ Len(t) <= Len(said)
  BY <1>1, <1>2, <1>5
<1>8. ASSUME Len(G) = p + 2 + c, c = Len(said) PROVE t = said
  <2>1. Len(t) = Len(said)
    BY <1>1, <1>5, <1>8
  <2>2. said \in Seq(Tokens)
    BY WiderSeq DEF Tokens
  <2> QED
    BY <1>5, <1>6, <2>1, <2>2, SeqEqual
<1> QED
  BY <1>7, <1>8 DEF t

\* The same, from the layout as a whole.
LEMMA LeftOf ==
    ASSUME NEW G \in Seq(Tokens), NEW E, NEW said, NEW p, NEW s, NEW c, NEW a, NEW m, NEW r,
           NEW x, Fits(E, said, p, s, c, a, m, r, x), Starts(G, E), Found(G, Sentinel)
    PROVE  LeftSaid(G, said, p, c, m)
<1>1. /\ said \in Seq(Spoken) /\ p \in Nat /\ c \in Nat /\ a \in Nat
      /\ s \in {0, 2} /\ m \in {0, 2} /\ r \in {0, 2} /\ x \in {0, 1}
      /\ Laid(E, said, p, s, c, a, m, r, x)
  BY DEF Fits
<1> QED
  BY <1>1, LeftIsSaid

\* finish, for a run that was not stopped for a limit, the deadline or a fault.
LEMMA FinishIs ==
    ASSUME NEW how \in {"exited", "abandoned"}, NEW out, NEW G, NEW R, R = Finish(how, out, G)
    PROVE  \/ Supervised /\ Found(G, Marker) /\ R = Failed("timeout")
           \/ /\ ~(Supervised /\ Found(G, Marker))
              /\ \/ Settle(G).kind # "ok" /\ R = Settle(G)
                 \/ Settle(G).kind = "ok" /\ out > MaxStdout /\ R = Failed("breachout")
                 \/ /\ Settle(G).kind = "ok" /\ Len(Settle(G).err) > MaxStderr
                    /\ R = Failed("breacherr")
                 \/ /\ Settle(G).kind = "ok" /\ ~(out > MaxStdout)
                    /\ ~(Len(Settle(G).err) > MaxStderr) /\ R = Settle(G)
<1>1. R = IF Supervised /\ Found(G, Marker) THEN Failed("timeout")
          ELSE IF Settle(G).kind # "ok" THEN Settle(G)
          ELSE IF out > MaxStdout THEN Failed("breachout")
          ELSE IF Len(Settle(G).err) > MaxStderr THEN Failed("breacherr") ELSE Settle(G)
  <2>1. how \notin {"breachout", "breacherr", "timeout", "spawn"}
    OBVIOUS
  <2> QED
    BY <2>1 DEF Finish
<1> QED
  BY <1>1, Zenon

\* settle_remote_code and classify_elevation, by cases.
LEMMA SettleIs ==
    ASSUME Types, NEW G, NEW T, T = Settle(G)
    PROVE  /\ Remote => \E h, own :
                /\ h = RcAt(G) /\ own = SubSeq(G, 1, h - 1)
                /\ h = 0 => T = Failed("connection")
                /\ h # 0 /\ Found(own, Sentinel) =>
                     T = [kind |-> "ok", err |-> PastSentinel(own), code |-> G[h + 1]]
                /\ h # 0 /\ ~Found(own, Sentinel) /\ Elevated => T = Failed("refused")
                /\ h # 0 /\ ~Found(own, Sentinel) /\ ~Elevated =>
                     T = [kind |-> "ok", err |-> own, code |-> G[h + 1]]
           /\ mode = "sudo" =>
                /\ Found(G, Sentinel) => T = [kind |-> "ok", err |-> PastSentinel(G), code |-> "R2"]
                /\ ~Found(G, Sentinel) => T = Failed("refused")
           /\ ~Supervised => T = [kind |-> "ok", err |-> G, code |-> "R2"]
<1>0. PICK h, own : h = RcAt(G) /\ own = SubSeq(G, 1, h - 1)
  OBVIOUS
<1>1. CASE Remote /\ h = 0
  <2>1. T = Failed("connection") /\ mode # "sudo" /\ Supervised
    BY <1>0, <1>1 DEF Settle, Remote, Supervised
  <2> QED
    BY <1>0, <1>1, <2>1, Zenon
<1>2. CASE Remote /\ h # 0
  <2>1. Supervised /\ mode # "sudo"
    BY <1>2 DEF Remote, Supervised
  <2>2. T = IF Found(own, Sentinel)
            THEN [kind |-> "ok", err |-> PastSentinel(own), code |-> G[h + 1]]
            ELSE IF Elevated THEN Failed("refused")
                 ELSE [kind |-> "ok", err |-> own, code |-> G[h + 1]]
    BY <1>0, <1>2, <2>1 DEF Settle
  <2> QED
    BY <1>0, <1>2, <2>1, <2>2, Zenon
<1>3. CASE mode = "sudo"
  <2>1. Supervised /\ ~Remote /\ Elevated
    BY <1>3 DEF Remote, Supervised, Elevated
  <2> QED
    BY <2>1 DEF Settle
<1>4. CASE ~Supervised
  BY <1>4 DEF Settle, Remote, Supervised
<1> QED
  BY <1>1, <1>2, <1>3, <1>4, GivenFacts DEF Remote, Supervised

\* What a run whose child was reaped has captured: all that was written.
LEMMA AllIsCaptured ==
    ASSUME IInv, ended = "exited"
    PROVE  /\ Err = gotErr /\ outPipe = 0 /\ child # "alive" /\ gotErr \in Seq(Tokens)
           /\ ~Remote => Heard
<1>1. outPipe = 0 /\ errPipe = <<>> /\ child # "alive"
  BY DEF IInv, Engaged, Going
<1>2. gotErr \in Seq(Tokens)
  BY DEF IInv, Types
<1>3. Err = gotErr
  BY <1>1, <1>2, ConcatEmptySeq DEF Err
<1> QED
  BY <1>1, <1>2, <1>3 DEF Heard, Going, Reaches

\* A captured output that settles is the command's, and the command exited; or a
\* line of the command's own was taken for the wrapper's.
LEMMA SettledIsTheCommands ==
    ASSUME IInv, ended = "exited", ~(Supervised /\ Found(gotErr, Marker)),
           Settle(gotErr).kind = "ok"
    PROVE  /\ Len(Settle(gotErr).err) \in Nat /\ Len(Settle(gotErr).err) <= Len(cmdErr)
           /\ \/ sub = "exited" /\ gotOut = cmdOut /\ Settle(gotErr).err = cmdErr
              \/ Remote /\ Settle(gotErr).code = "L2"
<1>1. PICK p \in Nat, c \in Nat, a \in Nat, s \in {0, 2}, m \in {0, 2}, r \in {0, 2}, x \in {0, 1} :
           Told(p, s, c, m, r, x) /\ Laid(Err, cmdErr, p, s, c, a, m, r, x)
  BY DEF IInv, Layout
<1>2. PICK G \in Seq(Tokens) : G = gotErr
  BY AllIsCaptured
<1>3. /\ G = Err /\ Laid(G, cmdErr, p, s, c, a, m, r, x) /\ outPipe = 0 /\ child # "alive"
      /\ ~Remote => Heard
  BY <1>1, <1>2, AllIsCaptured
<1>4. /\ cmdErr \in Seq(Spoken) /\ Len(cmdErr) \in Nat /\ Len(G) \in Nat /\ Types
      /\ mode \in {"direct", "sudo", "ssh", "sshsudo"} /\ cmdErr \in Seq(Tokens)
      /\ gotOut \in Nat /\ cmdOut \in Nat
  <2>1. cmdErr \in Seq(Spoken) /\ Types /\ gotOut \in Nat /\ cmdOut \in Nat
    BY DEF IInv, Types
  <2>2. cmdErr \in Seq(Tokens)
    BY <2>1, WiderSeq DEF Tokens
  <2> QED
    BY <2>1, <2>2, LenProperties, GivenFacts
<1>5. Len(G) = p + s + c + m + r + x /\ c <= Len(cmdErr) /\ a <= c
  BY <1>3 DEF Laid
<1>w. Starts(G, G) /\ Fits(G, cmdErr, p, s, c, a, m, r, x)
  BY <1>3, <1>4 DEF Starts, Fits
<1>6. m = 0
  <2> SUFFICES ASSUME m = 2 PROVE FALSE
    OBVIOUS
  <2>1. Supervised
    BY <1>1 DEF Told
  <2>2. G[p + s + a + 1] = "M1" /\ G[p + s + a + 2] = "M2"
    BY <1>3 DEF Laid
  <2>3. p + s + a + 1 \in 1..(Len(G) - 1) /\ (p + s + a + 1) + 1 = p + s + a + 2
    BY <1>4, <1>5
  <2>4. \E i \in 1..(Len(G) - 1) : G[i] = "M1" /\ G[i + 1] = "M2"
    BY <2>2, <2>3
  <2>5. Found(G, Marker) <=> \E i \in 1..(Len(G) - 1) : G[i] = Marker[1] /\ G[i + 1] = Marker[2]
    BY FoundAt, Words, Zenon
  <2>6. Found(G, Marker)
    BY <2>4, <2>5, Words, Zenon
  <2> QED
    BY <1>2, <2>1, <2>6
<1>7. gotOut + outPipe = cmdOut => gotOut = cmdOut
  BY <1>3, <1>4
<1>d. PICK T : T = Settle(G) /\ T = Settle(gotErr)
  BY <1>2
<1>8. T.kind = "ok"
  BY <1>d
<1>9. CASE ~Supervised
  <2>1. T = [kind |-> "ok", err |-> G, code |-> "R2"]
    BY <1>4, <1>9, <1>d, SettleIs
  <2>2. ~Remote /\ Heard
    BY <1>3, <1>9 DEF Supervised, Remote
  <2>3. p = 0 /\ s = 0 /\ r = 0 /\ x = 0 /\ c = Len(cmdErr) /\ gotOut = cmdOut
    BY <1>1, <1>7, <1>9, <2>2 DEF Told
  <2>4. Len(G) = Len(cmdErr)
    BY <1>4, <1>5, <1>6, <2>3
  <2>5. \A i \in 1..c : G[p + s + i + (IF i > a THEN m ELSE 0)] = cmdErr[i]
    BY <1>3 DEF Laid
  <2>6. ASSUME NEW i \in 1..Len(G) PROVE G[i] = cmdErr[i]
    <3>1. i \in 1..c /\ p + s + i + (IF i > a THEN m ELSE 0) = i
      BY <1>4, <1>6, <2>3, <2>4
    <3> QED
      BY <2>5, <3>1
  <2>7. G = cmdErr
    BY <1>4, <2>4, <2>6, SeqEqual
  <2>8. sub = "exited"
    BY <1>3, <1>9 DEF IInv, Staged, Going
  <2>9. T.err = cmdErr
    BY <2>1, <2>7
  <2> QED
    BY <1>d, <1>4, <2>3, <2>8, <2>9
<1>10. CASE mode = "sudo"
  <2>1. Found(G, Sentinel) /\ T.err = PastSentinel(G)
    <3>1. /\ Found(G, Sentinel) => T = [kind |-> "ok", err |-> PastSentinel(G), code |-> "R2"]
          /\ ~Found(G, Sentinel) => T = Failed("refused")
      BY <1>4, <1>10, <1>d, SettleIs
    <3>2. Found(G, Sentinel)
      BY <1>8, <3>1 DEF Failed
    <3> QED
      BY <3>1, <3>2
  <2>2. ~Remote /\ Heard /\ Supervised
    BY <1>3, <1>10 DEF Supervised, Remote
  <2>3. r = 0 /\ x = 0 /\ c = Len(cmdErr) /\ gotOut = cmdOut
    BY <1>1, <1>7, <2>2 DEF Told
  <2>4. s = 2 /\ Len(G) >= p + 2
    <3>1. Parted(G, p, s)
      BY <1>w, TailOf
    <3> QED
      BY <2>1, <3>1 DEF Parted
  <2>5. Len(G) = p + 2 + c
    BY <1>5, <1>6, <2>3, <2>4
  <2>6. m = 0 /\ Len(G) <= p + 2 + c =>
             /\ Len(PastSentinel(G)) \in Nat /\ Len(PastSentinel(G)) <= Len(cmdErr)
             /\ Len(G) = p + 2 + c /\ c = Len(cmdErr) => PastSentinel(G) = cmdErr
    <3>1. LeftSaid(G, cmdErr, p, c, m)
      BY <1>w, <2>1, LeftOf
    <3> QED
      BY <3>1 DEF LeftSaid
  <2>7. T.err = cmdErr
    BY <1>4, <1>6, <2>1, <2>3, <2>5, <2>6
  <2>8. sub = "exited"
    <3>1. sup \in {"exited", "refused", "killed"}
      BY <1>3, <1>10, <2>2 DEF IInv, Staged, Remote
    <3>2. sup # "refused" /\ sup # "killed"
      BY <1>1, <1>6, <2>2, <2>4 DEF Told
    <3> QED
      BY <2>2, <3>1, <3>2 DEF IInv, Staged
  <2> QED
    BY <1>d, <1>4, <2>3, <2>7, <2>8
<1>11. CASE Remote
  <2>1. PICK h, own :
          /\ h = RcAt(G) /\ own = SubSeq(G, 1, h - 1)
          /\ h = 0 => T = Failed("connection")
          /\ h # 0 /\ Found(own, Sentinel) =>
               T = [kind |-> "ok", err |-> PastSentinel(own), code |-> G[h + 1]]
          /\ h # 0 /\ ~Found(own, Sentinel) /\ Elevated => T = Failed("refused")
    <3>1. Remote => \E h, own :
                /\ h = RcAt(G) /\ own = SubSeq(G, 1, h - 1)
                /\ h = 0 => T = Failed("connection")
                /\ h # 0 /\ Found(own, Sentinel) =>
                     T = [kind |-> "ok", err |-> PastSentinel(own), code |-> G[h + 1]]
                /\ h # 0 /\ ~Found(own, Sentinel) /\ Elevated => T = Failed("refused")
                /\ h # 0 /\ ~Found(own, Sentinel) /\ ~Elevated =>
                     T = [kind |-> "ok", err |-> own, code |-> G[h + 1]]
      BY <1>4, <1>d, SettleIs
    <3> QED
      BY <1>11, <3>1, Zenon
  <2>4. h # 0
    BY <1>8, <2>1 DEF Failed
  <2>5. /\ own \in Seq(Tokens) /\ Len(own) = h - 1 /\ Starts(own, G) /\ h > p + s
        /\ r = 0 => h <= p + s + c + m
        /\ r = 2 => h <= p + s + c + m + 1
        /\ G[h + 1] \in {"R2", "L2"}
        /\ G[h + 1] = "R2" => r = 2 /\ h = p + s + c + m + 1
    <3>1. RcAt(G) # 0
      BY <2>1, <2>4
    <3>2. Cut(G, G, p, s, c, m, r)
      BY <1>w, <3>1, OwnOf
    <3> QED
      BY <2>1, <3>2, Zenon DEF Cut
  <2>6. h \in Nat
    <3>1. RcAt(G) = 0 \/ RcAt(G) \in 1..(Len(G) - 1)
      BY RcFacts
    <3> QED
      BY <1>4, <2>1, <3>1
  <2>7. Found(own, Sentinel) <=> s = 2 /\ Len(own) >= p + 2
    <3>1. own \in Seq(Tokens) /\ Starts(own, G)
      BY <2>5
    <3>2. Parted(own, p, s)
      BY <1>w, <3>1, TailOf
    <3> QED
      BY <3>2 DEF Parted
  <2>8. s = 2
    <3> SUFFICES ASSUME s = 0 PROVE FALSE
      OBVIOUS
    <3>1. Supervised
      BY <1>11 DEF Remote, Supervised
    <3>2. c = 0 /\ (r = 2 => Elevated)
      BY <1>1, <3>1 DEF Told
    <3>3. r = 2
      <4>1. h > p /\ (r = 0 => h <= p + 0)
        BY <1>6, <2>5, <3>2
      <4> QED
        BY <2>6, <4>1
    <3>4. T = Failed("refused")
      BY <2>1, <2>4, <2>7, <3>2, <3>3
    <3> QED
      BY <1>8, <3>4 DEF Failed
  <2>9. Found(own, Sentinel)
    <3>1. h > p + 2 /\ Len(own) = h - 1
      BY <2>5, <2>8
    <3>2. Len(own) >= p + 2
      BY <2>6, <3>1
    <3> QED
      BY <2>7, <2>8, <3>2
  <2>10. T.err = PastSentinel(own) /\ T.code = G[h + 1]
    BY <2>1, <2>4, <2>9
  <2>11. Len(own) <= p + 2 + c
    <3>1. h <= p + s + c + m + 1 /\ Len(own) = h - 1
      <4>1. (r = 0 => h <= p + s + c + m) /\ (r = 2 => h <= p + s + c + m + 1) /\ Len(own) = h - 1
        BY <2>5
      <4> QED
        BY <2>6, <4>1
    <3> QED
      BY <1>6, <2>6, <2>8, <3>1
  <2>12. m = 0 /\ Len(own) <= p + 2 + c =>
             /\ Len(PastSentinel(own)) \in Nat /\ Len(PastSentinel(own)) <= Len(cmdErr)
             /\ Len(own) = p + 2 + c /\ c = Len(cmdErr) => PastSentinel(own) = cmdErr
    <3>1. own \in Seq(Tokens) /\ Starts(own, G)
      BY <2>5
    <3>2. LeftSaid(own, cmdErr, p, c, m)
      BY <1>w, <2>9, <3>1, LeftOf
    <3> QED
      BY <3>2 DEF LeftSaid
  <2>13. CASE G[h + 1] = "L2"
    BY <1>d, <1>6, <1>11, <2>10, <2>11, <2>12, <2>13
  <2>14. CASE G[h + 1] = "R2"
    <3>1. r = 2 /\ h = p + s + c + m + 1 /\ Len(own) = h - 1
      BY <2>5, <2>14
    <3>2. Len(own) = p + 2 + c
      BY <1>6, <2>8, <3>1
    <3>3. c = Len(cmdErr) /\ gotOut = cmdOut /\ sub = "exited"
      BY <1>1, <1>6, <1>7, <2>8, <3>1 DEF Told
    <3>4. T.err = cmdErr
      BY <1>6, <2>10, <2>11, <2>12, <3>2, <3>3
    <3> QED
      BY <1>d, <1>4, <3>3, <3>4
  <2> QED
    BY <2>5, <2>13, <2>14
<1> QED
  BY <1>4, <1>9, <1>10, <1>11 DEF Supervised, Remote

\* A refusal means that nothing was started, and a connection that failed that
\* the wrapper's line did not come through.
LEMMA FailureIsReal ==
    ASSUME IInv, ended = "exited"
    PROVE  /\ Settle(gotErr).kind = "refused" => sub = "none"
           /\ Settle(gotErr).kind = "connection" => ~Found(gotErr, RcLine)
<1>1. PICK p \in Nat, c \in Nat, a \in Nat, s \in {0, 2}, m \in {0, 2}, r \in {0, 2}, x \in {0, 1} :
           Told(p, s, c, m, r, x) /\ Laid(Err, cmdErr, p, s, c, a, m, r, x)
  BY DEF IInv, Layout
<1>2. PICK G \in Seq(Tokens) : G = gotErr
  BY AllIsCaptured
<1>3. Laid(G, cmdErr, p, s, c, a, m, r, x) /\ (~Remote => Heard)
  BY <1>1, <1>2, AllIsCaptured
<1>4. /\ cmdErr \in Seq(Spoken) /\ Len(G) \in Nat /\ Types
      /\ mode \in {"direct", "sudo", "ssh", "sshsudo"}
  <2>1. cmdErr \in Seq(Spoken) /\ Types
    BY DEF IInv, Types
  <2> QED
    BY <2>1, LenProperties, GivenFacts
<1>5. Starts(G, G) /\ Fits(G, cmdErr, p, s, c, a, m, r, x)
  BY <1>3, <1>4 DEF Starts, Fits
<1>6. Len(G) = p + s + c + m + r + x
  BY <1>3 DEF Laid
<1>d. PICK T : T = Settle(G) /\ T = Settle(gotErr)
  BY <1>2
<1>7. CASE ~Supervised
  <2>1. T = [kind |-> "ok", err |-> G, code |-> "R2"]
    BY <1>4, <1>7, <1>d, SettleIs
  <2> QED
    BY <1>d, <2>1
<1>8. CASE mode = "sudo"
  <2>1. /\ Found(G, Sentinel) => T = [kind |-> "ok", err |-> PastSentinel(G), code |-> "R2"]
        /\ ~Found(G, Sentinel) => T = Failed("refused")
    BY <1>4, <1>8, <1>d, SettleIs
  <2>2. ASSUME ~Found(G, Sentinel) PROVE sub = "none"
    <3>1. Parted(G, p, s)
      BY <1>5, TailOf
    <3>2. ~(s = 2 /\ Len(G) >= p + 2)
      BY <2>2, <3>1 DEF Parted
    <3>3. s = 0
      BY <1>6, <3>2
    <3>4. ~Remote /\ Supervised
      BY <1>8 DEF Remote, Supervised
    <3> QED
      BY <1>1, <1>3, <3>3, <3>4 DEF Told
  <2> QED
    BY <1>d, <2>1, <2>2 DEF Failed
<1>9. CASE Remote
  <2>1. PICK h, own :
          /\ h = RcAt(G) /\ own = SubSeq(G, 1, h - 1)
          /\ h = 0 => T = Failed("connection")
          /\ h # 0 /\ Found(own, Sentinel) =>
               T = [kind |-> "ok", err |-> PastSentinel(own), code |-> G[h + 1]]
          /\ h # 0 /\ ~Found(own, Sentinel) /\ Elevated => T = Failed("refused")
          /\ h # 0 /\ ~Found(own, Sentinel) /\ ~Elevated =>
               T = [kind |-> "ok", err |-> own, code |-> G[h + 1]]
    <3>1. Remote => \E h, own :
                /\ h = RcAt(G) /\ own = SubSeq(G, 1, h - 1)
                /\ h = 0 => T = Failed("connection")
                /\ h # 0 /\ Found(own, Sentinel) =>
                     T = [kind |-> "ok", err |-> PastSentinel(own), code |-> G[h + 1]]
                /\ h # 0 /\ ~Found(own, Sentinel) /\ Elevated => T = Failed("refused")
                /\ h # 0 /\ ~Found(own, Sentinel) /\ ~Elevated =>
                     T = [kind |-> "ok", err |-> own, code |-> G[h + 1]]
      BY <1>4, <1>d, SettleIs
    <3> QED
      BY <1>9, <3>1, Zenon
  <2>2. CASE h = 0
    <3>1. T.kind = "connection"
      BY <2>1, <2>2 DEF Failed
    <3>2. ASSUME Found(G, RcLine) PROVE FALSE
      <4>1. Found(G, RcLine) <=>
              \E i \in 1..(Len(G) - 1) : G[i] = RcLine[1] /\ G[i + 1] = RcLine[2]
        BY FoundAt, Words, Zenon
      <4>2. \E i \in 1..(Len(G) - 1) : G[i] = "R1" /\ G[i + 1] = "R2"
        BY <3>2, <4>1, Words, Zenon
      <4>3. PICK i \in 1..(Len(G) - 1) : G[i] = "R1" /\ G[i + 1] = "R2"
        BY <4>2
      <4>4. PICK k \in 1..Len(G) : k > i /\ G[k] = "R1"
        BY <2>1, <2>2, <4>3, RcFacts
      <4>5. ASSUME NEW j \in 1..Len(G)
            PROVE  /\ G[j] = "R2" => r = 2 /\ j = p + s + c + m + 2
                   /\ G[j] = "R1" /\ r = 2 => j <= p + s + c + m + 1
        BY <1>3, <1>4, Zones, SMTT(30)
      <4>6. i + 1 \in 1..Len(G)
        BY <1>4
      <4>7. r = 2 /\ i + 1 = p + s + c + m + 2
        BY <4>3, <4>5, <4>6
      <4>8. k <= p + s + c + m + 1
        BY <4>4, <4>5, <4>7
      <4> QED
        BY <1>4, <4>4, <4>7, <4>8
    <3> QED
      BY <1>2, <1>d, <3>1, <3>2
  <2>3. CASE h # 0
    <3>1. RcAt(G) # 0
      BY <2>1, <2>3
    <3>2. Cut(G, G, p, s, c, m, r)
      BY <1>5, <3>1, OwnOf
    <3>3. /\ h \in Nat /\ own \in Seq(Tokens) /\ Len(own) = h - 1 /\ Starts(own, G) /\ h > p + s
          /\ r = 0 => h <= p + s + c + m
      BY <2>1, <3>2, Zenon DEF Cut
    <3>4. T.kind # "connection"
      BY <2>1, <2>3 DEF Failed
    <3>5. ASSUME T.kind = "refused" PROVE sub = "none"
      <4>1. ~Found(own, Sentinel)
        BY <2>1, <2>3, <3>5
      <4>2. Parted(own, p, s)
        BY <1>5, <3>3, TailOf
      <4>3. ~(s = 2 /\ Len(own) >= p + 2)
        BY <4>1, <4>2 DEF Parted
      <4>4. h \in Nat /\ Len(own) = h - 1 /\ h > p + s /\ (r = 0 => h <= p + s + c + m)
        BY <3>3
      <4>5. s = 0
        BY <4>3, <4>4
      <4>6. Supervised
        BY <1>9 DEF Remote, Supervised
      <4>7. c = 0 /\ m = 0
        BY <1>1, <4>5, <4>6 DEF Told
      <4>8. r = 2
        BY <4>4, <4>5, <4>7
      <4> QED
        BY <1>1, <4>5, <4>8 DEF Told
    <3> QED
      BY <1>d, <3>4, <3>5
  <2> QED
    BY <2>2, <2>3
<1> QED
  BY <1>4, <1>7, <1>8, <1>9 DEF Supervised, Remote

\* A run given up for what its transport wrote never settles: nothing of the
\* command came through.
LEMMA AbandonedFails ==
    ASSUME IInv, ended = "abandoned"
    PROVE  Settle(gotErr).kind # "ok"
<1>1. PICK p \in Nat, c \in Nat, a \in Nat, s \in {0, 2}, m \in {0, 2}, r \in {0, 2}, x \in {0, 1} :
           Told(p, s, c, m, r, x) /\ Laid(Err, cmdErr, p, s, c, a, m, r, x)
  BY DEF IInv, Layout
<1>2. /\ gotErr \in Seq(Tokens) /\ errPipe \in Seq(Tokens) /\ cmdErr \in Seq(Spoken) /\ Types
      /\ Supervised /\ ~Found(gotErr, Sentinel)
  BY DEF IInv, Types, Judged
<1>3. PICK G \in Seq(Tokens), E \in Seq(Tokens) : G = gotErr /\ E = Err
  BY <1>2, ConcatProperties DEF Err
<1>4. Len(G) \in Nat /\ Starts(G, E)
  <2>1. Len(G) \in Nat /\ Len(errPipe) \in Nat /\ Len(E) = Len(G) + Len(errPipe) /\ Len(E) \in Nat
    BY <1>2, <1>3, LenProperties, ConcatProperties DEF Err
  <2>2. Len(G) <= Len(E)
    BY <2>1
  <2>3. \A i \in 1..Len(G) : G[i] = E[i]
    BY <1>2, <1>3, <2>1, ConcatProperties DEF Err
  <2> QED
    BY <2>1, <2>2, <2>3 DEF Starts
<1>5. Fits(E, cmdErr, p, s, c, a, m, r, x)
  BY <1>1, <1>2, <1>3 DEF Fits
<1>6. ~(s = 2 /\ Len(G) >= p + 2)
  <2>1. Parted(G, p, s)
    BY <1>4, <1>5, TailOf
  <2> QED
    BY <1>2, <1>3, <2>1 DEF Parted
<1>d. PICK T : T = Settle(G) /\ T = Settle(gotErr)
  BY <1>3
<1>7. CASE mode = "sudo"
  <2>1. ~Found(G, Sentinel) => T = Failed("refused")
    BY <1>2, <1>7, <1>d, SettleIs
  <2> QED
    BY <1>2, <1>3, <1>d, <2>1 DEF Failed
<1>8. CASE Remote
  <2>1. PICK h, own :
          /\ h = RcAt(G) /\ own = SubSeq(G, 1, h - 1)
          /\ h = 0 => T = Failed("connection")
          /\ h # 0 /\ ~Found(own, Sentinel) /\ Elevated => T = Failed("refused")
    <3>1. Remote => \E h, own :
                /\ h = RcAt(G) /\ own = SubSeq(G, 1, h - 1)
                /\ h = 0 => T = Failed("connection")
                /\ h # 0 /\ Found(own, Sentinel) =>
                     T = [kind |-> "ok", err |-> PastSentinel(own), code |-> G[h + 1]]
                /\ h # 0 /\ ~Found(own, Sentinel) /\ Elevated => T = Failed("refused")
                /\ h # 0 /\ ~Found(own, Sentinel) /\ ~Elevated =>
                     T = [kind |-> "ok", err |-> own, code |-> G[h + 1]]
      BY <1>2, <1>d, SettleIs
    <3> QED
      BY <1>8, <3>1, Zenon
  <2>2. CASE h = 0
    BY <1>d, <2>1, <2>2 DEF Failed
  <2>3. CASE h # 0
    <3>1. RcAt(G) # 0
      BY <2>1, <2>3
    <3>2. Cut(G, E, p, s, c, m, r)
      BY <1>4, <1>5, <3>1, OwnOf
    <3>3. /\ h \in Nat /\ own \in Seq(Tokens) /\ Len(own) = h - 1 /\ Starts(own, E) /\ h > p + s
          /\ r = 0 => h <= p + s + c + m
      BY <2>1, <3>2, Zenon DEF Cut
    <3>4. h \in 1..(Len(G) - 1)
      BY <2>1, <2>3, RcFacts
    <3>5. s = 0
      <4>1. h > p + s /\ h \in Nat
        BY <3>3
      <4> QED
        BY <1>4, <1>6, <3>4, <4>1
    <3>6. c = 0 /\ m = 0 /\ (r = 2 => Elevated)
      BY <1>1, <1>2, <3>5 DEF Told
    <3>7. r = 2
      <4>1. h \in Nat /\ h > p + s /\ (r = 0 => h <= p + s + c + m)
        BY <3>3
      <4> QED
        BY <3>5, <3>6, <4>1
    <3>8. ~Found(own, Sentinel)
      <4>1. Parted(own, p, s)
        BY <1>5, <3>3, TailOf
      <4> QED
        BY <3>5, <4>1 DEF Parted
    <3> QED
      BY <1>d, <2>1, <2>3, <3>6, <3>7, <3>8 DEF Failed
  <2> QED
    BY <2>2, <2>3
<1> QED
  BY <1>2, <1>7, <1>8, GivenFacts DEF Supervised, Remote

\* Settle fails in two ways.
LEMMA SettleKinds ==
    ASSUME NEW G PROVE Settle(G).kind \in {"ok", "refused", "connection"}
BY DEF Settle, Failed

\* A result is what happened, on every transport and under every limit: an
\* output is the command's, whole and alone; a limit that is reported passed was;
\* a refusal of sudo means that nothing ran.
THEOREM ResultSafety == Spec => []ResultIsReal
<1>1. ASSUME IInv PROVE ResultIsReal
  <2> USE <1>1
  <2>1. result = IF pc = "returned" THEN Finish(ended, gotOut, gotErr) ELSE Failed("none")
    BY DEF IInv, Engaged
  <2>2. /\ gotOut \in Nat /\ outPipe \in Nat /\ cmdOut \in Nat /\ Len(cmdErr) \in Nat
        /\ MaxStdout \in Nat /\ MaxStderr \in Nat /\ gotOut + outPipe <= cmdOut
        /\ ended \in {"none", "exited", "abandoned", "breachout", "breacherr", "timeout", "spawn"}
    BY BoundedRunAssumption, LenProperties DEF IInv, Types, Judged
  <2>3. gotOut <= cmdOut
    BY <2>2
  <2>4. CASE pc # "returned"
    BY <2>1, <2>4 DEF ResultIsReal, Failed
  <2>5. CASE pc = "returned" /\ ended \in {"breachout", "breacherr", "timeout", "spawn"}
    <3>1. result = Failed(ended)
      BY <2>1, <2>5 DEF Finish
    <3>2. result.kind = ended
      BY <3>1 DEF Failed
    <3>3. /\ ended = "breachout" => cmdOut > MaxStdout
          /\ ended = "breacherr" => Len(cmdErr) > MaxStderr \/ stalled \/ dropped
      BY DEF IInv, Judged, Excused
    <3> QED
      BY <2>5, <3>2, <3>3 DEF ResultIsReal
  <2>6. CASE pc = "returned" /\ ended \in {"exited", "abandoned"}
    <3>1. result = Finish(ended, gotOut, gotErr)
      BY <2>1, <2>6
    <3>2. \/ Supervised /\ Found(gotErr, Marker) /\ result = Failed("timeout")
          \/ /\ ~(Supervised /\ Found(gotErr, Marker))
             /\ \/ Settle(gotErr).kind # "ok" /\ result = Settle(gotErr)
                \/ Settle(gotErr).kind = "ok" /\ gotOut > MaxStdout /\ result = Failed("breachout")
                \/ /\ Settle(gotErr).kind = "ok" /\ Len(Settle(gotErr).err) > MaxStderr
                   /\ result = Failed("breacherr")
                \/ /\ Settle(gotErr).kind = "ok" /\ ~(gotOut > MaxStdout)
                   /\ ~(Len(Settle(gotErr).err) > MaxStderr) /\ result = Settle(gotErr)
      BY <2>6, <3>1, FinishIs
    <3>3. CASE result = Failed("timeout")
      BY <3>3 DEF ResultIsReal, Failed
    <3>4. CASE Settle(gotErr).kind # "ok" /\ result = Settle(gotErr)
      <4>1. Settle(gotErr).kind \in {"refused", "connection"}
        BY <3>4, SettleKinds
      <4> QED
        BY <3>4, <4>1, FailureIsReal DEF ResultIsReal
    <3>5. CASE Settle(gotErr).kind = "ok" /\ gotOut > MaxStdout /\ result = Failed("breachout")
      <4>1. cmdOut > MaxStdout
        BY <2>2, <2>3, <3>5
      <4> QED
        BY <3>5, <4>1 DEF ResultIsReal, Failed
    <3>6. CASE /\ ~(Supervised /\ Found(gotErr, Marker)) /\ Settle(gotErr).kind = "ok"
               /\ Len(Settle(gotErr).err) > MaxStderr /\ result = Failed("breacherr")
      <4>1. ended = "exited"
        BY <2>6, <3>6, AbandonedFails
      <4>2. Len(Settle(gotErr).err) \in Nat /\ Len(Settle(gotErr).err) <= Len(cmdErr)
        BY <3>6, <4>1, SettledIsTheCommands
      <4>3. Len(cmdErr) > MaxStderr
        <5>1. Len(Settle(gotErr).err) > MaxStderr
          BY <3>6
        <5> QED
          BY <2>2, <4>2, <5>1
      <4> QED
        BY <3>6, <4>3 DEF ResultIsReal, Failed
    <3>7. CASE /\ ~(Supervised /\ Found(gotErr, Marker)) /\ Settle(gotErr).kind = "ok"
               /\ ~(gotOut > MaxStdout) /\ ~(Len(Settle(gotErr).err) > MaxStderr)
               /\ result = Settle(gotErr)
      <4>1. ended = "exited"
        BY <2>6, <3>7, AbandonedFails
      <4>2. \/ sub = "exited" /\ gotOut = cmdOut /\ Settle(gotErr).err = cmdErr
            \/ Remote /\ Settle(gotErr).code = "L2"
        BY <3>7, <4>1, SettledIsTheCommands
      <4>3. CASE sub = "exited" /\ gotOut = cmdOut /\ Settle(gotErr).err = cmdErr
        <5>1. cmdOut <= MaxStdout /\ Len(cmdErr) <= MaxStderr
          BY <2>2, <3>7, <4>3
        <5> QED
          BY <3>7, <4>1, <4>3, <5>1 DEF ResultIsReal
      <4>4. CASE Remote /\ Settle(gotErr).code = "L2"
        BY <3>7, <4>1, <4>4 DEF ResultIsReal
      <4> QED
        BY <4>2, <4>3, <4>4
    <3> QED
      BY <3>2, <3>3, <3>4, <3>5, <3>6, <3>7
  <2>7. pc = "returned" => ended # "none"
    BY DEF IInv, Engaged
  <2> QED
    BY <2>2, <2>4, <2>5, <2>6, <2>7
<1> QED
  BY <1>1, Invariance, PTL
=============================================================================
