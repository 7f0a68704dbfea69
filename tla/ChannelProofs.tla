---------------------------- MODULE ChannelProofs ----------------------------
(***************************************************************************)
(* What Channel promises the caller of a channel, proved for every         *)
(* transport, every size of a pipe and of what is kept, and every command. *)
(***************************************************************************)
EXTENDS Channel, SequenceTheorems, TLAPS

InTokens == {"p", "q", "H", "b1", "b2", "b3"}
Spoken == {"c", "nl", "M", "0", "1"}
ErrTokens == Spoken \cup {"t", "s", "S"}
Unstarted == {"none", "sudo", "announce", "announced"}
OpeningPcs == {"spawn", "settle", "handoff", "assemble", "refuse"}
OpenPcs == {"open", "wait", "grace", "join", "shutdown"}
Sinks == [kept : Seq(ErrTokens), truncated : BOOLEAN, hold : Nat, held : Seq(ErrTokens),
          code : {"none", "0", "1"}, ended : BOOLEAN]
StatusLine(code) == <<"nl", "M", code, "nl">>

\* What every variable holds.
Types ==
    /\ case \in Cases /\ killable \in BOOLEAN
    /\ pc \in OpeningPcs \cup OpenPcs \cup {"ended"}
    /\ result \in {"none", "spawn", "timeout", "refused", "killed", "exit", "unknown"}
    /\ fed \in Nat /\ sent \in Nat /\ sent <= case.input
    /\ inEnd \in {"channel", "caller", "closed"}
    /\ stdin \in Seq(InTokens) /\ line \in Seq(InTokens) /\ got \in Seq(InTokens)
    /\ read \in Seq(ErrTokens) /\ err \in Seq(ErrTokens)
    /\ cmdErr \in Seq(Spoken) /\ tail \in Seq(Spoken)
    /\ proc \in Unstarted \cup {"discard", "command", "wrapper", "gone"}
    /\ rc \in {"none", "0", "1"} /\ kid \in {"gone", "holds"}
    /\ up \in BOOLEAN /\ reaped \in BOOLEAN /\ status \in {"0", "1", "255", "killed"}
    /\ drain \in {"none", "poll", "done", "failed"} /\ wake \in BOOLEAN
    /\ drain \in {"none", "poll"} => sink \in Sinks /\ Len(sink.kept) <= MaxStderr

\* The call is one of wait's, and nothing has gone wrong with it.
Waited == pc \in {"handoff", "assemble", "open", "wait", "grace"} \/ (pc = "join" /\ result = "none")

\* Where the caller's thread, the processes and the drain are, and what that
\* says of one another.
Placed ==
    /\ proc = "none" <=> pc = "spawn"
    /\ pc \in OpeningPcs => drain = "none" /\ inEnd = "channel"
    /\ pc \in OpenPcs => drain # "none"
    /\ pc \in {"settle", "handoff"} => case.mode # "direct" /\ proc \notin {"command", "wrapper"}
    /\ pc \in OpenPcs \cup {"handoff", "assemble"} => proc \notin Unstarted
    /\ case.mode = "direct" => proc \in {"none", "command", "gone"}
    /\ ~Remote => proc # "wrapper"
    /\ proc \in {"none", "gone"} => ~up
    /\ ~up => proc \in {"none", "gone"} \/ (proc = "command" /\ case.mode = "sudo")
    /\ proc = "wrapper" => rc # "none"
    /\ rc # "none" => proc \in {"wrapper", "gone"}
    /\ Waited /\ ~Remote /\ ~up => rc # "none" /\ status = rc
    /\ Remote /\ ~up /\ status = "0" /\ pc # "spawn" /\ (pc # "ended" \/ drain # "none") =>
         rc # "none" /\ tail = <<>>
    /\ Waited \/ pc \in {"spawn", "settle"} => result = "none"
    /\ wake <=> pc = "join" \/ (pc = "ended" /\ drain # "none")
    /\ pc = "grace" \/ (pc = "join" /\ result = "none") => reaped /\ ~up
    /\ pc \in {"join", "ended"} /\ ~reaped => ~killable /\ result \notin {"none", "exit"}
    /\ pc = "ended" => drain # "poll" /\ result # "none"
    /\ drain = "done" /\ result \in {"none", "exit"} => ~up
    /\ result = "exit" =>
         /\ pc = "ended" /\ drain = "done" /\ rc # "none" /\ ~up
         /\ IF Remote THEN sink.code # "none" /\ status = "0" ELSE status = rc

\* What the wrapper still has to print is an end of its line.
Lined ==
    /\ rc = "none" \/ ~Remote => tail = <<>>
    /\ Remote /\ rc # "none" =>
         /\ Len(tail) <= 4
         /\ \A i \in 1..Len(tail) : tail[i] = StatusLine(rc)[4 - Len(tail) + i]

\* The password line from its k-th token on, the handoff line, and what the
\* caller wrote, are what waits in standard input.
Awaits(k, h) ==
    /\ Len(stdin) = fed - k + h + sent
    /\ \A i \in 1..(fed - k) : stdin[i] = PasswordLine[k + i]
    /\ h = 1 => stdin[fed - k + 1] = "H"
    /\ \A i \in 1..sent : stdin[fed - k + h + i] = CallerBytes[i]

\* What waits is the line from its k-th token on, k its start or its end unless
\* sudo or the script is in the middle of it, and h says the handoff is there.
Queued(k, h) ==
    /\ Awaits(k, h)
    /\ (proc = "discard" /\ pc \in {"assemble"} \cup OpenPcs) \/ inEnd = "caller" => h = 1
    /\ h = 1 => Full /\ proc = "discard" /\ pc \notin {"spawn", "settle", "handoff"}
    /\ h = 0 => sent = 0
    /\ IF proc = "sudo" THEN line = <<>> /\ (asks = "cached" => k = 0)
       ELSE IF line = <<>> THEN k \in {0, Len(PasswordLine)}
       ELSE k = 1 /\ Len(PasswordLine) = 2 /\ proc = "discard"

\* Who has taken what from standard input.
Fed ==
    /\ fed <= Len(PasswordLine)
    /\ proc = "none" => fed = 0 /\ sent = 0 /\ stdin = <<>> /\ line = <<>>
    /\ proc \in Unstarted \cup {"discard"} =>
         got = <<>> /\ \E k \in 0..fed, h \in {0, 1} : Queued(k, h)
    /\ pc = "handoff" => Full
    /\ proc = "command" =>
         /\ Len(got) + Len(stdin) = sent
         /\ \A i \in 1..Len(stdin) : stdin[i] = CallerBytes[Len(got) + i]
    /\ Len(got) <= sent /\ \A i \in 1..Len(got) : got[i] = CallerBytes[i]

\* What of the wrapper's line is on its way.
Reported == IF Remote /\ rc # "none" THEN 4 - Len(tail) ELSE 0

\* The command's side of standard error: n bytes, the line, and what a
\* descendant still wrote behind it.
Stream(n) ==
    [i \in 1..(Len(cmdErr) + Reported) |->
        IF i <= n THEN cmdErr[i]
        ELSE IF i <= n + Reported THEN StatusLine(rc)[i - n] ELSE cmdErr[i - Reported]]
Parts(n) ==
    /\ n \in 0..Len(cmdErr)
    /\ Reported < 4 => n = Len(cmdErr)
    /\ \A i \in (n + 1)..Len(cmdErr) : cmdErr[i] = "c"

\* The sentinel ends at z; a command run directly has none.
Sentinel(mode, E, z) ==
    IF mode = "direct" THEN z = 0
    ELSE /\ z \in 2..Len(E) /\ E[z - 1] = "s" /\ E[z] = "S"
         /\ \A i \in 1..(z - 1) : E[i] # "S"

\* E ends with T.
EndsIn(E, z, T) == Len(E) = z + Len(T) /\ \A i \in 1..Len(T) : E[z + i] = T[i]

\* The sink was given the first q tokens of E.
Keeps(k, E, q) ==
    LET m == q - Len(k.held)
    IN /\ m \in Nat /\ q <= Len(E)
       /\ \A i \in 1..Len(k.held) : k.held[i] = E[m + i]
       /\ Len(k.held) = (IF q < k.hold THEN q ELSE k.hold)
       /\ Len(k.kept) = (IF m < MaxStderr THEN m ELSE MaxStderr)
       /\ \A i \in 1..Len(k.kept) : k.kept[i] = E[i]
       /\ k.truncated = (m > MaxStderr)

\* Standard error ahead of the drain.
Unread(n) ==
    \/ /\ proc \in Unstarted \cup {"gone"} /\ pc \notin {"handoff", "assemble"}
       /\ cmdErr = <<>> /\ rc = "none" /\ (case.mode = "direct" => proc = "none")
       /\ \A i \in 1..Len(read \o err) : (read \o err)[i] # "S"
       /\ proc = "none" => read = <<>> /\ err = <<>>
       /\ proc = "announced" => Len(read \o err) > 0 /\ (read \o err)[Len(read \o err)] = "s"
    \/ /\ proc \notin Unstarted
       /\ \E z \in 0..Len(read \o err) :
            /\ Sentinel(case.mode, read \o err, z) /\ EndsIn(read \o err, z, Stream(n))
            /\ pc \in {"handoff", "assemble"} => z <= Len(read)
       /\ pc = "settle" /\ ~Remote => up
       /\ case.mode = "direct" => read = <<>>

\* Standard error behind the drain, and the whole of the wrapper's line with
\* it once the drain is told to stop.
Drained(n) ==
    /\ sink.hold = IF Remote THEN StatusHold ELSE 0
    /\ \E q \in Nat : /\ EndsIn(Stream(n), q, err) /\ Keeps(sink, Stream(n), q)
                      /\ wake /\ result = "none" /\ Remote /\ status = "0" => q >= n + 4

Layout ==
    \E n \in 0..Len(cmdErr) :
        /\ Parts(n)
        /\ drain = "none" /\ pc # "ended" => Unread(n)
        /\ drain = "poll" => Drained(n)

\* The sentinel was found in what was read before the start was handed off.
Started ==
    pc \in {"handoff", "assemble"} /\ case.mode # "direct" => Announcement(read).is = "started"

\* What a drain that finished has caught.
Caught ==
    drain = "done" /\ result \in {"none", "exit"} /\ (Remote => sink.code # "none" /\ status = "0") =>
        /\ Remote => sink.code = rc
        /\ sink.kept \in Seq(ErrTokens) /\ IsPrefix(sink.kept, cmdErr)
        /\ sink.ended /\ ~sink.truncated => sink.kept = cmdErr
        /\ sink.ended => kid = "gone" /\ proc # "command"

IInv == Types /\ Placed /\ Lined /\ Fed /\ Layout /\ Started /\ Caught
-----------------------------------------------------------------------------
(* The case and sequences.                                                 *)

\* What a case says.
LEMMA CaseFacts ==
    ASSUME case \in Cases
    PROVE  /\ case.mode \in {"direct", "sudo", "ssh", "sshsudo"} /\ case.password \in BOOLEAN
           /\ case.input \in 0..3 /\ case.words \in SUBSET Seq(Spoken)
           /\ case.kids \in SUBSET {"gone", "holds"} /\ case.killable \in SUBSET BOOLEAN
BY ChannelAssumption DEF CaseType, Spoken

\* Short sequences are sequences.
LEMMA Short ==
    ASSUME NEW T, NEW a \in T
    PROVE  /\ <<>> \in Seq(T) /\ <<a>> \in Seq(T) /\ Len(<<a>>) = 1 /\ <<a>>[1] = a
OBVIOUS

\* The wrapper's line.
LEMMA LineIs ==
    ASSUME NEW code \in {"0", "1"}
    PROVE  /\ StatusLine(code) \in Seq(Spoken) /\ Len(StatusLine(code)) = 4
           /\ StatusLine(code)[1] = "nl" /\ StatusLine(code)[2] = "M"
           /\ StatusLine(code)[3] = code /\ StatusLine(code)[4] = "nl"
BY DEF StatusLine, Spoken

\* The password line.
LEMMA PasswordIs ==
    ASSUME case \in Cases
    PROVE  /\ PasswordLine \in Seq(InTokens) /\ Len(PasswordLine) \in {0, 2}
           /\ Len(PasswordLine) = 2 <=> case.password
           /\ case.password => PasswordLine[1] = "p" /\ PasswordLine[2] = "q"
<1>1. <<"p", "q">> \in Seq(InTokens) /\ <<>> \in Seq(InTokens)
  BY DEF InTokens
<1>2. case.password \in BOOLEAN
  BY CaseFacts
<1> QED
  BY <1>1, <1>2 DEF PasswordLine

LEMMA BytesAre ==
    /\ CallerBytes \in Seq(InTokens) /\ Len(CallerBytes) = 3
    /\ \A i \in 1..3 : CallerBytes[i] \in {"b1", "b2", "b3"}
<1>1. CallerBytes[1] = "b1" /\ CallerBytes[2] = "b2" /\ CallerBytes[3] = "b3" /\ Len(CallerBytes) = 3
  BY DEF CallerBytes
<1>2. CallerBytes \in Seq(InTokens)
  BY DEF CallerBytes, InTokens
<1> QED
  BY <1>1, <1>2

\* A sequence over fewer tokens is one over more.
LEMMA WiderSeq == ASSUME NEW S, NEW T, S \subseteq T, NEW q \in Seq(S) PROVE q \in Seq(T)
OBVIOUS

\* A read takes the front of a pipe and leaves the rest.
LEMMA Split ==
    ASSUME NEW T, NEW b \in Seq(T), NEW n \in 0..Len(b)
    PROVE  /\ SubSeq(b, 1, n) \in Seq(T) /\ Len(SubSeq(b, 1, n)) = n
           /\ \A i \in 1..n : SubSeq(b, 1, n)[i] = b[i]
           /\ SubSeq(b, n + 1, Len(b)) \in Seq(T) /\ Len(SubSeq(b, n + 1, Len(b))) = Len(b) - n
           /\ \A i \in 1..(Len(b) - n) : SubSeq(b, n + 1, Len(b))[i] = b[n + i]
BY SubSeqProperties, SMTT(30)

\* A write goes behind what is there.
LEMMA Longer ==
    ASSUME NEW T, NEW E \in Seq(T), NEW w \in Seq(T)
    PROVE  /\ E \o w \in Seq(T) /\ Len(E \o w) = Len(E) + Len(w) /\ Len(E) \in Nat /\ Len(w) \in Nat
           /\ \A i \in 1..Len(E) : (E \o w)[i] = E[i]
           /\ \A j \in 1..Len(w) : (E \o w)[Len(E) + j] = w[j]
<1>1. Len(E) \in Nat /\ Len(w) \in Nat
  BY LenProperties
<1>2. /\ E \o w \in Seq(T) /\ Len(E \o w) = Len(E) + Len(w)
      /\ \A i \in 1..(Len(E) + Len(w)) :
           (E \o w)[i] = IF i <= Len(E) THEN E[i] ELSE w[i - Len(E)]
  BY ConcatProperties
<1>3. ASSUME NEW j \in 1..Len(w) PROVE (E \o w)[Len(E) + j] = w[j]
  <2>1. /\ Len(E) + j \in 1..(Len(E) + Len(w)) /\ ~(Len(E) + j <= Len(E))
        /\ Len(E) + j - Len(E) = j
    BY <1>1
  <2> QED
    BY <1>2, <2>1
<1> QED
  BY <1>1, <1>2, <1>3

\* Taking the first token of a pipe.
LEMMA TailIs ==
    ASSUME NEW T, NEW a \in Seq(T), a # <<>>
    PROVE  /\ Tail(a) \in Seq(T) /\ Head(a) \in T /\ Head(a) = a[1]
           /\ Len(a) \in Nat \ {0} /\ Len(Tail(a)) = Len(a) - 1
           /\ \A i \in 1..(Len(a) - 1) : Tail(a)[i] = a[i + 1]
BY HeadTailProperties, LenProperties, EmptySeq

\* Adding one token.
LEMMA AppendIs ==
    ASSUME NEW T, NEW a \in Seq(T), NEW t \in T
    PROVE  /\ Append(a, t) \in Seq(T) /\ Len(Append(a, t)) = Len(a) + 1 /\ Len(a) \in Nat
           /\ \A i \in 1..Len(a) : Append(a, t)[i] = a[i]
           /\ Append(a, t)[Len(a) + 1] = t
BY AppendProperties, LenProperties
-----------------------------------------------------------------------------
(* Types.                                                                  *)

\* Keeping bytes keeps a front of them, as far as there is room.
LEMMA KeepIs ==
    ASSUME NEW k \in Sinks, NEW b \in Seq(ErrTokens), Len(k.kept) <= MaxStderr
    PROVE  LET room == MaxStderr - Len(k.kept)
               n == IF Len(b) < room THEN Len(b) ELSE room
           IN /\ KeepBytes(k, b) \in Sinks /\ n \in 0..Len(b) /\ room \in Nat
              /\ KeepBytes(k, b).kept = k.kept \o SubSeq(b, 1, n)
              /\ KeepBytes(k, b).truncated = (k.truncated \/ n < Len(b))
              /\ KeepBytes(k, b).hold = k.hold /\ KeepBytes(k, b).held = k.held
              /\ KeepBytes(k, b).code = k.code /\ KeepBytes(k, b).ended = k.ended
<1> DEFINE room == MaxStderr - Len(k.kept)
           n == IF Len(b) < room THEN Len(b) ELSE room
<1>1. Len(b) \in Nat /\ Len(k.kept) \in Nat /\ MaxStderr \in Nat /\ k.kept \in Seq(ErrTokens)
  BY LenProperties, ChannelAssumption DEF Sinks
<1>2. n \in 0..Len(b) /\ room \in Nat
  BY <1>1
<1>3. KeepBytes(k, b) = [k EXCEPT !.kept = k.kept \o SubSeq(b, 1, n), !.truncated = k.truncated \/ n < Len(b)]
  BY Zenon DEF KeepBytes
<1> HIDE DEF n, room
<1>4. SubSeq(b, 1, n) \in Seq(ErrTokens)
  BY <1>2, Split
<1>5. k.kept \o SubSeq(b, 1, n) \in Seq(ErrTokens)
  BY <1>1, <1>4, ConcatProperties
<1>6. (k.truncated \/ n < Len(b)) \in BOOLEAN
  OBVIOUS
<1>7. k = [kept |-> k.kept, truncated |-> k.truncated, hold |-> k.hold, held |-> k.held,
           code |-> k.code, ended |-> k.ended]
  BY DEF Sinks
<1>8. /\ KeepBytes(k, b).kept = k.kept \o SubSeq(b, 1, n)
      /\ KeepBytes(k, b).truncated = (k.truncated \/ n < Len(b))
      /\ KeepBytes(k, b).hold = k.hold /\ KeepBytes(k, b).held = k.held
      /\ KeepBytes(k, b).code = k.code /\ KeepBytes(k, b).ended = k.ended
  BY <1>3 DEF Sinks
<1>9. KeepBytes(k, b) \in Sinks
  BY <1>3, <1>5, <1>6 DEF Sinks
<1> QED
  BY <1>2, <1>8, <1>9 DEF n, room

\* Over SSH the last tokens are held back.
LEMMA PushIs ==
    ASSUME NEW k \in Sinks, NEW b \in Seq(ErrTokens), Len(k.kept) <= MaxStderr
    PROVE  LET all == k.held \o b
               excess == IF Len(all) > k.hold THEN Len(all) - k.hold ELSE 0
               front == SubSeq(all, 1, excess)
           IN /\ all \in Seq(ErrTokens) /\ excess \in 0..Len(all) /\ front \in Seq(ErrTokens)
              /\ Push(k, b) \in Sinks /\ Push(k, b).hold = k.hold
              /\ k.hold = 0 => Push(k, b) = KeepBytes(k, b)
              /\ k.hold # 0 => /\ Push(k, b).held = SubSeq(all, excess + 1, Len(all))
                               /\ Push(k, b).kept = KeepBytes(k, front).kept
                               /\ Push(k, b).truncated = KeepBytes(k, front).truncated
<1> DEFINE all == k.held \o b
           excess == IF Len(all) > k.hold THEN Len(all) - k.hold ELSE 0
           front == SubSeq(all, 1, excess)
           back == SubSeq(all, excess + 1, Len(all))
           whole == KeepBytes(k, front)
<1>1. all \in Seq(ErrTokens) /\ Len(all) \in Nat /\ k.hold \in Nat
  BY ConcatProperties, LenProperties DEF Sinks
<1>2. Push(k, b) = IF k.hold = 0 THEN KeepBytes(k, b) ELSE [whole EXCEPT !.held = back]
  BY Zenon DEF Push
<1> HIDE DEF all
<1>3. excess \in 0..Len(all)
  BY <1>1
<1> HIDE DEF excess
<1>4. front \in Seq(ErrTokens) /\ back \in Seq(ErrTokens)
  BY <1>1, <1>3, Split
<1> HIDE DEF front, back
<1>5. whole \in Sinks /\ whole.hold = k.hold /\ KeepBytes(k, b) \in Sinks /\ KeepBytes(k, b).hold = k.hold
  BY <1>4, KeepIs
<1> HIDE DEF whole
<1>6. CASE k.hold = 0
  BY <1>1, <1>2, <1>3, <1>4, <1>5, <1>6 DEF all, excess, front
<1>7. CASE k.hold # 0
  <2>1. Push(k, b) = [whole EXCEPT !.held = back]
    BY <1>2, <1>7
  <2>2. /\ Push(k, b) \in Sinks /\ Push(k, b).hold = k.hold /\ Push(k, b).held = back
        /\ Push(k, b).kept = whole.kept /\ Push(k, b).truncated = whole.truncated
    BY <2>1, <1>4, <1>5 DEF Sinks
  <2> QED
    BY <1>1, <1>3, <1>4, <1>7, <2>2 DEF all, excess, front, back, whole
<1> QED
  BY <1>6, <1>7

\* What is kept stays within the limit.
LEMMA KeptFits ==
    ASSUME NEW k \in Sinks, NEW b \in Seq(ErrTokens), Len(k.kept) <= MaxStderr
    PROVE  Len(KeepBytes(k, b).kept) <= MaxStderr /\ Len(Push(k, b).kept) <= MaxStderr
<1>1. ASSUME NEW c \in Seq(ErrTokens) PROVE Len(KeepBytes(k, c).kept) <= MaxStderr
  <2> DEFINE room == MaxStderr - Len(k.kept)
             n == IF Len(c) < room THEN Len(c) ELSE room
  <2>1. /\ n \in 0..Len(c) /\ room \in Nat
        /\ KeepBytes(k, c).kept = k.kept \o SubSeq(c, 1, n)
    BY KeepIs
  <2>2. n <= room /\ Len(c) \in Nat /\ Len(k.kept) \in Nat /\ MaxStderr \in Nat /\ k.kept \in Seq(ErrTokens)
    BY <2>1, LenProperties, ChannelAssumption DEF Sinks
  <2> HIDE DEF n
  <2>3. SubSeq(c, 1, n) \in Seq(ErrTokens) /\ Len(SubSeq(c, 1, n)) = n
    BY <2>1, Split
  <2>4. Len(k.kept \o SubSeq(c, 1, n)) = Len(k.kept) + n
    BY <2>2, <2>3, ConcatProperties
  <2>5. Len(k.kept) + n <= MaxStderr
    BY <2>1, <2>2
  <2> HIDE DEF room
  <2> QED
    BY <2>1, <2>4, <2>5, Zenon
<1>2. k.hold = 0 => Push(k, b) = KeepBytes(k, b)
  BY PushIs
<1>3. k.hold # 0 => \E c \in Seq(ErrTokens) : Push(k, b).kept = KeepBytes(k, c).kept
  BY PushIs
<1> QED
  BY <1>1, <1>2, <1>3
-----------------------------------------------------------------------------
(* The sentinel.                                                           *)

Spots(s) == {i \in 1..(Len(s) - 1) : s[i] = "s" /\ s[i + 1] = "S"}

LEMMA FindIs ==
    ASSUME NEW s
    PROVE  FindSentinel(s) = IF Spots(s) = {} THEN 0
                             ELSE CHOOSE i \in Spots(s) : \A j \in Spots(s) : i <= j
BY DEF FindSentinel, Spots

\* The least of a set of numbers.
LEMMA LeastIs ==
    ASSUME NEW S \in SUBSET Int, NEW i \in S, \A j \in S : i <= j
    PROVE  (CHOOSE l \in S : \A j \in S : l <= j) = i
<1> DEFINE c == CHOOSE l \in S : \A j \in S : l <= j
<1>1. c \in S /\ \A j \in S : c <= j
  OBVIOUS
<1> HIDE DEF c
<1>2. c \in Int /\ i \in Int /\ c <= i /\ i <= c
  BY <1>1
<1>3. c = i
  BY <1>2
<1> QED
  BY <1>3 DEF c

\* What is found in what was read is the sentinel, wherever the reads fell.
LEMMA FoundAt ==
    ASSUME NEW r \in Seq(ErrTokens), NEW e \in Seq(ErrTokens), NEW z \in 2..Len(r),
           case.mode # "direct", Sentinel(case.mode, r \o e, z)
    PROVE  FindSentinel(r) = z - 1
<1> DEFINE E == r \o e
<1>1. /\ Len(r) \in Nat /\ z \in Nat /\ z - 1 \in 1..(Len(r) - 1) /\ (z - 1) + 1 = z
      /\ \A i \in 1..Len(r) : E[i] = r[i]
  BY Longer
<1>2. E[z - 1] = "s" /\ E[z] = "S" /\ \A i \in 1..(z - 1) : E[i] # "S"
  BY DEF Sentinel
<1> HIDE DEF E
<1>3. r[z - 1] = "s" /\ r[z] = "S"
  BY <1>1, <1>2
<1>4. z - 1 \in Spots(r)
  BY <1>1, <1>3 DEF Spots
<1>5. ASSUME NEW j \in Spots(r) PROVE z - 1 <= j
  <2>1. j \in 1..(Len(r) - 1) /\ r[j + 1] = "S" /\ j + 1 \in 1..Len(r)
    BY <1>1 DEF Spots
  <2>2. E[j + 1] = "S"
    BY <1>1, <2>1
  <2>3. ~(j + 1 \in 1..(z - 1))
    BY <1>2, <2>2
  <2> QED
    BY <1>1, <2>1, <2>3
<1>6. Spots(r) \in SUBSET Int
  BY <1>1 DEF Spots
<1>7. (CHOOSE l \in Spots(r) : \A j \in Spots(r) : l <= j) = z - 1
  BY <1>4, <1>5, <1>6, LeastIs
<1> QED
  BY <1>4, <1>7, FindIs

\* No sentinel is found where none was written.
LEMMA NotFound ==
    ASSUME NEW r \in Seq(ErrTokens), \A i \in 1..Len(r) : r[i] # "S"
    PROVE  FindSentinel(r) = 0
<1>1. Spots(r) = {}
  <2>1. Len(r) \in Nat
    BY LenProperties
  <2> QED
    BY <2>1 DEF Spots
<1> QED
  BY <1>1, FindIs

\* A start that was announced begins what is the command's right behind it.
LEMMA StartedAt ==
    ASSUME NEW r, FindSentinel(r) \in Nat, Announcement(r).is = "started"
    PROVE  FindSentinel(r) # 0 /\ Announcement(r).at = FindSentinel(r) + 1
<1> DEFINE at == FindSentinel(r)
<1>1. TransportLimit \in Nat
  BY ChannelAssumption
<1>2. Announcement(r) =
        CASE at # 0 /\ at - 1 > TransportLimit -> [is |-> "overran", at |-> at - 1]
          [] at # 0 /\ at - 1 <= TransportLimit -> [is |-> "started", at |-> at + 1]
          [] at = 0 /\ Len(r) - PartialSuffix(r) > TransportLimit -> [is |-> "overran", at |-> Len(r)]
          [] OTHER -> [is |-> "undecided", at |-> 0]
  BY Zenon DEF Announcement
<1> HIDE DEF at
<1>3. CASE at # 0 /\ at - 1 > TransportLimit
  <2>1. ~(at # 0 /\ at - 1 <= TransportLimit) /\ at # 0
    BY <1>1, <1>3 DEF at
  <2> QED
    BY <1>2, <1>3, <2>1
<1>4. CASE at # 0 /\ ~(at - 1 > TransportLimit)
  <2>1. at - 1 <= TransportLimit
    BY <1>1, <1>4 DEF at
  <2>2. Announcement(r) = [is |-> "started", at |-> at + 1]
    BY <1>2, <1>4, <2>1
  <2> QED
    BY <1>4, <2>2 DEF at
<1>5. CASE at = 0
  <2>1. Announcement(r).is # "started"
    BY <1>2, <1>5
  <2> QED
    BY <2>1
<1> QED
  BY <1>3, <1>4, <1>5

\* Where a start was handed off, the sentinel is in what was read.
LEMMA HandedOff ==
    ASSUME Types, Placed, Layout, Started, pc \in {"handoff", "assemble"}
    PROVE  \E n \in 0..Len(cmdErr), z \in 0..Len(read) :
             /\ Parts(n) /\ Sentinel(case.mode, read \o err, z) /\ EndsIn(read \o err, z, Stream(n))
             /\ proc \notin Unstarted
             /\ case.mode # "direct" => Announcement(read).at = z
<1>1. PICK n \in 0..Len(cmdErr) : Parts(n) /\ Unread(n)
  BY DEF Layout, Placed, OpeningPcs
<1>2. PICK z \in 0..Len(read \o err) :
        Sentinel(case.mode, read \o err, z) /\ EndsIn(read \o err, z, Stream(n)) /\ z <= Len(read)
  BY <1>1 DEF Unread
<1>3. proc \notin Unstarted
  BY <1>1 DEF Unread
<1>4. read \in Seq(ErrTokens) /\ err \in Seq(ErrTokens) /\ Len(read) \in Nat /\ Len(read \o err) \in Nat
  BY LenProperties, ConcatProperties DEF Types
<1>5. z \in 0..Len(read)
  BY <1>2, <1>4
<1>6. ASSUME case.mode # "direct" PROVE Announcement(read).at = z
  <2>1. z \in 2..Len(read)
    BY <1>2, <1>4, <1>5, <1>6 DEF Sentinel
  <2>2. FindSentinel(read) = z - 1
    BY <1>2, <1>4, <1>6, <2>1, FoundAt
  <2>3. Announcement(read).is = "started" /\ FindSentinel(read) \in Nat
    BY <1>6, <2>1, <2>2 DEF Started
  <2>4. Announcement(read).at = FindSentinel(read) + 1
    BY <2>3, StartedAt
  <2> QED
    BY <2>1, <2>2, <2>4
<1> QED
  BY <1>1, <1>2, <1>3, <1>5, <1>6

\* A write on standard error.
LEMMA Written ==
    ASSUME Types, NEW w \in Seq(ErrTokens), WriteErr(w)
    PROVE  /\ err' \in Seq(ErrTokens)
           /\ IF ErrClosed THEN err' = err ELSE err' = err \o w
<1>1. err \in Seq(ErrTokens) /\ err \o w \in Seq(ErrTokens)
  BY ConcatProperties DEF Types
<1>2. CASE ErrClosed
  BY <1>1, <1>2 DEF WriteErr
<1>3. CASE ~ErrClosed
  <2>1. err' = err \o w
    BY <1>3 DEF WriteErr
  <2> QED
    BY <1>1, <1>3, <2>1
<1> QED
  BY <1>2, <1>3

LEMMA TypesInit == Init => Types
<1> SUFFICES ASSUME Init PROVE Types
  OBVIOUS
<1>1. /\ case \in Cases /\ killable \in BOOLEAN /\ kid \in {"gone", "holds"} /\ case.input \in 0..3
  BY CaseFacts DEF Init
<1>2. <<>> \in Seq(InTokens) /\ <<>> \in Seq(ErrTokens) /\ <<>> \in Seq(Spoken)
  BY EmptySeq
<1>3. sink \in Sinks /\ Len(sink.kept) <= MaxStderr
  BY <1>2, ChannelAssumption DEF Init, NewSink, Sinks
<1>4. eof \in BOOLEAN /\ up \in BOOLEAN /\ reaped \in BOOLEAN /\ wake \in BOOLEAN
  BY DEF Init
<1> QED
  BY <1>1, <1>2, <1>3, <1>4 DEF Init, Types, OpeningPcs, Unstarted

\* Every step keeps the types.
LEMMA TypesStep == Types /\ Placed /\ Layout /\ Started /\ [Next]_vars => Types'
<1> SUFFICES ASSUME Types, Placed, Layout, Started, [Next]_vars PROVE Types'
  OBVIOUS
<1> USE DEF setup, opener, ours, pipes, theirs, said, local, thread, OpeningPcs, OpenPcs, Unstarted
<1>a. case \in Cases
  BY DEF Types
<1>b. /\ case.mode \in {"direct", "sudo", "ssh", "sshsudo"} /\ case.input \in 0..3
      /\ case.words \in SUBSET Seq(Spoken)
      /\ PasswordLine \in Seq(InTokens) /\ Len(PasswordLine) \in Nat
  BY <1>a, CaseFacts, PasswordIs
<1>c. \A w \in Seq(Spoken) : w \in Seq(ErrTokens)
  BY WiderSeq DEF ErrTokens
<1>d. \A v \in ErrTokens : <<v>> \in Seq(ErrTokens)
  BY Short, Zenon
<1>e. <<"c">> \in Seq(Spoken)
  BY Short DEF Spoken
<1>f. \A how \in {"0", "1", "255", "killed"} : TransportGoes(how) =>
        up' = FALSE /\ status' \in {"0", "1", "255", "killed"} /\ proc' \in {proc, "gone"}
  BY Zenon DEF TransportGoes
<1>g. <<>> \in Seq(InTokens) /\ <<>> \in Seq(Spoken) /\ <<>> \in Seq(ErrTokens)
  BY EmptySeq
<1>1. CASE UNCHANGED vars
  BY <1>1 DEF vars, Types
<1>2. CASE Spawn
  <2>1. proc' \in Unstarted \cup {"command"}
    BY <1>2 DEF Spawn
  <2>2. pc' \in {"assemble", "settle"} /\ up' = TRUE
    BY <1>2 DEF Spawn
  <2> QED
    BY <1>2, <2>1, <2>2 DEF Spawn, Types
<1>3. CASE SettleTurn
  <2>1. fed' \in Nat /\ stdin' \in Seq(InTokens)
    <3>1. CASE fed' = fed /\ stdin' = stdin
      BY <3>1 DEF Types
    <3>2. CASE fed' = Len(PasswordLine) /\ stdin' = stdin
      BY <3>2, <1>b DEF Types
    <3>3. CASE fed' = fed + 1 /\ stdin' = Append(stdin, PasswordLine[fed + 1]) /\ ~Full
      <4>1. fed \in Nat /\ fed + 1 \in 1..Len(PasswordLine) /\ stdin \in Seq(InTokens)
        BY <1>b, <3>3 DEF Types, Full
      <4>2. PasswordLine[fed + 1] \in InTokens
        BY <4>1, <1>b, ElementOfSeq
      <4> QED
        BY <3>3, <4>1, <4>2, AppendIs
    <3> QED
      BY <1>3, <3>1, <3>2, <3>3 DEF SettleTurn
  <2>2. err' \in Seq(ErrTokens) /\ read' \in Seq(ErrTokens)
    <3>1. CASE err' = err /\ read' = read
      BY <3>1 DEF Types
    <3>2. ASSUME NEW n \in 0..Len(err), read' = read \o SubSeq(err, 1, n), err' = SubSeq(err, n + 1, Len(err))
          PROVE  err' \in Seq(ErrTokens) /\ read' \in Seq(ErrTokens)
      <4>1. SubSeq(err, 1, n) \in Seq(ErrTokens) /\ SubSeq(err, n + 1, Len(err)) \in Seq(ErrTokens)
        BY Split DEF Types
      <4>2. read \o SubSeq(err, 1, n) \in Seq(ErrTokens)
        BY <4>1, ConcatProperties DEF Types
      <4> QED
        BY <3>2, <4>1, <4>2, Zenon
    <3>3. Len(err) \in Nat
      BY LenProperties DEF Types
    <3>4. \/ UNCHANGED <<err, read>>
          \/ \E n \in 1..Len(err) \cup {0} :
               /\ read' = read \o SubSeq(err, 1, n)
               /\ err' = SubSeq(err, n + 1, Len(err))
      BY <1>3 DEF SettleTurn
    <3> QED
      BY <3>1, <3>2, <3>3, <3>4
  <2>3. pc' \in {"settle", "refuse"}
    BY <1>3 DEF SettleTurn
  <2>4. UNCHANGED <<setup, result, ours, out, theirs, local, thread>>
    BY <1>3 DEF SettleTurn
  <2> QED
    BY <2>1, <2>2, <2>3, <2>4 DEF Types
<1>4. CASE SettleDecides
  BY <1>4 DEF SettleDecides, Types
<1>5. CASE HandOff
  <2>1. stdin' \in Seq(InTokens)
    <3>1. Append(stdin, "H") \in Seq(InTokens)
      BY AppendIs DEF Types, InTokens
    <3> QED
      BY <1>5, <3>1 DEF HandOff, Types
  <2> QED
    BY <1>5, <2>1 DEF HandOff, Types
<1>6. CASE Assemble
  <2>1. ASSUME NEW a \in Seq(ErrTokens)
        PROVE  LET k == Push(NewSink(IF Remote THEN StatusHold ELSE 0), a)
               IN k \in Sinks /\ Len(k.kept) <= MaxStderr
    <3> DEFINE h == IF Remote THEN StatusHold ELSE 0
    <3>1. h \in Nat
      BY ChannelAssumption
    <3> HIDE DEF h
    <3>2. NewSink(h) \in Sinks /\ Len(NewSink(h).kept) <= MaxStderr
      BY <3>1, <1>g, ChannelAssumption DEF NewSink, Sinks
    <3>3. Push(NewSink(h), a) \in Sinks /\ Len(Push(NewSink(h), a).kept) <= MaxStderr
      BY <3>2, PushIs, KeptFits
    <3> QED
      BY <3>3 DEF h
  <2> DEFINE first == IF case.mode = "direct" THEN <<>>
                      ELSE SubSeq(read, Announcement(read).at + 1, Len(read))
  <2>2. first \in Seq(ErrTokens)
    <3>1. PICK z \in 0..Len(read) : case.mode # "direct" => Announcement(read).at = z
      BY <1>6, HandedOff DEF Assemble
    <3>2. SubSeq(read, z + 1, Len(read)) \in Seq(ErrTokens)
      BY Split DEF Types
    <3> QED
      BY <3>1, <3>2, <1>g
  <2>3. sink' = Push(NewSink(IF Remote THEN StatusHold ELSE 0), first)
    BY <1>6 DEF Assemble
  <2>4. sink' \in Sinks /\ Len(sink'.kept) <= MaxStderr
    BY <2>1, <2>2, <2>3
  <2>5. inEnd' \in {"caller", "channel"} /\ drain' = "poll" /\ pc' = "open"
    BY <1>6 DEF Assemble
  <2> QED
    BY <1>6, <2>4, <2>5 DEF Assemble, Types
<1>7. CASE Refuse
  <2>1. up' \in BOOLEAN /\ reaped' \in BOOLEAN
    BY <1>7, <1>f DEF Refuse, Types
  <2>2. status' \in {"0", "1", "255", "killed"} /\ proc' \in {proc, "gone"}
    BY <1>7, <1>f DEF Refuse, Types
  <2> QED
    BY <1>7, <2>1, <2>2 DEF Refuse, Types
<1>8. CASE WaitReaps
  BY <1>8 DEF WaitReaps, Types
<1>9. CASE StopDrain
  BY <1>9 DEF StopDrain, Types
<1>10. CASE ShutDown
  <2>1. up' \in BOOLEAN /\ reaped' \in BOOLEAN
    BY <1>10, <1>f DEF ShutDown, Types
  <2>2. status' \in {"0", "1", "255", "killed"} /\ proc' \in {proc, "gone"}
    BY <1>10, <1>f DEF ShutDown, Types
  <2>3. result' \in {result, "killed", "spawn"}
    BY <1>10 DEF ShutDown
  <2> QED
    BY <1>10, <2>1, <2>2, <2>3 DEF ShutDown, Types
<1>11. CASE Join
  <2>1. ExitOf \in {"spawn", "exit", "unknown"}
    BY DEF ExitOf
  <2> QED
    BY <1>11, <2>1 DEF Join, Types
<1>12. CASE DrainStops
  BY <1>12 DEF DrainStops, Types
<1>13. CASE DrainReads
  <2>1. CASE sink' = FinishSink(sink, TRUE) /\ drain' = "done" /\ UNCHANGED err
    BY <1>13, <2>1 DEF DrainReads, Types
  <2>2. ASSUME NEW n \in 1..Len(err), sink' = Push(sink, SubSeq(err, 1, n)),
               err' = SubSeq(err, n + 1, Len(err)), UNCHANGED drain
        PROVE  Types'
    <3>1. n \in 0..Len(err) /\ err \in Seq(ErrTokens)
      BY DEF Types
    <3>2. SubSeq(err, 1, n) \in Seq(ErrTokens) /\ SubSeq(err, n + 1, Len(err)) \in Seq(ErrTokens)
      BY <3>1, Split
    <3>3. sink \in Sinks /\ Len(sink.kept) <= MaxStderr
      BY <1>13 DEF DrainReads, Types
    <3>4. sink' \in Sinks /\ Len(sink'.kept) <= MaxStderr
      BY <2>2, <3>2, <3>3, PushIs, KeptFits
    <3> QED
      BY <1>13, <2>2, <3>2, <3>4 DEF DrainReads, Types
  <2> QED
    BY <1>13, <2>1, <2>2 DEF DrainReads
<1>14. CASE CommandReads
  <2>1. got' \in Seq(InTokens) /\ stdin' \in Seq(InTokens)
    <3>1. ASSUME stdin # <<>>
          PROVE  Tail(stdin) \in Seq(InTokens) /\ Append(got, Head(stdin)) \in Seq(InTokens)
      <4>1. Tail(stdin) \in Seq(InTokens) /\ Head(stdin) \in InTokens
        BY <3>1, TailIs DEF Types
      <4> QED
        BY <4>1, AppendIs DEF Types
    <3> QED
      BY <1>14, <3>1 DEF CommandReads, Types
  <2> QED
    BY <1>14, <2>1 DEF CommandReads, Types
<1>15. CASE CommandPrints
  BY <1>15 DEF CommandPrints, Types
<1>16. ASSUME NEW w \in case.words \cup {<<"c">>}, CommandErrs(w) PROVE Types'
  <2>1. w \in Seq(Spoken)
    BY <1>b, <1>e
  <2>2. w \in Seq(ErrTokens)
    BY <2>1, <1>c
  <2>3. err' \in Seq(ErrTokens)
    BY <1>16, <2>2, Written DEF CommandErrs
  <2>4. cmdErr' \in Seq(Spoken)
    BY <1>16, <2>1, ConcatProperties DEF CommandErrs, Types
  <2> QED
    BY <1>16, <2>3, <2>4 DEF CommandErrs, Types
<1>17. ASSUME NEW tok \in {"t", "s"}, TransportText(tok) PROVE Types'
  <2>1. err' \in Seq(ErrTokens)
    BY <1>17, <1>d, Written DEF TransportText, ErrTokens
  <2> QED
    BY <1>17, <2>1 DEF TransportText, Types
<1>18. CASE Sudo
  <2>1. proc' \in {proc, "announce", "gone"} /\ status' \in {"0", "1", "255", "killed"}
    BY <1>18, <1>f DEF Sudo, Types
  <2>2. up' \in BOOLEAN
    BY <1>18, <1>f DEF Sudo, Types
  <2>3. stdin' \in Seq(InTokens)
    BY <1>18, TailIs DEF Sudo, Types
  <2> QED
    BY <1>18, <2>1, <2>2, <2>3 DEF Sudo, Types
<1>19. CASE Announce
  <2>1. err' \in Seq(ErrTokens)
    BY <1>19, <1>d, Written DEF Announce, ErrTokens
  <2> QED
    BY <1>19, <2>1 DEF Announce, Types
<1>20. CASE Discard
  <2>1. /\ proc' \in {proc, "command", "wrapper", "gone"} /\ status' \in {"0", "1", "255", "killed"}
        /\ rc' \in {rc, "1"}
    BY <1>20, <1>f DEF Discard, Types
  <2>2. up' \in BOOLEAN
    BY <1>20, <1>f DEF Discard, Types
  <2>3. stdin' \in Seq(InTokens) /\ line' \in Seq(InTokens)
    <3>1. ASSUME stdin # <<>>
          PROVE  Tail(stdin) \in Seq(InTokens) /\ Append(line, Head(stdin)) \in Seq(InTokens)
      <4>1. Tail(stdin) \in Seq(InTokens) /\ Head(stdin) \in InTokens
        BY <3>1, TailIs DEF Types
      <4> QED
        BY <4>1, AppendIs DEF Types
    <3> QED
      BY <1>20, <3>1, <1>g DEF Discard, Types
  <2>4. tail' \in Seq(Spoken)
    BY <1>20, LineIs DEF Discard, Types, StatusLine
  <2> QED
    BY <1>20, <2>1, <2>2, <2>3, <2>4 DEF Discard, Types
<1>21. CASE WrapperReports
  <2>1. CASE tail # <<>>
    <3>1. Tail(tail) \in Seq(Spoken) /\ Head(tail) \in Spoken
      BY <2>1, TailIs DEF Types
    <3>2. <<Head(tail)>> \in Seq(ErrTokens)
      BY <3>1, <1>d DEF ErrTokens
    <3>3. err' \in Seq(ErrTokens)
      BY <1>21, <2>1, <3>2, Written DEF WrapperReports
    <3>4. UNCHANGED <<proc, up, status, setup, opener, ours, stdin, out, line, got, eof, said, outLeft,
                      rc, kid, reaped, thread>> /\ tail' = Tail(tail)
      BY <1>21, <2>1 DEF WrapperReports
    <3> QED
      BY <3>1, <3>3, <3>4 DEF Types
  <2>2. CASE tail = <<>>
    <3>1. status' \in {"0", "1", "255", "killed"} /\ proc' \in {proc, "gone"}
      BY <1>21, <2>2, <1>f DEF WrapperReports
    <3>2. up' \in BOOLEAN
      BY <1>21, <2>2, <1>f DEF WrapperReports
    <3> QED
      BY <1>21, <2>2, <3>1, <3>2 DEF WrapperReports, Types
  <2> QED
    BY <2>1, <2>2
<1>22. CASE ConnectionLost
  <2>1. status' \in {"0", "1", "255", "killed"} /\ proc' \in {proc, "gone"}
    BY <1>22, <1>f DEF ConnectionLost
  <2>2. up' \in BOOLEAN
    BY <1>22, <1>f DEF ConnectionLost
  <2> QED
    BY <1>22, <2>1, <2>2 DEF ConnectionLost, Types
<1>23. CASE DescendantGoes
  BY <1>23 DEF DescendantGoes, Types
<1>24. ASSUME NEW code \in {"0", "1"}, CommandExits(code) PROVE Types'
  <2>1. tail' \in Seq(Spoken)
    BY <1>24, LineIs DEF CommandExits, Types, StatusLine
  <2>2. up' \in BOOLEAN
    BY <1>24 DEF CommandExits, Types
  <2>3. proc' \in {"wrapper", "gone"} /\ status' \in {"0", "1", "255", "killed"} /\ rc' = code
    BY <1>24 DEF CommandExits, Types
  <2> QED
    BY <1>24, <2>1, <2>2, <2>3 DEF CommandExits, Types
<1>25. CASE SpawnFails
  BY <1>25, ZenonT(40) DEF SpawnFails, Types
<1>26. CASE AssembleFails
  BY <1>26 DEF AssembleFails, Finish, Types
<1>27. CASE DrainFails
  BY <1>27 DEF DrainFails, Types
<1>28. CASE WaitFails
  BY <1>28 DEF WaitFails, Finish, Types
<1>29. ASSUME NEW how \in {"timeout", "spawn"}, SettleTimesOut(how) PROVE Types'
  BY <1>29 DEF SettleTimesOut, Finish, Types
<1>30. CASE CallerWrites
  <2>1. sent + 1 \in 1..3 /\ sent + 1 <= case.input
    BY <1>30, <1>b, SMTT(30) DEF CallerWrites, Types
  <2>2. CallerBytes[sent + 1] \in InTokens
    BY <2>1, BytesAre, ElementOfSeq
  <2>3. stdin' \in Seq(InTokens)
    BY <1>30, <2>2, AppendIs DEF CallerWrites, Types
  <2> QED
    BY <1>30, <2>1, <2>3 DEF CallerWrites, Types
<1>31. CASE CallerReads
  BY <1>31 DEF CallerReads, Types
<1>32. CASE CallerCloses
  BY <1>32 DEF CallerCloses, Types
<1>33. ASSUME NEW how \in {"wait", "shutdown"}, Ends(how) PROVE Types'
  BY <1>33 DEF Ends, Types
<1> QED
  BY <1>1, <1>2, <1>3, <1>4, <1>5, <1>6, <1>7, <1>8, <1>9, <1>10, <1>11, <1>12, <1>13, <1>14, <1>15,
     <1>16, <1>17, <1>18, <1>19, <1>20, <1>21, <1>22, <1>23, <1>24, <1>25, <1>26, <1>27, <1>28,
     <1>29, <1>30, <1>31, <1>32, <1>33
     DEF Next, Opening, Ending, Draining, CommandSteps, Feeding
-----------------------------------------------------------------------------
(* Where everybody is.                                                     *)

\* A start that is decided on was announced in full, with the password out.
LEMMA SettledIs ==
    ASSUME Types, Placed, Layout, pc = "settle", Settled = "started"
    PROVE  /\ Full /\ Announcement(read).is = "started"
           /\ proc \notin Unstarted /\ (~Remote => up)
           /\ \E n \in 0..Len(cmdErr), z \in 0..Len(read) :
                Parts(n) /\ Sentinel(case.mode, read \o err, z) /\ EndsIn(read \o err, z, Stream(n))
<1>1. Full /\ Announcement(read).is = "started"
  <2> DEFINE a == Announcement(read)
  <2>1. Settled = CASE a.is = "overran" -> "ended" [] a.is = "started" /\ Full -> "started"
                    [] OTHER -> "none"
    BY Zenon DEF Settled, Judge
  <2> HIDE DEF a
  <2>2. CASE a.is = "overran"
    <3>1. ~(a.is = "started" /\ Full)
      BY <2>2
    <3> QED
      BY <2>1, <2>2, <3>1
  <2>3. CASE a.is # "overran"
    BY <2>1, <2>3 DEF a
  <2> QED
    BY <2>2, <2>3
<1>2. /\ read \in Seq(ErrTokens) /\ err \in Seq(ErrTokens)
      /\ Len(read) \in Nat /\ Len(read \o err) = Len(read) + Len(err) /\ Len(err) \in Nat
      /\ \A i \in 1..Len(read) : (read \o err)[i] = read[i]
  <2>1. read \in Seq(ErrTokens) /\ err \in Seq(ErrTokens)
    BY DEF Types
  <2> QED
    BY <2>1, Longer
<1>3. PICK n \in 0..Len(cmdErr) : Parts(n) /\ Unread(n)
  BY DEF Layout, Placed, OpeningPcs
<1>4. case.mode # "direct"
  BY DEF Placed
<1>5. ~(\A i \in 1..Len(read \o err) : (read \o err)[i] # "S")
  <2> SUFFICES ASSUME \A i \in 1..Len(read \o err) : (read \o err)[i] # "S" PROVE FALSE
    OBVIOUS
  <2>1. \A i \in 1..Len(read) : read[i] # "S"
    BY <1>2
  <2>2. FindSentinel(read) = 0
    BY <1>2, <2>1, NotFound
  <2> QED
    BY <1>1, <2>2, StartedAt
<1>6. PICK z \in 0..Len(read \o err) : Sentinel(case.mode, read \o err, z) /\ EndsIn(read \o err, z, Stream(n))
  BY <1>3, <1>5 DEF Unread
<1>7. proc \notin Unstarted /\ (~Remote => up)
  BY <1>3, <1>5 DEF Unread
<1>8. z <= Len(read)
  <2> SUFFICES ASSUME ~(z <= Len(read)) PROVE FALSE
    OBVIOUS
  <2>1. \A i \in 1..(z - 1) : (read \o err)[i] # "S"
    BY <1>4, <1>6 DEF Sentinel
  <2>2. \A i \in 1..Len(read) : i \in 1..(z - 1)
    BY <1>2
  <2>3. \A i \in 1..Len(read) : read[i] # "S"
    BY <1>2, <2>1, <2>2
  <2>4. FindSentinel(read) = 0
    BY <1>2, <2>3, NotFound
  <2> QED
    BY <1>1, <2>4, StartedAt
<1>9. z \in 0..Len(read)
  BY <1>2, <1>8
<1> QED
  BY <1>1, <1>3, <1>6, <1>7, <1>9

-----------------------------------------------------------------------------
(* Standard input.                                                         *)

\* Where the first waiting token is the password's, it is the next of the line;
\* where the password is through, it is the handoff line.
LEMMA FirstWaiting ==
    ASSUME Types, NEW k \in 0..fed, NEW h \in {0, 1}, Awaits(k, h), h = 0 => sent = 0, stdin # <<>>
    PROVE  /\ k = fed => h = 1 /\ Head(stdin) = "H"
           /\ k < fed => Head(stdin) = PasswordLine[k + 1]
<1>1. stdin \in Seq(InTokens) /\ Len(stdin) \in Nat \ {0} /\ Head(stdin) = stdin[1]
  BY TailIs DEF Types
<1>2. /\ Len(stdin) = fed - k + h + sent /\ fed \in Nat /\ sent \in Nat
      /\ \A i \in 1..(fed - k) : stdin[i] = PasswordLine[k + i]
      /\ h = 1 => stdin[fed - k + 1] = "H"
  BY DEF Awaits, Types
<1>3. CASE k = fed
  <2>1. fed - k = 0 /\ fed - k + 1 = 1
    BY <1>2, <1>3
  <2>2. h = 1
    BY <1>1, <1>2, <2>1
  <2> QED
    BY <1>1, <1>2, <1>3, <2>1, <2>2
<1>4. CASE k < fed
  <2>1. 1 \in 1..(fed - k)
    BY <1>2, <1>4
  <2> QED
    BY <1>1, <1>2, <1>4, <2>1
<1> QED
  BY <1>2, <1>3, <1>4

\* The first token of what waits is taken.
LEMMA LeadTaken ==
    ASSUME Types, NEW k \in 0..fed, NEW h \in {0, 1}, Awaits(k, h), k < fed, stdin # <<>>,
           stdin' = Tail(stdin), UNCHANGED <<case, fed, sent>>
    PROVE  Awaits(k + 1, h)'
<1>1. /\ Len(stdin) \in Nat \ {0} /\ Len(stdin') = Len(stdin) - 1
      /\ \A i \in 1..(Len(stdin) - 1) : stdin'[i] = stdin[i + 1]
  BY TailIs DEF Types
<1>2. /\ Len(stdin) = fed - k + h + sent /\ fed \in Nat /\ sent \in Nat
      /\ \A i \in 1..(fed - k) : stdin[i] = PasswordLine[k + i]
      /\ h = 1 => stdin[fed - k + 1] = "H"
      /\ \A i \in 1..sent : stdin[fed - k + h + i] = CallerBytes[i]
  BY DEF Awaits, Types
<1>3. PasswordLine' = PasswordLine
  BY DEF PasswordLine
<1>4. Len(stdin') = fed - (k + 1) + h + sent
  BY <1>1, <1>2
<1>5. ASSUME NEW i \in 1..(fed - (k + 1)) PROVE stdin'[i] = PasswordLine[(k + 1) + i]
  <2>1. i \in 1..(Len(stdin) - 1) /\ i + 1 \in 1..(fed - k) /\ k + (i + 1) = (k + 1) + i
    BY <1>2
  <2> QED
    BY <1>1, <1>2, <2>1
<1>6. ASSUME h = 1 PROVE stdin'[fed - (k + 1) + 1] = "H"
  <2>1. fed - k \in 1..(Len(stdin) - 1) /\ fed - (k + 1) + 1 = fed - k
    BY <1>2, <1>6
  <2> QED
    BY <1>1, <1>2, <1>6, <2>1
<1>7. ASSUME NEW i \in 1..sent PROVE stdin'[fed - (k + 1) + h + i] = CallerBytes[i]
  <2>1. /\ fed - (k + 1) + h + i \in 1..(Len(stdin) - 1)
        /\ fed - (k + 1) + h + i + 1 = fed - k + h + i
    BY <1>2
  <2> QED
    BY <1>1, <1>2, <2>1
<1> QED
  BY <1>3, <1>4, <1>5, <1>6, <1>7 DEF Awaits

\* A token is written behind what waits.
LEMMA Behind ==
    ASSUME Types, NEW v \in InTokens, stdin' = Append(stdin, v)
    PROVE  /\ Len(stdin) \in Nat /\ Len(stdin') = Len(stdin) + 1 /\ stdin'[Len(stdin) + 1] = v
           /\ \A i \in 1..Len(stdin) : stdin'[i] = stdin[i]
BY AppendIs DEF Types

LEMMA PasswordAdded ==
    ASSUME Types, NEW k \in 0..fed, Awaits(k, 0), sent = 0, fed < Len(PasswordLine),
           stdin' = Append(stdin, PasswordLine[fed + 1]), fed' = fed + 1, UNCHANGED <<case, sent>>
    PROVE  Awaits(k, 0)'
<1>1. fed \in Nat /\ PasswordLine[fed + 1] \in InTokens /\ PasswordLine' = PasswordLine
  <2>1. PasswordLine \in Seq(InTokens) /\ fed \in Nat /\ Len(PasswordLine) \in Nat
    BY PasswordIs DEF Types
  <2>2. fed + 1 \in 1..Len(PasswordLine)
    BY <2>1
  <2> QED
    BY <2>1, <2>2, ElementOfSeq DEF PasswordLine
<1>2. /\ Len(stdin) \in Nat /\ Len(stdin') = Len(stdin) + 1
      /\ stdin'[Len(stdin) + 1] = PasswordLine[fed + 1]
      /\ \A i \in 1..Len(stdin) : stdin'[i] = stdin[i]
  BY <1>1, Behind
<1>3. Len(stdin) = fed - k /\ \A i \in 1..(fed - k) : stdin[i] = PasswordLine[k + i]
  BY <1>1 DEF Awaits
<1>4. ASSUME NEW i \in 1..(fed + 1 - k) PROVE stdin'[i] = PasswordLine[k + i]
  <2>1. CASE i <= fed - k
    BY <1>2, <1>3, <2>1
  <2>2. CASE ~(i <= fed - k)
    <3>1. i = Len(stdin) + 1 /\ k + i = fed + 1
      BY <1>1, <1>3, <2>2
    <3> QED
      BY <1>2, <3>1
  <2> QED
    BY <2>1, <2>2
<1>5. Len(stdin') = fed + 1 - k + 0 + sent
  BY <1>1, <1>2, <1>3
<1> QED
  BY <1>1, <1>4, <1>5 DEF Awaits

LEMMA HandoffAdded ==
    ASSUME Types, NEW k \in 0..fed, Awaits(k, 0), sent = 0,
           stdin' = Append(stdin, "H"), UNCHANGED <<case, fed, sent>>
    PROVE  Awaits(k, 1)'
<1>1. fed \in Nat /\ PasswordLine' = PasswordLine /\ "H" \in InTokens
  BY DEF Types, PasswordLine, InTokens
<1>2. /\ Len(stdin) \in Nat /\ Len(stdin') = Len(stdin) + 1 /\ stdin'[Len(stdin) + 1] = "H"
      /\ \A i \in 1..Len(stdin) : stdin'[i] = stdin[i]
  BY <1>1, Behind
<1>3. Len(stdin) = fed - k /\ \A i \in 1..(fed - k) : stdin[i] = PasswordLine[k + i]
  BY <1>1 DEF Awaits
<1> QED
  BY <1>1, <1>2, <1>3 DEF Awaits

LEMMA ByteAdded ==
    ASSUME Types, NEW k \in 0..fed, Awaits(k, 1), sent < case.input,
           stdin' = Append(stdin, CallerBytes[sent + 1]), sent' = sent + 1, UNCHANGED <<case, fed>>
    PROVE  Awaits(k, 1)'
<1>1. fed \in Nat /\ sent \in Nat /\ PasswordLine' = PasswordLine /\ CallerBytes[sent + 1] \in InTokens
  <2>1. sent \in Nat /\ case.input \in 0..3
    BY CaseFacts DEF Types
  <2>2. sent + 1 \in 1..3
    BY <2>1
  <2> QED
    BY <2>2, BytesAre, ElementOfSeq DEF Types, PasswordLine
<1>2. /\ Len(stdin) \in Nat /\ Len(stdin') = Len(stdin) + 1
      /\ stdin'[Len(stdin) + 1] = CallerBytes[sent + 1]
      /\ \A i \in 1..Len(stdin) : stdin'[i] = stdin[i]
  BY <1>1, Behind
<1>3. /\ Len(stdin) = fed - k + 1 + sent
      /\ \A i \in 1..(fed - k) : stdin[i] = PasswordLine[k + i]
      /\ stdin[fed - k + 1] = "H"
      /\ \A i \in 1..sent : stdin[fed - k + 1 + i] = CallerBytes[i]
  BY DEF Awaits
<1>4. ASSUME NEW i \in 1..(fed - k) PROVE stdin'[i] = PasswordLine[k + i]
  <2>1. i \in 1..Len(stdin)
    BY <1>1, <1>3
  <2> QED
    BY <1>2, <1>3, <2>1
<1>5. stdin'[fed - k + 1] = "H"
  <2>1. fed - k + 1 \in 1..Len(stdin)
    BY <1>1, <1>3
  <2> QED
    BY <1>2, <1>3, <2>1
<1>6. ASSUME NEW i \in 1..(sent + 1) PROVE stdin'[fed - k + 1 + i] = CallerBytes[i]
  <2>1. CASE i <= sent
    <3>1. fed - k + 1 + i \in 1..Len(stdin) /\ i \in 1..sent
      BY <1>1, <1>3, <2>1
    <3> QED
      BY <1>2, <1>3, <3>1
  <2>2. CASE ~(i <= sent)
    <3>1. i = sent + 1 /\ fed - k + 1 + i = Len(stdin) + 1
      BY <1>1, <1>3, <2>2
    <3> QED
      BY <1>2, <3>1
  <2> QED
    BY <2>1, <2>2
<1>7. Len(stdin') = fed - k + 1 + (sent + 1)
  BY <1>1, <1>2, <1>3
<1> QED
  BY <1>1, <1>4, <1>5, <1>6, <1>7 DEF Awaits

\* Behind the handoff line there are only the caller's bytes.
LEMMA HandoffTaken ==
    ASSUME Types, Awaits(fed, 1), stdin # <<>>, stdin' = Tail(stdin)
    PROVE  Len(stdin') = sent /\ \A i \in 1..Len(stdin') : stdin'[i] = CallerBytes[i]
<1>1. /\ Len(stdin) \in Nat \ {0} /\ Len(stdin') = Len(stdin) - 1
      /\ \A i \in 1..(Len(stdin) - 1) : stdin'[i] = stdin[i + 1]
  BY TailIs DEF Types
<1>2. /\ fed \in Nat /\ sent \in Nat
      /\ Len(stdin) = fed - fed + 1 + sent
      /\ \A i \in 1..sent : stdin[fed - fed + 1 + i] = CallerBytes[i]
  BY DEF Awaits, Types
<1>3. Len(stdin) = 1 + sent /\ \A i \in 1..sent : stdin[i + 1] = CallerBytes[i]
  <2>1. \A i \in 1..sent : fed - fed + 1 + i = i + 1
    BY <1>2
  <2> QED
    BY <1>2, <2>1
<1> QED
  BY <1>1, <1>2, <1>3

\* The script finds the handoff line only after it was written, behind the
\* whole password line.
LEMMA HandoffIsFirst ==
    ASSUME Types, Fed, proc \in Unstarted \cup {"discard"}, stdin # <<>>, Head(stdin) = "H"
    PROVE  /\ proc = "discard" /\ pc \notin {"spawn", "settle", "handoff"}
           /\ Full /\ Awaits(fed, 1)
<1>1. PICK k \in 0..fed, h \in {0, 1} :
        /\ Awaits(k, h) /\ (h = 0 => sent = 0)
        /\ h = 1 => Full /\ proc = "discard" /\ pc \notin {"spawn", "settle", "handoff"}
  BY DEF Fed, Queued
<1>2. /\ fed \in Nat /\ Len(PasswordLine) \in {0, 2} /\ fed <= Len(PasswordLine)
      /\ Len(PasswordLine) = 2 => PasswordLine[1] = "p" /\ PasswordLine[2] = "q"
  BY PasswordIs, CaseFacts DEF Types, Fed
<1>3. k = fed
  <2> SUFFICES ASSUME k # fed PROVE FALSE
    OBVIOUS
  <2>0. k < fed /\ Len(PasswordLine) # 0
    BY <1>2
  <2>1. k < fed /\ k + 1 \in {1, 2} /\ Len(PasswordLine) = 2
    <3>1. Len(PasswordLine) = 2
      BY <1>2, <2>0
    <3>2. k \in Nat /\ fed \in {1, 2}
      BY <1>2, <2>0, <3>1
    <3> QED
      BY <2>0, <3>1, <3>2
  <2>2. Head(stdin) = PasswordLine[k + 1]
    BY <1>1, <2>1, FirstWaiting
  <2> QED
    BY <1>2, <2>1, <2>2
<1>4. h = 1
  BY <1>1, <1>3, FirstWaiting
<1> QED
  BY <1>1, <1>3, <1>4

\* While the script waits for the handoff line of an open channel, it is there.
LEMMA HandoffWaits ==
    ASSUME Types, Fed, proc = "discard", pc \in {"assemble"} \cup OpenPcs
    PROVE  stdin # <<>>
<1>1. PICK k \in 0..fed : Awaits(k, 1)
  BY DEF Fed, Queued
<1>2. Len(stdin) = fed - k + 1 + sent /\ fed \in Nat /\ sent \in Nat /\ fed - k \in Nat
  BY <1>1 DEF Awaits, Types
<1>3. Len(stdin) # 0
  BY <1>2
<1> QED
  BY <1>3

LEMMA PlacedStep == Types /\ Placed /\ Lined /\ Fed /\ Layout /\ Started /\ [Next]_vars => Placed'
<1> SUFFICES ASSUME Types, Placed, Lined, Fed, Layout, Started, [Next]_vars PROVE Placed'
  OBVIOUS
<1> USE DEF setup, opener, ours, pipes, theirs, said, local, thread, OpeningPcs, OpenPcs, Unstarted
<1>a. case \in Cases
  BY DEF Types
<1>b. case.mode \in {"direct", "sudo", "ssh", "sshsudo"}
  BY <1>a, CaseFacts
<1>1. CASE UNCHANGED vars
  BY <1>1 DEF vars, Placed, Types, Waited, Remote, Elevated, TransportGoes
<1>2. CASE Spawn
  BY <1>2 DEF Spawn, Placed, Types, Waited, Remote, Elevated, TransportGoes
<1>3. CASE SettleTurn
  BY <1>3 DEF SettleTurn, Placed, Types, Waited, Remote, Elevated, TransportGoes
<1>4. CASE SettleDecides
  <2>1. CASE Settled = "started"
    <3>1. proc \notin Unstarted /\ (~Remote => up)
      BY <1>4, <2>1, SettledIs DEF SettleDecides
    <3> QED
      BY <1>4, <2>1, <3>1 DEF SettleDecides, Placed, Types, Waited, Remote, Elevated, TransportGoes
  <2>2. CASE Settled # "started"
    BY <1>4, <2>2 DEF SettleDecides, Placed, Types, Waited, Remote, Elevated, TransportGoes
  <2> QED
    BY <2>1, <2>2
<1>5. CASE HandOff
  BY <1>5 DEF HandOff, Placed, Types, Waited, Remote, Elevated, TransportGoes
<1>6. CASE Assemble
  BY <1>6 DEF Assemble, Placed, Types, Waited, Remote, Elevated, TransportGoes
<1>7. CASE Refuse
  <2>1. \/ up /\ TransportGoes("killed") /\ reaped' = TRUE
        \/ UNCHANGED <<up, status, proc>> /\ (reaped' = TRUE \/ (~killable /\ reaped' = reaped))
    BY <1>7 DEF Refuse
  <2>2. ~reaped' => ~killable
    BY <2>1
  <2>3. /\ proc' = "gone" => ~up'
        /\ ~up' => proc' = "gone" \/ (proc' = "command" /\ case.mode = "sudo")
        /\ proc' \in {proc, "gone"} /\ (up' => up) /\ (proc = "command" /\ case.mode = "direct" /\ ~up' => proc' = "gone")
        /\ proc # "none"
    <3>1. CASE up /\ TransportGoes("killed")
      BY <1>b, <1>7, <3>1 DEF TransportGoes, Refuse, Placed, Types, Remote
    <3>2. CASE UNCHANGED <<up, status, proc>>
      BY <1>7, <3>2 DEF Refuse, Placed, Types
    <3> QED
      BY <2>1, <3>1, <3>2
  <2>4. result' \notin {"none", "exit"} /\ pc = "refuse" /\ drain = "none"
    BY <1>7 DEF Refuse, Placed
  <2> QED
    BY <1>7, <2>2, <2>3, <2>4 DEF Refuse, Placed, Waited, Remote
<1>8. CASE WaitReaps
  BY <1>8 DEF WaitReaps, Placed, Types, Waited, Remote, Elevated, TransportGoes
<1>9. CASE StopDrain
  BY <1>9 DEF StopDrain, Placed, Types, Waited, Remote, Elevated, TransportGoes
<1>10. CASE ShutDown
  <2>1. \/ up /\ TransportGoes("killed") /\ reaped' = TRUE
        \/ UNCHANGED <<up, status, proc>> /\ (reaped' = TRUE \/ (~killable /\ reaped' = reaped))
    BY <1>10 DEF ShutDown
  <2>2. ~reaped' => ~killable
    BY <2>1
  <2>3. /\ proc' = "gone" => ~up'
        /\ ~up' => proc' = "gone" \/ (proc' = "command" /\ case.mode = "sudo")
        /\ proc' \in {proc, "gone"} /\ (up' => up) /\ (proc = "command" /\ case.mode = "direct" /\ ~up' => proc' = "gone")
        /\ proc # "none"
    <3>1. CASE up /\ TransportGoes("killed")
      BY <1>b, <1>10, <3>1 DEF TransportGoes, ShutDown, Placed, Types, Remote
    <3>2. CASE UNCHANGED <<up, status, proc>>
      BY <1>10, <3>2 DEF ShutDown, Placed, Types
    <3> QED
      BY <2>1, <3>1, <3>2
  <2>4. result' \notin {"none", "exit"} /\ pc = "shutdown" /\ drain # "none" /\ result # "exit"
    BY <1>10 DEF ShutDown, Placed
  <2>5. Remote /\ ~up' /\ status' = "0" => rc # "none" /\ tail = <<>>
    BY <1>10, <2>1 DEF TransportGoes, Placed, ShutDown
  <2> QED
    BY <1>10, <2>2, <2>3, <2>4, <2>5 DEF ShutDown, Placed, Waited, Remote
<1>11. CASE Join
  <2>1. ExitOf \in {"spawn", "exit", "unknown"}
    BY DEF ExitOf
  <2>2. ExitOf = "exit" => drain = "done" /\ (Remote => sink.code # "none" /\ status = "0")
    BY DEF ExitOf
  <2> QED
    BY <1>11, <2>1, <2>2 DEF Join, Placed, Types, Waited, Remote, Elevated, TransportGoes
<1>12. CASE DrainStops
  BY <1>12 DEF DrainStops, Placed, Types, Waited, Remote, Elevated, TransportGoes
<1>13. CASE DrainReads
  <2>1. drain' = "done" => ~up
    BY <1>13 DEF DrainReads, ErrEnds
  <2> QED
    BY <1>13, <2>1 DEF DrainReads, Placed, Types, Waited, Remote, Elevated, TransportGoes
<1>14. CASE CommandReads
  BY <1>14 DEF CommandReads, Placed, Types, Waited, Remote, Elevated, TransportGoes
<1>15. CASE CommandPrints
  BY <1>15 DEF CommandPrints, Placed, Types, Waited, Remote, Elevated, TransportGoes
<1>16. CASE Sudo
  BY <1>16 DEF Sudo, Placed, Types, Waited, Remote, Elevated, TransportGoes
<1>17. CASE Announce
  BY <1>17 DEF Announce, Placed, Types, Waited, Remote, Elevated, TransportGoes
<1>18. CASE Discard
  <2>1. CASE stdin # <<>>
    <3>1. proc' = "command" => pc \notin {"settle", "handoff"}
      BY <1>18, <2>1, HandoffIsFirst DEF Discard
    <3> QED
      BY <1>18, <2>1, <3>1 DEF Discard, Placed, Types, Waited, Remote, Elevated, TransportGoes
  <2>2. CASE stdin = <<>>
    <3>1. inEnd = "closed" /\ proc = "discard" /\ up
      BY <1>18, <2>2 DEF Discard
    <3>2. pc \notin {"assemble"} \cup OpenPcs /\ pc \notin OpeningPcs
      BY <2>2, <3>1, HandoffWaits DEF Placed
    <3>3. pc = "ended"
      BY <3>2 DEF Types
    <3> QED
      BY <1>18, <2>2, <3>1, <3>3 DEF Discard, Placed, Types, Waited, Remote, Elevated, TransportGoes
  <2> QED
    BY <2>1, <2>2
<1>19. CASE WrapperReports
  BY <1>19 DEF WrapperReports, Placed, Types, Waited, Remote, Elevated, TransportGoes
<1>20. CASE ConnectionLost
  BY <1>20 DEF ConnectionLost, Placed, Types, Waited, Remote, Elevated, TransportGoes
<1>21. CASE DescendantGoes
  BY <1>21 DEF DescendantGoes, Placed, Types, Waited, Remote, Elevated, TransportGoes
<1>22. CASE SpawnFails
  BY <1>22 DEF SpawnFails, Placed, Types, Waited, Remote, Elevated, TransportGoes
<1>23. CASE AssembleFails
  BY <1>23 DEF AssembleFails, Finish, Placed, Types, Waited, Remote, Elevated, TransportGoes
<1>24. CASE DrainFails
  BY <1>24 DEF DrainFails, Placed, Types, Waited, Remote, Elevated, TransportGoes
<1>25. CASE WaitFails
  BY <1>25 DEF WaitFails, Finish, Placed, Types, Waited, Remote, Elevated, TransportGoes
<1>26. CASE CallerWrites
  BY <1>26 DEF CallerWrites, Placed, Types, Waited, Remote, Elevated, TransportGoes
<1>27. CASE CallerReads
  BY <1>27 DEF CallerReads, Placed, Types, Waited, Remote, Elevated, TransportGoes
<1>28. CASE CallerCloses
  BY <1>28 DEF CallerCloses, Placed, Types, Waited, Remote, Elevated, TransportGoes
<1>29. ASSUME NEW w \in case.words \cup {<<"c">>}, CommandErrs(w) PROVE Placed'
  BY <1>29 DEF CommandErrs, Placed, Types, Waited, Remote, Elevated, TransportGoes
<1>30. ASSUME NEW tok \in {"t", "s"}, TransportText(tok) PROVE Placed'
  BY <1>30 DEF TransportText, Placed, Types, Waited, Remote, Elevated, TransportGoes
<1>31. ASSUME NEW code \in {"0", "1"}, CommandExits(code) PROVE Placed'
  BY <1>31 DEF CommandExits, Placed, Types, Waited, Remote, Elevated, TransportGoes
<1>32. ASSUME NEW how \in {"timeout", "spawn"}, SettleTimesOut(how) PROVE Placed'
  BY <1>32 DEF SettleTimesOut, Finish, Placed, Types, Waited, Remote, Elevated, TransportGoes
<1>33. ASSUME NEW how \in {"wait", "shutdown"}, Ends(how) PROVE Placed'
  BY <1>33 DEF Ends, Placed, Types, Waited, Remote, Elevated, TransportGoes
<1> QED
  BY <1>1, <1>2, <1>3, <1>4, <1>5, <1>6, <1>7, <1>8, <1>9, <1>10, <1>11, <1>12, <1>13, <1>14,
     <1>15, <1>16, <1>17, <1>18, <1>19, <1>20, <1>21, <1>22, <1>23, <1>24, <1>25, <1>26, <1>27,
     <1>28, <1>29, <1>30, <1>31, <1>32, <1>33
     DEF Next, Opening, Ending, Draining, CommandSteps, Feeding

\* Standard input is as it was when nothing was put in or taken out.
LEMMA FedFrame ==
    ASSUME Fed, UNCHANGED <<case, asks, fed, sent, stdin, line, got>>,
           proc' = proc \/ proc' \in {"wrapper", "gone"}, inEnd' = "caller" => inEnd = "caller",
           pc' \in {"assemble"} \cup OpenPcs => pc \in {"assemble"} \cup OpenPcs,
           pc' \in {"spawn", "settle", "handoff"} => pc' = pc
    PROVE  Fed'
<1>1. PasswordLine' = PasswordLine /\ Full' = Full
  BY DEF PasswordLine, Full
<1>2. ASSUME NEW k, NEW h, Queued(k, h), proc' = proc PROVE Queued(k, h)'
  <2>1. Awaits(k, h)'
    BY <1>1, <1>2 DEF Queued, Awaits
  <2> QED
    BY <1>1, <1>2, <2>1 DEF Queued, OpenPcs
<1>3. ASSUME proc' \in Unstarted \cup {"discard"}
      PROVE  got' = <<>> /\ \E k \in 0..fed', h \in {0, 1} : Queued(k, h)'
  <2>1. proc' = proc
    BY <1>3 DEF Unstarted
  <2>2. PICK k \in 0..fed, h \in {0, 1} : Queued(k, h)
    BY <1>3, <2>1 DEF Fed
  <2> QED
    BY <1>2, <1>3, <2>1, <2>2 DEF Fed
<1> QED
  BY <1>1, <1>3 DEF Fed, Unstarted

LEMMA FedStep == Types /\ Placed /\ Layout /\ Fed /\ [Next]_vars => Fed'
<1> SUFFICES ASSUME Types, Placed, Layout, Fed, [Next]_vars PROVE Fed'
  OBVIOUS
<1> USE DEF setup, opener, ours, pipes, theirs, said, local, thread, OpeningPcs, OpenPcs, Unstarted
<1>a. case \in Cases
  BY DEF Types
<1>b. case.mode \in {"direct", "sudo", "ssh", "sshsudo"}
  BY <1>a, CaseFacts
<1>1. CASE UNCHANGED vars
  BY <1>1, FedFrame DEF vars, TransportGoes
<1>2. CASE Spawn
  <2>1. /\ proc = "none" /\ fed = 0 /\ sent = 0 /\ stdin = <<>> /\ line = <<>> /\ got = <<>>
        /\ inEnd = "channel" /\ fed <= Len(PasswordLine)
    BY <1>2 DEF Spawn, Placed, Fed
  <2>2. /\ UNCHANGED <<case, fed, sent, stdin, line, got, inEnd>> /\ pc' \in {"assemble", "settle"}
        /\ proc' \in {"sudo", "announce", "command"}
    BY <1>2 DEF Spawn
  <2>3. PasswordLine' = PasswordLine
    BY <2>2 DEF PasswordLine
  <2>4. Queued(0, 0)' \/ proc' = "command"
    BY <2>1, <2>2, <2>3 DEF Queued, Awaits
  <2>5. Len(stdin) = 0 /\ Len(got) = 0 /\ 0 \in 0..fed'
    BY <2>1, <2>2
  <2> QED
    BY <2>1, <2>2, <2>3, <2>4, <2>5 DEF Fed
<1>3. CASE SettleTurn
  <2>1. /\ UNCHANGED <<case, asks, proc, sent, line, got, inEnd>> /\ pc = "settle"
        /\ pc' \in {"settle", "refuse"} /\ inEnd = "channel" /\ proc \notin {"command", "none"}
    BY <1>3 DEF SettleTurn, Placed
  <2>2. PasswordLine' = PasswordLine
    BY <2>1 DEF PasswordLine
  <2>3. \/ UNCHANGED <<fed, stdin>>
        \/ proc = "gone" /\ fed' = Len(PasswordLine)
        \/ ~Full /\ proc # "gone" /\ fed' = fed + 1 /\ stdin' = Append(stdin, PasswordLine[fed + 1])
    BY <1>3 DEF SettleTurn
  <2>4. CASE UNCHANGED <<fed, stdin>>
    BY <2>1, <2>4, FedFrame
  <2>5. CASE proc = "gone" /\ fed' = Len(PasswordLine)
    <3>1. fed' <= Len(PasswordLine)'
      BY <1>a, <2>2, <2>5, PasswordIs
    <3> QED
      BY <2>1, <2>5, <3>1 DEF Fed
  <2>6. CASE ~Full /\ proc # "gone" /\ fed' = fed + 1 /\ stdin' = Append(stdin, PasswordLine[fed + 1])
    <3>1. fed \in Nat /\ Len(PasswordLine) \in Nat /\ fed < Len(PasswordLine)
      BY <1>a, <2>6, PasswordIs DEF Full, Types
    <3>2. CASE proc \in Unstarted \cup {"discard"}
      <4>1. PICK k \in 0..fed, h \in {0, 1} : Queued(k, h)
        BY <3>2 DEF Fed
      <4>2. h = 0 /\ sent = 0
        BY <2>6, <4>1 DEF Queued
      <4>3. Awaits(k, 0)
        BY <4>1, <4>2 DEF Queued
      <4>4. Awaits(k, 0)'
        BY <2>1, <2>6, <3>1, <4>2, <4>3, PasswordAdded
      <4>5. Queued(k, 0)'
        BY <2>1, <2>2, <4>1, <4>2, <4>4 DEF Queued
      <4>6. k \in 0..(fed + 1) /\ fed + 1 <= Len(PasswordLine)
        BY <3>1
      <4> QED
        BY <2>1, <2>2, <2>6, <4>5, <4>6 DEF Fed
    <3>3. CASE proc = "wrapper"
      BY <2>1, <2>2, <2>6, <3>1, <3>3 DEF Fed
    <3> QED
      BY <2>1, <2>6, <3>2, <3>3 DEF Types
  <2> QED
    BY <2>3, <2>4, <2>5, <2>6
<1>4. CASE SettleDecides
  <2>1. CASE Settled = "started"
    <3>1. Full /\ pc' = "handoff" /\ pc = "settle"
      BY <1>4, <2>1, SettledIs DEF SettleDecides
    <3>2. UNCHANGED <<case, asks, fed, sent, stdin, line, got, proc, inEnd>> /\ inEnd = "channel"
      BY <1>4 DEF SettleDecides, Placed
    <3>3. Full' = Full /\ PasswordLine' = PasswordLine
      BY <3>2 DEF Full, PasswordLine
    <3>4. \A k, h : Awaits(k, h) => Awaits(k, h)'
      BY <3>2, <3>3 DEF Awaits
    <3>5. \A k, h : Queued(k, h) => Queued(k, h)'
      BY <3>1, <3>2, <3>3, <3>4 DEF Queued
    <3> QED
      BY <3>1, <3>2, <3>3, <3>5 DEF Fed
  <2>2. CASE Settled # "started"
    BY <1>4, <2>2, FedFrame DEF SettleDecides
  <2> QED
    BY <2>1, <2>2
<1>5. CASE HandOff
  <2>1. /\ UNCHANGED <<case, asks, fed, sent, line, got, proc, inEnd>> /\ inEnd = "channel"
        /\ pc = "handoff" /\ pc' = "assemble" /\ Full /\ proc \in {"discard", "gone"}
    BY <1>5 DEF HandOff, Placed, Types, Fed
  <2>2. Full' = Full /\ PasswordLine' = PasswordLine
    BY <2>1 DEF Full, PasswordLine
  <2>3. CASE proc = "gone"
    BY <2>1, <2>2, <2>3 DEF Fed
  <2>4. CASE proc = "discard"
    <3>1. PICK k \in 0..fed, h \in {0, 1} : Queued(k, h)
      BY <2>4 DEF Fed
    <3>2. h = 0 /\ sent = 0 /\ Awaits(k, 0)
      BY <2>1, <3>1 DEF Queued
    <3>3. Awaits(k, 1)'
      BY <1>5, <2>1, <2>4, <3>2, HandoffAdded DEF HandOff
    <3>4. Queued(k, 1)'
      BY <2>1, <2>2, <2>4, <3>1, <3>3 DEF Queued
    <3> QED
      BY <2>1, <2>2, <2>4, <3>4 DEF Fed
  <2> QED
    BY <2>1, <2>3, <2>4
<1>6. CASE Assemble
  <2>1. /\ UNCHANGED <<case, asks, fed, sent, stdin, line, got, proc>>
        /\ pc = "assemble" /\ pc' = "open" /\ proc \notin Unstarted
    BY <1>6 DEF Assemble, Placed
  <2>2. Full' = Full /\ PasswordLine' = PasswordLine
    BY <2>1 DEF Full, PasswordLine
  <2>3. ASSUME NEW k, NEW h, Queued(k, h), proc = "discard" PROVE Queued(k, h)'
    <3>1. Awaits(k, h)'
      BY <2>1, <2>2, <2>3 DEF Queued, Awaits
    <3> QED
      BY <2>1, <2>2, <2>3, <3>1 DEF Queued
  <2>4. ASSUME proc' \in Unstarted \cup {"discard"}
        PROVE  got' = <<>> /\ \E k \in 0..fed', h \in {0, 1} : Queued(k, h)'
    <3>1. proc = "discard"
      BY <2>1, <2>4
    <3>2. PICK k \in 0..fed, h \in {0, 1} : Queued(k, h)
      BY <3>1 DEF Fed
    <3> QED
      BY <2>1, <2>3, <3>1, <3>2 DEF Fed
  <2> QED
    BY <2>1, <2>2, <2>4 DEF Fed
<1>7. CASE Refuse
  BY <1>7, FedFrame DEF Refuse, TransportGoes
<1>8. CASE WaitReaps
  BY <1>8, FedFrame DEF WaitReaps, TransportGoes
<1>9. CASE StopDrain
  BY <1>9, FedFrame DEF StopDrain, TransportGoes
<1>10. CASE ShutDown
  BY <1>10, FedFrame DEF ShutDown, TransportGoes
<1>11. CASE Join
  BY <1>11, FedFrame DEF Join, TransportGoes
<1>12. CASE DrainStops
  BY <1>12, FedFrame DEF DrainStops, TransportGoes
<1>13. CASE DrainReads
  BY <1>13, FedFrame DEF DrainReads, TransportGoes
<1>14. CASE CommandReads
  <2>1. /\ UNCHANGED <<case, fed, sent, line, proc, pc>> /\ proc = "command"
    BY <1>14 DEF CommandReads
  <2>2. PasswordLine' = PasswordLine /\ Full' = Full
    BY <2>1 DEF PasswordLine, Full
  <2>3. /\ Len(got) + Len(stdin) = sent /\ Len(got) <= sent /\ fed <= Len(PasswordLine)
        /\ \A i \in 1..Len(stdin) : stdin[i] = CallerBytes[Len(got) + i]
        /\ \A i \in 1..Len(got) : got[i] = CallerBytes[i]
        /\ pc = "handoff" => Full
    BY <2>1 DEF Fed
  <2>4. CASE UNCHANGED <<got, stdin>>
    BY <2>1, <2>2, <2>3, <2>4 DEF Fed
  <2>5. CASE stdin # <<>> /\ got' = Append(got, Head(stdin)) /\ stdin' = Tail(stdin)
    <3>1. /\ Len(stdin) \in Nat \ {0} /\ Len(stdin') = Len(stdin) - 1 /\ Head(stdin) = stdin[1]
          /\ \A i \in 1..(Len(stdin) - 1) : stdin'[i] = stdin[i + 1] /\ Head(stdin) \in InTokens
      BY <2>5, TailIs DEF Types
    <3>0. Head(stdin) \in InTokens
      BY <2>5, TailIs DEF Types
    <3>2. /\ Len(got') = Len(got) + 1 /\ Len(got) \in Nat /\ got'[Len(got) + 1] = Head(stdin)
          /\ \A i \in 1..Len(got) : got'[i] = got[i]
      BY <2>5, <3>0, AppendIs DEF Types
    <3>3. Head(stdin) = CallerBytes[Len(got) + 1]
      BY <2>3, <3>1
    <3>4. \A i \in 1..Len(got') : got'[i] = CallerBytes[i]
      BY <2>3, <3>2, <3>3
    <3>5. ASSUME NEW i \in 1..Len(stdin') PROVE stdin'[i] = CallerBytes[Len(got') + i]
      <4>1. i \in 1..(Len(stdin) - 1) /\ i + 1 \in 1..Len(stdin) /\ Len(got) + (i + 1) = Len(got') + i
        BY <3>1, <3>2
      <4> QED
        BY <2>3, <3>1, <4>1
    <3>6. Len(got') + Len(stdin') = sent /\ Len(got') <= sent
      BY <2>3, <3>1, <3>2
    <3> QED
      BY <2>1, <2>2, <2>3, <3>4, <3>5, <3>6 DEF Fed
  <2> QED
    BY <1>14, <2>4, <2>5 DEF CommandReads
<1>15. CASE CommandPrints
  BY <1>15, FedFrame DEF CommandPrints, TransportGoes
<1>16. CASE Sudo
  <2>1. /\ UNCHANGED <<case, asks, fed, sent, line, got, inEnd, pc>> /\ proc = "sudo" /\ got = <<>>
        /\ pc \notin {"handoff", "assemble"} \cup OpenPcs
    BY <1>16 DEF Sudo, Placed, Fed
  <2>2. PasswordLine' = PasswordLine /\ Full' = Full
    BY <2>1 DEF PasswordLine, Full
  <2>3. PICK k \in 0..fed, h \in {0, 1} : Queued(k, h)
    BY <2>1 DEF Fed
  <2>4. /\ h = 0 /\ sent = 0 /\ Awaits(k, 0) /\ line = <<>> /\ (asks = "cached" => k = 0)
        /\ inEnd # "caller"
    BY <2>1, <2>3 DEF Queued
  <2>5. /\ fed \in Nat /\ fed <= Len(PasswordLine) /\ Len(PasswordLine) \in {0, 2}
        /\ Len(PasswordLine) = 2 => case.password
        /\ case.password => PasswordLine[1] = "p" /\ PasswordLine[2] = "q"
        /\ case.password => Len(PasswordLine) = 2
    BY <1>a, PasswordIs DEF Fed, Types
  <2>6. \/ (asks = "cached" \/ ~case.password) /\ proc' = "announce" /\ stdin' = stdin
        \/ /\ asks # "cached" /\ stdin # <<>> /\ stdin' = Tail(stdin)
           /\ proc' = "sudo" \/ (proc' = "announce" /\ Head(stdin) = "q") \/ proc' = "gone"
        \/ proc' = "gone"
    BY <1>16 DEF Sudo, TransportGoes
  <2>7. CASE (asks = "cached" \/ ~case.password) /\ proc' = "announce" /\ stdin' = stdin
    <3>1. k = 0
      BY <2>4, <2>5, <2>7
    <3>2. Awaits(k, 0)'
      BY <2>1, <2>2, <2>4, <2>7 DEF Awaits
    <3>3. Queued(k, 0)'
      BY <2>1, <2>2, <2>4, <2>7, <3>1, <3>2 DEF Queued
    <3> QED
      BY <2>1, <2>2, <2>5, <2>7, <3>3 DEF Fed
  <2>8. CASE /\ asks # "cached" /\ stdin # <<>> /\ stdin' = Tail(stdin)
             /\ proc' = "sudo" \/ (proc' = "announce" /\ Head(stdin) = "q")
    <3>1. k # fed
      BY <2>3, <2>4, <2>8, FirstWaiting
    <3>2. k < fed /\ k + 1 \in 0..fed
      BY <2>5, <3>1
    <3>3. Awaits(k + 1, 0)' /\ Head(stdin) = PasswordLine[k + 1]
      BY <2>1, <2>4, <2>8, <3>2, LeadTaken, FirstWaiting
    <3>4. Len(PasswordLine) = 2 /\ k \in {0, 1} /\ case.password
      <4>1. Len(PasswordLine) # 0
        BY <2>5, <3>2
      <4>2. Len(PasswordLine) = 2
        BY <2>5, <4>1
      <4> QED
        BY <2>5, <3>2, <4>2
    <3>5. proc' = "announce" => k = 1
      BY <2>5, <2>8, <3>3, <3>4
    <3>6. Queued(k + 1, 0)'
      BY <2>1, <2>2, <2>4, <2>8, <3>3, <3>4, <3>5 DEF Queued
    <3> QED
      BY <2>1, <2>2, <2>5, <2>8, <3>2, <3>6 DEF Fed
  <2>9. CASE proc' = "gone"
    BY <2>1, <2>2, <2>5, <2>9 DEF Fed
  <2> QED
    BY <2>6, <2>7, <2>8, <2>9
<1>17. CASE Announce
  <2>1. /\ UNCHANGED <<case, asks, fed, sent, line, got, inEnd, pc, stdin>>
        /\ proc \in {"announce", "announced"} /\ proc' \in {"announced", "discard"}
        /\ pc \notin {"handoff", "assemble"} \cup OpenPcs
    BY <1>17 DEF Announce, Placed
  <2>2. PasswordLine' = PasswordLine /\ Full' = Full
    BY <2>1 DEF PasswordLine, Full
  <2>3. PICK k \in 0..fed, h \in {0, 1} : Queued(k, h)
    BY <2>1 DEF Fed
  <2>4. Awaits(k, h)'
    BY <2>1, <2>2, <2>3 DEF Queued, Awaits
  <2>5. Queued(k, h)'
    BY <2>1, <2>2, <2>3, <2>4 DEF Queued
  <2> QED
    BY <2>1, <2>2, <2>3, <2>5 DEF Fed
<1>18. CASE Discard
  <2>1. /\ UNCHANGED <<case, asks, fed, sent, got, inEnd, pc>> /\ proc = "discard" /\ got = <<>>
        /\ fed <= Len(PasswordLine) /\ (pc = "handoff" => Full)
    BY <1>18 DEF Discard, Fed
  <2>2. PasswordLine' = PasswordLine /\ Full' = Full
    BY <2>1 DEF PasswordLine, Full
  <2>3. CASE proc' \in {"wrapper", "gone"} /\ UNCHANGED <<stdin, line>>
    BY <2>1, <2>3, FedFrame
  <2>4. CASE /\ stdin # <<>> /\ stdin' = Tail(stdin)
             /\ line' = IF Head(stdin) \in {"q", "H"} THEN <<>> ELSE Append(line, Head(stdin))
             /\ proc' = IF line = <<>> /\ Head(stdin) = "H" THEN "command" ELSE proc
    <3>1. PICK k \in 0..fed, h \in {0, 1} : Queued(k, h)
      BY <2>1 DEF Fed
    <3>2. /\ Awaits(k, h) /\ (h = 0 => sent = 0)
          /\ IF line = <<>> THEN k \in {0, Len(PasswordLine)} ELSE k = 1 /\ Len(PasswordLine) = 2
          /\ h = 1 => Full
      BY <2>1, <3>1 DEF Queued
    <3>3. /\ fed \in Nat /\ Len(PasswordLine) \in {0, 2} /\ line \in Seq(InTokens)
          /\ Len(PasswordLine) = 2 => PasswordLine[1] = "p" /\ PasswordLine[2] = "q"
      BY <1>a, PasswordIs DEF Types
    <3>4. CASE k = fed
      <4>1. h = 1 /\ Head(stdin) = "H" /\ Full /\ Awaits(fed, 1)
        BY <2>4, <3>2, <3>4, FirstWaiting
      <4>2. fed = Len(PasswordLine)
        BY <2>1, <3>3, <4>1 DEF Full
      <4>3. line = <<>>
        <5>0. k = Len(PasswordLine)
          BY <3>4, <4>2, Zenon
        <5>1. ~(k = 1 /\ Len(PasswordLine) = 2)
          BY <5>0
        <5> QED
          BY <3>2, <5>1
      <4>4. Len(stdin') = sent /\ \A i \in 1..Len(stdin') : stdin'[i] = CallerBytes[i]
        BY <2>4, <4>1, HandoffTaken
      <4>5. proc' = "command" /\ Len(got) = 0 /\ sent \in Nat
        BY <2>1, <2>4, <4>1, <4>3 DEF Types
      <4>6. stdin' \in Seq(InTokens) /\ Len(stdin') \in Nat
        BY <2>4, TailIs, LenProperties DEF Types
      <4>7. \A i \in 1..Len(stdin') : Len(got) + i = i
        BY <4>5, <4>6
      <4> QED
        BY <2>1, <2>2, <4>4, <4>5, <4>7 DEF Fed
    <3>5. CASE k # fed
      <4>1. k < fed /\ k + 1 \in 0..fed
        BY <3>3, <3>5
      <4>2. Awaits(k + 1, h)' /\ Head(stdin) = PasswordLine[k + 1]
        BY <2>1, <2>4, <3>2, <4>1, LeadTaken, FirstWaiting
      <4>3. Len(PasswordLine) = 2 /\ k \in {0, 1}
        <5>1. Len(PasswordLine) # 0
          BY <2>1, <3>3, <4>1
        <5>2. Len(PasswordLine) = 2
          BY <3>3, <5>1
        <5> QED
          BY <2>1, <3>3, <4>1, <5>2
      <4>4. k = 0 \/ k = 1
        BY <4>3
      <4>5. CASE k = 0
        <5>1. Head(stdin) = "p" /\ line = <<>>
          BY <3>2, <3>3, <4>2, <4>3, <4>5
        <5>2. line' = Append(line, "p") /\ proc' = "discard"
          BY <2>1, <2>4, <5>1
        <5>3. Len(line') = Len(line) + 1 /\ Len(line) \in Nat
          BY <3>3, <5>2, AppendIs DEF InTokens
        <5>4. line' # <<>>
          BY <5>3
        <5>5. Queued(k + 1, h)'
          BY <2>1, <2>2, <3>1, <4>2, <4>3, <4>5, <5>2, <5>4 DEF Queued
        <5> QED
          BY <2>1, <2>2, <4>1, <5>2, <5>5 DEF Fed
      <4>6. CASE k = 1
        <5>1. Head(stdin) = "q"
          BY <3>3, <4>2, <4>3, <4>6
        <5>2. line' = <<>> /\ proc' = "discard"
          BY <2>1, <2>4, <5>1
        <5>3. Queued(k + 1, h)'
          BY <2>1, <2>2, <3>1, <4>2, <4>3, <4>6, <5>2 DEF Queued
        <5> QED
          BY <2>1, <2>2, <4>1, <5>2, <5>3 DEF Fed
      <4> QED
        BY <4>4, <4>5, <4>6
    <3> QED
      BY <3>4, <3>5
  <2> QED
    BY <1>18, <2>3, <2>4 DEF Discard, TransportGoes
<1>19. CASE WrapperReports
  BY <1>19, FedFrame DEF WrapperReports, TransportGoes
<1>20. CASE ConnectionLost
  BY <1>20, FedFrame DEF ConnectionLost, TransportGoes
<1>21. CASE DescendantGoes
  BY <1>21, FedFrame DEF DescendantGoes, TransportGoes
<1>22. CASE SpawnFails
  BY <1>22, FedFrame DEF SpawnFails, TransportGoes
<1>23. CASE AssembleFails
  BY <1>23, FedFrame DEF AssembleFails, TransportGoes
<1>24. CASE DrainFails
  BY <1>24, FedFrame DEF DrainFails, TransportGoes
<1>25. CASE WaitFails
  BY <1>25, FedFrame DEF WaitFails, TransportGoes
<1>26. CASE CallerWrites
  <2>1. /\ UNCHANGED <<case, asks, fed, line, got, inEnd, pc, proc>> /\ inEnd = "caller"
        /\ sent < case.input /\ sent' = sent + 1 /\ stdin' = Append(stdin, CallerBytes[sent + 1])
        /\ pc \notin OpeningPcs
    BY <1>26 DEF CallerWrites, Placed
  <2>2. PasswordLine' = PasswordLine /\ Full' = Full
    BY <2>1 DEF PasswordLine, Full
  <2>3. /\ sent \in Nat /\ sent + 1 \in 1..3 /\ Len(got) \in Nat /\ Len(got) <= sent
        /\ \A i \in 1..Len(got) : got[i] = CallerBytes[i]
    BY <1>a, <2>1, CaseFacts, LenProperties DEF Types, Fed
  <2>4. CASE proc \in Unstarted \cup {"discard"}
    <3>1. PICK k \in 0..fed, h \in {0, 1} : Queued(k, h)
      BY <2>4 DEF Fed
    <3>2. h = 1 /\ Awaits(k, 1)
      BY <2>1, <3>1 DEF Queued
    <3>3. Awaits(k, 1)'
      BY <2>1, <3>2, ByteAdded
    <3>4. Queued(k, 1)'
      BY <2>1, <2>2, <3>1, <3>2, <3>3 DEF Queued
    <3>5. proc # "none" /\ proc # "command"
      BY <2>1, <2>4 DEF Placed
    <3> QED
      BY <2>1, <2>2, <2>3, <2>4, <3>4, <3>5 DEF Fed
  <2>5. CASE proc = "command"
    <3>1. /\ Len(got) + Len(stdin) = sent
          /\ \A i \in 1..Len(stdin) : stdin[i] = CallerBytes[Len(got) + i]
      BY <2>5 DEF Fed
    <3>2. CallerBytes[sent + 1] \in InTokens
      BY <2>3, BytesAre, ElementOfSeq
    <3>3. /\ Len(stdin) \in Nat /\ Len(stdin') = Len(stdin) + 1
          /\ stdin'[Len(stdin) + 1] = CallerBytes[sent + 1]
          /\ \A i \in 1..Len(stdin) : stdin'[i] = stdin[i]
      BY <2>1, <3>2, Behind
    <3>4. ASSUME NEW i \in 1..Len(stdin') PROVE stdin'[i] = CallerBytes[Len(got) + i]
      <4>1. CASE i \in 1..Len(stdin)
        BY <3>1, <3>3, <4>1
      <4>2. CASE i = Len(stdin) + 1
        <5>1. Len(got) + i = sent + 1
          BY <2>3, <3>1, <3>3, <4>2
        <5> QED
          BY <3>3, <4>2, <5>1
      <4> QED
        BY <3>3, <4>1, <4>2
    <3>5. Len(got) + Len(stdin') = sent + 1 /\ Len(got) <= sent + 1
      BY <2>3, <3>1, <3>3
    <3> QED
      BY <2>1, <2>2, <2>3, <2>5, <3>4, <3>5 DEF Fed
  <2>6. CASE proc \in {"wrapper", "gone"}
    BY <2>1, <2>2, <2>3, <2>6 DEF Fed
  <2> QED
    BY <2>4, <2>5, <2>6 DEF Types
<1>27. CASE CallerReads
  BY <1>27, FedFrame DEF CallerReads, TransportGoes
<1>28. CASE CallerCloses
  BY <1>28, FedFrame DEF CallerCloses, TransportGoes
<1>29. ASSUME NEW w \in case.words \cup {<<"c">>}, CommandErrs(w) PROVE Fed'
  BY <1>29, FedFrame DEF CommandErrs, TransportGoes
<1>30. ASSUME NEW tok \in {"t", "s"}, TransportText(tok) PROVE Fed'
  BY <1>30, FedFrame DEF TransportText, TransportGoes
<1>31. ASSUME NEW code \in {"0", "1"}, CommandExits(code) PROVE Fed'
  BY <1>31, FedFrame DEF CommandExits, TransportGoes
<1>32. ASSUME NEW how \in {"timeout", "spawn"}, SettleTimesOut(how) PROVE Fed'
  BY <1>32, FedFrame DEF SettleTimesOut, TransportGoes
<1>33. ASSUME NEW how \in {"wait", "shutdown"}, Ends(how) PROVE Fed'
  BY <1>33, FedFrame DEF Ends, TransportGoes
<1> QED
  BY <1>1, <1>2, <1>3, <1>4, <1>5, <1>6, <1>7, <1>8, <1>9, <1>10, <1>11, <1>12, <1>13, <1>14,
     <1>15, <1>16, <1>17, <1>18, <1>19, <1>20, <1>21, <1>22, <1>23, <1>24, <1>25, <1>26, <1>27,
     <1>28, <1>29, <1>30, <1>31, <1>32, <1>33
     DEF Next, Opening, Ending, Draining, CommandSteps, Feeding
-----------------------------------------------------------------------------
(* Standard error.                                                         *)

LEMMA LinedFrame == ASSUME Lined, UNCHANGED <<case, tail, rc>> PROVE Lined'
BY DEF Lined, Remote, StatusLine

\* The wrapper's line is made when the command has ended.
LEMMA LineMade ==
    ASSUME NEW code \in {"0", "1"}, UNCHANGED case, Remote, tail' = StatusLine(code), rc' = code
    PROVE  Lined'
<1>1. Len(tail') = 4 /\ \A i \in 1..4 : 4 - 4 + i = i
  BY LineIs
<1>2. rc' # "none" /\ Remote' /\ StatusLine(rc)' = StatusLine(code)
  BY DEF Remote, StatusLine
<1>3. \A i \in 1..Len(tail') : tail'[i] = StatusLine(rc)'[4 - Len(tail') + i]
  BY <1>1, <1>2
<1> QED
  BY <1>1, <1>2, <1>3 DEF Lined

LEMMA LinedStep == Types /\ Placed /\ Lined /\ [Next]_vars => Lined'
<1> SUFFICES ASSUME Types, Placed, Lined, [Next]_vars PROVE Lined'
  OBVIOUS
<1> USE DEF setup, opener, ours, pipes, theirs, said, local, thread, OpeningPcs, OpenPcs, Unstarted
<1>a. case \in Cases
  BY DEF Types
<1>b. case.mode \in {"direct", "sudo", "ssh", "sshsudo"}
  BY <1>a, CaseFacts
<1>1. CASE UNCHANGED vars
  BY <1>1, LinedFrame DEF vars
<1>2. CASE Spawn
  BY <1>2, LinedFrame DEF Spawn
<1>3. CASE SettleTurn
  BY <1>3, LinedFrame DEF SettleTurn
<1>4. CASE SettleDecides
  BY <1>4, LinedFrame DEF SettleDecides
<1>5. CASE HandOff
  BY <1>5, LinedFrame DEF HandOff
<1>6. CASE Assemble
  BY <1>6, LinedFrame DEF Assemble
<1>7. CASE Refuse
  BY <1>7, LinedFrame DEF Refuse
<1>8. CASE WaitReaps
  BY <1>8, LinedFrame DEF WaitReaps
<1>9. CASE StopDrain
  BY <1>9, LinedFrame DEF StopDrain
<1>10. CASE ShutDown
  BY <1>10, LinedFrame DEF ShutDown
<1>11. CASE Join
  BY <1>11, LinedFrame DEF Join
<1>12. CASE DrainStops
  BY <1>12, LinedFrame DEF DrainStops
<1>13. CASE DrainReads
  BY <1>13, LinedFrame DEF DrainReads
<1>14. CASE CommandReads
  BY <1>14, LinedFrame DEF CommandReads
<1>15. CASE CommandPrints
  BY <1>15, LinedFrame DEF CommandPrints
<1>16. CASE Sudo
  BY <1>16, LinedFrame DEF Sudo
<1>17. CASE Announce
  BY <1>17, LinedFrame DEF Announce
<1>18. CASE Discard
  <2>1. CASE Remote /\ tail' = StatusLine("1") /\ rc' = "1"
    BY <1>18, <2>1, LineMade DEF Discard
  <2>2. CASE UNCHANGED <<tail, rc>>
    BY <1>18, <2>2, LinedFrame DEF Discard
  <2> QED
    BY <1>18, <2>1, <2>2 DEF Discard, StatusLine
<1>19. CASE WrapperReports
  <2>1. CASE tail # <<>>
    <3>1. /\ Len(tail) \in Nat \ {0} /\ Len(tail') = Len(tail) - 1
          /\ \A i \in 1..(Len(tail) - 1) : tail'[i] = tail[i + 1]
      BY <1>19, <2>1, TailIs DEF WrapperReports, Types
    <3>2. UNCHANGED <<case, rc>> /\ Remote' = Remote /\ StatusLine(rc)' = StatusLine(rc)
      BY <1>19 DEF WrapperReports, Remote, StatusLine
    <3>3. Remote /\ rc # "none"
      BY <1>19, <2>1 DEF Lined, WrapperReports
    <3>4. Len(tail) <= 4 /\ \A i \in 1..Len(tail) : tail[i] = StatusLine(rc)[4 - Len(tail) + i]
      BY <3>3 DEF Lined
    <3>5. ASSUME NEW i \in 1..Len(tail') PROVE tail'[i] = StatusLine(rc)[4 - Len(tail') + i]
      <4>1. /\ i \in 1..(Len(tail) - 1) /\ i + 1 \in 1..Len(tail)
            /\ 4 - Len(tail) + (i + 1) = 4 - Len(tail') + i
        BY <3>1
      <4> QED
        BY <3>1, <3>4, <4>1
    <3>6. Len(tail') <= 4
      BY <3>1, <3>4
    <3> QED
      BY <3>2, <3>3, <3>5, <3>6 DEF Lined
  <2>2. CASE tail = <<>>
    BY <1>19, <2>2, LinedFrame DEF WrapperReports
  <2> QED
    BY <2>1, <2>2
<1>20. CASE ConnectionLost
  BY <1>20, LinedFrame DEF ConnectionLost
<1>21. CASE DescendantGoes
  BY <1>21, LinedFrame DEF DescendantGoes
<1>22. CASE SpawnFails
  BY <1>22, LinedFrame DEF SpawnFails
<1>23. CASE AssembleFails
  BY <1>23, LinedFrame DEF AssembleFails
<1>24. CASE DrainFails
  BY <1>24, LinedFrame DEF DrainFails
<1>25. CASE WaitFails
  BY <1>25, LinedFrame DEF WaitFails
<1>26. CASE CallerWrites
  BY <1>26, LinedFrame DEF CallerWrites
<1>27. CASE CallerReads
  BY <1>27, LinedFrame DEF CallerReads
<1>28. CASE CallerCloses
  BY <1>28, LinedFrame DEF CallerCloses
<1>29. ASSUME NEW w \in case.words \cup {<<"c">>}, CommandErrs(w) PROVE Lined'
  BY <1>29, LinedFrame DEF CommandErrs
<1>30. ASSUME NEW tok \in {"t", "s"}, TransportText(tok) PROVE Lined'
  BY <1>30, LinedFrame DEF TransportText
<1>31. ASSUME NEW code \in {"0", "1"}, CommandExits(code) PROVE Lined'
  <2>1. CASE Remote
    BY <1>31, <2>1, LineMade DEF CommandExits, StatusLine
  <2>2. CASE ~Remote
    BY <1>31, <2>2 DEF CommandExits, Lined, Remote
  <2> QED
    BY <2>1, <2>2
<1>32. ASSUME NEW how \in {"timeout", "spawn"}, SettleTimesOut(how) PROVE Lined'
  BY <1>32, LinedFrame DEF SettleTimesOut
<1>33. ASSUME NEW how \in {"wait", "shutdown"}, Ends(how) PROVE Lined'
  BY <1>33, LinedFrame DEF Ends
<1> QED
  BY <1>1, <1>2, <1>3, <1>4, <1>5, <1>6, <1>7, <1>8, <1>9, <1>10, <1>11, <1>12, <1>13, <1>14,
     <1>15, <1>16, <1>17, <1>18, <1>19, <1>20, <1>21, <1>22, <1>23, <1>24, <1>25, <1>26, <1>27,
     <1>28, <1>29, <1>30, <1>31, <1>32, <1>33
     DEF Next, Opening, Ending, Draining, CommandSteps, Feeding

\* What the command's side of standard error consists of.
StreamFacts ==
    \A n \in Nat : Types /\ Lined /\ Parts(n) =>
        /\ Reported \in 0..4 /\ Len(cmdErr) \in Nat /\ n \in 0..Len(cmdErr)
        /\ Stream(n) \in Seq(ErrTokens) /\ Len(Stream(n)) = Len(cmdErr) + Reported
        /\ \A i \in 1..n : Stream(n)[i] = cmdErr[i]
        /\ \A i \in 1..Reported : Stream(n)[n + i] = StatusLine(rc)[i]
        /\ \A i \in (n + Reported + 1)..(Len(cmdErr) + Reported) : Stream(n)[i] = cmdErr[i - Reported]

LEMMA StreamIs == StreamFacts
<1> SUFFICES ASSUME NEW n \in Nat, Types, Lined, Parts(n)
             PROVE  /\ Reported \in 0..4 /\ Len(cmdErr) \in Nat /\ n \in 0..Len(cmdErr)
                    /\ Stream(n) \in Seq(ErrTokens) /\ Len(Stream(n)) = Len(cmdErr) + Reported
                    /\ \A i \in 1..n : Stream(n)[i] = cmdErr[i]
                    /\ \A i \in 1..Reported : Stream(n)[n + i] = StatusLine(rc)[i]
                    /\ \A i \in (n + Reported + 1)..(Len(cmdErr) + Reported) :
                         Stream(n)[i] = cmdErr[i - Reported]
  BY Zenon DEF StreamFacts
<1>1. Reported \in 0..4
  <2>1. tail \in Seq(Spoken) /\ Len(tail) \in Nat
    BY LenProperties DEF Types
  <2>2. CASE Remote /\ rc # "none"
    <3>1. Len(tail) <= 4
      BY <2>2, Zenon DEF Lined
    <3>2. \A l \in Nat : l <= 4 => 4 - l \in 0..4
      OBVIOUS
    <3>3. 4 - Len(tail) \in 0..4
      BY <2>1, <3>1, <3>2, Zenon
    <3>4. Reported = 4 - Len(tail)
      BY <2>2, Zenon DEF Reported
    <3> QED
      BY <3>3, <3>4, Zenon
  <2>3. CASE ~(Remote /\ rc # "none")
    BY <2>3 DEF Reported
  <2> QED
    BY <2>2, <2>3
<1>2. Len(cmdErr) \in Nat /\ n \in 0..Len(cmdErr) /\ cmdErr \in Seq(Spoken)
  BY LenProperties DEF Types, Parts
<1> DEFINE top == Len(cmdErr) + Reported
           at(i) == IF i <= n THEN cmdErr[i]
                    ELSE IF i <= n + Reported THEN StatusLine(rc)[i - n] ELSE cmdErr[i - Reported]
<1>3. Stream(n) = [i \in 1..top |-> at(i)]
  BY Zenon DEF Stream
<1>4. ASSUME NEW i \in 1..top PROVE at(i) \in ErrTokens
  <2>1. CASE i <= n
    <3>1. i \in 1..Len(cmdErr)
      BY <1>2, <2>1
    <3>2. cmdErr[i] \in Spoken
      BY <1>2, <3>1, ElementOfSeq
    <3> QED
      BY <2>1, <3>2 DEF ErrTokens
  <2>2. CASE ~(i <= n) /\ i <= n + Reported
    <3>1. i - n \in 1..4 /\ Reported # 0
      BY <1>1, <1>2, <2>2
    <3>2. rc \in {"0", "1"}
      BY <3>1 DEF Reported, Types
    <3>3. StatusLine(rc)[i - n] \in Spoken
      BY <3>1, <3>2, LineIs, ElementOfSeq
    <3> QED
      BY <2>2, <3>3 DEF ErrTokens
  <2>3. CASE ~(i <= n) /\ ~(i <= n + Reported)
    <3>1. i - Reported \in 1..Len(cmdErr)
      BY <1>1, <1>2, <2>3
    <3>2. cmdErr[i - Reported] \in Spoken
      BY <1>2, <3>1, ElementOfSeq
    <3> QED
      BY <2>3, <3>2 DEF ErrTokens
  <2> QED
    BY <2>1, <2>2, <2>3
<1>5. top \in Nat
  BY <1>1, <1>2
<1> HIDE DEF at
<1>6. Stream(n) \in Seq(ErrTokens) /\ Len(Stream(n)) = top
  <2> HIDE DEF top
  <2> QED
    BY <1>3, <1>4, <1>5
<1>7. \A i \in 1..top : Stream(n)[i] = at(i)
  BY <1>3
<1>8. ASSUME NEW i \in 1..n PROVE Stream(n)[i] = cmdErr[i]
  <2>1. i \in 1..top /\ i <= n
    BY <1>1, <1>2
  <2> QED
    BY <1>7, <2>1 DEF at
<1>9. ASSUME NEW i \in 1..Reported PROVE Stream(n)[n + i] = StatusLine(rc)[i]
  <2>1. PICK j \in 1..top : j = n + i /\ ~(j <= n) /\ j <= n + Reported /\ j - n = i
    <3>1. n + i \in 1..top /\ ~(n + i <= n) /\ n + i <= n + Reported /\ n + i - n = i
      BY <1>1, <1>2
    <3> QED
      BY <3>1
  <2>2. at(j) = StatusLine(rc)[i]
    BY <2>1 DEF at
  <2>3. Stream(n)[j] = at(j)
    BY <1>7
  <2> QED
    BY <2>1, <2>2, <2>3
<1>10. ASSUME NEW i \in (n + Reported + 1)..(Len(cmdErr) + Reported)
       PROVE  Stream(n)[i] = cmdErr[i - Reported]
  <2>1. i \in 1..top /\ ~(i <= n) /\ ~(i <= n + Reported)
    BY <1>1, <1>2
  <2> QED
    BY <1>7, <2>1 DEF at
<1> QED
  BY <1>1, <1>2, <1>6, <1>8, <1>9, <1>10

\* Two sequences with the same front and the same back are the same.
LEMMA Joined ==
    ASSUME NEW T, NEW S \in Seq(T), NEW a \in Seq(T), NEW b \in Seq(T), Len(S) = Len(a) + Len(b),
           \A i \in 1..Len(a) : S[i] = a[i], \A i \in 1..Len(b) : S[Len(a) + i] = b[i]
    PROVE  S = a \o b
<1>1. /\ a \o b \in Seq(T) /\ Len(a \o b) = Len(a) + Len(b) /\ Len(a) \in Nat /\ Len(b) \in Nat
      /\ \A i \in 1..Len(a) : (a \o b)[i] = a[i]
      /\ \A j \in 1..Len(b) : (a \o b)[Len(a) + j] = b[j]
  BY Longer
<1>2. ASSUME NEW i \in 1..Len(S) PROVE S[i] = (a \o b)[i]
  <2>1. CASE i <= Len(a)
    BY <1>1, <2>1
  <2>2. CASE ~(i <= Len(a))
    <3>1. PICK j \in 1..Len(b) : i = Len(a) + j
      <4>1. i - Len(a) \in 1..Len(b) /\ i = Len(a) + (i - Len(a))
        BY <1>1, <2>2
      <4> QED
        BY <4>1
    <3> QED
      BY <1>1, <3>1
  <2> QED
    BY <2>1, <2>2
<1> QED
  BY <1>1, <1>2, SeqEqual

\* The command's side grows by what the command, or a descendant behind the
\* whole line, writes.
LEMMA StreamGrows ==
    ASSUME Types, Types', Lined, Lined', NEW n \in Nat, Parts(n), NEW w \in Seq(Spoken),
           cmdErr' = cmdErr \o w, UNCHANGED <<case, rc, tail>>,
           Reported = 0 \/ (Reported = 4 /\ w = <<"c">>)
    PROVE  \E m \in 0..Len(cmdErr') : Parts(m)' /\ Stream(m)' = Stream(n) \o w
<1>1. /\ Reported \in 0..4 /\ Len(cmdErr) \in Nat /\ n \in 0..Len(cmdErr)
      /\ Stream(n) \in Seq(ErrTokens) /\ Len(Stream(n)) = Len(cmdErr) + Reported
      /\ \A i \in 1..n : Stream(n)[i] = cmdErr[i]
      /\ \A i \in 1..Reported : Stream(n)[n + i] = StatusLine(rc)[i]
      /\ \A i \in (n + Reported + 1)..(Len(cmdErr) + Reported) : Stream(n)[i] = cmdErr[i - Reported]
  BY StreamIs DEF StreamFacts
<1>0. StreamFacts'
  BY StreamIs, PTL
<1>2. Reported' = Reported
  BY DEF Reported, Remote
<1>3. /\ Len(cmdErr') = Len(cmdErr) + Len(w) /\ Len(w) \in Nat
      /\ \A i \in 1..Len(cmdErr) : cmdErr'[i] = cmdErr[i]
      /\ \A j \in 1..Len(w) : cmdErr'[Len(cmdErr) + j] = w[j]
  BY Longer DEF Types
<1>4. w \in Seq(ErrTokens)
  BY WiderSeq DEF ErrTokens
<1>5. CASE Reported = 0
  <2>0. PICK m \in Nat : m = Len(cmdErr')
    BY <1>1, <1>3
  <2>1. n = Len(cmdErr)
    BY <1>5 DEF Parts
  <2>2. m \in 0..Len(cmdErr') /\ Parts(m)'
    BY <1>1, <1>3, <2>0 DEF Parts
  <2>3. /\ Stream(m)' \in Seq(ErrTokens) /\ Len(Stream(m)') = Len(cmdErr') + Reported'
        /\ \A i \in 1..m : Stream(m)'[i] = cmdErr'[i]
    BY <1>0, <2>2 DEF StreamFacts
  <2>4. Len(Stream(m)') = Len(Stream(n)) + Len(w)
    BY <1>1, <1>2, <1>3, <1>5, <2>3
  <2>5. \A i \in 1..Len(Stream(n)) : Stream(m)'[i] = Stream(n)[i]
    <3>1. Len(Stream(n)) = n /\ m = n + Len(w)
      BY <1>1, <1>3, <1>5, <2>0, <2>1
    <3> QED
      BY <1>1, <1>3, <2>1, <2>3, <3>1
  <2>6. ASSUME NEW i \in 1..Len(w) PROVE Stream(m)'[Len(Stream(n)) + i] = w[i]
    <3>1. Len(Stream(n)) + i \in 1..m /\ Len(Stream(n)) = Len(cmdErr)
      BY <1>1, <1>3, <1>5, <2>0
    <3> QED
      BY <1>3, <2>3, <3>1
  <2>7. Stream(m)' = Stream(n) \o w
    BY <1>1, <1>4, <2>3, <2>4, <2>5, <2>6, Joined
  <2> QED
    BY <2>2, <2>7
<1>6. CASE Reported = 4 /\ w = <<"c">>
  <2>1. Len(w) = 1 /\ w[1] = "c"
    BY <1>6
  <2>2. n \in 0..Len(cmdErr') /\ Parts(n)'
    <3>1. ASSUME NEW i \in (n + 1)..Len(cmdErr') PROVE cmdErr'[i] = "c"
      <4>1. CASE i <= Len(cmdErr)
        <5>1. i \in 1..Len(cmdErr) /\ i \in (n + 1)..Len(cmdErr)
          BY <1>1, <4>1
        <5> QED
          BY <1>3, <5>1 DEF Parts
      <4>2. CASE ~(i <= Len(cmdErr))
        <5>1. i = Len(cmdErr) + 1
          BY <1>1, <1>3, <2>1, <4>2
        <5> QED
          BY <1>3, <2>1, <5>1
      <4> QED
        BY <4>1, <4>2
    <3>2. n \in 0..Len(cmdErr')
      BY <1>1, <1>3
    <3>3. ~(Reported' < 4)
      BY <1>2, <1>6
    <3> QED
      BY <3>1, <3>2, <3>3 DEF Parts
  <2>3. /\ Stream(n)' \in Seq(ErrTokens) /\ Len(Stream(n)') = Len(cmdErr') + Reported'
        /\ \A i \in 1..n : Stream(n)'[i] = cmdErr'[i]
        /\ \A i \in 1..Reported' : Stream(n)'[n + i] = StatusLine(rc)'[i]
        /\ \A i \in (n + Reported' + 1)..(Len(cmdErr') + Reported') : Stream(n)'[i] = cmdErr'[i - Reported']
    BY <1>0, <2>2 DEF StreamFacts
  <2>4. Len(Stream(n)') = Len(Stream(n)) + Len(w)
    BY <1>1, <1>2, <1>3, <2>3
  <2>5. StatusLine(rc)' = StatusLine(rc)
    BY DEF StatusLine
  <2>6. ASSUME NEW i \in 1..Len(Stream(n)) PROVE Stream(n)'[i] = Stream(n)[i]
    <3>1. CASE i <= n
      <4>1. i \in 1..n /\ i \in 1..Len(cmdErr)
        BY <1>1, <3>1
      <4> QED
        BY <1>1, <1>3, <2>3, <4>1
    <3>2. CASE ~(i <= n) /\ i <= n + 4
      <4>1. i - n \in 1..4 /\ n + (i - n) = i
        BY <1>1, <3>2
      <4> QED
        BY <1>1, <1>2, <1>6, <2>3, <2>5, <4>1
    <3>3. CASE ~(i <= n + 4)
      <4>1. /\ i \in (n + 4 + 1)..(Len(cmdErr) + 4) /\ i \in (n + 4 + 1)..(Len(cmdErr') + 4)
            /\ i - 4 \in 1..Len(cmdErr)
        BY <1>1, <1>3, <1>6, <2>1, <3>3
      <4> QED
        BY <1>1, <1>2, <1>3, <1>6, <2>3, <4>1
    <3> QED
      BY <1>1, <3>1, <3>2, <3>3
  <2>7. ASSUME NEW i \in 1..Len(w) PROVE Stream(n)'[Len(Stream(n)) + i] = w[i]
    <3>1. /\ i = 1 /\ Len(Stream(n)) + i \in (n + 4 + 1)..(Len(cmdErr') + 4)
          /\ Len(Stream(n)) + i - 4 = Len(cmdErr) + 1
      BY <1>1, <1>3, <1>6, <2>1
    <3> QED
      BY <1>2, <1>3, <1>6, <2>1, <2>3, <3>1
  <2>8. Stream(n)' = Stream(n) \o w
    BY <1>1, <1>4, <2>3, <2>4, <2>6, <2>7, Joined
  <2> QED
    BY <2>2, <2>8
<1> QED
  BY <1>5, <1>6

\* The command's side grows by the next token of the wrapper's line.
LEMMA LineGrows ==
    ASSUME Types, Types', Lined, Lined', NEW n \in Nat, Parts(n), Remote, rc # "none",
           tail # <<>>, tail' = Tail(tail), UNCHANGED <<case, rc, cmdErr>>
    PROVE  /\ n \in 0..Len(cmdErr') /\ Parts(n)' /\ Stream(n)' = Stream(n) \o <<Head(tail)>>
<1>0. StreamFacts'
  BY StreamIs, PTL
<1>1. /\ Reported \in 0..4 /\ Len(cmdErr) \in Nat /\ n \in 0..Len(cmdErr)
      /\ Stream(n) \in Seq(ErrTokens) /\ Len(Stream(n)) = Len(cmdErr) + Reported
      /\ \A i \in 1..n : Stream(n)[i] = cmdErr[i]
      /\ \A i \in 1..Reported : Stream(n)[n + i] = StatusLine(rc)[i]
  BY StreamIs DEF StreamFacts
<1>2. /\ tail \in Seq(Spoken) /\ Len(tail) \in Nat \ {0} /\ Len(tail') = Len(tail) - 1
      /\ Head(tail) = tail[1] /\ Head(tail) \in Spoken
  BY TailIs DEF Types
<1>3. Reported = 4 - Len(tail) /\ Reported' = 4 - Len(tail')
  BY DEF Reported, Remote
<1>4. Reported' = Reported + 1 /\ Reported < 4
  BY <1>1, <1>2, <1>3
<1>5. n = Len(cmdErr)
  BY <1>4 DEF Parts
<1>6. StatusLine(rc)' = StatusLine(rc)
  BY DEF StatusLine
<1>7. tail[1] = StatusLine(rc)[Reported + 1]
  <2>1. tail[1] = StatusLine(rc)[4 - Len(tail) + 1]
    BY <1>2 DEF Lined
  <2> QED
    BY <1>3, <2>1
<1>8. n \in 0..Len(cmdErr') /\ Parts(n)'
  BY <1>1, <1>5 DEF Parts
<1>9. /\ Stream(n)' \in Seq(ErrTokens) /\ Len(Stream(n)') = Len(cmdErr') + Reported'
      /\ \A i \in 1..n : Stream(n)'[i] = cmdErr'[i]
      /\ \A i \in 1..Reported' : Stream(n)'[n + i] = StatusLine(rc)'[i]
  BY <1>0, <1>8 DEF StreamFacts
<1> DEFINE w == <<Head(tail)>>
<1>10. w \in Seq(ErrTokens) /\ Len(w) = 1 /\ w[1] = Head(tail)
  BY <1>2, Short DEF ErrTokens
<1> HIDE DEF w
<1>11. Len(Stream(n)') = Len(Stream(n)) + Len(w)
  BY <1>1, <1>4, <1>9, <1>10
<1>12. ASSUME NEW i \in 1..Len(Stream(n)) PROVE Stream(n)'[i] = Stream(n)[i]
  <2>1. CASE i <= n
    BY <1>1, <1>9, <2>1
  <2>2. CASE ~(i <= n)
    <3>1. PICK j \in 1..Reported : i = n + j
      <4>1. i - n \in 1..Reported /\ i = n + (i - n)
        BY <1>1, <1>5, <2>2
      <4> QED
        BY <4>1
    <3>2. j \in 1..Reported'
      BY <1>1, <1>4
    <3> QED
      BY <1>1, <1>6, <1>9, <3>1, <3>2
  <2> QED
    BY <2>1, <2>2
<1>13. ASSUME NEW i \in 1..Len(w) PROVE Stream(n)'[Len(Stream(n)) + i] = w[i]
  <2>1. i = 1 /\ Len(Stream(n)) + i = n + (Reported + 1) /\ Reported + 1 \in 1..Reported'
    BY <1>1, <1>4, <1>5, <1>10
  <2>2. Stream(n)'[n + (Reported + 1)] = StatusLine(rc)[Reported + 1]
    BY <1>6, <1>9, <2>1
  <2> QED
    BY <1>2, <1>7, <1>10, <2>1, <2>2
<1>14. Stream(n)' = Stream(n) \o w
  BY <1>1, <1>9, <1>10, <1>11, <1>12, <1>13, Joined
<1> QED
  BY <1>8, <1>14 DEF w

\* The end of the command adds nothing by itself.
LEMMA ExitKeeps ==
    ASSUME Types, Lined, NEW n \in Nat, Parts(n), rc = "none", UNCHANGED <<case, cmdErr>>,
           Remote => Len(tail') = 4
    PROVE  n \in 0..Len(cmdErr') /\ Parts(n)' /\ Stream(n)' = Stream(n)
<1>1. Reported = 0 /\ Reported' = 0
  BY DEF Reported, Remote
<1>2. n = Len(cmdErr) /\ Len(cmdErr) \in Nat
  BY <1>1, LenProperties DEF Parts, Types
<1>3. n \in 0..Len(cmdErr') /\ Parts(n)'
  BY <1>1, <1>2 DEF Parts
<1>4. Stream(n) = [i \in 1..(n + 0) |-> cmdErr[i]]
  BY <1>1, <1>2 DEF Stream
<1>5. Stream(n)' = [i \in 1..(n + 0) |-> cmdErr[i]]
  BY <1>1, <1>2 DEF Stream
<1> QED
  BY <1>3, <1>4, <1>5

\* What was said of a pipe's front stays true when more is written.
LEMMA EndsGrow ==
    ASSUME NEW E \in Seq(ErrTokens), NEW T \in Seq(ErrTokens), NEW w \in Seq(ErrTokens), NEW z \in Nat,
           EndsIn(E, z, T)
    PROVE  EndsIn(E \o w, z, T \o w)
<1>1. /\ Len(E \o w) = Len(E) + Len(w) /\ Len(w) \in Nat /\ Len(E) \in Nat
      /\ \A i \in 1..Len(E) : (E \o w)[i] = E[i]
      /\ \A j \in 1..Len(w) : (E \o w)[Len(E) + j] = w[j]
  BY Longer
<1>2. /\ Len(T \o w) = Len(T) + Len(w) /\ Len(T) \in Nat
      /\ \A i \in 1..Len(T) : (T \o w)[i] = T[i]
      /\ \A j \in 1..Len(w) : (T \o w)[Len(T) + j] = w[j]
  BY Longer
<1>3. Len(E) = z + Len(T) /\ \A i \in 1..Len(T) : E[z + i] = T[i]
  BY DEF EndsIn
<1>4. ASSUME NEW i \in 1..Len(T \o w) PROVE (E \o w)[z + i] = (T \o w)[i]
  <2>1. CASE i <= Len(T)
    <3>1. i \in 1..Len(T) /\ z + i \in 1..Len(E)
      BY <1>2, <1>3, <2>1
    <3> QED
      BY <1>1, <1>2, <1>3, <3>1
  <2>2. CASE ~(i <= Len(T))
    <3>1. PICK j \in 1..Len(w) : i = Len(T) + j
      <4>1. i - Len(T) \in 1..Len(w) /\ i = Len(T) + (i - Len(T))
        BY <1>1, <1>2, <2>2
      <4> QED
        BY <4>1
    <3>2. z + i = Len(E) + j
      BY <1>2, <1>3, <3>1
    <3> QED
      BY <1>1, <1>2, <3>1, <3>2
  <2> QED
    BY <1>2, <2>1, <2>2
<1>5. Len(E \o w) = z + Len(T \o w)
  BY <1>1, <1>2, <1>3
<1> QED
  BY <1>4, <1>5 DEF EndsIn

LEMMA SentinelStays ==
    ASSUME NEW mode, NEW E \in Seq(ErrTokens), NEW w \in Seq(ErrTokens), NEW z, Sentinel(mode, E, z)
    PROVE  Sentinel(mode, E \o w, z)
<1>1. /\ Len(E \o w) = Len(E) + Len(w) /\ Len(w) \in Nat /\ Len(E) \in Nat
      /\ \A i \in 1..Len(E) : (E \o w)[i] = E[i]
  BY Longer
<1>2. CASE mode = "direct"
  BY <1>2 DEF Sentinel
<1>3. CASE mode # "direct"
  <2>1. z \in 2..Len(E) /\ E[z - 1] = "s" /\ E[z] = "S" /\ \A i \in 1..(z - 1) : E[i] # "S"
    BY <1>3 DEF Sentinel
  <2>2. z \in 2..Len(E \o w) /\ z - 1 \in 1..Len(E) /\ z \in 1..Len(E)
    BY <1>1, <2>1
  <2>3. \A i \in 1..(z - 1) : (E \o w)[i] # "S"
    <3>1. \A i \in 1..(z - 1) : i \in 1..Len(E)
      BY <1>1, <2>1
    <3> QED
      BY <1>1, <2>1, <3>1
  <2> QED
    BY <1>1, <1>3, <2>1, <2>2, <2>3 DEF Sentinel
<1> QED
  BY <1>2, <1>3

LEMMA KeepsStays ==
    ASSUME NEW k \in Sinks, NEW E \in Seq(ErrTokens), NEW w \in Seq(ErrTokens), NEW q \in Nat,
           Keeps(k, E, q)
    PROVE  Keeps(k, E \o w, q)
<1> DEFINE m == q - Len(k.held)
<1>1. /\ Len(E \o w) = Len(E) + Len(w) /\ Len(w) \in Nat /\ Len(E) \in Nat
      /\ \A i \in 1..Len(E) : (E \o w)[i] = E[i]
  BY Longer
<1>2. /\ m \in Nat /\ q <= Len(E)
      /\ \A i \in 1..Len(k.held) : k.held[i] = E[m + i]
      /\ Len(k.held) = (IF q < k.hold THEN q ELSE k.hold)
      /\ Len(k.kept) = (IF m < MaxStderr THEN m ELSE MaxStderr)
      /\ \A i \in 1..Len(k.kept) : k.kept[i] = E[i]
      /\ k.truncated = (m > MaxStderr)
  BY Zenon DEF Keeps
<1>3. Len(k.held) \in Nat /\ Len(k.kept) \in Nat /\ MaxStderr \in Nat
  BY LenProperties, ChannelAssumption DEF Sinks
<1>4. \A i \in 1..Len(k.held) : m + i \in 1..Len(E)
  BY <1>1, <1>2, <1>3
<1>5. Len(k.kept) <= Len(E)
  <2>1. Len(k.kept) <= m /\ m <= q
    BY <1>2, <1>3
  <2> QED
    BY <1>1, <1>2, <1>3, <2>1
<1>6. \A i \in 1..Len(k.kept) : i \in 1..Len(E)
  BY <1>1, <1>3, <1>5
<1>7. q <= Len(E \o w)
  BY <1>1, <1>2
<1> HIDE DEF m
<1>8. /\ \A i \in 1..Len(k.held) : k.held[i] = (E \o w)[m + i]
      /\ \A i \in 1..Len(k.kept) : k.kept[i] = (E \o w)[i]
  BY <1>1, <1>2, <1>4, <1>6
<1> QED
  BY <1>2, <1>7, <1>8, Zenon DEF Keeps, m

\* Pushing what comes next keeps a front of it and holds back its end.
LEMMA KeepsPush ==
    ASSUME NEW k \in Sinks, NEW E \in Seq(ErrTokens), NEW b \in Seq(ErrTokens), NEW q \in Nat,
           Keeps(k, E, q), q + Len(b) <= Len(E), \A i \in 1..Len(b) : b[i] = E[q + i]
    PROVE  Keeps(Push(k, b), E, q + Len(b))
<1> DEFINE all == k.held \o b
           x == IF Len(all) > k.hold THEN Len(all) - k.hold ELSE 0
           front == SubSeq(all, 1, x)
           room == MaxStderr - Len(k.kept)
           y == IF x < room THEN x ELSE room
           p == Push(k, b)
<1>0. PICK m \in Nat :
      /\ m = q - Len(k.held) /\ q <= Len(E)
      /\ \A i \in 1..Len(k.held) : k.held[i] = E[m + i]
      /\ Len(k.held) = (IF q < k.hold THEN q ELSE k.hold)
      /\ Len(k.kept) = (IF m < MaxStderr THEN m ELSE MaxStderr)
      /\ \A i \in 1..Len(k.kept) : k.kept[i] = E[i]
      /\ k.truncated = (m > MaxStderr)
  <2> DEFINE d == q - Len(k.held)
  <2>1. /\ d \in Nat /\ q <= Len(E)
        /\ \A i \in 1..Len(k.held) : k.held[i] = E[d + i]
        /\ Len(k.held) = (IF q < k.hold THEN q ELSE k.hold)
        /\ Len(k.kept) = (IF d < MaxStderr THEN d ELSE MaxStderr)
        /\ \A i \in 1..Len(k.kept) : k.kept[i] = E[i]
        /\ k.truncated = (d > MaxStderr)
    BY Zenon DEF Keeps
  <2>2. d = q - Len(k.held)
    OBVIOUS
  <2> HIDE DEF d
  <2> QED
    BY <2>1, <2>2, Zenon
<1>1. /\ k.held \in Seq(ErrTokens) /\ k.kept \in Seq(ErrTokens) /\ k.hold \in Nat /\ MaxStderr \in Nat
      /\ k.truncated \in BOOLEAN
  BY ChannelAssumption DEF Sinks
<1>2. Len(k.held) \in Nat /\ Len(k.kept) \in Nat /\ Len(b) \in Nat /\ Len(E) \in Nat
  BY <1>1, LenProperties
<1>3. Len(k.kept) <= MaxStderr
  BY <1>0, <1>1, <1>2
<1>4. /\ all \in Seq(ErrTokens) /\ p \in Sinks /\ p.hold = k.hold
      /\ k.hold = 0 => p = KeepBytes(k, b)
      /\ k.hold # 0 => /\ p.held = SubSeq(all, x + 1, Len(all))
                       /\ p.kept = KeepBytes(k, front).kept
                       /\ p.truncated = KeepBytes(k, front).truncated
  BY <1>3, PushIs
<1>5. /\ Len(all) = Len(k.held) + Len(b) /\ Len(all) \in Nat
      /\ \A i \in 1..Len(k.held) : all[i] = k.held[i]
      /\ \A j \in 1..Len(b) : all[Len(k.held) + j] = b[j]
  <2>1. k.held \in Seq(ErrTokens)
    BY <1>1
  <2>2. /\ Len(all) = Len(k.held) + Len(b)
        /\ \A i \in 1..Len(k.held) : all[i] = k.held[i]
        /\ \A j \in 1..Len(b) : all[Len(k.held) + j] = b[j]
    BY <2>1, Longer
  <2> HIDE DEF all
  <2> QED
    BY <1>2, <2>2
<1> HIDE DEF all
<1>6. ASSUME NEW i \in 1..Len(all) PROVE all[i] = E[m + i]
  <2>1. CASE i <= Len(k.held)
    <3>1. i \in 1..Len(k.held)
      BY <1>2, <2>1
    <3> QED
      BY <1>0, <1>5, <3>1
  <2>2. CASE ~(i <= Len(k.held))
    <3>1. PICK j \in 1..Len(b) : i = Len(k.held) + j
      <4>1. i - Len(k.held) \in 1..Len(b) /\ i = Len(k.held) + (i - Len(k.held))
        BY <1>2, <1>5, <2>2
      <4> QED
        BY <4>1
    <3>2. m + i = q + j
      <4>1. m = q - Len(k.held)
        BY <1>0
      <4>2. \A h \in Nat, l \in Nat : (q - h) + (h + l) = q + l
        OBVIOUS
      <4>3. j \in Nat
        BY <1>2
      <4> QED
        BY <1>2, <3>1, <4>1, <4>2, <4>3, Zenon
    <3> QED
      BY <1>5, <3>1, <3>2
  <2> QED
    BY <2>1, <2>2
<1>7. /\ x \in 0..Len(all) /\ y \in 0..x /\ (y > 0 => Len(k.kept) = m)
      /\ Len(all) - x = IF q + Len(b) < k.hold THEN q + Len(b) ELSE k.hold
      /\ q + Len(b) - (Len(all) - x) = m + x
      /\ Len(k.kept) + y = IF m + x < MaxStderr THEN m + x ELSE MaxStderr
      /\ (m > MaxStderr \/ y < x) <=> m + x > MaxStderr
  <2>1. /\ x = IF Len(all) > k.hold THEN Len(all) - k.hold ELSE 0
        /\ y = IF x < MaxStderr - Len(k.kept) THEN x ELSE MaxStderr - Len(k.kept)
    OBVIOUS
  <2> HIDE DEF x, y
  <2>2. /\ m = q - Len(k.held) /\ Len(k.held) = (IF q < k.hold THEN q ELSE k.hold)
        /\ Len(k.kept) = (IF m < MaxStderr THEN m ELSE MaxStderr)
        /\ Len(all) = Len(k.held) + Len(b)
    BY <1>0, <1>5
  <2>3. /\ Len(k.held) \in Nat /\ Len(b) \in Nat /\ k.hold \in Nat /\ MaxStderr \in Nat
        /\ Len(k.kept) \in Nat /\ Len(all) \in Nat
    BY <1>1, <1>2, <1>5
  <2>4. PICK h \in Nat, l \in Nat, a \in Nat, bytes \in Nat, hold \in Nat :
          /\ h = Len(k.held) /\ l = Len(k.kept) /\ a = Len(all) /\ bytes = Len(b) /\ hold = k.hold
    BY <2>3
  <2>5. /\ m = q - h /\ h = (IF q < hold THEN q ELSE hold) /\ MaxStderr \in Nat
        /\ l = (IF m < MaxStderr THEN m ELSE MaxStderr) /\ a = h + bytes
    BY <2>2, <2>3, <2>4, Zenon
  <2>6. x = (IF a > hold THEN a - hold ELSE 0) /\ y = IF x < MaxStderr - l THEN x ELSE MaxStderr - l
    BY <2>1, <2>4, Zenon
  <2>7. x \in 0..a /\ y \in 0..x /\ (y > 0 => l = m)
    BY <2>5, <2>6
  <2>8. a - x = IF q + bytes < hold THEN q + bytes ELSE hold
    BY <2>5, <2>6
  <2>9. q + bytes - (a - x) = m + x
    BY <2>5, <2>6
  <2>10. l + y = IF m + x < MaxStderr THEN m + x ELSE MaxStderr
    BY <2>5, <2>6
  <2>11. (m > MaxStderr \/ y < x) <=> m + x > MaxStderr
    BY <2>5, <2>6
  <2> QED
    BY <2>4, <2>7, <2>8, <2>9, <2>10, <2>11, Zenon
\* What goes to the kept bytes is c, the front of all that is at hand.
<1>8. PICK c \in Seq(ErrTokens) :
        /\ Len(c) = x /\ \A i \in 1..x : c[i] = all[i]
        /\ p.kept = KeepBytes(k, c).kept /\ p.truncated = KeepBytes(k, c).truncated
        /\ Len(p.held) = Len(all) - x /\ \A i \in 1..(Len(all) - x) : p.held[i] = all[x + i]
  <2>1. CASE k.hold = 0
    <3>1. Len(k.held) = 0
      BY <1>0, <1>2, <2>1
    <3>2. x = Len(b) /\ Len(all) - x = 0
      BY <1>2, <1>5, <2>1, <3>1
    <3>3. p = KeepBytes(k, b) /\ p.held = k.held
      BY <1>3, <1>4, <2>1, KeepIs
    <3>4. \A i \in 1..Len(b) : b[i] = all[i]
      <4>1. \A i \in 1..Len(b) : Len(k.held) + i = i
        BY <1>2, <3>1
      <4> QED
        BY <1>5, <4>1
    <3>5. Len(p.held) = Len(all) - x /\ \A i \in 1..(Len(all) - x) : p.held[i] = all[x + i]
      <4> HIDE DEF x, p
      <4> QED
        BY <3>1, <3>2, <3>3
    <3> HIDE DEF x, p
    <3> QED
      BY <3>2, <3>3, <3>4, <3>5
  <2>2. CASE k.hold # 0
    <3> HIDE DEF x, p
    <3>1. front \in Seq(ErrTokens) /\ Len(front) = x /\ \A i \in 1..x : front[i] = all[i]
      BY <1>4, <1>7, Split
    <3>2. /\ Len(SubSeq(all, x + 1, Len(all))) = Len(all) - x
          /\ \A i \in 1..(Len(all) - x) : SubSeq(all, x + 1, Len(all))[i] = all[x + i]
      BY <1>4, <1>7, Split, ZenonT(40)
    <3> HIDE DEF front
    <3> QED
      BY <1>4, <2>2, <3>1, <3>2
  <2> QED
    BY <2>1, <2>2
<1> HIDE DEF x, p
<1>9. p.kept = k.kept \o SubSeq(c, 1, y) /\ p.truncated = (k.truncated \/ y < x)
  <2> DEFINE yc == IF Len(c) < room THEN Len(c) ELSE room
  <2>1. /\ KeepBytes(k, c).kept = k.kept \o SubSeq(c, 1, yc)
        /\ KeepBytes(k, c).truncated = (k.truncated \/ yc < Len(c))
    BY <1>3, KeepIs
  <2>2. yc = y
    BY <1>8
  <2> HIDE DEF yc, y, room
  <2> QED
    BY <1>8, <2>1, <2>2
<1> HIDE DEF y
<1>10. x \in Nat /\ x <= Len(all) /\ y \in Nat /\ y <= x
  BY <1>5, <1>7
<1>11. /\ SubSeq(c, 1, y) \in Seq(ErrTokens) /\ Len(SubSeq(c, 1, y)) = y
       /\ \A i \in 1..y : SubSeq(c, 1, y)[i] = c[i]
  <2>1. y \in 0..Len(c)
    BY <1>8, <1>10
  <2> QED
    BY <2>1, Split
<1>12. /\ Len(p.kept) = Len(k.kept) + y
       /\ \A i \in 1..Len(k.kept) : p.kept[i] = k.kept[i]
       /\ \A j \in 1..y : p.kept[Len(k.kept) + j] = SubSeq(c, 1, y)[j]
  <2> DEFINE f == SubSeq(c, 1, y)
             g == k.kept
  <2>1. f \in Seq(ErrTokens) /\ Len(f) = y /\ g \in Seq(ErrTokens)
    BY <1>1, <1>11
  <2> HIDE DEF f, g
  <2>5. /\ Len(g \o f) = Len(g) + Len(f)
        /\ \A i \in 1..Len(g) : (g \o f)[i] = g[i]
        /\ \A j \in 1..Len(f) : (g \o f)[Len(g) + j] = f[j]
    <3>1. ASSUME NEW v \in Seq(ErrTokens), NEW w \in Seq(ErrTokens)
          PROVE  /\ Len(v \o w) = Len(v) + Len(w)
                 /\ \A i \in 1..Len(v) : (v \o w)[i] = v[i]
                 /\ \A j \in 1..Len(w) : (v \o w)[Len(v) + j] = w[j]
      BY Longer
    <3> QED
      BY <2>1, <3>1, Zenon
  <2>2. /\ Len(k.kept \o f) = Len(k.kept) + Len(f)
        /\ \A i \in 1..Len(k.kept) : (k.kept \o f)[i] = k.kept[i]
        /\ \A j \in 1..Len(f) : (k.kept \o f)[Len(k.kept) + j] = f[j]
    BY <2>5 DEF g
  <2>3. p.kept = k.kept \o f
    BY <1>9 DEF f
  <2>4. /\ Len(p.kept) = Len(k.kept) + y
        /\ \A i \in 1..Len(k.kept) : p.kept[i] = k.kept[i]
        /\ \A j \in 1..y : p.kept[Len(k.kept) + j] = f[j]
    BY <2>1, <2>2, <2>3, Zenon
  <2> QED
    BY <2>4 DEF f
<1>13. ASSUME NEW i \in 1..Len(p.kept) PROVE p.kept[i] = E[i]
  <2>1. CASE i <= Len(k.kept)
    <3>1. i \in 1..Len(k.kept)
      BY <1>2, <2>1
    <3> QED
      BY <1>0, <1>12, <3>1
  <2>2. CASE ~(i <= Len(k.kept))
    <3>1. PICK j \in 1..y : i = Len(k.kept) + j
      <4>1. i - Len(k.kept) \in 1..y /\ i = Len(k.kept) + (i - Len(k.kept))
        BY <1>2, <1>10, <1>12, <2>2
      <4> QED
        BY <4>1
    <3>2. j \in 1..x /\ j \in 1..Len(all) /\ y > 0
      BY <1>5, <1>10, <3>1
    <3>3. p.kept[i] = c[j] /\ c[j] = all[j] /\ all[j] = E[m + j]
      BY <1>6, <1>8, <1>11, <1>12, <3>1, <3>2
    <3>4. i = m + j
      BY <1>7, <3>1, <3>2
    <3> QED
      BY <3>3, <3>4
  <2> QED
    BY <2>1, <2>2
\* The place of the bytes held back.
<1>14. ASSUME NEW i \in 1..Len(p.held) PROVE p.held[i] = E[(m + x) + i]
  <2>1. i \in 1..(Len(all) - x) /\ x + i \in 1..Len(all) /\ m + (x + i) = (m + x) + i
    BY <1>5, <1>8, <1>10
  <2> QED
    BY <1>6, <1>8, <2>1
<1>15. p.truncated = (m + x > MaxStderr)
  <2>1. p.truncated = (m > MaxStderr \/ y < x)
    BY <1>0, <1>9
  <2> QED
    BY <1>7, <2>1
<1>16. /\ q + Len(b) - Len(p.held) = m + x /\ m + x \in Nat
       /\ Len(p.held) = IF q + Len(b) < k.hold THEN q + Len(b) ELSE k.hold
       /\ Len(p.kept) = IF m + x < MaxStderr THEN m + x ELSE MaxStderr
  BY <1>7, <1>8, <1>10, <1>12
<1> DEFINE n == m + x
           r == q + Len(b)
<1>17. r - Len(p.held) = n
  BY <1>16
<1>18. /\ n \in Nat /\ r <= Len(E)
       /\ \A i \in 1..Len(p.held) : p.held[i] = E[n + i]
       /\ Len(p.held) = (IF r < p.hold THEN r ELSE p.hold)
       /\ Len(p.kept) = (IF n < MaxStderr THEN n ELSE MaxStderr)
       /\ \A i \in 1..Len(p.kept) : p.kept[i] = E[i]
       /\ p.truncated = (n > MaxStderr)
  BY <1>4, <1>13, <1>14, <1>15, <1>16, Zenon
<1> HIDE DEF n, r
<1>19. /\ r - Len(p.held) \in Nat /\ r <= Len(E)
       /\ \A i \in 1..Len(p.held) : p.held[i] = E[(r - Len(p.held)) + i]
       /\ Len(p.held) = (IF r < p.hold THEN r ELSE p.hold)
       /\ Len(p.kept) = (IF r - Len(p.held) < MaxStderr THEN r - Len(p.held) ELSE MaxStderr)
       /\ \A i \in 1..Len(p.kept) : p.kept[i] = E[i]
       /\ p.truncated = (r - Len(p.held) > MaxStderr)
  BY <1>17, <1>18, Zenon
<1>20. Keeps(p, E, r)
  BY <1>19, Zenon DEF Keeps
<1> QED
  BY <1>20 DEF p, r

\* The status line is found where it is the last that was held back, and is not
\* taken for one otherwise.
LEMMA SplitIs ==
    ASSUME NEW s \in Seq(ErrTokens)
    PROVE  /\ s = <<>> => SplitStatusLine(s) = [cut |-> 0, code |-> "none"]
           /\ SplitStatusLine(s).code # "none" => s # <<>> /\ s[Len(s)] = "nl"
           /\ \A code \in {"0", "1"} :
                Len(s) >= 4 /\ s[Len(s) - 3] = "nl" /\ s[Len(s) - 2] = "M" /\ s[Len(s) - 1] = code
                /\ s[Len(s)] = "nl"
                => SplitStatusLine(s) = [cut |-> Len(s) - 4, code |-> code]
<1> DEFINE body == SubSeq(s, 1, Len(s) - 1)
           marks == {i \in 1..Len(body) : body[i] = "M"}
           at == CHOOSE i \in marks : \A j \in marks : j <= i
           digits == SubSeq(body, at + 1, Len(body))
           none == [cut |-> Len(s), code |-> "none"]
           odd == \E i \in 1..Len(digits) : digits[i] \notin {"0", "1"}
           before == IF at > 1 /\ body[at - 1] = "nl" THEN at - 2 ELSE at - 1
<1>1. SplitStatusLine(s) =
        IF s = <<>> \/ marks = {} THEN none
        ELSE IF Last(s) # "nl" \/ digits = <<>> \/ odd THEN none
        ELSE [cut |-> before, code |-> Last(digits)]
  BY Zenon DEF SplitStatusLine
<1>2. Len(s) \in Nat /\ Last(s) = s[Len(s)]
  BY LenProperties DEF Last
<1>3. s = <<>> => SplitStatusLine(s) = [cut |-> 0, code |-> "none"]
  <2> HIDE DEF marks, digits, odd, before
  <2> QED
    BY <1>1
<1>4. SplitStatusLine(s).code # "none" => s # <<>> /\ s[Len(s)] = "nl"
  <2> HIDE DEF marks, digits, odd, before
  <2> QED
    BY <1>1, <1>2
<1>5. ASSUME NEW code \in {"0", "1"}, Len(s) >= 4, s[Len(s) - 3] = "nl", s[Len(s) - 2] = "M",
             s[Len(s) - 1] = code, s[Len(s)] = "nl"
      PROVE  SplitStatusLine(s) = [cut |-> Len(s) - 4, code |-> code]
  <2>1. PICK l \in Nat : l = Len(s) /\ l >= 4
    BY <1>2, <1>5
  <2>2. body \in Seq(ErrTokens) /\ Len(body) = l - 1 /\ \A i \in 1..(l - 1) : body[i] = s[i]
    <3>1. l - 1 \in 0..Len(s) /\ l - 1 = Len(s) - 1
      BY <2>1
    <3> QED
      BY <3>1, Split
  <2> HIDE DEF body
  <2>3. /\ l - 2 \in 1..(l - 1) /\ l - 1 \in 1..(l - 1) /\ l - 3 \in 1..(l - 1)
        /\ s[l - 3] = "nl" /\ s[l - 2] = "M" /\ s[l - 1] = code /\ s[l] = "nl"
    BY <1>5, <2>1
  <2>4. body[l - 2] = "M" /\ body[l - 1] = code /\ body[l - 3] = "nl"
    BY <2>2, <2>3
  <2>5. l - 2 \in marks
    BY <2>2, <2>3, <2>4
  <2>6. ASSUME NEW j \in marks PROVE j <= l - 2
    <3>1. j \in 1..(l - 1) /\ body[j] = "M"
      BY <2>2
    <3>2. j # l - 1
      BY <2>4, <3>1
    <3> QED
      BY <2>1, <3>1, <3>2
  <2>7. marks \in SUBSET Int
    BY <2>2
  <2> HIDE DEF marks
  <2>8. at = l - 2
    <3>1. at \in marks /\ \A j \in marks : j <= at
      BY <2>5, <2>6
    <3> HIDE DEF at
    <3>2. at <= l - 2 /\ l - 2 <= at /\ at \in Int
      BY <2>5, <2>6, <2>7, <3>1
    <3> QED
      BY <2>1, <3>2
  <2> HIDE DEF at
  <2>9. digits \in Seq(ErrTokens) /\ Len(digits) = 1 /\ digits[1] = code
    <3>1. PICK a \in 0..Len(body) : a = l - 2 /\ Len(body) - a = 1 /\ a + 1 = l - 1
      <4>1. l - 2 \in 0..Len(body) /\ Len(body) - (l - 2) = 1 /\ (l - 2) + 1 = l - 1
        BY <2>1, <2>2
      <4> QED
        BY <4>1
    <3>2. /\ SubSeq(body, a + 1, Len(body)) \in Seq(ErrTokens)
          /\ Len(SubSeq(body, a + 1, Len(body))) = Len(body) - a
          /\ \A i \in 1..(Len(body) - a) : SubSeq(body, a + 1, Len(body))[i] = body[a + i]
      BY <2>2, Split, Zenon
    <3>3. SubSeq(body, a + 1, Len(body))[1] = body[a + 1]
      BY <3>1, <3>2
    <3>4. digits = SubSeq(body, a + 1, Len(body))
      BY <2>8, <3>1
    <3> QED
      BY <2>4, <3>1, <3>2, <3>3, <3>4, Zenon
  <2> HIDE DEF digits
  <2>10. digits # <<>> /\ Last(digits) = code /\ ~odd
    <3>0. Len(<<>>) = 0 /\ 0 # 1 /\ Last(digits) = digits[Len(digits)]
      BY DEF Last
    <3>1. digits # <<>> /\ Last(digits) = code
      BY <2>9, <3>0, Zenon
    <3>2. \A i \in 1..1 : i = 1
      OBVIOUS
    <3>3. ~odd
      BY <2>9, <3>2, Zenon
    <3> QED
      BY <3>1, <3>3, Zenon
  <2>11. before = l - 4
    <3>1. at > 1 /\ at - 1 = l - 3 /\ at - 2 = l - 4
      BY <2>1, <2>8
    <3> QED
      BY <2>4, <3>1
  <2> HIDE DEF odd, before
  <2>12. s # <<>> /\ marks # {} /\ Last(s) = "nl"
    BY <1>2, <2>1, <2>3, <2>5
  <2> QED
    BY <1>1, <2>1, <2>10, <2>11, <2>12, Zenon
<1>6. \A code \in {"0", "1"} :
        Len(s) >= 4 /\ s[Len(s) - 3] = "nl" /\ s[Len(s) - 2] = "M" /\ s[Len(s) - 1] = code
        /\ s[Len(s)] = "nl"
        => SplitStatusLine(s) = [cut |-> Len(s) - 4, code |-> code]
  BY <1>5, Zenon
<1> QED
  BY <1>3, <1>4, <1>6, Zenon

\* f is k with the first cut of the held bytes kept, as far as there is room.
Finished(k, f, e, cut, code) ==
    \E n \in 0..cut :
        /\ n = IF cut < MaxStderr - Len(k.kept) THEN cut ELSE MaxStderr - Len(k.kept)
        /\ f.code = code /\ f.ended = e
        /\ f.kept = k.kept \o SubSeq(SubSeq(k.held, 1, cut), 1, n)
        /\ f.truncated = (k.truncated \/ n < cut)

\* The sink at the end of standard error.
LEMMA FinishIs ==
    ASSUME NEW k \in Sinks, NEW e \in BOOLEAN, Len(k.kept) <= MaxStderr,
           NEW cut \in 0..Len(k.held), NEW code,
           SplitStatusLine(k.held) = [cut |-> cut, code |-> code]
    PROVE  Finished(k, FinishSink(k, e), e, cut, code)
<1> DEFINE b == SubSeq(k.held, 1, cut)
           kept == KeepBytes(k, b)
<1>1. FinishSink(k, e) = [kept EXCEPT !.code = code, !.ended = e, !.held = <<>>]
  BY DEF FinishSink
<1>2. b \in Seq(ErrTokens) /\ Len(b) = cut
  BY Split DEF Sinks
<1> HIDE DEF b
<1> DEFINE n == IF Len(b) < MaxStderr - Len(k.kept) THEN Len(b) ELSE MaxStderr - Len(k.kept)
<1>3. /\ kept \in Sinks /\ n \in 0..Len(b)
      /\ kept.kept = k.kept \o SubSeq(b, 1, n) /\ kept.truncated = (k.truncated \/ n < Len(b))
  BY <1>2, KeepIs
<1>5. n = IF cut < MaxStderr - Len(k.kept) THEN cut ELSE MaxStderr - Len(k.kept)
  BY <1>2
<1> HIDE DEF n
<1> HIDE DEF kept
<1>4. /\ FinishSink(k, e).code = code /\ FinishSink(k, e).ended = e
      /\ FinishSink(k, e).kept = kept.kept /\ FinishSink(k, e).truncated = kept.truncated
  BY <1>1, <1>3 DEF Sinks
<1>6. n \in 0..cut
  BY <1>2, <1>3
<1> QED
  BY <1>2, <1>3, <1>4, <1>5, <1>6, Zenon DEF Finished, b

\* Without a wrapper the sink keeps a front of what it was given.
LEMMA FinishHere ==
    ASSUME NEW k \in Sinks, NEW e \in BOOLEAN, NEW E \in Seq(ErrTokens), NEW q \in Nat,
           Keeps(k, E, q), k.hold = 0, Len(k.kept) <= MaxStderr
    PROVE  LET f == FinishSink(k, e)
           IN /\ f.ended = e /\ Len(f.kept) \in Nat /\ Len(f.kept) <= Len(E) /\ f.kept \in Seq(ErrTokens)
              /\ \A i \in 1..Len(f.kept) : f.kept[i] = E[i]
              /\ q = Len(E) /\ ~f.truncated => Len(f.kept) = Len(E)
<1>1. PICK m \in Nat :
      /\ m = q - Len(k.held) /\ q <= Len(E)
      /\ Len(k.held) = (IF q < k.hold THEN q ELSE k.hold)
      /\ Len(k.kept) = (IF m < MaxStderr THEN m ELSE MaxStderr)
      /\ \A i \in 1..Len(k.kept) : k.kept[i] = E[i]
      /\ k.truncated = (m > MaxStderr)
  BY Zenon DEF Keeps
<1>2. k.held \in Seq(ErrTokens) /\ k.kept \in Seq(ErrTokens) /\ MaxStderr \in Nat /\ Len(k.kept) \in Nat
  BY LenProperties, ChannelAssumption DEF Sinks
<1>3. k.held = <<>> /\ m = q
  <2>1. Len(k.held) = 0
    BY <1>1
  <2>2. k.held = <<>>
    BY <1>2, <2>1
  <2> QED
    BY <1>1, <2>1, <2>2
<1>4. SplitStatusLine(k.held) = [cut |-> 0, code |-> "none"] /\ 0 \in 0..Len(k.held)
  <2>1. SplitStatusLine(k.held) = [cut |-> 0, code |-> "none"]
    BY <1>2, <1>3, SplitIs
  <2>2. 0 \in 0..Len(k.held)
    BY <1>3
  <2> QED
    BY <2>1, <2>2
<1> DEFINE f == FinishSink(k, e)
<1>5. PICK n \in 0..0 :
        /\ f.ended = e /\ f.kept = k.kept \o SubSeq(SubSeq(k.held, 1, 0), 1, n)
        /\ f.truncated = (k.truncated \/ n < 0)
  <2>1. Finished(k, f, e, 0, "none")
    BY <1>4, FinishIs
  <2> HIDE DEF f
  <2> QED
    BY <2>1, Zenon DEF Finished
<1> HIDE DEF f
<1>6. f.kept = k.kept /\ f.truncated = (k.truncated \/ FALSE)
  <2>1. n = 0
    BY <1>5
  <2>2. SubSeq(k.held, 1, 0) = <<>> /\ SubSeq(<<>>, 1, 0) = <<>>
    OBVIOUS
  <2>3. k.kept \o <<>> = k.kept
    BY <1>2
  <2>4. f.kept = k.kept
    BY <1>5, <2>1, <2>2, <2>3, Zenon
  <2>5. ~(0 < 0)
    OBVIOUS
  <2>6. f.truncated = (k.truncated \/ FALSE)
    BY <1>5, <2>1, <2>5, Zenon
  <2> QED
    BY <2>4, <2>6
<1>7. Len(f.kept) <= Len(E)
  <2>1. PICK l \in Nat, top \in Nat : l = Len(k.kept) /\ top = Len(E)
    BY <1>2, LenProperties
  <2>2. l = (IF q < MaxStderr THEN q ELSE MaxStderr) /\ q <= top
    BY <1>1, <1>3, <2>1, Zenon
  <2>3. l <= top
    BY <1>2, <2>2
  <2> QED
    BY <1>6, <2>1, <2>3, Zenon
<1>8. q = Len(E) /\ ~f.truncated => Len(f.kept) = Len(E)
  <2>1. ~f.truncated => ~(q > MaxStderr)
    BY <1>1, <1>3, <1>6, Zenon
  <2>2. ~(q > MaxStderr) => (IF q < MaxStderr THEN q ELSE MaxStderr) = q
    BY <1>2
  <2>3. Len(f.kept) = (IF q < MaxStderr THEN q ELSE MaxStderr)
    BY <1>1, <1>3, <1>6, Zenon
  <2> QED
    BY <2>1, <2>2, <2>3, Zenon
<1> QED
  BY <1>1, <1>2, <1>5, <1>6, <1>7, <1>8 DEF f

\* The wrapper's line is behind the first n tokens, and a descendant's writes
\* alone are behind it.
LineAt(E, n, code) ==
    /\ \A i \in 1..4 : E[n + i] = StatusLine(code)[i]
    /\ \A i \in (n + 5)..Len(E) : E[i] = "c"

\* What the sink makes of it.
ThereIs(f, e, E, n, q, code) ==
    /\ f.code = code /\ f.ended = e /\ q = n + 4
    /\ Len(f.kept) \in Nat /\ Len(f.kept) <= n /\ f.kept \in Seq(ErrTokens)
    /\ \A i \in 1..Len(f.kept) : f.kept[i] = E[i]
    /\ ~f.truncated => Len(f.kept) = n

\* Where the drain was given the whole line, a code it finds is the line's, and
\* the line was the last thing it was given: the command's bytes are kept.
LEMMA FinishThere ==
    ASSUME NEW k \in Sinks, NEW e \in BOOLEAN, NEW E \in Seq(ErrTokens), NEW q \in Nat, NEW n \in Nat,
           NEW code \in {"0", "1"}, Keeps(k, E, q), k.hold >= 4, Len(k.kept) <= MaxStderr, n + 4 <= q,
           LineAt(E, n, code), FinishSink(k, e).code # "none"
    PROVE  ThereIs(FinishSink(k, e), e, E, n, q, code)
<1>0. /\ \A i \in 1..4 : E[n + i] = StatusLine(code)[i]
      /\ \A i \in (n + 5)..Len(E) : E[i] = "c"
  BY DEF LineAt
<1>1. PICK m \in Nat :
      /\ m = q - Len(k.held) /\ q <= Len(E)
      /\ \A i \in 1..Len(k.held) : k.held[i] = E[m + i]
      /\ Len(k.held) = (IF q < k.hold THEN q ELSE k.hold)
      /\ Len(k.kept) = (IF m < MaxStderr THEN m ELSE MaxStderr)
      /\ \A i \in 1..Len(k.kept) : k.kept[i] = E[i]
      /\ k.truncated = (m > MaxStderr)
  <2> DEFINE d == q - Len(k.held)
  <2>1. /\ d \in Nat /\ q <= Len(E)
        /\ \A i \in 1..Len(k.held) : k.held[i] = E[d + i]
        /\ Len(k.held) = (IF q < k.hold THEN q ELSE k.hold)
        /\ Len(k.kept) = (IF d < MaxStderr THEN d ELSE MaxStderr)
        /\ \A i \in 1..Len(k.kept) : k.kept[i] = E[i]
        /\ k.truncated = (d > MaxStderr)
    BY Zenon DEF Keeps
  <2>2. d = q - Len(k.held)
    OBVIOUS
  <2> HIDE DEF d
  <2> QED
    BY <2>1, <2>2, Zenon
<1>2. k.held \in Seq(ErrTokens) /\ k.kept \in Seq(ErrTokens) /\ MaxStderr \in Nat /\ k.hold \in Nat
  BY ChannelAssumption DEF Sinks
<1>3. PICK h \in Nat, l \in Nat, top \in Nat, hold \in Nat :
        h = Len(k.held) /\ l = Len(k.kept) /\ top = Len(E) /\ hold = k.hold
  BY <1>2, LenProperties
<1>4. /\ m = q - h /\ q <= top /\ h = (IF q < hold THEN q ELSE hold) /\ hold >= 4
      /\ l = (IF m < MaxStderr THEN m ELSE MaxStderr) /\ l <= MaxStderr
  BY <1>1, <1>3, Zenon
<1>a. /\ \A i \in 1..h : k.held[i] = E[m + i]
      /\ \A i \in 1..l : k.kept[i] = E[i]
  BY <1>1, <1>3, Zenon
<1>5. h >= 4 /\ h - 3 \in 1..h /\ h - 2 \in 1..h /\ h - 1 \in 1..h /\ h \in 1..h /\ h - 4 \in 0..h
  <2>1. h >= 4
    BY <1>4
  <2> QED
    BY <2>1
<1>6. m + h = q /\ m + (h - 1) = q - 1 /\ m + (h - 2) = q - 2 /\ m + (h - 3) = q - 3
  BY <1>4
<1>7. k.held[h] = E[q] /\ k.held[h - 1] = E[q - 1] /\ k.held[h - 2] = E[q - 2] /\ k.held[h - 3] = E[q - 3]
  BY <1>a, <1>5, <1>6, Zenon
<1>8. q = n + 4
  <2> SUFFICES ASSUME q # n + 4 PROVE FALSE
    OBVIOUS
  <2>1. FinishSink(k, e).code = SplitStatusLine(k.held).code
    <3> DEFINE s == SplitStatusLine(k.held)
    <3>1. FinishSink(k, e) = [KeepBytes(k, SubSeq(k.held, 1, s.cut)) EXCEPT
                                !.code = s.code, !.ended = e, !.held = <<>>]
      BY Zenon DEF FinishSink
    <3> HIDE DEF s
    <3>2. "code" \in DOMAIN KeepBytes(k, SubSeq(k.held, 1, s.cut))
      BY DEF KeepBytes, Sinks
    <3> QED
      BY <3>1, <3>2 DEF s
  <2>2. k.held[h] = "nl"
    BY <1>2, <1>3, <2>1, SplitIs
  <2>3. q \in (n + 5)..Len(E)
    BY <1>3, <1>4
  <2> QED
    BY <1>0, <1>7, <2>2, <2>3
<1>9. /\ k.held[h - 3] = "nl" /\ k.held[h - 2] = "M" /\ k.held[h - 1] = code /\ k.held[h] = "nl"
  <2>1. q - 3 = n + 1 /\ q - 2 = n + 2 /\ q - 1 = n + 3 /\ q = n + 4
    BY <1>8
  <2>2. E[n + 1] = "nl" /\ E[n + 2] = "M" /\ E[n + 3] = code /\ E[n + 4] = "nl"
    BY <1>0, LineIs
  <2> QED
    BY <1>7, <2>1, <2>2
<1>10. PICK cut \in 0..h : cut = h - 4
  BY <1>5
<1>11. SplitStatusLine(k.held) = [cut |-> cut, code |-> code]
  BY <1>2, <1>3, <1>5, <1>9, <1>10, SplitIs
<1> DEFINE f == FinishSink(k, e)
           b == SubSeq(k.held, 1, cut)
<1>12. PICK y \in 0..cut :
       /\ y = (IF cut < MaxStderr - Len(k.kept) THEN cut ELSE MaxStderr - Len(k.kept))
       /\ f.code = code /\ f.ended = e
       /\ f.kept = k.kept \o SubSeq(b, 1, y) /\ f.truncated = (k.truncated \/ y < cut)
  <2>1. cut \in 0..Len(k.held)
    BY <1>3
  <2> QED
    <3>1. Finished(k, f, e, cut, code)
      BY <1>11, <2>1, FinishIs
    <3> HIDE DEF f
    <3> QED
      BY <3>1, Zenon DEF Finished
<1> DEFINE c == SubSeq(b, 1, y)
<1>13. y = IF cut < MaxStderr - l THEN cut ELSE MaxStderr - l
  BY <1>3, <1>12, Zenon
<1> HIDE DEF f
<1>14. b \in Seq(ErrTokens) /\ Len(b) = cut /\ \A i \in 1..cut : b[i] = k.held[i]
  BY <1>2, <1>3, Split
<1> HIDE DEF b
<1>15. c \in Seq(ErrTokens) /\ Len(c) = y /\ \A i \in 1..y : c[i] = b[i]
  <2>1. y \in 0..Len(b)
    BY <1>14
  <2> QED
    BY <1>14, <2>1, Split
<1>c. f.kept = k.kept \o c
  BY <1>12, Zenon
<1> HIDE DEF c
<1>b. l \in Nat /\ Len(k.kept) = l
  BY <1>3
<1>16. /\ f.kept \in Seq(ErrTokens) /\ Len(f.kept) = l + y
       /\ \A i \in 1..l : f.kept[i] = k.kept[i]
       /\ \A j \in 1..y : f.kept[l + j] = c[j]
  <2>1. ASSUME NEW v \in Seq(ErrTokens), NEW w \in Seq(ErrTokens)
        PROVE  /\ v \o w \in Seq(ErrTokens) /\ Len(v \o w) = Len(v) + Len(w)
               /\ \A i \in 1..Len(v) : (v \o w)[i] = v[i]
               /\ \A j \in 1..Len(w) : (v \o w)[Len(v) + j] = w[j]
    BY Longer
  <2> DEFINE g == k.kept
  <2>2. g \in Seq(ErrTokens) /\ Len(g) = l
    BY <1>2, <1>b
  <2>3. f.kept = g \o c
    BY <1>c
  <2> HIDE DEF g
  <2>4. /\ f.kept \in Seq(ErrTokens) /\ Len(f.kept) = l + y
        /\ \A i \in 1..l : f.kept[i] = g[i]
        /\ \A j \in 1..y : f.kept[l + j] = c[j]
    <3>1. /\ g \o c \in Seq(ErrTokens) /\ Len(g \o c) = Len(g) + Len(c)
          /\ \A i \in 1..Len(g) : (g \o c)[i] = g[i]
          /\ \A j \in 1..Len(c) : (g \o c)[Len(g) + j] = c[j]
      BY <1>15, <2>1, <2>2, Zenon
    <3> QED
      BY <1>15, <2>2, <2>3, <3>1, Zenon
  <2> QED
    BY <2>4 DEF g
<1>17. y \in Nat /\ y <= cut /\ m + cut = n /\ cut \in Nat
  <2>1. y \in 0..cut
    BY <1>12
  <2>2. cut \in Nat /\ m + cut = n
    BY <1>4, <1>8, <1>10
  <2> QED
    BY <2>1, <2>2
<1>18. (y > 0 => l = m) /\ l <= m
  <2>1. MaxStderr \in Nat
    BY <1>2
  <2> QED
    BY <1>4, <1>13, <1>17, <2>1
<1>19. ASSUME NEW i \in 1..Len(f.kept) PROVE f.kept[i] = E[i]
  <2>1. CASE i \in 1..l
    BY <1>a, <1>16, <2>1
  <2>2. CASE i \notin 1..l
    <3>1. PICK j \in 1..y : i = l + j
      <4>1. i - l \in 1..y /\ i = l + (i - l)
        BY <1>16, <1>17, <2>2
      <4> QED
        BY <4>1
    <3>2. j \in 1..cut /\ j \in 1..h /\ i = m + j
      BY <1>10, <1>17, <1>18, <3>1
    <3>3. f.kept[l + j] = c[j] /\ c[j] = b[j] /\ b[j] = k.held[j] /\ k.held[j] = E[m + j]
      BY <1>a, <1>14, <1>15, <1>16, <3>2, Zenon
    <3> QED
      BY <3>1, <3>2, <3>3, Zenon
  <2> QED
    BY <2>1, <2>2
<1>20. Len(f.kept) <= n /\ Len(f.kept) \in Nat
  BY <1>16, <1>17, <1>18
<1>21. ~f.truncated => Len(f.kept) = n
  <2>1. ~f.truncated => ~(m > MaxStderr) /\ ~(y < cut)
    BY <1>1, <1>12, Zenon
  <2>2. ~(m > MaxStderr) /\ ~(y < cut) => l + y = n
    <3>1. MaxStderr \in Nat
      BY <1>2
    <3> QED
      BY <1>4, <1>17, <3>1
  <2> QED
    BY <1>16, <2>1, <2>2, Zenon
<1> QED
  BY <1>8, <1>12, <1>16, <1>19, <1>20, <1>21 DEF f, ThereIs

\* Standard error is laid out as it was where nothing is written to it or read
\* of it, and no process starts behind its layout.
LEMMA LayoutFrame ==
    ASSUME Layout, UNCHANGED <<case, cmdErr, rc, tail, read, err>>,
           drain' = drain \/ drain' \in {"done", "failed"},
           drain' = "none" /\ pc' # "ended" =>
               /\ pc # "ended"
               /\ \/ proc' = proc
                  \/ proc' = "gone" /\ proc # "none"
                  \/ proc = "sudo" /\ proc' = "announce"
                  \/ proc \notin Unstarted \cup {"gone"} /\ proc' \notin Unstarted
               /\ pc' \in {"handoff", "assemble"} => pc \in {"handoff", "assemble"}
               /\ pc' = "settle" => pc = "settle" /\ (Remote \/ up' = up),
           drain' = "poll" =>
               /\ sink' = sink
               /\ wake' /\ result' = "none" /\ Remote /\ status' = "0" =>
                    wake /\ result = "none" /\ status = "0"
    PROVE  Layout'
<1>1. Reported' = Reported /\ Remote' = Remote
  BY DEF Reported, Remote
<1>2. PICK n \in 0..Len(cmdErr) :
        /\ Parts(n)
        /\ drain = "none" /\ pc # "ended" => Unread(n)
        /\ drain = "poll" => Drained(n)
  BY DEF Layout
<1>3. Stream(n)' = Stream(n) /\ Parts(n)' /\ (read \o err)' = read \o err
  BY <1>1, <1>2 DEF Stream, Parts, StatusLine
<1>4. ASSUME drain' = "none", pc' # "ended" PROVE Unread(n)'
  <2>1. Unread(n) /\ pc # "ended"
    BY <1>2, <1>4
  <2>2. CASE proc \in Unstarted \cup {"gone"} /\ pc \notin {"handoff", "assemble"}
             /\ cmdErr = <<>> /\ rc = "none" /\ (case.mode = "direct" => proc = "none")
             /\ (\A i \in 1..Len(read \o err) : (read \o err)[i] # "S")
             /\ (proc = "none" => read = <<>> /\ err = <<>>)
             /\ (proc = "announced" => Len(read \o err) > 0 /\ (read \o err)[Len(read \o err)] = "s")
    <3>1. /\ proc' \in Unstarted \cup {"gone"} /\ pc' \notin {"handoff", "assemble"}
          /\ case.mode = "direct" => proc' = "none"
          /\ proc' = "none" => proc = "none" /\ (proc' = "announced" => proc = "announced")
          /\ proc' = "announced" => proc = "announced"
      BY <1>4, <2>2 DEF Unstarted
    <3> QED
      BY <1>3, <2>2, <3>1 DEF Unread
  <2>3. CASE /\ proc \notin Unstarted
             /\ \E z \in 0..Len(read \o err) :
                  /\ Sentinel(case.mode, read \o err, z) /\ EndsIn(read \o err, z, Stream(n))
                  /\ pc \in {"handoff", "assemble"} => z <= Len(read)
             /\ (pc = "settle" /\ ~Remote => up) /\ (case.mode = "direct" => read = <<>>)
    <3>1. PICK z \in 0..Len(read \o err) :
            /\ Sentinel(case.mode, read \o err, z) /\ EndsIn(read \o err, z, Stream(n))
            /\ pc \in {"handoff", "assemble"} => z <= Len(read)
      BY <2>3
    <3>2. /\ proc' \notin Unstarted /\ (pc' = "settle" /\ ~Remote' => up')
          /\ pc' \in {"handoff", "assemble"} => z <= Len(read)
      BY <1>1, <1>4, <2>3, <3>1 DEF Unstarted
    <3>3. z \in 0..Len((read \o err)') /\ Sentinel(case.mode', (read \o err)', z)
          /\ EndsIn((read \o err)', z, Stream(n)')
      BY <1>3, <3>1
    <3> QED
      BY <2>3, <3>2, <3>3 DEF Unread
  <2> QED
    BY <2>1, <2>2, <2>3 DEF Unread
<1>5. ASSUME drain' = "poll" PROVE Drained(n)'
  <2>1. Drained(n)
    BY <1>2, <1>5
  <2> QED
    BY <1>1, <1>3, <1>5, <2>1 DEF Drained
<1> QED
  BY <1>2, <1>3, <1>4, <1>5 DEF Layout

\* Writing behind what is read and what is not are one.
LEMMA Regroup ==
    \A a, b, d \in Seq(ErrTokens) : a \o (b \o d) = (a \o b) \o d
<1>1. ASSUME NEW a \in Seq(ErrTokens), NEW b \in Seq(ErrTokens), NEW d \in Seq(ErrTokens)
      PROVE  (a \o b) \o d = a \o (b \o d)
  BY ConcatAssociative
<1> QED
  BY <1>1

\* What the command's side writes goes behind what is there.
LEMMA LayoutGrows ==
    ASSUME Types, Placed, NEW n \in Nat, Parts(n), Stream(n) \in Seq(ErrTokens),
           drain = "none" /\ pc # "ended" => Unread(n), drain = "poll" => Drained(n),
           NEW w \in Seq(ErrTokens), NEW m \in 0..Len(cmdErr'), Parts(m)', Stream(m)' = Stream(n) \o w,
           IF ErrClosed THEN err' = err ELSE err' = err \o w,
           UNCHANGED <<case, read, proc, pc, drain, sink, wake, result, status, up>>,
           proc = "command" \/ rc # "none", Remote => up
    PROVE  Layout'
<1>1. Remote' = Remote /\ err \in Seq(ErrTokens) /\ read \in Seq(ErrTokens)
  BY DEF Remote, Types
<1>2. ASSUME drain = "none", pc # "ended" PROVE Unread(m)'
  <2>1. err' = err \o w
    BY <1>2 DEF ErrClosed
  <2>2. /\ proc \notin Unstarted
        /\ \E z \in 0..Len(read \o err) :
             /\ Sentinel(case.mode, read \o err, z) /\ EndsIn(read \o err, z, Stream(n))
             /\ pc \in {"handoff", "assemble"} => z <= Len(read)
        /\ (pc = "settle" /\ ~Remote => up) /\ (case.mode = "direct" => read = <<>>)
    BY <1>2 DEF Unread, Unstarted
  <2>3. PICK z \in 0..Len(read \o err) :
          /\ Sentinel(case.mode, read \o err, z) /\ EndsIn(read \o err, z, Stream(n))
          /\ pc \in {"handoff", "assemble"} => z <= Len(read)
    BY <2>2
  <2> DEFINE E == read \o err
  <2>4. E \in Seq(ErrTokens) /\ read \o (err \o w) = E \o w
    <3>1. E \in Seq(ErrTokens)
      BY <1>1, ConcatProperties
    <3>2. err \in Seq(ErrTokens) /\ read \in Seq(ErrTokens) /\ w \in Seq(ErrTokens)
      BY <1>1
    <3>3. read \o (err \o w) = (read \o err) \o w
      BY <3>2, Regroup, Zenon
    <3> QED
      BY <3>1, <3>3
  <2>5. (read \o err)' = E \o w
    BY <2>1, <2>4
  <2>6. Sentinel(case.mode, E, z) /\ EndsIn(E, z, Stream(n)) /\ z \in 0..Len(E) /\ z \in Nat
    BY <2>3
  <2> HIDE DEF E
  <2>7. Sentinel(case.mode, E \o w, z) /\ EndsIn(E \o w, z, Stream(n) \o w)
    BY <2>4, <2>6, SentinelStays, EndsGrow
  <2>8. z \in 0..Len(E \o w)
    <3>1. Len(E \o w) = Len(E) + Len(w) /\ Len(E) \in Nat /\ Len(w) \in Nat
      BY <2>4, Longer
    <3> QED
      BY <2>6, <3>1
  <2>9. /\ z \in 0..Len((read \o err)') /\ Sentinel(case.mode', (read \o err)', z)
        /\ EndsIn((read \o err)', z, Stream(m)')
    BY <2>5, <2>7, <2>8
  <2> QED
    BY <1>1, <2>2, <2>3, <2>9 DEF Unread
<1>3. ASSUME drain = "poll" PROVE Drained(m)'
  <2>1. err' = err \o w
    BY <1>3 DEF ErrClosed
  <2>2. PICK q \in Nat : EndsIn(Stream(n), q, err) /\ Keeps(sink, Stream(n), q)
    BY <1>3 DEF Drained
  <2>3. EndsIn(Stream(n) \o w, q, err \o w)
    BY <1>1, <2>2, EndsGrow
  <2>4. sink \in Sinks
    BY <1>3 DEF Types
  <2>5. Keeps(sink, Stream(n) \o w, q)
    BY <2>2, <2>4, KeepsStays
  <2>6. ~(wake /\ result = "none" /\ Remote /\ status = "0")
    BY <1>3 DEF Placed
  <2>7. EndsIn(Stream(m)', q, err') /\ Keeps(sink', Stream(m)', q)
    BY <2>1, <2>3, <2>5
  <2>8. sink'.hold = IF Remote' THEN StatusHold ELSE 0
    BY <1>1, <1>3 DEF Drained
  <2> QED
    BY <1>1, <2>6, <2>7, <2>8 DEF Drained
<1> QED
  BY <1>2, <1>3 DEF Layout

\* A sink that was given nothing keeps nothing.
LEMMA KeepsNothing ==
    ASSUME NEW k \in Sinks, NEW E \in Seq(ErrTokens), k.held = <<>>, k.kept = <<>>, k.truncated = FALSE
    PROVE  Keeps(k, E, 0)
<1>1. Len(k.held) = 0 /\ Len(k.kept) = 0 /\ k.hold \in Nat /\ Len(E) \in Nat /\ MaxStderr \in Nat
  BY LenProperties, ChannelAssumption DEF Sinks
<1>2. \A l, h, m \in Nat : /\ 0 - 0 \in Nat /\ 0 <= l /\ (0 - 0 > m) = FALSE
                          /\ 0 = (IF 0 < h THEN 0 ELSE h) /\ 0 = (IF 0 - 0 < m THEN 0 - 0 ELSE m)
  OBVIOUS
<1>3. \A i \in 1..0 : FALSE
  OBVIOUS
<1>4. /\ 0 - Len(k.held) \in Nat /\ 0 <= Len(E)
      /\ k.truncated = (0 - Len(k.held) > MaxStderr)
      /\ Len(k.held) = (IF 0 < k.hold THEN 0 ELSE k.hold)
      /\ Len(k.kept) = (IF 0 - Len(k.held) < MaxStderr THEN 0 - Len(k.held) ELSE MaxStderr)
  BY <1>1, <1>2, Zenon
<1>5. /\ \A i \in 1..Len(k.held) : k.held[i] = E[0 - Len(k.held) + i]
      /\ \A i \in 1..Len(k.kept) : k.kept[i] = E[i]
  BY <1>1, <1>3, Zenon
<1> QED
  BY <1>4, <1>5, Zenon DEF Keeps

\* Standard error behind the drain, where nothing is written and nothing read.
LEMMA DrainedFrame ==
    ASSUME NEW n \in Nat, Drained(n), Stream(n)' = Stream(n), UNCHANGED <<case, sink, err>>,
           ~(wake' /\ result' = "none" /\ Remote /\ status' = "0")
    PROVE  Drained(n)'
<1>1. Remote' = Remote
  BY DEF Remote
<1> QED
  BY <1>1 DEF Drained

\* Ahead of the start there is neither a sentinel nor a command.
LEMMA Unstarting ==
    ASSUME Types, Placed, NEW n \in Nat, n \in 0..Len(cmdErr), Parts(n),
           drain = "none" /\ pc # "ended" => Unread(n),
           proc \in {"sudo", "announce", "announced"},
           UNCHANGED <<case, cmdErr, rc, tail, read, pc, drain>>
    PROVE  /\ (drain = "none" /\ pc # "ended" => Unread(n)') => Layout'
           /\ drain = "none" /\ pc # "ended" =>
                /\ pc \notin {"handoff", "assemble"} /\ cmdErr = <<>> /\ rc = "none"
                /\ case.mode # "direct" /\ \A i \in 1..Len(read \o err) : (read \o err)[i] # "S"
                /\ proc = "announced" =>
                     Len(read \o err) > 0 /\ (read \o err)[Len(read \o err)] = "s"
<1>1. drain # "poll" /\ case.mode # "direct"
  BY DEF Placed, Types, OpenPcs, OpeningPcs, Unstarted
<1>2. Remote' = Remote /\ Reported' = Reported
  BY DEF Reported, Remote
<1>3. Parts(n)' /\ Stream(n)' = Stream(n)
  BY <1>2 DEF Parts, Stream, StatusLine
<1>4. (drain = "none" /\ pc # "ended" => Unread(n)') => Layout'
  BY <1>1, <1>3 DEF Layout
<1>5. ASSUME drain = "none", pc # "ended"
      PROVE  /\ pc \notin {"handoff", "assemble"} /\ cmdErr = <<>> /\ rc = "none"
             /\ \A i \in 1..Len(read \o err) : (read \o err)[i] # "S"
             /\ proc = "announced" =>
                     Len(read \o err) > 0 /\ (read \o err)[Len(read \o err)] = "s"
  BY <1>5 DEF Unread, Unstarted
<1> QED
  BY <1>1, <1>4, <1>5

\* Every step keeps the layout of standard error.
LEMMA LayoutStep == Types /\ Types' /\ Placed /\ Lined /\ Lined' /\ Fed /\ Layout /\ Started /\ [Next]_vars => Layout'
<1> SUFFICES ASSUME Types, Types', Placed, Lined, Lined', Fed, Layout, Started, [Next]_vars PROVE Layout'
  OBVIOUS
<1> USE DEF setup, opener, ours, pipes, theirs, said, local, thread, OpeningPcs, OpenPcs, Unstarted
<1>a. case \in Cases
  BY DEF Types
<1>b. case.mode \in {"direct", "sudo", "ssh", "sshsudo"}
  BY <1>a, CaseFacts
<1>c. StreamFacts
  BY StreamIs
<1>d. PICK n \in Nat :
        /\ n \in 0..Len(cmdErr) /\ Parts(n)
        /\ drain = "none" /\ pc # "ended" => Unread(n)
        /\ drain = "poll" => Drained(n)
  <2>1. Len(cmdErr) \in Nat
    BY LenProperties DEF Types
  <2> QED
    BY <2>1 DEF Layout
<1>e. /\ Stream(n) \in Seq(ErrTokens) /\ Len(Stream(n)) = Len(cmdErr) + Reported
      /\ Reported \in 0..4 /\ Len(cmdErr) \in Nat
  BY <1>c, <1>d DEF StreamFacts
<1>f. read \in Seq(ErrTokens) /\ err \in Seq(ErrTokens)
  BY DEF Types
<1>1. CASE UNCHANGED vars
  BY <1>1, LayoutFrame DEF vars, Placed, TransportGoes
<1>2. CASE Spawn
  <2>1. /\ proc = "none" /\ read = <<>> /\ err = <<>> /\ cmdErr = <<>> /\ rc = "none" /\ drain = "none"
    BY <1>2, <1>d DEF Spawn, Placed, Unread
  <2>2. /\ UNCHANGED <<case, cmdErr, rc, tail, read, err, drain>>
        /\ pc' = (IF case.mode = "direct" THEN "assemble" ELSE "settle") /\ up' = TRUE
        /\ case.mode = "direct" => proc' = "command"
        /\ case.mode # "direct" => proc' \in {"sudo", "announce"}
    BY <1>2, <1>b DEF Spawn, Elevated
  <2>3. Remote' = Remote /\ Reported = 0 /\ Reported' = 0
    BY <2>1, <2>2 DEF Reported, Remote
  <2>4. Stream(n)' = Stream(n) /\ Parts(n)' /\ Len(cmdErr) = 0 /\ Len(Stream(n)) = 0
    BY <1>d, <1>e, <2>1, <2>2, <2>3 DEF Stream, Parts, StatusLine
  <2>5. read' \o err' = <<>> /\ Len(<<>>) = 0
    BY <2>1, <2>2
  <2>6. CASE case.mode = "direct"
    <3>1. Sentinel(case.mode', read' \o err', 0) /\ EndsIn(read' \o err', 0, Stream(n)')
      BY <2>2, <2>4, <2>5, <2>6 DEF Sentinel, EndsIn
    <3>2. 0 \in 0..Len(read' \o err') /\ Len(read') = 0
      BY <2>1, <2>2, <2>5
    <3>3. Unread(n)'
      BY <2>1, <2>2, <2>6, <3>1, <3>2 DEF Unread
    <3> QED
      BY <1>d, <2>1, <2>2, <2>4, <3>3 DEF Layout
  <2>7. CASE case.mode # "direct"
    <3>1. \A i \in 1..Len(read' \o err') : (read' \o err')[i] # "S"
      BY <2>5
    <3>2. Unread(n)'
      BY <2>1, <2>2, <2>7, <3>1 DEF Unread
    <3> QED
      BY <1>d, <2>1, <2>2, <2>4, <3>2 DEF Layout
  <2> QED
    BY <2>6, <2>7
<1>3. CASE SettleTurn
  <2>1. /\ pc = "settle" /\ pc' \in {"settle", "refuse"} /\ drain = "none" /\ proc # "none"
        /\ case.mode # "direct" /\ UNCHANGED <<case, cmdErr, rc, tail, proc, drain, up>>
    BY <1>3 DEF SettleTurn, Placed
  <2>2. (read \o err)' = read \o err
    <3>1. CASE UNCHANGED <<err, read>>
      BY <3>1
    <3>2. ASSUME NEW j \in 0..Len(err), read' = read \o SubSeq(err, 1, j),
                 err' = SubSeq(err, j + 1, Len(err))
          PROVE  (read \o err)' = read \o err
      <4> DEFINE a == SubSeq(err, 1, j)
                 b == SubSeq(err, j + 1, Len(err))
      <4>1. /\ a \in Seq(ErrTokens) /\ Len(a) = j /\ \A i \in 1..j : a[i] = err[i]
            /\ b \in Seq(ErrTokens) /\ Len(b) = Len(err) - j
            /\ \A i \in 1..(Len(err) - j) : b[i] = err[j + i]
        BY <1>f, Split
      <4> HIDE DEF a, b
      <4>2. Len(err) = Len(a) + Len(b)
        <5>1. Len(err) \in Nat
          BY <1>f, LenProperties
        <5> QED
          BY <4>1, <5>1
      <4>3. err = a \o b
        <5>1. \A i \in 1..Len(a) : err[i] = a[i]
          BY <4>1
        <5>2. \A i \in 1..Len(b) : err[Len(a) + i] = b[i]
          BY <4>1
        <5> QED
          BY <1>f, <4>1, <4>2, <5>1, <5>2, Joined
      <4>4. (read \o a) \o b = read \o (a \o b)
        BY <1>f, <4>1, ConcatAssociative, SMTT(30)
      <4>5. read' = read \o a /\ err' = b
        BY <3>2 DEF a, b
      <4> QED
        BY <4>3, <4>4, <4>5
    <3>3. Len(err) \in Nat
      BY <1>f, LenProperties
    <3>4. \/ UNCHANGED <<err, read>>
          \/ \E j \in 1..Len(err) \cup {0} :
               /\ read' = read \o SubSeq(err, 1, j) /\ err' = SubSeq(err, j + 1, Len(err))
      BY <1>3 DEF SettleTurn
    <3>5. \A j \in 1..Len(err) \cup {0} : j \in 0..Len(err)
      BY <3>3
    <3> QED
      BY <3>1, <3>2, <3>4, <3>5, Zenon
  <2>3. Remote' = Remote /\ Reported' = Reported
    BY <2>1 DEF Reported, Remote
  <2>4. Stream(n)' = Stream(n) /\ Parts(n)'
    BY <1>d, <2>1, <2>3 DEF Stream, Parts, StatusLine
  <2>5. Unread(n)
    BY <1>d, <2>1
  <2>6. Unread(n)'
    <3> DEFINE E == read \o err
    <3>1. E' = E
      BY <2>2
    <3>2. read' \o err' = E
      BY <2>2
    <3> HIDE DEF E
    <3>3. \/ /\ proc \in Unstarted \cup {"gone"} /\ pc \notin {"handoff", "assemble"}
             /\ cmdErr = <<>> /\ rc = "none" /\ (case.mode = "direct" => proc = "none")
             /\ \A i \in 1..Len(E) : E[i] # "S"
             /\ proc = "announced" => Len(E) > 0 /\ E[Len(E)] = "s"
          \/ /\ proc \notin Unstarted
             /\ \E z \in 0..Len(E) : Sentinel(case.mode, E, z) /\ EndsIn(E, z, Stream(n))
             /\ pc = "settle" /\ ~Remote => up
      BY <2>5 DEF Unread, E
    <3> QED
      BY <2>1, <2>3, <2>4, <3>2, <3>3 DEF Unread
  <2> QED
    BY <1>d, <2>1, <2>4, <2>6 DEF Layout
<1>4. CASE SettleDecides
  <2>1. /\ pc = "settle" /\ drain = "none" /\ case.mode # "direct"
        /\ UNCHANGED <<case, cmdErr, rc, tail, read, err, proc, drain, up>>
    BY <1>4 DEF SettleDecides, Placed
  <2>2. CASE Settled = "started"
    <3>1. proc \notin Unstarted
      BY <2>1, <2>2, SettledIs
    <3>2. PICK j \in 0..Len(cmdErr), z \in 0..Len(read) :
            Parts(j) /\ Sentinel(case.mode, read \o err, z) /\ EndsIn(read \o err, z, Stream(j))
      BY <2>1, <2>2, SettledIs
    <3>3. pc' = "handoff"
      BY <1>4, <2>2 DEF SettleDecides
    <3>4. Remote' = Remote /\ Reported' = Reported
      BY <2>1 DEF Reported, Remote
    <3>5. Stream(j)' = Stream(j) /\ Parts(j)'
      BY <2>1, <3>2, <3>4 DEF Stream, Parts, StatusLine
    <3>6. z \in 0..Len(read \o err) /\ z <= Len(read)
      <4>1. Len(read \o err) = Len(read) + Len(err) /\ Len(err) \in Nat /\ Len(read) \in Nat
        BY <1>f, Longer
      <4> QED
        BY <4>1
    <3>7. Unread(j)'
      BY <2>1, <3>1, <3>2, <3>3, <3>5, <3>6 DEF Unread
    <3> QED
      BY <2>1, <3>5, <3>7 DEF Layout
  <2>3. CASE Settled # "started"
    <3>1. pc' = "refuse"
      BY <1>4, <2>3 DEF SettleDecides
    <3> QED
      BY <2>1, <3>1, LayoutFrame
  <2> QED
    BY <2>2, <2>3
<1>5. CASE HandOff
  BY <1>5, LayoutFrame DEF HandOff, Placed, TransportGoes
<1>6. CASE Assemble
  <2>1. PICK j \in 0..Len(cmdErr), z \in 0..Len(read) :
          /\ Parts(j) /\ Sentinel(case.mode, read \o err, z) /\ EndsIn(read \o err, z, Stream(j))
          /\ case.mode # "direct" => Announcement(read).at = z
    BY <1>6, HandedOff DEF Assemble
  <2>2. /\ UNCHANGED <<case, cmdErr, rc, tail, read, err, wake>> /\ pc = "assemble" /\ drain' = "poll"
        /\ ~wake
    BY <1>6 DEF Assemble, Placed
  <2>3. case.mode = "direct" => read = <<>>
    BY <1>d, <2>2 DEF Unread, Placed
  <2>4. Remote' = Remote /\ Reported' = Reported
    BY <2>2 DEF Reported, Remote
  <2>5. Stream(j)' = Stream(j) /\ Parts(j)'
    BY <2>1, <2>2, <2>4 DEF Stream, Parts, StatusLine
  <2>6. j \in Nat /\ Stream(j) \in Seq(ErrTokens)
    BY <1>c, <1>e, <2>1 DEF StreamFacts
  <2> DEFINE hold == IF Remote THEN StatusHold ELSE 0
             b == SubSeq(read, z + 1, Len(read))
  <2>7. hold \in Nat
    BY ChannelAssumption
  <2>8. sink' = Push(NewSink(hold), b)
    <3>1. CASE case.mode = "direct"
      <4>1. SubSeq(<<>>, z + 1, 0) = <<>>
        <5>1. z = 0
          BY <2>1, <2>3, <3>1
        <5> QED
          BY <5>1
      <4>2. b = <<>>
        BY <2>3, <3>1, <4>1
      <4> QED
        BY <1>6, <3>1, <4>2 DEF Assemble
    <3>2. CASE case.mode # "direct"
      BY <1>6, <2>1, <3>2 DEF Assemble
    <3> QED
      BY <3>1, <3>2
  <2>9. /\ b \in Seq(ErrTokens) /\ Len(b) = Len(read) - z
        /\ \A i \in 1..(Len(read) - z) : b[i] = read[z + i]
    BY <1>f, Split
  <2> HIDE DEF hold, b
  <2>10. /\ Len(read \o err) = Len(read) + Len(err) /\ Len(err) \in Nat /\ Len(read) \in Nat
         /\ \A i \in 1..Len(read) : (read \o err)[i] = read[i]
         /\ \A i \in 1..Len(err) : (read \o err)[Len(read) + i] = err[i]
    BY <1>f, Longer
  <2>11. /\ Len(read \o err) = z + Len(Stream(j)) /\ Len(Stream(j)) \in Nat
         /\ \A i \in 1..Len(Stream(j)) : (read \o err)[z + i] = Stream(j)[i]
    BY <2>1, <2>6, LenProperties DEF EndsIn
  <2>12. /\ Len(err) \in Nat /\ Len(read) \in Nat /\ z \in Nat
         /\ Len(b) \in Nat /\ z + Len(b) = Len(read) /\ Len(Stream(j)) = Len(b) + Len(err)
    BY <2>9, <2>10, <2>11
  <2>13. ASSUME NEW i \in 1..Len(b) PROVE b[i] = Stream(j)[i]
    <3>1. i \in 1..(Len(read) - z) /\ z + i \in 1..Len(read) /\ i \in 1..Len(Stream(j))
      BY <2>9, <2>10, <2>12
    <3> QED
      BY <2>9, <2>10, <2>11, <3>1
  <2>14. EndsIn(Stream(j), Len(b), err)
    <3>1. ASSUME NEW i \in 1..Len(err) PROVE Stream(j)[Len(b) + i] = err[i]
      <4>1. Len(b) + i \in 1..Len(Stream(j)) /\ z + (Len(b) + i) = Len(read) + i
        BY <2>12
      <4> QED
        BY <2>10, <2>11, <4>1
    <3> QED
      BY <2>12, <3>1 DEF EndsIn
  <2>15. NewSink(hold) \in Sinks /\ Keeps(NewSink(hold), Stream(j), 0) /\ 0 \in Nat
    <3>1. NewSink(hold) \in Sinks
      BY <2>7 DEF NewSink, Sinks
    <3>2. /\ NewSink(hold).held = <<>> /\ NewSink(hold).kept = <<>> /\ NewSink(hold).truncated = FALSE
      BY DEF NewSink
    <3> QED
      BY <2>6, <3>1, <3>2, KeepsNothing
  <2>16. Keeps(Push(NewSink(hold), b), Stream(j), 0 + Len(b))
    <3>1. 0 + Len(b) <= Len(Stream(j)) /\ \A i \in 1..Len(b) : 0 + i = i
      BY <2>10, <2>12
    <3>2. \A i \in 1..Len(b) : b[i] = Stream(j)[0 + i]
      BY <2>13, <3>1
    <3> QED
      BY <2>6, <2>9, <2>15, <3>1, <3>2, KeepsPush
  <2>17. Push(NewSink(hold), b).hold = hold
    <3>1. Len(NewSink(hold).kept) <= MaxStderr /\ NewSink(hold).hold = hold
      BY ChannelAssumption DEF NewSink
    <3> QED
      BY <2>9, <2>15, <3>1, PushIs
  <2>18. EndsIn(Stream(j)', Len(b), err') /\ Keeps(sink', Stream(j)', Len(b)) /\ ~wake'
    BY <2>2, <2>5, <2>8, <2>12, <2>14, <2>16
  <2>19. Drained(j)'
    BY <2>4, <2>8, <2>12, <2>17, <2>18 DEF Drained, hold
  <2> QED
    BY <2>1, <2>2, <2>5, <2>19 DEF Layout
<1>7. CASE Refuse
  BY <1>7, LayoutFrame DEF Refuse, Placed, TransportGoes
<1>8. CASE WaitReaps
  BY <1>8, LayoutFrame DEF WaitReaps, Placed, TransportGoes
<1>9. CASE StopDrain
  <2>1. /\ UNCHANGED <<case, cmdErr, rc, tail, read, err, drain, sink, result, status, up>>
        /\ pc = "grace" /\ drain # "none" /\ (drain = "poll" => err = <<>>) /\ ~up
    BY <1>9 DEF StopDrain, Placed
  <2>2. Remote' = Remote /\ Reported' = Reported
    BY <2>1 DEF Reported, Remote
  <2>3. Stream(n)' = Stream(n) /\ Parts(n)'
    BY <1>d, <2>1, <2>2 DEF Stream, Parts, StatusLine
  <2>4. ASSUME drain = "poll" PROVE Drained(n)'
    <3>1. PICK q \in Nat : EndsIn(Stream(n), q, err) /\ Keeps(sink, Stream(n), q)
      BY <1>d, <2>4 DEF Drained
    <3>2. ASSUME Remote, status = "0" PROVE q >= n + 4
      <4>1. Reported = 4
        <5>1. rc # "none" /\ tail = <<>>
          BY <2>1, <3>2 DEF Placed
        <5>2. Len(tail) = 0
          BY <5>1
        <5> QED
          BY <3>2, <5>1, <5>2 DEF Reported
      <4>2. Len(Stream(n)) = q + 0
        BY <2>1, <2>4, <3>1 DEF EndsIn
      <4> QED
        BY <1>d, <1>e, <4>1, <4>2
    <3> QED
      BY <1>d, <2>1, <2>2, <2>3, <2>4, <3>1, <3>2 DEF Drained
  <2> QED
    BY <1>d, <2>1, <2>3, <2>4 DEF Layout
<1>10. CASE ShutDown
  BY <1>10, LayoutFrame DEF ShutDown, Placed, TransportGoes
<1>11. CASE Join
  BY <1>11, LayoutFrame DEF Join, Placed, TransportGoes
<1>12. CASE DrainStops
  BY <1>12, LayoutFrame DEF DrainStops, Placed, TransportGoes
<1>13. CASE DrainReads
  <2>1. CASE drain' = "done" /\ UNCHANGED err
    BY <1>13, <2>1, LayoutFrame DEF DrainReads
  <2>2. ASSUME NEW j \in 1..Len(err), sink' = Push(sink, SubSeq(err, 1, j)),
               err' = SubSeq(err, j + 1, Len(err)), UNCHANGED drain
        PROVE  Layout'
    <3>1. /\ UNCHANGED <<case, cmdErr, rc, tail, read, result, status, wake, pc>> /\ drain = "poll"
          /\ ~wake
      BY <1>13 DEF DrainReads
    <3>2. Remote' = Remote /\ Reported' = Reported
      BY <3>1 DEF Reported, Remote
    <3>3. Stream(n)' = Stream(n) /\ Parts(n)'
      BY <1>d, <3>1, <3>2 DEF Stream, Parts, StatusLine
    <3> DEFINE b == SubSeq(err, 1, j)
               r == SubSeq(err, j + 1, Len(err))
    <3>4. Len(err) \in Nat /\ j \in 0..Len(err)
      BY <1>f, LenProperties
    <3>5. /\ b \in Seq(ErrTokens) /\ Len(b) = j /\ \A i \in 1..j : b[i] = err[i]
          /\ Len(r) = Len(err) - j /\ \A i \in 1..(Len(err) - j) : r[i] = err[j + i]
      BY <1>f, <3>4, Split
    <3>6. sink' = Push(sink, b) /\ err' = r
      BY <2>2
    <3> HIDE DEF b, r
    <3>7. PICK q \in Nat : EndsIn(Stream(n), q, err) /\ Keeps(sink, Stream(n), q)
      BY <1>d, <3>1 DEF Drained
    <3>8. Len(Stream(n)) = q + Len(err) /\ \A i \in 1..Len(err) : Stream(n)[q + i] = err[i]
      BY <3>7 DEF EndsIn
    <3>9. q + Len(b) <= Len(Stream(n)) /\ q + Len(b) \in Nat
      BY <3>4, <3>5, <3>8
    <3>10. \A i \in 1..Len(b) : b[i] = Stream(n)[q + i]
      <4>1. \A i \in 1..j : i \in 1..Len(err)
        BY <3>4
      <4> QED
        BY <3>5, <3>8, <4>1
    <3>11. sink \in Sinks /\ Len(sink.kept) <= MaxStderr
      BY <3>1 DEF Types
    <3>12. Keeps(Push(sink, b), Stream(n), q + Len(b))
      BY <1>e, <3>5, <3>7, <3>9, <3>10, <3>11, KeepsPush
    <3>13. EndsIn(Stream(n), q + Len(b), r)
      <4>1. Len(Stream(n)) = (q + Len(b)) + Len(r)
        BY <3>4, <3>5, <3>8
      <4>2. ASSUME NEW i \in 1..Len(r) PROVE Stream(n)[(q + Len(b)) + i] = r[i]
        <5>1. i \in 1..(Len(err) - j) /\ j + i \in 1..Len(err) /\ (q + Len(b)) + i = q + (j + i)
          BY <3>4, <3>5
        <5> QED
          BY <3>5, <3>8, <5>1
      <4> QED
        BY <4>1, <4>2 DEF EndsIn
    <3>14. Push(sink, b).hold = sink.hold
      BY <3>5, <3>11, PushIs
    <3>15. EndsIn(Stream(n)', q + Len(b), err') /\ Keeps(sink', Stream(n)', q + Len(b)) /\ ~wake'
      BY <3>1, <3>3, <3>6, <3>12, <3>13
    <3>16. sink'.hold = IF Remote' THEN StatusHold ELSE 0
      BY <1>d, <3>1, <3>2, <3>6, <3>14 DEF Drained
    <3>17. Drained(n)'
      BY <3>9, <3>15, <3>16 DEF Drained
    <3> QED
      BY <1>d, <2>2, <3>1, <3>3, <3>17 DEF Layout
  <2> QED
    BY <1>13, <2>1, <2>2 DEF DrainReads
<1>14. CASE CommandReads
  BY <1>14, LayoutFrame DEF CommandReads, Placed, TransportGoes
<1>15. CASE CommandPrints
  BY <1>15, LayoutFrame DEF CommandPrints, Placed, TransportGoes
<1>16. CASE Sudo
  <2>1. /\ proc = "sudo" /\ UNCHANGED <<case, cmdErr, rc, tail, read, err, pc, drain>>
        /\ proc' \in {"sudo", "announce", "gone"}
    BY <1>16 DEF Sudo, TransportGoes
  <2>2. ASSUME drain = "none", pc # "ended" PROVE Unread(n)'
    <3>1. /\ pc \notin {"handoff", "assemble"} /\ cmdErr = <<>> /\ rc = "none" /\ case.mode # "direct"
          /\ \A i \in 1..Len(read \o err) : (read \o err)[i] # "S"
      BY <1>d, <2>1, <2>2, Unstarting
    <3>2. (read \o err)' = read \o err
      BY <2>1
    <3> QED
      BY <2>1, <3>1, <3>2 DEF Unread
  <2> QED
    BY <1>d, <2>1, <2>2, Unstarting
<1>17. CASE Announce
  <2> DEFINE tok == IF proc = "announce" THEN "s" ELSE "S"
  <2>1. /\ proc \in {"announce", "announced"} /\ UNCHANGED <<case, cmdErr, rc, tail, read, pc, drain, up>>
        /\ WriteErr(<<tok>>) /\ up /\ proc' = (IF proc = "announce" THEN "announced" ELSE "discard")
    BY <1>17 DEF Announce
  <2>2. ASSUME drain = "none", pc # "ended" PROVE Unread(n)'
    <3>1. /\ pc \notin {"handoff", "assemble"} /\ cmdErr = <<>> /\ rc = "none" /\ case.mode # "direct"
          /\ \A i \in 1..Len(read \o err) : (read \o err)[i] # "S"
          /\ proc = "announced" =>
               Len(read \o err) > 0 /\ (read \o err)[Len(read \o err)] = "s"
      BY <1>d, <2>1, <2>2, Unstarting
    <3>2. err' = err \o <<tok>>
      BY <2>1, <2>2 DEF WriteErr, ErrClosed
    <3> DEFINE E == read \o err
    <3>3. E \in Seq(ErrTokens)
      BY <1>f, ConcatProperties
    <3>4. <<tok>> \in Seq(ErrTokens) /\ Len(<<tok>>) = 1 /\ <<tok>>[1] = tok
      BY DEF ErrTokens
    <3>5. read' \o err' = E \o <<tok>>
      BY <1>f, <2>1, <3>2, <3>4, Regroup
    <3>6. /\ \A i \in 1..Len(E) : E[i] # "S"
          /\ proc = "announced" => Len(E) > 0 /\ E[Len(E)] = "s"
      BY <3>1
    <3> DEFINE W == E \o <<tok>>
    <3>a. read' \o err' = W
      BY <3>5
    <3>b. (read \o err)' = W
      BY <3>5
    <3> HIDE DEF E
    <3>7. /\ Len(W) = Len(E) + 1 /\ Len(E) \in Nat
          /\ \A i \in 1..Len(E) : W[i] = E[i]
          /\ W[Len(E) + 1] = tok
      <4>1. /\ Len(W) = Len(E) + 1 /\ Len(E) \in Nat
            /\ \A i \in 1..Len(E) : W[i] = E[i]
            /\ \A j \in 1..Len(<<tok>>) : W[Len(E) + j] = <<tok>>[j]
        BY <3>3, <3>4, Longer
      <4>2. W[Len(E) + 1] = tok
        BY <3>4, <4>1
      <4> QED
        BY <4>1, <4>2
    <3> HIDE DEF W
    <3>8. CASE proc = "announce"
      <4>1. tok = "s" /\ proc' = "announced"
        BY <2>1, <3>8
      <4>2. ASSUME NEW i \in 1..Len(W) PROVE i \in 1..Len(E) \/ i = Len(E) + 1
        BY <3>7
      <4>3. \A i \in 1..Len(W) : W[i] # "S"
        BY <3>6, <3>7, <4>1, <4>2
      <4>4. Len(W) > 0 /\ W[Len(W)] = "s"
        BY <3>7, <4>1
      <4> QED
        BY <2>1, <3>1, <3>a, <4>1, <4>3, <4>4 DEF Unread
    <3>9. CASE proc = "announced"
      <4>1. tok = "S" /\ proc' = "discard" /\ Len(E) > 0 /\ E[Len(E)] = "s"
        BY <2>1, <3>6, <3>9
      <4> DEFINE z == Len(W)
      <4>2. z \in 2..Len(W) /\ z - 1 \in 1..Len(E) /\ z - 1 = Len(E) /\ z \in Nat /\ z \in 0..Len(W)
        BY <3>7, <4>1
      <4>3. W[z - 1] = "s" /\ W[z] = "S"
        BY <3>7, <4>1, <4>2
      <4>4. \A i \in 1..(z - 1) : W[i] # "S"
        BY <3>6, <3>7, <4>2
      <4> HIDE DEF z
      <4>5. Sentinel(case.mode, W, z)
        BY <3>1, <4>2, <4>3, <4>4 DEF Sentinel
      <4>6. Stream(n)' = Stream(n) /\ Len(Stream(n)) = 0
        <5>1. Remote' = Remote /\ Reported = 0 /\ Reported' = 0 /\ Len(cmdErr) = 0
          BY <2>1, <3>1 DEF Reported, Remote
        <5>2. Stream(n)' = Stream(n)
          BY <2>1, <5>1 DEF Stream, StatusLine
        <5> QED
          BY <1>e, <5>1, <5>2
      <4>7. EndsIn(W, z, Stream(n)')
        BY <4>2, <4>6 DEF EndsIn, z
      <4>8. Sentinel(case.mode', (read \o err)', z) /\ EndsIn((read \o err)', z, Stream(n)')
            /\ z \in 0..Len((read \o err)')
        BY <2>1, <3>b, <4>2, <4>5, <4>7
      <4>9. proc' \notin Unstarted /\ pc' \notin {"handoff", "assemble"} /\ up' /\ case'.mode # "direct"
        BY <2>1, <3>1, <4>1
      <4> QED
        BY <4>8, <4>9 DEF Unread
    <3> QED
      BY <2>1, <3>8, <3>9
  <2> QED
    BY <1>d, <2>1, <2>2, Unstarting
<1>18. CASE Discard
  <2>1. /\ proc = "discard" /\ up /\ UNCHANGED <<case, cmdErr, read, err, drain, sink, pc, wake, result>>
    BY <1>18 DEF Discard
  <2>2. CASE UNCHANGED <<tail, rc, up, status>> /\ proc' \in {"discard", "command"}
    BY <2>1, <2>2, LayoutFrame
  <2>3. CASE inEnd = "closed" /\ ~Remote /\ TransportGoes("1") /\ UNCHANGED <<tail, rc>>
    <3>1. drain # "none" \/ pc = "ended"
      BY <2>3 DEF Placed, Types
    <3> QED
      BY <2>1, <2>3, <3>1, LayoutFrame DEF TransportGoes
  <2>4. CASE inEnd = "closed" /\ Remote /\ tail' = <<"nl", "M", "1", "nl">> /\ rc' = "1" /\ UNCHANGED <<up, status>>
    <3>1. rc = "none" /\ Len(tail') = 4
      BY <2>1, <2>4 DEF Placed
    <3>2. n \in 0..Len(cmdErr') /\ Parts(n)' /\ Stream(n)' = Stream(n)
      BY <1>d, <2>1, <3>1, ExitKeeps
    <3>3. drain # "none" \/ pc = "ended"
      BY <2>4 DEF Placed, Types
    <3>4. ~(wake' /\ result' = "none") \/ drain # "poll"
      BY <2>1 DEF Placed
    <3>5. drain = "poll" => Drained(n)'
      BY <1>d, <2>1, <3>2, <3>4, DrainedFrame
    <3> QED
      BY <2>1, <3>2, <3>3, <3>5 DEF Layout
  <2> QED
    BY <1>18, <2>2, <2>3, <2>4 DEF Discard
<1>19. CASE WrapperReports
  <2>1. /\ proc = "wrapper" /\ up /\ UNCHANGED <<case, rc, cmdErr, read, drain, sink, pc, wake, result>>
        /\ Remote /\ rc # "none"
    BY <1>19 DEF WrapperReports, Placed
  <2>2. CASE tail # <<>>
    <3>1. /\ WriteErr(<<Head(tail)>>) /\ tail' = Tail(tail) /\ UNCHANGED <<proc, up, status>>
      BY <1>19, <2>2 DEF WrapperReports
    <3>2. n \in 0..Len(cmdErr') /\ Parts(n)' /\ Stream(n)' = Stream(n) \o <<Head(tail)>>
      BY <1>d, <2>1, <2>2, <3>1, LineGrows
    <3>3. <<Head(tail)>> \in Seq(ErrTokens)
      <4>1. Head(tail) \in Spoken
        BY <2>2, TailIs DEF Types
      <4>2. Head(tail) \in ErrTokens
        BY <4>1 DEF ErrTokens
      <4> QED
        BY <4>2
    <3>4. IF ErrClosed THEN err' = err ELSE err' = err \o <<Head(tail)>>
      BY <3>1 DEF WriteErr
    <3> QED
      BY <1>d, <1>e, <2>1, <3>1, <3>2, <3>3, <3>4, LayoutGrows
  <2>3. CASE tail = <<>>
    <3>1. TransportGoes("0") /\ UNCHANGED <<err, tail>>
      BY <1>19, <2>3 DEF WrapperReports
    <3>2. proc' = "gone" /\ (drain = "poll" => ~wake \/ result # "none")
      BY <2>1, <3>1 DEF TransportGoes, Placed
    <3>3. pc' = "settle" => pc = "settle" /\ Remote
      BY <2>1
    <3> QED
      BY <2>1, <3>1, <3>2, <3>3, LayoutFrame
  <2> QED
    BY <2>2, <2>3
<1>20. CASE ConnectionLost
  BY <1>20, LayoutFrame DEF ConnectionLost, Placed, TransportGoes
<1>21. CASE DescendantGoes
  BY <1>21, LayoutFrame DEF DescendantGoes, Placed, TransportGoes
<1>22. CASE SpawnFails
  BY <1>22, LayoutFrame DEF SpawnFails, Placed, TransportGoes
<1>23. CASE AssembleFails
  BY <1>23, LayoutFrame DEF AssembleFails, Placed, TransportGoes
<1>24. CASE DrainFails
  BY <1>24, LayoutFrame DEF DrainFails, Placed, TransportGoes
<1>25. CASE WaitFails
  BY <1>25, LayoutFrame DEF WaitFails, Placed, TransportGoes
<1>26. CASE CallerWrites
  BY <1>26, LayoutFrame DEF CallerWrites, Placed, TransportGoes
<1>27. CASE CallerReads
  BY <1>27, LayoutFrame DEF CallerReads, Placed, TransportGoes
<1>28. CASE CallerCloses
  BY <1>28, LayoutFrame DEF CallerCloses, Placed, TransportGoes
<1>29. ASSUME NEW w \in case.words \cup {<<"c">>}, CommandErrs(w) PROVE Layout'
  <2>1. /\ UNCHANGED <<case, rc, tail, read, proc, drain, sink, pc, wake, result, status, up>>
        /\ WriteErr(w) /\ cmdErr' = cmdErr \o w
        /\ \/ proc = "command"
           \/ rc # "none" /\ w = <<"c">> /\ (Remote => up /\ Len(tail) \in {0, 4})
    BY <1>29 DEF CommandErrs
  <2>2. w \in Seq(Spoken)
    <3>1. <<"c">> \in Seq(Spoken)
      BY DEF Spoken
    <3>2. case.words \subseteq Seq(Spoken)
      BY <1>a, CaseFacts
    <3> QED
      BY <3>1, <3>2
  <2>3. w \in Seq(ErrTokens)
    BY <2>2, WiderSeq DEF ErrTokens
  <2>4. Reported = 0 \/ (Reported = 4 /\ w = <<"c">>)
    <3>1. CASE proc = "command"
      <4>1. rc = "none"
        BY <3>1 DEF Placed
      <4> QED
        BY <4>1 DEF Reported
    <3>2. CASE rc # "none" /\ w = <<"c">> /\ (Remote => up /\ Len(tail) \in {0, 4})
      BY <3>2 DEF Reported
    <3> QED
      BY <2>1, <3>1, <3>2
  <2>5. PICK m \in 0..Len(cmdErr') : Parts(m)' /\ Stream(m)' = Stream(n) \o w
    BY <1>d, <2>1, <2>2, <2>4, StreamGrows
  <2>6. IF ErrClosed THEN err' = err ELSE err' = err \o w
    BY <2>1 DEF WriteErr
  <2>7. (proc = "command" \/ rc # "none") /\ (Remote => up)
    BY <1>b, <2>1 DEF Placed, Remote
  <2> QED
    BY <1>d, <1>e, <2>1, <2>3, <2>5, <2>6, <2>7, LayoutGrows
<1>30. ASSUME NEW tok \in {"t", "s"}, TransportText(tok) PROVE Layout'
  <2>1. /\ proc \in {"sudo", "announce"} /\ UNCHANGED <<case, cmdErr, rc, tail, read, pc, drain, proc>>
        /\ WriteErr(<<tok>>)
    BY <1>30 DEF TransportText
  <2>2. ASSUME drain = "none", pc # "ended" PROVE Unread(n)'
    <3>1. /\ pc \notin {"handoff", "assemble"} /\ cmdErr = <<>> /\ rc = "none" /\ case.mode # "direct"
          /\ \A i \in 1..Len(read \o err) : (read \o err)[i] # "S"
      BY <1>d, <2>1, <2>2, Unstarting
    <3>2. err' = err \o <<tok>>
      BY <2>1, <2>2 DEF WriteErr, ErrClosed
    <3> DEFINE E == read \o err
    <3>3. E \in Seq(ErrTokens)
      BY <1>f, ConcatProperties
    <3>4. <<tok>> \in Seq(ErrTokens) /\ Len(<<tok>>) = 1 /\ <<tok>>[1] = tok
      BY DEF ErrTokens
    <3>5. read' \o err' = E \o <<tok>>
      BY <1>f, <2>1, <3>2, <3>4, Regroup
    <3>6. \A i \in 1..Len(E) : E[i] # "S"
      BY <3>1
    <3> HIDE DEF E
    <3>7. \A i \in 1..Len(E \o <<tok>>) : (E \o <<tok>>)[i] # "S"
      <4>1. /\ Len(E \o <<tok>>) = Len(E) + 1 /\ Len(E) \in Nat
            /\ \A i \in 1..Len(E) : (E \o <<tok>>)[i] = E[i]
            /\ \A j \in 1..Len(<<tok>>) : (E \o <<tok>>)[Len(E) + j] = <<tok>>[j]
        BY <3>3, <3>4, Longer
      <4>2. (E \o <<tok>>)[Len(E) + 1] = tok
        BY <3>4, <4>1
      <4>3. ASSUME NEW i \in 1..Len(E \o <<tok>>) PROVE i \in 1..Len(E) \/ i = Len(E) + 1
        BY <4>1
      <4> QED
        BY <3>6, <4>1, <4>2, <4>3
    <3>8. proc' \in {"sudo", "announce"}
      BY <2>1
    <3> QED
      BY <2>1, <3>1, <3>5, <3>7, <3>8 DEF Unread
  <2> QED
    BY <1>d, <2>1, <2>2, Unstarting
<1>31. ASSUME NEW code \in {"0", "1"}, CommandExits(code) PROVE Layout'
  <2>1. /\ proc = "command" /\ UNCHANGED <<case, cmdErr, read, err, drain, sink, pc, wake, result>>
        /\ Remote => Len(tail') = 4
        /\ proc' \in {"wrapper", "gone"}
    BY <1>31 DEF CommandExits
  <2>2. rc = "none" /\ pc \notin {"settle", "handoff"}
    BY <2>1 DEF Placed
  <2>3. n \in 0..Len(cmdErr') /\ Parts(n)' /\ Stream(n)' = Stream(n)
    BY <1>d, <2>1, <2>2, ExitKeeps
  <2>4. ASSUME drain = "none", pc # "ended" PROVE Unread(n)'
    <3>1. PICK z \in 0..Len(read \o err) :
            /\ Sentinel(case.mode, read \o err, z) /\ EndsIn(read \o err, z, Stream(n))
            /\ pc \in {"handoff", "assemble"} => z <= Len(read)
      BY <1>d, <2>1, <2>4 DEF Unread
    <3>2. case.mode = "direct" => read = <<>>
      BY <1>d, <2>1, <2>4 DEF Unread
    <3>3. (read \o err)' = read \o err
      BY <2>1
    <3>4. z \in 0..Len((read \o err)') /\ Sentinel(case.mode', (read \o err)', z)
          /\ EndsIn((read \o err)', z, Stream(n)')
      BY <2>1, <2>3, <3>1, <3>3
    <3>5. proc' \notin Unstarted /\ pc' # "settle" /\ (pc' \in {"handoff", "assemble"} => z <= Len(read'))
      BY <2>1, <2>2, <3>1
    <3> QED
      BY <2>1, <3>2, <3>4, <3>5 DEF Unread
  <2>5. ~(wake /\ result = "none" /\ Remote) \/ drain # "poll"
    BY <1>b, <2>1 DEF Placed, Remote
  <2>6. drain = "poll" => Drained(n)'
    BY <1>d, <2>1, <2>3, <2>5, DrainedFrame
  <2> QED
    BY <2>1, <2>3, <2>4, <2>6 DEF Layout
<1>32. ASSUME NEW how \in {"timeout", "spawn"}, SettleTimesOut(how) PROVE Layout'
  BY <1>32, LayoutFrame DEF SettleTimesOut, Placed, TransportGoes
<1>33. ASSUME NEW how \in {"wait", "shutdown"}, Ends(how) PROVE Layout'
  BY <1>33, LayoutFrame DEF Ends, Placed, TransportGoes
<1> QED
  BY <1>1, <1>2, <1>3, <1>4, <1>5, <1>6, <1>7, <1>8, <1>9, <1>10, <1>11, <1>12, <1>13, <1>14,
     <1>15, <1>16, <1>17, <1>18, <1>19, <1>20, <1>21, <1>22, <1>23, <1>24, <1>25, <1>26, <1>27,
     <1>28, <1>29, <1>30, <1>31, <1>32, <1>33
     DEF Next, Opening, Ending, Draining, CommandSteps, Feeding

\* A start that is handed off was announced in what was read.
LEMMA StartedStep == Types /\ Placed /\ Layout /\ Started /\ [Next]_vars => Started'
<1> SUFFICES ASSUME Types, Placed, Layout, Started, [Next]_vars PROVE Started'
  OBVIOUS
<1> USE DEF setup, opener, ours, pipes, theirs, said, local, thread, OpeningPcs, OpenPcs, Unstarted
<1>a. case \in Cases
  BY DEF Types
<1>b. case.mode \in {"direct", "sudo", "ssh", "sshsudo"}
  BY <1>a, CaseFacts
<1>1. CASE UNCHANGED vars
  BY <1>1 DEF vars, Started
<1>2. CASE Spawn
  BY <1>2 DEF Spawn, Started
<1>3. CASE SettleTurn
  BY <1>3 DEF SettleTurn, Started
<1>4. CASE SettleDecides
  <2>1. pc = "settle" /\ UNCHANGED read /\ pc' = (IF Settled = "started" THEN "handoff" ELSE "refuse")
    BY <1>4 DEF SettleDecides
  <2>2. Settled = "started" => Announcement(read).is = "started"
    BY <2>1, SettledIs
  <2>3. Announcement(read').is = Announcement(read).is
    BY <2>1
  <2> QED
    BY <2>1, <2>2, <2>3 DEF Started
<1>5. CASE HandOff
  BY <1>5 DEF HandOff, Started
<1>6. CASE Assemble
  BY <1>6 DEF Assemble, Started
<1>7. CASE Refuse
  BY <1>7 DEF Refuse, Started
<1>8. CASE WaitReaps
  BY <1>8 DEF WaitReaps, Started
<1>9. CASE StopDrain
  BY <1>9 DEF StopDrain, Started
<1>10. CASE ShutDown
  BY <1>10 DEF ShutDown, Started
<1>11. CASE Join
  BY <1>11 DEF Join, Started
<1>12. CASE DrainStops
  BY <1>12 DEF DrainStops, Started
<1>13. CASE DrainReads
  BY <1>13 DEF DrainReads, Started
<1>14. CASE CommandReads
  BY <1>14 DEF CommandReads, Started
<1>15. CASE CommandPrints
  BY <1>15 DEF CommandPrints, Started
<1>16. CASE Sudo
  BY <1>16 DEF Sudo, Started
<1>17. CASE Announce
  BY <1>17 DEF Announce, Started
<1>18. CASE Discard
  BY <1>18 DEF Discard, Started
<1>19. CASE WrapperReports
  BY <1>19 DEF WrapperReports, Started
<1>20. CASE ConnectionLost
  BY <1>20 DEF ConnectionLost, Started
<1>21. CASE DescendantGoes
  BY <1>21 DEF DescendantGoes, Started
<1>22. CASE SpawnFails
  BY <1>22 DEF SpawnFails, Started
<1>23. CASE AssembleFails
  BY <1>23 DEF AssembleFails, Started
<1>24. CASE DrainFails
  BY <1>24 DEF DrainFails, Started
<1>25. CASE WaitFails
  BY <1>25 DEF WaitFails, Started
<1>26. CASE CallerWrites
  BY <1>26 DEF CallerWrites, Started
<1>27. CASE CallerReads
  BY <1>27 DEF CallerReads, Started
<1>28. CASE CallerCloses
  BY <1>28 DEF CallerCloses, Started
<1>29. ASSUME NEW w \in case.words \cup {<<"c">>}, CommandErrs(w) PROVE Started'
  BY <1>29 DEF CommandErrs, Started
<1>30. ASSUME NEW tok \in {"t", "s"}, TransportText(tok) PROVE Started'
  BY <1>30 DEF TransportText, Started
<1>31. ASSUME NEW code \in {"0", "1"}, CommandExits(code) PROVE Started'
  BY <1>31 DEF CommandExits, Started
<1>32. ASSUME NEW how \in {"timeout", "spawn"}, SettleTimesOut(how) PROVE Started'
  BY <1>32 DEF SettleTimesOut, Started
<1>33. ASSUME NEW how \in {"wait", "shutdown"}, Ends(how) PROVE Started'
  BY <1>33 DEF Ends, Started
<1> QED
  BY <1>1, <1>2, <1>3, <1>4, <1>5, <1>6, <1>7, <1>8, <1>9, <1>10, <1>11, <1>12, <1>13, <1>14,
     <1>15, <1>16, <1>17, <1>18, <1>19, <1>20, <1>21, <1>22, <1>23, <1>24, <1>25, <1>26, <1>27,
     <1>28, <1>29, <1>30, <1>31, <1>32, <1>33
     DEF Next, Opening, Ending, Draining, CommandSteps, Feeding
-----------------------------------------------------------------------------
(* What the drain caught.                                                  *)

\* A front of a sequence, token by token.
LEMMA PrefixIs ==
    ASSUME NEW T, NEW s \in Seq(T), NEW t \in Seq(T), Len(s) <= Len(t),
           \A i \in 1..Len(s) : s[i] = t[i]
    PROVE  IsPrefix(s, t) /\ (Len(s) = Len(t) => s = t)
<1>1. Len(s) \in Nat /\ Len(t) \in Nat
  BY LenProperties
<1> DEFINE a == SubSeq(s, 1, Len(s))
           b == SubSeq(t, 1, Len(s))
<1>2. Len(s) \in 0..Len(s) /\ Len(s) \in 0..Len(t)
  BY <1>1
<1>3. /\ a \in Seq(T) /\ Len(a) = Len(s) /\ \A i \in 1..Len(s) : a[i] = s[i]
      /\ b \in Seq(T) /\ Len(b) = Len(s) /\ \A i \in 1..Len(s) : b[i] = t[i]
  BY <1>2, Split
<1> HIDE DEF a, b
<1>4. a = b
  <2>1. \A i \in 1..Len(a) : a[i] = b[i]
    BY <1>3
  <2> QED
    BY <1>3, <2>1, SeqEqual
<1>5. IsPrefix(s, t)
  BY <1>4 DEF IsPrefix, a, b
<1> QED
  BY <1>5, SeqEqual

\* The tokens of a front.
LEMMA PrefixHas ==
    ASSUME NEW T, NEW s \in Seq(T), NEW t \in Seq(T), IsPrefix(s, t)
    PROVE  Len(s) <= Len(t) /\ \A i \in 1..Len(s) : s[i] = t[i]
<1>1. Len(s) \in Nat /\ Len(t) \in Nat /\ Len(s) <= Len(t)
  BY LenProperties DEF IsPrefix
<1> DEFINE a == SubSeq(s, 1, Len(s))
           b == SubSeq(t, 1, Len(s))
<1>2. Len(s) \in 0..Len(s) /\ Len(s) \in 0..Len(t)
  BY <1>1
<1>3. /\ \A i \in 1..Len(s) : a[i] = s[i]
      /\ \A i \in 1..Len(s) : b[i] = t[i]
  BY <1>2, Split
<1>4. a = b
  BY DEF IsPrefix
<1> HIDE DEF a, b
<1> QED
  BY <1>1, <1>3, <1>4

\* A front stays one when more is written.
LEMMA PrefixStays ==
    ASSUME NEW T, NEW s \in Seq(T), NEW t \in Seq(T), NEW w \in Seq(T), IsPrefix(s, t)
    PROVE  IsPrefix(s, t \o w)
<1>1. Len(s) <= Len(t) /\ \A i \in 1..Len(s) : s[i] = t[i]
  BY PrefixHas
<1>2. /\ t \o w \in Seq(T) /\ Len(t \o w) = Len(t) + Len(w) /\ Len(t) \in Nat /\ Len(w) \in Nat
      /\ \A i \in 1..Len(t) : (t \o w)[i] = t[i]
  BY Longer
<1>3. Len(s) \in Nat
  BY LenProperties
<1>4. Len(s) <= Len(t \o w)
  BY <1>1, <1>2, <1>3
<1>5. ASSUME NEW i \in 1..Len(s) PROVE s[i] = (t \o w)[i]
  <2>1. i \in 1..Len(t)
    BY <1>1, <1>2, <1>3
  <2> QED
    BY <1>1, <1>2, <2>1
<1> QED
  BY <1>2, <1>4, <1>5, PrefixIs

\* A drain that finishes has caught a front of the command's own bytes, all of
\* them where it was read to the end and nothing was cut off.
LEMMA Catches ==
    ASSUME Types, Placed, Lined, NEW n \in Nat, n \in 0..Len(cmdErr), Parts(n),
           NEW q \in Nat, EndsIn(Stream(n), q, err), Keeps(sink, Stream(n), q),
           sink.hold = (IF Remote THEN StatusHold ELSE 0), drain = "poll", NEW e \in BOOLEAN,
           Remote => rc # "none" /\ tail = <<>> /\ q >= n + 4 /\ FinishSink(sink, e).code # "none",
           e => err = <<>>
    PROVE  LET f == FinishSink(sink, e)
           IN /\ Remote => f.code = rc
              /\ f.kept \in Seq(ErrTokens) /\ IsPrefix(f.kept, cmdErr) /\ f.ended = e
              /\ e /\ ~f.truncated => f.kept = cmdErr
<1> DEFINE f == FinishSink(sink, e)
           E == Stream(n)
           T == cmdErr
<1>1. sink \in Sinks /\ Len(sink.kept) <= MaxStderr /\ T \in Seq(ErrTokens)
  <2>1. cmdErr \in Seq(Spoken) /\ Spoken \subseteq ErrTokens
    BY DEF Types, ErrTokens
  <2> QED
    BY <2>1, WiderSeq DEF Types
<1>2. /\ E \in Seq(ErrTokens) /\ Len(E) = Len(T) + Reported /\ Reported \in 0..4 /\ Len(T) \in Nat
      /\ \A i \in 1..n : E[i] = T[i]
      /\ \A i \in 1..Reported : E[n + i] = StatusLine(rc)[i]
      /\ \A i \in (n + Reported + 1)..(Len(T) + Reported) : E[i] = T[i - Reported]
  BY StreamIs DEF StreamFacts
<1>3. Len(E) = q + Len(err)
  BY DEF EndsIn
<1>4. Keeps(sink, E, q)
  OBVIOUS
<1>5. e => Len(E) = q
  <2>1. err = <<>> => Len(err) = 0
    OBVIOUS
  <2> QED
    BY <1>3, <2>1
<1>6. (Reported < 4 => n = Len(T)) /\ \A i \in (n + 1)..Len(T) : T[i] = "c"
  BY DEF Parts
<1>7. CASE ~Remote
  <2>1. Reported = 0 /\ n = Len(T) /\ Len(E) = Len(T)
    <3>1. Reported = 0
      BY <1>7 DEF Reported
    <3> QED
      BY <1>2, <1>6, <3>1
  <2>2. sink.hold = 0
    BY <1>7
  <2> HIDE DEF E, T
  <2>3. /\ f.ended = e /\ Len(f.kept) \in Nat /\ Len(f.kept) <= Len(E) /\ f.kept \in Seq(ErrTokens)
        /\ \A i \in 1..Len(f.kept) : f.kept[i] = E[i]
        /\ q = Len(E) /\ ~f.truncated => Len(f.kept) = Len(E)
    BY <1>1, <1>2, <1>4, <2>2, FinishHere
  <2> DEFINE k == f.kept
  <2>4. /\ f.ended = e /\ Len(k) \in Nat /\ Len(k) <= Len(T) /\ k \in Seq(ErrTokens)
        /\ \A i \in 1..Len(k) : k[i] = E[i]
        /\ q = Len(E) /\ ~f.truncated => Len(k) = Len(T)
    BY <2>1, <2>3
  <2> HIDE DEF f, k
  <2>5. \A i \in 1..Len(k) : k[i] = T[i]
    <3>1. ASSUME NEW i \in 1..Len(k) PROVE i \in 1..n
      BY <1>2, <2>1, <2>4
    <3> QED
      BY <1>2, <2>4, <3>1
  <2>6. IsPrefix(k, T) /\ (Len(k) = Len(T) => k = T)
    BY <1>1, <2>4, <2>5, PrefixIs, Zenon
  <2> QED
    BY <1>5, <1>7, <2>4, <2>6 DEF f, k, T
<1>8. CASE Remote
  <2>1. /\ rc \in {"0", "1"} /\ Reported = 4 /\ q >= n + 4 /\ f.code # "none" /\ n + 4 <= q
    <3>1. rc # "none" /\ tail = <<>> /\ q >= n + 4 /\ f.code # "none"
      BY <1>8
    <3>2. Len(tail) = 0
      BY <3>1
    <3>3. Reported = 4
      BY <1>8, <3>1, <3>2 DEF Reported
    <3>4. rc \in {"0", "1"}
      BY <3>1 DEF Types
    <3> QED
      BY <3>1, <3>3, <3>4
  <2>2. sink.hold >= 4
    BY <1>8, ChannelAssumption
  <2>3. \A i \in 1..4 : E[n + i] = StatusLine(rc)[i]
    BY <1>2, <2>1
  <2>4. \A i \in (n + 5)..Len(E) : E[i] = "c"
    <3>1. ASSUME NEW i \in (n + 5)..Len(E)
          PROVE  i \in (n + Reported + 1)..(Len(T) + Reported) /\ i - Reported \in (n + 1)..Len(T)
      <4>1. /\ i \in Int /\ n + 5 <= i /\ i <= Len(T) + 4 /\ n \in Nat /\ Len(T) \in Nat /\ Reported = 4
        BY <1>2, <2>1
      <4> HIDE DEF T
      <4> QED
        BY <4>1
    <3> QED
      BY <1>2, <1>6, <3>1
  <2> HIDE DEF E, T
  <2>5. ThereIs(f, e, E, n, q, rc)
    <3>1. LineAt(E, n, rc)
      BY <2>3, <2>4 DEF LineAt
    <3>2. /\ sink \in Sinks /\ E \in Seq(ErrTokens) /\ rc \in {"0", "1"} /\ Keeps(sink, E, q)
          /\ sink.hold >= 4 /\ Len(sink.kept) <= MaxStderr /\ n + 4 <= q
          /\ FinishSink(sink, e).code # "none"
      BY <1>1, <1>2, <1>4, <2>1, <2>2
    <3> QED
      BY <3>1, <3>2, FinishThere
  <2> DEFINE k == f.kept
  <2>6. /\ f.code = rc /\ f.ended = e /\ q = n + 4
        /\ Len(k) \in Nat /\ Len(k) <= n /\ k \in Seq(ErrTokens)
        /\ \A i \in 1..Len(k) : k[i] = E[i]
        /\ ~f.truncated => Len(k) = n
    BY <2>5 DEF ThereIs
  <2> HIDE DEF f, k
  <2>7. n <= Len(T)
    BY DEF T
  <2>8. Len(k) <= Len(T)
    BY <1>2, <2>6, <2>7
  <2>9. \A i \in 1..Len(k) : k[i] = T[i]
    <3>1. ASSUME NEW i \in 1..Len(k) PROVE i \in 1..n
      BY <2>6
    <3> QED
      BY <1>2, <2>6, <3>1
  <2>10. IsPrefix(k, T) /\ (Len(k) = Len(T) => k = T)
    BY <1>1, <2>6, <2>8, <2>9, PrefixIs, Zenon
  <2>11. e => Len(T) = n
    BY <1>2, <1>5, <2>1, <2>6
  <2>12. e /\ ~f.truncated => k = T
    BY <2>6, <2>10, <2>11
  <2> QED
    BY <2>6, <2>10, <2>12 DEF f, k, T
<1> QED
  BY <1>7, <1>8

\* What a drain that finished has caught is still so where none of it changes.
LEMMA CaughtFrame ==
    ASSUME Caught, UNCHANGED case,
           drain' = "done" /\ result' \in {"none", "exit"} =>
               /\ drain = "done" /\ result \in {"none", "exit"} /\ UNCHANGED <<sink, cmdErr>>
               /\ Remote => UNCHANGED <<rc, status>>
               /\ kid = "gone" => kid' = "gone"
               /\ proc' = "command" => proc = "command"
    PROVE  Caught'
<1>1. Remote' = Remote
  BY DEF Remote
<1> QED
  BY <1>1 DEF Caught

\* What the drain caught stays what the command wrote.
LEMMA CaughtStep == Types /\ Types' /\ Placed /\ Lined /\ Layout /\ Caught /\ [Next]_vars => Caught'
<1> SUFFICES ASSUME Types, Types', Placed, Lined, Layout, Caught, [Next]_vars PROVE Caught'
  OBVIOUS
<1> USE DEF setup, opener, ours, pipes, theirs, said, local, thread, OpeningPcs, OpenPcs, Unstarted
<1>a. case \in Cases
  BY DEF Types
<1>b. case.mode \in {"direct", "sudo", "ssh", "sshsudo"}
  BY <1>a, CaseFacts
<1>c. drain = "done" /\ result \in {"none", "exit"} => ~up
  BY DEF Placed
<1>1. CASE UNCHANGED vars
  BY <1>1, <1>b, <1>c, CaughtFrame DEF vars, Placed, TransportGoes, Remote
<1>2. CASE Spawn
  BY <1>2, <1>b, <1>c, CaughtFrame DEF Spawn, Placed, TransportGoes, Remote
<1>3. CASE SettleTurn
  BY <1>3, <1>b, <1>c, CaughtFrame DEF SettleTurn, Placed, TransportGoes, Remote
<1>4. CASE SettleDecides
  BY <1>4, <1>b, <1>c, CaughtFrame DEF SettleDecides, Placed, TransportGoes, Remote
<1>5. CASE HandOff
  BY <1>5, <1>b, <1>c, CaughtFrame DEF HandOff, Placed, TransportGoes, Remote
<1>6. CASE Assemble
  BY <1>6, <1>b, <1>c, CaughtFrame DEF Assemble, Placed, TransportGoes, Remote
<1>7. CASE Refuse
  BY <1>7, <1>b, <1>c, CaughtFrame DEF Refuse, Placed, TransportGoes, Remote
<1>8. CASE WaitReaps
  BY <1>8, <1>b, <1>c, CaughtFrame DEF WaitReaps, Placed, TransportGoes, Remote
<1>9. CASE StopDrain
  BY <1>9, <1>b, <1>c, CaughtFrame DEF StopDrain, Placed, TransportGoes, Remote
<1>10. CASE ShutDown
  BY <1>10, <1>b, <1>c, CaughtFrame DEF ShutDown, Placed, TransportGoes, Remote
<1>11. CASE Join
  BY <1>11, <1>b, <1>c, CaughtFrame DEF Join, Placed, TransportGoes, Remote
<1>12. CASE DrainStops
  <2>1. /\ drain = "poll" /\ wake /\ sink' = FinishSink(sink, FALSE) /\ drain' = "done"
        /\ UNCHANGED <<case, cmdErr, rc, status, result, kid, proc, err, tail>>
    BY <1>12 DEF DrainStops
  <2>a. PICK n \in Nat : n \in 0..Len(cmdErr) /\ Parts(n) /\ Drained(n)
    <3>1. Len(cmdErr) \in Nat
      BY LenProperties DEF Types
    <3> QED
      BY <2>1, <3>1 DEF Layout
  <2>b. PICK q \in Nat :
          /\ EndsIn(Stream(n), q, err) /\ Keeps(sink, Stream(n), q)
          /\ wake /\ result = "none" /\ Remote /\ status = "0" => q >= n + 4
    BY <2>a DEF Drained
  <2>c. sink.hold = (IF Remote THEN StatusHold ELSE 0)
    BY <2>a DEF Drained
  <2>d. Remote' = Remote
    BY <2>1 DEF Remote
  <2>e. SUFFICES ASSUME result \in {"none", "exit"},
                        Remote => FinishSink(sink, FALSE).code # "none" /\ status = "0"
                 PROVE  Caught'
    BY <2>1, <2>d DEF Caught
  <2>f. result = "none" /\ pc \notin {"spawn", "ended"}
    BY <2>1, <2>e DEF Placed
  <2>g. Remote => rc # "none" /\ tail = <<>> /\ q >= n + 4
    <3>1. ~up
      BY <2>1, <2>f DEF Placed
    <3>2. Remote => status = "0"
      BY <2>e
    <3>3. Remote => rc # "none" /\ tail = <<>>
      BY <2>f, <3>1, <3>2 DEF Placed
    <3> QED
      BY <2>1, <2>b, <2>f, <3>2, <3>3
  <2> DEFINE f == FinishSink(sink, FALSE)
  <2>h. /\ Remote => f.code = rc
        /\ f.kept \in Seq(ErrTokens) /\ IsPrefix(f.kept, cmdErr) /\ f.ended = FALSE
        /\ FALSE /\ ~f.truncated => f.kept = cmdErr
    BY <2>1, <2>a, <2>b, <2>c, <2>e, <2>g, Catches
  <2>i. sink' = f
    BY <2>1
  <2> HIDE DEF f
  <2> QED
    BY <2>1, <2>d, <2>h, <2>i DEF Caught
<1>13. CASE DrainReads
  <2>0. CASE drain' = drain
    <3>1. drain' # "done"
      BY <1>13, <2>0 DEF DrainReads
    <3> QED
      BY <3>1 DEF Caught
  <2>9. CASE ErrEnds /\ sink' = FinishSink(sink, TRUE) /\ drain' = "done" /\ UNCHANGED err
    <3>1. /\ drain = "poll" /\ sink' = FinishSink(sink, TRUE) /\ drain' = "done"
          /\ UNCHANGED <<case, cmdErr, rc, status, result, kid, proc, err, tail>>
          /\ err = <<>> /\ ~up /\ (Remote \/ proc # "command") /\ kid = "gone"
      BY <1>13, <2>9 DEF DrainReads, ErrEnds
    <3>a. PICK n \in Nat : n \in 0..Len(cmdErr) /\ Parts(n) /\ Drained(n)
      <4>1. Len(cmdErr) \in Nat
        BY LenProperties DEF Types
      <4> QED
        BY <3>1, <4>1 DEF Layout
    <3>b. PICK q \in Nat :
            /\ EndsIn(Stream(n), q, err) /\ Keeps(sink, Stream(n), q)
            /\ wake /\ result = "none" /\ Remote /\ status = "0" => q >= n + 4
      BY <3>a DEF Drained
    <3>c. sink.hold = (IF Remote THEN StatusHold ELSE 0)
      BY <3>a DEF Drained
    <3>d. Remote' = Remote
      BY <3>1 DEF Remote
    <3>e. SUFFICES ASSUME result \in {"none", "exit"},
                          Remote => FinishSink(sink, TRUE).code # "none" /\ status = "0"
                   PROVE  Caught'
      BY <3>1, <3>d DEF Caught
    <3>f. result = "none" /\ pc \notin {"spawn", "ended"}
      BY <3>1, <3>e DEF Placed
    <3>g. Remote => rc # "none" /\ tail = <<>> /\ q >= n + 4
      <4>1. SUFFICES ASSUME Remote PROVE rc # "none" /\ tail = <<>> /\ q >= n + 4
        OBVIOUS
      <4>2. rc # "none" /\ tail = <<>>
        BY <3>1, <3>e, <3>f, <4>1 DEF Placed
      <4>3. Reported = 4
        <5>1. Len(tail) = 0
          BY <4>2
        <5> QED
          BY <4>1, <4>2, <5>1 DEF Reported
      <4>4. Len(Stream(n)) = Len(cmdErr) + 4 /\ Len(cmdErr) \in Nat
        BY <3>a, <4>3, StreamIs DEF StreamFacts
      <4>5. Len(Stream(n)) = q
        <5>1. Len(err) = 0
          BY <3>1
        <5>2. Len(Stream(n)) = q + Len(err)
          BY <3>b DEF EndsIn
        <5> QED
          BY <5>1, <5>2
      <4> QED
        BY <3>a, <4>2, <4>4, <4>5
    <3> DEFINE f == FinishSink(sink, TRUE)
    <3>h. /\ Remote => f.code = rc
          /\ f.kept \in Seq(ErrTokens) /\ IsPrefix(f.kept, cmdErr) /\ f.ended = TRUE
          /\ TRUE /\ ~f.truncated => f.kept = cmdErr
      BY <3>1, <3>a, <3>b, <3>c, <3>e, <3>g, Catches
    <3>i. sink' = f
      BY <3>1
    <3> HIDE DEF f
    <3>j. proc # "command"
      BY <1>b, <3>1 DEF Placed, Remote
    <3> QED
      BY <3>1, <3>d, <3>h, <3>i, <3>j DEF Caught
  <2> QED
    BY <1>13, <2>0, <2>9 DEF DrainReads
<1>14. CASE CommandReads
  BY <1>14, <1>b, <1>c, CaughtFrame DEF CommandReads, Placed, TransportGoes, Remote
<1>15. CASE CommandPrints
  BY <1>15, <1>b, <1>c, CaughtFrame DEF CommandPrints, Placed, TransportGoes, Remote
<1>16. CASE Sudo
  BY <1>16, <1>b, <1>c, CaughtFrame DEF Sudo, Placed, TransportGoes, Remote
<1>17. CASE Announce
  BY <1>17, <1>b, <1>c, CaughtFrame DEF Announce, Placed, TransportGoes, Remote
<1>18. CASE Discard
  BY <1>18, <1>b, <1>c, CaughtFrame DEF Discard, Placed, TransportGoes, Remote
<1>19. CASE WrapperReports
  BY <1>19, <1>b, <1>c, CaughtFrame DEF WrapperReports, Placed, TransportGoes, Remote
<1>20. CASE ConnectionLost
  BY <1>20, <1>b, <1>c, CaughtFrame DEF ConnectionLost, Placed, TransportGoes, Remote
<1>21. CASE DescendantGoes
  BY <1>21, <1>b, <1>c, CaughtFrame DEF DescendantGoes, Placed, TransportGoes, Remote
<1>22. CASE SpawnFails
  BY <1>22, <1>b, <1>c, CaughtFrame DEF SpawnFails, Placed, TransportGoes, Remote
<1>23. CASE AssembleFails
  BY <1>23, <1>b, <1>c, CaughtFrame DEF AssembleFails, Placed, TransportGoes, Remote
<1>24. CASE DrainFails
  BY <1>24, <1>b, <1>c, CaughtFrame DEF DrainFails, Placed, TransportGoes, Remote
<1>25. CASE WaitFails
  BY <1>25, <1>b, <1>c, CaughtFrame DEF WaitFails, Finish, Placed, TransportGoes, Remote
<1>26. CASE CallerWrites
  BY <1>26, <1>b, <1>c, CaughtFrame DEF CallerWrites, Placed, TransportGoes, Remote
<1>27. CASE CallerReads
  BY <1>27, <1>b, <1>c, CaughtFrame DEF CallerReads, Placed, TransportGoes, Remote
<1>28. CASE CallerCloses
  BY <1>28, <1>b, <1>c, CaughtFrame DEF CallerCloses, Placed, TransportGoes, Remote
<1>29. ASSUME NEW w \in case.words \cup {<<"c">>}, CommandErrs(w) PROVE Caught'
  <2>1. /\ UNCHANGED <<case, rc, sink, status, drain, result, kid, proc>> /\ cmdErr' = cmdErr \o w
        /\ proc = "command" \/ kid = "holds"
    BY <1>29 DEF CommandErrs
  <2>2. Remote' = Remote
    BY <2>1 DEF Remote
  <2>3. SUFFICES ASSUME drain = "done", result \in {"none", "exit"},
                        Remote => sink.code # "none" /\ status = "0"
                 PROVE  Caught'
    BY <2>1, <2>2 DEF Caught
  <2>4. /\ Remote => sink.code = rc
        /\ sink.kept \in Seq(ErrTokens) /\ IsPrefix(sink.kept, cmdErr) /\ ~sink.ended
    BY <2>1, <2>3 DEF Caught
  <2>5. cmdErr \in Seq(ErrTokens) /\ w \in Seq(ErrTokens)
    <3>1. <<"c">> \in Seq(Spoken) /\ case.words \subseteq Seq(Spoken)
      BY <1>a, CaseFacts DEF Spoken
    <3>2. w \in Seq(Spoken)
      BY <3>1
    <3>3. cmdErr \in Seq(Spoken) /\ Spoken \subseteq ErrTokens
      BY DEF Types, ErrTokens
    <3> QED
      BY <3>2, <3>3, WiderSeq
  <2>6. IsPrefix(sink.kept, cmdErr \o w)
    BY <2>4, <2>5, PrefixStays
  <2>7. IsPrefix(sink'.kept, cmdErr')
    BY <2>1, <2>6
  <2> QED
    BY <2>1, <2>2, <2>4, <2>7 DEF Caught
<1>30. ASSUME NEW tok \in {"t", "s"}, TransportText(tok) PROVE Caught'
  BY <1>30, <1>b, <1>c, CaughtFrame DEF TransportText, Placed, TransportGoes, Remote
<1>31. ASSUME NEW code \in {"0", "1"}, CommandExits(code) PROVE Caught'
  BY <1>31, <1>b, <1>c, CaughtFrame DEF CommandExits, Placed, TransportGoes, Remote
<1>32. ASSUME NEW how \in {"timeout", "spawn"}, SettleTimesOut(how) PROVE Caught'
  BY <1>32, <1>b, <1>c, CaughtFrame DEF SettleTimesOut, Placed, TransportGoes, Remote
<1>33. ASSUME NEW how \in {"wait", "shutdown"}, Ends(how) PROVE Caught'
  BY <1>33, <1>b, <1>c, CaughtFrame DEF Ends, Placed, TransportGoes, Remote
<1> QED
  BY <1>1, <1>2, <1>3, <1>4, <1>5, <1>6, <1>7, <1>8, <1>9, <1>10, <1>11, <1>12, <1>13, <1>14,
     <1>15, <1>16, <1>17, <1>18, <1>19, <1>20, <1>21, <1>22, <1>23, <1>24, <1>25, <1>26, <1>27,
     <1>28, <1>29, <1>30, <1>31, <1>32, <1>33
     DEF Next, Opening, Ending, Draining, CommandSteps, Feeding
-----------------------------------------------------------------------------
(* The channel.                                                            *)

\* A channel that was not opened yet has nothing of anything.
LEMMA IInvInit == Init => IInv
<1> SUFFICES ASSUME Init PROVE IInv
  OBVIOUS
<1>1. Types
  BY TypesInit
<1>2. case.mode \in {"direct", "sudo", "ssh", "sshsudo"}
  BY CaseFacts DEF Init
<1>3. Placed
  BY <1>2 DEF Init, Placed, Waited, Unstarted, OpeningPcs, OpenPcs, Remote
<1>4. Lined
  BY DEF Init, Lined, Remote
<1>5. Fed
  <2>1. Len(PasswordLine) \in {0, 2} /\ Len(<<>>) = 0 /\ PasswordLine \in Seq(InTokens)
    BY PasswordIs DEF Init
  <2>2. Queued(0, 0)
    <3>1. Awaits(0, 0)
      BY <2>1 DEF Init, Awaits
    <3> QED
      BY <2>1, <3>1 DEF Init, Queued, OpenPcs
  <2>3. 0 <= Len(PasswordLine)
    BY <2>1
  <2>4. \E k \in 0..fed, h \in {0, 1} : Queued(k, h)
    <3>1. 0 \in 0..fed
      BY DEF Init
    <3> QED
      BY <2>2, <3>1
  <2> QED
    BY <2>1, <2>3, <2>4 DEF Init, Fed
<1>6. Layout
  <2>1. Len(cmdErr) = 0 /\ Reported = 0 /\ read \o err = <<>> /\ Len(<<>>) = 0
    BY DEF Init, Reported
  <2>2. Parts(0)
    BY <2>1 DEF Parts
  <2>3. Unread(0)
    <3>1. \A i \in 1..Len(read \o err) : FALSE
      BY <2>1
    <3> QED
      BY <3>1 DEF Init, Unread, Unstarted
  <2> QED
    BY <2>1, <2>2, <2>3 DEF Init, Layout
<1>7. Started /\ Caught
  BY DEF Init, Started, Caught
<1> QED
  BY <1>1, <1>3, <1>4, <1>5, <1>6, <1>7 DEF IInv

\* The invariant is inductive: at every moment of a channel's life the pipes,
\* the processes on both ends, the drain and the caller's thread stand to one
\* another as its parts say.
THEOREM Invariance == Spec => []IInv
<1>1. Init => IInv
  BY IInvInit
<1>2. IInv /\ [Next]_vars => IInv'
  <2> SUFFICES ASSUME IInv, [Next]_vars PROVE IInv'
    OBVIOUS
  <2>1. Types /\ Placed /\ Lined /\ Fed /\ Layout /\ Started /\ Caught
    BY DEF IInv
  <2>2. Types'
    BY <2>1, TypesStep
  <2>3. Lined'
    BY <2>1, LinedStep
  <2>4. Placed'
    BY <2>1, PlacedStep
  <2>5. Fed'
    BY <2>1, FedStep
  <2>6. Layout'
    BY <2>1, <2>2, <2>3, LayoutStep
  <2>7. Started'
    BY <2>1, StartedStep
  <2>8. Caught'
    BY <2>1, <2>2, CaughtStep
  <2> QED
    BY <2>2, <2>3, <2>4, <2>5, <2>6, <2>7, <2>8 DEF IInv
<1> QED
  BY <1>1, <1>2, PTL DEF Spec

\* Whatever the transport, the command and its descendants do, a call that has
\* returned has stopped its drain, and has reaped its process unless that is one
\* it may not signal, which it then did not report as an exit (kill_and_reap,
\* Channel::drop).
THEOREM LeftBehindSafety == Spec => []NothingLeftBehind
<1>1. IInv => NothingLeftBehind
  BY DEF IInv, Placed, NothingLeftBehind
<1> QED
  BY <1>1, Invariance, PTL

\* However the pipes split what is written, whatever the command prints and
\* however ssh ends, the command reads the caller's bytes from the first and
\* nothing of the password or the handoff, and an exit that is reported is the
\* command's own, with a front of its standard error, all of it unless it was
\* cut off (StartScript, feed_and_settle, hand_off, Sink, split_status_line).
THEOREM ExchangeSafety == Spec => []ExchangeIsTheCallers
<1>1. IInv => ExchangeIsTheCallers
  <2> SUFFICES ASSUME IInv PROVE ExchangeIsTheCallers
    OBVIOUS
  <2>1. Types /\ Placed /\ Fed /\ Caught
    BY DEF IInv
  <2>2. IsPrefix(got, CallerBytes)
    <3>1. got \in Seq(InTokens) /\ CallerBytes \in Seq(InTokens) /\ Len(CallerBytes) = 3
      BY <2>1, BytesAre DEF Types
    <3>2. Len(got) <= sent /\ \A i \in 1..Len(got) : got[i] = CallerBytes[i]
      BY <2>1 DEF Fed
    <3>3. sent \in Nat /\ sent <= case.input /\ case.input \in 0..3 /\ Len(got) \in Nat
      BY <2>1, CaseFacts, LenProperties DEF Types
    <3>4. Len(got) <= Len(CallerBytes)
      <4>1. \A a, b, c \in Nat : a <= b /\ b <= c /\ c <= 3 => a <= 3
        OBVIOUS
      <4>2. Len(got) <= sent /\ case.input \in Nat /\ case.input <= 3
        BY <3>2, <3>3
      <4> QED
        BY <3>1, <3>3, <4>1, <4>2
    <3> QED
      BY <3>1, <3>2, <3>4, PrefixIs
  <2>3. ASSUME pc = "ended", result = "exit"
        PROVE  /\ rc # "none" /\ ExitCode = rc
               /\ IsPrefix(sink.kept, cmdErr)
               /\ (~sink.truncated /\ sink.ended) => sink.kept = cmdErr
    <3>1. /\ drain = "done" /\ rc # "none"
          /\ IF Remote THEN sink.code # "none" /\ status = "0" ELSE status = rc
      BY <2>1, <2>3 DEF Placed
    <3>2. /\ Remote => sink.code = rc
          /\ IsPrefix(sink.kept, cmdErr)
          /\ sink.ended /\ ~sink.truncated => sink.kept = cmdErr
      BY <2>1, <2>3, <3>1 DEF Caught
    <3> QED
      BY <3>1, <3>2 DEF ExitCode
  <2> QED
    BY <2>2, <2>3 DEF ExchangeIsTheCallers
<1> QED
  BY <1>1, Invariance, PTL
=============================================================================
