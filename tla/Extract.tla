------------------------------- MODULE Extract -------------------------------
(***************************************************************************)
(* Payload::extract_to of src/src/payload.rs, system call by system call:  *)
(* the members of an archive are walked into a staging directory inside    *)
(* the destination, and published by renames once the walk has passed.     *)
(* The walk's rules are Contents's, without limits.  Any call may fail,    *)
(* the process may be killed, and power may be lost.                       *)
(*                                                                         *)
(* A path is "none", "dir" or a file [blob, synced]; Parent gives its      *)
(* directory, "." being the destination.  Power loss keeps or loses every  *)
(* directory entry that was not flushed, each on its own, and the bytes of *)
(* every file that was not.  The staging directory and its files are not   *)
(* part of this tree: nobody else reads them and what is published leaves  *)
(* them by rename.  Removing it, which TempDir's drop does on every return,*)
(* is taken to succeed.                                                    *)
(***************************************************************************)
EXTENDS Contents

CONSTANTS
    Parent,       \* the directory of every path the archives and the tree use
    MaxCalls, MaxFaults, MaxKills, MaxLosses

ASSUME ExtractAssumption ==
    /\ IsFiniteSet(DOMAIN Parent)
    /\ \A p \in DOMAIN Parent : Parent[p] \in DOMAIN Parent \cup {"."}
    /\ {MaxCalls, MaxFaults, MaxKills, MaxLosses} \subseteq Nat

VARIABLES
    vol, dur,        \* the destination's entries: as seen, and as flushed
    here,            \* the destination itself exists
    step,            \* the next system call of the call under way
    pack,            \* the manifest and archive being extracted
    staged,          \* number of members received, the last one unsynced
    flushed,         \* members whose bytes were flushed in staging
    todo,            \* members still to be published, or directories to flush
    staging,         \* staging directories in the destination: this call's, a dead one's
    answer,          \* what the last call returned, and from which part
    start,           \* the destination when it was called, and the manifest
    offered,         \* what may be at a path: the first file, and every manifest's
    calls, faults, kills, losses

tree == <<vol, dur, here>>
work == <<step, pack, staged, flushed, todo>>
marks == <<start, offered>>
limits == <<calls, faults, kills, losses>>
extractVars == <<tree, work, staging, answer, marks, limits>>

Paths == DOMAIN Parent
NoEntry == [kind |-> "none"]
Directory == [kind |-> "dir"]
\* Bytes that did not all reach the disk.
Torn == [id |-> "torn", len |-> 0, packed |-> 0, tar |-> <<>>]
FileEntry(b, s) == [kind |-> "file", blob |-> b, synced |-> s]

Above[p \in Paths] == IF Parent[p] = "." THEN {} ELSE {Parent[p]} \cup Above[Parent[p]]

\* The way up from a path ends at the destination, so that Above is the set its
\* equation describes.
ASSUME AboveAssumption ==
    \A p \in Paths :
        /\ Above[p] \subseteq Paths /\ p \notin Above[p]
        /\ \A d \in Above[p] : Above[d] \subseteq Above[p]

Inside(d) == {p \in Paths : Parent[p] = d}

NoLimit ==
    [members |-> 1000, total |-> 1000]
Verdict(i) == MemberVerdict(pack.man, pack.arc, i, NoLimit, 1000)
Member(i) == pack.arc.members[i]
Members == Len(pack.arc.members)

\* Every path out of extract_to drops the staging directory.
Return(how, part) ==
    /\ answer' = [how |-> how, part |-> part]
    /\ step' = "idle" /\ staging' = [staging EXCEPT !.own = FALSE]
    /\ pack' = [man |-> "none"] /\ staged' = 0 /\ flushed' = {} /\ todo' = <<>>
-----------------------------------------------------------------------------
\* A call, with what its payload holds.
ExtractTo(p) ==
    /\ step = "idle" /\ calls < MaxCalls
    /\ step' = "dest" /\ pack' = p /\ calls' = calls + 1
    /\ answer' = [how |-> "none", part |-> "none"]
    /\ start' = [entries |-> vol, here |-> here, man |-> p.man]
    /\ offered' = offered \cup {<<a.path, a.sha>> : a \in {p.man.artifacts[i] : i \in DOMAIN p.man.artifacts}}
    /\ UNCHANGED <<tree, staged, flushed, todo, staging, faults, kills, losses>>

CreateDest ==
    /\ step = "dest" /\ step' = "staging" /\ here' = TRUE
    /\ UNCHANGED <<vol, dur, pack, staged, flushed, todo, staging, answer, marks, limits>>

CreateStaging ==
    /\ step = "staging" /\ step' = "receive" /\ staging' = [staging EXCEPT !.own = TRUE]
    /\ UNCHANGED <<tree, pack, staged, flushed, todo, answer, marks, limits>>

\* Two members of which one's path is a directory of the other's cannot both be
\* staged.
Clash(i) ==
    \E j \in 1..(i - 1) : \/ Member(j).path \in Above[Member(i).path]
                          \/ Member(i).path \in Above[Member(j).path]

\* StagingSink::receive between the walk's checks of one member.
Receive ==
    /\ step = "receive" /\ staged < Members
    /\ LET i == staged + 1
           early == Verdict(i) \notin {"ok", "HashMismatch"}
       IN IF early \/ Clash(i) \/ Verdict(i) # "ok"
          THEN /\ Return(IF early \/ ~Clash(i) THEN Verdict(i) ELSE "Io", "walk")
               /\ UNCHANGED <<tree, marks, limits>>
          ELSE /\ staged' = i /\ step' = "accept"
               /\ UNCHANGED <<tree, pack, flushed, todo, staging, answer, marks, limits>>

\* StagingSink::accept.
AcceptMember ==
    /\ step = "accept" /\ step' = "receive" /\ flushed' = flushed \cup {staged}
    /\ UNCHANGED <<tree, pack, staged, todo, staging, answer, marks, limits>>

\* What the walk says once its members are through.
EndWalk ==
    /\ step = "receive" /\ staged = Members
    /\ LET verdict == WalkOuter(pack.man, pack.arc, NoLimit, 1000)
       IN IF verdict # "ok" THEN Return(verdict, "walk") /\ UNCHANGED <<tree, marks, limits>>
          ELSE /\ step' = "publish" /\ todo' = [i \in 1..Members |-> i]
               /\ UNCHANGED <<tree, pack, staged, flushed, staging, answer, marks, limits>>

\* create_dir_all of the next member's directory, taken as one step: a loss may
\* still keep any part of what it made.
MakeParents ==
    /\ step = "publish" /\ todo # <<>>
    /\ LET above == Above[Member(todo[1]).path]
       IN IF \E d \in above : vol[d].kind = "file"
          THEN Return("Io", "publish") /\ UNCHANGED <<tree, marks, limits>>
          ELSE /\ vol' = [p \in Paths |-> IF p \in above THEN Directory ELSE vol[p]]
               /\ step' = "rename"
               /\ UNCHANGED <<dur, here, pack, staged, flushed, todo, staging, answer, marks, limits>>

\* Mutant: the directory holding an artifact, not the ones above it.
PublishDirsInnermost == {Parent[Member(i).path] : i \in 1..Members}

\* publish_dirs: every directory between an artifact and the destination,
\* whoever created it.
PublishDirs == {Parent[q] : q \in UNION {Above[Member(i).path] \cup {Member(i).path} : i \in 1..Members}}

RenameMember ==
    /\ step = "rename"
    /\ LET i == todo[1]
           p == Member(i).path
       IN IF vol[p].kind = "dir" THEN Return("Io", "publish") /\ UNCHANGED <<tree, marks, limits>>
          ELSE /\ vol' = [vol EXCEPT ![p] = FileEntry(Member(i).blob, i \in flushed)]
               /\ todo' = Tail(todo)
               /\ step' = "publish"
               /\ UNCHANGED <<dur, here, pack, staged, flushed, staging, answer, marks, limits>>

\* The names are flushed after the last rename, directory by directory.
BeginFlush ==
    /\ step = "publish" /\ todo = <<>>
    /\ step' = "flush" /\ todo' = SetToSeq(PublishDirs)
    /\ UNCHANGED <<tree, pack, staged, flushed, staging, answer, marks, limits>>

SyncDir ==
    /\ step = "flush" /\ todo # <<>>
    /\ dur' = [p \in Paths |-> IF p \in Inside(todo[1]) THEN vol[p] ELSE dur[p]]
    /\ todo' = Tail(todo)
    /\ UNCHANGED <<vol, here, step, pack, staged, flushed, staging, answer, marks, limits>>

Extracted ==
    /\ step = "flush" /\ todo = <<>> /\ Return("ok", "flush")
    /\ UNCHANGED <<tree, marks, limits>>

\* Any system call of the call fails.
CallFails ==
    /\ step # "idle" /\ faults < MaxFaults /\ faults' = faults + 1
    /\ Return("Io", IF step \in {"publish", "rename", "flush"} THEN "publish" ELSE "walk")
    /\ UNCHANGED <<tree, marks, calls, kills, losses>>

Dies ==
    /\ step' = "idle" /\ answer' = [how |-> "none", part |-> "none"]
    /\ staging' = [own |-> FALSE, dead |-> staging.dead \/ staging.own]
    /\ pack' = [man |-> "none"] /\ staged' = 0 /\ flushed' = {} /\ todo' = <<>>

Killed ==
    /\ step # "idle" /\ kills < MaxKills /\ kills' = kills + 1
    /\ Dies /\ UNCHANGED <<tree, marks, calls, faults, losses>>

\* What is on the disk: entries of `kept` as seen, the others as flushed, none
\* of them without its directory, and no bytes that were not flushed.
Remains(kept) ==
    LET entry(p) == IF p \in kept THEN vol[p] ELSE dur[p]
        there(p) == entry(p).kind # "none" /\ \A d \in Above[p] : entry(d).kind = "dir"
    IN [p \in Paths |-> IF ~there(p) THEN NoEntry
                        ELSE IF entry(p).kind = "file" /\ ~entry(p).synced THEN FileEntry(Torn, TRUE)
                        ELSE entry(p)]

\* The entry of the destination itself is its caller's to flush; a loss that
\* takes it away takes everything.
PowerLost ==
    /\ losses < MaxLosses /\ losses' = losses + 1 /\ here
    /\ \E kept \in SUBSET {p \in Paths : vol[p] # dur[p]} : vol' = Remains(kept) /\ dur' = Remains(kept)
    /\ IF step = "idle"
       THEN UNCHANGED <<work, staging, answer>>
       ELSE Dies
    /\ UNCHANGED <<here, marks, calls, faults, kills>>

ExtractInit(entries, exists) ==
    /\ vol = entries /\ dur = entries /\ here = exists
    /\ step = "idle" /\ pack = [man |-> "none"] /\ staged = 0 /\ flushed = {} /\ todo = <<>>
    /\ staging = [own |-> FALSE, dead |-> FALSE]
    /\ answer = [how |-> "none", part |-> "none"]
    /\ start = [entries |-> entries, here |-> exists, man |-> "none"]
    /\ offered = {<<p, entries[p].blob>> : p \in {q \in Paths : entries[q].kind = "file"}}
    /\ calls = 0 /\ faults = 0 /\ kills = 0 /\ losses = 0

ExtractStep ==
    \/ CreateDest \/ CreateStaging \/ Receive \/ AcceptMember \/ EndWalk \/ MakeParents
    \/ RenameMember \/ BeginFlush \/ SyncDir \/ Extracted \/ CallFails \/ Killed \/ PowerLost
-----------------------------------------------------------------------------
FilePaths == {p \in Paths : vol[p].kind = "file"}

\* No target path ever holds anything but what was there before the first call
\* or a whole artifact a manifest names for it, through failures, kills and a
\* power loss at any moment; a refusal decided before publishing leaves the
\* destination as it was found, with no staging directory of its own
\* (extract_to: "All-or-nothing").  And "on a successful return every extracted
\* artifact is on disk", its bytes and every entry on the way to it, whichever
\* call created the directories: a power loss afterwards takes none away.
TargetsAreWhole ==
    /\ \A p \in FilePaths : <<p, vol[p].blob>> \in offered
    /\ (step = "idle" /\ answer.part = "walk" /\ losses = 0) =>
         vol = start.entries /\ ~staging.own /\ (start.here => here)
    /\ answer.how = "ok" => \A i \in DOMAIN start.man.artifacts :
         LET a == start.man.artifacts[i]
         IN vol[a.path].kind = "file" /\ vol[a.path].blob = a.sha
=============================================================================
