---------------------------- MODULE Publication ----------------------------
(***************************************************************************)
(* No-clobber publication of src/src/retain/publish.rs: publish_file and   *)
(* publish_directory, system call by system call, of any number of calls   *)
(* racing for one destination name under one parent, with another process  *)
(* that may put an entry there too.                                        *)
(*                                                                         *)
(* The parent directory is modelled as the generation tree is: what is     *)
(* visible, and what each name may hold after a power loss.  A sibling     *)
(* entry has the call it is `by`, its `kind`, how many of its NParts parts *)
(* are written (`parts`: chunks of a file, files of a directory), how many *)
(* of them are certain to survive with it (`down`), and whether they are   *)
(* what was to be written (`good`).                                        *)
(***************************************************************************)
EXTENDS Naturals, FiniteSets

CONSTANTS
    Files, Directories,   \* the calls of publish_file and publish_directory
    NParts,               \* the parts of an output
    Budget,               \* the retained-disk budget of the scope, in parts
    Foreign,              \* whether another process writes the destination
    MaxFaults, MaxLosses  \* bounds: failing system calls and killed calls;
                          \*   power losses

Calls == Files \cup Directories

ASSUME PublicationAssumption ==
    /\ IsFiniteSet(Files) /\ IsFiniteSet(Directories) /\ Files \cap Directories = {}
    /\ "foreign" \notin Calls /\ "nobody" \notin Calls
    /\ NParts \in Nat \ {0} /\ Budget \in Nat
    /\ Foreign \in BOOLEAN
    /\ MaxFaults \in Nat /\ MaxLosses \in Nat

VARIABLES
    dest, temp,          \* the destination, and each call's own sibling
    mayDest, mayTemp,    \* what each may hold after a power loss
    pc, out,             \* where each call is, and what it returned
    charge,              \* parts each call holds of the budget
    faults, losses       \* bounds spent

vars == <<dest, temp, mayDest, mayTemp, pc, out, charge, faults, losses>>

NoEntry == [by |-> "nobody", kind |-> "none", parts |-> 0, down |-> 0, good |-> TRUE]
\* What the other process may put at the destination.
ForeignEntry(kind, parts) ==
    [by |-> "foreign", kind |-> kind, parts |-> parts, down |-> parts, good |-> TRUE]
ForeignEntries == {ForeignEntry("file", 1), ForeignEntry("dir", 1), ForeignEntry("dir", 0)}
Fresh(p) == [by |-> p, kind |-> IF p \in Files THEN "file" ELSE "dir",
             parts |-> 0, down |-> 0, good |-> TRUE]
Whole(e) == e.parts = NParts /\ e.good

Before == {"open", "create", "write", "sync", "verify", "syncdir", "recheck", "publish"}
After == {"unlink", "syncparent"}
Copying == {"write", "sync", "verify", "syncdir", "recheck", "publish"}
CleanFailures == {"exists", "io", "budget", "mismatch"}

Init ==
    /\ dest \in {NoEntry} \cup (IF Foreign THEN ForeignEntries ELSE {})
    /\ temp = [p \in Calls |-> NoEntry]
    /\ mayDest = {dest} /\ mayTemp = [p \in Calls |-> {NoEntry}]
    /\ pc = [p \in Calls |-> "open"]
    /\ out = [p \in Calls |-> "none"]
    /\ charge = [p \in Calls |-> 0]
    /\ faults = 0 /\ losses = 0
-----------------------------------------------------------------------------
dests == <<dest, mayDest>>
temps == <<temp, mayTemp>>
bounds == <<faults, losses>>

PutTemp(p, e) ==
    /\ temp' = [temp EXCEPT ![p] = e]
    /\ mayTemp' = [mayTemp EXCEPT ![p] = @ \cup {e}]

PutDest(e) == dest' = e /\ mayDest' = mayDest \cup {e}

\* fsync of the parent directory: which names exist is settled.
SettleParent ==
    /\ mayDest' = {dest}
    /\ mayTemp' = [p \in Calls |-> {temp[p]}]

Goto(p, to) == pc' = [pc EXCEPT ![p] = to] /\ UNCHANGED <<out, charge>>

Return(p, how) ==
    /\ pc' = [pc EXCEPT ![p] = "done"]
    /\ out' = [out EXCEPT ![p] = how]
    /\ charge' = [charge EXCEPT ![p] = 0]

\* A failure before the publish point: the charge is dropped, and the guard
\* that owns the sibling, once there is one, runs its drop.
Fail(p, how) ==
    /\ pc' = [pc EXCEPT ![p] = IF pc[p] \in {"open", "create"} THEN "done" ELSE "cleanup"]
    /\ out' = [out EXCEPT ![p] = how]
    /\ charge' = [charge EXCEPT ![p] = 0]

\* What the calls hold of the scope's budget between them: every call with
\* every part charged to it.
Held(held) == {c \in Calls \X (1..NParts) : c[2] <= held[c[1]]}
Used == Cardinality(Held(charge))
-----------------------------------------------------------------------------
\* open_destination_parent and check_absent: any entry at all refuses.
CheckAbsent(p) ==
    /\ pc[p] = "open"
    /\ IF dest # NoEntry THEN Fail(p, "exists") ELSE Goto(p, "create")
    /\ UNCHANGED <<dests, temps, bounds>>

\* create_fresh_file, or make_fresh_dir and open_owned_dir.
CreateTemporary(p) ==
    /\ pc[p] = "create"
    /\ PutTemp(p, Fresh(p))
    /\ Goto(p, "write")
    /\ UNCHANGED <<dests, bounds>>

\* What a write leaves: the disk may keep something other than was written.
Written(p, ok) ==
    [by |-> temp[p].by, kind |-> temp[p].kind, parts |-> temp[p].parts + 1,
     down |-> temp[p].down, good |-> temp[p].good /\ ok]

\* Every file of a directory is flushed and verified before the next.
AfterWrite(p) ==
    IF p \in Directories \/ temp[p].parts + 1 = NParts THEN "sync" ELSE "write"

\* copy_verified, one part: charged, then written.
WritePart(p) ==
    /\ pc[p] = "write"
    /\ IF Used < Budget
       THEN /\ \E ok \in BOOLEAN : PutTemp(p, Written(p, ok))
            /\ charge' = [charge EXCEPT ![p] = @ + 1]
            /\ pc' = [pc EXCEPT ![p] = AfterWrite(p)]
            /\ UNCHANGED out
       ELSE Fail(p, "budget") /\ UNCHANGED temps
    /\ UNCHANGED <<dests, bounds>>

\* What a flush makes of the sibling and of what it may be after a loss.
Flush(p) ==
    LET flushed == [temp[p] EXCEPT !.down = temp[p].parts]
    IN /\ temp' = [temp EXCEPT ![p] = flushed]
       /\ mayTemp' = [mayTemp EXCEPT ![p] = (@ \cap {NoEntry}) \cup {flushed}]

\* sync_all of the file.  A file of a directory survives with the directory
\* only once the directory is flushed too.
SyncFile(p) ==
    /\ pc[p] = "sync"
    /\ IF p \in Files THEN Flush(p) ELSE UNCHANGED temps
    /\ Goto(p, "verify")
    /\ UNCHANGED <<dests, bounds>>

\* Mutant: only the length is compared.
VerifyLength(p) ==
    /\ pc[p] = "verify"
    /\ Goto(p, CASE p \in Files -> "publish"
                  [] p \in Directories /\ temp[p].parts < NParts -> "write"
                  [] OTHER -> "syncdir")
    /\ UNCHANGED <<dests, temps, bounds>>

\* read_back: the length, then the digest.
Verify(p) ==
    /\ pc[p] = "verify"
    /\ IF ~temp[p].good THEN Fail(p, "mismatch")
       ELSE Goto(p, CASE p \in Files -> "publish"
                      [] p \in Directories /\ temp[p].parts < NParts -> "write"
                      [] OTHER -> "syncdir")
    /\ UNCHANGED <<dests, temps, bounds>>

SyncStaging(p) ==
    /\ pc[p] = "syncdir"
    /\ Flush(p)
    /\ Goto(p, "recheck")
    /\ UNCHANGED <<dests, bounds>>

\* The second check of a directory's destination.
CheckAbsentAgain(p) ==
    /\ pc[p] = "recheck"
    /\ IF dest # NoEntry THEN Fail(p, "exists") ELSE Goto(p, "publish")
    /\ UNCHANGED <<dests, temps, bounds>>

\* Mutant: the file is renamed over the destination.
LinkReplacing(p) ==
    /\ pc[p] = "publish" /\ p \in Files
    /\ PutDest(temp[p])
    /\ Goto(p, "unlink")
    /\ UNCHANGED <<temps, bounds>>

\* linkat refuses any existing entry.
Link(p) ==
    /\ pc[p] = "publish" /\ p \in Files
    /\ IF dest = NoEntry THEN PutDest(temp[p]) /\ Goto(p, "unlink")
       ELSE UNCHANGED dests /\ Goto(p, "classify")
    /\ UNCHANGED <<temps, bounds>>

\* renameat replaces nothing but an empty directory.
Rename(p) ==
    /\ pc[p] = "publish" /\ p \in Directories
    /\ IF dest = NoEntry \/ (dest.kind = "dir" /\ dest.parts = 0)
       THEN /\ PutDest(temp[p]) /\ PutTemp(p, NoEntry)
            /\ Goto(p, "syncparent")
       ELSE UNCHANGED <<dests, temps>> /\ Goto(p, "classify")
    /\ UNCHANGED bounds

\* classify_publish_failure inspects the destination again.
Classify(p) ==
    /\ pc[p] = "classify"
    /\ Fail(p, IF dest # NoEntry THEN "exists" ELSE "io")
    /\ UNCHANGED <<dests, temps, bounds>>

\* Past the publish point of a file: its other name goes.
RemoveTemporary(p) ==
    /\ pc[p] = "unlink"
    /\ PutTemp(p, NoEntry)
    /\ Goto(p, "syncparent")
    /\ UNCHANGED <<dests, bounds>>

\* Mutant: the receipt is given without the flush of the parent.
SyncParentSkipped(p) ==
    /\ pc[p] = "syncparent"
    /\ Return(p, "ok")
    /\ UNCHANGED <<dests, temps, bounds>>

SyncParent(p) ==
    /\ pc[p] = "syncparent"
    /\ SettleParent
    /\ Return(p, "ok")
    /\ UNCHANGED <<dest, temp, bounds>>

\* The guard's drop: every file of the sibling, then the sibling.
CleanUp(p) ==
    /\ pc[p] = "cleanup"
    /\ PutTemp(p, NoEntry)
    /\ Goto(p, "done")
    /\ UNCHANGED <<dests, bounds>>
-----------------------------------------------------------------------------
\* Mutant: whatever fails is the call's plain error.
FaultPlain(p) ==
    /\ pc[p] # "done" /\ faults < MaxFaults
    /\ faults' = faults + 1
    /\ Fail(p, "io")
    /\ UNCHANGED <<dests, temps, losses>>

\* A system call fails.  Before the publish point that is the call's error, at
\* it the destination is inspected first (a failing inspection changes
\* nothing), and after it the output is visible and only its durability
\* uncertain; a failing cleanup is ignored and leaves the sibling.
Fault(p) ==
    /\ pc[p] # "done" /\ faults < MaxFaults
    /\ faults' = faults + 1
    /\ \/ pc[p] = "publish" /\ Goto(p, "classify")
       \/ pc[p] \in (Before \ {"publish"}) \cup {"classify"} /\ Fail(p, "io")
       \/ pc[p] \in After /\ Return(p, "uncertain")
       \/ pc[p] = "cleanup" /\ Goto(p, "done")
    /\ UNCHANGED <<dests, temps, losses>>

\* The process is killed: nothing is cleaned up and nobody is told.
Kill(p) ==
    /\ pc[p] # "done" /\ faults < MaxFaults
    /\ faults' = faults + 1
    /\ pc' = [pc EXCEPT ![p] = "done"]
    /\ charge' = [charge EXCEPT ![p] = 0]
    /\ UNCHANGED <<dests, temps, out, losses>>

ForeignCreate(e) ==
    /\ Foreign /\ dest = NoEntry
    /\ PutDest(e)
    /\ UNCHANGED <<temps, pc, out, charge, bounds>>

ForeignRemove ==
    /\ dest.by = "foreign"
    /\ PutDest(NoEntry)
    /\ UNCHANGED <<temps, pc, out, charge, bounds>>

\* An entry comes back with what was flushed of it, and with any of the rest.
Survivors(e) == {[by |-> e.by, kind |-> e.kind, parts |-> n, down |-> n, good |-> e.good] :
                    n \in e.down..e.parts}

PowerLoss ==
    /\ losses < MaxLosses
    /\ losses' = losses + 1
    /\ dest' \in UNION {Survivors(e) : e \in mayDest}
    /\ mayDest' = {dest'}
    /\ temp' \in {f \in [Calls -> UNION {UNION {Survivors(e) : e \in mayTemp[p]} : p \in Calls}] :
                    \A p \in Calls : \E e \in mayTemp[p] : f[p] \in Survivors(e)}
    /\ mayTemp' = [p \in Calls |-> {temp'[p]}]
    /\ pc' = [p \in Calls |-> IF pc[p] = "open" THEN "open" ELSE "done"]
    /\ charge' = [p \in Calls |-> 0]
    /\ UNCHANGED <<out, faults>>

Step(p) ==
    \/ CheckAbsent(p) \/ CreateTemporary(p) \/ WritePart(p) \/ SyncFile(p)
    \/ Verify(p) \/ SyncStaging(p) \/ CheckAbsentAgain(p) \/ Link(p) \/ Rename(p)
    \/ Classify(p) \/ RemoveTemporary(p) \/ SyncParent(p) \/ CleanUp(p)

Next ==
    \/ \E p \in Calls : Step(p) \/ Fault(p) \/ Kill(p)
    \/ \E e \in ForeignEntries : ForeignCreate(e)
    \/ ForeignRemove
    \/ PowerLoss

Spec == Init /\ [][Next]_vars
-----------------------------------------------------------------------------
(* Properties *)

Entries == [by : Calls \cup {"foreign", "nobody"}, kind : {"none", "file", "dir"},
            parts : 0..NParts, down : 0..NParts, good : BOOLEAN]

TypeOK ==
    /\ dest \in Entries /\ mayDest \in SUBSET Entries /\ dest \in mayDest
    /\ temp \in [Calls -> Entries] /\ mayTemp \in [Calls -> SUBSET Entries]
    /\ pc \in [Calls -> Before \cup After \cup {"classify", "cleanup", "done"}]
    /\ out \in [Calls -> CleanFailures \cup {"none", "ok", "uncertain"}]
    /\ charge \in [Calls -> 0..NParts]
    /\ Used <= Budget
    /\ faults \in 0..MaxFaults /\ losses \in 0..MaxLosses

\* Whoever looks at the destination, now or after a power loss at this very
\* moment, finds nothing, somebody else's entry, or a whole and verified
\* output: never a prefix of one.
DestinationIsWhole ==
    \A e \in mayDest : e.by \in Calls => Whole(e) /\ e.down = NParts

\* "A failure before it leaves the destination absent": a call that returned
\* anything but a receipt or uncertain durability has put nothing there, now
\* or after a power loss.
CleanFailurePublishesNothing ==
    \A p \in Calls : out[p] \in CleanFailures => \A e \in mayDest : e.by # p

\* A receipt cannot be taken back: its output is there, and no power loss, no
\* other call and no failure of another call removes it.
ReceiptIsDurable ==
    \A p \in Calls : out[p] = "ok" => \A e \in mayDest : e.by = p

\* What each stage of a call has established about its sibling.
StagesEstablish ==
    \A p \in Calls :
        /\ pc[p] \in {"open", "create"} => charge[p] = 0
        /\ pc[p] \in Copying => temp[p].by = p /\ charge[p] <= temp[p].parts
        /\ pc[p] = "write" => temp[p].parts < NParts
        /\ pc[p] \in {"sync", "verify"} /\ p \in Files => temp[p].parts = NParts
        /\ pc[p] = "verify" /\ p \in Files => temp[p].down = NParts
        /\ pc[p] \in {"syncdir", "recheck", "publish"} => Whole(temp[p])
        /\ pc[p] \in {"recheck", "publish"} => temp[p].down = NParts

\* Up to the publish point nothing of a call can be at the destination, and
\* right after it the destination is the call's.
PublishPoint ==
    \A p \in Calls :
        /\ pc[p] \in Before \cup After \cup {"classify"} => out[p] = "none"
        /\ pc[p] \in Before \cup {"classify", "cleanup"} => \A e \in mayDest : e.by # p
        /\ pc[p] \in After => dest.by = p

\* The inductive invariant: why the stages of copying, the publish point and
\* the flush of the parent give the guarantees above for any number of calls.
Inv ==
    /\ TypeOK /\ StagesEstablish /\ PublishPoint
    /\ DestinationIsWhole /\ CleanFailurePublishesNothing /\ ReceiptIsDurable

\* No step of any call replaces an entry, but for an empty directory under a
\* published one.
NeverReplaces ==
    [][\A p \in Calls : (dest # NoEntry /\ dest' # dest /\ dest'.by = p /\ losses' = losses) =>
          dest.kind = "dir" /\ dest.parts = 0 /\ p \in Directories]_vars

=============================================================================
