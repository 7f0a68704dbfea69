----------------------------- MODULE Retention -----------------------------
(***************************************************************************)
(* The private byte retention of src/src/retain.rs: writers that run       *)
(* snapshot_from at the same time over one RetentionScope and its one      *)
(* DiskBudget, atomic operation by atomic operation and system call by     *)
(* system call, and the retained handles and the scope they leave.         *)
(*                                                                         *)
(* A source is its length: byte i of a file is byte i of its source, so    *)
(* the first n bytes written are the source's first n.  The identity check *)
(* of the reopened inode guards against same-user processes and is left    *)
(* out.                                                                    *)
(***************************************************************************)
EXTENDS Naturals, FiniteSets

CONSTANTS
    Writers,       \* concurrent calls of snapshot_from
    MaxSource,     \* bound: bytes a source may hold
    MaxLen,        \* max_len of every call
    CopyBuffer,    \* RetentionScope::copy_buffer
    Limit,         \* DiskBudget::limit
    MaxHandles,    \* bound: handles sharing one retained copy
    MaxIoFaults      \* bound: failing reads, writes and system calls

ASSUME RetentionAssumption ==
    /\ IsFiniteSet(Writers)
    /\ MaxSource \in Nat /\ MaxLen \in Nat /\ Limit \in Nat /\ MaxIoFaults \in Nat
    /\ CopyBuffer \in Nat \ {0} /\ MaxHandles \in Nat \ {0}

VARIABLES
    source, left,        \* the bytes of each source, and those not yet read
    place, outcome,             \* where each call is, and what it returned
    chunk,               \* bytes read and not yet written
    seen, granted,       \* `used` as last loaded, and what grow granted
    landed,              \* what the last write wrote
    bytes,               \* Charge::bytes
    len, disk,           \* SnapshotWriter::len, and the bytes in the file
    named, handles,      \* the file's name exists; handles on the copy
    used, high,          \* BudgetState::used and high_water
    peak,                \* history: the most that was ever charged
    scope, ioFaults        \* the scope; bound spent

call == <<source, left, chunk>>
grant == <<seen, granted, landed>>
file == <<len, disk, named, handles>>
ledger == <<used, high, peak>>
retainVars == <<call, place, outcome, grant, bytes, file, ledger, scope, ioFaults>>

Writing == {"read", "load", "cas", "mark", "write", "shrink", "shrinkfail",
            "reopen", "unlink", "check", "drop", "release"}
Failures == {"toolong", "budget", "io", "mismatch"}

RetainInit ==
    /\ source \in [Writers -> 0..MaxSource] /\ left = source
    /\ place = [w \in Writers |-> "idle"] /\ outcome = [w \in Writers |-> "none"]
    /\ chunk = [w \in Writers |-> 0] /\ seen = [w \in Writers |-> 0]
    /\ granted = [w \in Writers |-> 0] /\ landed = [w \in Writers |-> 0]
    /\ bytes = [w \in Writers |-> 0]
    /\ len = [w \in Writers |-> 0] /\ disk = [w \in Writers |-> 0]
    /\ named = [w \in Writers |-> FALSE] /\ handles = [w \in Writers |-> 0]
    /\ used = 0 /\ high = 0 /\ peak = 0
    /\ scope = "open" /\ ioFaults = 0

Turn(w, to) == place' = [place EXCEPT ![w] = to] /\ UNCHANGED outcome

\* An error: the writer is dropped.
FailWriter(w, how) ==
    /\ place' = [place EXCEPT ![w] = "drop"]
    /\ outcome' = [outcome EXCEPT ![w] = how]

Smallest(a, b) == IF a <= b THEN a ELSE b
Largest(a, b) == IF a >= b THEN a ELSE b
-----------------------------------------------------------------------------
\* RetentionScope::snapshot_writer.
OpenSnapshot(w) ==
    /\ place[w] = "idle" /\ scope = "open"
    /\ named' = [named EXCEPT ![w] = TRUE]
    /\ Turn(w, "read")
    /\ UNCHANGED <<call, grant, bytes, len, disk, handles, ledger, scope, ioFaults>>

\* What the call has copied when it asks its source for more.
Total(w) == source[w] - left[w]

\* snapshot_from, below max_len: a read returns anything from one byte to the
\* window, and nothing at the end of the source.
ReadSource(w) ==
    /\ place[w] = "read" /\ Total(w) < MaxLen
    /\ \/ /\ left[w] = 0 /\ Turn(w, "reopen") /\ UNCHANGED <<left, chunk>>
       \/ \E n \in 1..Smallest(left[w], Smallest(MaxLen - Total(w), CopyBuffer)) :
            /\ left' = [left EXCEPT ![w] = @ - n]
            /\ chunk' = [chunk EXCEPT ![w] = n]
            /\ Turn(w, "load")
    /\ UNCHANGED <<source, grant, bytes, file, ledger, scope, ioFaults>>

\* Mutant: a source that filled max_len is taken without a look past it.
ProbeSourceNot(w) ==
    /\ place[w] = "read" /\ Total(w) = MaxLen
    /\ Turn(w, "reopen")
    /\ UNCHANGED <<call, grant, bytes, file, ledger, scope, ioFaults>>

\* snapshot_from, at max_len: one more byte tells a full source from one
\* that is too long.
ProbeSource(w) ==
    /\ place[w] = "read" /\ Total(w) = MaxLen
    /\ IF left[w] = 0 THEN Turn(w, "reopen") ELSE FailWriter(w, "toolong")
    /\ UNCHANGED <<call, grant, bytes, file, ledger, scope, ioFaults>>

\* Charge::grow: the load of try_update.  Nothing left is no grant at all.
GrowLoad(w) ==
    /\ place[w] = "load"
    /\ IF used < Limit
       THEN Turn(w, "cas") /\ seen' = [seen EXCEPT ![w] = used]
       ELSE FailWriter(w, "budget") /\ UNCHANGED seen
    /\ UNCHANGED <<call, granted, landed, bytes, file, ledger, scope, ioFaults>>

Grant(w) == Smallest(chunk[w], Limit - seen[w])

\* Mutant: a plain store where the compare-and-exchange is.
GrowUpdateStored(w) ==
    /\ place[w] = "cas"
    /\ used' = seen[w] + Grant(w) /\ peak' = Largest(peak, used')
    /\ granted' = [granted EXCEPT ![w] = Grant(w)]
    /\ bytes' = [bytes EXCEPT ![w] = @ + Grant(w)]
    /\ Turn(w, "mark")
    /\ UNCHANGED <<call, seen, landed, file, high, scope, ioFaults>>

\* The compare-and-exchange of try_update, tried again when `used` moved.
GrowUpdate(w) ==
    /\ place[w] = "cas"
    /\ IF used = seen[w]
       THEN /\ used' = used + Grant(w) /\ peak' = Largest(peak, used')
            /\ granted' = [granted EXCEPT ![w] = Grant(w)]
            /\ bytes' = [bytes EXCEPT ![w] = @ + Grant(w)]
            /\ Turn(w, "mark")
       ELSE Turn(w, "load") /\ UNCHANGED <<used, peak, granted, bytes>>
    /\ UNCHANGED <<call, seen, landed, file, high, scope, ioFaults>>

MarkHighWater(w) ==
    /\ place[w] = "mark"
    /\ high' = Largest(high, seen[w] + granted[w])
    /\ Turn(w, "write")
    /\ UNCHANGED <<call, grant, bytes, file, used, peak, scope, ioFaults>>

\* write_charged: any part of what was granted lands.  Nothing landing is an
\* interrupted write, which write_all tries again, or its error.
WriteCharged(w) ==
    /\ place[w] = "write"
    /\ \E n \in 0..granted[w] :
         /\ landed' = [landed EXCEPT ![w] = n]
         /\ disk' = [disk EXCEPT ![w] = @ + n] /\ len' = [len EXCEPT ![w] = @ + n]
         /\ \/ Turn(w, "shrink")
            \/ n = 0 /\ Turn(w, "shrinkfail")
    /\ UNCHANGED <<call, seen, granted, bytes, named, handles, ledger, scope, ioFaults>>

\* Charge::shrink by what did not land, and write_all's next turn.
Shrink(w) ==
    /\ place[w] \in {"shrink", "shrinkfail"}
    /\ used' = used - (granted[w] - landed[w])
    /\ bytes' = [bytes EXCEPT ![w] = @ - (granted[w] - landed[w])]
    /\ chunk' = [chunk EXCEPT ![w] = @ - landed[w]]
    /\ IF place[w] = "shrinkfail" THEN FailWriter(w, "io")
       ELSE Turn(w, IF chunk[w] = landed[w] THEN "read" ELSE "load")
    /\ UNCHANGED <<source, left, grant, file, high, peak, scope, ioFaults>>
-----------------------------------------------------------------------------
\* SnapshotWriter::finish: the read-only descriptor, then the name goes, then
\* the writable descriptor and the length.
Reopen(w) ==
    /\ place[w] = "reopen"
    /\ Turn(w, "unlink")
    /\ UNCHANGED <<call, grant, bytes, file, ledger, scope, ioFaults>>

UnlinkSnapshot(w) ==
    /\ place[w] = "unlink"
    /\ named' = [named EXCEPT ![w] = FALSE]
    /\ Turn(w, "check")
    /\ UNCHANGED <<call, grant, bytes, len, disk, handles, ledger, scope, ioFaults>>

Retain(w) ==
    /\ place[w] = "check"
    /\ IF disk[w] = len[w]
       THEN /\ place' = [place EXCEPT ![w] = "retained"] /\ outcome' = [outcome EXCEPT ![w] = "ok"]
            /\ handles' = [handles EXCEPT ![w] = 1]
       ELSE FailWriter(w, "mismatch") /\ UNCHANGED handles
    /\ UNCHANGED <<call, grant, bytes, len, disk, named, ledger, scope, ioFaults>>

\* RetainedBytes::share.
Share(w) ==
    /\ place[w] = "retained" /\ handles[w] < MaxHandles
    /\ handles' = [handles EXCEPT ![w] = @ + 1]
    /\ UNCHANGED <<call, place, outcome, grant, bytes, len, disk, named, ledger, scope, ioFaults>>

\* A handle is dropped; with the last one the file is closed, and only then
\* its charge goes.
DropHandle(w) ==
    /\ place[w] = "retained"
    /\ handles' = [handles EXCEPT ![w] = @ - 1]
    /\ IF handles[w] = 1
       THEN Turn(w, "release") /\ disk' = [disk EXCEPT ![w] = 0]
       ELSE UNCHANGED <<place, outcome, disk>>
    /\ UNCHANGED <<call, grant, bytes, len, named, ledger, scope, ioFaults>>

\* Mutant: the charge goes first.
DropWriterUncharged(w) ==
    /\ place[w] = "drop"
    /\ used' = used - bytes[w] /\ bytes' = [bytes EXCEPT ![w] = 0]
    /\ Turn(w, "release")
    /\ UNCHANGED <<call, grant, file, high, peak, scope, ioFaults>>

\* SnapshotWriter::drop: the name, where there still is one, and with it the
\* last of the file.
DropWriter(w) ==
    /\ place[w] = "drop"
    /\ named' = [named EXCEPT ![w] = FALSE]
    /\ disk' = [disk EXCEPT ![w] = 0]
    /\ Turn(w, "release")
    /\ UNCHANGED <<call, grant, bytes, len, handles, ledger, scope, ioFaults>>

\* Charge::drop.
Release(w) ==
    /\ place[w] = "release"
    /\ used' = used - bytes[w]
    /\ bytes' = [bytes EXCEPT ![w] = 0]
    /\ Turn(w, "done")
    /\ UNCHANGED <<call, grant, file, high, peak, scope, ioFaults>>

\* A failing call: the source's read, the create, a write (nothing landed),
\* the reopen, the unlink; a failing unlink in the drop is ignored.
CallFails(w) ==
    /\ ioFaults < MaxIoFaults /\ ioFaults' = ioFaults + 1
    /\ \/ place[w] \in {"read", "reopen", "unlink"} /\ FailWriter(w, "io") /\ UNCHANGED landed
       \/ /\ place[w] = "idle" /\ scope = "open"
          /\ place' = [place EXCEPT ![w] = "done"] /\ outcome' = [outcome EXCEPT ![w] = "io"]
          /\ UNCHANGED landed
       \/ /\ place[w] = "write" /\ Turn(w, "shrinkfail")
          /\ landed' = [landed EXCEPT ![w] = 0]
       \/ place[w] = "drop" /\ named[w] /\ Turn(w, "release") /\ UNCHANGED landed
    /\ UNCHANGED <<call, seen, granted, bytes, file, ledger, scope>>
-----------------------------------------------------------------------------
\* RetentionScope::close or its drop: no writer borrows the scope any more,
\* retained copies may live on.
CloseScope ==
    /\ scope = "open" /\ \A w \in Writers : place[w] \notin Writing \/ outcome[w] = "ok"
    /\ scope' = "closing"
    /\ UNCHANGED <<call, place, outcome, grant, bytes, file, ledger, ioFaults>>

\* remove_private: every name that is left, then the directory.
RemoveEntry(w) ==
    /\ scope \in {"closing", "kept"} /\ named[w]
    /\ named' = [named EXCEPT ![w] = FALSE] /\ disk' = [disk EXCEPT ![w] = 0]
    /\ UNCHANGED <<call, place, outcome, grant, bytes, len, handles, ledger, scope, ioFaults>>

RemovePrivate ==
    /\ scope = "closing" /\ \A w \in Writers : ~named[w]
    /\ scope' = "removed"
    /\ UNCHANGED <<call, place, outcome, grant, bytes, file, ledger, ioFaults>>

\* The listing, an entry or the directory itself fails: what is listed is
\* still tried, and the directory stays.
RemoveFails ==
    /\ scope = "closing" /\ ioFaults < MaxIoFaults /\ ioFaults' = ioFaults + 1
    /\ scope' = "kept"
    /\ UNCHANGED <<call, place, outcome, grant, bytes, file, ledger>>

WriterStep(w) ==
    \/ OpenSnapshot(w) \/ ReadSource(w) \/ ProbeSource(w)
    \/ GrowLoad(w) \/ GrowUpdate(w) \/ MarkHighWater(w) \/ WriteCharged(w) \/ Shrink(w)
    \/ Reopen(w) \/ UnlinkSnapshot(w) \/ Retain(w) \/ Share(w) \/ DropHandle(w)
    \/ DropWriter(w) \/ Release(w)

RetainNext ==
    \/ \E w \in Writers : WriterStep(w) \/ CallFails(w) \/ RemoveEntry(w)
    \/ CloseScope \/ RemovePrivate \/ RemoveFails

RetainSpec == RetainInit /\ [][RetainNext]_retainVars
-----------------------------------------------------------------------------
(* Properties *)

RetainTypeOK ==
    /\ source \in [Writers -> 0..MaxSource] /\ left \in [Writers -> 0..MaxSource]
    /\ chunk \in [Writers -> 0..MaxSource]
    /\ place \in [Writers -> Writing \cup {"idle", "retained", "done"}]
    /\ outcome \in [Writers -> Failures \cup {"none", "ok"}]
    /\ seen \in [Writers -> 0..Limit] /\ granted \in [Writers -> 0..Limit]
    /\ landed \in [Writers -> 0..Limit] /\ bytes \in [Writers -> 0..Limit]
    /\ len \in [Writers -> 0..Limit] /\ disk \in [Writers -> 0..Limit]
    /\ named \in [Writers -> BOOLEAN] /\ handles \in [Writers -> 0..MaxHandles]
    /\ used \in 0..Limit /\ high \in 0..Limit /\ peak \in 0..Limit
    /\ scope \in {"open", "closing", "removed", "kept"} /\ ioFaults \in 0..MaxIoFaults

\* Every writer with every byte charged to it.
Charges(held) == {c \in Writers \X (1..Limit) : c[2] <= held[c[1]]}

\* "The atomic update never lets the total pass the limit, however many
\* writers race": the counter is exactly the sum of the live charges, within
\* the limit.
BudgetIsExact == used = Cardinality(Charges(bytes)) /\ used <= Limit

\* "every live snapshot ... is charged for the bytes it holds": at no moment
\* is there a byte on the disk that is not charged, but for a file whose
\* unlink failed, which the scope's close is left to remove.
DiskIsCharged ==
    \A w \in Writers :
        disk[w] <= bytes[w] \/ (named[w] /\ place[w] \in {"release", "done"} /\ ioFaults > 0)

\* A retained copy is the whole source, no longer than max_len, has no name
\* any more and is charged for exactly its bytes, however reads and writes
\* were cut; a source is called too long only when it is.
SnapshotIsWholeSource ==
    \A w \in Writers :
        /\ place[w] = "retained" =>
              /\ disk[w] = source[w] /\ len[w] = source[w] /\ bytes[w] = source[w]
              /\ source[w] <= MaxLen /\ ~named[w] /\ handles[w] > 0
        /\ outcome[w] = "toolong" => source[w] > MaxLen

\* What each stage of a call has established.
Stage(w) ==
    /\ left[w] <= source[w] /\ source[w] - left[w] <= MaxLen
    /\ place[w] = "idle" => bytes[w] = 0 /\ len[w] = 0 /\ disk[w] = 0 /\ chunk[w] = 0
    /\ place[w] = "idle" => left[w] = source[w]
    /\ place[w] \in {"idle", "read", "load", "cas", "reopen", "unlink", "check", "retained"} =>
          bytes[w] = len[w] /\ disk[w] = len[w] /\ len[w] + chunk[w] + left[w] = source[w]
    /\ place[w] \in {"mark", "write"} =>
          /\ bytes[w] = len[w] + granted[w] /\ disk[w] = len[w]
          /\ len[w] + chunk[w] + left[w] = source[w] /\ granted[w] <= chunk[w]
    /\ place[w] \in {"shrink", "shrinkfail"} =>
          /\ landed[w] <= granted[w] /\ granted[w] <= chunk[w]
          /\ bytes[w] + landed[w] = len[w] + granted[w] /\ disk[w] = len[w]
          /\ len[w] + chunk[w] + left[w] = source[w] + landed[w]
    /\ place[w] \in {"read", "reopen", "unlink", "check", "retained"} => chunk[w] = 0
    /\ place[w] \in {"reopen", "unlink", "check", "retained"} => left[w] = 0
    /\ place[w] \in {"check", "retained"} => ~named[w]
    /\ place[w] = "retained" => handles[w] > 0
    /\ place[w] = "drop" => disk[w] <= bytes[w]
    /\ place[w] \in {"release", "done"} => disk[w] = 0 \/ (named[w] /\ ioFaults > 0)
    /\ place[w] = "done" => bytes[w] = 0
    /\ outcome[w] = "ok" => place[w] \in {"retained", "release", "done"}
    /\ outcome[w] = "toolong" => source[w] > MaxLen
    /\ scope # "open" => place[w] \in {"idle", "retained", "release", "done"}

WriterStages == \A w \in Writers : Stage(w)

\* The high-water mark lags the peak only while the writer that made the peak
\* has not raised it yet.
HighWaterLags ==
    /\ high <= peak
    /\ \A w \in Writers : place[w] = "mark" => seen[w] + granted[w] <= peak
    /\ high < peak => \E w \in Writers : place[w] = "mark" /\ seen[w] + granted[w] = peak

\* The inductive invariant: where every byte of a source is at each stage, and
\* that the ledger knows of every byte on the disk.
RetainInv ==
    RetainTypeOK /\ BudgetIsExact /\ WriterStages /\ HighWaterLags

\* Between two grows the high-water mark is the most that was ever charged.
HighWaterIsPeak ==
    (\A w \in Writers : place[w] # "mark") => high = peak
=============================================================================
