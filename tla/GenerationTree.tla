--------------------------- MODULE GenerationTree ---------------------------
(***************************************************************************)
(* The trust-generation engine of src/src/generation.rs: one call of       *)
(* activate_generation at a time, system call by system call, over a tree  *)
(* root holding `active`, `active.tmp`, `gen-<n>` and `gen-<n>.tmp`.  The  *)
(* tree is roxyd's, with a unit to reload, or the release-trust one, whose *)
(* readers go by index.                                                    *)
(*                                                                         *)
(* The file system is modelled twice over: what a reader sees now, and the *)
(* set of values each root entry may hold after a power loss.  A directory *)
(* flush (durability.rs) is what shrinks the second.                       *)
(***************************************************************************)
EXTENDS Integers, FiniteSets

CONSTANTS
    Materials,     \* the well-formed material sets a caller may hand over
    Malformed,     \* the material sets check_material refuses
    Valid,         \* those of Materials the caller's validator accepts
    None,          \* no material
    NFiles,        \* the number of files in a material set
    MaxGen,        \* bound: the highest generation index of the instance
    MaxFaults,     \* bound: I/O faults and killed calls in a behaviour
    MaxLosses      \* bound: power losses in a behaviour

ASSUME ConstantsAssumption ==
    /\ Valid \subseteq Materials
    /\ Malformed \cap Materials = {}
    /\ None \notin Materials \cup Malformed
    /\ NFiles \in Nat \ {0}
    /\ MaxGen \in Nat
    /\ MaxFaults \in Nat
    /\ MaxLosses \in Nat

Indices == 1..MaxGen

\* A directory holds the first `files` files of `mat`.
Dirs == [mat : Materials, files : 0..NFiles]
NoDir == [mat |-> None, files |-> 0]
Entries == Dirs \cup {NoDir}

\* What the scratch name `active.tmp` may hold.
Scratches == {"none", "link", "file", "dir"}

VARIABLES
    gen, tmp,            \* gen-<n> and gen-<n>.tmp, as readers see them
    active,              \* the index `active` names, 0 when there is no link
    scratch,             \* the entry at active.tmp
    mayGen, mayTmp,      \* the values each of the four may hold after a
    mayActive,           \*   power loss: the flushed one and every one
    mayScratch,          \*   written since
    pc,                  \* where the call is
    req,                 \* the material of the current (or last) call
    idx,                 \* the generation the call is staging
    out,                 \* what the last call returned
    reload_unit,         \* whether the tree names a unit to reload, for good
    service, loaded,     \* the reload unit, and the index it loaded, 0 before
    asked,               \* whether systemctl told the last call about the unit
    late,                \* history: it told of a unit that was still starting,
                         \*   having loaded what `active` named before
    reader,              \* a reader that resolved an index and reads by it
    seen,                \* history: the material each index went live with
    faults, losses       \* bounds spent

fs == <<gen, tmp, active, scratch>>
may == <<mayGen, mayTmp, mayActive, mayScratch>>
call == <<req, idx>>
unit == <<reload_unit, service, loaded, asked, late>>
bounds == <<faults, losses>>
vars == <<fs, may, pc, call, out, unit, reader, seen, bounds>>

Complete(d) == d # NoDir /\ d.files = NFiles

Staging == {"clear", "mkdir", "write", "validate", "reject", "synctmp", "finalise"}
Finalised == {"syncroot", "unscratch", "symlink", "swap"}
Live == {"syncswap", "isactive", "reload", "prune"}
PCs == {"idle", "match"} \cup Staging \cup Finalised \cup Live

\* The reader of generation_trust_set: index from the link, then file by file.
NoReader == [at |-> 0, files |-> 0, got |-> {}]
Readers == [at : 0..MaxGen, files : 0..NFiles, got : SUBSET Materials]

TypeOK ==
    /\ gen \in [Indices -> Entries]
    /\ tmp \in [Indices -> Entries]
    /\ active \in 0..MaxGen
    /\ scratch \in Scratches
    /\ mayGen \in [Indices -> SUBSET Entries]
    /\ mayTmp \in [Indices -> SUBSET Entries]
    /\ mayActive \in SUBSET (0..MaxGen)
    /\ mayScratch \in SUBSET Scratches
    /\ pc \in PCs
    /\ req \in Materials \cup Malformed \cup {None}
    /\ pc # "idle" => req \in Materials
    /\ idx \in 0..MaxGen
    /\ pc \in Staging \cup Finalised \cup Live => idx \in Indices
    /\ out \in {"none", "changed", "unchanged", "refused", "rejected", "error"}
    /\ reload_unit \in BOOLEAN
    /\ service \in {"stopped", "starting", "running"}
    /\ loaded \in 0..MaxGen
    /\ asked \in BOOLEAN
    /\ late \in BOOLEAN
    /\ reader \in Readers
    /\ seen \in [Indices -> Materials \cup {None}]
    /\ faults \in 0..MaxFaults
    /\ losses \in 0..MaxLosses

\* An empty tree root; a foreign entry may already sit at the scratch name.
Init ==
    /\ gen = [n \in Indices |-> NoDir]
    /\ tmp = [n \in Indices |-> NoDir]
    /\ active = 0
    /\ scratch \in {"none", "file", "dir"}
    /\ mayGen = [n \in Indices |-> {NoDir}]
    /\ mayTmp = [n \in Indices |-> {NoDir}]
    /\ mayActive = {0}
    /\ mayScratch = {scratch}
    /\ pc = "idle" /\ req = None /\ idx = 0 /\ out = "none"
    /\ reload_unit \in BOOLEAN
    /\ service = "stopped" /\ loaded = 0 /\ asked = FALSE /\ late = FALSE
    /\ reader = NoReader
    /\ seen = [n \in Indices |-> None]
    /\ faults = 0 /\ losses = 0

-----------------------------------------------------------------------------
(* File-system steps: each changes what readers see and adds to what a     *)
(* power loss may leave.                                                   *)

PutGen(n, d, extra) ==
    /\ gen' = [gen EXCEPT ![n] = d]
    /\ mayGen' = [mayGen EXCEPT ![n] = @ \cup {d} \cup extra]

PutTmp(n, d) ==
    /\ tmp' = [tmp EXCEPT ![n] = d]
    /\ mayTmp' = [mayTmp EXCEPT ![n] = @ \cup {d}]

PutScratch(s) ==
    /\ scratch' = s
    /\ mayScratch' = mayScratch \cup {s}

\* One unlink of remove_dir_all: a file of the directory, or the emptied
\* directory itself.
Unlinked(d) == IF d.files > 0 THEN [d EXCEPT !.files = @ - 1] ELSE NoDir

\* Flushing the root settles which names exist.  What a surviving
\* directory holds inside is settled by flushing that directory.
Settled(now, poss) ==
    [n \in Indices |-> IF now[n] = NoDir THEN {NoDir} ELSE poss[n] \ {NoDir}]

\* sync_dir(root), called after the rename it protects.
SyncRoot ==
    /\ mayGen' = Settled(gen, mayGen)
    /\ mayTmp' = Settled(tmp, mayTmp)
    /\ mayActive' = {active}
    /\ mayScratch' = {scratch}
    /\ UNCHANGED fs

\* sync_dir(gen-<n>.tmp): the entries inside are down; whether the root
\* names the directory is not settled by this flush.
SyncTmp(n) ==
    /\ mayTmp' = [mayTmp EXCEPT ![n] = (@ \cap {NoDir}) \cup {tmp[n]}]
    /\ UNCHANGED <<fs, mayGen, mayActive, mayScratch>>

Goto(p) == pc' = p /\ UNCHANGED out
Return(r) == pc' = "idle" /\ out' = r

other == <<unit, reader, seen, bounds>>
-----------------------------------------------------------------------------
(* activate_generation *)

\* Mutant: the lowest free index instead of one above the highest.
FirstFreeGeneration(n) ==
    /\ gen[n] = NoDir
    /\ \A k \in Indices : k < n => gen[k] # NoDir

\* One greater than the highest finalised index; gen-<n>.tmp is not counted.
IsNextGeneration(n) ==
    /\ \A k \in Indices : gen[k] # NoDir => k < n
    /\ \A k \in Indices : k = n - 1 => gen[k] # NoDir

\* check_material refuses before the file system is touched.
CallRefused(m) ==
    /\ pc = "idle" /\ m \in Malformed
    /\ req' = m
    /\ Return("refused")
    /\ UNCHANGED <<fs, may, idx, other>>

Call(m) ==
    /\ pc = "idle" /\ m \in Materials
    /\ \E n \in Indices : IsNextGeneration(n)      \* the bound MaxGen
    /\ req' = m
    /\ pc' = "match" /\ out' = "none"
    /\ asked' = FALSE /\ late' = FALSE
    /\ UNCHANGED <<fs, may, idx, reload_unit, service, loaded, reader, seen, bounds>>

\* active resolves and every named file byte-matches.
ActiveMatches == active # 0 /\ gen[active] = [mat |-> req, files |-> NFiles]

MatchNoop ==
    /\ pc = "match" /\ ActiveMatches
    /\ idx' = active
    /\ Return("unchanged")
    /\ UNCHANGED <<fs, may, req, other>>

Allocate ==
    /\ pc = "match" /\ ~ActiveMatches
    /\ \E n \in Indices : IsNextGeneration(n) /\ idx' = n
    /\ Goto("clear")
    /\ UNCHANGED <<fs, may, req, other>>

\* Mutant: a leftover staging directory fails the mkdir.
ClearTmpSkipped ==
    /\ pc = "clear"
    /\ IF tmp[idx] # NoDir THEN Return("error") ELSE Goto("mkdir")
    /\ UNCHANGED <<fs, may, call, other>>

\* remove_dir_all_if_present over a leftover of an aborted call.
ClearTmp ==
    /\ pc = "clear"
    /\ IF tmp[idx] # NoDir
       THEN PutTmp(idx, Unlinked(tmp[idx])) /\ Goto("clear")
       ELSE UNCHANGED <<tmp, mayTmp>> /\ Goto("mkdir")
    /\ UNCHANGED <<gen, active, scratch, mayGen, mayActive, mayScratch, call, other>>

MakeTmp ==
    /\ pc = "mkdir"
    /\ PutTmp(idx, [mat |-> req, files |-> 0])
    /\ Goto("write")
    /\ UNCHANGED <<gen, active, scratch, mayGen, mayActive, mayScratch, call, other>>

\* write_file_0600, one file: its bytes are flushed, its name is not.
WriteFile ==
    /\ pc = "write" /\ tmp[idx].files < NFiles
    /\ PutTmp(idx, [tmp[idx] EXCEPT !.files = @ + 1])
    /\ Goto(IF tmp[idx].files + 1 = NFiles THEN "validate" ELSE "write")
    /\ UNCHANGED <<gen, active, scratch, mayGen, mayActive, mayScratch, call, other>>

\* Mutant: the validator's verdict is dropped.
ValidateIgnored ==
    /\ pc = "validate"
    /\ Goto("synctmp")
    /\ UNCHANGED <<fs, may, call, other>>

\* The validator judges the bytes read back from gen-<n>.tmp.
Validate ==
    /\ pc = "validate"
    /\ Goto(IF tmp[idx].mat \in Valid THEN "synctmp" ELSE "reject")
    /\ UNCHANGED <<fs, may, call, other>>

\* Best-effort removal of the rejected copy, then the validator's error.
Reject ==
    /\ pc = "reject"
    /\ IF tmp[idx] # NoDir
       THEN PutTmp(idx, Unlinked(tmp[idx])) /\ Goto("reject")
       ELSE UNCHANGED <<tmp, mayTmp>> /\ Return("rejected")
    /\ UNCHANGED <<gen, active, scratch, mayGen, mayActive, mayScratch, call, other>>

\* Mutant: gen-<n>.tmp is renamed without being flushed.
FlushTmpSkipped ==
    /\ pc = "synctmp"
    /\ Goto("finalise")
    /\ UNCHANGED <<fs, may, call, other>>

FlushTmp ==
    /\ pc = "synctmp"
    /\ SyncTmp(idx)
    /\ Goto("finalise")
    /\ UNCHANGED <<call, other>>

\* rename(gen-<n>.tmp, gen-<n>): the directory moves with whatever a power
\* loss may leave inside it.
Finalise ==
    /\ pc = "finalise"
    /\ PutGen(idx, tmp[idx], mayTmp[idx] \ {NoDir})
    /\ PutTmp(idx, NoDir)
    /\ Goto("syncroot")
    /\ UNCHANGED <<active, scratch, mayActive, mayScratch, call, other>>

FlushFinalised ==
    /\ pc = "syncroot"
    /\ SyncRoot
    /\ Goto("unscratch")
    /\ UNCHANGED <<call, other>>

\* swap_active_symlink, first step: remove_file clears a link or a plain
\* file at active.tmp; a directory there fails the call.
ClearScratch ==
    /\ pc = "unscratch" /\ scratch # "dir"
    /\ PutScratch("none")
    /\ Goto("symlink")
    /\ UNCHANGED <<gen, tmp, active, mayGen, mayTmp, mayActive, call, other>>

ScratchIsDirectory ==
    /\ pc = "unscratch" /\ scratch = "dir"
    /\ Return("error")
    /\ UNCHANGED <<fs, may, call, other>>

MakeLink ==
    /\ pc = "symlink"
    /\ PutScratch("link")
    /\ Goto("swap")
    /\ UNCHANGED <<gen, tmp, active, mayGen, mayTmp, mayActive, call, other>>

\* rename(active.tmp, active): the point of no return.
Swap ==
    /\ pc = "swap"
    /\ active' = idx
    /\ mayActive' = mayActive \cup {idx}
    /\ PutScratch("none")
    /\ seen' = [seen EXCEPT ![idx] = gen[idx].mat]
    /\ Goto("syncswap")
    /\ UNCHANGED <<gen, tmp, mayGen, mayTmp, call, unit, reader, bounds>>

\* Mutant: the swap itself is never flushed.
FlushSwapSkipped ==
    /\ pc = "syncswap"
    /\ Goto(IF reload_unit THEN "isactive" ELSE "prune")
    /\ UNCHANGED <<fs, may, call, other>>

FlushSwap ==
    /\ pc = "syncswap"
    /\ SyncRoot
    /\ Goto(IF reload_unit THEN "isactive" ELSE "prune")
    /\ UNCHANGED <<call, other>>

\* Mutant: a running unit is not told.
CheckUnitInverted ==
    /\ pc = "isactive"
    /\ asked' = TRUE
    /\ late' = (service = "starting" /\ loaded \notin {0, active})
    /\ Goto(IF service = "running" THEN "prune" ELSE "reload")
    /\ UNCHANGED <<fs, may, call, reload_unit, service, loaded, reader, seen, bounds>>

\* systemctl is-active: a unit that is not running needs no reload.  One
\* that is still starting is not running yet, whatever it has loaded.
CheckUnit ==
    /\ pc = "isactive"
    /\ asked' = TRUE
    /\ late' = (service = "starting" /\ loaded \notin {0, active})
    /\ Goto(IF service = "running" THEN "reload" ELSE "prune")
    /\ UNCHANGED <<fs, may, call, reload_unit, service, loaded, reader, seen, bounds>>

\* systemctl reload; it fails on a unit stopped, or restarted, in between.
Reload ==
    /\ pc = "reload"
    /\ IF service = "running" THEN loaded' = active /\ late' = FALSE /\ Goto("prune")
       ELSE UNCHANGED <<loaded, late>> /\ Return("error")
    /\ UNCHANGED <<fs, may, call, reload_unit, service, asked, reader, seen, bounds>>

\* prune_generations: every finalised index but the kept one, and every
\* gen-<n>.tmp, unlink by unlink.
PruneGen(n) ==
    /\ pc = "prune" /\ n # idx /\ gen[n] # NoDir
    /\ PutGen(n, Unlinked(gen[n]), {})
    /\ UNCHANGED <<tmp, active, scratch, mayTmp, mayActive, mayScratch, pc, out, call, other>>

PruneTmp(n) ==
    /\ pc = "prune" /\ tmp[n] # NoDir
    /\ PutTmp(n, Unlinked(tmp[n]))
    /\ UNCHANGED <<gen, active, scratch, mayGen, mayActive, mayScratch, pc, out, call, other>>

PruneDone ==
    /\ pc = "prune"
    /\ \A n \in Indices : tmp[n] = NoDir /\ (n # idx => gen[n] = NoDir)
    /\ Return("changed")
    /\ UNCHANGED <<fs, may, call, other>>

Step ==
    \/ MatchNoop \/ Allocate \/ ClearTmp \/ MakeTmp \/ WriteFile \/ Validate
    \/ Reject \/ FlushTmp \/ Finalise \/ FlushFinalised \/ ClearScratch
    \/ ScratchIsDirectory \/ MakeLink \/ Swap \/ FlushSwap \/ CheckUnit
    \/ Reload \/ PruneDone
    \/ \E n \in Indices : PruneGen(n) \/ PruneTmp(n)
-----------------------------------------------------------------------------
(* Faults, the unit and the readers of the tree. *)

\* The system call the call is at fails, or the process is killed there.
\* Nothing is undone.  A failed is-active reads as "nothing to reload", and
\* a failed removal of a rejected copy is ignored.
Fault ==
    /\ pc # "idle" /\ faults < MaxFaults
    /\ faults' = faults + 1
    /\ IF pc = "isactive" THEN asked' = FALSE /\ Goto("prune")
       ELSE UNCHANGED asked /\ Return(IF pc = "reject" THEN "rejected" ELSE "error")
    /\ UNCHANGED <<fs, may, call, reload_unit, service, loaded, late, reader, seen, losses>>

\* Every root entry comes back with one of the values it may hold.
Choices(poss) == {f \in [Indices -> UNION {poss[n] : n \in Indices}] :
                    \A n \in Indices : f[n] \in poss[n]}

PowerLoss ==
    /\ losses < MaxLosses
    /\ losses' = losses + 1
    /\ gen' \in Choices(mayGen)
    /\ tmp' \in Choices(mayTmp)
    /\ active' \in mayActive
    /\ scratch' \in mayScratch
    /\ mayGen' = [n \in Indices |-> {gen'[n]}]
    /\ mayTmp' = [n \in Indices |-> {tmp'[n]}]
    /\ mayActive' = {active'}
    /\ mayScratch' = {scratch'}
    /\ pc' = "idle" /\ out' = "none"
    /\ service' = "stopped" /\ loaded' = 0 /\ asked' = FALSE /\ late' = FALSE
    /\ reader' = NoReader
    /\ UNCHANGED <<call, reload_unit, seen, faults>>

\* The unit starts in steps, each at its own time: it is begun, resolves
\* `active`, and is reported running once it says so.  It may be reported
\* before it has resolved the link, and stop or fail to start anywhere.
BeginUnit ==
    /\ reload_unit /\ service = "stopped"
    /\ service' = "starting"
    /\ UNCHANGED <<reload_unit, loaded, asked, late, fs, may, pc, call, out, reader, seen, bounds>>

LoadUnit ==
    /\ service # "stopped" /\ loaded = 0 /\ active # 0
    /\ loaded' = active
    /\ UNCHANGED <<reload_unit, service, asked, late, fs, may, pc, call, out, reader, seen, bounds>>

UnitReady ==
    /\ service = "starting"
    /\ service' = "running"
    /\ UNCHANGED <<reload_unit, loaded, asked, late, fs, may, pc, call, out, reader, seen, bounds>>

StopUnit ==
    /\ service # "stopped"
    /\ service' = "stopped" /\ loaded' = 0 /\ late' = FALSE
    /\ UNCHANGED <<reload_unit, asked, fs, may, pc, call, out, reader, seen, bounds>>

\* active_generation_index, then generation_trust_set over gen-<n> itself: the
\* release-trust tree is read so, and it names no unit.
ReaderResolve ==
    /\ ~reload_unit /\ active # 0
    /\ reader' = [at |-> active, files |-> 0, got |-> {}]
    /\ UNCHANGED <<fs, may, pc, call, out, unit, seen, bounds>>

ReaderRead ==
    /\ reader.at # 0 /\ reader.files < NFiles
    /\ gen[reader.at].files > reader.files
    /\ reader' = [at |-> reader.at, files |-> reader.files + 1,
                  got |-> reader.got \cup {gen[reader.at].mat}]
    /\ UNCHANGED <<fs, may, pc, call, out, unit, seen, bounds>>

Next ==
    \/ \E m \in Materials : Call(m)
    \/ \E m \in Malformed : CallRefused(m)
    \/ Step
    \/ Fault
    \/ PowerLoss
    \/ BeginUnit
    \/ LoadUnit
    \/ UnitReady
    \/ StopUnit
    \/ ReaderResolve
    \/ ReaderRead

Spec == Init /\ [][Next]_vars

\* The engine runs to its return once called, and the caller keeps calling.
Fairness == WF_vars(Step) /\ WF_vars(\E m \in Materials : Call(m))
FairSpec == Spec /\ Fairness
-----------------------------------------------------------------------------
(* Properties *)

Trustworthy(d) == Complete(d) /\ d.mat \in Valid

\* Whatever `active` names, now or after a power loss at this very point, is
\* a whole material set the validator accepted: "an `active` that survives a
\* crash naming a generation whose files did not is the failure to prevent"
\* (activate_generation).
ActiveIsTrustworthy ==
    active # 0 => Trustworthy(gen[active])

\* A link that may survive a power loss can only name an index every possible
\* content of which is whole and accepted, and every value seen now is one of
\* the possible ones.
CrashClosed ==
    /\ \A a \in mayActive \ {0} : \A d \in mayGen[a] : Trustworthy(d)
    /\ active \in mayActive
    /\ \A n \in Indices : gen[n] \in mayGen[n]
    /\ \A n \in Indices : tmp[n] \in mayTmp[n]

\* An index that went live, or whose removal is not yet flushed, stays at or
\* below some index that cannot be lost: what keeps allocation going upward.
Anchored ==
    /\ \A n \in Indices : gen[n] = NoDir /\ mayGen[n] # {NoDir} =>
            \E k \in Indices : k > n /\ NoDir \notin mayGen[k]
    /\ \A n \in Indices : seen[n] # None =>
            \E k \in Indices : k >= n /\ NoDir \notin mayGen[k]

\* The history agrees with every content an index may come back with, and
\* with what the reader has read by index.
Remembered ==
    /\ \A n \in Indices : \A d \in mayGen[n] :
            d # NoDir /\ seen[n] # None => d.mat = seen[n]
    /\ \A a \in mayActive \ {0} : seen[a] # None
    /\ IF reader.at = 0 THEN reader.got = {}
       ELSE seen[reader.at] # None /\ reader.got \subseteq {seen[reader.at]}

\* What each stage of the call has established about the index it stages.
Staged ==
    /\ pc \in Staging => \A k \in Indices : mayGen[k] # {NoDir} => k < idx
    /\ pc = "write" => /\ tmp[idx].mat = req
                       /\ tmp[idx].files < NFiles
    /\ pc = "validate" => tmp[idx] = [mat |-> req, files |-> NFiles]
    /\ pc \in {"synctmp", "finalise"} => Trustworthy(tmp[idx])
    /\ pc = "finalise" => mayTmp[idx] \subseteq {NoDir, tmp[idx]}
    /\ pc \in Finalised \cup Live =>
            /\ Trustworthy(gen[idx])
            /\ \A k \in Indices : mayGen[k] # {NoDir} => k <= idx
    /\ pc \in Finalised => seen[idx] = None
    /\ pc = "syncroot" => mayGen[idx] \subseteq {NoDir, gen[idx]}
    /\ pc \in (Finalised \ {"syncroot"}) \cup Live => mayGen[idx] = {gen[idx]}
    /\ pc \in Live => active = idx
    /\ pc \in Live \ {"syncswap"} => mayActive = {idx}

\* The inductive invariant: no crash point, fault or step leads out of it.
Inv == TypeOK /\ CrashClosed /\ Anchored /\ Remembered /\ Staged

\* An index that readers once resolved never holds other material later:
\* next_generation counts upward from what is on disk, through faults, kills,
\* power losses and pruning, so "a just-superseded generation's directory is
\* never reused".
IndexNeverReused ==
    \A n \in Indices :
        (seen[n] # None /\ gen[n] # NoDir) => gen[n].mat = seen[n]

\* A reader that took an index from the link and reads gen-<n> directly never
\* pairs files of two generations, however the tree moves underneath it.
ReaderNeverPairs == Cardinality(reader.got) <= 1

\* An activation reported as changed cannot be lost to a power loss, and it
\* leaves neither a superseded generation nor a staging directory behind.
ChangedIsDurableAndPruned ==
    (pc = "idle" /\ out = "changed") =>
        /\ mayActive = {idx}
        /\ NoDir \notin mayGen[idx]
        /\ \A n \in Indices : tmp[n] = NoDir /\ (gen[n] # NoDir => n = idx)

\* After an activation reported as changed whose is-active query went through,
\* a unit that has loaded anything, running or still starting, serves the
\* material `active` names: stopped, started or reloaded around the swap, it
\* cannot have kept the old one.  The one exception is `late`: is-active fails
\* for a unit that is still starting, reload_if_active takes that as nothing to
\* reload, and a start that resolved the link before the swap ends after it on
\* the old material.
UnitServesActive ==
    (pc = "idle" /\ out = "changed" /\ asked /\ loaded # 0 /\ ~late) => loaded = active

\* A caller that from some point on retries one acceptable material set gets
\* it live for good once faults stop, whatever leftovers earlier attempts
\* left, unless a directory squats on the scratch name.
RetryConverges ==
    \A m \in Valid :
        <>[](/\ req = m /\ scratch # "dir"
             /\ \E n \in Indices : IsNextGeneration(n))
            => <>[](active # 0 /\ gen[active].mat = m)

Named(a) == IF a = 0 THEN [at |-> 0, mat |-> None]
                     ELSE [at |-> a, mat |-> gen[a].mat]

Register == INSTANCE TrustRegister WITH
    live <- Named(active),
    kept <- {Named(a) : a \in mayActive},
    used <- {n \in Indices : seen[n] # None}

\* For its readers the tree is one register of accepted material: installed
\* under a fresh and higher index, flushed, or put back by a power loss to a
\* value that was not yet flushed over.
ImplementsRegister == Register!Spec
=============================================================================
