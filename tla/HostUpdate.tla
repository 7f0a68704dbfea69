----------------------------- MODULE HostUpdate -----------------------------
(***************************************************************************)
(* How a release's artifact lands on a host: the diff of src/src/engine.rs,*)
(* the steps of src/src/apply.rs, and the calls of src/src/executor.rs     *)
(* they make on the host, command by command: put_file, hard_link_over and *)
(* make_dir.  The native transport runs them as system calls of the        *)
(* process; the shell transports run each as one script on the target,     *)
(* which goes on when the process that started it is killed or loses its   *)
(* connection.                                                             *)
(*                                                                         *)
(* One artifact path is followed: its destination, the ".previous" beside  *)
(* it and its copy in the module store.  An entry is None, an inode, or    *)
(* something that is not a regular file.  `at` is what is visible and      *)
(* `mayAt` all that each name may hold after a power loss; an inode not    *)
(* yet flushed may come back torn.                                         *)
(*                                                                         *)
(* The caller is not part of the repository.  It is modelled as apply.rs   *)
(* requires it to be: it keeps a durable journal whose backup-taken record *)
(* it writes from backup_previous_artifact's success, and a resumed update *)
(* skips the backup when it finds the record.                              *)
(***************************************************************************)
EXTENDS StagingDir, FiniteSets

CONSTANTS
    Releases, Manifest,   \* the releases, and each one's artifact tuple
    Calls,                \* the scripts that may be running at once
    Chain,                \* the directories from the destination's upwards
    LinkAttempts,         \* LINK_TEMP_ATTEMPTS
    Inodes,               \* bound: inodes in use at once
    MaxUpdates,           \* bound: updates opened
    MaxFaults,            \* bound: failing commands and killed scripts
    MaxAbandons,          \* bound: callers killed, connections lost
    MaxLosses,            \* bound: power losses
    MaxTrouble            \* bound: all of these together

None == 0
Link == -1    \* a symbolic link that resolves to nothing
DLink == -2   \* a symbolic link to a directory
Dir == -3
Regular == 1..Inodes
Names == {"dest", "prev", "store"}
NotInstalled == [component |-> "none", kind |-> "none", dispositions |-> {},
                 arch |-> "none", sha |-> [digest |-> "none", case |-> "lower"]]

ASSUME HostUpdateAssumption ==
    /\ Calls # {} /\ IsFiniteSet(Calls)
    /\ Chain \in Chains
    /\ LinkAttempts \in Nat \ {0} /\ Inodes \in Nat \ {0}
    /\ MaxUpdates \in Nat /\ MaxFaults \in Nat /\ MaxAbandons \in Nat /\ MaxLosses \in Nat /\ MaxTrouble \in Nat

VARIABLES
    transport, syncs,   \* native or shell; whether the host's sync works
    at, mayAt,          \* visible entries, and what may survive
    inode,              \* each inode's bytes, metadata and flush
    stmp, ltmp,         \* staged temporaries; link temporaries by attempt
    dir, policy,        \* the destination's directory, and who may write it
    call,               \* the scripts and system-call sequences under way
    step, caller,       \* where the caller is, and the call it waits for
    installed, journal, \* the caller's durable baseline and journal
    corrected,          \* the phase's CorrectionReport has an entry
    updates, faults, abandons, losses

disk == <<at, mayAt, inode, stmp, ltmp>>
host == <<transport, syncs, policy>>
counts == <<updates, faults, abandons, losses>>
Trouble == faults + abandons + losses < MaxTrouble
vars == <<host, disk, dir, call, step, caller, installed, journal, corrected, counts>>

Idle == [pc |-> "idle", op |-> "none", tgt |-> "dest", sha |-> "none", ino |-> None,
         k |-> 1, out |-> "none"]
NoJournal == [to |-> NotInstalled, open |-> FALSE, backup |-> FALSE, before |-> None]
Blank == [sha |-> "none", whole |-> FALSE, meta |-> "private", safe |-> FALSE]
Sound(sha) == [sha |-> sha, whole |-> TRUE, meta |-> "final", safe |-> TRUE]
-----------------------------------------------------------------------------
(* engine.rs: the artifact axis *)

\* Hex casing is the producer's, so a digest compares without it.
SameSha(a, b) == a.digest = b.digest

TupleDiffers(a, b) ==
    \/ a.component # b.component \/ a.kind # b.kind
    \/ a.dispositions # b.dispositions \/ a.arch # b.arch

\* diff_artifacts, for one path.
DiffArtifacts(old, new) ==
    CASE new = NotInstalled /\ old = NotInstalled -> "same"
      [] new = NotInstalled /\ old # NotInstalled -> "removed"
      [] new # NotInstalled /\ old = NotInstalled -> "added"
      [] OTHER -> IF ~SameSha(old.sha, new.sha) \/ TupleDiffers(old, new)
                  THEN "changed" ELSE "same"

\* is_noop: a removed artifact touches nothing.
IsNoop(diff) == diff \notin {"added", "changed"}

\* changed_install_artifacts and changed_stage_artifacts.
ChangedInstall(old, new) == ~IsNoop(DiffArtifacts(old, new)) /\ "install" \in new.dispositions
ChangedStage(old, new) == ~IsNoop(DiffArtifacts(old, new)) /\ "stage" \in new.dispositions
-----------------------------------------------------------------------------
(* The directory of a name, and what a flush settles *)

Beside(n) == IF n = "store" THEN {"store"} ELSE {"dest", "prev"}

Enter(n, e) ==
    /\ at' = [at EXCEPT ![n] = e]
    /\ mayAt' = [mayAt EXCEPT ![n] = @ \cup {e}]

Settle(n) ==
    mayAt' = [m \in Names |-> IF m \in Beside(n) THEN {at[m]} ELSE mayAt[m]]

InUse == (UNION {mayAt[n] : n \in Names}) \cup {stmp[c] : c \in Calls}
         \cup {call[c].ino : c \in Calls}
         \cup (UNION {{ltmp[c][k] : k \in 1..LinkAttempts} : c \in Calls})
         \cup {journal.before}
Free == Regular \ InUse

Goto(c, to) == call' = [call EXCEPT ![c].pc = to]

\* The sequence ends: its own temporaries are unlinked, natively where a step
\* fails and in the script by its EXIT trap.
Clean(c) ==
    /\ stmp' = [stmp EXCEPT ![c] = None]
    /\ ltmp' = [ltmp EXCEPT ![c] = IF call[c].op = "link" /\ call[c].pc \notin {"guard", "link"}
                                   THEN [ltmp[c] EXCEPT ![call[c].k] = None] ELSE ltmp[c]]

End(c, how) == call' = [call EXCEPT ![c].pc = "done", ![c].out = how]
-----------------------------------------------------------------------------
(* put_file_natively and PUT_FILE_SCRIPT *)

\* The script's guard on a directory, or a link to one, at the destination.
PutGuard(c) ==
    /\ call[c].op = "put" /\ call[c].pc = "guard"
    /\ IF transport = "shell" /\ at[call[c].tgt] \in {Dir, DLink}
       THEN End(c, "transfer") ELSE Goto(c, "stage")
    /\ UNCHANGED disk

\* The staging directory, and the owner's and group's numbers.
PutStage(c) ==
    /\ call[c].op = "put" /\ call[c].pc = "stage"
    /\ LET found == IF transport = "shell" THEN ScriptStagingDir(Chain) ELSE SelectStagingDir(Chain)
       IN IF found = 0 THEN End(c, "transfer") ELSE Goto(c, "create")
    /\ UNCHANGED disk

\* O_EXCL at mode 0600 under a name of its own.
PutCreate(c) ==
    /\ call[c].op = "put" /\ call[c].pc = "create" /\ Free # {}
    /\ LET i == First(Free)
       IN /\ inode' = [inode EXCEPT ![i] = Blank]
          /\ stmp' = [stmp EXCEPT ![c] = i]
          /\ call' = [call EXCEPT ![c].pc = "write", ![c].ino = i]
    /\ UNCHANGED <<at, mayAt, ltmp>>

PutWrite(c) ==
    /\ call[c].op = "put" /\ call[c].pc = "write"
    /\ inode' = [inode EXCEPT ![call[c].ino] =
                    [@ EXCEPT !.sha = call[c].sha, !.whole = TRUE]]
    /\ Goto(c, "meta")
    /\ UNCHANGED <<at, mayAt, stmp, ltmp>>

\* Owner, group and mode, before the file has its final name.
PutMeta(c) ==
    /\ call[c].op = "put" /\ call[c].pc = "meta"
    /\ inode' = [inode EXCEPT ![call[c].ino].meta = "final"]
    /\ Goto(c, "flush")
    /\ UNCHANGED <<at, mayAt, stmp, ltmp>>

\* Mutant: a file given its name before its bytes are flushed.
PutFlushSkipped(c) ==
    /\ call[c].op = "put" /\ call[c].pc = "flush"
    /\ Goto(c, "rename")
    /\ UNCHANGED disk

\* sync_all, or the script's flush, which only warns where no sync works.
PutFlush(c) ==
    /\ call[c].op = "put" /\ call[c].pc = "flush"
    /\ inode' = [inode EXCEPT ![call[c].ino].safe = syncs]
    /\ Goto(c, "rename")
    /\ UNCHANGED <<at, mayAt, stmp, ltmp>>

\* rename(2), or mv -T, which a directory at the destination refuses, and a
\* link to one too on some hosts.
PutRename(c) ==
    /\ call[c].op = "put" /\ call[c].pc = "rename"
    /\ \/ /\ at[call[c].tgt] # Dir
          /\ Enter(call[c].tgt, call[c].ino)
          /\ stmp' = [stmp EXCEPT ![c] = None]
          /\ Goto(c, "sync")
          /\ UNCHANGED ltmp
       \/ /\ \/ at[call[c].tgt] = Dir
             \/ at[call[c].tgt] = DLink /\ transport = "shell"
          /\ Clean(c) /\ End(c, "transfer")
          /\ UNCHANGED <<at, mayAt>>
    /\ UNCHANGED inode

\* Mutant: a rename whose directory is not flushed.
PutSyncSkipped(c) ==
    /\ call[c].op = "put" /\ call[c].pc = "sync"
    /\ IF transport = "shell" THEN Goto(c, "confirm") ELSE End(c, "ok")
    /\ UNCHANGED disk

\* The directory of the new entry.
PutSync(c) ==
    /\ call[c].op = "put" /\ call[c].pc = "sync"
    /\ IF syncs THEN Settle(call[c].tgt) ELSE UNCHANGED mayAt
    /\ IF transport = "shell" THEN Goto(c, "confirm") ELSE End(c, "ok")
    /\ UNCHANGED <<at, inode, stmp, ltmp>>

\* The script's last test: the destination is the inode just staged.
PutConfirm(c) ==
    /\ call[c].op = "put" /\ call[c].pc = "confirm"
    /\ End(c, IF at[call[c].tgt] = call[c].ino THEN "ok" ELSE "transfer")
    /\ UNCHANGED disk
-----------------------------------------------------------------------------
(* hard_link_over of dest to prev: hard_link_over_natively and              *)
(* LINK_ASIDE_SCRIPT                                                        *)

\* A regular file at the source; in the script also no directory at the
\* destination.
LinkGuard(c) ==
    /\ call[c].op = "link" /\ call[c].pc = "guard"
    /\ IF \/ at["dest"] \notin Regular
          \/ transport = "shell" /\ at["prev"] \in {Dir, DLink}
       THEN End(c, "transfer") ELSE Goto(c, "link")
    /\ UNCHANGED disk

\* Mutant: a name that is taken ends the call.
LinkAsideOnce(c) ==
    /\ call[c].op = "link" /\ call[c].pc = "link"
    /\ IF ltmp[c][1] # None
       THEN End(c, "transfer") /\ UNCHANGED ltmp
       ELSE /\ ltmp' = [ltmp EXCEPT ![c][1] = at["dest"]]
            /\ call' = [call EXCEPT ![c].pc = "rename", ![c].ino = at["dest"]]
    /\ UNCHANGED <<at, mayAt, inode, stmp>>

\* link(2) to the first candidate name that is free, never onto one that is
\* taken.
LinkAside(c) ==
    /\ call[c].op = "link" /\ call[c].pc = "link"
    /\ LET k == call[c].k
       IN \/ /\ ltmp[c][k] # None /\ k < LinkAttempts
             /\ call' = [call EXCEPT ![c].k = k + 1]
             /\ UNCHANGED ltmp
          \/ /\ ltmp[c][k] # None /\ k = LinkAttempts
             /\ End(c, "transfer")
             /\ UNCHANGED ltmp
          \/ /\ ltmp[c][k] = None
             /\ ltmp' = [ltmp EXCEPT ![c][k] = at["dest"]]
             /\ call' = [call EXCEPT ![c].pc = "rename", ![c].ino = at["dest"]]
    /\ UNCHANGED <<at, mayAt, inode, stmp>>

\* What was linked is checked again, then renamed over the destination; of
\* two names of one inode the rename is a no-op natively, and skipped by the
\* script.  Natively the temporary name is then removed either way.
LinkRename(c) ==
    /\ call[c].op = "link" /\ call[c].pc = "rename"
    /\ LET i == call[c].ino
           gone == [ltmp EXCEPT ![c][call[c].k] = None]
       IN \/ /\ i \in Regular /\ at["prev"] # Dir
             /\ IF at["prev"] = i THEN UNCHANGED <<at, mayAt>> ELSE Enter("prev", i)
             /\ ltmp' = IF at["prev"] = i /\ transport = "shell" THEN ltmp ELSE gone
             /\ Goto(c, "sync")
          \/ /\ i \notin Regular \/ at["prev"] = Dir \/ (at["prev"] = DLink /\ transport = "shell")
             /\ ltmp' = gone
             /\ End(c, "transfer")
             /\ UNCHANGED <<at, mayAt>>
    /\ UNCHANGED <<inode, stmp>>

\* Mutant: a backup whose directory is not flushed.
LinkSyncSkipped(c) ==
    /\ call[c].op = "link" /\ call[c].pc = "sync"
    /\ IF transport = "shell" THEN Goto(c, "confirm") ELSE End(c, "ok")
    /\ UNCHANGED disk

\* The flush of the directory is part of the promise: a host without a
\* working sync fails here.
LinkSync(c) ==
    /\ call[c].op = "link" /\ call[c].pc = "sync"
    /\ IF syncs
       THEN /\ Settle("prev") /\ UNCHANGED <<stmp, ltmp>>
            /\ IF transport = "shell" THEN Goto(c, "confirm") ELSE End(c, "ok")
       ELSE Clean(c) /\ End(c, "transfer") /\ UNCHANGED mayAt
    /\ UNCHANGED <<at, inode>>

LinkConfirm(c) ==
    /\ call[c].op = "link" /\ call[c].pc = "confirm"
    /\ End(c, IF at["prev"] = call[c].ino THEN "ok" ELSE "transfer")
    /\ Clean(c)
    /\ UNCHANGED <<at, mayAt, inode>>
-----------------------------------------------------------------------------
CallStep(c) ==
    /\ \/ PutGuard(c) \/ PutStage(c) \/ PutCreate(c) \/ PutWrite(c) \/ PutMeta(c)
       \/ PutFlush(c) \/ PutRename(c) \/ PutSync(c) \/ PutConfirm(c)
       \/ LinkGuard(c) \/ LinkAside(c) \/ LinkRename(c) \/ LinkSync(c) \/ LinkConfirm(c)
    /\ UNCHANGED <<host, dir, step, caller, installed, journal, corrected, counts>>

Running(c) == call[c].pc \notin {"idle", "done"}

\* A command of the sequence fails, or the script is ended by a signal its
\* trap catches.
CallFault(c) ==
    /\ Running(c) /\ faults < MaxFaults /\ Trouble
    /\ faults' = faults + 1
    /\ Clean(c) /\ End(c, "transfer")
    /\ UNCHANGED <<host, at, mayAt, inode, dir, step, caller, installed, journal, corrected,
                   updates, abandons, losses>>

\* The script is ended by SIGKILL: its temporaries stay.
CallKilled(c) ==
    /\ Running(c) /\ faults < MaxFaults /\ Trouble /\ transport = "shell"
    /\ faults' = faults + 1
    /\ End(c, "transfer")
    /\ UNCHANGED <<host, disk, dir, step, caller, installed, journal, corrected, updates,
                   abandons, losses>>
-----------------------------------------------------------------------------
(* The caller, and apply.rs *)

Start(op, tgt, next) ==
    /\ \E c \in Calls : call[c].pc = "idle"
    /\ LET c == CHOOSE c \in Calls : call[c].pc = "idle"
       IN /\ call' = [call EXCEPT ![c] = [Idle EXCEPT !.pc = "guard", !.op = op, !.tgt = tgt,
                                                      !.sha = journal.to.sha.digest]]
          /\ caller' = {c}
    /\ step' = next

\* The answer of the call the caller waits for; an error ends the phase.
Answer(next) ==
    \E c \in caller :
        /\ call[c].pc = "done"
        /\ step' = IF call[c].out = "ok" THEN next ELSE "idle"
        /\ call' = [call EXCEPT ![c] = Idle]
        /\ caller' = {}

\* An update is opened on a diff that is not a no-op, or resumed.  Inodes
\* with no name left are the host's again.
Begin(r) ==
    /\ step = "idle"
    /\ \/ /\ ~journal.open /\ updates < MaxUpdates
          /\ updates' = updates + 1
          /\ ~IsNoop(DiffArtifacts(installed, Manifest[r]))
          /\ journal' = [to |-> Manifest[r], open |-> TRUE, backup |-> FALSE,
                         before |-> at["dest"]]
       \/ journal.open /\ journal.to = Manifest[r] /\ UNCHANGED <<journal, updates>>
    /\ step' = "plan"
    /\ corrected' = FALSE
    /\ inode' = [i \in Regular |-> IF i \in Free THEN Blank ELSE inode[i]]
    /\ UNCHANGED <<host, at, mayAt, stmp, ltmp, dir, call, caller, installed,
                   faults, abandons, losses>>

Plan ==
    /\ step = "plan"
    /\ step' = IF ChangedInstall(installed, journal.to)
               THEN IF journal.backup THEN "mkdir" ELSE "probe"
               ELSE "stage"
    /\ UNCHANGED <<host, disk, dir, call, caller, installed, journal, corrected, counts>>

\* backup_previous_artifact: entry_present sees a dangling link too; nothing
\* there means nothing to preserve.
Backup ==
    /\ step = "probe"
    /\ IF at["dest"] = None
       THEN /\ step' = "mkdir"
            /\ journal' = [journal EXCEPT !.backup = TRUE]
            /\ UNCHANGED <<call, caller>>
       ELSE Start("link", "prev", "backup") /\ UNCHANGED journal
    /\ UNCHANGED <<host, disk, dir, installed, corrected, counts>>

BackupAnswer ==
    /\ step = "backup"
    /\ Answer("mkdir")
    /\ journal' = [journal EXCEPT !.backup = (step' = "mkdir")]
    /\ UNCHANGED <<host, disk, dir, installed, corrected, counts>>

\* make_dir of the parent: created, matched, corrected where only root can
\* write, and a mismatch where a service can.
MakeDir ==
    /\ step = "mkdir"
    /\ IF dir = "wrong" /\ policy = "verify"
       THEN step' = "idle" /\ UNCHANGED <<dir, corrected>>
       ELSE /\ step' = "place"
            /\ dir' = "right"
            /\ corrected' = (corrected \/ dir = "wrong")
    /\ UNCHANGED <<host, disk, call, caller, installed, journal, counts>>

Place ==
    /\ step = "place"
    /\ Start("put", "dest", "placing")
    /\ UNCHANGED <<host, disk, dir, installed, journal, corrected, counts>>

PlaceAnswer ==
    /\ step = "placing"
    /\ Answer("stage")
    /\ UNCHANGED <<host, disk, dir, installed, journal, corrected, counts>>

\* The copy in the module store, for a stage disposition.
Stage ==
    /\ step = "stage"
    /\ IF ChangedStage(installed, journal.to)
       THEN Start("put", "store", "staging")
       ELSE step' = "record" /\ UNCHANGED <<call, caller>>
    /\ UNCHANGED <<host, disk, dir, installed, journal, corrected, counts>>

StageAnswer ==
    /\ step = "staging"
    /\ Answer("record")
    /\ UNCHANGED <<host, disk, dir, installed, journal, corrected, counts>>

Record ==
    /\ step = "record"
    /\ installed' = journal.to
    /\ journal' = NoJournal
    /\ step' = "idle"
    /\ UNCHANGED <<host, disk, dir, call, caller, corrected, counts>>

\* The caller is killed, or loses its connection, at any point: a native
\* sequence ends with it where it is, a script runs on.
Abandon ==
    /\ step # "idle" /\ abandons < MaxAbandons /\ Trouble
    /\ abandons' = abandons + 1
    /\ step' = "idle" /\ caller' = {}
    /\ call' = IF transport = "native" THEN [c \in Calls |-> Idle] ELSE call
    /\ UNCHANGED <<host, disk, dir, installed, journal, corrected, updates, faults, losses>>

\* A script nobody waits for any more has ended.
Reap(c) ==
    /\ call[c].pc = "done" /\ c \notin caller
    /\ call' = [call EXCEPT ![c] = Idle]
    /\ UNCHANGED <<host, disk, dir, step, caller, installed, journal, corrected, counts>>

\* Every name comes back as one of the entries it may hold, every inode not
\* flushed may be torn, and a temporary may be gone.
PowerLoss ==
    /\ losses < MaxLosses /\ Trouble
    /\ losses' = losses + 1
    /\ \E survive \in {f \in [Names -> UNION {mayAt[n] : n \in Names}] :
                        \A n \in Names : f[n] \in mayAt[n]} :
          at' = survive /\ mayAt' = [n \in Names |-> {survive[n]}]
    /\ \E torn \in SUBSET {i \in Regular : ~inode[i].safe} :
          inode' = [i \in Regular |-> IF i \in torn THEN Blank ELSE inode[i]]
    /\ stmp' = [c \in Calls |-> None]
    /\ \E keep \in BOOLEAN :
          ltmp' = [c \in Calls |-> [k \in 1..LinkAttempts |-> IF keep THEN ltmp[c][k] ELSE None]]
    /\ call' = [c \in Calls |-> Idle]
    /\ step' = "idle" /\ caller' = {}
    /\ UNCHANGED <<host, dir, installed, journal, corrected, updates, faults, abandons>>
-----------------------------------------------------------------------------
\* A host before any update: a release whose artifact is in place, or nothing
\* installed and nothing, or something other than a file, where it goes.
Init ==
    /\ \/ transport = "native" /\ syncs = TRUE
       \/ transport = "shell" /\ syncs \in BOOLEAN
    /\ \E d \in {None, 1, Link, DLink, Dir}, p \in {None, 2, Dir} :
          /\ p # None => d = 1
          /\ at = [n \in Names |-> CASE n = "dest" -> d [] n = "prev" -> p [] OTHER -> None]
          /\ dir \in IF d = None THEN {"absent", "wrong", "right"} ELSE {"right"}
          /\ installed \in IF d # 1 THEN {NotInstalled}
                           ELSE {m \in {Manifest[r] : r \in Releases} : "install" \in m.dispositions}
    /\ policy \in IF dir = "wrong" THEN {"correct", "verify"} ELSE {"verify"}
    /\ mayAt = [n \in Names |-> {at[n]}]
    /\ inode = [i \in Regular |-> CASE i = 1 -> Sound(IF installed = NotInstalled THEN "none"
                                                     ELSE installed.sha.digest)
                                    [] i = 2 -> Sound("older") [] OTHER -> Blank]
    /\ stmp = [c \in Calls |-> None]
    /\ ltmp = [c \in Calls |-> [k \in 1..LinkAttempts |-> None]]
    /\ call = [c \in Calls |-> Idle]
    /\ step = "idle" /\ caller = {} /\ journal = NoJournal /\ corrected = FALSE
    /\ updates = 0 /\ faults = 0 /\ abandons = 0 /\ losses = 0

CallerStep ==
    \/ \E r \in Releases : Begin(r)
    \/ Plan \/ Backup \/ BackupAnswer \/ MakeDir \/ Place \/ PlaceAnswer
    \/ Stage \/ StageAnswer \/ Record

Next ==
    \/ \E c \in Calls : CallStep(c) \/ CallFault(c) \/ CallKilled(c) \/ Reap(c)
    \/ CallerStep \/ Abandon \/ PowerLoss

Spec == Init /\ [][Next]_vars

\* A sequence under way runs to its end, and the caller resumes what its
\* journal holds open.
Fairness ==
    /\ \A c \in Calls : WF_vars(CallStep(c)) /\ WF_vars(Reap(c))
    /\ WF_vars(CallerStep)

FairSpec == Spec /\ Fairness
-----------------------------------------------------------------------------
\* A script may still be running that its caller gave up on.
Loose == transport = "shell" /\ abandons > 0

\* Whatever stands, or may stand after a power loss, under one of the names
\* is a whole file with the owner and mode asked for, through every fault,
\* kill and overlap of scripts; a host without a working sync loses this at
\* its first power loss (put_file, PUT_FILE_SCRIPT).
NeverTorn ==
    (syncs \/ losses = 0) =>
        \A n \in Names : \A e \in mayAt[n] \cap Regular :
            inode[e].whole /\ inode[e].meta = "final"

\* From the record that the backup was taken until the update is recorded,
\* ".previous" is the artifact the update found in place, whatever failed
\* and however often the update was resumed; a host without a working sync
\* loses this with the artifact itself (backup_previous_artifact).
RollbackPoint ==
    (/\ journal.open /\ journal.backup /\ journal.before \in Regular
     /\ ~Loose /\ (syncs \/ losses = 0)) =>
        mayAt["prev"] = {journal.before}

\* The recorded baseline is what the next diff is made against, so a host
\* that recorded a release has its artifact in place for good (diff_artifacts,
\* put_file).
BaselineOnDisk ==
    (~journal.open /\ "install" \in installed.dispositions /\ syncs /\ ~Loose) =>
        \A e \in mayAt["dest"] :
            e \in Regular /\ inode[e].whole /\ inode[e].sha = installed.sha.digest

\* What an update needs of its host: nothing but files where it places files,
\* a directory it may set, and a link candidate that no earlier try left
\* taken.
Able ==
    /\ syncs /\ SelectStagingDir(Chain) # 0 /\ ScriptStagingDir(Chain) # 0
    /\ at["dest"] \in Regular \cup {None} /\ at["prev"] \in Regular \cup {None}
    /\ ~(dir = "wrong" /\ policy = "verify")
    /\ \A c \in Calls : \E k \in 1..LinkAttempts :
          ltmp[c][k] = None \/ (Running(c) /\ call[c].op = "link" /\ call[c].k = k)

\* An update that was opened is completed, over every leftover of the tries
\* before, as long as its host allows it (place_file,
\* backup_previous_artifact).
UpdateCompletes == journal.open ~> (~journal.open \/ ~Able)
=============================================================================
