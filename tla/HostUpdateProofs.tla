-------------------------- MODULE HostUpdateProofs --------------------------
(***************************************************************************)
(* Proofs, for any chain of directories, any releases, any number of       *)
(* scripts running at once and any bounds, of what an update keeps on a    *)
(* host: both transports stage in the same directory and a safe one, no    *)
(* name ever holds a torn file, the rollback point stands, and a recorded  *)
(* release is on the disk.                                                 *)
(***************************************************************************)
EXTENDS HostUpdate, WellFoundedInduction, TLAPS

\* A set of naturals that is not empty has a first element.
LEMMA FirstIsLeast ==
  ASSUME NEW S \in SUBSET Nat, S # {}
  PROVE  First(S) \in S /\ \A j \in S : First(S) <= j
  <1> DEFINE R == {p \in Nat \X Nat : p[1] < p[2]}
  <1>1. IsWellFoundedOn(R, Nat)
    BY NatLessThanWellFounded DEF OpToRel
  <1>2. PICK i \in S : \A j \in S : <<j, i>> \notin R
    BY <1>1, WFMin
  <1>3. \A j \in S : ~(j < i)
    BY <1>2
  <1>4. \A j \in S : i <= j
    BY <1>3
  <1> QED BY <1>4 DEF First
-----------------------------------------------------------------------------
(* The staging directory *)

\* Of every destination that is not directly in the root, the shell's walk
\* and the process's choose the same directory (select_staging_dir,
\* PUT_FILE_SCRIPT).
THEOREM WalksAgree == \A chain \in Chains : TransportsAgree(chain)
  <1> SUFFICES ASSUME NEW chain \in Chains, Len(chain) > 1
               PROVE  ScriptStagingDir(chain) = SelectStagingDir(chain)
    BY DEF TransportsAgree
  <1> DEFINE walk == 2..Len(chain)
             leaves == {i \in walk : chain[i].readable /\ chain[i].dev # chain[1].dev}
             passes == {i \in walk : chain[i].readable /\ WriterOnly(chain[i])}
             found == {i \in passes : \A j \in leaves : i < j}
             stops == {i \in walk : /\ chain[i].readable
                                    /\ chain[i].dev # chain[1].dev \/ WriterOnly(chain[i])}
             fallback == /\ chain[2].owner \in {"root", "writer"} /\ ~chain[2].shared
                         /\ WriterOnly(chain[1])
  <1>0. Len(chain) \in Nat /\ Len(chain) # 1 /\ 2 \in walk
    BY DEF Chains
  <1>1. /\ walk \subseteq Nat /\ leaves \subseteq stops /\ found \subseteq stops /\ stops \subseteq Nat
        /\ stops = leaves \cup passes /\ leaves \subseteq walk
    BY <1>0
  <1>2. ScriptStagingDir(chain) =
          IF ~chain[1].readable THEN 0
          ELSE IF found # {} THEN First(found)
          ELSE IF chain[2].readable /\ chain[2].dev # chain[1].dev /\ fallback THEN 1 ELSE 0
    BY <1>0 DEF ScriptStagingDir
  <1>3. SelectStagingDir(chain) =
          IF ~chain[1].readable \/ stops = {} THEN 0
          ELSE IF chain[First(stops)].dev # chain[1].dev
               THEN IF First(stops) = 2 /\ fallback THEN 1 ELSE 0
               ELSE First(stops)
    BY DEF SelectStagingDir, MountPointFallback
  <1>4. CASE stops = {}
    <2>1. found = {} /\ 2 \notin leaves
      BY <1>1, <1>4
    <2>2. ~(chain[2].readable /\ chain[2].dev # chain[1].dev)
      BY <1>0, <2>1
    <2> QED BY <1>2, <1>3, <1>4, <2>1, <2>2
  <1>5. CASE stops # {}
    <2> DEFINE s == First(stops)
    <2>1. s \in stops /\ \A j \in stops : s <= j
      BY <1>1, <1>5, FirstIsLeast
    <2> HIDE DEF s
    <2>2. CASE chain[s].dev # chain[1].dev
      <3>1. s \in leaves
        BY <2>1, <2>2
      <3>2. found = {}
        BY <1>1, <2>1, <3>1
      <3>3. chain[2].readable /\ chain[2].dev # chain[1].dev <=> s = 2
        BY <1>0, <2>1, <2>2
      <3> QED BY <1>2, <1>3, <1>5, <2>2, <3>2, <3>3 DEF s
    <2>3. CASE chain[s].dev = chain[1].dev
      <3>1. s \in passes /\ \A j \in leaves : s < j
        <4>1. s \in passes /\ s \notin leaves
          BY <2>1, <2>3
        <4> QED BY <1>1, <2>1, <4>1
      <3>2. s \in found /\ \A j \in found : s <= j
        BY <1>1, <2>1, <3>1
      <3>3. First(found) \in found /\ \A j \in found : First(found) <= j
        BY <1>1, <3>2, FirstIsLeast
      <3>4. First(found) = s
        BY <1>1, <3>2, <3>3
      <3>5. found # {}
        BY <3>2
      <3> QED BY <1>2, <1>3, <1>5, <2>3, <3>4, <3>5 DEF s
    <2> QED BY <2>2, <2>3
  <1> QED BY <1>4, <1>5

\* Whatever the directories are, the one chosen is on the destination's
\* filesystem and only the writer can write it, and the destination's own is
\* chosen only at the top of a filesystem under a parent that nobody else can
\* write (select_staging_dir, mount_point_fallback).
THEOREM StagingSafety == \A chain \in Chains : StagingIsSafe(chain)
  <1> SUFFICES ASSUME NEW chain \in Chains, SelectStagingDir(chain) # 0
               PROVE  LET i == SelectStagingDir(chain)
                      IN /\ chain[i].dev = chain[1].dev /\ chain[i].readable /\ WriterOnly(chain[i])
                         /\ i = 1 => chain[2].dev # chain[1].dev /\ ~chain[2].shared
                         /\ \A j \in 2..(i - 1) : chain[j].readable => chain[j].dev = chain[1].dev
    BY DEF StagingIsSafe
  <1> DEFINE stops == {i \in 2..Len(chain) : /\ chain[i].readable
                                             /\ chain[i].dev # chain[1].dev \/ WriterOnly(chain[i])}
             s == First(stops)
             fallback == /\ chain[2].owner \in {"root", "writer"} /\ ~chain[2].shared
                         /\ WriterOnly(chain[1])
  <1>1. SelectStagingDir(chain) =
          IF ~chain[1].readable \/ stops = {} THEN 0
          ELSE IF chain[s].dev # chain[1].dev
               THEN IF s = 2 /\ fallback THEN 1 ELSE 0
               ELSE s
    BY DEF SelectStagingDir, MountPointFallback
  <1>2. stops # {} /\ chain[1].readable /\ Len(chain) \in Nat /\ stops \subseteq Nat
    BY <1>1 DEF Chains
  <1>3. s \in stops /\ \A j \in stops : s <= j
    BY <1>2, FirstIsLeast
  <1> HIDE DEF s
  <1>4. CASE chain[s].dev # chain[1].dev
    <2>1. SelectStagingDir(chain) = 1 /\ s = 2 /\ fallback
      BY <1>1, <1>2, <1>4
    <2> QED BY <1>2, <1>3, <1>4, <2>1
  <1>5. CASE chain[s].dev = chain[1].dev
    <2>1. SelectStagingDir(chain) = s /\ s # 1
      BY <1>1, <1>2, <1>3, <1>5
    <2>2. ASSUME NEW j \in 2..(s - 1), chain[j].readable PROVE chain[j].dev = chain[1].dev
      BY <1>2, <1>3, <2>2
    <2> QED BY <1>3, <1>5, <2>1, <2>2
  <1> QED BY <1>4, <1>5
-----------------------------------------------------------------------------
(* Types *)

Tuples == {Manifest[r] : r \in Releases} \cup {NotInstalled}
Shas == {m.sha.digest : m \in Tuples} \cup {"older"}
InodeRecords ==
    [sha : Shas, whole : BOOLEAN, meta : {"private", "final"}, safe : BOOLEAN]
CallRecords ==
    [pc : {"idle", "guard", "stage", "create", "write", "meta", "flush", "link", "rename", "sync",
           "confirm", "done"},
     op : {"none", "put", "link"}, tgt : Names, sha : Shas, ino : Int, k : 1..LinkAttempts,
     out : {"none", "ok", "transfer"}]
Waiting == {"backup", "placing", "staging"}
Steps == {"idle", "plan", "probe", "mkdir", "place", "stage", "record"} \cup Waiting

DiskOK ==
    /\ at \in [Names -> Int] /\ mayAt \in [Names -> SUBSET Int]
    /\ \A n \in Names : at[n] \in mayAt[n]
    /\ inode \in [Regular -> InodeRecords]
    /\ stmp \in [Calls -> Int] /\ ltmp \in [Calls -> [1..LinkAttempts -> Int]]
CallerOK ==
    /\ step \in Steps /\ caller \in SUBSET Calls
    /\ installed \in Tuples
    /\ journal \in [to : Tuples, open : BOOLEAN, backup : BOOLEAN, before : Int]
    /\ abandons \in Nat /\ losses \in Nat
Types ==
    /\ transport \in {"native", "shell"} /\ syncs \in BOOLEAN
    /\ DiskOK /\ call \in [Calls -> CallRecords] /\ CallerOK

\* The digests that are written are digests.
LEMMA KnownShas == {"none", "older"} \subseteq Shas /\ \A m \in Tuples : m.sha.digest \in Shas
  <1>1. NotInstalled.sha.digest = "none"
    BY DEF NotInstalled
  <1> QED BY <1>1 DEF Shas, Tuples

\* The values a call and a file start from are typed.
LEMMA RestIsTyped ==
    /\ Idle \in CallRecords /\ Idle.pc = "idle" /\ Blank \in InodeRecords
    /\ \A sha \in Shas : Sound(sha) \in InodeRecords
    /\ NoJournal \in [to : Tuples, open : BOOLEAN, backup : BOOLEAN, before : Int]
  <1>1. "dest" \in Names /\ 1 \in 1..LinkAttempts /\ None \in Int
    BY HostUpdateAssumption DEF Names, None
  <1> QED BY <1>1, KnownShas
     DEF Idle, CallRecords, Blank, InodeRecords, Sound, NoJournal, Tuples, None

\* Types hold at the start.
LEMMA InitTypes == Init => Types
  <1> SUFFICES ASSUME Init PROVE Types
    OBVIOUS
  <1>1. PICK d \in {None, 1, Link, DLink, Dir}, p \in {None, 2, Dir} :
           /\ at = [n \in Names |-> CASE n = "dest" -> d [] n = "prev" -> p [] OTHER -> None]
           /\ installed \in IF d # 1 THEN {NotInstalled}
                            ELSE {m \in {Manifest[r] : r \in Releases} : "install" \in m.dispositions}
    BY DEF Init
  <1>2. at \in [Names -> Int]
    BY <1>1 DEF None, Link, DLink, Dir
  <1>3. installed \in Tuples
    BY <1>1 DEF Tuples
  <1>4. mayAt \in [Names -> SUBSET Int] /\ \A n \in Names : at[n] \in mayAt[n]
    BY <1>2 DEF Init
  <1>5. inode \in [Regular -> InodeRecords]
    <2> DEFINE s == IF installed = NotInstalled THEN "none" ELSE installed.sha.digest
    <2>1. s \in Shas
      BY <1>3, KnownShas
    <2>2. inode = [i \in Regular |-> CASE i = 1 -> Sound(s) [] i = 2 -> Sound("older") [] OTHER -> Blank]
      BY DEF Init
    <2> HIDE DEF s
    <2>3. Sound(s) \in InodeRecords /\ Sound("older") \in InodeRecords /\ Blank \in InodeRecords
      BY <2>1, KnownShas, RestIsTyped
    <2> QED BY <2>2, <2>3
  <1>6. DiskOK
    BY <1>2, <1>4, <1>5 DEF Init, DiskOK, None
  <1>7. CallerOK
    BY <1>3, RestIsTyped DEF Init, CallerOK, Steps
  <1> QED BY <1>6, <1>7, RestIsTyped DEF Init, Types

\* The entries of one name change, or a flush settles some.
LEMMA EnterTypes ==
  ASSUME DiskOK, NEW n \in Names, NEW e \in Int, Enter(n, e)
  PROVE  /\ at' \in [Names -> Int] /\ mayAt' \in [Names -> SUBSET Int]
         /\ \A m \in Names : at'[m] \in mayAt'[m]
  BY DEF DiskOK, Enter

\* A name that is flushed may hold only what it holds.
LEMMA SettleTypes ==
  ASSUME DiskOK, NEW n \in Names, Settle(n), UNCHANGED at
  PROVE  /\ mayAt' \in [Names -> SUBSET Int] /\ \A m \in Names : at'[m] \in mayAt'[m]
  BY DEF DiskOK, Settle

\* A sequence goes on, ends, and cleans up after itself.
LEMMA GotoTypes ==
  ASSUME Types, NEW c \in Calls,
         NEW to \in {"guard", "stage", "create", "write", "meta", "flush", "link", "rename", "sync",
                     "confirm"},
         Goto(c, to)
  PROVE  /\ call' \in [Calls -> CallRecords] /\ call'[c].pc = to
         /\ call'[c] = [call[c] EXCEPT !.pc = to]
         /\ \A d \in Calls : d # c => call'[d] = call[d]
  BY DEF Goto, Types, CallRecords

\* A call that ends keeps its types and its operands.
LEMMA EndTypes ==
  ASSUME Types, NEW c \in Calls, NEW how \in {"ok", "transfer"}, End(c, how)
  PROVE  /\ call' \in [Calls -> CallRecords] /\ call'[c].pc = "done" /\ call'[c].out = how
         /\ call'[c].op = call[c].op /\ call'[c].tgt = call[c].tgt /\ call'[c].sha = call[c].sha
         /\ call'[c].ino = call[c].ino
         /\ \A d \in Calls : d # c => call'[d] = call[d]
  <1> DEFINE k == [call[c] EXCEPT !.pc = "done", !.out = how]
  <1>1. call[c] \in CallRecords
    BY DEF Types
  <1>2. k \in CallRecords
    BY <1>1 DEF CallRecords
  <1>3. /\ k.pc = "done" /\ k.out = how /\ k.op = call[c].op /\ k.tgt = call[c].tgt
        /\ k.sha = call[c].sha /\ k.ino = call[c].ino
    BY <1>1 DEF CallRecords
  <1>4. call' = [call EXCEPT ![c] = k]
    BY DEF End, Types
  <1> HIDE DEF k
  <1> QED BY <1>2, <1>3, <1>4 DEF Types

\* The scripts' trap removes temporary files and nothing else.
LEMMA CleanTypes ==
  ASSUME Types, NEW c \in Calls, Clean(c)
  PROVE  stmp' \in [Calls -> Int] /\ ltmp' \in [Calls -> [1..LinkAttempts -> Int]]
  BY DEF Clean, Types, DiskOK, CallRecords, None

\* The names a link loop tries are typed.
LEMMA AsideTypes ==
  ASSUME DiskOK, NEW c \in Calls, NEW k \in 1..LinkAttempts, NEW e \in Int
  PROVE  [ltmp EXCEPT ![c][k] = e] \in [Calls -> [1..LinkAttempts -> Int]]
  <1>1. ltmp \in [Calls -> [1..LinkAttempts -> Int]]
    BY DEF DiskOK
  <1>2. [ltmp[c] EXCEPT ![k] = e] \in [1..LinkAttempts -> Int]
    BY <1>1
  <1>3. [ltmp EXCEPT ![c][k] = e] = [ltmp EXCEPT ![c] = [ltmp[c] EXCEPT ![k] = e]]
    BY <1>1
  <1> QED BY <1>1, <1>2, <1>3

\* Which inode a new file gets.
LEMMA FreeInode == ASSUME Free # {} PROVE First(Free) \in Free /\ First(Free) \in Regular
  <1>1. Free \in SUBSET Nat
    BY HostUpdateAssumption DEF Free, Regular
  <1> QED BY <1>1, FirstIsLeast DEF Free

\* Every step of a script keeps the types.
LEMMA CallStepTypes ==
  ASSUME Types, NEW c \in Calls, CallStep(c)
  PROVE  Types'
  <1>0. /\ DiskOK /\ call[c] \in CallRecords /\ call[c].tgt \in Names /\ call[c].ino \in Int
        /\ syncs \in BOOLEAN /\ {"dest", "prev"} \subseteq Names
    BY DEF Types, CallRecords, Names
  <1>1. SUFFICES DiskOK' /\ call' \in [Calls -> CallRecords]
    <2>1. UNCHANGED <<transport, syncs, step, caller, installed, journal, abandons, losses>>
      BY DEF CallStep, host, counts
    <2>2. CallerOK'
      BY <2>1 DEF Types, CallerOK
    <2> QED BY <1>1, <2>1, <2>2 DEF Types
  <1>2. ASSUME UNCHANGED disk PROVE DiskOK'
    BY <1>0, <1>2 DEF DiskOK, disk
  <1>3. CASE PutGuard(c)
    BY <1>2, <1>3, EndTypes, GotoTypes DEF PutGuard
  <1>4. CASE PutStage(c)
    BY <1>2, <1>4, EndTypes, GotoTypes DEF PutStage
  <1>5. CASE PutCreate(c)
    <2> DEFINE i == First(Free)
    <2>1. i \in Regular /\ i \in Int
      BY <1>5, FreeInode, HostUpdateAssumption DEF PutCreate, Regular
    <2>2. /\ inode' = [inode EXCEPT ![i] = Blank] /\ stmp' = [stmp EXCEPT ![c] = i]
          /\ call' = [call EXCEPT ![c].pc = "write", ![c].ino = i] /\ UNCHANGED <<at, mayAt, ltmp>>
      BY <1>5 DEF PutCreate
    <2> HIDE DEF i
    <2>3. DiskOK'
      BY <1>0, <2>1, <2>2, RestIsTyped DEF DiskOK
    <2>4. [call[c] EXCEPT !.pc = "write", !.ino = i] \in CallRecords
      BY <1>0, <2>1 DEF CallRecords
    <2>5. call' = [call EXCEPT ![c] = [call[c] EXCEPT !.pc = "write", !.ino = i]]
      BY <2>2 DEF Types
    <2>6. call' \in [Calls -> CallRecords]
      BY <2>4, <2>5 DEF Types
    <2> QED BY <2>3, <2>6
  <1>6. CASE PutWrite(c)
    <2>1. call' \in [Calls -> CallRecords]
      BY <1>6, GotoTypes DEF PutWrite
    <2>2. inode' \in [Regular -> InodeRecords]
      <3>1. call[c].sha \in Shas
        BY <1>0 DEF CallRecords
      <3> QED BY <1>0, <1>6, <3>1 DEF PutWrite, DiskOK, InodeRecords
    <2> QED BY <1>0, <1>6, <2>1, <2>2 DEF PutWrite, DiskOK
  <1>7. CASE PutMeta(c)
    <2>1. call' \in [Calls -> CallRecords]
      BY <1>7, GotoTypes DEF PutMeta
    <2>2. inode' \in [Regular -> InodeRecords]
      BY <1>0, <1>7 DEF PutMeta, DiskOK, InodeRecords
    <2> QED BY <1>0, <1>7, <2>1, <2>2 DEF PutMeta, DiskOK
  <1>8. CASE PutFlush(c)
    <2>1. call' \in [Calls -> CallRecords]
      BY <1>8, GotoTypes DEF PutFlush
    <2>2. inode' \in [Regular -> InodeRecords]
      BY <1>0, <1>8 DEF PutFlush, DiskOK, InodeRecords
    <2> QED BY <1>0, <1>8, <2>1, <2>2 DEF PutFlush, DiskOK
  <1>9. CASE PutRename(c)
    <2>1. CASE /\ Enter(call[c].tgt, call[c].ino) /\ stmp' = [stmp EXCEPT ![c] = None]
               /\ Goto(c, "sync") /\ UNCHANGED ltmp
      <3>1. stmp' \in [Calls -> Int]
        BY <1>0, <2>1 DEF DiskOK, None
      <3> QED BY <1>0, <1>9, <2>1, <3>1, EnterTypes, GotoTypes DEF PutRename, DiskOK
    <2>2. CASE Clean(c) /\ End(c, "transfer") /\ UNCHANGED <<at, mayAt>>
      BY <1>0, <1>9, <2>2, CleanTypes, EndTypes DEF PutRename, DiskOK
    <2> QED BY <1>9, <2>1, <2>2 DEF PutRename
  <1>10. CASE PutSync(c)
    <2>1. call' \in [Calls -> CallRecords]
      BY <1>10, GotoTypes, EndTypes DEF PutSync
    <2>2. UNCHANGED at /\ (Settle(call[c].tgt) \/ UNCHANGED mayAt)
      BY <1>10 DEF PutSync
    <2>3. mayAt' \in [Names -> SUBSET Int] /\ \A m \in Names : at'[m] \in mayAt'[m]
      BY <1>0, <2>2, SettleTypes DEF DiskOK
    <2> QED BY <1>0, <1>10, <2>1, <2>3 DEF PutSync, DiskOK
  <1>11. CASE PutConfirm(c)
    BY <1>2, <1>11, EndTypes DEF PutConfirm
  <1>12. CASE LinkGuard(c)
    BY <1>2, <1>12, EndTypes, GotoTypes DEF LinkGuard
  <1>13. CASE LinkAside(c)
    <2>0. at["dest"] \in Int /\ call[c].k \in 1..LinkAttempts
      BY <1>0 DEF DiskOK, CallRecords
    <2>1. ltmp' \in [Calls -> [1..LinkAttempts -> Int]]
      <3>1. UNCHANGED ltmp \/ ltmp' = [ltmp EXCEPT ![c][call[c].k] = at["dest"]]
        BY <1>13 DEF LinkAside
      <3>2. [ltmp EXCEPT ![c][call[c].k] = at["dest"]] \in [Calls -> [1..LinkAttempts -> Int]]
        BY <1>0, <2>0, AsideTypes, Zenon
      <3> QED BY <1>0, <3>1, <3>2, Zenon DEF DiskOK
    <2>2. call' \in [Calls -> CallRecords]
      <3>1. CASE call' = [call EXCEPT ![c].k = call[c].k + 1] /\ call[c].k < LinkAttempts
        <4>1. call[c].k + 1 \in 1..LinkAttempts
          BY <2>0, <3>1, HostUpdateAssumption
        <4> QED BY <3>1, <4>1 DEF Types, CallRecords
      <3>2. CASE call' = [call EXCEPT ![c].pc = "rename", ![c].ino = at["dest"]]
        <4>1. [call[c] EXCEPT !.pc = "rename", !.ino = at["dest"]] \in CallRecords
          BY <1>0, <2>0 DEF CallRecords
        <4>2. call' = [call EXCEPT ![c] = [call[c] EXCEPT !.pc = "rename", !.ino = at["dest"]]]
          BY <3>2 DEF Types
        <4> QED BY <4>1, <4>2 DEF Types
      <3> QED BY <1>13, <3>1, <3>2, EndTypes DEF LinkAside
    <2> QED BY <1>0, <1>13, <2>1, <2>2 DEF LinkAside, DiskOK
  <1>14. CASE LinkRename(c)
    <2>1. call' \in [Calls -> CallRecords]
      BY <1>14, GotoTypes, EndTypes DEF LinkRename
    <2>2. UNCHANGED <<at, mayAt>> \/ Enter("prev", call[c].ino)
      BY <1>14 DEF LinkRename
    <2>3. /\ at' \in [Names -> Int] /\ mayAt' \in [Names -> SUBSET Int]
          /\ \A m \in Names : at'[m] \in mayAt'[m]
      BY <1>0, <2>2, EnterTypes DEF DiskOK
    <2>4. ltmp' \in [Calls -> [1..LinkAttempts -> Int]]
      <3>1. UNCHANGED ltmp \/ ltmp' = [ltmp EXCEPT ![c][call[c].k] = None]
        BY <1>14 DEF LinkRename
      <3>2. call[c].k \in 1..LinkAttempts /\ None \in Int
        BY <1>0 DEF CallRecords, None
      <3>3. [ltmp EXCEPT ![c][call[c].k] = None] \in [Calls -> [1..LinkAttempts -> Int]]
        BY <1>0, <3>2, AsideTypes, Zenon
      <3> QED BY <1>0, <3>1, <3>3, Zenon DEF DiskOK
    <2> QED BY <1>0, <1>14, <2>1, <2>3, <2>4 DEF LinkRename, DiskOK
  <1>15. CASE LinkSync(c)
    <2>1. call' \in [Calls -> CallRecords]
      BY <1>15, GotoTypes, EndTypes DEF LinkSync
    <2>2. UNCHANGED at /\ (Settle("prev") \/ UNCHANGED mayAt)
      BY <1>15 DEF LinkSync
    <2>3. mayAt' \in [Names -> SUBSET Int] /\ \A m \in Names : at'[m] \in mayAt'[m]
      BY <1>0, <2>2, SettleTypes DEF DiskOK
    <2>4. stmp' \in [Calls -> Int] /\ ltmp' \in [Calls -> [1..LinkAttempts -> Int]]
      BY <1>0, <1>15, CleanTypes DEF LinkSync, DiskOK
    <2> QED BY <1>0, <1>15, <2>1, <2>3, <2>4 DEF LinkSync, DiskOK
  <1>16. CASE LinkConfirm(c)
    <2>1. call' \in [Calls -> CallRecords]
      BY <1>16, EndTypes DEF LinkConfirm
    <2> QED BY <1>0, <1>16, <2>1, CleanTypes DEF LinkConfirm, DiskOK
  <1> QED BY <1>3, <1>4, <1>5, <1>6, <1>7, <1>8, <1>9, <1>10, <1>11, <1>12, <1>13, <1>14, <1>15,
            <1>16 DEF CallStep

\* The call that the caller starts, and the one whose answer it takes.
LEMMA StartTypes ==
  ASSUME Types, NEW op \in {"put", "link"}, NEW tgt \in Names, NEW next, Start(op, tgt, next)
  PROVE  /\ call' \in [Calls -> CallRecords] /\ step' = next
         /\ \E c \in Calls :
               /\ call[c].pc = "idle" /\ caller' = {c}
               /\ call'[c].pc = "guard" /\ call'[c].op = op /\ call'[c].tgt = tgt
               /\ call'[c].sha = journal.to.sha.digest /\ call'[c].ino = None
               /\ \A d \in Calls : d # c => call'[d] = call[d]
  <1> DEFINE c == CHOOSE c \in Calls : call[c].pc = "idle"
             k == [Idle EXCEPT !.pc = "guard", !.op = op, !.tgt = tgt, !.sha = journal.to.sha.digest]
  <1>1. c \in Calls /\ call[c].pc = "idle"
    BY DEF Start
  <1>2. call' = [call EXCEPT ![c] = k] /\ caller' = {c} /\ step' = next
    BY DEF Start
  <1>3. journal.to.sha.digest \in Shas
    BY KnownShas DEF Types, CallerOK
  <1>4. k \in CallRecords
    BY <1>3, RestIsTyped DEF CallRecords
  <1>5. /\ k.pc = "guard" /\ k.op = op /\ k.tgt = tgt /\ k.sha = journal.to.sha.digest
        /\ k.ino = None
    BY DEF Idle
  <1> HIDE DEF c, k
  <1>6. call' \in [Calls -> CallRecords] /\ call'[c] = k /\ \A d \in Calls : d # c => call'[d] = call[d]
    BY <1>1, <1>2, <1>4 DEF Types
  <1> QED BY <1>1, <1>2, <1>5, <1>6

\* An answer reaches the caller that waits, and frees its script.
LEMMA AnswerTypes ==
  ASSUME Types, NEW next, Answer(next)
  PROVE  /\ call' \in [Calls -> CallRecords] /\ step' \in {next, "idle"} /\ caller' = {}
         /\ \E c \in caller :
               /\ call[c].pc = "done" /\ call'[c] = Idle
               /\ step' = IF call[c].out = "ok" THEN next ELSE "idle"
               /\ \A d \in Calls : d # c => call'[d] = call[d]
  BY RestIsTyped DEF Answer, Types, CallerOK

\* Every step of the caller keeps the types.
LEMMA CallerStepTypes ==
  ASSUME Types, CallerStep
  PROVE  Types'
  <1>0. DiskOK /\ CallerOK
    BY DEF Types
  <1>1. ASSUME UNCHANGED disk PROVE DiskOK'
    BY <1>0, <1>1 DEF DiskOK, disk
  <1>2. ASSUME NEW r \in Releases, Begin(r) PROVE Types'
    <2>1. Manifest[r] \in Tuples /\ at["dest"] \in Int
      BY <1>0 DEF Tuples, DiskOK, Names
    <2>2. journal' \in [to : Tuples, open : BOOLEAN, backup : BOOLEAN, before : Int]
      <3>1. CASE journal' = [to |-> Manifest[r], open |-> TRUE, backup |-> FALSE,
                             before |-> at["dest"]]
        BY <2>1, <3>1
      <3>2. CASE UNCHANGED journal
        BY <1>0, <3>2 DEF CallerOK
      <3> QED BY <1>2, <3>1, <3>2 DEF Begin
    <2>3. inode' \in [Regular -> InodeRecords]
      BY <1>0, <1>2, RestIsTyped DEF Begin, DiskOK
    <2>4. UNCHANGED <<at, mayAt, stmp, ltmp, call, caller, installed, abandons, losses, host>>
          /\ step' = "plan"
      BY <1>2 DEF Begin
    <2>5. DiskOK'
      BY <1>0, <2>3, <2>4 DEF DiskOK
    <2>6. CallerOK'
      BY <1>0, <2>2, <2>4 DEF CallerOK, Steps
    <2> QED BY <2>4, <2>5, <2>6 DEF Types, host
  <1>3. CASE Plan
    <2>1. CallerOK'
      BY <1>0, <1>3 DEF Plan, CallerOK, Steps, counts
    <2> QED BY <1>1, <1>3, <2>1 DEF Plan, Types, host
  <1>4. ASSUME NEW op \in {"put", "link"}, NEW tgt \in Names, NEW next \in Steps, Start(op, tgt, next),
               UNCHANGED <<host, disk, installed, journal, counts>>
        PROVE  Types'
    <2>1. call' \in [Calls -> CallRecords] /\ step' = next /\ caller' \in SUBSET Calls
      BY <1>4, StartTypes
    <2>2. CallerOK'
      BY <1>0, <1>4, <2>1 DEF CallerOK, counts
    <2> QED BY <1>1, <1>4, <2>1, <2>2 DEF Types, host
  <1>5. ASSUME NEW next \in Steps, Answer(next), UNCHANGED <<host, disk, installed, counts>>,
               journal' \in [to : Tuples, open : BOOLEAN, backup : BOOLEAN, before : Int]
        PROVE  Types'
    <2>1. call' \in [Calls -> CallRecords] /\ step' \in Steps /\ caller' \in SUBSET Calls
      BY <1>5, AnswerTypes DEF Steps
    <2>2. CallerOK'
      BY <1>0, <1>5, <2>1 DEF CallerOK, counts
    <2> QED BY <1>1, <1>5, <2>1, <2>2 DEF Types, host
  <1>6. CASE Backup
    <2>1. CASE at["dest"] = None
      <3>1. journal' = [journal EXCEPT !.backup = TRUE] /\ step' = "mkdir"
            /\ UNCHANGED <<call, caller, host, disk, installed, counts>>
        BY <1>6, <2>1 DEF Backup
      <3>2. CallerOK'
        BY <1>0, <3>1 DEF CallerOK, Steps, counts
      <3> QED BY <1>1, <3>1, <3>2 DEF Types, host
    <2>2. CASE at["dest"] # None
      BY <1>4, <1>6, <2>2 DEF Backup, Steps, Waiting, Names
    <2> QED BY <2>1, <2>2
  <1>7. CASE BackupAnswer
    <2>1. journal' \in [to : Tuples, open : BOOLEAN, backup : BOOLEAN, before : Int]
      <3>1. journal' = [journal EXCEPT !.backup = (step' = "mkdir")] /\ (step' = "mkdir") \in BOOLEAN
        BY <1>7 DEF BackupAnswer
      <3> QED BY <1>0, <3>1 DEF CallerOK
    <2> QED BY <1>5, <1>7, <2>1 DEF BackupAnswer, Steps
  <1>8. CASE MakeDir
    <2>1. step' \in Steps /\ UNCHANGED <<host, disk, call, caller, installed, journal, counts>>
      BY <1>8 DEF MakeDir, Steps
    <2>2. CallerOK'
      BY <1>0, <2>1 DEF CallerOK, counts
    <2> QED BY <1>1, <2>1, <2>2 DEF Types, host
  <1>9. CASE Place
    BY <1>4, <1>9 DEF Place, Steps, Waiting, Names
  <1>10. CASE PlaceAnswer
    BY <1>0, <1>5, <1>10 DEF PlaceAnswer, Steps, CallerOK
  <1>11. CASE Stage
    <2>1. CASE ChangedStage(installed, journal.to)
      BY <1>4, <1>11, <2>1 DEF Stage, Steps, Waiting, Names
    <2>2. CASE ~ChangedStage(installed, journal.to)
      <3>1. step' \in Steps /\ UNCHANGED <<host, disk, call, caller, installed, journal, counts>>
        BY <1>11, <2>2 DEF Stage, Steps
      <3>2. CallerOK'
        BY <1>0, <3>1 DEF CallerOK, counts
      <3> QED BY <1>1, <3>1, <3>2 DEF Types, host
    <2> QED BY <2>1, <2>2
  <1>12. CASE StageAnswer
    BY <1>0, <1>5, <1>12 DEF StageAnswer, Steps, CallerOK
  <1>13. CASE Record
    <2>1. CallerOK'
      BY <1>0, <1>13, RestIsTyped DEF Record, CallerOK, Steps, counts
    <2> QED BY <1>1, <1>13, <2>1 DEF Record, Types, host
  <1> QED BY <1>2, <1>3, <1>6, <1>7, <1>8, <1>9, <1>10, <1>11, <1>12, <1>13 DEF CallerStep

\* Every step keeps the types.
LEMMA StepTypes == Types /\ [Next]_vars => Types'
  <1> SUFFICES ASSUME Types, [Next]_vars PROVE Types'
    OBVIOUS
  <1>0. DiskOK /\ CallerOK
    BY DEF Types
  <1>1. ASSUME NEW c \in Calls, CallFault(c) PROVE Types'
    <2>1. call' \in [Calls -> CallRecords]
      BY <1>1, EndTypes DEF CallFault
    <2>2. stmp' \in [Calls -> Int] /\ ltmp' \in [Calls -> [1..LinkAttempts -> Int]]
      BY <1>1, CleanTypes DEF CallFault
    <2>3. DiskOK'
      BY <1>0, <1>1, <2>2 DEF CallFault, DiskOK
    <2>4. CallerOK'
      BY <1>0, <1>1 DEF CallFault, CallerOK
    <2> QED BY <1>1, <2>1, <2>3, <2>4 DEF CallFault, Types, host
  <1>2. ASSUME NEW c \in Calls, CallKilled(c) PROVE Types'
    <2>1. call' \in [Calls -> CallRecords]
      BY <1>2, EndTypes DEF CallKilled
    <2>2. DiskOK'
      BY <1>0, <1>2 DEF CallKilled, DiskOK, disk
    <2>3. CallerOK'
      BY <1>0, <1>2 DEF CallKilled, CallerOK
    <2> QED BY <1>2, <2>1, <2>2, <2>3 DEF CallKilled, Types, host
  <1>3. ASSUME NEW c \in Calls, Reap(c) PROVE Types'
    <2>1. call' \in [Calls -> CallRecords]
      BY <1>3, RestIsTyped DEF Reap, Types
    <2>2. DiskOK'
      BY <1>0, <1>3 DEF Reap, DiskOK, disk
    <2>3. CallerOK'
      BY <1>0, <1>3 DEF Reap, CallerOK, counts
    <2> QED BY <1>3, <2>1, <2>2, <2>3 DEF Reap, Types, host
  <1>4. CASE Abandon
    <2>1. call' \in [Calls -> CallRecords]
      BY <1>4, RestIsTyped DEF Abandon, Types
    <2>2. DiskOK'
      BY <1>0, <1>4 DEF Abandon, DiskOK, disk
    <2>3. CallerOK'
      BY <1>0, <1>4 DEF Abandon, CallerOK, Steps
    <2> QED BY <1>4, <2>1, <2>2, <2>3 DEF Abandon, Types, host
  <1>5. CASE PowerLoss
    <2>1. PICK survive \in [Names -> UNION {mayAt[n] : n \in Names}] :
             /\ \A n \in Names : survive[n] \in mayAt[n]
             /\ at' = survive /\ mayAt' = [n \in Names |-> {survive[n]}]
      BY <1>5 DEF PowerLoss
    <2>2. \A n \in Names : survive[n] \in Int
      BY <1>0, <2>1 DEF DiskOK
    <2>3. /\ at' \in [Names -> Int] /\ mayAt' \in [Names -> SUBSET Int]
          /\ \A n \in Names : at'[n] \in mayAt'[n]
      BY <2>1, <2>2
    <2>4. inode' \in [Regular -> InodeRecords]
      BY <1>0, <1>5, RestIsTyped DEF PowerLoss, DiskOK
    <2>5. stmp' \in [Calls -> Int] /\ ltmp' \in [Calls -> [1..LinkAttempts -> Int]]
      <3>1. PICK keep \in BOOLEAN :
               ltmp' = [c \in Calls |-> [k \in 1..LinkAttempts |-> IF keep THEN ltmp[c][k] ELSE None]]
        BY <1>5 DEF PowerLoss
      <3>2. ASSUME NEW c \in Calls, NEW k \in 1..LinkAttempts
            PROVE  (IF keep THEN ltmp[c][k] ELSE None) \in Int
        <4>1. ltmp[c] \in [1..LinkAttempts -> Int]
          BY <1>0 DEF DiskOK
        <4>2. ltmp[c][k] \in Int
          BY <4>1, Zenon
        <4>3. None \in Int
          BY DEF None
        <4> QED BY <4>2, <4>3, Zenon
      <3>3. stmp' \in [Calls -> Int]
        BY <1>5 DEF PowerLoss, None
      <3> QED BY <3>1, <3>2, <3>3
    <2>6. DiskOK'
      BY <2>3, <2>4, <2>5 DEF DiskOK
    <2>7. CallerOK'
      BY <1>0, <1>5 DEF PowerLoss, CallerOK, Steps
    <2>8. call' \in [Calls -> CallRecords]
      BY <1>5, RestIsTyped DEF PowerLoss
    <2> QED BY <1>5, <2>6, <2>7, <2>8 DEF PowerLoss, Types, host
  <1>6. CASE UNCHANGED vars
    <2>1. DiskOK' /\ CallerOK'
      BY <1>0, <1>6 DEF vars, DiskOK, CallerOK, disk, counts
    <2> QED BY <1>6, <2>1 DEF vars, Types, host
  <1> QED BY <1>1, <1>2, <1>3, <1>4, <1>5, <1>6, CallStepTypes, CallerStepTypes DEF Next
-----------------------------------------------------------------------------
(* What is staged, and what has a name *)

\* A sequence that is still staging its file, and one that has linked its
\* source aside.
Writing(c) == call[c].op = "put" /\ call[c].pc \in {"write", "meta", "flush", "rename"}
Linking(c) == call[c].op = "link" /\ call[c].pc = "rename"

\* The file being staged has no name yet and is nobody else's.
Apart ==
    \A c \in Calls : Writing(c) =>
        /\ call[c].ino \in Regular /\ \A n \in Names : call[c].ino \notin mayAt[n]
        /\ \A d \in Calls : d # c /\ (Writing(d) \/ Linking(d)) => call[d].ino # call[c].ino

\* How far the file being staged has come.
Staged ==
    \A c \in Calls : Writing(c) /\ ~(call[c].pc = "write") =>
        /\ inode[call[c].ino].whole /\ inode[call[c].ino].sha = call[c].sha
        /\ call[c].pc \in {"flush", "rename"} => inode[call[c].ino].meta = "final"
        /\ call[c].pc = "rename" /\ syncs => inode[call[c].ino].safe

Lasting(i) == inode[i].whole /\ inode[i].meta = "final" /\ (syncs => inode[i].safe)

\* Whatever has a name, or is about to get a second one, lasts.
Named ==
    (syncs \/ losses = 0) =>
        /\ \A n \in Names : \A e \in mayAt[n] \cap Regular : Lasting(e)
        /\ \A c \in Calls : Linking(c) /\ call[c].ino \in Regular => Lasting(call[c].ino)

TornInv == Types /\ Apart /\ Staged /\ Named

\* What is named, staged or linked aside is in use.
LEMMA InUseParts ==
  /\ \A n \in Names : mayAt[n] \subseteq InUse
  /\ \A c \in Calls : call[c].ino \in InUse
  <1>1. ASSUME NEW n \in Names, NEW e \in mayAt[n] PROVE e \in InUse
    <2>1. e \in UNION {mayAt[m] : m \in Names}
      OBVIOUS
    <2> QED BY <2>1 DEF InUse
  <1>2. ASSUME NEW c \in Calls PROVE call[c].ino \in InUse
    <2>1. call[c].ino \in {call[d].ino : d \in Calls}
      OBVIOUS
    <2> QED BY <2>1 DEF InUse
  <1> QED BY <1>1, <1>2

\* A step that gives nothing a name, begins or advances no staging, and leaves
\* the inodes in use alone.
Quiet ==
    /\ UNCHANGED <<syncs, losses>>
    /\ \A n \in Names : mayAt'[n] \subseteq mayAt[n]
    /\ \A c \in Calls : (Writing(c) \/ Linking(c))' => call'[c] = call[c]
    /\ \A i \in Regular \cap InUse : inode'[i] = inode[i]

\* A step that writes no file tears none.
LEMMA QuietKeeps ==
  ASSUME TornInv, Types', Quiet
  PROVE  TornInv'
  <1>1. ASSUME NEW c \in Calls, (Writing(c) \/ Linking(c))'
        PROVE  /\ call'[c] = call[c] /\ (Writing(c)' <=> Writing(c)) /\ (Linking(c)' <=> Linking(c))
               /\ call[c].ino \in Regular => inode'[call[c].ino] = inode[call[c].ino]
    <2>1. call'[c] = call[c]
      BY <1>1 DEF Quiet
    <2>2. (Writing(c)' <=> Writing(c)) /\ (Linking(c)' <=> Linking(c))
      BY <2>1 DEF Writing, Linking
    <2>3. call[c].ino \in Regular => inode'[call[c].ino] = inode[call[c].ino]
      BY InUseParts DEF Quiet
    <2> QED BY <2>1, <2>2, <2>3
  <1>2. Apart'
    BY <1>1 DEF TornInv, Apart, Quiet
  <1>3. Staged'
    <2> SUFFICES ASSUME NEW c \in Calls, Writing(c)', ~(call'[c].pc = "write")
                 PROVE  (/\ inode[call[c].ino].whole /\ inode[call[c].ino].sha = call[c].sha
                         /\ call[c].pc \in {"flush", "rename"} => inode[call[c].ino].meta = "final"
                         /\ call[c].pc = "rename" /\ syncs => inode[call[c].ino].safe)'
      BY DEF Staged
    <2>1. call'[c] = call[c] /\ Writing(c) /\ inode'[call[c].ino] = inode[call[c].ino]
      BY <1>1 DEF TornInv, Apart
    <2> QED BY <2>1 DEF TornInv, Staged, Quiet
  <1>4. Named'
    <2> SUFFICES ASSUME syncs \/ losses = 0 PROVE Named'
      BY DEF Named, Quiet
    <2>1. ASSUME NEW n \in Names, NEW e \in mayAt'[n] \cap Regular PROVE Lasting(e)'
      <3>1. e \in mayAt[n] \cap Regular /\ inode'[e] = inode[e] /\ syncs' = syncs
        BY <2>1, InUseParts DEF Quiet
      <3> QED BY <3>1 DEF TornInv, Named, Lasting
    <2>2. ASSUME NEW c \in Calls, Linking(c)', call'[c].ino \in Regular PROVE Lasting(call[c].ino)'
      <3>1. /\ call'[c] = call[c] /\ Linking(c) /\ syncs' = syncs
            /\ inode'[call[c].ino] = inode[call[c].ino]
        BY <1>1, <2>2 DEF Quiet
      <3> QED BY <2>2, <3>1 DEF TornInv, Named, Lasting
    <2> QED BY <2>1, <2>2 DEF Named
  <1> QED BY <1>2, <1>3, <1>4 DEF TornInv

\* A flush settles a name on an entry it may hold already.
LEMMA SettleNarrows ==
  ASSUME DiskOK, NEW n \in Names, Settle(n)
  PROVE  \A m \in Names : mayAt'[m] \subseteq mayAt[m]
  BY DEF DiskOK, Settle

\* No step of a script tears a file.
LEMMA CallStepTorn ==
  ASSUME TornInv, NEW c \in Calls, CallStep(c)
  PROVE  TornInv'
  <1>0. /\ Types' /\ Types /\ DiskOK /\ UNCHANGED <<syncs, losses>> /\ call[c] \in CallRecords
        /\ call \in [Calls -> CallRecords]
    BY CallStepTypes DEF TornInv, Types, CallStep, host, counts
  <1> DEFINE i == call[c].ino
  <1>1. ASSUME UNCHANGED inode, \A n \in Names : mayAt'[n] \subseteq mayAt[n],
               ~(Writing(c) \/ Linking(c))', \A d \in Calls : d # c => call'[d] = call[d]
        PROVE  TornInv'
    <2>1. Quiet
      BY <1>0, <1>1 DEF Quiet
    <2> QED BY <1>0, <2>1, QuietKeeps
  <1>2. ASSUME UNCHANGED disk PROVE UNCHANGED inode /\ \A n \in Names : mayAt'[n] \subseteq mayAt[n]
    BY <1>2 DEF disk
  <1>3. ASSUME NEW how \in {"ok", "transfer"}, End(c, how)
        PROVE  ~(Writing(c) \/ Linking(c))' /\ \A d \in Calls : d # c => call'[d] = call[d]
    BY <1>0, <1>3, EndTypes DEF Writing, Linking
  <1>4. ASSUME NEW to \in {"stage", "create", "link", "sync", "confirm"}, Goto(c, to)
        PROVE  ~(Writing(c) \/ Linking(c))' /\ \A d \in Calls : d # c => call'[d] = call[d]
    BY <1>0, <1>4, GotoTypes DEF Writing, Linking
  <1>5. CASE PutGuard(c)
    BY <1>1, <1>2, <1>3, <1>4, <1>5 DEF PutGuard
  <1>6. CASE PutStage(c)
    BY <1>1, <1>2, <1>3, <1>4, <1>6 DEF PutStage
  <1>7. CASE PutSync(c)
    <2>1. \A n \in Names : mayAt'[n] \subseteq mayAt[n]
      BY <1>0, <1>7, SettleNarrows DEF PutSync, CallRecords
    <2> QED BY <1>1, <1>3, <1>4, <1>7, <2>1 DEF PutSync
  <1>8. CASE PutConfirm(c)
    BY <1>1, <1>2, <1>3, <1>8 DEF PutConfirm
  <1>9. CASE LinkGuard(c)
    BY <1>1, <1>2, <1>3, <1>4, <1>9 DEF LinkGuard
  <1>10. CASE LinkSync(c)
    <2>1. \A n \in Names : mayAt'[n] \subseteq mayAt[n]
      BY <1>0, <1>10, SettleNarrows DEF LinkSync, Names
    <2> QED BY <1>1, <1>3, <1>4, <1>10, <2>1 DEF LinkSync
  <1>11. CASE LinkConfirm(c)
    BY <1>1, <1>3, <1>11 DEF LinkConfirm
  <1>12. CASE PutCreate(c)
    <2> DEFINE f == First(Free)
    <2>1. f \in Regular /\ f \notin InUse
      BY <1>12, FreeInode DEF PutCreate, Free
    <2>2. /\ inode' = [inode EXCEPT ![f] = Blank] /\ UNCHANGED mayAt
          /\ call' = [call EXCEPT ![c].pc = "write", ![c].ino = f] /\ call[c].op = "put"
      BY <1>12 DEF PutCreate
    <2> HIDE DEF f
    <2>3. /\ call'[c].pc = "write" /\ call'[c].ino = f /\ call'[c].op = "put"
          /\ \A d \in Calls : d # c => call'[d] = call[d]
      BY <1>0, <2>2 DEF CallRecords
    <2>4. /\ \A n \in Names : f \notin mayAt[n]
          /\ \A d \in Calls : call[d].ino # f
      BY <2>1, InUseParts
    <2>5. \A j \in Regular : j # f => inode'[j] = inode[j]
      BY <1>0, <2>2 DEF DiskOK
    <2>6. \A d \in Calls : d # c => (Writing(d)' <=> Writing(d)) /\ (Linking(d)' <=> Linking(d))
      BY <2>3 DEF Writing, Linking
    <2>7. ~Linking(c)'
      BY <2>3 DEF Linking
    <2>8. Apart'
      <3> SUFFICES ASSUME NEW w \in Calls, Writing(w)'
                   PROVE  (/\ call[w].ino \in Regular /\ \A n \in Names : call[w].ino \notin mayAt[n]
                           /\ \A d \in Calls : d # w /\ (Writing(d) \/ Linking(d)) =>
                                call[d].ino # call[w].ino)'
        BY DEF Apart
      <3>1. CASE w = c
        BY <2>1, <2>2, <2>3, <2>4, <3>1
      <3>2. CASE w # c
        <4>1. Writing(w) /\ call'[w] = call[w] /\ call[w].ino # f
          BY <2>3, <2>4, <2>6, <3>2
        <4>2. /\ call[w].ino \in Regular /\ \A n \in Names : call[w].ino \notin mayAt[n]
              /\ \A d \in Calls : d # w /\ (Writing(d) \/ Linking(d)) => call[d].ino # call[w].ino
          BY <4>1 DEF TornInv, Apart
        <4> QED BY <2>2, <2>3, <2>6, <4>1, <4>2
      <3> QED BY <3>1, <3>2
    <2>9. Staged'
      <3>1. ASSUME NEW d \in Calls, Writing(d)', ~(call'[d].pc = "write")
            PROVE  /\ call'[d] = call[d] /\ Writing(d) /\ inode'[call[d].ino] = inode[call[d].ino]
        BY <2>3, <2>4, <2>5, <2>6, <3>1 DEF TornInv, Apart
      <3> QED BY <1>0, <3>1 DEF TornInv, Staged
    <2>10. Named'
      <3> SUFFICES ASSUME syncs \/ losses = 0 PROVE Named'
        BY <1>0 DEF Named
      <3>1. ASSUME NEW n \in Names, NEW e \in mayAt'[n] \cap Regular PROVE Lasting(e)'
        BY <1>0, <2>2, <2>4, <2>5 DEF TornInv, Named, Lasting
      <3>2. ASSUME NEW d \in Calls, Linking(d)', call'[d].ino \in Regular PROVE Lasting(call[d].ino)'
        <4>1. d # c /\ call'[d] = call[d] /\ Linking(d)
          BY <2>3, <2>6, <2>7, <3>2
        <4>2. inode'[call[d].ino] = inode[call[d].ino] /\ Lasting(call[d].ino)
          BY <2>4, <2>5, <3>2, <4>1 DEF TornInv, Named
        <4> QED BY <1>0, <4>1, <4>2 DEF Lasting
      <3> QED BY <3>1, <3>2 DEF Named
    <2> QED BY <1>0, <2>8, <2>9, <2>10 DEF TornInv
  <1>13. ASSUME NEW to \in {"meta", "flush", "rename"}, Goto(c, to), Writing(c), UNCHANGED mayAt,
                \A j \in Regular : j # i => inode'[j] = inode[j],
                /\ inode'[i].whole /\ inode'[i].sha = call[c].sha
                /\ to \in {"flush", "rename"} => inode'[i].meta = "final"
                /\ to = "rename" /\ syncs => inode'[i].safe
         PROVE  TornInv'
    <2>1. /\ call'[c].pc = to /\ call'[c].op = call[c].op /\ call'[c].ino = i
          /\ call'[c].sha = call[c].sha /\ \A d \in Calls : d # c => call'[d] = call[d]
      <3>1. /\ call'[c] = [call[c] EXCEPT !.pc = to]
            /\ \A d \in Calls : d # c => call'[d] = call[d]
        BY <1>0, <1>13, GotoTypes
      <3> QED BY <1>0, <3>1 DEF CallRecords
    <2>2. \A d \in Calls : (Writing(d)' <=> Writing(d)) /\ (Linking(d)' <=> Linking(d))
      BY <1>13, <2>1 DEF Writing, Linking
    <2>3. /\ i \in Regular /\ \A n \in Names : i \notin mayAt[n]
          /\ \A d \in Calls : d # c /\ (Writing(d) \/ Linking(d)) => call[d].ino # i
      BY <1>13 DEF TornInv, Apart
    <2>4. \A d \in Calls : call'[d].ino = call[d].ino
      BY <2>1
    <2> HIDE DEF i
    <2>5. Apart'
      BY <1>13, <2>2, <2>4 DEF TornInv, Apart
    <2>6. Staged'
      <3>1. ASSUME NEW d \in Calls, d # c, Writing(d)', ~(call'[d].pc = "write")
            PROVE  /\ call'[d] = call[d] /\ Writing(d) /\ inode'[call[d].ino] = inode[call[d].ino]
        BY <1>13, <2>1, <2>2, <2>3, <3>1 DEF TornInv, Apart
      <3>2. ASSUME NEW d \in Calls, Writing(d)', ~(call'[d].pc = "write")
            PROVE  (/\ inode[call[d].ino].whole /\ inode[call[d].ino].sha = call[d].sha
                    /\ call[d].pc \in {"flush", "rename"} => inode[call[d].ino].meta = "final"
                    /\ call[d].pc = "rename" /\ syncs => inode[call[d].ino].safe)'
        <4>1. CASE d = c
          BY <1>0, <1>13, <2>1, <4>1
        <4>2. CASE d # c
          BY <1>0, <3>1, <3>2, <4>2 DEF TornInv, Staged
        <4> QED BY <4>1, <4>2
      <3> QED BY <3>2 DEF Staged
    <2>7. Named'
      <3> SUFFICES ASSUME syncs \/ losses = 0 PROVE Named'
        BY <1>0 DEF Named
      <3>1. ASSUME NEW n \in Names, NEW e \in mayAt'[n] \cap Regular PROVE Lasting(e)'
        <4>1. e # i /\ inode'[e] = inode[e] /\ Lasting(e)
          BY <1>13, <2>3, <3>1 DEF TornInv, Named
        <4> QED BY <1>0, <4>1 DEF Lasting
      <3>2. ASSUME NEW d \in Calls, Linking(d)', call'[d].ino \in Regular PROVE Lasting(call[d].ino)'
        <4>1. Linking(d) /\ d # c /\ call'[d] = call[d]
          BY <1>13, <2>1, <2>2, <3>2 DEF Writing, Linking
        <4>2. inode'[call[d].ino] = inode[call[d].ino] /\ Lasting(call[d].ino)
          BY <1>13, <2>3, <3>2, <4>1 DEF TornInv, Named
        <4> QED BY <1>0, <4>1, <4>2 DEF Lasting
      <3> QED BY <3>1, <3>2 DEF Named
    <2> QED BY <1>0, <2>5, <2>6, <2>7 DEF TornInv
  <1>14. CASE PutWrite(c)
    <2>1. Writing(c) /\ i \in Regular /\ inode[i] \in InodeRecords
      BY <1>0, <1>14 DEF PutWrite, Writing, TornInv, Apart, DiskOK
    <2>2. inode' = [inode EXCEPT ![i] = [inode[i] EXCEPT !.sha = call[c].sha, !.whole = TRUE]]
      BY <1>0, <2>1, <1>14 DEF PutWrite, DiskOK
    <2>3. inode'[i].whole /\ inode'[i].sha = call[c].sha /\ \A j \in Regular : j # i => inode'[j] = inode[j]
      BY <1>0, <2>1, <2>2 DEF DiskOK, InodeRecords
    <2> QED BY <1>13, <1>14, <2>1, <2>3 DEF PutWrite
  <1>15. CASE PutMeta(c)
    <2>1. /\ Writing(c) /\ i \in Regular /\ inode[i] \in InodeRecords
          /\ inode[i].whole /\ inode[i].sha = call[c].sha
      BY <1>0, <1>15 DEF PutMeta, Writing, TornInv, Apart, Staged, DiskOK
    <2>2. inode' = [inode EXCEPT ![i].meta = "final"]
      BY <1>15 DEF PutMeta
    <2>3. /\ inode'[i].whole /\ inode'[i].sha = call[c].sha /\ inode'[i].meta = "final"
          /\ \A j \in Regular : j # i => inode'[j] = inode[j]
      BY <1>0, <2>1, <2>2 DEF DiskOK, InodeRecords
    <2> QED BY <1>13, <1>15, <2>1, <2>3 DEF PutMeta
  <1>16. CASE PutFlush(c)
    <2>1. /\ Writing(c) /\ i \in Regular /\ inode[i] \in InodeRecords
          /\ inode[i].whole /\ inode[i].sha = call[c].sha /\ inode[i].meta = "final"
      BY <1>0, <1>16 DEF PutFlush, Writing, TornInv, Apart, Staged, DiskOK
    <2>2. inode' = [inode EXCEPT ![i].safe = syncs]
      BY <1>16 DEF PutFlush
    <2>3. /\ inode'[i].whole /\ inode'[i].sha = call[c].sha /\ inode'[i].meta = "final"
          /\ inode'[i].safe = syncs /\ \A j \in Regular : j # i => inode'[j] = inode[j]
      BY <1>0, <2>1, <2>2 DEF DiskOK, InodeRecords
    <2> QED BY <1>13, <1>16, <2>1, <2>3 DEF PutFlush
  \* A file or a link gets a name: it lasts, and no one is staging it.
  <1>17. ASSUME NEW n \in Names, Enter(n, i), Goto(c, "sync"), UNCHANGED inode, i \in Regular,
                (syncs \/ losses = 0) => Lasting(i),
                \A d \in Calls : d # c /\ Writing(d) => call[d].ino # i
         PROVE  TornInv'
    <2>1. ~(Writing(c) \/ Linking(c))' /\ \A d \in Calls : d # c => call'[d] = call[d]
      BY <1>4, <1>17
    <2>2. \A m \in Names : mayAt'[m] \subseteq mayAt[m] \cup {i}
      BY <1>0, <1>17 DEF Enter, DiskOK
    <2>3. ASSUME NEW d \in Calls, (Writing(d) \/ Linking(d))'
          PROVE  d # c /\ call'[d] = call[d] /\ (Writing(d)' <=> Writing(d)) /\ (Linking(d)' <=> Linking(d))
      BY <2>1, <2>3 DEF Writing, Linking
    <2> HIDE DEF i
    <2>4. Apart'
      BY <1>17, <2>2, <2>3 DEF TornInv, Apart
    <2>5. Staged'
      BY <1>0, <1>17, <2>3 DEF TornInv, Staged
    <2>6. Named'
      <3> SUFFICES ASSUME syncs \/ losses = 0 PROVE Named'
        BY <1>0 DEF Named
      <3>1. \A e \in Regular : Lasting(e)' = Lasting(e)
        BY <1>0, <1>17 DEF Lasting
      <3>2. ASSUME NEW m \in Names, NEW e \in mayAt'[m] \cap Regular PROVE Lasting(e)'
        BY <1>17, <2>2, <3>1 DEF TornInv, Named
      <3>3. ASSUME NEW d \in Calls, Linking(d)', call'[d].ino \in Regular PROVE Lasting(call[d].ino)'
        <4>1. Linking(d) /\ call'[d] = call[d] /\ Lasting(call[d].ino)
          BY <2>3, <3>3 DEF TornInv, Named
        <4> QED BY <1>0, <1>17, <4>1 DEF Lasting
      <3> QED BY <3>2, <3>3 DEF Named
    <2> QED BY <1>0, <2>4, <2>5, <2>6 DEF TornInv
  <1>18. CASE PutRename(c)
    <2>1. CASE Enter(call[c].tgt, i) /\ Goto(c, "sync")
      <3>1. Writing(c) /\ call[c].tgt \in Names
        BY <1>0, <1>18 DEF PutRename, Writing, CallRecords
      <3>2. i \in Regular /\ Lasting(i) /\ \A d \in Calls : d # c /\ Writing(d) => call[d].ino # i
        BY <1>18, <3>1 DEF PutRename, TornInv, Apart, Staged, Lasting
      <3> QED BY <1>17, <1>18, <2>1, <3>1, <3>2 DEF PutRename
    <2>2. CASE End(c, "transfer") /\ UNCHANGED <<at, mayAt>>
      BY <1>1, <1>3, <1>18, <2>2 DEF PutRename
    <2> QED BY <1>18, <2>1, <2>2 DEF PutRename
  <1>19. CASE LinkAside(c)
    <2>1. CASE call' = [call EXCEPT ![c].k = call[c].k + 1]
      <3>1. /\ call'[c].pc = call[c].pc /\ call'[c].op = call[c].op
            /\ \A d \in Calls : d # c => call'[d] = call[d]
        BY <1>0, <2>1 DEF CallRecords
      <3>2. ~(Writing(c) \/ Linking(c))'
        BY <1>19, <3>1 DEF LinkAside, Writing, Linking
      <3> QED BY <1>1, <1>19, <3>1, <3>2 DEF LinkAside
    <2>2. CASE End(c, "transfer")
      BY <1>1, <1>3, <1>19, <2>2 DEF LinkAside
    <2>3. CASE call' = [call EXCEPT ![c].pc = "rename", ![c].ino = at["dest"]]
      <3> DEFINE s == at["dest"]
      <3>1. /\ call'[c].pc = "rename" /\ call'[c].ino = s /\ call'[c].op = "link"
            /\ \A d \in Calls : d # c => call'[d] = call[d]
        BY <1>0, <1>19, <2>3 DEF LinkAside, CallRecords
      <3>2. s \in mayAt["dest"] /\ "dest" \in Names
        BY <1>0 DEF DiskOK, Names
      <3>3. ~Writing(c)' /\ UNCHANGED <<inode, mayAt>>
        BY <1>19, <3>1 DEF Writing, LinkAside
      <3>4. \A d \in Calls : d # c => (Writing(d)' <=> Writing(d)) /\ (Linking(d)' <=> Linking(d))
        BY <3>1 DEF Writing, Linking
      <3>5. \A d \in Calls : Writing(d) => call[d].ino # s
        BY <3>2 DEF TornInv, Apart
      <3> HIDE DEF s
      <3>6. Apart'
        BY <3>1, <3>3, <3>4, <3>5 DEF TornInv, Apart
      <3>7. Staged'
        <4>1. ASSUME NEW d \in Calls, Writing(d)' PROVE call'[d] = call[d] /\ Writing(d)
          BY <3>1, <3>3, <3>4, <4>1
        <4> QED BY <1>0, <3>3, <4>1 DEF TornInv, Staged
      <3>8. Named'
        <4> SUFFICES ASSUME syncs \/ losses = 0 PROVE Named'
          BY <1>0 DEF Named
        <4>1. \A e \in Regular : Lasting(e)' = Lasting(e)
          BY <1>0, <3>3 DEF Lasting
        <4>2. ASSUME NEW m \in Names, NEW e \in mayAt'[m] \cap Regular PROVE Lasting(e)'
          BY <3>3, <4>1 DEF TornInv, Named
        <4>3. ASSUME NEW d \in Calls, Linking(d)', call'[d].ino \in Regular
              PROVE  Lasting(call[d].ino)'
          <5>1. Lasting(call'[d].ino)
            BY <3>1, <3>2, <3>4, <4>3 DEF TornInv, Named
          <5> QED BY <1>0, <3>3, <5>1 DEF Lasting
        <4> QED BY <4>2, <4>3 DEF Named
      <3> QED BY <1>0, <3>6, <3>7, <3>8 DEF TornInv
    <2> QED BY <1>19, <2>1, <2>2, <2>3 DEF LinkAside
  <1>20. CASE LinkRename(c)
    <2>1. CASE i \in Regular /\ Goto(c, "sync") /\ Enter("prev", i)
      <3>1. Linking(c) /\ "prev" \in Names
        BY <1>20 DEF LinkRename, Linking, Names
      <3>2. /\ (syncs \/ losses = 0) => Lasting(i)
            /\ \A d \in Calls : d # c /\ Writing(d) => call[d].ino # i
        BY <2>1, <3>1 DEF TornInv, Named, Apart
      <3> QED BY <1>17, <1>20, <2>1, <3>1, <3>2 DEF LinkRename
    <2>2. CASE Goto(c, "sync") /\ UNCHANGED <<at, mayAt>>
      BY <1>1, <1>4, <1>20, <2>2 DEF LinkRename
    <2>3. CASE End(c, "transfer") /\ UNCHANGED <<at, mayAt>>
      BY <1>1, <1>3, <1>20, <2>3 DEF LinkRename
    <2> QED BY <1>20, <2>1, <2>2, <2>3 DEF LinkRename
  <1> QED BY <1>5, <1>6, <1>7, <1>8, <1>9, <1>10, <1>11, <1>12, <1>14, <1>15, <1>16, <1>18, <1>19,
            <1>20 DEF CallStep

\* No step tears a file.
LEMMA TornStep == TornInv /\ [Next]_vars => TornInv'
  <1> SUFFICES ASSUME TornInv, [Next]_vars PROVE TornInv'
    OBVIOUS
  <1>0. Types /\ Types' /\ DiskOK /\ CallerOK /\ call \in [Calls -> CallRecords]
    BY StepTypes DEF TornInv, Types
  <1>1. ASSUME UNCHANGED <<syncs, losses, mayAt>>, \A i \in Regular \cap InUse : inode'[i] = inode[i],
               \A c \in Calls : call'[c] = call[c] \/ call'[c].pc \in {"idle", "guard", "done"}
        PROVE  TornInv'
    <2>1. Quiet
      BY <1>1 DEF Quiet, Writing, Linking
    <2> QED BY <1>0, <2>1, QuietKeeps
  <1>2. ASSUME UNCHANGED <<host, disk, losses>>,
               \A c \in Calls : call'[c] = call[c] \/ call'[c].pc \in {"idle", "guard", "done"}
        PROVE  TornInv'
    BY <1>1, <1>2 DEF host, disk
  <1>3. ASSUME NEW c \in Calls, CallFault(c) PROVE TornInv'
    <2>1. \A d \in Calls : call'[d] = call[d] \/ call'[d].pc \in {"idle", "guard", "done"}
      BY <1>0, <1>3, EndTypes DEF CallFault
    <2> QED BY <1>1, <1>3, <2>1 DEF CallFault, host
  <1>4. ASSUME NEW c \in Calls, CallKilled(c) PROVE TornInv'
    <2>1. \A d \in Calls : call'[d] = call[d] \/ call'[d].pc \in {"idle", "guard", "done"}
      BY <1>0, <1>4, EndTypes DEF CallKilled
    <2> QED BY <1>2, <1>4, <2>1 DEF CallKilled
  <1>5. ASSUME NEW c \in Calls, Reap(c) PROVE TornInv'
    <2>1. \A d \in Calls : call'[d] = call[d] \/ call'[d].pc \in {"idle", "guard", "done"}
      BY <1>0, <1>5, RestIsTyped DEF Reap
    <2> QED BY <1>2, <1>5, <2>1 DEF Reap, counts
  <1>6. CASE CallerStep
    <2>1. ASSUME NEW r \in Releases, Begin(r) PROVE TornInv'
      <3>1. \A i \in Regular \cap InUse : inode'[i] = inode[i]
        BY <2>1 DEF Begin, Free
      <3> QED BY <1>1, <2>1, <3>1 DEF Begin, host
    <2>2. ASSUME NEW op \in {"put", "link"}, NEW tgt \in Names, NEW next, Start(op, tgt, next)
          PROVE  \A d \in Calls : call'[d] = call[d] \/ call'[d].pc \in {"idle", "guard", "done"}
      BY <1>0, <2>2, StartTypes
    <2>3. ASSUME NEW next, Answer(next)
          PROVE  \A d \in Calls : call'[d] = call[d] \/ call'[d].pc \in {"idle", "guard", "done"}
      BY <1>0, <2>3, AnswerTypes, RestIsTyped
    <2>4. CASE Plan
      BY <1>2, <2>4 DEF Plan, counts
    <2>5. CASE Backup
      BY <1>2, <2>2, <2>5 DEF Backup, counts, Names
    <2>6. CASE BackupAnswer
      BY <1>2, <2>3, <2>6 DEF BackupAnswer, counts
    <2>7. CASE MakeDir
      BY <1>2, <2>7 DEF MakeDir, counts
    <2>8. CASE Place
      BY <1>2, <2>2, <2>8 DEF Place, counts, Names
    <2>9. CASE PlaceAnswer
      BY <1>2, <2>3, <2>9 DEF PlaceAnswer, counts
    <2>10. CASE Stage
      BY <1>2, <2>2, <2>10 DEF Stage, counts, Names
    <2>11. CASE StageAnswer
      BY <1>2, <2>3, <2>11 DEF StageAnswer, counts
    <2>12. CASE Record
      BY <1>2, <2>12 DEF Record, counts
    <2> QED BY <1>6, <2>1, <2>4, <2>5, <2>6, <2>7, <2>8, <2>9, <2>10, <2>11, <2>12 DEF CallerStep
  <1>7. CASE Abandon
    <2>1. \A d \in Calls : call'[d] = call[d] \/ call'[d].pc \in {"idle", "guard", "done"}
      BY <1>0, <1>7, RestIsTyped DEF Abandon
    <2> QED BY <1>2, <1>7, <2>1 DEF Abandon
  <1>8. CASE PowerLoss
    <2>1. /\ \A c \in Calls : call'[c].pc = "idle"
          /\ syncs' = syncs /\ losses' = losses + 1 /\ losses \in Nat
      BY <1>0, <1>8, RestIsTyped DEF PowerLoss, host, CallerOK
    <2>2. \A c \in Calls : ~Writing(c)' /\ ~Linking(c)'
      BY <2>1 DEF Writing, Linking
    <2>3. \A n \in Names : mayAt'[n] \subseteq mayAt[n]
      BY <1>8 DEF PowerLoss
    <2>4. \A i \in Regular : inode[i].safe => inode'[i] = inode[i]
      BY <1>8 DEF PowerLoss
    <2>5. Named'
      <3> SUFFICES ASSUME (syncs \/ losses = 0)' PROVE Named'
        BY DEF Named
      <3>0. losses' # 0
        BY <2>1
      <3>1. syncs
        BY <2>1, <3>0, Zenon
      <3>2. ASSUME NEW n \in Names, NEW e \in mayAt'[n] \cap Regular PROVE Lasting(e)'
        BY <2>1, <2>3, <2>4, <3>1 DEF TornInv, Named, Lasting
      <3> QED BY <2>2, <3>2 DEF Named
    <2>6. Apart' /\ Staged'
      BY <2>2 DEF Apart, Staged
    <2> QED BY <1>0, <2>5, <2>6 DEF TornInv
  <1>9. CASE UNCHANGED vars
    BY <1>2, <1>9 DEF vars, counts
  <1> QED BY <1>3, <1>4, <1>5, <1>6, <1>7, <1>8, <1>9, CallStepTorn DEF Next

\* No file is torn at the start.
LEMMA InitTorn == Init => TornInv
  <1> SUFFICES ASSUME Init PROVE TornInv
    OBVIOUS
  <1>1. Types /\ \A c \in Calls : ~Writing(c) /\ ~Linking(c)
    BY InitTypes, RestIsTyped DEF Init, Writing, Linking
  <1>2. PICK d \in {None, 1, Link, DLink, Dir}, p \in {None, 2, Dir} :
           at = [n \in Names |-> CASE n = "dest" -> d [] n = "prev" -> p [] OTHER -> None]
    BY DEF Init
  <1>3. ASSUME NEW n \in Names, NEW e \in mayAt[n] \cap Regular PROVE Lasting(e)
    <2>1. at[n] \in {None, 1, 2, Link, DLink, Dir} /\ e = at[n] /\ Inodes \in Nat
      BY <1>2, <1>3, HostUpdateAssumption DEF Init, Names
    <2>2. e \in {1, 2}
      BY <2>1, <1>3 DEF None, Link, DLink, Dir, Regular
    <2> QED BY <2>2, <1>3 DEF Init, Lasting, Sound
  <1> QED BY <1>1, <1>3 DEF TornInv, Apart, Staged, Named

\* Through every fault, kill and overlap of any number of scripts, whatever
\* stands, or may stand after a power loss, under one of the names is a whole
\* file with its final owner and mode (put_file, PUT_FILE_SCRIPT).
THEOREM NothingTorn == Spec => []NeverTorn
  <1>1. TornInv => NeverTorn
    BY DEF TornInv, Named, Lasting, NeverTorn
  <1> QED BY <1>1, InitTorn, TornStep, PTL DEF Spec
-----------------------------------------------------------------------------
(* The caller's turn *)

\* Where no script was left running, only the call the caller waits for is
\* under way, and it is the one the step is about.
Alone ==
    ~Loose =>
        /\ \A c \in Calls : call[c].pc # "idle" => c \in caller
        /\ caller # {} => step \in Waiting
        /\ \A c, d \in caller : c = d
        /\ \A c \in caller :
              /\ call[c].pc # "idle"
              /\ step = "backup" => call[c].op = "link"
              /\ step = "placing" => /\ call[c].op = "put" /\ call[c].tgt = "dest"
                                     /\ call[c].sha = journal.to.sha.digest
              /\ step = "staging" => call[c].op = "put" /\ call[c].tgt = "store"

\* What the journal and the step say of each other.
Journalled ==
    /\ step # "idle" => journal.open
    /\ journal.open => ~IsNoop(DiffArtifacts(installed, journal.to))
    /\ step \in {"probe", "backup"} => ~journal.backup
    /\ step \in {"mkdir", "place", "placing"} => journal.backup
    /\ journal.backup \/ step \in {"probe", "backup"} => journal.open /\ ChangedInstall(installed, journal.to)

DestIs(tuple) == at["dest"] \in Regular /\ inode[at["dest"]].sha = tuple.sha.digest

\* What the update has left on the disk so far.
OnDisk ==
    (~Loose /\ (syncs \/ losses = 0)) =>
        /\ journal.open /\ ~journal.backup =>
              at["dest"] = journal.before /\ (syncs => mayAt["dest"] = {at["dest"]})
        /\ journal.backup /\ journal.before \in Regular =>
              syncs /\ mayAt["prev"] = {journal.before}
        /\ ~journal.open /\ syncs =>
              /\ mayAt["dest"] = {at["dest"]}
              /\ "install" \in installed.dispositions => DestIs(installed)
        /\ step \in {"stage", "staging", "record"} /\ syncs =>
              /\ mayAt["dest"] = {at["dest"]}
              /\ "install" \in journal.to.dispositions => DestIs(journal.to)

\* How far the caller's own call has come.
Backed(c) ==
    /\ call[c].pc \in {"rename", "sync", "confirm"} => call[c].ino = at["dest"]
    /\ call[c].pc \in {"sync", "confirm"} => at["prev"] = at["dest"]
    /\ call[c].pc = "confirm" \/ (call[c].pc = "done" /\ call[c].out = "ok") =>
          syncs /\ mayAt["prev"] = {at["dest"]}
Placed(c) ==
    /\ call[c].pc \in {"sync", "confirm"} \/ (call[c].pc = "done" /\ call[c].out = "ok") =>
          DestIs(journal.to)
    /\ call[c].pc = "confirm" \/ (call[c].pc = "done" /\ call[c].out = "ok") =>
          mayAt["dest"] = {at["dest"]}
Underway ==
    (~Loose /\ (syncs \/ losses = 0)) =>
        \A c \in caller : /\ step = "backup" => Backed(c)
                          /\ step = "placing" /\ syncs => Placed(c)

UpdateInv == TornInv /\ Alone /\ Journalled /\ OnDisk /\ Underway
\* A sequence under way stays the sequence it is.
LEMMA CallStepFields ==
  ASSUME Types, NEW c \in Calls, CallStep(c)
  PROVE  /\ Running(c) /\ call'[c].pc # "idle" /\ call'[c].op = call[c].op
         /\ call'[c].tgt = call[c].tgt /\ call'[c].sha = call[c].sha
         /\ \A d \in Calls : d # c => call'[d] = call[d]
  <1>0. call[c] \in CallRecords /\ call \in [Calls -> CallRecords]
    BY DEF Types
  <1>1. Running(c)
    BY DEF CallStep, Running, PutGuard, PutStage, PutCreate, PutWrite, PutMeta, PutFlush, PutRename,
       PutSync, PutConfirm, LinkGuard, LinkAside, LinkRename, LinkSync, LinkConfirm
  <1> DEFINE Same == /\ call'[c].pc # "idle" /\ call'[c].op = call[c].op
                     /\ call'[c].tgt = call[c].tgt /\ call'[c].sha = call[c].sha
                     /\ \A d \in Calls : d # c => call'[d] = call[d]
  <1>2. ASSUME NEW how \in {"ok", "transfer"}, End(c, how) PROVE Same
    BY <1>2, EndTypes
  <1>3. ASSUME NEW to \in {"guard", "stage", "create", "write", "meta", "flush", "link", "rename",
                           "sync", "confirm"}, Goto(c, to)
        PROVE  Same
    <2>1. call'[c] = [call[c] EXCEPT !.pc = to] /\ \A d \in Calls : d # c => call'[d] = call[d]
      BY <1>3, GotoTypes
    <2> QED BY <1>0, <1>3, <2>1 DEF CallRecords
  <1>4. ASSUME NEW to \in {"write", "rename"}, NEW i, call' = [call EXCEPT ![c].pc = to, ![c].ino = i]
        PROVE  Same
    BY <1>0, <1>4 DEF CallRecords
  <1>5. ASSUME call' = [call EXCEPT ![c].k = call[c].k + 1] PROVE Same
    BY <1>0, <1>1, <1>5 DEF CallRecords, Running
  <1> HIDE DEF Same
  <1>6. ASSUME PutGuard(c) \/ PutStage(c) \/ PutWrite(c) \/ PutMeta(c) \/ PutFlush(c) PROVE Same
    BY <1>2, <1>3, <1>6 DEF PutGuard, PutStage, PutWrite, PutMeta, PutFlush
  <1>7. ASSUME PutCreate(c) PROVE Same
    BY <1>4, <1>7 DEF PutCreate
  <1>8. ASSUME PutRename(c) \/ PutSync(c) \/ PutConfirm(c) PROVE Same
    BY <1>2, <1>3, <1>8 DEF PutRename, PutSync, PutConfirm
  <1>9. ASSUME LinkGuard(c) \/ LinkRename(c) \/ LinkSync(c) \/ LinkConfirm(c) PROVE Same
    BY <1>2, <1>3, <1>9 DEF LinkGuard, LinkRename, LinkSync, LinkConfirm
  <1>10. ASSUME LinkAside(c) PROVE Same
    BY <1>2, <1>4, <1>5, <1>10 DEF LinkAside
  <1>11. Same
    BY <1>6, <1>7, <1>8, <1>9, <1>10 DEF CallStep
  <1> QED BY <1>1, <1>11 DEF Same

\* Every step keeps the journal in agreement with the caller.
LEMMA JournalStep == Types /\ Journalled /\ [Next]_vars => Journalled'
  <1> SUFFICES ASSUME Types, Journalled, [Next]_vars PROVE Journalled'
    OBVIOUS
  <1>0. journal \in [to : Tuples, open : BOOLEAN, backup : BOOLEAN, before : Int]
    BY DEF Types, CallerOK
  <1>1. ASSUME UNCHANGED <<journal, installed>>, step' \in {step, "idle"} PROVE Journalled'
    BY <1>1 DEF Journalled
  <1>2. ASSUME NEW c \in Calls, CallStep(c) \/ CallFault(c) \/ CallKilled(c) \/ Reap(c)
        PROVE  Journalled'
    BY <1>1, <1>2 DEF CallStep, CallFault, CallKilled, Reap
  <1>3. ASSUME NEW r \in Releases, Begin(r) PROVE Journalled'
    <2> DEFINE j == [to |-> Manifest[r], open |-> TRUE, backup |-> FALSE, before |-> at["dest"]]
    <2>1. step' = "plan" /\ installed' = installed
      BY <1>3 DEF Begin
    <2>2. CASE journal' = j /\ ~IsNoop(DiffArtifacts(installed, Manifest[r]))
      <3>1. j.open /\ ~j.backup /\ j.to = Manifest[r]
        OBVIOUS
      <3> HIDE DEF j
      <3> QED BY <2>1, <2>2, <3>1 DEF Journalled
    <2>3. CASE UNCHANGED journal /\ journal.open
      BY <2>1, <2>3 DEF Journalled
    <2> QED BY <1>3, <2>2, <2>3 DEF Begin
  <1>4. CASE Plan
    <2>1. UNCHANGED <<journal, installed>> /\ step = "plan"
      BY <1>4 DEF Plan
    <2>2. CASE ChangedInstall(installed, journal.to)
      BY <1>4, <2>1, <2>2 DEF Plan, Journalled
    <2>3. CASE ~ChangedInstall(installed, journal.to)
      BY <1>4, <2>1, <2>3 DEF Plan, Journalled
    <2> QED BY <2>2, <2>3
  <1>5. CASE Backup
    <2>1. CASE at["dest"] = None
      <3>1. /\ journal' = [journal EXCEPT !.backup = TRUE] /\ step' = "mkdir" /\ step = "probe"
            /\ UNCHANGED installed
        BY <1>5, <2>1 DEF Backup
      <3>2. journal'.backup /\ journal'.open = journal.open /\ journal'.to = journal.to
        BY <1>0, <3>1
      <3> QED BY <3>1, <3>2 DEF Journalled
    <2>2. CASE at["dest"] # None
      <3>1. step = "probe" /\ step' = "backup" /\ UNCHANGED <<journal, installed>>
        BY <1>5, <2>2 DEF Backup, Start
      <3> QED BY <3>1 DEF Journalled
    <2> QED BY <2>1, <2>2
  <1>6. CASE BackupAnswer
    <2>1. /\ step = "backup" /\ step' \in {"mkdir", "idle"} /\ UNCHANGED installed
          /\ journal' = [journal EXCEPT !.backup = (step' = "mkdir")]
      BY <1>6, AnswerTypes DEF BackupAnswer
    <2>2. /\ journal'.backup = (step' = "mkdir") /\ journal'.open = journal.open
          /\ journal'.to = journal.to
      BY <1>0, <2>1
    <2> QED BY <2>1, <2>2 DEF Journalled
  <1>7. CASE MakeDir
    BY <1>7 DEF MakeDir, Journalled
  <1>8. CASE Place
    BY <1>8 DEF Place, Start, Journalled
  <1>9. CASE PlaceAnswer
    <2>1. step = "placing" /\ step' \in {"stage", "idle"} /\ UNCHANGED <<journal, installed>>
      BY <1>9, AnswerTypes DEF PlaceAnswer
    <2> QED BY <2>1 DEF Journalled
  <1>10. CASE Stage
    <2>1. step = "stage" /\ step' \in {"staging", "record"} /\ UNCHANGED <<journal, installed>>
      BY <1>10 DEF Stage, Start
    <2> QED BY <2>1 DEF Journalled
  <1>11. CASE StageAnswer
    <2>1. step = "staging" /\ step' \in {"record", "idle"} /\ UNCHANGED <<journal, installed>>
      BY <1>11, AnswerTypes DEF StageAnswer
    <2> QED BY <2>1 DEF Journalled
  <1>12. CASE Record
    BY <1>12 DEF Record, Journalled, NoJournal
  <1>13. CASE Abandon
    BY <1>1, <1>13 DEF Abandon
  <1>14. CASE PowerLoss
    BY <1>1, <1>14 DEF PowerLoss
  <1>15. CASE UNCHANGED vars
    BY <1>1, <1>15 DEF vars
  <1> QED BY <1>2, <1>3, <1>4, <1>5, <1>6, <1>7, <1>8, <1>9, <1>10, <1>11, <1>12, <1>13, <1>14,
            <1>15 DEF Next, CallerStep
\* A script that its caller gave up on stays one.
LEMMA LooseStays == Types /\ [Next]_vars => (~Loose' => ~Loose /\ transport' = transport)
  <1> SUFFICES ASSUME Types, [Next]_vars PROVE ~Loose' => ~Loose /\ transport' = transport
    OBVIOUS
  <1>1. abandons \in Nat
    BY DEF Types, CallerOK
  <1>2. transport' = transport /\ (abandons' = abandons \/ abandons' = abandons + 1)
    <2>1. ASSUME NEW c \in Calls, CallStep(c) \/ CallFault(c) \/ CallKilled(c) \/ Reap(c)
          PROVE  transport' = transport /\ abandons' = abandons
      BY <2>1 DEF CallStep, CallFault, CallKilled, Reap, host, counts
    <2>2. CASE CallerStep
      BY <2>2 DEF CallerStep, Begin, Plan, Backup, BackupAnswer, MakeDir, Place, PlaceAnswer, Stage,
         StageAnswer, Record, host, counts
    <2>3. CASE Abandon
      BY <2>3 DEF Abandon, host
    <2>4. CASE PowerLoss
      BY <2>4 DEF PowerLoss, host
    <2>5. CASE UNCHANGED vars
      BY <2>5 DEF vars, host, counts
    <2> QED BY <2>1, <2>2, <2>3, <2>4, <2>5 DEF Next
  <1> QED BY <1>1, <1>2 DEF Loose

\* While nothing is loose, at most the caller's own script runs.
LEMMA AloneStep == Types /\ Alone /\ [Next]_vars => Alone'
  <1> SUFFICES ASSUME Types, Alone, [Next]_vars, ~Loose' PROVE Alone'
    BY DEF Alone
  <1>0. ~Loose /\ call \in [Calls -> CallRecords] /\ caller \in SUBSET Calls
    BY LooseStays DEF Types, CallerOK
  <1> DEFINE Mine(c) == /\ call[c].pc # "idle"
                        /\ step = "backup" => call[c].op = "link"
                        /\ step = "placing" => /\ call[c].op = "put" /\ call[c].tgt = "dest"
                                               /\ call[c].sha = journal.to.sha.digest
                        /\ step = "staging" => call[c].op = "put" /\ call[c].tgt = "store"
  <1>1. /\ \A c \in Calls : call[c].pc # "idle" => c \in caller
        /\ caller # {} => step \in Waiting
        /\ \A c, d \in caller : c = d
        /\ \A c \in caller : Mine(c)
    BY <1>0 DEF Alone
  <1>2. ASSUME caller' = {}, \A c \in Calls : call'[c].pc = "idle" PROVE Alone'
    BY <1>2 DEF Alone
  <1>3. ASSUME UNCHANGED <<step, caller, journal>>, NEW c \in Calls, c \in caller,
               call'[c].pc # "idle", call'[c].op = call[c].op, call'[c].tgt = call[c].tgt,
               call'[c].sha = call[c].sha, \A d \in Calls : d # c => call'[d] = call[d]
        PROVE  Alone'
    BY <1>0, <1>1, <1>3 DEF Alone
  <1>4. ASSUME NEW c \in Calls, CallStep(c) PROVE Alone'
    <2>1. c \in caller
      BY <1>1, <1>4, CallStepFields DEF Running
    <2> QED BY <1>3, <1>4, <2>1, CallStepFields DEF CallStep
  <1>5. ASSUME NEW c \in Calls, CallFault(c) PROVE Alone'
    <2>1. c \in caller
      BY <1>1, <1>5 DEF CallFault, Running
    <2> QED BY <1>3, <1>5, <2>1, EndTypes DEF CallFault
  <1>6. ASSUME NEW c \in Calls, CallKilled(c) PROVE Alone'
    <2>1. c \in caller
      BY <1>1, <1>6 DEF CallKilled, Running
    <2> QED BY <1>3, <1>6, <2>1, EndTypes DEF CallKilled
  <1>7. ASSUME NEW c \in Calls, Reap(c) PROVE Alone'
    BY <1>1, <1>7 DEF Reap
  <1>8. ASSUME NEW op, NEW tgt \in Names, NEW next, Start(op, tgt, next), step \notin Waiting,
               \/ op = "link" /\ next = "backup"
               \/ op = "put" /\ next = "placing" /\ tgt = "dest"
               \/ op = "put" /\ next = "staging" /\ tgt = "store",
               UNCHANGED journal
        PROVE  Alone'
    <2>1. PICK c \in Calls :
             /\ caller' = {c} /\ call'[c].pc = "guard" /\ call'[c].op = op /\ call'[c].tgt = tgt
             /\ call'[c].sha = journal.to.sha.digest /\ step' = next
             /\ \A d \in Calls : d # c => call'[d] = call[d]
      BY <1>8, StartTypes
    <2>2. \A d \in Calls : d # c => call'[d].pc = "idle"
      BY <1>1, <1>8, <2>1
    <2> QED BY <1>8, <2>1, <2>2 DEF Alone, Waiting
  <1>9. ASSUME NEW next, Answer(next) PROVE Alone'
    <2>1. PICK c \in caller : /\ call'[c] = Idle /\ caller' = {}
                              /\ \A d \in Calls : d # c => call'[d] = call[d]
      BY <1>9, AnswerTypes
    <2>2. \A d \in Calls : call'[d].pc = "idle"
      BY <1>0, <1>1, <2>1, RestIsTyped
    <2> QED BY <1>2, <2>1, <2>2
  <1>10. ASSUME step \notin Waiting, UNCHANGED <<call, caller>> PROVE Alone'
    <2>1. caller' = {} /\ \A c \in Calls : call'[c].pc = "idle"
      BY <1>1, <1>10
    <2> QED BY <1>2, <2>1
  <1>11. CASE CallerStep
    <2>1. ASSUME NEW r \in Releases, Begin(r) PROVE Alone'
      BY <1>10, <2>1 DEF Begin, Waiting
    <2>2. CASE Plan \/ MakeDir \/ Record
      BY <1>10, <2>2 DEF Plan, MakeDir, Record, Waiting
    <2>3. CASE Backup
      BY <1>8, <1>10, <2>3 DEF Backup, Waiting, Names
    <2>4. CASE Place
      BY <1>8, <2>4 DEF Place, Waiting, Names
    <2>5. CASE Stage
      BY <1>8, <1>10, <2>5 DEF Stage, Waiting, Names
    <2>6. CASE BackupAnswer \/ PlaceAnswer \/ StageAnswer
      BY <1>9, <2>6 DEF BackupAnswer, PlaceAnswer, StageAnswer
    <2> QED BY <1>11, <2>1, <2>2, <2>3, <2>4, <2>5, <2>6 DEF CallerStep
  <1>12. CASE Abandon
    <2>1. abandons \in Nat /\ abandons' = abandons + 1 /\ transport' = transport
      BY <1>12 DEF Abandon, Types, CallerOK, host
    <2>2. transport # "shell"
      BY <2>1 DEF Loose
    <2>3. transport = "native"
      BY <2>2 DEF Types
    <2>4. caller' = {} /\ \A c \in Calls : call'[c].pc = "idle"
      BY <1>12, <2>3, RestIsTyped DEF Abandon
    <2> QED BY <1>2, <2>4
  <1>13. CASE PowerLoss
    <2>1. caller' = {} /\ \A c \in Calls : call'[c].pc = "idle"
      BY <1>13, RestIsTyped DEF PowerLoss
    <2> QED BY <1>2, <2>1
  <1>14. CASE UNCHANGED vars
    <2>1. UNCHANGED <<step, caller, journal, call>>
      BY <1>14 DEF vars
    <2> QED BY <1>0, <1>1, <2>1 DEF Alone
  <1> QED BY <1>4, <1>5, <1>6, <1>7, <1>11, <1>12, <1>13, <1>14 DEF Next

\* The bytes of a file that has a name are nobody's to change, and last where
\* syncing works.
LEMMA BytesKept ==
  ASSUME TornInv, [Next]_vars, syncs, NEW n \in Names, NEW e \in mayAt[n] \cap Regular
  PROVE  inode'[e].sha = inode[e].sha
  <1>0. DiskOK /\ e \in InUse /\ e \in Regular
    BY InUseParts DEF TornInv, Types
  <1>1. ASSUME NEW c \in Calls, CallStep(c) PROVE inode'[e].sha = inode[e].sha
    <2>1. CASE UNCHANGED inode
      BY <2>1
    <2>2. CASE PutCreate(c)
      <3>1. First(Free) \in Regular /\ First(Free) # e
        BY <1>0, <2>2, FreeInode DEF PutCreate, Free
      <3>2. inode' = [inode EXCEPT ![First(Free)] = Blank]
        BY <2>2 DEF PutCreate
      <3> QED BY <1>0, <3>1, <3>2 DEF DiskOK
    <2>3. CASE PutWrite(c) \/ PutMeta(c) \/ PutFlush(c)
      <3>1. call[c].ino # e
        BY <2>3 DEF TornInv, Apart, Writing, PutWrite, PutMeta, PutFlush
      <3> QED BY <1>0, <2>3, <3>1 DEF PutWrite, PutMeta, PutFlush, DiskOK
    <2> QED BY <1>1, <2>1, <2>2, <2>3 DEF CallStep, disk, PutGuard, PutStage, PutRename, PutSync,
         PutConfirm, LinkGuard, LinkAside, LinkRename, LinkSync, LinkConfirm
  <1>2. ASSUME NEW r \in Releases, Begin(r) PROVE inode'[e].sha = inode[e].sha
    BY <1>0, <1>2 DEF Begin, Free
  <1>3. CASE PowerLoss
    <2>1. inode[e].safe
      BY DEF TornInv, Named, Lasting
    <2> QED BY <1>0, <1>3, <2>1 DEF PowerLoss
  <1>4. ASSUME UNCHANGED inode PROVE inode'[e].sha = inode[e].sha
    BY <1>4
  <1> QED BY <1>1, <1>2, <1>3, <1>4 DEF Next, CallerStep, CallFault, CallKilled, Reap, Plan, Backup,
       BackupAnswer, MakeDir, Place, PlaceAnswer, Stage, StageAnswer, Record, Abandon, vars, disk
\* Where a release is on the disk it stays, as long as the name holds it.
LEMMA DestKept ==
  ASSUME TornInv, [Next]_vars, syncs, at'["dest"] = at["dest"], NEW tuple, DestIs(tuple)
  PROVE  at'["dest"] \in Regular /\ inode'[at'["dest"]].sha = tuple.sha.digest
  <1>1. "dest" \in Names /\ at["dest"] \in mayAt["dest"] \cap Regular
    BY DEF TornInv, Types, DiskOK, Names, DestIs
  <1> QED BY <1>1, BytesKept DEF DestIs

\* A step that touches neither name keeps what is on disk.
LEMMA OnDiskFrame ==
  ASSUME TornInv, OnDisk, [Next]_vars, UNCHANGED <<journal, installed, syncs, losses>>,
         step' \in {step, "idle", "plan", "probe", "backup", "mkdir", "place", "placing"},
         at'["dest"] = at["dest"], mayAt'["dest"] = mayAt["dest"], mayAt'["prev"] = mayAt["prev"]
  PROVE  OnDisk'
  <1> SUFFICES ASSUME ~Loose', syncs \/ losses = 0 PROVE OnDisk'
    BY DEF OnDisk
  <1>1. ~Loose
    BY LooseStays DEF TornInv
  <1>2. ASSUME NEW tuple, syncs, DestIs(tuple)
        PROVE  at'["dest"] \in Regular /\ inode'[at'["dest"]].sha = tuple.sha.digest
    BY <1>2, DestKept
  <1>3. /\ journal.open /\ ~journal.backup =>
             at["dest"] = journal.before /\ (syncs => mayAt["dest"] = {at["dest"]})
        /\ journal.backup /\ journal.before \in Regular => syncs /\ mayAt["prev"] = {journal.before}
        /\ ~journal.open /\ syncs =>
             /\ mayAt["dest"] = {at["dest"]}
             /\ "install" \in installed.dispositions => DestIs(installed)
        /\ step \in {"stage", "staging", "record"} /\ syncs =>
             /\ mayAt["dest"] = {at["dest"]}
             /\ "install" \in journal.to.dispositions => DestIs(journal.to)
    BY <1>1 DEF OnDisk
  <1>4. (~journal.open /\ syncs => ("install" \in installed.dispositions => DestIs(installed)))'
    BY <1>2, <1>3 DEF DestIs
  <1>5. (step \in {"stage", "staging", "record"} /\ syncs =>
           ("install" \in journal.to.dispositions => DestIs(journal.to)))'
    BY <1>2, <1>3 DEF DestIs
  <1> QED BY <1>3, <1>4, <1>5 DEF OnDisk

\* The caller's call is the only one that moves.
LEMMA CallersCall ==
  ASSUME UpdateInv, ~Loose, NEW c \in Calls, Running(c)
  PROVE  /\ caller = {c} /\ step \in Waiting
         /\ step = "backup" => call[c].op = "link"
         /\ step = "placing" => /\ call[c].op = "put" /\ call[c].tgt = "dest"
                                /\ call[c].sha = journal.to.sha.digest
         /\ step = "staging" => call[c].op = "put" /\ call[c].tgt = "store"
  BY DEF UpdateInv, Alone, Running

\* Every step of a script keeps what is on disk and what is underway.
LEMMA CallStepOnDisk ==
  ASSUME UpdateInv, [Next]_vars, NEW c \in Calls, CallStep(c)
  PROVE  (OnDisk /\ Underway)'
  <1> SUFFICES ASSUME ~Loose, syncs \/ losses = 0 PROVE (OnDisk /\ Underway)'
    BY DEF OnDisk, Underway, CallStep, Loose, host, counts
  <1>0. /\ TornInv /\ TornInv' /\ Types /\ DiskOK /\ OnDisk /\ call[c] \in CallRecords
        /\ UNCHANGED <<step, caller, installed, journal, syncs, losses>>
        /\ {"dest", "prev", "store"} = Names
    BY TornStep DEF UpdateInv, TornInv, Types, CallStep, host, counts, Names
  <1>1. /\ caller = {c} /\ step \in Waiting
        /\ step = "backup" => call[c].op = "link"
        /\ step = "placing" => /\ call[c].op = "put" /\ call[c].tgt = "dest"
                               /\ call[c].sha = journal.to.sha.digest
        /\ step = "staging" => call[c].op = "put" /\ call[c].tgt = "store"
    BY <1>0, CallStepFields, CallersCall
  <1>2. /\ step = "backup" => Backed(c)
        /\ step = "placing" /\ syncs => Placed(c)
        /\ step = "placing" => journal.backup
        /\ step = "backup" => journal.open /\ ~journal.backup
    BY <1>0, <1>1 DEF UpdateInv, Underway, Journalled
  \* A sequence that has neither renamed nor settled anything promises nothing yet.
  <1>3. ASSUME call'[c].pc \in {"stage", "create", "write", "meta", "flush", "link"}
                 \/ (call'[c].pc = "done" /\ call'[c].out = "transfer")
                 \/ (call'[c].pc = "rename" /\ call[c].op = "put")
        PROVE  Underway'
    BY <1>0, <1>1, <1>3 DEF Underway, Backed, Placed
  <1>4. ASSUME UNCHANGED <<at, mayAt>> PROVE OnDisk'
    BY <1>0, <1>4, OnDiskFrame
  <1>5. ASSUME UNCHANGED disk PROVE UNCHANGED <<at, mayAt>>
    BY <1>5 DEF disk
  <1>6. CASE PutGuard(c)
    BY <1>0, <1>3, <1>4, <1>5, <1>6, EndTypes, GotoTypes DEF PutGuard
  <1>7. CASE PutStage(c)
    BY <1>0, <1>3, <1>4, <1>5, <1>7, EndTypes, GotoTypes DEF PutStage
  <1>8. CASE PutCreate(c)
    <2>1. call'[c].pc = "write"
      BY <1>0, <1>8 DEF PutCreate, Types, CallRecords
    <2> QED BY <1>3, <1>4, <1>8, <2>1 DEF PutCreate
  <1>9. CASE PutWrite(c) \/ PutMeta(c) \/ PutFlush(c)
    <2>1. call'[c].pc \in {"meta", "flush", "rename"} /\ call[c].op = "put"
      BY <1>0, <1>9, GotoTypes DEF PutWrite, PutMeta, PutFlush
    <2> QED BY <1>3, <1>4, <1>9, <2>1 DEF PutWrite, PutMeta, PutFlush
  <1>10. CASE PutConfirm(c)
    <2>1. call'[c].pc = "done" /\ call[c].pc = "confirm" /\ UNCHANGED disk
      BY <1>0, <1>10, EndTypes DEF PutConfirm
    <2>2. OnDisk'
      BY <1>4, <1>5, <2>1
    <2>3. step = "placing" /\ syncs => Placed(c)'
      BY <1>0, <1>2, <2>1 DEF Placed, disk, DestIs
    <2>4. step # "backup"
      BY <1>1, <1>10 DEF PutConfirm
    <2> QED BY <1>0, <1>1, <2>2, <2>3, <2>4 DEF Underway
  <1>11. CASE LinkGuard(c)
    BY <1>0, <1>3, <1>4, <1>5, <1>11, EndTypes, GotoTypes DEF LinkGuard
  <1>12. CASE LinkAside(c)
    <2>0. UNCHANGED <<at, mayAt, inode>> /\ call[c].op = "link" /\ call[c].pc = "link"
      BY <1>12 DEF LinkAside
    <2>1. OnDisk'
      BY <1>4, <2>0
    <2>2. CASE call' = [call EXCEPT ![c].k = call[c].k + 1]
      <3>1. call'[c].pc = "link"
        BY <1>0, <2>0, <2>2 DEF Types, CallRecords
      <3> QED BY <1>3, <2>1, <3>1
    <2>3. CASE End(c, "transfer")
      BY <1>0, <1>3, <2>1, <2>3, EndTypes
    <2>4. CASE call' = [call EXCEPT ![c].pc = "rename", ![c].ino = at["dest"]]
      <3>1. call'[c].pc = "rename" /\ call'[c].ino = at["dest"]
        BY <1>0, <2>4 DEF Types, CallRecords
      <3>2. Backed(c)' /\ step # "placing"
        BY <1>1, <2>0, <3>1 DEF Backed
      <3> QED BY <1>0, <1>1, <2>1, <3>2 DEF Underway
    <2> QED BY <1>12, <2>2, <2>3, <2>4 DEF LinkAside
  <1>13. CASE LinkConfirm(c)
    <2>1. /\ call'[c].pc = "done" /\ call[c].pc = "confirm" /\ UNCHANGED <<at, mayAt>>
          /\ call[c].op = "link"
      BY <1>0, <1>13, EndTypes DEF LinkConfirm
    <2>2. step = "backup" => Backed(c)'
      BY <1>0, <1>2, <2>1 DEF Backed
    <2> QED BY <1>0, <1>1, <1>4, <2>1, <2>2 DEF Underway
  <1>14. CASE PutRename(c)
    <2>1. CASE End(c, "transfer") /\ UNCHANGED <<at, mayAt>>
      BY <1>0, <1>3, <1>4, <2>1, EndTypes
    <2>2. CASE Enter(call[c].tgt, call[c].ino) /\ Goto(c, "sync")
      <3>1. /\ call'[c].pc = "sync" /\ call[c].op = "put" /\ inode' = inode
            /\ call[c].ino \in Regular /\ inode[call[c].ino].sha = call[c].sha
        BY <1>0, <1>14, <2>2, GotoTypes DEF PutRename, TornInv, Apart, Staged, Writing
      <3>2. CASE step = "placing"
        <4>1. at'["dest"] = call[c].ino /\ mayAt'["prev"] = mayAt["prev"]
          BY <1>0, <1>1, <2>2, <3>2 DEF Enter, DiskOK
        <4>2. DestIs(journal.to)'
          BY <1>0, <1>1, <3>1, <3>2, <4>1 DEF DestIs
        <4>3. Placed(c)'
          BY <3>1, <4>2 DEF Placed
        <4>4. OnDisk'
          BY <1>0, <1>2, <3>2, <4>1 DEF OnDisk, UpdateInv, Journalled
        <4> QED BY <1>0, <1>1, <3>2, <4>3, <4>4 DEF Underway
      <3>3. CASE step = "staging"
        <4>1. /\ at'["dest"] = at["dest"] /\ mayAt'["dest"] = mayAt["dest"]
              /\ mayAt'["prev"] = mayAt["prev"]
          BY <1>0, <1>1, <2>2, <3>3 DEF Enter, DiskOK
        <4> QED BY <1>0, <3>3, <4>1, OnDiskFrame DEF Underway
      <3> QED BY <1>1, <3>1, <3>2, <3>3 DEF Waiting
    <2> QED BY <1>14, <2>1, <2>2 DEF PutRename
  <1>15. CASE PutSync(c)
    <2>1. /\ call'[c].pc \in {"confirm", "done"} /\ call[c].op = "put" /\ call[c].pc = "sync"
          /\ inode' = inode /\ at' = at
      BY <1>0, <1>15, GotoTypes, EndTypes DEF PutSync
    <2>2. CASE ~syncs
      BY <1>0, <1>1, <1>4, <1>15, <2>1, <2>2 DEF PutSync, Underway
    <2>3. CASE syncs /\ step = "placing"
      <3>1. mayAt'["dest"] = {at["dest"]} /\ mayAt'["prev"] = {at["prev"]}
        BY <1>0, <1>1, <1>15, <2>3 DEF PutSync, Settle, Beside
      <3>2. DestIs(journal.to)'
        BY <1>0, <1>2, <2>1, <2>3 DEF Placed, DestIs
      <3>3. Placed(c)'
        BY <2>1, <3>1, <3>2 DEF Placed
      <3>4. OnDisk'
        BY <1>0, <1>2, <2>1, <2>3, <3>1 DEF OnDisk, UpdateInv, Journalled, DiskOK
      <3> QED BY <1>0, <1>1, <2>3, <3>3, <3>4 DEF Underway
    <2>4. CASE syncs /\ step = "staging"
      <3>1. mayAt'["dest"] = mayAt["dest"] /\ mayAt'["prev"] = mayAt["prev"]
        BY <1>0, <1>1, <1>15, <2>4 DEF PutSync, Settle, Beside
      <3> QED BY <1>0, <2>1, <2>4, <3>1, OnDiskFrame DEF Underway
    <2> QED BY <1>1, <2>1, <2>2, <2>3, <2>4 DEF Waiting
  <1>16. CASE LinkRename(c)
    <2>0. /\ step = "backup" /\ call[c].pc = "rename" /\ call[c].ino = at["dest"]
      BY <1>1, <1>2, <1>16 DEF LinkRename, Backed, Waiting
    <2>1. CASE End(c, "transfer") /\ UNCHANGED <<at, mayAt>>
      BY <1>0, <1>3, <1>4, <2>1, EndTypes
    <2>2. CASE /\ Goto(c, "sync")
               /\ IF at["prev"] = call[c].ino THEN UNCHANGED <<at, mayAt>>
                  ELSE Enter("prev", call[c].ino)
      <3>1. call'[c].pc = "sync" /\ call'[c].ino = call[c].ino
        BY <1>0, <2>2, GotoTypes DEF CallRecords
      <3>2. at'["prev"] = at["dest"] /\ at'["dest"] = at["dest"] /\ mayAt'["dest"] = mayAt["dest"]
        BY <1>0, <2>0, <2>2 DEF Enter, DiskOK
      <3>3. Backed(c)'
        BY <2>0, <3>1, <3>2 DEF Backed
      <3>4. OnDisk'
        BY <1>0, <1>2, <2>0, <3>2 DEF OnDisk
      <3> QED BY <1>0, <1>1, <2>0, <3>3, <3>4 DEF Underway
    <2> QED BY <1>16, <2>1, <2>2 DEF LinkRename
  <1>17. CASE LinkSync(c)
    <2>0. /\ step = "backup" /\ call[c].pc = "sync" /\ call[c].ino = at["dest"]
          /\ at["prev"] = at["dest"] /\ at' = at
      BY <1>1, <1>2, <1>17 DEF LinkSync, Backed, Waiting
    <2>1. CASE ~syncs
      BY <1>0, <1>3, <1>4, <1>17, <2>1, EndTypes DEF LinkSync
    <2>2. CASE syncs
      <3>1. mayAt'["dest"] = {at["dest"]} /\ mayAt'["prev"] = {at["prev"]}
        BY <1>0, <1>17, <2>2 DEF LinkSync, Settle, Beside
      <3>2. /\ call'[c].pc \in {"confirm", "done"}
            /\ call'[c].ino = call[c].ino
        <4>1. CASE Goto(c, "confirm")
          BY <1>0, <4>1, GotoTypes DEF CallRecords
        <4>2. CASE End(c, "ok")
          BY <1>0, <4>2, EndTypes
        <4> QED BY <1>17, <2>2, <4>1, <4>2 DEF LinkSync
      <3>3. Backed(c)'
        BY <1>0, <2>0, <2>2, <3>1, <3>2 DEF Backed
      <3>4. OnDisk'
        BY <1>0, <1>2, <2>0, <2>2, <3>1 DEF OnDisk
      <3> QED BY <1>0, <1>1, <2>0, <3>3, <3>4 DEF Underway
    <2> QED BY <2>1, <2>2
  <1> QED BY <1>6, <1>7, <1>8, <1>9, <1>10, <1>11, <1>12, <1>13, <1>14, <1>15, <1>16, <1>17
       DEF CallStep

\* Every step of the caller keeps what is on disk and what is underway.
LEMMA CallerOnDisk ==
  ASSUME UpdateInv, [Next]_vars, CallerStep
  PROVE  (OnDisk /\ Underway)'
  <1>0. /\ TornInv /\ Types /\ DiskOK /\ OnDisk /\ Journalled
        /\ journal \in [to : Tuples, open : BOOLEAN, backup : BOOLEAN, before : Int]
    BY DEF UpdateInv, TornInv, Types, CallerOK
  <1>1. UNCHANGED <<transport, syncs, abandons, losses, at, mayAt>>
    BY DEF CallerStep, Begin, Plan, Backup, BackupAnswer, MakeDir, Place, PlaceAnswer, Stage,
       StageAnswer, Record, host, counts, disk
  <1> SUFFICES ASSUME ~Loose, syncs \/ losses = 0 PROVE (OnDisk /\ Underway)'
    BY <1>1 DEF OnDisk, Underway, Loose
  <1>2. /\ journal.open /\ ~journal.backup =>
             at["dest"] = journal.before /\ (syncs => mayAt["dest"] = {at["dest"]})
        /\ journal.backup /\ journal.before \in Regular => syncs /\ mayAt["prev"] = {journal.before}
        /\ ~journal.open /\ syncs =>
             /\ mayAt["dest"] = {at["dest"]}
             /\ "install" \in installed.dispositions => DestIs(installed)
        /\ step \in {"stage", "staging", "record"} /\ syncs =>
             /\ mayAt["dest"] = {at["dest"]}
             /\ "install" \in journal.to.dispositions => DestIs(journal.to)
    BY <1>0 DEF OnDisk
  <1>3. step \notin Waiting => caller = {}
    BY DEF UpdateInv, Alone
  <1>4. ASSUME caller' = {} PROVE Underway'
    BY <1>4 DEF Underway
  <1>5. ASSUME NEW op \in {"put", "link"}, NEW tgt \in Names, NEW next, Start(op, tgt, next)
        PROVE  Underway' /\ step' = next
    <2>1. /\ step' = next /\ \A c \in caller' : call'[c].pc = "guard"
      BY <1>0, <1>5, StartTypes
    <2> QED BY <2>1 DEF Underway, Backed, Placed
  <1>6. ASSUME NEW tuple, syncs, DestIs(tuple), UNCHANGED inode
        PROVE  at'["dest"] \in Regular /\ inode'[at'["dest"]].sha = tuple.sha.digest
    BY <1>1, <1>6 DEF DestIs
  <1>7. ASSUME NEW r \in Releases, Begin(r) PROVE (OnDisk /\ Underway)'
    <2> DEFINE j == [to |-> Manifest[r], open |-> TRUE, backup |-> FALSE, before |-> at["dest"]]
    <2>1. /\ step = "idle" /\ step' = "plan" /\ caller' = {}
          /\ ~journal.backup \/ journal.open
      BY <1>0, <1>3, <1>7 DEF Begin, Waiting, Journalled
    <2>2. CASE journal' = j /\ ~journal.open
      <3>1. j.open /\ ~j.backup /\ j.before = at["dest"]
        OBVIOUS
      <3> HIDE DEF j
      <3>2. OnDisk'
        BY <1>1, <1>2, <2>1, <2>2, <3>1 DEF OnDisk
      <3> QED BY <1>4, <2>1, <3>2
    <2>3. CASE UNCHANGED journal /\ journal.open
      <3>1. OnDisk'
        BY <1>1, <1>2, <2>1, <2>3 DEF OnDisk
      <3> QED BY <1>4, <2>1, <3>1
    <2> QED BY <1>7, <2>2, <2>3 DEF Begin
  <1>8. CASE Plan
    <2>1. /\ step = "plan" /\ UNCHANGED <<journal, installed, inode>> /\ journal.open /\ caller' = {}
      BY <1>0, <1>3, <1>8 DEF Plan, Waiting, Journalled, disk
    <2>2. CASE ChangedInstall(installed, journal.to)
      <3>1. step' \in {"mkdir", "probe"}
        BY <1>8, <2>2 DEF Plan
      <3>2. OnDisk'
        BY <1>1, <1>2, <2>1, <3>1 DEF OnDisk
      <3> QED BY <1>4, <2>1, <3>2
    <2>3. CASE ~ChangedInstall(installed, journal.to)
      <3>1. step' = "stage"
        BY <1>8, <2>3 DEF Plan
      <3>2. ~journal.backup /\ "install" \notin journal.to.dispositions
        BY <1>0, <2>1, <2>3 DEF Journalled, ChangedInstall
      <3>3. OnDisk'
        BY <1>1, <1>2, <2>1, <3>1, <3>2 DEF OnDisk
      <3> QED BY <1>4, <2>1, <3>3
    <2> QED BY <2>2, <2>3
  <1>9. CASE Backup
    <2>0. step = "probe" /\ journal.open /\ ~journal.backup
      BY <1>0, <1>9 DEF Backup, Journalled
    <2>1. CASE at["dest"] = None
      <3>1. /\ journal' = [journal EXCEPT !.backup = TRUE] /\ step' = "mkdir" /\ caller' = {}
        BY <1>3, <1>9, <2>0, <2>1 DEF Backup, Waiting
      <3>2. journal'.backup /\ journal'.open /\ journal'.before = journal.before
        BY <1>0, <2>0, <3>1
      <3>3. journal.before \notin Regular
        BY <1>2, <2>0, <2>1 DEF None, Regular
      <3>4. OnDisk'
        BY <1>1, <3>1, <3>2, <3>3 DEF OnDisk
      <3> QED BY <1>4, <3>1, <3>4
    <2>2. CASE at["dest"] # None
      <3>1. Underway' /\ step' = "backup"
        BY <1>5, <1>9, <2>2 DEF Backup, Names
      <3>2. UNCHANGED journal
        BY <1>9, <2>2 DEF Backup
      <3>3. OnDisk'
        BY <1>1, <1>2, <2>0, <3>1, <3>2 DEF OnDisk
      <3> QED BY <3>1, <3>3
    <2> QED BY <2>1, <2>2
  <1>10. CASE BackupAnswer
    <2>0. step = "backup" /\ journal.open /\ ~journal.backup
      BY <1>0, <1>10 DEF BackupAnswer, Journalled
    <2>1. PICK c \in caller : /\ call[c].pc = "done" /\ caller' = {}
                              /\ step' = IF call[c].out = "ok" THEN "mkdir" ELSE "idle"
      BY <1>0, <1>10, AnswerTypes DEF BackupAnswer
    <2>2. /\ journal'.backup = (step' = "mkdir") /\ journal'.open = journal.open
          /\ journal'.before = journal.before
      <3>1. journal' = [journal EXCEPT !.backup = (step' = "mkdir")]
        BY <1>10 DEF BackupAnswer
      <3> QED BY <1>0, <3>1
    <2>3. step' = "mkdir" => syncs /\ mayAt["prev"] = {at["dest"]}
      BY <2>0, <2>1 DEF UpdateInv, Underway, Backed
    <2>4. OnDisk'
      <3>1. CASE step' = "mkdir"
        BY <1>1, <1>2, <2>0, <2>2, <2>3, <3>1 DEF OnDisk
      <3>2. CASE step' = "idle"
        BY <1>1, <1>2, <2>0, <2>2, <3>2 DEF OnDisk
      <3> QED BY <2>1, <3>1, <3>2
    <2> QED BY <1>4, <2>1, <2>4
  <1>11. CASE MakeDir
    <2>1. /\ step = "mkdir" /\ step' \in {"idle", "place"} /\ UNCHANGED <<journal, installed>>
          /\ journal.open /\ caller' = {}
      BY <1>0, <1>3, <1>11 DEF MakeDir, Waiting, Journalled
    <2>2. OnDisk'
      BY <1>1, <1>2, <2>1 DEF OnDisk
    <2> QED BY <1>4, <2>1, <2>2
  <1>12. CASE Place
    <2>1. step = "place" /\ UNCHANGED journal /\ journal.open
      BY <1>0, <1>12 DEF Place, Journalled
    <2>2. Underway' /\ step' = "placing"
      BY <1>5, <1>12 DEF Place, Names
    <2>3. OnDisk'
      BY <1>1, <1>2, <2>1, <2>2 DEF OnDisk
    <2> QED BY <2>2, <2>3
  <1>13. CASE PlaceAnswer
    <2>0. step = "placing" /\ journal.open /\ UNCHANGED <<journal, inode>>
      BY <1>0, <1>13 DEF PlaceAnswer, Journalled, disk
    <2>1. PICK c \in caller : /\ call[c].pc = "done" /\ caller' = {}
                              /\ step' = IF call[c].out = "ok" THEN "stage" ELSE "idle"
      BY <1>0, <1>13, AnswerTypes DEF PlaceAnswer
    <2>2. step' = "stage" /\ syncs => mayAt["dest"] = {at["dest"]} /\ DestIs(journal.to)
      BY <2>0, <2>1 DEF UpdateInv, Underway, Placed
    <2>3. OnDisk'
      BY <1>1, <1>2, <1>6, <2>0, <2>1, <2>2 DEF OnDisk, DestIs
    <2> QED BY <1>4, <2>1, <2>3
  <1>14. CASE Stage
    <2>0. step = "stage" /\ journal.open /\ UNCHANGED <<journal, inode>>
      BY <1>0, <1>14 DEF Stage, Journalled, disk
    <2>1. Underway' /\ step' \in {"staging", "record"}
      <3>1. CASE ChangedStage(installed, journal.to)
        BY <1>5, <1>14, <3>1 DEF Stage, Names
      <3>2. CASE ~ChangedStage(installed, journal.to)
        BY <1>3, <1>4, <1>14, <3>2 DEF Stage, Waiting
      <3> QED BY <3>1, <3>2
    <2>2. OnDisk'
      BY <1>1, <1>2, <1>6, <2>0, <2>1 DEF OnDisk, DestIs
    <2> QED BY <2>1, <2>2
  <1>15. CASE StageAnswer
    <2>0. step = "staging" /\ journal.open /\ UNCHANGED <<journal, inode>>
      BY <1>0, <1>15 DEF StageAnswer, Journalled, disk
    <2>1. caller' = {} /\ step' \in {"record", "idle"}
      BY <1>0, <1>15, AnswerTypes DEF StageAnswer
    <2>2. OnDisk'
      BY <1>1, <1>2, <1>6, <2>0, <2>1 DEF OnDisk, DestIs
    <2> QED BY <1>4, <2>1, <2>2
  <1>16. CASE Record
    <2>0. /\ step = "record" /\ step' = "idle" /\ installed' = journal.to /\ journal' = NoJournal
          /\ UNCHANGED inode /\ caller' = {}
      BY <1>3, <1>16 DEF Record, disk, Waiting
    <2>1. ~NoJournal.open /\ ~NoJournal.backup
      BY DEF NoJournal
    <2>2. OnDisk'
      BY <1>1, <1>2, <1>6, <2>0, <2>1 DEF OnDisk, DestIs
    <2> QED BY <1>4, <2>0, <2>2
  <1> QED BY <1>7, <1>8, <1>9, <1>10, <1>11, <1>12, <1>13, <1>14, <1>15, <1>16 DEF CallerStep

\* Every step keeps the invariant of an update.
LEMMA UpdateStep == UpdateInv /\ [Next]_vars => UpdateInv'
  <1> SUFFICES ASSUME UpdateInv, [Next]_vars PROVE UpdateInv'
    OBVIOUS
  <1>0. /\ TornInv /\ TornInv' /\ Types /\ OnDisk /\ Underway
        /\ Alone' /\ Journalled'
    BY TornStep, AloneStep, JournalStep DEF UpdateInv, TornInv
  <1>1. ASSUME NEW c \in Calls, End(c, "transfer"),
               UNCHANGED <<at, mayAt, step, caller, installed, journal, syncs, losses>>
        PROVE  (OnDisk /\ Underway)'
    <2>1. OnDisk'
      BY <1>0, <1>1, OnDiskFrame
    <2>2. Underway'
      <3> SUFFICES ASSUME ~Loose', syncs \/ losses = 0, NEW d \in caller
                   PROVE  (step = "backup" => Backed(d))' /\ (step = "placing" /\ syncs => Placed(d))'
        BY <1>1 DEF Underway
      <3>1. ~Loose /\ d \in Calls
        BY <1>0, LooseStays DEF Types, CallerOK
      <3>2. CASE d = c
        BY <1>0, <1>1, <3>2, EndTypes DEF Backed, Placed
      <3>3. CASE d # c
        <4>1. call'[d] = call[d]
          BY <1>0, <1>1, <3>1, <3>3, EndTypes
        <4>2. step = "backup" => Backed(d)
          BY <1>0, <3>1 DEF Underway
        <4>3. (step = "backup" => Backed(d))'
          BY <1>1, <4>1, <4>2 DEF Backed
        <4>4. ASSUME step = "placing", syncs PROVE Placed(d)'
          <5>1. Placed(d)
            BY <1>0, <3>1, <4>4 DEF Underway
          <5>2. DestIs(journal.to) => DestIs(journal.to)'
            BY <1>0, <1>1, <4>4, DestKept DEF DestIs
          <5> QED BY <1>1, <4>1, <5>1, <5>2 DEF Placed
        <4> QED BY <1>1, <4>3, <4>4
      <3> QED BY <3>2, <3>3
    <2> QED BY <2>1, <2>2
  <1>2. ASSUME NEW c \in Calls, CallFault(c) PROVE (OnDisk /\ Underway)'
    BY <1>1, <1>2 DEF CallFault, host
  <1>3. ASSUME NEW c \in Calls, CallKilled(c) PROVE (OnDisk /\ Underway)'
    BY <1>1, <1>3 DEF CallKilled, host, disk
  <1>4. ASSUME NEW c \in Calls, Reap(c) PROVE (OnDisk /\ Underway)'
    <2>1. Loose
      BY <1>4 DEF Reap, UpdateInv, Alone
    <2>2. Loose'
      BY <1>0, <2>1, LooseStays
    <2> QED BY <2>2 DEF OnDisk, Underway
  <1>5. ASSUME Abandon PROVE (OnDisk /\ Underway)'
    <2>1. /\ UNCHANGED <<at, mayAt, installed, journal, syncs, losses>> /\ step' = "idle"
          /\ caller' = {}
      BY <1>5 DEF Abandon, host, disk
    <2>2. OnDisk'
      BY <1>0, <2>1, OnDiskFrame
    <2>3. Underway'
      BY <2>1 DEF Underway
    <2> QED BY <2>2, <2>3
  <1>6. ASSUME PowerLoss PROVE (OnDisk /\ Underway)'
    <2>1. /\ UNCHANGED <<installed, journal, syncs>> /\ step' = "idle" /\ caller' = {}
          /\ losses' = losses + 1 /\ losses \in Nat
      BY <1>0, <1>6 DEF PowerLoss, host, Types, CallerOK
    <2>2. Underway'
      BY <2>1 DEF Underway
    <2>3. ASSUME NEW n \in Names PROVE at'[n] \in mayAt[n] /\ mayAt'[n] = {at'[n]}
      BY <1>6 DEF PowerLoss
    <2>4. OnDisk'
      <3> SUFFICES ASSUME ~Loose', (syncs \/ losses = 0)' PROVE OnDisk'
        BY DEF OnDisk
      <3>0. losses' # 0
        BY <2>1
      <3>1. syncs
        BY <2>1, <3>0, Zenon
      <3>2. ~Loose /\ "dest" \in Names /\ "prev" \in Names
        BY <1>0, LooseStays DEF Names
      <3>3. /\ journal.open /\ ~journal.backup =>
                 at["dest"] = journal.before /\ mayAt["dest"] = {at["dest"]}
            /\ journal.backup /\ journal.before \in Regular => mayAt["prev"] = {journal.before}
            /\ ~journal.open =>
                 /\ mayAt["dest"] = {at["dest"]}
                 /\ "install" \in installed.dispositions => DestIs(installed)
        BY <1>0, <3>1, <3>2 DEF OnDisk
      <3>4. ~journal.open /\ "install" \in installed.dispositions => DestIs(installed)'
        <4> SUFFICES ASSUME ~journal.open, "install" \in installed.dispositions
                     PROVE  DestIs(installed)'
          OBVIOUS
        <4>1. at'["dest"] = at["dest"] /\ DestIs(installed)
          BY <2>3, <3>2, <3>3
        <4> QED BY <1>0, <2>1, <3>1, <4>1, DestKept DEF DestIs
      <3> QED BY <2>1, <2>3, <3>1, <3>2, <3>3, <3>4 DEF OnDisk
    <2> QED BY <2>2, <2>4
  <1>7. ASSUME UNCHANGED vars PROVE (OnDisk /\ Underway)'
    <2>1. UNCHANGED <<transport, syncs, at, mayAt, inode, call, step, caller, installed, journal,
                      abandons, losses>>
      BY <1>7 DEF vars, host, disk, counts
    <2> QED BY <1>0, <2>1 DEF OnDisk, Underway, Loose, DestIs, Backed, Placed
  <1>8. (OnDisk /\ Underway)'
    BY <1>2, <1>3, <1>4, <1>5, <1>6, <1>7, CallStepOnDisk, CallerOnDisk DEF Next
  <1> QED BY <1>0, <1>8 DEF UpdateInv

\* The invariant of an update holds at the start.
LEMMA InitUpdate == Init => UpdateInv
  <1> SUFFICES ASSUME Init PROVE UpdateInv
    OBVIOUS
  <1>1. TornInv
    BY InitTorn
  <1>2. /\ \A c \in Calls : call[c].pc = "idle"
        /\ caller = {} /\ step = "idle" /\ ~journal.open /\ ~journal.backup
    BY RestIsTyped DEF Init, NoJournal
  <1>3. Alone /\ Journalled /\ Underway
    BY <1>2 DEF Alone, Journalled, Underway
  <1>4. OnDisk
    <2>1. "dest" \in Names /\ mayAt["dest"] = {at["dest"]}
      BY DEF Init, Names
    <2>2. ASSUME "install" \in installed.dispositions PROVE DestIs(installed)
      <3>1. installed # NotInstalled
        BY <2>2 DEF NotInstalled
      <3>2. at["dest"] = 1
        BY <3>1 DEF Init, Names
      <3>3. 1 \in Regular
        BY HostUpdateAssumption DEF Regular
      <3>4. inode[1].sha = installed.sha.digest
        BY <3>1, <3>3 DEF Init, Sound
      <3> QED BY <3>2, <3>3, <3>4 DEF DestIs
    <2> QED BY <1>2, <2>1, <2>2 DEF OnDisk
  <1> QED BY <1>1, <1>3, <1>4 DEF UpdateInv

\* As long as no script was left running behind its caller, the rollback point
\* stands from the record of the backup to the record of the update, through
\* every fault, kill, power loss and resumption (backup_previous_artifact,
\* hard_link_over).
THEOREM RollbackPointStands == Spec => []RollbackPoint
  <1>1. UpdateInv => RollbackPoint
    BY DEF UpdateInv, OnDisk, RollbackPoint
  <1> QED BY <1>1, InitUpdate, UpdateStep, PTL DEF Spec

\* A release that the caller recorded is in place whole, with the recorded
\* digest, whatever the host then loses (put_file, diff_artifacts).
THEOREM BaselineStands == Spec => []BaselineOnDisk
  <1>1. UpdateInv => BaselineOnDisk
    BY DEF UpdateInv, TornInv, Types, DiskOK, Names, Named, Lasting, OnDisk, DestIs, BaselineOnDisk
  <1> QED BY <1>1, InitUpdate, UpdateStep, PTL DEF Spec
=============================================================================
