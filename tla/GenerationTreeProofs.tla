------------------------ MODULE GenerationTreeProofs ------------------------
(***************************************************************************)
(* Proofs, for every number of files, generations, faults and power        *)
(* losses, that the generation engine keeps its inductive invariant, and   *)
(* of what its readers get from it.                                        *)
(***************************************************************************)
EXTENDS GenerationTree, FiniteSetTheorems, TLAPS

USE ConstantsAssumption DEF Indices

\* The initial tree satisfies the invariant.
LEMMA InitInv == Init => Inv
  <1> SUFFICES ASSUME Init PROVE Inv  OBVIOUS
  <1>1. TypeOK
    <2>1. reload_unit \in BOOLEAN /\ asked \in BOOLEAN /\ late \in BOOLEAN
      BY Zenon DEF Init
    <2>2. reader \in Readers
      BY DEF Init, NoReader, Readers
    <2>3. NoDir \in Entries
      BY DEF Entries
    <2> QED
      BY <2>1, <2>2, <2>3 DEF Init, TypeOK, Scratches, PCs, Staging, Finalised, Live
  <1>2. CrashClosed
    BY DEF Init, CrashClosed
  <1>3. Anchored
    BY DEF Init, Anchored
  <1>4. Remembered
    BY DEF Init, Remembered, NoReader
  <1>5. Staged
    BY DEF Init, Staged, Staging, Finalised, Live
  <1> QED BY <1>1, <1>2, <1>3, <1>4, <1>5 DEF Inv

\* A directory a step of remove_dir_all leaves is a directory or nothing, and
\* never other material.
LEMMA UnlinkedType ==
  ASSUME NEW d \in Entries, d # NoDir
  PROVE  /\ Unlinked(d) \in Entries
         /\ Unlinked(d) # NoDir => Unlinked(d).mat = d.mat
  BY DEF Entries, Dirs, NoDir, Unlinked

\* NoDir is no directory of any material.
LEMMA NoDirType == NoDir \in Entries /\ NoDir \notin Dirs /\ ~Trustworthy(NoDir)
  BY DEF Entries, Dirs, NoDir, Trustworthy, Complete

\* Every step keeps the types.
LEMMA TypeStep == Inv /\ [Next]_vars => TypeOK'
  <1> SUFFICES ASSUME Inv, [Next]_vars PROVE TypeOK'  OBVIOUS
  <1> USE DEF Inv
  <1>1. ASSUME NEW m \in Materials, Call(m) PROVE TypeOK'
    <2>1. UNCHANGED reload_unit /\ asked' \in BOOLEAN /\ late' \in BOOLEAN
      BY <1>1, Zenon DEF Call
    <2> QED
      BY <1>1, <2>1 DEF TypeOK, Call, fs, may, bounds, PCs, Staging, Finalised, Live
  <1>2. ASSUME NEW m \in Malformed, CallRefused(m) PROVE TypeOK'
    BY <1>2 DEF TypeOK, CallRefused, Return, other, fs, may, unit, bounds, PCs, Staging,
                Finalised, Live
  <1>3. CASE MatchNoop
    BY <1>3 DEF TypeOK, MatchNoop, Return, other, fs, may, unit, bounds, PCs, Staging,
                Finalised, Live
  <1>4. CASE Allocate
    BY <1>4 DEF TypeOK, Allocate, Goto, other, fs, may, unit, bounds, PCs, Staging,
                Finalised, Live
  <1>5. CASE ClearTmp
    BY <1>5, UnlinkedType, NoDirType
       DEF TypeOK, ClearTmp, PutTmp, Goto, other, call, unit, bounds, PCs, Staging,
           Finalised, Live
  <1>6. CASE MakeTmp
    <2>1. [mat |-> req, files |-> 0] \in Entries
      BY <1>6 DEF TypeOK, MakeTmp, Entries, Dirs
    <2> QED
      BY <1>6, <2>1 DEF TypeOK, MakeTmp, PutTmp, Goto, other, call, unit, bounds, PCs,
                        Staging, Finalised, Live
  <1>7. CASE WriteFile
    <2>1. tmp[idx] \in Dirs
      BY <1>7 DEF TypeOK, Staged, WriteFile, Entries, NoDir, Staging
    <2>2. [tmp[idx] EXCEPT !.files = @ + 1] \in Entries
      BY <1>7, <2>1 DEF WriteFile, Entries, Dirs
    <2> QED
      BY <1>7, <2>2 DEF TypeOK, WriteFile, PutTmp, Goto, other, call, unit, bounds, PCs,
                        Staging, Finalised, Live
  <1>8. CASE Validate
    BY <1>8 DEF TypeOK, Validate, Goto, other, fs, may, call, unit, bounds, PCs, Staging,
                Finalised, Live
  <1>9. CASE Reject
    BY <1>9, UnlinkedType, NoDirType
       DEF TypeOK, Reject, PutTmp, Goto, Return, other, call, unit, bounds, PCs, Staging,
           Finalised, Live
  <1>10. CASE FlushTmp
    BY <1>10 DEF TypeOK, FlushTmp, SyncTmp, Goto, other, fs, call, unit, bounds, PCs,
                 Staging, Finalised, Live
  <1>11. CASE Finalise
    BY <1>11, NoDirType
       DEF TypeOK, Finalise, PutGen, PutTmp, Goto, other, call, unit, bounds, PCs,
           Staging, Finalised, Live
  <1>12. CASE FlushFinalised
    BY <1>12, NoDirType
       DEF TypeOK, FlushFinalised, SyncRoot, Settled, Goto, other, fs, call, unit, bounds,
           PCs, Staging, Finalised, Live
  <1>13. CASE ClearScratch
    BY <1>13 DEF TypeOK, ClearScratch, PutScratch, Goto, other, call, unit, bounds, PCs,
                 Staging, Finalised, Live, Scratches
  <1>14. CASE ScratchIsDirectory
    BY <1>14 DEF TypeOK, ScratchIsDirectory, Return, other, fs, may, call, unit, bounds,
                 PCs, Staging, Finalised, Live
  <1>15. CASE MakeLink
    BY <1>15 DEF TypeOK, MakeLink, PutScratch, Goto, other, call, unit, bounds, PCs,
                 Staging, Finalised, Live, Scratches
  <1>16. CASE Swap
    <2>1. gen[idx].mat \in Materials
      BY <1>16 DEF TypeOK, Staged, Swap, Trustworthy, Complete, Entries, Dirs, Finalised
    <2> QED
      BY <1>16, <2>1 DEF TypeOK, Swap, PutScratch, Goto, call, unit, bounds, PCs,
                         Staging, Finalised, Live, Scratches
  <1>17. CASE FlushSwap
    BY <1>17, NoDirType
       DEF TypeOK, FlushSwap, SyncRoot, Settled, Goto, other, fs, call, unit, bounds,
           PCs, Staging, Finalised, Live
  <1>18. CASE CheckUnit
    <2>1. asked' \in BOOLEAN /\ late' \in BOOLEAN
      BY <1>18 DEF CheckUnit
    <2> QED
      BY <1>18, <2>1 DEF TypeOK, CheckUnit, Goto, fs, may, call, bounds, PCs, Staging,
                         Finalised, Live
  <1>19. CASE Reload
    <2>1. late' \in BOOLEAN
      BY <1>19, Zenon DEF TypeOK, Reload
    <2> QED
      BY <1>19, <2>1 DEF TypeOK, Reload, Goto, Return, fs, may, call, bounds, PCs, Staging,
                         Finalised, Live
  <1>20. CASE PruneDone
    BY <1>20 DEF TypeOK, PruneDone, Return, other, fs, may, call, unit, bounds, PCs,
                 Staging, Finalised, Live
  <1>21. ASSUME NEW n \in Indices, PruneGen(n) PROVE TypeOK'
    <2>1. Unlinked(gen[n]) \in Entries
      BY <1>21, UnlinkedType DEF TypeOK, PruneGen
    <2> QED
      BY <1>21, <2>1 DEF TypeOK, PruneGen, PutGen, other, call, unit, bounds
  <1>22. ASSUME NEW n \in Indices, PruneTmp(n) PROVE TypeOK'
    <2>1. Unlinked(tmp[n]) \in Entries
      BY <1>22, UnlinkedType DEF TypeOK, PruneTmp
    <2> QED
      BY <1>22, <2>1 DEF TypeOK, PruneTmp, PutTmp, other, call, unit, bounds
  <1>23. CASE Fault
    <2>1. asked' \in BOOLEAN
      BY <1>23, Zenon DEF TypeOK, Fault
    <2> QED
      BY <1>23, <2>1
         DEF TypeOK, Fault, Goto, Return, fs, may, call, PCs, Staging, Finalised, Live
  <1>24. CASE PowerLoss
    <2>1. gen' \in [Indices -> Entries] /\ tmp' \in [Indices -> Entries]
      BY <1>24 DEF TypeOK, PowerLoss, Choices
    <2>2. mayGen' \in [Indices -> SUBSET Entries] /\ mayTmp' \in [Indices -> SUBSET Entries]
      BY <1>24, <2>1 DEF PowerLoss
    <2>3. active' \in 0..MaxGen /\ scratch' \in Scratches
      BY <1>24 DEF TypeOK, PowerLoss
    <2>4. reader' \in Readers
      BY <1>24 DEF PowerLoss, Readers, NoReader
    <2>5. asked' \in BOOLEAN /\ late' \in BOOLEAN
      BY <1>24, Zenon DEF PowerLoss
    <2> QED
      BY <1>24, <2>1, <2>2, <2>3, <2>4, <2>5
         DEF TypeOK, PowerLoss, call, PCs, Staging, Finalised, Live
  <1>25. CASE BeginUnit \/ LoadUnit \/ UnitReady
    <2>1. /\ UNCHANGED <<reload_unit, asked, late, fs, may, pc, call, out, reader, seen, bounds>>
          /\ service' \in {"stopped", "starting", "running"}
      BY <1>25 DEF TypeOK, BeginUnit, LoadUnit, UnitReady
    <2>2. loaded' \in 0..MaxGen
      BY <1>25 DEF TypeOK, BeginUnit, LoadUnit, UnitReady
    <2> QED
      BY <2>1, <2>2 DEF TypeOK, fs, may, call, bounds
  <1>26. CASE StopUnit
    <2>1. late' \in BOOLEAN
      BY <1>26, Zenon DEF StopUnit
    <2> QED
      BY <1>26, <2>1 DEF TypeOK, StopUnit, fs, may, call, bounds
  <1>27. CASE ReaderResolve
    BY <1>27 DEF TypeOK, ReaderResolve, Readers, fs, may, call, unit, bounds
  <1>28. CASE ReaderRead
    <2>1. gen[reader.at] \in Entries /\ gen[reader.at] # NoDir
      BY <1>28 DEF TypeOK, ReaderRead, Readers, NoDir
    <2>2. gen[reader.at].mat \in Materials
      BY <2>1 DEF Entries, Dirs
    <2>3. reader' \in Readers
      BY <1>28, <2>2 DEF TypeOK, ReaderRead, Readers
    <2> QED
      BY <1>28, <2>3 DEF TypeOK, ReaderRead, fs, may, call, unit, bounds
  <1>29. CASE UNCHANGED vars
    BY <1>29 DEF TypeOK, vars, fs, may, call, unit, bounds
  <1> QED
    BY <1>1, <1>2, <1>3, <1>4, <1>5, <1>6, <1>7, <1>8, <1>9, <1>10, <1>11, <1>12, <1>13,
       <1>14, <1>15, <1>16, <1>17, <1>18, <1>19, <1>20, <1>21, <1>22, <1>23, <1>24, <1>25,
       <1>26, <1>27, <1>28, <1>29 DEF Next, Step

\* What a link that may survive names is no index being staged or pruned.
LEMMA ActiveBelow ==
  ASSUME Inv, NEW a \in mayActive \ {0}
  PROVE  a \in Indices /\ NoDir \notin mayGen[a] /\ gen[a] # NoDir /\ mayGen[a] # {NoDir}
  BY NoDirType DEF Inv, TypeOK, CrashClosed

\* The unit starting, in its steps, and stopping.
UnitStep == BeginUnit \/ LoadUnit \/ UnitReady \/ StopUnit

\* The steps of a call that leave the finalised directories and the link
\* alone, and everything done around a call.
QuietStep ==
    \/ \E m \in Materials : Call(m)
    \/ \E m \in Malformed : CallRefused(m)
    \/ MatchNoop \/ Allocate \/ Validate \/ ClearScratch \/ ScratchIsDirectory
    \/ MakeLink \/ CheckUnit \/ Reload \/ PruneDone \/ Fault \/ UnitStep
    \/ ReaderResolve \/ ReaderRead \/ UNCHANGED vars

\* Those of them that change gen-<n>.tmp only.
TmpStep ==
    ClearTmp \/ MakeTmp \/ WriteFile \/ Reject \/ FlushTmp \/ \E n \in Indices : PruneTmp(n)

\* What a quiet step leaves alone.
LEMMA QuietFrame ==
  QuietStep => UNCHANGED <<gen, tmp, active, mayGen, mayTmp, mayActive, seen>>
  BY DEF QuietStep, Call, CallRefused, MatchNoop, Allocate, Validate, ClearScratch,
         ScratchIsDirectory, MakeLink, CheckUnit, Reload, PruneDone, Fault, UnitStep,
         BeginUnit, LoadUnit, UnitReady, StopUnit, ReaderResolve, ReaderRead, vars, fs, may, other

\* A step on gen-<n>.tmp leaves the rest alone and the copy it leaves is one
\* of the possible ones.
LEMMA TmpFrame ==
  ASSUME Inv, TmpStep
  PROVE  /\ UNCHANGED <<gen, active, mayGen, mayActive, seen, reader>>
         /\ \A n \in Indices : tmp'[n] \in mayTmp'[n]
  <1>1. CASE ClearTmp \/ MakeTmp \/ WriteFile \/ Reject
    <2>1. UNCHANGED <<gen, active, mayGen, mayActive, seen, reader>>
      BY <1>1 DEF ClearTmp, MakeTmp, WriteFile, Reject, other
    <2>2. (\E d : PutTmp(idx, d)) \/ UNCHANGED <<tmp, mayTmp>>
      BY <1>1 DEF ClearTmp, MakeTmp, WriteFile, Reject
    <2>3. idx \in Indices
      BY <1>1 DEF ClearTmp, MakeTmp, WriteFile, Reject, Inv, TypeOK, Staging
    <2>4. \A n \in Indices : tmp'[n] \in mayTmp'[n]
      BY <2>2, <2>3 DEF PutTmp, Inv, TypeOK, CrashClosed
    <2> QED BY <2>1, <2>4
  <1>2. CASE FlushTmp
    BY <1>2 DEF FlushTmp, SyncTmp, fs, other, Inv, TypeOK, CrashClosed
  <1>3. ASSUME NEW n \in Indices, PruneTmp(n)
        PROVE  /\ UNCHANGED <<gen, active, mayGen, mayActive, seen, reader>>
               /\ \A k \in Indices : tmp'[k] \in mayTmp'[k]
    BY <1>3 DEF PruneTmp, PutTmp, other, Inv, TypeOK, CrashClosed
  <1> QED BY <1>1, <1>2, <1>3 DEF TmpStep

\* Every step is quiet, one of staging, or one of the few that change the tree.
LEMMA NextCases ==
  [Next]_vars =>
    \/ QuietStep \/ TmpStep
    \/ Finalise \/ FlushFinalised \/ Swap \/ FlushSwap \/ PowerLoss
    \/ \E n \in Indices : PruneGen(n)
  BY DEF Next, Step, QuietStep, TmpStep, UnitStep

\* Pruning unlinks below the kept index, which cannot be lost.
LEMMA PruneFrame ==
  ASSUME Inv, NEW n \in Indices, PruneGen(n)
  PROVE  /\ UNCHANGED <<tmp, mayTmp, active, mayActive, seen, reader, pc, idx>>
         /\ \A k \in Indices \ {n} : gen'[k] = gen[k] /\ mayGen'[k] = mayGen[k]
         /\ gen'[n] = Unlinked(gen[n]) /\ mayGen'[n] = mayGen[n] \cup {Unlinked(gen[n])}
         /\ idx \in Indices /\ mayActive = {idx} /\ n < idx
         /\ mayGen[idx] = {gen[idx]} /\ Trustworthy(gen[idx]) /\ NoDir \notin mayGen[idx]
         /\ \A k \in Indices : mayGen[k] # {NoDir} => k <= idx
  <1>1. pc = "prune" /\ n # idx /\ gen[n] # NoDir
    BY DEF PruneGen
  <1>2. /\ idx \in Indices /\ mayActive = {idx}
        /\ mayGen[idx] = {gen[idx]} /\ Trustworthy(gen[idx])
        /\ \A k \in Indices : mayGen[k] # {NoDir} => k <= idx
    BY <1>1 DEF Inv, TypeOK, Staged, Live
  <1>3. n < idx
    BY <1>1, <1>2 DEF Inv, CrashClosed
  <1>4. NoDir \notin mayGen[idx]
    BY <1>2, NoDirType
  <1> QED
    BY <1>2, <1>3, <1>4 DEF PruneGen, PutGen, other, call, Inv, TypeOK

\* The index being finalised has never been on disk or live.
LEMMA FreshIndex ==
  ASSUME Inv, pc \in Staging
  PROVE  /\ idx \in Indices /\ mayGen[idx] = {NoDir} /\ gen[idx] = NoDir
         /\ seen[idx] = None /\ idx \notin mayActive
  <1>1. idx \in Indices /\ \A k \in Indices : mayGen[k] # {NoDir} => k < idx
    BY DEF Inv, TypeOK, Staged
  <1>2. mayGen[idx] = {NoDir} /\ gen[idx] = NoDir
    BY <1>1 DEF Inv, CrashClosed
  <1>3. seen[idx] = None
    BY <1>1 DEF Inv, Anchored
  <1>4. idx \notin mayActive
    BY <1>1, <1>2, NoDirType DEF Inv, CrashClosed
  <1> QED BY <1>1, <1>2, <1>3, <1>4

\* The effect of the rename that finalises a generation.
LEMMA FinaliseFrame ==
  ASSUME Inv, Finalise
  PROVE  /\ UNCHANGED <<active, mayActive, seen, reader, idx>>
         /\ idx \in Indices /\ seen[idx] = None /\ idx \notin mayActive
         /\ \A k \in Indices \ {idx} : gen'[k] = gen[k] /\ mayGen'[k] = mayGen[k]
         /\ gen'[idx] = tmp[idx] /\ Trustworthy(tmp[idx])
         /\ mayGen'[idx] = {NoDir, tmp[idx]}
         /\ \A n \in Indices : tmp'[n] \in mayTmp'[n]
         /\ \A k \in Indices : mayGen[k] # {NoDir} => k < idx
  <1>1. pc = "finalise" /\ pc \in Staging
    BY DEF Finalise, Staging
  <1>2. /\ Trustworthy(tmp[idx]) /\ mayTmp[idx] \subseteq {NoDir, tmp[idx]}
        /\ \A k \in Indices : mayGen[k] # {NoDir} => k < idx
    BY <1>1 DEF Inv, Staged
  <1>3. mayGen'[idx] = {NoDir, tmp[idx]}
    BY <1>1, <1>2, FreshIndex, NoDirType DEF Finalise, PutGen, Inv, TypeOK
  <1>4. \A n \in Indices : tmp'[n] \in mayTmp'[n]
    BY <1>1, FreshIndex DEF Finalise, PutTmp, Inv, TypeOK, CrashClosed
  <1> QED
    BY <1>1, <1>2, <1>3, <1>4, FreshIndex
       DEF Finalise, PutGen, other, call, Inv, TypeOK

\* The effect of flushing the tree root: a name that cannot be lost stays so,
\* and possible contents only get fewer.
LEMMA SyncFrame ==
  ASSUME Inv, SyncRoot
  PROVE  /\ UNCHANGED <<gen, tmp, active, scratch>> /\ mayActive' = {active}
         /\ \A n \in Indices : gen[n] \in mayGen'[n] /\ tmp[n] \in mayTmp'[n]
         /\ \A n \in Indices : mayGen'[n] \subseteq mayGen[n]
         /\ \A n \in Indices : gen[n] = NoDir => mayGen'[n] = {NoDir}
         /\ \A n \in Indices : gen[n] # NoDir => mayGen'[n] = mayGen[n] \ {NoDir}
         /\ \A n \in Indices : NoDir \notin mayGen[n] => NoDir \notin mayGen'[n]
  BY DEF SyncRoot, Settled, fs, Inv, TypeOK, CrashClosed

\* The effect of a power loss on the entries.
LEMMA LossFrame ==
  ASSUME Inv, PowerLoss
  PROVE  /\ UNCHANGED <<seen, idx>> /\ pc' = "idle" /\ reader' = NoReader
         /\ active' \in mayActive /\ mayActive' = {active'}
         /\ \A n \in Indices : gen'[n] \in mayGen[n] /\ mayGen'[n] = {gen'[n]}
         /\ \A n \in Indices : tmp'[n] \in mayTmp'[n]
  BY DEF PowerLoss, Choices, call, Inv, TypeOK

\* Every step keeps what may survive a power loss closed.
LEMMA CrashStep == Inv /\ [Next]_vars => CrashClosed'
  <1> SUFFICES ASSUME Inv, [Next]_vars PROVE CrashClosed'  OBVIOUS
  <1>0. CrashClosed
    BY DEF Inv
  <1>1. CASE QuietStep
    BY <1>0, <1>1, QuietFrame DEF CrashClosed
  <1>2. CASE TmpStep
    BY <1>0, <1>2, TmpFrame DEF CrashClosed
  <1>3. CASE Finalise
    <2>1. \A a \in mayActive' \ {0} : a \in Indices \ {idx}
      BY <1>3, FinaliseFrame, ActiveBelow
    <2>2. \A a \in mayActive' \ {0} : \A d \in mayGen'[a] : Trustworthy(d)
      BY <1>0, <1>3, <2>1, FinaliseFrame DEF CrashClosed
    <2>3. \A n \in Indices : gen'[n] \in mayGen'[n]
      BY <1>0, <1>3, FinaliseFrame DEF CrashClosed
    <2> QED
      BY <1>0, <1>3, <2>2, <2>3, FinaliseFrame DEF CrashClosed
  <1>4. CASE FlushFinalised \/ FlushSwap
    <2>1. SyncRoot
      BY <1>4 DEF FlushFinalised, FlushSwap
    <2> QED
      BY <1>0, <2>1, SyncFrame DEF CrashClosed, Inv, TypeOK
  <1>5. CASE Swap
    <2>1. idx \in Indices /\ mayGen[idx] = {gen[idx]} /\ Trustworthy(gen[idx])
      BY <1>5 DEF Swap, Inv, TypeOK, Staged, Finalised, Live
    <2>2. /\ UNCHANGED <<gen, tmp, mayGen, mayTmp>>
          /\ active' = idx /\ mayActive' = mayActive \cup {idx}
      BY <1>5 DEF Swap
    <2> QED BY <1>0, <2>1, <2>2 DEF CrashClosed
  <1>6. CASE PowerLoss
    <2>1. \A a \in mayActive' \ {0} : a \in mayActive /\ a \in Indices
      BY <1>6, LossFrame, ActiveBelow
    <2>2. \A a \in mayActive' \ {0} : \A d \in mayGen'[a] : Trustworthy(d)
      BY <1>0, <1>6, <2>1, LossFrame DEF CrashClosed
    <2> QED
      BY <1>6, <2>2, LossFrame DEF CrashClosed
  <1>7. ASSUME NEW n \in Indices, PruneGen(n) PROVE CrashClosed'
    BY <1>0, <1>7, PruneFrame DEF CrashClosed
  <1> QED BY <1>1, <1>2, <1>3, <1>4, <1>5, <1>6, <1>7, NextCases

\* Every step keeps the live and the half-removed indices anchored.
LEMMA AnchoredStep == Inv /\ [Next]_vars => Anchored'
  <1> SUFFICES ASSUME Inv, [Next]_vars PROVE Anchored'  OBVIOUS
  <1>0. Anchored /\ CrashClosed
    BY DEF Inv
  <1>1. CASE QuietStep
    BY <1>0, <1>1, QuietFrame DEF Anchored
  <1>2. CASE TmpStep
    BY <1>0, <1>2, TmpFrame DEF Anchored
  <1>3. CASE Finalise
    <2>1. \A k \in Indices : NoDir \notin mayGen[k] => NoDir \notin mayGen'[k]
      BY <1>3, FinaliseFrame, FreshIndex DEF Finalise, Staging
    <2>2. \A n \in Indices : gen'[n] = NoDir => n # idx
      BY <1>3, FinaliseFrame, NoDirType
    <2> QED
      BY <1>0, <1>3, <2>1, <2>2, FinaliseFrame DEF Anchored
  <1>4. CASE FlushFinalised \/ FlushSwap
    <2>1. SyncRoot /\ seen' = seen
      BY <1>4 DEF FlushFinalised, FlushSwap, other
    <2> QED
      BY <1>0, <2>1, SyncFrame DEF Anchored
  <1>5. CASE Swap
    <2>1. idx \in Indices /\ NoDir \notin mayGen[idx]
      BY <1>5, NoDirType DEF Swap, Inv, TypeOK, Staged, Finalised, Live
    <2>2. UNCHANGED <<gen, mayGen>> /\ \A n \in Indices \ {idx} : seen'[n] = seen[n]
      BY <1>5 DEF Swap, Inv, TypeOK
    <2> QED BY <1>0, <2>1, <2>2 DEF Anchored
  <1>6. CASE PowerLoss
    BY <1>0, <1>6, LossFrame DEF Anchored
  <1>7. ASSUME NEW n \in Indices, PruneGen(n) PROVE Anchored'
    <2>1. idx \in Indices /\ NoDir \notin mayGen'[idx] /\ gen'[idx] # NoDir
      BY <1>7, PruneFrame, NoDirType
    <2>2. \A k \in Indices : mayGen'[k] # {NoDir} => k <= idx
      BY <1>7, PruneFrame
    <2>3. \A k \in Indices : gen'[k] = NoDir /\ mayGen'[k] # {NoDir} => idx > k
      BY <2>1, <2>2
    <2>4. \A k \in Indices : seen'[k] # None => idx >= k
      BY <1>0, <1>7, PruneFrame DEF Anchored
    <2> QED BY <2>1, <2>3, <2>4 DEF Anchored
  <1> QED BY <1>1, <1>2, <1>3, <1>4, <1>5, <1>6, <1>7, NextCases

\* Every step keeps the history in agreement with the tree and the reader.
LEMMA RememberedStep == Inv /\ [Next]_vars => Remembered'
  <1> SUFFICES ASSUME Inv, [Next]_vars PROVE Remembered'  OBVIOUS
  <1>0. Remembered /\ CrashClosed
    BY DEF Inv
  <1>1. CASE ReaderResolve
    <2>1. active \in mayActive \ {0}
      BY <1>0, <1>1 DEF ReaderResolve, CrashClosed
    <2>2. reader' = [at |-> active, files |-> 0, got |-> {}]
      BY <1>1 DEF ReaderResolve
    <2>3. UNCHANGED <<mayGen, mayActive, seen>>
      BY <1>1 DEF ReaderResolve, may
    <2> QED BY <1>0, <2>1, <2>2, <2>3 DEF Remembered
  <1>2. CASE ReaderRead
    <2>1. reader.at \in Indices /\ gen[reader.at] \in mayGen[reader.at] /\ gen[reader.at] # NoDir
      BY <1>0, <1>2 DEF ReaderRead, Inv, TypeOK, Readers, CrashClosed, NoDir
    <2>2. gen[reader.at].mat = seen[reader.at]
      BY <1>0, <1>2, <2>1 DEF ReaderRead, Remembered
    <2>3. reader'.at = reader.at /\ reader'.got = reader.got \cup {gen[reader.at].mat}
      BY <1>2 DEF ReaderRead
    <2>4. UNCHANGED <<mayGen, mayActive, seen>>
      BY <1>2 DEF ReaderRead, may
    <2> QED BY <1>0, <2>1, <2>2, <2>3, <2>4 DEF Remembered
  <1>3. CASE QuietStep /\ ~ReaderResolve /\ ~ReaderRead
    <2>1. reader' = reader
      BY <1>3 DEF QuietStep, Call, CallRefused, MatchNoop, Allocate, Validate, ClearScratch,
         ScratchIsDirectory, MakeLink, CheckUnit, Reload, PruneDone, Fault, UnitStep,
         BeginUnit, LoadUnit, UnitReady, StopUnit, vars, other
    <2> QED BY <1>0, <1>3, <2>1, QuietFrame DEF Remembered
  <1>4. CASE TmpStep
    BY <1>0, <1>4, TmpFrame DEF Remembered
  <1>5. CASE Finalise
    <2>1. \A n \in Indices : seen'[n] # None => n # idx
      BY <1>5, FinaliseFrame
    <2> QED
      BY <1>0, <1>5, <2>1, FinaliseFrame DEF Remembered
  <1>6. CASE FlushFinalised \/ FlushSwap
    <2>1. SyncRoot /\ seen' = seen /\ reader' = reader
      BY <1>6 DEF FlushFinalised, FlushSwap, other
    <2> QED
      BY <1>0, <2>1, SyncFrame DEF Remembered, CrashClosed
  <1>7. CASE Swap
    <2>1. /\ idx \in Indices /\ mayGen[idx] = {gen[idx]} /\ Trustworthy(gen[idx])
          /\ gen[idx] \in Entries
      BY <1>7 DEF Swap, Inv, TypeOK, Staged, Finalised, Live
    <2>2. gen[idx].mat # None
      BY <2>1 DEF Trustworthy
    <2>3. /\ UNCHANGED <<mayGen, reader>> /\ mayActive' = mayActive \cup {idx}
          /\ seen'[idx] = gen[idx].mat /\ \A n \in Indices \ {idx} : seen'[n] = seen[n]
      BY <1>7, <2>1 DEF Swap, Inv, TypeOK
    <2>4. \A n \in Indices : \A d \in mayGen'[n] : d # NoDir /\ seen'[n] # None => d.mat = seen'[n]
      BY <1>0, <2>1, <2>3 DEF Remembered
    <2>5. \A a \in mayActive' \ {0} : seen'[a] # None
      BY <1>0, <2>1, <2>2, <2>3, ActiveBelow DEF Remembered
    <2>6. CASE reader.at = idx
      <3>1. seen'[idx] = seen[idx]
        BY <1>0, <2>1, <2>3, <2>6, NoDirType DEF Remembered
      <3> QED BY <1>0, <2>3, <2>4, <2>5, <2>6, <3>1 DEF Remembered
    <2>7. CASE reader.at # idx
      <3>1. reader.at # 0 => seen'[reader.at] = seen[reader.at]
        BY <2>3, <2>7 DEF Inv, TypeOK, Readers
      <3> QED BY <1>0, <2>3, <2>4, <2>5, <3>1 DEF Remembered
    <2> QED BY <2>6, <2>7
  <1>8. CASE PowerLoss
    BY <1>0, <1>8, LossFrame DEF Remembered, NoReader
  <1>9. ASSUME NEW n \in Indices, PruneGen(n) PROVE Remembered'
    <2>1. gen[n] \in mayGen[n] /\ gen[n] # NoDir /\ gen[n] \in Entries
      BY <1>0, <1>9 DEF PruneGen, CrashClosed, Inv, TypeOK
    <2>2. Unlinked(gen[n]) # NoDir => Unlinked(gen[n]).mat = gen[n].mat
      BY <2>1, UnlinkedType
    <2> QED BY <1>0, <1>9, <2>1, <2>2, PruneFrame DEF Remembered
  <1> QED BY <1>1, <1>2, <1>3, <1>4, <1>5, <1>6, <1>7, <1>8, <1>9, NextCases

\* Every step of a call establishes what the next one relies on.
LEMMA StagedStep == Inv /\ [Next]_vars => Staged'
  <1> SUFFICES ASSUME Inv, [Next]_vars PROVE Staged'  OBVIOUS
  <1> USE DEF Staging, Finalised, Live
  <1>0. Staged /\ CrashClosed /\ Anchored
    BY DEF Inv
  <1>1. CASE \/ \E m \in Materials : Call(m)
             \/ \E m \in Malformed : CallRefused(m)
             \/ MatchNoop \/ ScratchIsDirectory \/ PruneDone
    <2>1. pc' \in {"idle", "match"}
      BY <1>1 DEF Call, CallRefused, MatchNoop, ScratchIsDirectory, PruneDone, Return
    <2> QED BY <2>1 DEF Staged
  <1>2. CASE Allocate
    <2>1. PICK n \in Indices : IsNextGeneration(n) /\ idx' = n
      BY <1>2 DEF Allocate
    <2>2. pc' = "clear" /\ UNCHANGED <<gen, mayGen>>
      BY <1>2 DEF Allocate, Goto, fs, may
    <2>3. ASSUME NEW k \in Indices, mayGen[k] # {NoDir} PROVE k < n
      <3>1. CASE gen[k] # NoDir
        BY <2>1, <3>1 DEF IsNextGeneration
      <3>2. CASE gen[k] = NoDir
        <4>1. PICK j \in Indices : j > k /\ NoDir \notin mayGen[j]
          BY <1>0, <2>3, <3>2 DEF Anchored
        <4>2. gen[j] # NoDir
          BY <1>0, <4>1 DEF CrashClosed
        <4> QED BY <2>1, <4>1, <4>2 DEF IsNextGeneration
      <3> QED BY <3>1, <3>2
    <2> QED BY <2>1, <2>2, <2>3 DEF Staged
  <1>3. CASE ClearTmp \/ Reject
    <2>1. pc \in Staging /\ pc' \in {"clear", "mkdir", "reject", "idle"} /\ idx' = idx /\ mayGen' = mayGen
      BY <1>3 DEF ClearTmp, Reject, Goto, Return, call
    <2> QED BY <1>0, <2>1 DEF Staged
  <1>4. CASE MakeTmp
    <2>1. pc = "mkdir" /\ pc' = "write" /\ UNCHANGED <<idx, req, mayGen>>
      BY <1>4 DEF MakeTmp, Goto, call
    <2>2. tmp'[idx] = [mat |-> req, files |-> 0]
      BY <1>4 DEF MakeTmp, PutTmp, Inv, TypeOK
    <2> QED BY <1>0, <2>1, <2>2 DEF Staged
  <1>5. CASE WriteFile
    <2>1. pc = "write" /\ UNCHANGED <<idx, req, mayGen>> /\ idx \in Indices
      BY <1>5 DEF WriteFile, call, Inv, TypeOK
    <2>2. tmp[idx] \in Dirs /\ tmp[idx].mat = req /\ tmp[idx].files < NFiles
      BY <1>0, <2>1 DEF Staged, Inv, TypeOK, Entries, NoDir
    <2>3. tmp'[idx] = [mat |-> req, files |-> tmp[idx].files + 1]
      BY <1>5, <2>1, <2>2 DEF WriteFile, PutTmp, Inv, TypeOK, Dirs
    <2>4. pc' = IF tmp[idx].files + 1 = NFiles THEN "validate" ELSE "write"
      BY <1>5 DEF WriteFile, Goto
    <2> QED BY <1>0, <2>1, <2>2, <2>3, <2>4 DEF Staged, Dirs
  <1>6. CASE Validate
    <2>1. /\ pc = "validate" /\ UNCHANGED <<gen, tmp, mayGen, idx, req>>
          /\ pc' = IF tmp[idx].mat \in Valid THEN "synctmp" ELSE "reject"
      BY <1>6 DEF Validate, Goto, fs, may, call
    <2>2. tmp[idx] # NoDir /\ tmp[idx].files = NFiles
      BY <1>0, <2>1 DEF Staged, NoDir
    <2> QED BY <1>0, <2>1, <2>2 DEF Staged, Trustworthy, Complete
  <1>7. CASE FlushTmp
    <2>1. pc = "synctmp" /\ pc' = "finalise" /\ UNCHANGED <<tmp, mayGen, idx>> /\ idx \in Indices
      BY <1>7 DEF FlushTmp, SyncTmp, Goto, fs, call, Inv, TypeOK
    <2>2. mayTmp'[idx] \subseteq {NoDir, tmp[idx]}
      BY <1>7, <2>1 DEF FlushTmp, SyncTmp, Inv, TypeOK
    <2> QED BY <1>0, <2>1, <2>2 DEF Staged
  <1>8. CASE Finalise
    <2>1. pc' = "syncroot"
      BY <1>8 DEF Finalise, Goto
    <2>2. \A k \in Indices : mayGen'[k] # {NoDir} => k <= idx
      BY <1>8, FinaliseFrame
    <2> QED BY <1>8, <2>1, <2>2, FinaliseFrame DEF Staged
  <1>9. CASE FlushFinalised
    <2>1. /\ pc = "syncroot" /\ pc' = "unscratch" /\ UNCHANGED <<idx, seen>> /\ SyncRoot
          /\ idx \in Indices
      BY <1>9 DEF FlushFinalised, Goto, call, other, Inv, TypeOK
    <2>2. Trustworthy(gen[idx]) /\ gen[idx] # NoDir /\ gen' = gen
      BY <1>0, <2>1, NoDirType, SyncFrame DEF Staged
    <2>3. mayGen'[idx] = {gen[idx]}
      BY <1>0, <2>1, <2>2, SyncFrame DEF Staged, CrashClosed
    <2>4. \A k \in Indices : mayGen'[k] # {NoDir} => k <= idx
      BY <1>0, <2>1, SyncFrame DEF Staged, CrashClosed
    <2> QED BY <1>0, <2>1, <2>2, <2>3, <2>4 DEF Staged
  <1>10. CASE ClearScratch \/ MakeLink
    <2>1. /\ pc \in {"unscratch", "symlink"} /\ pc' \in {"symlink", "swap"}
          /\ UNCHANGED <<gen, mayGen, idx, seen>>
      BY <1>10 DEF ClearScratch, MakeLink, Goto, call, other
    <2> QED BY <1>0, <2>1 DEF Staged
  <1>11. CASE Swap
    <2>1. /\ pc = "swap" /\ pc' = "syncswap" /\ UNCHANGED <<gen, mayGen, idx>>
          /\ active' = idx
      BY <1>11 DEF Swap, Goto, call
    <2> QED BY <1>0, <2>1 DEF Staged
  <1>12. CASE FlushSwap
    <2>1. /\ pc = "syncswap" /\ pc' \in {"isactive", "prune"} /\ idx' = idx /\ SyncRoot
          /\ idx \in Indices
      BY <1>12 DEF FlushSwap, Goto, call, Inv, TypeOK
    <2>2. /\ Trustworthy(gen[idx]) /\ gen[idx] # NoDir /\ gen' = gen
          /\ active' = idx /\ mayActive' = {idx}
      BY <1>0, <2>1, NoDirType, SyncFrame DEF Staged
    <2>3. mayGen'[idx] = {gen[idx]}
      BY <1>0, <2>1, <2>2, SyncFrame DEF Staged
    <2>4. \A k \in Indices : mayGen'[k] # {NoDir} => k <= idx
      BY <1>0, <2>1, SyncFrame DEF Staged, CrashClosed
    <2> QED BY <2>1, <2>2, <2>3, <2>4 DEF Staged
  <1>13. CASE CheckUnit \/ Reload
    <2>1. /\ pc \in {"isactive", "reload"} /\ pc' \in {"reload", "prune", "idle"}
          /\ UNCHANGED <<gen, mayGen, active, mayActive, idx>>
      BY <1>13 DEF CheckUnit, Reload, Goto, Return, fs, may, call
    <2> QED BY <1>0, <2>1 DEF Staged
  <1>14. ASSUME NEW n \in Indices, PruneGen(n) PROVE Staged'
    <2>1. pc = "prune" /\ pc' = "prune"
      BY <1>14 DEF PruneGen
    <2>2. gen'[idx] = gen[idx] /\ mayGen'[idx] = mayGen[idx]
      BY <1>14, PruneFrame
    <2>3. \A k \in Indices : mayGen'[k] # {NoDir} => k <= idx
      BY <1>14, PruneFrame
    <2> QED BY <1>0, <1>14, <2>1, <2>2, <2>3, PruneFrame DEF Staged
  <1>15. ASSUME NEW n \in Indices, PruneTmp(n) PROVE Staged'
    <2>1. /\ pc = "prune" /\ pc' = "prune"
          /\ UNCHANGED <<gen, mayGen, active, mayActive, idx>>
      BY <1>15 DEF PruneTmp, call
    <2> QED BY <1>0, <2>1 DEF Staged
  <1>16. CASE Fault
    <2>1. UNCHANGED <<gen, mayGen, active, mayActive, idx>>
      BY <1>16 DEF Fault, fs, may, call
    <2>2. pc' = "idle" \/ (pc = "isactive" /\ pc' = "prune")
      BY <1>16 DEF Fault, Goto, Return
    <2> QED BY <1>0, <2>1, <2>2 DEF Staged
  <1>17. CASE PowerLoss
    BY <1>17, LossFrame DEF Staged
  <1>18. CASE UnitStep \/ ReaderResolve \/ ReaderRead \/ UNCHANGED vars
    <2>1. UNCHANGED <<fs, may, pc, call, seen>>
      BY <1>18 DEF UnitStep, BeginUnit, LoadUnit, UnitReady, StopUnit, ReaderResolve, ReaderRead, vars
    <2> QED BY <1>0, <2>1 DEF Staged, fs, may, call
  <1> QED
    BY <1>1, <1>2, <1>3, <1>4, <1>5, <1>6, <1>7, <1>8, <1>9, <1>10, <1>11, <1>12, <1>13,
       <1>14, <1>15, <1>16, <1>17, <1>18 DEF Next, Step, UnitStep

-----------------------------------------------------------------------------
\* The inductive invariant of the engine holds in every reachable state.
THEOREM Invariance == Spec => []Inv
  <1>1. Inv /\ [Next]_vars => Inv'
    BY TypeStep, CrashStep, AnchoredStep, RememberedStep, StagedStep DEF Inv
  <1> QED BY <1>1, InitInv, PTL DEF Spec

\* Type correctness of every reachable state.
THEOREM TypeCorrect == Spec => []TypeOK
  <1>1. Inv => TypeOK
    BY DEF Inv
  <1> QED BY <1>1, Invariance, PTL

\* Whatever faults, kills and power losses come, `active` names a whole
\* material set the validator accepted, or nothing.
THEOREM ActiveSafety == Spec => []ActiveIsTrustworthy
  <1>1. Inv => ActiveIsTrustworthy
    BY DEF Inv, TypeOK, CrashClosed, ActiveIsTrustworthy
  <1> QED BY <1>1, Invariance, PTL

\* An index readers once resolved is never given to other material.
THEOREM IndexSafety == Spec => []IndexNeverReused
  <1>1. Inv => IndexNeverReused
    BY DEF Inv, CrashClosed, Remembered, IndexNeverReused
  <1> QED BY <1>1, Invariance, PTL

\* A reader going by index never pairs files of two generations.
THEOREM ReaderSafety == Spec => []ReaderNeverPairs
  <1>1. Inv => ReaderNeverPairs
    <2> SUFFICES ASSUME Inv PROVE Cardinality(reader.got) <= 1
      BY DEF ReaderNeverPairs
    <2>1. reader.got = {} \/ reader.got = {seen[reader.at]}
      BY DEF Inv, Remembered
    <2>2. Cardinality({}) = 0 /\ Cardinality({seen[reader.at]}) = 1
      BY FS_EmptySet, FS_Singleton
    <2> QED BY <2>1, <2>2
  <1> QED BY <1>1, Invariance, PTL

\* A change reported to the caller is durable and has pruned the tree.
THEOREM ChangedSafety == Spec => []ChangedIsDurableAndPruned
  <1>1. Init => ChangedIsDurableAndPruned
    BY DEF Init, ChangedIsDurableAndPruned
  <1>2. Inv /\ ChangedIsDurableAndPruned /\ [Next]_vars => ChangedIsDurableAndPruned'
    <2> SUFFICES ASSUME Inv, ChangedIsDurableAndPruned, [Next]_vars
                 PROVE  ChangedIsDurableAndPruned'
      OBVIOUS
    <2>1. CASE PruneDone
      <3>1. /\ UNCHANGED <<gen, tmp, mayGen, mayActive, idx>> /\ pc = "prune"
            /\ \A n \in Indices : tmp[n] = NoDir /\ (n # idx => gen[n] = NoDir)
        BY <2>1 DEF PruneDone, fs, may, call
      <3>2. mayActive = {idx} /\ mayGen[idx] = {gen[idx]} /\ gen[idx] # NoDir
        BY <3>1, NoDirType DEF Inv, Staged, Live
      <3> QED BY <3>1, <3>2 DEF ChangedIsDurableAndPruned
    <2>2. CASE UnitStep \/ ReaderResolve \/ ReaderRead \/ UNCHANGED vars
      <3>1. UNCHANGED <<fs, may, pc, call, out>>
        BY <2>2 DEF UnitStep, BeginUnit, LoadUnit, UnitReady, StopUnit, ReaderResolve, ReaderRead, vars
      <3> QED BY <3>1 DEF ChangedIsDurableAndPruned, fs, may, call
    <2>3. CASE Next /\ ~(PruneDone \/ UnitStep \/ ReaderResolve \/ ReaderRead)
      <3>1. pc' # "idle" \/ out' # "changed"
        BY <2>3 DEF Next, Step, Call, CallRefused, MatchNoop, Allocate, ClearTmp, MakeTmp,
           WriteFile, Validate, Reject, FlushTmp, Finalise, FlushFinalised, ClearScratch,
           ScratchIsDirectory, MakeLink, Swap, FlushSwap, CheckUnit, Reload, PruneGen,
           PruneTmp, Fault, PowerLoss, Goto, Return, UnitStep
      <3> QED BY <3>1 DEF ChangedIsDurableAndPruned
    <2> QED BY <2>1, <2>2, <2>3
  <1> QED BY <1>1, <1>2, Invariance, PTL DEF Spec

-----------------------------------------------------------------------------
(* The unit that serves the live generation. *)

\* What keeps a unit on the live generation: it exists only where the tree
\* names one, it has loaded nothing while stopped, and from the reload on,
\* until the link moves again, a unit systemctl answered about has loaded what
\* `active` names, unless it was late.
Served ==
    /\ ~reload_unit => service = "stopped"
    /\ service = "stopped" => loaded = 0
    /\ (pc = "prune" \/ (pc = "idle" /\ out = "changed"))
            /\ asked /\ loaded # 0 /\ ~late => loaded = active

\* No step leaves a running unit behind on an older generation.
LEMMA ServedStep == TypeOK /\ Served /\ [Next]_vars => Served'
  <1> SUFFICES ASSUME TypeOK, Served, [Next]_vars PROVE Served'
    OBVIOUS
  <1>1. CASE \/ \E m \in Materials : Call(m)
             \/ \E m \in Malformed : CallRefused(m)
    BY <1>1 DEF Served, Call, CallRefused, Return, fs, other, unit
  <1>2. CASE MatchNoop \/ Allocate \/ Validate
    BY <1>2 DEF Served, MatchNoop, Allocate, Validate, Return, Goto, fs, other, unit
  <1>3. CASE ClearTmp \/ MakeTmp \/ WriteFile \/ Reject
    BY <1>3 DEF Served, ClearTmp, MakeTmp, WriteFile, Reject, PutTmp, Return, Goto, other, unit
  <1>4. CASE FlushTmp \/ Finalise \/ FlushFinalised
    BY <1>4 DEF Served, FlushTmp, SyncTmp, Finalise, PutGen, PutTmp, FlushFinalised, SyncRoot,
                Goto, fs, other, unit
  <1>5. CASE ClearScratch \/ ScratchIsDirectory \/ MakeLink
    BY <1>5 DEF Served, ClearScratch, ScratchIsDirectory, MakeLink, PutScratch, Return, Goto,
                fs, other, unit
  <1>6. CASE Swap
    BY <1>6 DEF Served, Swap, PutScratch, Goto, unit
  <1>7. CASE FlushSwap
    \* without a unit nothing is running, so going straight to prune is safe
    BY <1>7 DEF Served, FlushSwap, SyncRoot, Goto, fs, other, unit
  <1>8. CASE CheckUnit
    BY <1>8 DEF TypeOK, Served, CheckUnit, Goto, fs
  <1>9. CASE Reload
    BY <1>9 DEF Served, Reload, Goto, Return, fs
  <1>10. CASE PruneDone \/ \E n \in Indices : PruneGen(n) \/ PruneTmp(n)
    BY <1>10 DEF Served, PruneDone, PruneGen, PruneTmp, PutGen, PutTmp, Return, fs, other, unit
  <1>11. CASE Fault
    BY <1>11 DEF Served, Fault, Goto, Return, fs
  <1>12. CASE PowerLoss
    BY <1>12 DEF Served, PowerLoss
  <1>13. CASE BeginUnit \/ LoadUnit \/ UnitReady \/ StopUnit
    BY <1>13 DEF Served, BeginUnit, LoadUnit, UnitReady, StopUnit, fs
  <1>14. CASE ReaderResolve \/ ReaderRead \/ UNCHANGED vars
    BY <1>14 DEF Served, ReaderResolve, ReaderRead, vars, fs, unit
  <1> QED
    BY <1>1, <1>2, <1>3, <1>4, <1>5, <1>6, <1>7, <1>8, <1>9, <1>10, <1>11, <1>12, <1>13, <1>14
       DEF Next, Step

\* After a change systemctl was asked about, a unit that has loaded anything
\* serves the material `active` names, whenever it began to start, loaded,
\* became ready, was reloaded or stopped, unless is-active caught it starting
\* with the older material already loaded.
THEOREM UnitSafety == Spec => []UnitServesActive
  <1>1. Init => Served
    BY DEF Init, Served
  <1>2. Served => UnitServesActive
    BY DEF Served, UnitServesActive
  <1> QED BY <1>1, <1>2, ServedStep, TypeCorrect, PTL DEF Spec
-----------------------------------------------------------------------------
(* The tree implements the register of TrustRegister. *)

\* A step under which no index a link may name changes its material, no link
\* moves and nothing goes live is a stutter of the register.
LEMMA RegisterStutter ==
  ASSUME UNCHANGED <<active, mayActive, seen>>, active \in mayActive,
         \A a \in mayActive \ {0} : gen'[a] = gen[a]
  PROVE  UNCHANGED Register!vars
  <1>1. \A a \in mayActive : Named(a)' = Named(a)
    BY DEF Named
  <1> QED BY <1>1 DEF Register!vars

\* Every step of the engine is a step of the register or a stutter.
LEMMA RegisterStep == Inv /\ [Next]_vars => [Register!Next]_(Register!vars)
  <1> SUFFICES ASSUME Inv, [Next]_vars PROVE Register!Next \/ UNCHANGED Register!vars
    OBVIOUS
  <1>0. /\ active \in mayActive /\ mayActive \subseteq 0..MaxGen
        /\ \A a \in mayActive \ {0} : seen[a] # None
        /\ \A a \in mayActive \ {0} : \A d \in mayGen[a] : d.mat = seen[a]
    BY ActiveBelow DEF Inv, TypeOK, CrashClosed, Remembered
  <1>1. CASE QuietStep
    BY <1>0, <1>1, QuietFrame, RegisterStutter
  <1>2. CASE TmpStep
    BY <1>0, <1>2, TmpFrame, RegisterStutter
  <1>3. CASE Finalise
    <2>1. \A a \in mayActive \ {0} : gen'[a] = gen[a]
      BY <1>3, FinaliseFrame, ActiveBelow
    <2> QED BY <1>0, <1>3, <2>1, FinaliseFrame, RegisterStutter
  <1>4. CASE FlushFinalised \/ FlushSwap
    <2>1. UNCHANGED <<gen, active, seen>> /\ mayActive' = {active}
      BY <1>4 DEF FlushFinalised, FlushSwap, SyncRoot, fs, other
    <2>2. Named(active)' = Named(active)
      BY <2>1 DEF Named
    <2>3. {Named(a) : a \in mayActive}' = {Named(active)}
      BY <2>1, <2>2
    <2>4. Register!Commit
      BY <2>1, <2>2, <2>3 DEF Register!Commit
    <2> QED BY <2>4 DEF Register!Next
  <1>5. CASE Swap
    <2>1. /\ idx \in Indices /\ Trustworthy(gen[idx]) /\ seen[idx] = None
          /\ \A k \in Indices : mayGen[k] # {NoDir} => k <= idx
      BY <1>5 DEF Swap, Inv, TypeOK, Staged, Finalised
    <2>2. /\ UNCHANGED <<gen, idx>> /\ active' = idx /\ mayActive' = mayActive \cup {idx}
          /\ seen' = [seen EXCEPT ![idx] = gen[idx].mat]
      BY <1>5 DEF Swap, call
    <2>3. gen[idx].mat \in Valid /\ gen[idx].mat # None
      BY <2>1 DEF Trustworthy
    <2>4. \A k \in {n \in Indices : seen[n] # None} : k < idx
      BY <2>1 DEF Inv, Anchored
    <2>5. {n \in Indices : seen[n] # None}' = {n \in Indices : seen[n] # None} \cup {idx}
      BY <2>1, <2>2, <2>3 DEF Inv, TypeOK
    <2>6. \A a : Named(a)' = Named(a)
      BY <2>2 DEF Named
    <2>7. Named(active)' = [at |-> idx, mat |-> gen[idx].mat]
      BY <2>1, <2>2 DEF Named
    <2>8. {Named(a) : a \in mayActive}' = {Named(a) : a \in mayActive} \cup {Named(active)'}
      BY <2>2, <2>6
    <2>9. \E n \in 1..MaxGen, m \in Valid : Register!Install(n, m)
      BY <2>1, <2>3, <2>4, <2>5, <2>7, <2>8 DEF Register!Install
    <2> QED BY <2>9 DEF Register!Next
  <1>6. CASE PowerLoss
    <2>1. /\ active' \in mayActive /\ mayActive' = {active'} /\ seen' = seen
          /\ \A n \in Indices : gen'[n] \in mayGen[n]
      BY <1>6, LossFrame
    <2>2. \A a \in mayActive \ {0} : gen'[a].mat = gen[a].mat
      BY <1>0, <2>1, ActiveBelow DEF Inv, CrashClosed
    <2>3. \A a \in mayActive : Named(a)' = Named(a)
      BY <2>2 DEF Named
    <2>4. Named(active)' \in {Named(a) : a \in mayActive}
      BY <2>1, <2>3 DEF Named
    <2>5. {Named(a) : a \in mayActive}' = {Named(active)'}
      BY <2>1
    <2>6. Register!PowerLoss
      BY <2>1, <2>4, <2>5 DEF Register!PowerLoss
    <2> QED BY <2>6 DEF Register!Next
  <1>7. ASSUME NEW n \in Indices, PruneGen(n) PROVE UNCHANGED Register!vars
    <2>1. \A a \in mayActive \ {0} : gen'[a] = gen[a]
      BY <1>7, PruneFrame
    <2> QED BY <1>0, <1>7, <2>1, PruneFrame, RegisterStutter
  <1> QED BY <1>1, <1>2, <1>3, <1>4, <1>5, <1>6, <1>7, NextCases

\* For its readers the tree is one register of accepted material: every
\* behaviour of the engine is one of the abstract specification.
THEOREM Refinement == Spec => ImplementsRegister
  <1>1. Init => Register!Init
    BY DEF Init, Register!Init, Register!Nothing, Named
  <1> QED BY <1>1, RegisterStep, Invariance, PTL DEF Spec, ImplementsRegister, Register!Spec
=============================================================================
