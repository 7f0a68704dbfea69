-------------------------- MODULE RetentionProofs --------------------------
(***************************************************************************)
(* Proofs, for any number of writers, any budget, buffer and sources and   *)
(* any number of faults, that the budget is exact and that what is         *)
(* retained is what was read.                                              *)
(***************************************************************************)
EXTENDS Retention, FiniteSetTheorems, TLAPS

USE RetentionAssumption

\* The charges are finitely many, no writer holds more than all of them.
LEMMA ChargesFinite ==
  ASSUME NEW f \in [Writers -> 0..Limit]
  PROVE  IsFiniteSet(Charges(f)) /\ Cardinality(Charges(f)) \in Nat
  <1>1. IsFiniteSet(1..Limit)
    BY FS_Interval
  <1>2. IsFiniteSet(Writers \X (1..Limit))
    BY <1>1, FS_Product
  <1>3. Charges(f) \subseteq Writers \X (1..Limit)
    BY DEF Charges
  <1> QED BY <1>2, <1>3, FS_Subset, FS_CardinalityType

\* The bytes a+1..b of one writer are b - a charges.
LEMMA RunOfCharges ==
  ASSUME NEW w \in Writers, NEW a \in Nat, NEW b \in Nat, a <= b
  PROVE  /\ IsFiniteSet({w} \X ((a + 1)..b))
         /\ Cardinality({w} \X ((a + 1)..b)) = b - a
  <1>1. IsFiniteSet({w}) /\ Cardinality({w}) = 1
    BY FS_Singleton
  <1>2. IsFiniteSet((a + 1)..b) /\ Cardinality((a + 1)..b) = b - a
    <2>1. a + 1 \in Int /\ b \in Int
      OBVIOUS
    <2>2. /\ IsFiniteSet((a + 1)..b)
          /\ Cardinality((a + 1)..b) = IF a + 1 > b THEN 0 ELSE b - (a + 1) + 1
      BY <2>1, FS_Interval
    <2>3. (IF a + 1 > b THEN 0 ELSE b - (a + 1) + 1) = b - a
      OBVIOUS
    <2> QED BY <2>2, <2>3
  <1>3. Cardinality({w} \X ((a + 1)..b)) = Cardinality({w}) * Cardinality((a + 1)..b)
    BY <1>1, <1>2, FS_Product
  <1>4. IsFiniteSet({w} \X ((a + 1)..b))
    BY <1>1, <1>2, FS_Product
  <1> QED BY <1>1, <1>2, <1>3, <1>4

\* Raising one writer's charge raises the total by as much.
LEMMA ChargesGrow ==
  ASSUME NEW f \in [Writers -> 0..Limit], NEW w \in Writers, NEW b \in 0..Limit, f[w] <= b
  PROVE  Cardinality(Charges([f EXCEPT ![w] = b])) = Cardinality(Charges(f)) + (b - f[w])
  <1> DEFINE g == [f EXCEPT ![w] = b]
             run == {w} \X ((f[w] + 1)..b)
  <1>1. g \in [Writers -> 0..Limit]
    OBVIOUS
  <1>2. Charges(g) = Charges(f) \cup run
    <2>1. ASSUME NEW c \in Charges(g) PROVE c \in Charges(f) \cup run
      <3>1. PICK v \in Writers, i \in 1..Limit : c = <<v, i>>
        BY DEF Charges
      <3>2. i <= g[v]
        BY <2>1, <3>1 DEF Charges
      <3>3. CASE v = w /\ i > f[w]
        BY <3>1, <3>2, <3>3
      <3>4. CASE ~(v = w /\ i > f[w])
        <4>1. i <= f[v]
          BY <3>2, <3>4
        <4> QED BY <3>1, <4>1 DEF Charges
      <3> QED BY <3>3, <3>4
    <2>2. ASSUME NEW c \in Charges(f) PROVE c \in Charges(g)
      <3>1. PICK v \in Writers, i \in 1..Limit : c = <<v, i>>
        BY DEF Charges
      <3>2. i <= f[v]
        BY <2>2, <3>1 DEF Charges
      <3>3. i <= g[v]
        BY <3>2
      <3> QED BY <3>1, <3>3 DEF Charges
    <2>3. ASSUME NEW c \in run PROVE c \in Charges(g)
      <3>1. PICK i \in (f[w] + 1)..b : c = <<w, i>>
        OBVIOUS
      <3>2. i \in 1..Limit /\ i <= g[w]
        OBVIOUS
      <3> QED BY <3>1, <3>2 DEF Charges
    <2> QED BY <2>1, <2>2, <2>3
  <1>3. Charges(f) \cap run = {}
    BY DEF Charges
  <1>4. IsFiniteSet(run) /\ Cardinality(run) = b - f[w]
    BY RunOfCharges
  <1>5. IsFiniteSet(Charges(f)) /\ Cardinality(Charges(f)) \in Nat
    BY ChargesFinite
  <1> HIDE DEF g, run
  <1>6. Cardinality(Charges(f) \cup run) =
           Cardinality(Charges(f)) + Cardinality(run) - Cardinality(Charges(f) \cap run)
    BY <1>4, <1>5, FS_Union
  <1>7. Cardinality(Charges(f) \cap run) = 0
    BY <1>3, FS_EmptySet
  <1>8. Cardinality(Charges(g)) = Cardinality(Charges(f)) + (b - f[w])
    BY <1>2, <1>4, <1>5, <1>6, <1>7
  <1> QED BY <1>8 DEF g

\* Lowering one writer's charge lowers the total by as much.
LEMMA ChargesShrink ==
  ASSUME NEW f \in [Writers -> 0..Limit], NEW w \in Writers, NEW b \in 0..Limit, b <= f[w]
  PROVE  /\ Cardinality(Charges([f EXCEPT ![w] = b])) = Cardinality(Charges(f)) - (f[w] - b)
         /\ Cardinality(Charges(f)) - (f[w] - b) \in Nat
  <1> DEFINE g == [f EXCEPT ![w] = b]
  <1>1. g \in [Writers -> 0..Limit] /\ g[w] = b /\ f = [g EXCEPT ![w] = f[w]]
    <2>1. g \in [Writers -> 0..Limit] /\ g[w] = b
      OBVIOUS
    <2>2. [g EXCEPT ![w] = f[w]] \in [Writers -> 0..Limit]
      OBVIOUS
    <2>3. \A v \in Writers : f[v] = [g EXCEPT ![w] = f[w]][v]
      OBVIOUS
    <2> QED BY <2>1, <2>2, <2>3
  <1> HIDE DEF g
  <1>2. Cardinality(Charges(f)) = Cardinality(Charges(g)) + (f[w] - b)
    BY <1>1, ChargesGrow
  <1>3. Cardinality(Charges(f)) \in Nat /\ Cardinality(Charges(g)) \in Nat
    BY <1>1, ChargesFinite
  <1>4. /\ Cardinality(Charges(g)) = Cardinality(Charges(f)) - (f[w] - b)
        /\ Cardinality(Charges(f)) - (f[w] - b) \in Nat
    BY <1>2, <1>3
  <1> QED BY <1>4 DEF g

\* No writer is charged for more than the total.
LEMMA ChargeWithinTotal ==
  ASSUME NEW f \in [Writers -> 0..Limit], NEW w \in Writers
  PROVE  f[w] <= Cardinality(Charges(f))
  <1>0. 0 \in 0..Limit /\ 0 <= f[w] /\ f[w] \in 0..Limit
    OBVIOUS
  <1>1. Cardinality(Charges(f)) - (f[w] - 0) \in Nat
    BY <1>0, ChargesShrink
  <1> QED BY <1>1, ChargesFinite

-----------------------------------------------------------------------------
\* Every initial state satisfies the invariant.
LEMMA InitInv == RetainInit => RetainInv
  <1> SUFFICES ASSUME RetainInit PROVE RetainInv  OBVIOUS
  <1>1. named \in [Writers -> BOOLEAN]
    BY Zenon DEF RetainInit
  <1>2. RetainTypeOK
    BY <1>1 DEF RetainInit, RetainTypeOK
  <1>3. BudgetIsExact
    <2>1. Charges(bytes) = {}
      BY DEF RetainInit, Charges
    <2> QED BY <2>1, FS_EmptySet DEF RetainInit, BudgetIsExact
  <1>4. WriterStages
    BY DEF RetainInit, WriterStages, Stage
  <1>5. HighWaterLags
    BY DEF RetainInit, HighWaterLags
  <1> QED BY <1>2, <1>3, <1>4, <1>5 DEF RetainInv

\* What grow grants fits the budget and is no more than was asked for.
LEMMA GrantFits ==
  ASSUME RetainTypeOK, NEW w \in Writers
  PROVE  Grant(w) \in 0..Limit /\ Grant(w) <= chunk[w] /\ seen[w] + Grant(w) <= Limit
  BY DEF Grant, Smallest, RetainTypeOK

\* Every step keeps the counter equal to the live charges and within the
\* limit: only the compare-and-exchange raises it, from the value it saw.
LEMMA BudgetStep ==
  RetainInv /\ [RetainNext]_retainVars => bytes' \in [Writers -> 0..Limit] /\ used' \in 0..Limit /\ BudgetIsExact'
  <1> DEFINE Goal == bytes' \in [Writers -> 0..Limit] /\ used' \in 0..Limit /\ BudgetIsExact'
  <1> SUFFICES ASSUME RetainInv, [RetainNext]_retainVars PROVE Goal  OBVIOUS
  <1> USE DEF RetainInv, Charges
  <1>1. CASE UNCHANGED <<bytes, used>>
    BY <1>1 DEF RetainTypeOK, BudgetIsExact
  <1>2. ASSUME NEW w \in Writers, NEW n \in Nat, n <= bytes[w],
               bytes' = [bytes EXCEPT ![w] = n], used' = used - (bytes[w] - n)
        PROVE  Goal
    <2> HIDE DEF Charges
    <2>1. n \in 0..Limit
      BY <1>2 DEF RetainTypeOK
    <2>2. Cardinality(Charges(bytes')) = used - (bytes[w] - n) /\ used - (bytes[w] - n) \in Nat
      <3>1. bytes \in [Writers -> 0..Limit] /\ used = Cardinality(Charges(bytes))
        BY DEF RetainTypeOK, BudgetIsExact
      <3>2. /\ Cardinality(Charges([bytes EXCEPT ![w] = n])) =
                   Cardinality(Charges(bytes)) - (bytes[w] - n)
            /\ Cardinality(Charges(bytes)) - (bytes[w] - n) \in Nat
        BY <1>2, <2>1, <3>1, ChargesShrink
      <3> QED BY <1>2, <3>1, <3>2
    <2>3. bytes' \in [Writers -> 0..Limit] /\ used' \in 0..Limit
      BY <1>2, <2>1, <2>2 DEF RetainTypeOK
    <2> QED BY <1>2, <2>2, <2>3 DEF BudgetIsExact, Charges
  <1>3. ASSUME NEW w \in Writers, GrowUpdate(w), used = seen[w] PROVE Goal
    <2> HIDE DEF Charges
    <2>1. Grant(w) \in 0..Limit /\ used + Grant(w) <= Limit
      BY <1>3, GrantFits
    <2>2. bytes[w] <= used
      BY ChargeWithinTotal DEF BudgetIsExact, RetainTypeOK
    <2>3. bytes[w] + Grant(w) \in 0..Limit
      BY <2>1, <2>2 DEF RetainTypeOK
    <2>4. bytes' = [bytes EXCEPT ![w] = bytes[w] + Grant(w)] /\ used' = used + Grant(w)
      BY <1>3 DEF GrowUpdate
    <2>5. Cardinality(Charges(bytes')) = used + ((bytes[w] + Grant(w)) - bytes[w])
      <3>1. bytes \in [Writers -> 0..Limit] /\ used = Cardinality(Charges(bytes))
        BY DEF RetainTypeOK, BudgetIsExact
      <3>2. bytes[w] <= bytes[w] + Grant(w)
        BY <2>1, <3>1
      <3>3. Cardinality(Charges([bytes EXCEPT ![w] = bytes[w] + Grant(w)])) =
               Cardinality(Charges(bytes)) + ((bytes[w] + Grant(w)) - bytes[w])
        BY <2>3, <3>1, <3>2, ChargesGrow
      <3> QED BY <2>4, <3>1, <3>3
    <2>6. bytes' \in [Writers -> 0..Limit] /\ used' \in 0..Limit
      BY <2>1, <2>3, <2>4 DEF RetainTypeOK
    <2>7. used' = Cardinality(Charges(bytes'))
      BY <2>1, <2>3, <2>4, <2>5 DEF RetainTypeOK
    <2> QED BY <2>6, <2>7 DEF BudgetIsExact, Charges
  <1>4. ASSUME NEW w \in Writers, Shrink(w) PROVE Goal
    <2> DEFINE n == bytes[w] - (granted[w] - landed[w])
    <2>2. n \in Nat /\ n <= bytes[w]
      BY <1>4 DEF Shrink, WriterStages, Stage, RetainTypeOK
    <2>3. bytes' = [bytes EXCEPT ![w] = n] /\ used' = used - (bytes[w] - n)
      BY <1>4, <2>2 DEF Shrink, RetainTypeOK
    <2> HIDE DEF n
    <2> QED BY <1>2, <2>2, <2>3
  <1>5. ASSUME NEW w \in Writers, Release(w) PROVE Goal
    <2>1. bytes' = [bytes EXCEPT ![w] = 0] /\ used' = used - (bytes[w] - 0) /\ 0 <= bytes[w]
      BY <1>5 DEF Release, RetainTypeOK
    <2> QED BY <1>2, <2>1
  <1>6. ASSUME NEW w \in Writers, WriterStep(w), ~Shrink(w), ~Release(w),
               ~(GrowUpdate(w) /\ used = seen[w])
        PROVE  UNCHANGED <<bytes, used>>
    BY <1>6 DEF WriterStep, OpenSnapshot, ReadSource, ProbeSource, GrowLoad, GrowUpdate,
                MarkHighWater,
                WriteCharged, Reopen, UnlinkSnapshot, Retain, Share, DropHandle, DropWriter,
                ledger
  <1>7. ASSUME NEW w \in Writers, CallFails(w) \/ RemoveEntry(w) PROVE UNCHANGED <<bytes, used>>
    BY <1>7 DEF CallFails, RemoveEntry, ledger
  <1>8. CASE CloseScope \/ RemovePrivate \/ RemoveFails \/ UNCHANGED retainVars
    BY <1>1, <1>8 DEF CloseScope, RemovePrivate, RemoveFails, ledger, retainVars
  <1> HIDE DEF Goal
  <1> QED BY <1>1, <1>3, <1>4, <1>5, <1>6, <1>7, <1>8 DEF RetainNext

\* Every step keeps the types.
LEMMA TypeStep == RetainInv /\ [RetainNext]_retainVars => RetainTypeOK'
  <1> SUFFICES ASSUME RetainInv, [RetainNext]_retainVars PROVE RetainTypeOK'  OBVIOUS
  <1> USE DEF RetainInv
  <1>0. bytes' \in [Writers -> 0..Limit] /\ used' \in 0..Limit
    BY BudgetStep
  <1>1. ASSUME NEW w \in Writers, OpenSnapshot(w) PROVE RetainTypeOK'
    <2>1. named' \in [Writers -> BOOLEAN]
      BY <1>1, Zenon DEF OpenSnapshot, RetainTypeOK
    <2> QED BY <1>0, <1>1, <2>1
       DEF OpenSnapshot, RetainTypeOK, Writing, Failures, Turn, FailWriter, call, grant, file, ledger
  <1>2. ASSUME NEW w \in Writers, ReadSource(w) PROVE RetainTypeOK'
    BY <1>0, <1>2
       DEF ReadSource, Total, Smallest, RetainTypeOK, Writing, Failures, Turn, FailWriter, call, grant,
           file, ledger
  <1>3. ASSUME NEW w \in Writers, ProbeSource(w) PROVE RetainTypeOK'
    BY <1>0, <1>3
       DEF ProbeSource, RetainTypeOK, Writing, Failures, Turn, FailWriter, call, grant, file, ledger
  <1>4. ASSUME NEW w \in Writers, GrowLoad(w) PROVE RetainTypeOK'
    BY <1>0, <1>4
       DEF GrowLoad, RetainTypeOK, Writing, Failures, Turn, FailWriter, call, grant, file, ledger
  <1>5. ASSUME NEW w \in Writers, GrowUpdate(w) PROVE RetainTypeOK'
    <2>1. Grant(w) \in 0..Limit
      BY GrantFits
    <2>2. peak' \in 0..Limit
      BY <1>0, <1>5 DEF GrowUpdate, Largest, RetainTypeOK
    <2> QED BY <1>0, <1>5, <2>1, <2>2
       DEF GrowUpdate, RetainTypeOK, Writing, Failures, Turn, FailWriter, call, grant, file, ledger
  <1>6. ASSUME NEW w \in Writers, MarkHighWater(w) PROVE RetainTypeOK'
    BY <1>0, <1>6
       DEF MarkHighWater, Largest, HighWaterLags, RetainTypeOK, Writing, Failures, Turn, FailWriter, call,
           grant, file, ledger
  <1>7. ASSUME NEW w \in Writers, WriteCharged(w) PROVE RetainTypeOK'
    <2>1. PICK n \in 0..granted[w] :
             /\ landed' = [landed EXCEPT ![w] = n]
             /\ disk' = [disk EXCEPT ![w] = @ + n] /\ len' = [len EXCEPT ![w] = @ + n]
             /\ (Turn(w, "shrink") \/ Turn(w, "shrinkfail"))
      BY <1>7 DEF WriteCharged
    <2>2. disk[w] + n \in 0..Limit /\ len[w] + n \in 0..Limit /\ n \in 0..Limit
      BY <1>7 DEF WriteCharged, RetainTypeOK, WriterStages, Stage
    <2> QED BY <1>0, <1>7, <2>1, <2>2
       DEF WriteCharged, RetainTypeOK, Writing, Failures, Turn, FailWriter, call, grant, file, ledger
  <1>8. ASSUME NEW w \in Writers, Shrink(w) PROVE RetainTypeOK'
    <2>1. chunk[w] - landed[w] \in 0..MaxSource
      BY <1>8 DEF Shrink, WriterStages, Stage, RetainTypeOK
    <2> QED BY <1>0, <1>8, <2>1
       DEF Shrink, RetainTypeOK, Writing, Failures, Turn, FailWriter, call, grant, file, ledger
  <1>9. ASSUME NEW w \in Writers, Reopen(w) PROVE RetainTypeOK'
    BY <1>0, <1>9
       DEF Reopen, RetainTypeOK, Writing, Failures, Turn, FailWriter, call, grant, file, ledger
  <1>10. ASSUME NEW w \in Writers, UnlinkSnapshot(w) PROVE RetainTypeOK'
    <2>1. named' \in [Writers -> BOOLEAN]
      BY <1>10, Zenon DEF UnlinkSnapshot, RetainTypeOK
    <2> QED BY <1>0, <1>10, <2>1
       DEF UnlinkSnapshot, RetainTypeOK, Writing, Failures, Turn, FailWriter, call, grant, file, ledger
  <1>11. ASSUME NEW w \in Writers, Retain(w) PROVE RetainTypeOK'
    BY <1>0, <1>11
       DEF Retain, RetainTypeOK, Writing, Failures, Turn, FailWriter, call, grant, file, ledger
  <1>12. ASSUME NEW w \in Writers, Share(w) PROVE RetainTypeOK'
    BY <1>0, <1>12
       DEF Share, RetainTypeOK, Writing, Failures, Turn, FailWriter, call, grant, file, ledger
  <1>13. ASSUME NEW w \in Writers, DropHandle(w) PROVE RetainTypeOK'
    <2>1. handles[w] - 1 \in 0..MaxHandles
      BY <1>13 DEF DropHandle, WriterStages, Stage, RetainTypeOK
    <2> QED BY <1>0, <1>13, <2>1
       DEF DropHandle, RetainTypeOK, Writing, Failures, Turn, FailWriter, call, grant, file, ledger
  <1>14. ASSUME NEW w \in Writers, DropWriter(w) PROVE RetainTypeOK'
    <2>1. named' \in [Writers -> BOOLEAN]
      BY <1>14, Zenon DEF DropWriter, RetainTypeOK
    <2> QED BY <1>0, <1>14, <2>1
       DEF DropWriter, RetainTypeOK, Writing, Failures, Turn, FailWriter, call, grant, file, ledger
  <1>15. ASSUME NEW w \in Writers, Release(w) PROVE RetainTypeOK'
    BY <1>0, <1>15
       DEF Release, RetainTypeOK, Writing, Failures, Turn, FailWriter, call, grant, file, ledger
  <1>16. ASSUME NEW w \in Writers, CallFails(w) PROVE RetainTypeOK'
    BY <1>0, <1>16
       DEF CallFails, RetainTypeOK, Writing, Failures, Turn, FailWriter, call, grant, file, ledger
  <1>17. ASSUME NEW w \in Writers, RemoveEntry(w) PROVE RetainTypeOK'
    <2>1. named' \in [Writers -> BOOLEAN]
      BY <1>17, Zenon DEF RemoveEntry, RetainTypeOK
    <2> QED BY <1>0, <1>17, <2>1
       DEF RemoveEntry, RetainTypeOK, Writing, Failures, Turn, FailWriter, call, grant, file, ledger
  <1>18. CASE CloseScope \/ RemovePrivate \/ RemoveFails
    BY <1>0, <1>18 DEF CloseScope, RemovePrivate, RemoveFails, RetainTypeOK, Turn, FailWriter, call, grant,
                       file, ledger
  <1>19. CASE UNCHANGED retainVars
    BY <1>0, <1>19 DEF retainVars, RetainTypeOK, Turn, FailWriter, call, grant, file, ledger
  <1> QED BY <1>1, <1>2, <1>3, <1>4, <1>5, <1>6, <1>7, <1>8, <1>9, <1>10, <1>11, <1>12, <1>13,
  <1>14, <1>15, <1>16, <1>17, <1>18, <1>19 DEF RetainNext, WriterStep

\* Every step keeps what the stages have established.
LEMMA StagesStep == RetainInv /\ [RetainNext]_retainVars => WriterStages'
  <1> SUFFICES ASSUME RetainInv, [RetainNext]_retainVars PROVE WriterStages'  OBVIOUS
  <1> USE DEF RetainInv
  <1>1. ASSUME NEW w \in Writers, OpenSnapshot(w) PROVE WriterStages'
    <2>1. Stage(w)'
      BY <1>1
         DEF OpenSnapshot, RetainTypeOK, WriterStages, Stage, Turn, FailWriter, call, grant, file, ledger
    <2>2. ASSUME NEW v \in Writers, v # w PROVE Stage(v)'
      BY <1>1, <2>2
         DEF OpenSnapshot, RetainTypeOK, WriterStages, Stage, Turn, FailWriter, call, grant, file, ledger
    <2> QED BY <2>1, <2>2 DEF WriterStages
  <1>2. ASSUME NEW w \in Writers, ReadSource(w) PROVE WriterStages'
    <2>1. Stage(w)'
      BY <1>2
         DEF ReadSource, Total, Smallest, RetainTypeOK, WriterStages, Stage, Turn, FailWriter, call,
             grant, file, ledger
    <2>2. ASSUME NEW v \in Writers, v # w PROVE Stage(v)'
      BY <1>2, <2>2
         DEF ReadSource, RetainTypeOK, WriterStages, Stage, Turn, FailWriter, call, grant, file, ledger
    <2> QED BY <2>1, <2>2 DEF WriterStages
  <1>3. ASSUME NEW w \in Writers, ProbeSource(w) PROVE WriterStages'
    <2>1. Stage(w)'
      <3>1. CASE left[w] = 0
        BY <1>3, <3>1
           DEF ProbeSource, Total, RetainTypeOK, WriterStages, Stage, Turn, FailWriter, call, grant,
               file, ledger
      <3>2. CASE left[w] # 0
        <4>1. /\ place'[w] = "drop" /\ outcome'[w] = "toolong"
              /\ bytes'[w] = bytes[w] /\ chunk'[w] = chunk[w]
              /\ UNCHANGED <<source, left, granted, len, disk, named, handles, scope>>
          BY <1>3, <3>2
             DEF ProbeSource, Total, RetainTypeOK, Turn, FailWriter, call, grant, file, ledger
        <4>2. Stage(w) /\ landed[w] \in Nat /\ granted[w] \in Nat /\ bytes[w] \in Nat
                /\ chunk[w] \in Nat /\ len[w] \in Nat /\ source[w] \in Nat /\ left[w] \in Nat
          BY DEF RetainTypeOK, WriterStages
        <4> QED BY <1>3, <3>2, <4>1, <4>2 DEF ProbeSource, Total, Stage
      <3> QED BY <1>3, <3>1, <3>2 DEF ProbeSource
    <2>2. ASSUME NEW v \in Writers, v # w PROVE Stage(v)'
      BY <1>3, <2>2
         DEF ProbeSource, RetainTypeOK, WriterStages, Stage, Turn, FailWriter, call, grant, file, ledger
    <2> QED BY <2>1, <2>2 DEF WriterStages
  <1>4. ASSUME NEW w \in Writers, GrowLoad(w) PROVE WriterStages'
    <2>1. Stage(w)'
      BY <1>4
         DEF GrowLoad, RetainTypeOK, WriterStages, Stage, Turn, FailWriter, call, grant, file, ledger
    <2>2. ASSUME NEW v \in Writers, v # w PROVE Stage(v)'
      BY <1>4, <2>2
         DEF GrowLoad, RetainTypeOK, WriterStages, Stage, Turn, FailWriter, call, grant, file, ledger
    <2> QED BY <2>1, <2>2 DEF WriterStages
  <1>5. ASSUME NEW w \in Writers, GrowUpdate(w) PROVE WriterStages'
    <2>1. Stage(w)'
      BY <1>5, GrantFits
         DEF GrowUpdate, RetainTypeOK, WriterStages, Stage, Turn, FailWriter, call, grant, file, ledger
    <2>2. ASSUME NEW v \in Writers, v # w PROVE Stage(v)'
      BY <1>5, <2>2
         DEF GrowUpdate, RetainTypeOK, WriterStages, Stage, Turn, FailWriter, call, grant, file, ledger
    <2> QED BY <2>1, <2>2 DEF WriterStages
  <1>6. ASSUME NEW w \in Writers, MarkHighWater(w) PROVE WriterStages'
    <2>1. Stage(w)'
      BY <1>6
         DEF MarkHighWater, RetainTypeOK, WriterStages, Stage, Turn, FailWriter, call, grant, file,
             ledger
    <2>2. ASSUME NEW v \in Writers, v # w PROVE Stage(v)'
      BY <1>6, <2>2
         DEF MarkHighWater, RetainTypeOK, WriterStages, Stage, Turn, FailWriter, call, grant, file,
             ledger
    <2> QED BY <2>1, <2>2 DEF WriterStages
  <1>7. ASSUME NEW w \in Writers, WriteCharged(w) PROVE WriterStages'
    <2>1. Stage(w)'
      BY <1>7
         DEF WriteCharged, RetainTypeOK, WriterStages, Stage, Turn, FailWriter, call, grant, file, ledger
    <2>2. ASSUME NEW v \in Writers, v # w PROVE Stage(v)'
      BY <1>7, <2>2
         DEF WriteCharged, RetainTypeOK, WriterStages, Stage, Turn, FailWriter, call, grant, file, ledger
    <2> QED BY <2>1, <2>2 DEF WriterStages
  <1>8. ASSUME NEW w \in Writers, Shrink(w) PROVE WriterStages'
    <2>1. Stage(w)'
      <3>1. CASE place[w] = "shrinkfail"
        <4>1. /\ place'[w] = "drop" /\ outcome'[w] = "io"
              /\ bytes'[w] = bytes[w] - (granted[w] - landed[w]) /\ chunk'[w] = chunk[w] - landed[w]
              /\ UNCHANGED <<source, left, granted, len, disk, named, handles, scope>>
          BY <1>8, <3>1
             DEF Shrink, RetainTypeOK, Turn, FailWriter, call, grant, file, ledger
        <4>2. Stage(w) /\ landed[w] \in Nat /\ granted[w] \in Nat /\ bytes[w] \in Nat
                /\ chunk[w] \in Nat /\ len[w] \in Nat /\ source[w] \in Nat /\ left[w] \in Nat
          BY DEF RetainTypeOK, WriterStages
        <4> QED BY <1>8, <3>1, <4>1, <4>2 DEF Shrink, Stage
      <3>2. CASE place[w] = "shrink" /\ chunk[w] = landed[w]
        <4>1. /\ place'[w] = "read" /\ outcome'[w] = outcome[w]
              /\ bytes'[w] = bytes[w] - (granted[w] - landed[w]) /\ chunk'[w] = chunk[w] - landed[w]
              /\ UNCHANGED <<source, left, granted, len, disk, named, handles, scope>>
          BY <1>8, <3>2
             DEF Shrink, RetainTypeOK, Turn, FailWriter, call, grant, file, ledger
        <4>2. Stage(w) /\ landed[w] \in Nat /\ granted[w] \in Nat /\ bytes[w] \in Nat
                /\ chunk[w] \in Nat /\ len[w] \in Nat /\ source[w] \in Nat /\ left[w] \in Nat
          BY DEF RetainTypeOK, WriterStages
        <4> QED BY <1>8, <3>2, <4>1, <4>2 DEF Shrink, Stage
      <3>3. CASE place[w] = "shrink" /\ chunk[w] # landed[w]
        <4>1. /\ place'[w] = "load" /\ outcome'[w] = outcome[w]
              /\ bytes'[w] = bytes[w] - (granted[w] - landed[w]) /\ chunk'[w] = chunk[w] - landed[w]
              /\ UNCHANGED <<source, left, granted, len, disk, named, handles, scope>>
          BY <1>8, <3>3
             DEF Shrink, RetainTypeOK, Turn, FailWriter, call, grant, file, ledger
        <4>2. Stage(w) /\ landed[w] \in Nat /\ granted[w] \in Nat /\ bytes[w] \in Nat
                /\ chunk[w] \in Nat /\ len[w] \in Nat /\ source[w] \in Nat /\ left[w] \in Nat
          BY DEF RetainTypeOK, WriterStages
        <4> QED BY <1>8, <3>3, <4>1, <4>2 DEF Shrink, Stage
      <3> QED BY <1>8, <3>1, <3>2, <3>3 DEF Shrink
    <2>2. ASSUME NEW v \in Writers, v # w PROVE Stage(v)'
      BY <1>8, <2>2
         DEF Shrink, RetainTypeOK, WriterStages, Stage, Turn, FailWriter, call, grant, file, ledger
    <2> QED BY <2>1, <2>2 DEF WriterStages
  <1>9. ASSUME NEW w \in Writers, Reopen(w) PROVE WriterStages'
    <2>1. Stage(w)'
      BY <1>9
         DEF Reopen, RetainTypeOK, WriterStages, Stage, Turn, FailWriter, call, grant, file, ledger
    <2>2. ASSUME NEW v \in Writers, v # w PROVE Stage(v)'
      BY <1>9, <2>2
         DEF Reopen, RetainTypeOK, WriterStages, Stage, Turn, FailWriter, call, grant, file, ledger
    <2> QED BY <2>1, <2>2 DEF WriterStages
  <1>10. ASSUME NEW w \in Writers, UnlinkSnapshot(w) PROVE WriterStages'
    <2>1. Stage(w)'
      BY <1>10
         DEF UnlinkSnapshot, RetainTypeOK, WriterStages, Stage, Turn, FailWriter, call, grant, file,
             ledger
    <2>2. ASSUME NEW v \in Writers, v # w PROVE Stage(v)'
      BY <1>10, <2>2
         DEF UnlinkSnapshot, RetainTypeOK, WriterStages, Stage, Turn, FailWriter, call, grant, file,
             ledger
    <2> QED BY <2>1, <2>2 DEF WriterStages
  <1>11. ASSUME NEW w \in Writers, Retain(w) PROVE WriterStages'
    <2>1. Stage(w)'
      BY <1>11
         DEF Retain, RetainTypeOK, WriterStages, Stage, Turn, FailWriter, call, grant, file, ledger
    <2>2. ASSUME NEW v \in Writers, v # w PROVE Stage(v)'
      BY <1>11, <2>2
         DEF Retain, RetainTypeOK, WriterStages, Stage, Turn, FailWriter, call, grant, file, ledger
    <2> QED BY <2>1, <2>2 DEF WriterStages
  <1>12. ASSUME NEW w \in Writers, Share(w) PROVE WriterStages'
    <2>1. Stage(w)'
      BY <1>12
         DEF Share, RetainTypeOK, WriterStages, Stage, Turn, FailWriter, call, grant, file, ledger
    <2>2. ASSUME NEW v \in Writers, v # w PROVE Stage(v)'
      BY <1>12, <2>2
         DEF Share, RetainTypeOK, WriterStages, Stage, Turn, FailWriter, call, grant, file, ledger
    <2> QED BY <2>1, <2>2 DEF WriterStages
  <1>13. ASSUME NEW w \in Writers, DropHandle(w) PROVE WriterStages'
    <2>1. Stage(w)'
      BY <1>13
         DEF DropHandle, RetainTypeOK, WriterStages, Stage, Turn, FailWriter, call, grant, file, ledger
    <2>2. ASSUME NEW v \in Writers, v # w PROVE Stage(v)'
      BY <1>13, <2>2
         DEF DropHandle, RetainTypeOK, WriterStages, Stage, Turn, FailWriter, call, grant, file, ledger
    <2> QED BY <2>1, <2>2 DEF WriterStages
  <1>14. ASSUME NEW w \in Writers, DropWriter(w) PROVE WriterStages'
    <2>1. Stage(w)'
      BY <1>14
         DEF DropWriter, RetainTypeOK, WriterStages, Stage, Turn, FailWriter, call, grant, file, ledger
    <2>2. ASSUME NEW v \in Writers, v # w PROVE Stage(v)'
      BY <1>14, <2>2
         DEF DropWriter, RetainTypeOK, WriterStages, Stage, Turn, FailWriter, call, grant, file, ledger
    <2> QED BY <2>1, <2>2 DEF WriterStages
  <1>15. ASSUME NEW w \in Writers, Release(w) PROVE WriterStages'
    <2>1. Stage(w)'
      BY <1>15
         DEF Release, RetainTypeOK, WriterStages, Stage, Turn, FailWriter, call, grant, file, ledger
    <2>2. ASSUME NEW v \in Writers, v # w PROVE Stage(v)'
      BY <1>15, <2>2
         DEF Release, RetainTypeOK, WriterStages, Stage, Turn, FailWriter, call, grant, file, ledger
    <2> QED BY <2>1, <2>2 DEF WriterStages
  <1>16. ASSUME NEW w \in Writers, CallFails(w) PROVE WriterStages'
    <2>1. Stage(w)'
      <3>1. CASE place[w] \in {"read", "reopen", "unlink"}
        <4>1. /\ place'[w] = "drop" /\ outcome'[w] = "io"
              /\ bytes'[w] = bytes[w] /\ chunk'[w] = chunk[w]
              /\ UNCHANGED <<source, left, granted, len, disk, named, handles, scope>>
              /\ ioFaults' > 0
          BY <1>16, <3>1
             DEF CallFails, RetainTypeOK, Turn, FailWriter, call, grant, file, ledger
        <4>2. Stage(w) /\ landed[w] \in Nat /\ granted[w] \in Nat /\ bytes[w] \in Nat
                /\ chunk[w] \in Nat /\ len[w] \in Nat /\ source[w] \in Nat /\ left[w] \in Nat
          BY DEF RetainTypeOK, WriterStages
        <4> QED BY <1>16, <3>1, <4>1, <4>2 DEF CallFails, Stage
      <3>2. CASE place[w] = "idle"
        <4>1. /\ place'[w] = "done" /\ outcome'[w] = "io"
              /\ bytes'[w] = bytes[w] /\ chunk'[w] = chunk[w]
              /\ UNCHANGED <<source, left, granted, len, disk, named, handles, scope>>
              /\ ioFaults' > 0
          BY <1>16, <3>2
             DEF CallFails, RetainTypeOK, Turn, FailWriter, call, grant, file, ledger
        <4>2. Stage(w) /\ landed[w] \in Nat /\ granted[w] \in Nat /\ bytes[w] \in Nat
                /\ chunk[w] \in Nat /\ len[w] \in Nat /\ source[w] \in Nat /\ left[w] \in Nat
          BY DEF RetainTypeOK, WriterStages
        <4> QED BY <1>16, <3>2, <4>1, <4>2 DEF CallFails, Stage
      <3>3. CASE place[w] = "write"
        <4>1. /\ place'[w] = "shrinkfail" /\ outcome'[w] = outcome[w]
              /\ bytes'[w] = bytes[w] /\ chunk'[w] = chunk[w]
              /\ UNCHANGED <<source, left, granted, len, disk, named, handles, scope>>
              /\ ioFaults' > 0
              /\ landed'[w] = 0
          BY <1>16, <3>3
             DEF CallFails, RetainTypeOK, Turn, FailWriter, call, grant, file, ledger
        <4>2. Stage(w) /\ landed[w] \in Nat /\ granted[w] \in Nat /\ bytes[w] \in Nat
                /\ chunk[w] \in Nat /\ len[w] \in Nat /\ source[w] \in Nat /\ left[w] \in Nat
          BY DEF RetainTypeOK, WriterStages
        <4> QED BY <1>16, <3>3, <4>1, <4>2 DEF CallFails, Stage
      <3>4. CASE place[w] = "drop"
        <4>1. /\ place'[w] = "release" /\ outcome'[w] = outcome[w]
              /\ bytes'[w] = bytes[w] /\ chunk'[w] = chunk[w]
              /\ UNCHANGED <<source, left, granted, len, disk, named, handles, scope>>
              /\ ioFaults' > 0
              /\ named[w]
          BY <1>16, <3>4
             DEF CallFails, RetainTypeOK, Turn, FailWriter, call, grant, file, ledger
        <4>2. Stage(w) /\ landed[w] \in Nat /\ granted[w] \in Nat /\ bytes[w] \in Nat
                /\ chunk[w] \in Nat /\ len[w] \in Nat /\ source[w] \in Nat /\ left[w] \in Nat
          BY DEF RetainTypeOK, WriterStages
        <4> QED BY <1>16, <3>4, <4>1, <4>2 DEF CallFails, Stage
      <3> QED BY <1>16, <3>1, <3>2, <3>3, <3>4 DEF CallFails
    <2>2. ASSUME NEW v \in Writers, v # w PROVE Stage(v)'
      BY <1>16, <2>2
         DEF CallFails, RetainTypeOK, WriterStages, Stage, Turn, FailWriter, call, grant, file, ledger
    <2> QED BY <2>1, <2>2 DEF WriterStages
  <1>17. ASSUME NEW w \in Writers, RemoveEntry(w) PROVE WriterStages'
    <2>1. Stage(w)'
      BY <1>17
         DEF RemoveEntry, RetainTypeOK, WriterStages, Stage, Turn, FailWriter, call, grant, file, ledger
    <2>2. ASSUME NEW v \in Writers, v # w PROVE Stage(v)'
      BY <1>17, <2>2
         DEF RemoveEntry, RetainTypeOK, WriterStages, Stage, Turn, FailWriter, call, grant, file, ledger
    <2> QED BY <2>1, <2>2 DEF WriterStages
  <1>18. CASE CloseScope
    BY <1>18 DEF CloseScope, RetainTypeOK, Writing, WriterStages, Stage, Turn, FailWriter, call, grant,
                 file, ledger
  <1>19. CASE RemovePrivate \/ RemoveFails
    <2> SUFFICES ASSUME NEW v \in Writers PROVE Stage(v)'
      BY DEF WriterStages
    <2>1. Stage(v) /\ scope # "open"
      BY <1>19 DEF WriterStages, RemovePrivate, RemoveFails
    <2>2. ioFaults' > 0 \/ ioFaults' = ioFaults
      BY <1>19 DEF RemovePrivate, RemoveFails, RetainTypeOK
    <2> QED BY <1>19, <2>1, <2>2
       DEF RemovePrivate, RemoveFails, Stage, Turn, FailWriter, call, grant, file, ledger
  <1>20. CASE UNCHANGED retainVars
    BY <1>20 DEF retainVars, WriterStages, Stage, Turn, FailWriter, call, grant, file, ledger
  <1> QED BY <1>1, <1>2, <1>3, <1>4, <1>5, <1>6, <1>7, <1>8, <1>9, <1>10, <1>11, <1>12, <1>13,
  <1>14, <1>15, <1>16, <1>17, <1>18, <1>19, <1>20 DEF RetainNext, WriterStep

\* Every step keeps the high-water mark no more than one grow behind.
LEMMA HighWaterStep == RetainInv /\ [RetainNext]_retainVars => HighWaterLags'
  <1> SUFFICES ASSUME RetainInv, [RetainNext]_retainVars PROVE HighWaterLags'  OBVIOUS
  <1> USE DEF RetainInv, HighWaterLags
  <1>1. ASSUME NEW w \in Writers, OpenSnapshot(w) PROVE HighWaterLags'
    BY <1>1
       DEF OpenSnapshot, RetainTypeOK, Turn, FailWriter, call, grant, file, ledger
  <1>2. ASSUME NEW w \in Writers, ReadSource(w) PROVE HighWaterLags'
    BY <1>2
       DEF ReadSource, RetainTypeOK, Turn, FailWriter, call, grant, file, ledger
  <1>3. ASSUME NEW w \in Writers, ProbeSource(w) PROVE HighWaterLags'
    BY <1>3
       DEF ProbeSource, RetainTypeOK, Turn, FailWriter, call, grant, file, ledger
  <1>4. ASSUME NEW w \in Writers, GrowLoad(w) PROVE HighWaterLags'
    BY <1>4
       DEF GrowLoad, RetainTypeOK, Turn, FailWriter, call, grant, file, ledger
  <1>5. ASSUME NEW w \in Writers, GrowUpdate(w) PROVE HighWaterLags'
    BY <1>5, GrantFits
       DEF GrowUpdate, Largest, RetainTypeOK, Turn, FailWriter, call, grant, file, ledger
  <1>6. ASSUME NEW w \in Writers, MarkHighWater(w) PROVE HighWaterLags'
    BY <1>6
       DEF MarkHighWater, Largest, RetainTypeOK, Turn, FailWriter, call, grant, file, ledger
  <1>7. ASSUME NEW w \in Writers, WriteCharged(w) PROVE HighWaterLags'
    BY <1>7
       DEF WriteCharged, RetainTypeOK, Turn, FailWriter, call, grant, file, ledger
  <1>8. ASSUME NEW w \in Writers, Shrink(w) PROVE HighWaterLags'
    BY <1>8
       DEF Shrink, RetainTypeOK, Turn, FailWriter, call, grant, file, ledger
  <1>9. ASSUME NEW w \in Writers, Reopen(w) PROVE HighWaterLags'
    BY <1>9
       DEF Reopen, RetainTypeOK, Turn, FailWriter, call, grant, file, ledger
  <1>10. ASSUME NEW w \in Writers, UnlinkSnapshot(w) PROVE HighWaterLags'
    BY <1>10
       DEF UnlinkSnapshot, RetainTypeOK, Turn, FailWriter, call, grant, file, ledger
  <1>11. ASSUME NEW w \in Writers, Retain(w) PROVE HighWaterLags'
    BY <1>11
       DEF Retain, RetainTypeOK, Turn, FailWriter, call, grant, file, ledger
  <1>12. ASSUME NEW w \in Writers, Share(w) PROVE HighWaterLags'
    BY <1>12
       DEF Share, RetainTypeOK, Turn, FailWriter, call, grant, file, ledger
  <1>13. ASSUME NEW w \in Writers, DropHandle(w) PROVE HighWaterLags'
    BY <1>13
       DEF DropHandle, RetainTypeOK, Turn, FailWriter, call, grant, file, ledger
  <1>14. ASSUME NEW w \in Writers, DropWriter(w) PROVE HighWaterLags'
    BY <1>14
       DEF DropWriter, RetainTypeOK, Turn, FailWriter, call, grant, file, ledger
  <1>15. ASSUME NEW w \in Writers, Release(w) PROVE HighWaterLags'
    BY <1>15
       DEF Release, RetainTypeOK, Turn, FailWriter, call, grant, file, ledger
  <1>16. ASSUME NEW w \in Writers, CallFails(w) PROVE HighWaterLags'
    BY <1>16
       DEF CallFails, RetainTypeOK, Turn, FailWriter, call, grant, file, ledger
  <1>17. ASSUME NEW w \in Writers, RemoveEntry(w) PROVE HighWaterLags'
    BY <1>17
       DEF RemoveEntry, RetainTypeOK, Turn, FailWriter, call, grant, file, ledger
  <1>18. CASE CloseScope \/ RemovePrivate \/ RemoveFails \/ UNCHANGED retainVars
    BY <1>18 DEF CloseScope, RemovePrivate, RemoveFails, retainVars, Turn, FailWriter, call, grant, file,
                 ledger
  <1> QED BY <1>1, <1>2, <1>3, <1>4, <1>5, <1>6, <1>7, <1>8, <1>9, <1>10, <1>11, <1>12, <1>13,
  <1>14, <1>15, <1>16, <1>17, <1>18 DEF RetainNext, WriterStep
-----------------------------------------------------------------------------
\* The inductive invariant of retention.
THEOREM Invariance == RetainSpec => []RetainInv
  <1>1. RetainInv /\ [RetainNext]_retainVars => RetainInv'
    BY BudgetStep, TypeStep, StagesStep, HighWaterStep DEF RetainInv
  <1> QED BY InitInv, <1>1, PTL DEF RetainSpec

\* Every reachable state is well typed.
THEOREM TypeCorrect == RetainSpec => []RetainTypeOK
  BY Invariance, PTL DEF RetainInv

\* However many writers race, the budget's counter is exactly the sum of the
\* live charges and within its limit.
THEOREM BudgetSafety == RetainSpec => []BudgetIsExact
  BY Invariance, PTL DEF RetainInv

\* No byte is on the disk that is not charged, but for a file whose unlink
\* failed.
THEOREM DiskSafety == RetainSpec => []DiskIsCharged
  <1>1. RetainInv => DiskIsCharged
    BY DEF RetainInv, RetainTypeOK, WriterStages, Stage, DiskIsCharged, Writing
  <1> QED BY Invariance, <1>1, PTL

\* What snapshot_from retains is the whole source.
THEOREM SnapshotSafety == RetainSpec => []SnapshotIsWholeSource
  <1>1. RetainInv => SnapshotIsWholeSource
    BY DEF RetainInv, RetainTypeOK, WriterStages, Stage, SnapshotIsWholeSource
  <1> QED BY Invariance, <1>1, PTL

\* Between two grows the high-water mark is the peak.
THEOREM HighWaterSafety == RetainSpec => []HighWaterIsPeak
  <1>1. RetainInv => HighWaterIsPeak
    BY DEF RetainInv, RetainTypeOK, HighWaterLags, HighWaterIsPeak
  <1> QED BY Invariance, <1>1, PTL
=============================================================================
