------------------------- MODULE PublicationProofs -------------------------
(***************************************************************************)
(* Proofs, for any number of racing calls, any size of output and any      *)
(* number of faults and power losses, of what publication guarantees.      *)
(***************************************************************************)
EXTENDS Publication, FiniteSetTheorems, TLAPS

USE PublicationAssumption DEF Calls

\* The parts held are finitely many, and holding less is no more of them.
LEMMA HeldFinite ==
  ASSUME NEW f \in [Calls -> 0..NParts]
  PROVE  IsFiniteSet(Held(f)) /\ Cardinality(Held(f)) \in Nat
  <1>1. IsFiniteSet(Calls)
    BY FS_Union
  <1>2. IsFiniteSet(1..NParts)
    BY FS_Interval
  <1>3. IsFiniteSet(Calls \X (1..NParts))
    BY <1>1, <1>2, FS_Product
  <1>4. Held(f) \subseteq Calls \X (1..NParts)
    BY DEF Held
  <1> QED BY <1>3, <1>4, FS_Subset, FS_CardinalityType

\* Who holds less has fewer parts held.
LEMMA HeldLess ==
  ASSUME NEW f \in [Calls -> 0..NParts], NEW g \in [Calls -> 0..NParts],
         \A p \in Calls : g[p] <= f[p]
  PROVE  Cardinality(Held(g)) <= Cardinality(Held(f))
  <1>1. Held(g) \subseteq Held(f)
    BY DEF Held
  <1> QED BY <1>1, HeldFinite, FS_Subset

\* One more part for one call is one more pair.
LEMMA HeldMore ==
  ASSUME NEW f \in [Calls -> 0..NParts], NEW p \in Calls, f[p] < NParts
  PROVE  Cardinality(Held([f EXCEPT ![p] = @ + 1])) <= Cardinality(Held(f)) + 1
  <1> DEFINE g == [f EXCEPT ![p] = @ + 1]
  <1>1. g \in [Calls -> 0..NParts]
    OBVIOUS
  <1>2. Held(g) \subseteq Held(f) \cup {<<p, f[p] + 1>>}
    <2> SUFFICES ASSUME NEW c \in Held(g), c # <<p, f[p] + 1>> PROVE c \in Held(f)
      OBVIOUS
    <2>1. PICK q \in Calls, i \in 1..NParts : c = <<q, i>>
      BY DEF Held
    <2>2. i <= g[q]
      BY <2>1 DEF Held
    <2>3. i <= f[q]
      BY <2>1, <2>2
    <2> QED BY <2>1, <2>3 DEF Held
  <1>3. IsFiniteSet(Held(f) \cup {<<p, f[p] + 1>>})
    BY HeldFinite, FS_AddElement
  <1>4. Cardinality(Held(f) \cup {<<p, f[p] + 1>>}) <= Cardinality(Held(f)) + 1
    <2>1. IsFiniteSet(Held(f)) /\ Cardinality(Held(f)) \in Nat
      BY HeldFinite
    <2>2. Cardinality(Held(f) \cup {<<p, f[p] + 1>>}) =
             IF <<p,
             f[p] + 1>> \in Held(f) THEN Cardinality(Held(f)) ELSE Cardinality(Held(f)) + 1
      BY <2>1, FS_AddElement
    <2> HIDE DEF g
    <2> QED BY <2>1, <2>2
  <1>5. Cardinality(Held(g)) <= Cardinality(Held(f) \cup {<<p, f[p] + 1>>})
    BY <1>2, <1>3, FS_Subset
  <1> HIDE DEF g
  <1>6. Cardinality(Held(g)) \in Nat /\ Cardinality(Held(f)) \in Nat
    BY <1>1, HeldFinite
  <1>7. Cardinality(Held(f) \cup {<<p, f[p] + 1>>}) \in Nat
    BY <1>3, FS_CardinalityType
  <1>8. Cardinality(Held(g)) <= Cardinality(Held(f)) + 1
    BY <1>4, <1>5, <1>6, <1>7
  <1> QED BY <1>8 DEF g

-----------------------------------------------------------------------------
\* What the assignments of a step to one call's own entries come to.
LEMMA EntryTypes ==
  /\ NoEntry \in Entries
  /\ \A p \in Calls : Fresh(p) \in Entries
  /\ \A e \in ForeignEntries : e \in Entries /\ e.by = "foreign"
  BY DEF NoEntry, Fresh, ForeignEntries, ForeignEntry, Entries

\* A part that is written is one more part of the same entry.
LEMMA WrittenType ==
  ASSUME NEW p \in Calls, NEW ok \in BOOLEAN, temp[p] \in Entries, temp[p].parts < NParts
  PROVE  /\ Written(p, ok) \in Entries
         /\ Written(p, ok).by = temp[p].by
         /\ Written(p, ok).parts = temp[p].parts + 1
  <1>1. (temp[p].good /\ ok) \in BOOLEAN
    BY Zenon DEF Entries
  <1> QED BY <1>1 DEF Written, Entries

\* What survives a loss of power is part of what was there.
LEMMA SurvivorTypes ==
  ASSUME NEW e \in Entries, NEW d \in Survivors(e)
  PROVE  /\ d \in Entries /\ d.by = e.by /\ d.good = e.good
         /\ d.parts \in e.down..e.parts /\ d.down = d.parts
  BY DEF Survivors, Entries

\* Every initial state satisfies the invariant.
LEMMA InitInv == Init => Inv
  <1> SUFFICES ASSUME Init PROVE Inv  OBVIOUS
  <1>1. dest \in Entries /\ dest.by \notin Calls
    <2>1. dest = NoEntry \/ dest \in ForeignEntries
      BY DEF Init
    <2>2. NoEntry.by = "nobody"
      BY DEF NoEntry
    <2> QED BY <2>1, <2>2, EntryTypes
  <1>2. Used <= Budget
    <2>1. Held(charge) = {}
      BY DEF Init, Held
    <2> QED BY <2>1, FS_EmptySet DEF Used
  <1>3. TypeOK
    BY <1>1, <1>2, EntryTypes DEF Init, TypeOK, Before, After, CleanFailures
  <1>4. StagesEstablish
    BY DEF Init, StagesEstablish, Copying
  <1>5. PublishPoint
    BY <1>1 DEF Init, PublishPoint, Before, After
  <1>6. DestinationIsWhole
    BY <1>1 DEF Init, DestinationIsWhole
  <1>7. CleanFailurePublishesNothing /\ ReceiptIsDurable
    BY DEF Init, CleanFailurePublishesNothing, ReceiptIsDurable, CleanFailures
  <1> QED BY <1>3, <1>4, <1>5, <1>6, <1>7 DEF Inv

\* The budget stays within its limit when no call comes to hold more.
LEMMA BudgetKept ==
  ASSUME TypeOK, charge' \in [Calls -> 0..NParts], \A q \in Calls : charge'[q] <= charge[q]
  PROVE  Used' <= Budget
  <1>1. Cardinality(Held(charge')) <= Cardinality(Held(charge))
    BY HeldLess DEF TypeOK
  <1>2. Cardinality(Held(charge')) \in Nat /\ Cardinality(Held(charge)) \in Nat
    BY HeldFinite DEF TypeOK
  <1> QED BY <1>1, <1>2 DEF TypeOK, Used, Held

\* Only a write that the budget has room for raises a charge.
LEMMA BudgetStep == Inv /\ [Next]_vars => charge' \in [Calls -> 0..NParts] /\ Used' <= Budget
  <1> SUFFICES ASSUME Inv, [Next]_vars
               PROVE  charge' \in [Calls -> 0..NParts] /\ Used' <= Budget
    OBVIOUS
  <1> USE DEF Inv
  <1>1. ASSUME NEW p \in Calls, WritePart(p), Used < Budget
        PROVE  charge' \in [Calls -> 0..NParts] /\ Used' <= Budget
    <2>1. charge[p] < NParts
      BY <1>1 DEF WritePart, TypeOK, StagesEstablish, Copying, Entries
    <2>2. charge' = [charge EXCEPT ![p] = @ + 1]
      BY <1>1 DEF WritePart
    <2>3. Cardinality(Held(charge')) <= Cardinality(Held(charge)) + 1
      BY <2>1, <2>2, HeldMore DEF TypeOK
    <2>4. charge' \in [Calls -> 0..NParts]
      BY <2>1, <2>2 DEF TypeOK
    <2>5. Cardinality(Held(charge')) \in Nat /\ Cardinality(Held(charge)) \in Nat
      BY <2>4, HeldFinite DEF TypeOK
    <2> QED BY <1>1, <2>3, <2>4, <2>5 DEF Used, Held
  <1>2. ASSUME \/ UNCHANGED charge
               \/ \E p \in Calls : charge' = [charge EXCEPT ![p] = 0]
               \/ charge' = [p \in Calls |-> 0]
        PROVE  charge' \in [Calls -> 0..NParts] /\ Used' <= Budget
    <2>1. charge' \in [Calls -> 0..NParts] /\ \A q \in Calls : charge'[q] <= charge[q]
      BY <1>2 DEF TypeOK
    <2> QED BY <2>1, BudgetKept
  <1>3. ASSUME NEW p \in Calls, WritePart(p), ~(Used < Budget)
        PROVE  charge' = [charge EXCEPT ![p] = 0]
    BY <1>3 DEF WritePart, Fail
  <1>4. ASSUME NEW p \in Calls, Step(p), ~WritePart(p)
        PROVE  UNCHANGED charge \/ charge' = [charge EXCEPT ![p] = 0]
    BY <1>4 DEF Step, CheckAbsent, CreateTemporary, SyncFile, Verify, SyncStaging,
                CheckAbsentAgain, Link, Rename, Classify, RemoveTemporary, SyncParent, CleanUp,
                Goto, Return, Fail
  <1>5. ASSUME NEW p \in Calls, Fault(p) \/ Kill(p)
        PROVE  UNCHANGED charge \/ charge' = [charge EXCEPT ![p] = 0]
    BY <1>5 DEF Fault, Kill, Goto, Return, Fail
  <1>6. CASE (\E e \in ForeignEntries : ForeignCreate(e)) \/ ForeignRemove \/ UNCHANGED vars
    BY <1>2, <1>6 DEF ForeignCreate, ForeignRemove, vars
  <1>7. CASE PowerLoss
    BY <1>2, <1>7 DEF PowerLoss
  <1> QED BY <1>1, <1>2, <1>3, <1>4, <1>5, <1>6, <1>7 DEF Next

\* Every step keeps the types, the budget's limit included.
LEMMA TypeStep == Inv /\ [Next]_vars => TypeOK'
  <1> SUFFICES ASSUME Inv, [Next]_vars PROVE TypeOK'  OBVIOUS
  <1> USE DEF Inv
  <1>0. charge' \in [Calls -> 0..NParts] /\ Used' <= Budget
    BY BudgetStep
  <1>1. ASSUME NEW p \in Calls, CheckAbsent(p) PROVE TypeOK'
    BY <1>0, <1>1, EntryTypes
       DEF CheckAbsent, TypeOK, PutTemp, PutDest, SettleParent, Goto, Return, Fail, dests,
           temps,
           bounds, Before, After, CleanFailures
  <1>2. ASSUME NEW p \in Calls, CreateTemporary(p) PROVE TypeOK'
    BY <1>0, <1>2, EntryTypes
       DEF CreateTemporary, TypeOK, PutTemp, PutDest, SettleParent, Goto, Return, Fail, dests,
           temps,
           bounds, Before, After, CleanFailures
  <1>3. ASSUME NEW p \in Calls, WritePart(p) PROVE TypeOK'
    <2>1. \A ok \in BOOLEAN : Written(p, ok) \in Entries
      BY <1>3, WrittenType DEF WritePart, TypeOK, StagesEstablish, Copying
    <2> QED BY <1>0, <1>3, <2>1
       DEF WritePart, AfterWrite, TypeOK, PutTemp, PutDest, SettleParent, Goto, Return, Fail,
           dests, temps,
           bounds, Before, After, CleanFailures
  <1>4. ASSUME NEW p \in Calls, SyncFile(p) PROVE TypeOK'
    <2>1. [temp[p] EXCEPT !.down = temp[p].parts] \in Entries
      BY DEF TypeOK, Entries
    <2> QED BY <1>0, <1>4, <2>1, EntryTypes
       DEF SyncFile, Flush, TypeOK, PutTemp, PutDest, SettleParent, Goto, Return, Fail, dests,
           temps,
           bounds, Before, After, CleanFailures
  <1>5. ASSUME NEW p \in Calls, Verify(p) PROVE TypeOK'
    BY <1>0, <1>5, EntryTypes
       DEF Verify, TypeOK, PutTemp, PutDest, SettleParent, Goto, Return, Fail, dests, temps,
           bounds, Before, After, CleanFailures
  <1>6. ASSUME NEW p \in Calls, SyncStaging(p) PROVE TypeOK'
    <2>1. [temp[p] EXCEPT !.down = temp[p].parts] \in Entries
      BY DEF TypeOK, Entries
    <2> QED BY <1>0, <1>6, <2>1, EntryTypes
       DEF SyncStaging, Flush, TypeOK, PutTemp, PutDest, SettleParent, Goto, Return, Fail,
           dests, temps,
           bounds, Before, After, CleanFailures
  <1>7. ASSUME NEW p \in Calls, CheckAbsentAgain(p) PROVE TypeOK'
    BY <1>0, <1>7, EntryTypes
       DEF CheckAbsentAgain, TypeOK, PutTemp, PutDest, SettleParent, Goto, Return, Fail, dests,
           temps,
           bounds, Before, After, CleanFailures
  <1>8. ASSUME NEW p \in Calls, Link(p) PROVE TypeOK'
    BY <1>0, <1>8, EntryTypes
       DEF Link, TypeOK, PutTemp, PutDest, SettleParent, Goto, Return, Fail, dests, temps,
           bounds, Before, After, CleanFailures
  <1>9. ASSUME NEW p \in Calls, Rename(p) PROVE TypeOK'
    BY <1>0, <1>9, EntryTypes
       DEF Rename, TypeOK, PutTemp, PutDest, SettleParent, Goto, Return, Fail, dests, temps,
           bounds, Before, After, CleanFailures
  <1>10. ASSUME NEW p \in Calls, Classify(p) PROVE TypeOK'
    BY <1>0, <1>10, EntryTypes
       DEF Classify, TypeOK, PutTemp, PutDest, SettleParent, Goto, Return, Fail, dests, temps,
           bounds, Before, After, CleanFailures
  <1>11. ASSUME NEW p \in Calls, RemoveTemporary(p) PROVE TypeOK'
    BY <1>0, <1>11, EntryTypes
       DEF RemoveTemporary, TypeOK, PutTemp, PutDest, SettleParent, Goto, Return, Fail, dests,
           temps,
           bounds, Before, After, CleanFailures
  <1>12. ASSUME NEW p \in Calls, SyncParent(p) PROVE TypeOK'
    BY <1>0, <1>12, EntryTypes
       DEF SyncParent, TypeOK, PutTemp, PutDest, SettleParent, Goto, Return, Fail, dests, temps,
           bounds, Before, After, CleanFailures
  <1>13. ASSUME NEW p \in Calls, CleanUp(p) PROVE TypeOK'
    BY <1>0, <1>13, EntryTypes
       DEF CleanUp, TypeOK, PutTemp, PutDest, SettleParent, Goto, Return, Fail, dests, temps,
           bounds, Before, After, CleanFailures
  <1>14. ASSUME NEW p \in Calls, Fault(p) PROVE TypeOK'
    BY <1>0, <1>14, EntryTypes
       DEF Fault, TypeOK, PutTemp, PutDest, SettleParent, Goto, Return, Fail, dests, temps,
           bounds, Before, After, CleanFailures
  <1>15. ASSUME NEW p \in Calls, Kill(p) PROVE TypeOK'
    BY <1>0, <1>15, EntryTypes
       DEF Kill, TypeOK, PutTemp, PutDest, SettleParent, Goto, Return, Fail, dests, temps,
           bounds, Before, After, CleanFailures
  <1>16. ASSUME NEW e \in ForeignEntries, ForeignCreate(e) PROVE TypeOK'
    BY <1>0, <1>16, EntryTypes DEF ForeignCreate, PutDest, TypeOK, temps, bounds
  <1>17. CASE ForeignRemove
    BY <1>0, <1>17, EntryTypes DEF ForeignRemove, PutDest, TypeOK, temps, bounds
  <1>18. CASE PowerLoss
    <2>1. dest' \in Entries
      BY <1>18, SurvivorTypes DEF PowerLoss, TypeOK
    <2>2. temp' \in [Calls -> Entries]
      <3>1. PICK f \in [Calls -> UNION {UNION {Survivors(e) : e \in mayTemp[p]} : p \in Calls}] :
               temp' = f /\ \A p \in Calls : \E e \in mayTemp[p] : f[p] \in Survivors(e)
        BY <1>18 DEF PowerLoss
      <3>2. \A p \in Calls : f[p] \in Entries
        BY <3>1, SurvivorTypes DEF TypeOK
      <3> QED BY <3>1, <3>2
    <2> QED BY <1>0, <1>18, <2>1, <2>2 DEF PowerLoss, TypeOK, Before
  <1>19. CASE UNCHANGED vars
    BY <1>0, <1>19 DEF vars, TypeOK
  <1> QED BY <1>1, <1>2, <1>3, <1>4, <1>5, <1>6, <1>7, <1>8, <1>9, <1>10, <1>11, <1>12, <1>13,
  <1>14, <1>15, <1>16, <1>17, <1>18, <1>19 DEF Next, Step

\* Every step keeps what the stages have established: a stage is entered
\* only by the step that establishes it, and no call touches another's sibling.
LEMMA StagesStep == Inv /\ [Next]_vars => StagesEstablish'
  <1> SUFFICES ASSUME Inv, [Next]_vars PROVE StagesEstablish'  OBVIOUS
  <1> USE DEF Inv, StagesEstablish, Copying, Whole
  <1>1. ASSUME NEW p \in Calls, CheckAbsent(p) PROVE StagesEstablish'
    BY <1>1
       DEF CheckAbsent, TypeOK, PutTemp, PutDest, SettleParent, Goto, Return, Fail, dests,
           temps,
           bounds, Before, After
  <1>2. ASSUME NEW p \in Calls, CreateTemporary(p) PROVE StagesEstablish'
    BY <1>2
       DEF CreateTemporary, TypeOK, Fresh, PutTemp, PutDest, SettleParent, Goto, Return, Fail,
           dests, temps,
           bounds, Before, After
  <1>3. ASSUME NEW p \in Calls, WritePart(p) PROVE StagesEstablish'
    <2>1. \A ok \in BOOLEAN : /\ Written(p, ok).by = temp[p].by
                             /\ Written(p, ok).parts = temp[p].parts + 1
      BY <1>3, WrittenType DEF WritePart, TypeOK
    <2> QED BY <1>3, <2>1
       DEF WritePart, AfterWrite, TypeOK, Entries, PutTemp, PutDest, SettleParent, Goto,
           Return, Fail, dests, temps,
           bounds, Before, After
  <1>4. ASSUME NEW p \in Calls, SyncFile(p) PROVE StagesEstablish'
    BY <1>4
       DEF SyncFile, TypeOK, Flush, Entries, PutTemp, PutDest, SettleParent, Goto, Return,
           Fail, dests, temps,
           bounds, Before, After
  <1>5. ASSUME NEW p \in Calls, Verify(p) PROVE StagesEstablish'
    BY <1>5
       DEF Verify, TypeOK, Entries, PutTemp, PutDest, SettleParent, Goto, Return, Fail, dests,
           temps,
           bounds, Before, After
  <1>6. ASSUME NEW p \in Calls, SyncStaging(p) PROVE StagesEstablish'
    BY <1>6
       DEF SyncStaging, TypeOK, Flush, Entries, PutTemp, PutDest, SettleParent, Goto, Return,
           Fail, dests, temps,
           bounds, Before, After
  <1>7. ASSUME NEW p \in Calls, CheckAbsentAgain(p) PROVE StagesEstablish'
    BY <1>7
       DEF CheckAbsentAgain, TypeOK, PutTemp, PutDest, SettleParent, Goto, Return, Fail, dests,
           temps,
           bounds, Before, After
  <1>8. ASSUME NEW p \in Calls, Link(p) PROVE StagesEstablish'
    BY <1>8
       DEF Link, TypeOK, PutTemp, PutDest, SettleParent, Goto, Return, Fail, dests, temps,
           bounds, Before, After
  <1>9. ASSUME NEW p \in Calls, Rename(p) PROVE StagesEstablish'
    BY <1>9
       DEF Rename, TypeOK, PutTemp, PutDest, SettleParent, Goto, Return, Fail, dests, temps,
           bounds, Before, After
  <1>10. ASSUME NEW p \in Calls, Classify(p) PROVE StagesEstablish'
    BY <1>10
       DEF Classify, TypeOK, PutTemp, PutDest, SettleParent, Goto, Return, Fail, dests, temps,
           bounds, Before, After
  <1>11. ASSUME NEW p \in Calls, RemoveTemporary(p) PROVE StagesEstablish'
    BY <1>11
       DEF RemoveTemporary, TypeOK, PutTemp, PutDest, SettleParent, Goto, Return, Fail, dests,
           temps,
           bounds, Before, After
  <1>12. ASSUME NEW p \in Calls, SyncParent(p) PROVE StagesEstablish'
    BY <1>12
       DEF SyncParent, TypeOK, PutTemp, PutDest, SettleParent, Goto, Return, Fail, dests, temps,
           bounds, Before, After
  <1>13. ASSUME NEW p \in Calls, CleanUp(p) PROVE StagesEstablish'
    BY <1>13
       DEF CleanUp, TypeOK, PutTemp, PutDest, SettleParent, Goto, Return, Fail, dests, temps,
           bounds, Before, After
  <1>14. ASSUME NEW p \in Calls, Fault(p) PROVE StagesEstablish'
    BY <1>14
       DEF Fault, TypeOK, PutTemp, PutDest, SettleParent, Goto, Return, Fail, dests, temps,
           bounds, Before, After
  <1>15. ASSUME NEW p \in Calls, Kill(p) PROVE StagesEstablish'
    BY <1>15
       DEF Kill, TypeOK, PutTemp, PutDest, SettleParent, Goto, Return, Fail, dests, temps,
           bounds, Before, After
  <1>16. CASE (\E e \in ForeignEntries : ForeignCreate(e)) \/ ForeignRemove
    BY <1>16 DEF ForeignCreate, ForeignRemove, temps
  <1>17. CASE PowerLoss
    BY <1>17 DEF PowerLoss, TypeOK
  <1>18. CASE UNCHANGED vars
    BY <1>18 DEF vars
  <1> QED BY <1>1, <1>2, <1>3, <1>4, <1>5, <1>6, <1>7, <1>8, <1>9, <1>10, <1>11, <1>12, <1>13,
  <1>14, <1>15, <1>16, <1>17, <1>18 DEF Next, Step

\* Every step keeps the publish point where it is, and with it what the
\* destination holds, what a clean failure left there and what a receipt says.
LEMMA DestinationStep ==
  Inv /\ [Next]_vars =>
     (PublishPoint /\ DestinationIsWhole /\ CleanFailurePublishesNothing /\ ReceiptIsDurable)'
  <1> DEFINE Goal == PublishPoint /\ DestinationIsWhole /\ CleanFailurePublishesNothing
                       /\ ReceiptIsDurable
  <1> SUFFICES ASSUME Inv, [Next]_vars PROVE Goal'  OBVIOUS
  <1> USE DEF Inv, PublishPoint, DestinationIsWhole, CleanFailurePublishesNothing,
              ReceiptIsDurable, CleanFailures
  <1>1. ASSUME NEW p \in Calls, CheckAbsent(p) PROVE Goal'
    BY <1>1
       DEF CheckAbsent, TypeOK, PutTemp, PutDest, SettleParent, Goto, Return, Fail, dests,
           temps,
           bounds, Before, After
  <1>2. ASSUME NEW p \in Calls, CreateTemporary(p) PROVE Goal'
    BY <1>2
       DEF CreateTemporary, TypeOK, PutTemp, PutDest, SettleParent, Goto, Return, Fail, dests,
           temps,
           bounds, Before, After
  <1>3. ASSUME NEW p \in Calls, WritePart(p) PROVE Goal'
    BY <1>3
       DEF WritePart, TypeOK, AfterWrite, PutTemp, PutDest, SettleParent, Goto, Return, Fail,
           dests, temps,
           bounds, Before, After
  <1>4. ASSUME NEW p \in Calls, SyncFile(p) PROVE Goal'
    BY <1>4
       DEF SyncFile, TypeOK, Flush, PutTemp, PutDest, SettleParent, Goto, Return, Fail, dests,
           temps,
           bounds, Before, After
  <1>5. ASSUME NEW p \in Calls, Verify(p) PROVE Goal'
    BY <1>5
       DEF Verify, TypeOK, PutTemp, PutDest, SettleParent, Goto, Return, Fail, dests, temps,
           bounds, Before, After
  <1>6. ASSUME NEW p \in Calls, SyncStaging(p) PROVE Goal'
    BY <1>6
       DEF SyncStaging, TypeOK, Flush, PutTemp, PutDest, SettleParent, Goto, Return, Fail,
           dests, temps,
           bounds, Before, After
  <1>7. ASSUME NEW p \in Calls, CheckAbsentAgain(p) PROVE Goal'
    BY <1>7
       DEF CheckAbsentAgain, TypeOK, PutTemp, PutDest, SettleParent, Goto, Return, Fail, dests,
           temps,
           bounds, Before, After
  <1>8. ASSUME NEW p \in Calls, Link(p) PROVE Goal'
    BY <1>8
       DEF Link, TypeOK, StagesEstablish, Copying, Whole, NoEntry, PutTemp, PutDest,
           SettleParent, Goto, Return, Fail, dests, temps,
           bounds, Before, After
  <1>9. ASSUME NEW p \in Calls, Rename(p) PROVE Goal'
    BY <1>9
       DEF Rename, TypeOK, StagesEstablish, Copying, Whole, NoEntry, PutTemp, PutDest,
           SettleParent, Goto, Return, Fail, dests, temps,
           bounds, Before, After
  <1>10. ASSUME NEW p \in Calls, Classify(p) PROVE Goal'
    BY <1>10
       DEF Classify, TypeOK, PutTemp, PutDest, SettleParent, Goto, Return, Fail, dests, temps,
           bounds, Before, After
  <1>11. ASSUME NEW p \in Calls, RemoveTemporary(p) PROVE Goal'
    BY <1>11
       DEF RemoveTemporary, TypeOK, PutTemp, PutDest, SettleParent, Goto, Return, Fail, dests,
           temps,
           bounds, Before, After
  <1>12. ASSUME NEW p \in Calls, SyncParent(p) PROVE Goal'
    BY <1>12
       DEF SyncParent, TypeOK, PutTemp, PutDest, SettleParent, Goto, Return, Fail, dests, temps,
           bounds, Before, After
  <1>13. ASSUME NEW p \in Calls, CleanUp(p) PROVE Goal'
    BY <1>13
       DEF CleanUp, TypeOK, PutTemp, PutDest, SettleParent, Goto, Return, Fail, dests, temps,
           bounds, Before, After
  <1>14. ASSUME NEW p \in Calls, Fault(p) PROVE Goal'
    BY <1>14
       DEF Fault, TypeOK, PutTemp, PutDest, SettleParent, Goto, Return, Fail, dests, temps,
           bounds, Before, After
  <1>15. ASSUME NEW p \in Calls, Kill(p) PROVE Goal'
    BY <1>15
       DEF Kill, TypeOK, PutTemp, PutDest, SettleParent, Goto, Return, Fail, dests, temps,
           bounds, Before, After
  <1>16. ASSUME NEW e \in ForeignEntries, ForeignCreate(e) PROVE Goal'
    BY <1>16, EntryTypes DEF ForeignCreate, PutDest, TypeOK, temps, bounds, NoEntry, After
  <1>17. CASE ForeignRemove
    BY <1>17, EntryTypes DEF ForeignRemove, PutDest, TypeOK, temps, bounds, NoEntry, After
  <1>18. CASE PowerLoss
    <2>1. PICK e \in mayDest : dest' \in Survivors(e)
      BY <1>18 DEF PowerLoss
    <2>2. /\ dest'.by = e.by /\ dest'.good = e.good
          /\ dest'.parts \in e.down..e.parts /\ dest'.down = dest'.parts
      BY <2>1, SurvivorTypes DEF TypeOK
    <2>3. mayDest' = {dest'}
      BY <1>18 DEF PowerLoss
    <2>4. e.by \in Calls => e.good /\ e.parts = NParts /\ e.down = NParts
      BY Zenon DEF Whole
    <2>5. dest'.by \in Calls => dest'.parts = NParts /\ dest'.down = NParts
      BY <2>2, <2>4
    <2>6. dest'.by \in Calls => dest'.good
      BY <2>2, <2>4, Zenon
    <2>7. DestinationIsWhole'
      BY <2>3, <2>5, <2>6, Zenon DEF Whole
    <2>8. PublishPoint'
      BY <1>18, <2>2, <2>3 DEF PowerLoss, TypeOK, Before, After
    <2>9. CleanFailurePublishesNothing' /\ ReceiptIsDurable'
      BY <1>18, <2>2, <2>3 DEF PowerLoss
    <2> QED BY <2>7, <2>8, <2>9
  <1>19. CASE UNCHANGED vars
    BY <1>19 DEF vars, Whole
  <1> QED BY <1>1, <1>2, <1>3, <1>4, <1>5, <1>6, <1>7, <1>8, <1>9, <1>10, <1>11, <1>12, <1>13,
  <1>14, <1>15, <1>16, <1>17, <1>18, <1>19 DEF Next, Step
-----------------------------------------------------------------------------
\* The inductive invariant of publication.
THEOREM Invariance == Spec => []Inv
  <1>1. Inv /\ [Next]_vars => Inv'
    BY TypeStep, StagesStep, DestinationStep DEF Inv
  <1> QED BY InitInv, <1>1, PTL DEF Spec

\* Every state is well typed and the calls never hold more than the budget.
THEOREM TypeCorrect == Spec => []TypeOK
  BY Invariance, PTL DEF Inv

\* A reader of the destination, also after a power loss at any moment, never
\* finds a prefix of a published output.
THEOREM WholeSafety == Spec => []DestinationIsWhole
  BY Invariance, PTL DEF Inv

\* An error of publish_file or publish_directory other than uncertain
\* durability means that nothing was published.
THEOREM CleanFailureSafety == Spec => []CleanFailurePublishesNothing
  BY Invariance, PTL DEF Inv

\* An output whose receipt was given cannot be lost.
THEOREM ReceiptSafety == Spec => []ReceiptIsDurable
  BY Invariance, PTL DEF Inv

\* No publication replaces anything but an empty directory, and only
\* publish_directory does.
THEOREM NoClobber == Spec => NeverReplaces
  <1> DEFINE Kept == \A p \in Calls :
                       (dest # NoEntry /\ dest' # dest /\ dest'.by = p /\ losses' = losses) =>
                         dest.kind = "dir" /\ dest.parts = 0 /\ p \in Directories
  <1>1. Inv /\ [Next]_vars => [Kept]_vars
    <2> SUFFICES ASSUME Inv, Next PROVE Kept
      OBVIOUS
    <2>1. ASSUME NEW p \in Calls, Rename(p) PROVE Kept
      BY <2>1 DEF Inv, TypeOK, StagesEstablish, Copying, Rename, PutDest, dests
    <2>2. ASSUME NEW p \in Calls, Step(p), ~Rename(p) PROVE dest = NoEntry \/ dest' = dest
      BY <2>2 DEF Step, CheckAbsent, CreateTemporary, WritePart, SyncFile, Verify, SyncStaging,
                  CheckAbsentAgain, Link, Classify, RemoveTemporary, SyncParent, CleanUp,
                  PutDest, dests
    <2>3. ASSUME NEW p \in Calls, Fault(p) \/ Kill(p) PROVE dest' = dest
      BY <2>3 DEF Fault, Kill, dests
    <2>4. CASE \E e \in ForeignEntries : ForeignCreate(e)
      BY <2>4 DEF ForeignCreate
    <2>5. CASE ForeignRemove
      BY <2>5 DEF ForeignRemove, PutDest, NoEntry
    <2>6. CASE PowerLoss
      BY <2>6 DEF PowerLoss, Inv, TypeOK
    <2> QED BY <2>1, <2>2, <2>3, <2>4, <2>5, <2>6 DEF Next
  <1>2. Spec => [][Kept]_vars
    <2> HIDE DEF Kept
    <2> QED BY Invariance, <1>1, PTL DEF Spec
  <1> QED BY <1>2 DEF NeverReplaces
=============================================================================
