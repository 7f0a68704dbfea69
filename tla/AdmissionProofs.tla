-------------------------- MODULE AdmissionProofs --------------------------
(***************************************************************************)
(* Proofs of how a host takes in what arrives.  The doors onto the         *)
(* release-trust tree, for any packages, chains, pins and bounds: whatever *)
(* any number of callers do, every generation vouches for itself; and      *)
(* where calls are not made to overlap, no reported floor is lost and      *)
(* every swap is earned.  The readers of a container, for any bytes and    *)
(* however often it is moved: they take what the writers make and read     *)
(* back what they wrote.  The window guard of the outer archive, for any   *)
(* frames and any reads: it refuses at the first fault and there alone.    *)
(***************************************************************************)
EXTENDS ReleaseTrust, Travel, WindowGuard, SequenceTheorems, WellFoundedInduction, TLAPS

\* The calls do not overlap: the doors take no lock, and leave that to whoever
\* calls them.
Serial == \A c, d \in Callers : c = d
-----------------------------------------------------------------------------
(* Verdicts *)

\* A set of naturals that is not empty has a least element.
LEMMA LeastNatural ==
  ASSUME NEW S \in SUBSET Nat, S # {}
  PROVE  \E i \in S : \A j \in S : i <= j
  <1> DEFINE R == {p \in Nat \X Nat : p[1] < p[2]}
  <1>1. IsWellFoundedOn(R, Nat)
    BY NatLessThanWellFounded DEF OpToRel
  <1>2. PICK i \in S : \A j \in S : <<j, i>> \notin R
    BY <1>1, WFMin
  <1>3. \A j \in S : ~(j < i)
    BY <1>2
  <1> QED BY <1>3

\* A list of verdicts passes only when each of them does (FirstOf).
LEMMA FirstOfPasses ==
  ASSUME NEW v, DOMAIN v \subseteq Nat, FirstOf(v) = "ok"
  PROVE  \A i \in DOMAIN v : v[i] = "ok"
  <1> DEFINE bad == {i \in DOMAIN v : v[i] # "ok"}
  <1>1. SUFFICES ASSUME bad # {} PROVE FALSE
    OBVIOUS
  <1>2. \E i \in bad : \A j \in bad : i <= j
    BY <1>1, LeastNatural
  <1>3. v[CHOOSE i \in bad : \A j \in bad : i <= j] # "ok"
    BY <1>2
  <1> QED BY <1>1, <1>3 DEF FirstOf

\* What a package that passes verify_package has passed, of the checks that
\* earn a swap.
LEMMA VerifiedPackage ==
  ASSUME NEW S, NEW pkg, NEW trust, NEW req, pkg.artifacts \in Seq(S),
         VerifyPackage(pkg, trust, req) = "ok"
  PROVE  /\ \A alg \in Algorithms : VerifySignature(alg, pkg, trust) = "ok"
         /\ ~(pkg.format # NoFormat /\ pkg.format < trust.minFormat)
         /\ pkg.format # NoFormat
         /\ CheckWithdrawal(pkg, trust) = "ok"
         /\ CheckEpoch(req, trust) = "ok"
  <1>1. AuthenticateManifest(pkg, trust) = "ok" /\ CheckStatements(pkg, req, trust) = "ok"
    BY DEF VerifyPackage
  <1>2. /\ VerifySignature("ed25519", pkg, trust) = "ok"
        /\ VerifySignature("mldsa87", pkg, trust) = "ok"
        /\ ~(pkg.format # NoFormat /\ pkg.format < trust.minFormat)
        /\ ParseManifest(pkg) = "ok"
    <2> DEFINE v == <<VerifySignature("ed25519", pkg, trust),
                      VerifySignature("mldsa87", pkg, trust),
                      IF pkg.stage1 THEN "ok" ELSE "Payload",
                      IF pkg.format # NoFormat /\ pkg.format < trust.minFormat
                      THEN "UnsupportedManifestFormat" ELSE "ok",
                      ParseManifest(pkg)>>
    <2>1. DOMAIN v = 1..5
      OBVIOUS
    <2>2. FirstOf(v) = "ok"
      BY <1>1 DEF AuthenticateManifest
    <2>3. \A i \in 1..5 : v[i] = "ok"
      BY <2>1, <2>2, FirstOfPasses
    <2> QED BY <2>3
  <1>3. pkg.format # NoFormat
    <2> DEFINE head == <<IF pkg.format = NoFormat THEN "Payload"
                         ELSE IF pkg.format \in BuildFormats THEN "ok"
                         ELSE "UnsupportedManifestFormat",
                         IF pkg.decodes THEN "ok" ELSE "Payload">>
               entries == [i \in DOMAIN pkg.artifacts |-> EntryFault(pkg.artifacts, i)]
               T == {EntryFault(pkg.artifacts, i) : i \in DOMAIN pkg.artifacts}
                      \cup {"ok", "Payload", "UnsupportedManifestFormat"}
    <2>1. entries \in Seq(T) /\ head \in Seq(T) /\ Len(head) = 2
      OBVIOUS
    <2>2. FirstOf(head \o entries) = "ok"
      BY <1>2 DEF ParseManifest
    <2> HIDE DEF entries
    <2>3. /\ DOMAIN (head \o entries) \subseteq Nat /\ 1 \in DOMAIN (head \o entries)
          /\ (head \o entries)[1] = head[1]
      BY <2>1
    <2> HIDE DEF head
    <2>4. head[1] = "ok"
      BY <2>2, <2>3, FirstOfPasses
    <2> QED BY <2>4 DEF head
  <1>4. CheckWithdrawal(pkg, trust) = "ok" /\ CheckEpoch(req, trust) = "ok"
    <2> DEFINE v == <<CheckCompleteness(pkg), CheckIdentifiers(pkg), CheckWithdrawal(pkg, trust),
                      CheckTarget(pkg, req), CheckEpoch(req, trust), CheckImages(pkg, req)>>
    <2>1. DOMAIN v = 1..6
      OBVIOUS
    <2>2. FirstOf(v) = "ok"
      BY <1>1 DEF CheckStatements
    <2>3. \A i \in 1..6 : v[i] = "ok"
      BY <2>1, <2>2, FirstOfPasses
    <2> QED BY <2>3
  <1> QED BY <1>2, <1>3, <1>4 DEF Algorithms

\* What an accept that passed has shown of the package under the document and
\* the epoch it was judged by (accept_generation).
LEMMA AcceptedPackage ==
  ASSUME NEW p \in Packages, NEW doc, NEW epoch \in Nat, doc.minFormat \in Nat,
         JudgeAccept(p, doc, epoch)
  PROVE  /\ p.doc.epoch > epoch
         /\ \A alg \in Algorithms : \E a \in LiveAnchors(doc, alg) : a.key = p.sig[alg]
         /\ <<p.component, p.version, p.commit>> \notin doc.withdrawn
         /\ p.format >= doc.minFormat
  <1> DEFINE pkg == Container(p)
             trust == TrustSetOf(doc, epoch)
             req == ForTrust(p.doc, p.doc.epoch)
             entry == [path |-> "trust-set.json", component |-> p.component,
                       version |-> p.version, commit |-> p.commit,
                       image |-> NoImage, disposed |-> TRUE, sound |-> TRUE]
  <1>1. pkg.artifacts = <<entry>> /\ pkg.format = p.format /\ pkg.sig = p.sig
    BY DEF Container
  <1>2. VerifyPackage(pkg, trust, req) = "ok"
    BY DEF JudgeAccept
  <1>3. /\ trust.anchors = doc.anchors /\ trust.withdrawn = doc.withdrawn
        /\ trust.minFormat = doc.minFormat /\ trust.epoch = epoch /\ req.epoch = p.doc.epoch
    BY DEF TrustSetOf, ForTrust
  <1>4. p.doc.epoch \in Nat /\ p.format \in Nat
    BY DoorsAssumption
  <1> HIDE DEF pkg, trust, req
  <1>5. pkg.artifacts \in Seq({entry})
    BY <1>1
  <1>6. /\ \A alg \in Algorithms : VerifySignature(alg, pkg, trust) = "ok"
        /\ ~(pkg.format # NoFormat /\ pkg.format < trust.minFormat)
        /\ pkg.format # NoFormat
        /\ CheckWithdrawal(pkg, trust) = "ok"
        /\ CheckEpoch(req, trust) = "ok"
    BY <1>2, <1>5, VerifiedPackage
  <1>7. p.doc.epoch > epoch
    BY <1>3, <1>4, <1>6 DEF CheckEpoch, NoEpoch
  <1>8. ASSUME NEW alg \in Algorithms
        PROVE  \E a \in LiveAnchors(doc, alg) : a.key = p.sig[alg]
    <2>1. \E a \in {b \in Anchors(alg, trust) : ~b.revoked} : a.key = pkg.sig[alg]
      BY <1>6 DEF VerifySignature, Verifies
    <2> QED BY <2>1, <1>1, <1>3 DEF Anchors, LiveAnchors
  <1>9. <<p.component, p.version, p.commit>> \notin doc.withdrawn
    <2>1. ~ \E i \in DOMAIN pkg.artifacts :
             <<pkg.artifacts[i].component, pkg.artifacts[i].version, pkg.artifacts[i].commit>>
               \in trust.withdrawn
      BY <1>6 DEF CheckWithdrawal
    <2>2. 1 \in DOMAIN pkg.artifacts /\ pkg.artifacts[1] = entry
      BY <1>1
    <2> QED BY <2>1, <2>2, <1>3
  <1>10. p.format >= doc.minFormat
    BY <1>1, <1>3, <1>4, <1>6
  <1> QED BY <1>7, <1>8, <1>9, <1>10
-----------------------------------------------------------------------------
(* Types *)

\* The parts of TypeOK: the tree, and the calls with what was reported.
TreeOK ==
    /\ live \in Entries /\ kept \in SUBSET Entries /\ live \in kept
    /\ used \in SUBSET (1..MaxGen)
    /\ \A k \in kept : k.at = 0 <=> k.mat = None
CallsOK ==
    /\ call \in [Callers -> CallRecords] /\ result \in [Callers -> Results]
    /\ \A c \in Callers :
          /\ At(c, "idle") <=> call[c].todo = <<>>
          /\ IF At(c, "gate") THEN Len(call[c].todo) = 1 ELSE call[c].todo \in Seq(Packages)
    /\ promised \in Nat /\ acked \in Nat

\* The types, as those of the trust state and those of the calls.
LEMMA TypeParts ==
  TypeOK <=> TreeOK /\ CallsOK /\ faults \in 0..MaxFaults /\ losses \in 0..MaxLosses
  BY DEF TypeOK, TreeOK, CallsOK
LEMMA TypePartsNext ==
  TreeOK' /\ CallsOK' /\ faults' \in 0..MaxFaults /\ losses' \in 0..MaxLosses => TypeOK'
  BY DEF TypeOK, TreeOK, CallsOK

\* A call that has not started is typed.
LEMMA IdleIsTyped == Idle \in CallRecords /\ NoResult \in Results
  BY DoorsAssumption DEF Idle, NoResult, CallRecords, Results, PCs, AllDoors, NoPin

\* Types hold at the start.
LEMMA InitTypes == Init => TypeOK
  <1> SUFFICES ASSUME Init PROVE TypeOK
    OBVIOUS
  <1>1. TreeOK
    BY DoorsAssumption DEF Init, TreeOK, Register!Init, Register!Nothing, Entries
  <1>2. CallsOK
    <2>1. Idle.pc = "idle" /\ Idle.todo = <<>> /\ <<>> \in Seq(Packages)
      BY DEF Idle
    <2> QED BY <2>1, IdleIsTyped DEF Init, CallsOK, At
  <1> QED BY <1>1, <1>2, TypeParts, DoorsAssumption DEF Init

\* The package of a call that is past its gate.
LEMMA PackageOfCall ==
  ASSUME CallsOK, NEW c \in Callers, ~At(c, "idle"), ~At(c, "gate")
  PROVE  Pkg(c) \in Packages /\ Pkg(c).doc.epoch \in Nat
  BY DoorsAssumption DEF CallsOK, Pkg

\* A call begins (Begin).
LEMMA BeginTypes ==
  ASSUME CallsOK, NEW c \in Callers, NEW door \in AllDoors,
         NEW pc \in PCs \ {"idle"}, NEW todo \in Seq(Packages \cup {None}), todo # <<>>,
         IF pc = "gate" THEN Len(todo) = 1 ELSE todo \in Seq(Packages),
         NEW pin \in Pins, NEW asserted \in Nat, Begin(c, door, pc, todo, pin, asserted)
  PROVE  CallsOK'
  <1> DEFINE k == [Idle EXCEPT !.pc = pc, !.door = door, !.todo = todo, !.pin = pin,
                               !.asserted = asserted]
  <1>1. k \in CallRecords /\ k.pc = pc /\ k.todo = todo
    BY IdleIsTyped DEF CallRecords
  <1>2. call' = [call EXCEPT ![c] = k] /\ result' = [result EXCEPT ![c] = NoResult]
    BY DEF Begin
  <1>3. UNCHANGED history
    BY DEF Begin
  <1> HIDE DEF k
  <1> QED BY <1>1, <1>2, <1>3, IdleIsTyped DEF CallsOK, history, At

\* A call ends with an error (Refuse).
LEMMA RefuseTypes ==
  ASSUME CallsOK, NEW c \in Callers, NEW how \in {"refused", "error"}, Refuse(c, how)
  PROVE  CallsOK'
  <1> DEFINE r == [how |-> how, done |-> call[c].done, door |-> call[c].door]
  <1>1. r \in Results
    BY DEF CallsOK, CallRecords, Results
  <1>2. Idle.pc = "idle" /\ Idle.todo = <<>>
    BY DEF Idle
  <1>3. call' = [call EXCEPT ![c] = Idle] /\ result' = [result EXCEPT ![c] = r]
    BY DEF Refuse
  <1> HIDE DEF r
  <1>4. call' \in [Callers -> CallRecords] /\ result' \in [Callers -> Results]
    BY <1>1, <1>3, IdleIsTyped DEF CallsOK
  <1>5. <<>> \in Seq(Packages)
    OBVIOUS
  <1>6. ASSUME NEW d \in Callers
        PROVE  /\ call'[d].pc = "idle" <=> call'[d].todo = <<>>
               /\ IF call'[d].pc = "gate" THEN Len(call'[d].todo) = 1
                  ELSE call'[d].todo \in Seq(Packages)
    <2>1. CASE d = c
      BY <2>1, <1>2, <1>3, <1>5 DEF CallsOK
    <2>2. CASE d # c
      BY <2>2, <1>3 DEF CallsOK, At
    <2> QED BY <2>1, <2>2
  <1> QED BY <1>4, <1>6 DEF CallsOK, Refuse, history, At

\* A call moves on (Goto).
LEMMA GotoTypes ==
  ASSUME CallsOK, NEW c \in Callers, ~At(c, "idle"), NEW pc \in PCs \ {"idle", "gate"},
         call[c].todo \in Seq(Packages), Goto(c, pc)
  PROVE  CallsOK'
  <1> DEFINE k == [call[c] EXCEPT !.pc = pc]
  <1>1. k \in CallRecords /\ k.pc = pc /\ k.todo = call[c].todo
    BY DEF CallsOK, CallRecords
  <1>2. call' = [call EXCEPT ![c] = k]
    BY DEF Goto, CallsOK
  <1> HIDE DEF k
  <1> QED BY <1>1, <1>2 DEF CallsOK, Goto, history, At

\* A call's step is accepted, and a chain goes on (Accept).
LEMMA AcceptTypes ==
  ASSUME CallsOK, NEW c \in Callers, ~At(c, "idle"), ~At(c, "gate"), NEW changed \in BOOLEAN,
         NEW epoch \in Nat, Accept(c, changed, epoch)
  PROVE  CallsOK'
  <1> DEFINE go == [Idle EXCEPT !.pc = "probe", !.door = call[c].door,
                                !.todo = Tail(call[c].todo), !.done = call[c].done + 1]
             k == IF Len(call[c].todo) = 1 THEN Idle ELSE go
             r == [how |-> "ok", done |-> call[c].done + 1, door |-> call[c].door]
  <1>1. r \in Results
    BY DEF CallsOK, CallRecords, Results
  <1>2. /\ k \in CallRecords /\ (k.pc = "idle" <=> k.todo = <<>>)
        /\ k.pc # "gate" /\ k.todo \in Seq(Packages)
    <2>1. call[c].todo \in Seq(Packages) /\ call[c].todo # <<>>
      BY DEF CallsOK
    <2>2. CASE Len(call[c].todo) = 1
      BY <2>2, IdleIsTyped DEF Idle
    <2>3. CASE Len(call[c].todo) # 1
      <3>1. Tail(call[c].todo) \in Seq(Packages) /\ Tail(call[c].todo) # <<>>
        <4>1. Len(call[c].todo) \in Nat /\ Len(call[c].todo) # 0
          BY <2>1
        <4>2. Len(Tail(call[c].todo)) = Len(call[c].todo) - 1 /\ Tail(call[c].todo) \in Seq(Packages)
          BY <2>1
        <4>3. Len(<<>>) = 0
          OBVIOUS
        <4>4. Len(Tail(call[c].todo)) # 0
          BY <2>3, <4>1, <4>2
        <4> QED BY <4>2, <4>3, <4>4
      <3>2. Tail(call[c].todo) \in Seq(Packages \cup {None})
        BY <3>1
      <3>3. go.pc = "probe" /\ go.todo = Tail(call[c].todo)
        BY DEF Idle
      <3>4. go \in CallRecords
        <4>1. call[c].door \in AllDoors \cup {"none"} /\ call[c].done + 1 \in Nat
          BY DEF CallsOK, CallRecords
        <4>2. "probe" \in PCs
          BY DEF PCs
        <4> QED BY <3>2, <4>1, <4>2, IdleIsTyped DEF CallRecords
      <3> QED BY <3>1, <3>3, <3>4, <2>3
    <2> QED BY <2>2, <2>3
  <1>3. call' = [call EXCEPT ![c] = k] /\ result' \in {result, [result EXCEPT ![c] = r]}
    BY DEF Accept
  <1>4. promised' \in Nat /\ acked' \in Nat
    BY DEF Accept, HigherOf, CallsOK
  <1> HIDE DEF k, r
  <1> QED BY <1>1, <1>2, <1>3, <1>4 DEF CallsOK, At

\* Every step keeps the types.
LEMMA StepTypes == TypeOK /\ [Next]_vars => TypeOK'
  <1> SUFFICES ASSUME TypeOK, [Next]_vars PROVE TypeOK'
    OBVIOUS
  <1> USE DEF TreeOK
  <1>0. TreeOK /\ CallsOK /\ faults \in 0..MaxFaults /\ losses \in 0..MaxLosses
    BY TypeParts
  <1>1. ASSUME NEW c \in Callers, Start(c) PROVE TypeOK'
    <2>1. UNCHANGED <<tree, bounds>>
      BY <1>1 DEF Start, AdmitSeedGeneration, BootstrapFromJoinMaterial, ReplaceGeneration,
         AcceptGeneration, AcceptGenerationChain, RebootstrapGeneration, Begin
    <2>2. CallsOK'
      <3> USE <1>0
      <3>1. ASSUME NEW p \in Packages
            PROVE  /\ <<p>> \in Seq(Packages) /\ <<p>> \in Seq(Packages \cup {None}) /\ <<p>> # <<>>
                   /\ Len(<<p>>) = 1
        OBVIOUS
      <3>2. {"gate", "judge", "probe", "record"} \subseteq PCs \ {"idle"} /\ AllDoors # {}
        BY DEF PCs, AllDoors
      <3>3. NoPin \in Pins /\ 0 \in Nat
        BY DoorsAssumption
      <3>4. ASSUME NEW p \in Packages, AdmitSeedGeneration(c, p) PROVE CallsOK'
        BY <3>1, <3>2, <3>3, <3>4, BeginTypes DEF AdmitSeedGeneration, AllDoors
      <3>5. ASSUME NEW p \in Packages, ReplaceGeneration(c, p) PROVE CallsOK'
        BY <3>1, <3>2, <3>3, <3>5, BeginTypes DEF ReplaceGeneration, AllDoors
      <3>6. ASSUME NEW p \in Packages, AcceptGeneration(c, p) PROVE CallsOK'
        BY <3>1, <3>2, <3>3, <3>6, BeginTypes DEF AcceptGeneration, AllDoors
      <3>7. ASSUME NEW pin \in Pins, BootstrapFromJoinMaterial(c, pin) PROVE CallsOK'
        <4>1. <<JoinMaterial>> \in Seq(Packages \cup {None}) /\ <<JoinMaterial>> # <<>>
              /\ Len(<<JoinMaterial>>) = 1
          BY DoorsAssumption
        <4> QED BY <4>1, <3>2, <3>3, <3>7, BeginTypes DEF BootstrapFromJoinMaterial, AllDoors
      <3>8. ASSUME NEW s \in Chains, AcceptGenerationChain(c, s) PROVE CallsOK'
        <4>1. s \in Seq(Packages) /\ s # <<>>
          BY DoorsAssumption
        <4>2. s \in Seq(Packages \cup {None})
          BY <4>1
        <4> QED BY <4>1, <4>2, <3>2, <3>3, <3>8, BeginTypes DEF AcceptGenerationChain, AllDoors
      <3>9. ASSUME NEW p \in Packages, NEW e \in Epochs, NEW pin \in Pins,
                   RebootstrapGeneration(c, p, e, pin)
            PROVE  CallsOK'
        <4>1. e \in Nat
          BY DoorsAssumption DEF Epochs
        <4> QED BY <4>1, <3>1, <3>2, <3>9, BeginTypes DEF RebootstrapGeneration, AllDoors
      <3> QED BY <1>1, <3>4, <3>5, <3>6, <3>7, <3>8, <3>9 DEF Start
    <2> QED BY <2>1, <2>2, <1>0, TypePartsNext, SMTT(30) DEF tree, bounds
  <1>2. ASSUME NEW c \in Callers, Gate(c) PROVE TypeOK'
    <2>1. CallsOK'
      <3>1. CASE live.at # 0 \/ Pkg(c) = None
        BY <1>0, <1>2, <3>1, RefuseTypes DEF Gate
      <3>2. CASE ~(live.at # 0 \/ Pkg(c) = None)
        <4>1. call[c].todo \in Seq(Packages)
          <5>1. /\ call[c].todo \in Seq(Packages \cup {None}) /\ Len(call[c].todo) = 1
                /\ call[c].todo[1] \in Packages
            BY <1>0, <1>2, <3>2 DEF CallsOK, CallRecords, Pkg, Gate
          <5>2. call[c].todo \in [1..1 -> Packages]
            BY <5>1
          <5> QED BY <5>2, SeqDef
        <4> QED BY <1>0, <1>2, <3>2, <4>1, GotoTypes DEF Gate, At, PCs
      <3> QED BY <3>1, <3>2
    <2> QED BY <2>1, <1>0, <1>2, TypePartsNext DEF Gate, tree, bounds
  <1>3. ASSUME NEW c \in Callers, Probe(c) PROVE TypeOK'
    <2>1. CallsOK'
      <3>1. CASE live.at = 0
        BY <1>0, <1>3, <3>1, RefuseTypes DEF Probe
      <3>2. CASE live.at # 0
        <4> DEFINE k == [call[c] EXCEPT !.pc = "record", !.idx = live.at]
        <4>0. live.at \in 0..MaxGen /\ "record" \in PCs
          BY <1>0 DEF Entries, PCs
        <4>1. k \in CallRecords /\ k.pc = "record" /\ k.todo = call[c].todo
          BY <1>0, <4>0 DEF CallsOK, CallRecords
        <4>2. call' = [call EXCEPT ![c] = k]
          BY <1>0, <1>3, <3>2 DEF Probe, CallsOK
        <4> HIDE DEF k
        <4> QED BY <1>0, <1>3, <3>2, <4>1, <4>2 DEF CallsOK, Probe, history, At
      <3> QED BY <3>1, <3>2
    <2> QED BY <2>1, <1>0, <1>3, TypePartsNext DEF Probe, tree, bounds
  <1>4. ASSUME NEW c \in Callers, ReadRecord(c) PROVE TypeOK'
    <2>1. CallsOK'
      <3>1. CASE live.at = 0
        BY <1>0, <1>4, <3>1, RefuseTypes DEF ReadRecord
      <3>2. CASE live.at # 0
        <4> DEFINE to == IF call[c].door = "rebootstrap" THEN "judge" ELSE "document"
                   k == [call[c] EXCEPT !.epoch = EpochOf(live), !.pc = to]
        <4>1. EpochOf(live) \in Nat
          BY <1>0, DoorsAssumption DEF EpochOf, Entries
        <4>2. k \in CallRecords /\ k.pc = to /\ k.todo = call[c].todo
          BY <1>0, <4>1, ZenonT(40) DEF CallsOK, CallRecords, PCs
        <4>3. call' = [call EXCEPT ![c] = k]
          BY <1>0, <1>4, <3>2 DEF ReadRecord, CallsOK
        <4> HIDE DEF k
        <4> QED BY <1>0, <1>4, <3>2, <4>2, <4>3 DEF CallsOK, ReadRecord, history, At
      <3> QED BY <3>1, <3>2
    <2> QED BY <2>1, <1>0, <1>4, TypePartsNext DEF ReadRecord, tree, bounds
  <1>5. ASSUME NEW c \in Callers, ReadDocument(c) PROVE TypeOK'
    <2>1. CallsOK'
      <3>1. CASE EpochOf(live) # call[c].epoch
        BY <1>0, <1>5, <3>1, RefuseTypes DEF ReadDocument
      <3>2. CASE EpochOf(live) = call[c].epoch
        <4> DEFINE k == [call[c] EXCEPT !.pc = "compare", !.base = live.mat]
        <4>0. live.mat \in Packages \cup {None} /\ "compare" \in PCs
          BY <1>0 DEF Entries, PCs
        <4>1. k \in CallRecords /\ k.pc = "compare" /\ k.todo = call[c].todo
          BY <1>0, <4>0 DEF CallsOK, CallRecords
        <4>2. call' = [call EXCEPT ![c] = k]
          BY <1>0, <1>5, <3>2 DEF ReadDocument, CallsOK
        <4> HIDE DEF k
        <4> QED BY <1>0, <1>5, <3>2, <4>1, <4>2 DEF CallsOK, ReadDocument, history, At
      <3> QED BY <3>1, <3>2
    <2> QED BY <2>1, <1>0, <1>5, TypePartsNext DEF ReadDocument, tree, bounds
  <1>6. ASSUME NEW c \in Callers, Compare(c) PROVE TypeOK'
    <2>1. call[c].epoch \in Nat /\ call[c].todo \in Seq(Packages) /\ ~At(c, "idle") /\ ~At(c, "gate")
      BY <1>0, <1>6 DEF CallsOK, CallRecords, Compare, At
    <2>2. CallsOK'
      BY <1>0, <1>6, <2>1, AcceptTypes, GotoTypes DEF Compare, PCs
    <2> QED BY <2>2, <1>0, <1>6, TypePartsNext DEF Compare, tree, bounds
  <1>7. ASSUME NEW c \in Callers, Judge(c) PROVE TypeOK'
    <2>1. call[c].todo \in Seq(Packages) /\ ~At(c, "idle")
      BY <1>0, <1>7 DEF CallsOK, Judge, At
    <2>2. CallsOK'
      BY <1>0, <1>7, <2>1, RefuseTypes, GotoTypes DEF Judge, PCs
    <2> QED BY <2>2, <1>0, <1>7, TypePartsNext DEF Judge, tree, bounds
  <1>8. ASSUME NEW c \in Callers, Stage(c) PROVE TypeOK'
    <2>1. /\ call[c].todo \in Seq(Packages) /\ ~At(c, "idle") /\ ~At(c, "gate")
          /\ Pkg(c).doc.epoch \in Nat
      BY <1>0, <1>8, PackageOfCall DEF CallsOK, Stage, At
    <2>2. CallsOK'
      BY <1>0, <1>8, <2>1, RefuseTypes, GotoTypes, AcceptTypes DEF Stage, PCs
    <2>3. TreeOK'
      <3>1. CASE UNCHANGED tree
        BY <1>0, <3>1 DEF tree
      <3>2. CASE Register!Commit
        BY <1>0, <3>2 DEF Register!Commit
      <3> QED BY <1>8, <3>1, <3>2 DEF Stage
    <2> QED BY <2>2, <2>3, <1>0, <1>8, TypePartsNext DEF Stage, bounds
  <1>9. ASSUME NEW c \in Callers, Swap(c) PROVE TypeOK'
    <2>1. Pkg(c) \in Packages /\ Pkg(c) # None
      BY <1>0, <1>9, PackageOfCall, DoorsAssumption DEF Swap, At
    <2>2. PICK n \in 1..MaxGen : Register!Install(n, Pkg(c))
      BY <1>9 DEF Swap
    <2>3. TreeOK'
      <3> DEFINE e == [at |-> n, mat |-> Pkg(c)]
      <3>1. e \in Entries /\ e.at # 0 /\ e.mat # None
        BY <2>1, DoorsAssumption DEF Entries
      <3>2. live' = e /\ kept' = kept \cup {e} /\ used' = used \cup {n}
        BY <2>2 DEF Register!Install
      <3> HIDE DEF e
      <3> QED BY <1>0, <3>1, <3>2
    <2>4. CallsOK'
      <3> DEFINE k == [call[c] EXCEPT !.pc = "flush"]
      <3>1. k \in CallRecords /\ k.pc = "flush" /\ k.todo = call[c].todo
        BY <1>0 DEF CallsOK, CallRecords, PCs
      <3>2. call' = [call EXCEPT ![c] = k]
        BY <1>0, <1>9 DEF Swap, CallsOK
      <3> HIDE DEF k
      <3> QED BY <1>0, <1>9, <3>1, <3>2 DEF CallsOK, Swap, At
    <2> QED BY <2>3, <2>4, <1>0, <1>9, TypePartsNext DEF Swap, bounds
  <1>10. ASSUME NEW c \in Callers, Flush(c) PROVE TypeOK'
    <2>1. call[c].todo \in Seq(Packages) /\ ~At(c, "idle")
      BY <1>0, <1>10 DEF CallsOK, Flush, At
    <2>2. CallsOK'
      BY <1>0, <1>10, <2>1, GotoTypes DEF Flush, PCs
    <2>3. TreeOK'
      BY <1>0, <1>10 DEF Flush, Register!Commit
    <2> QED BY <2>2, <2>3, <1>0, <1>10, TypePartsNext DEF Flush, bounds
  <1>11. ASSUME NEW c \in Callers, Prune(c) PROVE TypeOK'
    <2>1. ~At(c, "idle") /\ ~At(c, "gate") /\ Pkg(c).doc.epoch \in Nat
      BY <1>0, <1>11, PackageOfCall DEF Prune, At
    <2>2. CallsOK'
      BY <1>0, <1>11, <2>1, AcceptTypes DEF Prune
    <2> QED BY <2>2, <1>0, <1>11, TypePartsNext DEF Prune, tree, bounds
  <1>12. ASSUME NEW c \in Callers, Fault(c) PROVE TypeOK'
    <2>1. CallsOK'
      BY <1>0, <1>12, RefuseTypes DEF Fault
    <2> QED BY <2>1, <1>0, <1>12, TypePartsNext, DoorsAssumption DEF Fault, tree
  <1>13. ASSUME NEW c \in Callers, Kill(c) PROVE TypeOK'
    <2>1. Idle.pc = "idle" /\ Idle.todo = <<>> /\ <<>> \in Seq(Packages)
      BY DEF Idle
    <2>2. CallsOK'
      BY <1>0, <1>13, <2>1, IdleIsTyped DEF Kill, CallsOK, At, history
    <2> QED BY <2>2, <1>0, <1>13, TypePartsNext, DoorsAssumption DEF Kill, tree
  <1>14. ASSUME PowerLoss PROVE TypeOK'
    <2>1. Idle.pc = "idle" /\ Idle.todo = <<>> /\ <<>> \in Seq(Packages)
      BY DEF Idle
    <2>2. CallsOK'
      BY <1>0, <1>14, <2>1, IdleIsTyped DEF PowerLoss, CallsOK, At, history
    <2>3. TreeOK'
      BY <1>0, <1>14 DEF PowerLoss, Register!PowerLoss
    <2> QED BY <2>2, <2>3, <1>0, <1>14, TypePartsNext, DoorsAssumption DEF PowerLoss
  <1>15. CASE UNCHANGED vars
    BY <1>0, <1>15, TypePartsNext DEF vars, tree, history, bounds, CallsOK, At
  <1> QED BY <1>1, <1>2, <1>3, <1>4, <1>5, <1>6, <1>7, <1>8, <1>9, <1>10, <1>11, <1>12, <1>13,
            <1>14, <1>15 DEF Next, Step

\* The calls and the tree keep their types (release_trust.rs as a whole): no
\* door leaves an index without material, material without an index, or a call
\* without the package it is about.
THEOREM TypeCorrect == Spec => []TypeOK
  BY InitTypes, StepTypes, PTL DEF Spec
-----------------------------------------------------------------------------
(* Self-admission, whatever number of callers there are *)

\* What is swapped in was validated where it was staged.
Admission == LiveSelfAdmits /\ \A c \in Callers : At(c, "swap") => SelfAdmits(Pkg(c))

\* A call comes to its swap only from the validation of the staged copy, and
\* waits there as it is.
LEMMA OnlyStageLeadsToSwap ==
  ASSUME TypeOK, [Next]_vars, NEW d \in Callers, call'[d].pc = "swap"
  PROVE  call'[d] = call[d] \/ (Stage(d) /\ SelfAdmits(Pkg(d)) /\ call'[d].todo = call[d].todo)
  <1>0. call \in [Callers -> CallRecords] /\ Idle.pc = "idle"
    BY DEF TypeOK, Idle
  <1>1. ASSUME NEW c \in Callers, NEW how, Refuse(c, how) PROVE call'[d] = call[d]
    BY <1>0, <1>1 DEF Refuse
  <1>2. ASSUME NEW c \in Callers, NEW pc, pc # "swap", Goto(c, pc) PROVE call'[d] = call[d]
    BY <1>0, <1>2 DEF Goto, CallRecords
  <1>3. ASSUME NEW c \in Callers, NEW changed, NEW epoch, Accept(c, changed, epoch)
        PROVE  call'[d] = call[d]
    <2> DEFINE go == [Idle EXCEPT !.pc = "probe", !.door = call[c].door,
                                  !.todo = Tail(call[c].todo), !.done = call[c].done + 1]
    <2>1. go.pc = "probe"
      BY DEF Idle
    <2>2. call' = [call EXCEPT ![c] = IF Len(call[c].todo) = 1 THEN Idle ELSE go]
      BY <1>3 DEF Accept
    <2> HIDE DEF go
    <2> QED BY <1>0, <2>1, <2>2
  <1>4. ASSUME NEW c \in Callers, NEW door, NEW pc, pc # "swap", NEW todo, NEW pin, NEW asserted,
               Begin(c, door, pc, todo, pin, asserted)
        PROVE  call'[d] = call[d]
    <2> DEFINE k == [Idle EXCEPT !.pc = pc, !.door = door, !.todo = todo, !.pin = pin,
                                 !.asserted = asserted]
    <2>1. k.pc = pc
      BY DEF Idle
    <2>2. call' = [call EXCEPT ![c] = k]
      BY <1>4 DEF Begin
    <2> HIDE DEF k
    <2> QED BY <1>0, <1>4, <2>1, <2>2
  <1>5. ASSUME NEW c \in Callers, Start(c) PROVE call'[d] = call[d]
    BY <1>4, <1>5 DEF Start, AdmitSeedGeneration, BootstrapFromJoinMaterial, ReplaceGeneration,
       AcceptGeneration, AcceptGenerationChain, RebootstrapGeneration
  <1>6. ASSUME NEW c \in Callers, Gate(c) PROVE call'[d] = call[d]
    BY <1>1, <1>2, <1>6 DEF Gate
  <1>7. ASSUME NEW c \in Callers, Probe(c) PROVE call'[d] = call[d]
    <2>1. CASE live.at = 0
      BY <1>1, <1>7, <2>1 DEF Probe
    <2>2. CASE live.at # 0
      BY <1>0, <1>7, <2>2 DEF Probe, CallRecords
    <2> QED BY <2>1, <2>2
  <1>8. ASSUME NEW c \in Callers, ReadRecord(c) PROVE call'[d] = call[d]
    <2>1. CASE live.at = 0
      BY <1>1, <1>8, <2>1 DEF ReadRecord
    <2>2. CASE live.at # 0
      BY <1>0, <1>8, <2>2 DEF ReadRecord, CallRecords
    <2> QED BY <2>1, <2>2
  <1>9. ASSUME NEW c \in Callers, ReadDocument(c) PROVE call'[d] = call[d]
    <2>1. CASE EpochOf(live) # call[c].epoch
      BY <1>1, <1>9, <2>1 DEF ReadDocument
    <2>2. CASE EpochOf(live) = call[c].epoch
      BY <1>0, <1>9, <2>2 DEF ReadDocument, CallRecords
    <2> QED BY <2>1, <2>2
  <1>10. ASSUME NEW c \in Callers, Compare(c) PROVE call'[d] = call[d]
    BY <1>2, <1>3, <1>10 DEF Compare
  <1>11. ASSUME NEW c \in Callers, Judge(c) PROVE call'[d] = call[d]
    BY <1>1, <1>2, <1>11 DEF Judge
  <1>12. ASSUME NEW c \in Callers, Stage(c)
         PROVE  call'[d] = call[d] \/ (Stage(d) /\ SelfAdmits(Pkg(d)) /\ call'[d].todo = call[d].todo)
    <2>1. CASE Goto(c, "swap") /\ ValidateStaged(Pkg(c))
      BY <1>0, <1>12, <2>1 DEF Goto, CallRecords, ValidateStaged
    <2>2. CASE ~(Goto(c, "swap") /\ ValidateStaged(Pkg(c)))
      BY <1>1, <1>3, <1>12, <2>2 DEF Stage
    <2> QED BY <2>1, <2>2
  <1>13. ASSUME NEW c \in Callers, Swap(c) PROVE call'[d] = call[d]
    BY <1>0, <1>13 DEF Swap, CallRecords
  <1>14. ASSUME NEW c \in Callers, Flush(c) PROVE call'[d] = call[d]
    BY <1>2, <1>14 DEF Flush
  <1>15. ASSUME NEW c \in Callers, Prune(c) PROVE call'[d] = call[d]
    BY <1>3, <1>15 DEF Prune
  <1>16. ASSUME NEW c \in Callers, Fault(c) PROVE call'[d] = call[d]
    BY <1>1, <1>16 DEF Fault
  <1>17. ASSUME NEW c \in Callers, Kill(c) PROVE call'[d] = call[d]
    BY <1>0, <1>17 DEF Kill
  <1>18. CASE PowerLoss
    BY <1>0, <1>18 DEF PowerLoss
  <1>19. CASE UNCHANGED vars
    BY <1>19, SMTT(30) DEF vars
  <1> QED BY <1>5, <1>6, <1>7, <1>8, <1>9, <1>10, <1>11, <1>12, <1>13, <1>14, <1>15, <1>16, <1>17,
            <1>18, <1>19 DEF Next, Step

\* How a step may change the tree: not at all, by a flush, by the swap of a
\* call that is at one, or by losing power.
LEMMA TreeSteps ==
  ASSUME [Next]_vars
  PROVE  \/ UNCHANGED tree \/ Register!Commit
         \/ \E c \in Callers : Swap(c)
         \/ PowerLoss
  BY DEF Next, Step, vars, Start, Gate, Probe, ReadRecord, ReadDocument, Compare, Judge, Stage,
     Flush, Prune, Fault, Kill, AdmitSeedGeneration, BootstrapFromJoinMaterial, ReplaceGeneration,
     AcceptGeneration, AcceptGenerationChain, RebootstrapGeneration, Begin

\* Every step keeps the active generation admitting itself.
LEMMA AdmissionStep == TypeOK /\ Admission /\ [Next]_vars => Admission'
  <1> SUFFICES ASSUME TypeOK, Admission, [Next]_vars PROVE Admission'
    OBVIOUS
  <1>1. ASSUME NEW d \in Callers, At(d, "swap")' PROVE SelfAdmits(Pkg(d))'
    <2>1. call'[d].todo = call[d].todo /\ SelfAdmits(Pkg(d))
      BY <1>1, OnlyStageLeadsToSwap DEF Admission, At
    <2>2. Pkg(d)' = Pkg(d)
      BY <2>1 DEF Pkg
    <2> QED BY <2>1, <2>2
  <1>2. LiveSelfAdmits'
    <2>0. live \in kept
      BY DEF TypeOK
    <2>1. CASE UNCHANGED tree
      BY <2>1 DEF Admission, LiveSelfAdmits, tree
    <2>2. CASE Register!Commit
      BY <2>2 DEF Admission, LiveSelfAdmits, Register!Commit
    <2>3. ASSUME NEW c \in Callers, Swap(c) PROVE LiveSelfAdmits'
      <3>1. PICK n \in 1..MaxGen : Register!Install(n, Pkg(c))
        BY <2>3 DEF Swap
      <3>2. SelfAdmits(Pkg(c))
        BY <2>3 DEF Admission, Swap
      <3> QED BY <3>1, <3>2 DEF Admission, LiveSelfAdmits, Register!Install
    <2>4. CASE PowerLoss
      BY <2>4 DEF Admission, LiveSelfAdmits, PowerLoss, Register!PowerLoss
    <2> QED BY <2>1, <2>2, <2>3, <2>4, TreeSteps
  <1> QED BY <1>1, <1>2 DEF Admission

\* With any number of overlapping callers, every generation a reader can
\* resolve, now or after a power loss, passes the self-admission sequence
\* (validate_staged, install_generation).
THEOREM AdmissionSafety == Spec => []LiveSelfAdmits
  <1>1. Init => Admission
    BY DEF Init, Admission, LiveSelfAdmits, Register!Init, Register!Nothing, At, Idle
  <1>2. Admission => LiveSelfAdmits
    BY DEF Admission
  <1> QED BY <1>1, <1>2, TypeCorrect, AdmissionStep, PTL DEF Spec
-----------------------------------------------------------------------------
(* The floor and the swap, where calls do not overlap *)

Runtime == {"accept", "chain"}

\* Where a call can be, by its door.
DoorOf(c) ==
    /\ ~At(c, "idle") => call[c].door \in AllDoors
    /\ At(c, "gate") => call[c].door \in {"seed", "join"}
    /\ call[c].pc \in {"probe", "document", "compare"} => call[c].door \in Runtime
    /\ At(c, "record") => call[c].door \in Runtime \cup {"rebootstrap"}
    /\ ~At(c, "idle") /\ call[c].door # "chain" => Len(call[c].todo) = 1

\* What a call has read of the tree is still so when it comes to swap, and
\* what it judged by that stands.
Judging(c) == call[c].pc \in {"judge", "stage", "swap"}
ReadsHold(c) ==
    /\ (Judging(c) \/ call[c].pc \in {"document", "compare"})
       /\ call[c].door \in Runtime \cup {"rebootstrap"} =>
         live.at # 0 /\ call[c].epoch = EpochOf(live)
    /\ (Judging(c) \/ At(c, "compare")) /\ call[c].door \in Runtime => call[c].base = live.mat
    /\ Judging(c) /\ call[c].door \in {"seed", "join"} => live.at = 0
    /\ call[c].pc \in {"stage", "swap"} => Judged(c)

\* What an installation has published and flushed.
Published(c) ==
    /\ call[c].pc \in {"flush", "prune"} => live.at # 0 /\ live.mat = Pkg(c)
    /\ call[c].pc \in {"swap", "prune"} => kept = {live}

FloorKept == \A k \in kept : promised <= EpochOf(k)

SerialInv ==
    /\ \A c \in Callers : DoorOf(c) /\ ReadsHold(c) /\ Published(c)
    /\ FloorKept
\* The one caller there is.
LEMMA SerialCaller ==
  ASSUME Serial, NEW c \in Callers, (DoorOf(c) /\ ReadsHold(c) /\ Published(c))', FloorKept'
  PROVE  SerialInv'
  BY DEF Serial, SerialInv

\* A call that ends has read nothing.
LEMMA AtRest ==
  ASSUME Serial, NEW c \in Callers, call'[c].pc = "idle", FloorKept'
  PROVE  SerialInv'
  <1>1. (DoorOf(c) /\ ReadsHold(c) /\ Published(c))'
    BY DEF DoorOf, ReadsHold, Published, Judging, At
  <1> QED BY <1>1, SerialCaller

\* A refusal keeps what serialized doors hold.
LEMMA RefuseKeeps ==
  ASSUME Serial, CallsOK, SerialInv, NEW c \in Callers, NEW how, Refuse(c, how), UNCHANGED tree
  PROVE  SerialInv'
  <1>1. call'[c].pc = "idle"
    BY DEF Refuse, CallsOK, Idle
  <1>2. FloorKept'
    BY DEF SerialInv, FloorKept, Refuse, history, tree
  <1> QED BY <1>1, <1>2, AtRest

\* A step that is accepted raises the floor only to what is flushed.
LEMMA AcceptKeeps ==
  ASSUME Serial, CallsOK, SerialInv, NEW c \in Callers, ~At(c, "idle"), NEW changed \in BOOLEAN,
         NEW epoch \in Nat, Accept(c, changed, epoch), UNCHANGED tree,
         changed => kept = {live} /\ epoch = EpochOf(live)
  PROVE  SerialInv'
  <1>1. FloorKept'
    <2>1. kept' = kept /\ \A k \in kept : promised <= EpochOf(k)
      BY DEF SerialInv, FloorKept, tree
    <2>2. CASE changed
      <3>1. promised' = HigherOf(promised, epoch) /\ kept = {live} /\ epoch = EpochOf(live)
        BY <2>2 DEF Accept
      <3> QED BY <2>1, <3>1 DEF HigherOf, FloorKept
    <2>3. CASE ~changed
      BY <2>1, <2>3 DEF Accept, FloorKept
    <2> QED BY <2>2, <2>3
  <1>2. CASE Len(call[c].todo) = 1
    BY <1>1, <1>2, AtRest DEF Accept, CallsOK, Idle
  <1>3. CASE Len(call[c].todo) # 1
    <2> DEFINE go == [Idle EXCEPT !.pc = "probe", !.door = call[c].door,
                                  !.todo = Tail(call[c].todo), !.done = call[c].done + 1]
    <2>1. call'[c] = go
      BY <1>3 DEF Accept, CallsOK
    <2>2. call[c].door = "chain"
      BY <1>3 DEF SerialInv, DoorOf
    <2>3. go.pc = "probe" /\ go.door = "chain"
      BY <2>2 DEF Idle
    <2> HIDE DEF go
    <2>4. (DoorOf(c) /\ ReadsHold(c) /\ Published(c))'
      BY <2>1, <2>3 DEF DoorOf, ReadsHold, Published, Judging, At, Runtime, AllDoors
    <2> QED BY <1>1, <2>4, SerialCaller
  <1> QED BY <1>2, <1>3

\* A call that begins has read nothing either.
LEMMA BeginKeeps ==
  ASSUME Serial, CallsOK, SerialInv, NEW c \in Callers, NEW door \in AllDoors, NEW pc, NEW todo,
         NEW pin, NEW asserted, Begin(c, door, pc, todo, pin, asserted),
         \/ pc = "gate" /\ door \in {"seed", "join"} /\ Len(todo) = 1
         \/ pc = "judge" /\ door = "replace" /\ Len(todo) = 1
         \/ pc = "probe" /\ door = "accept" /\ Len(todo) = 1
         \/ pc = "probe" /\ door = "chain"
         \/ pc = "record" /\ door = "rebootstrap" /\ Len(todo) = 1
  PROVE  SerialInv'
  <1> DEFINE k == [Idle EXCEPT !.pc = pc, !.door = door, !.todo = todo, !.pin = pin,
                               !.asserted = asserted]
  <1>1. k.pc = pc /\ k.door = door /\ k.todo = todo
    BY DEF Idle
  <1>2. call'[c] = k /\ UNCHANGED <<tree, history>>
    BY DEF Begin, CallsOK
  <1> HIDE DEF k
  <1>3. (DoorOf(c) /\ ReadsHold(c) /\ Published(c))'
    BY <1>1, <1>2 DEF DoorOf, ReadsHold, Published, Judging, At, Runtime
  <1>4. FloorKept'
    BY <1>2 DEF SerialInv, FloorKept, tree, history
  <1> QED BY <1>3, <1>4, SerialCaller
\* A call that moves on keeps all but its place.
LEMMA GotoFields ==
  ASSUME CallsOK, NEW c \in Callers, NEW pc, call' = [call EXCEPT ![c].pc = pc]
  PROVE  /\ call'[c].pc = pc /\ call'[c].door = call[c].door /\ call'[c].todo = call[c].todo
         /\ call'[c].epoch = call[c].epoch /\ call'[c].base = call[c].base
         /\ Pkg(c)' = Pkg(c) /\ Judged(c)' = Judged(c)
  <1>1. /\ call'[c].pc = pc /\ call'[c].door = call[c].door /\ call'[c].todo = call[c].todo
        /\ call'[c].epoch = call[c].epoch /\ call'[c].base = call[c].base
        /\ call'[c].pin = call[c].pin /\ call'[c].asserted = call[c].asserted
    BY DEF CallsOK, CallRecords
  <1>2. Pkg(c)' = Pkg(c)
    BY <1>1 DEF Pkg
  <1>3. Judged(c)' = Judged(c)
    BY <1>1, <1>2 DEF Judged
  <1> QED BY <1>1, <1>2, <1>3

\* What has been judged is above the floor, or there is none.
LEMMA JudgedAboveFloor ==
  ASSUME TypeOK, SerialInv, NEW c \in Callers, At(c, "swap"), call[c].door # "replace"
  PROVE  /\ promised <= Pkg(c).doc.epoch
         /\ live.at # 0 => Pkg(c).doc.epoch > EpochOf(live)
  <1>0. /\ TreeOK /\ CallsOK /\ Pkg(c) \in Packages /\ Pkg(c).doc.epoch \in Nat
        /\ promised \in Nat /\ call[c].epoch \in Nat /\ promised <= EpochOf(live)
    <2>1. TreeOK /\ CallsOK
      BY TypeParts
    <2> QED BY <2>1, PackageOfCall DEF At, CallsOK, TreeOK, CallRecords, SerialInv, FloorKept
  <1>1. Judged(c) /\ ReadsHold(c) /\ call[c].door \in AllDoors
    BY DEF SerialInv, ReadsHold, DoorOf, At
  <1>2. CASE call[c].door \in Runtime
    <2>1. /\ live.at # 0 /\ call[c].epoch = EpochOf(live) /\ call[c].base = live.mat
          /\ JudgeAccept(Pkg(c), live.mat.doc, call[c].epoch)
      BY <1>1, <1>2 DEF ReadsHold, Judged, Judging, At, Runtime
    <2>2. live.mat \in Packages
      BY <1>0, <2>1 DEF TreeOK, Entries
    <2>3. Pkg(c).doc.epoch > call[c].epoch
      BY <1>0, <2>1, <2>2, AcceptedPackage, DoorsAssumption
    <2> QED BY <1>0, <2>1, <2>3
  <1>3. CASE call[c].door = "rebootstrap"
    <2>1. /\ call[c].epoch = EpochOf(live)
          /\ JudgeRebootstrap(Pkg(c), call[c].epoch, call[c].asserted, call[c].pin)
      BY <1>1, <1>3 DEF ReadsHold, Judged, Judging, At, Runtime
    <2> QED BY <1>0, <2>1 DEF JudgeRebootstrap
  <1>4. CASE call[c].door \in {"seed", "join"}
    <2>1. live.at = 0
      BY <1>1, <1>4 DEF ReadsHold, Judging, At
    <2> QED BY <1>0, <2>1 DEF EpochOf
  <1> QED BY <1>1, <1>2, <1>3, <1>4 DEF AllDoors, Runtime

\* Every step of serialized doors keeps what they hold.
LEMMA SerialStep == Serial /\ TypeOK /\ SerialInv /\ [Next]_vars => SerialInv'
  <1> SUFFICES ASSUME Serial, TypeOK, SerialInv, [Next]_vars PROVE SerialInv'
    OBVIOUS
  <1>0. TreeOK /\ CallsOK
    BY TypeParts
  <1> USE <1>0
  <1>1. ASSUME NEW c \in Callers, Start(c) PROVE SerialInv'
    <2>1. ASSUME NEW p PROVE Len(<<p>>) = 1
      OBVIOUS
    <2> QED BY <1>1, <2>1, BeginKeeps DEF Start, AdmitSeedGeneration, BootstrapFromJoinMaterial,
         ReplaceGeneration, AcceptGeneration, AcceptGenerationChain, RebootstrapGeneration, AllDoors
  <1>2. ASSUME NEW c \in Callers, Gate(c) PROVE SerialInv'
    <2>1. CASE live.at # 0 \/ Pkg(c) = None
      BY <1>2, <2>1, RefuseKeeps DEF Gate
    <2>2. CASE ~(live.at # 0 \/ Pkg(c) = None)
      <3>1. call' = [call EXCEPT ![c].pc = "judge"] /\ UNCHANGED <<tree, history>>
        BY <1>2, <2>2 DEF Gate, Goto
      <3>2. (DoorOf(c) /\ ReadsHold(c) /\ Published(c))'
        BY <1>2, <2>2, <3>1, GotoFields
           DEF Gate, SerialInv, DoorOf, ReadsHold, Published, Judging, At, Runtime, tree
      <3>3. FloorKept'
        BY <3>1 DEF SerialInv, FloorKept, tree, history
      <3> QED BY <3>2, <3>3, SerialCaller
    <2> QED BY <2>1, <2>2
  <1>3. ASSUME NEW c \in Callers, Probe(c) PROVE SerialInv'
    <2>1. CASE live.at = 0
      BY <1>3, <2>1, RefuseKeeps DEF Probe
    <2>2. CASE live.at # 0
      <3>1. /\ call' = [call EXCEPT ![c].pc = "record", ![c].idx = live.at]
            /\ UNCHANGED <<tree, history>>
        BY <1>3, <2>2 DEF Probe
      <3>2. /\ call'[c].pc = "record" /\ call'[c].door = call[c].door
            /\ call'[c].todo = call[c].todo
        BY <3>1 DEF CallsOK, CallRecords
      <3>3. (DoorOf(c) /\ ReadsHold(c) /\ Published(c))'
        BY <1>3, <3>2
           DEF Probe, SerialInv, DoorOf, ReadsHold, Published, Judging, At, Runtime
      <3>4. FloorKept'
        BY <3>1 DEF SerialInv, FloorKept, tree, history
      <3> QED BY <3>3, <3>4, SerialCaller
    <2> QED BY <2>1, <2>2
  <1>4. ASSUME NEW c \in Callers, ReadRecord(c) PROVE SerialInv'
    <2>1. CASE live.at = 0
      BY <1>4, <2>1, RefuseKeeps DEF ReadRecord
    <2>2. CASE live.at # 0
      <3> DEFINE to == IF call[c].door = "rebootstrap" THEN "judge" ELSE "document"
      <3>1. /\ call' = [call EXCEPT ![c].epoch = EpochOf(live), ![c].pc = to]
            /\ UNCHANGED <<tree, history>>
        BY <1>4, <2>2 DEF ReadRecord
      <3>2. /\ call'[c].pc = to /\ call'[c].door = call[c].door
            /\ call'[c].todo = call[c].todo /\ call'[c].epoch = EpochOf(live)
        BY <3>1 DEF CallsOK, CallRecords
      <3>3. EpochOf(live)' = EpochOf(live) /\ live' = live
        BY <3>1 DEF tree
      <3>4. (DoorOf(c) /\ ReadsHold(c) /\ Published(c))'
        BY <1>4, <2>2, <3>2, <3>3
           DEF ReadRecord, SerialInv, DoorOf, ReadsHold, Published, Judging, At, Runtime
      <3>5. FloorKept'
        BY <3>1 DEF SerialInv, FloorKept, tree, history
      <3> QED BY <3>4, <3>5, SerialCaller
    <2> QED BY <2>1, <2>2
  <1>5. ASSUME NEW c \in Callers, ReadDocument(c) PROVE SerialInv'
    <2>1. CASE EpochOf(live) # call[c].epoch
      BY <1>5, <2>1, RefuseKeeps DEF ReadDocument
    <2>2. CASE EpochOf(live) = call[c].epoch
      <3>1. /\ call' = [call EXCEPT ![c].pc = "compare", ![c].base = live.mat]
            /\ UNCHANGED <<tree, history>>
        BY <1>5, <2>2 DEF ReadDocument
      <3>2. /\ call'[c].pc = "compare" /\ call'[c].door = call[c].door
            /\ call'[c].todo = call[c].todo /\ call'[c].epoch = call[c].epoch
            /\ call'[c].base = live.mat
        BY <3>1 DEF CallsOK, CallRecords
      <3>3. EpochOf(live)' = EpochOf(live) /\ live' = live
        BY <3>1 DEF tree
      <3>4. (DoorOf(c) /\ ReadsHold(c) /\ Published(c))'
        BY <1>5, <2>2, <3>2, <3>3
           DEF ReadDocument, SerialInv, DoorOf, ReadsHold, Published, Judging, At, Runtime
      <3>5. FloorKept'
        BY <3>1 DEF SerialInv, FloorKept, tree, history
      <3> QED BY <3>4, <3>5, SerialCaller
    <2> QED BY <2>1, <2>2
  <1>6. ASSUME NEW c \in Callers, Compare(c) PROVE SerialInv'
    <2>1. CASE live.mat = Pkg(c)
      <3>1. call[c].epoch \in Nat /\ ~At(c, "idle")
        BY <1>6 DEF CallsOK, CallRecords, Compare, At
      <3> QED BY <1>6, <2>1, <3>1, AcceptKeeps DEF Compare
    <2>2. CASE live.mat # Pkg(c)
      <3>1. call' = [call EXCEPT ![c].pc = "judge"] /\ UNCHANGED <<tree, history>>
        BY <1>6, <2>2 DEF Compare, Goto
      <3>2. EpochOf(live)' = EpochOf(live) /\ live' = live
        BY <3>1 DEF tree
      <3>3. (DoorOf(c) /\ ReadsHold(c) /\ Published(c))'
        BY <1>6, <3>1, <3>2, GotoFields
           DEF Compare, SerialInv, DoorOf, ReadsHold, Published, Judging, At, Runtime
      <3>4. FloorKept'
        BY <3>1 DEF SerialInv, FloorKept, tree, history
      <3> QED BY <3>3, <3>4, SerialCaller
    <2> QED BY <2>1, <2>2
  <1>7. ASSUME NEW c \in Callers, Judge(c) PROVE SerialInv'
    <2>1. CASE ~Judged(c)
      BY <1>7, <2>1, RefuseKeeps DEF Judge
    <2>2. CASE Judged(c)
      <3>1. call' = [call EXCEPT ![c].pc = "stage"] /\ UNCHANGED <<tree, history>>
        BY <1>7, <2>2 DEF Judge, Goto
      <3>2. EpochOf(live)' = EpochOf(live) /\ live' = live
        BY <3>1 DEF tree
      <3>3. (DoorOf(c) /\ ReadsHold(c) /\ Published(c))'
        <4>1. DoorOf(c) /\ ReadsHold(c) /\ call[c].pc = "judge"
          BY <1>7 DEF Judge, SerialInv, At
        <4>2. /\ call'[c].pc = "stage" /\ call'[c].door = call[c].door
              /\ call'[c].todo = call[c].todo /\ call'[c].epoch = call[c].epoch
              /\ call'[c].base = call[c].base /\ Judged(c)'
          BY <2>2, <3>1, GotoFields
        <4> QED BY <3>2, <4>1, <4>2 DEF DoorOf, ReadsHold, Published, Judging, At, Runtime
      <3>4. FloorKept'
        BY <3>1 DEF SerialInv, FloorKept, tree, history
      <3> QED BY <3>3, <3>4, SerialCaller
    <2> QED BY <2>1, <2>2
  <1>8. ASSUME NEW c \in Callers, Stage(c) PROVE SerialInv'
    <2>1. CASE live.at # 0 /\ live.mat = Pkg(c)
      <3>1. Pkg(c).doc.epoch \in Nat /\ ~At(c, "idle")
        BY <1>8, PackageOfCall DEF Stage, At
      <3> QED BY <1>8, <2>1, <3>1, AcceptKeeps DEF Stage
    <2>2. CASE ~(live.at # 0 /\ live.mat = Pkg(c)) /\ ~ValidateStaged(Pkg(c))
      BY <1>8, <2>2, RefuseKeeps DEF Stage
    <2>3. CASE ~(live.at # 0 /\ live.mat = Pkg(c)) /\ ValidateStaged(Pkg(c))
      <3>1. /\ call' = [call EXCEPT ![c].pc = "swap"] /\ kept' = {live} /\ UNCHANGED live
            /\ UNCHANGED history
        BY <1>8, <2>3 DEF Stage, Goto, Register!Commit
      <3>2. EpochOf(live)' = EpochOf(live) /\ kept' = {live'}
        BY <3>1
      <3>3. (DoorOf(c) /\ ReadsHold(c) /\ Published(c))'
        <4>1. DoorOf(c) /\ ReadsHold(c) /\ call[c].pc = "stage" /\ Judged(c)
          BY <1>8 DEF Stage, SerialInv, At, ReadsHold
        <4>2. /\ call'[c].pc = "swap" /\ call'[c].door = call[c].door
              /\ call'[c].todo = call[c].todo /\ call'[c].epoch = call[c].epoch
              /\ call'[c].base = call[c].base /\ Judged(c)'
          BY <3>1, <4>1, GotoFields
        <4> QED BY <3>1, <3>2, <4>1, <4>2 DEF DoorOf, ReadsHold, Published, Judging, At, Runtime
      <3>4. FloorKept'
        BY <3>1 DEF SerialInv, FloorKept, history, TreeOK
      <3> QED BY <3>3, <3>4, SerialCaller
    <2> QED BY <2>1, <2>2, <2>3
  <1>9. ASSUME NEW c \in Callers, Swap(c) PROVE SerialInv'
    <2>1. PICK n \in 1..MaxGen : Register!Install(n, Pkg(c))
      BY <1>9 DEF Swap
    <2> DEFINE e == [at |-> n, mat |-> Pkg(c)]
    <2>2. /\ live' = e /\ kept' = kept \cup {e} /\ e.at # 0 /\ e.mat = Pkg(c)
          /\ EpochOf(e) = Pkg(c).doc.epoch /\ Pkg(c).doc.epoch \in Nat
      BY <1>9, <2>1, PackageOfCall DEF Register!Install, EpochOf, Swap, At
    <2> HIDE DEF e
    <2>3. call' = [call EXCEPT ![c].pc = "flush"]
      BY <1>9 DEF Swap
    <2>4. (DoorOf(c) /\ ReadsHold(c) /\ Published(c))'
      <3>1. DoorOf(c) /\ call[c].pc = "swap"
        BY <1>9 DEF Swap, SerialInv, At
      <3>2. /\ call'[c].pc = "flush" /\ call'[c].door = call[c].door
            /\ call'[c].todo = call[c].todo /\ Pkg(c)' = Pkg(c)
        BY <2>3, GotoFields
      <3> QED BY <2>2, <3>1, <3>2 DEF DoorOf, ReadsHold, Published, Judging, At, Runtime
    <2>5. FloorKept'
      <3>1. CASE call[c].door = "replace"
        <4>1. promised' = 0
          BY <1>9, <3>1 DEF Swap
        <4>2. \A k \in kept : EpochOf(k) \in Nat
          BY DoorsAssumption DEF TreeOK, Entries, EpochOf
        <4> QED BY <2>2, <4>1, <4>2 DEF FloorKept
      <3>2. CASE call[c].door # "replace"
        <4>1. promised' = promised /\ promised <= Pkg(c).doc.epoch
          BY <1>9, <3>2, JudgedAboveFloor DEF Swap
        <4> QED BY <2>2, <4>1 DEF SerialInv, FloorKept
      <3> QED BY <3>1, <3>2
    <2> QED BY <2>4, <2>5, SerialCaller
  <1>10. ASSUME NEW c \in Callers, Flush(c) PROVE SerialInv'
    <2>1. /\ call' = [call EXCEPT ![c].pc = "prune"] /\ kept' = {live} /\ UNCHANGED live
          /\ UNCHANGED history
      BY <1>10 DEF Flush, Goto, Register!Commit
    <2>2. (DoorOf(c) /\ ReadsHold(c) /\ Published(c))'
      <3>1. DoorOf(c) /\ Published(c) /\ call[c].pc = "flush"
        BY <1>10 DEF Flush, SerialInv, At
      <3>2. /\ call'[c].pc = "prune" /\ call'[c].door = call[c].door
            /\ call'[c].todo = call[c].todo /\ Pkg(c)' = Pkg(c)
        BY <2>1, GotoFields
      <3> QED BY <2>1, <3>1, <3>2 DEF DoorOf, ReadsHold, Published, Judging, At, Runtime
    <2>3. FloorKept'
      BY <2>1 DEF SerialInv, FloorKept, history, TreeOK
    <2> QED BY <2>2, <2>3, SerialCaller
  <1>11. ASSUME NEW c \in Callers, Prune(c) PROVE SerialInv'
    <2>1. ~At(c, "idle") /\ Pkg(c).doc.epoch \in Nat
      BY <1>11, PackageOfCall DEF Prune, At
    <2>2. kept = {live} /\ Pkg(c).doc.epoch = EpochOf(live)
      BY <1>11 DEF Prune, SerialInv, Published, At, EpochOf
    <2> QED BY <1>11, <2>1, <2>2, AcceptKeeps DEF Prune
  <1>12. ASSUME NEW c \in Callers, Fault(c) PROVE SerialInv'
    BY <1>12, RefuseKeeps DEF Fault
  <1>13. ASSUME NEW c \in Callers, Kill(c) PROVE SerialInv'
    <2>1. call'[c].pc = "idle"
      BY <1>13 DEF Kill, CallsOK, Idle
    <2>2. FloorKept'
      BY <1>13 DEF Kill, SerialInv, FloorKept, history, tree
    <2> QED BY <2>1, <2>2, AtRest
  <1>14. ASSUME PowerLoss PROVE SerialInv'
    <2>1. FloorKept'
      BY <1>14 DEF PowerLoss, Register!PowerLoss, SerialInv, FloorKept, history
    <2>2. \A c \in Callers : call'[c].pc = "idle"
      BY <1>14 DEF PowerLoss, Idle
    <2>3. CASE Callers = {}
      BY <2>1, <2>3 DEF SerialInv
    <2>4. CASE Callers # {}
      BY <2>1, <2>2, <2>4, AtRest
    <2> QED BY <2>3, <2>4
  <1>15. CASE UNCHANGED vars
    <2>1. UNCHANGED <<live, kept, call, promised>>
      BY <1>15 DEF vars, tree, history
    <2> QED BY <2>1 DEF SerialInv, DoorOf, ReadsHold, Published, FloorKept, Judging, Judged, At, Pkg,
         EpochOf
  <1> QED BY <1>1, <1>2, <1>3, <1>4, <1>5, <1>6, <1>7, <1>8, <1>9, <1>10, <1>11, <1>12, <1>13,
            <1>14, <1>15 DEF Next, Step

\* Serialized doors hold their invariant in every reachable state.
LEMMA SerialInvariance == Serial => (Spec => [](TypeOK /\ SerialInv))
  <1> SUFFICES ASSUME Serial PROVE Spec => [](TypeOK /\ SerialInv)
    OBVIOUS
  <1>1. Init => SerialInv
    BY DEF Init, SerialInv, DoorOf, ReadsHold, Published, FloorKept, Judging, At, Idle,
       Register!Init, Register!Nothing, EpochOf
  <1>2. TypeOK /\ SerialInv /\ [Next]_vars => SerialInv'
    BY SerialStep
  <1> QED BY <1>1, <1>2, TypeCorrect, PTL DEF Spec

\* Where calls do not overlap, an epoch that a call reported as activated is
\* never lost: the record that carries it is flushed before it is reported,
\* and every later swap is above it (install_generation, accept_generation).
THEOREM FloorSurvives == Serial => (Spec => []ChangedFloorSurvives)
  <1>1. TypeOK /\ SerialInv => ChangedFloorSurvives
    BY DEF TypeOK, SerialInv, FloorKept, ChangedFloorSurvives
  <1> QED BY <1>1, SerialInvariance, PTL

\* The swap that a step makes, and whose.
LEMMA InstallingStep ==
  ASSUME Serial, TypeOK, SerialInv, [Next]_vars, NEW c \in Callers, Installing(c)
  PROVE  Swap(c) /\ live'.mat = Pkg(c) /\ EpochOf(live') = Pkg(c).doc.epoch
  <1>0. call[c].pc = "swap" /\ live.at \in Nat /\ live'.at > live.at
    BY DEF Installing, At, TypeOK, Entries
  <1>1. kept = {live}
    BY <1>0 DEF SerialInv, Published
  <1>2. ~ UNCHANGED tree /\ ~Register!Commit /\ ~PowerLoss
    BY <1>0, <1>1 DEF tree, Register!Commit, PowerLoss, Register!PowerLoss
  <1>3. Swap(c)
    BY <1>2, TreeSteps DEF Serial
  <1>4. PICK n \in 1..MaxGen : Register!Install(n, Pkg(c))
    BY <1>3 DEF Swap
  <1>5. live' = [at |-> n, mat |-> Pkg(c)] /\ n # 0
    BY <1>4 DEF Register!Install
  <1> QED BY <1>3, <1>5 DEF EpochOf
\* Where calls do not overlap, every swap is earned at the moment it is made:
\* by a higher epoch, by the keys, the withdrawals and the format floor of the
\* generation it supersedes, or by the host's pin (accept_generation,
\* rebootstrap_generation, admit_onto_empty_tree).
THEOREM SwapsAreEarned == Serial => (Spec => SwapIsEarned)
  <1> SUFFICES ASSUME Serial PROVE Spec => SwapIsEarned
    OBVIOUS
  <1> DEFINE doc == live.mat.doc
             p == live'.mat
             vouched == \A alg \in Algorithms : \E a \in LiveAnchors(doc, alg) : a.key = p.sig[alg]
             Earned(c) ==
               /\ call[c].door \in {"accept", "chain", "rebootstrap"} => EpochOf(live') > EpochOf(live)
               /\ call[c].door \in {"accept", "chain"} =>
                    /\ vouched /\ <<p.component, p.version, p.commit>> \notin doc.withdrawn
                    /\ p.format >= doc.minFormat
               /\ (live.at # 0 /\ call[c].door # "replace") =>
                    vouched \/ (call[c].door = "rebootstrap"
                                /\ (RequirePin => call[c].pin = p.doc.digest))
  <1>1. ASSUME TypeOK, SerialInv, [Next]_vars, NEW c \in Callers, Installing(c)
        PROVE  Earned(c)
    <2>1. Swap(c) /\ p = Pkg(c) /\ EpochOf(live') = Pkg(c).doc.epoch
      BY <1>1, InstallingStep
    <2>2. At(c, "swap")
      BY <2>1 DEF Swap
    <2>3. Judged(c) /\ ReadsHold(c) /\ call[c].door \in AllDoors
      BY <1>1, <2>2 DEF SerialInv, ReadsHold, DoorOf, At
    <2>4. TreeOK /\ CallsOK
      BY <1>1, TypeParts
    <2>5. Pkg(c) \in Packages /\ call[c].epoch \in Nat
      BY <2>2, <2>4, PackageOfCall DEF CallsOK, CallRecords, At
    <2>6. CASE call[c].door \in Runtime
      <3>1. /\ live.at # 0 /\ call[c].base = live.mat
            /\ JudgeAccept(Pkg(c), doc, call[c].epoch) /\ call[c].epoch = EpochOf(live)
        BY <2>2, <2>3, <2>6 DEF ReadsHold, Judged, Judging, At, Runtime
      <3>2. doc.minFormat \in Nat
        BY <2>4, <3>1, DoorsAssumption DEF TreeOK, Entries
      <3> HIDE DEF doc
      <3>3. /\ Pkg(c).doc.epoch > call[c].epoch
            /\ \A alg \in Algorithms : \E a \in LiveAnchors(doc, alg) : a.key = Pkg(c).sig[alg]
            /\ <<Pkg(c).component, Pkg(c).version, Pkg(c).commit>> \notin doc.withdrawn
            /\ Pkg(c).format >= doc.minFormat
        BY <2>5, <3>1, <3>2, AcceptedPackage
      <3> QED BY <2>1, <3>1, <3>3
    <2>7. CASE call[c].door = "rebootstrap"
      <3>1. /\ JudgeRebootstrap(Pkg(c), call[c].epoch, call[c].asserted, call[c].pin)
            /\ call[c].epoch = EpochOf(live)
        BY <2>2, <2>3, <2>7 DEF ReadsHold, Judged, Judging, At, Runtime
      <3>2. Pkg(c).doc.epoch > EpochOf(live) /\ (RequirePin => call[c].pin = Pkg(c).doc.digest)
        BY <3>1 DEF JudgeRebootstrap, CheckFingerprintPin
      <3> QED BY <2>1, <2>7, <3>2
    <2>8. CASE call[c].door \in {"seed", "join"}
      <3>1. live.at = 0
        BY <2>2, <2>3, <2>8 DEF ReadsHold, Judging, At
      <3> QED BY <2>8, <3>1
    <2>9. CASE call[c].door = "replace"
      BY <2>9
    <2> QED BY <2>3, <2>6, <2>7, <2>8, <2>9 DEF AllDoors, Runtime
  <1>2. TypeOK /\ SerialInv /\ [Next]_vars =>
          [\A c \in Callers : Installing(c) => Earned(c)]_vars
    BY <1>1
  <1> QED BY <1>2, SerialInvariance, PTL DEF Spec, SwapIsEarned
-----------------------------------------------------------------------------
(* The files a container travels in *)

\* What the bytes of a file are read as: the magic, a version, a u64, anything.
Alphabet(symbols) ==
    /\ Magic \in symbols /\ \A v \in KnownVersions : VersionByte(v) \in symbols
    /\ \A n \in 0..MaxU64 : U64(n) \in symbols
    /\ \A s \in symbols : s[1] = "u64" => s = U64(s[2]) /\ s[2] \in 0..MaxU64

\* No file is longer than a u64 counts, and no manifest is empty.
FilesOver(symbols) == {f \in Seq(symbols) : Len(f) <= MaxU64}
BlockLists(symbols) == {b \in [Blocks -> Seq(symbols)] : b[1] # <<>>}
FooterFields == [1..FieldsOf(FORMAT_VERSION) -> 0..MaxU64]

TravelInit(symbols) ==
    /\ file \in FilesOver(symbols)
    /\ \/ parts = Unaccounted
       \/ \E base \in Seq(symbols), blocks \in BlockLists(symbols) :
             LET w == AppendTrailer(base, blocks)
             IN w.how = "ok" /\ file = w.file /\ parts = Written(base, blocks)
       \/ \E v \in KnownVersions \ SupportedVersions, front \in Seq(symbols), f \in FooterFields :
             file = front \o Encode(v, f) /\ parts = Retired
TravelNext(symbols) ==
    /\ \/ \E base \in Seq(symbols) : Graft(base)
       \/ \E blocks \in BlockLists(symbols) : Stack(blocks)
       \/ Strip
       \/ \E i \in 1..Len(file), s \in symbols : Alter(i, s)
       \/ \E n \in 0..Len(file) : Cut(n)
    /\ Len(file') <= MaxU64
TravelSpec(symbols) == TravelInit(symbols) /\ [][TravelNext(symbols)]_fileVars
-----------------------------------------------------------------------------
(* Sequences *)

\* m stands in s behind its first at elements.
Sits(s, at, m) == at + Len(m) <= Len(s) /\ \A i \in 1..Len(m) : s[at + i] = m[i]

LEMMA SitsInConcat ==
    ASSUME NEW S, NEW s \in Seq(S), NEW t \in Seq(S)
    PROVE  /\ s \o t \in Seq(S) /\ Len(s \o t) = Len(s) + Len(t)
           /\ Sits(s \o t, 0, s) /\ Sits(s \o t, Len(s), t)
  <1>1. /\ s \o t \in Seq(S)
        /\ Len(s \o t) = Len(s) + Len(t)
        /\ \A i \in 1 .. Len(s) + Len(t) : (s \o t)[i] = IF i <= Len(s) THEN s[i] ELSE t[i - Len(s)]
    BY ConcatProperties
  <1> QED BY <1>1 DEF Sits

LEMMA SitsWithin ==
    ASSUME NEW S, NEW s \in Seq(S), NEW m \in Seq(S), NEW b \in Seq(S), NEW at \in Nat, NEW j \in Nat,
           Sits(s, at, m), Sits(m, j, b)
    PROVE  Sits(s, at + j, b)
  <1> SUFFICES ASSUME NEW i \in 1..Len(b) PROVE s[(at + j) + i] = b[i]
    BY DEF Sits
  <1>1. j + i \in 1..Len(m) /\ m[j + i] = b[i]
    BY DEF Sits
  <1>2. s[at + (j + i)] = m[j + i]
    BY <1>1 DEF Sits
  <1>3. at + (j + i) = (at + j) + i
    OBVIOUS
  <1> QED BY <1>1, <1>2, <1>3

LEMMA SubSeqSits ==
    ASSUME NEW S, NEW s \in Seq(S), NEW m \in Seq(S), NEW at \in Nat, Sits(s, at, m)
    PROVE  SubSeq(s, at + 1, at + Len(m)) = m
  <1> DEFINE r == SubSeq(s, at + 1, at + Len(m))
  <1>0. at + 1 \in Int /\ at + Len(m) \in Int
    OBVIOUS
  <1>1. \A i \in (at + 1)..(at + Len(m)) : s[i] \in S
    BY DEF Sits
  <1>2. /\ r \in Seq(S)
        /\ Len(r) = IF at + 1 <= at + Len(m) THEN at + Len(m) - (at + 1) + 1 ELSE 0
        /\ \A i \in 1..(at + Len(m) - (at + 1) + 1) : r[i] = s[at + 1 + i - 1]
    BY ONLY <1>0, <1>1, SubSeqProperties, SMTT(30)
  <1>3. Len(m) \in Nat
    OBVIOUS
  <1>4. Len(r) = Len(m)
    BY <1>2, <1>3
  <1>5. ASSUME NEW i \in 1..Len(m) PROVE r[i] = m[i]
    <2>1. r[i] = s[at + 1 + i - 1] /\ at + 1 + i - 1 = at + i
      BY <1>2, <1>3
    <2> QED BY <2>1 DEF Sits
  <1> HIDE DEF r
  <1>6. r = m
    BY <1>2, <1>4, <1>5, SeqEqual
  <1> QED BY <1>6 DEF r

-----------------------------------------------------------------------------
(* The footer a file ends in *)

LEMMA Tags ==
    /\ Magic = <<"magic", 0>> /\ Magic[1] = "magic"
    /\ \A n : Magic # U64(n) /\ U64(n)[1] = "u64" /\ U64(n)[2] = n
    /\ \A v : Magic # VersionByte(v)
    /\ \A v, w : VersionByte(v) = VersionByte(w) => v = w
  BY DEF Magic, U64, VersionByte

LEMMA Sizes ==
    /\ FieldsOf(1) = 4 /\ FieldsOf(2) = 8 /\ FieldsOf(3) = 12
    /\ FooterSize(1) = 6 /\ FooterSize(2) = 10 /\ FooterSize(3) = 14
    /\ KnownVersions = {1, 2, 3} /\ FORMAT_VERSION = 3 /\ SupportedVersions = {3}
    /\ Blocks = {1, 2, 3, 4, 5, 6}
  BY DEF FieldsOf, FooterSize, KnownVersions, FORMAT_VERSION, SupportedVersions, Blocks

LEMMA EncodeIs ==
    ASSUME NEW symbols, Alphabet(symbols), NEW v \in KnownVersions, NEW f,
           \A i \in 1..FieldsOf(v) : f[i] \in 0..MaxU64
    PROVE  /\ Encode(v, f) \in Seq(symbols) /\ Len(Encode(v, f)) = FooterSize(v)
           /\ Encode(v, f)[1] = Magic /\ Encode(v, f)[2] = VersionByte(v)
           /\ \A i \in 1..FieldsOf(v) : Encode(v, f)[2 + i] = U64(f[i])
  <1> DEFINE h == <<Magic, VersionByte(v)>>
             g == [i \in 1..FieldsOf(v) |-> U64(f[i])]
  <1>1. FieldsOf(v) \in Nat /\ FooterSize(v) = 2 + FieldsOf(v)
    BY DEF FieldsOf, FooterSize, KnownVersions
  <1>2. h \in Seq(symbols) /\ Len(h) = 2 /\ h[1] = Magic /\ h[2] = VersionByte(v)
    BY DEF Alphabet
  <1>3. \A i \in 1..FieldsOf(v) : U64(f[i]) \in symbols
    BY DEF Alphabet
  <1>4. g \in Seq(symbols) /\ Len(g) = FieldsOf(v) /\ \A i \in 1..FieldsOf(v) : g[i] = U64(f[i])
    BY <1>1, <1>3
  <1>5. Encode(v, f) = h \o g
    BY DEF Encode
  <1> HIDE DEF h, g
  <1>6. /\ h \o g \in Seq(symbols) /\ Len(h \o g) = Len(h) + Len(g)
        /\ \A i \in 1 .. Len(h) + Len(g) : (h \o g)[i] = IF i <= Len(h) THEN h[i] ELSE g[i - Len(h)]
    BY <1>2, <1>4, ConcatProperties
  <1>7. (h \o g)[1] = Magic /\ (h \o g)[2] = VersionByte(v)
    BY <1>1, <1>2, <1>4, <1>6
  <1>8. ASSUME NEW i \in 1..FieldsOf(v) PROVE (h \o g)[2 + i] = U64(f[i])
    <2>1. 2 + i \in 1..(Len(h) + Len(g)) /\ ~(2 + i <= Len(h)) /\ 2 + i - Len(h) = i
      BY <1>1, <1>2, <1>4
    <2> QED BY <2>1, <1>6, <1>4
  <1> QED BY <1>1, <1>2, <1>4, <1>5, <1>6, <1>7, <1>8

\* locate_footer, one size at a time.
LEMMA LocateIs ==
    ASSUME NEW f
    PROVE  /\ LocateFooter(f) = "found" <=>
                 /\ ClassifyCandidate(f, 3) = "Selected"
                 /\ \A v \in {1, 2} : ClassifyCandidate(f, v) # "Retired"
           /\ (\E v \in {1, 2} : ClassifyCandidate(f, v) = "Retired")
                 => LocateFooter(f) = "UnsupportedContainerFormat"
           /\ LocateFooter(f) \in {"found", "UnsupportedContainerFormat", "NoTrailer"}
  <1> DEFINE kinds == [v \in KnownVersions |-> ClassifyCandidate(f, v)]
             stops == {v \in KnownVersions : kinds[v] \in {"Selected", "Retired"}}
             c == CHOOSE v \in stops : \A w \in stops : v <= w
  <1>1. \A v \in KnownVersions : kinds[v] = ClassifyCandidate(f, v)
    OBVIOUS
  <1>2. \A v \in KnownVersions : /\ kinds[v] = "Selected" => v = 3
                                 /\ kinds[v] = "Retired" => v \in {1, 2}
    BY <1>1, Sizes DEF ClassifyCandidate
  <1>3. stops # {} => c \in stops /\ \A w \in stops : c <= w
    <2>1. stops # {} => \E v \in stops : \A w \in stops : v <= w
      BY Sizes
    <2> QED BY <2>1
  <1>4. LocateFooter(f) =
          IF stops # {} THEN IF kinds[c] = "Selected" THEN "found" ELSE "UnsupportedContainerFormat"
          ELSE IF \E v \in KnownVersions : kinds[v] = "Unknown" THEN "UnsupportedContainerFormat"
          ELSE "NoTrailer"
    BY DEF LocateFooter
  <1>5. /\ 1 \in stops <=> kinds[1] = "Retired"
        /\ 2 \in stops <=> kinds[2] = "Retired"
        /\ 3 \in stops <=> kinds[3] = "Selected"
        /\ stops \subseteq {1, 2, 3}
    BY <1>2, Sizes
  <1>6. kinds[1] = ClassifyCandidate(f, 1) /\ kinds[2] = ClassifyCandidate(f, 2) /\ kinds[3] = ClassifyCandidate(f, 3)
    BY <1>1, Sizes
  <1>7. c \in stops => (c = 3 <=> kinds[c] = "Selected")
    BY <1>2, <1>5
  <1> HIDE DEF kinds, stops, c
  <1>8. CASE kinds[1] = "Retired" \/ kinds[2] = "Retired"
    <2>1. PICK w \in stops : w \in {1, 2}
      BY <1>8, <1>5
    <2>2. c \in {1, 2, 3} /\ c <= w
      BY <2>1, <1>3, <1>5
    <2>3. c # 3
      BY <2>1, <2>2
    <2> QED BY <2>1, <2>2, <2>3, <1>3, <1>4, <1>6, <1>7, <1>8
  <1>9. CASE kinds[1] # "Retired" /\ kinds[2] # "Retired"
    BY <1>9, <1>3, <1>4, <1>5, <1>6, <1>7
  <1> QED BY <1>8, <1>9

\* g ends in a footer of that version behind front.
Footed(symbols, g, front, v, f) ==
    /\ Alphabet(symbols) /\ front \in Seq(symbols) /\ v \in KnownVersions
    /\ \A i \in 1..FieldsOf(v) : f[i] \in 0..MaxU64
    /\ g = front \o Encode(v, f)

LEMMA EndsInFooter ==
    ASSUME NEW symbols, NEW g, NEW front, NEW v, NEW f, Footed(symbols, g, front, v, f)
    PROVE  /\ g \in Seq(symbols) /\ Len(g) = Len(front) + FooterSize(v)
           /\ g[Len(front) + 1] = Magic /\ g[Len(front) + 2] = VersionByte(v)
           /\ \A i \in 1..FieldsOf(v) : g[Len(front) + 2 + i] = U64(f[i])
           /\ SubSeq(g, Len(front) + 1, Len(g)) = Encode(v, f)
           /\ CandidateStart(g, v) = Len(front)
  <1> DEFINE e == Encode(v, f)
  <1> USE DEF Footed
  <1>1. /\ e \in Seq(symbols) /\ Len(e) = FooterSize(v) /\ e[1] = Magic /\ e[2] = VersionByte(v)
        /\ \A i \in 1..FieldsOf(v) : e[2 + i] = U64(f[i])
    BY EncodeIs
  <1>2. g = front \o e
    OBVIOUS
  <1>3. FooterSize(v) = 2 + FieldsOf(v) /\ FieldsOf(v) \in Nat /\ Len(front) \in Nat
    BY DEF FooterSize, FieldsOf, KnownVersions
  <1> HIDE DEF e
  <1>4. g \in Seq(symbols) /\ Len(g) = Len(front) + Len(e) /\ Sits(g, Len(front), e)
    BY <1>1, <1>2, SitsInConcat
  <1>5. \A i \in 1..Len(e) : g[Len(front) + i] = e[i]
    BY <1>4 DEF Sits
  <1>6. g[Len(front) + 1] = Magic /\ g[Len(front) + 2] = VersionByte(v)
    <2>1. 1 \in 1..Len(e) /\ 2 \in 1..Len(e)
      BY <1>1, <1>3
    <2> QED BY <2>1, <1>1, <1>5
  <1>7. ASSUME NEW i \in 1..FieldsOf(v) PROVE g[Len(front) + 2 + i] = U64(f[i])
    <2>1. 2 + i \in 1..Len(e) /\ Len(front) + (2 + i) = Len(front) + 2 + i
      BY <1>1, <1>3
    <2> QED BY <2>1, <1>1, <1>5
  <1>8. SubSeq(g, Len(front) + 1, Len(front) + Len(e)) = e
    BY <1>1, <1>3, <1>4, SubSeqSits
  <1>9. CandidateStart(g, v) = Len(front)
    BY <1>1, <1>3, <1>4 DEF CandidateStart
  <1> QED BY <1>1, <1>4, <1>6, <1>7, <1>8, <1>9 DEF e

\* The sizes of the older versions fall on a field of a footer.
LEMMA ClassifyIs ==
    ASSUME NEW symbols, NEW g, NEW front, NEW v, NEW f, Footed(symbols, g, front, v, f)
    PROVE  /\ ClassifyCandidate(g, v) = IF v = 3 THEN "Selected" ELSE "Retired"
           /\ \A w \in KnownVersions : w < v => ClassifyCandidate(g, w) = "NoMagic"
  <1>1. /\ Len(g) = Len(front) + FooterSize(v)
        /\ g[Len(front) + 1] = Magic /\ g[Len(front) + 2] = VersionByte(v)
        /\ \A i \in 1..FieldsOf(v) : g[Len(front) + 2 + i] = U64(f[i])
        /\ CandidateStart(g, v) = Len(front)
    BY EndsInFooter
  <1>2. Len(front) \in Nat /\ v \in KnownVersions
    BY DEF Footed
  <1>3. ClassifyCandidate(g, v) = IF v = 3 THEN "Selected" ELSE "Retired"
    BY <1>1, <1>2, Sizes DEF ClassifyCandidate
  <1>4. ASSUME NEW w \in KnownVersions, w < v PROVE ClassifyCandidate(g, w) = "NoMagic"
    <2> DEFINE i == 4 * (v - w) - 1
    <2>1. /\ CandidateStart(g, w) >= 0 /\ CandidateStart(g, w) + 1 = Len(front) + 2 + i
          /\ i \in 1..FieldsOf(v)
      BY <1>1, <1>2, <1>4 DEF CandidateStart, FooterSize, FieldsOf, KnownVersions
    <2>2. g[CandidateStart(g, w) + 1] = U64(f[i])
      BY <2>1, <1>1
    <2>3. g[CandidateStart(g, w) + 1] # Magic
      BY <2>2, Tags
    <2>4. ~(CandidateStart(g, w) < 0)
      BY <2>1, <1>1, <1>2 DEF CandidateStart, FooterSize, FieldsOf, KnownVersions
    <2> QED BY <2>3, <2>4 DEF ClassifyCandidate
  <1> QED BY <1>3, <1>4

\* A footer is read back.
LEMMA FooterReads ==
    ASSUME NEW symbols, Alphabet(symbols), NEW front \in Seq(symbols), NEW f \in FooterFields,
           NEW g, g = front \o Encode(FORMAT_VERSION, f)
    PROVE  /\ g \in Seq(symbols) /\ Len(g) = Len(front) + 14
           /\ LocateFooter(g) = "found" /\ FooterStart(g) = Len(front) /\ FooterOf(g) = f
           /\ SubSeq(g, FooterStart(g) + 1, Len(g)) = Encode(FORMAT_VERSION, f)
  <1>0. FORMAT_VERSION = 3 /\ 3 \in KnownVersions /\ FieldsOf(3) = 12 /\ f \in [1..12 -> 0..MaxU64]
    BY Sizes DEF FooterFields
  <1>1. Footed(symbols, g, front, 3, f)
    BY <1>0 DEF Footed
  <1>2. /\ g \in Seq(symbols) /\ Len(g) = Len(front) + FooterSize(3)
        /\ \A i \in 1..FieldsOf(3) : g[Len(front) + 2 + i] = U64(f[i])
        /\ SubSeq(g, Len(front) + 1, Len(g)) = Encode(3, f)
        /\ CandidateStart(g, 3) = Len(front)
    BY ONLY <1>1, EndsInFooter
  <1>3. ClassifyCandidate(g, 3) = "Selected" /\ \A w \in KnownVersions : w < 3 => ClassifyCandidate(g, w) = "NoMagic"
    BY <1>0, <1>1, ClassifyIs
  <1>4. LocateFooter(g) = "found"
    BY <1>3, LocateIs, Sizes
  <1>5. FooterStart(g) = Len(front)
    BY <1>2, <1>0 DEF FooterStart
  <1>6. ASSUME NEW i \in 1..12 PROVE FieldOf(g[FooterStart(g) + 2 + i]) = f[i]
    <2>1. g[FooterStart(g) + 2 + i] = U64(f[i])
      BY <1>0, <1>2, <1>5
    <2> QED BY <2>1, Tags DEF FieldOf
  <1>7. FooterOf(g) = [i \in 1..12 |-> f[i]]
    BY <1>0, <1>6 DEF FooterOf
  <1>8. FooterOf(g) = f
    BY <1>0, <1>7
  <1> QED BY <1>0, <1>2, <1>4, <1>5, <1>8, Sizes

\* A retired footer is not taken for none.
LEMMA RetiredReads ==
    ASSUME NEW symbols, Alphabet(symbols), NEW v \in KnownVersions \ SupportedVersions,
           NEW front \in Seq(symbols), NEW f \in FooterFields, NEW g, g = front \o Encode(v, f)
    PROVE  g \in Seq(symbols) /\ LocateFooter(g) = "UnsupportedContainerFormat"
  <1>1. v \in {1, 2} /\ Footed(symbols, g, front, v, f)
    BY Sizes DEF FooterFields, Footed
  <1>2. ClassifyCandidate(g, v) = "Retired"
    BY <1>1, ClassifyIs
  <1>3. g \in Seq(symbols)
    BY <1>1, EndsInFooter
  <1> QED BY <1>1, <1>2, <1>3, LocateIs

\* The fields of what a file ends in are u64s.
LEMMA FooterOfIs ==
    ASSUME NEW symbols, Alphabet(symbols), NEW g \in Seq(symbols), Len(g) >= 14
    PROVE  /\ FooterStart(g) \in Nat /\ Len(g) = FooterStart(g) + 14 /\ FooterOf(g) \in FooterFields
           /\ \A i \in 1..12 : FooterOf(g)[i] < MaxU64 => g[FooterStart(g) + 2 + i] = U64(FooterOf(g)[i])
  <1>1. FooterStart(g) \in Nat /\ Len(g) = FooterStart(g) + 14
    BY Sizes DEF FooterStart, CandidateStart
  <1>2. ASSUME NEW i \in 1..12
        PROVE  /\ FooterOf(g)[i] \in 0..MaxU64
               /\ FooterOf(g)[i] < MaxU64 => g[FooterStart(g) + 2 + i] = U64(FooterOf(g)[i])
    <2> DEFINE s == g[FooterStart(g) + 2 + i]
    <2>1. FooterStart(g) + 2 + i \in 1..Len(g)
      BY <1>1
    <2>2. s \in symbols
      BY <2>1, ElementOfSeq
    <2>3. FooterOf(g)[i] = FieldOf(s)
      BY Sizes DEF FooterOf
    <2>4. s[1] = "u64" => s = U64(s[2]) /\ s[2] \in 0..MaxU64
      BY <2>2 DEF Alphabet
    <2>5. MaxU64 \in Nat
      BY ContainerAssumption
    <2> HIDE DEF s
    <2>6. s[1] # "u64" => FooterOf(g)[i] = MaxU64
      BY <2>3 DEF FieldOf
    <2>7. s[1] = "u64" => FooterOf(g)[i] = s[2]
      BY <2>3 DEF FieldOf
    <2>8. FooterOf(g)[i] \in 0..MaxU64 /\ (FooterOf(g)[i] < MaxU64 => s = U64(FooterOf(g)[i]))
      BY <2>4, <2>5, <2>6, <2>7
    <2> QED BY <2>8 DEF s
  <1>3. FooterOf(g) \in FooterFields
    BY <1>2, Sizes DEF FooterOf, FooterFields
  <1> QED BY <1>1, <1>2, <1>3

\* A located footer starts with the magic and its version.
LEMMA FoundIs ==
    ASSUME NEW symbols, Alphabet(symbols), NEW g \in Seq(symbols), LocateFooter(g) = "found"
    PROVE  Len(g) >= 14 /\ g[FooterStart(g) + 1] = Magic /\ g[FooterStart(g) + 2] = VersionByte(3)
  <1>1. ClassifyCandidate(g, 3) = "Selected"
    BY LocateIs
  <1>2. FooterStart(g) = CandidateStart(g, 3) /\ CandidateStart(g, 3) = Len(g) - 14 /\ Len(g) \in Nat
    BY Sizes DEF FooterStart, CandidateStart
  <1> QED BY <1>1, <1>2 DEF ClassifyCandidate

-----------------------------------------------------------------------------
(* The footers validate_footer takes *)

\* The lengths of the blocks before the k-th.
LengthBefore(lens, k) ==
    (IF k > 1 THEN lens[1] ELSE 0) + (IF k > 2 THEN lens[2] ELSE 0) + (IF k > 3 THEN lens[3] ELSE 0)
    + (IF k > 4 THEN lens[4] ELSE 0) + (IF k > 5 THEN lens[5] ELSE 0) + (IF k > 6 THEN lens[6] ELSE 0)

\* The last block before the k-th that is present ends at e.
EndsBefore(f, k, e) ==
    \E j \in Present(f) : j < k /\ (\A i \in Present(f) : i < k => i <= j) /\ End(f, j) = e

Lengths(f) == [k \in Blocks |-> Length(f, k)]

LEMMA FieldsAre ==
    ASSUME NEW f \in FooterFields
    PROVE  /\ \A k \in Blocks : /\ Offset(f, k) = f[2 * k - 1] /\ Length(f, k) = f[2 * k]
                                /\ Offset(f, k) \in 0..MaxU64 /\ Length(f, k) \in 0..MaxU64
                                /\ End(f, k) = Offset(f, k) + Length(f, k)
                                /\ Lengths(f)[k] = Length(f, k)
           /\ Lengths(f) \in [Blocks -> 0..MaxU64]
           /\ MaxU64 \in Nat
  <1>1. \A k \in Blocks : 2 * k - 1 \in 1..12 /\ 2 * k \in 1..12
    BY DEF Blocks
  <1>2. \A i \in 1..12 : f[i] \in 0..MaxU64
    BY Sizes DEF FooterFields
  <1> QED BY <1>1, <1>2, ContainerAssumption DEF Offset, Length, End, Lengths

LEMMA BeforeIs ==
    ASSUME NEW lens \in [Blocks -> Nat]
    PROVE  /\ LengthBefore(lens, 1) = 0 /\ LengthBefore(lens, 2) = lens[1]
           /\ \A k \in Blocks : /\ LengthBefore(lens, k) \in Nat /\ LengthBefore(lens, k + 1) = LengthBefore(lens, k) + lens[k]
                                /\ LengthBefore(lens, k + 1) <= LengthBefore(lens, 7)
           /\ LengthBefore(lens, 7) = lens[1] + lens[2] + lens[3] + lens[4] + lens[5] + lens[6]
           /\ LengthBefore(lens, 7) \in Nat
  <1>1. lens[1] \in Nat /\ lens[2] \in Nat /\ lens[3] \in Nat /\ lens[4] \in Nat /\ lens[5] \in Nat /\ lens[6] \in Nat
    BY DEF Blocks
  <1> QED BY <1>1 DEF LengthBefore, Blocks

LEMMA FooterForIs ==
    ASSUME NEW base \in Nat, NEW lens \in [Blocks -> Nat]
    PROVE  /\ FooterFor(base, lens) \in [1..12 -> Nat]
           /\ \A k \in Blocks :
                /\ Length(FooterFor(base, lens), k) = lens[k]
                /\ Offset(FooterFor(base, lens), k) =
                     IF k > 2 /\ lens[k] = 0 THEN 0 ELSE base + LengthBefore(lens, k)
  <1> DEFINE at(k) == base + (IF k > 1 THEN lens[1] ELSE 0) + (IF k > 2 THEN lens[2] ELSE 0)
                       + (IF k > 3 THEN lens[3] ELSE 0) + (IF k > 4 THEN lens[4] ELSE 0)
                       + (IF k > 5 THEN lens[5] ELSE 0)
             field(i, k) == IF k > 2 /\ lens[k] = 0 THEN 0 ELSE IF i % 2 = 0 THEN lens[k] ELSE at(k)
             ff == [i \in 1..12 |-> field(i, (i + 1) \div 2)]
  <1>1. FooterFor(base, lens) = ff
    BY DEF FooterFor
  <1>2. lens[1] \in Nat /\ lens[2] \in Nat /\ lens[3] \in Nat /\ lens[4] \in Nat /\ lens[5] \in Nat /\ lens[6] \in Nat
    BY DEF Blocks
  <1>3. \A k \in Blocks : lens[k] \in Nat /\ at(k) \in Nat /\ at(k) = base + LengthBefore(lens, k)
    BY <1>2 DEF LengthBefore, Blocks
  <1> HIDE DEF at
  <1>4. \A i \in 1..12 : (i + 1) \div 2 \in Blocks
    BY DEF Blocks
  <1>5. \A i \in 1..12 : field(i, (i + 1) \div 2) \in Nat
    BY <1>3, <1>4
  <1>6. \A k \in Blocks : /\ 2 * k \in 1..12 /\ (2 * k + 1) \div 2 = k /\ (2 * k) % 2 = 0
                          /\ 2 * k - 1 \in 1..12 /\ (2 * k - 1 + 1) \div 2 = k /\ (2 * k - 1) % 2 = 1
    BY DEF Blocks
  <1>7. ff \in [1..12 -> Nat]
    BY <1>5
  <1>8. ASSUME NEW k \in Blocks PROVE ff[2 * k] = field(2 * k, k) /\ ff[2 * k - 1] = field(2 * k - 1, k)
    BY <1>6
  <1> HIDE DEF ff
  <1>9. ASSUME NEW k \in Blocks
        PROVE  ff[2 * k] = lens[k] /\ ff[2 * k - 1] = IF k > 2 /\ lens[k] = 0 THEN 0 ELSE base + LengthBefore(lens, k)
    BY <1>3, <1>6, <1>8
  <1> QED BY <1>1, <1>7, <1>9 DEF Offset, Length

LEMMA EndsBeforeIs ==
    ASSUME NEW f \in FooterFields, NEW e
    PROVE  /\ EndsBefore(f, 2, End(f, 1))
           /\ \A k \in 2..6 : EndsBefore(f, k, e) =>
                /\ k \in Present(f) => End(f, Preceding(f, k)) = e
                /\ IsAbsent(f, k) => EndsBefore(f, k + 1, e)
                /\ ~IsAbsent(f, k) => EndsBefore(f, k + 1, End(f, k))
           /\ EndsBefore(f, 7, e) => End(f, LastPresent(f)) = e
  <1>0. Present(f) \subseteq {1, 2, 3, 4, 5, 6} /\ \A k \in {1, 2, 3, 4, 5, 6} : k \in Present(f) <=> ~IsAbsent(f, k)
    BY Sizes DEF Present
  <1>1. EndsBefore(f, 2, End(f, 1))
    <2>1. 1 \in Present(f)
      BY <1>0 DEF IsAbsent
    <2> QED BY <1>0, <2>1 DEF EndsBefore
  <1>2. ASSUME NEW k \in 2..6, EndsBefore(f, k, e)
        PROVE  /\ End(f, Preceding(f, k)) = e
               /\ IsAbsent(f, k) => EndsBefore(f, k + 1, e)
               /\ ~IsAbsent(f, k) => EndsBefore(f, k + 1, End(f, k))
    <2>1. PICK j \in Present(f) : j < k /\ (\A i \in Present(f) : i < k => i <= j) /\ End(f, j) = e
      BY <1>2 DEF EndsBefore
    <2>2. Preceding(f, k) = j
      <3>1. /\ Preceding(f, k) \in Present(f) /\ Preceding(f, k) < k
            /\ \A i \in Present(f) : i < k => i <= Preceding(f, k)
        BY <2>1 DEF Preceding
      <3> QED BY <3>1, <2>1, <1>0
    <2>3. IsAbsent(f, k) => EndsBefore(f, k + 1, e)
      <3>1. IsAbsent(f, k) => \A i \in Present(f) : i < k + 1 => i < k
        BY <1>0
      <3> QED BY <3>1, <2>1, <1>0 DEF EndsBefore
    <2>4. ~IsAbsent(f, k) => EndsBefore(f, k + 1, End(f, k))
      <3>1. ~IsAbsent(f, k) => k \in Present(f) /\ k < k + 1 /\ \A i \in Present(f) : i < k + 1 => i <= k
        BY <1>0
      <3> QED BY <3>1 DEF EndsBefore
    <2> QED BY <2>1, <2>2, <2>3, <2>4
  <1>3. ASSUME EndsBefore(f, 7, e) PROVE End(f, LastPresent(f)) = e
    <2>1. PICK j \in Present(f) : (\A i \in Present(f) : i < 7 => i <= j) /\ End(f, j) = e
      BY <1>3 DEF EndsBefore
    <2>2. \A i \in Present(f) : i <= j
      BY <2>1, <1>0
    <2>3. LastPresent(f) \in Present(f) /\ \A i \in Present(f) : i <= LastPresent(f)
      BY <2>2 DEF LastPresent
    <2>4. LastPresent(f) = j
      BY <2>2, <2>3, <1>0
    <2> QED BY <2>1, <2>4
  <1> QED BY <1>1, <1>2, <1>3

\* f is the footer of blocks of its lengths that fill the file up to footAt.
Fills(f, base, footAt) ==
    /\ base \in Nat /\ base + LengthBefore(Lengths(f), 7) = footAt
    /\ \A k \in Blocks : ~HalfZero(f, k)
    /\ \A k \in Blocks : Offset(f, k) =
          IF k > 2 /\ Length(f, k) = 0 THEN 0 ELSE base + LengthBefore(Lengths(f), k)

\* validate_footer takes no other footer.
LEMMA ValidFills ==
    ASSUME NEW f \in FooterFields, NEW footAt \in Nat, ValidateFooter(f, footAt) = "ok"
    PROVE  Fills(f, Offset(f, 1), footAt) /\ \A k \in Blocks : End(f, k) <= footAt
  <1> DEFINE base == Offset(f, 1)
             lens == Lengths(f)
  <1>1. /\ \A k \in Blocks : ~HalfZero(f, k) /\ End(f, k) <= footAt
        /\ \A k \in Present(f) \ {1} : Offset(f, k) = End(f, Preceding(f, k))
        /\ End(f, LastPresent(f)) = footAt
    <2>1. ~(\E k \in Blocks : HalfZero(f, k))
      BY DEF ValidateFooter
    <2>2. ~(\E k \in Blocks : End(f, k) > MaxU64 \/ End(f, k) > footAt)
      BY <2>1 DEF ValidateFooter
    <2>3. ~(\E k \in Present(f) \ {1} : Offset(f, k) # End(f, Preceding(f, k)))
      BY <2>1, <2>2 DEF ValidateFooter
    <2>4. End(f, LastPresent(f)) = footAt
      BY <2>1, <2>2, <2>3 DEF ValidateFooter
    <2>5. \A k \in Blocks : End(f, k) \in Nat
      BY FieldsAre
    <2> QED BY <2>1, <2>2, <2>3, <2>4, <2>5
  <1>2. /\ \A k \in Blocks : /\ Offset(f, k) \in Nat /\ Length(f, k) \in Nat /\ lens[k] = Length(f, k)
                             /\ End(f, k) = Offset(f, k) + Length(f, k)
        /\ lens \in [Blocks -> Nat]
    BY FieldsAre
  <1>3. /\ LengthBefore(lens, 1) = 0 /\ LengthBefore(lens, 2) = lens[1]
        /\ \A k \in Blocks : LengthBefore(lens, k) \in Nat /\ LengthBefore(lens, k + 1) = LengthBefore(lens, k) + lens[k]
    BY <1>2, BeforeIs
  <1>0. base \in Nat
    BY <1>2, Sizes
  <1> HIDE DEF lens, base
  <1>4. EndsBefore(f, 2, base + LengthBefore(lens, 2))
    BY <1>2, <1>3, EndsBeforeIs, Sizes DEF base
  <1>5. ASSUME NEW k \in 2..6, EndsBefore(f, k, base + LengthBefore(lens, k))
        PROVE  /\ EndsBefore(f, k + 1, base + LengthBefore(lens, k + 1))
               /\ Offset(f, k) = IF k > 2 /\ Length(f, k) = 0 THEN 0 ELSE base + LengthBefore(lens, k)
    <2>1. k \in Blocks /\ k # 1
      BY DEF Blocks
    <2>2. CASE IsAbsent(f, k)
      <3>1. lens[k] = 0 /\ Length(f, k) = 0 /\ Offset(f, k) = 0 /\ k > 2
        BY <2>1, <2>2, <1>2 DEF IsAbsent
      <3>2. EndsBefore(f, k + 1, base + LengthBefore(lens, k))
        BY <1>5, <2>2, EndsBeforeIs
      <3>3. LengthBefore(lens, k + 1) = LengthBefore(lens, k)
        BY <3>1, <2>1, <1>3
      <3> QED BY <3>1, <3>2, <3>3
    <2>3. CASE ~IsAbsent(f, k)
      <3>1. k \in Present(f) \ {1}
        BY <2>1, <2>3 DEF Present
      <3>2. Offset(f, k) = base + LengthBefore(lens, k)
        BY <3>1, <1>1, <1>5, EndsBeforeIs
      <3>3. End(f, k) = base + LengthBefore(lens, k + 1)
        BY <3>2, <2>1, <1>0, <1>2, <1>3
      <3>4. EndsBefore(f, k + 1, End(f, k))
        BY <2>3, <1>5, EndsBeforeIs
      <3>5. ~(k > 2 /\ Length(f, k) = 0)
        BY <2>1, <2>3, <1>1 DEF IsAbsent, HalfZero
      <3> QED BY <3>2, <3>3, <3>4, <3>5
    <2> QED BY <2>2, <2>3
  <1>6. EndsBefore(f, 3, base + LengthBefore(lens, 3))
    BY <1>4, <1>5
  <1>7. EndsBefore(f, 4, base + LengthBefore(lens, 4))
    BY <1>6, <1>5
  <1>8. EndsBefore(f, 5, base + LengthBefore(lens, 5))
    BY <1>7, <1>5
  <1>9. EndsBefore(f, 6, base + LengthBefore(lens, 6))
    BY <1>8, <1>5
  <1>10. EndsBefore(f, 7, base + LengthBefore(lens, 7))
    BY <1>9, <1>5
  <1>11. base + LengthBefore(lens, 7) = footAt
    BY <1>10, <1>1, EndsBeforeIs
  <1>12. \A k \in 2..6 : Offset(f, k) = IF k > 2 /\ Length(f, k) = 0 THEN 0 ELSE base + LengthBefore(lens, k)
    <2>1. \A k \in 2..6 : k = 2 \/ k = 3 \/ k = 4 \/ k = 5 \/ k = 6
      OBVIOUS
    <2> QED BY <2>1, <1>4, <1>6, <1>7, <1>8, <1>9, <1>5
  <1>13. \A k \in Blocks : k = 1 \/ k \in 2..6
    BY DEF Blocks
  <1>14. \A k \in Blocks : Offset(f, k) = IF k > 2 /\ Length(f, k) = 0 THEN 0 ELSE base + LengthBefore(lens, k)
    BY <1>0, <1>2, <1>3, <1>12, <1>13 DEF base
  <1> QED BY <1>0, <1>1, <1>11, <1>14 DEF Fills, lens, base

\* And takes every one of them.
LEMMA FillsValid ==
    ASSUME NEW f \in FooterFields, NEW footAt \in 0..MaxU64, NEW base, Fills(f, base, footAt)
    PROVE  ValidateFooter(f, footAt) = "ok"
  <1> DEFINE lens == Lengths(f)
  <1>1. /\ base \in Nat /\ base + LengthBefore(lens, 7) = footAt /\ \A k \in Blocks : ~HalfZero(f, k)
        /\ \A k \in Blocks : Offset(f, k) =
              IF k > 2 /\ Length(f, k) = 0 THEN 0 ELSE base + LengthBefore(lens, k)
    BY DEF Fills
  <1>2. /\ \A k \in Blocks : /\ Offset(f, k) \in Nat /\ Length(f, k) \in Nat /\ lens[k] = Length(f, k)
                             /\ End(f, k) = Offset(f, k) + Length(f, k)
        /\ lens \in [Blocks -> Nat] /\ MaxU64 \in Nat
    BY FieldsAre
  <1>3. /\ LengthBefore(lens, 1) = 0 /\ LengthBefore(lens, 2) = lens[1]
        /\ \A k \in Blocks : /\ LengthBefore(lens, k) \in Nat /\ LengthBefore(lens, k + 1) = LengthBefore(lens, k) + lens[k]
                             /\ LengthBefore(lens, k + 1) <= LengthBefore(lens, 7)
        /\ LengthBefore(lens, 7) \in Nat
    BY <1>2, BeforeIs
  <1> HIDE DEF lens
  <1>4. EndsBefore(f, 2, base + LengthBefore(lens, 2))
    BY <1>1, <1>2, <1>3, EndsBeforeIs, Sizes
  <1>5. ASSUME NEW k \in 2..6, EndsBefore(f, k, base + LengthBefore(lens, k))
        PROVE  /\ EndsBefore(f, k + 1, base + LengthBefore(lens, k + 1))
               /\ k \in Present(f) => Offset(f, k) = End(f, Preceding(f, k))
    <2>1. k \in Blocks /\ k # 1
      BY DEF Blocks
    <2>2. CASE IsAbsent(f, k)
      <3>1. lens[k] = 0
        BY <2>1, <2>2, <1>2 DEF IsAbsent
      <3>2. EndsBefore(f, k + 1, base + LengthBefore(lens, k))
        BY <1>5, <2>2, EndsBeforeIs
      <3>3. LengthBefore(lens, k + 1) = LengthBefore(lens, k)
        BY <3>1, <2>1, <1>3
      <3>4. k \notin Present(f)
        BY <2>2 DEF Present
      <3> QED BY <3>2, <3>3, <3>4
    <2>3. CASE ~IsAbsent(f, k)
      <3>1. k \in Present(f)
        BY <2>1, <2>3 DEF Present
      <3>2. ~(k > 2 /\ Length(f, k) = 0)
        BY <2>1, <2>3, <1>1 DEF IsAbsent, HalfZero
      <3>3. Offset(f, k) = base + LengthBefore(lens, k)
        BY <3>2, <2>1, <1>1
      <3>4. End(f, k) = base + LengthBefore(lens, k + 1)
        BY <3>3, <2>1, <1>1, <1>2, <1>3
      <3>5. EndsBefore(f, k + 1, End(f, k))
        BY <2>3, <1>5, EndsBeforeIs
      <3>6. End(f, Preceding(f, k)) = base + LengthBefore(lens, k)
        BY <3>1, <1>5, EndsBeforeIs
      <3> QED BY <3>3, <3>4, <3>5, <3>6
    <2> QED BY <2>2, <2>3
  <1>6. EndsBefore(f, 3, base + LengthBefore(lens, 3))
    BY <1>4, <1>5
  <1>7. EndsBefore(f, 4, base + LengthBefore(lens, 4))
    BY <1>6, <1>5
  <1>8. EndsBefore(f, 5, base + LengthBefore(lens, 5))
    BY <1>7, <1>5
  <1>9. EndsBefore(f, 6, base + LengthBefore(lens, 6))
    BY <1>8, <1>5
  <1>10. EndsBefore(f, 7, base + LengthBefore(lens, 7))
    BY <1>9, <1>5
  <1>11. End(f, LastPresent(f)) = footAt
    BY <1>10, <1>1, EndsBeforeIs
  <1>12. ASSUME NEW k \in Present(f) \ {1} PROVE Offset(f, k) = End(f, Preceding(f, k))
    <2>1. k = 2 \/ k = 3 \/ k = 4 \/ k = 5 \/ k = 6
      BY Sizes DEF Present
    <2> QED BY <2>1, <1>4, <1>6, <1>7, <1>8, <1>9, <1>5
  <1>13. ASSUME NEW k \in Blocks PROVE ~(End(f, k) > MaxU64 \/ End(f, k) > footAt)
    <2>1. End(f, k) <= footAt
      BY <1>1, <1>2, <1>3
    <2> QED BY <2>1, <1>2
  <1> QED BY <1>1, <1>11, <1>12, <1>13 DEF ValidateFooter

\* What fills a file is what the writers write.
LEMMA FillsIsFooterFor ==
    ASSUME NEW f \in FooterFields, NEW base \in Nat, NEW footAt \in Nat, base + LengthBefore(Lengths(f), 7) = footAt
    PROVE  Fills(f, base, footAt) <=>
              f = FooterFor(base, Lengths(f)) /\ \A k \in 3..6 : Length(f, k) # 0 => Offset(f, k) # 0
  <1> DEFINE lens == Lengths(f)
             ff == FooterFor(base, lens)
  <1>1. /\ \A k \in Blocks : /\ Offset(f, k) = f[2 * k - 1] /\ Length(f, k) = f[2 * k]
                             /\ Offset(f, k) \in Nat /\ Length(f, k) \in Nat /\ lens[k] = Length(f, k)
        /\ lens \in [Blocks -> Nat]
    BY FieldsAre
  <1>2. /\ ff \in [1..12 -> Nat]
        /\ \A k \in Blocks : /\ Length(ff, k) = lens[k]
                             /\ Offset(ff, k) = IF k > 2 /\ lens[k] = 0 THEN 0 ELSE base + LengthBefore(lens, k)
    BY <1>1, FooterForIs
  <1>3. \A k \in Blocks : ff[2 * k - 1] = Offset(ff, k) /\ ff[2 * k] = Length(ff, k)
    BY DEF Offset, Length
  <1>4. f \in [1..12 -> Nat]
    <2>1. f \in [1..12 -> 0..MaxU64] /\ MaxU64 \in Nat
      BY Sizes, ContainerAssumption DEF FooterFields
    <2> QED BY <2>1
  <1> HIDE DEF ff, lens
  <1>5. \A i \in 1..12 : \E k \in Blocks : i = 2 * k - 1 \/ i = 2 * k
    <2>1. \A i \in 1..12 : (i + 1) \div 2 \in Blocks /\ (i = 2 * ((i + 1) \div 2) - 1 \/ i = 2 * ((i + 1) \div 2))
      BY DEF Blocks
    <2> QED BY <2>1
  <1>6. f = ff <=> \A k \in Blocks : Offset(f, k) = Offset(ff, k) /\ Length(f, k) = Length(ff, k)
    <2>1. ASSUME \A k \in Blocks : Offset(f, k) = Offset(ff, k) /\ Length(f, k) = Length(ff, k)
          PROVE  f = ff
      <3>1. \A i \in 1..12 : f[i] = ff[i]
        BY <2>1, <1>1, <1>3, <1>5
      <3> QED BY <3>1, <1>2, <1>4
    <2> QED BY <2>1
  <1>7. \A k \in Blocks : k > 2 <=> k \in 3..6
    BY DEF Blocks
  <1>8. f = ff <=> \A k \in Blocks : Offset(f, k) = IF k > 2 /\ Length(f, k) = 0 THEN 0 ELSE base + LengthBefore(lens, k)
    BY <1>1, <1>2, <1>6
  <1>9. ASSUME f = ff
        PROVE  (\A k \in Blocks : ~HalfZero(f, k)) <=> \A k \in 3..6 : Length(f, k) # 0 => Offset(f, k) # 0
    <2>1. \A k \in Blocks : k > 2 /\ Length(f, k) = 0 => Offset(f, k) = 0
      BY <1>8, <1>9
    <2>2. \A k \in Blocks : HalfZero(f, k) <=> k > 2 /\ Length(f, k) # 0 /\ Offset(f, k) = 0
      BY <2>1 DEF HalfZero
    <2>3. 3..6 \subseteq Blocks
      BY DEF Blocks
    <2> QED BY <2>2, <2>3, <1>7
  <1> QED BY <1>8, <1>9 DEF Fills, lens, ff

-----------------------------------------------------------------------------
(* The readers take what the writers make *)

LEMMA WritableIs ==
    ASSUME NEW symbols, Alphabet(symbols), NEW g \in Seq(symbols), Len(g) >= 14,
           NEW base, base = FooterStart(g) - LengthBefore(Lengths(FooterOf(g)), 7)
    PROVE  Writable(g) <=>
             /\ base \in Nat
             /\ \A k \in 3..6 : Length(FooterOf(g), k) # 0 => Offset(FooterOf(g), k) # 0
             /\ SubSeq(g, FooterStart(g) + 1, Len(g))
                  = Encode(FORMAT_VERSION, FooterFor(base, Lengths(FooterOf(g))))
  <1> DEFINE lens == Lengths(FooterOf(g))
  <1>1. FooterStart(g) \in Nat /\ FooterOf(g) \in FooterFields /\ MaxU64 \in Nat
    BY FooterOfIs, ContainerAssumption
  <1>2. lens \in [Blocks -> Nat] /\ \A k \in Blocks : lens[k] = Length(FooterOf(g), k)
    BY <1>1, FieldsAre
  <1>3. /\ LengthBefore(lens, 7) = lens[1] + lens[2] + lens[3] + lens[4] + lens[5] + lens[6]
        /\ LengthBefore(lens, 7) \in Nat
    BY <1>2, BeforeIs
  <1>4. base >= 0 <=> base \in Nat
    BY <1>1, <1>3
  <1>5. 3..6 \subseteq Blocks /\ FooterSize(FORMAT_VERSION) = 14
    BY Sizes
  <1>6. Writable(g) <=>
          /\ Len(g) >= FooterSize(FORMAT_VERSION) /\ base >= 0
          /\ \A k \in 3..6 : lens[k] # 0 => Offset(FooterOf(g), k) # 0
          /\ SubSeq(g, FooterStart(g) + 1, Len(g)) = Encode(FORMAT_VERSION, FooterFor(base, lens))
    <2>1. base = FooterStart(g) - (lens[1] + lens[2] + lens[3] + lens[4] + lens[5] + lens[6])
      BY <1>3
    <2> QED BY <2>1 DEF Writable, Lengths
  <1> QED BY <1>2, <1>4, <1>5, <1>6

LEMMA OkIsWritable ==
    ASSUME NEW symbols, Alphabet(symbols), NEW g \in FilesOver(symbols), ReadContainerHead(g) = "ok"
    PROVE  Writable(g)
  <1> DEFINE f == FooterOf(g)
             footAt == FooterStart(g)
             e == Encode(FORMAT_VERSION, f)
  <1>1. g \in Seq(symbols) /\ Len(g) <= MaxU64 /\ MaxU64 \in Nat
    BY ContainerAssumption DEF FilesOver
  <1>2. LocateFooter(g) = "found" /\ ValidateFooter(f, footAt) = "ok"
    BY LocateIs DEF ReadContainerHead
  <1>3. Len(g) >= 14 /\ g[footAt + 1] = Magic /\ g[footAt + 2] = VersionByte(3)
    BY <1>1, <1>2, FoundIs
  <1>4. /\ footAt \in Nat /\ Len(g) = footAt + 14 /\ f \in FooterFields
        /\ \A i \in 1..12 : f[i] < MaxU64 => g[footAt + 2 + i] = U64(f[i])
    BY <1>1, <1>3, FooterOfIs
  <1> HIDE DEF f, footAt
  <1>5. Fills(f, Offset(f, 1), footAt) /\ \A k \in Blocks : End(f, k) <= footAt
    BY <1>2, <1>4, ValidFills
  <1>6. Offset(f, 1) \in Nat /\ Offset(f, 1) + LengthBefore(Lengths(f), 7) = footAt
    BY <1>5 DEF Fills
  <1>7. /\ f = FooterFor(Offset(f, 1), Lengths(f))
        /\ \A k \in 3..6 : Length(f, k) # 0 => Offset(f, k) # 0
    BY <1>4, <1>5, <1>6, FillsIsFooterFor
  <1>8. \A i \in 1..12 : g[footAt + 2 + i] = U64(f[i])
    <2>1. \A k \in Blocks : f[2 * k - 1] <= footAt /\ f[2 * k] <= footAt
      BY <1>4, <1>5, FieldsAre
    <2>2. \A i \in 1..12 : (i + 1) \div 2 \in Blocks /\ (i = 2 * ((i + 1) \div 2) - 1 \/ i = 2 * ((i + 1) \div 2))
      BY DEF Blocks
    <2>3. \A i \in 1..12 : f[i] <= footAt
      BY <2>1, <2>2
    <2>4. f \in [1..12 -> 0..MaxU64]
      BY <1>4, Sizes DEF FooterFields
    <2>5. \A i \in 1..12 : f[i] \in 0..MaxU64
      BY <2>4
    <2>6. footAt < MaxU64
      BY ONLY <1>1, <1>4
    <2>7. ASSUME NEW i \in 1..12 PROVE f[i] < MaxU64
      <3>1. f[i] \in 0..MaxU64 /\ f[i] <= footAt
        BY <2>3, <2>5
      <3> QED BY <3>1, <2>6, <1>1, <1>4
    <2> QED BY <2>7, <1>4
  <1>9. /\ e \in Seq(symbols) /\ Len(e) = 14 /\ e[1] = Magic /\ e[2] = VersionByte(3)
        /\ \A i \in 1..12 : e[2 + i] = U64(f[i])
    <2>1. 3 \in KnownVersions /\ \A i \in 1..FieldsOf(3) : f[i] \in 0..MaxU64
      BY <1>4, Sizes DEF FooterFields
    <2> QED BY <2>1, EncodeIs, Sizes, ZenonT(40)
  <1> HIDE DEF e
  <1>10. Sits(g, footAt, e)
    <2>1. \A i \in 1..14 : i = 1 \/ i = 2 \/ (i - 2 \in 1..12 /\ 2 + (i - 2) = i /\ footAt + 2 + (i - 2) = footAt + i)
      BY <1>4
    <2>2. ASSUME NEW i \in 1..14 PROVE g[footAt + i] = e[i]
      <3>1. CASE i = 1 \/ i = 2
        BY <3>1, <1>3, <1>9
      <3>2. CASE i - 2 \in 1..12 /\ 2 + (i - 2) = i /\ footAt + 2 + (i - 2) = footAt + i
        BY <3>2, <1>8, <1>9
      <3> QED BY <2>1, <3>1, <3>2
    <2> QED BY <2>2, <1>4, <1>9 DEF Sits
  <1>11. SubSeq(g, footAt + 1, Len(g)) = e
    BY <1>1, <1>4, <1>9, <1>10, SubSeqSits
  <1>12. Offset(f, 1) = footAt - LengthBefore(Lengths(f), 7)
    <2>1. LengthBefore(Lengths(f), 7) \in Nat
      <3>1. Lengths(f) \in [Blocks -> Nat]
        BY <1>1, <1>4, FieldsAre
      <3> QED BY <3>1, BeforeIs
    <2> QED BY <2>1, <1>6
  <1> QED BY <1>1, <1>3, <1>6, <1>7, <1>11, <1>12, WritableIs DEF f, footAt, e

LEMMA WritableIsOk ==
    ASSUME NEW symbols, Alphabet(symbols), NEW g \in FilesOver(symbols), Writable(g)
    PROVE  LocateFooter(g) = "found" /\ ReadContainerHead(g) = "ok"
  <1> DEFINE f == FooterOf(g)
             footAt == FooterStart(g)
             base == footAt - LengthBefore(Lengths(f), 7)
             ff == FooterFor(base, Lengths(f))
             front == SubSeq(g, 1, footAt)
  <1>1. g \in Seq(symbols) /\ Len(g) <= MaxU64 /\ MaxU64 \in Nat /\ Len(g) >= 14
    BY ContainerAssumption, Sizes DEF FilesOver, Writable
  <1>2. footAt \in Nat /\ Len(g) = footAt + 14 /\ f \in FooterFields
    BY <1>1, FooterOfIs
  <1>3. /\ base \in Nat /\ \A k \in 3..6 : Length(f, k) # 0 => Offset(f, k) # 0
        /\ SubSeq(g, footAt + 1, Len(g)) = Encode(FORMAT_VERSION, ff)
    BY <1>1, WritableIs
  <1>4. /\ Lengths(f) \in [Blocks -> Nat]
        /\ \A k \in Blocks : Lengths(f)[k] \in 0..MaxU64
    BY <1>1, <1>2, FieldsAre
  <1>5. /\ LengthBefore(Lengths(f), 7) \in Nat
        /\ \A k \in Blocks : /\ LengthBefore(Lengths(f), k) \in Nat
                             /\ LengthBefore(Lengths(f), k) + Lengths(f)[k] <= LengthBefore(Lengths(f), 7)
    <2>1. \A k \in Blocks : Lengths(f)[k] \in Nat
      BY <1>4
    <2> QED BY <2>1, <1>4, BeforeIs
  <1> HIDE DEF f, footAt
  <1>6. base + LengthBefore(Lengths(f), 7) = footAt
    BY <1>2, <1>5
  <1>7. ff \in FooterFields
    <2> HIDE DEF base
    <2>1. /\ FooterFor(base, Lengths(f)) \in [1..12 -> Nat]
          /\ \A k \in Blocks :
                /\ Length(FooterFor(base, Lengths(f)), k) = Lengths(f)[k]
                /\ Offset(FooterFor(base, Lengths(f)), k) =
                     IF k > 2 /\ Lengths(f)[k] = 0 THEN 0 ELSE base + LengthBefore(Lengths(f), k)
      BY <1>3, <1>4, FooterForIs
    <2> HIDE DEF ff
    <2>2. \A k \in Blocks : ff[2 * k] = Lengths(f)[k]
                         /\ ff[2 * k - 1] = IF k > 2 /\ Lengths(f)[k] = 0 THEN 0 ELSE base + LengthBefore(Lengths(f), k)
      BY <2>1 DEF ff, Offset, Length
    <2>3. ASSUME NEW k \in Blocks
          PROVE  ff[2 * k] \in 0..MaxU64 /\ ff[2 * k - 1] \in 0..MaxU64
      <3> DEFINE len == Lengths(f)[k]
                 before == LengthBefore(Lengths(f), k)
                 all == LengthBefore(Lengths(f), 7)
      <3>1. len \in 0..MaxU64 /\ before \in Nat /\ all \in Nat /\ before + len <= all
        BY <1>4, <1>5
      <3>2. ff[2 * k] = len
        BY <2>2
      <3>3. ff[2 * k - 1] = 0 \/ ff[2 * k - 1] = base + before
        BY <2>2
      <3>4. base + all = footAt
        BY <1>6
      <3> HIDE DEF len, before, all
      <3> QED BY ONLY <1>1, <1>2, <1>3, <3>1, <3>2, <3>3, <3>4
    <2>4. \A i \in 1..12 : (i + 1) \div 2 \in Blocks /\ (i = 2 * ((i + 1) \div 2) - 1 \/ i = 2 * ((i + 1) \div 2))
      BY DEF Blocks
    <2>5. \A i \in 1..12 : ff[i] \in 0..MaxU64
      BY <2>3, <2>4
    <2>6. ff \in [1..12 -> Nat]
      BY <2>1 DEF ff
    <2> QED BY <2>5, <2>6, Sizes DEF FooterFields
  <1> HIDE DEF base, ff
  <1>8. front \in Seq(symbols) /\ Len(front) = footAt
    <2>1. \A i \in 1..footAt : g[i] \in symbols
      BY <1>1, <1>2, ElementOfSeq
    <2> QED BY <2>1, <1>2, SubSeqProperties
  <1>9. g = front \o SubSeq(g, footAt + 1, Len(g))
    <2>1. /\ 1 \in 1..Len(g) + 1 /\ footAt \in 1 - 1 .. Len(g) /\ Len(g) \in footAt .. Len(g)
      BY <1>2
    <2>2. SubSeq(g, 1, footAt) \o SubSeq(g, footAt + 1, Len(g)) = SubSeq(g, 1, Len(g))
      BY <2>1, <1>1, ConcatAdjacentSubSeq
    <2>3. SubSeq(g, 1, Len(g)) = g
      BY <1>1, SubSeqFull
    <2> QED BY <2>2, <2>3
  <1> HIDE DEF front
  <1>10. LocateFooter(g) = "found" /\ FooterOf(g) = ff
    <2>1. g = front \o Encode(FORMAT_VERSION, ff)
      BY <1>3, <1>9
    <2>2. Alphabet(symbols)
      OBVIOUS
    <2> QED BY ONLY <2>1, <2>2, <1>7, <1>8, FooterReads
  <1>11. f = ff
    BY <1>10 DEF f
  <1>12. Fills(f, base, footAt)
    BY <1>2, <1>3, <1>6, <1>11, FillsIsFooterFor DEF ff
  <1>13. ValidateFooter(f, footAt) = "ok"
    BY <1>1, <1>2, <1>12, FillsValid
  <1> QED BY <1>10, <1>13 DEF ReadContainerHead, f, footAt

-----------------------------------------------------------------------------
(* A written container *)

LensOf(blocks) == [k \in Blocks |-> Len(blocks[k])]
Wrapped(base, blocks) ==
    base \o Body(blocks) \o Encode(FORMAT_VERSION, FooterFor(Len(base), LensOf(blocks)))
Fits(symbols, base, blocks) ==
    /\ base \in Seq(symbols) /\ blocks \in BlockLists(symbols)
    /\ Len(base) + LengthBefore(LensOf(blocks), 7) + 14 <= MaxU64

LEMMA BodyIs ==
    ASSUME NEW symbols, NEW blocks \in [Blocks -> Seq(symbols)]
    PROVE  /\ LensOf(blocks) \in [Blocks -> Nat] /\ \A k \in Blocks : LensOf(blocks)[k] = Len(blocks[k])
           /\ Body(blocks) \in Seq(symbols) /\ Len(Body(blocks)) = LengthBefore(LensOf(blocks), 7)
           /\ \A k \in Blocks : Sits(Body(blocks), LengthBefore(LensOf(blocks), k), blocks[k])
  <1> DEFINE lens == LensOf(blocks)
             p2 == blocks[1] \o blocks[2]
             p3 == p2 \o blocks[3]
             p4 == p3 \o blocks[4]
             p5 == p4 \o blocks[5]
             p6 == p5 \o blocks[6]
  <1>1. \A k \in Blocks : blocks[k] \in Seq(symbols) /\ Len(blocks[k]) \in Nat
    OBVIOUS
  <1>2. lens \in [Blocks -> Nat] /\ \A k \in Blocks : lens[k] = Len(blocks[k])
    BY <1>1 DEF LensOf
  <1>3. Body(blocks) = p6
    BY DEF Body
  <1>4. /\ LengthBefore(lens, 1) = 0 /\ LengthBefore(lens, 2) = lens[1]
        /\ \A k \in Blocks : LengthBefore(lens, k) \in Nat /\ LengthBefore(lens, k + 1) = LengthBefore(lens, k) + lens[k]
    BY <1>2, BeforeIs
  <1> HIDE DEF lens
  <1>5. ASSUME NEW k \in Blocks, NEW p \in Seq(symbols), Len(p) = LengthBefore(lens, k)
        PROVE  /\ p \o blocks[k] \in Seq(symbols) /\ Len(p \o blocks[k]) = LengthBefore(lens, k + 1)
               /\ Sits(p \o blocks[k], 0, p) /\ Sits(p \o blocks[k], LengthBefore(lens, k), blocks[k])
    <2>1. blocks[k] \in Seq(symbols) /\ LengthBefore(lens, k + 1) = Len(p) + Len(blocks[k])
      BY <1>1, <1>2, <1>4, <1>5
    <2> QED BY <2>1, <1>5, SitsInConcat
  <1>6. /\ p2 \in Seq(symbols) /\ Len(p2) = LengthBefore(lens, 3)
        /\ Sits(p2, 0, blocks[1]) /\ Sits(p2, LengthBefore(lens, 2), blocks[2])
    <2>1. 1 \in Blocks /\ 2 \in Blocks /\ 2 + 1 = 3
      BY DEF Blocks
    <2>2. blocks[1] \in Seq(symbols) /\ Len(blocks[1]) = LengthBefore(lens, 2)
      BY <2>1, <1>1, <1>2, <1>4
    <2> QED BY <2>1, <2>2, <1>5
  <1> HIDE DEF p2
  <1>7. /\ p3 \in Seq(symbols) /\ Len(p3) = LengthBefore(lens, 4)
        /\ Sits(p3, 0, p2) /\ Sits(p3, LengthBefore(lens, 3), blocks[3])
    <2>1. 3 \in Blocks /\ 3 + 1 = 4
      BY DEF Blocks
    <2> QED BY <2>1, <1>6, <1>5
  <1> HIDE DEF p3
  <1>8. /\ p4 \in Seq(symbols) /\ Len(p4) = LengthBefore(lens, 5)
        /\ Sits(p4, 0, p3) /\ Sits(p4, LengthBefore(lens, 4), blocks[4])
    <2>1. 4 \in Blocks /\ 4 + 1 = 5
      BY DEF Blocks
    <2> QED BY <2>1, <1>7, <1>5
  <1> HIDE DEF p4
  <1>9. /\ p5 \in Seq(symbols) /\ Len(p5) = LengthBefore(lens, 6)
        /\ Sits(p5, 0, p4) /\ Sits(p5, LengthBefore(lens, 5), blocks[5])
    <2>1. 5 \in Blocks /\ 5 + 1 = 6
      BY DEF Blocks
    <2> QED BY <2>1, <1>8, <1>5
  <1> HIDE DEF p5
  <1>10. /\ p6 \in Seq(symbols) /\ Len(p6) = LengthBefore(lens, 7)
        /\ Sits(p6, 0, p5) /\ Sits(p6, LengthBefore(lens, 6), blocks[6])
    <2>1. 6 \in Blocks /\ 6 + 1 = 7
      BY DEF Blocks
    <2> QED BY <2>1, <1>9, <1>5
  <1> HIDE DEF p6
  <1>11. ASSUME NEW s \in Seq(symbols), NEW m \in Seq(symbols), NEW b \in Seq(symbols), NEW j \in Nat,
                Sits(s, 0, m), Sits(m, j, b)
         PROVE  Sits(s, j, b)
    <2>1. Sits(s, 0 + j, b)
      BY <1>11, SitsWithin
    <2> QED BY <2>1
  <1>12. Sits(p6, 0, p4)
    BY <1>8, <1>9, <1>10, <1>11
  <1>13. Sits(p6, 0, p3)
    BY <1>7, <1>8, <1>10, <1>11, <1>12
  <1>14. Sits(p6, 0, p2)
    BY <1>6, <1>7, <1>10, <1>11, <1>13
  <1>15. ASSUME NEW k \in Blocks, NEW m \in Seq(symbols), Sits(p6, 0, m), Sits(m, LengthBefore(lens, k), blocks[k])
         PROVE  Sits(p6, LengthBefore(lens, k), blocks[k])
    BY <1>1, <1>4, <1>10, <1>11, <1>15
  <1>16. Sits(p6, LengthBefore(lens, 1), blocks[1]) /\ Sits(p6, LengthBefore(lens, 2), blocks[2])
    <2>1. 1 \in Blocks /\ 2 \in Blocks /\ Sits(p2, LengthBefore(lens, 1), blocks[1])
      BY <1>4, <1>6 DEF Blocks
    <2> QED BY <2>1, <1>6, <1>14, <1>15
  <1>17. Sits(p6, LengthBefore(lens, 3), blocks[3])
    <2>1. 3 \in Blocks
      BY DEF Blocks
    <2> QED BY <2>1, <1>7, <1>13, <1>15
  <1>18. Sits(p6, LengthBefore(lens, 4), blocks[4])
    <2>1. 4 \in Blocks
      BY DEF Blocks
    <2> QED BY <2>1, <1>8, <1>12, <1>15
  <1>19. Sits(p6, LengthBefore(lens, 5), blocks[5])
    <2>1. 5 \in Blocks
      BY DEF Blocks
    <2> QED BY <2>1, <1>9, <1>10, <1>15
  <1> QED
    BY <1>2, <1>3, <1>10, <1>16, <1>17, <1>18, <1>19, Sizes DEF lens

LEMMA WrappedFooter ==
    ASSUME NEW symbols, Alphabet(symbols), NEW base, NEW blocks, Fits(symbols, base, blocks)
    PROVE  /\ FooterFor(Len(base), LensOf(blocks)) \in FooterFields
           /\ Lengths(FooterFor(Len(base), LensOf(blocks))) = LensOf(blocks)
           /\ Fills(FooterFor(Len(base), LensOf(blocks)), Len(base), Len(base) + LengthBefore(LensOf(blocks), 7))
  <1> DEFINE lens == LensOf(blocks)
             f == FooterFor(Len(base), lens)
  <1>1. /\ blocks \in [Blocks -> Seq(symbols)] /\ blocks[1] # <<>> /\ Len(base) \in Nat /\ MaxU64 \in Nat
        /\ Len(base) + LengthBefore(lens, 7) + 14 <= MaxU64
    BY ContainerAssumption DEF Fits, BlockLists
  <1>2. lens \in [Blocks -> Nat] /\ \A k \in Blocks : lens[k] = Len(blocks[k])
    BY <1>1, BodyIs
  <1>3. lens[1] > 0
    <2>1. blocks[1] \in Seq(symbols) /\ blocks[1] # <<>>
      BY <1>1, Sizes
    <2> QED BY <2>1, <1>2, Sizes
  <1> HIDE DEF lens
  <1>4. /\ f \in [1..12 -> Nat]
        /\ \A k \in Blocks : /\ Length(f, k) = lens[k]
                             /\ Offset(f, k) = IF k > 2 /\ lens[k] = 0 THEN 0 ELSE Len(base) + LengthBefore(lens, k)
    BY <1>1, <1>2, FooterForIs
  <1>5. /\ LengthBefore(lens, 7) \in Nat
        /\ \A k \in Blocks : /\ LengthBefore(lens, k) \in Nat /\ lens[k] \in Nat
                             /\ LengthBefore(lens, k) + lens[k] <= LengthBefore(lens, 7)
    BY <1>2, BeforeIs
  <1> HIDE DEF f
  <1>6. ASSUME NEW k \in Blocks PROVE f[2 * k - 1] \in 0..MaxU64 /\ f[2 * k] \in 0..MaxU64
    <2>1. f[2 * k] = lens[k] /\ f[2 * k - 1] = IF k > 2 /\ lens[k] = 0 THEN 0 ELSE Len(base) + LengthBefore(lens, k)
      BY <1>4 DEF Offset, Length
    <2>2. /\ LengthBefore(lens, 7) \in Nat /\ LengthBefore(lens, k) \in Nat /\ lens[k] \in Nat
          /\ LengthBefore(lens, k) + lens[k] <= LengthBefore(lens, 7)
      BY <1>5
    <2> QED BY ONLY <2>1, <2>2, <1>1
  <1>7. f \in FooterFields
    <2>1. \A i \in 1..12 : (i + 1) \div 2 \in Blocks /\ (i = 2 * ((i + 1) \div 2) - 1 \/ i = 2 * ((i + 1) \div 2))
      BY DEF Blocks
    <2>2. \A i \in 1..12 : f[i] \in 0..MaxU64
      BY <2>1, <1>6
    <2> QED BY <2>2, <1>4, Sizes DEF FooterFields
  <1>8. Lengths(f) = lens
    BY <1>2, <1>4 DEF Lengths
  <1>9. \A k \in 3..6 : Length(f, k) # 0 => Offset(f, k) # 0
    <2>1. \A k \in 3..6 : k \in Blocks /\ k > 2
      BY DEF Blocks
    <2>2. \A k \in 3..6 : LengthBefore(lens, k) >= lens[1]
      <3>1. lens[1] \in Nat /\ lens[2] \in Nat /\ lens[3] \in Nat /\ lens[4] \in Nat /\ lens[5] \in Nat
        BY <1>2 DEF Blocks
      <3> QED BY <3>1 DEF LengthBefore
    <2>3. ASSUME NEW k \in 3..6, Length(f, k) # 0 PROVE Offset(f, k) # 0
      <3>1. Offset(f, k) = Len(base) + LengthBefore(lens, k)
        BY <2>1, <2>3, <1>4
      <3>2. LengthBefore(lens, k) >= lens[1] /\ LengthBefore(lens, k) \in Nat /\ lens[1] \in Nat
        BY <2>1, <2>2, <1>5, Sizes
      <3> QED BY <3>1, <3>2, <1>1, <1>3
    <2> QED BY <2>3
  <1>10. Fills(f, Len(base), Len(base) + LengthBefore(lens, 7))
    <2>1. Len(base) + LengthBefore(Lengths(f), 7) = Len(base) + LengthBefore(lens, 7) /\ Len(base) + LengthBefore(lens, 7) \in Nat
      BY <1>1, <1>5, <1>8
    <2>2. f = FooterFor(Len(base), Lengths(f))
      BY <1>8 DEF f
    <2> QED BY <2>1, <2>2, <1>1, <1>7, <1>9, FillsIsFooterFor
  <1> QED BY <1>7, <1>8, <1>10 DEF f, lens

LEMMA WrappedReads ==
    ASSUME NEW symbols, Alphabet(symbols), NEW base, NEW blocks, Fits(symbols, base, blocks),
           NEW g, g = Wrapped(base, blocks)
    PROVE  /\ g \in FilesOver(symbols) /\ LocateFooter(g) = "found" /\ ReadContainerHead(g) = "ok"
           /\ FooterOf(g) = FooterFor(Len(base), LensOf(blocks))
           /\ FooterStart(g) = Len(base) + LengthBefore(LensOf(blocks), 7)
           /\ Offset(FooterOf(g), 1) = Len(base)
           /\ SubSeq(g, Len(base) + 1, FooterStart(g)) = Body(blocks)
           /\ \A k \in Blocks : Block(g, FooterOf(g), k) = blocks[k]
           /\ ReadBaseExecutable(g).file = base
  <1> DEFINE lens == LensOf(blocks)
             f == FooterFor(Len(base), lens)
             body == Body(blocks)
             front == base \o body
             footAt == Len(base) + LengthBefore(lens, 7)
  <1>1. /\ base \in Seq(symbols) /\ blocks \in [Blocks -> Seq(symbols)] /\ Len(base) \in Nat /\ MaxU64 \in Nat
        /\ Len(base) + LengthBefore(lens, 7) + 14 <= MaxU64
    BY ContainerAssumption DEF Fits, BlockLists
  <1>2. /\ lens \in [Blocks -> Nat] /\ \A k \in Blocks : lens[k] = Len(blocks[k])
        /\ body \in Seq(symbols) /\ Len(body) = LengthBefore(lens, 7)
        /\ \A k \in Blocks : Sits(body, LengthBefore(lens, k), blocks[k])
    BY <1>1, BodyIs
  <1>3. f \in FooterFields /\ Lengths(f) = lens /\ Fills(f, Len(base), footAt)
    BY WrappedFooter
  <1>4. g = front \o Encode(FORMAT_VERSION, f)
    BY DEF Wrapped
  <1>5. \A k \in Blocks : /\ Length(f, k) = lens[k]
                          /\ Offset(f, k) = IF k > 2 /\ lens[k] = 0 THEN 0 ELSE Len(base) + LengthBefore(lens, k)
    BY <1>1, <1>2, FooterForIs
  <1>6. /\ LengthBefore(lens, 1) = 0 /\ LengthBefore(lens, 7) \in Nat
        /\ \A k \in Blocks : LengthBefore(lens, k) \in Nat /\ lens[k] \in Nat
    BY <1>2, BeforeIs
  <1> HIDE DEF f, lens, body
  <1>7. front \in Seq(symbols) /\ Len(front) = footAt /\ Sits(front, 0, base) /\ Sits(front, Len(base), body)
    <2>1. base \in Seq(symbols) /\ body \in Seq(symbols)
      BY <1>1, <1>2
    <2>2. /\ front \in Seq(symbols) /\ Len(front) = Len(base) + Len(body)
          /\ Sits(front, 0, base) /\ Sits(front, Len(base), body)
      BY ONLY <2>1, SitsInConcat
    <2> QED BY <2>2, <1>2
  <1> HIDE DEF front
  <1>8. /\ g \in Seq(symbols) /\ Len(g) = footAt + 14 /\ LocateFooter(g) = "found"
        /\ FooterStart(g) = footAt /\ FooterOf(g) = f
    <2>1. Alphabet(symbols) /\ f \in FooterFields /\ front \in Seq(symbols) /\ Len(front) = footAt
      BY <1>3, <1>7
    <2>2. /\ g \in Seq(symbols) /\ Len(g) = Len(front) + 14 /\ LocateFooter(g) = "found"
          /\ FooterStart(g) = Len(front) /\ FooterOf(g) = f
      BY ONLY <2>1, <1>4, FooterReads
    <2> QED BY <2>1, <2>2
  <1>9. g \in FilesOver(symbols)
    BY <1>1, <1>8 DEF FilesOver
  <1>10. ReadContainerHead(g) = "ok"
    <2>1. footAt \in 0..MaxU64
      BY <1>1, <1>6
    <2>2. ValidateFooter(f, footAt) = "ok"
      BY <2>1, <1>3, FillsValid
    <2> QED BY <2>2, <1>8 DEF ReadContainerHead
  <1>11. Offset(f, 1) = Len(base)
    <2>1. 1 \in Blocks /\ ~(1 > 2)
      BY Sizes
    <2> QED BY <2>1, <1>1, <1>5, <1>6
  <1>12. Sits(g, 0, front)
    <2>1. Encode(FORMAT_VERSION, f) \in Seq(symbols)
      <3>1. 3 \in KnownVersions /\ \A i \in 1..FieldsOf(3) : f[i] \in 0..MaxU64
        BY <1>3, Sizes DEF FooterFields
      <3> QED BY <3>1, EncodeIs, Sizes
    <2> QED BY <2>1, <1>4, <1>7, SitsInConcat
  <1>13. Sits(g, 0, base) /\ Sits(g, Len(base), body)
    <2>1. Sits(g, 0 + 0, base)
      BY <1>1, <1>7, <1>8, <1>12, SitsWithin
    <2>2. Sits(g, 0 + Len(base), body)
      BY <1>1, <1>2, <1>7, <1>8, <1>12, SitsWithin
    <2> QED BY <2>1, <2>2, <1>1
  <1>14. SubSeq(g, Len(base) + 1, footAt) = body
    <2>1. SubSeq(g, Len(base) + 1, Len(base) + Len(body)) = body
      BY <1>1, <1>2, <1>8, <1>13, SubSeqSits
    <2> QED BY <2>1, <1>2
  <1>15. ASSUME NEW k \in Blocks PROVE Block(g, f, k) = blocks[k]
    <2>1. blocks[k] \in Seq(symbols) /\ Len(blocks[k]) = lens[k]
      BY <1>1, <1>2
    <2>2. CASE k > 2 /\ lens[k] = 0
      <3>1. Block(g, f, k) = SubSeq(g, 1, 0) /\ blocks[k] = <<>>
        BY <2>1, <2>2, <1>5 DEF Block, End
      <3> QED BY <3>1, SubSeqEmpty
    <2>3. CASE ~(k > 2 /\ lens[k] = 0)
      <3> DEFINE at == Len(base) + LengthBefore(lens, k)
      <3>1. at \in Nat /\ Offset(f, k) = at /\ End(f, k) = at + Len(blocks[k])
        BY <2>1, <2>3, <1>1, <1>5, <1>6 DEF End
      <3>2. Sits(g, at, blocks[k])
        BY <2>1, <1>1, <1>2, <1>6, <1>8, <1>13, SitsWithin
      <3>3. SubSeq(g, at + 1, at + Len(blocks[k])) = blocks[k]
        BY <2>1, <3>1, <3>2, <1>8, SubSeqSits
      <3> QED BY <3>1, <3>3 DEF Block
    <2> QED BY <2>2, <2>3
  <1>16. ReadBaseExecutable(g).file = base
    <2>1. SubSeq(g, 0 + 1, 0 + Len(base)) = base
      BY <1>1, <1>8, <1>13, SubSeqSits
    <2>2. SubSeq(g, 1, Len(base)) = base /\ ~(Len(base) > footAt)
      BY <2>1, <1>1, <1>6
    <2> QED BY <2>2, <1>8, <1>11 DEF ReadBaseExecutable
  <1> QED BY <1>8, <1>9, <1>10, <1>11, <1>14, <1>15, <1>16 DEF f, lens, body

-----------------------------------------------------------------------------
(* A moved trailer *)

\* rewrap_trailer writes the footer its base and the same blocks would have got.
LEMMA RewrapIs ==
    ASSUME NEW symbols, Alphabet(symbols), NEW g \in FilesOver(symbols), NEW base \in Seq(symbols),
           RewrapTrailer(g, base).how = "ok"
    PROVE  /\ ReadContainerHead(g) = "ok"
           /\ Lengths(FooterOf(g)) \in [Blocks -> Nat]
           /\ Offset(FooterOf(g), 1) \in Nat /\ Offset(FooterOf(g), 1) <= FooterStart(g)
           /\ FooterStart(g) \in Nat /\ FooterStart(g) < Len(g)
           /\ FooterFor(Len(base), Lengths(FooterOf(g))) \in FooterFields
           /\ RewrapTrailer(g, base).file =
                base \o SubSeq(g, Offset(FooterOf(g), 1) + 1, FooterStart(g))
                  \o Encode(FORMAT_VERSION, FooterFor(Len(base), Lengths(FooterOf(g))))
  <1> DEFINE f == FooterOf(g)
             footAt == FooterStart(g)
             lens == Lengths(f)
             o == Offset(f, 1)
             delta == Len(base) - o
             field(i, k) == IF i % 2 = 0 THEN f[i] ELSE IF k <= 2 THEN f[i] + delta ELSE Shifted(f, k, delta)
             moved == [i \in 1..12 |-> field(i, (i + 1) \div 2)]
             ff == FooterFor(Len(base), lens)
  <1>1. g \in Seq(symbols) /\ Len(base) \in Nat /\ MaxU64 \in Nat
    BY ContainerAssumption DEF FilesOver
  <1>2. /\ ReadContainerHead(g) = "ok" /\ ~(\E i \in 1..12 : moved[i] > MaxU64)
        /\ RewrapTrailer(g, base).file = base \o SubSeq(g, o + 1, footAt) \o Encode(FORMAT_VERSION, moved)
    BY DEF RewrapTrailer
  <1>3. LocateFooter(g) = "found" /\ ValidateFooter(f, footAt) = "ok"
    BY <1>2, LocateIs DEF ReadContainerHead
  <1>4. Len(g) >= 14
    BY <1>1, <1>3, FoundIs
  <1>5. footAt \in Nat /\ Len(g) = footAt + 14 /\ f \in FooterFields
    BY <1>1, <1>4, FooterOfIs
  <1> HIDE DEF f, footAt
  <1>6. Fills(f, o, footAt)
    BY <1>3, <1>5, ValidFills
  <1>7. /\ \A k \in Blocks : /\ Offset(f, k) = f[2 * k - 1] /\ Length(f, k) = f[2 * k]
                             /\ Offset(f, k) \in Nat /\ Length(f, k) \in Nat /\ lens[k] = Length(f, k)
        /\ lens \in [Blocks -> Nat]
    BY <1>5, FieldsAre
  <1>8. /\ o \in Nat /\ o + LengthBefore(lens, 7) = footAt
        /\ \A k \in Blocks : Offset(f, k) = IF k > 2 /\ Length(f, k) = 0 THEN 0 ELSE o + LengthBefore(lens, k)
    BY <1>6 DEF Fills
  <1> HIDE DEF o, lens
  <1>9. /\ LengthBefore(lens, 7) \in Nat /\ \A k \in Blocks : LengthBefore(lens, k) \in Nat
        /\ LengthBefore(lens, 1) = 0 /\ LengthBefore(lens, 2) = lens[1]
    BY <1>7, BeforeIs
  <1>10. /\ ff \in [1..12 -> Nat]
         /\ \A k \in Blocks : /\ Length(ff, k) = lens[k]
                              /\ Offset(ff, k) = IF k > 2 /\ lens[k] = 0 THEN 0 ELSE Len(base) + LengthBefore(lens, k)
    BY <1>1, <1>7, FooterForIs
  <1> HIDE DEF ff
  <1>11. ASSUME NEW k \in Blocks PROVE moved[2 * k] = ff[2 * k] /\ moved[2 * k - 1] = ff[2 * k - 1]
    <2>1. /\ 2 * k \in 1..12 /\ (2 * k + 1) \div 2 = k /\ (2 * k) % 2 = 0
          /\ 2 * k - 1 \in 1..12 /\ (2 * k - 1 + 1) \div 2 = k /\ (2 * k - 1) % 2 = 1 /\ k \in Nat
      BY DEF Blocks
    <2>2. moved[2 * k] = field(2 * k, k) /\ moved[2 * k - 1] = field(2 * k - 1, k)
      BY <2>1
    <2> HIDE DEF moved
    <2>3. moved[2 * k] = f[2 * k]
          /\ moved[2 * k - 1] = IF k <= 2 THEN f[2 * k - 1] + delta ELSE Shifted(f, k, delta)
      BY <2>1, <2>2
    <2>4. moved[2 * k] = lens[k]
      BY <2>3, <1>7
    <2>5. moved[2 * k - 1] = IF k > 2 /\ lens[k] = 0 THEN 0 ELSE Len(base) + LengthBefore(lens, k)
      <3>1. /\ Offset(f, k) = IF k > 2 /\ lens[k] = 0 THEN 0 ELSE o + LengthBefore(lens, k)
            /\ Offset(f, k) = f[2 * k - 1] /\ Length(f, k) = lens[k] /\ LengthBefore(lens, k) \in Nat
        BY <1>7, <1>8, <1>9
      <3>2. IsAbsent(f, k) <=> k > 2 /\ lens[k] = 0
        BY <3>1 DEF IsAbsent
      <3>3. Shifted(f, k, delta) = IF k > 2 /\ lens[k] = 0 THEN 0 ELSE Offset(f, k) + delta
        BY <3>2 DEF Shifted
      <3> QED BY <2>1, <2>3, <3>1, <3>3, <1>1, <1>8
    <2>6. ff[2 * k] = lens[k] /\ ff[2 * k - 1] = IF k > 2 /\ lens[k] = 0 THEN 0 ELSE Len(base) + LengthBefore(lens, k)
      BY <1>10 DEF Offset, Length
    <2> QED BY <2>4, <2>5, <2>6
  <1>12. moved = ff
    <2>1. \A i \in 1..12 : (i + 1) \div 2 \in Blocks /\ (i = 2 * ((i + 1) \div 2) - 1 \/ i = 2 * ((i + 1) \div 2))
      BY DEF Blocks
    <2>2. moved = [i \in 1..12 |-> moved[i]]
      OBVIOUS
    <2> HIDE DEF moved
    <2>3. \A i \in 1..12 : moved[i] = ff[i]
      BY <2>1, <1>11
    <2> QED BY <2>2, <2>3, <1>10
  <1> HIDE DEF moved
  <1>13. ff \in FooterFields
    <2>1. \A i \in 1..12 : ff[i] \in Nat /\ ~(ff[i] > MaxU64)
      BY <1>2, <1>10, <1>12
    <2>2. ASSUME NEW i \in 1..12 PROVE ff[i] \in 0..MaxU64
      <3>1. ff[i] \in Nat /\ ~(ff[i] > MaxU64)
        BY <2>1
      <3> QED BY <3>1, <1>1
    <2> QED BY <2>2, <1>10, Sizes DEF FooterFields
  <1>14. o <= footAt /\ footAt < Len(g)
    BY <1>5, <1>8, <1>9
  <1>15. RewrapTrailer(g, base).file = base \o SubSeq(g, o + 1, footAt) \o Encode(FORMAT_VERSION, ff)
    BY <1>2, <1>12
  <1> QED BY <1>2, <1>5, <1>7, <1>8, <1>13, <1>14, <1>15 DEF f, footAt, lens, o, ff

\* Whatever it is moved onto, the file is one of the alphabet.
LEMMA RewrapTyped ==
    ASSUME NEW symbols, Alphabet(symbols), NEW g \in FilesOver(symbols), NEW base \in Seq(symbols),
           RewrapTrailer(g, base).how = "ok"
    PROVE  RewrapTrailer(g, base).file \in Seq(symbols)
  <1> DEFINE body == SubSeq(g, Offset(FooterOf(g), 1) + 1, FooterStart(g))
             e == Encode(FORMAT_VERSION, FooterFor(Len(base), Lengths(FooterOf(g))))
  <1>1. /\ Offset(FooterOf(g), 1) \in Nat /\ FooterStart(g) \in Nat /\ FooterStart(g) < Len(g)
        /\ FooterFor(Len(base), Lengths(FooterOf(g))) \in FooterFields
        /\ RewrapTrailer(g, base).file = base \o body \o e
    BY RewrapIs
  <1>2. e \in Seq(symbols)
    <2>1. 3 \in KnownVersions /\ \A i \in 1..FieldsOf(3) : FooterFor(Len(base), Lengths(FooterOf(g)))[i] \in 0..MaxU64
      BY <1>1, Sizes DEF FooterFields
    <2> QED BY <2>1, EncodeIs, Sizes
  <1>3. body \in Seq(symbols)
    <2>1. g \in Seq(symbols)
      BY DEF FilesOver
    <2>2. \A i \in (Offset(FooterOf(g), 1) + 1)..FooterStart(g) : g[i] \in symbols
      BY <2>1, <1>1, ElementOfSeq
    <2> QED BY <2>2, <1>1, SubSeqProperties
  <1> HIDE DEF body, e
  <1> QED BY <1>1, <1>2, <1>3

\* And a written container comes out as one written onto the other base.
LEMMA RewrapWrapped ==
    ASSUME NEW symbols, Alphabet(symbols), NEW base, NEW blocks, Fits(symbols, base, blocks),
           NEW other \in Seq(symbols), RewrapTrailer(Wrapped(base, blocks), other).how = "ok",
           Len(RewrapTrailer(Wrapped(base, blocks), other).file) <= MaxU64
    PROVE  /\ RewrapTrailer(Wrapped(base, blocks), other).file = Wrapped(other, blocks)
           /\ Fits(symbols, other, blocks)
  <1> DEFINE g == Wrapped(base, blocks)
             w == RewrapTrailer(g, other)
             lens == LensOf(blocks)
             e == Encode(FORMAT_VERSION, FooterFor(Len(other), lens))
  <1>1. /\ g \in FilesOver(symbols) /\ FooterOf(g) = FooterFor(Len(base), lens)
        /\ Offset(FooterOf(g), 1) = Len(base)
        /\ SubSeq(g, Len(base) + 1, FooterStart(g)) = Body(blocks)
    BY WrappedReads
  <1>2. Lengths(FooterOf(g)) = lens
    BY <1>1, WrappedFooter
  <1>3. /\ FooterFor(Len(other), Lengths(FooterOf(g))) \in FooterFields
        /\ w.file = other \o SubSeq(g, Offset(FooterOf(g), 1) + 1, FooterStart(g))
                      \o Encode(FORMAT_VERSION, FooterFor(Len(other), Lengths(FooterOf(g))))
    BY <1>1, RewrapIs
  <1>4. w.file = other \o Body(blocks) \o e /\ FooterFor(Len(other), lens) \in FooterFields
    BY <1>1, <1>2, <1>3
  <1>5. w.file = Wrapped(other, blocks)
    BY <1>4 DEF Wrapped
  <1>6. e \in Seq(symbols) /\ Len(e) = 14
    <2>1. 3 \in KnownVersions /\ \A i \in 1..FieldsOf(3) : FooterFor(Len(other), lens)[i] \in 0..MaxU64
      BY <1>4, Sizes DEF FooterFields
    <2> QED BY <2>1, EncodeIs, Sizes
  <1>7. blocks \in BlockLists(symbols) /\ Body(blocks) \in Seq(symbols) /\ Len(Body(blocks)) = LengthBefore(lens, 7)
    BY BodyIs DEF Fits, BlockLists
  <1> HIDE DEF e, w, lens
  <1>8. Len(w.file) = Len(other) + LengthBefore(lens, 7) + 14
    <2>1. other \o Body(blocks) \in Seq(symbols) /\ Len(other \o Body(blocks)) = Len(other) + Len(Body(blocks))
      BY <1>7, ConcatProperties
    <2>2. Len((other \o Body(blocks)) \o e) = Len(other \o Body(blocks)) + Len(e)
      BY <2>1, <1>6, ConcatProperties
    <2> QED BY <2>1, <2>2, <1>4, <1>6, <1>7
  <1>9. Fits(symbols, other, blocks)
    <2>1. Len(w.file) <= MaxU64
      BY DEF w
    <2> QED BY <2>1, <1>7, <1>8 DEF Fits, lens
  <1> QED BY <1>5, <1>9 DEF w

-----------------------------------------------------------------------------
(* What a file on its way is *)

TravelInv(symbols) ==
    /\ file \in FilesOver(symbols)
    /\ \/ parts = Unaccounted
       \/ parts = Retired /\ LocateFooter(file) = "UnsupportedContainerFormat"
       \/ \E base, blocks : /\ Fits(symbols, base, blocks)
                            /\ parts = Written(base, blocks) /\ file = Wrapped(base, blocks)

\* append_trailer.
LEMMA AppendIs ==
    ASSUME NEW symbols, Alphabet(symbols), NEW base \in Seq(symbols), NEW blocks \in BlockLists(symbols),
           AppendTrailer(base, blocks).how = "ok"
    PROVE  /\ Fits(symbols, base, blocks) /\ AppendTrailer(base, blocks).file = Wrapped(base, blocks)
           /\ Wrapped(base, blocks) \in FilesOver(symbols)
  <1>1. blocks \in [Blocks -> Seq(symbols)]
    BY DEF BlockLists
  <1>2. Body(blocks) \in Seq(symbols) /\ Len(Body(blocks)) = LengthBefore(LensOf(blocks), 7)
    BY <1>1, BodyIs
  <1>3. Len(base \o Body(blocks)) = Len(base) + Len(Body(blocks))
    BY <1>2, ConcatProperties
  <1>4. /\ ~(Len(base \o Body(blocks)) + FooterSize(FORMAT_VERSION) > MaxU64)
        /\ AppendTrailer(base, blocks).file = Wrapped(base, blocks)
    BY DEF AppendTrailer, Wrapped, LensOf
  <1>5. Fits(symbols, base, blocks)
    <2>1. FooterSize(FORMAT_VERSION) = 14 /\ MaxU64 \in Nat /\ Len(base) \in Nat /\ Len(Body(blocks)) \in Nat
      BY <1>2, Sizes, ContainerAssumption
    <2> QED BY <2>1, <1>2, <1>3, <1>4 DEF Fits
  <1>6. Wrapped(base, blocks) \in FilesOver(symbols)
    BY <1>5, WrappedReads
  <1> QED BY <1>4, <1>5, <1>6

LEMMA TravelInitHolds ==
    ASSUME NEW symbols, Alphabet(symbols), TravelInit(symbols)
    PROVE  TravelInv(symbols)
  <1>1. file \in FilesOver(symbols)
    BY DEF TravelInit
  <1>2. CASE parts = Unaccounted
    BY <1>1, <1>2 DEF TravelInv
  <1>3. ASSUME NEW base \in Seq(symbols), NEW blocks \in BlockLists(symbols),
               AppendTrailer(base, blocks).how = "ok", file = AppendTrailer(base, blocks).file,
               parts = Written(base, blocks)
        PROVE  TravelInv(symbols)
    <2>1. Fits(symbols, base, blocks) /\ file = Wrapped(base, blocks)
      BY <1>3, AppendIs
    <2> QED BY <2>1, <1>1, <1>3 DEF TravelInv
  <1>4. ASSUME NEW v \in KnownVersions \ SupportedVersions, NEW front \in Seq(symbols), NEW f \in FooterFields,
               file = front \o Encode(v, f), parts = Retired
        PROVE  TravelInv(symbols)
    <2>1. LocateFooter(file) = "UnsupportedContainerFormat"
      BY <1>4, RetiredReads
    <2> QED BY <2>1, <1>1, <1>4 DEF TravelInv
  <1> QED BY <1>2, <1>3, <1>4 DEF TravelInit

LEMMA TravelStepHolds ==
    ASSUME NEW symbols, Alphabet(symbols), TravelInv(symbols), [TravelNext(symbols)]_fileVars
    PROVE  TravelInv(symbols)'
  <1>0. file \in FilesOver(symbols) /\ file \in Seq(symbols) /\ Len(file) \in Nat
    BY DEF TravelInv, FilesOver
  <1>1. ASSUME file' \in Seq(symbols), Len(file') <= MaxU64, parts' = Unaccounted
        PROVE  TravelInv(symbols)'
    BY <1>1 DEF TravelInv, FilesOver
  <1>2. ASSUME NEW base \in Seq(symbols), Graft(base), Len(file') <= MaxU64
        PROVE  TravelInv(symbols)'
    <2> DEFINE w == RewrapTrailer(file, base)
    <2>1. /\ w.how = "ok" /\ file' = w.file
          /\ parts' = IF parts.known = "written" THEN [parts EXCEPT !.base = base] ELSE parts
      BY <1>2 DEF Graft, Becomes
    <2>2. ReadContainerHead(file) = "ok" /\ file' \in Seq(symbols)
      BY <2>1, <1>0, RewrapIs, RewrapTyped
    <2>3. CASE parts = Unaccounted
      <3>1. parts' = Unaccounted
        BY <2>1, <2>3 DEF Unaccounted
      <3> QED BY <3>1, <2>2, <1>1, <1>2
    <2>4. CASE parts = Retired /\ LocateFooter(file) = "UnsupportedContainerFormat"
      BY <2>2, <2>4 DEF ReadContainerHead
    <2>5. ASSUME NEW onto, NEW blocks, Fits(symbols, onto, blocks),
                 parts = Written(onto, blocks), file = Wrapped(onto, blocks)
          PROVE  TravelInv(symbols)'
      <3>1. parts' = Written(base, blocks)
        BY <2>1, <2>5 DEF Written
      <3>2. file' = Wrapped(base, blocks) /\ Fits(symbols, base, blocks)
        BY <2>1, <2>5, <1>2, RewrapWrapped
      <3>3. file' \in FilesOver(symbols)
        BY <2>2, <1>2 DEF FilesOver
      <3> QED BY <3>1, <3>2, <3>3 DEF TravelInv
    <2> QED BY <2>3, <2>4, <2>5 DEF TravelInv
  <1>3. ASSUME NEW blocks \in BlockLists(symbols), Stack(blocks)
        PROVE  TravelInv(symbols)'
    <2>1. /\ AppendTrailer(file, blocks).how = "ok" /\ file' = AppendTrailer(file, blocks).file
          /\ parts' = Written(file, blocks)
      BY <1>3 DEF Stack, Becomes
    <2>2. Fits(symbols, file, blocks) /\ file' = Wrapped(file, blocks) /\ file' \in FilesOver(symbols)
      BY <2>1, <1>0, AppendIs
    <2> QED BY <2>1, <2>2 DEF TravelInv
  <1>4. ASSUME Strip, Len(file') <= MaxU64
        PROVE  TravelInv(symbols)'
    <2> DEFINE w == ReadBaseExecutable(file)
               n == Offset(FooterOf(file), 1)
    <2>1. w.how = "ok" /\ w.file # file /\ file' = w.file /\ parts' = Unaccounted
      BY <1>4 DEF Strip, Becomes
    <2>2. LocateFooter(file) = "found" /\ ~(n > FooterStart(file)) /\ w.file = SubSeq(file, 1, n)
      BY <2>1, LocateIs DEF ReadBaseExecutable
    <2>3. Len(file) >= 14
      BY <2>2, <1>0, FoundIs
    <2>4. FooterStart(file) \in Nat /\ Len(file) = FooterStart(file) + 14 /\ FooterOf(file) \in FooterFields
      BY <2>3, <1>0, FooterOfIs
    <2>5. n \in Nat /\ n <= Len(file)
      <3>1. n \in 0..MaxU64 /\ MaxU64 \in Nat
        BY <2>4, FieldsAre, Sizes
      <3> QED BY <3>1, <2>2, <2>4
    <2> HIDE DEF n, w
    <2>6. \A i \in 1..n : file[i] \in symbols
      BY <2>5, <1>0, ElementOfSeq
    <2>7. SubSeq(file, 1, n) \in Seq(symbols)
      BY <2>5, <2>6, SubSeqProperties
    <2> QED BY <2>1, <2>2, <2>7, <1>1, <1>4
  <1>5. ASSUME NEW i \in 1..Len(file), NEW s \in symbols, Alter(i, s), Len(file') <= MaxU64
        PROVE  TravelInv(symbols)'
    <2>1. file' = [file EXCEPT ![i] = s] /\ parts' = Unaccounted
      BY <1>5 DEF Alter, Becomes
    <2>2. file' \in Seq(symbols)
      BY <2>1, <1>0, ExceptSeq
    <2> QED BY <2>1, <2>2, <1>1, <1>5
  <1>6. ASSUME NEW n \in 0..Len(file), Cut(n), Len(file') <= MaxU64
        PROVE  TravelInv(symbols)'
    <2>1. file' = SubSeq(file, 1, n) /\ parts' = Unaccounted
      BY <1>6 DEF Cut, Becomes
    <2>2. \A i \in 1..n : file[i] \in symbols
      BY <1>0, ElementOfSeq
    <2>3. file' \in Seq(symbols)
      BY <2>1, <2>2, SubSeqProperties
    <2> QED BY <2>1, <2>3, <1>1, <1>6
  <1>7. CASE UNCHANGED fileVars
    BY <1>7 DEF TravelInv, fileVars
  <1> QED BY <1>2, <1>3, <1>4, <1>5, <1>6, <1>7 DEF TravelNext

LEMMA TravelInvIsEnough ==
    ASSUME NEW symbols, Alphabet(symbols), TravelInv(symbols)
    PROVE  ReadersInvertWriters
  <1>1. file \in FilesOver(symbols)
    BY DEF TravelInv
  <1>2. ReadContainerHead(file) = "ok" <=> Writable(file)
    BY <1>1, OkIsWritable, WritableIsOk
  <1>3. ASSUME parts.known = "written"
        PROVE  /\ ReadContainerHead(file) = "ok"
               /\ \A k \in Blocks : Block(file, FooterOf(file), k) = parts.blocks[k]
               /\ ReadBaseExecutable(file).file = parts.base
    <2>1. PICK base, blocks : /\ Fits(symbols, base, blocks)
                              /\ parts = Written(base, blocks) /\ file = Wrapped(base, blocks)
      BY <1>3 DEF TravelInv, Unaccounted, Retired
    <2>2. parts.base = base /\ parts.blocks = blocks
      BY <2>1 DEF Written
    <2>3. /\ ReadContainerHead(file) = "ok" /\ ReadBaseExecutable(file).file = base
          /\ \A k \in Blocks : Block(file, FooterOf(file), k) = blocks[k]
      BY <2>1, WrappedReads
    <2> QED BY <2>2, <2>3
  <1>4. ASSUME parts.known = "old"
        PROVE  /\ ReadContainerHead(file) = "UnsupportedContainerFormat"
               /\ ReadBaseExecutable(file).how = "UnsupportedContainerFormat"
    <2>1. LocateFooter(file) = "UnsupportedContainerFormat"
      BY <1>4 DEF TravelInv, Unaccounted, Written
    <2> QED BY <2>1 DEF ReadContainerHead, ReadBaseExecutable
  <1> QED BY <1>2, <1>3, <1>4 DEF ReadersInvertWriters

\* ReadersInvertWriters for every alphabet of bytes, every file of no more than
\* a u64's length and however often it is grafted, stacked, stripped, altered or
\* cut: validate_footer takes what append_trailer could have written and nothing
\* else, and what was written is read back from behind every other base
\* (append_trailer, rewrap_trailer, locate_footer, read_base_executable).
THEOREM ReadersSafety ==
    ASSUME NEW symbols, Alphabet(symbols)
    PROVE  TravelSpec(symbols) => []ReadersInvertWriters
  <1>1. TravelInit(symbols) => TravelInv(symbols)
    BY TravelInitHolds
  <1>2. TravelInv(symbols) /\ [TravelNext(symbols)]_fileVars => TravelInv(symbols)'
    BY TravelStepHolds
  <1>3. TravelInv(symbols) => ReadersInvertWriters
    BY TravelInvIsEnough
  <1> QED BY <1>1, <1>2, <1>3, PTL DEF TravelSpec
-----------------------------------------------------------------------------
(* The frames the window guard follows *)

\* f[i] is the state after i bytes of the input.
Follows(f, s, input, n) ==
    f = [i \in 0..n |-> IF i = 0 THEN s ELSE Advance(f[i - 1], input[i])]

LEMMA FollowExists ==
    ASSUME NEW s, NEW input, NEW n \in Nat
    PROVE  \E f : Follows(f, s, input, n)
  <1> DEFINE bad == {m \in Nat : ~ \E f : Follows(f, s, input, m)}
  <1>1. SUFFICES ASSUME bad # {} PROVE FALSE
    OBVIOUS
  <1>2. PICK m \in bad : \A j \in bad : m <= j
    <2>1. bad \in SUBSET Nat
      OBVIOUS
    <2> HIDE DEF bad
    <2> QED BY <1>1, <2>1, LeastNatural
  <1>3. m # 0
    <2> DEFINE z == [i \in 0..0 |-> s]
    <2>1. Follows(z, s, input, 0)
      BY DEF Follows
    <2> HIDE DEF z
    <2> QED BY <2>1
  <1>4. m - 1 \in Nat /\ m - 1 \notin bad
    BY <1>2, <1>3
  <1>5. PICK f : Follows(f, s, input, m - 1)
    BY <1>4
  <1> DEFINE g == [i \in 0..m |-> IF i = m THEN Advance(f[m - 1], input[m]) ELSE f[i]]
  <1>6. ASSUME NEW i \in 0..m PROVE g[i] = IF i = 0 THEN s ELSE Advance(g[i - 1], input[i])
    <2>1. CASE i = m
      <3>1. g[i] = Advance(f[m - 1], input[m])
        BY <2>1
      <3>2. g[i - 1] = f[m - 1]
        BY <1>4, <2>1
      <3> QED BY <1>3, <2>1, <3>1, <3>2
    <2>2. CASE i # m
      <3>1. i \in 0..(m - 1) /\ g[i] = f[i]
        BY <2>2
      <3>2. f[i] = IF i = 0 THEN s ELSE Advance(f[i - 1], input[i])
        BY <1>5, <3>1 DEF Follows
      <3>3. i # 0 => g[i - 1] = f[i - 1]
        BY <3>1
      <3> QED BY <3>1, <3>2, <3>3
    <2> QED BY <2>1, <2>2
  <1>7. g = [i \in 0..m |-> g[i]]
    OBVIOUS
  <1> HIDE DEF g
  <1>8. g = [i \in 0..m |-> IF i = 0 THEN s ELSE Advance(g[i - 1], input[i])]
    BY <1>6, <1>7
  <1>9. Follows(g, s, input, m)
    BY <1>8 DEF Follows
  <1> QED BY <1>2, <1>9

LEMMA FollowsAgree ==
    ASSUME NEW s, NEW input, NEW other, NEW m \in Nat, NEW n \in Nat, m <= n,
           \A i \in 1..m : input[i] = other[i],
           NEW f, NEW g, Follows(f, s, input, m), Follows(g, s, other, n)
    PROVE  \A i \in 0..m : f[i] = g[i]
  <1> DEFINE bad == {i \in 0..m : f[i] # g[i]}
  <1>1. SUFFICES ASSUME bad # {} PROVE FALSE
    OBVIOUS
  <1>2. PICK i \in bad : \A j \in bad : i <= j
    <2>1. bad \in SUBSET Nat
      OBVIOUS
    <2> HIDE DEF bad
    <2> QED BY <1>1, <2>1, LeastNatural
  <1>3. /\ f[i] = IF i = 0 THEN s ELSE Advance(f[i - 1], input[i])
        /\ g[i] = IF i = 0 THEN s ELSE Advance(g[i - 1], other[i])
    <2>1. i \in 0..m /\ i \in 0..n
      BY <1>2
    <2> QED BY <2>1 DEF Follows
  <1>4. i # 0
    BY <1>2, <1>3
  <1>5. i - 1 \in 0..m /\ i - 1 \notin bad /\ i \in 1..m
    BY <1>2, <1>4
  <1>6. f[i - 1] = g[i - 1] /\ input[i] = other[i]
    BY <1>5
  <1> QED BY <1>2, <1>3, <1>4, <1>6

LEMMA FollowIs ==
    ASSUME NEW s, NEW input, Len(input) \in Nat, NEW f, Follows(f, s, input, Len(input))
    PROVE  Follow(s, input) = f[Len(input)]
  <1> DEFINE c == CHOOSE g : Follows(g, s, input, Len(input))
  <1>1. Follows(c, s, input, Len(input))
    OBVIOUS
  <1>2. Follow(s, input) = c[Len(input)]
    BY DEF Follow, Follows
  <1> HIDE DEF c
  <1>3. \A i \in 0..Len(input) : c[i] = f[i]
    BY <1>1, FollowsAgree
  <1> QED BY <1>2, <1>3

\* The first n of a sequence.
Upto(s, n) == SubSeq(s, 1, n)

LEMMA UptoIs ==
    ASSUME NEW S, NEW s \in Seq(S), NEW n \in 0..Len(s)
    PROVE  Upto(s, n) \in Seq(S) /\ Len(Upto(s, n)) = n /\ \A i \in 1..n : Upto(s, n)[i] = s[i]
  <1>1. \A i \in 1..n : s[i] \in S
    BY ElementOfSeq
  <1>2. Len(s) \in Nat
    OBVIOUS
  <1> QED BY <1>1, <1>2, SubSeqProperties DEF Upto

\* A byte is followed behind those before it (WindowGuard::advance).
FollowedOn(s, input) ==
    /\ Follow(s, Upto(input, 0)) = s
    /\ \A n \in 1..Len(input) :
          Follow(s, Upto(input, n)) = Advance(Follow(s, Upto(input, n - 1)), input[n])

LEMMA FollowSteps ==
    ASSUME NEW S, NEW s, NEW input \in Seq(S)
    PROVE  FollowedOn(s, input)
  <1> DEFINE L == Len(input)
  <1>1. L \in Nat
    OBVIOUS
  <1>2. PICK f : Follows(f, s, input, L)
    BY <1>1, FollowExists
  <1>3. ASSUME NEW n \in 0..L PROVE Follow(s, Upto(input, n)) = f[n]
    <2>0. n \in Nat /\ n <= L
      BY <1>1
    <2>1. Len(Upto(input, n)) = n /\ \A i \in 1..n : Upto(input, n)[i] = input[i]
      BY UptoIs
    <2>2. PICK g : Follows(g, s, Upto(input, n), n)
      BY <2>0, FollowExists
    <2>3. Follow(s, Upto(input, n)) = g[n]
      BY <2>1, <2>2, FollowIs
    <2>4. \A i \in 0..n : g[i] = f[i]
      <3> HIDE DEF L
      <3>1. \A i \in 0..n : g[i] = f[i]
        <4> DEFINE r == Upto(input, n)
        <4>1. Follows(g, s, r, n) /\ \A i \in 1..n : r[i] = input[i]
          BY <2>1, <2>2
        <4> HIDE DEF r
        <4> QED BY ONLY <1>1, <1>2, <2>0, <4>1, FollowsAgree
      <3> QED BY <3>1
    <2> QED BY <2>3, <2>4
  <1>4. f[0] = s
    BY <1>1, <1>2 DEF Follows
  <1>5. ASSUME NEW n \in 1..L PROVE f[n] = Advance(f[n - 1], input[n])
    <2>1. n \in 0..L /\ n # 0
      BY <1>1
    <2> HIDE DEF L
    <2> QED BY <1>2, <2>1 DEF Follows
  <1>6. 0 \in 0..L /\ \A n \in 1..L : n \in 0..L /\ n - 1 \in 0..L
    BY <1>1
  <1> QED BY <1>3, <1>4, <1>5, <1>6 DEF FollowedOn

LEMMA UptoConcat ==
    ASSUME NEW S, NEW x \in Seq(S), NEW y \in Seq(S)
    PROVE  /\ x \o y \in Seq(S) /\ Len(x \o y) = Len(x) + Len(y)
           /\ \A i \in 1..Len(x) : (x \o y)[i] = x[i]
           /\ \A i \in 1..Len(y) : (x \o y)[Len(x) + i] = y[i]
           /\ Upto(x \o y, Len(x)) = x /\ Upto(x, Len(x)) = x
           /\ \A n \in 0..Len(y) : Upto(x \o y, Len(x) + n) = x \o Upto(y, n)
  <1> DEFINE z == x \o y
  <1>1. /\ z \in Seq(S) /\ Len(z) = Len(x) + Len(y)
        /\ \A i \in 1 .. Len(x) + Len(y) : z[i] = IF i <= Len(x) THEN x[i] ELSE y[i - Len(x)]
    BY ConcatProperties
  <1> HIDE DEF z
  <1>2. Len(x) \in Nat /\ Len(y) \in Nat
    OBVIOUS
  <1>3. /\ \A i \in 1..Len(x) : z[i] = x[i]
        /\ \A i \in 1..Len(y) : z[Len(x) + i] = y[i]
    <2>1. ASSUME NEW i \in 1..Len(y) PROVE z[Len(x) + i] = y[i]
      <3>1. Len(x) + i \in 1 .. Len(x) + Len(y) /\ ~(Len(x) + i <= Len(x)) /\ (Len(x) + i) - Len(x) = i
        BY <1>2
      <3> QED BY <1>1, <3>1
    <2> QED BY <1>1, <1>2, <2>1
  <1>4. ASSUME NEW n \in 0..Len(y) PROVE Upto(z, Len(x) + n) = x \o Upto(y, n)
    <2> DEFINE t == Upto(y, n)
               k == Len(x) + n
    <2>1. t \in Seq(S) /\ Len(t) = n /\ \A i \in 1..n : t[i] = y[i]
      BY UptoIs
    <2>2. k \in 0..Len(z) /\ k \in Nat
      BY <1>1, <1>2
    <2>3. Upto(z, k) \in Seq(S) /\ Len(Upto(z, k)) = k /\ \A i \in 1..k : Upto(z, k)[i] = z[i]
      BY <1>1, <2>2, UptoIs
    <2> HIDE DEF t
    <2>4. /\ x \o t \in Seq(S) /\ Len(x \o t) = k
          /\ \A i \in 1..k : (x \o t)[i] = IF i <= Len(x) THEN x[i] ELSE t[i - Len(x)]
      BY <2>1, ConcatProperties
    <2>5. ASSUME NEW i \in 1..k PROVE Upto(z, k)[i] = (x \o t)[i]
      <3>1. CASE i <= Len(x)
        <4>1. i \in 1..Len(x) /\ i \in 1..k
          BY <1>2, <3>1
        <4> QED BY <1>3, <2>3, <2>4, <3>1, <4>1
      <3>2. CASE ~(i <= Len(x))
        <4>1. i - Len(x) \in 1..n /\ i - Len(x) \in 1..Len(y) /\ Len(x) + (i - Len(x)) = i
          BY <1>2, <3>2
        <4>2. z[i] = y[i - Len(x)]
          BY <1>3, <4>1
        <4>3. t[i - Len(x)] = y[i - Len(x)]
          BY <2>1, <4>1
        <4> QED BY <2>3, <2>4, <3>2, <4>2, <4>3
      <3> QED BY <3>1, <3>2
    <2> HIDE DEF k
    <2>6. Upto(z, k) = x \o t
      BY <2>2, <2>3, <2>4, <2>5, SeqEqual
    <2> QED BY <2>6 DEF t, k
  <1>5. Upto(x, Len(x)) = x
    BY SubSeqFull DEF Upto
  <1>6. Upto(z, Len(x)) = x
    <2>1. 0 \in 0..Len(y) /\ Len(x) + 0 = Len(x)
      BY <1>2
    <2>2. Upto(y, 0) = <<>>
      BY SubSeqEmpty DEF Upto
    <2>3. x \o <<>> = x
      BY ConcatEmptySeq
    <2>4. Upto(z, Len(x) + 0) = x \o Upto(y, 0)
      BY <1>4, <2>1
    <2> QED BY <2>1, <2>2, <2>3, <2>4
  <1> QED BY <1>1, <1>3, <1>4, <1>5, <1>6 DEF z

\* Reads may fall anywhere: two of them are followed as one (WindowGuard::read).
LEMMA FollowConcat ==
    ASSUME NEW S, NEW s, NEW x \in Seq(S), NEW y \in Seq(S)
    PROVE  Follow(s, x \o y) = Follow(Follow(s, x), y)
  <1> DEFINE z == x \o y
             m == Len(x)
             after == Follow(s, x)
             bad == {n \in 0..Len(y) : Follow(s, Upto(z, m + n)) # Follow(after, Upto(y, n))}
  <1>1. /\ z \in Seq(S) /\ Len(z) = m + Len(y) /\ m \in Nat /\ Len(y) \in Nat
        /\ Upto(z, m) = x /\ Upto(y, Len(y)) = y /\ Upto(z, Len(z)) = z
        /\ \A i \in 1..Len(y) : z[m + i] = y[i]
    <2>1. z \in Seq(S)
      BY ConcatProperties
    <2>2. m \in Nat /\ Len(y) \in Nat
      OBVIOUS
    <2>3. Upto(y, Len(y)) = y
      BY UptoConcat
    <2>4. Upto(z, Len(z)) = z
      <3> HIDE DEF z
      <3> QED BY <2>1, UptoConcat
    <2>5. Len(z) = m + Len(y) /\ Upto(z, m) = x /\ \A i \in 1..Len(y) : z[m + i] = y[i]
      BY UptoConcat
    <2> QED BY <2>1, <2>2, <2>3, <2>4, <2>5
  <1>2. /\ Follow(after, Upto(y, 0)) = after
        /\ \A n \in 1..Len(y) : Follow(after, Upto(y, n)) = Advance(Follow(after, Upto(y, n - 1)), y[n])
    <2> HIDE DEF after
    <2>1. FollowedOn(after, y)
      BY FollowSteps
    <2> QED BY <2>1 DEF FollowedOn
  <1>3. \A n \in 1..Len(z) : Follow(s, Upto(z, n)) = Advance(Follow(s, Upto(z, n - 1)), z[n])
    <2> HIDE DEF z
    <2>1. FollowedOn(s, z)
      BY <1>1, FollowSteps
    <2> QED BY <2>1 DEF FollowedOn
  <1> HIDE DEF z, m
  <1>4. bad = {}
    <2> SUFFICES ASSUME bad # {} PROVE FALSE
      OBVIOUS
    <2>1. PICK n \in bad : \A j \in bad : n <= j
      <3>1. bad \in SUBSET Nat
        OBVIOUS
      <3> HIDE DEF bad
      <3> QED BY <3>1, LeastNatural
    <2>2. n # 0
      <3>1. m + 0 = m
        BY <1>1
      <3> QED BY <1>1, <1>2, <2>1, <3>1 DEF after
    <2> HIDE DEF after
    <2>3. /\ n \in 1..Len(y) /\ n - 1 \in 0..Len(y) /\ n - 1 \notin bad
          /\ m + n \in 1..Len(z) /\ (m + n) - 1 = m + (n - 1)
      BY <1>1, <2>1, <2>2
    <2>4. Follow(s, Upto(z, m + (n - 1))) = Follow(after, Upto(y, n - 1))
      BY <2>3
    <2>5. Follow(s, Upto(z, m + n)) = Advance(Follow(s, Upto(z, m + (n - 1))), z[m + n])
      BY <1>3, <2>3
    <2>6. z[m + n] = y[n]
      BY <1>1, <2>3
    <2>7. Follow(after, Upto(y, n)) = Advance(Follow(after, Upto(y, n - 1)), y[n])
      BY <1>2, <2>3
    <2> QED BY <2>1, <2>4, <2>5, <2>6, <2>7
  <1> HIDE DEF after
  <1>5. Len(y) \in 0..Len(y)
    BY <1>1
  <1>6. Follow(s, Upto(z, m + Len(y))) = Follow(after, Upto(y, Len(y)))
    BY <1>4, <1>5
  <1> QED BY <1>1, <1>6 DEF z, after

LEMMA FollowApart ==
    ASSUME NEW S, NEW s, NEW x \in Seq(S), NEW y \in Seq(S), NEW z \in Seq(S)
    PROVE  Follow(s, (x \o y) \o z) = Follow(Follow(s, x), y \o z)
  <1>1. (x \o y) \o z = x \o (y \o z)
    BY ConcatAssociative
  <1>2. y \o z \in Seq(S)
    BY ConcatProperties
  <1> DEFINE w == y \o z
  <1>3. w \in Seq(S) /\ (x \o y) \o z = x \o w
    BY <1>1, <1>2
  <1> HIDE DEF w
  <1>4. Follow(s, x \o w) = Follow(Follow(s, x), w)
    BY <1>3, FollowConcat
  <1> QED BY <1>3, <1>4 DEF w

Associates(x, y, z) == (x \o y) \o z = x \o (y \o z)

LEMMA Associate ==
    ASSUME NEW S, NEW x \in Seq(S), NEW y \in Seq(S), NEW z \in Seq(S)
    PROVE  Associates(x, y, z)
  BY ConcatAssociative DEF Associates

Regrouped(S, h, a, y, z) ==
    /\ h \o a \in Seq(S) /\ y \o z \in Seq(S)
    /\ (h \o (a \o y)) \o z \in Seq(S)
    /\ (h \o (a \o y)) \o z = (h \o a) \o (y \o z)

LEMMA Regroup ==
    ASSUME NEW S, NEW h \in Seq(S), NEW a \in Seq(S), NEW y \in Seq(S), NEW z \in Seq(S)
    PROVE  Regrouped(S, h, a, y, z)
  <1>0. h \in Seq(S) /\ a \in Seq(S) /\ y \in Seq(S)
    OBVIOUS
  <1>1. (h \o a) \o y = h \o (a \o y)
    BY ONLY <1>0, ConcatAssociative
  <1> DEFINE u == h \o a
  <1>2. u \in Seq(S) /\ y \o z \in Seq(S)
    BY ConcatProperties
  <1> HIDE DEF u
  <1>3. (u \o y) \o z = u \o (y \o z)
    <2>1. u \in Seq(S) /\ y \in Seq(S) /\ z \in Seq(S)
      BY <1>2
    <2>2. Associates(u, y, z)
      BY ONLY <2>1, Associate
    <2> QED BY ONLY <2>2 DEF Associates
  <1> DEFINE v == y \o z
  <1>4. u \o v \in Seq(S)
    <2>1. v \in Seq(S)
      BY <1>2
    <2> HIDE DEF v
    <2> QED BY <1>2, <2>1, ConcatProperties
  <1> QED BY <1>1, <1>2, <1>3, <1>4 DEF u, Regrouped

Peeled(h, a, y, c, rest) == h \o ((a \o (y \o c)) \o rest) = (((h \o a) \o y) \o c) \o rest

LEMMA Peel ==
    ASSUME NEW S, NEW h \in Seq(S), NEW a \in Seq(S), NEW y \in Seq(S), NEW c \in Seq(S), NEW rest \in Seq(S)
    PROVE  Peeled(h, a, y, c, rest)
  <1>0. h \in Seq(S) /\ a \in Seq(S) /\ y \in Seq(S) /\ c \in Seq(S) /\ rest \in Seq(S)
    OBVIOUS
  <1> DEFINE w == y \o c
             v == a \o w
             u == h \o a
  <1>1. w \in Seq(S) /\ u \in Seq(S)
    BY ONLY <1>0, ConcatProperties
  <1>2. u \o w = (u \o y) \o c
    <2>1. u \in Seq(S) /\ y \in Seq(S) /\ c \in Seq(S)
      BY <1>0, <1>1
    <2> HIDE DEF u
    <2>2. Associates(u, y, c)
      BY ONLY <2>1, Associate
    <2> QED BY <2>2 DEF Associates
  <1> HIDE DEF w
  <1>3. v \in Seq(S)
    BY ONLY <1>0, <1>1, ConcatProperties
  <1>4. h \o v = u \o w
    <2>1. h \in Seq(S) /\ a \in Seq(S) /\ w \in Seq(S)
      BY <1>0, <1>1
    <2>2. Associates(h, a, w)
      BY ONLY <2>1, Associate
    <2> QED BY <2>2 DEF Associates
  <1> HIDE DEF v, u
  <1>5. (h \o v) \o rest = h \o (v \o rest)
    <2>1. h \in Seq(S) /\ v \in Seq(S) /\ rest \in Seq(S)
      BY <1>0, <1>3
    <2> QED BY ONLY <2>1, ConcatAssociative, SMTT(30)
  <1> QED BY ONLY <1>2, <1>4, <1>5 DEF Peeled, u, v, w

\* Nothing is followed past a refusal.
LEMMA RefusedStays ==
    ASSUME NEW S, NEW s, s.field.kind \in Refusals, NEW x \in Seq(S)
    PROVE  Follow(s, x) = s
  <1> DEFINE bad == {n \in 0..Len(x) : Follow(s, Upto(x, n)) # s}
  <1>1. /\ Len(x) \in Nat /\ Upto(x, Len(x)) = x
        /\ Follow(s, Upto(x, 0)) = s
        /\ \A n \in 1..Len(x) : Follow(s, Upto(x, n)) = Advance(Follow(s, Upto(x, n - 1)), x[n])
    <2>1. Len(x) \in Nat
      OBVIOUS
    <2>2. Upto(x, Len(x)) = x
      BY UptoConcat
    <2>3. FollowedOn(s, x)
      BY FollowSteps
    <2> QED BY <2>1, <2>2, <2>3 DEF FollowedOn
  <1>2. bad = {}
    <2> SUFFICES ASSUME bad # {} PROVE FALSE
      OBVIOUS
    <2>1. PICK n \in bad : \A j \in bad : n <= j
      <3>1. bad \in SUBSET Nat
        OBVIOUS
      <3> HIDE DEF bad
      <3> QED BY <3>1, LeastNatural
    <2>2. n # 0
      BY <1>1, <2>1
    <2>3. n \in 1..Len(x) /\ n - 1 \in 0..Len(x) /\ n - 1 \notin bad
      BY <1>1, <2>1, <2>2
    <2>4. Follow(s, Upto(x, n)) = Advance(s, x[n])
      BY <1>1, <2>3
    <2>5. Advance(s, x[n]) = s
      BY DEF Advance
    <2> QED BY <2>1, <2>4, <2>5
  <1>3. Len(x) \in 0..Len(x)
    BY <1>1
  <1> QED BY <1>1, <1>2, <1>3

LEMMA UptoSteps ==
    ASSUME NEW S, NEW s \in Seq(S)
    PROVE  /\ Upto(s, 0) = <<>>
           /\ \A n \in 1..Len(s) : Upto(s, n) = Append(Upto(s, n - 1), s[n])
  <1>1. Upto(s, 0) = <<>>
    BY SubSeqEmpty DEF Upto
  <1>2. ASSUME NEW n \in 1..Len(s) PROVE Upto(s, n) = Append(Upto(s, n - 1), s[n])
    <2>1. n \in Int /\ 1 <= n /\ \A i \in 1..n : s[i] \in S
      BY ElementOfSeq
    <2>2. 1 \in 1..Len(s) /\ n \in 1..Len(s)
      BY <2>1
    <2> QED BY <2>1, <2>2, SubSeqRecursiveSecond DEF Upto
  <1> QED BY <1>1, <1>2

\* A field is collected, byte by byte, and acted on once it is whole
\* (WindowGuard::advance, complete).
LEMMA FollowField ==
    ASSUME NEW S, NEW f, f.kind \notin Refusals, NEW b \in Seq(S), Len(b) # 0, FieldLen(f) = Len(b)
    PROVE  /\ Follow(Collect(f), b) = Complete(f, b)
           /\ \A n \in 0..(Len(b) - 1) :
                 Follow(Collect(f), Upto(b, n)) = [remaining |-> 0, field |-> f, have |-> Upto(b, n)]
  <1> DEFINE part(n) == [remaining |-> 0, field |-> f, have |-> Upto(b, n)]
             bad == {n \in 0..(Len(b) - 1) : Follow(Collect(f), Upto(b, n)) # part(n)}
  <1>1. Len(b) \in Nat \ {0} /\ Upto(b, Len(b)) = b
    BY UptoConcat
  <1>2. FollowedOn(Collect(f), b)
    BY FollowSteps
  <1>3. /\ Upto(b, 0) = <<>>
        /\ \A n \in 1..Len(b) : Upto(b, n) = Append(Upto(b, n - 1), b[n]) /\ Len(Upto(b, n)) = n
    <2>1. \A n \in 1..Len(b) : Len(Upto(b, n)) = n
      BY UptoIs
    <2> QED BY <2>1, UptoSteps
  <1>4. ASSUME NEW n \in 1..Len(b)
        PROVE  Advance(part(n - 1), b[n]) = IF n < Len(b) THEN part(n) ELSE Complete(f, b)
    <2>1. Append(part(n - 1).have, b[n]) = Upto(b, n) /\ Len(Upto(b, n)) = n
      BY <1>3
    <2>2. ~(n < Len(b)) => Upto(b, n) = b
      <3>1. ~(n < Len(b)) => n = Len(b)
        BY <1>1
      <3> QED BY <1>1, <3>1
    <2>3. Advance(part(n - 1), b[n]) =
            IF n < Len(b) THEN [part(n - 1) EXCEPT !.have = Upto(b, n)] ELSE Complete(f, Upto(b, n))
      <3>1. part(n - 1).field = f /\ part(n - 1).remaining = 0 /\ ~(0 > 0)
        OBVIOUS
      <3> HIDE DEF part
      <3> QED BY <2>1, <3>1 DEF Advance
    <2>4. [part(n - 1) EXCEPT !.have = Upto(b, n)] = part(n)
      OBVIOUS
    <2> QED BY <2>2, <2>3, <2>4
  <1>5. part(0) = Collect(f)
    BY <1>3 DEF Collect
  <1> HIDE DEF part
  <1>6. bad = {}
    <2> SUFFICES ASSUME bad # {} PROVE FALSE
      OBVIOUS
    <2>1. PICK n \in bad : \A j \in bad : n <= j
      <3>1. bad \in SUBSET Nat
        BY <1>1
      <3> HIDE DEF bad
      <3> QED BY <3>1, LeastNatural
    <2>2. n # 0
      BY <1>2, <1>5, <2>1 DEF FollowedOn
    <2>3. n \in 1..Len(b) /\ n < Len(b) /\ n - 1 \in 0..(Len(b) - 1) /\ n - 1 \notin bad
      BY <1>1, <2>1, <2>2
    <2>4. Follow(Collect(f), Upto(b, n)) = Advance(part(n - 1), b[n])
      BY <1>2, <2>3 DEF FollowedOn
    <2> QED BY <1>4, <2>1, <2>3, <2>4
  <1>7. Follow(Collect(f), Upto(b, Len(b))) = Advance(part(Len(b) - 1), b[Len(b)])
    <2>1. Len(b) \in 1..Len(b) /\ Len(b) - 1 \in 0..(Len(b) - 1)
      BY <1>1
    <2> QED BY <1>2, <1>6, <2>1 DEF FollowedOn
  <1>8. Follow(Collect(f), b) = Complete(f, b)
    <2>1. Len(b) \in 1..Len(b) /\ ~(Len(b) < Len(b))
      BY <1>1
    <2> QED BY <1>1, <1>4, <1>7, <2>1
  <1>9. \A n \in 0..(Len(b) - 1) : Follow(Collect(f), Upto(b, n)) = part(n)
    BY <1>6
  <1> QED BY <1>8, <1>9 DEF part

\* Bytes that are passed are passed, whatever they are.
LEMMA FollowSkip ==
    ASSUME NEW S, NEW f, f.kind \notin Refusals, NEW x \in Seq(S)
    PROVE  Follow(Skip(Len(x), f), x) = Collect(f)
  <1> DEFINE L == Len(x)
             bad == {n \in 0..L : Follow(Skip(L, f), Upto(x, n)) # Skip(L - n, f)}
  <1>1. L \in Nat /\ Upto(x, L) = x
    BY UptoConcat
  <1>2. FollowedOn(Skip(L, f), x)
    BY FollowSteps
  <1>3. bad = {}
    <2> SUFFICES ASSUME bad # {} PROVE FALSE
      OBVIOUS
    <2>1. PICK n \in bad : \A j \in bad : n <= j
      <3>1. bad \in SUBSET Nat
        BY <1>1
      <3> HIDE DEF bad
      <3> QED BY <3>1, LeastNatural
    <2>2. n # 0
      <3>1. L - 0 = L
        BY <1>1
      <3> QED BY <1>2, <2>1, <3>1 DEF FollowedOn
    <2>3. n \in 1..L /\ n - 1 \in 0..L /\ n - 1 \notin bad /\ L - (n - 1) > 0 /\ (L - (n - 1)) - 1 = L - n
      BY <1>1, <2>1, <2>2
    <2>4. Follow(Skip(L, f), Upto(x, n)) = Advance(Skip(L - (n - 1), f), x[n])
      BY <1>2, <2>3 DEF FollowedOn
    <2> DEFINE k == L - (n - 1)
    <2>5. Advance(Skip(k, f), x[n]) = Skip(k - 1, f)
      <3>1. k > 0
        BY <2>3
      <3> HIDE DEF k
      <3> QED BY <3>1 DEF Advance, Skip
    <2> QED BY <2>1, <2>3, <2>4, <2>5
  <1>4. L \in 0..L /\ L - L = 0
    BY <1>1
  <1>5. Follow(Skip(L, f), x) = Skip(0, f)
    BY <1>1, <1>3, <1>4
  <1> QED BY <1>5 DEF Skip, Collect

-----------------------------------------------------------------------------
(* Lists of lists *)

\* f[i] is the first i of them in a row.
Flattens(f, ss, n) == f = [i \in 1..n |-> IF i = 1 THEN ss[i] ELSE f[i - 1] \o ss[i]]

LEMMA FlattenExists ==
    ASSUME NEW S, NEW ss \in Seq(Seq(S)), NEW n \in 0..Len(ss)
    PROVE  \E f \in [1..n -> Seq(S)] : Flattens(f, ss, n)
  <1> DEFINE bad == {m \in 0..Len(ss) : ~ \E f \in [1..m -> Seq(S)] : Flattens(f, ss, m)}
  <1>0. Len(ss) \in Nat
    OBVIOUS
  <1>1. SUFFICES ASSUME bad # {} PROVE FALSE
    OBVIOUS
  <1>2. PICK m \in bad : \A j \in bad : m <= j
    <2>1. bad \in SUBSET Nat
      BY <1>0
    <2> HIDE DEF bad
    <2> QED BY <1>1, <2>1, LeastNatural
  <1>3. m # 0
    <2> DEFINE z == [i \in 1..0 |-> <<>>]
    <2>1. z \in [1..0 -> Seq(S)] /\ Flattens(z, ss, 0)
      BY DEF Flattens
    <2> HIDE DEF z
    <2> QED BY <2>1
  <1>4. m - 1 \in 0..Len(ss) /\ m - 1 \notin bad /\ m \in 1..Len(ss)
    <2>1. m \in 0..Len(ss)
      BY <1>2
    <2> HIDE DEF bad
    <2> QED BY <1>0, <1>2, <1>3, <2>1
  <1>5. PICK f \in [1..(m - 1) -> Seq(S)] : Flattens(f, ss, m - 1)
    BY <1>4
  <1> DEFINE last == IF m = 1 THEN ss[m] ELSE f[m - 1] \o ss[m]
             g == [i \in 1..m |-> IF i = m THEN last ELSE f[i]]
  <1>6. ss[m] \in Seq(S) /\ last \in Seq(S)
    <2>1. ss[m] \in Seq(S)
      BY <1>4, ElementOfSeq
    <2>2. CASE m = 1
      BY <2>1, <2>2
    <2>3. CASE m # 1
      <3>1. f[m - 1] \in Seq(S)
        BY <1>4, <2>3
      <3>2. f[m - 1] \o ss[m] \in Seq(S)
        BY <2>1, <3>1, ConcatProperties
      <3> QED BY <2>3, <3>2
    <2> QED BY <2>1, <2>2, <2>3
  <1>7. ASSUME NEW i \in 1..m
        PROVE  g[i] = (IF i = 1 THEN ss[i] ELSE g[i - 1] \o ss[i]) /\ g[i] \in Seq(S)
    <2>1. CASE i = m
      <3>1. g[i] = last
        BY <2>1
      <3>2. i # 1 => g[i - 1] = f[m - 1]
        BY <1>4, <2>1
      <3> QED BY <1>6, <2>1, <3>1, <3>2
    <2>2. CASE i # m
      <3>1. i \in 1..(m - 1) /\ g[i] = f[i]
        BY <1>4, <2>2
      <3>2. f[i] = IF i = 1 THEN ss[i] ELSE f[i - 1] \o ss[i]
        BY <1>5, <3>1 DEF Flattens
      <3>3. i # 1 => g[i - 1] = f[i - 1]
        BY <1>4, <3>1
      <3> QED BY <3>1, <3>2, <3>3
    <2> QED BY <2>1, <2>2
  <1>8. g = [i \in 1..m |-> g[i]]
    OBVIOUS
  <1> HIDE DEF g
  <1>9. g = [i \in 1..m |-> IF i = 1 THEN ss[i] ELSE g[i - 1] \o ss[i]] /\ g \in [1..m -> Seq(S)]
    BY <1>7, <1>8
  <1>10. Flattens(g, ss, m)
    BY <1>9 DEF Flattens
  <1> QED BY <1>2, <1>9, <1>10

Agree(f, g, n) == \A i \in 1..n : f[i] = g[i]

LEMMA FlattensAgree ==
    ASSUME NEW ss, NEW tt, NEW m \in Nat, NEW n \in Nat, m <= n, Agree(ss, tt, m),
           NEW f, NEW g, Flattens(f, ss, m), Flattens(g, tt, n)
    PROVE  Agree(f, g, m)
  <1> DEFINE bad == {i \in 1..m : f[i] # g[i]}
  <1>1. SUFFICES ASSUME bad # {} PROVE FALSE
    BY DEF Agree
  <1>2. PICK i \in bad : \A j \in bad : i <= j
    <2>1. bad \in SUBSET Nat
      OBVIOUS
    <2> HIDE DEF bad
    <2> QED BY <1>1, <2>1, LeastNatural
  <1>3. /\ f[i] = IF i = 1 THEN ss[i] ELSE f[i - 1] \o ss[i]
        /\ g[i] = IF i = 1 THEN tt[i] ELSE g[i - 1] \o tt[i]
    <2>1. i \in 1..m /\ i \in 1..n
      BY <1>2
    <2> QED BY <2>1 DEF Flattens
  <1>4. ss[i] = tt[i]
    BY <1>2 DEF Agree
  <1>5. i # 1
    BY <1>2, <1>3, <1>4
  <1>6. i - 1 \in 1..m /\ i - 1 \notin bad
    BY <1>2, <1>5
  <1>7. f[i - 1] = g[i - 1]
    BY <1>6
  <1> QED BY <1>2, <1>3, <1>4, <1>5, <1>7

\* The first n of a list of lists, in a row.
FlatTo(ss, n) == FlattenSeq(Upto(ss, n))

LEMMA FlatSteps ==
    ASSUME NEW S, NEW ss \in Seq(Seq(S))
    PROVE  /\ FlatTo(ss, 0) = <<>> /\ FlatTo(ss, Len(ss)) = FlattenSeq(ss)
           /\ \A n \in 0..Len(ss) : FlatTo(ss, n) \in Seq(S)
           /\ \A n \in 1..Len(ss) : ss[n] \in Seq(S) /\ FlatTo(ss, n) = FlatTo(ss, n - 1) \o ss[n]
  <1> DEFINE L == Len(ss)
  <1>1. L \in Nat /\ L \in 0..L
    OBVIOUS
  <1>2. PICK f \in [1..L -> Seq(S)] : Flattens(f, ss, L)
    BY <1>1, FlattenExists
  <1>3. ASSUME NEW n \in 1..L PROVE FlatTo(ss, n) = f[n]
    <2> DEFINE r == Upto(ss, n)
               c == CHOOSE g : Flattens(g, r, n)
    <2>0. n \in Nat /\ n <= L /\ n # 0 /\ n \in 0..L
      BY <1>1
    <2>1. r \in Seq(Seq(S)) /\ Len(r) = n /\ \A i \in 1..n : r[i] = ss[i]
      BY <2>0, UptoIs
    <2> HIDE DEF r
    <2>2. \E g : Flattens(g, r, n)
      <3>1. n \in 0..Len(r)
        BY <2>0, <2>1
      <3> QED BY <2>1, <3>1, FlattenExists
    <2>3. Flattens(c, r, n)
      BY <2>2
    <2>4. FlattenSeq(r) = c[n]
      BY <2>0, <2>1 DEF FlattenSeq, Flattens
    <2> HIDE DEF c, L
    <2>5. \A i \in 1..n : c[i] = f[i]
      <3>1. Agree(r, ss, n)
        BY <2>1 DEF Agree
      <3>2. Agree(c, f, n)
        BY ONLY <1>1, <1>2, <2>0, <2>3, <3>1, FlattensAgree
      <3> QED BY <3>2 DEF Agree
    <2>6. n \in 1..n
      BY <2>0
    <2> QED BY <2>4, <2>5, <2>6 DEF FlatTo, r
  <1>4. FlatTo(ss, 0) = <<>>
    <2>1. Upto(ss, 0) = <<>>
      BY SubSeqEmpty DEF Upto
    <2> QED BY <2>1 DEF FlatTo, FlattenSeq
  <1>5. ASSUME NEW n \in 1..L
        PROVE  ss[n] \in Seq(S) /\ FlatTo(ss, n) = FlatTo(ss, n - 1) \o ss[n] /\ FlatTo(ss, n) \in Seq(S)
    <2>1. ss[n] \in Seq(S)
      BY ElementOfSeq
    <2>2. f[n] = IF n = 1 THEN ss[n] ELSE f[n - 1] \o ss[n]
      <3> HIDE DEF L
      <3> QED BY <1>2 DEF Flattens
    <2>3. CASE n = 1
      <3>1. <<>> \o ss[n] = ss[n]
        BY <2>1, ConcatEmptySeq
      <3>2. n - 1 = 0
        BY <2>3
      <3> QED BY <1>2, <1>3, <1>4, <2>1, <2>2, <2>3, <3>1, <3>2
    <2>4. CASE n # 1
      <3>1. n - 1 \in 1..L
        BY <1>1, <2>4
      <3> QED BY <1>2, <1>3, <2>1, <2>2, <2>4, <3>1
    <2> QED BY <2>3, <2>4
  <1>6. FlatTo(ss, L) = FlattenSeq(ss)
    <2>1. Upto(ss, L) = ss
      BY UptoConcat
    <2> QED BY <2>1 DEF FlatTo
  <1>7. ASSUME NEW n \in 0..L PROVE FlatTo(ss, n) \in Seq(S)
    <2>1. CASE n = 0
      <3>1. <<>> \in Seq(S)
        BY EmptySeq
      <3> QED BY <1>4, <2>1, <3>1
    <2>2. CASE n # 0
      <3>1. n \in 1..L
        BY <1>1, <2>2
      <3> QED BY <1>5, <3>1
    <2> QED BY <2>1, <2>2
  <1> QED BY <1>4, <1>5, <1>6, <1>7

LEMMA FlattenIs ==
    ASSUME NEW S, NEW ss \in Seq(Seq(S))
    PROVE  FlattenSeq(ss) \in Seq(S)
  <1>1. FlatTo(ss, Len(ss)) = FlattenSeq(ss) /\ \A n \in 0..Len(ss) : FlatTo(ss, n) \in Seq(S)
    BY ONLY ss \in Seq(Seq(S)), FlatSteps
  <1>2. Len(ss) \in 0..Len(ss)
    OBVIOUS
  <1> QED BY <1>1, <1>2

\* What is in the row begins with the first n.
LEMMA FlatBegins ==
    ASSUME NEW S, NEW ss \in Seq(Seq(S)), NEW n \in 0..Len(ss)
    PROVE  \E rest \in Seq(S) : FlattenSeq(ss) = FlatTo(ss, n) \o rest
  <1> DEFINE L == Len(ss)
             bad == {m \in n..L : ~ \E rest \in Seq(S) : FlatTo(ss, m) = FlatTo(ss, n) \o rest}
  <1>1. /\ L \in Nat /\ n \in Nat /\ n <= L /\ FlatTo(ss, L) = FlattenSeq(ss)
        /\ \A m \in 0..L : FlatTo(ss, m) \in Seq(S)
        /\ \A m \in 1..L : ss[m] \in Seq(S) /\ FlatTo(ss, m) = FlatTo(ss, m - 1) \o ss[m]
    <2>1. L \in Nat /\ n \in Nat /\ n <= L
      OBVIOUS
    <2>2. /\ FlatTo(ss, L) = FlattenSeq(ss)
          /\ \A m \in 0..L : FlatTo(ss, m) \in Seq(S)
          /\ \A m \in 1..L : ss[m] \in Seq(S) /\ FlatTo(ss, m) = FlatTo(ss, m - 1) \o ss[m]
      BY ONLY FlatSteps, ss \in Seq(Seq(S)) DEF L
    <2> QED BY ONLY <2>1, <2>2
  <1>2. bad = {}
    <2> SUFFICES ASSUME bad # {} PROVE FALSE
      OBVIOUS
    <2>1. PICK m \in bad : \A j \in bad : m <= j
      <3>1. bad \in SUBSET Nat
        BY <1>1
      <3> HIDE DEF bad
      <3> QED BY <3>1, LeastNatural
    <2>2. m # n
      <3>1. FlatTo(ss, n) = FlatTo(ss, n) \o <<>> /\ <<>> \in Seq(S)
        BY <1>1, ConcatEmptySeq
      <3> QED BY <2>1, <3>1
    <2>3. m - 1 \in n..L /\ m - 1 \notin bad /\ m \in 1..L
      <3>1. m \in n..L
        BY <2>1
      <3> HIDE DEF bad, L
      <3> QED BY <1>1, <2>1, <2>2, <3>1
    <2>4. PICK rest \in Seq(S) : FlatTo(ss, m - 1) = FlatTo(ss, n) \o rest
      BY <2>3
    <2>5. FlatTo(ss, m) = FlatTo(ss, n) \o (rest \o ss[m]) /\ rest \o ss[m] \in Seq(S)
      <3>1. FlatTo(ss, m) = (FlatTo(ss, n) \o rest) \o ss[m] /\ ss[m] \in Seq(S) /\ FlatTo(ss, n) \in Seq(S)
        BY <1>1, <2>3, <2>4
      <3> DEFINE a == FlatTo(ss, n)
                 c == ss[m]
      <3>2. a \in Seq(S) /\ c \in Seq(S)
        BY <3>1
      <3> HIDE DEF a, c
      <3>3. (a \o rest) \o c = a \o (rest \o c)
        BY <3>2, ConcatAssociative, SMTT(30)
      <3>4. rest \o c \in Seq(S)
        BY <3>2, ConcatProperties
      <3> QED BY <3>1, <3>3, <3>4 DEF a, c
    <2> QED BY <2>1, <2>5
  <1>3. L \in n..L
    BY <1>1
  <1> QED BY <1>1, <1>2, <1>3

-----------------------------------------------------------------------------
(* Fields *)

LEMMA ListIs ==
    ASSUME NEW S, NEW n \in Nat, NEW f \in [1..n -> S]
    PROVE  f \in Seq(S) /\ Len(f) = n
  <1>1. f \in Seq(S)
    BY SeqDef
  <1>2. Len(f) \in Nat /\ DOMAIN f = 1..Len(f) /\ DOMAIN f = 1..n
    BY <1>1, LenProperties
  <1>3. Len(f) = n
    <2>1. n # 0 => n \in 1..Len(f)
      BY <1>2
    <2>2. Len(f) # 0 => Len(f) \in 1..n
      BY <1>2
    <2> QED BY <1>2, <2>1, <2>2
  <1> QED BY <1>1, <1>3

\* f[i] is the number the last i bytes make.
Values(f, seq, n) == f = [i \in 0..n |-> IF i = 0 THEN 0 ELSE f[i - 1] * 256 + seq[n + 1 - i]]

\* Three bytes, and four (le_u64).
LEMMA LeOfThree ==
    ASSUME NEW s, Len(s) = 3, NEW a \in Nat, s[1] = a, NEW b \in Nat, s[2] = b, NEW c \in Nat, s[3] = c
    PROVE  Le(s) = a + 256 * b + 65536 * c
  <1> DEFINE w == [i \in 0..3 |-> CASE i = 0 -> 0
                     [] i = 1 -> c
                     [] i = 2 -> c * 256 + b
                     [] OTHER -> (c * 256 + b) * 256 + a]
             f == CHOOSE g : Values(g, s, 3)
  <1>1. w[0] = 0 /\ w[1] = c /\ w[2] = c * 256 + b /\ w[3] = (c * 256 + b) * 256 + a
    OBVIOUS
  <1>2. w = [i \in 0..3 |-> w[i]]
    OBVIOUS
  <1>3. 0 * 256 + c = c /\ (c * 256 + b) * 256 + a = a + 256 * b + 65536 * c
    BY SMT
  <1> HIDE DEF w
  <1>4. ASSUME NEW i \in 0..3 PROVE w[i] = IF i = 0 THEN 0 ELSE w[i - 1] * 256 + s[3 + 1 - i]
    <2>1. CASE i = 0
      BY <1>1, <2>1
    <2>2. CASE i = 1
      <3>1. i # 0 /\ i - 1 = 0 /\ 3 + 1 - i = 3
        BY <2>2
      <3> QED BY <1>1, <1>3, <2>2, <3>1
    <2>3. CASE i = 2
      <3>1. i # 0 /\ i - 1 = 1 /\ 3 + 1 - i = 2
        BY <2>3
      <3> QED BY <1>1, <1>3, <2>3, <3>1
    <2>4. CASE i = 3
      <3>1. i # 0 /\ i - 1 = 2 /\ 3 + 1 - i = 1
        BY <2>4
      <3> QED BY <1>1, <1>3, <2>4, <3>1
    <2>5. i = 0 \/ i = 1 \/ i = 2 \/ i = 3
      OBVIOUS
    <2> QED BY <2>1, <2>2, <2>3, <2>4, <2>5
  <1>5. Values(w, s, 3)
    BY <1>2, <1>4 DEF Values
  <1>6. Values(f, s, 3)
    BY <1>5
  <1>7. Le(s) = f[3]
    BY DEF Le, Values
  <1> HIDE DEF f
  <1>8. /\ f[0] = 0
        /\ f[1] = f[0] * 256 + s[3]
        /\ f[2] = f[1] * 256 + s[2]
        /\ f[3] = f[2] * 256 + s[1]
    BY <1>6 DEF Values
  <1> QED BY <1>3, <1>7, <1>8

LEMMA LeOfFour ==
    ASSUME NEW s, Len(s) = 4, NEW a \in Nat, s[1] = a, NEW b \in Nat, s[2] = b, NEW c \in Nat, s[3] = c, NEW d \in Nat, s[4] = d
    PROVE  Le(s) = a + 256 * b + 65536 * c + 16777216 * d
  <1> DEFINE w == [i \in 0..4 |-> CASE i = 0 -> 0
                     [] i = 1 -> d
                     [] i = 2 -> d * 256 + c
                     [] i = 3 -> (d * 256 + c) * 256 + b
                     [] OTHER -> ((d * 256 + c) * 256 + b) * 256 + a]
             f == CHOOSE g : Values(g, s, 4)
  <1>1. w[0] = 0 /\ w[1] = d /\ w[2] = d * 256 + c /\ w[3] = (d * 256 + c) * 256 + b /\ w[4] = ((d * 256 + c) * 256 + b) * 256 + a
    OBVIOUS
  <1>2. w = [i \in 0..4 |-> w[i]]
    OBVIOUS
  <1>3. 0 * 256 + d = d /\ ((d * 256 + c) * 256 + b) * 256 + a = a + 256 * b + 65536 * c + 16777216 * d
    BY SMT
  <1> HIDE DEF w
  <1>4. ASSUME NEW i \in 0..4 PROVE w[i] = IF i = 0 THEN 0 ELSE w[i - 1] * 256 + s[4 + 1 - i]
    <2>1. CASE i = 0
      BY <1>1, <2>1
    <2>2. CASE i = 1
      <3>1. i # 0 /\ i - 1 = 0 /\ 4 + 1 - i = 4
        BY <2>2
      <3> QED BY <1>1, <1>3, <2>2, <3>1
    <2>3. CASE i = 2
      <3>1. i # 0 /\ i - 1 = 1 /\ 4 + 1 - i = 3
        BY <2>3
      <3> QED BY <1>1, <1>3, <2>3, <3>1
    <2>4. CASE i = 3
      <3>1. i # 0 /\ i - 1 = 2 /\ 4 + 1 - i = 2
        BY <2>4
      <3> QED BY <1>1, <1>3, <2>4, <3>1
    <2>5. CASE i = 4
      <3>1. i # 0 /\ i - 1 = 3 /\ 4 + 1 - i = 1
        BY <2>5
      <3> QED BY <1>1, <1>3, <2>5, <3>1
    <2>6. i = 0 \/ i = 1 \/ i = 2 \/ i = 3 \/ i = 4
      OBVIOUS
    <2> QED BY <2>1, <2>2, <2>3, <2>4, <2>5, <2>6
  <1>5. Values(w, s, 4)
    BY <1>2, <1>4 DEF Values
  <1>6. Values(f, s, 4)
    BY <1>5
  <1>7. Le(s) = f[4]
    BY DEF Le, Values
  <1> HIDE DEF f
  <1>8. /\ f[0] = 0
        /\ f[1] = f[0] * 256 + s[4]
        /\ f[2] = f[1] * 256 + s[3]
        /\ f[3] = f[2] * 256 + s[2]
        /\ f[4] = f[3] * 256 + s[1]
    BY <1>6 DEF Values
  <1> QED BY <1>3, <1>7, <1>8

\* le_u64 reads back what a field was written with.
LEMMA LeReadsBack ==
    ASSUME NEW v \in Nat
    PROVE  /\ \A n \in {3, 4} : LittleEndian(v, n) \in Seq(Nat) /\ Len(LittleEndian(v, n)) = n
           /\ v \div 65536 < 256 => Le(LittleEndian(v, 3)) = v
           /\ v \div 256^3 \in Byte => Le(LittleEndian(v, 4)) = v
  <1> DEFINE b == LittleEndian(v, 3)
             c == LittleEndian(v, 4)
  <1>0. 256^(1 - 1) = 1 /\ 256^(2 - 1) = 256 /\ 256^(3 - 1) = 65536 /\ 256^(4 - 1) = 16777216 /\ 256^3 = 16777216
    BY SMT
  <1>1. ASSUME NEW n \in {3, 4} PROVE LittleEndian(v, n) \in Seq(Nat) /\ Len(LittleEndian(v, n)) = n
    <2>1. n \in Nat /\ \A i \in 1..n : (v \div 256^(i - 1)) % 256 \in Nat
      <3>1. \A i \in 1..4 : (v \div 256^(i - 1)) % 256 \in Nat
        <4>1. \A i \in 1..4 : i = 1 \/ i = 2 \/ i = 3 \/ i = 4
          OBVIOUS
        <4> QED BY <1>0, <4>1, SMT
      <3> QED BY <3>1
    <2>2. LittleEndian(v, n) \in [1..n -> Nat]
      BY <2>1 DEF LittleEndian
    <2> QED BY <2>1, <2>2, ListIs
  <1>2. /\ b[1] = v % 256 /\ b[2] = (v \div 256) % 256 /\ b[3] = (v \div 65536) % 256
        /\ c[1] = v % 256 /\ c[2] = (v \div 256) % 256 /\ c[3] = (v \div 65536) % 256
        /\ c[4] = (v \div 16777216) % 256
    <2>1. /\ b[1] = (v \div 256^(1 - 1)) % 256 /\ b[2] = (v \div 256^(2 - 1)) % 256 /\ b[3] = (v \div 256^(3 - 1)) % 256
          /\ c[1] = (v \div 256^(1 - 1)) % 256 /\ c[2] = (v \div 256^(2 - 1)) % 256 /\ c[3] = (v \div 256^(3 - 1)) % 256
          /\ c[4] = (v \div 256^(4 - 1)) % 256
      BY DEF LittleEndian
    <2>2. v \div 1 = v
      BY SMT
    <2> QED BY <1>0, <2>1, <2>2
  <1>3. v \div 65536 < 256 => Le(b) = v
    <2> DEFINE x == v % 256
               y == (v \div 256) % 256
               z == (v \div 65536) % 256
    <2>1. Le(b) = x + 256 * y + 65536 * z
      <3>1. Len(b) = 3 /\ b[1] = x /\ b[2] = y /\ b[3] = z
        BY <1>1, <1>2
      <3>2. x \in Nat /\ y \in Nat /\ z \in Nat
        BY SMT
      <3> HIDE DEF b, x, y, z
      <3> QED BY <3>1, <3>2, LeOfThree
    <2> HIDE DEF b
    <2>2. (v % 256) + 256 * ((v \div 256) % 256) + 65536 * (v \div 65536) = v
      BY SMT
    <2>3. v \div 65536 < 256 => (v \div 65536) % 256 = v \div 65536
      BY SMT
    <2> QED BY <2>1, <2>2, <2>3
  <1>4. v \div 256^3 \in Byte => Le(c) = v
    <2> DEFINE x == v % 256
               y == (v \div 256) % 256
               z == (v \div 65536) % 256
               t == (v \div 16777216) % 256
    <2>1. Le(c) = x + 256 * y + 65536 * z + 16777216 * t
      <3>1. Len(c) = 4 /\ c[1] = x /\ c[2] = y /\ c[3] = z /\ c[4] = t
        BY <1>1, <1>2
      <3>2. x \in Nat /\ y \in Nat /\ z \in Nat /\ t \in Nat
        BY SMT
      <3> HIDE DEF c, x, y, z, t
      <3> QED BY <3>1, <3>2, LeOfFour
    <2> HIDE DEF c
    <2>2. (v % 256) + 256 * ((v \div 256) % 256) + 65536 * ((v \div 65536) % 256) + 16777216 * (v \div 16777216) = v
      BY SMT
    <2>3. v \div 256^3 \in Byte => (v \div 16777216) % 256 = v \div 16777216
      BY <1>0, SMT DEF Byte
    <2> QED BY <2>1, <2>2, <2>3
  <1> QED BY <1>1, <1>3, <1>4

-----------------------------------------------------------------------------
(* Frames *)

LEMMA HeaderLenIs ==
    ASSUME NEW d \in Byte
    PROVE  HeaderLen(d) \in Nat \ {0}
  <1>0. 2^0 = 1 /\ 2^1 = 2 /\ 2^2 = 4 /\ 2^5 = 32 /\ 2^6 = 64
    BY SMT
  <1>1. Bits(d, 0, 2) \in 0..3
    BY <1>0, SMT DEF Bits, Byte
  <1>2. DictionaryLen(d) \in Nat
    <2>1. Bits(d, 0, 2) + 1 \in 1..4
      BY <1>1
    <2> DEFINE k == Bits(d, 0, 2) + 1
    <2>2. k \in 1..4
      BY <2>1
    <2> HIDE DEF k
    <2>3. <<0, 1, 2, 4>>[k] \in Nat
      <3>1. k = 1 \/ k = 2 \/ k = 3 \/ k = 4
        BY <2>2
      <3> QED BY <3>1
    <2> QED BY <2>3 DEF DictionaryLen, k
  <1>3. ContentSizeLen(d) \in Nat /\ (SingleSegment(d) => ContentSizeLen(d) # 0)
    BY DEF ContentSizeLen
  <1> QED BY <1>2, <1>3 DEF HeaderLen

BlockRecord == [type : 0..3, size : 0..(2^21 - 1), last : BOOLEAN]
Content(b) == IF b.type = 1 THEN 1 ELSE b.size
BlockHead(b) == LittleEndian(b.size * 8 + b.type * 2 + (IF b.last THEN 1 ELSE 0), 3)
Trailer(d) == IF HasChecksum(d) THEN 4 ELSE 0

LEMMA ZeroBytesAre ==
    ASSUME NEW n \in Nat
    PROVE  ZeroBytes(n) \in Seq(Nat) /\ Len(ZeroBytes(n)) = n
  <1>1. ZeroBytes(n) \in [1..n -> Nat]
    BY DEF ZeroBytes
  <1> QED BY <1>1, ListIs

\* What complete makes of a block header.
LEMMA BlockIs ==
    ASSUME NEW b \in BlockRecord, NEW d
    PROVE  /\ BlockHead(b) \in Seq(Nat) /\ Len(BlockHead(b)) = 3 /\ Content(b) \in Nat
           /\ BlockBytes(b) = BlockHead(b) \o ZeroBytes(Content(b))
           /\ b.type = 3 => Complete(Field("block", d), BlockHead(b)) = Refused("UnreadableFrame")
           /\ b.type # 3 /\ ~b.last =>
                 Complete(Field("block", d), BlockHead(b)) = Skip(Content(b), Field("block", d))
           /\ b.type # 3 /\ b.last =>
                 Complete(Field("block", d), BlockHead(b)) = Skip(Content(b) + Trailer(d), Field("magic", 0))
  <1> DEFINE l == IF b.last THEN 1 ELSE 0
             h == b.size * 8 + b.type * 2 + l
  <1>0. 2^0 = 1 /\ 2^1 = 2 /\ 2^2 = 4
    BY SMT
  <1>1. b.type \in 0..3 /\ b.size \in Nat /\ b.size < 2^21 /\ b.last \in BOOLEAN /\ l \in 0..1
    <2>1. b.type \in 0..3 /\ b.size \in 0..(2^21 - 1) /\ b.last \in BOOLEAN
      BY DEF BlockRecord
    <2>2. 2^21 \in Nat
      BY SMT
    <2> DEFINE k == 2^21
    <2> HIDE DEF k
    <2>3. b.type \in 0..3 /\ b.size \in 0..(k - 1) /\ b.last \in BOOLEAN /\ k \in Nat
      BY <2>1, <2>2 DEF k
    <2>4. b.size \in Nat /\ b.size < k
      BY <2>3, SMT
    <2> QED BY <2>1, <2>4 DEF k
  <1> HIDE DEF l
  <1>2. h \in Nat /\ h \div 65536 < 256
    <2> DEFINE x == b.size
               y == b.type
    <2>1. x \in Nat /\ x < 2^21 /\ y \in 0..3 /\ l \in 0..1
      BY <1>1
    <2> HIDE DEF x, y
    <2>2. x * 8 + y * 2 + l \in Nat /\ (x * 8 + y * 2 + l) \div 65536 < 256
      BY ONLY <2>1, SMT
    <2> QED BY <2>2 DEF x, y
  <1>3. h \div 8 = b.size /\ (h \div 2) % 4 = b.type /\ h % 2 = l
    <2> DEFINE x == b.size
               y == b.type
    <2>1. x \in Nat /\ y \in 0..3 /\ l \in 0..1
      BY <1>1
    <2> HIDE DEF x, y
    <2>2. (x * 8 + y * 2 + l) \div 8 = x /\ ((x * 8 + y * 2 + l) \div 2) % 4 = y /\ (x * 8 + y * 2 + l) % 2 = l
      BY ONLY <2>1, SMT
    <2> QED BY <2>2 DEF x, y
  <1>4. BlockHead(b) = LittleEndian(h, 3)
    BY DEF BlockHead, l
  <1> HIDE DEF h
  <1>5. BlockHead(b) \in Seq(Nat) /\ Len(BlockHead(b)) = 3 /\ Le(BlockHead(b)) = h
    BY <1>2, <1>4, LeReadsBack
  <1>6. Content(b) \in Nat
    BY <1>1 DEF Content
  <1>7. BlockBytes(b) = BlockHead(b) \o ZeroBytes(Content(b))
    BY DEF BlockBytes, BlockHead, Content
  <1>8. Bits(h, 1, 2) = b.type /\ Bits(h, 0, 1) = l
    <2>1. h \div 1 = h
      BY <1>2, SMT
    <2> QED BY <1>0, <1>3, <2>1 DEF Bits
  <1>9. Complete(Field("block", d), BlockHead(b)) = AfterBlock(d, h)
    BY <1>5 DEF Complete, Field
  <1>10. AfterBlock(d, h) = IF b.type = 3 THEN Refused("UnreadableFrame")
                            ELSE IF ~b.last THEN Skip(Content(b), Field("block", d))
                            ELSE Skip(Content(b) + Trailer(d), Field("magic", 0))
    <2>1. l = 0 <=> ~b.last
      BY <1>1 DEF l
    <2> QED BY <1>3, <1>8, <2>1 DEF AfterBlock, Content, Trailer
  <1> QED BY <1>5, <1>6, <1>7, <1>9, <1>10

\* The fields the guard is between, and those it waits for.
LEMMA Kinds ==
    ASSUME NEW d
    PROVE  /\ Field("magic", 0).kind \notin Refusals /\ Field("block", d).kind \notin Refusals
           /\ Field("descriptor", 0).kind \notin Refusals /\ Field("header", d).kind \notin Refusals
           /\ Field("skippable", 0).kind \notin Refusals
           /\ FieldLen(Field("magic", 0)) = 4 /\ FieldLen(Field("skippable", 0)) = 4
           /\ FieldLen(Field("descriptor", 0)) = 1 /\ FieldLen(Field("header", d)) = HeaderLen(d)
           /\ FieldLen(Field("block", d)) = 3
  BY DEF Field, FieldLen, Refusals

\* A block is passed, and with the last one what is behind it.
LEMMA FollowBlock ==
    ASSUME NEW b \in BlockRecord, b.type # 3, NEW d
    PROVE  /\ BlockBytes(b) \in Seq(Nat)
           /\ ~b.last => Follow(Collect(Field("block", d)), BlockBytes(b)) = Collect(Field("block", d))
           /\ b.last => \A z \in Seq(Nat) : Len(z) = Trailer(d) =>
                 Follow(Collect(Field("block", d)), BlockBytes(b) \o z) = Collect(Field("magic", 0))
  <1> DEFINE h == BlockHead(b)
             c == ZeroBytes(Content(b))
             s == Collect(Field("block", d))
  <1>1. /\ h \in Seq(Nat) /\ Len(h) = 3 /\ Content(b) \in Nat /\ BlockBytes(b) = h \o c
        /\ ~b.last => Complete(Field("block", d), h) = Skip(Content(b), Field("block", d))
        /\ b.last => Complete(Field("block", d), h) = Skip(Content(b) + Trailer(d), Field("magic", 0))
    BY BlockIs
  <1>2. c \in Seq(Nat) /\ Len(c) = Content(b)
    BY <1>1, ZeroBytesAre
  <1>3. Follow(s, h) = Complete(Field("block", d), h)
    <2>1. Field("block", d).kind \notin Refusals /\ FieldLen(Field("block", d)) = Len(h) /\ Len(h) # 0
      BY <1>1, Kinds
    <2> HIDE DEF h
    <2> QED BY <1>1, <2>1, FollowField
  <1> HIDE DEF h, c, s
  <1>4. BlockBytes(b) \in Seq(Nat)
    BY <1>1, <1>2, ConcatProperties
  <1>5. ~b.last => Follow(s, BlockBytes(b)) = s
    <2>1. Follow(s, h \o c) = Follow(Follow(s, h), c)
      BY <1>1, <1>2, FollowConcat
    <2>2. Follow(Skip(Len(c), Field("block", d)), c) = Collect(Field("block", d))
      BY <1>2, Kinds, FollowSkip
    <2> QED BY <1>1, <1>2, <1>3, <2>1, <2>2 DEF s
  <1>6. ASSUME b.last, NEW z \in Seq(Nat), Len(z) = Trailer(d)
        PROVE  Follow(s, BlockBytes(b) \o z) = Collect(Field("magic", 0))
    <2>0. h \in Seq(Nat) /\ c \in Seq(Nat) /\ z \in Seq(Nat) /\ Len(c) = Content(b) /\ Len(z) = Trailer(d)
      BY <1>1, <1>2, <1>6
    <2>1. c \o z \in Seq(Nat) /\ Len(c \o z) = Content(b) + Trailer(d)
      BY ONLY <2>0, ConcatProperties
    <2>2. Follow(s, (h \o c) \o z) = Follow(Follow(s, h), c \o z)
      <3> DEFINE T == Nat
      <3>1. h \in Seq(T) /\ c \in Seq(T) /\ z \in Seq(T)
        BY ONLY <2>0
      <3> HIDE DEF T
      <3> QED BY ONLY <3>1, FollowApart
    <2>4. Follow(Skip(Len(c \o z), Field("magic", 0)), c \o z) = Collect(Field("magic", 0))
      BY <2>1, Kinds, FollowSkip
    <2> QED BY <1>1, <1>3, <1>6, <2>1, <2>2, <2>4
  <1> QED BY <1>4, <1>5, <1>6 DEF s

BlocksOf(blocks) == [i \in DOMAIN blocks |-> BlockBytes(blocks[i])]

LEMMA BlocksAre ==
    ASSUME NEW blocks \in Seq(BlockRecord)
    PROVE  /\ BlocksOf(blocks) \in Seq(Seq(Nat)) /\ Len(BlocksOf(blocks)) = Len(blocks) /\ Len(blocks) \in Nat
           /\ \A i \in 1..Len(blocks) : blocks[i] \in BlockRecord /\ BlocksOf(blocks)[i] = BlockBytes(blocks[i])
  <1>1. Len(blocks) \in Nat /\ DOMAIN blocks = 1..Len(blocks) /\ \A i \in 1..Len(blocks) : blocks[i] \in BlockRecord
    BY LenProperties, ElementOfSeq
  <1>2. ASSUME NEW b \in BlockRecord PROVE BlockBytes(b) \in Seq(Nat)
    <2>1. BlockHead(b) \in Seq(Nat) /\ Content(b) \in Nat /\ BlockBytes(b) = BlockHead(b) \o ZeroBytes(Content(b))
      BY BlockIs
    <2>2. ZeroBytes(Content(b)) \in Seq(Nat)
      BY <2>1, ZeroBytesAre
    <2> QED BY <2>1, <2>2, ConcatProperties
  <1>3. BlocksOf(blocks) \in [1..Len(blocks) -> Seq(Nat)]
    BY <1>1, <1>2 DEF BlocksOf
  <1>4. BlocksOf(blocks) \in Seq(Seq(Nat)) /\ Len(BlocksOf(blocks)) = Len(blocks)
    <2> DEFINE n == Len(blocks)
               l == BlocksOf(blocks)
               T == Seq(Nat)
    <2>1. n \in Nat /\ l \in [1..n -> T]
      BY <1>1, <1>3
    <2> HIDE DEF n, l, T
    <2>2. l \in Seq(T) /\ Len(l) = n
      BY <2>1, ListIs
    <2> QED BY <2>2 DEF n, l, T
  <1> QED BY <1>1, <1>4 DEF BlocksOf

\* The blocks of a frame are passed up to the last.
LEMMA FollowBlocks ==
    ASSUME NEW blocks \in Seq(BlockRecord), NEW d, NEW n \in 0..Len(blocks),
           \A i \in 1..n : blocks[i].type # 3 /\ ~blocks[i].last
    PROVE  /\ FlatTo(BlocksOf(blocks), n) \in Seq(Nat)
           /\ Follow(Collect(Field("block", d)), FlatTo(BlocksOf(blocks), n)) = Collect(Field("block", d))
  <1> DEFINE bs == BlocksOf(blocks)
             s == Collect(Field("block", d))
             bad == {m \in 0..n : Follow(s, FlatTo(bs, m)) # s}
  <1>1. /\ bs \in Seq(Seq(Nat)) /\ Len(bs) = Len(blocks) /\ Len(blocks) \in Nat
        /\ \A i \in 1..Len(blocks) : blocks[i] \in BlockRecord /\ bs[i] = BlockBytes(blocks[i])
    BY BlocksAre
  <1> HIDE DEF bs
  <1>2. /\ FlatTo(bs, 0) = <<>> /\ \A m \in 0..Len(bs) : FlatTo(bs, m) \in Seq(Nat)
        /\ \A m \in 1..Len(bs) : bs[m] \in Seq(Nat) /\ FlatTo(bs, m) = FlatTo(bs, m - 1) \o bs[m]
    BY <1>1, FlatSteps
  <1>3. bad = {}
    <2> SUFFICES ASSUME bad # {} PROVE FALSE
      OBVIOUS
    <2>1. PICK m \in bad : \A j \in bad : m <= j
      <3>1. bad \in SUBSET Nat
        BY <1>1
      <3> HIDE DEF bad
      <3> QED BY <3>1, LeastNatural
    <2>2. m # 0
      <3>1. FollowedOn(s, <<>>) /\ Upto(<<>>, 0) = <<>>
        <4>1. <<>> \in Seq(Nat)
          BY EmptySeq
        <4> QED BY <4>1, FollowSteps, UptoSteps
      <3> QED BY <1>2, <2>1, <3>1 DEF FollowedOn
    <2>3. m \in 1..n /\ m \in 1..Len(bs) /\ m - 1 \in 0..n /\ m - 1 \in 0..Len(bs) /\ m - 1 \notin bad
      BY <1>1, <2>1, <2>2
    <2>4. Follow(s, FlatTo(bs, m - 1)) = s
      BY <2>3
    <2>5. Follow(s, bs[m]) = s
      <3>1. blocks[m] \in BlockRecord /\ blocks[m].type # 3 /\ ~blocks[m].last /\ bs[m] = BlockBytes(blocks[m])
        BY <1>1, <2>3
      <3> QED BY <3>1, FollowBlock
    <2> HIDE DEF s
    <2>6. Follow(s, FlatTo(bs, m)) = Follow(Follow(s, FlatTo(bs, m - 1)), bs[m])
      <3> DEFINE x == FlatTo(bs, m - 1)
                 y == bs[m]
      <3>1. x \in Seq(Nat) /\ y \in Seq(Nat) /\ FlatTo(bs, m) = x \o y
        BY <1>2, <2>3
      <3> HIDE DEF x, y
      <3>2. Follow(s, x \o y) = Follow(Follow(s, x), y)
        BY <3>1, FollowConcat
      <3> QED BY <3>1, <3>2 DEF x, y
    <2> QED BY <2>1, <2>4, <2>5, <2>6
  <1>4. n \in 0..n /\ n \in 0..Len(bs)
    BY <1>1
  <1> QED BY <1>2, <1>3, <1>4 DEF bs, s

-----------------------------------------------------------------------------
(* Refusals *)

FrameStart == Collect(Field("magic", 0))

\* The byte at completes the first field refused, with the error.
RefusedAt(x, at, error) ==
    /\ at \in 1..Len(x)
    /\ Follow(FrameStart, Upto(x, at)) = Refused(error) /\ error \in Refusals
    /\ Follow(FrameStart, Upto(x, at - 1)).field.kind \notin Refusals

LEMMA UptoWithin ==
    ASSUME NEW S, NEW x \in Seq(S), NEW y \in Seq(S), NEW n \in 0..Len(x)
    PROVE  Upto(x \o y, n) = Upto(x, n)
  <1> DEFINE z == x \o y
  <1>1. z \in Seq(S) /\ Len(z) = Len(x) + Len(y) /\ \A i \in 1..Len(x) : z[i] = x[i]
    BY UptoConcat
  <1>2. Len(x) \in Nat /\ Len(y) \in Nat
    OBVIOUS
  <1> HIDE DEF z
  <1>3. n \in 0..Len(z)
    BY <1>1, <1>2
  <1> DEFINE a == Upto(z, n)
             b == Upto(x, n)
  <1>4. a \in Seq(S) /\ Len(a) = n /\ \A i \in 1..n : a[i] = z[i]
    BY <1>1, <1>3, UptoIs
  <1>5. b \in Seq(S) /\ Len(b) = n /\ \A i \in 1..n : b[i] = x[i]
    BY UptoIs
  <1> HIDE DEF a, b
  <1>6. \A i \in 1..n : a[i] = b[i]
    BY <1>1, <1>2, <1>4, <1>5
  <1>7. a = b
    BY <1>4, <1>5, <1>6, SeqEqual
  <1> QED BY <1>7 DEF a, b, z

\* A field is refused with its last byte, whatever is behind it.
LEMMA FieldRefuses ==
    ASSUME NEW x \in Seq(Nat), NEW y \in Seq(Nat), NEW z \in Seq(Nat), NEW f, NEW error \in Refusals,
           Follow(FrameStart, x) = Collect(f), f.kind \notin Refusals, FieldLen(f) = Len(y), Len(y) # 0,
           Complete(f, y) = Refused(error)
    PROVE  RefusedAt((x \o y) \o z, Len(x) + Len(y), error)
  <1> DEFINE n == Len(y) - 1
             w == x \o y
  <1>1. /\ Len(x) \in Nat /\ Len(y) \in Nat /\ n \in 0..Len(y) /\ n \in 0..(Len(y) - 1)
        /\ (Len(x) + Len(y)) - 1 = Len(x) + n
    <2>1. Len(x) \in Nat /\ Len(y) \in Nat
      OBVIOUS
    <2> QED BY <2>1
  <1>2. /\ w \in Seq(Nat) /\ Len(w) = Len(x) + Len(y)
        /\ Upto(w, Len(x) + n) = x \o Upto(y, n) /\ Upto(w, Len(w)) = w
    <2>1. w \in Seq(Nat) /\ Len(w) = Len(x) + Len(y) /\ \A m \in 0..Len(y) : Upto(w, Len(x) + m) = x \o Upto(y, m)
      BY UptoConcat
    <2> HIDE DEF w, n
    <2>2. Upto(w, Len(w)) = w
      BY <2>1, UptoConcat
    <2> QED BY <1>1, <2>1, <2>2
  <1>3. /\ Follow(Collect(f), y) = Complete(f, y)
        /\ Follow(Collect(f), Upto(y, n)) = [remaining |-> 0, field |-> f, have |-> Upto(y, n)]
    <2> HIDE DEF n
    <2> QED BY <1>1, FollowField
  <1>4. Follow(FrameStart, w) = Refused(error)
    <2>1. Follow(FrameStart, x \o y) = Follow(Follow(FrameStart, x), y)
      BY FollowConcat
    <2> QED BY <1>3, <2>1
  <1>5. Follow(FrameStart, Upto(w, Len(x) + n)).field.kind \notin Refusals
    <2> DEFINE u == Upto(y, n)
    <2>1. u \in Seq(Nat)
      BY <1>1, UptoIs
    <2> HIDE DEF u, w, n
    <2>2. Follow(FrameStart, x \o u) = Follow(Follow(FrameStart, x), u)
      BY <2>1, FollowConcat
    <2>3. Follow(FrameStart, Upto(w, Len(x) + n)) = [remaining |-> 0, field |-> f, have |-> u]
      BY <1>2, <1>3, <2>2 DEF u
    <2> QED BY <2>3
  <1> HIDE DEF w, n
  <1>6. /\ Upto(w \o z, Len(x) + Len(y)) = w
        /\ Upto(w \o z, Len(x) + n) = Upto(w, Len(x) + n)
        /\ Len(w \o z) = Len(w) + Len(z)
    <2>1. Len(x) + n \in 0..Len(w) /\ Len(w) \in 0..Len(w)
      BY <1>1, <1>2
    <2> DEFINE k == Len(x) + n
    <2>2. k \in 0..Len(w)
      BY <2>1
    <2> HIDE DEF k
    <2>3. Upto(w \o z, k) = Upto(w, k)
      BY <1>2, <2>2, UptoWithin
    <2>4. Upto(w \o z, Len(w)) = w
      <3> DEFINE m == Len(w)
      <3>1. m \in 0..Len(w) /\ Upto(w, m) = w
        BY <1>2, <2>1
      <3> HIDE DEF m
      <3>2. Upto(w \o z, m) = Upto(w, m)
        BY <1>2, <3>1, UptoWithin
      <3> QED BY <3>1, <3>2 DEF m
    <2>5. Len(w \o z) = Len(w) + Len(z)
      BY <1>2, ConcatProperties
    <2> QED BY <1>2, <2>3, <2>4, <2>5 DEF k
  <1>7. Len(x) + Len(y) \in 1..Len(w \o z)
    <2>1. Len(z) \in Nat
      OBVIOUS
    <2> QED BY <1>1, <1>2, <1>6, <2>1
  <1> QED BY <1>1, <1>4, <1>5, <1>6, <1>7 DEF RefusedAt, w

\* What passes whole is passed, before what is refused and behind it.
LEMMA RefusedBehind ==
    ASSUME NEW x \in Seq(Nat), NEW y \in Seq(Nat), NEW z \in Seq(Nat), Follow(FrameStart, x) = FrameStart,
           NEW at, NEW error, RefusedAt(y, at, error)
    PROVE  RefusedAt((x \o y) \o z, Len(x) + at, error)
  <1> DEFINE w == x \o y
  <1>1. /\ Len(x) \in Nat /\ Len(y) \in Nat /\ at \in 0..Len(y) /\ at - 1 \in 0..Len(y) /\ at \in 1..Len(y)
        /\ (Len(x) + at) - 1 = Len(x) + (at - 1)
    <2>1. Len(x) \in Nat /\ Len(y) \in Nat /\ at \in 1..Len(y)
      BY DEF RefusedAt
    <2> QED BY <2>1
  <1>2. w \in Seq(Nat) /\ Len(w) = Len(x) + Len(y) /\ \A n \in 0..Len(y) : Upto(w, Len(x) + n) = x \o Upto(y, n)
    BY UptoConcat
  <1>3. ASSUME NEW n \in 0..Len(y)
        PROVE  Follow(FrameStart, Upto(w \o z, Len(x) + n)) = Follow(FrameStart, Upto(y, n))
    <2> DEFINE k == Len(x) + n
               u == Upto(y, n)
    <2>1. k \in 0..Len(w)
      BY <1>1, <1>2
    <2>2. u \in Seq(Nat)
      BY UptoIs
    <2>3. Upto(w, k) = x \o u
      BY <1>2
    <2> HIDE DEF w, k, u
    <2>4. Upto(w \o z, k) = Upto(w, k)
      BY <1>2, <2>1, UptoWithin
    <2>5. Follow(FrameStart, x \o u) = Follow(Follow(FrameStart, x), u)
      BY <2>2, FollowConcat
    <2> QED BY <2>3, <2>4, <2>5 DEF k, u
  <1> HIDE DEF w
  <1>4. Len(x) + at \in 1..Len(w \o z)
    <2>1. Len(z) \in Nat
      OBVIOUS
    <2>2. Len(w \o z) = Len(w) + Len(z)
      BY <1>2, ConcatProperties
    <2> QED BY <1>1, <1>2, <2>1, <2>2
  <1> QED BY <1>1, <1>3, <1>4 DEF RefusedAt, w

LEMMA FollowNone ==
    ASSUME NEW s
    PROVE  Follow(s, <<>>) = s
  <1>1. <<>> \in Seq(Nat)
    BY EmptySeq
  <1> QED BY <1>1, FollowSteps, UptoSteps DEF FollowedOn

LEMMA RefusedOn ==
    ASSUME NEW x \in Seq(Nat), NEW z \in Seq(Nat), NEW at, NEW error, RefusedAt(x, at, error)
    PROVE  RefusedAt(x \o z, at, error)
  <1>1. /\ Len(x) \in Nat /\ Len(z) \in Nat /\ at \in 1..Len(x) /\ at \in 0..Len(x) /\ at - 1 \in 0..Len(x)
    <2>1. Len(x) \in Nat /\ Len(z) \in Nat /\ at \in 1..Len(x)
      BY DEF RefusedAt
    <2> QED BY <2>1
  <1>2. \A n \in 0..Len(x) : Upto(x \o z, n) = Upto(x, n)
    BY UptoWithin
  <1>3. Len(x \o z) = Len(x) + Len(z)
    BY ConcatProperties
  <1>4. at \in 1..Len(x \o z)
    BY <1>1, <1>3
  <1> QED BY <1>1, <1>2, <1>4 DEF RefusedAt

-----------------------------------------------------------------------------
(* A frame as a whole *)

LEMMA BytesAre ==
    ASSUME NEW n \in Nat, NEW f \in [1..n -> Byte]
    PROVE  f \in Seq(Nat) /\ Len(f) = n
  <1>1. \A x \in Byte : x \in Nat
    BY DEF Byte
  <1>2. f \in [1..n -> Nat]
    BY <1>1
  <1> QED BY <1>2, ListIs

LEMMA SkippablePasses ==
    ASSUME NEW f, Formed(f), f.kind = "skippable"
    PROVE  FrameBytes(f) \in Seq(Nat) /\ Follow(FrameStart, FrameBytes(f)) = FrameStart
  <1> DEFINE m == f.magic
             l == LittleEndian(f.len, 4)
             c == ZeroBytes(f.len)
  <1>1. m \in [1..4 -> Byte] /\ IsSkippableMagic(m) /\ f.len \in Nat /\ f.len \div 256^3 \in Byte
    BY DEF Formed
  <1>2. m \in Seq(Nat) /\ Len(m) = 4
    <2> HIDE DEF m
    <2> QED BY <1>1, BytesAre
  <1>3. l \in Seq(Nat) /\ Len(l) = 4 /\ Le(l) = f.len
    BY <1>1, LeReadsBack
  <1>4. c \in Seq(Nat) /\ Len(c) = f.len
    BY <1>1, ZeroBytesAre
  <1>5. FrameBytes(f) = (m \o l) \o c
    BY DEF FrameBytes
  <1>6. m # FrameMagic
    <2>1. ~IsSkippableMagic(FrameMagic)
      <3>1. 2^4 = 16 /\ (40 \div 16) % 16 # 5
        BY SMT
      <3> QED BY <3>1 DEF IsSkippableMagic, FrameMagic, Bits
    <2> QED BY <1>1, <2>1
  <1>7. Complete(Field("magic", 0), m) = Collect(Field("skippable", 0))
    BY <1>1, <1>6 DEF Complete, Field
  <1>8. Complete(Field("skippable", 0), l) = Skip(f.len, Field("magic", 0))
    BY <1>3 DEF Complete, Field
  <1> HIDE DEF m, l, c
  <1>9. Follow(FrameStart, m) = Collect(Field("skippable", 0))
    <2>1. /\ Field("magic", 0).kind \notin Refusals /\ FieldLen(Field("magic", 0)) = Len(m) /\ Len(m) # 0
      BY <1>2, Kinds
    <2>2. Follow(Collect(Field("magic", 0)), m) = Complete(Field("magic", 0), m)
      BY ONLY <1>2, <2>1, FollowField
    <2> QED BY <1>7, <2>2 DEF FrameStart
  <1>10. Follow(Collect(Field("skippable", 0)), l) = Skip(f.len, Field("magic", 0))
    <2>1. /\ Field("skippable", 0).kind \notin Refusals /\ FieldLen(Field("skippable", 0)) = Len(l) /\ Len(l) # 0
      BY <1>3, Kinds
    <2>2. Follow(Collect(Field("skippable", 0)), l) = Complete(Field("skippable", 0), l)
      BY ONLY <1>3, <2>1, FollowField
    <2> QED BY <1>8, <2>2
  <1>11. Follow(Skip(f.len, Field("magic", 0)), c) = FrameStart
    BY <1>4, Kinds, FollowSkip DEF FrameStart
  <1>12. m \o l \in Seq(Nat)
    BY <1>2, <1>3, ConcatProperties
  <1>13. (m \o l) \o c \in Seq(Nat)
    BY <1>4, <1>12, ConcatProperties
  <1> DEFINE w == m \o l
  <1>14. Follow(FrameStart, w) = Skip(f.len, Field("magic", 0))
    <2>1. Follow(FrameStart, m \o l) = Follow(Follow(FrameStart, m), l)
      BY <1>2, <1>3, FollowConcat
    <2> QED BY <1>9, <1>10, <2>1
  <1>15. Follow(FrameStart, w \o c) = FrameStart
    <2>1. w \in Seq(Nat)
      BY <1>12
    <2> HIDE DEF w
    <2>2. Follow(FrameStart, w \o c) = Follow(Follow(FrameStart, w), c)
      BY <1>4, <2>1, FollowConcat
    <2> QED BY <1>11, <1>14, <2>2
  <1> QED BY <1>5, <1>13, <1>15

\* A standard frame's bytes, up to its blocks.
Described(f) == f.magic \o <<f.d>>
Headed(f) == Described(f) \o f.fields

LEMMA StandardIs ==
    ASSUME NEW f, Formed(f), f.kind = "standard"
    PROVE  /\ f.magic \in Seq(Nat) /\ Len(f.magic) = 4 /\ ~IsSkippableMagic(f.magic)
           /\ <<f.d>> \in Seq(Nat) /\ Len(<<f.d>>) = 1
           /\ f.fields \in Seq(Nat) /\ Len(f.fields) = HeaderLen(f.d) /\ HeaderLen(f.d) \in Nat \ {0}
           /\ f.window = FrameWindow(f.d, f.fields)
           /\ Described(f) \in Seq(Nat) /\ Len(Described(f)) = 5
           /\ Headed(f) \in Seq(Nat) /\ Len(Headed(f)) = 5 + Len(f.fields)
           /\ f.blocks \in Seq(BlockRecord) /\ Len(f.blocks) \in Nat \ {0}
           /\ \A i \in 1..Len(f.blocks) : f.blocks[i].last <=> i = Len(f.blocks)
           /\ FrameBytes(f) = (Headed(f) \o FlattenSeq(BlocksOf(f.blocks))) \o ZeroBytes(Trailer(f.d))
           /\ ZeroBytes(Trailer(f.d)) \in Seq(Nat) /\ Len(ZeroBytes(Trailer(f.d))) = Trailer(f.d)
  <1> DEFINE m == f.magic
             d == <<f.d>>
             g == f.fields
             b == f.blocks
  <1>1. /\ m \in [1..4 -> Byte] /\ ~IsSkippableMagic(m) /\ f.d \in Byte /\ g \in [1..HeaderLen(f.d) -> Byte]
        /\ f.window = FrameWindow(f.d, g) /\ b \in Seq(BlockRecord) /\ b # <<>>
        /\ \A i \in DOMAIN b : b[i].last <=> i = Len(b)
    BY DEF Formed, BlockRecord
  <1>2. HeaderLen(f.d) \in Nat \ {0}
    BY <1>1, HeaderLenIs
  <1>3. m \in Seq(Nat) /\ Len(m) = 4 /\ g \in Seq(Nat) /\ Len(g) = HeaderLen(f.d)
    <2> HIDE DEF m, g
    <2> QED BY <1>1, <1>2, BytesAre
  <1>4. d \in Seq(Nat) /\ Len(d) = 1
    <2>0. \A x \in Byte : x \in Nat
      BY DEF Byte
    <2>1. f.d \in Nat
      BY <1>1, <2>0
    <2> QED BY <2>1
  <1>5. Len(b) \in Nat \ {0} /\ DOMAIN b = 1..Len(b)
    <2> HIDE DEF b
    <2> QED BY <1>1, LenProperties, EmptySeq
  <1>6. Trailer(f.d) \in Nat
    BY DEF Trailer
  <1>7. FrameBytes(f) = (Headed(f) \o FlattenSeq(BlocksOf(f.blocks))) \o ZeroBytes(Trailer(f.d))
    <2>1. f.kind # "skippable"
      OBVIOUS
    <2> QED BY <2>1 DEF FrameBytes, Headed, Described, BlocksOf, Trailer
  <1> HIDE DEF m, d, g, b
  <1>8. m \o d \in Seq(Nat) /\ Len(m \o d) = 5
    <2>1. m \o d \in Seq(Nat) /\ Len(m \o d) = Len(m) + Len(d)
      BY ONLY <1>3, <1>4, ConcatProperties
    <2> QED BY <1>3, <1>4, <2>1
  <1> DEFINE w == m \o d
  <1>9. w \in Seq(Nat) /\ Len(w) = 5
    BY <1>8
  <1> HIDE DEF w
  <1>10. w \o g \in Seq(Nat) /\ Len(w \o g) = 5 + Len(g)
    <2>1. w \o g \in Seq(Nat) /\ Len(w \o g) = Len(w) + Len(g)
      BY ONLY <1>3, <1>9, ConcatProperties
    <2> QED BY <1>9, <2>1
  <1>11. Described(f) = w /\ Headed(f) = w \o g
    BY DEF Described, Headed, w, m, d, g
  <1>12. ZeroBytes(Trailer(f.d)) \in Seq(Nat) /\ Len(ZeroBytes(Trailer(f.d))) = Trailer(f.d)
    BY <1>6, ZeroBytesAre
  <1> QED BY <1>1, <1>2, <1>3, <1>4, <1>5, <1>7, <1>9, <1>10, <1>11, <1>12 DEF m, d, g, b

\* The header's fields, one behind the other.
LEMMA HeaderFollowed ==
    ASSUME NEW f, Formed(f), f.kind = "standard"
    PROVE  /\ f.magic # FrameMagic => Complete(Field("magic", 0), f.magic) = Refused("UnreadableFrame")
           /\ f.magic = FrameMagic =>
                 /\ Follow(FrameStart, f.magic) = Collect(Field("descriptor", 0))
                 /\ Reserved(f.d) => Complete(Field("descriptor", 0), <<f.d>>) = Refused("UnreadableFrame")
                 /\ ~Reserved(f.d) =>
                       /\ Follow(FrameStart, Described(f)) = Collect(Field("header", f.d))
                       /\ f.window > ZstdWindow =>
                             Complete(Field("header", f.d), f.fields) = Refused("ZstdWindow")
                       /\ ~(f.window > ZstdWindow) => Follow(FrameStart, Headed(f)) = Collect(Field("block", f.d))
  <1> DEFINE m == f.magic
             d == <<f.d>>
             g == f.fields
  <1>1. /\ m \in Seq(Nat) /\ Len(m) = 4 /\ ~IsSkippableMagic(m)
        /\ d \in Seq(Nat) /\ Len(d) = 1 /\ d[1] = f.d
        /\ g \in Seq(Nat) /\ Len(g) = HeaderLen(f.d) /\ Len(g) # 0
        /\ f.window = FrameWindow(f.d, g) /\ Described(f) \in Seq(Nat)
    BY StandardIs
  <1>2. /\ m # FrameMagic => Complete(Field("magic", 0), m) = Refused("UnreadableFrame")
        /\ m = FrameMagic => Complete(Field("magic", 0), m) = Collect(Field("descriptor", 0))
    BY <1>1 DEF Complete, Field
  <1>3. /\ Reserved(f.d) => Complete(Field("descriptor", 0), d) = Refused("UnreadableFrame")
        /\ ~Reserved(f.d) => Complete(Field("descriptor", 0), d) = Collect(Field("header", f.d))
    BY <1>1 DEF Complete, Field
  <1>4. /\ f.window > ZstdWindow => Complete(Field("header", f.d), g) = Refused("ZstdWindow")
        /\ ~(f.window > ZstdWindow) => Complete(Field("header", f.d), g) = Collect(Field("block", f.d))
    BY <1>1 DEF Complete, Field
  <1> HIDE DEF m, d, g
  <1>5. Follow(FrameStart, m) = Complete(Field("magic", 0), m)
    <2>1. /\ Field("magic", 0).kind \notin Refusals /\ FieldLen(Field("magic", 0)) = Len(m) /\ Len(m) # 0
      BY <1>1, Kinds
    <2>2. Follow(Collect(Field("magic", 0)), m) = Complete(Field("magic", 0), m)
      BY ONLY <1>1, <2>1, FollowField
    <2> QED BY <2>2 DEF FrameStart
  <1>6. Follow(Collect(Field("descriptor", 0)), d) = Complete(Field("descriptor", 0), d)
    <2>1. /\ Field("descriptor", 0).kind \notin Refusals /\ FieldLen(Field("descriptor", 0)) = Len(d) /\ Len(d) # 0
      BY <1>1, Kinds
    <2> QED BY ONLY <1>1, <2>1, FollowField
  <1>7. Follow(Collect(Field("header", f.d)), g) = Complete(Field("header", f.d), g)
    BY <1>1, Kinds, FollowField
  <1>8. Described(f) = m \o d /\ Follow(FrameStart, m \o d) = Follow(Follow(FrameStart, m), d)
    <2>1. Follow(FrameStart, m \o d) = Follow(Follow(FrameStart, m), d)
      BY <1>1, FollowConcat
    <2> QED BY <2>1 DEF Described, m, d
  <1>9. Headed(f) = Described(f) \o g /\ Follow(FrameStart, Described(f) \o g) = Follow(Follow(FrameStart, Described(f)), g)
    <2>1. Follow(FrameStart, Described(f) \o g) = Follow(Follow(FrameStart, Described(f)), g)
      BY <1>1, FollowConcat
    <2> QED BY <2>1 DEF Headed, g
  <1>10. m = FrameMagic /\ ~Reserved(f.d) => Follow(FrameStart, Described(f)) = Collect(Field("header", f.d))
    BY <1>2, <1>3, <1>5, <1>6, <1>8
  <1>11. m = FrameMagic /\ ~Reserved(f.d) /\ ~(f.window > ZstdWindow) =>
            Follow(FrameStart, Headed(f)) = Collect(Field("block", f.d))
    BY <1>4, <1>7, <1>9, <1>10
  <1> QED BY <1>2, <1>3, <1>4, <1>5, <1>10, <1>11 DEF m, d, g

\* What FrameFault makes of the blocks.
LEMMA BlockFaultIs ==
    ASSUME NEW f, Formed(f), f.kind = "standard"
    PROVE  \/ BlockFault(f) = NoFault /\ \A i \in 1..Len(f.blocks) : f.blocks[i].type # 3
           \/ \E i \in 1..Len(f.blocks) :
                 /\ f.blocks[i].type = 3 /\ \A j \in 1..(i - 1) : f.blocks[j].type # 3
                 /\ BlockFault(f) = [at |-> 5 + Len(f.fields) + Len(FlatTo(BlocksOf(f.blocks), i - 1)) + 3,
                                     error |-> "UnreadableFrame"]
  <1> DEFINE b == f.blocks
             bad == {i \in DOMAIN b : b[i].type = 3}
             first == CHOOSE i \in bad : \A j \in bad : i <= j
             before == FlattenSeq([i \in 1..(first - 1) |-> BlockBytes(b[i])])
  <1>1. b \in Seq(BlockRecord) /\ Len(b) \in Nat /\ DOMAIN b = 1..Len(b)
    <2>1. b \in Seq(BlockRecord)
      BY StandardIs
    <2> HIDE DEF b
    <2> QED BY <2>1, LenProperties
  <1>2. BlockFault(f) = IF bad = {} THEN NoFault
                        ELSE [at |-> 5 + Len(f.fields) + Len(before) + 3, error |-> "UnreadableFrame"]
    BY DEF BlockFault
  <1>3. CASE bad = {}
    BY <1>1, <1>2, <1>3
  <1>4. CASE bad # {}
    <2>1. first \in bad /\ \A j \in bad : first <= j
      <3>1. \E i \in bad : \A j \in bad : i <= j
        <4>1. bad \in SUBSET Nat
          BY <1>1
        <4> HIDE DEF bad
        <4> QED BY <1>4, <4>1, LeastNatural
      <3> HIDE DEF bad
      <3> QED BY <3>1
    <2>2. first \in 1..Len(b) /\ b[first].type = 3
      BY <1>1, <2>1
    <2> HIDE DEF first
    <2>3. \A j \in 1..(first - 1) : b[j].type # 3
      <3>1. ASSUME NEW j \in 1..(first - 1) PROVE b[j].type # 3
        <4>1. j \in DOMAIN b /\ ~(first <= j)
          BY <1>1, <2>2
        <4> QED BY <2>1, <4>1
      <3> QED BY <3>1
    <2>4. [i \in 1..(first - 1) |-> BlockBytes(b[i])] = Upto(BlocksOf(b), first - 1)
      <3> DEFINE bs == BlocksOf(b)
                 n == first - 1
                 a == [i \in 1..n |-> BlockBytes(b[i])]
      <3>1. /\ bs \in Seq(Seq(Nat)) /\ Len(bs) = Len(b)
            /\ \A i \in 1..Len(b) : bs[i] = BlockBytes(b[i])
        <4> HIDE DEF b
        <4> QED BY <1>1, BlocksAre
      <3>2. n \in 0..Len(bs) /\ n \in Nat /\ \A i \in 1..n : i \in 1..Len(b)
        <4> HIDE DEF bs, b
        <4> QED BY <1>1, <2>2, <3>1
      <3> DEFINE T == Seq(Nat)
      <3>3. \A i \in 1..Len(b) : bs[i] \in T
        BY <3>1, ElementOfSeq
      <3>4. \A i \in 1..n : BlockBytes(b[i]) \in T
        BY <3>1, <3>2, <3>3
      <3>5. a \in [1..n -> T] /\ \A i \in 1..n : a[i] = BlockBytes(b[i])
        BY <3>4
      <3> HIDE DEF a, n, bs, b, T
      <3>6. a \in Seq(T) /\ Len(a) = n
        BY <3>2, <3>5, ListIs
      <3>7. bs \in Seq(T)
        BY <3>1 DEF T
      <3>8. /\ Upto(bs, n) \in Seq(T) /\ Len(Upto(bs, n)) = n
            /\ \A i \in 1..n : Upto(bs, n)[i] = bs[i]
        BY <3>2, <3>7, UptoIs
      <3>9. \A i \in 1..n : a[i] = Upto(bs, n)[i]
        BY <3>1, <3>2, <3>5, <3>8
      <3>10. a = Upto(bs, n)
        BY <3>6, <3>8, <3>9, SeqEqual
      <3> QED BY <3>10 DEF a, bs, n
    <2>5. before = FlatTo(BlocksOf(b), first - 1)
      BY <2>4 DEF FlatTo
    <2> QED BY <1>2, <1>4, <2>2, <2>3, <2>5
  <1> QED BY <1>3, <1>4

\* A frame without a fault passes whole.
LEMMA FramePasses ==
    ASSUME NEW f, Formed(f), FrameFault(f) = NoFault
    PROVE  FrameBytes(f) \in Seq(Nat) /\ Follow(FrameStart, FrameBytes(f)) = FrameStart
  <1>1. f.kind = "skippable" \/ f.kind = "standard"
    BY DEF Formed
  <1>2. CASE f.kind = "skippable"
    BY <1>2, SkippablePasses
  <1>3. CASE f.kind = "standard"
    <2> DEFINE b == f.blocks
               h == Headed(f)
               n == Len(b) - 1
               z == ZeroBytes(Trailer(f.d))
               bs == BlocksOf(b)
    <2>1. /\ h \in Seq(Nat) /\ Len(f.fields) \in Nat /\ b \in Seq(BlockRecord) /\ Len(b) \in Nat \ {0}
          /\ \A i \in 1..Len(b) : b[i].last <=> i = Len(b)
          /\ FrameBytes(f) = (h \o FlattenSeq(bs)) \o z /\ z \in Seq(Nat) /\ Len(z) = Trailer(f.d)
      BY <1>3, StandardIs
    <2>2. FrameHeaderFault(f) = NoFault /\ BlockFault(f) = NoFault
      BY <1>3 DEF FrameFault
    <2>3. f.magic = FrameMagic /\ ~Reserved(f.d) /\ ~(f.window > ZstdWindow)
      <3>1. /\ [at |-> 4, error |-> "UnreadableFrame"] # NoFault /\ [at |-> 5, error |-> "UnreadableFrame"] # NoFault
            /\ [at |-> 5 + Len(f.fields), error |-> "ZstdWindow"] # NoFault
        BY DEF NoFault
      <3> QED BY <2>2, <3>1 DEF FrameHeaderFault
    <2>4. Follow(FrameStart, h) = Collect(Field("block", f.d))
      BY <1>3, <2>3, HeaderFollowed
    <2>5. \A i \in 1..Len(b) : b[i].type # 3
      <3>1. \A k : [at |-> k, error |-> "UnreadableFrame"] # NoFault
        BY DEF NoFault
      <3> QED BY <1>3, <2>2, <3>1, BlockFaultIs
    <2> HIDE DEF b, h, z, bs
    <2>6. /\ n \in 0..Len(b) /\ n + 1 = Len(b) /\ Len(b) \in 1..Len(b)
          /\ \A i \in 1..n : i \in 1..Len(b) /\ i # Len(b)
      BY <2>1
    <2>7. /\ FlatTo(bs, n) \in Seq(Nat)
          /\ Follow(Collect(Field("block", f.d)), FlatTo(bs, n)) = Collect(Field("block", f.d))
      <3>1. \A i \in 1..n : b[i].type # 3 /\ ~b[i].last
        BY <2>1, <2>5, <2>6
      <3> HIDE DEF n
      <3> QED BY <2>1, <2>6, <3>1, FollowBlocks DEF bs
    <2>8. /\ FlattenSeq(bs) = FlatTo(bs, n) \o BlockBytes(b[Len(b)]) /\ BlockBytes(b[Len(b)]) \in Seq(Nat)
      <3>1. bs \in Seq(Seq(Nat)) /\ Len(bs) = Len(b) /\ \A i \in 1..Len(b) : bs[i] = BlockBytes(b[i])
        BY <2>1, BlocksAre DEF bs
      <3>2. /\ FlatTo(bs, Len(bs)) = FlattenSeq(bs)
            /\ \A m \in 1..Len(bs) : bs[m] \in Seq(Nat) /\ FlatTo(bs, m) = FlatTo(bs, m - 1) \o bs[m]
        BY ONLY <3>1, FlatSteps
      <3> QED BY <2>6, <3>1, <3>2
    <2> DEFINE a == FlatTo(bs, n)
               y == BlockBytes(b[Len(b)])
    <2>9. Follow(Collect(Field("block", f.d)), y \o z) = FrameStart
      <3>1. b[Len(b)] \in BlockRecord /\ b[Len(b)].type # 3 /\ b[Len(b)].last
        BY <2>1, <2>5, <2>6, ElementOfSeq
      <3> QED BY <2>1, <3>1, FollowBlock DEF FrameStart
    <2>10. a \in Seq(Nat) /\ y \in Seq(Nat) /\ FrameBytes(f) = (h \o (a \o y)) \o z
      BY <2>1, <2>7, <2>8
    <2>11. Follow(Collect(Field("block", f.d)), a) = Collect(Field("block", f.d))
      BY <2>7
    <2> HIDE DEF a, y
    <2>12. (h \o (a \o y)) \o z \in Seq(Nat) /\ (h \o (a \o y)) \o z = (h \o a) \o (y \o z) /\ h \o a \in Seq(Nat) /\ y \o z \in Seq(Nat)
      <3>1. h \in Seq(Nat) /\ a \in Seq(Nat) /\ y \in Seq(Nat) /\ z \in Seq(Nat)
        BY <2>1, <2>10
      <3>2. Regrouped(Nat, h, a, y, z)
        BY ONLY <3>1, Regroup
      <3> QED BY <3>2 DEF Regrouped
    <2>13. Follow(FrameStart, h \o a) = Collect(Field("block", f.d))
      <3>1. Follow(FrameStart, h \o a) = Follow(Follow(FrameStart, h), a)
        BY <2>1, <2>10, FollowConcat
      <3> QED BY <2>4, <2>11, <3>1
    <2> DEFINE u == h \o a
               v == y \o z
    <2>14. u \in Seq(Nat) /\ v \in Seq(Nat) /\ Follow(FrameStart, u) = Collect(Field("block", f.d)) /\ Follow(Collect(Field("block", f.d)), v) = FrameStart
      BY <2>9, <2>12, <2>13
    <2> HIDE DEF u, v
    <2>15. Follow(FrameStart, u \o v) = FrameStart
      <3>1. Follow(FrameStart, u \o v) = Follow(Follow(FrameStart, u), v)
        BY <2>14, FollowConcat
      <3> QED BY <2>14, <3>1
    <2> QED BY <2>10, <2>12, <2>15 DEF u, v
  <1> QED BY <1>1, <1>2, <1>3

LEMMA FrameBytesAre ==
    ASSUME NEW f, Formed(f)
    PROVE  FrameBytes(f) \in Seq(Nat)
  <1>1. f.kind = "skippable" \/ f.kind = "standard"
    BY DEF Formed
  <1>2. CASE f.kind = "skippable"
    BY <1>2, SkippablePasses
  <1>3. CASE f.kind = "standard"
    <2> DEFINE h == Headed(f)
               bs == BlocksOf(f.blocks)
               z == ZeroBytes(Trailer(f.d))
               c == FlattenSeq(bs)
    <2>1. h \in Seq(Nat) /\ f.blocks \in Seq(BlockRecord) /\ z \in Seq(Nat) /\ FrameBytes(f) = (h \o c) \o z
      BY <1>3, StandardIs
    <2>2. c \in Seq(Nat)
      <3>1. bs \in Seq(Seq(Nat))
        BY <2>1, BlocksAre
      <3> HIDE DEF bs
      <3> QED BY <3>1, FlattenIs
    <2> HIDE DEF h, z, c
    <2> DEFINE u == h \o c
    <2>3. u \in Seq(Nat)
      BY <2>1, <2>2, ConcatProperties
    <2> HIDE DEF u
    <2>4. u \o z \in Seq(Nat)
      BY <2>1, <2>3, ConcatProperties
    <2> QED BY <2>1, <2>4 DEF u
  <1> QED BY <1>1, <1>2, <1>3

LEMMA FieldRefusesHere ==
    ASSUME NEW x \in Seq(Nat), NEW y \in Seq(Nat), NEW f, NEW error \in Refusals,
           Follow(FrameStart, x) = Collect(f), f.kind \notin Refusals, FieldLen(f) = Len(y), Len(y) # 0,
           Complete(f, y) = Refused(error)
    PROVE  x \o y \in Seq(Nat) /\ RefusedAt(x \o y, Len(x) + Len(y), error)
  <1> DEFINE w == x \o y
             e == <<>>
  <1>1. e \in Seq(Nat) /\ w \in Seq(Nat)
    BY EmptySeq, ConcatProperties
  <1> HIDE DEF e
  <1>2. RefusedAt((x \o y) \o e, Len(x) + Len(y), error)
    <2> HIDE DEF w
    <2> QED BY <1>1, FieldRefuses
  <1>3. w \o e = w
    <2> HIDE DEF w
    <2> QED BY <1>1, ConcatEmptySeq DEF e
  <1> QED BY <1>1, <1>2, <1>3

\* A faulty header is refused with the field that makes it so.
LEMMA HeaderRefused ==
    ASSUME NEW f, Formed(f), f.kind = "standard", FrameHeaderFault(f) # NoFault
    PROVE  RefusedAt(Headed(f), FrameHeaderFault(f).at, FrameHeaderFault(f).error)
  <1> DEFINE m == f.magic
             d == <<f.d>>
             g == f.fields
  <1>1. /\ m \in Seq(Nat) /\ Len(m) = 4 /\ d \in Seq(Nat) /\ Len(d) = 1
        /\ g \in Seq(Nat) /\ Len(g) = HeaderLen(f.d) /\ Len(g) # 0
        /\ Described(f) \in Seq(Nat) /\ Len(Described(f)) = 5 /\ Headed(f) \in Seq(Nat)
    BY StandardIs
  <1>2. /\ m # FrameMagic => Complete(Field("magic", 0), m) = Refused("UnreadableFrame")
        /\ m = FrameMagic =>
              /\ Follow(FrameStart, m) = Collect(Field("descriptor", 0))
              /\ Reserved(f.d) => Complete(Field("descriptor", 0), d) = Refused("UnreadableFrame")
              /\ ~Reserved(f.d) =>
                    /\ Follow(FrameStart, Described(f)) = Collect(Field("header", f.d))
                    /\ f.window > ZstdWindow => Complete(Field("header", f.d), g) = Refused("ZstdWindow")
    BY HeaderFollowed
  <1>3. "UnreadableFrame" \in Refusals /\ "ZstdWindow" \in Refusals
    BY DEF Refusals
  <1>4. Described(f) = m \o d /\ Headed(f) = Described(f) \o g
    BY DEF Described, Headed
  <1>5. CASE m # FrameMagic
    <2>1. FrameHeaderFault(f).at = 4 /\ FrameHeaderFault(f).error = "UnreadableFrame"
      BY <1>5 DEF FrameHeaderFault
    <2> DEFINE e == <<>>
    <2>2. e \in Seq(Nat) /\ Len(e) = 0 /\ Follow(FrameStart, e) = Collect(Field("magic", 0))
      BY EmptySeq, FollowNone DEF FrameStart
    <2>3. Field("magic", 0).kind \notin Refusals /\ FieldLen(Field("magic", 0)) = Len(m) /\ Len(m) # 0
      BY <1>1, Kinds
    <2>4. e \o m = m
      BY <1>1, ConcatEmptySeq
    <2> HIDE DEF e, m, d, g
    <2>5. RefusedAt(e \o m, Len(e) + Len(m), "UnreadableFrame")
      BY <1>1, <1>2, <1>3, <1>5, <2>2, <2>3, FieldRefusesHere
    <2>6. RefusedAt(m, 4, "UnreadableFrame")
      BY <1>1, <2>2, <2>4, <2>5
    <2>7. RefusedAt(m \o d, 4, "UnreadableFrame")
      BY <1>1, <2>6, RefusedOn
    <2>8. RefusedAt(Described(f), 4, "UnreadableFrame")
      BY <1>4, <2>7
    <2>9. RefusedAt(Described(f) \o g, 4, "UnreadableFrame")
      BY <1>1, <2>8, RefusedOn
    <2> QED BY <1>4, <2>1, <2>9
  <1>6. CASE m = FrameMagic /\ Reserved(f.d)
    <2>1. FrameHeaderFault(f).at = 5 /\ FrameHeaderFault(f).error = "UnreadableFrame"
      BY <1>6 DEF FrameHeaderFault
    <2>2. /\ Field("descriptor", 0).kind \notin Refusals /\ FieldLen(Field("descriptor", 0)) = Len(d)
          /\ Len(d) # 0 /\ Len(m) + Len(d) = 5
      BY <1>1, Kinds
    <2> HIDE DEF m, d, g
    <2>3. RefusedAt(m \o d, Len(m) + Len(d), "UnreadableFrame")
      BY <1>1, <1>2, <1>3, <1>6, <2>2, FieldRefusesHere
    <2>4. RefusedAt(Described(f), 5, "UnreadableFrame")
      BY <1>4, <2>2, <2>3
    <2>5. RefusedAt(Described(f) \o g, 5, "UnreadableFrame")
      BY <1>1, <2>4, RefusedOn
    <2> QED BY <1>4, <2>1, <2>5
  <1>7. CASE m = FrameMagic /\ ~Reserved(f.d)
    <2>1. f.window > ZstdWindow
      BY <1>7 DEF FrameHeaderFault
    <2>2. FrameHeaderFault(f).at = 5 + Len(g) /\ FrameHeaderFault(f).error = "ZstdWindow"
      BY <1>7, <2>1 DEF FrameHeaderFault
    <2>3. Field("header", f.d).kind \notin Refusals /\ FieldLen(Field("header", f.d)) = Len(g)
      BY <1>1, Kinds
    <2> HIDE DEF m, d, g
    <2>4. RefusedAt(Described(f) \o g, Len(Described(f)) + Len(g), "ZstdWindow")
      BY <1>1, <1>2, <1>3, <1>7, <2>1, <2>3, FieldRefusesHere
    <2> QED BY <1>1, <1>4, <2>2, <2>4
  <1> QED BY <1>5, <1>6, <1>7

\* So is a block of a kind nobody can read, behind those before it.
LEMMA BlockRefused ==
    ASSUME NEW f, Formed(f), f.kind = "standard", FrameHeaderFault(f) = NoFault, BlockFault(f) # NoFault
    PROVE  RefusedAt(Headed(f) \o FlattenSeq(BlocksOf(f.blocks)), BlockFault(f).at, BlockFault(f).error)
  <1> DEFINE b == f.blocks
             h == Headed(f)
             bs == BlocksOf(b)
  <1>1. /\ h \in Seq(Nat) /\ Len(h) = 5 + Len(f.fields) /\ Len(f.fields) \in Nat
        /\ b \in Seq(BlockRecord) /\ Len(b) \in Nat \ {0}
        /\ \A i \in 1..Len(b) : b[i].last <=> i = Len(b)
    BY StandardIs
  <1>2. Follow(FrameStart, h) = Collect(Field("block", f.d))
    <2>1. f.magic = FrameMagic /\ ~Reserved(f.d) /\ ~(f.window > ZstdWindow)
      <3>1. /\ [at |-> 4, error |-> "UnreadableFrame"] # NoFault /\ [at |-> 5, error |-> "UnreadableFrame"] # NoFault
            /\ [at |-> 5 + Len(f.fields), error |-> "ZstdWindow"] # NoFault
        BY DEF NoFault
      <3> QED BY <3>1 DEF FrameHeaderFault
    <2> QED BY <2>1, HeaderFollowed
  <1>3. PICK i \in 1..Len(b) :
          /\ b[i].type = 3 /\ \A j \in 1..(i - 1) : b[j].type # 3
          /\ BlockFault(f) = [at |-> 5 + Len(f.fields) + Len(FlatTo(bs, i - 1)) + 3, error |-> "UnreadableFrame"]
    BY BlockFaultIs
  <1> DEFINE a == FlatTo(bs, i - 1)
             y == BlockHead(b[i])
             c == ZeroBytes(Content(b[i]))
  <1>4. b[i] \in BlockRecord /\ i \in Nat
    BY <1>1, ElementOfSeq
  <1>5. /\ y \in Seq(Nat) /\ Len(y) = 3 /\ c \in Seq(Nat) /\ BlockBytes(b[i]) = y \o c
        /\ Complete(Field("block", f.d), y) = Refused("UnreadableFrame")
    <2>1. Content(b[i]) \in Nat
      BY <1>4, BlockIs
    <2>2. c \in Seq(Nat)
      BY <2>1, ZeroBytesAre
    <2> QED BY <1>3, <1>4, <2>2, BlockIs
  <1> HIDE DEF b, h
  <1>6. a \in Seq(Nat) /\ Follow(Collect(Field("block", f.d)), a) = Collect(Field("block", f.d))
    <2> DEFINE n == i - 1
    <2>1. n \in 0..Len(b)
      BY <1>1
    <2>2. \A j \in 1..n : b[j].type # 3 /\ ~b[j].last
      <3>1. \A j \in 1..n : j \in 1..Len(b) /\ j # Len(b)
        BY <1>1
      <3> QED BY <1>1, <1>3, <3>1
    <2> HIDE DEF n
    <2>3. FlatTo(BlocksOf(b), n) \in Seq(Nat) /\ Follow(Collect(Field("block", f.d)), FlatTo(BlocksOf(b), n)) = Collect(Field("block", f.d))
      BY <1>1, <2>1, <2>2, FollowBlocks
    <2> QED BY <2>3 DEF n
  <1>7. /\ bs \in Seq(Seq(Nat)) /\ Len(bs) = Len(b) /\ bs[i] = BlockBytes(b[i])
    BY <1>1, BlocksAre
  <1> HIDE DEF bs
  <1>8. FlatTo(bs, i) = a \o (y \o c)
    <2>1. \A n \in 1..Len(bs) : FlatTo(bs, n) = FlatTo(bs, n - 1) \o bs[n]
      BY ONLY <1>7, FlatSteps
    <2> QED BY <1>5, <1>7, <2>1
  <1>9. PICK rest \in Seq(Nat) : FlattenSeq(bs) = (a \o (y \o c)) \o rest
    <2>1. i \in 0..Len(bs)
      BY <1>1, <1>4, <1>7
    <2>2. \E rest \in Seq(Nat) : FlattenSeq(bs) = FlatTo(bs, i) \o rest
      BY <1>7, <2>1, FlatBegins
    <2> QED BY <1>8, <2>2
  <1> HIDE DEF a, y, c
  <1>10. h \o FlattenSeq(bs) = (((h \o a) \o y) \o c) \o rest
    <2>1. h \in Seq(Nat) /\ a \in Seq(Nat) /\ y \in Seq(Nat) /\ c \in Seq(Nat) /\ rest \in Seq(Nat)
      BY <1>1, <1>5, <1>6
    <2>2. Peeled(h, a, y, c, rest)
      BY ONLY <2>1, Peel
    <2> QED BY <1>9, <2>2 DEF Peeled
  <1> DEFINE u == h \o a
             v == u \o y
             w == v \o c
  <1>11. u \in Seq(Nat) /\ Len(u) = Len(h) + Len(a)
    <2>1. h \in Seq(Nat) /\ a \in Seq(Nat)
      BY <1>1, <1>6
    <2> QED BY ONLY <2>1, ConcatProperties
  <1>12. Follow(FrameStart, u) = Collect(Field("block", f.d))
    <2>1. Follow(FrameStart, h \o a) = Follow(Follow(FrameStart, h), a)
      BY <1>1, <1>6, FollowConcat
    <2> QED BY <1>2, <1>6, <2>1
  <1>13. "UnreadableFrame" \in Refusals
    BY DEF Refusals
  <1> HIDE DEF u
  <1>14. v \in Seq(Nat) /\ RefusedAt(v, Len(u) + Len(y), "UnreadableFrame")
    <2>1. Field("block", f.d).kind \notin Refusals /\ FieldLen(Field("block", f.d)) = Len(y) /\ Len(y) # 0
      BY <1>5, Kinds
    <2> QED BY <1>5, <1>11, <1>12, <1>13, <2>1, FieldRefusesHere
  <1> HIDE DEF v
  <1> DEFINE k == Len(u) + Len(y)
  <1>15. w \in Seq(Nat)
    BY ONLY <1>5, <1>14, ConcatProperties
  <1>16. BlockFault(f).at = k /\ BlockFault(f).error = "UnreadableFrame"
    <2>1. Len(a) \in Nat
      BY <1>6
    <2>2. k = 5 + Len(f.fields) + Len(a) + 3
      BY <1>1, <1>5, <1>11, <2>1
    <2>3. BlockFault(f) = [at |-> 5 + Len(f.fields) + Len(a) + 3, error |-> "UnreadableFrame"]
      BY <1>3 DEF a
    <2> HIDE DEF k
    <2> QED BY <2>2, <2>3
  <1>17. RefusedAt(v, k, "UnreadableFrame")
    BY <1>14
  <1> HIDE DEF k
  <1>18. RefusedAt(w, k, "UnreadableFrame")
    BY <1>5, <1>14, <1>17, RefusedOn
  <1> HIDE DEF w
  <1>19. RefusedAt(w \o rest, k, "UnreadableFrame")
    BY <1>15, <1>18, RefusedOn
  <1> QED BY <1>10, <1>16, <1>19 DEF h, b, bs, u, v, w

LEMMA FrameRefused ==
    ASSUME NEW f, Formed(f), FrameFault(f) # NoFault
    PROVE  RefusedAt(FrameBytes(f), FrameFault(f).at, FrameFault(f).error)
  <1>1. f.kind = "standard"
    BY DEF Formed, FrameFault
  <1> DEFINE h == Headed(f)
             bs == BlocksOf(f.blocks)
             c == FlattenSeq(bs)
             z == ZeroBytes(Trailer(f.d))
             u == h \o c
             q == FrameFault(f)
  <1>2. h \in Seq(Nat) /\ f.blocks \in Seq(BlockRecord) /\ z \in Seq(Nat) /\ FrameBytes(f) = u \o z
    BY <1>1, StandardIs
  <1>3. c \in Seq(Nat)
    <2>1. bs \in Seq(Seq(Nat))
      BY <1>2, BlocksAre
    <2> HIDE DEF bs
    <2> QED BY <2>1, FlattenIs
  <1>4. RefusedAt(u, q.at, q.error)
    <2>1. CASE FrameHeaderFault(f) # NoFault
      <3>1. q = FrameHeaderFault(f)
        BY <1>1, <2>1 DEF FrameFault
      <3>2. RefusedAt(h, q.at, q.error)
        BY <1>1, <2>1, <3>1, HeaderRefused
      <3> HIDE DEF h, c, q
      <3> QED BY <1>2, <1>3, <3>2, RefusedOn
    <2>2. CASE FrameHeaderFault(f) = NoFault
      <3>1. q = BlockFault(f) /\ BlockFault(f) # NoFault
        BY <1>1, <2>2 DEF FrameFault
      <3> QED BY <1>1, <2>2, <3>1, BlockRefused
    <2> QED BY <2>1, <2>2
  <1>5. u \in Seq(Nat)
    <2> HIDE DEF h, c
    <2> QED BY <1>2, <1>3, ConcatProperties
  <1> HIDE DEF u, z, q
  <1>6. RefusedAt(u \o z, q.at, q.error)
    BY <1>2, <1>4, <1>5, RefusedOn
  <1> QED BY <1>2, <1>6 DEF q

-----------------------------------------------------------------------------
(* A stream as a whole *)

LEMMA UptoSplit ==
    ASSUME NEW S, NEW x \in Seq(S), NEW m \in 0..Len(x), NEW k \in 0..m
    PROVE  SubSeq(x, k + 1, m) \in Seq(S) /\ Upto(x, m) = Upto(x, k) \o SubSeq(x, k + 1, m)
  <1> DEFINE a == Upto(x, k)
             b == SubSeq(x, k + 1, m)
             c == Upto(x, m)
  <1>0. Len(x) \in Nat /\ m \in Nat /\ m <= Len(x) /\ k \in Nat /\ k <= m /\ k \in 0..Len(x)
    <2>1. Len(x) \in Nat
      OBVIOUS
    <2> QED BY <2>1
  <1>1. a \in Seq(S) /\ Len(a) = k /\ \A i \in 1..k : a[i] = x[i]
    BY <1>0, UptoIs
  <1>2. c \in Seq(S) /\ Len(c) = m /\ \A i \in 1..m : c[i] = x[i]
    BY UptoIs
  <1>3. b \in Seq(S) /\ Len(b) = m - k /\ \A i \in 1..(m - k) : b[i] = x[k + i]
    <2>1. \A i \in (k + 1)..m : x[i] \in S
      <3>1. \A i \in (k + 1)..m : i \in 1..Len(x)
        BY <1>0
      <3> QED BY <3>1, ElementOfSeq
    <2> DEFINE p == k + 1
    <2>2. p \in Int /\ m \in Int /\ p <= m + 1 /\ (m - p) + 1 = m - k
      BY <1>0
    <2>3. \A i \in p..m : x[i] \in S
      BY <2>1
    <2>4. \A i \in 1..(m - k) : (p + i) - 1 = k + i
      BY <1>0
    <2> HIDE DEF p
    <2>5. /\ SubSeq(x, p, m) \in Seq(S)
          /\ Len(SubSeq(x, p, m)) = IF p <= m THEN (m - p) + 1 ELSE 0
          /\ \A i \in 1..((m - p) + 1) : SubSeq(x, p, m)[i] = x[(p + i) - 1]
      BY ONLY <2>2, <2>3, SubSeqProperties
    <2>6. Len(SubSeq(x, p, m)) = m - k
      BY <1>0, <2>2, <2>5
    <2>7. \A i \in 1..(m - k) : SubSeq(x, p, m)[i] = x[k + i]
      BY <2>2, <2>4, <2>5
    <2> QED BY <2>5, <2>6, <2>7 DEF p
  <1> HIDE DEF a, b, c
  <1>4. /\ a \o b \in Seq(S) /\ Len(a \o b) = m
        /\ \A i \in 1..m : (a \o b)[i] = IF i <= k THEN a[i] ELSE b[i - k]
    <2>1. /\ a \o b \in Seq(S) /\ Len(a \o b) = Len(a) + Len(b)
          /\ \A i \in 1..(Len(a) + Len(b)) : (a \o b)[i] = IF i <= Len(a) THEN a[i] ELSE b[i - Len(a)]
      BY ONLY <1>1, <1>3, ConcatProperties
    <2>2. Len(a) + Len(b) = m
      BY <1>0, <1>1, <1>3
    <2> QED BY <1>1, <2>1, <2>2
  <1>5. ASSUME NEW i \in 1..m PROVE c[i] = (a \o b)[i]
    <2>1. CASE i <= k
      <3>1. i \in 1..k
        BY <1>0, <2>1
      <3> QED BY <1>1, <1>2, <1>4, <2>1, <3>1
    <2>2. CASE ~(i <= k)
      <3>1. i - k \in 1..(m - k) /\ k + (i - k) = i
        BY <1>0, <2>2
      <3>2. b[i - k] = x[k + (i - k)]
        BY <1>3, <3>1
      <3> QED BY <1>2, <1>4, <2>2, <3>1, <3>2
    <2> QED BY <2>1, <2>2
  <1>6. c = a \o b
    BY <1>2, <1>4, <1>5, SeqEqual
  <1> QED BY <1>3, <1>6 DEF a, b, c

\* The first k of the first m.
LEMMA UptoUpto ==
    ASSUME NEW S, NEW x \in Seq(S), NEW m \in 0..Len(x), NEW k \in 0..m
    PROVE  Upto(Upto(x, m), k) = Upto(x, k)
  <1> DEFINE u == Upto(x, m)
             rest == SubSeq(x, m + 1, Len(x))
  <1>1. Len(x) \in 0..Len(x) /\ m \in 0..Len(x) /\ Upto(x, Len(x)) = x
    BY UptoConcat
  <1>2. rest \in Seq(S) /\ x = u \o rest
    <2> DEFINE n == Len(x)
    <2>1. n \in 0..Len(x) /\ m \in 0..n /\ Upto(x, n) = x
      BY <1>1
    <2> HIDE DEF n
    <2>2. SubSeq(x, m + 1, n) \in Seq(S) /\ Upto(x, n) = Upto(x, m) \o SubSeq(x, m + 1, n)
      BY <2>1, UptoSplit
    <2> QED BY <2>1, <2>2 DEF n
  <1>3. u \in Seq(S) /\ Len(u) = m
    BY UptoIs
  <1> HIDE DEF u, rest
  <1>4. k \in 0..Len(u)
    BY <1>3
  <1>5. Upto(u \o rest, k) = Upto(u, k)
    BY <1>2, <1>3, <1>4, UptoWithin
  <1> QED BY <1>2, <1>5 DEF u

\* What is refused stays refused.
LEMMA Absorbed ==
    ASSUME NEW x \in Seq(Nat), NEW m \in 0..Len(x), NEW k \in 0..m,
           Follow(FrameStart, Upto(x, k)).field.kind \in Refusals
    PROVE  Follow(FrameStart, Upto(x, m)) = Follow(FrameStart, Upto(x, k))
  <1> DEFINE a == Upto(x, k)
             b == SubSeq(x, k + 1, m)
             s == Follow(FrameStart, a)
  <1>1. b \in Seq(Nat) /\ Upto(x, m) = a \o b
    BY UptoSplit
  <1>2. a \in Seq(Nat)
    <2>1. k \in 0..Len(x)
      OBVIOUS
    <2> QED BY <2>1, UptoIs
  <1>3. s.field.kind \in Refusals
    OBVIOUS
  <1> HIDE DEF a, b
  <1>4. Follow(FrameStart, a \o b) = Follow(s, b)
    BY <1>1, <1>2, FollowConcat
  <1> HIDE DEF s
  <1>5. Follow(s, b) = s
    BY <1>1, <1>3, RefusedStays
  <1> QED BY <1>1, <1>4, <1>5 DEF s, a

\* The frames of a stream, in bytes.
FramesOf(frames) == [i \in DOMAIN frames |-> FrameBytes(frames[i])]

LEMMA FramesAre ==
    ASSUME NEW T, NEW frames \in Seq(T), \A i \in DOMAIN frames : Formed(frames[i])
    PROVE  /\ FramesOf(frames) \in Seq(Seq(Nat)) /\ Len(FramesOf(frames)) = Len(frames)
           /\ Len(frames) \in Nat /\ DOMAIN frames = 1..Len(frames)
           /\ \A i \in 1..Len(frames) : FramesOf(frames)[i] = FrameBytes(frames[i]) /\ FrameBytes(frames[i]) \in Seq(Nat)
  <1>1. Len(frames) \in Nat /\ DOMAIN frames = 1..Len(frames)
    BY LenProperties
  <1>2. \A i \in 1..Len(frames) : FrameBytes(frames[i]) \in Seq(Nat)
    BY <1>1, FrameBytesAre
  <1>3. FramesOf(frames) \in [1..Len(frames) -> Seq(Nat)]
    BY <1>1, <1>2 DEF FramesOf
  <1> DEFINE n == Len(frames)
             l == FramesOf(frames)
             U == Seq(Nat)
  <1>4. l \in Seq(U) /\ Len(l) = n
    <2>1. n \in Nat /\ l \in [1..n -> U]
      BY <1>1, <1>3
    <2> HIDE DEF n, l, U
    <2> QED BY <2>1, ListIs
  <1> QED BY <1>1, <1>2, <1>4 DEF FramesOf

\* The bytes before a frame are those of the frames before it.
LEMMA EncodedIs ==
    ASSUME NEW T, NEW frames \in Seq(T), \A i \in DOMAIN frames : Formed(frames[i])
    PROVE  /\ Encoded(frames) = FlattenSeq(FramesOf(frames)) /\ Encoded(frames) \in Seq(Nat)
           /\ \A n \in 0..Len(frames) : Encoded(SubSeq(frames, 1, n)) = FlatTo(FramesOf(frames), n)
  <1> DEFINE fs == FramesOf(frames)
  <1>1. Encoded(frames) = FlattenSeq(fs)
    BY DEF Encoded, FramesOf
  <1>2. /\ fs \in Seq(Seq(Nat)) /\ Len(fs) = Len(frames) /\ Len(frames) \in Nat /\ DOMAIN frames = 1..Len(frames)
        /\ \A i \in 1..Len(frames) : fs[i] = FrameBytes(frames[i])
    BY FramesAre
  <1>3. Encoded(frames) \in Seq(Nat)
    <2> HIDE DEF fs
    <2> QED BY <1>1, <1>2, FlattenIs
  <1>4. ASSUME NEW n \in 0..Len(frames)
        PROVE  Encoded(SubSeq(frames, 1, n)) = FlatTo(fs, n)
    <2> DEFINE r == Upto(frames, n)
               rs == FramesOf(r)
    <2>1. r \in Seq(T) /\ Len(r) = n /\ \A i \in 1..n : r[i] = frames[i]
      BY UptoIs
    <2> HIDE DEF r
    <2>2. n \in Nat /\ \A i \in 1..n : i \in 1..Len(frames)
      BY <1>2
    <2>3. DOMAIN r = 1..n
      BY <2>1, LenProperties
    <2>4. \A i \in DOMAIN r : Formed(r[i])
      BY <1>2, <2>1, <2>2, <2>3
    <2>5. /\ rs \in Seq(Seq(Nat)) /\ Len(rs) = n /\ \A i \in 1..n : rs[i] = FrameBytes(r[i])
      BY <2>1, <2>4, FramesAre
    <2> HIDE DEF rs, fs
    <2>6. /\ Upto(fs, n) \in Seq(Seq(Nat)) /\ Len(Upto(fs, n)) = n /\ \A i \in 1..n : Upto(fs, n)[i] = fs[i]
      <3> DEFINE U == Seq(Nat)
      <3>1. fs \in Seq(U) /\ n \in 0..Len(fs)
        BY <1>2
      <3> HIDE DEF U
      <3>2. Upto(fs, n) \in Seq(U) /\ Len(Upto(fs, n)) = n /\ \A i \in 1..n : Upto(fs, n)[i] = fs[i]
        BY <3>1, UptoIs
      <3> QED BY <3>2 DEF U
    <2>7. \A i \in 1..n : rs[i] = Upto(fs, n)[i]
      BY <1>2, <2>1, <2>2, <2>5, <2>6
    <2>8. rs = Upto(fs, n)
      <3> DEFINE U == Seq(Nat)
                 v == Upto(fs, n)
      <3>1. rs \in Seq(U) /\ v \in Seq(U) /\ Len(rs) = Len(v) /\ \A i \in 1..Len(rs) : rs[i] = v[i]
        BY <2>5, <2>6, <2>7
      <3> HIDE DEF U, v
      <3>2. rs = v
        BY ONLY <3>1, SeqEqual
      <3> QED BY <3>2 DEF v
    <2>9. Encoded(r) = FlattenSeq(rs)
      BY DEF Encoded, FramesOf, rs
    <2> QED BY <2>8, <2>9 DEF FlatTo, r, Upto
  <1> QED BY <1>1, <1>3, <1>4

\* Frames without a fault pass whole.
LEMMA FramesPass ==
    ASSUME NEW T, NEW frames \in Seq(T), \A i \in DOMAIN frames : Formed(frames[i]), NEW n \in 0..Len(frames),
           \A i \in 1..n : FrameFault(frames[i]) = NoFault
    PROVE  Follow(FrameStart, FlatTo(FramesOf(frames), n)) = FrameStart
  <1> DEFINE fs == FramesOf(frames)
             bad == {m \in 0..n : Follow(FrameStart, FlatTo(fs, m)) # FrameStart}
  <1>1. /\ fs \in Seq(Seq(Nat)) /\ Len(fs) = Len(frames) /\ Len(frames) \in Nat /\ DOMAIN frames = 1..Len(frames)
        /\ \A i \in 1..Len(frames) : fs[i] = FrameBytes(frames[i])
    BY FramesAre
  <1> HIDE DEF fs
  <1>2. /\ FlatTo(fs, 0) = <<>> /\ \A m \in 0..Len(fs) : FlatTo(fs, m) \in Seq(Nat)
        /\ \A m \in 1..Len(fs) : fs[m] \in Seq(Nat) /\ FlatTo(fs, m) = FlatTo(fs, m - 1) \o fs[m]
    BY ONLY <1>1, FlatSteps
  <1>3. bad = {}
    <2> SUFFICES ASSUME bad # {} PROVE FALSE
      OBVIOUS
    <2>1. PICK m \in bad : \A j \in bad : m <= j
      <3>1. bad \in SUBSET Nat
        BY <1>1
      <3> HIDE DEF bad
      <3> QED BY <3>1, LeastNatural
    <2>2. m # 0
      BY <1>2, <2>1, FollowNone
    <2>3. m \in 1..n /\ m \in 1..Len(frames) /\ m \in 1..Len(fs) /\ m - 1 \in 0..n /\ m - 1 \in 0..Len(fs) /\ m - 1 \notin bad
      BY <1>1, <2>1, <2>2
    <2>4. Follow(FrameStart, FlatTo(fs, m - 1)) = FrameStart
      BY <2>3
    <2>5. Follow(FrameStart, fs[m]) = FrameStart
      <3>1. Formed(frames[m]) /\ FrameFault(frames[m]) = NoFault /\ fs[m] = FrameBytes(frames[m])
        BY <1>1, <2>3
      <3> QED BY <3>1, FramePasses
    <2> DEFINE x == FlatTo(fs, m - 1)
               y == fs[m]
    <2>6. x \in Seq(Nat) /\ y \in Seq(Nat) /\ FlatTo(fs, m) = x \o y
      BY <1>2, <2>3
    <2>7. Follow(FrameStart, x \o y) = FrameStart
      <3> HIDE DEF x, y
      <3>1. Follow(FrameStart, x \o y) = Follow(Follow(FrameStart, x), y)
        BY <2>6, FollowConcat
      <3> QED BY <2>4, <2>5, <3>1 DEF x, y
    <2> QED BY <2>1, <2>6, <2>7
  <1>4. n \in 0..n
    BY <1>1
  <1> QED BY <1>3, <1>4 DEF fs

\* The guard, over the whole stream, refuses at the first fault if there is one
\* (outer.rs WindowGuard::read).
LEMMA StreamFault ==
    ASSUME NEW T, NEW frames \in Seq(T), \A i \in DOMAIN frames : Formed(frames[i])
    PROVE  \/ FirstFault(frames) = NoFault /\ Follow(FrameStart, Encoded(frames)) = FrameStart
           \/ FirstFault(frames) # NoFault /\ RefusedAt(Encoded(frames), FirstFault(frames).at, FirstFault(frames).error)
  <1> DEFINE fs == FramesOf(frames)
             bad == {i \in DOMAIN frames : FrameFault(frames[i]) # NoFault}
             first == CHOOSE i \in bad : \A j \in bad : i <= j
             q == FrameFault(frames[first])
             at == Len(Encoded(SubSeq(frames, 1, first - 1))) + q.at
  <1>1. /\ fs \in Seq(Seq(Nat)) /\ Len(fs) = Len(frames) /\ Len(frames) \in Nat /\ DOMAIN frames = 1..Len(frames)
        /\ \A i \in 1..Len(frames) : fs[i] = FrameBytes(frames[i]) /\ FrameBytes(frames[i]) \in Seq(Nat)
    BY FramesAre
  <1>2. /\ Encoded(frames) = FlattenSeq(fs)
        /\ \A n \in 0..Len(frames) : Encoded(SubSeq(frames, 1, n)) = FlatTo(fs, n)
    BY EncodedIs
  <1>3. FirstFault(frames) = IF bad = {} THEN NoFault ELSE [at |-> at, error |-> q.error]
    BY DEF FirstFault
  <1>4. /\ FlatTo(fs, Len(fs)) = FlattenSeq(fs) /\ \A m \in 0..Len(fs) : FlatTo(fs, m) \in Seq(Nat)
        /\ \A m \in 1..Len(fs) : fs[m] \in Seq(Nat) /\ FlatTo(fs, m) = FlatTo(fs, m - 1) \o fs[m]
    <2> HIDE DEF fs
    <2> QED BY ONLY <1>1, FlatSteps
  <1>5. CASE bad = {}
    <2> DEFINE n == Len(frames)
    <2>1. n \in 0..Len(frames) /\ \A i \in 1..n : FrameFault(frames[i]) = NoFault
      <3>1. \A i \in DOMAIN frames : FrameFault(frames[i]) = NoFault
        BY <1>5
      <3>2. n \in Nat /\ n = Len(frames) /\ DOMAIN frames = 1..n
        BY <1>1
      <3> HIDE DEF n
      <3> QED BY <3>1, <3>2
    <2> HIDE DEF n
    <2>2. Follow(FrameStart, FlatTo(FramesOf(frames), n)) = FrameStart
      BY <2>1, FramesPass
    <2> QED BY <1>1, <1>2, <1>3, <1>4, <1>5, <2>2 DEF n
  <1>6. CASE bad # {}
    <2>1. first \in bad /\ \A j \in bad : first <= j
      <3>1. \E i \in bad : \A j \in bad : i <= j
        <4>1. bad \in SUBSET Nat
          BY <1>1
        <4> HIDE DEF bad
        <4> QED BY <1>6, <4>1, LeastNatural
      <3> HIDE DEF bad
      <3> QED BY <3>1
    <2>2. first \in 1..Len(frames) /\ q # NoFault /\ Formed(frames[first])
      BY <1>1, <2>1
    <2>3. RefusedAt(FrameBytes(frames[first]), q.at, q.error)
      BY <2>2, FrameRefused
    <2> HIDE DEF first
    <2> DEFINE n == first - 1
               x == FlatTo(fs, n)
               y == FrameBytes(frames[first])
    <2>4. n \in 0..Len(frames) /\ \A i \in 1..n : FrameFault(frames[i]) = NoFault
      <3>1. \A i \in 1..n : i \in DOMAIN frames /\ ~(first <= i)
        BY <1>1, <2>2
      <3>2. n \in 0..Len(frames)
        BY <1>1, <2>2
      <3> QED BY <2>1, <3>1, <3>2
    <2>5. Follow(FrameStart, x) = FrameStart
      <3> HIDE DEF n
      <3> QED BY <2>4, FramesPass
    <2>6. /\ x \in Seq(Nat) /\ y \in Seq(Nat) /\ FlatTo(fs, first) = x \o y /\ Encoded(SubSeq(frames, 1, first - 1)) = x
      BY <1>1, <1>2, <1>4, <2>2, <2>4
    <2>7. PICK rest \in Seq(Nat) : FlattenSeq(fs) = (x \o y) \o rest
      <3>1. first \in 0..Len(fs)
        BY <1>1, <2>2
      <3> HIDE DEF fs, x, y
      <3>2. \E rest \in Seq(Nat) : FlattenSeq(fs) = FlatTo(fs, first) \o rest
        BY <1>1, <3>1, FlatBegins
      <3> QED BY <2>6, <3>2
    <2> HIDE DEF x, y, q
    <2>8. RefusedAt((x \o y) \o rest, Len(x) + q.at, q.error)
      <3> DEFINE k == q.at
                 e == q.error
      <3>1. RefusedAt(y, k, e)
        BY <2>3 DEF y
      <3> HIDE DEF k, e
      <3>2. RefusedAt((x \o y) \o rest, Len(x) + k, e)
        BY <2>5, <2>6, <2>7, <3>1, RefusedBehind
      <3> QED BY <3>2 DEF k, e
    <2>9. at = Len(x) + q.at
      BY <2>6
    <2> HIDE DEF at, fs
    <2>10. RefusedAt(Encoded(frames), at, q.error)
      BY <1>2, <2>7, <2>8, <2>9
    <2>11. at # 0
      BY <2>10 DEF RefusedAt
    <2>12. FirstFault(frames) = [at |-> at, error |-> q.error]
      BY <1>3, <1>6
    <2>13. FirstFault(frames) # NoFault
      BY <2>11, <2>12 DEF NoFault
    <2> QED BY <2>10, <2>12, <2>13
  <1> QED BY <1>5, <1>6

-----------------------------------------------------------------------------
(* Reads *)

GuardSpec == GuardInit /\ [][GuardNext]_guardVars

StateAfter(x, n) == Follow(FrameStart, Upto(x, n))

\* The guard's state is that of the bytes it has followed, and what it refused
\* is among those that arrived.
GuardInv ==
    /\ origin \in Sources /\ stream = Upto(Encoded(origin.frames), origin.cut)
    /\ handed \in 0..Len(stream)
    /\ StateAfter(stream, handed).field.kind \notin Refusals
    /\ fault = "none" => scan = StateAfter(stream, handed)
    /\ fault # "none" =>
          \E m \in 0..Len(stream) : StateAfter(stream, m).field.kind = fault /\ fault \in Refusals

LEMMA StreamIs ==
    ASSUME NEW s \in Sources
    PROVE  LET x == Encoded(s.frames)
           IN /\ x \in Seq(Nat) /\ s.cut \in 0..Len(x)
              /\ Upto(x, s.cut) \in Seq(Nat) /\ Len(Upto(x, s.cut)) = s.cut
              /\ \A k \in 0..s.cut : Upto(Upto(x, s.cut), k) = Upto(x, k)
              /\ \/ FirstFault(s.frames) = NoFault /\ Follow(FrameStart, x) = FrameStart
                 \/ FirstFault(s.frames) # NoFault /\ RefusedAt(x, FirstFault(s.frames).at, FirstFault(s.frames).error)
  <1> DEFINE x == Encoded(s.frames)
             T == Range(s.frames)
             c == s.cut
  <1>1. /\ s.frames \in Seq(T) /\ \A i \in DOMAIN s.frames : Formed(s.frames[i])
        /\ s.cut \in 0..Len(Encoded(s.frames))
    BY GuardAssumption
  <1> HIDE DEF T
  <1>2. x \in Seq(Nat)
    BY <1>1, EncodedIs
  <1>3. \/ FirstFault(s.frames) = NoFault /\ Follow(FrameStart, x) = FrameStart
        \/ FirstFault(s.frames) # NoFault /\ RefusedAt(x, FirstFault(s.frames).at, FirstFault(s.frames).error)
    BY <1>1, StreamFault
  <1>4. c \in 0..Len(x)
    BY <1>1
  <1> HIDE DEF x, c
  <1>5. Upto(x, c) \in Seq(Nat) /\ Len(Upto(x, c)) = c
    BY <1>2, <1>4, UptoIs
  <1>6. \A k \in 0..c : Upto(Upto(x, c), k) = Upto(x, k)
    BY <1>2, <1>4, UptoUpto
  <1> QED BY <1>2, <1>3, <1>4, <1>5, <1>6 DEF x, c

LEMMA GuardStarts ==
    GuardInit => GuardInv
  <1> SUFFICES ASSUME GuardInit PROVE GuardInv
    OBVIOUS
  <1>1. origin \in Sources /\ stream = Upto(Encoded(origin.frames), origin.cut) /\ handed = 0 /\ fault = "none" /\ scan = FrameStart
    BY DEF GuardInit, Upto, FrameStart
  <1>2. stream \in Seq(Nat)
    BY <1>1, StreamIs
  <1>3. StateAfter(stream, 0) = FrameStart /\ 0 \in 0..Len(stream)
    <2>1. Upto(stream, 0) = <<>>
      BY <1>2, UptoSteps
    <2>2. Len(stream) \in Nat
      BY <1>2
    <2> QED BY <2>1, <2>2, FollowNone DEF StateAfter
  <1>4. FrameStart.field.kind \notin Refusals
    BY DEF FrameStart, Collect, Field, Refusals
  <1> QED BY <1>1, <1>3, <1>4 DEF GuardInv

LEMMA GuardKeeps ==
    GuardInv /\ [GuardNext]_guardVars => GuardInv'
  <1> SUFFICES ASSUME GuardInv, [GuardNext]_guardVars PROVE GuardInv'
    OBVIOUS
  <1>1. ASSUME NEW n \in 1..CopyBuffer, GuardRead(n) PROVE GuardInv'
    <2> DEFINE more == SubSeq(stream, handed + 1, handed + n)
               next == Follow(scan, more)
               k == handed + n
    <2>1. /\ fault = "none" /\ handed + n <= Len(stream) /\ origin' = origin /\ stream' = stream
          /\ scan' = next
          /\ IF next.field.kind \in Refusals THEN fault' = next.field.kind /\ handed' = handed
             ELSE handed' = k /\ fault' = fault
      BY <1>1 DEF GuardRead
    <2>2. /\ origin \in Sources /\ stream = Upto(Encoded(origin.frames), origin.cut) /\ stream \in Seq(Nat)
          /\ handed \in 0..Len(stream) /\ scan = StateAfter(stream, handed)
          /\ StateAfter(stream, handed).field.kind \notin Refusals
      BY <2>1, StreamIs DEF GuardInv
    <2>3. CopyBuffer \in Nat
      BY GuardAssumption
    <2>4. handed \in Nat /\ n \in Nat /\ k \in 0..Len(stream) /\ handed \in 0..k /\ Len(stream) \in Nat
      <3>1. Len(stream) \in Nat
        BY <2>2
      <3> QED BY <2>1, <2>2, <2>3, <3>1
    <2>5. next = StateAfter(stream, k)
      <3> HIDE DEF k
      <3>1. SubSeq(stream, handed + 1, k) \in Seq(Nat) /\ Upto(stream, k) = Upto(stream, handed) \o SubSeq(stream, handed + 1, k)
        <4> DEFINE st == stream
                   h == handed
        <4>1. st \in Seq(Nat) /\ k \in 0..Len(st) /\ h \in 0..k
          BY <2>2, <2>4
        <4> HIDE DEF st, h
        <4>2. SubSeq(st, h + 1, k) \in Seq(Nat) /\ Upto(st, k) = Upto(st, h) \o SubSeq(st, h + 1, k)
          BY ONLY <4>1, UptoSplit
        <4> QED BY <4>2 DEF st, h
      <3> DEFINE a == Upto(stream, handed)
      <3>2. a \in Seq(Nat)
        BY <2>2, UptoIs
      <3>3. more \in Seq(Nat) /\ Upto(stream, k) = a \o more
        BY <3>1 DEF k
      <3> HIDE DEF a, more
      <3>4. Follow(FrameStart, a \o more) = Follow(Follow(FrameStart, a), more)
        BY <3>2, <3>3, FollowConcat
      <3>5. scan = Follow(FrameStart, a)
        BY <2>2 DEF a, StateAfter
      <3> QED BY <3>3, <3>4, <3>5 DEF StateAfter
    <2> HIDE DEF next, k
    <2>6. CASE next.field.kind \in Refusals
      <3>1. fault' = next.field.kind /\ handed' = handed
        BY <2>1, <2>6
      <3>2. fault' # "none"
        BY <2>6, <3>1 DEF Refusals
      <3>3. StateAfter(stream, k).field.kind = fault' /\ fault' \in Refusals
        BY <2>5, <2>6, <3>1
      <3> QED BY <2>1, <2>2, <2>4, <3>1, <3>2, <3>3 DEF GuardInv
    <2>7. CASE next.field.kind \notin Refusals
      <3>1. fault' = "none" /\ handed' = k
        BY <2>1, <2>7
      <3> QED BY <2>1, <2>2, <2>4, <2>5, <2>7, <3>1 DEF GuardInv
    <2> QED BY <2>6, <2>7
  <1>2. CASE UNCHANGED guardVars
    BY <1>2 DEF guardVars, GuardInv
  <1> QED BY <1>1, <1>2 DEF GuardNext

LEMMA GuardHolds ==
    GuardInv => WindowHeld
  <1> SUFFICES ASSUME GuardInv PROVE WindowHeld
    OBVIOUS
  <1> DEFINE x == Encoded(origin.frames)
             c == origin.cut
             bad == FirstFault(origin.frames)
             at == bad.at
             met == bad # NoFault /\ bad.at <= Len(stream)
  <1>1. /\ x \in Seq(Nat) /\ c \in 0..Len(x) /\ stream = Upto(x, c) /\ Len(stream) = c
        /\ \A k \in 0..c : Upto(stream, k) = Upto(x, k)
        /\ \/ bad = NoFault /\ Follow(FrameStart, x) = FrameStart
           \/ bad # NoFault /\ RefusedAt(x, at, bad.error)
    <2>1. origin \in Sources /\ stream = Upto(x, c)
      BY DEF GuardInv
    <2>2. /\ x \in Seq(Nat) /\ c \in 0..Len(x)
          /\ Upto(x, c) \in Seq(Nat) /\ Len(Upto(x, c)) = c
          /\ \A k \in 0..c : Upto(Upto(x, c), k) = Upto(x, k)
          /\ \/ bad = NoFault /\ Follow(FrameStart, x) = FrameStart
             \/ bad # NoFault /\ RefusedAt(x, at, bad.error)
      BY <2>1, StreamIs
    <2> HIDE DEF x, c, bad, at
    <2> QED BY <2>1, <2>2
  <1>2. /\ handed \in 0..c /\ Follow(FrameStart, Upto(stream, handed)).field.kind \notin Refusals
        /\ fault # "none" => \E m \in 0..c : Follow(FrameStart, Upto(stream, m)).field.kind = fault /\ fault \in Refusals
    BY <1>1 DEF GuardInv, StateAfter
  <1> HIDE DEF x, c, bad, at
  <1>3. Len(x) \in Nat /\ c \in Nat /\ c <= Len(x) /\ Upto(x, Len(x)) = x
    <2>1. Len(x) \in Nat /\ Upto(x, Len(x)) = x
      BY <1>1, UptoConcat
    <2> QED BY <1>1, <2>1
  <1>4. ASSUME bad # NoFault
        PROVE  /\ at \in 1..Len(x) /\ bad.error \in Refusals
               /\ \A k \in 0..Len(x) : k >= at => Follow(FrameStart, Upto(x, k)).field.kind = bad.error
               /\ \A k \in 0..Len(x) : k < at => Follow(FrameStart, Upto(x, k)).field.kind \notin Refusals
    <2>1. /\ at \in 1..Len(x) /\ bad.error \in Refusals /\ Follow(FrameStart, Upto(x, at)) = Refused(bad.error)
          /\ Follow(FrameStart, Upto(x, at - 1)).field.kind \notin Refusals
      BY <1>1, <1>4 DEF RefusedAt
    <2>2. Refused(bad.error).field.kind = bad.error
      BY DEF Refused, Field
    <2>3. ASSUME NEW k \in 0..Len(x), k >= at PROVE Follow(FrameStart, Upto(x, k)).field.kind = bad.error
      <3>1. at \in 0..k /\ Follow(FrameStart, Upto(x, at)).field.kind \in Refusals
        BY <1>3, <2>1, <2>2, <2>3
      <3>2. Follow(FrameStart, Upto(x, k)) = Follow(FrameStart, Upto(x, at))
        BY <1>1, <3>1, Absorbed
      <3> QED BY <2>1, <2>2, <3>2
    <2>4. ASSUME NEW k \in 0..Len(x), k < at, Follow(FrameStart, Upto(x, k)).field.kind \in Refusals PROVE FALSE
      <3> DEFINE j == at - 1
      <3>1. j \in 0..Len(x) /\ k \in 0..j
        BY <1>3, <2>1, <2>4
      <3> HIDE DEF j
      <3>2. Follow(FrameStart, Upto(x, j)) = Follow(FrameStart, Upto(x, k))
        BY <1>1, <2>4, <3>1, Absorbed
      <3> QED BY <2>1, <2>4, <3>2 DEF j
    <2> QED BY <2>1, <2>3, <2>4
  <1>5. met => handed < at
    <2> SUFFICES ASSUME met, ~(handed < at) PROVE FALSE
      BY <1>2, <1>3, <1>4
    <2>1. handed \in 0..Len(x) /\ handed >= at
      BY <1>2, <1>3, <1>4
    <2>2. Follow(FrameStart, Upto(x, handed)).field.kind = bad.error /\ bad.error \in Refusals
      BY <1>4, <2>1
    <2> QED BY <1>1, <1>2, <2>2
  <1>6. fault # "none" => met /\ fault = bad.error
    <2> SUFFICES ASSUME fault # "none" PROVE met /\ fault = bad.error
      OBVIOUS
    <2>1. PICK m \in 0..c : Follow(FrameStart, Upto(stream, m)).field.kind = fault /\ fault \in Refusals
      BY <1>2
    <2>2. m \in 0..Len(x) /\ Len(x) \in 0..Len(x) /\ Follow(FrameStart, Upto(x, m)).field.kind = fault
      BY <1>1, <1>3, <2>1, SMTT(30)
    <2>3. bad # NoFault
      <3> SUFFICES ASSUME bad = NoFault PROVE FALSE
        OBVIOUS
      <3>1. Follow(FrameStart, x) = FrameStart
        BY <1>1
      <3> DEFINE l == Len(x)
      <3>2. l \in 0..Len(x) /\ m \in 0..l /\ Upto(x, l) = x
        BY <1>3, <2>2
      <3> HIDE DEF l
      <3>3. Follow(FrameStart, Upto(x, l)) = Follow(FrameStart, Upto(x, m))
        BY <1>1, <2>1, <2>2, <3>2, Absorbed
      <3>4. FrameStart.field.kind \notin Refusals
        BY DEF FrameStart, Collect, Field, Refusals
      <3> QED BY <2>1, <2>2, <3>1, <3>2, <3>3, <3>4
    <2>4. ~(m < at)
      BY <1>4, <2>1, <2>2, <2>3
    <2>5. m >= at /\ at \in Nat /\ m \in Nat
      BY <1>4, <2>2, <2>3, <2>4
    <2>6. fault = bad.error
      BY <1>4, <2>2, <2>3, <2>5
    <2>7. at <= Len(stream)
      BY <1>1, <1>3, <2>1, <2>5
    <2> QED BY <2>3, <2>6, <2>7 DEF at
  <1> QED BY <1>5, <1>6 DEF WindowHeld, bad, at

\* outer.rs WindowGuard::read, over any stream of frames that arrives whole or
\* cut, in reads of any sizes, never hands the decoder the byte that completes
\* a header past the window limit or a field it cannot read, answers with that
\* field's own error, and answers so for nothing else.
THEOREM WindowSafety == GuardSpec => []WindowHeld
  <1>1. GuardInv /\ [GuardNext]_guardVars => GuardInv'
    BY GuardKeeps
  <1> QED BY GuardStarts, <1>1, GuardHolds, PTL DEF GuardSpec
=============================================================================
