---------------------------- MODULE ReleaseTrust ----------------------------
(***************************************************************************)
(* The doors onto the release-trust tree of src/src/release_trust.rs: the  *)
(* install-time seed and replace, the join-material bootstrap, the runtime *)
(* accept and chain, and the re-bootstrap.  Each call runs read by read;   *)
(* the tree underneath is the register the generation engine implements    *)
(* (TrustRegister), and every verdict is PackageVerify's.                  *)
(*                                                                         *)
(* A delivered package is a record                                         *)
(*   walks               the container opens, extracts whole and carries   *)
(*                       trust-set.json                                    *)
(*   sig, hint, format   as in PackageVerify                               *)
(*   component, version, commit   its one manifest entry                   *)
(*   doc                 the trust-set.json member                         *)
(* and a document has its digest, epoch, anchors, withdrawn triples,       *)
(* minFormat, and whether the provisional decode reads it (`decodes`) and  *)
(* the refusing reader finds its other fields well formed (`sound`).       *)
(***************************************************************************)
EXTENDS PackageVerify

CONSTANTS
    Callers,       \* processes that may be in a call at one time
    Packages,      \* the deliverable packages
    Chains,        \* the package sequences a chain replay may be given
    Doors,         \* the doors in use: a subset of AllDoors
    JoinMaterial,  \* the package in the join-material location, or None
    RequirePin,    \* whether the require-trust-pin marker is set
    Pins,          \* pins a caller may supply, NoPin among them
    None,
    Decimal(_),    \* an epoch in decimal
    MaxGen,        \* bound: installs in a behaviour
    MaxFaults,     \* bound: I/O faults and killed calls
    MaxLosses      \* bound: power losses

AllDoors == {"seed", "join", "replace", "accept", "chain", "rebootstrap"}
NoPin == "nopin"
Epochs == {p.doc.epoch : p \in Packages}

ASSUME DoorsAssumption ==
    /\ Doors \subseteq AllDoors
    /\ \A s \in Chains : s \in Seq(Packages) /\ s # <<>>
    /\ JoinMaterial \in Packages \cup {None}
    /\ None \notin Packages
    /\ RequirePin \in BOOLEAN
    /\ NoPin \in Pins
    /\ \A p \in Packages : p.doc.epoch \in Nat /\ p.doc.minFormat \in Nat /\ p.format \in Nat
    /\ MaxGen \in Nat /\ MaxFaults \in Nat /\ MaxLosses \in Nat

VARIABLES
    live, kept, used,   \* the tree, as TrustRegister has it
    call,               \* per caller, the call in progress
    result,             \* per caller, what its last call returned
    promised, acked,    \* history: the highest epoch a call reported as
                        \*   changed, and as accepted at all, since the last
                        \*   replace
    faults, losses      \* bounds spent

tree == <<live, kept, used>>
history == <<promised, acked>>
bounds == <<faults, losses>>
vars == <<tree, call, result, history, bounds>>

EpochOf(entry) == IF entry.at = 0 THEN 0 ELSE entry.mat.doc.epoch
-----------------------------------------------------------------------------
(* trust_set.rs: the two readers of a document *)

LiveAnchors(doc, alg) == {a \in doc.anchors : a.alg = alg /\ ~a.revoked}

\* TrustSet::new refuses two anchors of one key, and so does check_document.
DistinctKeys(anchors) == \A a, b \in anchors : a.key = b.key => a = b

\* The refusing reader: check_document, and the version and field gates.
ReadTrustSetDocument(doc) ==
    /\ doc.sound /\ doc.epoch # 0
    /\ \A alg \in Algorithms : LiveAnchors(doc, alg) # {}
    /\ DistinctKeys(doc.anchors)

\* The candidate set a document is self-admitted against.
SelfAdmissionCandidate(doc) ==
    [anchors |-> doc.anchors, withdrawn |-> {}, minFormat |-> 0, epoch |-> doc.epoch]

\* The set the verifier is given for a generation on disk.
TrustSetOf(doc, epoch) ==
    [anchors |-> doc.anchors, withdrawn |-> doc.withdrawn,
     minFormat |-> doc.minFormat, epoch |-> epoch]
-----------------------------------------------------------------------------
(* The verdicts *)

Container(p) ==
    [framed |-> TRUE, sig |-> p.sig, hint |-> p.hint, format |-> p.format,
     stage1 |-> TRUE, decodes |-> TRUE, members |-> <<"trust-set.json">>,
     artifacts |-> <<[path |-> "trust-set.json", component |-> p.component,
                      version |-> p.version, commit |-> p.commit,
                      image |-> NoImage, disposed |-> TRUE, sound |-> TRUE]>>]

\* for_trust and for_trust_self_admission.
ForTrust(doc, epoch) ==
    [target |-> TrustTarget, version |-> Decimal(doc.epoch), commit |-> doc.digest,
     epoch |-> epoch, namespace |-> "none"]

\* verify_self_admitted, and the same steps again in validate_staged.
SelfAdmits(p) ==
    /\ p.walks
    /\ p.doc.decodes /\ DistinctKeys(p.doc.anchors)
    /\ VerifyPackage(Container(p), SelfAdmissionCandidate(p.doc), ForTrust(p.doc, NoEpoch)) = "ok"
    /\ ReadTrustSetDocument(p.doc)

\* Mutant: the copy is taken as it was verified.
ValidateStagedNothing(p) == TRUE

\* What the engine's validator says of the staged copy.  The record holds
\* the document's epoch, as `material` wrote it.
ValidateStaged(p) == SelfAdmits(p)

CheckDeliveredEpochCarriers(p) == p.version = Decimal(p.doc.epoch)

\* Mutant: the delivered document's own anchors are injected.
JudgeAcceptOwnAnchors(p, doc, epoch) ==
    /\ p.walks /\ p.doc.decodes
    /\ CheckDeliveredEpochCarriers(p)
    /\ VerifyPackage(Container(p), TrustSetOf(p.doc, epoch), ForTrust(p.doc, p.doc.epoch)) = "ok"
    /\ ReadTrustSetDocument(p.doc)

\* accept_generation past the byte comparison: the delivered package under
\* the active document `doc` and the recorded `epoch`.
JudgeAccept(p, doc, epoch) ==
    /\ p.walks /\ p.doc.decodes
    /\ CheckDeliveredEpochCarriers(p)
    /\ VerifyPackage(Container(p), TrustSetOf(doc, epoch), ForTrust(p.doc, p.doc.epoch)) = "ok"
    /\ ReadTrustSetDocument(p.doc)

CheckFingerprintPin(pin, p) == pin = NoPin \/ pin = p.doc.digest

\* rebootstrap_generation past the read of the record.
JudgeRebootstrap(p, recorded, asserted, pin) ==
    /\ asserted = recorded
    /\ RequirePin => pin # NoPin
    /\ SelfAdmits(p)
    /\ CheckFingerprintPin(pin, p)
    /\ p.doc.epoch > recorded
-----------------------------------------------------------------------------
(* Calls *)

Register == INSTANCE TrustRegister WITH Valid <- Packages

\* A call in progress: the packages still to come, how many were accepted,
\* and what it has read of the tree so far.
Idle == [pc |-> "idle", door |-> "none", todo |-> <<>>, done |-> 0, pin |-> NoPin,
         asserted |-> 0, idx |-> 0, epoch |-> 0, base |-> None]
NoResult == [how |-> "none", done |-> 0, door |-> "none"]

Init ==
    /\ Register!Init
    /\ call = [c \in Callers |-> Idle]
    /\ result = [c \in Callers |-> NoResult]
    /\ promised = 0 /\ acked = 0 /\ faults = 0 /\ losses = 0

At(c, pc) == call[c].pc = pc
Pkg(c) == Head(call[c].todo)
Goto(c, pc) == call' = [call EXCEPT ![c].pc = pc] /\ UNCHANGED <<result, history>>

Begin(c, door, pc, todo, pin, asserted) ==
    /\ At(c, "idle") /\ door \in Doors
    /\ call' = [call EXCEPT ![c] = [Idle EXCEPT !.pc = pc, !.door = door, !.todo = todo,
                                                !.pin = pin, !.asserted = asserted]]
    /\ result' = [result EXCEPT ![c] = NoResult]
    /\ UNCHANGED <<tree, history, bounds>>

AdmitSeedGeneration(c, p) == Begin(c, "seed", "gate", <<p>>, NoPin, 0)
BootstrapFromJoinMaterial(c, pin) == Begin(c, "join", "gate", <<JoinMaterial>>, pin, 0)
ReplaceGeneration(c, p) == Begin(c, "replace", "judge", <<p>>, NoPin, 0)
AcceptGeneration(c, p) == Begin(c, "accept", "probe", <<p>>, NoPin, 0)
AcceptGenerationChain(c, s) == Begin(c, "chain", "probe", s, NoPin, 0)
RebootstrapGeneration(c, p, asserted, pin) ==
    Begin(c, "rebootstrap", "record", <<p>>, pin, asserted)

\* The call returns an error; a chain says how many steps were accepted.
Refuse(c, how) ==
    /\ call' = [call EXCEPT ![c] = Idle]
    /\ result' = [result EXCEPT ![c] = [how |-> how, done |-> call[c].done, door |-> call[c].door]]
    /\ UNCHANGED history

HigherOf(a, b) == IF a > b THEN a ELSE b

\* The step is accepted: a chain goes on with the next package.
Accept(c, changed, epoch) ==
    /\ call' = [call EXCEPT ![c] =
                  IF Len(call[c].todo) = 1 THEN Idle
                  ELSE [Idle EXCEPT !.pc = "probe", !.door = call[c].door,
                                    !.todo = Tail(call[c].todo), !.done = call[c].done + 1]]
    /\ result' = IF Len(call[c].todo) = 1
                 THEN [result EXCEPT ![c] = [how |-> "ok", done |-> call[c].done + 1,
                                             door |-> call[c].door]]
                 ELSE result
    /\ promised' = IF changed THEN HigherOf(promised, epoch) ELSE promised
    /\ acked' = HigherOf(acked, epoch)
-----------------------------------------------------------------------------
(* Reads.  Each resolves `active` again. *)

\* admit_onto_empty_tree: the gate first, then the source of the bytes.
Gate(c) ==
    /\ At(c, "gate")
    /\ IF live.at # 0 \/ Pkg(c) = None THEN Refuse(c, "refused") ELSE Goto(c, "judge")
    /\ UNCHANGED <<tree, bounds>>

\* active_generation_index.
Probe(c) ==
    /\ At(c, "probe")
    /\ IF live.at = 0 THEN Refuse(c, "refused")
       ELSE /\ call' = [call EXCEPT ![c].pc = "record", ![c].idx = live.at]
            /\ UNCHANGED <<result, history>>
    /\ UNCHANGED <<tree, bounds>>

\* read_active_epoch: the stat and the epoch record.
ReadRecord(c) ==
    /\ At(c, "record")
    /\ IF live.at = 0 THEN Refuse(c, "refused")
       ELSE /\ call' = [call EXCEPT ![c].epoch = EpochOf(live),
                          ![c].pc = IF call[c].door = "rebootstrap" THEN "judge" ELSE "document"]
            /\ UNCHANGED <<result, history>>
    /\ UNCHANGED <<tree, bounds>>

\* read_generation_material: the document, which the record must agree with.
ReadDocument(c) ==
    /\ At(c, "document")
    /\ IF EpochOf(live) # call[c].epoch THEN Refuse(c, "refused")
       ELSE /\ call' = [call EXCEPT ![c].pc = "compare", ![c].base = live.mat]
            /\ UNCHANGED <<result, history>>
    /\ UNCHANGED <<tree, bounds>>

\* Mutant: a redelivery of the active generation goes to the verifier.
CompareNothing(c) ==
    /\ At(c, "compare")
    /\ Goto(c, "judge")
    /\ UNCHANGED <<tree, bounds>>

\* accept_generation's byte comparison with active/generation.pkg.
Compare(c) ==
    /\ At(c, "compare")
    /\ IF live.mat = Pkg(c) THEN Accept(c, FALSE, call[c].epoch) ELSE Goto(c, "judge")
    /\ UNCHANGED <<tree, bounds>>

Judged(c) ==
    LET k == call[c] IN
    CASE k.door \in {"accept", "chain"} -> JudgeAccept(Pkg(c), k.base.doc, k.epoch)
      [] k.door = "rebootstrap" -> JudgeRebootstrap(Pkg(c), k.epoch, k.asserted, k.pin)
      [] OTHER -> SelfAdmits(Pkg(c)) /\ CheckFingerprintPin(k.pin, Pkg(c))

Judge(c) ==
    /\ At(c, "judge")
    /\ IF Judged(c) THEN Goto(c, "stage") ELSE Refuse(c, "refused")
    /\ UNCHANGED <<tree, bounds>>
-----------------------------------------------------------------------------
(* install_generation over the engine's register *)

\* Byte-identical material is the engine's no-op.  Otherwise the staged copy
\* is validated, and flushing the finalised generation flushes the root.
\* The register describes one installation at a time: two that overlap inside
\* the engine are not modelled.
Stage(c) ==
    /\ At(c, "stage")
    /\ \A d \in Callers \ {c} : call[d].pc \notin {"swap", "flush", "prune"}
    /\ IF live.at # 0 /\ live.mat = Pkg(c)
       THEN Accept(c, FALSE, Pkg(c).doc.epoch) /\ UNCHANGED tree
       ELSE IF ~ValidateStaged(Pkg(c))
       THEN Refuse(c, "refused") /\ UNCHANGED tree
       ELSE Register!Commit /\ Goto(c, "swap")
    /\ UNCHANGED bounds

\* The swap; a replace is the operator's reset of the floor.
Swap(c) ==
    /\ At(c, "swap")
    /\ \E n \in 1..MaxGen :
          /\ \A k \in 1..MaxGen : k < n => k \in used
          /\ Register!Install(n, Pkg(c))
    /\ call' = [call EXCEPT ![c].pc = "flush"]
    /\ promised' = IF call[c].door = "replace" THEN 0 ELSE promised
    /\ acked' = IF call[c].door = "replace" THEN 0 ELSE acked
    /\ UNCHANGED <<result, bounds>>

\* Mutant: the swap is reported without being flushed.
FlushNothing(c) ==
    /\ At(c, "flush")
    /\ Goto(c, "prune")
    /\ UNCHANGED <<tree, bounds>>

Flush(c) ==
    /\ At(c, "flush")
    /\ Register!Commit
    /\ Goto(c, "prune")
    /\ UNCHANGED bounds

Prune(c) ==
    /\ At(c, "prune")
    /\ Accept(c, TRUE, Pkg(c).doc.epoch)
    /\ UNCHANGED <<tree, bounds>>
-----------------------------------------------------------------------------
\* A read or a step of the installation fails: the call returns the error.
\* Verification reads memory alone and does not fail this way.
Fault(c) ==
    /\ call[c].pc \notin {"idle", "judge"} /\ faults < MaxFaults
    /\ faults' = faults + 1
    /\ Refuse(c, "error")
    /\ UNCHANGED <<tree, losses>>

\* The process is killed: nothing is returned to anybody.
Kill(c) ==
    /\ ~At(c, "idle") /\ faults < MaxFaults
    /\ faults' = faults + 1
    /\ call' = [call EXCEPT ![c] = Idle]
    /\ UNCHANGED <<tree, result, history, losses>>

PowerLoss ==
    /\ losses < MaxLosses
    /\ losses' = losses + 1
    /\ Register!PowerLoss
    /\ call' = [c \in Callers |-> Idle]
    /\ result' = [c \in Callers |-> NoResult]
    /\ UNCHANGED <<history, faults>>

Start(c) ==
    \/ \E p \in Packages : \/ AdmitSeedGeneration(c, p)
                           \/ ReplaceGeneration(c, p)
                           \/ AcceptGeneration(c, p)
    \/ \E pin \in Pins : BootstrapFromJoinMaterial(c, pin)
    \/ \E s \in Chains : AcceptGenerationChain(c, s)
    \/ \E p \in Packages, e \in Epochs, pin \in Pins : RebootstrapGeneration(c, p, e, pin)

Step(c) ==
    \/ Gate(c) \/ Probe(c) \/ ReadRecord(c) \/ ReadDocument(c) \/ Compare(c)
    \/ Judge(c) \/ Stage(c) \/ Swap(c) \/ Flush(c) \/ Prune(c)

Next ==
    \/ \E c \in Callers : Start(c) \/ Step(c) \/ Fault(c) \/ Kill(c)
    \/ PowerLoss

Spec == Init /\ [][Next]_vars
-----------------------------------------------------------------------------
(* Properties *)

PCs == {"idle", "gate", "probe", "record", "document", "compare", "judge",
        "stage", "swap", "flush", "prune"}
Entries == [at : 0..MaxGen, mat : Packages \cup {None}]

CallRecords ==
    [pc : PCs, door : AllDoors \cup {"none"}, todo : Seq(Packages \cup {None}), done : Nat,
     pin : Pins, asserted : Nat, idx : 0..MaxGen, epoch : Nat, base : Packages \cup {None}]
Results == [how : {"none", "ok", "refused", "error"}, done : Nat, door : AllDoors \cup {"none"}]

TypeOK ==
    /\ live \in Entries /\ kept \in SUBSET Entries /\ live \in kept
    /\ used \in SUBSET (1..MaxGen)
    /\ \A k \in kept : k.at = 0 <=> k.mat = None
    /\ call \in [Callers -> CallRecords] /\ result \in [Callers -> Results]
    /\ \A c \in Callers :
          /\ At(c, "idle") <=> call[c].todo = <<>>
          /\ IF At(c, "gate") THEN Len(call[c].todo) = 1 ELSE call[c].todo \in Seq(Packages)
    /\ promised \in Nat /\ acked \in Nat
    /\ faults \in 0..MaxFaults /\ losses \in 0..MaxLosses

Installing(c) == At(c, "swap") /\ live'.at > live.at

\* Whatever a call reported as activated, the active epoch never falls below
\* it again: not by another door short of an operator's replace, not by a
\* redelivery, a failed or killed call, nor by losing power.
ChangedFloorSurvives == promised <= EpochOf(live)

\* Every generation readers can resolve, now or after a power loss, is one the
\* self-admission sequence accepts: a runtime accept, which judges by the
\* predecessor's keys alone, cannot leave a tree that no longer vouches for
\* itself.
LiveSelfAdmits == \A k \in kept \cup {live} : k.at # 0 => SelfAdmits(k.mat)

\* Every swap is earned.  "Activation therefore requires the delivered signed
\* `epoch` to be strictly greater than the active generation's"
\* (accept_generation), at the moment of the swap.  A generation accepted at
\* runtime is signed, in both algorithms, by keys live in the generation it
\* supersedes, is not withdrawn by it and is minted at or above its format
\* floor.  And no door but the operator's replace overrides an active
\* generation with one that it does not vouch for, unless the host's pin, when
\* the host requires one, named that very document.
SwapIsEarned ==
    [][\A c \in Callers : Installing(c) =>
         LET door == call[c].door
             doc == live.mat.doc
             p == live'.mat
             vouched == \A alg \in Algorithms : \E a \in LiveAnchors(doc, alg) : a.key = p.sig[alg]
         IN /\ door \in {"accept", "chain", "rebootstrap"} => EpochOf(live') > EpochOf(live)
            /\ door \in {"accept", "chain"} =>
                 /\ vouched /\ <<p.component, p.version, p.commit>> \notin doc.withdrawn
                 /\ p.format >= doc.minFormat
            /\ (live.at # 0 /\ door # "replace") =>
                 vouched \/ (door = "rebootstrap" /\ (RequirePin => call[c].pin = p.doc.digest))]_vars

\* accept_generation: "The activated epoch is written to the new generation's
\* `epoch` record, so the floor survives a restart."
AcknowledgedFloorSurvives == acked <= EpochOf(live)
=============================================================================
