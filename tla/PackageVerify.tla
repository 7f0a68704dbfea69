---------------------------- MODULE PackageVerify ----------------------------
(***************************************************************************)
(* The verdict of src/src/verify.rs: verify_package over a container, a    *)
(* trust set and a request, check by check in the order the code runs      *)
(* them.  A verdict is "ok" or the name of the refusal.                    *)
(*                                                                         *)
(* A package is a record                                                   *)
(*   framed      the container's framing is readable                       *)
(*   sig, hint   per algorithm, the signature and key_id envelope blocks   *)
(*   stage1      stage one reads the manifest: JSON, a usable version key  *)
(*   format      the declared format version, NoFormat when it has none    *)
(*   decodes     the typed decode of the manifest succeeds                 *)
(*   members     the bound archive member names, in order                  *)
(*   artifacts   the artifact entries, in order; `disposed` when an entry  *)
(*               has a disposition, `sound` when its commit, spec and      *)
(*               image fields are valid                                    *)
(* A signature block is the key that made it, "absent", or "wrong" for one *)
(* at an unusable length or that verifies under no key.                    *)
(***************************************************************************)
EXTENDS Integers, Sequences, FiniteSets

CONSTANTS
    BuildFormats,   \* manifest format versions this build implements
    UnsafePaths,    \* member names is_safe_archive_path refuses
    UnsafeIds       \* identifiers is_safe_build_identifier refuses

Algorithms == {"ed25519", "mldsa87"}
TrustTarget == "trust"
NoEpoch == -1
NoFormat == 0
NoImage == [refs |-> <<>>]

\* The first refusal of a list of verdicts, in order.
FirstOf(verdicts) ==
    LET faults == {i \in DOMAIN verdicts : verdicts[i] # "ok"}
    IN IF faults = {} THEN "ok"
       ELSE verdicts[CHOOSE i \in faults : \A j \in faults : i <= j]

\* A check that has to pass before the next can be asked.
AndThen(v, next) == IF v = "ok" THEN next ELSE v
-----------------------------------------------------------------------------
(* Steps 2 to 4: authenticate_manifest *)

\* The set's anchors of one algorithm; the other's are never tried.
Anchors(alg, trust) == {a \in trust.anchors : a.alg = alg}

Verifies(anchor, sig) == sig = anchor.key

\* The hinted live anchor first, then every live one, then the revoked ones;
\* a hint naming no anchor of the algorithm only names the refusal.
VerifySignature(alg, pkg, trust) ==
    LET sig == pkg.sig[alg]
        hint == pkg.hint[alg]
        live == {a \in Anchors(alg, trust) : ~a.revoked}
        gone == Anchors(alg, trust) \ live
    IN IF sig = "absent" THEN "BadSignature"
       ELSE IF \E a \in live : a.key = hint /\ Verifies(a, sig) THEN "ok"
       ELSE IF \E a \in live : Verifies(a, sig) THEN "ok"
       ELSE IF \E a \in gone : Verifies(a, sig) THEN "RevokedKey"
       ELSE IF hint # "none" /\ \A a \in Anchors(alg, trust) : a.key # hint
            THEN "UnknownKeyId" ELSE "BadSignature"

\* from_parts over one entry: its path, and its own fields.
EntryFault(artifacts, i) ==
    IF ~artifacts[i].disposed THEN "Payload"
    ELSE IF artifacts[i].path \in UnsafePaths THEN "UnsafePath"
    ELSE IF \E j \in 1..(i - 1) : artifacts[j].path = artifacts[i].path THEN "DuplicatePath"
    ELSE IF ~artifacts[i].sound THEN "Payload" ELSE "ok"

\* Mutant: an unversioned manifest is taken for the baseline.
ParseManifestBaseline(pkg) ==
    FirstOf(<<IF pkg.format \in BuildFormats \cup {NoFormat} THEN "ok"
              ELSE "UnsupportedManifestFormat",
              IF pkg.decodes THEN "ok" ELSE "Payload">> \o
            [i \in DOMAIN pkg.artifacts |-> EntryFault(pkg.artifacts, i)])

\* The build's own format range decides before the body is decoded.  A signed
\* container's footer is past the pre-versioned baseline's, so a manifest
\* with no version is refused.
ParseManifest(pkg) ==
    FirstOf(<<IF pkg.format = NoFormat THEN "Payload"
              ELSE IF pkg.format \in BuildFormats THEN "ok" ELSE "UnsupportedManifestFormat",
              IF pkg.decodes THEN "ok" ELSE "Payload">> \o
            [i \in DOMAIN pkg.artifacts |-> EntryFault(pkg.artifacts, i)])

\* Both signatures over the raw bytes, the injected floor where a version is
\* declared, then the parse.
AuthenticateManifest(pkg, trust) ==
    FirstOf(<<VerifySignature("ed25519", pkg, trust),
              VerifySignature("mldsa87", pkg, trust),
              IF pkg.stage1 THEN "ok" ELSE "Payload",
              IF pkg.format # NoFormat /\ pkg.format < trust.minFormat
              THEN "UnsupportedManifestFormat" ELSE "ok",
              ParseManifest(pkg)>>)
-----------------------------------------------------------------------------
(* Steps 5 to 9: the statements of an authenticated manifest *)

Listed(pkg) == {pkg.artifacts[i].path : i \in DOMAIN pkg.artifacts}
Bound(pkg) == {pkg.members[i] : i \in DOMAIN pkg.members}

MemberFault(members, i) ==
    IF members[i] \in UnsafePaths THEN "UnsafePath"
    ELSE IF \E j \in 1..(i - 1) : members[j] = members[i] THEN "DuplicatePath"
    ELSE "ok"

\* Member names, then members no artifact claims, then artifacts whose
\* member is not bound.
CheckCompleteness(pkg) ==
    FirstOf([i \in DOMAIN pkg.members |-> MemberFault(pkg.members, i)] \o
            <<IF Bound(pkg) \subseteq Listed(pkg) THEN "ok" ELSE "UnlistedMember",
              IF pkg.artifacts = <<>> THEN "MissingRequiredMember" ELSE "ok",
              IF Listed(pkg) \subseteq Bound(pkg) THEN "ok" ELSE "MissingRequiredMember">>)

Identifiers(a) == {a.component, a.version, a.commit}

CheckIdentifiers(pkg) ==
    IF \E i \in DOMAIN pkg.artifacts : Identifiers(pkg.artifacts[i]) \cap UnsafeIds # {}
    THEN "UnsafeBuildIdentifier" ELSE "ok"

CheckWithdrawal(pkg, trust) ==
    IF \E i \in DOMAIN pkg.artifacts :
          LET a == pkg.artifacts[i]
          IN <<a.component, a.version, a.commit>> \in trust.withdrawn
    THEN "WithdrawnBuild" ELSE "ok"

\* Every entry carries the requested build.
CheckTarget(pkg, req) ==
    IF \A i \in DOMAIN pkg.artifacts :
          LET a == pkg.artifacts[i]
          IN a.component = req.target /\ a.version = req.version /\ a.commit = req.commit
    THEN "ok" ELSE "TargetMismatch"

\* Only a request for the reserved target delivers an epoch to compare.
CheckEpoch(req, trust) ==
    IF req.epoch = NoEpoch \/ req.epoch > trust.epoch THEN "ok" ELSE "StaleTrustSet"
-----------------------------------------------------------------------------
(* Steps 10 to 15: the image declarations, one whole-manifest pass each.   *)
(* A declaration has its platform and whether that is its artifact's       *)
(* (`native`), its config digest, its owner, whether its lifecycle is      *)
(* managed_runtime, and its references.  A reference is its normalized     *)
(* name, whether its host is the reserved registry, and whether it is      *)
(* literally the canonical alias of its own declaration.                   *)

Declared(pkg) == {i \in DOMAIN pkg.artifacts : pkg.artifacts[i].image # NoImage}
Image(pkg, i) == pkg.artifacts[i].image

CheckDeclaredPlatforms(pkg) ==
    IF \A i \in Declared(pkg) : Image(pkg, i).native THEN "ok" ELSE "PlatformMismatch"

ReservedFault(image, ref) ==
    IF ~ref.reserved THEN "ok"
    ELSE IF ~ref.canonical THEN "NonCanonicalReservedReference"
    ELSE IF ~image.managed THEN "ReservedReferenceLifecycle" ELSE "ok"

\* Every reference of every declaration, in manifest then declaration order.
Slots(pkg) ==
    UNION {{<<i, j>> : j \in DOMAIN Image(pkg, i).refs} : i \in Declared(pkg)}
Before(s, t) == s[1] < t[1] \/ (s[1] = t[1] /\ s[2] < t[2])
Ref(pkg, s) == Image(pkg, s[1]).refs[s[2]]

CheckReservedAliases(pkg) ==
    LET bad == {s \in Slots(pkg) : ReservedFault(Image(pkg, s[1]), Ref(pkg, s)) # "ok"}
    IN IF bad = {} THEN "ok"
       ELSE LET s == CHOOSE s \in bad : \A t \in bad \ {s} : Before(s, t)
            IN ReservedFault(Image(pkg, s[1]), Ref(pkg, s))

\* Two declarations assigning one reference must name one image.
ConflictBetween(first, later) ==
    \/ first.config # later.config
    \/ first.platform # later.platform
    \/ first.owner # later.owner
    \/ first.managed # later.managed

\* A later assignment is compared with the first of the same reference.
CheckReferenceConflicts(pkg) ==
    LET slots == Slots(pkg)
        same == {p \in slots \X slots : Ref(pkg, p[1]).norm = Ref(pkg, p[2]).norm}
        first == {p \in same : \A q \in same : q[2] = p[2] => q[1] = p[1] \/ Before(p[1], q[1])}
    IN IF \E p \in first : ConflictBetween(Image(pkg, p[1][1]), Image(pkg, p[2][1]))
       THEN "ConflictingReference" ELSE "ok"

\* A namespace to check against, then every owner's namespace, then every
\* owner's component.
CheckOwners(pkg, req) ==
    IF Declared(pkg) = {} THEN "ok"
    ELSE IF req.namespace = "none" THEN "MissingNamespace"
    ELSE IF \E i \in Declared(pkg) : Image(pkg, i).owner.namespace # req.namespace
         THEN "NamespaceMismatch"
    ELSE IF \E i \in Declared(pkg) : Image(pkg, i).owner.component # req.target
         THEN "OwnerComponentMismatch" ELSE "ok"

CheckImages(pkg, req) ==
    FirstOf(<<CheckDeclaredPlatforms(pkg), CheckReservedAliases(pkg),
              CheckReferenceConflicts(pkg), CheckOwners(pkg, req)>>)
-----------------------------------------------------------------------------
\* Mutant: the request is judged before the withdrawn list.
CheckStatementsTargetFirst(pkg, req, trust) ==
    FirstOf(<<CheckCompleteness(pkg), CheckIdentifiers(pkg), CheckTarget(pkg, req),
              CheckWithdrawal(pkg, trust), CheckEpoch(req, trust), CheckImages(pkg, req)>>)

\* About the package first, about the request last.
CheckStatements(pkg, req, trust) ==
    FirstOf(<<CheckCompleteness(pkg), CheckIdentifiers(pkg), CheckWithdrawal(pkg, trust),
              CheckTarget(pkg, req), CheckEpoch(req, trust), CheckImages(pkg, req)>>)

VerifyPackage(pkg, trust, req) ==
    IF ~pkg.framed THEN "Payload"
    ELSE LET auth == AuthenticateManifest(pkg, trust)
         IN IF auth # "ok" THEN auth ELSE CheckStatements(pkg, req, trust)
=============================================================================
