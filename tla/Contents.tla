------------------------------ MODULE Contents ------------------------------
(***************************************************************************)
(* What src/src/package decides about a package's bytes: the ceilings of   *)
(* bounded.rs, the archive walk of src/src/payload/outer.rs, the checks of *)
(* contents.rs, the upload of upload.rs, and the preparation record of     *)
(* binding.rs.  As in PackageVerify a verdict is "ok" or the refusal's     *)
(* name.                                                                   *)
(*                                                                         *)
(* A file's bytes are a record with an identity, a length, the length the  *)
(* compressor makes of them, and, for an image archive, its blocks (see    *)
(* TarWalk), which those units are larger than.  A digest is the bytes     *)
(* themselves: two that differ have different digests.  A manifest is      *)
(* PackageVerify's, with the member lengths it binds and, per artifact,    *)
(* its architecture, kind and digest.  Lengths are counted in units no     *)
(* shorter than the copy buffer, so a copy stops at the first bound it     *)
(* reaches.                                                                *)
(***************************************************************************)
EXTENDS ImageArchive

CONSTANTS
    Overhead,    \* ENVELOPE_OVERHEAD: four envelope blocks and the footer
    RecordLen    \* length of a preparation record

ASSUME ContentsAssumption == Overhead \in Nat \ {0} /\ RecordLen \in Nat \ {0}

SumOf(lengths) ==
    LET sum[n \in 0..Len(lengths)] == IF n = 0 THEN 0 ELSE sum[n - 1] + lengths[n]
    IN sum[Len(lengths)]
BlobLens(blobs) == [i \in DOMAIN blobs |-> blobs[i].len]

ManifestLen(m) == 1 + Len(m.artifacts)
ArchiveLen(a) ==
    1 + SumOf([i \in DOMAIN a.members |-> a.members[i].blob.packed]) + (IF a.trailing THEN 1 ELSE 0)
ContainerLen(c) == ManifestLen(c.manifest) + ArchiveLen(c.archive) + Overhead
Unpacked(a) == SumOf([i \in DOMAIN a.members |-> a.members[i].blob.len])

\* What remaining, LimitWriter and snapshot_from make of n units: the ceiling
\* that is used up first is the one named, the earlier listed of two.
Pass(n, ceilings) ==
    FirstOf([i \in DOMAIN ceilings |->
        IF n > ceilings[i][2] /\ \A j \in DOMAIN ceilings : ceilings[i][2] <= ceilings[j][2]
        THEN ceilings[i][1] ELSE "ok"])
-----------------------------------------------------------------------------
(* outer.rs, contents.rs *)

ArtifactAt(m, path) ==
    m.artifacts[CHOOSE i \in DOMAIN m.artifacts : m.artifacts[i].path = path]

\* walk_entries over one member: the count, the admitted path, the artifact,
\* a second of the same name, the copy within both bounds, the digest.
MemberVerdict(m, a, i, lim, room) ==
    LET e == a.members[i]
        before == SumOf([j \in 1..(i - 1) |-> a.members[j].blob.len])
    IN IF i > lim.members THEN "OuterMembers"
       ELSE IF ~e.plain \/ e.path \in UnsafePaths THEN "MemberPath"
       ELSE IF e.path \notin Listed(m) THEN "MemberNotInManifest"
       ELSE IF \E j \in 1..(i - 1) : a.members[j].path = e.path THEN "DuplicateMember"
       ELSE FirstOf(<<Pass(e.blob.len, <<<<"OuterUncompressedTotal", lim.total - before>>,
                                         <<"RetainedDisk", room - before>>>>),
                      IF e.blob = ArtifactAt(m, e.path).sha THEN "ok" ELSE "HashMismatch">>)

\* compare_member_list: names and lengths, in order.
SameMembers(m, a) ==
    /\ m.members = [i \in DOMAIN a.members |-> a.members[i].path]
    /\ m.lengths = [i \in DOMAIN a.members |-> a.members[i].blob.len]

WalkOuter(m, a, lim, room) ==
    FirstOf([i \in DOMAIN a.members |-> MemberVerdict(m, a, i, lim, room)] \o
            <<IF a.trailing THEN "TrailingArchiveBytes" ELSE "ok",
              IF Listed(m) \subseteq {a.members[i].path : i \in DOMAIN a.members} THEN "ok"
              ELSE "ArtifactMissingFromArchive",
              IF SameMembers(m, a) THEN "ok" ELSE "MemberListMismatch">>)

\* The image archives in manifest order, against one budget of decoded layers.
ImageVerdict(m, i, lim) ==
    LET art == m.artifacts[i]
        before == SumOf([j \in 1..(i - 1) |->
                    IF m.artifacts[j].image = NoImage THEN 0
                    ELSE ValidateImageArchive(m.artifacts[j].sha.tar, m.artifacts[j].image, lim.image,
                                              lim.layers).decoded])
    IN IF art.image = NoImage THEN "ok"
       ELSE ValidateImageArchive(art.sha.tar, art.image, lim.image, lim.layers - before).verdict

\* check_contents.
CheckContents(m, a, arch, lim, room) ==
    FirstOf(<<IF ArchiveLen(a) > lim.archive THEN "CompressedArchive" ELSE "ok",
              IF \A i \in DOMAIN m.artifacts : m.artifacts[i].arch = arch THEN "ok"
              ELSE "ArchitectureMismatch",
              IF \A i \in DOMAIN m.artifacts :
                    m.artifacts[i].kind = "image" => m.artifacts[i].image # NoImage
              THEN "ok" ELSE "LegacyImageEvidence",
              WalkOuter(m, a, lim, room)>> \o
            [i \in DOMAIN m.artifacts |-> ImageVerdict(m, i, lim)])

NoTrust == [withdrawn |-> {}, epoch |-> -1]

\* validate of prepare.rs: no signature and no trust set.
Validate(m, a, req, arch, lim, room) ==
    FirstOf(<<ParseManifest(m), CheckStatements(m, req, NoTrust),
              CheckContents(m, a, arch, lim, room)>>)

\* The container as PackageVerify sees it: a signature over other bytes
\* verifies under no key.
Envelope(c) ==
    [framed |-> c.framed, stage1 |-> c.manifest.stage1, format |-> c.manifest.format,
     decodes |-> c.manifest.decodes, members |-> c.manifest.members,
     artifacts |-> c.manifest.artifacts,
     sig |-> [alg \in Algorithms |->
                IF c.signed[alg].over = c.manifest THEN c.signed[alg].key ELSE "wrong"],
     hint |-> [alg \in Algorithms |-> c.signed[alg].key]]

\* authenticate_bounded: the two lengths of the footer before any block is read.
AuthenticateBounded(c, trust, lim) ==
    FirstOf(<<IF c.framed THEN "ok" ELSE "Payload",
              IF ManifestLen(c.manifest) > lim.manifest THEN "RawManifest" ELSE "ok",
              IF ArchiveLen(c.archive) > lim.archive THEN "CompressedArchive" ELSE "ok",
              AuthenticateManifest(Envelope(c), trust)>>)

\* verify_authenticated: a copy of the archive block, then its contents; room
\* is what the package itself leaves of the budget.
VerifyAuthenticated(c, arch, lim, room) ==
    FirstOf(<<Pass(ArchiveLen(c.archive), <<<<"RetainedDisk", room>>>>),
              CheckContents(c.manifest, c.archive, arch, lim, room - ArchiveLen(c.archive))>>)

\* verify_retained.
VerifyRetained(c, trust, req, arch, lim, room) ==
    FirstOf(<<AuthenticateBounded(c, trust, lim), CheckStatements(Envelope(c), req, trust),
              VerifyAuthenticated(c, arch, lim, room)>>)

\* snapshot_source.
SnapshotSource(c, lim, budget) ==
    Pass(ContainerLen(c), <<<<"Package", lim.package>>, <<"RetainedDisk", budget>>>>)

\* verify_contents.
VerifyContents(c, trust, req, arch, lim) ==
    FirstOf(<<SnapshotSource(c, lim, lim.disk),
              VerifyRetained(c, trust, req, arch, lim, lim.disk - ContainerLen(c))>>)
-----------------------------------------------------------------------------
(* upload.rs *)

\* Mutant: room for the package once.
UploadStagingBoundOnce(lim, len) ==
    IF len + lim.total < lim.disk THEN len + lim.total ELSE lim.disk

\* The package, the archive copied out of it, and everything it unpacks to.
UploadStagingBound(lim, len) ==
    IF 2 * len + lim.total < lim.disk THEN 2 * len + lim.total ELSE lim.disk

\* for_upload: the build of the first entry, in the caller's namespace.
DerivedRequest(first, namespace) ==
    [target |-> first.component, version |-> first.version, commit |-> first.commit,
     namespace |-> namespace, epoch |-> NoEpoch]

\* upload_contents.
VerifyUpload(c, trust, namespace, lim) ==
    LET bound == UploadStagingBound(lim, ContainerLen(c))
        read == FirstOf(<<SnapshotSource(c, lim, bound), AuthenticateBounded(c, trust, lim)>>)
        first == c.manifest.artifacts[1]
    IN IF read # "ok" THEN read
       ELSE IF c.manifest.artifacts = <<>> THEN "NoArtifacts"
       ELSE IF first.component = TrustTarget THEN "ReservedTarget"
       ELSE FirstOf(<<CheckStatements(Envelope(c), DerivedRequest(first, namespace), trust),
                      VerifyAuthenticated(c, first.arch, lim, bound - ContainerLen(c))>>)
-----------------------------------------------------------------------------
(* binding.rs *)

Fields == <<"schema", "manifest_sha256", "manifest_length", "archive_sha256", "archive_length",
            "target", "version", "commit", "target_arch", "namespace", "trust_epoch">>
FieldNames == {Fields[i] : i \in DOMAIN Fields}
FieldType ==
    [f \in FieldNames |->
        IF f \in {"schema", "manifest_length", "archive_length", "trust_epoch"} THEN "integer" ELSE "string"]
Nullable == {"namespace", "trust_epoch"}
RecordSchema == 1

\* from_parts.
Binding(m, a, req, arch) ==
    [schema |-> RecordSchema, manifest_sha256 |-> m, manifest_length |-> ManifestLen(m),
     archive_sha256 |-> a, archive_length |-> ArchiveLen(a), target |-> req.target,
     version |-> req.version, commit |-> req.commit, target_arch |-> arch,
     namespace |-> req.namespace, trust_epoch |-> req.epoch]

ValidateIdentifiers(b) ==
    IF {b.target, b.version, b.commit, b.namespace} \cap UnsafeIds # {} THEN "InvalidIdentifier" ELSE "ok"

Absent(b, f) == (f = "namespace" /\ b.namespace = "none") \/ (f = "trust_epoch" /\ b.trust_epoch = NoEpoch)

\* emit: every field, an absent one as null.
Emit(b) ==
    [shape |-> "object", len |-> RecordLen,
     fields |-> [f \in FieldNames |->
                    [type |-> IF Absent(b, f) THEN "null" ELSE FieldType[f], sound |-> TRUE, value |-> b[f]]]]

FieldFault(fields, f) ==
    IF f \notin DOMAIN fields THEN "MissingField"
    ELSE IF fields[f].type = "null" /\ f \in Nullable THEN "ok"
    ELSE IF fields[f].type # FieldType[f] THEN "FieldType"
    ELSE IF fields[f].sound THEN "ok" ELSE "InvalidField"

\* parse_record, read_record: the schema first, then keys nobody knows, then
\* the other fields in order.
ParseRecord(r, lim) ==
    FirstOf(<<IF r.len > lim.record THEN "PreparationRecord" ELSE "ok",
              CASE r.shape = "object" -> "ok" [] r.shape = "duplicate" -> "DuplicateKey"
                [] r.shape = "other" -> "NotObject" [] OTHER -> "Malformed",
              IF FieldFault(r.fields, "schema") = "InvalidField" THEN "UnsupportedSchema"
              ELSE FieldFault(r.fields, "schema"),
              IF DOMAIN r.fields \subseteq FieldNames THEN "ok" ELSE "UnknownField">> \o
            [i \in DOMAIN Fields |-> FieldFault(r.fields, Fields[i])])

Recorded(r) == [f \in FieldNames |-> r.fields[f].value]

FirstDifference(a, b) ==
    FirstOf([i \in DOMAIN Fields |-> IF a[Fields[i]] = b[Fields[i]] THEN "ok" ELSE Fields[i]])

RequestDifference(b, req, arch) ==
    FirstOf(<<IF b.target = req.target THEN "ok" ELSE "target",
              IF b.version = req.version THEN "ok" ELSE "version",
              IF b.commit = req.commit THEN "ok" ELSE "commit",
              IF b.target_arch = arch THEN "ok" ELSE "target_arch",
              IF b.namespace = req.namespace THEN "ok" ELSE "namespace",
              IF b.trust_epoch = req.epoch THEN "ok" ELSE "trust_epoch">>)
=============================================================================
