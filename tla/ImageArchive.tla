---------------------------- MODULE ImageArchive ----------------------------
(***************************************************************************)
(* validate_image_archive of src/src/image/archive.rs, with documents.rs   *)
(* and canonical.rs: nine phases over the bytes of an image archive, the   *)
(* first fault is the verdict.                                             *)
(*                                                                         *)
(* A digest is the bytes: the sequence of blocks it was taken of.  A       *)
(* document is one block that says what it parses to, the fault it has if  *)
(* it has one, and how it is spelled; blocks that differ in spelling alone *)
(* parse alike.  A reference is its literal text and, unless it does not   *)
(* parse, its normalized identity.  A value that may be absent is a set of *)
(* at most one element.                                                    *)
(***************************************************************************)
EXTENDS TarWalk

Hex(digest) == [hex |-> digest]
LayoutNames == <<<<Text("oci-layout")>>, <<Text("index.json")>>, <<Text("manifest.json")>>>>
BlobDirs == {<<Text("blobs")>>, <<Text("blobs"), Text("sha256")>>}
BlobName(digest) == <<Text("blobs"), Text("sha256"), Hex(digest)>>
-----------------------------------------------------------------------------
(* Phase 1: raw_inventory *)

\* classify: a segment is a digest, a digest with ".json", or other text.
Classify(e) ==
    IF e.flag = "regular" /\ e.path \in Range(LayoutNames) THEN "layout"
    ELSE IF e.flag = "directory" /\ e.path \in BlobDirs THEN "directory"
    ELSE IF /\ e.flag = "regular" /\ Len(e.path) = 3 /\ Front(e.path) \in BlobDirs
            /\ "hex" \in DOMAIN Last(e.path)
         THEN "blob"
    ELSE IF \/ e.path \in {<<Text("repositories")>>, <<Text("VERSION")>>}
            \/ "hex" \in DOMAIN Head(e.path)
            \/ Len(e.path) = 1 /\ "json" \in DOMAIN Head(e.path)
         THEN "LegacyExportFile" ELSE "ExtraFile"

\* probe: the first bytes, read under the archive's limit.
Probe(t, lim) ==
    IF t = <<>> THEN "ok"
    ELSE IF lim.ImageArchive < 1 THEN "ImageArchive"
    ELSE IF "packed" \in DOMAIN t[1] THEN "CompressedOuterStream" ELSE "ok"

\* An entry outside the layout is reported once the whole walk is done.
WalkedVerdict(walk) ==
    FirstOf(<<walk.verdict>> \o
            [i \in DOMAIN walk.entries |->
                LET class == Classify(walk.entries[i])
                IN IF class \in {"LegacyExportFile", "ExtraFile"} THEN class ELSE "ok"] \o
            [i \in 1..3 |-> IF \E e \in Range(walk.entries) : e.flag = "regular" /\ e.path = LayoutNames[i]
                            THEN "ok" ELSE "MissingLayoutFile"])

InventoryVerdict(t, lim) == AndThen(Probe(t, lim), WalkedVerdict(WalkImage(t, lim)))

\* What phase 1 keeps: the bytes under each name, and the blobs.
Inventory(t, lim) == {e \in Range(WalkImage(t, lim).entries) : e.flag = "regular"}
BytesOf(t, e) == SubSeq(t, e.at + 1, e.at + e.size)
Stored(t, inv, path) == BytesOf(t, CHOOSE e \in inv : e.path = path)
HasBlob(inv, digest) == \E e \in inv : e.path = BlobName(digest)
BlobDigests(inv) == {Last(e.path).hex : e \in {f \in inv : Len(f.path) = 3}}
-----------------------------------------------------------------------------
(* Phase 2: documents.rs *)

DocumentLimit ==
    [layout |-> "OciLayout", index |-> "IndexJson", compatibility |-> "CompatibilityJson",
     manifest |-> "ImageManifestJson", config |-> "ConfigJson"]

\* DocumentReader::read, read_bounded, parse, then the faults of a document as
\* a whole; before is what the documents read so far came to.
ReadDocument(bytes, kind, before, lim) ==
    LET read == ReadToEnd(Len(bytes), <<<<DocumentLimit[kind], lim[DocumentLimit[kind]]>>,
                                        <<"ImageJsonTotal", lim.ImageJsonTotal - before>>>>)
    IN IF read # "ok" THEN read
       ELSE IF Len(bytes) # 1 \/ "doc" \notin DOMAIN bytes[1] THEN "Json"
       ELSE IF bytes[1].fault = "json" THEN "Json"
       ELSE IF bytes[1].fault = "depth" THEN "JsonDepth"
       ELSE IF bytes[1].doc # kind \/ bytes[1].fault = "shape"
            THEN IF kind = "config" THEN "InvalidConfig" ELSE "UnexpectedShape"
       ELSE IF bytes[1].fault = "extension" THEN "ExtensionField" ELSE "ok"

\* Role::check_media_type, size_limit.
MediaFault(role, media) ==
    CASE role = "manifest" -> IF media = "manifest" THEN "ok"
                              ELSE IF media = "index" THEN "NestedIndex" ELSE "ManifestMediaType"
      [] role = "config" -> IF media = "config" THEN "ok" ELSE "ConfigMediaType"
      [] role = "layer" -> IF media \in {"tar", "gzip"} THEN "ok" ELSE "LayerMediaType"
SizeLimit == [manifest |-> "ImageManifestJson", config |-> "ConfigJson", layer |-> "StoredLayerBlob"]

\* descriptor, descriptor_platform.
DescriptorFault(d, role, lim) ==
    FirstOf(<<IF d.fault = "extension" THEN "ExtensionField" ELSE "ok",
              IF role # "manifest" /\ d.annotations # {} THEN "DescriptorAnnotation" ELSE "ok",
              IF d.fault = "shape" \/ (role = "layer" /\ d.platform # {}) THEN "UnexpectedShape" ELSE "ok",
              MediaFault(role, d.media),
              IF d.fault = "digest" THEN "UnexpectedShape" ELSE "ok",
              IF d.size > lim[SizeLimit[role]] THEN SizeLimit[role] ELSE "ok",
              IF \E a \in d.annotations : "attestation" \in DOMAIN a THEN "Attestation" ELSE "ok",
              IF \E p \in d.platform : "" \in p.variant THEN "EmptyPlatformVariant" ELSE "ok">>)

CountFault(seq, resource, lim) == IF Len(seq) > lim[resource] THEN resource ELSE "ok"

IndexFault(x, lim) ==
    FirstOf(<<IF x.manifests = <<>> THEN "UnexpectedShape" ELSE "ok",
              CountFault(x.manifests, "TagsPerImage", lim)>> \o
            [i \in DOMAIN x.manifests |-> DescriptorFault(x.manifests[i], "manifest", lim)] \o
            <<IF \E i \in DOMAIN x.manifests : \/ x.manifests[i].digest # x.manifests[1].digest
                                               \/ x.manifests[i].size # x.manifests[1].size
              THEN "MultipleImages" ELSE "ok">>)

\* compatibility: late is a fault in Parent or LayerSources.
CompatibilityFault(c, lim) ==
    FirstOf(<<IF c.records = 0 THEN "UnexpectedShape" ELSE IF c.records > 1 THEN "MultipleImages" ELSE "ok",
              IF c.tags = <<>> THEN "UnexpectedShape" ELSE "ok",
              CountFault(c.tags, "TagsPerImage", lim),
              CountFault(c.layers, "LayersPerImage", lim),
              IF c.late THEN "UnexpectedShape" ELSE "ok">>)

ManifestFault(m, lim) ==
    FirstOf(<<IF m.media = "manifest" THEN "ok" ELSE "ManifestMediaType",
              DescriptorFault(m.config, "config", lim),
              CountFault(m.layers, "LayersPerImage", lim)>> \o
            [i \in DOMAIN m.layers |-> DescriptorFault(m.layers[i], "layer", lim)] \o
            <<IF m.annotations \subseteq {"standard"} THEN "ok" ELSE "ManifestAnnotation">>)

\* check_blob.
CheckBlob(bytes, d) == IF Len(bytes) # d.size \/ bytes # d.digest THEN "BlobMismatch" ELSE "ok"

\* The documents in the order they are read, each judged before the next.
DocumentsVerdict(t, inv, lim) ==
    LET raw == [i \in 1..3 |-> Stored(t, inv, LayoutNames[i])]
        before(i) == FoldLeft(LAMBDA n, b : n + Len(b), 0, SubSeq(raw, 1, i))
        first == raw[2][1].manifests[1]
        stored == Stored(t, inv, BlobName(first.digest))
    IN AndThen(ReadDocument(raw[1], "layout", 0, lim),
       AndThen(ReadDocument(raw[2], "index", before(1), lim),
       AndThen(IndexFault(raw[2][1], lim),
       AndThen(ReadDocument(raw[3], "compatibility", before(2), lim),
       AndThen(CompatibilityFault(raw[3][1], lim),
       AndThen(IF HasBlob(inv, first.digest) THEN CheckBlob(stored, first) ELSE "MissingBlob",
       AndThen(ReadDocument(stored, "manifest", before(3), lim),
              ManifestFault(stored[1], lim))))))))
-----------------------------------------------------------------------------
(* Phases 3 to 7; x, c, m are the index, the compatibility record and the  *)
(* image manifest, d the signed declaration.                               *)

\* compatibility_links: the two views agree, no blob is missing or too many.
LinksVerdict(inv, x, c, m) ==
    LET used == {m.layers[i].digest : i \in DOMAIN m.layers}
    IN FirstOf(<<IF c.config # BlobName(m.config.digest) THEN "InconsistentCompatibility" ELSE "ok",
                 IF c.layers # [i \in DOMAIN m.layers |-> BlobName(m.layers[i].digest)]
                 THEN "InconsistentCompatibility" ELSE "ok",
                 IF \E i, j \in DOMAIN m.layers :
                      m.layers[i].digest = m.layers[j].digest /\ m.layers[i] # m.layers[j]
                 THEN "InconsistentCompatibility" ELSE "ok",
                 IF \A b \in used \cup {m.config.digest} : HasBlob(inv, b) THEN "ok" ELSE "MissingBlob",
                 IF BlobDigests(inv) \subseteq used \cup {m.config.digest, x.manifests[1].digest}
                 THEN "ok" ELSE "UnreferencedBlob">>)

Repeats(seq) == \E i, j \in DOMAIN seq : i # j /\ seq[i] = seq[j]

\* repo_tags: literally.
TagsVerdict(c, d) ==
    LET names == [i \in DOMAIN c.tags |-> c.tags[i].name]
    IN FirstOf(<<IF \E i \in DOMAIN c.tags : c.tags[i].norm = {} THEN "InvalidRepoTag" ELSE "ok",
                 IF Repeats(names) THEN "DuplicateTag" ELSE "ok",
                 IF Range(names) = {d.refs[i].name : i \in DOMAIN d.refs} THEN "ok" ELSE "ReferenceMismatch">>)

\* index_annotations: one descriptor, "name" and "ref" being the containerd and
\* the OCI annotation.
AnnotationFault(entry) ==
    LET a == CHOOSE v \in entry.annotations : TRUE
        norm == CHOOSE v \in a.name.norm : TRUE
    IN IF entry.annotations = {} THEN "InvalidAnnotation"
       ELSE IF ~(DOMAIN a \subseteq {"name", "ref"}) THEN "DescriptorAnnotation"
       ELSE IF "name" \notin DOMAIN a THEN "InvalidAnnotation"
       ELSE IF a.name.norm = {} THEN "InvalidAnnotation"
       ELSE IF "ref" \in DOMAIN a /\ a.ref.name # norm.tag /\ a.ref.norm # a.name.norm THEN "InvalidAnnotation"
       ELSE "ok"

\* Mutant: annotations are matched by their text.
AnnotationsVerdictLiteral(x, d) ==
    LET entry == FirstOf([i \in DOMAIN x.manifests |-> AnnotationFault(x.manifests[i])])
        named == [i \in DOMAIN x.manifests |-> (CHOOSE a \in x.manifests[i].annotations : TRUE).name.name]
    IN IF entry # "ok" THEN entry
       ELSE IF Repeats(named) THEN "DuplicateTag"
       ELSE IF Range(named) = {d.refs[i].name : i \in DOMAIN d.refs} THEN "ok" ELSE "ReferenceMismatch"

\* ... and all of them, by normalized identity.
AnnotationsVerdict(x, d) ==
    LET entry == FirstOf([i \in DOMAIN x.manifests |-> AnnotationFault(x.manifests[i])])
        named == [i \in DOMAIN x.manifests |-> (CHOOSE a \in x.manifests[i].annotations : TRUE).name.norm]
    IN IF entry # "ok" THEN entry
       ELSE IF Repeats(named) THEN "DuplicateTag"
       ELSE IF Range(named) = {d.refs[i].norm : i \in DOMAIN d.refs} THEN "ok" ELSE "ReferenceMismatch"

\* config, config_profile: fault comes before the count of the diff IDs is
\* checked, late after it.
ConfigVerdict(bytes, m, d, before, lim) ==
    LET k == bytes[1]
    IN IF bytes # d.config THEN "ConfigDigestMismatch"
       ELSE IF CheckBlob(bytes, m.config) # "ok" THEN "BlobMismatch"
       ELSE AndThen(ReadDocument(bytes, "config", before, lim),
              FirstOf(<<IF k.profile = "early" \/ "" \in k.platform.variant THEN "InvalidConfig" ELSE "ok",
                      CountFault(k.diff_ids, "LayersPerImage", lim),
                      IF k.profile = "late" THEN "InvalidConfig" ELSE "ok",
                      IF \E h \in k.history : Cardinality({i \in DOMAIN h : ~h[i]}) # Len(k.diff_ids)
                      THEN "InvalidConfig" ELSE "ok">>))

\* platforms: every place that states one.
PlatformsVerdict(k, x, m, d) ==
    IF {k.platform} \cup UNION {x.manifests[i].platform : i \in DOMAIN x.manifests} \cup m.config.platform
         = {d.platform}
    THEN "ok" ELSE "PlatformMismatch"

PlainDescriptor(media, digest, size) ==
    [fault |-> "none", media |-> media, digest |-> digest, size |-> size, platform |-> {}, annotations |-> {}]

\* canonical_image_manifest: of the config and of each diff ID's length.
CanonicalManifest(config, configSize, layers, sizes) ==
    [doc |-> "manifest", fault |-> "none", spelled |-> "canonical", media |-> "manifest",
     config |-> PlainDescriptor("config", config, configSize),
     layers |-> [i \in DOMAIN layers |-> PlainDescriptor("tar", layers[i], sizes[i])],
     annotations |-> {}]

\* canonical_manifest: the stored manifest byte for byte.
CanonicalVerdict(t, inv, k, config, stored) ==
    LET sizes == [i \in DOMAIN k.diff_ids |-> Len(Stored(t, inv, BlobName(k.diff_ids[i])))]
    IN IF \E i \in DOMAIN k.diff_ids : ~HasBlob(inv, k.diff_ids[i]) THEN "NonCanonicalManifest"
       ELSE IF stored = <<CanonicalManifest(config, Len(config), k.diff_ids, sizes)>> THEN "ok"
       ELSE "NonCanonicalManifest"
-----------------------------------------------------------------------------
(* Phases 8 and 9 *)

\* layers, decode_layer, walk_layer at one position; the budgets run on.  The
\* limit of a stored blob was held against its size in phase 2.
DecodeLayer(t, inv, d, diff, s, lim, operation) ==
    LET bytes == Stored(t, inv, BlobName(d.digest))
        chain == <<<<"DecodedLayer", lim.DecodedLayer>>,
                   <<"DecodedLayersPerImage", lim.DecodedLayersPerImage - s.decoded>>,
                   <<"DecodedLayersPerOperation", operation - s.decoded>>>>
        Walked(walk) ==
            StopUnless(s, AndThen(walk.verdict, IF bytes = diff THEN "ok" ELSE "DiffId"),
                [s EXCEPT !.decoded = @ + Len(bytes), !.headers = walk.headers, !.extended = walk.extended])
    IN IF Len(bytes) # d.size THEN Stop(s, "BlobMismatch")
       ELSE IF bytes # d.digest THEN Stop(s, "StoredDigest")
       ELSE IF d.media = "gzip" THEN Stop(s, "Gzip")
       ELSE Walked(WalkLayer(bytes, s.headers, s.extended, lim, chain))

LayersVerdict(t, inv, m, c, k, lim, operation) ==
    LET Position(s, i) == IF s.done THEN s ELSE DecodeLayer(t, inv, m.layers[i], k.diff_ids[i], s, lim, operation)
        start == [done |-> FALSE, verdict |-> "ok", decoded |-> 0, headers |-> 0, extended |-> 0]
    IN IF Len(c.layers) # Len(k.diff_ids) THEN Stop(start, "CountMismatch")
       ELSE FoldLeft(Position, start, [i \in DOMAIN m.layers |-> i])

\* layer_sources, layer_source.
SourcesVerdict(c, m, k) ==
    LET sources == UNION c.sources
        At(i) == CHOOSE r \in sources : r.id = k.diff_ids[i]
    IN IF sources = {} THEN "ok"
       ELSE IF {r.id : r \in sources} # Range(k.diff_ids) THEN "InconsistentLayerSources"
       ELSE FirstOf([i \in DOMAIN m.layers |->
                IF At(i).fault = "extension" THEN "ExtensionField"
                ELSE IF /\ At(i).fault = "none" /\ At(i).media = m.layers[i].media
                        /\ At(i).digest = m.layers[i].digest /\ At(i).size = m.layers[i].size
                THEN "ok" ELSE "InconsistentLayerSources"])
-----------------------------------------------------------------------------
\* After a refusal nothing more is charged, as no other image is looked at.
RefusedUnless(v, result) == IF v = "ok" THEN result ELSE [verdict |-> v, decoded |-> 0]

\* Phase 9, once the layers were decoded.
AfterLayers(c, m, k, layers) ==
    RefusedUnless(layers.verdict, [verdict |-> SourcesVerdict(c, m, k), decoded |-> layers.decoded])

\* Phases 5 to 9, on the bytes of the config.
AfterLinks(t, inv, d, x, c, stored, config, lim, operation) ==
    LET m == stored[1]
        k == config[1]
    IN RefusedUnless(AndThen(ConfigVerdict(config, m, d, 3 + Len(stored), lim),
                            FirstOf(<<PlatformsVerdict(k, x, m, d), CanonicalVerdict(t, inv, k, config, stored)>>)),
                     AfterLayers(c, m, k, LayersVerdict(t, inv, m, c, k, lim, operation)))

\* Phases 3 to 9, on the index, the compatibility record and the manifest's bytes.
AfterDocuments(t, inv, d, x, c, stored, lim, operation) ==
    RefusedUnless(FirstOf(<<LinksVerdict(inv, x, c, stored[1]), TagsVerdict(c, d), AnnotationsVerdict(x, d)>>),
                  AfterLinks(t, inv, d, x, c, stored, Stored(t, inv, BlobName(stored[1].config.digest)),
                             lim, operation))

AfterInventory(t, inv, d, lim, operation) ==
    LET x == Stored(t, inv, LayoutNames[2])[1]
    IN RefusedUnless(DocumentsVerdict(t, inv, lim),
                     AfterDocuments(t, inv, d, x, Stored(t, inv, LayoutNames[3])[1],
                                    Stored(t, inv, BlobName(x.manifests[1].digest)), lim, operation))

\* validate: the verdict, and what it charged of the operation's budget.
ValidateImageArchive(t, d, lim, operation) ==
    RefusedUnless(InventoryVerdict(t, lim), AfterInventory(t, Inventory(t, lim), d, lim, operation))
=============================================================================
