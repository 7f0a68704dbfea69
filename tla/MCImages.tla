------------------------------ MODULE MCImages ------------------------------
(***************************************************************************)
(* Image archives for TLC: sound ones, and ones with a single fault at one *)
(* level: the bytes of a layer, the tar around it, a document, a link      *)
(* between two of them, a reference, a platform, a limit.                  *)
(***************************************************************************)
EXTENDS ImageContract

NoLink == <<Text("")>>
Path(s) == <<Text(s)>>
RegularFile(name, bytes) == <<HeaderBlock("regular", name, NoLink, Len(bytes))>> \o bytes
Folder(name) == <<HeaderBlock("directory", name, NoLink, 0)>>
Filler == [data |-> "filler"]
EndMark == <<Zeros, Zeros>>

\* Layers.
PaxBlock(records) == <<HeaderBlock("pax", Path("pax"), NoLink, 1), [records |-> records]>>
PaxPath(name) == PaxRecord("path", TRUE, name, 0)
PaxSize(n) == PaxRecord("size", TRUE, <<>>, n)
PaxLink(name) == PaxRecord("linkpath", TRUE, name, 0)
GnuBlock(flag, name) == <<HeaderBlock(flag, Path("gnu"), NoLink, 1), [records |-> <<PaxRecord("gnu", TRUE, name, 0)>>]>>
LongName(name) == GnuBlock("longname", name)
LongLink(name) == GnuBlock("longlink", name)
Node(flag, name, link) == <<HeaderBlock(flag, name, link, 0)>>
AFile == RegularFile(Path("f"), <<Filler>>)
Layer1 == AFile \o EndMark
Layer2 == PaxBlock(<<PaxPath(Path("g"))>>) \o RegularFile(Path("f"), <<>>) \o EndMark

SoundLayers ==
    {s \o EndMark : s \in
        {<<>>, Folder(<<Text("."), Text("")>>) \o RegularFile(<<Text("."), Text("f")>>, <<>>),
         LongName(Path("n")) \o AFile, PaxBlock(<<PaxSize(1)>>) \o Node("regular", Path("f"), NoLink) \o <<Filler>>,
         PaxBlock(<<PaxSize(0)>>) \o <<HeaderBlock("regular", Path("f"), NoLink, 1)>> \o AFile,
         LongLink(Path("n")) \o Node("hardlink", Path("f"), Path("x")), Node("symlink", Path("f"), Path("..")),
         LongName(Path("n")) \o PaxBlock(<<PaxSize(1), PaxRecord("mtime", TRUE, <<>>, 0)>>) \o AFile,
         LongName(Path("n")) \o LongLink(Path("m")) \o Node("symlink", Path("f"), Path("x")),
         RegularFile(Path("f"), AFile), Node("fifo", Path("f"), NoLink)}}
FaultyLayers ==
    {s \o EndMark : s \in
        {LongName(Path("n")) \o PaxBlock(<<PaxPath(Path("g"))>>) \o AFile,
         PaxBlock(<<PaxPath(Path("g"))>>) \o LongName(Path("n")) \o AFile,
         PaxBlock(<<PaxLink(Path("g"))>>) \o LongLink(Path("n")) \o Node("symlink", Path("f"), Path("x")),
         LongLink(Path("n")) \o PaxBlock(<<PaxLink(Path("g"))>>) \o Node("symlink", Path("f"), Path("x")),
         LongName(Path("n")) \o LongName(Path("m")) \o AFile,
         PaxBlock(<<PaxPath(Path("g"))>>) \o PaxBlock(<<PaxSize(1)>>) \o AFile,
         PaxBlock(<<PaxPath(Path("g")), PaxPath(Path("h"))>>) \o AFile,
         PaxBlock(<<PaxSize(0), PaxSize(1)>>) \o AFile, PaxBlock(<<PaxSize(2)>>) \o AFile \o AFile,
         PaxBlock(<<PaxRecord("size", FALSE, <<>>, 1)>>) \o AFile, PaxBlock(<<PaxRecord("other", TRUE, <<>>, 0)>>) \o AFile,
         <<HeaderBlock("pax", Path("pax"), NoLink, 1), Filler>> \o AFile,
         <<HeaderBlock("longname", Path("gnu"), NoLink, 0)>> \o AFile,
         LongName(Path("n")), LongLink(Path("n")) \o AFile, LongName(Path("..")) \o AFile,
         Node("hardlink", Path("f"), Path("..")), Node("other", Path("f"), NoLink),
         RegularFile(<<Text("f"), Text("")>>, <<>>), RegularFile(Path("^"), <<>>),
         <<HeaderBlock("directory", Path("d"), NoLink, 1)>> \o AFile, <<Filler>>,
         <<[HeaderBlock("regular", Path("f"), NoLink, 0) EXCEPT !.fault = "field"]>>}}
    \cup {Layer1 \o AFile, AFile \o <<Zeros>> \o AFile \o EndMark, Layer1 \o EndMark, Layer1 \o <<HalfBlock>>}
    \cup {SubSeq(Layer2, 1, n) : n \in 0..(Len(Layer2) - 1)}

\* References, platforms, documents.
Reference(name, norms) == [name |-> name, reserved |-> FALSE, canonical |-> FALSE, norm |-> norms]
Norm(repo, tag) == {[repo |-> repo, tag |-> tag]}
RefA == Reference("a:1", Norm("library/a", "1"))
AliasA == Reference("docker.io/library/a:1", Norm("library/a", "1"))
RefB == Reference("b:2", Norm("library/b", "2"))
RefC == Reference("c:1", Norm("library/c", "1"))
NoRef == Reference("A", {})
Linux(arch) == [os |-> "linux", arch |-> arch, variant |-> {}]

ConfigDoc(layers) ==
    [doc |-> "config", fault |-> "none", spelled |-> "a", profile |-> "sound", platform |-> Linux("amd64"),
     diff_ids |-> layers, history |-> {}]
IndexEntry(manifest, ref) ==
    [PlainDescriptor("manifest", manifest, Len(manifest)) EXCEPT !.annotations = {[name |-> ref]}]
IndexDoc(entries) == [doc |-> "index", fault |-> "none", spelled |-> "a", manifests |-> entries]
CompatDoc(config, layers, refs) ==
    [doc |-> "compatibility", fault |-> "none", spelled |-> "a", records |-> 1, config |-> BlobName(config),
     tags |-> refs, layers |-> [i \in DOMAIN layers |-> BlobName(layers[i])], sources |-> {}, late |-> FALSE]
SourceOf(layer) == [id |-> layer, fault |-> "none", media |-> "tar", digest |-> layer, size |-> Len(layer)]

\* An image by its parts, and its archive.
PartsOf(config, refs) ==
    LET layers == config.diff_ids
        manifest == CanonicalManifest(<<config>>, 1, layers, [i \in DOMAIN layers |-> Len(layers[i])])
    IN [layout |-> [doc |-> "layout", fault |-> "none", spelled |-> "a"],
        index |-> IndexDoc([i \in DOMAIN refs |-> IndexEntry(<<manifest>>, refs[i])]),
        compat |-> CompatDoc(<<config>>, layers, refs), manifest |-> manifest, config |-> config,
        blobs |-> SetToSeq(Range(layers)), more |-> <<>>, tail |-> EndMark]
Relink(p) == [p EXCEPT !.index.manifests = [i \in DOMAIN @ |-> [@[i] EXCEPT !.digest = <<p.manifest>>]]]
ArchiveOfParts(p) ==
    Folder(<<Text("blobs"), Text("")>>) \o RegularFile(LayoutNames[1], <<p.layout>>)
    \o RegularFile(BlobName(<<p.manifest>>), <<p.manifest>>) \o RegularFile(LayoutNames[2], <<p.index>>)
    \o FlattenSeq([i \in DOMAIN p.blobs |-> RegularFile(BlobName(p.blobs[i]), p.blobs[i])])
    \o RegularFile(LayoutNames[3], <<p.compat>>) \o RegularFile(BlobName(<<p.config>>), <<p.config>>)
    \o p.more \o p.tail
Declares(config, refs) ==
    [native |-> TRUE, platform |-> Linux("amd64"), config |-> <<config>>, managed |-> TRUE,
     owner |-> [namespace |-> "n1", component |-> "app"], refs |-> refs]

Config1 == ConfigDoc(<<Layer1>>)
Config2 == ConfigDoc(<<Layer1, Layer2, Layer1>>)
Parts1 == PartsOf(Config1, <<RefA>>)
Parts2 == PartsOf(Config2, <<RefA, RefB>>)
Declared1 == Declares(Config1, <<RefA>>)
Declared2 == Declares(Config2, <<RefA, RefB>>)
Archive1 == ArchiveOfParts(Parts1)
Archive2 == ArchiveOfParts(Parts2)
Declared3 == Declares(Config1, <<RefC>>)
Archive3 == ArchiveOfParts(PartsOf(Config1, <<RefC>>))
Case(parts, declared) == [tar |-> ArchiveOfParts(parts), declared |-> declared]

LayerCases ==
    {LET config == ConfigDoc(<<Layer2, l>>)
     IN Case(PartsOf(config, <<RefA>>), Declares(config, <<RefA>>)) : l \in SoundLayers \cup FaultyLayers}

\* The tar around the image.
Renamed(t, i, name) == [t EXCEPT ![i].name = name]
TarCases ==
    {[tar |-> t, declared |-> Declared1] : t \in
        {SubSeq(Archive1, 1, n) : n \in 0..Len(Archive1)}
        \cup {SubSeq(Archive1, 1, Len(Archive1) - 1) \o s : s \in
                {EndMark, <<Zeros>> \o EndMark, <<HalfBlock>>, <<Zeros, HalfBlock>>, <<Zeros>> \o AFile, <<Filler>>}}
        \cup {[Archive1 EXCEPT ![2].fault = f] : f \in {"checksum", "format", "field"}}
        \cup {[Archive1 EXCEPT ![2].flag = f] : f \in {"symlink", "pax", "directory"}}
        \cup {[Archive1 EXCEPT ![2].size = n] : n \in {0, 2}} \cup {[Archive1 EXCEPT ![1].size = 1]}
        \cup {Renamed(Archive1, i, n) : i \in {1, 2},
                n \in {Path("^"), Path("\\"), <<Text("."), Text("oci-layout")>>, Path("VERSION"), Path("extra"),
                       Path("blobs"), <<Text("blobs"), Text("sha256")>>, LayoutNames[2], BlobName(<<Config1>>),
                       <<[json |-> Layer1]>>, <<Hex(Layer1), Text("json")>>}}
        \cup {Folder(<<Text("blobs"), Text("sha256")>>) \o Archive1, <<[packed |-> "gzip"]>> \o Archive1,
              RegularFile(Path("extra"), <<>>) \o [Archive1 EXCEPT ![2].fault = "format"],
              RegularFile(Path("extra"), <<>>) \o RegularFile(Path("VERSION"), <<>>) \o Archive1,
              RegularFile(BlobName(<<Config1>>), <<Filler>>) \o EndMark}}

\* One document at fault.
WithEntry(p, e) == [p EXCEPT !.index.manifests[1] = e]
Entry1 == Parts1.index.manifests[1]
WithManifest(p, m) == Relink([p EXCEPT !.manifest = m])
Manifest1 == Parts1.manifest
DocumentParts ==
    {[Parts1 EXCEPT !.layout.fault = f] : f \in {"json", "depth", "shape"}}
    \cup {[Parts1 EXCEPT !.index.fault = f] : f \in {"json", "depth", "shape", "extension"}}
    \cup {[Parts1 EXCEPT !.compat.fault = f] : f \in {"json", "depth", "shape"}}
    \cup {WithManifest(Parts1, [Manifest1 EXCEPT !.fault = f]) : f \in {"json", "depth", "shape", "extension"}}
    \cup {[Parts1 EXCEPT !.index = Parts1.layout], [Parts1 EXCEPT !.layout.spelled = "b"],
          [Parts1 EXCEPT !.index.spelled = "b"], [Parts1 EXCEPT !.index.manifests = <<>>],
          [Parts1 EXCEPT !.compat.records = 0], [Parts1 EXCEPT !.compat.records = 2],
          [Parts1 EXCEPT !.compat.late = TRUE], [Parts1 EXCEPT !.compat.spelled = "b"]}
    \cup {WithEntry(Parts1, [Entry1 EXCEPT !.fault = f]) : f \in {"extension", "shape", "digest"}}
    \cup {WithEntry(Parts1, [Entry1 EXCEPT !.media = f]) : f \in {"index", "other"}}
    \cup {WithEntry(Parts1, [Entry1 EXCEPT !.size = 2]), WithEntry(Parts1, [Entry1 EXCEPT !.digest = <<Filler>>])}
    \cup {WithManifest(Parts1, m) : m \in
            {[Manifest1 EXCEPT !.spelled = "b"], [Manifest1 EXCEPT !.media = "other"],
             [Manifest1 EXCEPT !.annotations = {"standard"}], [Manifest1 EXCEPT !.annotations = {"other"}],
             [Manifest1 EXCEPT !.config.media = "other"], [Manifest1 EXCEPT !.config.platform = {Linux("amd64")}],
             [Manifest1 EXCEPT !.config.annotations = {[name |-> RefA]}], [Manifest1 EXCEPT !.config.size = 2],
             [Manifest1 EXCEPT !.layers[1].media = "gzip"], [Manifest1 EXCEPT !.layers[1].media = "zstd"],
             [Manifest1 EXCEPT !.layers[1].platform = {Linux("amd64")}], [Manifest1 EXCEPT !.layers[1].size = 9],
             [Manifest1 EXCEPT !.layers = <<>>], [Manifest1 EXCEPT !.layers[1].digest = Layer2]}}

\* The links between them.
LinkParts ==
    {[Parts1 EXCEPT !.blobs = <<>>], [Parts1 EXCEPT !.blobs = @ \o <<Layer2>>],
     [Parts1 EXCEPT !.compat.config = BlobName(Layer1)], [Parts1 EXCEPT !.compat.layers = <<>>],
     [Parts1 EXCEPT !.compat.layers = <<BlobName(Layer2)>>],
     [Parts1 EXCEPT !.compat.sources = {{}}], [Parts1 EXCEPT !.compat.sources = {{SourceOf(Layer1)}}],
     [Parts1 EXCEPT !.compat.sources = {{SourceOf(Layer2)}}],
     [Parts1 EXCEPT !.compat.sources = {{[SourceOf(Layer1) EXCEPT !.size = 9]}}],
     [Parts1 EXCEPT !.compat.sources = {{[SourceOf(Layer1) EXCEPT !.fault = "extension"]}}],
     [Parts1 EXCEPT !.blobs = <<>>, !.more = RegularFile(BlobName(Layer1), Layer2)],
     LET m == [Manifest1 EXCEPT !.layers = <<@[1], [@[1] EXCEPT !.media = "gzip"]>>]
     IN [WithManifest(Parts1, m) EXCEPT !.compat.layers = <<@[1], @[1]>>]}

\* The references, against the declared RefA or RefA and RefB.
Annotated(p, a) == [p EXCEPT !.index.manifests[1].annotations = a]
ReferenceCases ==
    {Case(p, Declared1) : p \in
        {[Parts1 EXCEPT !.compat.tags = s] : s \in {<<>>, <<RefB>>, <<RefA, RefB>>, <<RefA, RefA>>, <<NoRef>>, <<AliasA>>}}
        \cup {Annotated(Parts1, a) : a \in
                {{}, {[name |-> AliasA]}, {[name |-> RefB]}, {[name |-> NoRef]}, {[ref |-> RefA]},
                 {[name |-> RefA, ref |-> Reference("1", {})]}, {[name |-> RefA, ref |-> AliasA]},
                 {[name |-> RefA, ref |-> Reference("2", {})]}, {[name |-> RefA, other |-> RefA]},
                 {[name |-> RefA, attestation |-> RefA]}}}
        \cup {[Parts1 EXCEPT !.index.manifests = <<@[1], [@[1] EXCEPT !.annotations = {[name |-> r]}]>>] :
                r \in {RefB, AliasA}}}
    \cup {Case(Parts2, Declared2), Case(Parts2, [Declared2 EXCEPT !.refs = <<RefA>>]),
          Case(PartsOf(Config1, <<RefA, AliasA>>), Declared1),
          Case([Parts2 EXCEPT !.index.manifests[2].digest = <<Filler>>], Declared2)}

\* The config and the platforms.
ConfigCases ==
    {Case(PartsOf(c, <<RefA>>), Declares(c, <<RefA>>)) : c \in
        {[Config1 EXCEPT !.fault = f] : f \in {"json", "depth", "shape"}}
        \cup {[Config1 EXCEPT !.profile = f] : f \in {"early", "late"}}
        \cup {[Config1 EXCEPT !.history = {h}] : h \in {<<FALSE>>, <<TRUE, FALSE>>, <<TRUE>>, <<FALSE, FALSE>>}}
        \cup {[Config1 EXCEPT !.platform = q] : q \in
                {Linux("arm64"), [Linux("amd64") EXCEPT !.os = "other"], [Linux("amd64") EXCEPT !.variant = {"v8"}],
                 [Linux("amd64") EXCEPT !.variant = {""}]}}
        \cup {ConfigDoc(<<>>), ConfigDoc(<<Layer1, Layer1>>)}}
    \cup {Case([Parts1 EXCEPT !.index.manifests[1].platform = {q}], Declared1) : q \in
            {Linux("amd64"), Linux("arm64"), [Linux("amd64") EXCEPT !.variant = {""}]}}
    \cup {Case(Parts1, Declares([Config1 EXCEPT !.spelled = "b"], <<RefA>>)),
          LET swapped == PartsOf(ConfigDoc(<<Layer2, Layer1>>), <<RefA>>)
              config == ConfigDoc(<<Layer1, Layer2>>)
              m == [swapped.manifest EXCEPT !.config.digest = <<config>>]
          IN Case([WithManifest(swapped, m) EXCEPT !.config = config, !.compat.config = BlobName(<<config>>)],
                  Declares(config, <<RefA>>))}

ImageCases ==
    UNION {LayerCases, TarCases, {Case(p, Declared1) : p \in UNION {DocumentParts, LinkParts}},
           ReferenceCases, ConfigCases}

\* Limits: each at what the image needs, just below, and none.
WideImage ==
    [ImageArchive |-> 90, ImageEntries |-> 20, ImagePathBytes |-> 4, OciLayout |-> 2, IndexJson |-> 2,
     CompatibilityJson |-> 2, ImageManifestJson |-> 2, ConfigJson |-> 2, ImageJsonTotal |-> 9, TagsPerImage |-> 3,
     LayersPerImage |-> 4, StoredLayerBlob |-> 20, DecodedLayer |-> 20, DecodedLayersPerImage |-> 50,
     LayerEntries |-> 20, LayerExtension |-> 2, LayerExtensionTotal |-> 6, LayerPathBytes |-> 3,
     LayerLinkTargetBytes |-> 3]
Need2 == Needs(Archive2, Declared2)
ImageLimits ==
    {[WideImage EXCEPT ![r] = n] : r \in DOMAIN WideImage, n \in 0..2}
    \cup {[WideImage EXCEPT ![r] = Need2[r] - 1] : r \in {q \in DOMAIN WideImage : Need2[q] > 0}}
    \cup {[WideImage EXCEPT ![r] = Need2[r]] : r \in DOMAIN WideImage}
    \cup {[WideImage EXCEPT !.DecodedLayersPerImage = n, !.DecodedLayer = k] : n \in 8..14, k \in 3..6}
    \cup {Need2}
=============================================================================
