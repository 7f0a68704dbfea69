--------------------------- MODULE ImageContract ----------------------------
(***************************************************************************)
(* What validate_image_archive promises, said without its phases: which    *)
(* archives are the image a declaration describes, what each limit is held *)
(* against, and what readers less strict than the walker of                *)
(* src/src/content/walker.rs make of the same bytes.                       *)
(***************************************************************************)
EXTENDS ImageArchive

TheOne(s) == CHOOSE v \in s : TRUE

(***************************************************************************)
(* A reader of tar that refuses nothing.  It may hold a GNU long name or a *)
(* pax record for the authority, keep the first or the last of two, and    *)
(* stop at a block of zeros or look past it.                               *)
(***************************************************************************)
Readers == [gnuFirst : BOOLEAN, firstWins : BOOLEAN, pastZeros : BOOLEAN]
Default == [gnuFirst |-> FALSE, firstWins |-> FALSE, pastZeros |-> FALSE]

ReaderPax(records, key, r) ==
    LET at == {i \in DOMAIN records : records[i].key = key}
    IN IF at = {} THEN {} ELSE {records[IF r.firstWins THEN Min(at) ELSE Max(at)]}

ReaderStep(t, s, r) ==
    LET b == t[s.at + 1]
        payload == PayloadAt(t, s.at + 1, b.size)
        Named(key, gnu) ==
            LET x == {p.value : p \in ReaderPax(TheOne(s.pending.pax), key, r)}
                y == IF s.pending.pax = {} THEN {} ELSE x
            IN IF r.gnuFirst /\ gnu # {} THEN gnu ELSE IF y # {} THEN y ELSE gnu
        name == Named("path", s.pending.longname)
        link == Named("linkpath", s.pending.longlink)
        sized == IF s.pending.pax = {} THEN {} ELSE ReaderPax(TheOne(s.pending.pax), "size", r)
        size == IF sized = {} THEN b.size ELSE TheOne(sized).number
        isLink == b.flag \in {"hardlink", "symlink"}
    IN IF s.at >= Len(t) THEN [s EXCEPT !.done = TRUE]
       ELSE IF "flag" \notin DOMAIN b
            THEN IF r.pastZeros THEN [s EXCEPT !.at = @ + 1] ELSE [s EXCEPT !.done = TRUE]
       ELSE IF b.flag \in Extensions
            THEN [s EXCEPT !.at = @ + 1 + b.size, !.headers = @ + 1, !.extended = @ \o <<b.size>>,
                    !.pending[b.flag] =
                        IF r.firstWins /\ @ # {} THEN @
                        ELSE {IF b.flag = "pax" THEN payload
                              ELSE IF payload = <<>> THEN <<Text("")>> ELSE payload[1].value}]
       ELSE [s EXCEPT !.at = @ + 1 + size, !.headers = @ + 1, !.pending = NoPending,
               !.entries = Append(@,
                    [e |-> [flag |-> b.flag, name |-> IF name = {} THEN b.name ELSE TheOne(name),
                            link |-> IF isLink /\ link = {} THEN {b.link} ELSE link, size |-> size],
                     data |-> SubSeq(t, s.at + 2, s.at + 1 + size)])]

ReadWith(t, r) ==
    LET Step(s) == ReaderStep(t, s, r)
    IN Iterate(Step, [at |-> 0, done |-> FALSE, pending |-> NoPending, headers |-> 0, extended |-> <<>>,
                      entries |-> <<>>], Len(t) + 1)

(***************************************************************************)
(* The image a declaration describes.                                      *)
(***************************************************************************)
NoLimits(lim) == [r \in DOMAIN lim |-> 1000]

SoundConfig(k, d) ==
    /\ k.doc = "config" /\ k.fault = "none" /\ k.profile = "sound" /\ k.platform = d.platform
    /\ \A h \in k.history : Cardinality({i \in DOMAIN h : ~h[i]}) = Len(k.diff_ids)

IndexFits(x, d, manifest) ==
    LET Norm(i) == TheOne(x.manifests[i].annotations).name.norm
    IN /\ x.doc = "index" /\ x.fault = "none" /\ x.manifests # <<>>
       /\ \A i \in DOMAIN x.manifests :
            LET e == x.manifests[i] IN
            /\ e.fault = "none" /\ e.media = "manifest" /\ e.digest = manifest /\ e.size = Len(manifest)
            /\ e.platform \subseteq {d.platform}
            /\ \E a \in e.annotations :
                 /\ "name" \in DOMAIN a /\ DOMAIN a \subseteq {"name", "ref"}
                 /\ "ref" \in DOMAIN a => \E n \in a.name.norm : a.ref.name = n.tag \/ a.ref.norm = {n}
       /\ {Norm(i) : i \in DOMAIN x.manifests} = {d.refs[i].norm : i \in DOMAIN d.refs}
       /\ Cardinality({Norm(i) : i \in DOMAIN x.manifests}) = Len(x.manifests)

CompatibilityFits(c, d, k) ==
    /\ c.doc = "compatibility" /\ c.fault = "none" /\ c.records = 1 /\ ~c.late
    /\ {c.tags[i].name : i \in DOMAIN c.tags} = {d.refs[i].name : i \in DOMAIN d.refs}
    /\ Cardinality({c.tags[i].name : i \in DOMAIN c.tags}) = Len(c.tags)
    /\ c.config = BlobName(d.config) /\ c.layers = [i \in DOMAIN k.diff_ids |-> BlobName(k.diff_ids[i])]
    /\ UNION c.sources \in
         {{}, {[id |-> l, fault |-> "none", media |-> "tar", digest |-> l, size |-> Len(l)] : l \in Range(k.diff_ids)}}

\* The three documents and the blobs, each once, in any order, with or without
\* the blob directories, and two blocks of zeros or some more.
Laid(t, d, k, manifest) ==
    LET digests == {manifest, d.config} \cup Range(k.diff_ids)
        required == Range(LayoutNames) \cup {BlobName(b) : b \in digests}
        Fits(path, bytes) ==
            IF path \in BlobDirs THEN bytes = <<>>
            ELSE IF Len(path) = 3 THEN bytes = Last(path).hex
            ELSE /\ Len(bytes) = 1 /\ "doc" \in DOMAIN bytes[1]
                 /\ \/ path = LayoutNames[1] /\ bytes[1].doc = "layout" /\ bytes[1].fault = "none"
                    \/ path = LayoutNames[2] /\ IndexFits(bytes[1], d, manifest)
                    \/ path = LayoutNames[3] /\ CompatibilityFits(bytes[1], d, k)
        From[at \in 0..Len(t), rest \in SUBSET (required \cup BlobDirs)] ==
            LET h == t[at + 1] IN
            IF at >= Len(t) THEN FALSE
            ELSE IF h = Zeros
                 THEN /\ rest \subseteq BlobDirs /\ Len(t) - at \in 2..MaxZeroTail
                      /\ \A i \in (at + 1)..Len(t) : t[i] = Zeros
            ELSE /\ "flag" \in DOMAIN h
                 /\ h.fault = "none" /\ h.flag \in {"regular", "directory"}
                 /\ at + 1 + h.size <= Len(t)
                 /\ \E path \in rest :
                      /\ path = Bare(h.name, h.flag = "directory")
                      /\ (h.flag = "directory") <=> (path \in BlobDirs)
                      /\ Fits(path, SubSeq(t, at + 2, at + 1 + h.size))
                      /\ From[at + 1 + h.size, rest \ {path}]
    IN From[0, required \cup BlobDirs]

\* What a layer may hold is the walker's own rule (see ReadersAgree).
IsDeclaredImage(t, d, lim) ==
    /\ Len(d.config) = 1 /\ "doc" \in DOMAIN d.config[1]
    /\ SoundConfig(d.config[1], d)
    /\ LET k == d.config[1]
           sizes == [i \in DOMAIN k.diff_ids |-> Len(k.diff_ids[i])]
       IN /\ \A l \in Range(k.diff_ids) :
               WalkLayer(l, 0, 0, NoLimits(lim), <<<<"none", 1000>>>>).verdict = "ok"
          /\ Laid(t, d, k, <<CanonicalManifest(d.config, 1, k.diff_ids, sizes)>>)

(***************************************************************************)
(* What each limit of an image is held against.                            *)
(***************************************************************************)
TotalOf(seq) == FoldLeft(LAMBDA a, b : a + b, 0, seq)
Most(S) == Max(S \cup {0})

Needs(t, d) ==
    LET layers == d.config[1].diff_ids
        outer == ReadWith(t, Default)
        inner == [i \in DOMAIN layers |-> ReadWith(layers[i], Default)]
        extended == [i \in DOMAIN layers |-> TotalOf(inner[i].extended)]
        entries == UNION {Range(inner[i].entries) : i \in DOMAIN layers}
    IN [ImageArchive |-> Len(t), ImageEntries |-> outer.headers,
        ImagePathBytes |-> Most({Len(x.e.name) : x \in Range(outer.entries)}),
        OciLayout |-> 1, IndexJson |-> 1, CompatibilityJson |-> 1, ImageManifestJson |-> 1, ConfigJson |-> 1,
        ImageJsonTotal |-> 5,
        TagsPerImage |-> Len(d.refs),
        LayersPerImage |-> Len(layers),
        StoredLayerBlob |-> Most({Len(l) : l \in Range(layers)}),
        DecodedLayer |-> Most({Len(l) : l \in Range(layers)}),
        DecodedLayersPerImage |-> TotalOf([i \in DOMAIN layers |-> Len(layers[i])]),
        LayerEntries |-> TotalOf([i \in DOMAIN layers |-> inner[i].headers]),
        LayerExtension |-> Most(UNION {Range(inner[i].extended) : i \in DOMAIN layers}),
        LayerExtensionTotal |-> TotalOf(extended),
        LayerPathBytes |-> Most({Len(x.e.name) : x \in entries}),
        LayerLinkTargetBytes |-> Most(UNION {{Len(k) : k \in x.e.link} : x \in entries})]

\* The members of an archive in the opposite order.
Reordered(t, lim) ==
    LET es == WalkImage(t, lim).entries
        end == IF es = <<>> THEN 0 ELSE Last(es).at + Last(es).size
    IN FlattenSeq(Reverse([i \in DOMAIN es |-> SubSeq(t, es[i].at, es[i].at + es[i].size)]))
         \o SubSeq(t, end + 1, Len(t))

\* A verdict on an image with room left of the operation's decoded layers.
Agrees(t, d, lim, room, verdict) ==
    LET need == Needs(t, d)
        exceeded == {r \in DOMAIN need : need[r] > lim[r]}
                    \cup (IF need.DecodedLayersPerImage > room THEN {"DecodedLayersPerOperation"} ELSE {})
    IN /\ IF IsDeclaredImage(t, d, lim)
          THEN verdict \in (IF exceeded = {} THEN {"ok"} ELSE exceeded)
          ELSE verdict \notin {"ok", "Gzip"}
       /\ InventoryVerdict(t, lim) = "ok" =>
            ValidateImageArchive(Reordered(t, lim), d, lim, room).verdict = verdict

\* What the walker admits of a layer, and an entry it admits of an archive.
Admitted(l, lim) == WalkLayer(l, 0, 0, NoLimits(lim), <<<<"none", 1000>>>>).entries
InImage(t, e) ==
    [e |-> [flag |-> e.flag, name |-> t[e.at].name, link |-> {}, size |-> e.size], data |-> BytesOf(t, e)]
=============================================================================
