------------------------------ MODULE TarWalk -------------------------------
(***************************************************************************)
(* The tar walker of src/src/content/walker.rs, with its policy for an     *)
(* image archive and its policy for a layer, over the counted streams of   *)
(* counting.rs.  As in PackageVerify a verdict is "ok" or the refusal's    *)
(* name.                                                                   *)
(*                                                                         *)
(* A stream is a sequence of blocks, and every length is in blocks: an     *)
(* entry's data fills its blocks, and only the end of a stream may fall    *)
(* inside one.  A block is a header, which says what its fields parse to,  *)
(* or zeros, or an extension's payload, or anything else.  Nothing but its *)
(* place makes a block a header: data may hold headers.  A name is the     *)
(* sequence of its segments, and its length their number.                  *)
(***************************************************************************)
EXTENDS PackageVerify, SequencesExt

CONSTANT MaxZeroTail    \* MAX_ZERO_TAIL, in blocks

ASSUME TarAssumption == MaxZeroTail \in Nat \ {0, 1}

Zeros == [zero |-> "whole"]
HalfBlock == [zero |-> "part"]
Text(s) == [text |-> s]
HeaderBlock(flag, name, link, size) ==
    [flag |-> flag, name |-> name, link |-> link, size |-> size, fault |-> "none"]

\* The walk, one header at a time.
Iterate(Step(_), s, n) == FoldLeft(LAMBDA x, i : IF x.done THEN x ELSE Step(x), s, [i \in 1..n |-> i])
-----------------------------------------------------------------------------
(* counting.rs *)

\* A chain of budgets is a sequence of a resource and what is left of it.
Charged(chain, n) == [i \in DOMAIN chain |-> <<chain[i][1], chain[i][2] - n>>]

\* check_available: the first budget of the chain that is too small.
CheckAvailable(chain, n) ==
    FirstOf([i \in DOMAIN chain |-> IF chain[i][2] < n THEN chain[i][1] ELSE "ok"])

\* read_counted to the end of n blocks: it stops where the narrowest is used up.
ReadToEnd(n, chain) ==
    LET least == Min({chain[i][2] : i \in DOMAIN chain})
    IN IF n <= least THEN "ok" ELSE CheckAvailable(Charged(chain, least), 1)

\* read_full of one block, at blocks into the stream.
ReadBlock(t, at, chain) ==
    IF at >= Len(t) THEN "Truncated"
    ELSE AndThen(CheckAvailable(Charged(chain, at), 1),
                IF t[at + 1] = HalfBlock THEN "Truncated" ELSE "ok")

\* check_available of what an entry announces, then skip_unread or read_data.
ReadData(t, at, size, chain) ==
    AndThen(CheckAvailable(Charged(chain, at), size),
           IF at + size > Len(t) \/ (size > 0 /\ t[at + size] = HalfBlock) THEN "Truncated" ELSE "ok")
-----------------------------------------------------------------------------
(* walker.rs: what both policies share *)

\* verify_checksum, read_magic, classify, parse_fields.
HeaderFault(h, flags) ==
    IF "flag" \notin DOMAIN h THEN "TarChecksum"
    ELSE IF h.fault = "checksum" THEN "TarChecksum"
    ELSE IF h.fault = "format" THEN "TarFormat"
    ELSE IF h.flag \notin flags THEN "EntryType"
    ELSE IF h.fault = "field" THEN "TarField" ELSE "ok"

\* finish_tail, the first block of zeros being block at + 1.
FinishTail(t, at, chain) ==
    FirstOf([i \in 1..(Len(t) - at - 1) |->
                FirstOf(<<CheckAvailable(Charged(chain, at + i), 1),
                          IF i >= MaxZeroTail THEN "ZeroTailTooLong" ELSE "ok",
                          CASE t[at + i + 1] = Zeros -> "ok"
                            [] t[at + i + 1] = HalfBlock -> "Truncated"
                            [] OTHER -> "TrailingData">>)] \o
            <<IF Len(t) - at < 2 THEN "Truncated" ELSE "ok">>)

\* A directory's name may end in a slash, an empty last segment.
Bare(name, isDir) == IF isDir /\ Len(name) > 1 /\ Last(name) = Text("") THEN Front(name) ELSE name

Stop(s, v) == [s EXCEPT !.done = TRUE, !.verdict = v]

\* The walk goes on if a check passes, and stops with its verdict if not.
StopUnless(s, v, next) == IF v = "ok" THEN next ELSE Stop(s, v)
-----------------------------------------------------------------------------
(* walker.rs: an image archive *)

\* image_canonical: no control character ("^"), no backslash, no dots.
ImageUnsafe == {Text(s) : s \in {"", ".", "..", "^", "\\"}}

\* ImageRules::admit, record.
ImageAdmit(h, seen, lim) ==
    LET isDir == h.flag = "directory"
        path == Bare(h.name, isDir)
    IN IF Len(h.name) > lim.ImagePathBytes THEN "ImagePathBytes"
       ELSE IF \E i \in DOMAIN path : path[i] \in ImageUnsafe THEN "UnsafePath"
       ELSE IF isDir /\ h.size # 0 THEN "NonRegularWithData"
       ELSE IF [path |-> path, flag |-> h.flag] \in seen THEN "DuplicatePath"
       ELSE IF \E e \in seen :
                 \/ e.path = path
                 \/ e.flag = "regular" /\ IsStrictPrefix(e.path, path)
                 \/ ~isDir /\ IsStrictPrefix(path, e.path)
            THEN "PathConflict"
       ELSE "ok"

\* advance under the image policy; entries are what next_entry returns.
ImageStep(t, s, lim) ==
    LET chain == <<<<"ImageArchive", lim.ImageArchive>>>>
        h == t[s.at + 1]
        header == FirstOf(<<IF Len(s.entries) >= lim.ImageEntries THEN "ImageEntries" ELSE "ok",
                            HeaderFault(h, {"regular", "directory"})>>)
        admit == AndThen(ImageAdmit(h, s.seen, lim), ReadData(t, s.at + 1, h.size, chain))
    IN StopUnless(s, ReadBlock(t, s.at, chain),
         IF h = Zeros THEN Stop(s, FinishTail(t, s.at, chain))
         ELSE StopUnless(s, AndThen(header, admit),
                [s EXCEPT !.at = @ + 1 + h.size,
                          !.seen = @ \cup {[path |-> Bare(h.name, h.flag = "directory"), flag |-> h.flag]},
                          !.entries = Append(@, [flag |-> h.flag, path |-> Bare(h.name, h.flag = "directory"),
                                                 at |-> s.at + 1, size |-> h.size])]))

WalkImage(t, lim) ==
    LET Step(s) == ImageStep(t, s, lim)
    IN Iterate(Step, [at |-> 0, done |-> FALSE, verdict |-> "ok", seen |-> {}, entries |-> <<>>], Len(t) + 1)
-----------------------------------------------------------------------------
(* walker.rs: a layer *)

Extensions == {"pax", "longname", "longlink"}
LayerFlags == {"regular", "directory", "hardlink", "symlink", "char", "block", "fifo"} \cup Extensions
LayerUnsafe == {Text(s) : s \in {"", ".", "..", "^"}}

\* layer_name_ok: the directory itself, or plain segments after one "./".
LayerNameOk(name, isDir) ==
    LET bare == Bare(name, isDir)
        plain == IF Head(bare) = Text(".") THEN Tail(bare) ELSE bare
    IN IF bare = <<Text(".")>> THEN isDir ELSE \A i \in DOMAIN plain : plain[i] \notin LayerUnsafe

PaxRecord(key, sound, value, number) == [key |-> key, sound |-> sound, value |-> value, number |-> number]

\* What the extension headers ahead of an entry say; a value that is stated is
\* the element of its set.
NoPax == [path |-> {}, linkpath |-> {}, size |-> {}]
NoPending == [pax |-> {}, longname |-> {}, longlink |-> {}]

PaxKeys == {"path", "linkpath", "size", "mtime", "xattr"}

\* parse_pax, split_pax_record: each record in turn.
PaxFault(records, pending) ==
    FirstOf([i \in DOMAIN records |->
        LET r == records[i]
        IN IF r.key = "broken" THEN "PaxRecord"
           ELSE IF \E j \in 1..(i - 1) : records[j].key = r.key THEN "PaxDuplicateKey"
           ELSE IF r.key \notin PaxKeys THEN "PaxKey"
           ELSE IF ~r.sound THEN "PaxValue"
           ELSE IF \/ r.key = "path" /\ pending.longname # {}
                   \/ r.key = "linkpath" /\ pending.longlink # {} THEN "ConflictingAuthority"
           ELSE "ok"])

\* Mutant: a long name beside a pax path is not a conflict.
RecordFaultLax(flag, payload, pending) ==
    IF flag = "pax" THEN PaxFault(payload, pending)
    ELSE IF \E i \in DOMAIN payload : ~payload[i].sound THEN "ExtensionPayload" ELSE "ok"

\* Pending::record.
RecordFault(flag, payload, pending) ==
    IF flag = "pax" THEN PaxFault(payload, pending)
    ELSE IF \E i \in DOMAIN payload : ~payload[i].sound THEN "ExtensionPayload"
    ELSE IF \E p \in pending.pax : (IF flag = "longname" THEN p.path ELSE p.linkpath) # {}
         THEN "ConflictingAuthority" ELSE "ok"

Stated(flag, payload) ==
    IF flag = "pax"
    THEN LET Of(k) == {payload[i] : i \in {j \in DOMAIN payload : payload[j].key = k}}
         IN [path |-> {r.value : r \in Of("path")}, linkpath |-> {r.value : r \in Of("linkpath")},
             size |-> {r.number : r \in Of("size")}]
    ELSE IF payload = <<>> THEN <<Text("")>> ELSE payload[1].value

\* The records of an extension's payload, at most one block.
PayloadAt(t, at, size) ==
    IF size = 0 THEN <<>>
    ELSE IF "records" \in DOMAIN t[at + 1] THEN t[at + 1].records
    ELSE <<PaxRecord("broken", FALSE, <<>>, 0)>>

\* The first of three that is stated.
Authority(a, b, otherwise) == CHOOSE v \in (IF a # {} THEN a ELSE IF b # {} THEN b ELSE {otherwise}) : TRUE

\* The effective name, link target and size of an entry.
Effective(h, pending) ==
    LET pax == Authority(pending.pax, {}, NoPax)
    IN [flag |-> h.flag,
        name |-> Authority(pax.path, pending.longname, h.name),
        link |-> IF h.flag \in {"hardlink", "symlink"}
                 THEN {Authority(pax.linkpath, pending.longlink, h.link)}
                 ELSE IF pax.linkpath # {} THEN pax.linkpath ELSE pending.longlink,
        size |-> Authority(pax.size, {}, h.size)]

\* LayerRules::admit.
LayerAdmit(e, lim) ==
    LET isLink == e.flag \in {"hardlink", "symlink"}
    IN FirstOf(<<IF ~isLink /\ e.link # {} THEN "LinkOnNonLink" ELSE "ok",
                 IF Len(e.name) > lim.LayerPathBytes THEN "LayerPathBytes" ELSE "ok",
                 IF \E k \in e.link : Len(k) > lim.LayerLinkTargetBytes THEN "LayerLinkTargetBytes" ELSE "ok",
                 IF LayerNameOk(e.name, e.flag = "directory") THEN "ok" ELSE "UnsafePath",
                 IF e.flag = "hardlink" /\ \E k \in e.link : ~LayerNameOk(k, FALSE) THEN "UnsafePath" ELSE "ok",
                 IF e.flag # "regular" /\ e.size # 0 THEN "NonRegularWithData" ELSE "ok">>)

\* read_extension.
ExtensionStep(t, s, h, lim, chain) ==
    LET early ==
            FirstOf(<<IF s.pending[h.flag] # {} THEN "DuplicateExtension" ELSE "ok",
                      IF h.size > lim.LayerExtension THEN "LayerExtension" ELSE "ok",
                      IF s.extended + h.size > lim.LayerExtensionTotal THEN "LayerExtensionTotal" ELSE "ok",
                      ReadData(t, s.at + 1, h.size, chain)>>)
        payload == PayloadAt(t, s.at + 1, h.size)
    IN StopUnless(s, AndThen(early, RecordFault(h.flag, payload, s.pending)),
         [s EXCEPT !.at = @ + 1 + h.size, !.headers = @ + 1, !.extended = @ + h.size,
                   !.pending[h.flag] = {Stated(h.flag, payload)}])

\* An entry, as the extensions ahead of it make it.
EntryStep(t, s, e, lim, chain) ==
    StopUnless(s, AndThen(LayerAdmit(e, lim), ReadData(t, s.at + 1, e.size, chain)),
        [s EXCEPT !.at = @ + 1 + e.size, !.headers = @ + 1, !.pending = NoPending,
                  !.entries = Append(@, [e |-> e, data |-> SubSeq(t, s.at + 2, s.at + 1 + e.size)])])

\* advance under the layer policy; headers and extended run on from layer to
\* layer of an image.
LayerStep(t, s, lim, chain) ==
    LET h == t[s.at + 1]
        header == FirstOf(<<IF s.headers >= lim.LayerEntries THEN "LayerEntries" ELSE "ok",
                            HeaderFault(h, LayerFlags)>>)
    IN StopUnless(s, ReadBlock(t, s.at, chain),
         IF h = Zeros
         THEN Stop(s, IF s.pending # NoPending THEN "DanglingExtension" ELSE FinishTail(t, s.at, chain))
         ELSE StopUnless(s, header,
                IF h.flag \in Extensions THEN ExtensionStep(t, s, h, lim, chain)
                ELSE EntryStep(t, s, Effective(h, s.pending), lim, chain)))

WalkLayer(t, headers, extended, lim, chain) ==
    LET Step(s) == LayerStep(t, s, lim, chain)
    IN Iterate(Step, [at |-> 0, done |-> FALSE, verdict |-> "ok", pending |-> NoPending,
                      headers |-> headers, extended |-> extended, entries |-> <<>>], Len(t) + 1)
=============================================================================
