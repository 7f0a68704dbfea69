------------------------------ MODULE Pipeline ------------------------------
(***************************************************************************)
(* How a package is made, in src/src/package: prepare_package (prepare.rs),*)
(* persist, reopen_prepared (reopen.rs), the external signer, and          *)
(* finalize_package and publish (finalize.rs); and what a registry says of *)
(* a package it is sent (upload.rs).                                       *)
(*                                                                         *)
(* The first job stages its inputs from files others may edit, and returns *)
(* a binding.  Either it signs and finalizes what it holds in memory, or   *)
(* it persists a directory that anyone with access to it may alter while a *)
(* second job, given a binding to expect, reopens it file by file.  The    *)
(* directory's files are inodes, so that a name may be replaced between    *)
(* the inspection and the open, and a file edited after it was opened.     *)
(***************************************************************************)
EXTENDS Contents, ImageContract

CONSTANTS
    Cases,      \* the jobs: inputs, sources, request, limits, and job two's
    Blobs,      \* contents a source file or an archive member may be given
    MaxEdits,   \* bound: edits of source files and of the directory
    Broken      \* bound: the fields of a record that an edit spoils

Weighs(blob) == blob.len \in Nat /\ blob.packed \in Nat
Limited(lim) ==
    \A r \in {"manifest", "archive", "package", "members", "total", "disk", "record"} : lim[r] \in Nat

\* Others have something else to put in a blob's place; every input has a source.
ASSUME PipelineAssumption ==
    /\ Cases # {} /\ MaxEdits \in Nat /\ Broken \subseteq FieldNames
    /\ \A b \in Blobs : Weighs(b) /\ \E c \in Blobs : c # b
    /\ Blobs # {}
    /\ \A c \in Cases :
         /\ c.inputs \in Seq(Range(c.inputs)) /\ c.source \in Seq(Range(c.source))
         /\ Len(c.source) = Len(c.inputs) /\ \A i \in DOMAIN c.source : Weighs(c.source[i])
         /\ Limited(c.lim) /\ Limited(c.ask.lim)

Files == <<"manifest", "archive", "record">>
FileNames == {"manifest", "archive", "record"}
Inodes == 1..(3 + MaxEdits)
Nothing == [none |-> TRUE]

VARIABLES
    case,                     \* the job
    pc, phase, verdict,       \* the call under way, its step, its refusal
    source, snaps, man, arc,  \* sources, their snapshots, M and A
    binding, handle,          \* job one's binding; the PreparedPackage held
    names, inode, place,      \* the preparation directory
    seen, opened,             \* inodes inspected and opened by reopen_prepared
    signed, final, published, \* the signer's answer, the container, the file
    delivered,                \* what a registry and verify_contents say
    used,                     \* most disk held by a call, and its limit
    edits, touched            \* edits made; whether the directory was altered

job1 == <<source, snaps, man, arc, binding>>
directory == <<names, inode, place>>
reading == <<seen, opened>>
outcome == <<final, published, delivered>>
vars == <<case, pc, phase, verdict, job1, handle, directory, reading, signed, outcome, used,
          edits, touched>>

lim1 == case.lim
ask == case.ask
Lim == IF phase = "prepare" \/ phase = "persist" THEN case.lim ELSE case.ask.lim
-----------------------------------------------------------------------------
(* prepare_package *)

Refuse(v) == pc' = "refused" /\ verdict' = v
Continue(v, next) == IF v = "ok" THEN pc' = next /\ UNCHANGED verdict ELSE Refuse(v)
Holds(n) == used' = [n |-> IF used.limit = Lim.disk /\ used.n > n THEN used.n ELSE n, limit |-> Lim.disk]

Begin ==
    /\ pc = "start"
    /\ Continue(IF Len(case.inputs) > lim1.members THEN "OuterMembers" ELSE "ok", "stage")
    /\ UNCHANGED <<case, phase, job1, handle, directory, reading, signed, outcome, used, edits, touched>>

\* stage_inputs: one source after the other, each within what is left.
StageInput ==
    /\ pc = "stage" /\ Len(snaps) < Len(case.inputs)
    /\ LET b == source[Len(snaps) + 1]
           before == SumOf(BlobLens(snaps))
           v == Pass(b.len, <<<<"OuterUncompressedTotal", lim1.total - before>>,
                              <<"RetainedDisk", lim1.disk - before>>>>)
       IN /\ Continue(v, "stage")
          /\ snaps' = Append(snaps, b)
          /\ IF v = "ok" THEN Holds(before + b.len) ELSE UNCHANGED used
    /\ UNCHANGED <<case, phase, source, man, arc, binding, handle, directory, reading, signed,
                   outcome, edits, touched>>

\* derive_manifest: every input with the digest and length of its snapshot.
DeriveManifest(inputs, blobs) ==
    [format |-> CHOOSE f \in BuildFormats : \A g \in BuildFormats : g <= f,
     stage1 |-> TRUE, decodes |-> TRUE,
     members |-> [i \in DOMAIN inputs |-> inputs[i].path],
     lengths |-> BlobLens(blobs),
     artifacts |-> [i \in DOMAIN inputs |->
        [path |-> inputs[i].path, component |-> inputs[i].component,
         version |-> inputs[i].version, commit |-> inputs[i].commit,
         image |-> inputs[i].image, disposed |-> inputs[i].disposed,
         sound |-> inputs[i].sound, arch |-> inputs[i].arch, kind |-> inputs[i].kind,
         sha |-> blobs[i]]]]

BuildManifest ==
    /\ pc = "stage" /\ Len(snaps) = Len(case.inputs)
    /\ LET m == DeriveManifest(case.inputs, snaps)
       IN /\ man' = m
          /\ Continue(FirstOf(<<IF lim1.package < Overhead THEN "Package" ELSE "ok",
                                ParseManifest(m),
                                Pass(ManifestLen(m), <<<<"RawManifest", lim1.manifest>>,
                                                       <<"Package", lim1.package - Overhead>>>>)>>),
                      "manifest")
    /\ UNCHANGED <<case, phase, source, snaps, arc, binding, handle, directory, reading, signed,
                   outcome, used, edits, touched>>

\* Mutant: what the package limit leaves is taken without the envelope.
PackageAllowanceBare(m, lim) == lim.package - ManifestLen(m)

\* What the package limit leaves for the archive.
PackageAllowance(m, lim) == lim.package - ManifestLen(m) - Overhead

\* write_archive_block over the snapshots, never over the sources.
ArchiveOf(inputs, blobs) ==
    [members |-> [i \in DOMAIN inputs |-> [path |-> inputs[i].path, plain |-> TRUE, blob |-> blobs[i]]],
     trailing |-> FALSE, coding |-> 1]

\* build_archive, while the snapshots are still held.
BuildArchive ==
    /\ pc = "manifest"
    /\ LET a == ArchiveOf(case.inputs, snaps)
           staged == SumOf(BlobLens(snaps))
           v == Pass(ArchiveLen(a), <<<<"CompressedArchive", lim1.archive>>,
                                      <<"Package", PackageAllowance(man, lim1)>>,
                                      <<"RetainedDisk", lim1.disk - staged>>>>)
       IN /\ arc' = a /\ Continue(v, "validate")
          /\ IF v = "ok" THEN Holds(staged + ArchiveLen(a)) ELSE UNCHANGED used
    /\ UNCHANGED <<case, phase, source, snaps, man, binding, handle, directory, reading, signed,
                   outcome, edits, touched>>

\* validate, bind and the record's length.
PreparedVerdict(m, a, c) ==
    FirstOf(<<Validate(m, a, c.req, c.arch, c.lim, c.lim.disk - ArchiveLen(a)),
              ValidateIdentifiers(Binding(m, a, c.req, c.arch)),
              IF RecordLen > c.lim.record THEN "PreparationRecord" ELSE "ok">>)

Bind ==
    /\ pc = "validate"
    /\ LET v == PreparedVerdict(man, arc, case)
           b == Binding(man, arc, case.req, case.arch)
       IN /\ Continue(v, "prepared")
          /\ IF v = "ok"
             THEN binding' = b /\ handle' = [man |-> man, arc |-> arc, binding |-> b]
             ELSE UNCHANGED <<binding, handle>>
          /\ IF v = "ok" THEN Holds(ArchiveLen(arc) + Unpacked(arc)) ELSE UNCHANGED used
    /\ UNCHANGED <<case, phase, source, snaps, man, arc, directory, reading, signed, outcome,
                   edits, touched>>

\* Someone edits a source while the job runs.
EditSource(i, b) ==
    /\ case.meddled /\ edits < MaxEdits /\ pc \in {"start", "stage", "manifest", "validate"}
    /\ b # source[i]
    /\ source' = [source EXCEPT ![i] = b] /\ edits' = edits + 1
    /\ UNCHANGED <<case, pc, phase, verdict, snaps, man, arc, binding, handle, directory, reading,
                   signed, outcome, used, touched>>
-----------------------------------------------------------------------------
(* PreparedPackage::persist *)

File(bytes) == [kind |-> "regular", writable |-> FALSE, bytes |-> bytes]
Empty == [kind |-> "none", writable |-> FALSE, bytes |-> Nothing]

\* Snapshots of the record and of M beside A, then a published copy of each.
PersistVerdict(h, lim) ==
    LET room == lim.disk - ArchiveLen(h.arc)
        m == ManifestLen(h.man)
    IN FirstOf(<<Pass(RecordLen, <<<<"PreparationRecord", lim.record>>, <<"RetainedDisk", room>>>>),
                 Pass(m, <<<<"RawManifest", lim.manifest>>, <<"RetainedDisk", room - RecordLen>>>>),
                 Pass(m + ArchiveLen(h.arc) + RecordLen,
                      <<<<"RetainedDisk", room - RecordLen - m>>>>)>>)

\* publish_directory puts all three in place or none (Publication).
Persist ==
    /\ pc = "prepared" /\ phase = "prepare"
    /\ phase' = "persist"
    /\ LET v == PersistVerdict(handle, lim1)
       IN /\ Continue(v, "persisted")
          /\ IF v # "ok" THEN UNCHANGED <<directory, used>>
             ELSE /\ names' = [manifest |-> 1, archive |-> 2, record |-> 3]
                  /\ inode' = [inode EXCEPT ![1] = File(handle.man), ![2] = File(handle.arc),
                                            ![3] = File(Emit(handle.binding))]
                  /\ place' = "safe"
                  /\ Holds(2 * (ArchiveLen(handle.arc) + ManifestLen(handle.man) + RecordLen))
    /\ UNCHANGED <<case, job1, handle, reading, signed, outcome, edits, touched>>

\* The first job's process ends and lets its retained bytes go.
Forget ==
    /\ pc = "persisted" /\ phase = "persist"
    /\ pc' = "request" /\ phase' = "reopen" /\ handle' = Nothing
    /\ used' = [n |-> 0, limit |-> ask.lim.disk]
    /\ UNCHANGED <<case, verdict, job1, directory, reading, signed, outcome, edits, touched>>
-----------------------------------------------------------------------------
(* What may happen to the directory *)

\* The archive again, encoded otherwise; with other bytes in a member; with a
\* second member; with bytes after its end.
ArchiveVariants(a) ==
    {[a EXCEPT !.coding = 2], [a EXCEPT !.trailing = TRUE],
     [a EXCEPT !.members = Append(@, [path |-> "more", plain |-> TRUE, blob |-> a.members[1].blob])]}
    \cup {[a EXCEPT !.members[1].blob = b] : b \in Blobs}

\* Another preparation, complete in itself.
OtherBlobs == [i \in DOMAIN snaps |-> CHOOSE b \in Blobs : b # snaps[i]]
OtherManifest == DeriveManifest(case.inputs, OtherBlobs)
OtherArchive == ArchiveOf(case.inputs, OtherBlobs)
OtherBinding == Binding(OtherManifest, OtherArchive, case.req, case.arch)

RecordVariants(r) ==
    {[r EXCEPT !.shape = s] : s \in {"duplicate", "other", "broken"}}
    \cup {[r EXCEPT !.fields = [f \in (DOMAIN r.fields) \ {g} |-> r.fields[f]]] : g \in Broken}
    \cup {[r EXCEPT !.fields[g].type = "wrong"] : g \in Broken}
    \cup {[r EXCEPT !.fields[g].sound = FALSE] : g \in {g \in Broken : r.fields[g].type # "null"}}
    \cup {[r EXCEPT !.fields = [f \in (DOMAIN r.fields) \cup {"more"} |->
              IF f = "more" THEN [type |-> "string", sound |-> TRUE, value |-> "x"] ELSE r.fields[f]]],
          [r EXCEPT !.len = @ + 1], Emit(OtherBinding),
          Emit([binding EXCEPT !.version = "v9"])}

Variants(f, bytes) ==
    CASE f = "manifest" -> {OtherManifest, [bytes EXCEPT !.decodes = FALSE]}
      [] f = "archive" -> ArchiveVariants(bytes)
      [] OTHER -> RecordVariants(bytes)

Original(f) == CASE f = "manifest" -> man [] f = "archive" -> arc [] OTHER -> Emit(binding)

MayMeddle == case.meddled /\ edits < MaxEdits /\ phase = "reopen" /\ pc \notin {"prepared", "refused"}
Meddles == MayMeddle /\ edits' = edits + 1 /\ touched' = TRUE

Fresh == CHOOSE i \in Inodes : inode[i].kind = "none" /\ \A j \in Inodes : j < i => inode[j].kind # "none"

\* A name is given another inode: another file, a link, a device.
ReplaceName(f, entry) ==
    /\ Meddles
    /\ names[f] # 0 /\ inode' = [inode EXCEPT ![Fresh] = entry] /\ names' = [names EXCEPT ![f] = Fresh]
    /\ UNCHANGED <<case, pc, phase, verdict, job1, handle, place, reading, signed, outcome, used>>

\* A file is edited where it is, or its mode changed; whoever opened it sees it.
EditFile(f, entry) ==
    /\ Meddles
    /\ names[f] # 0 /\ inode' = [inode EXCEPT ![names[f]] = entry]
    /\ UNCHANGED <<case, pc, phase, verdict, job1, handle, names, place, reading, signed, outcome, used>>

RemoveName(f) ==
    /\ Meddles
    /\ names' = [names EXCEPT ![f] = 0]
    /\ UNCHANGED <<case, pc, phase, verdict, job1, handle, inode, place, reading, signed, outcome, used>>

\* A fourth name, a mode, a component that is a link, or the directory of
\* another preparation put in its place, before it is opened.
ChangePlace(how) ==
    /\ Meddles /\ pc \in {"request", "directory"}
    /\ IF how = "other"
       THEN /\ inode' = [inode EXCEPT ![1] = File(OtherManifest), ![2] = File(OtherArchive),
                                      ![3] = File(Emit(OtherBinding))]
            /\ UNCHANGED place
       ELSE place' = how /\ UNCHANGED inode
    /\ UNCHANGED <<case, pc, phase, verdict, job1, handle, names, reading, signed, outcome, used>>

Meddling ==
    \/ /\ MayMeddle
       /\ \E f \in FileNames :
         \/ \E b \in Variants(f, Original(f)) :
              ReplaceName(f, File(b)) \/ EditFile(f, File(b))
         \/ \E kind \in {"symlink", "other"} : ReplaceName(f, [File(Original(f)) EXCEPT !.kind = kind])
         \/ ReplaceName(f, File(Original(f)))
         \/ EditFile(f, [File(Original(f)) EXCEPT !.writable = TRUE])
         \/ RemoveName(f)
    \/ \E how \in {"extra", "writable", "link", "other"} : ChangePlace(how)
-----------------------------------------------------------------------------
(* reopen_prepared *)

\* The binding the caller expects: the one job one returned, or another's.
Expected == IF ask.expected = "own" THEN binding ELSE OtherBinding

ReopenRequest ==
    /\ pc = "request"
    /\ Continue(RequestDifference(Expected, ask.req, ask.arch), "directory")
    /\ UNCHANGED <<case, phase, job1, handle, directory, reading, signed, outcome, used, edits, touched>>

\* open_directory, list.
OpenDirectory ==
    /\ pc = "directory"
    /\ Continue(CASE place = "link" -> "SymlinkComponent"
                  [] place = "writable" -> "DirectoryWritable"
                  [] place = "extra" -> "ExtraMember"
                  [] OTHER -> IF \E f \in FileNames : names[f] = 0 THEN "MissingMember" ELSE "ok",
                "files")
    /\ UNCHANGED <<case, phase, job1, handle, directory, reading, signed, outcome, used, edits, touched>>

NextFile == Files[Cardinality({f \in FileNames : opened[f] # 0}) + 1]
FileLimit(f) ==
    CASE f = "manifest" -> <<"RawManifest", Lim.manifest>>
      [] f = "archive" -> <<"CompressedArchive", Lim.archive>>
      [] OTHER -> <<"PreparationRecord", Lim.record>>
FileLen(f, bytes) ==
    CASE f = "manifest" -> ManifestLen(bytes) [] f = "archive" -> ArchiveLen(bytes) [] OTHER -> bytes.len

\* open_file: the name inspected without following it.
StatFile ==
    /\ pc = "files" /\ seen = 0 /\ \E f \in FileNames : opened[f] = 0
    /\ LET i == names[NextFile]
           v == CASE i = 0 -> "Io"
                  [] i # 0 /\ inode[i].kind = "symlink" -> "Symlink"
                  [] i # 0 /\ inode[i].kind = "other" -> "NotRegularFile"
                  [] i # 0 /\ inode[i].kind = "regular" /\ inode[i].writable -> "GroupOrOtherWritable"
                  [] OTHER -> "ok"
       IN Continue(v, "files") /\ seen' = i
    /\ UNCHANGED <<case, phase, job1, handle, directory, opened, signed, outcome, used, edits, touched>>

\* ... then opened, and held to be the file inspected and of an allowed size.
OpenFile ==
    /\ pc = "files" /\ seen # 0
    /\ LET f == NextFile
           i == names[f]
           v == CASE i = 0 -> "Io"
                  [] i # 0 /\ inode[i].kind = "symlink" -> "Io"
                  [] i # 0 /\ inode[i].kind # "symlink" /\ (i # seen \/ inode[i].kind # "regular") ->
                       "IdentityChanged"
                  [] OTHER -> IF FileLen(f, inode[i].bytes) > FileLimit(f)[2] THEN FileLimit(f)[1] ELSE "ok"
       IN /\ Continue(v, IF f = "record" THEN "record" ELSE "files")
          /\ seen' = 0 /\ opened' = [opened EXCEPT ![f] = i]
    /\ UNCHANGED <<case, phase, job1, handle, directory, signed, outcome, used, edits, touched>>

Contents_(f) == inode[opened[f]].bytes
CopyVerdict(f) == Pass(FileLen(f, Contents_(f)), <<FileLimit(f), <<"RetainedDisk", Lim.disk>>>>)

\* The record's copy, parsed and compared with what is expected.
ReadRecord ==
    /\ pc = "record"
    /\ LET r == Contents_("record")
           parsed == FirstOf(<<CopyVerdict("record"), ParseRecord(r, Lim)>>)
       IN /\ Continue(IF parsed = "ok" THEN FirstDifference(Recorded(r), Expected) ELSE parsed, "copyM")
          /\ IF parsed = "ok" THEN Holds(r.len) ELSE UNCHANGED used
    /\ UNCHANGED <<case, phase, job1, handle, directory, reading, signed, outcome, edits, touched>>

\* Mutant: only the length is compared.
CompareLengths(len, bytes, sha, length, fields) == IF len # length THEN fields[2] ELSE "ok"

\* compare: the digest, then the length.
Compare(len, bytes, sha, length, fields) ==
    IF bytes # sha THEN fields[1] ELSE IF len # length THEN fields[2] ELSE "ok"

\* M's copy; from here on the handle under construction is in memory.
CopyManifest ==
    /\ pc = "copyM"
    /\ LET m == Contents_("manifest")
           v == FirstOf(<<CopyVerdict("manifest"),
                          Compare(ManifestLen(m), m, Expected.manifest_sha256, Expected.manifest_length,
                                  <<"manifest_sha256", "manifest_length">>)>>)
       IN /\ Continue(v, "copyA")
          /\ handle' = [man |-> m, arc |-> Nothing, binding |-> Expected]
          /\ IF v = "ok" THEN Holds(ManifestLen(m)) ELSE UNCHANGED used
    /\ UNCHANGED <<case, phase, job1, directory, reading, signed, outcome, edits, touched>>

CopyArchive ==
    /\ pc = "copyA"
    /\ LET a == Contents_("archive")
           v == FirstOf(<<CopyVerdict("archive"),
                          Compare(ArchiveLen(a), a, Expected.archive_sha256, Expected.archive_length,
                                  <<"archive_sha256", "archive_length">>)>>)
       IN /\ Continue(v, "revalidate")
          /\ handle' = [handle EXCEPT !.arc = a]
          /\ IF v = "ok" THEN Holds(ArchiveLen(a)) ELSE UNCHANGED used
    /\ UNCHANGED <<case, phase, job1, directory, reading, signed, outcome, edits, touched>>

Revalidate ==
    /\ pc = "revalidate"
    /\ LET v == Validate(handle.man, handle.arc, ask.req, ask.arch, Lim, Lim.disk - ArchiveLen(handle.arc))
       IN /\ Continue(v, "prepared")
          /\ IF v = "ok" THEN Holds(ArchiveLen(handle.arc) + Unpacked(handle.arc)) ELSE UNCHANGED used
    /\ UNCHANGED <<case, phase, job1, handle, directory, reading, signed, outcome, edits, touched>>
-----------------------------------------------------------------------------
(* The signer, finalize_package, publish *)

SignedBy(key, over) == [key |-> key, over |-> over, framed |-> TRUE]

\* The signer signs what it was given, or something else, answers with a
\* block of the wrong length, or fails.
Sign(answer) ==
    /\ pc = "prepared" \/ (pc = "persisted" /\ phase = "persist")
    /\ phase' = "finalize"
    /\ IF answer = "fails" THEN Refuse("Signer") /\ UNCHANGED signed
       ELSE /\ pc' = "signed" /\ UNCHANGED verdict
            /\ signed' = [alg \in Algorithms |->
                 LET key == IF alg = "ed25519" THEN "e1" ELSE "m1"
                 IN CASE answer = "sound" -> SignedBy(key, handle.man)
                      [] answer = "other" -> SignedBy(key, [handle.man EXCEPT !.artifacts = <<>>])
                      [] OTHER -> [SignedBy(key, handle.man) EXCEPT !.framed = alg = "ed25519"]]
    /\ UNCHANGED <<case, job1, handle, directory, reading, outcome, used, edits, touched>>

Container(h, s) == [manifest |-> h.man, archive |-> h.arc, signed |-> s, framed |-> TRUE]

\* What the configured limit leaves beside the prepared archive.
FinalizeBudget(h, lim) == lim.disk - ArchiveLen(h.arc)

\* rehash: what is retained, again, before anything is made of it.
Rehash(h, b) ==
    FirstOf(<<IF h.man = b.manifest_sha256 THEN "ok" ELSE "manifest_sha256",
              IF ManifestLen(h.man) = b.manifest_length THEN "ok" ELSE "manifest_length",
              IF h.arc = b.archive_sha256 THEN "ok" ELSE "archive_sha256",
              IF ArchiveLen(h.arc) = b.archive_length THEN "ok" ELSE "archive_length">>)

\* The binding, the request, the rehash, the framing, the budget, the assembly
\* under the package limit, and the whole verification.
FinalizeVerdict(h, s, trust, req, arch, lim) ==
    LET c == Container(h, s)
        room == FinalizeBudget(h, lim)
        early ==
            FirstOf(<<FirstDifference(h.binding, Expected), RequestDifference(Expected, req, arch),
                      Rehash(h, Expected),
                      IF \A alg \in Algorithms : s[alg].framed THEN "ok" ELSE "Payload",
                      IF room < 0 THEN "RetainedDisk" ELSE "ok">>)
    IN IF early # "ok" THEN early
       ELSE FirstOf(<<Pass(ContainerLen(c), <<<<"Package", lim.package>>, <<"RetainedDisk", room>>>>),
                      VerifyRetained(c, trust, req, arch, lim, room - ContainerLen(c))>>)

Finalize ==
    /\ pc = "signed"
    /\ LET v == FinalizeVerdict(handle, signed, ask.trust, ask.req, ask.arch, ask.lim)
           c == Container(handle, signed)
       IN /\ Continue(v, "finalized")
          /\ IF v # "ok" THEN UNCHANGED <<final, used>>
             ELSE /\ final' = c
                  /\ used' = [n |-> 2 * ArchiveLen(c.archive) + ContainerLen(c) + Unpacked(c.archive),
                              limit |-> ask.lim.disk]
    /\ UNCHANGED <<case, phase, job1, handle, directory, reading, signed, published, delivered,
                   edits, touched>>

\* publish_package: a copy beside the container and its extracted members.
Publish ==
    /\ pc = "finalized"
    /\ phase' = "publish"
    /\ LET held == ContainerLen(final) + Unpacked(final.archive)
           v == Pass(ContainerLen(final), <<<<"RetainedDisk", FinalizeBudget(handle, ask.lim) - held>>>>)
       IN /\ Continue(v, "published")
          /\ IF v # "ok" THEN UNCHANGED <<published, used>>
             ELSE /\ published' = final
                  /\ used' = [n |-> ArchiveLen(handle.arc) + held + ContainerLen(final), limit |-> ask.lim.disk]
    /\ UNCHANGED <<case, job1, handle, directory, reading, signed, final, delivered, edits, touched>>

\* A registry is sent the package, or one an unreliable path made of it.
Deliver(c) ==
    /\ pc = "published" /\ delivered = Nothing
    /\ LET first == c.manifest.artifacts[1]
           own == DerivedRequest(first, ask.req.namespace)
       IN delivered' = [upload |-> VerifyUpload(c, ask.trust, ask.req.namespace, ask.lim),
                        whole |-> VerifyContents(c, ask.trust, own, first.arch, ask.lim),
                        reserved |-> first.component = TrustTarget]
    /\ UNCHANGED <<case, pc, phase, verdict, job1, handle, directory, reading, signed, final,
                   published, used, edits, touched>>

DeliveredAs(c) ==
    {c, [c EXCEPT !.framed = FALSE]} \cup {[c EXCEPT !.archive = a] : a \in ArchiveVariants(c.archive)}
    \cup {[c EXCEPT !.manifest = OtherManifest, !.archive = OtherArchive]}
-----------------------------------------------------------------------------
\* Any of a call's system calls may fail.
Fails ==
    /\ pc \notin {"refused", "published"}
    /\ Refuse("Io")
    /\ UNCHANGED <<case, phase, job1, handle, directory, reading, signed, outcome, used, edits, touched>>

Init ==
    /\ case \in Cases
    /\ pc = "start" /\ phase = "prepare" /\ verdict = "ok"
    /\ source = case.source /\ snaps = <<>> /\ man = Nothing /\ arc = Nothing
    /\ binding = Nothing /\ handle = Nothing
    /\ names = [f \in FileNames |-> 0] /\ inode = [i \in Inodes |-> Empty] /\ place = "none"
    /\ seen = 0 /\ opened = [f \in FileNames |-> 0]
    /\ signed = Nothing /\ final = Nothing /\ published = Nothing /\ delivered = Nothing
    /\ used = [n |-> 0, limit |-> case.lim.disk] /\ edits = 0 /\ touched = FALSE

Preparing == Begin \/ StageInput \/ BuildManifest \/ BuildArchive \/ Bind
Reopening ==
    \/ ReopenRequest \/ OpenDirectory \/ StatFile \/ OpenFile \/ ReadRecord
    \/ CopyManifest \/ CopyArchive \/ Revalidate

Next ==
    \/ Preparing \/ \E i \in DOMAIN source, b \in Blobs : EditSource(i, b)
    \/ Persist \/ Forget \/ Reopening \/ Meddling
    \/ \E answer \in {"sound", "other", "short", "fails"} : Sign(answer)
    \/ Finalize \/ Publish \/ (pc = "published" /\ \E c \in DeliveredAs(published) : Deliver(c))
    \/ Fails

Spec == Init /\ [][Next]_vars
-----------------------------------------------------------------------------
\* A manifest describes an archive: a member for every artifact and no other,
\* each once, under a name that may be extracted, with the bytes of its digest,
\* in the order and of the lengths the manifest binds, and nothing behind them.
Describes(m, a) ==
    /\ ~a.trailing /\ SameMembers(m, a)
    /\ Listed(m) = {a.members[i].path : i \in DOMAIN a.members}
    /\ \A i, j \in DOMAIN a.members : a.members[i].path = a.members[j].path => i = j
    /\ \A i \in DOMAIN a.members :
         /\ a.members[i].plain /\ a.members[i].path \notin UnsafePaths
         /\ a.members[i].blob = ArtifactAt(m, a.members[i].path).sha

\* A prepared package holds exactly the bytes its binding names, and its
\* manifest describes its archive member for member, whatever was done to the
\* sources while they were staged and to the directory before, between and
\* after the opens; and so does the container made of it, which carries what
\* the caller expected (reopen_prepared, finalize_package).
HandleIsBound ==
    /\ pc \in {"prepared", "persisted", "signed", "finalized", "published"} =>
         /\ handle.man = handle.binding.manifest_sha256
         /\ handle.arc = handle.binding.archive_sha256
         /\ Describes(handle.man, handle.arc)
    /\ pc \in {"finalized", "published"} =>
         /\ final.manifest = Expected.manifest_sha256 /\ final.archive = Expected.archive_sha256
         /\ RequestDifference(Expected, ask.req, ask.arch) = "ok"

\* Nothing about the job changed on the way: the same binding, request and
\* limits, a directory nobody altered, a trust set that takes the signer.
Honest ==
    /\ ~touched /\ ask.expected = "own" /\ ask.req = case.req /\ ask.arch = case.arch
    /\ ask.lim = case.lim /\ verdict \notin {"Io", "Signer"}
    /\ (phase = "finalize" /\ signed # Nothing) =>
         /\ \A alg \in Algorithms : signed[alg].framed /\ signed[alg].over = handle.man
         /\ VerifyPackage(Envelope(Container(handle, signed)), ask.trust, ask.req) = "ok"

\* Disk is the one limit that matters after preparation, and it is one limit.
\* What was prepared is refused later only for the disk the later call needs on
\* top: no other limit is left to be met after the signature, and a directory
\* that was persisted reopens (build_manifest, build_archive, persist,
\* parse_record, assemble).  And no call holds more disk than its caller's
\* limit, though finalize_package keeps the prepared archive, the container, a
\* copy of its archive and the members at once, under two scopes
\* (FinalizeBudget).
LateRefusalIsDisk ==
    /\ (pc = "refused" /\ phase # "prepare" /\ Honest) => (verdict = "RetainedDisk" /\ phase # "reopen")
    /\ used.n <= used.limit

\* A registry that reserves upload_staging_bound for a package, and knows only
\* what it carries, takes exactly what verify_contents takes for that build
\* with the whole disk limit (upload_contents).
UploadAgrees ==
    delivered # Nothing =>
        ((delivered.upload = "ok") <=> (delivered.whole = "ok" /\ ~delivered.reserved))

Images(m) == {m.artifacts[i] : i \in {j \in DOMAIN m.artifacts : m.artifacts[j].image # NoImage}}

\* Of the images a manifest lists, what those before the i-th decode to.
DecodedBefore(m, i) ==
    SumOf([j \in 1..(i - 1) |-> IF m.artifacts[j].image = NoImage THEN 0
                                ELSE Needs(m.artifacts[j].sha.tar, m.artifacts[j].image).DecodedLayersPerImage])

\* An image in a package is the one its entry declares: the tags, config,
\* platform, layers and spelling of a sound archive and nothing more.  What
\* refuses a declared image is a limit it really exceeds, the one on decoded
\* layers being shared by the images of the package; no image reaches the gzip
\* decoder; and the order of the archive's members is nothing to the verdict
\* (validate_image_archive, check_contents).
ImagesAreDeclared ==
    /\ pc = "validate" =>
         \A i \in DOMAIN man.artifacts :
            (man.artifacts[i].image # NoImage /\ \A j \in 1..(i - 1) : ImageVerdict(man, j, lim1) = "ok") =>
                Agrees(man.artifacts[i].sha.tar, man.artifacts[i].image, lim1.image,
                       lim1.layers - DecodedBefore(man, i), ImageVerdict(man, i, lim1))
    /\ pc = "prepared" => \A a \in Images(handle.man) : IsDeclaredImage(a.sha.tar, a.image, lim1.image)

\* Whatever another tar reader prefers, a GNU long name or a pax record, the
\* first or the last of two, and whether it looks past the end mark, it finds
\* in an accepted image and in its layers the entries, names, links and data
\* the walker admitted (advance, Pending::record, parse_pax, finish_tail).
ReadersAgree ==
    pc = "prepared" =>
        \A a \in Images(handle.man) :
            LET admitted == WalkImage(a.sha.tar, lim1.image).entries
                layers == Range(a.image.config[1].diff_ids)
            IN \A r \in Readers :
                /\ ReadWith(a.sha.tar, r).entries =
                     [i \in DOMAIN admitted |-> InImage(a.sha.tar, admitted[i])]
                /\ \A l \in layers : ReadWith(l, r).entries = Admitted(l, lim1.image)
=============================================================================
