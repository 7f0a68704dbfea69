------------------------------ MODULE OuterWalk ------------------------------
(***************************************************************************)
(* The bounded walk over a package's decoded archive, read by read:        *)
(* walk_entries, Meter and OuterCounters of src/src/payload/outer.rs, the  *)
(* structure Framing follows beneath the archive reader, and the scan of   *)
(* an extension record too large for the framing allowance, all of         *)
(* src/src/payload/outer/framing.rs.                                       *)
(*                                                                         *)
(* The stream is a sequence of cells, BlockLen to a tar block.  The last   *)
(* cell of a header block carries the header; a body's cells are data, the *)
(* characters of a long name, or the parts of PAX lines, where a number, a *)
(* key and a character of a value are one cell each.  A read asks for what *)
(* its caller has left to read and returns any part of it.                 *)
(***************************************************************************)
EXTENDS Integers, Sequences, FiniteSets, SequencesExt

CONSTANTS
    Archives,      \* records: entries, end, cut, and the walk's manifest and limits
    BlockLen,      \* cells in a tar block
    ReadMax,       \* limits.copy_buffer, in cells
    NameMax,       \* REPORTED_NAME_MAX, in cells
    UnsafeNames    \* names is_safe_archive_path refuses

ASSUME WalkAssumption ==
    {BlockLen, ReadMax, NameMax} \subseteq Nat \ {0}

VARIABLES
    tarball,    \* the archive behind the stream
    cells,      \* the decoded stream
    at,         \* cells read
    walk,       \* the archive reader and walk_entries over it
    framing,    \* Framing: what it is in, what it holds of a header, what is left
    spent,      \* OuterCounters: member cells and framing cells read
    result      \* "none", or the walk's verdict

walkVars == <<tarball, cells, at, walk, framing, spent, result>>
-----------------------------------------------------------------------------
(* Cells *)

Cell(t, n, s) == [t |-> t, n |-> n, s |-> s]
ZeroCell == Cell("zero", 0, "")
DataCell == Cell("data", 0, "")
HeaderTypes == {"file", "longname", "longlink", "pax", "alien", "link", "garbled"}
Padded(n) == ((n + BlockLen - 1) \div BlockLen) * BlockLen

\* The header a block holds: its type, size and name.
HeaderOf(block) ==
    IF \A i \in DOMAIN block : block[i] = ZeroCell THEN Cell("zero", 0, "")
    ELSE IF Last(block).t \in HeaderTypes THEN Last(block) ELSE Cell("garbled", 0, "")
-----------------------------------------------------------------------------
(* A PAX body *)

\* A number as Decimal reads it: not begun, not a number, or its value.
Unread == -1
NotANumber == -2
Push(decimal, c) == IF decimal = Unread /\ c.t = "num" THEN c.n ELSE NotANumber

FreshLine(path, size) ==
    [part |-> "length", seen |-> 0, length |-> Unread, key |-> "", value |-> Unread,
     path |-> path, size |-> size, ended |-> FALSE]
NewPax == FreshLine("open", "open")

WellFormed(x) == x.part = "value" /\ x.length = x.seen + 1

\* end_line: the first good line keyed path names the member; the first line
\* keyed size sizes it, unless a bad line came before.
EndLine(x) ==
    LET good == WellFormed(x)
        path == IF x.path # "candidate" THEN x.path ELSE IF good THEN "found" ELSE "open"
        size == IF x.size # "open" \/ (good /\ x.key # "size") THEN x.size
                ELSE IF good /\ x.value >= 0 THEN "found" ELSE "closed"
    IN IF x.seen = 0 THEN [x EXCEPT !.ended = TRUE] ELSE FreshLine(path, size)

\* PaxScan::byte.  A key is what precedes the first '=': one key cell, or some
\* other key.
PaxByte(x, c) ==
    LET y == [x EXCEPT !.seen = @ + 1]
    IN CASE x.ended -> x
         [] ~x.ended /\ c.t = "nl" -> EndLine(x)
         [] ~x.ended /\ c.t # "nl" ->
            CASE x.part = "length" /\ c.t = "sp" ->
                    [y EXCEPT !.part = IF x.length >= 0 THEN "key" ELSE "malformed"]
              [] x.part = "length" /\ c.t # "sp" -> [y EXCEPT !.length = Push(@, c)]
              [] x.part = "key" /\ c.t = "eq" ->
                    [y EXCEPT !.part = "value",
                              !.path = IF x.key = "path" /\ @ = "open" THEN "candidate" ELSE @]
              [] x.part = "key" /\ c.t # "eq" ->
                    [y EXCEPT !.key = IF @ = "" /\ c.t = "key" THEN c.s ELSE "other"]
              [] x.part = "value" -> [y EXCEPT !.value = Push(@, c)]
              [] x.part = "malformed" -> y

\* PaxScan::finish: at the record's end, whose last line needs no newline, or
\* where the allowance or the stream stopped the scan, where a path line its
\* length does not contradict counts as found.
PaxFinish(x, whole) ==
    LET plausible == x.part = "value" /\ x.length >= x.seen + 1
    IN IF x.ended \/ x.path = "found" THEN x
       ELSE IF whole THEN IF x.seen > 0 THEN EndLine(x) ELSE x
       ELSE IF x.path = "candidate" /\ plausible THEN [x EXCEPT !.path = "found"] ELSE x
-----------------------------------------------------------------------------
(* Framing *)

\* framing_allowance: a header and a block of padding for every slot.
FramingAllowance(members) == (members + 2) * 2 * BlockLen

InHeader == [state |-> "header", block |-> <<>>, left |-> 0, kind |-> "", name |-> 0, pax |-> NewPax]
SkipState(n) == IF n = 0 THEN InHeader ELSE [InHeader EXCEPT !.state = "skip", !.left = n]
Untracked == [InHeader EXCEPT !.state = "untracked"]
NewScan(h) == [InHeader EXCEPT !.state = "scan", !.left = h.n, !.kind = h.t]

TarExtensions == {"longname", "longlink", "pax"}

\* Mutant: room for the record, and none for the header of the member it is for.
AfterHeaderTight(block, room) ==
    LET h == HeaderOf(block)
    IN CASE h.t = "file" -> SkipState(Padded(h.n))
         [] h.t \in TarExtensions -> IF Padded(h.n) <= room THEN SkipState(Padded(h.n)) ELSE NewScan(h)
         [] OTHER -> Untracked

\* after_header.
AfterHeader(block, room) ==
    LET h == HeaderOf(block)
    IN CASE h.t = "file" -> SkipState(Padded(h.n))
         [] h.t \in TarExtensions ->
                IF Padded(h.n) + BlockLen <= room THEN SkipState(Padded(h.n)) ELSE NewScan(h)
         [] OTHER -> Untracked

\* ExtensionScan::feed, one cell.
Feed(f, c) ==
    IF f.left = 0 THEN f
    ELSE [f EXCEPT !.left = @ - 1,
                   !.name = IF f.kind = "longname" /\ @ < NameMax THEN @ + 1 ELSE @,
                   !.pax = IF f.kind = "pax" THEN PaxByte(@, c) ELSE @]

\* Framing::step, one cell with room left before it.
FrameCell(f, c, room) ==
    CASE f.state = "header" ->
            LET block == Append(f.block, c)
            IN IF Len(block) < BlockLen THEN [f EXCEPT !.block = block] ELSE AfterHeader(block, room - 1)
      [] f.state = "skip" -> SkipState(f.left - 1)
      [] f.state = "scan" -> Feed(f, c)
      [] f.state = "untracked" -> f

\* Framing::advance.
FollowFraming(f, input, room) ==
    FoldLeftDomain(LAMBDA g, i : FrameCell(g, input[i], room - (i - 1)), f, input)

\* ExtensionScan::decided and Framing::wanted.
Decided(f) ==
    \/ f.left = 0
    \/ f.kind = "longlink"
    \/ f.kind = "longname" /\ f.name >= NameMax
    \/ f.kind = "pax" /\ (f.pax.path = "found" \/ f.pax.ended)
Wanted(f) == IF Decided(f) THEN 0 ELSE f.left

\* ExtensionScan::conclude and stream_error: what the record overrides.
Conclude(f) ==
    LET x == PaxFinish(f.pax, f.left = 0)
    IN CASE f.kind = "longlink" -> "UnsupportedEntryType"
         [] f.kind = "longname" -> "NameOverridingHeader"
         [] f.kind = "pax" -> IF x.path = "found" THEN "NameOverridingHeader"
                              ELSE IF x.size = "found" THEN "SizeOverridingHeader" ELSE "Io"
-----------------------------------------------------------------------------
(* The archive reader *)

\* What it finds in the extension records before an entry: lines of a PAX body
\* up to the first empty one, each good if its length counts it.
LineStarts(body) == {i \in 1..(Len(body) + 1) : i = 1 \/ body[i - 1].t = "nl"}
LineEnd(body, i) == CHOOSE e \in i..(Len(body) + 1) :
                        /\ e = Len(body) + 1 \/ body[e].t = "nl"
                        /\ \A k \in i..(e - 1) : body[k].t # "nl"
LineKey(body, i) == IF body[i + 2].t = "key" /\ body[i + 3].t = "eq" THEN body[i + 2].s ELSE "other"
GoodLine(body, i) ==
    LET e == LineEnd(body, i)
    IN /\ e >= i + 3
       /\ body[i].t = "num" /\ body[i].n = e - i + 1 /\ body[i + 1].t = "sp"
       /\ \E k \in (i + 2)..(e - 1) : body[k].t = "eq"
ReadLines(body) ==
    {i \in LineStarts(body) : \A k \in LineStarts(body) : k <= i => LineEnd(body, k) > k}
KeyedLines(body, key) == {i \in ReadLines(body) : GoodLine(body, i) /\ LineKey(body, i) = key}
Earliest(lines) == CHOOSE i \in lines : \A k \in lines : i <= k

NoName == "-"
NamedPath(body) ==
    IF KeyedLines(body, "path") = {} THEN NoName
    ELSE LET v == Earliest(KeyedLines(body, "path")) + 4
         IN IF v <= Len(body) THEN body[v].s ELSE ""
StatedSize(body) ==
    LET sized == KeyedLines(body, "size")
        i == Earliest(sized)
    IN IF sized = {} \/ \E k \in ReadLines(body) : k < i /\ ~GoodLine(body, k) THEN Unread
       ELSE IF LineEnd(body, i) = i + 5 /\ body[i + 4].t = "num" THEN body[i + 4].n ELSE Unread

BodyOf(pending, kind) == (CHOOSE r \in pending : r.kind = kind).body
HasPending(pending, kind) == \E r \in pending : r.kind = kind

ResolvedName(h, pending) ==
    IF HasPending(pending, "longname")
    THEN IF BodyOf(pending, "longname") = <<>> THEN "" ELSE BodyOf(pending, "longname")[1].s
    ELSE IF HasPending(pending, "pax") /\ NamedPath(BodyOf(pending, "pax")) # NoName
         THEN NamedPath(BodyOf(pending, "pax")) ELSE h.s
ResolvedSize(h, pending) ==
    IF HasPending(pending, "pax") /\ StatedSize(BodyOf(pending, "pax")) # Unread
    THEN StatedSize(BodyOf(pending, "pax")) ELSE h.n
-----------------------------------------------------------------------------
(* walk_entries *)

\* What an entry is refused for before its data is read: the count of members,
\* admitted_member_path, the manifest, a second of its name.
EntryVerdict(h, pending, names, t) ==
    IF Len(names) >= t.members THEN "OuterMembers"
    ELSE IF h.t # "file" THEN "UnsupportedEntryType"
    ELSE IF ResolvedName(h, pending) # h.s THEN "NameOverridingHeader"
    ELSE IF ResolvedSize(h, pending) # h.n THEN "SizeOverridingHeader"
    ELSE IF h.s \in UnsafeNames THEN "UnsafeMemberPath"
    ELSE IF h.s \notin DOMAIN t.manifest THEN "MemberNotInManifest"
    ELSE IF \E i \in DOMAIN names : names[i] = h.s THEN "DuplicateMember"
    ELSE "ok"

\* The checks after the walk: what is missing, and the bound list.
FinalVerdict(names, t) ==
    IF DOMAIN t.manifest \ ToSet(names) # {} THEN "ArtifactMissingFromArchive"
    ELSE IF names # t.bound THEN "MemberListMismatch" ELSE "ok"

Reading(op, left, w) == [w EXCEPT !.op = op, !.left = left, !.got = <<>>]
NextHeader(w) == Reading("header", BlockLen, w)
SkipThen(w, n) == IF n = 0 THEN NextHeader(w) ELSE Reading("skip", n, w)
Ending(w, verdict) == [w EXCEPT !.verdict = verdict]
Padding(n) == Padded(n) - n

\* A body read to its end, or to the end of the stream.
Closed(w) ==
    LET rest == w.left + Padding(w.head.n)
    IN IF w.op = "body"
       THEN SkipThen([w EXCEPT !.pending = @ \cup {[kind |-> w.head.t, body |-> w.got]}], rest)
       ELSE IF w.got # tarball.manifest[w.head.s] THEN Ending(w, "HashMismatch")
       ELSE SkipThen([w EXCEPT !.walked = Append(@, w.head.s), !.pending = {}], rest)

\* No entry follows: an error if records were read for one.
Exhausted(w) ==
    IF w.pending # {} THEN Ending(w, "Io") ELSE Reading("tail", BlockLen, w)

Opened(w, h) ==
    LET v == EntryVerdict(h, w.pending, w.walked, tarball)
        op == IF h.t \in TarExtensions THEN "body" ELSE "data"
        open == Reading(op, h.n, [w EXCEPT !.head = h])
    IN IF h.t = "zero" THEN Exhausted(w)
       ELSE IF h.t = "garbled" \/ (op = "body" /\ HasPending(w.pending, h.t)) THEN Ending(w, "Io")
       ELSE IF op = "data" /\ v # "ok" THEN Ending(w, v)
       ELSE IF h.n = 0 THEN Closed(open) ELSE open

\* reject_trailing_bytes.
Trailing(w) ==
    IF Len(w.got) > BlockLen \/ \E i \in DOMAIN w.got : w.got[i] # ZeroCell
    THEN Ending(w, "TrailingArchiveBytes") ELSE w

\* The reader, handed a part of what it asked for.
Received(w, input) ==
    LET v == [w EXCEPT !.got = @ \o input, !.left = IF w.op = "tail" THEN @ ELSE @ - Len(input)]
    IN CASE w.op = "tail" -> Trailing(v)
         [] w.op # "tail" /\ v.left > 0 -> v
         [] v.left = 0 /\ w.op = "header" -> Opened(v, HeaderOf(v.got))
         [] v.left = 0 /\ w.op \in {"body", "data"} -> Closed(v)
         [] v.left = 0 /\ w.op = "skip" -> NextHeader(v)

\* The reader, told the stream has ended.
EndOfStream(w) ==
    CASE w.op = "tail" -> Ending(w, FinalVerdict(w.walked, tarball))
      [] w.op = "header" /\ w.got = <<>> -> Exhausted(w)
      [] w.op \in {"body", "data"} -> Closed(w)
      [] w.op = "skip" \/ (w.op = "header" /\ w.got # <<>>) -> Ending(w, "Io")
-----------------------------------------------------------------------------
(* Meter *)

HeaderCells(h) == [i \in 1..BlockLen |-> IF i = BlockLen THEN h ELSE Cell("pad", 0, "")]
ZeroCells(n) == [i \in 1..n |-> ZeroCell]
EntryCells(e) == HeaderCells(e.head) \o e.body \o ZeroCells(Padding(e.head.n))
Written(entries) == FlattenSeq([i \in DOMAIN entries |-> EntryCells(entries[i])])

WalkInit ==
    /\ tarball \in Archives
    /\ cells = SubSeq(Written(tarball.entries) \o tarball.end, 1, tarball.cut)
    /\ at = 0
    /\ walk = [op |-> "header", left |-> BlockLen, got |-> <<>>, head |-> ZeroCell,
               pending |-> {}, walked |-> <<>>, verdict |-> "none"]
    /\ framing = InHeader
    /\ spent = [member |-> 0, framing |-> 0]
    /\ result = "none"

FramingRoom == FramingAllowance(tarball.members) - spent.framing
InMember == walk.op = "data"
Allowance == IF InMember THEN tarball.total - spent.member ELSE FramingRoom
Charge(n) == spent' = IF InMember THEN [spent EXCEPT !.member = @ + n]
                      ELSE [spent EXCEPT !.framing = @ + n]

Unanswered == result = "none" /\ walk.verdict = "none"

\* A read of the meter asks for no more than the copy buffer and one cell past
\* the allowance, and gets any part of it.
MayReturn(n) ==
    /\ n <= walk.left /\ n <= ReadMax /\ n <= Allowance + 1
    /\ at + n <= Len(cells)

MeterRead(n) ==
    /\ Unanswered /\ framing.state # "scan"
    /\ MayReturn(n) /\ n <= Allowance
    /\ LET input == SubSeq(cells, at + 1, at + n)
       IN /\ framing' = FollowFraming(framing, input, FramingRoom)
          /\ walk' = Received(walk, input)
    /\ Charge(n)
    /\ at' = at + n
    /\ UNCHANGED <<tarball, cells, result>>

\* The cell past the allowance arrived.
MeterExceeded(n) ==
    /\ Unanswered /\ framing.state # "scan"
    /\ MayReturn(n) /\ n > Allowance
    /\ result' = IF InMember THEN "OuterUncompressedTotal" ELSE "Io"
    /\ UNCHANGED <<tarball, cells, at, walk, framing, spent>>

MeterEnd ==
    /\ Unanswered /\ framing.state # "scan"
    /\ at = Len(cells)
    /\ walk' = EndOfStream(walk)
    /\ UNCHANGED <<tarball, cells, at, framing, spent, result>>

\* refuse_extension: the record's own reads, then its refusal.
ScanWindow == {Wanted(framing), FramingRoom, Len(cells) - at}

ScanRead(n) ==
    /\ Unanswered /\ framing.state = "scan"
    /\ n <= ReadMax /\ \A most \in ScanWindow : n <= most
    /\ framing' = FoldLeft(Feed, framing, SubSeq(cells, at + 1, at + n))
    /\ spent' = [spent EXCEPT !.framing = @ + n]
    /\ at' = at + n
    /\ UNCHANGED <<tarball, cells, walk, result>>

ScanRefuses ==
    /\ Unanswered /\ framing.state = "scan"
    /\ 0 \in ScanWindow
    /\ result' = Conclude(framing)
    /\ UNCHANGED <<tarball, cells, at, walk, framing, spent>>

\* walk_outer returns the walk's own verdict.
WalkReturns ==
    /\ result = "none" /\ walk.verdict # "none"
    /\ result' = walk.verdict
    /\ UNCHANGED <<tarball, cells, at, walk, framing, spent>>

WalkNext ==
    \/ \E n \in 1..ReadMax : MeterRead(n) \/ MeterExceeded(n) \/ ScanRead(n)
    \/ MeterEnd
    \/ ScanRefuses
    \/ WalkReturns
-----------------------------------------------------------------------------
(* What the walk promises, from the archive as it was written and never from
   the reads: the first entry it cannot admit, then the end of the archive. *)

Total(entries, f(_)) == FoldLeft(LAMBDA sum, e : sum + f(e), 0, entries)
IsFile(e) == e.head.t \notin TarExtensions
CellsOf(e) == BlockLen + Padded(e.head.n)
FramingOf(e) == IF IsFile(e) THEN BlockLen + Padding(e.head.n) ELSE CellsOf(e)
DataOf(e) == IF IsFile(e) THEN e.head.n ELSE 0

Smallest(S) == CHOOSE n \in S : \A k \in S : n <= k

\* The records since the last file before entry i.
RecordsBefore(t, i) ==
    {j \in 1..(i - 1) : ~IsFile(t.entries[j]) /\ \A k \in j..(i - 1) : ~IsFile(t.entries[k])}
PendingAt(t, i) == {[kind |-> t.entries[j].head.t, body |-> t.entries[j].body] : j \in RecordsBefore(t, i)}
NamesBefore(t, i) ==
    [j \in 1..Len(SelectSeq(SubSeq(t.entries, 1, i - 1), IsFile)) |->
        SelectSeq(SubSeq(t.entries, 1, i - 1), IsFile)[j].head.s]

\* A record the allowance does not hold, of which only part was read: the
\* lines it completes, then the one it leaves open.
LastLine(part) == CHOOSE i \in LineStarts(part) : \A k \in LineStarts(part) : k <= i
LeavesPathOpen(part) ==
    LET i == LastLine(part)
    IN /\ i \in ReadLines(part) /\ Len(part) >= i + 3
       /\ part[i].t = "num" /\ part[i + 1].t = "sp" /\ part[i + 2] = Cell("key", 0, "path") /\ part[i + 3].t = "eq"
       /\ part[i].n >= Len(part) - i + 2
Oversized(e, part) ==
    LET whole == Len(part) = e.head.n
        lines == IF whole THEN part ELSE SubSeq(part, 1, LastLine(part) - 1)
    IN CASE e.head.t = "longlink" -> "UnsupportedEntryType"
         [] e.head.t = "longname" -> "NameOverridingHeader"
         [] e.head.t = "pax" ->
                IF NamedPath(lines) # NoName \/ (~whole /\ LeavesPathOpen(part)) THEN "NameOverridingHeader"
                ELSE IF StatedSize(lines) # Unread THEN "SizeOverridingHeader" ELSE "Io"

\* Entry i, its stream ending after cut cells.
EntryRefusal(t, i) ==
    LET e == t.entries[i]
        before == SubSeq(t.entries, 1, i - 1)
        body == Total(before, CellsOf) + BlockLen
        room == FramingAllowance(t.members) - Total(before, FramingOf) - BlockLen
        got == SubSeq(e.body, 1, Smallest({e.head.n, t.cut - body}))
        admitted == EntryVerdict(e.head, PendingAt(t, i), NamesBefore(t, i), t)
    IN CASE t.cut < body \/ room < 0 \/ e.head.t = "garbled" -> "Io"
         [] ~IsFile(e) /\ HasPending(PendingAt(t, i), e.head.t) -> "Io"
         [] ~IsFile(e) /\ Padded(e.head.n) + BlockLen > room ->
                Oversized(e, SubSeq(got, 1, Smallest({Len(got), room})))
         [] IsFile(e) /\ admitted # "ok" -> admitted
         [] IsFile(e) /\ Total(before, DataOf) + Len(got) > t.total -> "OuterUncompressedTotal"
         [] IsFile(e) /\ got # t.manifest[e.head.s] -> "HashMismatch"
         [] t.cut < body + Padded(e.head.n) -> "Io"
         [] IsFile(e) /\ Padding(e.head.n) > room -> "Io"
         [] OTHER -> "ok"

\* After the last entry: the end marker, and what may follow it.
EndRefusals(t) ==
    LET n == Len(t.entries)
        body == Total(t.entries, CellsOf)
        room == FramingAllowance(t.members) - Total(t.entries, FramingOf)
        rest == SubSeq(t.end, 1, t.cut - body)
        tail == SubSeq(rest, BlockLen + 1, Len(rest))
        stray == {k \in DOMAIN tail : k > BlockLen \/ tail[k] # ZeroCell}
        past == room - BlockLen + 1
        final == {FinalVerdict(NamesBefore(t, n + 1), t)}
    IN IF PendingAt(t, n + 1) # {} THEN {"Io"}
       ELSE IF rest = <<>> THEN final
       ELSE IF Len(rest) < BlockLen \/ room < BlockLen THEN {"Io"}
       ELSE IF stray = {} THEN IF past <= Len(tail) THEN {"Io"} ELSE final
       ELSE IF past <= Smallest(stray) THEN {"Io"}
       ELSE IF past <= Len(tail) /\ past - Smallest(stray) < Smallest({BlockLen, ReadMax})
       THEN {"TrailingArchiveBytes", "Io"}
       ELSE {"TrailingArchiveBytes"}

Promised(t) ==
    LET reached == {i \in DOMAIN t.entries : Total(SubSeq(t.entries, 1, i - 1), CellsOf) < t.cut}
        bad == {i \in reached : EntryRefusal(t, i) # "ok"}
    IN IF bad # {} THEN {EntryRefusal(t, Smallest(bad))}
       ELSE IF reached = DOMAIN t.entries THEN EndRefusals(t)
       ELSE LET n == Cardinality(reached)
            IN IF PendingAt(t, n + 1) # {} THEN {"Io"} ELSE {FinalVerdict(NamesBefore(t, n + 1), t)}

\* However the reads fall, the bounded walk answers what the archive deserves:
\* the framing followed beneath the archive reader stays in step with it, so a
\* record is held exactly when its member's header will fit, one that is not
\* is refused for what it overrides as far as the allowance reaches, member
\* data and framing are charged apart, and an archive it admits is one the
\* walk without limits admits.
WalkAgrees ==
    LET roomy == [tarball EXCEPT !.members = 100, !.total = 100]
    IN /\ result # "none" => result \in Promised(tarball)
       /\ result = "ok" => Promised(roomy) = {"ok"}
=============================================================================
