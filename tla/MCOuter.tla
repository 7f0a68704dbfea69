------------------------------- MODULE MCOuter -------------------------------
(***************************************************************************)
(* Streams for the two readers of the outer archive.  Compressed: frames   *)
(* with windows on both sides of the limit, each way of stating one, and   *)
(* every kind of block and trailer, alone and after another frame, cut     *)
(* anywhere.  Decoded: members and extension records on both sides of      *)
(* every allowance, PAX bodies of every two lines, archives cut anywhere,  *)
(* and endings with more than the marker.                                  *)
(***************************************************************************)
EXTENDS OuterWalk, WindowGuard

BlockOf(type, size, last) == [type |-> type, size |-> size, last |-> last]
OneBlock == <<BlockOf(0, 2, TRUE)>>
Standard(magic, d, fields, window, blocks) ==
    [kind |-> "standard", magic |-> magic, d |-> d, fields |-> fields, window |-> window, blocks |-> blocks]
Skippable(low, n) == [kind |-> "skippable", magic |-> <<low>> \o SkippableHigh, len |-> n]

\* Descriptors: a window byte; with a dictionary id and a content size; one
\* segment with a content size of one, two and four bytes.
Windowed(byte, window, blocks) == Standard(FrameMagic, 0, <<byte>>, window, blocks)
Frames ==
    {Windowed(0, 1024, OneBlock), Windowed(1, 1152, OneBlock), Windowed(8, 2048, OneBlock),
     Standard(FrameMagic, 65, <<0, 9, 7, 7>>, 1024, OneBlock),
     Standard(FrameMagic, 65, <<1, 0, 0, 0>>, 1152, OneBlock),
     Standard(FrameMagic, 32, <<255>>, 255, OneBlock),
     Standard(FrameMagic, 96, <<0, 3>>, 1024, OneBlock),
     Standard(FrameMagic, 96, <<1, 3>>, 1025, OneBlock),
     Standard(FrameMagic, 162, <<9, 9, 0, 4, 0, 0>>, 1024, OneBlock),
     Standard(FrameMagic, 162, <<0, 0, 1, 4, 0, 0>>, 1025, OneBlock),
     Standard(FrameMagic, 4, <<0>>, 1024, <<BlockOf(2, 1, FALSE), BlockOf(1, 9, TRUE)>>),
     Windowed(0, 1024, <<BlockOf(0, 0, TRUE)>>),
     Windowed(0, 1024, <<BlockOf(0, 1, FALSE), BlockOf(3, 0, TRUE)>>),
     Standard(FrameMagic, 8, <<0>>, 1024, OneBlock),
     Standard(<<39, 181, 47, 253>>, 0, <<0>>, 1024, OneBlock),
     Skippable(80, 0), Skippable(95, 3)}
FirstFrames == {f \in Frames : FrameFault(f) = NoFault}
MCSources ==
    {[frames |-> fs, cut |-> Len(Encoded(fs))] : fs \in {<<f, g>> : f \in FirstFrames, g \in Frames}}
    \cup UNION {{[frames |-> <<f>>, cut |-> c] : c \in 0..Len(Encoded(<<f>>))} : f \in Frames}
-----------------------------------------------------------------------------
Val(s) == Cell("val", 0, s)
Num(n) == Cell("num", n, "")
Line(len, key, value) == <<Num(len), Cell("sp", 0, ""), Cell("key", 0, key), Cell("eq", 0, ""), value, Cell("nl", 0, "")>>
PaxLines ==
    {Line(6, "path", Val("a")), Line(6, "path", Val("z")), Line(5, "path", Val("z")), Line(9, "path", Val("z")),
     Line(6, "size", Num(1)), Line(6, "size", Num(3)), Line(6, "size", Val("a")), Line(9, "size", Num(3)),
     Line(6, "mtime", Num(3)), <<Cell("nl", 0, "")>>, <<Val("a"), Cell("nl", 0, "")>>,
     <<Num(4), Cell("sp", 0, ""), Cell("eq", 0, ""), Cell("nl", 0, "")>>}
PaxBodies ==
    {<<>>} \cup PaxLines \cup {a \o b : a \in PaxLines, b \in PaxLines}
    \cup {a \o b \o Line(6, "mtime", Num(3)) : a \in PaxLines, b \in PaxLines}
    \cup {SubSeq(a, 1, Len(a) - 1) : a \in PaxLines}
    \cup {a \o SubSeq(b, 1, Len(b) - 1) : a \in {Line(6, "mtime", Num(3))}, b \in PaxLines}

Entry(type, name, body) == [head |-> Cell(type, Len(body), name), body |-> body]
Data(n) == [i \in 1..n |-> DataCell]
FileOf(name, n) == Entry("file", name, Data(n))
Record(type, body) == Entry(type, "r", body)
Marker == ZeroCells(2 * BlockLen)

Manifest == [a |-> Data(1)]
Tarball(entries, end, cut, manifest, bound, members, total) ==
    [entries |-> entries, end |-> end, cut |-> cut, manifest |-> manifest, bound |-> bound,
     members |-> members, total |-> total]
Whole(entries, members) ==
    Tarball(entries, Marker, Len(Written(entries)) + Len(Marker), Manifest, <<"a">>, members, 4)

A1 == FileOf("a", 1)
Names(n) == [i \in 1..n |-> Val(IF i = 1 THEN "a" ELSE "x")]
Preambles ==
    {<<Record("pax", body)>> : body \in PaxBodies}
    \cup {<<Record(k, Names(n))>> : k \in {"longname", "longlink", "alien"}, n \in {0, 1, 3, 6, 8, 9, 10, 12}}
    \cup {<<Entry("longname", "a", Names(n))>> : n \in {1, 8}}
    \cup {<<Record(k, Names(2)), Record(l, Names(n))>> : k \in {"longname", "longlink"},
            l \in {"longname", "longlink", "pax"}, n \in {2, 4, 6}}

TwoFiles == [a |-> Data(2), b |-> Data(3)]
TwoOf == <<FileOf("a", 2), FileOf("b", 3)>>
Records == {Whole(p \o <<A1>>, m) : p \in Preambles, m \in {1, 2}}
Members ==
    {Tarball(es, Marker, Len(Written(es)) + Len(Marker), TwoFiles, bound, m, total) :
        es \in {TwoOf, <<FileOf("b", 3), FileOf("a", 2)>>, <<FileOf("a", 2)>>, <<FileOf("a", 2), FileOf("a", 2)>>,
                <<FileOf("a", 3)>>, <<FileOf("c", 1)>>, <<FileOf("..", 1)>>, <<Entry("link", "a", <<>>)>>,
                <<Entry("garbled", "a", <<>>)>>, <<Record("longname", Names(1))>>, <<>>},
        bound \in {<<"a", "b">>, <<"a">>}, m \in 0..2, total \in 3..6}
CutAnywhere(whole) ==
    {[whole EXCEPT !.cut = c] : c \in 0..whole.cut}
Cuts ==
    UNION {CutAnywhere(Tarball(es, Marker, Len(Written(es)) + Len(Marker), TwoFiles, <<"a", "b">>, 2, 6)) :
            es \in {TwoOf, <<Record("pax", Line(6, "path", Val("a")))>> \o TwoOf}}
    \cup UNION {CutAnywhere(Whole(<<Record("pax", body), A1>>, 1)) :
            body \in {Line(6, "mtime", Num(3)) \o Line(6, "path", Val("z")),
                      Line(6, "size", Num(3)) \o Line(9, "path", Val("z"))}}
    \cup CutAnywhere(Whole(<<FileOf("a", 3)>>, 1))
Endings ==
    {LET es == p \o <<A1>>
         end == ZeroCells(n) \o stray
     IN Tarball(es, end, Len(Written(es)) + Len(end), Manifest, <<"a">>, m, 4) :
        p \in {<<>>} \cup {<<Record("longlink", Names(k))>> : k \in {1, 3}},
        n \in {2, 3, 4, 5, 6, 8, 9, 10}, stray \in {<<>>, <<DataCell>>, <<DataCell, DataCell>>}, m \in {1, 2}}
MCArchives == Records \cup Members \cup Cuts \cup Endings
=============================================================================
