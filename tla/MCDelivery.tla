------------------------------ MODULE MCDelivery ------------------------------
(***************************************************************************)
(* What a package goes through once it has left the release: its file is   *)
(* grafted onto other executables, stacked, stripped, damaged or cut on    *)
(* the way; verify_package reads it; and what it accepts is extracted, by  *)
(* a call that may fail, be killed or lose power, twice.  Beside it, the   *)
(* deliveries of MCPackageVerify, which start behind the container.        *)
(***************************************************************************)
EXTENDS MCPackageVerify, Travel, Extract

CONSTANTS MaxHops

VARIABLE hops   \* changes of the file, which is none in a delivery of MCPackageVerify

vars == <<verifyVars, fileVars, hops, extractVars>>

MCParent == [p \in {"x", "d", "d/x", "d/e", "d/e/y"} |->
               CASE p \in {"x", "d"} -> "." [] p \in {"d/x", "d/e"} -> "d" [] OTHER -> "d/e"]
MCBlockLen == [k \in 3..6 |-> IF k = 5 THEN 2 ELSE 1]

-----------------------------------------------------------------------------
(* The releases: manifests and archives by name. *)

Blob(id) == [id |-> id, len |-> 1, packed |-> 1, tar |-> <<>>]
Entry(path, id) ==
    [path |-> path, component |-> "app", version |-> "v1", commit |-> "c1", image |-> NoImage,
     disposed |-> TRUE, sound |-> TRUE, arch |-> "x86_64", kind |-> "binary", sha |-> Blob(id)]
Manifest(entries) ==
    [artifacts |-> entries, members |-> [i \in DOMAIN entries |-> entries[i].path],
     lengths |-> [i \in DOMAIN entries |-> 1]]
Manifests ==
    [id \in {"m1", "m2", "m3"} |->
        CASE id = "m1" -> Manifest(<<Entry("x", "b1"), Entry("d/e/y", "b2")>>)
          [] id = "m2" -> Manifest(<<Entry("d/e/y", "b4"), Entry("d/x", "b3")>>)
          [] OTHER -> Manifest(<<Entry("d", "b1"), Entry("d/e/y", "b2")>>)]

Sound(path, id) == [path |-> path, blob |-> Blob(id), plain |-> TRUE]
Arc(members, trailing) == [members |-> members, trailing |-> trailing]
ArchivesOf ==
    [id \in DOMAIN Manifests |->
        CASE id = "m1" ->
               {Arc(<<Sound("x", "b1"), Sound("d/e/y", "b2")>>, t) : t \in BOOLEAN}
               \cup {Arc(<<Sound("x", "b1"), Sound("d/e/y", "b3")>>, FALSE),
                     Arc(<<Sound("x", "b1")>>, FALSE),
                     Arc(<<Sound("d/e/y", "b2"), Sound("x", "b1")>>, FALSE),
                     Arc(<<Sound("x", "b1"), [Sound("d/e/y", "b2") EXCEPT !.plain = FALSE]>>, FALSE),
                     Arc(<<Sound("x", "b1"), Sound("x", "b1")>>, FALSE)}
          [] id = "m2" -> {Arc(<<Sound("d/e/y", "b4"), Sound("d/x", "b3")>>, FALSE)}
          [] OTHER -> {Arc(<<Sound("d", "b1"), Sound("d/e/y", "b2")>>, FALSE)}]
Packs == UNION {{[man |-> Manifests[id], arc |-> a] : a \in ArchivesOf[id]} : id \in DOMAIN Manifests}
-----------------------------------------------------------------------------
(* The files. *)

Byte(b) == <<"byte", b>>
ManifestBlock(id) == <<<<"manifest", id>>>>
Unsigned == [k \in 3..6 |-> <<>>]
SignedBy(e, m, id) ==
    [k \in 3..6 |-> CASE k = 3 -> <<<<"sig", <<e, id>>>>>>
                      [] k = 5 -> <<<<"sig", <<m, id>>>>, <<"sig", <<m, id>>>>>>
                      [] OTHER -> <<<<"key", IF k = 4 THEN e ELSE m>>>>]
BlocksOf(id, arc, env) ==
    [k \in Blocks |-> CASE k = 1 -> ManifestBlock(id) [] k = 2 -> <<<<"archive", arc>>>> [] OTHER -> env[k]]
Releases ==
    {BlocksOf("m1", a, SignedBy("e1", "m1", "m1")) : a \in ArchivesOf["m1"]}
    \cup UNION {{BlocksOf(id, a, SignedBy("e1", "m1", id)) : a \in ArchivesOf[id]} : id \in {"m2", "m3"}}
Others ==
    {BlocksOf("m2", CHOOSE a \in ArchivesOf["m2"] : TRUE, env) :
        env \in {Unsigned, SignedBy("e1", "m1", "m1"), SignedBy("stranger", "m1", "m2"),
                 [SignedBy("e1", "m1", "m2") EXCEPT ![6] = <<>>],
                 [SignedBy("e1", "m1", "m2") EXCEPT ![3] = <<>>, ![5] = <<Byte("s")>>]}}
Bases == {<<>>, <<Byte("b")>>, <<Byte("b"), Magic, VersionByte(3)>>}
Old(v, base, tail) == base \o ManifestBlock("m1") \o tail \o Encode(v, FooterFor(Len(base), [k \in Blocks |-> 1]))

\* The tails of files nobody wrote a container into, and of retired ones.
Tails ==
    {<<<<Byte("b")>>, Unaccounted>>,
     <<Encode(2, [i \in 1..12 |-> 0]) \o <<Byte("b")>>, Unaccounted>>,
     <<<<Magic, VersionByte(9)>> \o [i \in 1..4 |-> Byte("b")], Unaccounted>>,
     <<<<Magic, VersionByte(3)>> \o [i \in 1..4 |-> Byte("b")], Unaccounted>>,
     <<<<Magic, VersionByte(9)>> \o [i \in 1..12 |-> Byte("b")], Unaccounted>>}
    \cup {<<Old(v, b, t), Retired>> : v \in {1, 2}, b \in Bases,
            t \in {<<Byte("a")>>,
                   <<Byte("a"), Magic, VersionByte(3)>> \o [i \in 1..6 |-> Byte("a")],
                   <<Byte("a"), Magic, VersionByte(3), Byte("a"), Byte("a")>>}}

ReadPackage(f) ==
    LET foot == FooterOf(f)
        framed == ReadContainerHead(f) = "ok"
        man == Block(f, foot, 1)
        known == framed /\ man \in {ManifestBlock(id) : id \in DOMAIN Manifests}
        id == man[1][2]
        sig(k) == IF ~framed THEN "absent"
                  ELSE CASE BoundedBlock(f, foot, k) = "Absent" -> "absent"
                         [] BoundedBlock(f, foot, k) = "WrongLength" -> "wrong"
                         [] OTHER -> LET b == Block(f, foot, k)
                                     IN IF known /\ (\A i \in DOMAIN b : b[i][1] = "sig" /\ b[i] = b[1])
                                           /\ b[1][2][2] = id
                                        THEN b[1][2][1] ELSE "wrong"
        hint(k) == IF framed /\ BoundedBlock(f, foot, k) = "Present" /\ Block(f, foot, k)[1][1] = "key"
                   THEN Block(f, foot, k)[1][2] ELSE "none"
    IN [framed |-> framed, stage1 |-> known, format |-> 2, decodes |-> known,
        sig |-> [alg \in Algorithms |-> sig(IF alg = "ed25519" THEN 3 ELSE 5)],
        hint |-> [alg \in Algorithms |-> hint(IF alg = "ed25519" THEN 4 ELSE 6)],
        members |-> IF known THEN Manifests[id].members ELSE <<>>,
        artifacts |-> IF known THEN Manifests[id].artifacts ELSE <<>>]

\* What the accepted file has to be extracted: bytes that are no archive
\* decode to none.
PackOf(f) ==
    LET foot == FooterOf(f)
        arc == Block(f, foot, 2)
    IN [man |-> Manifests[Block(f, foot, 1)[1][2]],
        arc |-> IF Len(arc) = 1 /\ arc[1][1] = "archive" THEN arc[1][2] ELSE Arc(<<>>, TRUE)]
-----------------------------------------------------------------------------
Empty == [p \in Paths |-> NoEntry]
Old1 == [Empty EXCEPT !["x"] = FileEntry(Blob("o1"), TRUE)]
DestTrees ==
    {<<Empty, FALSE>>, <<Old1, TRUE>>, <<[Empty EXCEPT !["d"] = FileEntry(Blob("o2"), TRUE)], TRUE>>,
     <<[Old1 EXCEPT !["d"] = Directory, !["d/e"] = Directory, !["d/e/y"] = Directory], TRUE>>}

AppReq == Request("app", "v1", "c1", "none", NoEpoch)
FileInit(f, p) ==
    /\ file = f /\ parts = p /\ hops = 0
    /\ trust = Plain /\ req = AppReq /\ delivery = 2
    /\ pkg = ReadPackage(f) /\ returned = VerifyPackage(ReadPackage(f), Plain, AppReq)

\* The policy of these runs accepts every release as it was published.
ASSUME ReleasesVerify ==
    \A blocks \in Releases : VerifyPackage(ReadPackage(AppendTrailer(<<>>, blocks).file), Plain, AppReq) = "ok"

Init ==
    \/ VerifyInit /\ file = <<>> /\ parts = Unaccounted /\ hops = MaxHops /\ ExtractInit(Empty, FALSE)
    \/ \E blocks \in Releases, t \in DestTrees :
          /\ FileInit(AppendTrailer(<<>>, blocks).file, Written(<<>>, blocks)) /\ ExtractInit(t[1], t[2])
    \/ /\ \/ \E b \in Bases, blocks \in Others \cup Releases :
               /\ b # <<>> \/ blocks \in Others
               /\ FileInit(AppendTrailer(b, blocks).file, Written(b, blocks))
          \/ \E t \in Tails : FileInit(t[1], t[2])
       /\ ExtractInit(Empty, FALSE)

Altered(s) ==
    CASE s[1] = "u64" -> {U64(n) : n \in 0..(Len(file) + 1) \cup {MaxU64 - 1, MaxU64}} \cup {Magic}
      [] s[1] = "version" -> {VersionByte(n) : n \in 0..4}
      [] OTHER -> {Magic, Byte("z")}

\* The file is changed on its way, and verified where it arrives.
Hop ==
    /\ \/ \E b \in Bases : Graft(b)
       \/ \E blocks \in Others : Stack(blocks)
       \/ Strip
       \/ hops = 0 /\ \E i \in (Len(file) - 17)..Len(file) : i >= 1 /\ \E s \in Altered(file[i]) : Alter(i, s)
       \/ hops = 0 /\ \E n \in 0..(Len(file) - 1) : Cut(n)
    /\ hops' = hops + 1
    /\ pkg' = ReadPackage(file') /\ returned' = VerifyPackage(pkg', trust, req)
    /\ UNCHANGED <<trust, req, delivery, extractVars>>

\* VerifiedPackage::extract_to; a second package is verified the same way.
Extraction ==
    /\ hops = 0 /\ returned = "ok"
    /\ \/ calls = 0 /\ ExtractTo(PackOf(file))
       \/ calls > 0 /\ \E p \in Packs : ExtractTo(p)
       \/ ExtractStep
    /\ UNCHANGED <<verifyVars, fileVars, hops>>

Next ==
    \/ VerifyNext /\ UNCHANGED <<fileVars, hops, extractVars>>
    \/ file # <<>> /\ hops < MaxHops /\ calls = 0 /\ ~here /\ Hop
    \/ Extraction

Spec == Init /\ [][Next]_vars
=============================================================================
