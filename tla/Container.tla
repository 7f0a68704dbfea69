------------------------------ MODULE Container ------------------------------
(***************************************************************************)
(* The container layout of src/src/payload.rs: a base executable, possibly *)
(* empty, then the manifest, the archive and four envelope blocks, then a  *)
(* footer that locates them.  The footer is found from the end of the file *)
(* by probing the size each known version has.                             *)
(*                                                                         *)
(* A file is a sequence of symbols <<tag, value>>: the magic, a version    *)
(* byte, a u64 field, or a byte of anything else.  The magic and a field   *)
(* are one symbol each, which keeps the three probed offsets where they    *)
(* fall in a real footer, on the version-3 footer's archive offset and     *)
(* Ed25519 key_id offset; a field reads as the magic only in a file of     *)
(* exabytes.                                                               *)
(***************************************************************************)
EXTENDS Integers, Sequences, FiniteSets

CONSTANTS
    MaxU64,       \* the largest offset, length or sum of the two
    BlockLen      \* the one useful length of each envelope block

ASSUME ContainerAssumption ==
    MaxU64 \in Nat \ {0} /\ BlockLen \in [3..6 -> 1..MaxU64]

Magic == <<"magic", 0>>
VersionByte(v) == <<"version", v>>
U64(n) == <<"u64", n>>

KnownVersions == 1..3
FORMAT_VERSION == 3
SupportedVersions == {FORMAT_VERSION}
FieldsOf(v) == 4 * v
FooterSize(v) == 2 + FieldsOf(v)
Blocks == 1..6      \* manifest, archive, and per algorithm a signature and a key_id

Offset(f, k) == f[2 * k - 1]
Length(f, k) == f[2 * k]
End(f, k) == Offset(f, k) + Length(f, k)

\* Footer::encode: as many fields as its own version records.
Encode(v, f) == <<Magic, VersionByte(v)>> \o [i \in 1..FieldsOf(v) |-> U64(f[i])]

\* FieldReader: any eight bytes are some u64.
FieldOf(s) == IF s[1] = "u64" THEN s[2] ELSE MaxU64
-----------------------------------------------------------------------------
(* Locating and validating *)

CandidateStart(file, v) == Len(file) - FooterSize(v)

\* classify_candidate; "short" is a size the file cannot hold.
ClassifyCandidate(file, v) ==
    LET at == CandidateStart(file, v)
    IN IF at < 0 THEN "short"
       ELSE IF file[at + 1] # Magic THEN "NoMagic"
       ELSE IF file[at + 2] = VersionByte(v)
            THEN IF v \in SupportedVersions THEN "Selected" ELSE "Retired"
       ELSE IF file[at + 2] \in {VersionByte(k) : k \in KnownVersions} THEN "Mismatched"
       ELSE "Unknown"

\* locate_footer: the smallest selected size decides, whatever is wrong with
\* what it selects; an unknown version only once no size is selected.
LocateFooter(file) ==
    LET kinds == [v \in KnownVersions |-> ClassifyCandidate(file, v)]
        stops == {v \in KnownVersions : kinds[v] \in {"Selected", "Retired"}}
    IN IF stops # {}
       THEN IF kinds[CHOOSE v \in stops : \A w \in stops : v <= w] = "Selected" THEN "found"
            ELSE "UnsupportedContainerFormat"
       ELSE IF \E v \in KnownVersions : kinds[v] = "Unknown" THEN "UnsupportedContainerFormat"
       ELSE "NoTrailer"

\* What a located footer records, and where it starts.
FooterStart(file) == CandidateStart(file, FORMAT_VERSION)
FooterOf(file) ==
    [i \in 1..FieldsOf(FORMAT_VERSION) |-> FieldOf(file[FooterStart(file) + 2 + i])]

\* is_absent_pair, for the blocks that may be absent.
IsAbsent(f, k) == k > 2 /\ Offset(f, k) = 0 /\ Length(f, k) = 0
HalfZero(f, k) == k > 2 /\ (Offset(f, k) = 0) # (Length(f, k) = 0)
Present(f) == {k \in Blocks : ~IsAbsent(f, k)}
Preceding(f, k) == CHOOSE j \in Present(f) : j < k /\ \A i \in Present(f) : i < k => i <= j
LastPresent(f) == CHOOSE j \in Present(f) : \A i \in Present(f) : i <= j

\* validate_footer: spelling, then bounds, then adjacency.
ValidateFooter(f, start) ==
    IF \E k \in Blocks : HalfZero(f, k) THEN "MalformedFooter"
    ELSE IF \E k \in Blocks : End(f, k) > MaxU64 \/ End(f, k) > start THEN "TruncatedTrailer"
    ELSE IF \E k \in Present(f) \ {1} : Offset(f, k) # End(f, Preceding(f, k)) THEN "MalformedFooter"
    ELSE IF End(f, LastPresent(f)) # start THEN "MalformedFooter" ELSE "ok"

\* read_container_head: "NoTrailer" is open's empty payload.
ReadContainerHead(file) ==
    IF LocateFooter(file) # "found" THEN LocateFooter(file)
    ELSE ValidateFooter(FooterOf(file), FooterStart(file))

\* read_block.
Block(file, f, k) == SubSeq(file, Offset(f, k) + 1, End(f, k))

\* read_bounded_block: a block of another length is not read.
BoundedBlock(file, f, k) ==
    IF IsAbsent(f, k) THEN "Absent"
    ELSE IF Length(f, k) # BlockLen[k] THEN "WrongLength" ELSE "Present"
-----------------------------------------------------------------------------
(* Writing *)

\* write_standalone_tail: the blocks where the one before ends, an unsigned
\* container's envelope absent, and no sum past a u64.  The base and the
\* blocks are given.
FooterFor(baseLen, lens) ==
    LET at(k) == baseLen + (IF k > 1 THEN lens[1] ELSE 0) + (IF k > 2 THEN lens[2] ELSE 0)
                   + (IF k > 3 THEN lens[3] ELSE 0) + (IF k > 4 THEN lens[4] ELSE 0)
                   + (IF k > 5 THEN lens[5] ELSE 0)
    IN [i \in 1..12 |->
          LET k == (i + 1) \div 2
          IN IF k > 2 /\ lens[k] = 0 THEN 0
             ELSE IF i % 2 = 0 THEN lens[k] ELSE at(k)]

Body(blocks) == blocks[1] \o blocks[2] \o blocks[3] \o blocks[4] \o blocks[5] \o blocks[6]

AppendTrailer(base, blocks) ==
    IF Len(base \o Body(blocks)) + FooterSize(FORMAT_VERSION) > MaxU64
    THEN [how |-> "MalformedFooter", file |-> <<>>]
    ELSE [how |-> "ok",
          file |-> base \o Body(blocks)
                     \o Encode(FORMAT_VERSION, FooterFor(Len(base), [k \in Blocks |-> Len(blocks[k])]))]

\* Mutant: the delta is added to every offset.
ShiftedBlindly(f, k, delta) == Offset(f, k) + delta

\* rewrap_trailer: an absent pair stays all-zero.
Shifted(f, k, delta) == IF IsAbsent(f, k) THEN 0 ELSE Offset(f, k) + delta

\* rewrap_trailer: the body is copied, the present offsets move with it.
RewrapTrailer(file, base) ==
    LET head == ReadContainerHead(file)
        f == FooterOf(file)
        delta == Len(base) - Offset(f, 1)
        moved == [i \in 1..12 |->
                    LET k == (i + 1) \div 2
                    IN IF i % 2 = 0 THEN f[i] ELSE IF k <= 2 THEN f[i] + delta ELSE Shifted(f, k, delta)]
    IN IF head # "ok" THEN [how |-> head, file |-> <<>>]
       ELSE IF \E i \in 1..12 : moved[i] > MaxU64 THEN [how |-> "TruncatedTrailer", file |-> <<>>]
       ELSE [how |-> "ok",
             file |-> base \o SubSeq(file, Offset(f, 1) + 1, FooterStart(file))
                        \o Encode(FORMAT_VERSION, moved)]

\* read_base_executable: the layout is not validated, only the prefix.
ReadBaseExecutable(file) ==
    LET located == LocateFooter(file)
    IN IF located = "NoTrailer" THEN [how |-> "ok", file |-> file]
       ELSE IF located # "found" THEN [how |-> located, file |-> <<>>]
       ELSE IF Offset(FooterOf(file), 1) > FooterStart(file)
            THEN [how |-> "TruncatedTrailer", file |-> <<>>]
            ELSE [how |-> "ok", file |-> SubSeq(file, 1, Offset(FooterOf(file), 1))]
=============================================================================
