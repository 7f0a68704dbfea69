----------------------------- MODULE WindowGuard -----------------------------
(***************************************************************************)
(* WindowGuard of src/src/payload/outer.rs: the compressed archive block   *)
(* as the decoder reads it.  The guard follows the frames as their bytes   *)
(* pass, in reads of any size the source cares to return, and refuses one  *)
(* whose window is past the limit or cannot be read before the decoder     *)
(* holds the field that says so.                                           *)
(*                                                                         *)
(* Bytes are bytes: a stream is a sequence over 0..255.  The frames it was *)
(* written from are kept beside it for the properties only.                *)
(***************************************************************************)
EXTENDS Integers, Sequences, SequencesExt

CONSTANTS
    Sources,       \* records: the frames of a stream and how many bytes of it arrive
    ZstdWindow,    \* limits.zstd_window
    CopyBuffer     \* limits.copy_buffer

VARIABLES
    origin,    \* the frames behind the stream
    stream,    \* the bytes that arrive
    scan,      \* Scan: the field being collected, or what is passed before the next
    handed,    \* bytes the decoder has been given
    fault      \* "none", or the error the guard's read returned

guardVars == <<origin, stream, scan, handed, fault>>
-----------------------------------------------------------------------------
(* Fields *)

Bits(byte, low, count) == (byte \div 2^low) % 2^count
Le(seq) ==
    LET value[i \in 0..Len(seq)] == IF i = 0 THEN 0 ELSE value[i - 1] * 256 + seq[Len(seq) + 1 - i]
    IN value[Len(seq)]

FrameMagic == <<40, 181, 47, 253>>
SkippableHigh == <<42, 77, 24>>
IsSkippableMagic(magic) == Bits(magic[1], 4, 4) = 5 /\ Tail(magic) = SkippableHigh

SingleSegment(d) == Bits(d, 5, 1) = 1
Reserved(d) == Bits(d, 3, 1) = 1
HasChecksum(d) == Bits(d, 2, 1) = 1

DictionaryLen(d) == <<0, 1, 2, 4>>[Bits(d, 0, 2) + 1]
ContentSizeLen(d) ==
    CASE Bits(d, 6, 2) = 0 -> IF SingleSegment(d) THEN 1 ELSE 0
      [] Bits(d, 6, 2) = 1 -> 2
      [] Bits(d, 6, 2) = 2 -> 4
      [] OTHER -> 8

\* The rest of a frame header: a window descriptor unless the frame is one
\* segment, a dictionary id, a content size.
HeaderLen(d) == (IF SingleSegment(d) THEN 0 ELSE 1) + DictionaryLen(d) + ContentSizeLen(d)

\* frame_window.
FrameWindow(d, fields) ==
    IF SingleSegment(d)
    THEN LET size == SubSeq(fields, DictionaryLen(d) + 1, Len(fields))
         IN Le(size) + (IF Len(size) = 2 THEN 256 ELSE 0)
    ELSE LET base == 2^(10 + Bits(fields[1], 3, 5))
         IN base + (base \div 8) * Bits(fields[1], 0, 3)

\* A field the guard collects whole; d is the descriptor where one matters.
Field(kind, d) == [kind |-> kind, d |-> d]
FieldLen(f) ==
    CASE f.kind \in {"magic", "skippable"} -> 4
      [] f.kind = "descriptor" -> 1
      [] f.kind = "header" -> HeaderLen(f.d)
      [] f.kind = "block" -> 3

\* Scan::collect and Scan::skip.
Collect(f) == [remaining |-> 0, field |-> f, have |-> <<>>]
Skip(n, f) == [remaining |-> n, field |-> f, have |-> <<>>]
Refused(error) == [remaining |-> 0, field |-> Field(error, 0), have |-> <<>>]
Refusals == {"UnreadableFrame", "ZstdWindow"}

\* What follows a block header: its content, a single byte where it repeats
\* one, then another block or, after the last, the checksum and a new frame.
AfterBlock(d, header) ==
    LET size == header \div 8
        content == IF Bits(header, 1, 2) = 1 THEN 1 ELSE size
    IN IF Bits(header, 1, 2) = 3 THEN Refused("UnreadableFrame")
       ELSE IF Bits(header, 0, 1) = 0 THEN Skip(content, Field("block", d))
       ELSE Skip(content + (IF HasChecksum(d) THEN 4 ELSE 0), Field("magic", 0))

\* complete.
Complete(f, have) ==
    CASE f.kind = "magic" ->
            IF have = FrameMagic THEN Collect(Field("descriptor", 0))
            ELSE IF IsSkippableMagic(have) THEN Collect(Field("skippable", 0))
            ELSE Refused("UnreadableFrame")
      [] f.kind = "descriptor" ->
            IF Reserved(have[1]) THEN Refused("UnreadableFrame")
            ELSE Collect(Field("header", have[1]))
      [] f.kind = "header" ->
            IF FrameWindow(f.d, have) > ZstdWindow THEN Refused("ZstdWindow")
            ELSE Collect(Field("block", f.d))
      [] f.kind = "block" -> AfterBlock(f.d, Le(have))
      [] f.kind = "skippable" -> Skip(Le(have), Field("magic", 0))

\* advance, over one byte of the input; nothing is followed past a refusal.
Advance(s, byte) ==
    IF s.field.kind \in Refusals THEN s
    ELSE IF s.remaining > 0 THEN [s EXCEPT !.remaining = @ - 1]
    ELSE LET have == Append(s.have, byte)
         IN IF Len(have) < FieldLen(s.field) THEN [s EXCEPT !.have = have]
            ELSE Complete(s.field, have)

\* Mutant: a field begun in one read is begun again in the next.
FollowAnew(s, input) ==
    LET after[i \in 0..Len(input)] ==
            IF i = 0 THEN [s EXCEPT !.have = <<>>] ELSE Advance(after[i - 1], input[i])
    IN after[Len(input)]

\* The loop of read.
Follow(s, input) ==
    LET after[i \in 0..Len(input)] == IF i = 0 THEN s ELSE Advance(after[i - 1], input[i])
    IN after[Len(input)]
-----------------------------------------------------------------------------
(* The streams a source may hold: standard frames with their blocks, and
   skippable ones. *)

LittleEndian(value, len) == [i \in 1..len |-> (value \div 256^(i - 1)) % 256]
ZeroBytes(n) == [i \in 1..n |-> 0]

\* A block of a frame: its type, the size its header states, its last flag.
BlockBytes(b) ==
    LittleEndian(b.size * 8 + b.type * 2 + (IF b.last THEN 1 ELSE 0), 3) \o
    ZeroBytes(IF b.type = 1 THEN 1 ELSE b.size)

FrameBytes(f) ==
    IF f.kind = "skippable" THEN f.magic \o LittleEndian(f.len, 4) \o ZeroBytes(f.len)
    ELSE f.magic \o <<f.d>> \o f.fields \o FlattenSeq([i \in DOMAIN f.blocks |-> BlockBytes(f.blocks[i])]) \o
         ZeroBytes(IF HasChecksum(f.d) THEN 4 ELSE 0)

Encoded(frames) == FlattenSeq([i \in DOMAIN frames |-> FrameBytes(frames[i])])

\* What stands for a frame: fields as long as the descriptor says, stating the
\* window, and blocks up to one marked last.
Byte == 0..255
Formed(f) ==
    /\ f.magic \in [1..4 -> Byte]
    /\ \/ f.kind = "skippable" /\ IsSkippableMagic(f.magic) /\ f.len \in Nat /\ f.len \div 256^3 \in Byte
       \/ /\ f.kind = "standard" /\ ~IsSkippableMagic(f.magic)
          /\ f.d \in Byte /\ f.fields \in [1..HeaderLen(f.d) -> Byte]
          /\ f.window = FrameWindow(f.d, f.fields)
          /\ f.blocks \in Seq([type : 0..3, size : 0..(2^21 - 1), last : BOOLEAN]) \ {<<>>}
          /\ \A i \in DOMAIN f.blocks : f.blocks[i].last <=> i = Len(f.blocks)

ASSUME GuardAssumption ==
    /\ ZstdWindow \in Nat /\ CopyBuffer \in Nat \ {0}
    /\ \A s \in Sources :
          /\ s.frames \in Seq(Range(s.frames)) /\ s.cut \in 0..Len(Encoded(s.frames))
          /\ \A i \in DOMAIN s.frames : Formed(s.frames[i])

GuardInit ==
    /\ origin \in Sources
    /\ stream = SubSeq(Encoded(origin.frames), 1, origin.cut)
    /\ scan = Collect(Field("magic", 0))
    /\ handed = 0
    /\ fault = "none"

\* Read::read: up to a copy buffer, followed to its end before it is handed on.
GuardRead(n) ==
    /\ fault = "none"
    /\ n <= CopyBuffer /\ handed + n <= Len(stream)
    /\ LET next == Follow(scan, SubSeq(stream, handed + 1, handed + n))
       IN /\ scan' = next
          /\ IF next.field.kind \in Refusals
             THEN fault' = next.field.kind /\ UNCHANGED handed
             ELSE handed' = handed + n /\ UNCHANGED fault
    /\ UNCHANGED <<origin, stream>>

GuardNext == \E n \in 1..CopyBuffer : GuardRead(n)
-----------------------------------------------------------------------------
(* What a frame declares, by the zstd format: the offset of the byte that
   completes its first faulty field, and the fault. *)

NoFault == [at |-> 0, error |-> "none"]

FrameHeaderFault(f) ==
    IF f.magic # FrameMagic THEN [at |-> 4, error |-> "UnreadableFrame"]
    ELSE IF Reserved(f.d) THEN [at |-> 5, error |-> "UnreadableFrame"]
    ELSE IF f.window > ZstdWindow THEN [at |-> 5 + Len(f.fields), error |-> "ZstdWindow"]
    ELSE NoFault

BlockFault(f) ==
    LET bad == {i \in DOMAIN f.blocks : f.blocks[i].type = 3}
        first == CHOOSE i \in bad : \A j \in bad : i <= j
        before == FlattenSeq([i \in 1..(first - 1) |-> BlockBytes(f.blocks[i])])
    IN IF bad = {} THEN NoFault
       ELSE [at |-> 5 + Len(f.fields) + Len(before) + 3, error |-> "UnreadableFrame"]

FrameFault(f) ==
    IF f.kind = "skippable" THEN NoFault
    ELSE IF FrameHeaderFault(f) # NoFault THEN FrameHeaderFault(f) ELSE BlockFault(f)

FirstFault(frames) ==
    LET bad == {i \in DOMAIN frames : FrameFault(frames[i]) # NoFault}
        first == CHOOSE i \in bad : \A j \in bad : i <= j
        at == Len(Encoded(SubSeq(frames, 1, first - 1))) + FrameFault(frames[first]).at
    IN IF bad = {} THEN NoFault ELSE [at |-> at, error |-> FrameFault(frames[first]).error]

\* However the reads fall, the decoder is never handed the byte that completes
\* a header past the window limit or a field the guard cannot read; the guard's
\* error is that field's own; and a stream without one passes whole.
WindowHeld ==
    LET bad == FirstFault(origin.frames)
        met == bad # NoFault /\ bad.at <= Len(stream)
    IN /\ met => handed < bad.at
       /\ fault # "none" => met /\ fault = bad.error
=============================================================================
