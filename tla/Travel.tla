-------------------------------- MODULE Travel --------------------------------
(***************************************************************************)
(* What becomes of a container's file between the writer and a reader, by  *)
(* the operations of src/src/payload.rs and by whoever passes it on: its   *)
(* trailer is moved onto another base (rewrap_trailer), a container is     *)
(* written behind it (append_trailer), its base is taken out               *)
(* (read_base_executable), its bytes are altered or cut.  What the file    *)
(* was written from is kept beside it for the properties only.             *)
(***************************************************************************)
EXTENDS Container

VARIABLES
    file,      \* the bytes that arrive
    parts      \* what the file was written from, until somebody alters it

fileVars == <<file, parts>>

Unaccounted == [known |-> "no"]
Retired == [known |-> "old"]
Written(base, blocks) == [known |-> "written", base |-> base, blocks |-> blocks]

Becomes(f, p) == file' = f /\ parts' = p

Graft(base) ==
    LET w == RewrapTrailer(file, base)
    IN /\ w.how = "ok"
       /\ Becomes(w.file, IF parts.known = "written" THEN [parts EXCEPT !.base = base] ELSE parts)

Stack(blocks) ==
    LET w == AppendTrailer(file, blocks)
    IN w.how = "ok" /\ Becomes(w.file, Written(file, blocks))

Strip ==
    LET w == ReadBaseExecutable(file)
    IN w.how = "ok" /\ w.file # file /\ Becomes(w.file, Unaccounted)

Alter(i, s) == Becomes([file EXCEPT ![i] = s], Unaccounted)
Cut(n) == Becomes(SubSeq(file, 1, n), Unaccounted)
-----------------------------------------------------------------------------
\* The lengths a footer records, under which the writers would have written it.
Writable(f) ==
    /\ Len(f) >= FooterSize(FORMAT_VERSION)
    /\ LET foot == FooterOf(f)
           lens == [k \in Blocks |-> Length(foot, k)]
           base == FooterStart(f) - (lens[1] + lens[2] + lens[3] + lens[4] + lens[5] + lens[6])
       IN /\ base >= 0 /\ \A k \in 3..6 : lens[k] # 0 => Offset(foot, k) # 0
          /\ SubSeq(f, FooterStart(f) + 1, Len(f)) = Encode(FORMAT_VERSION, FooterFor(base, lens))

\* The readers take exactly the files the writers make: of a file that was
\* grafted, stacked, altered or cut in any way, a container is read if and only
\* if its last bytes are the footer of blocks that fill the file up to it, and
\* then every block that was written is read back and the base is what it was
\* written onto; and a retired container is never taken for a file without one
\* (locate_footer, validate_footer, rewrap_trailer, read_base_executable).
ReadersInvertWriters ==
    file # <<>> =>
        /\ ReadContainerHead(file) = "ok" <=> Writable(file)
        /\ parts.known = "written" =>
             /\ ReadContainerHead(file) = "ok"
             /\ \A k \in Blocks : Block(file, FooterOf(file), k) = parts.blocks[k]
             /\ ReadBaseExecutable(file).file = parts.base
        /\ parts.known = "old" =>
             {ReadContainerHead(file), ReadBaseExecutable(file).how} = {"UnsupportedContainerFormat"}
=============================================================================
