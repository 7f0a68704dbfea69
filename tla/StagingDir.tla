----------------------------- MODULE StagingDir -----------------------------
(***************************************************************************)
(* Where put_file of src/src/executor.rs stages its temporary: the walk of *)
(* select_staging_dir, run in the process, and the walk of PUT_FILE_SCRIPT, *)
(* run by a shell on the target.  The chain is the destination's own       *)
(* directory, its parent, and so on up to the root of the tree.  A         *)
(* directory is its owner, whether its mode has a group or other write     *)
(* bit, its filesystem, and whether it can be looked at at all.  A walk    *)
(* returns a position of the chain, 0 when it refuses.                     *)
(***************************************************************************)
EXTENDS Integers, Sequences

CONSTANTS Filesystems

DirFacts == [readable : BOOLEAN, owner : {"writer", "root", "other"},
             shared : BOOLEAN, dev : Filesystems]

Chains == Seq(DirFacts) \ {<<>>}

ASSUME FilesystemsAssumption == Filesystems # {}

\* writer_only: owned by the writing identity, writable by nobody else.
WriterOnly(facts) == facts.owner = "writer" /\ ~facts.shared

\* The first position of a set of positions.
First(S) == CHOOSE i \in S : \A j \in S : i <= j
-----------------------------------------------------------------------------
\* mount_point_fallback: the boundary is the destination directory's own
\* parent, nobody but root and the writer can write there, and the
\* destination's directory itself passes.
MountPointFallback(chain, boundary) ==
    IF /\ boundary = 2
       /\ chain[2].owner \in {"root", "writer"} /\ ~chain[2].shared
       /\ WriterOnly(chain[1])
    THEN 1 ELSE 0

\* select_staging_dir: an unreadable ancestor is stepped over, the first on
\* another device ends the walk, the first only the writer can write is it.
SelectStagingDir(chain) ==
    LET stops == {i \in 2..Len(chain) :
                    /\ chain[i].readable
                    /\ chain[i].dev # chain[1].dev \/ WriterOnly(chain[i])}
    IN IF ~chain[1].readable \/ stops = {} THEN 0
       ELSE IF chain[First(stops)].dev # chain[1].dev
            THEN MountPointFallback(chain, First(stops))
            ELSE First(stops)

\* The loop of PUT_FILE_SCRIPT, and the test that follows when it found none.
\* dirname of the root is the root, so a destination directly in it is walked
\* from its own directory.
ScriptStagingDir(chain) ==
    LET walk == IF Len(chain) = 1 THEN {1} ELSE 2..Len(chain)
        leaves == {i \in walk : chain[i].readable /\ chain[i].dev # chain[1].dev}
        passes == {i \in walk : chain[i].readable /\ WriterOnly(chain[i])}
        found == {i \in passes : \A j \in leaves : i < j}
    IN IF ~chain[1].readable THEN 0
       ELSE IF found # {} THEN First(found)
       ELSE IF /\ Len(chain) > 1 /\ chain[2].readable /\ chain[2].dev # chain[1].dev
               /\ chain[2].owner \in {"root", "writer"} /\ ~chain[2].shared
               /\ WriterOnly(chain[1])
            THEN 1 ELSE 0

\* Both walks choose the same directory, of every destination that is not
\* directly in the root.
TransportsAgree(chain) == Len(chain) > 1 => ScriptStagingDir(chain) = SelectStagingDir(chain)

\* The directory chosen is on the destination's filesystem and only the
\* writer can write it; the destination's own is chosen only at the top of
\* its filesystem, under a parent nobody else can write.
StagingIsSafe(chain) ==
    LET i == SelectStagingDir(chain)
    IN i # 0 =>
        /\ chain[i].dev = chain[1].dev /\ chain[i].readable /\ WriterOnly(chain[i])
        /\ i = 1 => chain[2].dev # chain[1].dev /\ ~chain[2].shared
        /\ \A j \in 2..(i - 1) : chain[j].readable => chain[j].dev = chain[1].dev
=============================================================================
