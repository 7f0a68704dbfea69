---------------------------- MODULE MCHostUpdate ----------------------------
(***************************************************************************)
(* Three releases of one artifact: other bytes, then the same bytes with a *)
(* digest in another casing and one disposition more.  The chain is a      *)
(* service's directory under a writer-only one.                            *)
(***************************************************************************)
EXTENDS HostUpdate

Tuple(digest, case, dispositions) ==
    [component |-> "roxyd", kind |-> "binary", dispositions |-> dispositions, arch |-> "x",
     sha |-> [digest |-> digest, case |-> case]]

MCManifest ==
    <<Tuple("a", "lower", {"install"}), Tuple("b", "lower", {"install"}),
      Tuple("b", "upper", {"install", "stage"})>>

Facts(owner, shared, dev) ==
    [readable |-> TRUE, owner |-> owner, shared |-> shared, dev |-> dev]
MCChain == <<Facts("other", TRUE, "f1"), Facts("writer", FALSE, "f1"), Facts("root", FALSE, "f2")>>

\* Both walks, over every chain of up to three directories.
ShortChains == UNION {[1..n -> DirFacts] : n \in 1..3}
ASSUME WalksChecked == \A c \in ShortChains : TransportsAgree(c) /\ StagingIsSafe(c)
=============================================================================
