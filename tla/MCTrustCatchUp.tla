--------------------------- MODULE MCTrustCatchUp ---------------------------
(* A host at any point of a rotation of three, over the mints of TrustMints. *)
EXTENDS TrustCatchUp, TrustMints
=============================================================================
