--------------------------- MODULE MCReleaseTrust ---------------------------
(* The doors onto the release-trust tree, over the mints of TrustMints. *)
EXTENDS ReleaseTrust, TrustMints
=============================================================================
