--------------------------- MODULE TrustRegister ---------------------------
(***************************************************************************)
(* What a trust tree promises its readers: a single register of accepted   *)
(* material.  An install publishes atomically under an index above every   *)
(* index ever published; until it is committed a power loss may undo it.   *)
(***************************************************************************)
EXTENDS Integers

CONSTANTS Valid, None, MaxGen

VARIABLES
    live,     \* what readers resolve: an index and its material
    kept,     \* what readers may resolve after a power loss
    used      \* every index ever published

vars == <<live, kept, used>>

Nothing == [at |-> 0, mat |-> None]

Init == live = Nothing /\ kept = {Nothing} /\ used = {}

Install(n, m) ==
    /\ \A k \in used : k < n
    /\ live' = [at |-> n, mat |-> m]
    /\ kept' = kept \cup {live'}
    /\ used' = used \cup {n}

Commit == kept' = {live} /\ UNCHANGED <<live, used>>

PowerLoss == live' \in kept /\ kept' = {live'} /\ UNCHANGED used

Next ==
    \/ \E n \in 1..MaxGen, m \in Valid : Install(n, m)
    \/ Commit
    \/ PowerLoss

Spec == Init /\ [][Next]_vars
=============================================================================
