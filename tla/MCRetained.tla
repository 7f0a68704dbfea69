----------------------------- MODULE MCRetained -----------------------------
(***************************************************************************)
(* The copies that are retained and the outputs that are published.  They  *)
(* share no state: a behaviour is two copies that race for a budget        *)
(* smaller than both, or a file and a directory publication that race for  *)
(* one name beside another process, under a budget one part short of both. *)
(***************************************************************************)
EXTENDS Publication, Retention

VARIABLE part

IdleOutputs == dest = NoEntry
IdleCopies == source = [w \in Writers |-> 0]

MCInit ==
    \/ part = "copy" /\ Init /\ IdleOutputs /\ RetainInit
    \/ part = "output" /\ Init /\ RetainInit /\ IdleCopies

MCNext ==
    \/ part = "copy" /\ RetainNext /\ UNCHANGED <<part, vars>>
    \/ part = "output" /\ Next /\ UNCHANGED <<part, retainVars>>

MCSpec == MCInit /\ [][MCNext]_<<part, vars, retainVars>>
=============================================================================
