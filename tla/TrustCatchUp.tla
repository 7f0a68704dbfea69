----------------------------- MODULE TrustCatchUp -----------------------------
(***************************************************************************)
(* The catch-up protocol the chain replay is documented for: a control     *)
(* plane pushes the generations a host is missing with                     *)
(* accept_generation_chain, resumes at packages[completed] after an error, *)
(* and asks read_generation_state where the host is whenever it has no     *)
(* answer to go by.                                                        *)
(***************************************************************************)
EXTENDS ReleaseTrust

CONSTANTS
    Rotated,    \* the generations release operations minted, in order
    Host        \* the caller: the one agent on the host

VARIABLES
    position,   \* how many of Rotated the control plane counts as accepted
    known       \* whether that count is current

allVars == <<vars, position, known>>

CatchUpInit == Init /\ position = 0 /\ known = FALSE

\* read_generation_state's answer as a position in the rotation.
PositionOf(entry) ==
    IF \E i \in DOMAIN Rotated : Rotated[i].doc.epoch = EpochOf(entry)
    THEN CHOOSE i \in DOMAIN Rotated : Rotated[i].doc.epoch = EpochOf(entry)
    ELSE 0

\* The host is provisioned by the installer with the first generation.
Provision ==
    /\ live.at = 0 /\ AdmitSeedGeneration(Host, Rotated[1])
    /\ UNCHANGED <<position, known>>

\* An answer not yet taken by the control plane.
Pending == result[Host].door = "chain"

\* With no answer to wait for, the control plane asks where the host is.
ReadGenerationState ==
    /\ At(Host, "idle") /\ live.at # 0 /\ ~known /\ ~Pending
    /\ position' = PositionOf(live) /\ known' = TRUE
    /\ UNCHANGED vars

\* The missing suffix, from the resume position on.
Push ==
    /\ known /\ position < Len(Rotated)
    /\ AcceptGenerationChain(Host, SubSeq(Rotated, position + 1, Len(Rotated)))
    /\ known' = FALSE /\ UNCHANGED position

\* The answer of a replay: both arms carry `completed`.
Answer ==
    /\ At(Host, "idle") /\ Pending
    /\ position' = position + result[Host].done /\ known' = TRUE
    /\ result' = [result EXCEPT ![Host] = NoResult]
    /\ UNCHANGED <<tree, call, history, bounds>>

HostStep == Step(Host) /\ UNCHANGED <<position, known>>

\* An answer the control plane never gets: it starts over by asking.
Trouble ==
    /\ Fault(Host) \/ Kill(Host) \/ PowerLoss
    /\ UNCHANGED position
    /\ known' = IF losses' # losses THEN FALSE ELSE known

CatchUpNext == Provision \/ ReadGenerationState \/ Push \/ Answer \/ HostStep \/ Trouble

\* Both sides keep running: the installer retries, the control plane has
\* "bounded retry", and a call runs to its return.
CatchUpSpec ==
    /\ CatchUpInit /\ [][CatchUpNext]_allVars
    /\ WF_allVars(Provision) /\ WF_allVars(ReadGenerationState) /\ WF_allVars(Push)
    /\ WF_allVars(Answer) /\ WF_allVars(HostStep)
-----------------------------------------------------------------------------
\* A lagging host ends on the newest generation and stays there, whatever
\* step failed, was killed after its swap, or was replayed: the resume position
\* never skips the generation that introduces the next key.
CatchesUp == <>[](live.at # 0 /\ live.mat = Rotated[Len(Rotated)])
===============================================================================
