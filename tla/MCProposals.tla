----------------------------- MODULE MCProposals ------------------------------
(* Proposals on small instances.                                            *)
EXTENDS Proposals

CONSTANTS p1, p2

MCWork ==
    {Note} \cup {Create(p, i) : p \in Pids, i \in 1..Size}
    \cup {Delete(hs) : hs \in UNION {SUBSET Objects(p) : p \in Pids}}
    \cup {DeleteOld(p) : p \in Pids} \cup {Modify(p) : p \in Pids}

==============================================================================
