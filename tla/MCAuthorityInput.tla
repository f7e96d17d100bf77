--------------------------- MODULE MCAuthorityInput ---------------------------
(***************************************************************************)
(* A small and a large batch, limits that bind at two batches, and the     *)
(* symmetry of participants and connections.                               *)
(***************************************************************************)
EXTENDS AuthorityInput, TLC

CONSTANTS p1, p2, p3, c1, c2, small, large

MCParticipants == {p1, p2, p3}
MCConnections == {c1, c2}
SessionSymmetry == Permutations(MCParticipants) \cup Permutations(MCConnections)

MCBatches == {small, large}
MCBatchBytes == [b \in MCBatches |-> IF b = small THEN 1 ELSE 2]

MCInputLimits == [batch_bytes |-> 2, keys |-> 2, bytes |-> 2, span |-> 1]
MCSharedInputLimits == [keys |-> 2, bytes |-> 3]
=============================================================================
