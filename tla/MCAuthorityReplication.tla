----------------------- MODULE MCAuthorityReplication -----------------------
(***************************************************************************)
(* Sizes and limits for TLC: a large and a small image, two interchangeable*)
(* lineages, and limits that bind one after the other.                     *)
(***************************************************************************)
EXTENDS AuthorityReplication, TLC

CONSTANTS small, large, p1, p2

MCImages == {small, large}
MCImageBytes == [i \in MCImages |-> IF i = small THEN 1 ELSE 2]

MCParticipants == {p1, p2}
ParticipantSymmetry == Permutations(MCParticipants)

\* Two small images or one large one, and two emission records: the third
\* emission of a lineage evicts.
MCAuthorityLimits ==
  [image_bytes |-> 2, images |-> 2, retained_bytes |-> 2, candidate_bytes |-> 2,
   evidence |-> 2]

\* Each lineage may be full, both may not.
MCSessionLimits ==
  [lineages |-> 2, state_bytes |-> 3, images |-> 2, retained_bytes |-> 3,
   evidence |-> 3]
=============================================================================
