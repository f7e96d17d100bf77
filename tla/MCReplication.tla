---------------------------- MODULE MCReplication ----------------------------
(***************************************************************************)
(* Sizes, limits and the symmetry of the images for TLC.                   *)
(***************************************************************************)
EXTENDS Replication, TLC

CONSTANTS a, b

MCImages == {a, b}
MCImageBytes == [i \in MCImages |-> 1]

\* Two retained images and two emission records on the authority: the third
\* emission evicts.
MCAuthorityLimits ==
  [image_bytes |-> 1, images |-> 2, retained_bytes |-> 2, candidate_bytes |-> 1,
   evidence |-> 2]

MCClientLimits ==
  [image_bytes |-> 1, images |-> 2, retained_bytes |-> 2, candidate_bytes |-> 1,
   evidence |-> 1]

MCClientSetLimits == [images |-> 2, retained_bytes |-> 3]

ImageSymmetry == Permutations(MCImages)
=============================================================================
