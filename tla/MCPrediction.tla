----------------------------- MODULE MCPrediction -----------------------------
(***************************************************************************)
(* One retained image at the authority and two at the client: every delta  *)
(* the authority emits finds its retention full. Two small pending inputs  *)
(* or a large one.                                                         *)
(***************************************************************************)
EXTENDS Prediction

CONSTANT a

MCImages == {a}
MCImageBytes == [i \in MCImages |-> 1]

MCAuthorityLimits ==
  [image_bytes |-> 1, images |-> 1, retained_bytes |-> 1, candidate_bytes |-> 1,
   evidence |-> 2]

MCClientLimits ==
  [image_bytes |-> 1, images |-> 2, retained_bytes |-> 2, candidate_bytes |-> 1,
   evidence |-> 1]

MCClientSetLimits == [images |-> 2, retained_bytes |-> 3]

MCPredictionLimits == [inputs |-> 2, bytes |-> 2, span |-> 2]
=============================================================================
