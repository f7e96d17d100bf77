--------------------------- MODULE MCDeliveryPath ---------------------------
(***************************************************************************)
(* Small queues at both ends, so that the sender evicts or refuses and the *)
(* receiver evicts or fails.                                               *)
(***************************************************************************)
EXTENDS DeliveryPath

CONSTANTS small, large

MCPayloads == {small, large}
MCPayloadBytes == [p \in Payloads |-> IF p = small THEN 1 ELSE 2]

MCAggregateLimits == [flows |-> 1, messages |-> 2, bytes |-> 3]
MCLinkLimits == [flows |-> 1, messages |-> 2, bytes |-> 3]

PolicyFor(m) ==
  [message_bytes |-> 2, messages |-> 2, bytes |-> 3,
   outbound |-> IF m = Reliable THEN "RejectNew" ELSE "EvictOldest",
   receiver |-> IF m = Reliable THEN "Terminate" ELSE "EvictOldest"]

MCPolicies == [m \in Mode |-> PolicyFor(m)]
=============================================================================
