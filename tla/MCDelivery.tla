----------------------------- MODULE MCDelivery -----------------------------
(***************************************************************************)
(* Flows, policies and limits for TLC.                                     *)
(***************************************************************************)
EXTENDS Delivery

CONSTANTS small, large, c1, c2, handle

MCPayloads == {small, large}
MCPayloadBytes == [p \in MCPayloads |-> IF p = small THEN 1 ELSE 2]

\* A connection with a flow each way, and another with one outbound flow.
ThreeFlows ==
  {Key(c1, "Outbound", handle), Key(c1, "Inbound", handle), Key(c2, "Outbound", handle)}

PolicyOf(outbound, receiver) ==
  [message_bytes |-> 2, messages |-> 2, bytes |-> 3, outbound |-> outbound,
   receiver |-> receiver]

MCPolicies ==
  {PolicyOf("RejectNew", "Terminate"), PolicyOf("EvictOldest", "EvictOldest"),
   PolicyOf("RejectNew", "DropIncoming")}

\* A connection tighter than the endpoint, a session tighter than its flows,
\* and an endpoint with room for two flows of the three.
MCConnectionLimits == {[flows |-> 2, messages |-> 2, bytes |-> 2]}
MCSessionLimits == {[flows |-> 2, messages |-> 1, bytes |-> 2]}
MCAggregateLimits == [flows |-> 2, messages |-> 2, bytes |-> 3]
=============================================================================
