---------------------- MODULE MCEstablishedConnection ----------------------
(***************************************************************************)
(* The client asks for a reliable flow, the server for a sequenced one,    *)
(* and the delivery endpoints have little room.                            *)
(***************************************************************************)
EXTENDS EstablishedConnection, TLC

CONSTANTS h1, h2, connection

MCHandleOf == [id \in Ids |-> IF id.side = Client THEN h1 ELSE h2]

MCPayloads == [flow : Ids, n : 1 .. 3]
MCPayloadBytes == [p \in MCPayloads |-> 1]

PolicyFor(mode, bytes, messages) ==
  [message_bytes |-> bytes, messages |-> messages, bytes |-> 2,
   outbound |-> IF mode = Reliable THEN "RejectNew" ELSE "EvictOldest",
   receiver |-> IF mode = Reliable THEN "Terminate" ELSE "DropIncoming"]

\* What the client has room to send, the server has no room to keep; and the client's
\* unordered messages are longer than the server's may be.
MCPolicyOf ==
  [side \in Sides |->
     [mode \in Mode |->
        IF side = Server THEN PolicyFor(mode, 1, 1)
        ELSE PolicyFor(mode, IF mode = Unordered THEN 2 ELSE 1, 2)]]

\* The client has room for one flow at a time, whoever asks for it.
MCAggregateLimits == [flows |-> 2, messages |-> 3, bytes |-> 3]
MCLimitsOf ==
  [side \in Sides |-> [MCAggregateLimits EXCEPT !.flows = IF side = Client THEN 1 ELSE 2]]

MCSettings ==
  [side \in Sides |-> [max_active_incoming_flows |-> 1, max_incoming_message_bytes |-> 2]]

MCStagingBytes == [side \in Sides |-> 1]

MCRequests ==
  [side \in Sides |-> IF side = Client THEN {Reliable, Unordered} ELSE {Sequenced}]
MCMaxMessages == [mode \in Mode |-> IF mode = Sequenced THEN 3 ELSE 2]
=============================================================================
