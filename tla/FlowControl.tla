----------------------------- MODULE FlowControl -----------------------------
(***************************************************************************)
(* What one end of an established connection knows of its flows            *)
(* (flow_control.rs, with the registry of quinn_binding.rs and the flow    *)
(* identifiers of wire.rs): the next identifier of either side, the flows  *)
(* it has asked the peer to accept, the one request it has yet to decide,  *)
(* and the registry of the flows both have agreed on.                      *)
(*                                                                         *)
(* The operators take the record fc of an end and its delivery endpoint ep *)
(* and return both as they are left, with what the driver has to do next.  *)
(***************************************************************************)
EXTENDS DeliveryEndpoint

CONSTANTS
  Connection,       \* the ConnectionHandle of the connection, at both ends
  LastFlow,         \* the last sequence number of a flow identifier
  HandleOf,         \* the DeliveryFlowHandle the hosts give a flow
  PolicyOf,         \* PolicyOf[side][mode]: FlowResourcePolicy of a host's flows
  LimitsOf,         \* LimitsOf[side]: DeliveryScopeLimits of the connection
  Settings          \* Settings[side]: what an end announced of its own limits

Client == "Client"
Server == "Server"
Sides == {Client, Server}
Other(side) == IF side = Client THEN Server ELSE Client

\* FlowId::from_sequence
FlowId(side, n) == [side |-> side, sequence |-> n]
Ids == {FlowId(side, n) : side \in Sides, n \in 0 .. LastFlow}

NoFlow == [side |-> "None", sequence |-> 0]

KeyOf(side, id) ==
  Key(Connection, IF id.side = side THEN "Outbound" ELSE "Inbound", HandleOf[id])

ASSUME FlowControlAssumption ==
  /\ LastFlow \in Nat
  /\ DOMAIN HandleOf = Ids
  /\ Settings \in [Sides -> [max_active_incoming_flows : Nat \ {0},
                             max_incoming_message_bytes : Nat \ {0}]]
  /\ PolicyOf \in [Sides -> [Mode -> Policy]]
  /\ LimitsOf \in [Sides -> ScopeLimits]

\* The hosts give every flow of a side a handle of its own.
ASSUME HandleAssumption ==
  \A i, j \in Ids : i.side = j.side /\ HandleOf[i] = HandleOf[j] => i = j

-----------------------------------------------------------------------------
(* Frames and what they lead to                                            *)

OpenFlow(id, mode, max) ==
  [type |-> "OpenFlow", id |-> id, mode |-> mode, max_message_bytes |-> max]
NoRequest == OpenFlow(NoFlow, "None", 0)

\* FlowRejectReason
RejectReasons == {"ResourceLimit", "MessageLimit"}

FlowAccept(id) == [type |-> "FlowAccept", id |-> id]
FlowReject(id, reason) == [type |-> "FlowReject", id |-> id, reason |-> reason]
FlowTerminate(id, reason) == [type |-> "FlowTerminate", id |-> id, reason |-> reason]

\* Progress without a frame: InboundOpen, OutboundEstablished, OutboundRejected and
\* RemoteTerminated. "Send" has a frame and its FlowControlSendEffect: the cause of
\* the flow's end that the host is told once the frame is written, or "None".
Progress(kind, id, cause) == [kind |-> kind, id |-> id, cause |-> cause]
Send(frame, cause) == [kind |-> "Send", id |-> frame.id, cause |-> cause, frame |-> frame]

\* FlowControlError, by the code the connection is closed with; NoCode is
\* Option::None.
NoCode == "NoCode"
Error(code) == [kind |-> "Error", id |-> NoFlow, cause |-> code]

Result(fc, ep, progress) == [fc |-> fc, ep |-> ep, progress |-> progress]

-----------------------------------------------------------------------------
(* The record and the registry                                             *)

NewFlowControl ==
  [local_flow_ids |-> 0, peer_flow_ids |-> 0, pending_outbound |-> EmptyMap,
   pending_inbound |-> NoRequest, registry |-> EmptyMap]

\* active_direction_len
Active(side, fc, direction) ==
  Cardinality({id \in DOMAIN fc.registry : KeyOf(side, id).direction = direction})

RegistryCapacity ==
  SumFunction([side \in Sides |-> Settings[side].max_active_incoming_flows])

\* register_consumed_accepted_flow: its errors other than a full registry need a
\* flow that the caller has not just established.
CanRegister(fc) == Cardinality(DOMAIN fc.registry) < RegistryCapacity

Register(fc, id, mode) ==
  [fc EXCEPT !.registry = Put(@, id, [mode |-> mode, associated |-> FALSE])]

\* associate_outbound, associate_inbound
CanAssociateStream(fc, id) ==
  /\ id \in DOMAIN fc.registry
  /\ fc.registry[id].mode = Reliable
  /\ ~fc.registry[id].associated

AssociateStream(fc, id) == [fc EXCEPT !.registry[id].associated = TRUE]

ReleaseFlow(fc, id) == [fc EXCEPT !.registry = Drop(@, {id})]

\* establish_flow fails for want of room, and for nothing else.
AtFlowLimit(side, ep, id, mode) ==
  LET k == KeyOf(side, id)
      policy == PolicyOf[side][mode]
  IN /\ ValidPolicy(policy, mode)
     /\ k \notin DOMAIN ep.flows
     /\ ~CanEstablish(ep, k, mode, policy, LimitsOf[side])

EstablishFlow(side, ep, id, mode) ==
  Establish(ep, KeyOf(side, id), mode, PolicyOf[side][mode], LimitsOf[side])

-----------------------------------------------------------------------------
(* Asking the peer for a flow                                              *)

HasRoomAtPeer(side, fc) ==
  Active(side, fc, "Outbound") + Cardinality(DOMAIN fc.pending_outbound)
    < Settings[Other(side)].max_active_incoming_flows

\* prepare_outbound_open: the host's identity, the policy (whose maximum is the
\* stable one), the peer's limits, and an identifier to be had.
CanOpen(side, fc, ep, mode) ==
  LET id == FlowId(side, fc.local_flow_ids)
      policy == PolicyOf[side][mode]
  IN /\ fc.local_flow_ids <= LastFlow
     /\ KeyOf(side, id) \notin DOMAIN ep.flows
     /\ \A pending \in DOMAIN fc.pending_outbound : KeyOf(side, pending) # KeyOf(side, id)
     /\ ValidPolicy(policy, mode)
     /\ policy.message_bytes <= Settings[Other(side)].max_incoming_message_bytes
     /\ HasRoomAtPeer(side, fc)

\* Mutant of PrepareOutboundOpen: the identifier is not used up.
PrepareOutboundOpenAgain(side, fc, mode) ==
  LET id == FlowId(side, fc.local_flow_ids)
  IN [fc |-> [fc EXCEPT !.pending_outbound = Put(@, id, mode)],
      frame |-> OpenFlow(id, mode, PolicyOf[side][mode].message_bytes)]

PrepareOutboundOpen(side, fc, mode) ==
  LET id == FlowId(side, fc.local_flow_ids)
  IN [fc |-> [fc EXCEPT !.local_flow_ids = @ + 1,
                        !.pending_outbound = Put(@, id, mode)],
      frame |-> OpenFlow(id, mode, PolicyOf[side][mode].message_bytes)]

-----------------------------------------------------------------------------
(* Receiving a control frame                                               *)

\* receive_open, with FlowIdCursor::validate_and_consume
ReceiveOpen(side, fc, ep, frame) ==
  LET consumed == [fc EXCEPT !.peer_flow_ids = @ + 1]
      Rejected(reason) == Result(consumed, ep, Send(FlowReject(frame.id, reason), "None"))
  IN IF frame.id # FlowId(Other(side), fc.peer_flow_ids)
     THEN Result(fc, ep, Error("FlowProtocolError"))
     ELSE IF frame.max_message_bytes > Settings[side].max_incoming_message_bytes
     THEN Rejected("MessageLimit")
     ELSE IF Active(side, fc, "Inbound") >= Settings[side].max_active_incoming_flows
     THEN Rejected("ResourceLimit")
     ELSE Result([consumed EXCEPT !.pending_inbound = frame], ep,
                 Progress("InboundOpen", frame.id, "None"))

\* require_local_response_side, and the pending flow the answer is for
IsExpected(side, fc, id) == id.side = side /\ id \in DOMAIN fc.pending_outbound

\* receive_accept: a flow for which there is no room any more is terminated at once,
\* by a report that names a flow only the peer has registered.
ReceiveAccept(side, fc, ep, frame) ==
  LET id == frame.id
      mode == fc.pending_outbound[id]
      answered == [fc EXCEPT !.pending_outbound = Drop(@, {id})]
      failed == Send(FlowTerminate(id, "ResourceFailure"), "ResourceFailure")
  IN IF ~IsExpected(side, fc, id)
     THEN Result(fc, ep, Error("FlowProtocolError"))
     ELSE IF KeyOf(side, id) \in DOMAIN ep.flows
     THEN Result(answered, ep, Error(NoCode))
     ELSE IF AtFlowLimit(side, ep, id, mode) \/ ~CanRegister(answered)
     THEN Result(answered, ep, failed)
     ELSE Result(Register(answered, id, mode), EstablishFlow(side, ep, id, mode),
                 Progress("OutboundEstablished", id, "None"))

\* receive_reject
ReceiveReject(side, fc, ep, frame) ==
  IF ~IsExpected(side, fc, frame.id)
  THEN Result(fc, ep, Error("FlowProtocolError"))
  ELSE Result([fc EXCEPT !.pending_outbound = Drop(@, {frame.id})], ep,
              Progress("OutboundRejected", frame.id, "Rejected"))

\* Mutant of ReceiveTerminate: a reliable flow stays in the registry, for its stream to
\* release it.
ReceiveTerminateUnreliable(side, fc, ep, frame) ==
  LET id == frame.id
  IN IF id \notin DOMAIN fc.registry
     THEN Result(fc, ep, Error("FlowProtocolError"))
     ELSE Result(IF fc.registry[id].mode = Reliable THEN fc ELSE ReleaseFlow(fc, id),
                 Terminate(ep, KeyOf(side, id)), Progress("RemoteTerminated", id, frame.reason))

\* receive_terminate: a flow the end has released already is unknown to it.
ReceiveTerminate(side, fc, ep, frame) ==
  LET id == frame.id
  IN IF \/ id \notin DOMAIN fc.registry
        \/ fc.registry[id].mode = Reliable /\ frame.reason = "Normal"
     THEN Result(fc, ep, Error("FlowProtocolError"))
     ELSE IF KeyOf(side, id) \notin DOMAIN ep.flows
     THEN Result(fc, ep, Error(NoCode))
     ELSE Result(ReleaseFlow(fc, id), Terminate(ep, KeyOf(side, id)),
                 Progress("RemoteTerminated", id, frame.reason))

\* FlowControl::receive. The driver holds back an OPEN_FLOW while one is undecided.
ReceiveFrame(side, fc, ep, frame) ==
  CASE frame.type = "OpenFlow" ->
         IF fc.pending_inbound # NoRequest THEN Result(fc, ep, Error(NoCode))
         ELSE ReceiveOpen(side, fc, ep, frame)
    [] frame.type = "FlowAccept" -> ReceiveAccept(side, fc, ep, frame)
    [] frame.type = "FlowReject" -> ReceiveReject(side, fc, ep, frame)
    [] frame.type = "FlowTerminate" -> ReceiveTerminate(side, fc, ep, frame)

-----------------------------------------------------------------------------
(* Answering the peer, and ending a flow                                   *)

\* reject_inbound, resolve_inbound_rejection
RejectInbound(fc, ep, reason) ==
  Result([fc EXCEPT !.pending_inbound = NoRequest], ep,
         Send(FlowReject(fc.pending_inbound.id, reason), "None"))

\* accept_inbound
AcceptInbound(side, fc, ep) ==
  LET request == fc.pending_inbound
      decided == [fc EXCEPT !.pending_inbound = NoRequest]
      policy == PolicyOf[side][request.mode]
  IN IF ~ValidPolicy(policy, request.mode) THEN Result(decided, ep, Error(NoCode))
     ELSE IF request.max_message_bytes > policy.message_bytes
     THEN RejectInbound(fc, ep, "MessageLimit")
     ELSE IF Active(side, fc, "Inbound") >= Settings[side].max_active_incoming_flows
     THEN RejectInbound(fc, ep, "ResourceLimit")
     ELSE IF KeyOf(side, request.id) \in DOMAIN ep.flows
     THEN Result(decided, ep, Error(NoCode))
     ELSE IF AtFlowLimit(side, ep, request.id, request.mode) \/ ~CanRegister(decided)
     THEN RejectInbound(fc, ep, "ResourceLimit")
     ELSE Result(Register(decided, request.id, request.mode),
                 EstablishFlow(side, ep, request.id, request.mode),
                 Send(FlowAccept(request.id), "None"))

\* terminate_local of a registered flow
TerminateLocal(side, fc, ep, id, reason) ==
  Result(ReleaseFlow(fc, id), Terminate(ep, KeyOf(side, id)),
         Send(FlowTerminate(id, reason), reason))
=============================================================================
