----------------------- MODULE EstablishedConnection -----------------------
(***************************************************************************)
(* The two ends of an established connection (connection_driver.rs with    *)
(* flow_driver.rs, reliable_driver.rs, datagram_driver.rs, datagram.rs and *)
(* the facade public_connection.rs): each end has one slot to send control *)
(* frames from, holds back at most one frame it received, moves data only  *)
(* while nothing waits in the slot, and drives its flows over streams and  *)
(* datagrams. A driver polls its eight categories in turn; each thing one  *)
(* of them can do is an action here, in any order.                         *)
(***************************************************************************)
EXTENDS FlowControl, ReliableStream

CONSTANTS
  Window,           \* control frames under way in one direction at a time
  StagingBytes,     \* StagingBytes[side]: the longest reliable message it can stage
  LastSequence,     \* the last sequence number a datagram can carry
  Requests,         \* Requests[side]: the modes of the flows a host asks for
  MaxMessages       \* bound on the messages submitted to a flow, by its mode

ASSUME EstablishedConnectionAssumption ==
  /\ Window \in Nat \ {0}
  /\ StagingBytes \in [Sides -> Nat \ {0}]
  /\ LastSequence \in Index
  /\ Requests \in [Sides -> SUBSET Mode]
  /\ MaxMessages \in [Mode -> Nat]
  /\ \A id \in Ids, mode \in Mode :
       \A n \in 1 .. MaxMessages[mode] : [flow |-> id, n |-> n] \in Payloads

VARIABLES
  end,         \* the driver of either side
  wire,        \* wire[side]: the control frames under way from side
  streams,     \* the stream of every reliable flow that has one
  datagrams,   \* the datagrams under way, which may arrive in any order or never
  closed,      \* what either side closed the connection with
  told,        \* told[side][id]: how a flow ended, as its host was told
  history      \* what was accepted, admitted and exposed of every flow

vars == <<end, wire, streams, datagrams, closed, told, history>>

-----------------------------------------------------------------------------
(* An end                                                                  *)

NoFrame == [type |-> "NoFrame"]
NoSend == [frame |-> NoFrame, cause |-> "None"]

\* ended: the control streams were given up while the connection was open.
NewEnd ==
  [phase |-> "Active", sender |-> NoSend, deferred |-> NoFrame, ended |-> FALSE,
   fc |-> NewFlowControl, ep |-> NewEndpoint,
   outbound |-> EmptyMap, inbound |-> EmptyMap]

\* require_control_send_ready, data_poll_allowed
IsReady(e) == e.phase = "Active" /\ e.sender = NoSend

\* Mutant of ShouldDefer: a frame is processed although its answer has no slot.
ShouldDeferRequest(e, frame) ==
  e.fc.pending_inbound # NoRequest /\ frame.type = "OpenFlow"

\* Mutant of ShouldDefer: a request waits for the answer to the end's own.
ShouldDeferWhileAsking(e, frame) ==
  \/ e.sender # NoSend
  \/ e.fc.pending_inbound # NoRequest /\ frame.type = "OpenFlow"
  \/ e.fc.pending_outbound # EmptyMap /\ frame.type = "OpenFlow"

\* should_defer_received_frame
ShouldDefer(e, frame) ==
  \/ e.sender # NoSend
  \/ e.fc.pending_inbound # NoRequest /\ frame.type = "OpenFlow"

\* start_control_send
StartSend(e, frame, cause) == [e EXCEPT !.sender = [frame |-> frame, cause |-> cause]]

\* enter_terminal: what waited to be sent or processed is dropped.
EnterTerminal(e, phase, code) ==
  [e EXCEPT !.phase = phase, !.sender = NoSend, !.deferred = NoFrame,
            !.ended = phase = "Failed" /\ code = NoCode]

Closed(side, code) ==
  [closed EXCEPT ![side] = IF code # NoCode /\ @ = "Open" THEN code ELSE @]

\* The host learns of a flow's end at most once.
Tell(side, id, cause) ==
  IF cause = "None" THEN told
  ELSE [told EXCEPT ![side][id] = IF @ = "None" THEN cause ELSE "Twice"]

\* schedule_outbound: an established reliable flow is to have a stream.
ScheduleOutbound(e, id) ==
  IF e.fc.registry[id].mode = Reliable
  THEN [e EXCEPT !.outbound = Put(@, id, NewOutbound)] ELSE e

\* process_received_frame, route_flow_control_progress and start_prepared_send of
\* what flow control made of a frame or a decision.
Routed(side, e, result) ==
  LET progress == result.progress
      after == [e EXCEPT !.fc = result.fc, !.ep = result.ep]
  IN CASE progress.kind = "Send" -> StartSend(after, progress.frame, progress.cause)
       [] progress.kind = "Error" -> EnterTerminal(after, "Failed", progress.cause)
       [] progress.kind = "OutboundEstablished" -> ScheduleOutbound(after, progress.id)
       [] OTHER -> after

Route(side, e, result) ==
  /\ end' = [end EXCEPT ![side] = Routed(side, e, result)]
  /\ closed' = IF result.progress.kind = "Error" THEN Closed(side, result.progress.cause)
               ELSE closed
  /\ told' = IF result.progress.kind \in {"Send", "Error"} THEN told
             ELSE Tell(side, result.progress.id, result.progress.cause)

-----------------------------------------------------------------------------
(* What the host asks for (public_connection.rs)                           *)

\* open_outbound_flow, open_outbound
OpenOutboundFlow(side, mode) ==
  LET e == end[side]
      id == FlowId(side, e.fc.local_flow_ids)
      open == PrepareOutboundOpen(side, e.fc, mode)
  IN /\ IsReady(e)
     /\ CanOpen(side, e.fc, e.ep, mode)
     /\ end' = [end EXCEPT ![side] = StartSend([e EXCEPT !.fc = open.fc], open.frame, "None")]
     /\ history' = [history EXCEPT ![id].mode = mode]
     /\ UNCHANGED <<wire, streams, datagrams, closed, told>>

\* reliable_staging_rejection
ExceedsStaging(side, request) ==
  request.mode = Reliable /\ request.max_message_bytes > StagingBytes[side]

\* accept_incoming_flow, accept_inbound: what the end cannot stage it rejects.
AcceptIncomingFlow(side) ==
  LET e == end[side]
      request == e.fc.pending_inbound
      result == IF ExceedsStaging(side, request)
                THEN RejectInbound(e.fc, e.ep, "ResourceLimit")
                ELSE AcceptInbound(side, e.fc, e.ep)
  IN /\ IsReady(e)
     /\ request # NoRequest
     /\ Route(side, e, result)
     /\ history' = [history EXCEPT ![request.id].admitted = request.id \in DOMAIN result.fc.registry]
     /\ UNCHANGED <<wire, streams, datagrams>>

\* reject_incoming_flow, reject_inbound, for either reason the profile has
RejectIncomingFlow(side) ==
  LET e == end[side]
  IN /\ IsReady(e)
     /\ e.fc.pending_inbound # NoRequest
     /\ \E reason \in RejectReasons : Route(side, e, RejectInbound(e.fc, e.ep, reason))
     /\ UNCHANGED <<wire, streams, datagrams, history>>

NextPayload(id) == [flow |-> id, n |-> history[id].accepted + 1]

Accepted(side, id) ==
  /\ end' = [end EXCEPT ![side].ep = Submit(@, KeyOf(side, id), NextPayload(id))]
  /\ history' = IF Accepts(end[side].ep, KeyOf(side, id), NextPayload(id))
                THEN [history EXCEPT ![id].accepted = @ + 1] ELSE history

\* submit of a reliable flow asks the delivery endpoint alone, whatever the slot.
SubmitReliable(side, id) ==
  LET e == end[side]
  IN /\ e.phase = "Active"
     /\ id \in DOMAIN e.outbound /\ id \in DOMAIN e.fc.registry
     /\ CanSubmit(e.ep, KeyOf(side, id), NextPayload(id))
     /\ history[id].accepted < MaxMessages[Reliable]
     /\ Accepted(side, id)
     /\ UNCHANGED <<wire, streams, datagrams, closed, told>>

\* The flow's registration, as a datagram needs it.
SendsDatagrams(e, side, id) ==
  id.side = side /\ id \in DOMAIN e.fc.registry /\ e.fc.registry[id].mode # Reliable

\* The index a datagram would carry cannot be written any more.
IsExhausted(e, side, id) ==
  /\ e.fc.registry[id].mode = Sequenced
  /\ e.ep.flows[KeyOf(side, id)].next_accepted_index > LastSequence

\* submit_unreliable
SubmitUnreliable(side, id) ==
  LET e == end[side]
  IN /\ IsReady(e)
     /\ SendsDatagrams(e, side, id)
     /\ CanSubmit(e.ep, KeyOf(side, id), NextPayload(id))
     /\ history[id].accepted < MaxMessages[e.fc.registry[id].mode]
     /\ ~IsExhausted(e, side, id)
     /\ Accepted(side, id)
     /\ UNCHANGED <<wire, streams, datagrams, closed, told>>

\* submit_unreliable of a message too many, classify_datagram_sequence_exhaustion
ExhaustSequence(side, id) ==
  LET e == end[side]
  IN /\ IsReady(e)
     /\ SendsDatagrams(e, side, id)
     /\ history[id].accepted < MaxMessages[Sequenced]
     /\ IsExhausted(e, side, id)
     /\ Route(side, e, TerminateLocal(side, e.fc, e.ep, id, "Normal"))
     /\ UNCHANGED <<wire, streams, datagrams, history>>

\* request_finish_normal
CanFinish(e, side, id) ==
  LET binding == e.outbound[id]
  IN /\ binding.state = "Writing" /\ binding.header
     /\ KeyOf(side, id) \in DOMAIN e.ep.flows
     /\ e.ep.flows[KeyOf(side, id)].outbound = <<>>

\* finish_outbound_flow_normal of a reliable flow: what fails changes nothing.
FinishReliable(side, id) ==
  LET e == end[side]
  IN /\ IsReady(e)
     /\ id \in DOMAIN e.outbound /\ id \in DOMAIN e.fc.registry
     /\ CanFinish(e, side, id)
     /\ end' = [end EXCEPT ![side].outbound[id] = Finishing(@)]
     /\ streams' = [streams EXCEPT ![id] = Finished(@)]
     /\ UNCHANGED <<wire, datagrams, closed, told, history>>

\* finish_outbound_flow_normal of an unreliable flow
FinishUnreliable(side, id) ==
  LET e == end[side]
  IN /\ IsReady(e)
     /\ SendsDatagrams(e, side, id)
     /\ Route(side, e, TerminateLocal(side, e.fc, e.ep, id, "Normal"))
     /\ UNCHANGED <<wire, streams, datagrams, history>>

\* DeliveryEndpoint::poll_exposure
PollExposure(side, id) ==
  LET e == end[side]
      k == KeyOf(side, id)
  IN /\ id.side # side
     /\ k \in DOMAIN e.ep.flows
     /\ Ready(e.ep.flows[k])
     /\ end' = [end EXCEPT ![side].ep = Poll(@, k)]
     /\ history' = [history EXCEPT ![id].exposed =
                      Append(@, Exposure(e.ep.flows[k]).payload)]
     /\ UNCHANGED <<wire, streams, datagrams, closed, told>>

\* terminate_connection
WithoutFlows(ep) ==
  FoldSet(LAMBDA k, left : Terminate(left, k), ep,
          {k \in DOMAIN ep.flows : k.connection = Connection})

\* teardown, teardown_connection: every flow ends, and what the driver held is dropped.
Teardown(side) ==
  LET e == end[side]
      torn == [EnterTerminal(e, "TornDown", NoCode) EXCEPT
                 !.ended = e.ended, !.ep = WithoutFlows(@),
                 !.fc = [@ EXCEPT !.pending_outbound = EmptyMap,
                                  !.pending_inbound = NoRequest, !.registry = EmptyMap],
                 !.outbound = EmptyMap, !.inbound = EmptyMap]
  IN /\ e.phase # "TornDown"
     /\ end' = [end EXCEPT ![side] = torn]
     /\ closed' = Closed(side, "NoError")
     /\ wire' = [wire EXCEPT ![Other(side)] = <<>>]
     /\ UNCHANGED <<streams, datagrams, told, history>>

-----------------------------------------------------------------------------
(* Control frames                                                          *)

\* poll_control_send: the written frame's effect is what the host is told.
CompleteControlSend(side) ==
  LET e == end[side]
      send == e.sender
  IN /\ send # NoSend
     /\ Len(wire[side]) < Window
     /\ end' = [end EXCEPT ![side].sender = NoSend]
     /\ wire' = [wire EXCEPT ![side] =
                   IF end[Other(side)].phase = "Active" THEN Append(@, send.frame) ELSE @]
     /\ told' = Tell(side, send.frame.id, send.cause)
     /\ UNCHANGED <<streams, datagrams, closed, history>>

\* poll_control_receive of a frame that has arrived
ReceiveControl(side) ==
  LET e == end[side]
      frame == Head(wire[Other(side)])
  IN /\ e.phase = "Active" /\ e.deferred = NoFrame
     /\ wire[Other(side)] # <<>>
     /\ wire' = [wire EXCEPT ![Other(side)] = Tail(@)]
     /\ IF ShouldDefer(e, frame)
        THEN /\ end' = [end EXCEPT ![side].deferred = frame]
             /\ UNCHANGED <<closed, told>>
        ELSE Route(side, e, ReceiveFrame(side, e.fc, e.ep, frame))
     /\ UNCHANGED <<streams, datagrams, history>>

\* poll_control_receive of a frame that was held back
ProcessDeferred(side) ==
  LET e == end[side]
  IN /\ e.deferred # NoFrame
     /\ ~ShouldDefer(e, e.deferred)
     /\ Route(side, [e EXCEPT !.deferred = NoFrame],
              ReceiveFrame(side, e.fc, e.ep, e.deferred))
     /\ UNCHANGED <<wire, streams, datagrams, history>>

-----------------------------------------------------------------------------
(* Reliable flows                                                          *)

\* fail of a binding ends a flow the delivery endpoint still has, unless its key has
\* gone to another (fail_reliable_custody).
EndsDelivery(side, e, id) ==
  LET k == KeyOf(side, id)
  IN k \in DOMAIN e.ep.flows /\ e.ep.flows[k].mode = Reliable

Cleaned(side, e, id) ==
  [e EXCEPT !.fc = ReleaseFlow(@, id),
            !.ep = IF EndsDelivery(side, e, id) THEN Terminate(@, KeyOf(side, id)) ELSE @,
            !.outbound = Drop(@, {id}), !.inbound = Drop(@, {id})]

\* resolved_failure_context: the peer is to know of a flow that was still there.
IsReportable(side, e, id) == id \in DOMAIN e.fc.registry \/ EndsDelivery(side, e, id)

\* prepare_established_data_failure: the report is sent, and then told to the host.
Reported(e, id, reason) == StartSend(e, FlowTerminate(id, reason), reason)

\* Mutant of FailFlow: the end releases the flow and says nothing.
FailFlowQuietly(side, e, id, reason) == Cleaned(side, e, id)

\* apply_data_failure
FailFlow(side, e, id, reason) ==
  IF IsReportable(side, e, id) THEN Reported(Cleaned(side, e, id), id, reason)
  ELSE Cleaned(side, e, id)

\* poll_outbound_acquisition: a flow that has ended meanwhile is Cancelled.
AcquireOutbound(side, id) ==
  LET e == end[side]
  IN /\ IsReady(e)
     /\ id \in DOMAIN e.outbound /\ e.outbound[id].state = "Acquiring"
     /\ IF CanAssociateStream(e.fc, id)
        THEN /\ end' = [end EXCEPT ![side].fc = AssociateStream(@, id),
                                   ![side].outbound[id] = Bound(@)]
             /\ streams' = Put(streams, id, NewStream)
        ELSE /\ end' = [end EXCEPT ![side].outbound = Drop(@, {id})]
             /\ UNCHANGED streams
     /\ UNCHANGED <<wire, datagrams, closed, told, history>>

\* poll_outbound_binding of a binding that has a stream
IsBound(e, id) ==
  IsReady(e) /\ id \in DOMAIN e.outbound /\ e.outbound[id].state # "Acquiring"

HasPending(e, k) == k \in DOMAIN e.ep.flows /\ e.ep.flows[k].outbound # <<>>

\* The flow is gone, or messages were submitted after it was finished.
CannotGoOn(e, k, binding) ==
  \/ k \notin DOMAIN e.ep.flows
  \/ binding.state = "Finishing" /\ HasPending(e, k)

\* poll_step of OutboundReliable: advance of one segment
WriteSegment(side, id) ==
  LET e == end[side]
      k == KeyOf(side, id)
      binding == e.outbound[id]
  IN /\ IsBound(e, id)
     /\ ~CannotGoOn(e, k, binding) /\ binding.state = "Writing"
     /\ ~binding.header \/ HasPending(e, k)
     /\ IF ~binding.header
        THEN /\ streams' = [streams EXCEPT ![id] = Written(@, Header)]
             /\ end' = [end EXCEPT ![side].outbound[id] = HeaderWritten(@)]
        ELSE /\ streams' = [streams EXCEPT ![id] =
                              Written(@, Message(e.ep.flows[k].outbound[1].payload))]
             /\ end' = [end EXCEPT ![side].outbound[id] = MessageWritten(@),
                                   ![side].ep = CommitCustody(@, k)]
     /\ UNCHANGED <<wire, datagrams, closed, told, history>>

\* poll_step of OutboundReliable: a stop is seen by whoever writes or waits for the
\* end. The reset of a finished stream may come too late to have an effect.
FailOutbound(side, id) ==
  LET e == end[side]
      k == KeyOf(side, id)
      binding == e.outbound[id]
  IN /\ IsBound(e, id)
     /\ \/ CannotGoOn(e, k, binding)
        \/ /\ streams[id].stopped
           /\ binding.state = "Finishing" \/ ~binding.header \/ HasPending(e, k)
     /\ end' = [end EXCEPT ![side] = FailFlow(side, e, id, "ReliableDeliveryFailure")]
     /\ \/ streams' = [streams EXCEPT ![id] = WasReset(@)]
        \/ streams[id].end = "Fin" /\ UNCHANGED streams
     /\ UNCHANGED <<wire, datagrams, closed, told, history>>

\* poll_step of OutboundReliable: the peer's transport has it all.
AcknowledgeFinish(side, id) ==
  LET e == end[side]
      k == KeyOf(side, id)
  IN /\ IsBound(e, id)
     /\ e.outbound[id].state = "Finishing" /\ ~CannotGoOn(e, k, e.outbound[id])
     /\ closed[Other(side)] = "Open"
     /\ end' = [end EXCEPT ![side].fc = ReleaseFlow(@, id), ![side].ep = Terminate(@, k),
                           ![side].outbound = Drop(@, {id})]
     /\ told' = Tell(side, id, "Normal")
     /\ UNCHANGED <<wire, streams, datagrams, closed, history>>

\* poll_inbound_acquisition
AcquireInbound(side, id) ==
  LET e == end[side]
  IN /\ IsReady(e)
     /\ id.side # side /\ id \in DOMAIN streams /\ Arrives(streams[id])
     /\ end' = [end EXCEPT ![side].inbound = Put(@, id, NewInbound)]
     /\ streams' = [streams EXCEPT ![id] = Acquired(@)]
     /\ UNCHANGED <<wire, datagrams, closed, told, history>>

\* poll_inbound_binding of a binding that still reads
IsReading(e, id) == IsReady(e) /\ id \in DOMAIN e.inbound /\ ~e.inbound[id].draining

\* A failure that belongs to no flow the end knows of ends the connection
\* (classify_unresolved_reliable_receive).
FailUnresolved(side, e, code) ==
  /\ end' = [end EXCEPT ![side] = EnterTerminal(e, "Failed", code)]
  /\ closed' = Closed(side, code)

\* poll_step of InboundReliable: the flow identifier
ReadHeader(side, id) ==
  LET e == end[side]
  IN /\ IsReading(e, id)
     /\ streams[id].data # <<>> /\ Head(streams[id].data) = Header
     /\ IF CanAssociateStream(e.fc, id)
        THEN /\ end' = [end EXCEPT ![side].fc = AssociateStream(@, id),
                                   ![side].inbound[id] = Associated(@)]
             /\ streams' = [streams EXCEPT ![id] = Consumed(@)]
             /\ UNCHANGED closed
        ELSE /\ FailUnresolved(side, [e EXCEPT !.inbound = Drop(@, {id})],
                               "ProfileProtocolError")
             /\ streams' = [streams EXCEPT ![id] = Stopped(@)]
     /\ UNCHANGED <<wire, datagrams, told, history>>

\* poll_step of InboundReliable: a message, for a flow the end may have released. The
\* indices of a stream may run out as those of a flow do (AcceptedIndexExhausted).
ReadMessage(side, id) ==
  LET e == end[side]
      k == KeyOf(side, id)
      t == [index |-> e.inbound[id].next, payload |-> Head(streams[id].data).payload]
      received == [e EXCEPT !.ep = Receive(@, k, Reliable, t),
                            !.inbound[id] = MessageRead(@)]
      Fails(reason, left) ==
        /\ end' = [end EXCEPT ![side] = FailFlow(side, left, id, reason)]
        /\ streams' = [streams EXCEPT ![id] = Stopped(@)]
  IN /\ IsReading(e, id) /\ e.inbound[id].associated
     /\ streams[id].data # <<>> /\ Head(streams[id].data) # Header
     /\ IF t.index \notin Index \/ k \notin DOMAIN e.ep.flows
        THEN Fails("ProtocolFailure", e)
        ELSE IF FailsReliably(e.ep, k, Reliable, t)
        THEN Fails("ReliableDeliveryFailure", received)
        ELSE /\ end' = [end EXCEPT ![side] = received]
             /\ streams' = [streams EXCEPT ![id] = Consumed(@)]
     /\ UNCHANGED <<wire, datagrams, closed, told, history>>

\* poll_step of InboundReliable: the peer has reset the stream.
ReadReset(side, id) ==
  LET e == end[side]
  IN /\ IsReading(e, id)
     /\ streams[id].end = "Reset"
     /\ IF e.inbound[id].associated
        THEN /\ end' = [end EXCEPT ![side] = FailFlow(side, e, id, "ReliableDeliveryFailure")]
             /\ UNCHANGED closed
        ELSE FailUnresolved(side, [e EXCEPT !.inbound = Drop(@, {id})], NoCode)
     /\ streams' = [streams EXCEPT ![id] = Stopped(@)]
     /\ UNCHANGED <<wire, datagrams, told, history>>

\* Mutant of HasDrained: what was read and not exposed yet does not keep the flow.
HasDrainedEarly(e, k) == k \in DOMAIN e.ep.flows

\* drain: the host has had every message, or the flow has ended otherwise.
HasDrained(e, k) == k \in DOMAIN e.ep.flows /\ e.ep.flows[k].pending_messages = 0

\* poll_step of InboundReliable from the end of the stream on
DrainStream(side, id) ==
  LET e == end[side]
      k == KeyOf(side, id)
      over == [e EXCEPT !.fc = ReleaseFlow(@, id), !.inbound = Drop(@, {id})]
  IN /\ IsReady(e) /\ id \in DOMAIN e.inbound
     /\ AtFin(streams[id]) /\ e.inbound[id].associated
     /\ \/ /\ k \notin DOMAIN e.ep.flows
           /\ end' = [end EXCEPT ![side] = over]
           /\ UNCHANGED told
        \/ /\ HasDrained(e, k)
           /\ end' = [end EXCEPT ![side] = [over EXCEPT !.ep = Terminate(@, k)]]
           /\ told' = Tell(side, id, "Normal")
        \/ /\ k \in DOMAIN e.ep.flows /\ ~HasDrained(e, k)
           /\ ~e.inbound[id].draining
           /\ end' = [end EXCEPT ![side].inbound[id] = Draining(@)]
           /\ UNCHANGED told
     /\ UNCHANGED <<wire, streams, datagrams, closed, history>>

-----------------------------------------------------------------------------
(* Datagrams                                                               *)

\* encode_datagram: an unordered datagram carries no index.
DatagramOf(id, mode, t) ==
  [id |-> id, payload |-> t.payload, index |-> IF mode = Unordered THEN 0 ELSE t.index]

\* drive_one: a datagram that has grown too long for the path is dropped.
SendDatagram(side, id) ==
  LET e == end[side]
      k == KeyOf(side, id)
      datagram == DatagramOf(id, e.fc.registry[id].mode, Head(e.ep.flows[k].outbound))
  IN /\ IsReady(e)
     /\ SendsDatagrams(e, side, id)
     /\ HasPending(e, k)
     /\ end' = [end EXCEPT ![side].ep = CommitCustody(@, k)]
     /\ datagrams' \in {datagrams, datagrams \cup {datagram}}
     /\ UNCHANGED <<wire, streams, closed, told, history>>

\* receive_datagram: a datagram of a flow that is not, or no longer, there is discarded,
\* and one for a reliable flow ends the flow.
DatagramReceived(side, e, id, t) ==
  IF id \notin DOMAIN e.fc.registry THEN e
  ELSE IF e.fc.registry[id].mode = Reliable
  THEN Routed(side, e, TerminateLocal(side, e.fc, e.ep, id, "ProtocolFailure"))
  ELSE [e EXCEPT !.ep = Receive(@, KeyOf(side, id), e.fc.registry[id].mode, t)]

ReceiveDatagram(side, datagram) ==
  LET t == [index |-> datagram.index, payload |-> datagram.payload]
  IN /\ IsReady(end[side])
     /\ datagram.id.side # side
     /\ datagrams' = datagrams \ {datagram}
     /\ end' = [end EXCEPT ![side] = DatagramReceived(side, @, datagram.id, t)]
     /\ UNCHANGED <<wire, streams, closed, told, history>>

-----------------------------------------------------------------------------
(* The end of the connection                                               *)

\* What the transport may show of the connection's end: the peer's close, the loss of
\* the connection, or control streams that ended while it was open.
Endings(side) ==
  LET peer == Other(side)
  IN {ending \in {"PeerClosed", "Failed", "ControlEnded"} :
        CASE ending = "PeerClosed" -> closed[peer] = "NoError"
          [] ending = "Failed" -> closed[side] = "Lost" \/ closed[peer] \notin {"Open", "NoError", "Lost"}
          [] ending = "ControlEnded" -> end[peer].ended}

CodeOf(ending) == IF ending = "ControlEnded" THEN "ControlFrameError" ELSE NoCode
PhaseOf(ending) == IF ending = "PeerClosed" THEN "PeerClosed" ELSE "Failed"

Ended(side, ending) ==
  /\ end[side].phase = "Active"
  /\ ending \in Endings(side)
  /\ end' = [end EXCEPT ![side] = EnterTerminal(@, PhaseOf(ending), CodeOf(ending))]
  /\ closed' = Closed(side, CodeOf(ending))
  /\ UNCHANGED <<wire, streams, datagrams, history>>

\* poll_control_receive sees it: what waited to be sent is dropped with its effect.
EndedOnReceive(side, ending) ==
  /\ end[side].deferred = NoFrame
  /\ ending = "ControlEnded" => wire[Other(side)] = <<>>
  /\ Ended(side, ending)
  /\ UNCHANGED told

\* poll_control_send sees it: the host is told the effect nevertheless
\* (peer_close_preceding_event, map_established_driver_error). After a close without
\* error poll_step asks for control frames first.
EndedOnSend(side, ending) ==
  LET send == end[side].sender
  IN /\ send # NoSend
     /\ ending = "PeerClosed" => end[side].deferred # NoFrame
     /\ Ended(side, ending)
     /\ told' = Tell(side, send.frame.id, send.cause)

\* A data category sees it.
EndedOnData(side, ending) ==
  LET e == end[side]
  IN /\ IsReady(e)
     /\ ending # "ControlEnded"
     /\ ending = "PeerClosed" => e.deferred # NoFrame /\ ShouldDefer(e, e.deferred)
     /\ Ended(side, ending)
     /\ UNCHANGED told

\* The transport gives the connection up.
LoseTransport ==
  /\ \A side \in Sides : closed[side] = "Open"
  /\ closed' = [side \in Sides |-> "Lost"]
  /\ UNCHANGED <<end, wire, streams, datagrams, told, history>>

-----------------------------------------------------------------------------
Init ==
  /\ end = [side \in Sides |-> NewEnd]
  /\ wire = [side \in Sides |-> <<>>]
  /\ streams = EmptyMap
  /\ datagrams = {}
  /\ closed = [side \in Sides |-> "Open"]
  /\ told = [side \in Sides |-> [id \in Ids |-> "None"]]
  /\ history = [id \in Ids |-> [mode |-> "None", accepted |-> 0, admitted |-> FALSE,
                                exposed |-> <<>>]]

Decide(side) == AcceptIncomingFlow(side) \/ RejectIncomingFlow(side)

\* What a host does when it likes.
Ask(side) ==
  \/ \E mode \in Requests[side] : OpenOutboundFlow(side, mode)
  \/ \E id \in Ids :
       \/ SubmitReliable(side, id)
       \/ SubmitUnreliable(side, id)
       \/ ExhaustSequence(side, id)
       \/ FinishReliable(side, id)
       \/ FinishUnreliable(side, id)
  \/ Teardown(side)

\* poll, category by category; the arrival of datagrams is left out.
Drive(side) ==
  \/ CompleteControlSend(side)
  \/ ReceiveControl(side)
  \/ ProcessDeferred(side)
  \/ \E id \in Ids :
       \/ AcquireOutbound(side, id)
       \/ WriteSegment(side, id)
       \/ FailOutbound(side, id)
       \/ AcknowledgeFinish(side, id)
       \/ AcquireInbound(side, id)
       \/ ReadHeader(side, id)
       \/ ReadMessage(side, id)
       \/ ReadReset(side, id)
       \/ DrainStream(side, id)
       \/ SendDatagram(side, id)
  \/ \E ending \in Endings(side) :
       EndedOnReceive(side, ending) \/ EndedOnSend(side, ending) \/ EndedOnData(side, ending)

Next ==
  \/ \E side \in Sides :
       \/ Ask(side)
       \/ Decide(side)
       \/ \E id \in Ids : PollExposure(side, id)
       \/ Drive(side)
       \/ \E datagram \in datagrams : ReceiveDatagram(side, datagram)
  \/ LoseTransport

Spec == Init /\ [][Next]_vars

\* A host that polls its connection until nothing is left to do, decides on what it
\* is asked, takes what is exposed, and tears a connection down that is over.
Serve(side) ==
  \/ Drive(side)
  \/ Decide(side)
  \/ \E id \in Ids : PollExposure(side, id)
  \/ end[side].phase # "Active" /\ Teardown(side)

\* poll wakes the task that polls it for as long as there is something to do. Nobody
\* has to ask for anything, and datagrams need not arrive.
FairSpec == Spec /\ \A side \in Sides : WF_vars(Serve(side))

-----------------------------------------------------------------------------
(* What holds of it                                                        *)

\* Where a flow is in its life, at the end that asks for it and at the other.
OpenerState(id) ==
  LET e == end[id.side]
  IN IF id.sequence >= e.fc.local_flow_ids THEN "Fresh"
     ELSE IF id \in DOMAIN e.fc.pending_outbound THEN "Asking"
     ELSE IF id \in DOMAIN e.fc.registry THEN "Open"
     ELSE IF told[id.side][id] = "Rejected" THEN "Refused"
     ELSE "Over"

AcceptorState(id) ==
  LET e == end[Other(id.side)]
  IN IF id.sequence >= e.fc.peer_flow_ids THEN "Fresh"
     ELSE IF e.fc.pending_inbound.id = id THEN "Deciding"
     ELSE IF id \in DOMAIN e.fc.registry THEN "Open"
     ELSE IF history[id].admitted THEN "Over"
     ELSE "Refused"

StateOf(side, id) == IF id.side = side THEN OpenerState(id) ELSE AcceptorState(id)

\* The control frames on their way from side, from the oldest on.
FramesFrom(side) ==
  (IF end[Other(side)].deferred = NoFrame THEN <<>> ELSE <<end[Other(side)].deferred>>)
  \o wire[side]
  \o (IF end[side].sender = NoSend THEN <<>> ELSE <<end[side].sender.frame>>)

UnderWay(side, type, id) ==
  Cardinality({i \in DOMAIN FramesFrom(side) :
                 FramesFrom(side)[i].type = type /\ FramesFrom(side)[i].id = id})

IsConnected == \A side \in Sides : end[side].phase = "Active"

Frames ==
  {NoFrame}
  \cup {OpenFlow(id, mode, PolicyOf[id.side][mode].message_bytes) : id \in Ids, mode \in Mode}
  \cup {FlowAccept(id) : id \in Ids}
  \cup {FlowReject(id, reason) :
           id \in Ids, reason \in RejectReasons}
  \cup {FlowTerminate(id, cause) :
           id \in Ids, cause \in {"Normal", "ResourceFailure", "ProtocolFailure",
                                  "ReliableDeliveryFailure"}}

\* The frames, the phases of either end and what its host was told are what the code
\* has for them (connection_driver.rs), and an end that is not active waits for
\* nothing.
TypeOK ==
  /\ \A side \in Sides :
       LET e == end[side]
       IN /\ e.phase \in {"Active", "PeerClosed", "Failed", "TornDown"}
          /\ {e.sender.frame, e.deferred} \cup Range(wire[side]) \subseteq Frames
          /\ e.phase # "Active" => e.sender = NoSend /\ e.deferred = NoFrame
          /\ DOMAIN e.outbound \subseteq {id \in Ids : id.side = side}
          /\ DOMAIN e.inbound \subseteq {id \in Ids : id.side # side}
  /\ DOMAIN streams \subseteq Ids
  /\ \A id \in Ids : history[id].mode \in Mode \cup {"None"}

\* Whatever one end still waits for or keeps, the other has an answer or an end of it
\* under way (flow_control.rs, connection_driver.rs): an unanswered OPEN_FLOW is in
\* exactly one place, an accepted flow the opener does not know of yet has its ACCEPT
\* coming, and a flow only one end still has is being terminated, or finished by the
\* end of its stream. No frame is lost by holding one back, no answer is given twice.
NothingIsForgotten ==
  IsConnected =>
    \A id \in Ids :
      LET opener == OpenerState(id)
          acceptor == AcceptorState(id)
          asked == UnderWay(id.side, "OpenFlow", id)
          answered == UnderWay(Other(id.side), "FlowAccept", id)
                      + UnderWay(Other(id.side), "FlowReject", id)
          \* The opener's finish has been acknowledged, or its reset is to be read.
          ended == id \in DOMAIN streams /\ streams[id].end # "Open"
          drained == told[Other(id.side)][id] = "Normal" /\ history[id].mode = Reliable
      IN /\ asked <= 1 /\ answered <= 1
         /\ opener = "Asking" <=>
              asked + answered + (IF acceptor = "Deciding" THEN 1 ELSE 0) = 1
         /\ acceptor = "Deciding" => end[Other(id.side)].fc.pending_inbound.mode = history[id].mode
         /\ acceptor = "Open" /\ opener \in {"Over", "Refused"} =>
              UnderWay(id.side, "FlowTerminate", id) = 1 \/ ended
         /\ opener = "Open" /\ acceptor \in {"Over", "Refused"} =>
              UnderWay(Other(id.side), "FlowTerminate", id) = 1 \/ drained

\* While an end is active, its registry of accepted flows and its delivery endpoint
\* have the same flows, in the same modes and directions (quinn_binding.rs registry,
\* delivery.rs), whatever ended one of them: a frame, a stream, pressure or the host.
\* Whoever drives a stream drives it for such a flow, or has yet to notice its end.
RegistryMatchesEndpoint ==
  /\ TypeOK
  /\ \A side \in Sides :
       LET e == end[side]
       IN e.phase \in {"Active", "PeerClosed"} =>
            /\ {KeyOf(side, id) : id \in DOMAIN e.fc.registry} = DOMAIN e.ep.flows
            /\ \A id \in DOMAIN e.fc.registry :
                 /\ e.fc.registry[id].mode = e.ep.flows[KeyOf(side, id)].mode
                 /\ e.fc.registry[id].mode = Reliable =>
                      e.fc.registry[id].associated =
                        IF id.side = side THEN e.outbound[id].state # "Acquiring"
                        ELSE id \in DOMAIN e.inbound /\ e.inbound[id].associated

\* The host of an active end is told of the end of every flow it had, and told once
\* (public_connection.rs): by the frame, the stream or its own report, whichever of
\* them ended the flow first. Until then the report waits in the slot.
EndsAreToldOnce ==
  \A side \in Sides, id \in Ids :
    /\ told[side][id] # "Twice"
    /\ StateOf(side, id) = "Open" => told[side][id] = "None"
    /\ end[side].phase = "Active" /\ StateOf(side, id) = "Over" =>
         \/ told[side][id] # "None"
         \/ end[side].sender.frame = FlowTerminate(id, end[side].sender.cause)

\* A reliable flow that both hosts were told ended normally has delivered every
\* message that was accepted for it, in order (quinn_binding.rs, FIN and drain).
NormalMeansDelivered ==
  \A id \in Ids :
    history[id].mode = Reliable /\ (\A side \in Sides : told[side][id] = "Normal") =>
      /\ Len(history[id].exposed) = history[id].accepted
      /\ \A i \in DOMAIN history[id].exposed : history[id].exposed[i].n = i

\* Every flow lives the life of FlowLifecycle, from the request to the end.
Life(id) == INSTANCE FlowLifecycle WITH
  mode <- history[id].mode, opener <- OpenerState(id), acceptor <- AcceptorState(id),
  accepted <- history[id].accepted,
  exposed <- [i \in DOMAIN history[id].exposed |-> history[id].exposed[i].n]

FlowsLiveTheirLives ==
  /\ \A id \in Ids : Life(id)!Init
  /\ [][\A id \in Ids : [Life(id)!Next]_(Life(id)!vars)]_vars

\* Every request is answered or given up, and what one end has ended the other ends
\* too, through frames, streams and the host's own progress, or with the connection:
\* whatever the hosts ask for, there is a moment when nothing of the kind is open
\* (connection_driver.rs, poll_step).
FlowsSettle ==
  []<>\A id \in Ids :
        /\ OpenerState(id) # "Asking"
        /\ OpenerState(id) = "Over" => AcceptorState(id) # "Open"
        /\ AcceptorState(id) = "Over" => OpenerState(id) # "Open"

\* No end closes the connection for a breach of the flow protocol: both keep to it.
FailuresStayLocal ==
  \A side \in Sides : closed[side] \notin {"FlowProtocolError", "ProfileProtocolError"}

\* That a reliable flow has failed reaches the host, whatever ends the connection
\* meanwhile (public_connection.rs, peer_close_preceding_event).
EvidenceIsKept ==
  [][\A side \in Sides :
       LET send == end[side].sender
       IN send.cause = "ReliableDeliveryFailure" /\ end'[side].phase = "PeerClosed" =>
            told'[side][send.frame.id] # "None"]_vars
=============================================================================
