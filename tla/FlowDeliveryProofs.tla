------------------------- MODULE FlowDeliveryProofs -------------------------
(***************************************************************************)
(* What becomes of the messages of a reliable flow between the two ends of *)
(* an established connection, for any number of flows, any policies,       *)
(* limits and settings: a flow that ended normally has delivered them all. *)
(*                                                                         *)
(* The invariant of a connection (ConnectionProofs) says how the parts of  *)
(* either end agree. Here one relates the ends of a flow: what the opener  *)
(* keeps, what is on the stream and what the acceptor keeps are together   *)
(* the messages that were accepted and are not yet exposed.                *)
(***************************************************************************)
EXTENDS ConnectionProofs

-----------------------------------------------------------------------------
(* The way of a reliable flow's messages                                   *)

\* The message n of the flow id, and the chunk i of its stream.
Piece(id, n) == [flow |-> id, n |-> n]
ChunkOf(id, i) == IF i = 1 THEN Header ELSE Message(Piece(id, i - 1))

\* What the opener keeps of a flow that accepted so many messages: the queue has the last
\* of them, the stream was given the others.
IsSending(id, e, accepted) ==
  /\ ~IsDecided(id.side, e.fc, id) => accepted = 0
  /\ id \in DOMAIN e.fc.registry =>
       LET q == e.ep.flows[KeyOf(id.side, id)].outbound
       IN /\ Len(q) <= accepted
          /\ \A i \in DOMAIN q : q[i].payload = Piece(id, accepted - Len(q) + i)
          /\ id \in DOMAIN e.outbound =>
               /\ e.outbound[id].next = accepted - Len(q)
               /\ ~e.outbound[id].header => e.outbound[id].next = 0
               /\ e.outbound[id].state = "Acquiring" => ~e.outbound[id].header
               /\ e.outbound[id].state = "Finishing" => e.outbound[id].header

\* What the acceptor keeps of it, having exposed x: the buffer has what was read of the
\* stream and not exposed.
IsReceiving(id, r, x) ==
  LET side == Other(id.side)
  IN /\ x \in Seq(Payloads) /\ \A i \in DOMAIN x : x[i] = Piece(id, i)
     /\ ~IsDecided(side, r.fc, id) => x = <<>>
     /\ id \in DOMAIN r.inbound /\ ~r.inbound[id].associated => r.inbound[id].next = 0
     /\ id \in DOMAIN r.fc.registry =>
          LET flow == r.ep.flows[KeyOf(side, id)]
          IN /\ flow.next_exposure = Len(x)
             /\ \A i \in DOMAIN flow.by_index : flow.by_index[i] = Piece(id, i + 1)
             /\ ~r.fc.registry[id].associated => DOMAIN flow.by_index = {} /\ x = <<>>
             /\ id \in DOMAIN r.inbound /\ r.inbound[id].associated =>
                  /\ DOMAIN flow.by_index = Len(x) .. r.inbound[id].next - 1
                  /\ Len(x) <= r.inbound[id].next

\* So many chunks has the opener written, or the acceptor read, if it still has the
\* stream, or has seen its end.
HasWritten(id, e, accepted, T, n) ==
  \/ /\ id \in DOMAIN e.outbound /\ id \in DOMAIN e.fc.registry
     /\ e.outbound[id].state # "Acquiring"
     /\ n = (IF e.outbound[id].header THEN 1 ELSE 0) + e.outbound[id].next
  \/ T[id] = "Normal" /\ n = 1 + accepted

HasRead(id, r, S, n) ==
  \/ ~S[id].acquired /\ n = 0
  \/ id \in DOMAIN r.inbound /\ n = IF r.inbound[id].associated THEN 1 + r.inbound[id].next ELSE 0

\* The opener writes no more, if it still has the flow.
IsFinished(id, e) ==
  id \in DOMAIN e.outbound /\ id \in DOMAIN e.fc.registry => e.outbound[id].state = "Finishing"

\* What is on the stream was written and is to be read.
IsStreaming(id, e, r, accepted, T, S) ==
  id \in DOMAIN S =>
    /\ S[id].end = "Fin" => IsFinished(id, e)
    /\ \A m \in Nat : HasRead(id, r, S, m) =>
         /\ ~S[id].stopped
         /\ \A i \in DOMAIN S[id].data : S[id].data[i] = ChunkOf(id, m + i)
         /\ \A n \in Nat : HasWritten(id, e, accepted, T, n) => Len(S[id].data) = n - m

\* The acceptor has exposed all that was written, and no more will be.
AllIsExposed(id, e, accepted, x, T) ==
  /\ IsDecided(id.side, e.fc, id) /\ IsFinished(id, e)
  /\ \A n \in Nat : HasWritten(id, e, accepted, T, n) => n = 1 + Len(x)

\* How far a reliable flow is, whose opener is e and its acceptor r, of what their hosts
\* were told, T and R, and of what is known of it, h.
Delivery(id, e, r, S, T, R, h) ==
  /\ IsSending(id, e, h.accepted) /\ IsReceiving(id, r, h.exposed)
  /\ IsStreaming(id, e, r, h.accepted, T, S)
  /\ R[id] = "Normal" => AllIsExposed(id, e, h.accepted, h.exposed, T)

\* Both ends of a flow, and its stream, are as they should be.
Around(id, e, r, S, T, R, adm) ==
  /\ EndIs(id.side, e, T, adm) /\ EndIs(Other(id.side), r, R, adm)
  /\ id \in DOMAIN S =>
       /\ StreamIs(S[id]) /\ IsDecided(id.side, e.fc, id)
       /\ id \in DOMAIN e.outbound => e.outbound[id].state # "Acquiring"
  /\ id \in DOMAIN r.inbound => id \in DOMAIN S /\ S[id].acquired

\* They are in a connection that is.
LEMMA FlowIsAround ==
  ASSUME ConnectionInv, NEW id \in Ids
  PROVE  Around(id, end[id.side], end[Other(id.side)], streams, told[id.side],
                told[Other(id.side)], Admitted(history))
<1>1. id.side \in Sides /\ Other(id.side) \in Sides
  BY IdsHave
<1> QED
  BY <1>1 DEF Around, ConnectionInv, StreamsAre, WiresAre

\* The stream loses nothing that is still to be read, and is finished by nobody.
IsQuietStream(id, r, S, after) ==
  id \in DOMAIN after =>
    /\ id \in DOMAIN S /\ after[id].acquired = S[id].acquired
    /\ after[id].end = "Fin" => S[id].end = "Fin"
    /\ \/ after[id].data = S[id].data /\ after[id].stopped = S[id].stopped
       \/ after[id].acquired /\ id \notin DOMAIN r.inbound

\* A step that moves no messages, in which a flow ends normally only when all were
\* written, or exposed.
IsQuiet(id, e, e2, r, r2, S, S2, T, T2, R, R2, h) ==
  /\ Calm(id.side, e, e2, id) /\ Calm(Other(id.side), r, r2, id)
  /\ IsQuietStream(id, r2, S, S2)
  /\ T2[id] = "Normal" => HasWritten(id, e, h.accepted, T, 1 + h.accepted)
  /\ R2[id] = "Normal" => R[id] = "Normal" \/ AllIsExposed(id, e, h.accepted, h.exposed, T)

\* Such a step gets a flow no further.
LEMMA QuietlyDelivers ==
  ASSUME NEW id \in Ids, NEW e, NEW e2, NEW r, NEW r2, NEW S, NEW S2, NEW T, NEW T2,
         NEW R, NEW R2, NEW h, NEW adm, h.accepted \in Nat,
         Around(id, e, r, S, T, R, adm), Delivery(id, e, r, S, T, R, h),
         IsQuiet(id, e, e2, r, r2, S, S2, T, T2, R, R2, h)
  PROVE  Delivery(id, e2, r2, S2, T2, R2, h)
<1> DEFINE side == id.side
           peer == Other(id.side)
           k == KeyOf(side, id)
           K == KeyOf(peer, id)
<1>1. /\ id \in DOMAIN e.fc.registry => IsDecided(side, e.fc, id)
      /\ id \in DOMAIN e.outbound => IsDecided(side, e.fc, id)
  BY DEF Around, EndIs, FlowControlIs, OutboundIs
<1>2. /\ id \in DOMAIN r.fc.registry => IsDecided(peer, r.fc, id)
      /\ id \in DOMAIN r.inbound /\ r.inbound[id].associated => IsDecided(peer, r.fc, id)
  BY DEF Around, EndIs, FlowControlIs, InboundIs
<1>3. /\ IsDecided(side, e.fc, id) => IsDecided(side, e2.fc, id)
      /\ id \in DOMAIN e2.fc.registry =>
           \/ /\ id \in DOMAIN e.fc.registry /\ e2.ep.flows[k] = e.ep.flows[k]
           \/ ~IsDecided(side, e.fc, id) /\ IsUnused(e2.ep.flows[k])
      /\ id \in DOMAIN e2.outbound =>
           \/ id \in DOMAIN e.outbound /\ e2.outbound[id] = e.outbound[id]
           \/ ~IsDecided(side, e.fc, id) /\ e2.outbound[id] = NewOutbound
  BY DEF IsQuiet, Calm
<1>4. /\ IsDecided(peer, r.fc, id) => IsDecided(peer, r2.fc, id)
      /\ id \in DOMAIN r2.fc.registry =>
           \/ /\ id \in DOMAIN r.fc.registry /\ r2.ep.flows[K] = r.ep.flows[K]
              /\ r2.fc.registry[id].associated = r.fc.registry[id].associated
           \/ ~IsDecided(peer, r.fc, id) /\ IsUnused(r2.ep.flows[K])
              /\ ~r2.fc.registry[id].associated
      /\ id \in DOMAIN r2.inbound =>
           /\ id \in DOMAIN r.inbound /\ r2.inbound[id].next = r.inbound[id].next
           /\ r2.inbound[id].associated = r.inbound[id].associated
  BY DEF IsQuiet, Calm
<1>5. /\ NewOutbound.state = "Acquiring" /\ ~NewOutbound.header /\ NewOutbound.next = 0
      /\ Len(<<>>) = 0 /\ DOMAIN EmptyMap = {}
  BY EmptyMapIsEmpty DEF NewOutbound
<1>6. IsSending(id, e2, h.accepted)
  <2>1. IsSending(id, e, h.accepted)
    BY DEF Delivery
  <2>2. ~IsDecided(side, e2.fc, id) => h.accepted = 0
    BY <1>3, <2>1 DEF IsSending
  <2>3. ASSUME id \in DOMAIN e2.fc.registry
        PROVE  LET q == e2.ep.flows[k].outbound
               IN /\ Len(q) <= h.accepted
                  /\ \A i \in DOMAIN q : q[i].payload = Piece(id, h.accepted - Len(q) + i)
                  /\ id \in DOMAIN e2.outbound =>
                       /\ e2.outbound[id].next = h.accepted - Len(q)
                       /\ ~e2.outbound[id].header => e2.outbound[id].next = 0
                       /\ e2.outbound[id].state = "Acquiring" => ~e2.outbound[id].header
                       /\ e2.outbound[id].state = "Finishing" => e2.outbound[id].header
    <3>1. CASE id \in DOMAIN e.fc.registry /\ e2.ep.flows[k] = e.ep.flows[k]
      <4>1. id \in DOMAIN e2.outbound =>
              id \in DOMAIN e.outbound /\ e2.outbound[id] = e.outbound[id]
        BY <1>1, <1>3, <3>1
      <4> QED
        BY <2>1, <3>1, <4>1 DEF IsSending
    <3>2. CASE ~IsDecided(side, e.fc, id) /\ IsUnused(e2.ep.flows[k])
      <4>1. e2.ep.flows[k].outbound = <<>> /\ h.accepted = 0
        BY <2>1, <3>2 DEF IsSending, IsUnused
      <4>2. id \in DOMAIN e2.outbound => e2.outbound[id] = NewOutbound
        BY <1>1, <1>3, <3>2
      <4> QED
        BY <1>5, <4>1, <4>2
    <3> QED
      BY <1>3, <2>3, <3>1, <3>2
  <2> QED
    BY <2>2, <2>3 DEF IsSending
<1>7. IsReceiving(id, r2, h.exposed)
  <2> DEFINE x == h.exposed
  <2>1. IsReceiving(id, r, x)
    BY DEF Delivery
  <2> HIDE DEF x
  <2>2. /\ x \in Seq(Payloads) /\ \A i \in DOMAIN x : x[i] = Piece(id, i)
        /\ ~IsDecided(peer, r2.fc, id) => x = <<>>
        /\ id \in DOMAIN r2.inbound /\ ~r2.inbound[id].associated => r2.inbound[id].next = 0
    BY <1>4, <2>1 DEF IsReceiving
  <2>3. ASSUME id \in DOMAIN r2.fc.registry
        PROVE  LET flow == r2.ep.flows[K]
               IN /\ flow.next_exposure = Len(x)
                  /\ \A i \in DOMAIN flow.by_index : flow.by_index[i] = Piece(id, i + 1)
                  /\ ~r2.fc.registry[id].associated => DOMAIN flow.by_index = {} /\ x = <<>>
                  /\ id \in DOMAIN r2.inbound /\ r2.inbound[id].associated =>
                       /\ DOMAIN flow.by_index = Len(x) .. r2.inbound[id].next - 1
                       /\ Len(x) <= r2.inbound[id].next
    <3>1. CASE /\ id \in DOMAIN r.fc.registry /\ r2.ep.flows[K] = r.ep.flows[K]
               /\ r2.fc.registry[id].associated = r.fc.registry[id].associated
      BY <1>4, <2>1, <3>1 DEF IsReceiving
    <3>2. CASE /\ ~IsDecided(peer, r.fc, id) /\ IsUnused(r2.ep.flows[K])
               /\ ~r2.fc.registry[id].associated
      <4>1. /\ r2.ep.flows[K].next_exposure = 0 /\ DOMAIN r2.ep.flows[K].by_index = {}
            /\ x = <<>>
        BY <1>5, <2>1, <3>2 DEF IsReceiving, IsUnused
      <4>2. ~(id \in DOMAIN r2.inbound /\ r2.inbound[id].associated)
        BY <1>2, <1>4, <3>2
      <4> QED
        BY <1>5, <4>1, <4>2
    <3> QED
      BY <1>4, <2>3, <3>1, <3>2
  <2> QED
    BY <2>2, <2>3 DEF IsReceiving, x
<1>8. /\ id \in DOMAIN S2 => id \in DOMAIN S /\ S2[id].acquired = S[id].acquired
      /\ id \in DOMAIN S2 /\ S2[id].end = "Fin" => S[id].end = "Fin"
      /\ \A m : id \in DOMAIN S2 /\ HasRead(id, r2, S2, m) =>
           /\ HasRead(id, r, S, m)
           /\ S2[id].data = S[id].data /\ S2[id].stopped = S[id].stopped
  BY <1>4 DEF IsQuiet, IsQuietStream, HasRead
<1>9. ASSUME NEW n \in Nat, HasWritten(id, e2, h.accepted, T2, n)
      PROVE  HasWritten(id, e, h.accepted, T, n)
  BY <1>1, <1>3, <1>5, <1>9 DEF HasWritten, IsQuiet
<1>10. IsDecided(side, e.fc, id) => (IsFinished(id, e) => IsFinished(id, e2))
  BY <1>3 DEF IsFinished
<1>11. IsStreaming(id, e2, r2, h.accepted, T2, S2)
  <2>1. id \in DOMAIN S2 => IsDecided(side, e.fc, id)
    BY <1>8 DEF Around
  <2>2. id \in DOMAIN S2 => IsStreaming(id, e, r, h.accepted, T, S) /\ id \in DOMAIN S
    BY <1>8 DEF Delivery
  <2> QED
    BY <1>8, <1>9, <1>10, <2>1, <2>2 DEF IsStreaming
<1>12. R2[id] = "Normal" => AllIsExposed(id, e2, h.accepted, h.exposed, T2)
  <2>1. R2[id] = "Normal" => AllIsExposed(id, e, h.accepted, h.exposed, T)
    BY DEF IsQuiet, Delivery
  <2> QED
    BY <1>3, <1>9, <1>10, <2>1 DEF AllIsExposed
<1> QED
  BY <1>6, <1>7, <1>11, <1>12 DEF Delivery

-----------------------------------------------------------------------------
(* Modes                                                                   *)

Unreliable == {Unordered, Sequenced}

\* The mode of every flow that was asked for.
Modes(h) == [id \in Ids |-> h[id].mode]

\* A flow is asked for in the mode m has for it.
AsksRightly(frame, m) == frame \in OpenFrames => m[frame.id] = frame.mode

\* Only the end of a flow without a stream is reported as normal.
SaysRightly(sender, m) ==
  AsksRightly(sender.frame, m) /\ (sender.cause = "Normal" => m[sender.frame.id] \in Unreliable)

\* Whoever asks for, is asked for or has a flow knows its mode.
FlowsKnown(fc, m) ==
  /\ \A id \in DOMAIN fc.pending_outbound : m[id] = fc.pending_outbound[id]
  /\ \A id \in DOMAIN fc.registry : m[id] = fc.registry[id].mode
  /\ AsksRightly(fc.pending_inbound, m)

ModesAt(e, m) == FlowsKnown(e.fc, m) /\ SaysRightly(e.sender, m) /\ AsksRightly(e.deferred, m)

\* All that is known or asked of flows, at either end or on the wire, has their modes;
\* those that were not opened have none.
ModesAre ==
  /\ \A side \in Sides : ModesAt(end[side], Modes(history))
  /\ \A side \in Sides : \A i \in DOMAIN wire[side] : AsksRightly(wire[side][i], Modes(history))
  /\ \A id \in Ids : ~IsKnown(id.side, end[id.side].fc, id) => history[id].mode = "None"

\* No new flow is known of.
KnowsNoMore(fc, left) ==
  /\ left.local_flow_ids = fc.local_flow_ids
  /\ \A id \in DOMAIN left.pending_outbound :
       id \in DOMAIN fc.pending_outbound /\ left.pending_outbound[id] = fc.pending_outbound[id]
  /\ \A id \in DOMAIN left.registry :
       id \in DOMAIN fc.registry /\ left.registry[id].mode = fc.registry[id].mode
  /\ left.pending_inbound \in {fc.pending_inbound, NoRequest}

\* Only a request asks for anything.
LEMMA OthersAskNothing ==
  ASSUME NEW m
  PROVE  /\ AsksRightly(NoFrame, m) /\ AsksRightly(NoRequest, m) /\ SaysRightly(NoSend, m)
         /\ \A id : AsksRightly(FlowAccept(id), m)
         /\ \A id, reason : /\ AsksRightly(FlowReject(id, reason), m)
                            /\ AsksRightly(FlowTerminate(id, reason), m)
<1>1. \A frame \in OpenFrames : frame.type = "OpenFlow" /\ frame.id \in Ids
  BY DEF OpenFrames, OpenFlow
<1>2. \A frame : frame.type # "OpenFlow" => AsksRightly(frame, m)
  BY <1>1 DEF AsksRightly
<1>3. NoFrame.type = "NoFrame"
  BY DEF NoFrame
<1>4. AsksRightly(NoRequest, m)
  BY <1>1, NoRequestIsOfNone DEF AsksRightly
<1>5. SaysRightly(NoSend, m)
  BY <1>2, <1>3, FramesAre DEF SaysRightly
<1>6. \A id, reason : /\ FlowAccept(id).type = "FlowAccept"
                      /\ FlowReject(id, reason).type = "FlowReject"
                      /\ FlowTerminate(id, reason).type = "FlowTerminate"
  BY DEF FlowAccept, FlowReject, FlowTerminate
<1> QED
  BY <1>2, <1>3, <1>4, <1>5, <1>6

\* Less is known as well.
LEMMA KnowingLess ==
  ASSUME NEW m, NEW fc, FlowsKnown(fc, m), NEW left, KnowsNoMore(fc, left)
  PROVE  FlowsKnown(left, m)
BY OthersAskNothing DEF FlowsKnown, KnowsNoMore

\* What flow control makes of a frame or a decision: it knows the modes, says only what
\* is right, and leaves the flows it asked for itself in their order.
ResultKnows(fc, result, m) ==
  LET progress == result.progress
  IN /\ FlowsKnown(result.fc, m) /\ result.fc.local_flow_ids = fc.local_flow_ids
     /\ IF progress.kind = "Send"
        THEN SaysRightly([frame |-> progress.frame, cause |-> progress.cause], m)
        ELSE progress.kind # "Error" /\ progress.cause = "Normal" =>
               m[progress.id] \in Unreliable

\* An error says nothing, nor does a refusal or a termination that is not normal.
LEMMA SayingLittle ==
  ASSUME NEW m, NEW fc, NEW left, FlowsKnown(left, m), left.local_flow_ids = fc.local_flow_ids,
         NEW ep
  PROVE  /\ \A code : ResultKnows(fc, Result(left, ep, Error(code)), m)
         /\ \A id, reason :
              ResultKnows(fc, Result(left, ep, Send(FlowReject(id, reason), "None")), m)
         /\ \A id : ResultKnows(fc, Result(left, ep, Send(FlowAccept(id), "None")), m)
         /\ \A id, cause : (cause = "Normal" => m[id] \in Unreliable) =>
              ResultKnows(fc, Result(left, ep, Send(FlowTerminate(id, cause), cause)), m)
         /\ \A kind, id, cause :
              kind # "Send" /\ (cause = "Normal" => m[id] \in Unreliable) =>
                ResultKnows(fc, Result(left, ep, Progress(kind, id, cause)), m)
<1>1. \A progress : /\ Result(left, ep, progress).fc = left
                    /\ Result(left, ep, progress).progress = progress
  BY DEF Result
<1>2. \A frame, cause : /\ Send(frame, cause).kind = "Send" /\ Send(frame, cause).frame = frame
                        /\ Send(frame, cause).cause = cause
  BY DEF Send
<1>3. \A id, cause : FlowTerminate(id, cause).id = id
  BY DEF FlowTerminate
<1>4. ASSUME NEW frame, NEW cause, AsksRightly(frame, m),
             cause = "Normal" => m[frame.id] \in Unreliable
      PROVE  ResultKnows(fc, Result(left, ep, Send(frame, cause)), m)
  BY <1>1, <1>2, <1>4 DEF ResultKnows, SaysRightly
<1>5. \A code : ResultKnows(fc, Result(left, ep, Error(code)), m)
  <2>1. \A code : Error(code).kind = "Error"
    BY DEF Error
  <2> QED
    BY <1>1, <2>1 DEF ResultKnows
<1>6. \A kind, id, cause :
        kind # "Send" /\ (cause = "Normal" => m[id] \in Unreliable) =>
          ResultKnows(fc, Result(left, ep, Progress(kind, id, cause)), m)
  <2>1. \A kind, id, cause : /\ Progress(kind, id, cause).kind = kind
                             /\ Progress(kind, id, cause).id = id
                             /\ Progress(kind, id, cause).cause = cause
    BY DEF Progress
  <2> QED
    BY <1>1, <2>1 DEF ResultKnows
<1> QED
  BY <1>3, <1>4, <1>5, <1>6, OthersAskNothing

\* A decision against a request says nothing of a mode.
LEMMA RejectingKnows ==
  ASSUME NEW m, NEW side \in Sides, NEW fc, FlowControlIs(side, fc), FlowsKnown(fc, m),
         NEW ep, NEW reason
  PROVE  ResultKnows(fc, RejectInbound(fc, ep, reason), m)
<1> DEFINE left == [fc EXCEPT !.pending_inbound = NoRequest]
<1>1. KnowsNoMore(fc, left)
  BY FlowControlHas DEF KnowsNoMore
<1>2. RejectInbound(fc, ep, reason) =
        Result(left, ep, Send(FlowReject(fc.pending_inbound.id, reason), "None"))
  BY DEF RejectInbound
<1>3. FlowsKnown(left, m) /\ left.local_flow_ids = fc.local_flow_ids
  BY <1>1, KnowingLess DEF KnowsNoMore
<1> HIDE DEF left
<1> QED
  BY <1>2, <1>3, SayingLittle

\* A flow is admitted in the mode it was asked for in.
LEMMA AcceptingKnows ==
  ASSUME NEW m, NEW side \in Sides, NEW fc, FlowControlIs(side, fc), FlowsKnown(fc, m),
         fc.pending_inbound # NoRequest, NEW ep
  PROVE  ResultKnows(fc, AcceptInbound(side, fc, ep), m)
<1> DEFINE request == fc.pending_inbound
           id == request.id
           mode == request.mode
           left == [fc EXCEPT !.pending_inbound = NoRequest]
           more == Register(left, id, mode)
           after == EstablishFlow(side, ep, id, mode)
<1>1. KnowsNoMore(fc, left)
  BY FlowControlHas DEF KnowsNoMore
<1>2. FlowsKnown(left, m) /\ left.local_flow_ids = fc.local_flow_ids
  BY <1>1, KnowingLess DEF KnowsNoMore
<1>3. m[id] = mode
  <2>1. request \in OpenFrames
    BY DEF FlowControlIs
  <2> QED
    BY <2>1 DEF FlowsKnown, AsksRightly
<1>4. FlowsKnown(more, m) /\ more.local_flow_ids = fc.local_flow_ids
  <2>1. left = [local_flow_ids |-> left.local_flow_ids, peer_flow_ids |-> left.peer_flow_ids,
                pending_outbound |-> left.pending_outbound,
                pending_inbound |-> left.pending_inbound, registry |-> left.registry]
    BY FlowControlHas
  <2> HIDE DEF left, id, mode
  <2>2. /\ more.local_flow_ids = left.local_flow_ids
        /\ more.pending_outbound = left.pending_outbound
        /\ more.pending_inbound = left.pending_inbound
        /\ more.registry = Put(left.registry, id, [mode |-> mode, associated |-> FALSE])
    BY <2>1 DEF Register
  <2> HIDE DEF more
  <2>3. \A j \in DOMAIN more.registry :
          IF j = id THEN more.registry[j].mode = mode
          ELSE j \in DOMAIN left.registry /\ more.registry[j] = left.registry[j]
    BY <2>2 DEF Put
  <2>4. \A j \in DOMAIN more.registry : m[j] = more.registry[j].mode
    BY <2>3, <1>2, <1>3 DEF FlowsKnown
  <2> QED
    BY <2>2, <2>4, <1>2 DEF FlowsKnown
<1>5. \A reason : ResultKnows(fc, RejectInbound(fc, ep, reason), m)
  BY RejectingKnows
<1>6. /\ ResultKnows(fc, Result(left, ep, Error(NoCode)), m)
      /\ ResultKnows(fc, Result(more, after, Send(FlowAccept(id), "None")), m)
  <2> HIDE DEF left, more, id, after
  <2> QED
    BY <1>2, <1>4, SayingLittle
<1> QED
  BY <1>5, <1>6 DEF AcceptInbound

\* A host ends a flow normally when it has no stream.
LEMMA TerminatingKnows ==
  ASSUME NEW m, NEW side \in Sides, NEW fc, FlowControlIs(side, fc), FlowsKnown(fc, m),
         NEW ep, NEW id, NEW cause, cause = "Normal" => m[id] \in Unreliable
  PROVE  ResultKnows(fc, TerminateLocal(side, fc, ep, id, cause), m)
<1> DEFINE left == ReleaseFlow(fc, id)
<1>1. KnowsNoMore(fc, left)
  BY ReleaseKeeps DEF KnowsNoMore
<1>2. FlowsKnown(left, m) /\ left.local_flow_ids = fc.local_flow_ids
  BY <1>1, KnowingLess DEF KnowsNoMore
<1> HIDE DEF left
<1> QED
  BY <1>2, SayingLittle DEF TerminateLocal, left

\* The end asked for the flow in the mode it has it in now, and one that has no stream
\* may have ended normally.
LEMMA ReceivingKnows ==
  ASSUME NEW m, NEW side \in Sides, NEW fc, FlowControlIs(side, fc), FlowsKnown(fc, m),
         NEW frame \in Frames, frame # NoFrame, AsksRightly(frame, m), NEW ep
  PROVE  ResultKnows(fc, ReceiveFrame(side, fc, ep, frame), m)
<1> DEFINE id == frame.id
<1>1. /\ frame.type \in {"OpenFlow", "FlowAccept", "FlowReject", "FlowTerminate"}
      /\ frame.type = "OpenFlow" => frame \in OpenFrames
  BY FrameKinds
<1>2. \A after, code : ResultKnows(fc, Result(fc, after, Error(code)), m)
  BY SayingLittle
<1>3. CASE frame.type = "OpenFlow"
  <2> DEFINE left == [fc EXCEPT !.peer_flow_ids = @ + 1]
             asked == [left EXCEPT !.pending_inbound = frame]
             kind == "InboundOpen"
  <2>1. KnowsNoMore(fc, left)
    BY FlowControlHas DEF KnowsNoMore
  <2>2. FlowsKnown(left, m) /\ left.local_flow_ids = fc.local_flow_ids
    BY <2>1, KnowingLess DEF KnowsNoMore
  <2>3. FlowsKnown(asked, m) /\ asked.local_flow_ids = fc.local_flow_ids
    <3>1. left = [local_flow_ids |-> left.local_flow_ids, peer_flow_ids |-> left.peer_flow_ids,
                  pending_outbound |-> left.pending_outbound,
                  pending_inbound |-> left.pending_inbound, registry |-> left.registry]
      BY FlowControlHas
    <3> HIDE DEF left
    <3>2. /\ asked.local_flow_ids = left.local_flow_ids
          /\ asked.pending_outbound = left.pending_outbound
          /\ asked.pending_inbound = frame /\ asked.registry = left.registry
      BY <3>1
    <3> QED
      BY <2>2, <3>2 DEF FlowsKnown
  <2>4. /\ \A reason : ResultKnows(fc, Result(left, ep, Send(FlowReject(id, reason), "None")), m)
        /\ ResultKnows(fc, Result(asked, ep, Progress(kind, id, "None")), m)
    <3>1. kind # "Send"
      OBVIOUS
    <3> HIDE DEF left, asked, id, kind
    <3> QED
      BY <2>2, <2>3, <3>1, SayingLittle
  <2>5. ResultKnows(fc, ReceiveOpen(side, fc, ep, frame), m)
    BY <1>2, <2>4 DEF ReceiveOpen
  <2> QED
    BY <1>2, <1>3, <2>5 DEF ReceiveFrame
<1>4. CASE frame.type \in {"FlowAccept", "FlowReject"}
  <2> DEFINE left == [fc EXCEPT !.pending_outbound = Drop(@, {id})]
             mode == fc.pending_outbound[id]
             more == Register(left, id, mode)
  <2>1. KnowsNoMore(fc, left)
    BY FlowControlHas DEF KnowsNoMore, Drop, Restrict
  <2>2. FlowsKnown(left, m) /\ left.local_flow_ids = fc.local_flow_ids
    BY <2>1, KnowingLess DEF KnowsNoMore
  <2>3. left = [local_flow_ids |-> left.local_flow_ids, peer_flow_ids |-> left.peer_flow_ids,
                pending_outbound |-> left.pending_outbound,
                pending_inbound |-> left.pending_inbound, registry |-> left.registry]
    BY FlowControlHas
  <2>4. IsExpected(side, fc, id) => m[id] = mode
    BY DEF IsExpected, FlowsKnown
  <2> HIDE DEF left, mode
  <2>5. more.local_flow_ids = fc.local_flow_ids
        /\ (IsExpected(side, fc, id) => FlowsKnown(more, m))
    <3>1. /\ more.local_flow_ids = left.local_flow_ids
          /\ more.pending_outbound = left.pending_outbound
          /\ more.pending_inbound = left.pending_inbound
          /\ more.registry = Put(left.registry, id, [mode |-> mode, associated |-> FALSE])
      BY <2>3 DEF Register
    <3> HIDE DEF more, id
    <3>2. \A j \in DOMAIN more.registry :
            IF j = id THEN more.registry[j].mode = mode
            ELSE j \in DOMAIN left.registry /\ more.registry[j] = left.registry[j]
      BY <3>1 DEF Put
    <3>3. m[id] = mode => \A j \in DOMAIN more.registry : m[j] = more.registry[j].mode
      BY <2>2, <3>2 DEF FlowsKnown
    <3> QED
      BY <2>2, <2>4, <3>1, <3>3 DEF FlowsKnown, id
  <2> HIDE DEF more, id
  <2>6. /\ ResultKnows(fc, Result(left, ep, Error(NoCode)), m)
        /\ \A kind, cause : kind # "Send" /\ cause # "Normal" =>
             ResultKnows(fc, Result(left, ep, Progress(kind, id, cause)), m)
        /\ ResultKnows(fc, Result(left, ep, Send(FlowTerminate(id, "ResourceFailure"),
                                                 "ResourceFailure")), m)
    BY <2>2, SayingLittle
  <2>7. \A after, kind : IsExpected(side, fc, id) /\ kind # "Send" =>
          ResultKnows(fc, Result(more, after, Progress(kind, id, "None")), m)
    BY <2>5, SayingLittle
  <2>8. ResultKnows(fc, ReceiveAccept(side, fc, ep, frame), m)
    BY <1>2, <2>6, <2>7 DEF ReceiveAccept, left, more, id, mode
  <2>9. ResultKnows(fc, ReceiveReject(side, fc, ep, frame), m)
    BY <1>2, <2>6 DEF ReceiveReject, left, id
  <2> QED
    BY <1>4, <2>8, <2>9 DEF ReceiveFrame
<1>5. CASE frame.type = "FlowTerminate"
  <2> DEFINE left == ReleaseFlow(fc, id)
             after == Terminate(ep, KeyOf(side, id))
  <2>1. KnowsNoMore(fc, left)
    BY ReleaseKeeps DEF KnowsNoMore
  <2>2. FlowsKnown(left, m) /\ left.local_flow_ids = fc.local_flow_ids
    BY <2>1, KnowingLess DEF KnowsNoMore
  <2>3. id \in DOMAIN fc.registry /\ fc.registry[id].mode # Reliable => m[id] \in Unreliable
    BY DEF FlowsKnown, FlowControlIs, Unreliable, Mode
  <2> HIDE DEF left, after, id
  <2>4. ASSUME frame.reason = "Normal" => m[id] \in Unreliable
        PROVE  ResultKnows(fc, Result(left, after, Progress("RemoteTerminated", id,
                                                             frame.reason)), m)
    BY <2>2, <2>4, SayingLittle
  <2>5. ReceiveFrame(side, fc, ep, frame) = ReceiveTerminate(side, fc, ep, frame)
    BY <1>5 DEF ReceiveFrame
  <2>6. \/ ReceiveTerminate(side, fc, ep, frame) = Result(fc, ep, Error("FlowProtocolError"))
        \/ ReceiveTerminate(side, fc, ep, frame) = Result(fc, ep, Error(NoCode))
        \/ /\ id \in DOMAIN fc.registry
           /\ ~(fc.registry[id].mode = Reliable /\ frame.reason = "Normal")
           /\ ReceiveTerminate(side, fc, ep, frame)
                = Result(left, after, Progress("RemoteTerminated", id, frame.reason))
    BY Zenon DEF ReceiveTerminate, left, after, id
  <2> QED
    BY <1>2, <2>3, <2>4, <2>5, <2>6
<1> QED
  BY <1>1, <1>3, <1>4, <1>5

\* So it goes on from there.
LEMMA RoutedKnows ==
  ASSUME NEW m, NEW side \in Sides, NEW e, NEW T, NEW adm, EndIs(side, e, T, adm),
         ModesAt(e, m), NEW result, ResultKnows(e.fc, result, m)
  PROVE  LET after == Routed(side, e, result)
         IN ModesAt(after, m) /\ after.fc.local_flow_ids = e.fc.local_flow_ids
<1> DEFINE after == Routed(side, e, result)
           progress == result.progress
<1>1. FlowsKnown(result.fc, m) /\ result.fc.local_flow_ids = e.fc.local_flow_ids
  BY DEF ResultKnows
<1>2. after.fc = result.fc
  <2> HIDE DEF after
  <2>1. after = Routed(side, e, result)
    BY DEF after
  <2> QED
    BY <2>1, RoutedIs
<1>3. SaysRightly(after.sender, m) /\ AsksRightly(after.deferred, m)
  <2> HIDE DEF after
  <2>1. after = Routed(side, e, result)
    BY DEF after
  <2>2. CASE progress.kind = "Send"
    <3>1. /\ after.sender = [frame |-> progress.frame, cause |-> progress.cause]
          /\ after.deferred = e.deferred
      BY <2>1, <2>2, RoutedIs
    <3> QED
      BY <2>2, <3>1 DEF ResultKnows, ModesAt
  <2>3. CASE progress.kind = "Error"
    <3>1. after.sender = NoSend /\ after.deferred = NoFrame
      BY <2>1, <2>3, RoutedIs
    <3> QED
      BY <3>1, OthersAskNothing
  <2>4. CASE progress.kind \notin {"Send", "Error"}
    <3>1. after.sender = e.sender /\ after.deferred = e.deferred
      BY <2>1, <2>4, RoutedIs
    <3> QED
      BY <3>1 DEF ModesAt
  <2> QED
    BY <2>2, <2>3, <2>4
<1> QED
  BY <1>1, <1>2, <1>3 DEF ModesAt

\* The frames on the wire ask for what the hosts asked for.
WiresAsk(wires, m) == \A s \in Sides : \A i \in DOMAIN wires[s] : AsksRightly(wires[s][i], m)

\* One end goes on, and the flows keep their modes.
LEMMA ModesStay ==
  ASSUME ConnectionInv, ModesAre, NEW side \in Sides, NEW after,
         end' = [end EXCEPT ![side] = after], ModesAt(after, Modes(history)),
         after.fc.local_flow_ids = end[side].fc.local_flow_ids,
         WiresAsk(wire', Modes(history)),
         \A id \in Ids : history'[id].mode = history[id].mode
  PROVE  ModesAre'
<1>1. end'[side] = after /\ \A s \in Sides \ {side} : end'[s] = end[s]
  BY DEF ConnectionInv
<1>2. Modes(history') = Modes(history)
  BY DEF Modes
<1>3. \A s \in Sides : ModesAt(end'[s], Modes(history'))
  BY <1>1, <1>2 DEF ModesAre
<1>4. ASSUME NEW id \in Ids, ~IsKnown(id.side, end'[id.side].fc, id)
      PROVE  history'[id].mode = "None"
  <2>1. id.side \in Sides
    BY IdsHave
  <2>2. end'[id.side].fc.local_flow_ids = end[id.side].fc.local_flow_ids
    BY <1>1, <2>1
  <2>3. ~IsKnown(id.side, end[id.side].fc, id)
    BY <1>4, <2>2 DEF IsKnown
  <2> QED
    BY <2>3 DEF ModesAre
<1> QED
  BY <1>2, <1>3, <1>4 DEF ModesAre, WiresAsk

\* Nothing new is asked for, and no flow is said to have ended normally.
SaysLittle(sender, after) ==
  \/ after \in {sender, NoSend}
  \/ \E id, cause : /\ cause # "Normal"
                     /\ after = [frame |-> FlowTerminate(id, cause), cause |-> cause]

IsMild(e, after) ==
  /\ KnowsNoMore(e.fc, after.fc) /\ SaysLittle(e.sender, after.sender)
  /\ after.deferred \in {e.deferred, NoFrame}

\* Then one end's step changes no modes.
LEMMA MildlyKnows ==
  ASSUME ConnectionInv, ModesAre, NEW side \in Sides, NEW after,
         end' = [end EXCEPT ![side] = after], IsMild(end[side], after),
         wire' = wire, \A id \in Ids : history'[id].mode = history[id].mode
  PROVE  ModesAre'
<1> DEFINE m == Modes(history)
           e == end[side]
<1>1. ModesAt(e, m) /\ WiresAsk(wire', m)
  BY DEF ModesAre, WiresAsk
<1>2. IsMild(e, after)
  OBVIOUS
<1> HIDE DEF m, e
<1>3. FlowsKnown(after.fc, m) /\ after.fc.local_flow_ids = e.fc.local_flow_ids
  BY <1>1, <1>2, KnowingLess DEF IsMild, ModesAt, KnowsNoMore
<1>4. SaysRightly(after.sender, m)
  <2>1. CASE after.sender \in {e.sender, NoSend}
    BY <1>1, <2>1, OthersAskNothing DEF ModesAt
  <2>2. CASE \E id, cause : /\ cause # "Normal"
                            /\ after.sender = [frame |-> FlowTerminate(id, cause), cause |-> cause]
    BY <2>2, OthersAskNothing DEF SaysRightly
  <2> QED
    BY <1>2, <2>1, <2>2 DEF IsMild, SaysLittle
<1>5. AsksRightly(after.deferred, m)
  BY <1>1, <1>2, OthersAskNothing DEF IsMild, ModesAt
<1>6. ModesAt(after, m)
  BY <1>3, <1>4, <1>5 DEF ModesAt
<1> QED
  BY <1>1, <1>3, <1>6, ModesStay DEF m, e

\* Nobody is told that a flow with a stream ended normally.
OnlyOthersEnd ==
  \A s \in Sides, id \in Ids :
    told'[s][id] = "Normal" => told[s][id] = "Normal" \/ history[id].mode \in Unreliable

\* What flow control makes of a frame or a decision changes no modes.
LEMMA RoutingKnows ==
  ASSUME ConnectionInv, ModesAre, NEW side \in Sides, NEW e, TakesUp(side, e),
         AsksRightly(e.deferred, Modes(history)), NEW result,
         ResultKnows(e.fc, result, Modes(history)),
         end' = [end EXCEPT ![side] = Routed(side, e, result)],
         WiresAsk(wire', Modes(history)),
         \A id \in Ids : history'[id].mode = history[id].mode
  PROVE  ModesAre'
<1> DEFINE m == Modes(history)
           after == Routed(side, e, result)
<1>1. EndIs(side, e, told[side], Admitted(history)) /\ e.fc = end[side].fc
  BY DEF TakesUp
<1>2. ModesAt(e, m)
  <2>1. e.sender = NoSend /\ FlowsKnown(end[side].fc, m)
    BY DEF TakesUp, ModesAre, ModesAt
  <2>2. AsksRightly(e.deferred, m)
    OBVIOUS
  <2> HIDE DEF m
  <2> QED
    BY <1>1, <2>1, <2>2, OthersAskNothing DEF ModesAt
<1>3. ResultKnows(e.fc, result, m) /\ end' = [end EXCEPT ![side] = after]
  OBVIOUS
<1> DEFINE T == told[side]
           adm == Admitted(history)
<1>4. EndIs(side, e, T, adm)
  BY <1>1
<1> HIDE DEF m, T, adm
<1>5. ModesAt(after, m) /\ after.fc.local_flow_ids = e.fc.local_flow_ids
  BY <1>2, <1>3, <1>4, RoutedKnows
<1> HIDE DEF after
<1> QED
  BY <1>1, <1>3, <1>5, ModesStay DEF m

\* Nor does the host hear of a flow with a stream that it ended normally.
LEMMA RoutingTells ==
  ASSUME ConnectionInv, NEW side \in Sides, NEW e, NEW result,
         ResultKnows(e.fc, result, Modes(history)), Route(side, e, result)
  PROVE  OnlyOthersEnd
<1> DEFINE progress == result.progress
           T == told[side]
<1>1. PICK Tafter : /\ IsRouted(result, T, Tafter)
                    /\ told' = [told EXCEPT ![side] = Tafter]
  BY Routing
<1>2. /\ told = [s \in Sides |-> told[s]]
      /\ T \in [Ids -> {"None", "Rejected"} \cup Causes]
  BY DEF ConnectionInv, EndIs, TellingIs
<1> HIDE DEF T
<1>3. ASSUME NEW id \in Ids, Tafter[id] = "Normal"
      PROVE  T[id] = "Normal" \/ history[id].mode \in Unreliable
  <2>1. CASE Tafter = T
    BY <1>3, <2>1
  <2>2. CASE /\ progress.kind \notin {"Send", "Error"}
             /\ Tafter = [T EXCEPT ![progress.id] = IF @ = "None" THEN progress.cause
                                                                  ELSE "Twice"]
    <3>1. progress.cause = "Normal" => Modes(history)[progress.id] \in Unreliable
      BY <2>2 DEF ResultKnows
    <3>2. CASE id = progress.id
      <4>1. Tafter[id] = (IF T[id] = "None" THEN progress.cause ELSE "Twice")
        BY <1>2, <2>2, <3>2
      <4>2. progress.cause = "Normal"
        BY <1>3, <4>1
      <4> QED
        BY <3>1, <3>2, <4>2 DEF Modes
    <3>3. CASE id # progress.id
      BY <1>2, <1>3, <2>2, <3>3
    <3> QED
      BY <3>2, <3>3
  <2> QED
    BY <1>1, <2>1, <2>2 DEF IsRouted
<1>4. ASSUME NEW s \in Sides, NEW id \in Ids, told'[s][id] = "Normal"
      PROVE  told[s][id] = "Normal" \/ history[id].mode \in Unreliable
  BY <1>1, <1>2, <1>3, <1>4 DEF T
<1> QED
  BY <1>4 DEF OnlyOthersEnd

\* The peer rejects a flow, whatever the reason.
LEMMA RejectIncomingFlowKnows ==
  ASSUME ConnectionInv, ModesAre, NEW side \in Sides, RejectIncomingFlow(side)
  PROVE  ModesAre' /\ OnlyOthersEnd
<1> DEFINE e == end[side]
           m == Modes(history)
<1>1. PICK reason \in RejectReasons : Route(side, e, RejectInbound(e.fc, e.ep, reason))
  BY DEF RejectIncomingFlow
<1> DEFINE result == RejectInbound(e.fc, e.ep, reason)
<1>2. IsReady(e) /\ UNCHANGED <<wire, history>>
  BY DEF RejectIncomingFlow
<1>3. TakesUp(side, e) /\ FlowControlIs(side, e.fc) /\ FlowsKnown(e.fc, m)
      /\ AsksRightly(e.deferred, m) /\ WiresAsk(wire', m)
  BY <1>2, ReadyTakesUp DEF ConnectionInv, EndIs, ModesAre, ModesAt, WiresAsk
<1> HIDE DEF e, m
<1>4. ResultKnows(e.fc, result, m)
  BY <1>3, RejectingKnows
<1> HIDE DEF result
<1>5. Route(side, e, result)
  BY <1>1 DEF result
<1>6. end' = [end EXCEPT ![side] = Routed(side, e, result)]
  BY <1>5 DEF Route
<1> QED
  BY <1>2, <1>3, <1>4, <1>5, <1>6, RoutingKnows, RoutingTells DEF m

\* Or accepts it, if it can stage its messages.
LEMMA AcceptIncomingFlowKnows ==
  ASSUME ConnectionInv, ModesAre, NEW side \in Sides, AcceptIncomingFlow(side)
  PROVE  ModesAre' /\ OnlyOthersEnd
<1> DEFINE e == end[side]
           m == Modes(history)
           request == e.fc.pending_inbound
           result == IF ExceedsStaging(side, request)
                     THEN RejectInbound(e.fc, e.ep, "ResourceLimit")
                     ELSE AcceptInbound(side, e.fc, e.ep)
<1>1. /\ IsReady(e) /\ request # NoRequest /\ Route(side, e, result) /\ wire' = wire
      /\ history' = [history EXCEPT ![request.id].admitted =
                       request.id \in DOMAIN result.fc.registry]
  BY DEF AcceptIncomingFlow
<1>2. TakesUp(side, e) /\ FlowControlIs(side, e.fc) /\ FlowsKnown(e.fc, m)
      /\ AsksRightly(e.deferred, m) /\ WiresAsk(wire', m)
  BY <1>1, ReadyTakesUp DEF ConnectionInv, EndIs, ModesAre, ModesAt, WiresAsk
<1>3. \A id \in Ids : history'[id].mode = history[id].mode
  <2>1. history = [id \in Ids |-> history[id]]
        /\ \A id \in Ids : history[id] = [mode |-> history[id].mode,
             accepted |-> history[id].accepted,
             admitted |-> history[id].admitted, exposed |-> history[id].exposed]
    BY DEF ConnectionInv, HistoryIs
  <2> DEFINE admitted == request.id \in DOMAIN result.fc.registry
             i == request.id
  <2>2. history' = [history EXCEPT ![i].admitted = admitted]
    BY <1>1
  <2> HIDE DEF admitted, i
  <2> QED
    BY <2>1, <2>2
<1> HIDE DEF e, m
<1>4. ResultKnows(e.fc, result, m)
  <2>1. ResultKnows(e.fc, RejectInbound(e.fc, e.ep, "ResourceLimit"), m)
    BY <1>2, RejectingKnows
  <2>2. ResultKnows(e.fc, AcceptInbound(side, e.fc, e.ep), m)
    BY <1>1, <1>2, AcceptingKnows
  <2> QED
    BY <2>1, <2>2
<1> HIDE DEF result
<1>5. end' = [end EXCEPT ![side] = Routed(side, e, result)]
  BY <1>1 DEF Route
<1> QED
  BY <1>1, <1>2, <1>3, <1>4, <1>5, RoutingKnows, RoutingTells DEF m

\* A host ends a flow that sends datagrams.
LEMMA EndingLocallyKnows ==
  ASSUME ConnectionInv, ModesAre, NEW side \in Sides, IsReady(end[side]), NEW id \in Ids,
         SendsDatagrams(end[side], side, id),
         Route(side, end[side], TerminateLocal(side, end[side].fc, end[side].ep, id, "Normal")),
         UNCHANGED <<wire, history>>
  PROVE  ModesAre' /\ OnlyOthersEnd
<1> DEFINE e == end[side]
           m == Modes(history)
           result == TerminateLocal(side, e.fc, e.ep, id, "Normal")
<1>1. TakesUp(side, e) /\ FlowControlIs(side, e.fc) /\ FlowsKnown(e.fc, m)
      /\ AsksRightly(e.deferred, m) /\ WiresAsk(wire', m)
  BY ReadyTakesUp DEF ConnectionInv, EndIs, ModesAre, ModesAt, WiresAsk
<1>2. id \in DOMAIN e.fc.registry /\ e.fc.registry[id].mode # Reliable /\ Route(side, e, result)
  BY DEF SendsDatagrams
<1> HIDE DEF e, m
<1>3. m[id] \in Unreliable
  BY <1>1, <1>2 DEF FlowsKnown, FlowControlIs, Unreliable, Mode
<1>4. ResultKnows(e.fc, result, m)
  BY <1>1, <1>3, TerminatingKnows
<1> HIDE DEF result
<1>5. end' = [end EXCEPT ![side] = Routed(side, e, result)]
  BY <1>2 DEF Route
<1> QED
  BY <1>1, <1>2, <1>4, <1>5, RoutingKnows, RoutingTells DEF m

\* A frame that was held back says what it said.
LEMMA ProcessDeferredKnows ==
  ASSUME ConnectionInv, ModesAre, NEW side \in Sides, ProcessDeferred(side)
  PROVE  ModesAre' /\ OnlyOthersEnd
<1> DEFINE e == end[side]
           m == Modes(history)
           taken == [e EXCEPT !.deferred = NoFrame]
           frame == e.deferred
           result == ReceiveFrame(side, e.fc, e.ep, frame)
           T == told[side]
           adm == Admitted(history)
<1>1. /\ frame # NoFrame /\ ~ShouldDefer(e, frame) /\ Route(side, taken, result)
      /\ UNCHANGED <<wire, history>>
  BY DEF ProcessDeferred
<1>2. EndIs(side, e, T, adm) /\ e.sender = NoSend
  BY <1>1 DEF ConnectionInv, ShouldDefer
<1>3. e.phase = "Active" /\ frame \in Frames /\ NoFrame \in Frames /\ FlowControlIs(side, e.fc)
  BY <1>1, <1>2, FramesAre DEF EndIs
<1>4. /\ taken.phase = e.phase /\ taken.sender = e.sender /\ taken.fc = e.fc
      /\ taken.ep = e.ep /\ taken.outbound = e.outbound /\ taken.inbound = e.inbound
      /\ taken.deferred = NoFrame
  BY <1>2 DEF EndIs
<1>5. FlowsKnown(e.fc, m) /\ AsksRightly(frame, m) /\ WiresAsk(wire', m)
  BY <1>1 DEF ModesAre, ModesAt, WiresAsk
<1> HIDE DEF e, taken, adm, T, m
<1>6. EndIs(side, taken, T, adm)
  <2>1. taken = [e EXCEPT !.deferred = NoFrame]
    BY DEF taken
  <2> QED
    BY <2>1, <1>2, <1>3, Deferring
<1>7. TakesUp(side, taken)
  BY <1>2, <1>3, <1>4, <1>6 DEF TakesUp, T, adm, e
<1> HIDE DEF frame
<1>8. ResultKnows(taken.fc, result, m)
  BY <1>1, <1>3, <1>4, <1>5, ReceivingKnows
<1> HIDE DEF result
<1>9. end' = [end EXCEPT ![side] = Routed(side, taken, result)]
  BY <1>1 DEF Route
<1>10. AsksRightly(taken.deferred, m)
  BY <1>4, OthersAskNothing
<1> QED
  BY <1>1, <1>5, <1>7, <1>8, <1>9, <1>10, RoutingKnows, RoutingTells DEF m

\* A frame that arrives says what it said when it was sent.
LEMMA ReceiveControlKnows ==
  ASSUME ConnectionInv, ModesAre, NEW side \in Sides, ReceiveControl(side)
  PROVE  ModesAre' /\ OnlyOthersEnd
<1> DEFINE e == end[side]
           m == Modes(history)
           peer == Other(side)
           frame == Head(wire[peer])
           result == ReceiveFrame(side, e.fc, e.ep, frame)
<1>1. /\ e.phase = "Active" /\ wire[peer] # <<>>
      /\ wire' = [wire EXCEPT ![peer] = Tail(@)] /\ history' = history
  BY DEF ReceiveControl
<1>2. wire \in [Sides -> Seq(Frames \ {NoFrame})] /\ peer \in Sides
  BY IdsHave DEF ConnectionInv, WiresAre
<1>3. ModesAt(e, m) /\ WiresAsk(wire, m)
  BY DEF ModesAre, WiresAsk
<1>4. EndIs(side, e, told[side], Admitted(history)) /\ FlowControlIs(side, e.fc)
  BY DEF ConnectionInv, EndIs
<1> HIDE DEF m, e
<1>5. frame \in Frames /\ frame # NoFrame /\ AsksRightly(frame, m) /\ WiresAsk(wire', m)
  <2> DEFINE w == wire[peer]
  <2>1. w \in Seq(Frames \ {NoFrame}) /\ w # <<>> /\ wire'[peer] = Tail(w) /\ frame = Head(w)
    BY <1>1, <1>2
  <2>2. \A s \in Sides \ {peer} : wire'[s] = wire[s]
    BY <1>1, <1>2
  <2>3. \A i \in DOMAIN w : AsksRightly(w[i], m)
    BY <1>2, <1>3 DEF WiresAsk
  <2> HIDE DEF w
  <2>4. frame = w[1] /\ 1 \in DOMAIN w /\ frame \in Frames /\ frame # NoFrame
    BY <2>1
  <2>5. \A i \in DOMAIN Tail(w) : Tail(w)[i] = w[i + 1] /\ i + 1 \in DOMAIN w
    BY <2>1
  <2> QED
    BY <1>3, <2>1, <2>2, <2>3, <2>4, <2>5 DEF WiresAsk
<1>6. CASE ShouldDefer(e, frame)
  <2> DEFINE held == [e EXCEPT !.deferred = frame]
  <2>1. end' = [end EXCEPT ![side] = held] /\ told' = told
    BY <1>6 DEF ReceiveControl, e
  <2>2. held.fc = e.fc /\ held.sender = e.sender /\ held.deferred = frame
    BY <1>4 DEF EndIs
  <2> HIDE DEF frame, held
  <2>3. ModesAt(held, m)
    BY <1>3, <1>5, <2>2 DEF ModesAt
  <2>4. held.fc.local_flow_ids = end[side].fc.local_flow_ids
    BY <2>2 DEF e
  <2>5. ModesAre'
    BY <1>1, <1>5, <2>1, <2>3, <2>4, ModesStay DEF m
  <2> QED
    BY <2>1, <2>5 DEF OnlyOthersEnd
<1>7. CASE ~ShouldDefer(e, frame)
  <2>1. Route(side, e, result) /\ e.sender = NoSend
    BY <1>7 DEF ReceiveControl, ShouldDefer, e
  <2>2. TakesUp(side, e)
    BY <2>1, <1>1, <1>4 DEF TakesUp, e
  <2> HIDE DEF frame
  <2>3. ResultKnows(e.fc, result, m)
    BY <1>3, <1>4, <1>5, ReceivingKnows DEF ModesAt
  <2> HIDE DEF result
  <2>4. end' = [end EXCEPT ![side] = Routed(side, e, result)]
    BY <2>1 DEF Route
  <2>5. AsksRightly(e.deferred, m)
    BY <1>3 DEF ModesAt
  <2> QED
    BY <1>1, <1>5, <2>1, <2>2, <2>3, <2>4, <2>5, RoutingKnows, RoutingTells DEF m
<1> QED
  BY <1>6, <1>7

\* A datagram ends no flow normally.
LEMMA ReceiveDatagramKnows ==
  ASSUME ConnectionInv, ModesAre, NEW side \in Sides, NEW datagram \in datagrams,
         ReceiveDatagram(side, datagram)
  PROVE  ModesAre' /\ OnlyOthersEnd
<1> DEFINE e == end[side]
           m == Modes(history)
           id == datagram.id
           t == [index |-> datagram.index, payload |-> datagram.payload]
           after == DatagramReceived(side, e, id, t)
<1>1. /\ IsReady(e) /\ end' = [end EXCEPT ![side] = after]
      /\ UNCHANGED <<wire, told, history>>
  BY DEF ReceiveDatagram, ConnectionInv
<1>2. TakesUp(side, e) /\ FlowControlIs(side, e.fc) /\ ModesAt(e, m) /\ WiresAsk(wire', m)
      /\ EndIs(side, e, told[side], Admitted(history))
  BY <1>1, ReadyTakesUp DEF ConnectionInv, EndIs, ModesAre, WiresAsk
<1> HIDE DEF id
<1>3. CASE id \in DOMAIN e.fc.registry /\ e.fc.registry[id].mode = Reliable
  <2> DEFINE result == TerminateLocal(side, e.fc, e.ep, id, "ProtocolFailure")
  <2>1. end' = [end EXCEPT ![side] = Routed(side, e, result)]
    BY <1>1, <1>3 DEF DatagramReceived
  <2> HIDE DEF e, m
  <2>2. ResultKnows(e.fc, result, m)
    BY <1>2, TerminatingKnows DEF ModesAt
  <2> HIDE DEF result
  <2>3. ModesAre'
    BY <1>1, <1>2, <2>1, <2>2, RoutingKnows DEF m, ModesAt
  <2> QED
    BY <1>1, <2>3 DEF OnlyOthersEnd
<1>4. CASE ~(id \in DOMAIN e.fc.registry /\ e.fc.registry[id].mode = Reliable)
  <2> DEFINE ep == Receive(e.ep, KeyOf(side, id), e.fc.registry[id].mode, t)
             received == [e EXCEPT !.ep = ep]
  <2>1. after \in {e, received}
    BY <1>4 DEF DatagramReceived
  <2>2. received.fc = e.fc /\ received.sender = e.sender /\ received.deferred = e.deferred
    <3> HIDE DEF ep
    <3> QED
      BY <1>2 DEF EndIs
  <2> HIDE DEF after, received, e
  <2>3. after.fc = e.fc /\ after.sender = e.sender /\ after.deferred = e.deferred
    BY <2>1, <2>2
  <2>4. IsMild(e, after)
    BY <2>3 DEF IsMild, KnowsNoMore, SaysLittle
  <2>5. ModesAre'
    BY <1>1, <2>4, MildlyKnows DEF e
  <2> QED
    BY <1>1, <2>5 DEF OnlyOthersEnd
<1> QED
  BY <1>3, <1>4

\* One record of the history changes.
Records(id, g) == history'[id] = g /\ \A j \in Ids \ {id} : history'[j] = history[j]

\* The rest of it does not.
LEMMA HistoryHas ==
  ASSUME HistoryIs(history), NEW id \in Ids
  PROVE  LET h == history[id]
         IN /\ \A mode : history' = [history EXCEPT ![id].mode = mode] =>
                 Records(id, [mode |-> mode, accepted |-> h.accepted,
                              admitted |-> h.admitted, exposed |-> h.exposed])
            /\ history' = [history EXCEPT ![id].accepted = @ + 1] =>
                 Records(id, [mode |-> h.mode, accepted |-> h.accepted + 1,
                              admitted |-> h.admitted, exposed |-> h.exposed])
            /\ \A admitted : history' = [history EXCEPT ![id].admitted = admitted] =>
                 Records(id, [mode |-> h.mode, accepted |-> h.accepted,
                              admitted |-> admitted, exposed |-> h.exposed])
            /\ \A exposed : history' = [history EXCEPT ![id].exposed = exposed] =>
                 Records(id, [mode |-> h.mode, accepted |-> h.accepted,
                              admitted |-> h.admitted, exposed |-> exposed])
<1> DEFINE h == history[id]
           n == h.accepted + 1
<1>1. /\ DOMAIN history = Ids
      /\ h = [mode |-> h.mode, accepted |-> h.accepted, admitted |-> h.admitted,
              exposed |-> h.exposed]
  BY DEF HistoryIs
<1>2. ASSUME NEW g, history' = [history EXCEPT ![id] = g]
      PROVE  Records(id, g)
  BY <1>1, <1>2 DEF Records
<1>3. ASSUME NEW mode
      PROVE  [h EXCEPT !.mode = mode]
               = [mode |-> mode, accepted |-> h.accepted, admitted |-> h.admitted,
                  exposed |-> h.exposed]
  BY <1>1
<1>4. [h EXCEPT !.accepted = n]
        = [mode |-> h.mode, accepted |-> n, admitted |-> h.admitted, exposed |-> h.exposed]
  <2> HIDE DEF n, h
  <2> QED
    BY <1>1
<1>5. ASSUME NEW admitted
      PROVE  [h EXCEPT !.admitted = admitted]
               = [mode |-> h.mode, accepted |-> h.accepted, admitted |-> admitted,
                  exposed |-> h.exposed]
  BY <1>1
<1>6. ASSUME NEW exposed
      PROVE  [h EXCEPT !.exposed = exposed]
               = [mode |-> h.mode, accepted |-> h.accepted, admitted |-> h.admitted,
                  exposed |-> exposed]
  BY <1>1
<1>7. history' = [history EXCEPT ![id].accepted = @ + 1] =>
        history' = [history EXCEPT ![id] = [h EXCEPT !.accepted = n]]
  OBVIOUS
<1>8. /\ \A mode : history' = [history EXCEPT ![id].mode = mode] =>
           history' = [history EXCEPT ![id] = [h EXCEPT !.mode = mode]]
      /\ \A admitted : history' = [history EXCEPT ![id].admitted = admitted] =>
           history' = [history EXCEPT ![id] = [h EXCEPT !.admitted = admitted]]
      /\ \A exposed : history' = [history EXCEPT ![id].exposed = exposed] =>
           history' = [history EXCEPT ![id] = [h EXCEPT !.exposed = exposed]]
  OBVIOUS
<1>9. /\ \A mode : history' = [history EXCEPT ![id].mode = mode] =>
           Records(id, [h EXCEPT !.mode = mode])
      /\ history' = [history EXCEPT ![id].accepted = @ + 1] =>
           Records(id, [h EXCEPT !.accepted = n])
      /\ \A admitted : history' = [history EXCEPT ![id].admitted = admitted] =>
           Records(id, [h EXCEPT !.admitted = admitted])
      /\ \A exposed : history' = [history EXCEPT ![id].exposed = exposed] =>
           Records(id, [h EXCEPT !.exposed = exposed])
  <2> HIDE DEF h, n
  <2> QED
    BY <1>2, <1>7, <1>8
<1> QED
  BY <1>3, <1>4, <1>5, <1>6, <1>9

\* A flow keeps its mode when a message of it is accepted, or exposed.
LEMMA ModesHold ==
  ASSUME HistoryIs(history), NEW id \in Ids,
         \/ history' = history
         \/ history' = [history EXCEPT ![id].accepted = @ + 1]
         \/ \E exposed : history' = [history EXCEPT ![id].exposed = exposed]
  PROVE  \A j \in Ids : history'[j].mode = history[j].mode
<1>1. CASE history' = history
  BY <1>1
<1>2. CASE history' = [history EXCEPT ![id].accepted = @ + 1]
  BY <1>2, HistoryHas DEF Records
<1>3. CASE \E exposed : history' = [history EXCEPT ![id].exposed = exposed]
  BY <1>3, HistoryHas DEF Records
<1> QED
  BY <1>1, <1>2, <1>3

\* What an end has.
IsAnEnd(e) ==
  e = [phase |-> e.phase, sender |-> e.sender, deferred |-> e.deferred, ended |-> e.ended,
       fc |-> e.fc, ep |-> e.ep, outbound |-> e.outbound, inbound |-> e.inbound]

\* A failed flow is let go of with all that served it, and its end says nothing else.
FailsAs(e, after, id, reason) ==
  /\ after.fc = ReleaseFlow(e.fc, id) /\ after.deferred = e.deferred
  /\ after.outbound = Drop(e.outbound, {id})
  /\ after.inbound = Drop(e.inbound, {id})
  /\ \/ after.sender = e.sender
     \/ after.sender = [frame |-> FlowTerminate(id, reason), cause |-> reason]

\* What one that fails a flow has left.
LEMMA FailFlowIs ==
  ASSUME NEW side \in Sides, NEW e, IsAnEnd(e),
         NEW id, NEW reason
  PROVE  FailsAs(e, FailFlow(side, e, id, reason), id, reason)
<1> DEFINE after == FailFlow(side, e, id, reason)
           left == ReleaseFlow(e.fc, id)
           ep == IF EndsDelivery(side, e, id) THEN Terminate(e.ep, KeyOf(side, id)) ELSE e.ep
           outbound == Drop(e.outbound, {id})
           inbound == Drop(e.inbound, {id})
           m1 == [e EXCEPT !.fc = left]
           m2 == [m1 EXCEPT !.ep = ep]
           m3 == [m2 EXCEPT !.outbound = outbound]
           m4 == [m3 EXCEPT !.inbound = inbound]
           sender == [frame |-> FlowTerminate(id, reason), cause |-> reason]
<1>1. e = [phase |-> e.phase, sender |-> e.sender, deferred |-> e.deferred,
           ended |-> e.ended, fc |-> e.fc, ep |-> e.ep,
           outbound |-> e.outbound, inbound |-> e.inbound]
  BY DEF IsAnEnd
<1>2. m1 = [phase |-> e.phase, sender |-> e.sender, deferred |-> e.deferred,
            ended |-> e.ended, fc |-> left, ep |-> e.ep,
            outbound |-> e.outbound, inbound |-> e.inbound]
  BY ONLY <1>1
<1>3. Cleaned(side, e, id) = m4
  <2>1. m1.ep = e.ep /\ m1.outbound = e.outbound /\ m1.inbound = e.inbound
    BY <1>2
  <2>2. m2.outbound = e.outbound /\ m2.inbound = e.inbound
    <3> HIDE DEF left, ep
    <3> QED
      BY <1>1
  <2> QED
    BY <1>1 DEF Cleaned
<1> HIDE DEF left, ep, outbound, inbound, m1
<1>4. m2 = [phase |-> e.phase, sender |-> e.sender, deferred |-> e.deferred,
            ended |-> e.ended, fc |-> left, ep |-> ep,
            outbound |-> e.outbound, inbound |-> e.inbound]
  BY ONLY <1>2
<1> HIDE DEF m2
<1>5. m3 = [phase |-> e.phase, sender |-> e.sender, deferred |-> e.deferred,
            ended |-> e.ended, fc |-> left, ep |-> ep,
            outbound |-> outbound, inbound |-> e.inbound]
  BY ONLY <1>4
<1> HIDE DEF m3
<1>6. m4 = [phase |-> e.phase, sender |-> e.sender, deferred |-> e.deferred,
            ended |-> e.ended, fc |-> left, ep |-> ep,
            outbound |-> outbound, inbound |-> inbound]
  BY ONLY <1>5
<1> HIDE DEF m4
<1>7. after \in {m4, [m4 EXCEPT !.sender = sender]}
  BY <1>3 DEF FailFlow, Reported, StartSend
<1> HIDE DEF sender
<1>8. [m4 EXCEPT !.sender = sender]
        = [phase |-> e.phase, sender |-> sender, deferred |-> e.deferred,
           ended |-> e.ended, fc |-> left, ep |-> ep,
           outbound |-> outbound, inbound |-> inbound]
  BY ONLY <1>6
<1> QED
  BY <1>6, <1>7, <1>8 DEF left, outbound, inbound, sender, FailsAs

\* An end that goes on with the same flows, and says nothing.
LEMMA StandingKnows ==
  ASSUME ConnectionInv, ModesAre, NEW side \in Sides, NEW after,
         end' = [end EXCEPT ![side] = after], after.fc = end[side].fc,
         after.sender = end[side].sender, after.deferred = end[side].deferred,
         wire' = wire, \A id \in Ids : history'[id].mode = history[id].mode
  PROVE  ModesAre'
BY MildlyKnows DEF IsMild, KnowsNoMore, SaysLittle

\* What hosts submit and take changes no modes, nor does what an end sends.
LEMMA PassingKnows ==
  ASSUME ConnectionInv, ModesAre, NEW side \in Sides, NEW id \in Ids,
         \/ SubmitReliable(side, id) \/ SubmitUnreliable(side, id)
         \/ PollExposure(side, id) \/ SendDatagram(side, id)
  PROVE  ModesAre'
<1>1. PICK ep : end' = [end EXCEPT ![side].ep = ep]
  BY DEF SubmitReliable, SubmitUnreliable, Accepted, PollExposure, SendDatagram
<1>2. wire' = wire
  BY DEF SubmitReliable, SubmitUnreliable, PollExposure, SendDatagram
<1>3. HistoryIs(history)
  BY DEF ConnectionInv
<1>4. \A j \in Ids : history'[j].mode = history[j].mode
  <2>1. \/ history' = history
        \/ history' = [history EXCEPT ![id].accepted = @ + 1]
        \/ \E exposed : history' = [history EXCEPT ![id].exposed = exposed]
    BY DEF SubmitReliable, SubmitUnreliable, Accepted, PollExposure, SendDatagram
  <2> QED
    BY <1>3, <2>1, ModesHold
<1> DEFINE e == end[side]
           after == [e EXCEPT !.ep = ep]
<1>5. end' = [end EXCEPT ![side] = after]
  BY <1>1
<1>6. after.fc = e.fc /\ after.sender = e.sender /\ after.deferred = e.deferred
  BY DEF ConnectionInv, EndIs
<1> HIDE DEF after
<1> QED
  BY <1>2, <1>4, <1>5, <1>6, StandingKnows

\* A flow that has its stream is one that was there.
LEMMA AssociatingKnows ==
  ASSUME NEW side \in Sides, NEW fc, FlowControlIs(side, fc), NEW id, CanAssociateStream(fc, id)
  PROVE  KnowsNoMore(fc, AssociateStream(fc, id))
<1> DEFINE left == AssociateStream(fc, id)
           yes == TRUE
           r == [fc.registry[id] EXCEPT !.associated = yes]
           registry == [fc.registry EXCEPT ![id] = r]
<1>1. fc = [local_flow_ids |-> fc.local_flow_ids, peer_flow_ids |-> fc.peer_flow_ids,
            pending_outbound |-> fc.pending_outbound, pending_inbound |-> fc.pending_inbound,
            registry |-> fc.registry]
      /\ id \in DOMAIN fc.registry /\ fc.registry[id] \in [mode : Mode, associated : BOOLEAN]
  BY DEF FlowControlIs, CanAssociateStream
<1>2. left = [fc EXCEPT !.registry = registry]
  BY DEF AssociateStream
<1> HIDE DEF yes
<1>3. r.mode = fc.registry[id].mode
  BY <1>1
<1> HIDE DEF r, left
<1>4. /\ DOMAIN registry = DOMAIN fc.registry
      /\ \A j \in DOMAIN fc.registry : registry[j].mode = fc.registry[j].mode
  BY <1>1, <1>3
<1> HIDE DEF registry
<1>5. left = [local_flow_ids |-> fc.local_flow_ids, peer_flow_ids |-> fc.peer_flow_ids,
              pending_outbound |-> fc.pending_outbound, pending_inbound |-> fc.pending_inbound,
              registry |-> registry]
  BY ONLY <1>1, <1>2
<1> QED
  BY <1>4, <1>5 DEF KnowsNoMore, left

\* Whatever is opened or written.
LEMMA OutboundKnows ==
  ASSUME ConnectionInv, ModesAre, NEW side \in Sides, NEW id,
         FinishReliable(side, id) \/ WriteSegment(side, id) \/ AcquireOutbound(side, id)
  PROVE  ModesAre'
<1> DEFINE e == end[side]
<1>1. /\ EndIs(side, e, told[side], Admitted(history)) /\ wire' = wire
      /\ \A j \in Ids : history'[j].mode = history[j].mode
  BY DEF ConnectionInv, FinishReliable, WriteSegment, AcquireOutbound
<1>2. CASE \E outbound : end' = [end EXCEPT ![side].outbound = outbound]
  <2>1. PICK outbound : end' = [end EXCEPT ![side].outbound = outbound]
    BY <1>2
  <2> DEFINE after == [e EXCEPT !.outbound = outbound]
  <2>2. after.fc = e.fc /\ after.sender = e.sender /\ after.deferred = e.deferred
    BY <1>1 DEF EndIs
  <2>3. end' = [end EXCEPT ![side] = after]
    BY <2>1
  <2> HIDE DEF after
  <2> QED
    BY <1>1, <2>2, <2>3, StandingKnows
<1>3. CASE \E ep, b : end' = [end EXCEPT ![side].outbound[id] = b, ![side].ep = ep]
  <2>1. PICK ep, b : end' = [end EXCEPT ![side].outbound[id] = b, ![side].ep = ep]
    BY <1>3
  <2> DEFINE after == [e EXCEPT !.outbound[id] = b, !.ep = ep]
  <2>2. after.fc = e.fc /\ after.sender = e.sender /\ after.deferred = e.deferred
    BY <1>1 DEF EndIs
  <2>3. end' = [end EXCEPT ![side] = after]
    BY <2>1 DEF ConnectionInv
  <2> HIDE DEF after
  <2> QED
    BY <1>1, <2>2, <2>3, StandingKnows
<1>4. CASE \E b : /\ CanAssociateStream(e.fc, id)
                  /\ end' = [end EXCEPT ![side].fc = AssociateStream(@, id),
                                        ![side].outbound[id] = b]
  <2>1. PICK b : end' = [end EXCEPT ![side].fc = AssociateStream(@, id),
                                    ![side].outbound[id] = b]
    BY <1>4
  <2> DEFINE left == AssociateStream(e.fc, id)
             after == [e EXCEPT !.fc = left, !.outbound[id] = b]
  <2>2. end' = [end EXCEPT ![side] = after]
    BY <2>1 DEF ConnectionInv
  <2>3. KnowsNoMore(e.fc, left)
    BY <1>1, <1>4, AssociatingKnows DEF EndIs
  <2> HIDE DEF left
  <2>4. after.fc = left /\ after.sender = e.sender /\ after.deferred = e.deferred
    BY <1>1 DEF EndIs
  <2> HIDE DEF after
  <2> QED
    BY <1>1, <2>2, <2>3, <2>4, MildlyKnows DEF IsMild, SaysLittle
<1> QED
  <2>1. CASE FinishReliable(side, id)
    <3>1. PICK b : end' = [end EXCEPT ![side].outbound[id] = b]
      BY <2>1 DEF FinishReliable
    <3> DEFINE outbound == [e.outbound EXCEPT ![id] = b]
    <3>2. end' = [end EXCEPT ![side].outbound = outbound]
      BY <3>1
    <3> HIDE DEF outbound, e
    <3> QED
      BY <1>2, <3>2
  <2>2. CASE WriteSegment(side, id)
    <3>1. CASE ~e.outbound[id].header
      <4>1. PICK b : end' = [end EXCEPT ![side].outbound[id] = b]
        BY <2>2, <3>1 DEF WriteSegment
      <4> DEFINE outbound == [e.outbound EXCEPT ![id] = b]
      <4>2. end' = [end EXCEPT ![side].outbound = outbound]
        BY <4>1
      <4> HIDE DEF outbound, e
      <4> QED
        BY <1>2, <4>2
    <3>2. CASE e.outbound[id].header
      <4> DEFINE b == MessageWritten(e.outbound[id])
                 ep == CommitCustody(e.ep, KeyOf(side, id))
      <4>1. end' = [end EXCEPT ![side].outbound[id] = b, ![side].ep = ep]
        <5>1. end = [s \in Sides |-> end[s]] /\ e = [phase |-> e.phase, sender |-> e.sender,
                deferred |-> e.deferred, ended |-> e.ended, fc |-> e.fc, ep |-> e.ep,
                outbound |-> e.outbound, inbound |-> e.inbound]
          BY <1>1 DEF ConnectionInv, EndIs
        <5>2. end' = [end EXCEPT ![side].outbound[id] = MessageWritten(@),
                                 ![side].ep = CommitCustody(@, KeyOf(side, id))]
          BY <2>2, <3>2 DEF WriteSegment
        <5> QED
          BY <5>1, <5>2
      <4> HIDE DEF b, ep, e
      <4> QED
        BY <1>3, <4>1
    <3> QED
      BY <3>1, <3>2
  <2>3. CASE AcquireOutbound(side, id)
    <3>1. CASE CanAssociateStream(e.fc, id)
      <4>1. end' = [end EXCEPT ![side].fc = AssociateStream(@, id),
                               ![side].outbound[id] = Bound(@)]
        BY <2>3, <3>1 DEF AcquireOutbound
      <4> QED
        BY <1>4, <3>1, <4>1
    <3>2. CASE ~CanAssociateStream(e.fc, id)
      <4>1. end' = [end EXCEPT ![side].outbound = Drop(@, {id})]
        BY <2>3, <3>2 DEF AcquireOutbound
      <4> QED
        BY <1>2, <4>1
    <3> QED
      BY <3>1, <3>2
  <2> QED
    BY <2>1, <2>2, <2>3

\* A flow that fails is none that ended normally.
LEMMA FailingKnows ==
  ASSUME ConnectionInv, ModesAre, NEW side \in Sides, NEW e, NEW id, NEW reason,
         IsAnEnd(e), reason # "Normal",
         e.fc = end[side].fc, e.sender = end[side].sender, e.deferred = end[side].deferred,
         end' = [end EXCEPT ![side] = FailFlow(side, e, id, reason)],
         UNCHANGED <<wire, history>>
  PROVE  ModesAre'
<1> DEFINE after == FailFlow(side, e, id, reason)
<1>1. end' = [end EXCEPT ![side] = after] /\ FlowControlIs(side, e.fc)
  BY DEF ConnectionInv, EndIs
<1>2. /\ after.fc = ReleaseFlow(e.fc, id) /\ after.deferred = e.deferred
      /\ \/ after.sender = e.sender
         \/ after.sender = [frame |-> FlowTerminate(id, reason), cause |-> reason]
  <2>1. FailsAs(e, after, id, reason)
    BY FailFlowIs
  <2> HIDE DEF after
  <2> QED
    BY <2>1 DEF FailsAs
<1>3. after.fc = ReleaseFlow(e.fc, id)
  BY <1>2
<1> HIDE DEF after
<1>4. KnowsNoMore(e.fc, after.fc)
  BY <1>1, <1>3, ReleaseKeeps DEF KnowsNoMore
<1>5. IsMild(end[side], after)
  BY <1>2, <1>4 DEF IsMild, SaysLittle
<1> QED
  BY <1>1, <1>5, MildlyKnows

\* Nor does an end that is over know any more.
LEMMA OverKnows ==
  ASSUME ConnectionInv, ModesAre, NEW side \in Sides, NEW after, Stops(end[side], after),
         end' = [end EXCEPT ![side] = after], UNCHANGED <<wire, history>>
  PROVE  ModesAre'
<1>1. after.fc = end[side].fc /\ after.sender = NoSend /\ after.deferred = NoFrame
  BY DEF Stops
<1>2. IsMild(end[side], after)
  BY <1>1 DEF IsMild, SaysLittle, KnowsNoMore
<1> QED
  BY <1>2, MildlyKnows

\* A stream that belongs to no flow leaves the modes as they are.
LEMMA UnresolvedKnows ==
  ASSUME ConnectionInv, ModesAre, NEW side \in Sides, NEW id, NEW code,
         FailUnresolved(side, [end[side] EXCEPT !.inbound = Drop(@, {id})], code),
         UNCHANGED <<wire, history>>
  PROVE  ModesAre'
<1> DEFINE e == end[side]
           after == EnterTerminal([e EXCEPT !.inbound = Drop(@, {id})], "Failed", code)
<1>1. EndIs(side, e, told[side], Admitted(history))
  BY DEF ConnectionInv
<1>2. end' = [end EXCEPT ![side] = after]
  BY DEF FailUnresolved
<1>3. Stops(e, after)
  <2> HIDE DEF e
  <2> QED
    BY <1>1, EnteringTerminal
<1> HIDE DEF after
<1> QED
  BY <1>2, <1>3, OverKnows

\* Whoever ends the connection.
LEMMA EndedKnows ==
  ASSUME ConnectionInv, ModesAre, NEW side \in Sides, NEW ending, Ended(side, ending)
  PROVE  ModesAre'
<1> DEFINE e == end[side]
           after == EnterTerminal(e, PhaseOf(ending), CodeOf(ending))
<1>1. end' = [end EXCEPT ![side] = after] /\ UNCHANGED <<wire, history>>
  BY DEF Ended, ConnectionInv
<1>2. PhaseOf(ending) \in {"PeerClosed", "Failed"}
  BY DEF PhaseOf
<1>3. EndIs(side, e, told[side], Admitted(history))
  BY DEF ConnectionInv
<1>4. Stops(e, after)
  <2> HIDE DEF e
  <2> QED
    BY <1>2, <1>3, EnteringTerminal
<1> HIDE DEF after
<1> QED
  BY <1>1, <1>4, OverKnows

\* What is read tells of no modes.
LEMMA InboundKnows ==
  ASSUME ConnectionInv, ModesAre, NEW side \in Sides, NEW id,
         AcquireInbound(side, id) \/ ReadHeader(side, id) \/ ReadReset(side, id)
  PROVE  ModesAre'
<1> DEFINE e == end[side]
           T == told[side]
           adm == Admitted(history)
<1>1. EndIs(side, e, T, adm) /\ UNCHANGED <<wire, history>>
  BY DEF ConnectionInv, AcquireInbound, ReadHeader, ReadReset
<1>2. CASE AcquireInbound(side, id)
  <2> DEFINE after == [e EXCEPT !.inbound = Put(@, id, NewInbound)]
  <2>1. end' = [end EXCEPT ![side] = after]
    BY <1>2 DEF AcquireInbound
  <2>2. after.fc = e.fc /\ after.sender = e.sender /\ after.deferred = e.deferred
    BY <1>1 DEF EndIs
  <2> HIDE DEF after
  <2> QED
    BY <1>1, <2>1, <2>2, StandingKnows
<1>3. CASE ReadHeader(side, id) /\ CanAssociateStream(e.fc, id)
  <2> DEFINE left == AssociateStream(e.fc, id)
             b == Associated(e.inbound[id])
             after == [e EXCEPT !.fc = left, !.inbound[id] = b]
  <2>1. end' = [end EXCEPT ![side] = after]
    <3>1. end = [s \in Sides |-> end[s]] /\ e = [phase |-> e.phase, sender |-> e.sender,
            deferred |-> e.deferred, ended |-> e.ended, fc |-> e.fc, ep |-> e.ep,
            outbound |-> e.outbound, inbound |-> e.inbound]
      BY <1>1 DEF ConnectionInv, EndIs
    <3>2. end' = [end EXCEPT ![side].fc = AssociateStream(@, id),
                             ![side].inbound[id] = Associated(@)]
      BY <1>3 DEF ReadHeader
    <3> QED
      BY <3>1, <3>2
  <2>2. KnowsNoMore(e.fc, left)
    BY <1>1, <1>3, AssociatingKnows DEF EndIs
  <2> HIDE DEF left, b
  <2>3. after.fc = left /\ after.sender = e.sender /\ after.deferred = e.deferred
    BY <1>1 DEF EndIs
  <2> HIDE DEF after
  <2> QED
    BY <1>1, <2>1, <2>2, <2>3, MildlyKnows DEF IsMild, SaysLittle
<1>4. CASE ReadHeader(side, id) /\ ~CanAssociateStream(e.fc, id)
  <2>1. FailUnresolved(side, [e EXCEPT !.inbound = Drop(@, {id})], "ProfileProtocolError")
    BY <1>4 DEF ReadHeader
  <2> QED
    BY <1>1, <2>1, UnresolvedKnows
<1>5. CASE ReadReset(side, id)
  <2>1. \/ end' = [end EXCEPT ![side] = FailFlow(side, e, id, "ReliableDeliveryFailure")]
        \/ FailUnresolved(side, [e EXCEPT !.inbound = Drop(@, {id})], NoCode)
    BY <1>5 DEF ReadReset
  <2>2. IsAnEnd(e)
    BY <1>1 DEF EndIs, IsAnEnd
  <2> QED
    BY <1>1, <2>1, <2>2, FailingKnows, UnresolvedKnows
<1> QED
  BY <1>2, <1>3, <1>4, <1>5

\* Nor is a message.
LEMMA ReadMessageKnows ==
  ASSUME ConnectionInv, ModesAre, NEW side \in Sides, NEW id, ReadMessage(side, id)
  PROVE  ModesAre'
<1> DEFINE e == end[side]
           T == told[side]
           adm == Admitted(history)
           k == KeyOf(side, id)
           t == [index |-> e.inbound[id].next, payload |-> Head(streams[id].data).payload]
           ep == Receive(e.ep, k, Reliable, t)
           b == MessageRead(e.inbound[id])
           m == [e EXCEPT !.ep = ep]
           received == [m EXCEPT !.inbound[id] = b]
<1>1. EndIs(side, e, T, adm) /\ UNCHANGED <<wire, history>>
  BY DEF ConnectionInv, ReadMessage
<1>2. \/ end' = [end EXCEPT ![side] = FailFlow(side, e, id, "ProtocolFailure")]
      \/ end' = [end EXCEPT ![side] = FailFlow(side, received, id, "ReliableDeliveryFailure")]
      \/ end' = [end EXCEPT ![side] = received]
  <2>1. LET Fails(reason, left) == end' = [end EXCEPT ![side] = FailFlow(side, left, id, reason)]
        IN IF t.index \notin Index \/ k \notin DOMAIN e.ep.flows THEN Fails("ProtocolFailure", e)
           ELSE IF FailsReliably(e.ep, k, Reliable, t)
           THEN Fails("ReliableDeliveryFailure", received)
           ELSE end' = [end EXCEPT ![side] = received]
    BY DEF ReadMessage
  <2> HIDE DEF received, t, e
  <2> QED
    BY <2>1
<1> HIDE DEF ep, b, e
<1>3. /\ received.fc = e.fc /\ received.sender = e.sender /\ received.deferred = e.deferred
      /\ IsAnEnd(received) /\ IsAnEnd(e)
  <2>1. /\ m = [phase |-> e.phase, sender |-> e.sender, deferred |-> e.deferred,
                ended |-> e.ended, fc |-> e.fc, ep |-> ep,
                outbound |-> e.outbound, inbound |-> e.inbound]
        /\ IsAnEnd(e)
    BY <1>1 DEF EndIs, IsAnEnd
  <2> DEFINE inbound == [e.inbound EXCEPT ![id] = b]
  <2>2. received = [m EXCEPT !.inbound = inbound]
    BY <2>1
  <2> HIDE DEF m, inbound, received
  <2>3. received = [phase |-> e.phase, sender |-> e.sender, deferred |-> e.deferred,
                    ended |-> e.ended, fc |-> e.fc, ep |-> ep,
                    outbound |-> e.outbound, inbound |-> inbound]
    BY ONLY <2>1, <2>2
  <2> QED
    BY <2>1, <2>3 DEF IsAnEnd
<1> HIDE DEF received
<1>4. CASE end' = [end EXCEPT ![side] = received]
  BY <1>1, <1>3, <1>4, StandingKnows DEF e
<1>5. CASE end' = [end EXCEPT ![side] = FailFlow(side, e, id, "ProtocolFailure")]
  BY <1>1, <1>3, <1>5, FailingKnows DEF e
<1>6. CASE end' = [end EXCEPT ![side] = FailFlow(side, received, id, "ReliableDeliveryFailure")]
  BY <1>1, <1>3, <1>6, FailingKnows DEF e
<1> QED
  BY <1>2, <1>4, <1>5, <1>6

\* The sender gives a flow up.
LEMMA FailOutboundKnows ==
  ASSUME ConnectionInv, ModesAre, NEW side \in Sides, NEW id, FailOutbound(side, id)
  PROVE  ModesAre'
<1> DEFINE e == end[side]
           cause == "ReliableDeliveryFailure"
<1>1. /\ end' = [end EXCEPT ![side] = FailFlow(side, e, id, cause)]
      /\ UNCHANGED <<wire, history>> /\ cause # "Normal"
  BY DEF FailOutbound
<1>2. IsAnEnd(e)
  BY DEF ConnectionInv, EndIs, IsAnEnd
<1> HIDE DEF cause
<1> QED
  BY <1>1, <1>2, FailingKnows

\* A flow that is over is let go of.
LEMMA LettingGoKnows ==
  ASSUME ConnectionInv, ModesAre, NEW side \in Sides, NEW id, NEW after,
         end' = [end EXCEPT ![side] = after], after.fc = ReleaseFlow(end[side].fc, id),
         after.sender = end[side].sender, after.deferred = end[side].deferred,
         UNCHANGED <<wire, history>>
  PROVE  ModesAre'
<1> DEFINE fc == end[side].fc
           left == after.fc
<1>1. FlowControlIs(side, fc) /\ left = ReleaseFlow(fc, id)
  BY DEF ConnectionInv, EndIs
<1> HIDE DEF fc, left
<1>2. KnowsNoMore(fc, left)
  BY <1>1, ReleaseKeeps DEF KnowsNoMore
<1>3. IsMild(end[side], after)
  BY <1>2 DEF IsMild, SaysLittle, fc, left
<1> QED
  BY <1>3, MildlyKnows

\* Its stream was acknowledged, or read to its end.
LEMMA EndOfStreamKnows ==
  ASSUME ConnectionInv, ModesAre, NEW side \in Sides, NEW id,
         AcknowledgeFinish(side, id) \/ DrainStream(side, id)
  PROVE  ModesAre'
<1> DEFINE e == end[side]
           k == KeyOf(side, id)
           left == ReleaseFlow(e.fc, id)
           ep == Terminate(e.ep, k)
           outbound == Drop(e.outbound, {id})
           inbound == Drop(e.inbound, {id})
           m1 == [e EXCEPT !.fc = left]
           m2 == [m1 EXCEPT !.ep = ep]
           acknowledged == [m2 EXCEPT !.outbound = outbound]
           over == [m1 EXCEPT !.inbound = inbound]
           drained == [over EXCEPT !.ep = ep]
           b == Draining(e.inbound[id])
           draining == [e EXCEPT !.inbound[id] = b]
<1>1. /\ end = [s \in Sides |-> end[s]] /\ UNCHANGED <<wire, history>>
      /\ e = [phase |-> e.phase, sender |-> e.sender, deferred |-> e.deferred,
              ended |-> e.ended, fc |-> e.fc, ep |-> e.ep,
              outbound |-> e.outbound, inbound |-> e.inbound]
  BY DEF ConnectionInv, EndIs, AcknowledgeFinish, DrainStream
<1>2. \/ end' = [end EXCEPT ![side] = acknowledged]
      \/ end' = [end EXCEPT ![side] = over]
      \/ end' = [end EXCEPT ![side] = drained]
      \/ end' = [end EXCEPT ![side] = draining]
  <2>1. CASE AcknowledgeFinish(side, id)
    <3>1. end' = [end EXCEPT ![side].fc = ReleaseFlow(@, id), ![side].ep = Terminate(@, k),
                             ![side].outbound = Drop(@, {id})]
      BY <2>1 DEF AcknowledgeFinish
    <3> QED
      BY <1>1, <3>1
  <2>2. CASE DrainStream(side, id)
    <3>1. over.ep = e.ep
      <4> HIDE DEF left, inbound, e
      <4> QED
        BY <1>1
    <3>2. \/ end' = [end EXCEPT ![side] = over]
          \/ end' = [end EXCEPT ![side] = [over EXCEPT !.ep = Terminate(@, k)]]
          \/ end' = [end EXCEPT ![side].inbound[id] = Draining(@)]
      BY <2>2 DEF DrainStream
    <3>3. CASE end' = [end EXCEPT ![side] = over]
      BY <3>3
    <3>4. CASE end' = [end EXCEPT ![side] = [over EXCEPT !.ep = Terminate(@, k)]]
      BY <3>1, <3>4
    <3>5. CASE end' = [end EXCEPT ![side].inbound[id] = Draining(@)]
      BY <1>1, <3>5
    <3> QED
      BY <3>2, <3>3, <3>4, <3>5
  <2> QED
    BY <2>1, <2>2
<1> HIDE DEF e, left, ep, outbound, inbound, b
<1>3. m1 = [phase |-> e.phase, sender |-> e.sender, deferred |-> e.deferred,
            ended |-> e.ended, fc |-> left, ep |-> e.ep,
            outbound |-> e.outbound, inbound |-> e.inbound]
  BY ONLY <1>1
<1>4. draining.fc = e.fc /\ draining.sender = e.sender /\ draining.deferred = e.deferred
  BY ONLY <1>1
<1> HIDE DEF m1, draining
<1>5. m2 = [phase |-> e.phase, sender |-> e.sender, deferred |-> e.deferred,
            ended |-> e.ended, fc |-> left, ep |-> ep,
            outbound |-> e.outbound, inbound |-> e.inbound]
  BY ONLY <1>3
<1>6. over = [phase |-> e.phase, sender |-> e.sender, deferred |-> e.deferred,
              ended |-> e.ended, fc |-> left, ep |-> e.ep,
              outbound |-> e.outbound, inbound |-> inbound]
  BY ONLY <1>3
<1> HIDE DEF m2, over
<1>7. /\ over.fc = left /\ over.sender = e.sender /\ over.deferred = e.deferred
      /\ drained.fc = left /\ drained.sender = e.sender /\ drained.deferred = e.deferred
  BY ONLY <1>6
<1>8. /\ acknowledged.fc = left /\ acknowledged.sender = e.sender
      /\ acknowledged.deferred = e.deferred
  BY ONLY <1>5
<1> HIDE DEF acknowledged, drained
<1>9. CASE end' = [end EXCEPT ![side] = draining]
  BY <1>1, <1>4, <1>9, StandingKnows DEF e
<1>10. CASE end' = [end EXCEPT ![side] = over]
  BY <1>1, <1>7, <1>10, LettingGoKnows DEF e, left
<1>11. CASE end' = [end EXCEPT ![side] = drained]
  BY <1>1, <1>7, <1>11, LettingGoKnows DEF e, left
<1>12. CASE end' = [end EXCEPT ![side] = acknowledged]
  BY <1>1, <1>8, <1>12, LettingGoKnows DEF e, left
<1> QED
  BY <1>2, <1>9, <1>10, <1>11, <1>12

\* A connection that is torn down knows nothing, and what was sent to it is lost.
LEMMA TeardownKnows ==
  ASSUME ConnectionInv, ModesAre, NEW side \in Sides, Teardown(side)
  PROVE  ModesAre'
<1> DEFINE e == end[side]
           m == Modes(history)
           after == TornOf(e)
           fc == after.fc
           peer == Other(side)
<1>1. end' = [end EXCEPT ![side] = after]
  BY TeardownIs
<1>2. /\ wire' = [wire EXCEPT ![peer] = <<>>] /\ history' = history
      /\ wire \in [Sides -> Seq(Frames \ {NoFrame})] /\ peer \in Sides
  BY IdsHave DEF Teardown, ConnectionInv, WiresAre
<1>3. WiresAsk(wire', m)
  <2>1. WiresAsk(wire, m)
    BY DEF ModesAre, WiresAsk
  <2> HIDE DEF m, peer
  <2>2. /\ wire'[peer] = <<>> /\ DOMAIN <<>> = {}
        /\ \A s \in Sides \ {peer} : wire'[s] = wire[s]
    BY <1>2
  <2> QED
    BY <2>1, <2>2 DEF WiresAsk
<1>4. /\ fc.local_flow_ids = e.fc.local_flow_ids
      /\ fc.pending_outbound = EmptyMap /\ fc.pending_inbound = NoRequest
      /\ fc.registry = EmptyMap /\ DOMAIN EmptyMap = {}
      /\ after.sender = NoSend /\ after.deferred = NoFrame
  BY EmptyMapIsEmpty DEF TornOf, Cleared
<1> HIDE DEF e, m, after
<1>5. FlowsKnown(fc, m)
  BY <1>4, OthersAskNothing DEF FlowsKnown
<1>6. ModesAt(after, m)
  BY <1>4, <1>5, OthersAskNothing DEF ModesAt
<1> QED
  BY <1>1, <1>2, <1>3, <1>4, <1>6, ModesStay DEF e, m

\* The host is told of one flow.
LEMMA TellingEnds ==
  ASSUME ConnectionInv, NEW side \in Sides, NEW id, NEW cause, told' = Tell(side, id, cause),
         NEW s \in Sides, NEW j \in Ids, told'[s][j] = "Normal"
  PROVE  told[s][j] = "Normal" \/ (s = side /\ j = id /\ cause = "Normal")
<1> DEFINE T == told[side]
<1>1. PICK Tafter : TellsOf(id, cause, T, Tafter) /\ told' = [told EXCEPT ![side] = Tafter]
  BY TellIs
<1>2. told = [r \in Sides |-> told[r]] /\ T \in [Ids -> {"None", "Rejected"} \cup Causes]
  BY DEF ConnectionInv, EndIs, TellingIs
<1>3. CASE s # side
  BY <1>1, <1>2, <1>3
<1>4. CASE s = side
  <2>1. Tafter[j] = "Normal"
    BY <1>1, <1>2, <1>4
  <2> HIDE DEF T
  <2>2. T[j] = "Normal" \/ (j = id /\ cause = "Normal")
    BY <1>1, <1>2, <2>1 DEF TellsOf
  <2> QED
    BY <1>4, <2>2 DEF T
<1> QED
  BY <1>3, <1>4

\* What waits in the slot tells of no end of a stream.
LEMMA SlotTells ==
  ASSUME ConnectionInv, ModesAre, NEW side \in Sides,
         \/ told' = told
         \/ told' = Tell(side, end[side].sender.frame.id, end[side].sender.cause)
  PROVE  OnlyOthersEnd
<1>1. CASE told' = told
  BY <1>1 DEF OnlyOthersEnd
<1>2. CASE told' = Tell(side, end[side].sender.frame.id, end[side].sender.cause)
  <2> DEFINE id == end[side].sender.frame.id
             cause == end[side].sender.cause
  <2>1. cause = "Normal" => Modes(history)[id] \in Unreliable
    BY DEF ModesAre, ModesAt, SaysRightly
  <2>2. told' = Tell(side, id, cause)
    BY <1>2
  <2> HIDE DEF id, cause
  <2>3. ASSUME NEW s \in Sides, NEW j \in Ids, told'[s][j] = "Normal"
        PROVE  told[s][j] = "Normal" \/ history[j].mode \in Unreliable
    <3>1. told[s][j] = "Normal" \/ (j = id /\ cause = "Normal")
      BY <2>2, <2>3, TellingEnds
    <3> QED
      BY <2>1, <3>1 DEF Modes
  <2> QED
    BY <2>3 DEF OnlyOthersEnd
<1> QED
  BY <1>1, <1>2

\* A frame is written.
LEMMA CompleteControlSendKnows ==
  ASSUME ConnectionInv, ModesAre, NEW side \in Sides, CompleteControlSend(side)
  PROVE  ModesAre' /\ OnlyOthersEnd
<1> DEFINE e == end[side]
           m == Modes(history)
           frame == e.sender.frame
           after == [e EXCEPT !.sender = NoSend]
<1>1. /\ end' = [end EXCEPT ![side] = after] /\ history' = history
      /\ told' = Tell(side, end[side].sender.frame.id, end[side].sender.cause)
      /\ wire' = [wire EXCEPT ![side] =
                    IF end[Other(side)].phase = "Active" THEN Append(@, frame) ELSE @]
  BY DEF ConnectionInv, CompleteControlSend
<1>2. /\ after.fc = e.fc /\ after.sender = NoSend /\ after.deferred = e.deferred
      /\ frame \in Frames
  <2>1. EndIs(side, e, told[side], Admitted(history))
    BY DEF ConnectionInv
  <2> HIDE DEF e
  <2> QED
    BY <2>1 DEF EndIs, ReportIs
<1>3. ModesAt(e, m) /\ WiresAsk(wire, m) /\ wire \in [Sides -> Seq(Frames \ {NoFrame})]
  BY DEF ModesAre, WiresAsk, ConnectionInv, WiresAre
<1>4. OnlyOthersEnd
  BY <1>1, SlotTells
<1> HIDE DEF m, e, after
<1>5. AsksRightly(frame, m)
  BY <1>3 DEF ModesAt, SaysRightly
<1>6. WiresAsk(wire', m)
  <2> DEFINE w == wire[side]
             w2 == wire'[side]
  <2>1. /\ w \in Seq(Frames \ {NoFrame}) /\ w2 \in {w, Append(w, frame)}
        /\ \A s \in Sides \ {side} : wire'[s] = wire[s]
    BY <1>1, <1>3
  <2>2. \A i \in DOMAIN w : AsksRightly(w[i], m)
    BY <1>3 DEF WiresAsk
  <2> HIDE DEF w, w2, frame
  <2>3. \A i \in DOMAIN w2 : w2[i] = frame \/ (i \in DOMAIN w /\ w2[i] = w[i])
    BY <1>2, <2>1
  <2>4. \A i \in DOMAIN w2 : AsksRightly(w2[i], m)
    BY <1>5, <2>2, <2>3
  <2> QED
    BY <1>3, <2>1, <2>4 DEF WiresAsk, w2
<1>7. ModesAt(after, m)
  BY <1>2, <1>3, OthersAskNothing DEF ModesAt
<1>8. after.fc.local_flow_ids = end[side].fc.local_flow_ids
  BY <1>2 DEF e
<1> QED
  BY <1>1, <1>4, <1>6, <1>7, <1>8, ModesStay DEF m


\* A flow that had no mode gets one: what was known of the others stays so.
MoreModes(m, n, id) == m[id] = "None" /\ \A j \in Ids \ {id} : n[j] = m[j]

\* Whoever asks for a flow, or says that it has ended, has one with a mode.
LEMMA MoreIsAsked ==
  ASSUME NEW m, NEW n, NEW id \in Ids, MoreModes(m, n, id), NEW frame, AsksRightly(frame, m)
  PROVE  AsksRightly(frame, n)
<1>1. "None" \notin Mode
  BY DEF Mode, Reliable, Unordered, Sequenced
<1>2. frame \in OpenFrames => frame.id \in Ids /\ frame.mode \in Mode
  BY DEF OpenFrames, OpenFlow
<1> QED
  BY <1>1, <1>2 DEF AsksRightly, MoreModes

\* So does whoever has one.
LEMMA MoreIsKnown ==
  ASSUME NEW m, NEW n, NEW id \in Ids, MoreModes(m, n, id),
         NEW side \in Sides, NEW fc, FlowControlIs(side, fc), FlowsKnown(fc, m)
  PROVE  FlowsKnown(fc, n)
<1>1. "None" \notin Mode
  BY DEF Mode, Reliable, Unordered, Sequenced
<1>2. \A j \in DOMAIN fc.pending_outbound : j \in Ids /\ fc.pending_outbound[j] \in Mode
  BY DEF FlowControlIs
<1>3. \A j \in DOMAIN fc.registry : j \in Ids /\ fc.registry[j].mode \in Mode
  BY DEF FlowControlIs
<1>4. AsksRightly(fc.pending_inbound, n)
  BY MoreIsAsked DEF FlowsKnown
<1> QED
  BY <1>1, <1>2, <1>3, <1>4 DEF FlowsKnown, MoreModes

\* And either end.
LEMMA MoreIsAtEnd ==
  ASSUME NEW m, NEW n, NEW id \in Ids, MoreModes(m, n, id),
         NEW side \in Sides, NEW e, NEW T, NEW adm, EndIs(side, e, T, adm), ModesAt(e, m)
  PROVE  ModesAt(e, n)
<1>1. FlowsKnown(e.fc, n)
  BY MoreIsKnown DEF EndIs, ModesAt
<1>2. AsksRightly(e.sender.frame, n) /\ AsksRightly(e.deferred, n)
  BY MoreIsAsked DEF ModesAt, SaysRightly
<1>3. e.sender.cause = "Normal" => n[e.sender.frame.id] \in Unreliable
  <2>1. e.sender.cause = "Normal" => e.sender.frame.id \in Ids
    BY DEF EndIs, ReportIs
  <2>2. "None" \notin Unreliable
    BY DEF Unreliable, Unordered, Sequenced
  <2> QED
    BY <2>1, <2>2 DEF ModesAt, SaysRightly, MoreModes
<1> QED
  BY <1>1, <1>2, <1>3 DEF ModesAt, SaysRightly

\* A host asks for a flow in a mode.
LEMMA OpenOutboundFlowKnows ==
  ASSUME ConnectionInv, ModesAre, NEW side \in Sides, NEW mode \in Mode,
         OpenOutboundFlow(side, mode)
  PROVE  /\ ModesAre' /\ history[FlowId(side, end[side].fc.local_flow_ids)].mode = "None"
         /\ FlowId(side, end[side].fc.local_flow_ids) \in Ids
<1> DEFINE e == end[side]
           T == told[side]
           adm == Admitted(history)
           id == FlowId(side, e.fc.local_flow_ids)
           open == PrepareOutboundOpen(side, e.fc, mode)
           left == open.fc
           frame == open.frame
           mid == [e EXCEPT !.fc = left]
           after == StartSend(mid, frame, "None")
           m == Modes(history)
           n == Modes(history')
<1>1. /\ CanOpen(side, e.fc, e.ep, mode) /\ end' = [end EXCEPT ![side] = after]
      /\ history' = [history EXCEPT ![id].mode = mode] /\ UNCHANGED <<wire, told>>
      /\ HistoryIs(history) /\ end = [s \in Sides |-> end[s]]
  BY DEF OpenOutboundFlow, ConnectionInv
<1>2. \A s \in Sides : EndIs(s, end[s], told[s], Admitted(history)) /\ ModesAt(end[s], m)
  BY DEF ConnectionInv, ModesAre
<1>3. FlowControlIs(side, e.fc) /\ e.fc.local_flow_ids <= LastFlow /\ IsUsable(side, mode)
  BY <1>1, <1>2 DEF EndIs, CanOpen, IsUsable
<1>4. /\ id \in Ids /\ ~IsKnown(side, e.fc, id) /\ id.side = side
      /\ left.pending_outbound = Put(e.fc.pending_outbound, id, mode)
      /\ left.local_flow_ids = e.fc.local_flow_ids + 1
      /\ left.pending_inbound = e.fc.pending_inbound /\ left.registry = e.fc.registry
  <2>1. id.side = side
    BY DEF FlowId
  <2> HIDE DEF e
  <2>2. left.registry = e.fc.registry
    BY <1>3 DEF PrepareOutboundOpen, FlowControlIs
  <2> QED
    BY <1>3, <2>1, <2>2, Asking
<1>5. history[id].mode = "None"
  BY <1>4 DEF ModesAre
<1>6. Records(id, [mode |-> mode, accepted |-> history[id].accepted,
                   admitted |-> history[id].admitted, exposed |-> history[id].exposed])
  <2> HIDE DEF id
  <2> QED
    BY <1>1, <1>4, HistoryHas
<1>7. MoreModes(m, n, id) /\ n[id] = mode
  BY <1>4, <1>5, <1>6 DEF Records, Modes, MoreModes
<1>8. frame = OpenFlow(id, mode, PolicyOf[side][mode].message_bytes)
  BY DEF PrepareOutboundOpen
<1>9. after.fc = left /\ after.deferred = e.deferred
      /\ after.sender = [frame |-> frame, cause |-> "None"]
  <2> HIDE DEF left, frame
  <2> QED
    BY <1>2 DEF EndIs, StartSend
<1> HIDE DEF m, n, frame, left, mid, after
<1>10. ModesAt(after, n)
  <2>1. ModesAt(e, n)
    BY <1>2, <1>4, <1>7, MoreIsAtEnd
  <2> HIDE DEF e, id
  <2>2. FlowsKnown(left, n)
    BY <1>4, <1>7, <2>1 DEF ModesAt, FlowsKnown, Put
  <2>3. AsksRightly(frame, n)
    BY <1>7, <1>8 DEF AsksRightly, OpenFlow
  <2> QED
    BY <1>9, <2>1, <2>2, <2>3 DEF ModesAt, SaysRightly
<1>11. end'[side] = after /\ \A s \in Sides \ {side} : end'[s] = end[s]
  BY <1>1
<1>12. \A s \in Sides : ModesAt(end'[s], n)
  BY <1>2, <1>4, <1>7, <1>10, <1>11, MoreIsAtEnd
<1>13. \A s \in Sides : \A i \in DOMAIN wire'[s] : AsksRightly(wire'[s][i], n)
  <2>1. \A s \in Sides : \A i \in DOMAIN wire[s] : AsksRightly(wire[s][i], m)
    BY DEF ModesAre, m
  <2> QED
    BY <1>1, <1>4, <1>7, <2>1, MoreIsAsked
<1>14. ASSUME NEW j \in Ids, ~IsKnown(j.side, end'[j.side].fc, j)
       PROVE  history'[j].mode = "None"
  <2>1. j.side \in Sides /\ e.fc.local_flow_ids \in Nat
    BY <1>3, IdsHave DEF FlowControlIs
  <2>2. CASE j = id
    <3>1. after.fc.local_flow_ids = e.fc.local_flow_ids + 1
      BY <1>4, <1>9
    <3>2. id.sequence = e.fc.local_flow_ids
      BY DEF FlowId
    <3> HIDE DEF e, id
    <3> QED
      BY <1>4, <1>11, <1>14, <2>1, <2>2, <3>1, <3>2 DEF IsKnown
  <2>3. CASE j # id
    <3>1. ~IsKnown(j.side, end[j.side].fc, j)
      <4>1. CASE j.side = side
        <5>1. /\ after.fc.local_flow_ids = e.fc.local_flow_ids + 1
              /\ j.sequence \in Nat
          BY <1>4, <1>9, IdsHave
        <5> HIDE DEF id
        <5> QED
          BY <1>11, <1>14, <2>1, <4>1, <5>1 DEF IsKnown
      <4>2. CASE j.side # side
        BY <1>11, <1>14, <2>1, <4>2
      <4> QED
        BY <4>1, <4>2
    <3>2. history'[j] = history[j]
      BY <1>6, <2>3 DEF Records
    <3> QED
      BY <3>1, <3>2 DEF ModesAre
  <2> QED
    BY <2>2, <2>3
<1> QED
  BY <1>4, <1>5, <1>12, <1>13, <1>14 DEF ModesAre, n

-----------------------------------------------------------------------------
(* What is accepted is delivered                                           *)

\* How far a flow is in the connection.
DeliveryOf(id) ==
  Delivery(id, end[id.side], end[Other(id.side)], streams, told[id.side],
           told[Other(id.side)], history[id])

DeliveriesAre == \A id \in Ids : history[id].mode \notin Unreliable => DeliveryOf(id)

\* Of the ends, only this one takes a step.
OneEndMoves(side) == \E after : end' = [end EXCEPT ![side] = after]

\* A flow has come no further, as far as it is known.
StaysKnown(id) ==
  /\ history'[id].mode \notin Unreliable => history[id].mode \notin Unreliable
  /\ history'[id].accepted = history[id].accepted
  /\ history'[id].exposed = history[id].exposed

\* An end that stays as it is moves nothing.
LEMMA StayingIsCalm ==
  ASSUME NEW side, NEW e, NEW id
  PROVE  Calm(side, e, e, id)
BY DEF Calm

\* A step that does nothing to the messages of a flow gets it no further.
LEMMA QuietStep ==
  ASSUME ConnectionInv, NEW side \in Sides, OneEndMoves(side), NEW id \in Ids, DeliveryOf(id),
         Calm(side, end[side], end'[side], id), StaysKnown(id),
         IsQuietStream(id, end'[Other(id.side)], streams, streams'),
         told'[id.side][id] = "Normal" =>
           HasWritten(id, end[id.side], history[id].accepted, told[id.side],
                      1 + history[id].accepted),
         told'[Other(id.side)][id] = "Normal" =>
           \/ told[Other(id.side)][id] = "Normal"
           \/ AllIsExposed(id, end[id.side], history[id].accepted, history[id].exposed,
                           told[id.side])
  PROVE  DeliveryOf(id)'
<1> DEFINE s == id.side
           p == Other(id.side)
           e == end[s]
           e2 == end'[s]
           r == end[p]
           r2 == end'[p]
           S == streams
           S2 == streams'
           T == told[s]
           T2 == told'[s]
           R == told[p]
           R2 == told'[p]
           h == history[id]
           h2 == history'[id]
           adm == Admitted(history)
<1>1. s \in Sides /\ p \in Sides
  BY IdsHave
<1>2. Calm(s, e, e2, id) /\ Calm(p, r, r2, id)
  <2>1. \A q \in Sides \ {side} : end'[q] = end[q]
    BY DEF ConnectionInv, OneEndMoves
  <2> QED
    BY <1>1, <2>1, StayingIsCalm
<1>3. Around(id, e, r, S, T, R, adm) /\ Delivery(id, e, r, S, T, R, h)
  BY FlowIsAround DEF DeliveryOf
<1>4. IsQuiet(id, e, e2, r, r2, S, S2, T, T2, R, R2, h)
  BY <1>2 DEF IsQuiet
<1>5. /\ h.accepted \in Nat /\ h2.accepted = h.accepted /\ h2.exposed = h.exposed
  BY DEF ConnectionInv, HistoryIs, StaysKnown
<1> HIDE DEF e, e2, r, r2, S, S2, T, T2, R, R2, h, h2, adm
<1>6. Delivery(id, e2, r2, S2, T2, R2, h)
  BY <1>3, <1>4, <1>5, QuietlyDelivers
<1>7. Delivery(id, e2, r2, S2, T2, R2, h2)
  BY <1>5, <1>6 DEF Delivery
<1> QED
  BY <1>7 DEF DeliveryOf, e2, r2, S2, T2, R2, h2

\* Nor does one that ends no flow with a stream normally.
LEMMA QuietUntold ==
  ASSUME ConnectionInv, NEW side \in Sides, OneEndMoves(side), NEW id \in Ids, DeliveryOf(id),
         Calm(side, end[side], end'[side], id), StaysKnown(id),
         IsQuietStream(id, end'[Other(id.side)], streams, streams'),
         \A s \in Sides : told'[s][id] = "Normal" => told[s][id] = "Normal"
  PROVE  DeliveryOf(id)'
<1>1. id.side \in Sides /\ Other(id.side) \in Sides
  BY IdsHave
<1>2. told'[id.side][id] = "Normal" =>
        HasWritten(id, end[id.side], history[id].accepted, told[id.side], 1 + history[id].accepted)
  BY <1>1 DEF HasWritten
<1> QED
  BY <1>1, <1>2, QuietStep

\* Streams that stay as they are lose nothing.
LEMMA QuietStreams ==
  ASSUME NEW id, NEW r, id \in DOMAIN streams' =>
                          id \in DOMAIN streams /\ streams'[id] = streams[id]
  PROVE  IsQuietStream(id, r, streams, streams')
BY DEF IsQuietStream

\* A step that moves no message delivers what was delivered.
LEMMA CalmlyDelivers ==
  ASSUME ConnectionInv, DeliveriesAre, NEW side \in Sides, OneEndMoves(side), IsCalm(side),
         streams' = streams, OnlyOthersEnd, \A id \in Ids : StaysKnown(id)
  PROVE  DeliveriesAre'
<1> SUFFICES ASSUME NEW id \in Ids, history'[id].mode \notin Unreliable
             PROVE  DeliveryOf(id)'
  BY DEF DeliveriesAre
<1>1. history[id].mode \notin Unreliable /\ StaysKnown(id)
  BY DEF StaysKnown
<1>2. DeliveryOf(id) /\ Calm(side, end[side], end'[side], id)
  BY <1>1 DEF DeliveriesAre, IsCalm
<1>3. \A s \in Sides : told'[s][id] = "Normal" => told[s][id] = "Normal"
  BY <1>1 DEF OnlyOthersEnd
<1> QED
  BY <1>1, <1>2, <1>3, QuietUntold, QuietStreams

\* What is known of the flows' messages is what it was.
LEMMA NothingIsLearned ==
  ASSUME UNCHANGED history
  PROVE  \A id \in Ids : StaysKnown(id)
BY DEF StaysKnown

\* Frames and decisions deliver nothing.
LEMMA RoutedDelivers ==
  ASSUME ConnectionInv, ModesAre, DeliveriesAre, NEW side \in Sides,
         \/ RejectIncomingFlow(side) \/ AcceptIncomingFlow(side)
         \/ ReceiveControl(side) \/ ProcessDeferred(side)
  PROVE  ModesAre' /\ DeliveriesAre'
<1>1. ModesAre' /\ OnlyOthersEnd
  BY RejectIncomingFlowKnows, AcceptIncomingFlowKnows, ReceiveControlKnows, ProcessDeferredKnows
<1>2. IsCalm(side)
  BY RejectIncomingFlowKeeps, AcceptIncomingFlowKeeps, ReceiveControlKeeps, ProcessDeferredKeeps
<1>3. OneEndMoves(side) /\ streams' = streams
  <2>1. streams' = streams
    BY DEF RejectIncomingFlow, AcceptIncomingFlow, ReceiveControl, ProcessDeferred
  <2>2. CASE \E e, result : Route(side, e, result)
    BY <2>1, <2>2 DEF OneEndMoves, Route
  <2>3. CASE end' = [end EXCEPT ![side].deferred = Head(wire[Other(side)])]
    BY <2>1, <2>3 DEF OneEndMoves
  <2> QED
    BY <2>2, <2>3 DEF RejectIncomingFlow, AcceptIncomingFlow, ReceiveControl, ProcessDeferred
<1>4. \A id \in Ids : StaysKnown(id)
  <2>1. CASE UNCHANGED history
    BY <2>1, NothingIsLearned
  <2>2. CASE AcceptIncomingFlow(side)
    <3>1. PICK i, admitted : history' = [history EXCEPT ![i].admitted = admitted]
      BY <2>2 DEF AcceptIncomingFlow
    <3>2. history = [id \in Ids |-> history[id]]
          /\ \A id \in Ids : history[id] = [mode |-> history[id].mode,
               accepted |-> history[id].accepted,
               admitted |-> history[id].admitted, exposed |-> history[id].exposed]
      BY DEF ConnectionInv, HistoryIs
    <3> QED
      BY <3>1, <3>2 DEF StaysKnown
  <2> QED
    BY <2>1, <2>2 DEF RejectIncomingFlow, ReceiveControl, ProcessDeferred
<1> QED
  BY <1>1, <1>2, <1>3, <1>4, CalmlyDelivers

\* Nor does the end of a flow without a stream, or of the connection, or a frame written.
LEMMA EndingDelivers ==
  ASSUME ConnectionInv, ModesAre, DeliveriesAre, NEW side \in Sides,
         \/ \E id \in Ids : ExhaustSequence(side, id) \/ FinishUnreliable(side, id)
         \/ Teardown(side) \/ CompleteControlSend(side)
         \/ \E ending : \/ EndedOnReceive(side, ending) \/ EndedOnSend(side, ending)
                        \/ EndedOnData(side, ending)
  PROVE  ModesAre' /\ DeliveriesAre'
<1>1. streams' = streams /\ history' = history
  BY DEF ExhaustSequence, FinishUnreliable, Teardown, CompleteControlSend, EndedOnReceive,
         EndedOnSend, EndedOnData, Ended
<1>2. CASE \E id \in Ids : ExhaustSequence(side, id) \/ FinishUnreliable(side, id)
  <2>1. PICK id \in Ids : ExhaustSequence(side, id) \/ FinishUnreliable(side, id)
    BY <1>2
  <2>2. /\ IsReady(end[side]) /\ SendsDatagrams(end[side], side, id) /\ wire' = wire
        /\ Route(side, end[side], TerminateLocal(side, end[side].fc, end[side].ep, id, "Normal"))
    BY <2>1 DEF ExhaustSequence, FinishUnreliable
  <2>3. ModesAre' /\ OnlyOthersEnd
    BY <1>1, <2>2, EndingLocallyKnows
  <2>4. IsCalm(side)
    BY <2>1, ExhaustSequenceKeeps, FinishUnreliableKeeps
  <2>5. OneEndMoves(side)
    BY <2>2 DEF OneEndMoves, Route
  <2> QED
    BY <1>1, <2>3, <2>4, <2>5, NothingIsLearned, CalmlyDelivers
<1>3. CASE Teardown(side)
  <2>1. OnlyOthersEnd
    BY <1>3 DEF Teardown, OnlyOthersEnd
  <2>2. OneEndMoves(side)
    BY <1>3, TeardownIs DEF OneEndMoves
  <2> QED
    BY <1>1, <1>3, <2>1, <2>2, TeardownKnows, TeardownKeeps, NothingIsLearned, CalmlyDelivers
<1>4. CASE CompleteControlSend(side)
  <2>1. OneEndMoves(side)
    BY <1>4 DEF CompleteControlSend, OneEndMoves
  <2> QED
    BY <1>1, <1>4, <2>1, CompleteControlSendKnows, CompleteControlSendKeeps, NothingIsLearned,
       CalmlyDelivers
<1>5. CASE \E ending : \/ EndedOnReceive(side, ending) \/ EndedOnSend(side, ending)
                       \/ EndedOnData(side, ending)
  <2>1. PICK ending : \/ EndedOnReceive(side, ending) \/ EndedOnSend(side, ending)
                      \/ EndedOnData(side, ending)
    BY <1>5
  <2>2. /\ Ended(side, ending)
        /\ told' = told \/ told' = Tell(side, end[side].sender.frame.id, end[side].sender.cause)
    BY <2>1 DEF EndedOnReceive, EndedOnSend, EndedOnData
  <2>3. OneEndMoves(side)
    BY <2>2 DEF Ended, OneEndMoves
  <2> QED
    BY <1>1, <2>1, <2>2, <2>3, EndedKnows, SlotTells, EndedKeeps, NothingIsLearned,
       CalmlyDelivers
<1> QED
  BY <1>2, <1>3, <1>4, <1>5

\* A flow that is asked for has accepted nothing yet.
LEMMA OpenOutboundFlowDelivers ==
  ASSUME ConnectionInv, ModesAre, DeliveriesAre, NEW side \in Sides, NEW mode \in Mode,
         OpenOutboundFlow(side, mode)
  PROVE  ModesAre' /\ DeliveriesAre'
<1> DEFINE id == FlowId(side, end[side].fc.local_flow_ids)
<1>1. ModesAre' /\ history[id].mode = "None" /\ id \in Ids
  BY OpenOutboundFlowKnows
<1>2. /\ history' = [history EXCEPT ![id].mode = mode] /\ UNCHANGED <<streams, told>>
      /\ HistoryIs(history)
  BY DEF OpenOutboundFlow, ConnectionInv
<1>3. OneEndMoves(side) /\ IsCalm(side)
  BY OpenOutboundFlowKeeps DEF OpenOutboundFlow, OneEndMoves
<1> HIDE DEF id
<1>4. Records(id, [mode |-> mode, accepted |-> history[id].accepted,
                   admitted |-> history[id].admitted, exposed |-> history[id].exposed])
  BY <1>1, <1>2, HistoryHas
<1>5. \A j \in Ids : StaysKnown(j)
  <2>1. "None" \notin Unreliable
    BY DEF Unreliable, Unordered, Sequenced
  <2> QED
    BY <1>1, <1>4, <2>1 DEF StaysKnown, Records
<1>6. OnlyOthersEnd
  BY <1>2 DEF OnlyOthersEnd
<1> QED
  BY <1>1, <1>2, <1>3, <1>5, <1>6, CalmlyDelivers

\* An end that moves leaves the other as it is.
LEMMA OneMoves ==
  ASSUME ConnectionInv, ConnectionInv', NEW side \in Sides,
         \A s \in Sides \ {side} : end'[s] = end[s]
  PROVE  OneEndMoves(side)
<1>1. end = [s \in Sides |-> end[s]] /\ end' = [s \in Sides |-> end'[s]]
  BY DEF ConnectionInv
<1>2. end' = [end EXCEPT ![side] = end'[side]]
  BY <1>1
<1> QED
  BY <1>2 DEF OneEndMoves

\* The opener ends a flow normally when it has written all that was accepted.
LEMMA AcknowledgeFinishDelivers ==
  ASSUME ConnectionInv, ModesAre, DeliveriesAre, NEW side \in Sides, NEW id,
         AcknowledgeFinish(side, id)
  PROVE  ModesAre' /\ DeliveriesAre'
<1> DEFINE e == end[side]
           k == KeyOf(side, id)
           b == e.outbound[id]
           q == e.ep.flows[k].outbound
<1>1. ModesAre' /\ ConnectionInv' /\ IsCalm(side)
  BY EndOfStreamKnows, AcknowledgeFinishKeeps
<1>2. /\ UNCHANGED <<streams, history>> /\ told' = Tell(side, id, "Normal")
      /\ id \in DOMAIN e.outbound /\ b.state = "Finishing" /\ k \in DOMAIN e.ep.flows
      /\ q = <<>>
  BY DEF AcknowledgeFinish, IsBound, CannotGoOn, HasPending
<1>3. OneEndMoves(side)
  <2>1. end = [s \in Sides |-> end[s]]
    BY DEF ConnectionInv
  <2>2. \A s \in Sides \ {side} : end'[s] = end[s]
    BY <2>1 DEF AcknowledgeFinish
  <2> QED
    BY <1>1, <2>2, OneMoves
<1>4. id \in Ids /\ id.side = side /\ EndIs(side, e, told[side], Admitted(history))
  BY <1>2 DEF ConnectionInv, EndIs, OutboundIs
<1>5. id \in DOMAIN e.fc.registry
  BY <1>2, <1>4, HasFlow DEF EndIs
<1> SUFFICES ASSUME NEW j \in Ids, history'[j].mode \notin Unreliable
             PROVE  DeliveryOf(j)'
  BY <1>1 DEF DeliveriesAre
<1>6. DeliveryOf(j) /\ Calm(side, end[side], end'[side], j) /\ StaysKnown(j)
  BY <1>1, <1>2, NothingIsLearned DEF DeliveriesAre, IsCalm
<1>7. \A s \in Sides : told'[s][j] = "Normal" => told[s][j] = "Normal" \/ (s = side /\ j = id)
  BY <1>2, TellingEnds
<1>8. j.side \in Sides /\ Other(j.side) \in Sides /\ Other(j.side) # j.side
  BY IdsHave
<1>9. IsQuietStream(j, end'[Other(j.side)], streams, streams')
  BY <1>2, QuietStreams
<1>10. CASE j # id
  BY <1>3, <1>6, <1>7, <1>9, <1>10, QuietUntold
<1>11. CASE j = id
  <2>1. IsSending(id, e, history[id].accepted)
    BY <1>4, <1>6, <1>11 DEF DeliveryOf, Delivery
  <2>2. history[id].accepted \in Nat /\ Len(<<>>) = 0
    BY <1>4 DEF ConnectionInv, HistoryIs
  <2>3. b.header /\ b.next = history[id].accepted
    BY <1>2, <1>4, <1>5, <2>1, <2>2 DEF IsSending
  <2>4. HasWritten(id, e, history[id].accepted, told[side], 1 + history[id].accepted)
    BY <1>2, <1>5, <2>2, <2>3 DEF HasWritten
  <2>5. told'[Other(id.side)][id] = "Normal" => told[Other(id.side)][id] = "Normal"
    BY <1>4, <1>7, <1>8, <1>11
  <2> QED
    BY <1>3, <1>4, <1>6, <1>9, <1>11, <2>4, <2>5, QuietStep
<1> QED
  BY <1>10, <1>11

\* A reliable flow with nothing pending has nothing in its buffer.
LEMMA NothingIsBuffered ==
  ASSUME NEW ep, EndpointInv(ep), NEW k \in DOMAIN ep.flows, ep.flows[k].pending_messages = 0
  PROVE  DOMAIN ep.flows[k].by_index = {}
<1> DEFINE flow == ep.flows[k]
<1>1. FlowInv(k, flow) /\ flow.pending_messages = 0
  BY DEF EndpointInv, FlowsInv
<1> HIDE DEF flow
<1>2. /\ Contents(flow).messages =
           Len(flow.outbound) + Len(flow.queue) + Cardinality(DOMAIN flow.by_index)
      /\ Len(flow.outbound) \in Nat /\ Len(flow.queue) \in Nat
      /\ Cardinality(DOMAIN flow.by_index) \in Nat
      /\ flow.by_index \in Buffer
  BY <1>1, ContentsAre DEF FlowInv
<1>3. Cardinality(DOMAIN flow.by_index) = 0
  <2>1. Contents(flow).messages = 0
    BY ONLY <1>1 DEF FlowInv
  <2>2. \A i, j, n \in Nat : i + j + n = 0 => n = 0
    OBVIOUS
  <2> QED
    BY <1>2, <2>1, <2>2
<1>4. DOMAIN flow.by_index \subseteq Index
  BY <1>2 DEF Buffer
<1>5. IsFiniteSet(DOMAIN flow.by_index)
  <2>1. IsFiniteSet(Index)
    BY FS_Interval, DeliveryAssumption DEF Index
  <2> QED
    BY <1>4, <2>1, FS_Subset
<1> QED
  BY <1>3, <1>5, FS_EmptySet DEF flow

\* The acceptor ends a flow normally when it has exposed all that was written.
LEMMA DrainStreamDelivers ==
  ASSUME ConnectionInv, ModesAre, DeliveriesAre, NEW side \in Sides, NEW id,
         DrainStream(side, id)
  PROVE  ModesAre' /\ DeliveriesAre'
<1> DEFINE r == end[side]
           k == KeyOf(side, id)
           b == r.inbound[id]
           flow == r.ep.flows[k]
<1>1. ModesAre' /\ ConnectionInv' /\ IsCalm(side)
  BY EndOfStreamKnows, DrainStreamKeeps
<1>2. /\ UNCHANGED <<streams, history>>
      /\ told' = told \/ (told' = Tell(side, id, "Normal") /\ HasDrained(r, k))
      /\ id \in DOMAIN r.inbound /\ b.associated /\ AtFin(streams[id])
  BY DEF DrainStream
<1>3. OneEndMoves(side)
  <2>1. end = [s \in Sides |-> end[s]]
    BY DEF ConnectionInv
  <2>2. \A s \in Sides \ {side} : end'[s] = end[s]
    BY <2>1 DEF DrainStream
  <2> QED
    BY <1>1, <2>2, OneMoves
<1>4. id \in Ids /\ id.side # side /\ EndIs(side, r, told[side], Admitted(history))
  BY <1>2 DEF ConnectionInv, EndIs, InboundIs
<1>5. id.side \in Sides /\ side = Other(id.side) /\ id.side = Other(side)
  BY <1>4, IdsHave
<1> SUFFICES ASSUME NEW j \in Ids, history'[j].mode \notin Unreliable
             PROVE  DeliveryOf(j)'
  BY <1>1 DEF DeliveriesAre
<1>6. DeliveryOf(j) /\ Calm(side, end[side], end'[side], j) /\ StaysKnown(j)
  BY <1>1, <1>2, NothingIsLearned DEF DeliveriesAre, IsCalm
<1>7. \A s \in Sides : told'[s][j] = "Normal" =>
        told[s][j] = "Normal" \/ (s = side /\ j = id /\ HasDrained(r, k))
  BY <1>2, TellingEnds
<1>8. j.side \in Sides /\ Other(j.side) \in Sides /\ Other(j.side) # j.side
  BY IdsHave
<1>9. IsQuietStream(j, end'[Other(j.side)], streams, streams')
  BY <1>2, QuietStreams
<1>10. CASE j # id \/ ~HasDrained(r, k)
  BY <1>3, <1>6, <1>7, <1>9, <1>10, QuietUntold
<1>11. CASE j = id /\ HasDrained(r, k)
  <2> DEFINE x == history[id].exposed
             T == told[id.side]
             accepted == history[id].accepted
             e == end[id.side]
             m == 1 + b.next
  <2>1. /\ IsReceiving(id, r, x) /\ IsStreaming(id, e, r, accepted, T, streams)
    BY <1>5, <1>6, <1>11 DEF DeliveryOf, Delivery
  <2>2. k \in DOMAIN r.ep.flows /\ flow.pending_messages = 0 /\ id \in DOMAIN r.fc.registry
    BY <1>4, <1>11, HasFlow DEF HasDrained, EndIs
  <2>3. DOMAIN flow.by_index = {}
    BY <1>4, <2>2, NothingIsBuffered DEF EndIs
  <2>4. b.next \in Nat /\ m \in Nat
    BY <1>2, <1>4 DEF EndIs, InboundIs, InboundStates
  <2>5. Len(x) = b.next
    <3>1. x \in Seq(Payloads) /\ Len(x) <= b.next
      BY <1>2, <1>5, <2>1, <2>2 DEF IsReceiving
    <3>2. Len(x) .. b.next - 1 = {}
      BY <1>2, <1>5, <2>1, <2>2, <2>3 DEF IsReceiving
    <3>3. Len(x) \in Nat
      BY <3>1
    <3>4. \A l, n \in Nat : l <= n /\ l # n => l \in l .. n - 1
      OBVIOUS
    <3> HIDE DEF x
    <3> QED
      BY <2>4, <3>1, <3>2, <3>3, <3>4
  <2>6. /\ id \in DOMAIN streams /\ IsDecided(id.side, e.fc, id)
        /\ streams[id].end = "Fin" /\ Len(streams[id].data) = 0
    <3>1. id \in DOMAIN streams
      BY <1>2 DEF ConnectionInv, StreamsAre
    <3> QED
      BY <1>2, <3>1 DEF ConnectionInv, StreamsAre, AtFin
  <2>7. HasRead(id, r, streams, m)
    BY <1>2 DEF HasRead
  <2>8. IsFinished(id, e) /\ \A n \in Nat : HasWritten(id, e, accepted, T, n) => 0 = n - m
    BY <2>1, <2>4, <2>6, <2>7 DEF IsStreaming
  <2>9. \A n \in Nat : HasWritten(id, e, accepted, T, n) => n = 1 + Len(x)
    <3> HIDE DEF x, T, e, accepted
    <3> QED
      BY <2>4, <2>5, <2>8
  <2>10. AllIsExposed(id, e, accepted, x, T)
    BY <2>6, <2>8, <2>9 DEF AllIsExposed
  <2>11. told'[id.side][id] = "Normal" => told[id.side][id] = "Normal"
    BY <1>4, <1>5, <1>7, <1>11
  <2>12. told'[id.side][id] = "Normal" =>
           HasWritten(id, end[id.side], history[id].accepted, told[id.side],
                      1 + history[id].accepted)
    BY <2>11 DEF HasWritten
  <2> QED
    BY <1>3, <1>4, <1>6, <1>9, <1>11, <2>10, <2>12, QuietStep
<1> QED
  BY <1>10, <1>11

\* Nor does a step in which a stream ends or is lost.
LEMMA LosingDelivers ==
  ASSUME ConnectionInv, DeliveriesAre, NEW side \in Sides, OneEndMoves(side), IsCalm(side),
         UNCHANGED <<told, history>>,
         \A id \in Ids : IsQuietStream(id, end'[Other(id.side)], streams, streams')
  PROVE  DeliveriesAre'
<1> SUFFICES ASSUME NEW id \in Ids, history'[id].mode \notin Unreliable
             PROVE  DeliveryOf(id)'
  BY DEF DeliveriesAre
<1>1. DeliveryOf(id) /\ Calm(side, end[side], end'[side], id) /\ StaysKnown(id)
  BY NothingIsLearned DEF DeliveriesAre, IsCalm
<1>2. \A s \in Sides : told'[s][id] = "Normal" => told[s][id] = "Normal"
  OBVIOUS
<1> QED
  BY <1>1, <1>2, QuietUntold

\* The acceptor stops a stream it does not read any more.
LEMMA StoppingDelivers ==
  ASSUME ConnectionInv, DeliveriesAre, NEW side \in Sides, NEW id \in DOMAIN end[side].inbound,
         NEW after, end' = [end EXCEPT ![side] = after], id \notin DOMAIN after.inbound,
         IsCalm(side), UNCHANGED <<told, history>>,
         streams' = [streams EXCEPT ![id] = Stopped(@)]
  PROVE  DeliveriesAre'
<1>1. /\ id \in Ids /\ id.side # side /\ id \in DOMAIN streams /\ streams[id].acquired
      /\ StreamIs(streams[id]) /\ end = [s \in Sides |-> end[s]]
  BY DEF ConnectionInv, EndIs, InboundIs, StreamsAre, WiresAre
<1>2. /\ Stopped(streams[id]).acquired = streams[id].acquired
      /\ Stopped(streams[id]).end = streams[id].end
  BY <1>1 DEF StreamIs, Stopped
<1>3. Other(id.side) = side
  BY <1>1, IdsHave
<1>4. ASSUME NEW j \in Ids
      PROVE  IsQuietStream(j, end'[Other(j.side)], streams, streams')
  <2>1. CASE j = id
    <3>1. end'[Other(j.side)] = after
      BY <1>1, <1>3, <2>1
    <3>2. streams'[id] = Stopped(streams[id])
      BY <1>1
    <3> QED
      BY <1>1, <1>2, <2>1, <3>1, <3>2 DEF IsQuietStream
  <2>2. CASE j # id
    BY <2>2, QuietStreams
  <2> QED
    BY <2>1, <2>2
<1>5. OneEndMoves(side)
  BY DEF OneEndMoves
<1> QED
  BY <1>4, <1>5, LosingDelivers

\* Nor does it read one that belongs to no flow.
LEMMA UnresolvedDelivers ==
  ASSUME ConnectionInv, DeliveriesAre, NEW side \in Sides, NEW id \in DOMAIN end[side].inbound,
         NEW code, FailUnresolved(side, [end[side] EXCEPT !.inbound = Drop(@, {id})], code),
         IsCalm(side), UNCHANGED <<told, history>>,
         streams' = [streams EXCEPT ![id] = Stopped(@)]
  PROVE  DeliveriesAre'
<1> DEFINE e == end[side]
           inbound == Drop(e.inbound, {id})
           left == [e EXCEPT !.inbound = inbound]
           after == EnterTerminal(left, "Failed", code)
<1>1. end' = [end EXCEPT ![side] = after] /\ IsAnEnd(e)
  BY DEF FailUnresolved, ConnectionInv, EndIs, IsAnEnd
<1> HIDE DEF e, inbound
<1>2. left.inbound = inbound /\ IsAnEnd(left)
  BY <1>1 DEF IsAnEnd
<1> HIDE DEF left
<1>3. after.inbound = inbound
  BY <1>2, EnteringIs DEF IsAnEnd
<1> HIDE DEF after
<1>4. DOMAIN inbound = DOMAIN e.inbound \ {id}
  BY DropIsLess DEF inbound
<1>5. id \notin DOMAIN after.inbound
  BY <1>3, <1>4
<1> QED
  BY <1>1, <1>5, StoppingDelivers DEF e

\* The opener gives a stream up.
LEMMA FailOutboundDelivers ==
  ASSUME ConnectionInv, ModesAre, DeliveriesAre, NEW side \in Sides, NEW id,
         FailOutbound(side, id)
  PROVE  ModesAre' /\ DeliveriesAre'
<1>1. ModesAre' /\ IsCalm(side)
  BY FailOutboundKnows, FailOutboundKeeps
<1>2. OneEndMoves(side) /\ UNCHANGED <<told, history>>
  BY DEF FailOutbound, OneEndMoves
<1>3. streams' = [streams EXCEPT ![id] = WasReset(@)] \/ streams' = streams
  BY DEF FailOutbound
<1>4. ASSUME NEW j \in Ids
      PROVE  IsQuietStream(j, end'[Other(j.side)], streams, streams')
  <2>1. CASE j \in DOMAIN streams' => j \in DOMAIN streams /\ streams'[j] = streams[j]
    BY <2>1, QuietStreams
  <2>2. CASE j \in DOMAIN streams /\ streams'[j] = WasReset(streams[j])
    <3>1. StreamIs(streams[j])
      BY <2>2 DEF ConnectionInv, WiresAre
    <3>2. /\ WasReset(streams[j]).acquired = streams[j].acquired
          /\ WasReset(streams[j]).data = streams[j].data
          /\ WasReset(streams[j]).stopped = streams[j].stopped
          /\ WasReset(streams[j]).end = "Reset"
      BY <3>1 DEF StreamIs, WasReset
    <3> QED
      BY <2>2, <3>2 DEF IsQuietStream
  <2> QED
    BY <1>3, <2>1, <2>2
<1> QED
  BY <1>1, <1>2, <1>4, LosingDelivers

\* The acceptor reads that it was given up.
LEMMA ReadResetDelivers ==
  ASSUME ConnectionInv, ModesAre, DeliveriesAre, NEW side \in Sides, NEW id,
         ReadReset(side, id)
  PROVE  ModesAre' /\ DeliveriesAre'
<1> DEFINE e == end[side]
<1>1. ModesAre' /\ IsCalm(side)
  BY InboundKnows, ReadResetKeeps
<1>2. /\ id \in DOMAIN e.inbound /\ UNCHANGED <<told, history>>
      /\ streams' = [streams EXCEPT ![id] = Stopped(@)]
  BY DEF ReadReset, IsReading
<1>3. CASE end' = [end EXCEPT ![side] = FailFlow(side, e, id, "ReliableDeliveryFailure")]
  <2> DEFINE cause == "ReliableDeliveryFailure"
             after == FailFlow(side, e, id, cause)
  <2>1. IsAnEnd(e)
    BY DEF ConnectionInv, EndIs, IsAnEnd
  <2> HIDE DEF cause
  <2>2. FailsAs(e, after, id, cause)
    BY <2>1, FailFlowIs
  <2>3. end' = [end EXCEPT ![side] = after]
    BY <1>3 DEF cause
  <2> HIDE DEF after
  <2>4. id \notin DOMAIN after.inbound
    <3>1. DOMAIN Drop(e.inbound, {id}) = DOMAIN e.inbound \ {id}
      BY DropIsLess
    <3> QED
      BY <2>2, <3>1 DEF FailsAs
  <2> QED
    BY <1>1, <1>2, <2>3, <2>4, StoppingDelivers
<1>4. CASE FailUnresolved(side, [e EXCEPT !.inbound = Drop(@, {id})], NoCode)
  BY <1>1, <1>2, <1>4, UnresolvedDelivers
<1> QED
  BY <1>3, <1>4 DEF ReadReset

-----------------------------------------------------------------------------
(* A message moves                                                         *)

\* An end does something to the flow id alone.
Concerns(side, e, after, id) ==
  /\ \A j : IsDecided(side, after.fc, j) <=> IsDecided(side, e.fc, j)
  /\ DOMAIN after.fc.registry = DOMAIN e.fc.registry
  /\ \A j \in DOMAIN e.fc.registry : j # id => after.fc.registry[j] = e.fc.registry[j]
  /\ after.ep = e.ep \/ OnlyFlow(e.ep, after.ep, KeyOf(side, id))
  /\ \A j \in DOMAIN after.outbound : j # id =>
       j \in DOMAIN e.outbound /\ after.outbound[j] = e.outbound[j]
  /\ \A j \in DOMAIN after.inbound : j # id =>
       j \in DOMAIN e.inbound /\ after.inbound[j] = e.inbound[j]

\* It moves nothing of the others.
LEMMA OthersAreCalm ==
  ASSUME NEW side \in Sides, NEW e, NEW T, NEW adm, EndIs(side, e, T, adm), NEW after,
         NEW id \in Ids, Concerns(side, e, after, id), NEW j \in Ids, j # id
  PROVE  Calm(side, e, after, j)
<1> DEFINE k == KeyOf(side, id)
           K == KeyOf(side, j)
<1>1. k # K
  BY KeysDiffer
<1>2. j \in DOMAIN e.fc.registry => K \in DOMAIN e.ep.flows
  BY HasFlow DEF EndIs
<1> HIDE DEF k, K
<1>3. j \in DOMAIN e.fc.registry => after.ep.flows[K] = e.ep.flows[K]
  BY <1>1, <1>2 DEF Concerns, OnlyFlow, k
<1> QED
  BY <1>3 DEF Concerns, Calm, K

\* What else there is of the connection stays as it is.
OnlyMoves(id) ==
  /\ UNCHANGED told
  /\ \A j \in Ids : j # id =>
       /\ j \in DOMAIN streams' => j \in DOMAIN streams /\ streams'[j] = streams[j]
       /\ history'[j] = history[j]
  /\ history'[id].mode = history[id].mode

\* What is accepted of the others is delivered.
LEMMA OthersDeliver ==
  ASSUME ConnectionInv, DeliveriesAre, NEW side \in Sides, NEW id \in Ids, NEW after,
         end' = [end EXCEPT ![side] = after], Concerns(side, end[side], after, id),
         OnlyMoves(id), history[id].mode \notin Unreliable => DeliveryOf(id)'
  PROVE  DeliveriesAre'
<1>1. /\ end'[side] = after /\ EndIs(side, end[side], told[side], Admitted(history))
      /\ OneEndMoves(side)
  BY DEF ConnectionInv, OneEndMoves
<1> SUFFICES ASSUME NEW j \in Ids, history'[j].mode \notin Unreliable
             PROVE  DeliveryOf(j)'
  BY DEF DeliveriesAre
<1>2. CASE j = id
  BY <1>2 DEF OnlyMoves
<1>3. CASE j # id
  <2>1. StaysKnown(j) /\ DeliveryOf(j)
    BY <1>3 DEF OnlyMoves, StaysKnown, DeliveriesAre
  <2>2. Calm(side, end[side], after, j)
    BY <1>1, <1>3, OthersAreCalm
  <2>3. Calm(side, end[side], end'[side], j)
    BY <1>1, <2>2
  <2>4. IsQuietStream(j, end'[Other(j.side)], streams, streams')
    BY <1>3, QuietStreams DEF OnlyMoves
  <2>5. \A s \in Sides : told'[s][j] = "Normal" => told[s][j] = "Normal"
    BY DEF OnlyMoves
  <2> QED
    BY <1>1, <2>1, <2>3, <2>4, <2>5, QuietUntold
<1> QED
  BY <1>2, <1>3

\* A flow whose opener moves is as far as that has come.
LEMMA OpenerDelivers ==
  ASSUME ConnectionInv, DeliveriesAre, NEW id \in Ids, NEW after,
         end' = [end EXCEPT ![id.side] = after],
         Concerns(id.side, end[id.side], after, id), OnlyMoves(id),
         history[id].mode \notin Unreliable =>
           Delivery(id, after, end[Other(id.side)], streams', told[id.side],
                    told[Other(id.side)], history'[id])
  PROVE  DeliveriesAre'
<1>1. id.side \in Sides /\ Other(id.side) \in Sides /\ Other(id.side) # id.side
  BY IdsHave
<1>2. end'[id.side] = after /\ end'[Other(id.side)] = end[Other(id.side)] /\ told' = told
  BY <1>1 DEF ConnectionInv, OnlyMoves
<1>3. history[id].mode \notin Unreliable => DeliveryOf(id)'
  BY <1>2 DEF DeliveryOf
<1> QED
  BY <1>1, <1>3, OthersDeliver

\* So is one whose acceptor moves.
LEMMA AcceptorDelivers ==
  ASSUME ConnectionInv, DeliveriesAre, NEW id \in Ids, NEW after,
         end' = [end EXCEPT ![Other(id.side)] = after],
         Concerns(Other(id.side), end[Other(id.side)], after, id), OnlyMoves(id),
         history[id].mode \notin Unreliable =>
           Delivery(id, end[id.side], after, streams', told[id.side],
                    told[Other(id.side)], history'[id])
  PROVE  DeliveriesAre'
<1>1. id.side \in Sides /\ Other(id.side) \in Sides /\ Other(id.side) # id.side
  BY IdsHave
<1>2. end'[Other(id.side)] = after /\ end'[id.side] = end[id.side] /\ told' = told
  BY <1>1 DEF ConnectionInv, OnlyMoves
<1>3. history[id].mode \notin Unreliable => DeliveryOf(id)'
  BY <1>2 DEF DeliveryOf
<1> QED
  BY <1>1, <1>3, OthersDeliver

\* A flow that an end has has the mode it was asked for in.
LEMMA RegisteredMode ==
  ASSUME ConnectionInv, ModesAre, NEW side \in Sides, NEW id \in DOMAIN end[side].fc.registry
  PROVE  /\ end[side].fc.registry[id].mode = history[id].mode
         /\ history[id].mode \notin Unreliable => history[id].mode = Reliable
<1>1. id \in Ids /\ end[side].fc.registry[id].mode \in Mode
  BY DEF ConnectionInv, EndIs, FlowControlIs
<1>2. Modes(history)[id] = end[side].fc.registry[id].mode
  BY DEF ModesAre, ModesAt, FlowsKnown
<1>3. Modes(history)[id] = history[id].mode
  BY <1>1 DEF Modes
<1> QED
  BY <1>1, <1>2, <1>3 DEF Mode, Unreliable

\* Of a flow that an end has its host was told nothing.
LEMMA UntoldYet ==
  ASSUME NEW side, NEW e, NEW T, NEW adm, EndIs(side, e, T, adm),
         NEW id \in DOMAIN e.fc.registry
  PROVE  T[id] = "None" /\ IsDecided(side, e.fc, id) /\ id \in Ids
<1>1. id \in Ids /\ IsDecided(side, e.fc, id)
  BY DEF EndIs, FlowControlIs
<1> QED
  BY <1>1 DEF EndIs, TellingIs

\* A sequence with one more at its end, and with one less at its start.
IsLonger(q, x, q2) ==
  /\ Len(q) \in Nat /\ DOMAIN q = 1 .. Len(q)
  /\ Len(q2) = Len(q) + 1 /\ DOMAIN q2 = 1 .. Len(q) + 1
  /\ q2[Len(q) + 1] = x /\ \A n \in 1 .. Len(q) : q2[n] = q[n]
IsShorter(q, q2) ==
  /\ Len(q) \in Nat /\ DOMAIN q = 1 .. Len(q) /\ Len(q) >= 1 /\ Head(q) = q[1]
  /\ Len(q2) = Len(q) - 1 /\ DOMAIN q2 = 1 .. Len(q) - 1
  /\ \A n \in 1 .. Len(q) - 1 : q2[n] = q[n + 1]

\* Append makes a sequence longer by one at its end.
LEMMA MoreAtEnd ==
  ASSUME NEW X, NEW q \in Seq(X), NEW x \in X
  PROVE  IsLonger(q, x, Append(q, x))
BY DEF IsLonger

\* Tail makes it shorter by one at its start.
LEMMA LessAtStart ==
  ASSUME NEW X, NEW q \in Seq(X), q # <<>>
  PROVE  IsShorter(q, Tail(q))
BY DEF IsShorter

\* A queue holds the last of n messages of a flow.
HoldsLast(id, q, n) ==
  Len(q) <= n /\ \A i \in DOMAIN q : q[i].payload = Piece(id, n - Len(q) + i)

\* So does one that takes the next.
LEMMA HoldingMore ==
  ASSUME NEW id, NEW n \in Nat, NEW q, HoldsLast(id, q, n), NEW t,
         t.payload = Piece(id, n + 1), NEW q2, IsLonger(q, t, q2)
  PROVE  HoldsLast(id, q2, n + 1)
<1>1. /\ Len(q) \in Nat /\ DOMAIN q = 1 .. Len(q) /\ Len(q) <= n
      /\ Len(q2) = Len(q) + 1 /\ DOMAIN q2 = 1 .. Len(q) + 1
  BY DEF IsLonger, HoldsLast
<1>2. ASSUME NEW i \in DOMAIN q2
      PROVE  q2[i].payload = Piece(id, (n + 1) - Len(q2) + i)
  <2>1. CASE i = Len(q) + 1
    <3>1. (n + 1) - Len(q2) + i = n + 1
      BY <1>1, <2>1
    <3> QED
      BY <2>1, <3>1 DEF IsLonger
  <2>2. CASE i # Len(q) + 1
    <3>1. i \in 1 .. Len(q) /\ (n + 1) - Len(q2) + i = n - Len(q) + i
      BY <1>1, <2>2
    <3>2. q2[i] = q[i] /\ q[i].payload = Piece(id, n - Len(q) + i)
      BY <1>1, <3>1 DEF IsLonger, HoldsLast
    <3> QED
      BY <3>1, <3>2
  <2> QED
    BY <2>1, <2>2
<1>3. Len(q2) <= n + 1
  BY <1>1
<1> QED
  BY <1>2, <1>3 DEF HoldsLast

\* And one that gives the first away, which is the message before those it keeps.
LEMMA HoldingLess ==
  ASSUME NEW id, NEW n \in Nat, NEW q, HoldsLast(id, q, n), NEW q2, IsShorter(q, q2)
  PROVE  HoldsLast(id, q2, n) /\ q[1].payload = Piece(id, n - Len(q) + 1)
<1>1. /\ Len(q) \in Nat /\ DOMAIN q = 1 .. Len(q) /\ Len(q) <= n /\ Len(q) >= 1
      /\ Len(q2) = Len(q) - 1 /\ DOMAIN q2 = 1 .. Len(q) - 1
  BY DEF IsShorter, HoldsLast
<1>2. ASSUME NEW i \in DOMAIN q2
      PROVE  q2[i].payload = Piece(id, n - Len(q2) + i)
  <2>1. i + 1 \in DOMAIN q /\ i \in 1 .. Len(q) - 1 /\ n - Len(q2) + i = n - Len(q) + (i + 1)
    BY <1>1
  <2>2. q2[i] = q[i + 1] /\ q[i + 1].payload = Piece(id, n - Len(q) + (i + 1))
    BY <2>1 DEF IsShorter, HoldsLast
  <2> QED
    BY <2>1, <2>2
<1>3. Len(q2) <= n /\ 1 \in DOMAIN q
  BY <1>1
<1> QED
  BY <1>2, <1>3 DEF HoldsLast

\* The opener's queue takes a message more.
LEMMA SubmittedDelivers ==
  ASSUME NEW id \in Ids, NEW e, NEW e2, NEW r, NEW S, NEW T, NEW R, NEW h, NEW h2, NEW adm,
         h.accepted \in Nat, Around(id, e, r, S, T, R, adm), Delivery(id, e, r, S, T, R, h),
         e2.fc = e.fc, e2.outbound = e.outbound, id \in DOMAIN e.fc.registry,
         NEW t, t.payload = Piece(id, h.accepted + 1),
         IsLonger(e.ep.flows[KeyOf(id.side, id)].outbound, t,
                  e2.ep.flows[KeyOf(id.side, id)].outbound),
         h2.accepted = h.accepted + 1, h2.exposed = h.exposed
  PROVE  Delivery(id, e2, r, S, T, R, h2)
<1> DEFINE k == KeyOf(id.side, id)
           q == e.ep.flows[k].outbound
           q2 == e2.ep.flows[k].outbound
           accepted == h.accepted
           b == e.outbound[id]
<1>1. T[id] = "None" /\ IsDecided(id.side, e.fc, id)
  BY UntoldYet DEF Around
<1>2. /\ HoldsLast(id, q, accepted)
      /\ id \in DOMAIN e.outbound =>
           /\ b.next = accepted - Len(q)
           /\ ~b.header => b.next = 0
           /\ b.state = "Acquiring" => ~b.header
           /\ b.state = "Finishing" => b.header
  BY DEF Delivery, IsSending, HoldsLast
<1>3. IsLonger(q, t, q2) /\ accepted \in Nat /\ t.payload = Piece(id, accepted + 1)
  OBVIOUS
<1> HIDE DEF q, q2, accepted, b
<1>4. HoldsLast(id, q2, accepted + 1)
  BY <1>2, <1>3, HoldingMore
<1>5. accepted - Len(q) = (accepted + 1) - Len(q2)
  BY <1>3 DEF IsLonger
<1>6. IsSending(id, e2, accepted + 1)
  <2>1. id \in DOMAIN e.outbound => b.next = (accepted + 1) - Len(q2)
    BY <1>2, <1>5
  <2> QED
    BY <1>1, <1>2, <1>4, <2>1 DEF IsSending, HoldsLast, q2, b
<1>7. \A n : HasWritten(id, e2, accepted + 1, T, n) => HasWritten(id, e, accepted, T, n)
  BY <1>1 DEF HasWritten
<1>8. IsFinished(id, e2) <=> IsFinished(id, e)
  BY DEF IsFinished
<1>9. IsStreaming(id, e2, r, accepted + 1, T, S)
  BY <1>7, <1>8 DEF Delivery, IsStreaming, accepted
<1>10. R[id] = "Normal" => AllIsExposed(id, e2, accepted + 1, h.exposed, T)
  BY <1>7, <1>8 DEF Delivery, AllIsExposed, accepted
<1> QED
  BY <1>6, <1>9, <1>10 DEF Delivery, accepted

\* An end whose endpoint alone changes.
MovesEndpoint(side, e, after, id, ep) ==
  /\ after.ep = ep /\ after.fc = e.fc
  /\ after.outbound = e.outbound /\ after.inbound = e.inbound
  /\ Concerns(side, e, after, id)

\* It does nothing to other flows.
LEMMA OnlyEndpoint ==
  ASSUME NEW side, NEW e, IsAnEnd(e), NEW id, NEW ep, OnlyFlow(e.ep, ep, KeyOf(side, id))
  PROVE  MovesEndpoint(side, e, [e EXCEPT !.ep = ep], id, ep)
<1> DEFINE after == [e EXCEPT !.ep = ep]
<1>1. after.ep = ep /\ after.fc = e.fc /\ after.outbound = e.outbound /\ after.inbound = e.inbound
  BY DEF IsAnEnd
<1> HIDE DEF after
<1>2. Concerns(side, e, after, id)
  BY <1>1 DEF Concerns
<1> QED
  BY <1>1, <1>2 DEF MovesEndpoint, after

\* A submission that is not accepted changes nothing of a reliable flow's messages, one
\* that is makes it longer.
LEMMA ReliablySubmitted ==
  ASSUME NEW ep, EndpointInv(ep), NEW k, NEW p \in Payloads, CanSubmit(ep, k, p),
         ep.flows[k].mode = Reliable, NEW out, out = Submit(ep, k, p)
  PROVE  /\ OnlyFlow(ep, out, k)
         /\ Accepts(ep, k, p) => \E t \in Transfer : t.payload = p /\
              IsLonger(ep.flows[k].outbound, t, out.flows[k].outbound)
         /\ ~Accepts(ep, k, p) => out = ep
<1> DEFINE f == ep.flows[k]
           g == out.flows[k]
           t == [index |-> f.next_accepted_index, payload |-> p]
<1>1. OnlyFlow(ep, out, k) /\ k \in DOMAIN ep.flows /\ Submitted(f, g, p, Accepts(ep, k, p))
  BY SubmitChanges
<1>2. f.policy.outbound = "RejectNew" /\ f.outbound \in Seq(Transfer)
  <2>1. FlowInv(k, f) /\ f \in FlowRecord(f.session)
    BY <1>1, EndpointHas
  <2> HIDE DEF f
  <2>2. f.outbound \in Seq(Transfer)
    BY <2>1, ContentsAre
  <2>3. f.mode = Reliable
    BY DEF f
  <2> QED
    BY <2>1, <2>2, <2>3 DEF FlowInv, IsSuited, ValidPolicy
<1>3. Accepts(ep, k, p) => g.outbound = Append(f.outbound, t)
  BY <1>1, <1>2 DEF Submitted, Kept
<1>4. t \in Transfer /\ t.payload = p
  BY DEF CanSubmit, Transfer
<1>5. ~Accepts(ep, k, p) => out = ep
  BY <1>2 DEF Submit, MakeRoom
<1> HIDE DEF f, t
<1>6. IsLonger(f.outbound, t, Append(f.outbound, t))
  BY <1>2, <1>4, MoreAtEnd
<1>7. Accepts(ep, k, p) => IsLonger(f.outbound, t, g.outbound)
  BY <1>3, <1>6
<1> QED
  BY <1>1, <1>4, <1>5, <1>7 DEF f

\* A message that is accepted is to be delivered.
LEMMA AcceptedDelivers ==
  ASSUME ConnectionInv, ModesAre, DeliveriesAre, NEW side \in Sides, NEW id \in Ids,
         id.side = side, id \in DOMAIN end[side].fc.registry, NEW mode \in Mode,
         CanSubmit(end[side].ep, KeyOf(side, id), NextPayload(id)),
         history[id].accepted < MaxMessages[mode], Accepted(side, id),
         UNCHANGED <<streams, told>>
  PROVE  DeliveriesAre'
<1> DEFINE e == end[side]
           k == KeyOf(side, id)
           p == NextPayload(id)
           ep == Submit(e.ep, k, p)
           after == [e EXCEPT !.ep = ep]
           T == told[side]
           R == told[Other(side)]
           r == end[Other(side)]
           h == history[id]
           h2 == history'[id]
           adm == Admitted(history)
<1>1. /\ EndIs(side, e, T, adm) /\ HistoryIs(history)
      /\ IsAnEnd(e) /\ EndpointInv(e.ep) /\ CanSubmit(e.ep, k, p)
  BY DEF ConnectionInv, EndIs, IsAnEnd
<1>2. p \in Payloads /\ h.accepted \in Nat /\ p = Piece(id, h.accepted + 1)
  <2>1. h.accepted \in Nat
    BY DEF ConnectionInv, HistoryIs
  <2>2. MaxMessages[mode] \in Nat
    BY EstablishedConnectionAssumption
  <2>3. h.accepted + 1 \in 1 .. MaxMessages[mode]
    BY <2>1, <2>2
  <2> QED
    BY <2>1, <2>3, EstablishedConnectionAssumption DEF NextPayload, Piece
<1>3. end' = [end EXCEPT ![side] = after]
  BY DEF Accepted
<1>4. /\ Accepts(e.ep, k, p) => history' = [history EXCEPT ![id].accepted = @ + 1]
      /\ ~Accepts(e.ep, k, p) => history' = history
  BY DEF Accepted
<1>5. /\ Accepts(e.ep, k, p) => h2.accepted = h.accepted + 1
      /\ ~Accepts(e.ep, k, p) => h2 = h
      /\ h2.exposed = h.exposed /\ h2.mode = h.mode
      /\ \A j \in Ids \ {id} : history'[j] = history[j]
  <2>1. CASE Accepts(e.ep, k, p)
    <3>1. history' = [history EXCEPT ![id].accepted = @ + 1]
      BY <1>4, <2>1
    <3>2. Records(id, [mode |-> history[id].mode, accepted |-> history[id].accepted + 1,
                       admitted |-> history[id].admitted, exposed |-> history[id].exposed])
      BY <1>1, <3>1, HistoryHas
    <3> QED
      BY <2>1, <3>2 DEF Records
  <2>2. CASE ~Accepts(e.ep, k, p)
    BY <1>4, <2>2
  <2> QED
    BY <2>1, <2>2
<1>6. OnlyMoves(id)
  BY <1>5 DEF OnlyMoves
<1> HIDE DEF e, k, p, T, R, r, h, h2, adm
<1>7. OnlyFlow(e.ep, ep, k)
  BY <1>1, <1>2, SubmitChanges
<1> HIDE DEF ep
<1>8. MovesEndpoint(side, e, after, id, ep)
  <2>1. OnlyFlow(e.ep, ep, KeyOf(side, id)) /\ IsAnEnd(e)
    BY <1>1, <1>7 DEF k
  <2> QED
    BY <2>1, OnlyEndpoint
<1>9. ep = e.ep => after = e
  BY ONLY <1>1 DEF IsAnEnd
<1> HIDE DEF after
<1>10. ASSUME history[id].mode \notin Unreliable
       PROVE  Delivery(id, after, r, streams', T, R, h2)
  <2>1. id \in DOMAIN e.fc.registry
    BY DEF e
  <2>2. Around(id, e, r, streams, T, R, adm) /\ Delivery(id, e, r, streams, T, R, h)
    BY <1>10, FlowIsAround DEF DeliveriesAre, DeliveryOf, e, r, T, R, adm, h
  <2>3. e.ep.flows[k].mode = Reliable
    <3>1. e.fc.registry[id].mode = Reliable
      BY <1>10, <2>1, RegisteredMode DEF e
    <3> QED
      BY <1>1, <2>1, <3>1 DEF EndIs, FlowsAgree, k
  <2>4. /\ Accepts(e.ep, k, p) => \E t \in Transfer : t.payload = p /\
             IsLonger(e.ep.flows[k].outbound, t, ep.flows[k].outbound)
        /\ ~Accepts(e.ep, k, p) => ep = e.ep
    BY <1>1, <1>2, <2>3, ReliablySubmitted DEF ep
  <2>5. CASE ~Accepts(e.ep, k, p)
    BY <1>5, <1>9, <2>2, <2>4, <2>5
  <2>6. CASE Accepts(e.ep, k, p)
    <3>1. PICK t \in Transfer : t.payload = p /\
                                IsLonger(e.ep.flows[k].outbound, t, ep.flows[k].outbound)
      BY <2>4, <2>6
    <3> DEFINE K == KeyOf(id.side, id)
    <3>2. IsLonger(e.ep.flows[K].outbound, t, after.ep.flows[K].outbound)
      BY <1>8, <3>1 DEF k, MovesEndpoint
    <3>3. Delivery(id, after, r, streams, T, R, h2)
      BY <1>2, <1>5, <1>8, <2>1, <2>2, <2>6, <3>1, <3>2, SubmittedDelivers
         DEF MovesEndpoint
    <3> QED
      BY <3>3
  <2> QED
    BY <2>5, <2>6
<1>11. history[id].mode \notin Unreliable =>
         Delivery(id, after, end[Other(id.side)], streams', told[id.side],
                  told[Other(id.side)], history'[id])
  BY <1>10 DEF r, T, R, h2
<1> QED
  BY <1>3, <1>6, <1>8, <1>11, OpenerDelivers DEF e, MovesEndpoint

\* A host submits a message.
LEMMA SubmissionDelivers ==
  ASSUME ConnectionInv, ModesAre, DeliveriesAre, NEW side \in Sides, NEW id \in Ids,
         SubmitReliable(side, id) \/ SubmitUnreliable(side, id)
  PROVE  ModesAre' /\ DeliveriesAre'
<1>1. ModesAre'
  BY PassingKnows
<1>2. CASE SubmitReliable(side, id)
  <2>1. id.side = side
    BY <1>2 DEF ConnectionInv, EndIs, OutboundIs, SubmitReliable
  <2> QED
    BY <1>1, <1>2, <2>1, AcceptedDelivers DEF SubmitReliable, Mode
<1>3. CASE SubmitUnreliable(side, id)
  <2>1. end[side].fc.registry[id].mode \in Mode
    BY <1>3 DEF ConnectionInv, EndIs, FlowControlIs, SubmitUnreliable, SendsDatagrams
  <2> QED
    BY <1>1, <1>3, <2>1, AcceptedDelivers DEF SubmitUnreliable, SendsDatagrams
<1> QED
  BY <1>2, <1>3

\* A message leaves in a datagram, which no reliable flow uses.
LEMMA SendDatagramDelivers ==
  ASSUME ConnectionInv, ModesAre, DeliveriesAre, NEW side \in Sides, NEW id \in Ids,
         SendDatagram(side, id)
  PROVE  ModesAre' /\ DeliveriesAre'
<1> DEFINE e == end[side]
           k == KeyOf(side, id)
           ep == CommitCustody(e.ep, k)
           after == [e EXCEPT !.ep = ep]
<1>1. /\ id.side = side /\ id \in DOMAIN e.fc.registry /\ e.fc.registry[id].mode # Reliable
      /\ k \in DOMAIN e.ep.flows /\ e.ep.flows[k].outbound # <<>>
      /\ end' = [end EXCEPT ![side].ep = CommitCustody(@, k)]
      /\ UNCHANGED <<streams, told, history>>
  BY DEF SendDatagram, SendsDatagrams, HasPending
<1>2. end' = [end EXCEPT ![id.side] = after]
  BY <1>1 DEF ConnectionInv
<1>3. CanCommitCustody(e.ep, k) /\ EndpointInv(e.ep) /\ IsAnEnd(e)
  BY <1>1, KeyDirection DEF ConnectionInv, CanCommitCustody, EndIs, IsAnEnd
<1>4. history[id].mode \in Unreliable
  BY <1>1, RegisteredMode
<1>5. OnlyMoves(id)
  BY <1>1 DEF OnlyMoves
<1>6. ModesAre'
  BY PassingKnows
<1> HIDE DEF e
<1>7. OnlyFlow(e.ep, ep, KeyOf(side, id))
  BY <1>3, CommitChanges
<1> HIDE DEF ep
<1>8. Concerns(id.side, end[id.side], after, id)
  BY <1>1, <1>3, <1>7, OnlyEndpoint DEF MovesEndpoint, e
<1> HIDE DEF after
<1> QED
  BY <1>2, <1>4, <1>5, <1>6, <1>8, OpenerDelivers

\* A datagram arrives, and what there is of a reliable flow is not moved by it.
LEMMA ReceiveDatagramDelivers ==
  ASSUME ConnectionInv, ModesAre, DeliveriesAre, NEW side \in Sides, NEW datagram \in datagrams,
         ReceiveDatagram(side, datagram)
  PROVE  ModesAre' /\ DeliveriesAre'
<1> DEFINE e == end[side]
           id == datagram.id
           k == KeyOf(side, id)
           t == [index |-> datagram.index, payload |-> datagram.payload]
           mode == e.fc.registry[id].mode
           ep == Receive(e.ep, k, mode, t)
           after == [e EXCEPT !.ep = ep]
<1>1. ModesAre' /\ ConnectionInv'
  BY ReceiveDatagramKnows, ReceiveDatagramKeeps
<1>2. /\ id.side # side /\ end' = [end EXCEPT ![side] = DatagramReceived(side, @, id, t)]
      /\ UNCHANGED <<streams, told, history>>
  BY DEF ReceiveDatagram
<1>3. id \in Ids /\ t \in Transfer
  BY DEF ConnectionInv, WiresAre, Transfer
<1>4. CASE IsCalm(side)
  <2>1. OneEndMoves(side)
    BY <1>2 DEF ConnectionInv, OneEndMoves
  <2>2. \A j \in Ids : IsQuietStream(j, end'[Other(j.side)], streams, streams')
    BY <1>2 DEF IsQuietStream
  <2> QED
    BY <1>1, <1>2, <1>4, <2>1, <2>2, LosingDelivers
<1>5. CASE id \in DOMAIN e.fc.registry /\ mode # Reliable
  <2>1. /\ side = Other(id.side) /\ history[id].mode \in Unreliable
    BY <1>2, <1>3, <1>5, IdsHave, RegisteredMode
  <2>2. end' = [end EXCEPT ![Other(id.side)] = after]
    BY <1>5, <1>2, <2>1 DEF DatagramReceived, ConnectionInv
  <2>3. EndIs(side, e, told[side], Admitted(history))
    BY DEF ConnectionInv
  <2>4. /\ EndpointInv(e.ep) /\ IsAnEnd(e) /\ mode \in Mode
        /\ k \in DOMAIN e.ep.flows /\ e.ep.flows[k].mode = mode
    BY <1>3, <1>5, <2>3, HasFlow DEF EndIs, FlowsAgree, FlowControlIs, IsAnEnd
  <2>5. CanReceive(e.ep, k) /\ ~FailsReliably(e.ep, k, mode, t)
    BY <1>2, <1>5, <2>4, KeyDirection DEF CanReceive, FailsReliably
  <2>6. OnlyMoves(id)
    BY <1>2 DEF OnlyMoves
  <2> HIDE DEF e, id, t, mode
  <2>7. OnlyFlow(e.ep, ep, KeyOf(side, id))
    BY <1>3, <2>4, <2>5, ReceiveChanges
  <2> HIDE DEF ep
  <2>8. Concerns(side, e, after, id)
    BY <2>4, <2>7, OnlyEndpoint DEF MovesEndpoint
  <2> HIDE DEF after
  <2> QED
    BY <1>1, <1>3, <2>1, <2>2, <2>6, <2>8, AcceptorDelivers DEF e
<1> QED
  BY <1>4, <1>5, ReceiveDatagramKeeps

\* An interval without its first number.
LEMMA IntervalTail ==
  \A m, n \in Nat : m \in m .. n - 1 =>
    m + 1 <= n /\ (m .. n - 1) \ {m} = (m + 1) .. n - 1
  OBVIOUS

\* The acceptor exposes the next message of its buffer.
LEMMA ExposedDelivers ==
  ASSUME NEW id \in Ids, NEW e, NEW r, NEW r2, NEW S, NEW T, NEW R, NEW h, NEW h2, NEW adm,
         Around(id, e, r, S, T, R, adm), Delivery(id, e, r, S, T, R, h),
         r2.fc = r.fc, r2.inbound = r.inbound, id \in DOMAIN r.fc.registry,
         NEW f, f = r.ep.flows[KeyOf(Other(id.side), id)],
         NEW g, g = r2.ep.flows[KeyOf(Other(id.side), id)],
         f.next_exposure \in DOMAIN f.by_index,
         g.by_index = Drop(f.by_index, {f.next_exposure}),
         g.next_exposure = f.next_exposure + 1,
         h2.exposed \in Seq(Payloads), h2.accepted = h.accepted,
         IsLonger(h.exposed, f.by_index[f.next_exposure], h2.exposed)
  PROVE  Delivery(id, e, r2, S, T, R, h2)
<1> DEFINE peer == Other(id.side)
           x == h.exposed
           y == h2.exposed
<1>a. /\ g.by_index = Drop(f.by_index, {f.next_exposure})
      /\ g.next_exposure = f.next_exposure + 1
      /\ f.next_exposure \in DOMAIN f.by_index
  BY Zenon
<1>b. y \in Seq(Payloads) /\ IsLonger(x, f.by_index[f.next_exposure], y)
  BY Zenon
<1>c. Delivery(id, e, r, S, T, R, h)
  BY Zenon
<1>d. r2.fc = r.fc /\ r2.inbound = r.inbound /\ g = r2.ep.flows[KeyOf(peer, id)]
  BY Zenon
<1>1. R[id] = "None" /\ IsDecided(peer, r.fc, id)
  BY UntoldYet DEF Around
<1>2. /\ \A i \in DOMAIN x : x[i] = Piece(id, i)
      /\ id \in DOMAIN r.inbound /\ ~r.inbound[id].associated => r.inbound[id].next = 0
      /\ f.next_exposure = Len(x)
      /\ \A i \in DOMAIN f.by_index : f.by_index[i] = Piece(id, i + 1)
      /\ ~r.fc.registry[id].associated => DOMAIN f.by_index = {} /\ x = <<>>
      /\ id \in DOMAIN r.inbound /\ r.inbound[id].associated =>
           /\ DOMAIN f.by_index = Len(x) .. r.inbound[id].next - 1
           /\ Len(x) <= r.inbound[id].next
  BY Zenon DEF Delivery, IsReceiving
<1>3. id \in DOMAIN r.inbound => r.inbound[id].next \in Nat
  BY DEF Around, EndIs, InboundIs, InboundStates
<1>4. /\ DOMAIN g.by_index = DOMAIN f.by_index \ {Len(x)}
      /\ \A i \in DOMAIN g.by_index : g.by_index[i] = f.by_index[i]
  <2> DEFINE n == f.next_exposure
             m == f.by_index
             left == g.by_index
  <2>1. left = Drop(m, {n}) /\ n = Len(x)
    BY ONLY <1>2, <1>a
  <2> HIDE DEF n, m, left, x
  <2>2. DOMAIN left = DOMAIN m \ {n} /\ \A i \in DOMAIN left : left[i] = m[i]
    BY ONLY <2>1 DEF Drop, Restrict
  <2> QED
    BY ONLY <2>1, <2>2 DEF m, left
<1>5. IsLonger(x, f.by_index[Len(x)], y) /\ f.by_index[Len(x)] = Piece(id, Len(x) + 1)
  BY ONLY <1>2, <1>a, <1>b
<1>6. Len(x) \in Nat /\ Len(y) = Len(x) + 1 /\ g.next_exposure = Len(y)
  BY ONLY <1>2, <1>5, <1>a DEF IsLonger
<1>7. y \in Seq(Payloads) /\ Len(x) \in DOMAIN f.by_index
  BY ONLY <1>2, <1>a, <1>b
<1> HIDE DEF x, y
<1>8. \A i \in DOMAIN y : y[i] = Piece(id, i)
  BY ONLY <1>2, <1>5 DEF IsLonger
<1>9. id \in DOMAIN r.inbound /\ r.inbound[id].associated =>
        /\ DOMAIN g.by_index = Len(y) .. r.inbound[id].next - 1
        /\ Len(y) <= r.inbound[id].next
  <2>1. \A m, n \in Nat : m \in m .. n - 1 =>
          m + 1 <= n /\ (m .. n - 1) \ {m} = (m + 1) .. n - 1
    BY IntervalTail
  <2> SUFFICES ASSUME id \in DOMAIN r.inbound, r.inbound[id].associated
               PROVE  /\ DOMAIN g.by_index = Len(y) .. r.inbound[id].next - 1
                      /\ Len(y) <= r.inbound[id].next
    OBVIOUS
  <2> DEFINE m == Len(x)
             l == Len(y)
             n == r.inbound[id].next
             D == DOMAIN f.by_index
             left == DOMAIN g.by_index
  <2>2. m \in Nat /\ l = m + 1 /\ n \in Nat /\ D = m .. n - 1 /\ m \in D /\ left = D \ {m}
    BY ONLY <1>2, <1>3, <1>4, <1>6, <1>7, id \in DOMAIN r.inbound, r.inbound[id].associated
  <2> HIDE DEF m, l, n, D, left
  <2>3. left = l .. n - 1 /\ l <= n
    BY ONLY <2>1, <2>2
  <2> QED
    BY ONLY <2>3 DEF l, n, left
<1>10. IsReceiving(id, r2, y)
  <2>1. \A i \in DOMAIN g.by_index : g.by_index[i] = Piece(id, i + 1)
    BY ONLY <1>2, <1>4
  <2>2. r2.fc.registry[id].associated
    BY ONLY <1>2, <1>7, <1>d
  <2> QED
    BY ONLY <1>1, <1>2, <1>6, <1>7, <1>8, <1>9, <1>d, <2>1, <2>2 DEF IsReceiving, peer
<1>11. \A m : HasRead(id, r2, S, m) <=> HasRead(id, r, S, m)
  BY ONLY <1>d DEF HasRead
<1>12. IsStreaming(id, e, r2, h2.accepted, T, S)
  BY <1>11 DEF Delivery, IsStreaming
<1> QED
  BY <1>1, <1>10, <1>12, Zenon DEF Delivery, y

\* A host takes a message.
LEMMA PollExposureDelivers ==
  ASSUME ConnectionInv, ModesAre, DeliveriesAre, NEW side \in Sides, NEW id \in Ids,
         PollExposure(side, id)
  PROVE  ModesAre' /\ DeliveriesAre'
<1> DEFINE e == end[side]
           k == KeyOf(side, id)
           ep == Poll(e.ep, k)
           f == e.ep.flows[k]
           g == ep.flows[k]
           after == [e EXCEPT !.ep = ep]
           h == history[id]
           h2 == history'[id]
           out == Exposure(f).payload
           x == Append(h.exposed, out)
           R == told[side]
<1>1. /\ id.side # side /\ k \in DOMAIN e.ep.flows /\ Ready(f)
      /\ end' = [end EXCEPT ![side].ep = Poll(@, k)]
      /\ history' = [history EXCEPT ![id].exposed = Append(@, Exposure(f).payload)]
      /\ UNCHANGED <<streams, told>>
  BY DEF PollExposure
<1>2. side = Other(id.side)
  BY <1>1, IdsHave
<1>3. end' = [end EXCEPT ![side] = after]
  BY <1>1 DEF ConnectionInv
<1>4. /\ EndIs(side, e, told[side], Admitted(history)) /\ IsAnEnd(e) /\ HistoryIs(history)
      /\ CanReceive(e.ep, k) /\ EndpointInv(e.ep)
  BY <1>1, KeyDirection DEF CanReceive, ConnectionInv, EndIs, IsAnEnd
<1>5. id \in DOMAIN e.fc.registry
  BY <1>1, <1>4, HasFlow DEF EndIs
<1>6. Records(id, [mode |-> h.mode, accepted |-> h.accepted, admitted |-> h.admitted,
                   exposed |-> x])
  <2>1. history' = [history EXCEPT ![id].exposed = x]
    BY <1>1
  <2> HIDE DEF x
  <2> QED
    BY <1>4, <2>1, HistoryHas
<1>7. /\ h2.mode = h.mode /\ h2.accepted = h.accepted /\ h2.exposed = x
      /\ \A j \in Ids \ {id} : history'[j] = history[j]
  BY <1>6 DEF Records
<1>8. OnlyMoves(id)
  BY <1>1, <1>7 DEF OnlyMoves
<1>9. ModesAre'
  BY PassingKnows
<1>10. history[id].mode \notin Unreliable =>
         /\ f.mode = Reliable
         /\ Around(id, end[id.side], e, streams, told[id.side], told[side], Admitted(history))
         /\ Delivery(id, end[id.side], e, streams, told[id.side], told[side], h)
  <2>1. e.fc.registry[id].mode = f.mode
    BY <1>4, <1>5 DEF EndIs, FlowsAgree
  <2> QED
    BY <1>2, <1>5, <2>1, RegisteredMode, FlowIsAround DEF DeliveriesAre, DeliveryOf
<1> HIDE DEF e, k, f, h, h2
<1>11. OnlyFlow(e.ep, ep, k) /\ Polled(f, g)
  BY <1>4, PollChanges DEF f
<1> HIDE DEF ep
<1>12. MovesEndpoint(side, e, after, id, ep)
  <2>1. OnlyFlow(e.ep, ep, KeyOf(side, id)) /\ IsAnEnd(e)
    BY <1>4, <1>11 DEF k
  <2> QED
    BY <2>1, OnlyEndpoint
<1> HIDE DEF after, x, out
<1>13. ASSUME history[id].mode \notin Unreliable
       PROVE  Delivery(id, end[id.side], after, streams', told[id.side], told[side], h2)
  <2>1. f.mode = Reliable
    BY <1>10, <1>13
  <2>2. /\ f.next_exposure \in DOMAIN f.by_index /\ out = f.by_index[f.next_exposure]
        /\ g.by_index = Drop(f.by_index, {f.next_exposure})
        /\ g.next_exposure = f.next_exposure + 1
    BY <1>1, <1>11, <2>1 DEF Ready, Polled, Exposure, out
  <2>3. h.exposed \in Seq(Payloads)
    BY <1>10, <1>13 DEF Delivery, IsReceiving
  <2>4. f.by_index \in Buffer
    <3>1. f \in FlowRecord(f.session)
      BY <1>1, <1>4, EndpointHas DEF f
    <3> QED
      BY <3>1, ContentsAre
  <2>5. out \in Payloads
    BY <2>2, <2>4 DEF Buffer
  <2>6. x \in Seq(Payloads) /\ IsLonger(h.exposed, out, x)
    BY <2>3, <2>5, MoreAtEnd DEF x
  <2>7. after.fc = e.fc /\ after.inbound = e.inbound /\ after.ep = ep
    BY <1>12 DEF MovesEndpoint
  <2> DEFINE K == KeyOf(Other(id.side), id)
  <2>8. f = e.ep.flows[K] /\ g = after.ep.flows[K]
    BY <1>2, <2>7 DEF f, k
  <2> HIDE DEF g
  <2>9. IsLonger(h.exposed, f.by_index[f.next_exposure], h2.exposed)
    BY <1>7, <2>2, <2>6 DEF h2
  <2>10. h2.accepted = h.accepted /\ h2.exposed = x
    BY <1>7 DEF h2, h
  <2>11. Delivery(id, end[id.side], after, streams, told[id.side], R, h2)
    <3> HIDE DEF R
    <3>1. /\ Around(id, end[id.side], e, streams, told[id.side], R, Admitted(history))
          /\ Delivery(id, end[id.side], e, streams, told[id.side], R, h)
      BY <1>10, <1>13 DEF R
    <3> QED
      BY <1>5, <2>2, <2>6, <2>7, <2>8, <2>9, <2>10, <3>1, ExposedDelivers, Zenon
  <2> QED
    BY <1>1, <2>11
<1> QED
  BY <1>2, <1>3, <1>8, <1>9, <1>12, <1>13, AcceptorDelivers DEF MovesEndpoint, e, h2

\* An end that changes what it keeps of the flow's stream, and its endpoint.
MovesOutbound(side, e, after, id, b, ep) ==
  /\ after.fc = e.fc /\ after.ep = ep /\ after.inbound = e.inbound
  /\ DOMAIN after.outbound = DOMAIN e.outbound /\ after.outbound[id] = b
  /\ Concerns(side, e, after, id)

\* It does nothing to other flows.
LEMMA OnlyOutbound ==
  ASSUME NEW side, NEW e, IsAnEnd(e), NEW id \in DOMAIN e.outbound, NEW b, NEW ep,
         ep = e.ep \/ OnlyFlow(e.ep, ep, KeyOf(side, id)),
         NEW after, \/ after = [[e EXCEPT !.outbound[id] = b] EXCEPT !.ep = ep]
                    \/ after = [e EXCEPT !.outbound[id] = b] /\ ep = e.ep
  PROVE  MovesOutbound(side, e, after, id, b, ep)
<1> DEFINE outbound == [e.outbound EXCEPT ![id] = b]
           m == [e EXCEPT !.outbound[id] = b]
<1>1. m = [phase |-> e.phase, sender |-> e.sender, deferred |-> e.deferred, ended |-> e.ended,
           fc |-> e.fc, ep |-> e.ep, outbound |-> outbound, inbound |-> e.inbound]
  BY DEF IsAnEnd
<1>2. (after = m /\ ep = e.ep) \/ after = [m EXCEPT !.ep = ep]
  OBVIOUS
<1>3. /\ DOMAIN outbound = DOMAIN e.outbound /\ outbound[id] = b
      /\ \A j \in DOMAIN e.outbound : j # id => outbound[j] = e.outbound[j]
  OBVIOUS
<1> HIDE DEF m, outbound
<1>4. /\ after.fc = e.fc /\ after.ep = ep /\ after.inbound = e.inbound
      /\ after.outbound = outbound
  BY <1>1, <1>2
<1>5. Concerns(side, e, after, id)
  BY <1>3, <1>4 DEF Concerns
<1> QED
  BY <1>3, <1>4, <1>5 DEF MovesOutbound

\* The opener ends a stream that has all its messages.
LEMMA FinishedDelivers ==
  ASSUME NEW id \in Ids, NEW e, NEW e2, NEW r, NEW S, NEW S2, NEW T, NEW R, NEW h, NEW adm,
         Around(id, e, r, S, T, R, adm), Delivery(id, e, r, S, T, R, h),
         id \in DOMAIN e.outbound, id \in DOMAIN e.fc.registry,
         e.outbound[id].state = "Writing", e.outbound[id].header,
         MovesOutbound(id.side, e, e2, id, Finishing(e.outbound[id]), e.ep),
         DOMAIN S2 = DOMAIN S, id \in DOMAIN S => S2[id] = Finished(S[id])
  PROVE  Delivery(id, e2, r, S2, T, R, h)
<1> DEFINE b == e.outbound[id]
           c == e2.outbound[id]
<1>1. IsDecided(id.side, e.fc, id) /\ b \in OutboundStates
  BY DEF Around, EndIs, OutboundIs
<1>2. c.state = "Finishing" /\ c.header /\ c.next = b.next
  BY <1>1 DEF Finishing, OutboundStates, MovesOutbound
<1>3. e2.fc = e.fc /\ e2.ep = e.ep /\ DOMAIN e2.outbound = DOMAIN e.outbound
  BY DEF MovesOutbound
<1>4. IsSending(id, e2, h.accepted)
  BY <1>1, <1>2, <1>3 DEF IsSending, Delivery
<1>5. /\ \A n : HasWritten(id, e2, h.accepted, T, n) <=> HasWritten(id, e, h.accepted, T, n)
      /\ IsFinished(id, e2)
  BY <1>2, <1>3 DEF HasWritten, IsFinished
<1>6. IsStreaming(id, e2, r, h.accepted, T, S2)
  <2>1. ASSUME id \in DOMAIN S
        PROVE  S2[id].data = S[id].data /\ S2[id].stopped = S[id].stopped
               /\ S2[id].acquired = S[id].acquired
    BY <2>1 DEF Around, StreamIs, Finished
  <2> QED
    BY <1>5, <2>1 DEF IsStreaming, Delivery, HasRead
<1> QED
  BY <1>3, <1>4, <1>5, <1>6 DEF Delivery, AllIsExposed

\* A host has its flow finished.
LEMMA FinishReliableDelivers ==
  ASSUME ConnectionInv, ModesAre, DeliveriesAre, NEW side \in Sides, NEW id \in Ids,
         FinishReliable(side, id)
  PROVE  ModesAre' /\ DeliveriesAre'
<1> DEFINE e == end[side]
           b == Finishing(e.outbound[id])
           after == [e EXCEPT !.outbound[id] = b]
           R == told[Other(id.side)]
<1>1. /\ id \in DOMAIN e.outbound /\ id \in DOMAIN e.fc.registry
      /\ e.outbound[id].state = "Writing" /\ e.outbound[id].header
      /\ end' = [end EXCEPT ![side].outbound[id] = Finishing(@)]
      /\ streams' = [streams EXCEPT ![id] = Finished(@)]
      /\ UNCHANGED <<told, history>>
  BY DEF FinishReliable, CanFinish
<1>2. id.side = side /\ IsAnEnd(e)
  BY <1>1 DEF ConnectionInv, EndIs, OutboundIs, IsAnEnd
<1>3. end' = [end EXCEPT ![side] = after]
  BY <1>1 DEF ConnectionInv
<1>4. /\ OnlyMoves(id) /\ DOMAIN streams' = DOMAIN streams
      /\ id \in DOMAIN streams => streams'[id] = Finished(streams[id])
  BY <1>1 DEF OnlyMoves
<1>5. ModesAre'
  BY OutboundKnows
<1> HIDE DEF e, b
<1>6. MovesOutbound(side, e, after, id, b, e.ep)
  BY <1>1, <1>2, OnlyOutbound, Zenon
<1> HIDE DEF after
<1>7. ASSUME history[id].mode \notin Unreliable
      PROVE  Delivery(id, after, end[Other(id.side)], streams', told[side], R, history[id])
  <2>1. /\ Around(id, e, end[Other(id.side)], streams, told[side], R, Admitted(history))
        /\ Delivery(id, e, end[Other(id.side)], streams, told[side], R, history[id])
    BY <1>2, <1>7, FlowIsAround DEF DeliveriesAre, DeliveryOf, e
  <2> HIDE DEF R
  <2>2. MovesOutbound(id.side, e, after, id, Finishing(e.outbound[id]), e.ep)
    BY <1>2, <1>6 DEF b
  <2> QED
    BY <1>1, <1>4, <2>1, <2>2, FinishedDelivers
<1>8. Concerns(side, e, after, id)
  BY <1>6 DEF MovesOutbound
<1> QED
  BY <1>1, <1>2, <1>3, <1>4, <1>5, <1>7, <1>8, OpenerDelivers DEF e

\* The chunks of a stream after the first m, up to the one n.
HasChunks(id, data, m, n) ==
  Len(data) = n - m /\ \A i \in DOMAIN data : data[i] = ChunkOf(id, m + i)

\* The next to be written follows those on the stream.
LEMMA NextChunk ==
  ASSUME NEW id, NEW m \in Nat, NEW n \in Nat, NEW data, HasChunks(id, data, m, n),
         NEW chunk, chunk = ChunkOf(id, n + 1), NEW data2, IsLonger(data, chunk, data2)
  PROVE  HasChunks(id, data2, m, n + 1)
<1>1. /\ Len(data) \in Nat /\ DOMAIN data = 1 .. Len(data) /\ Len(data) = n - m
      /\ Len(data2) = Len(data) + 1 /\ DOMAIN data2 = 1 .. Len(data) + 1
  BY DEF IsLonger, HasChunks
<1>2. ASSUME NEW i \in DOMAIN data2
      PROVE  data2[i] = ChunkOf(id, m + i)
  <2>1. CASE i = Len(data) + 1
    <3>1. m + i = n + 1
      BY <1>1, <2>1
    <3> QED
      BY <2>1, <3>1 DEF IsLonger
  <2>2. CASE i # Len(data) + 1
    <3>1. i \in 1 .. Len(data)
      BY <1>1, <2>2
    <3> QED
      BY <1>1, <3>1 DEF IsLonger, HasChunks
  <2> QED
    BY <2>1, <2>2
<1>3. Len(data2) = (n + 1) - m
  BY <1>1
<1> QED
  BY <1>2, <1>3 DEF HasChunks

\* The opener writes the next chunk.
LEMMA WrittenDelivers ==
  ASSUME NEW id \in Ids, NEW e, NEW e2, NEW r, NEW S, NEW S2, NEW T, NEW R, NEW h, NEW adm,
         Around(id, e, r, S, T, R, adm), Delivery(id, e, r, S, T, R, h),
         id \in DOMAIN e.outbound, id \in DOMAIN e.fc.registry,
         e.outbound[id].state = "Writing",
         NEW c, NEW ep, MovesOutbound(id.side, e, e2, id, c, ep), c.state = "Writing",
         IsSending(id, e2, h.accepted),
         NEW n \in Nat, HasWritten(id, e, h.accepted, T, n),
         n + 1 = (IF c.header THEN 1 ELSE 0) + c.next,
         NEW chunk \in Chunks, chunk = ChunkOf(id, n + 1),
         DOMAIN S2 = DOMAIN S, id \in DOMAIN S => S2[id] = Written(S[id], chunk)
  PROVE  Delivery(id, e2, r, S2, T, R, h)
<1>1. T[id] = "None"
  BY UntoldYet DEF Around
<1>2. e2.fc = e.fc /\ DOMAIN e2.outbound = DOMAIN e.outbound /\ e2.outbound[id] = c
  BY DEF MovesOutbound
<1>3. ~IsFinished(id, e)
  BY DEF IsFinished
<1>4. R[id] # "Normal"
  BY <1>3 DEF Delivery, AllIsExposed
<1>5. ASSUME NEW l, HasWritten(id, e2, h.accepted, T, l)
      PROVE  l = n + 1
  BY <1>1, <1>2, <1>5 DEF HasWritten
<1>6. ASSUME id \in DOMAIN S
      PROVE  /\ S2[id].end # "Fin"
             /\ \A m \in Nat : HasRead(id, r, S2, m) =>
                  ~S2[id].stopped /\ HasChunks(id, S2[id].data, m, n + 1)
  <2> DEFINE s == S[id]
             s2 == S2[id]
             data2 == Append(s.data, chunk)
  <2>1. s = [data |-> s.data, end |-> s.end, stopped |-> s.stopped, acquired |-> s.acquired]
        /\ s.data \in Seq(Chunks)
    BY <1>6 DEF Around, StreamIs
  <2>2. IsLonger(s.data, chunk, data2)
    BY <2>1, MoreAtEnd
  <2>3. /\ s.stopped => s2 = s
        /\ ~s.stopped => s2 = [s EXCEPT !.data = Append(@, chunk)]
    BY <1>6 DEF Written
  <2>4. /\ s2.end = s.end /\ s2.acquired = s.acquired /\ s2.stopped = s.stopped
        /\ ~s.stopped => s2.data = data2
    <3> HIDE DEF s, s2
    <3>1. ~s.stopped => s2 = [s EXCEPT !.data = data2]
      BY <2>3
    <3> HIDE DEF data2
    <3> QED
      BY <2>1, <2>3, <3>1
  <2>5. s.end # "Fin"
    BY <1>3, <1>6 DEF Delivery, IsStreaming
  <2>6. ASSUME NEW m \in Nat, HasRead(id, r, S2, m)
        PROVE  ~s2.stopped /\ HasChunks(id, s2.data, m, n + 1)
    <3>1. HasRead(id, r, S, m)
      BY <2>4, <2>6 DEF HasRead
    <3>2. ~s.stopped /\ HasChunks(id, s.data, m, n)
      BY <1>6, <3>1 DEF Delivery, IsStreaming, HasChunks
    <3> HIDE DEF s, s2, data2
    <3>3. HasChunks(id, data2, m, n + 1)
      BY <2>2, <3>2, NextChunk
    <3> QED
      BY <2>4, <3>2, <3>3
  <2> QED
    BY <2>4, <2>5, <2>6
<1>7. IsStreaming(id, e2, r, h.accepted, T, S2)
  BY <1>5, <1>6 DEF IsStreaming, HasChunks
<1> QED
  BY <1>4, <1>7 DEF Delivery

\* The opener writes the flow's identifier.
LEMMA HeaderDelivers ==
  ASSUME NEW id \in Ids, NEW e, NEW e2, NEW r, NEW S, NEW S2, NEW T, NEW R, NEW h, NEW adm,
         Around(id, e, r, S, T, R, adm), Delivery(id, e, r, S, T, R, h),
         id \in DOMAIN e.outbound, id \in DOMAIN e.fc.registry,
         e.outbound[id].state = "Writing", ~e.outbound[id].header,
         MovesOutbound(id.side, e, e2, id, HeaderWritten(e.outbound[id]), e.ep),
         DOMAIN S2 = DOMAIN S, id \in DOMAIN S => S2[id] = Written(S[id], Header)
  PROVE  Delivery(id, e2, r, S2, T, R, h)
<1> DEFINE b == e.outbound[id]
           c == HeaderWritten(b)
           n == 0
<1>1. IsDecided(id.side, e.fc, id) /\ b \in OutboundStates
  BY DEF Around, EndIs, OutboundIs
<1>2. c.state = "Writing" /\ c.header /\ c.next = b.next
  BY <1>1 DEF HeaderWritten, OutboundStates
<1>3. e2.fc = e.fc /\ e2.ep = e.ep /\ DOMAIN e2.outbound = DOMAIN e.outbound /\ e2.outbound[id] = c
  BY DEF MovesOutbound
<1>4. IsSending(id, e, h.accepted)
  BY DEF Delivery
<1> HIDE DEF c
<1>5. IsSending(id, e2, h.accepted)
  BY <1>1, <1>2, <1>3, <1>4 DEF IsSending
<1>6. b.next = 0
  BY <1>4 DEF IsSending
<1>7. HasWritten(id, e, h.accepted, T, n)
  BY <1>6 DEF HasWritten
<1>8. n + 1 = (IF c.header THEN 1 ELSE 0) + c.next
  BY <1>2, <1>6
<1>9. Header \in Chunks /\ Header = ChunkOf(id, n + 1) /\ n \in Nat
  BY DEF Chunks, ChunkOf
<1>10. MovesOutbound(id.side, e, e2, id, c, e.ep)
  BY DEF c
<1> HIDE DEF n, b
<1> QED
  BY <1>2, <1>5, <1>7, <1>8, <1>9, <1>10, WrittenDelivers DEF b

\* The opener writes the first message of its queue.
LEMMA MessageDelivers ==
  ASSUME NEW id \in Ids, NEW e, NEW e2, NEW r, NEW S, NEW S2, NEW T, NEW R, NEW h, NEW adm,
         Around(id, e, r, S, T, R, adm), Delivery(id, e, r, S, T, R, h), h.accepted \in Nat,
         id \in DOMAIN e.outbound, id \in DOMAIN e.fc.registry,
         e.outbound[id].state = "Writing", e.outbound[id].header,
         NEW ep, MovesOutbound(id.side, e, e2, id, MessageWritten(e.outbound[id]), ep),
         NEW q, q = e.ep.flows[KeyOf(id.side, id)].outbound,
         IsShorter(q, ep.flows[KeyOf(id.side, id)].outbound),
         NEW chunk \in Chunks, chunk = Message(q[1].payload),
         DOMAIN S2 = DOMAIN S, id \in DOMAIN S => S2[id] = Written(S[id], chunk)
  PROVE  Delivery(id, e2, r, S2, T, R, h)
<1> DEFINE b == e.outbound[id]
           c == MessageWritten(b)
           n == 1 + b.next
           accepted == h.accepted
           q2 == ep.flows[KeyOf(id.side, id)].outbound
<1>1. IsDecided(id.side, e.fc, id) /\ b \in OutboundStates /\ b.next \in Nat
  BY Zenon DEF Around, EndIs, OutboundIs, OutboundStates
<1>a. b.state = "Writing" /\ b.header
  BY Zenon
<1>2. c.state = "Writing" /\ c.header /\ c.next = b.next + 1
  BY ONLY <1>1, <1>a DEF MessageWritten, OutboundStates
<1>3. e2.fc = e.fc /\ e2.ep = ep /\ DOMAIN e2.outbound = DOMAIN e.outbound /\ e2.outbound[id] = c
  BY DEF MovesOutbound
<1>4. /\ HoldsLast(id, q, accepted) /\ b.next = accepted - Len(q)
  BY Zenon DEF Delivery, IsSending, HoldsLast
<1>5. accepted \in Nat /\ IsShorter(q, q2)
  BY Zenon
<1>6. MovesOutbound(id.side, e, e2, id, c, ep) /\ HasWritten(id, e, h.accepted, T, n)
  BY DEF HasWritten
<1> HIDE DEF accepted, q2, c
<1>7. HoldsLast(id, q2, accepted) /\ q[1].payload = Piece(id, accepted - Len(q) + 1)
  BY ONLY <1>4, <1>5, HoldingLess
<1>8. b.next + 1 = accepted - Len(q2)
  <2>1. \A i, j, m, l \in Nat : j >= 1 /\ l = j - 1 /\ m = i - j => m + 1 = i - l
    OBVIOUS
  <2>2. Len(q) \in Nat /\ Len(q) >= 1 /\ Len(q2) = Len(q) - 1
    BY ONLY <1>5 DEF IsShorter
  <2> DEFINE j == Len(q)
             l == Len(q2)
  <2>3. j \in Nat /\ j >= 1 /\ l = j - 1 /\ b.next = accepted - j
    BY ONLY <1>4, <2>2
  <2> HIDE DEF j, l, b
  <2>4. l \in Nat
    BY ONLY <2>3
  <2>5. b.next + 1 = accepted - l
    BY ONLY <1>1, <1>5, <2>1, <2>3, <2>4
  <2> QED
    BY ONLY <2>5 DEF l
<1>9. IsSending(id, e2, h.accepted)
  BY <1>1, <1>2, <1>3, <1>7, <1>8, Zenon DEF IsSending, HoldsLast, q2, accepted
<1>10. n \in Nat /\ n + 1 = (IF c.header THEN 1 ELSE 0) + c.next
  BY ONLY <1>1, <1>2
<1>11. chunk = ChunkOf(id, n + 1)
  <2>1. q[1].payload = Piece(id, b.next + 1)
    BY ONLY <1>4, <1>7
  <2>2. n + 1 # 1 /\ (n + 1) - 1 = b.next + 1
    BY ONLY <1>1
  <2> QED
    BY <2>1, <2>2 DEF ChunkOf
<1> HIDE DEF n, b
<1>12. e.outbound[id].state = "Writing" /\ c.state = "Writing"
  BY <1>2
<1> QED
  BY <1>6, <1>9, <1>10, <1>11, <1>12, WrittenDelivers

\* The opener writes to the flow's stream.
LEMMA WriteSegmentDelivers ==
  ASSUME ConnectionInv, ModesAre, DeliveriesAre, NEW side \in Sides, NEW id,
         WriteSegment(side, id)
  PROVE  ModesAre' /\ DeliveriesAre'
<1> DEFINE e == end[side]
           b == e.outbound[id]
           k == KeyOf(side, id)
           r == end[Other(id.side)]
           T == told[side]
           R == told[Other(id.side)]
           h == history[id]
           adm == Admitted(history)
<1>1. /\ id \in DOMAIN e.outbound /\ b.state = "Writing"
      /\ k \in DOMAIN e.ep.flows /\ (~b.header \/ e.ep.flows[k].outbound # <<>>)
      /\ UNCHANGED <<told, history>>
  BY DEF WriteSegment, IsBound, CannotGoOn, HasPending
<1>2. EndIs(side, e, T, adm) /\ IsAnEnd(e) /\ id.side = side /\ id \in Ids
  BY <1>1 DEF ConnectionInv, EndIs, OutboundIs, IsAnEnd
<1>3. id \in DOMAIN e.fc.registry /\ h.accepted \in Nat
  BY <1>1, <1>2, HasFlow DEF EndIs, ConnectionInv, HistoryIs
<1>4. ModesAre'
  BY OutboundKnows
<1>5. history[id].mode \notin Unreliable =>
        Around(id, e, r, streams, T, R, adm) /\ Delivery(id, e, r, streams, T, R, h)
  BY <1>2, FlowIsAround DEF DeliveriesAre, DeliveryOf
<1>6. CASE ~b.header
  <2> DEFINE c == HeaderWritten(b)
             after == [e EXCEPT !.outbound[id] = c]
  <2>1. /\ streams' = [streams EXCEPT ![id] = Written(@, Header)]
        /\ end' = [end EXCEPT ![side].outbound[id] = HeaderWritten(@)]
    BY <1>6 DEF WriteSegment
  <2>2. end' = [end EXCEPT ![side] = after]
    BY <2>1 DEF ConnectionInv
  <2>3. /\ OnlyMoves(id) /\ DOMAIN streams' = DOMAIN streams
        /\ id \in DOMAIN streams => streams'[id] = Written(streams[id], Header)
    BY <1>1, <2>1 DEF OnlyMoves
  <2> HIDE DEF e, c, T, R, r, h, adm
  <2>4. MovesOutbound(side, e, after, id, c, e.ep)
    BY <1>1, <1>2, OnlyOutbound, Zenon
  <2> HIDE DEF after
  <2>5. ASSUME history[id].mode \notin Unreliable
        PROVE  Delivery(id, after, r, streams', T, R, h)
    <3>1. MovesOutbound(id.side, e, after, id, HeaderWritten(e.outbound[id]), e.ep)
      BY <1>2, <2>4 DEF c
    <3> QED
      BY <1>1, <1>2, <1>3, <1>5, <1>6, <2>3, <2>5, <3>1, HeaderDelivers
  <2>6. Concerns(side, e, after, id)
    BY <2>4 DEF MovesOutbound
  <2> QED
    BY <1>1, <1>2, <1>4, <2>2, <2>3, <2>5, <2>6, OpenerDelivers DEF e, T, R, r, h
<1>7. CASE b.header
  <2> DEFINE c == MessageWritten(b)
             ep == CommitCustody(e.ep, k)
             m == [e EXCEPT !.outbound[id] = c]
             after == [m EXCEPT !.ep = ep]
             q == e.ep.flows[k].outbound
             chunk == Message(q[1].payload)
  <2>1. /\ streams' = [streams EXCEPT ![id] = Written(@, chunk)]
        /\ end' = [end EXCEPT ![side].outbound[id] = MessageWritten(@),
                              ![side].ep = CommitCustody(@, k)]
    BY <1>7 DEF WriteSegment
  <2>2. end' = [end EXCEPT ![side] = after]
    BY <2>1 DEF ConnectionInv
  <2>3. CanCommitCustody(e.ep, k) /\ EndpointInv(e.ep)
    BY <1>1, <1>2, <1>7, KeyDirection DEF CanCommitCustody, EndIs
  <2> HIDE DEF chunk
  <2>4. /\ OnlyMoves(id) /\ DOMAIN streams' = DOMAIN streams
        /\ id \in DOMAIN streams => streams'[id] = Written(streams[id], chunk)
    BY <1>1, <2>1 DEF OnlyMoves
  <2> HIDE DEF e, c, T, R, r, h, adm, k
  <2>5. /\ OnlyFlow(e.ep, ep, k) /\ q \in Seq(Transfer) /\ q # <<>>
        /\ ep.flows[k].outbound = Tail(q)
    BY <2>3, CommitChanges
  <2>6. chunk \in Chunks /\ IsShorter(q, ep.flows[k].outbound)
    <3>1. q[1] \in Transfer
      BY <2>5
    <3>2. chunk \in Chunks
      BY <3>1 DEF Transfer, Chunks, chunk
    <3>3. IsShorter(q, Tail(q))
      BY <2>5, LessAtStart
    <3> QED
      BY <2>5, <3>2, <3>3
  <2> HIDE DEF ep
  <2>7. MovesOutbound(side, e, after, id, c, ep)
    <3>1. OnlyFlow(e.ep, ep, KeyOf(side, id))
      BY <2>5 DEF k
    <3> QED
      BY <1>1, <1>2, <3>1, OnlyOutbound, Zenon
  <2> HIDE DEF after, m
  <2>8. ASSUME history[id].mode \notin Unreliable
        PROVE  Delivery(id, after, r, streams', T, R, h)
    <3>1. MovesOutbound(id.side, e, after, id, MessageWritten(e.outbound[id]), ep)
      BY <1>2, <2>7 DEF c
    <3>2. q = e.ep.flows[KeyOf(id.side, id)].outbound
          /\ IsShorter(q, ep.flows[KeyOf(id.side, id)].outbound)
      BY <1>2, <2>6 DEF k
    <3>3. chunk = Message(q[1].payload)
      BY DEF chunk
    <3> HIDE DEF q
    <3> QED
      BY <1>1, <1>2, <1>3, <1>5, <1>7, <2>4, <2>6, <2>8, <3>1, <3>2, <3>3, MessageDelivers
  <2>9. Concerns(side, e, after, id)
    BY <2>7 DEF MovesOutbound
  <2> QED
    BY <1>1, <1>2, <1>4, <2>2, <2>4, <2>8, <2>9, OpenerDelivers DEF e, T, R, r, h
<1> QED
  BY <1>6, <1>7

\* Flow control that has associated the flow with its stream.
AssociationIs(side, fc, left, id) ==
  /\ DOMAIN left.registry = DOMAIN fc.registry /\ left.registry[id].associated = TRUE
  /\ \A j \in DOMAIN fc.registry \ {id} : left.registry[j] = fc.registry[j]
  /\ \A j : IsDecided(side, left, j) <=> IsDecided(side, fc, j)

\* It has done nothing else.
LEMMA AssociatingIs ==
  ASSUME NEW side, NEW fc, NEW id, FlowControlIs(side, fc) /\ CanAssociateStream(fc, id)
  PROVE  AssociationIs(side, fc, AssociateStream(fc, id), id)
<1> DEFINE left == AssociateStream(fc, id)
<1>1. /\ left.local_flow_ids = fc.local_flow_ids /\ left.peer_flow_ids = fc.peer_flow_ids
      /\ left.pending_outbound = fc.pending_outbound
      /\ left.pending_inbound = fc.pending_inbound
      /\ left.registry = [fc.registry EXCEPT ![id].associated = TRUE]
  BY DEF FlowControlIs, AssociateStream
<1>2. id \in DOMAIN fc.registry /\ fc.registry[id] \in [mode : Mode, associated : BOOLEAN]
  BY DEF CanAssociateStream, FlowControlIs
<1> HIDE DEF left
<1>3. /\ DOMAIN left.registry = DOMAIN fc.registry /\ left.registry[id].associated = TRUE
      /\ \A j \in DOMAIN fc.registry \ {id} : left.registry[j] = fc.registry[j]
  BY <1>1, <1>2
<1>4. \A j : IsDecided(side, left, j) <=> IsDecided(side, fc, j)
  BY <1>1 DEF IsDecided, IsKnown, IsUndecided
<1> QED
  BY <1>3, <1>4 DEF AssociationIs, left

\* An end that may associate the flow with its stream, and what it does then.
MayAssociate(side, e, id) ==
  IsAnEnd(e) /\ FlowControlIs(side, e.fc) /\ CanAssociateStream(e.fc, id)
Associates(side, e, after, id) ==
  /\ after.ep = e.ep /\ \A j : IsDecided(side, after.fc, j) <=> IsDecided(side, e.fc, j)
  /\ DOMAIN after.fc.registry = DOMAIN e.fc.registry
  /\ after.fc.registry[id].associated = TRUE
  /\ DOMAIN after.outbound = DOMAIN e.outbound /\ DOMAIN after.inbound = DOMAIN e.inbound
  /\ Concerns(side, e, after, id)

\* The opener does so.
LEMMA AssociatingOutbound ==
  ASSUME NEW side \in Sides, NEW e, NEW id \in DOMAIN e.outbound, MayAssociate(side, e, id), NEW b
  PROVE  Associates(side, e, [e EXCEPT !.fc = AssociateStream(@, id), !.outbound[id] = b], id)
<1> DEFINE after == [e EXCEPT !.fc = AssociateStream(@, id), !.outbound[id] = b]
           fc == e.fc
           left == AssociateStream(fc, id)
           outbound == [e.outbound EXCEPT ![id] = b]
<1>1. /\ after.fc = left /\ after.ep = e.ep /\ after.inbound = e.inbound
      /\ after.outbound = outbound
  BY DEF IsAnEnd, MayAssociate
<1>2. AssociationIs(side, fc, left, id)
  BY AssociatingIs DEF MayAssociate
<1>3. /\ DOMAIN outbound = DOMAIN e.outbound /\ outbound[id] = b
      /\ \A j \in DOMAIN e.outbound : j # id => outbound[j] = e.outbound[j]
  OBVIOUS
<1> HIDE DEF left, outbound, after, fc
<1>4. Concerns(side, e, after, id)
  BY <1>1, <1>2, <1>3 DEF Concerns, AssociationIs, fc
<1> QED
  BY <1>1, <1>2, <1>3, <1>4 DEF Associates, AssociationIs, after, fc

\* The acceptor does so.
LEMMA AssociatingInbound ==
  ASSUME NEW side \in Sides, NEW e, NEW id \in DOMAIN e.inbound, MayAssociate(side, e, id), NEW b
  PROVE  Associates(side, e, [e EXCEPT !.fc = AssociateStream(@, id), !.inbound[id] = b], id)
<1> DEFINE after == [e EXCEPT !.fc = AssociateStream(@, id), !.inbound[id] = b]
           fc == e.fc
           left == AssociateStream(fc, id)
           inbound == [e.inbound EXCEPT ![id] = b]
<1>1. /\ after.fc = left /\ after.ep = e.ep /\ after.outbound = e.outbound
      /\ after.inbound = inbound
  BY DEF IsAnEnd, MayAssociate
<1>2. AssociationIs(side, fc, left, id)
  BY AssociatingIs DEF MayAssociate
<1>3. /\ DOMAIN inbound = DOMAIN e.inbound /\ inbound[id] = b
      /\ \A j \in DOMAIN e.inbound : j # id => inbound[j] = e.inbound[j]
  OBVIOUS
<1> HIDE DEF left, inbound, after, fc
<1>4. Concerns(side, e, after, id)
  BY <1>1, <1>2, <1>3 DEF Concerns, AssociationIs, fc
<1> QED
  BY <1>1, <1>2, <1>3, <1>4 DEF Associates, AssociationIs, after, fc

\* The opener has a stream, on which nothing is written yet.
LEMMA StreamDelivers ==
  ASSUME NEW id \in Ids, NEW e, NEW e2, NEW r, NEW S, NEW S2, NEW T, NEW R, NEW h, NEW adm,
         Around(id, e, r, S, T, R, adm), Delivery(id, e, r, S, T, R, h),
         id \in DOMAIN e.outbound, id \in DOMAIN e.fc.registry,
         e.outbound[id].state = "Acquiring",
         Associates(id.side, e, e2, id), NEW c, c = e2.outbound[id],
         c = Bound(e.outbound[id]), S2[id] = NewStream
  PROVE  Delivery(id, e2, r, S2, T, R, h)
<1> DEFINE b == e.outbound[id]
<1>1. T[id] = "None" /\ IsDecided(id.side, e.fc, id) /\ b \in OutboundStates
  <2>1. T[id] = "None" /\ IsDecided(id.side, e.fc, id)
    BY UntoldYet DEF Around
  <2>2. b \in OutboundStates
    BY DEF Around, EndIs, OutboundIs
  <2> QED
    BY <2>1, <2>2
<1>2. c.state = "Writing" /\ c.header = b.header /\ c.next = b.next
  BY <1>1 DEF Bound, OutboundStates
<1>3. /\ e2.ep = e.ep /\ DOMAIN e2.outbound = DOMAIN e.outbound
      /\ DOMAIN e2.fc.registry = DOMAIN e.fc.registry
      /\ IsDecided(id.side, e2.fc, id)
  BY <1>1 DEF Associates
<1>4. IsSending(id, e, h.accepted)
  BY DEF Delivery
<1>5. IsSending(id, e2, h.accepted) /\ c.next = 0 /\ ~c.header
  BY <1>1, <1>2, <1>3, <1>4 DEF IsSending
<1>6. R[id] # "Normal"
  BY DEF Delivery, AllIsExposed, IsFinished
<1>7. id \notin DOMAIN S /\ id \notin DOMAIN r.inbound
  BY DEF Around
<1>8. /\ S2[id].data = <<>> /\ S2[id].end = "Open" /\ ~S2[id].stopped /\ ~S2[id].acquired
      /\ Len(<<>>) = 0 /\ DOMAIN <<>> = {}
  <2>1. Len(<<>>) = 0 /\ DOMAIN <<>> = {}
    OBVIOUS
  <2> QED
    BY <2>1 DEF NewStream
<1>9. ASSUME NEW m, HasRead(id, r, S2, m)
      PROVE  m = 0
  BY <1>7, <1>9 DEF HasRead
<1>10. ASSUME NEW n, HasWritten(id, e2, h.accepted, T, n)
       PROVE  n = 0
  BY <1>1, <1>5, <1>10 DEF HasWritten
<1>11. IsStreaming(id, e2, r, h.accepted, T, S2)
  BY <1>8, <1>9, <1>10 DEF IsStreaming
<1> QED
  BY <1>5, <1>6, <1>11 DEF Delivery

\* The opener's stream is acquired.
LEMMA AcquireOutboundDelivers ==
  ASSUME ConnectionInv, ModesAre, DeliveriesAre, NEW side \in Sides, NEW id,
         AcquireOutbound(side, id)
  PROVE  ModesAre' /\ DeliveriesAre'
<1> DEFINE e == end[side]
           b == Bound(e.outbound[id])
           left == AssociateStream(e.fc, id)
           after == [e EXCEPT !.fc = AssociateStream(@, id), !.outbound[id] = b]
           r == end[Other(id.side)]
           T == told[side]
           R == told[Other(id.side)]
           h == history[id]
           adm == Admitted(history)
<1>1. /\ id \in DOMAIN e.outbound /\ e.outbound[id].state = "Acquiring"
      /\ UNCHANGED <<told, history>>
  BY DEF AcquireOutbound
<1>2. EndIs(side, e, T, adm) /\ IsAnEnd(e) /\ id.side = side /\ id \in Ids
  BY <1>1 DEF ConnectionInv, EndIs, OutboundIs, IsAnEnd
<1>3. ModesAre' /\ ConnectionInv'
  BY OutboundKnows, AcquireOutboundKeeps
<1>4. CASE CanAssociateStream(e.fc, id)
  <2>1. /\ end' = [end EXCEPT ![side].fc = AssociateStream(@, id),
                              ![side].outbound[id] = Bound(@)]
        /\ streams' = Put(streams, id, NewStream)
    BY <1>4 DEF AcquireOutbound
  <2>2. end' = [end EXCEPT ![side] = after]
    BY <2>1 DEF ConnectionInv
  <2>3. OnlyMoves(id) /\ streams'[id] = NewStream
    <3>1. /\ DOMAIN streams' = DOMAIN streams \cup {id} /\ streams'[id] = NewStream
          /\ \A j \in DOMAIN streams : j # id => streams'[j] = streams[j]
      BY <2>1 DEF Put
    <3> QED
      BY <1>1, <3>1 DEF OnlyMoves
  <2>4. history[id].mode \notin Unreliable =>
          Around(id, e, r, streams, T, R, adm) /\ Delivery(id, e, r, streams, T, R, h)
    BY <1>2, FlowIsAround DEF DeliveriesAre, DeliveryOf
  <2>5. id \in DOMAIN e.fc.registry /\ FlowControlIs(side, e.fc)
    BY <1>2, <1>4 DEF CanAssociateStream, EndIs
  <2> HIDE DEF e, b, T, R, r, h, adm
  <2>6. Associates(side, e, after, id)
    <3>1. MayAssociate(side, e, id)
      BY <1>2, <1>4, <2>5 DEF MayAssociate
    <3> QED
      BY <1>1, <3>1, AssociatingOutbound, Zenon
  <2>9. after.outbound[id] = b
    BY <1>1, <1>2 DEF IsAnEnd
  <2> HIDE DEF after
  <2>7. ASSUME history[id].mode \notin Unreliable
        PROVE  Delivery(id, after, r, streams', T, R, h)
    <3>1. Associates(id.side, e, after, id) /\ after.outbound[id] = Bound(e.outbound[id])
      BY <1>2, <2>6, <2>9 DEF b
    <3> QED
      BY <1>1, <1>2, <2>3, <2>4, <2>5, <2>7, <3>1, StreamDelivers
  <2>8. Concerns(side, e, after, id)
    BY <2>6 DEF Associates
  <2> QED
    BY <1>1, <1>2, <1>3, <2>2, <2>3, <2>7, <2>8, OpenerDelivers DEF e, T, R, r, h
<1>5. CASE ~CanAssociateStream(e.fc, id)
  <2>1. end' = [end EXCEPT ![side].outbound = Drop(@, {id})] /\ streams' = streams
    BY <1>5 DEF AcquireOutbound
  <2>2. OneEndMoves(side)
    BY <1>3, <2>1, OneMoves DEF ConnectionInv
  <2>3. IsCalm(side)
    BY <1>5, AcquireOutboundKeeps
  <2>4. \A j \in Ids : IsQuietStream(j, end'[Other(j.side)], streams, streams')
    BY <2>1 DEF IsQuietStream
  <2> QED
    BY <1>1, <1>3, <2>2, <2>3, <2>4, LosingDelivers
<1> QED
  BY <1>4, <1>5

\* The acceptor has the flow's stream, of which it has read nothing.
LEMMA ArrivedDelivers ==
  ASSUME NEW id \in Ids, NEW e, NEW r, NEW r2, NEW S, NEW S2, NEW T, NEW R, NEW h, NEW adm,
         Around(id, e, r, S, T, R, adm), Delivery(id, e, r, S, T, R, h),
         r2.fc = r.fc, r2.ep = r.ep, id \in DOMAIN r2.inbound, r2.inbound[id] = NewInbound,
         id \in DOMAIN S, ~S[id].acquired, S2[id] = Acquired(S[id])
  PROVE  Delivery(id, e, r2, S2, T, R, h)
<1>1. NewInbound.associated = FALSE /\ NewInbound.next = 0
  BY DEF NewInbound
<1>2. IsReceiving(id, r2, h.exposed)
  BY <1>1 DEF IsReceiving, Delivery
<1>3. HasRead(id, r, S, 0) /\ 0 \in Nat
  BY DEF HasRead
<1>4. /\ S2[id].data = S[id].data /\ S2[id].end = S[id].end
      /\ S2[id].stopped = S[id].stopped /\ S2[id].acquired = TRUE
  <2> DEFINE s == S[id]
             yes == TRUE
  <2>1. s = [data |-> s.data, end |-> s.end, stopped |-> s.stopped, acquired |-> s.acquired]
    BY DEF Around, StreamIs
  <2>2. S2[id] = [s EXCEPT !.acquired = yes]
    BY DEF Acquired
  <2> HIDE DEF s, yes
  <2>3. /\ S2[id].data = s.data /\ S2[id].end = s.end
        /\ S2[id].stopped = s.stopped /\ S2[id].acquired = yes
    BY <2>1, <2>2
  <2> QED
    BY <2>3 DEF s, yes
<1>5. ASSUME NEW m \in Nat, HasRead(id, r2, S2, m)
      PROVE  m = 0
  BY <1>1, <1>4, <1>5 DEF HasRead
<1>6. IsStreaming(id, e, r2, h.accepted, T, S2)
  BY <1>3, <1>4, <1>5 DEF IsStreaming, Delivery
<1> QED
  BY <1>2, <1>6 DEF Delivery

\* The acceptor takes the stream.
LEMMA AcquireInboundDelivers ==
  ASSUME ConnectionInv, ModesAre, DeliveriesAre, NEW side \in Sides, NEW id,
         AcquireInbound(side, id)
  PROVE  ModesAre' /\ DeliveriesAre'
<1> DEFINE e == end[side]
           after == [e EXCEPT !.inbound = Put(@, id, NewInbound)]
           T == told[id.side]
           R == told[side]
           h == history[id]
           adm == Admitted(history)
<1>1. /\ id.side # side /\ id \in DOMAIN streams /\ ~streams[id].acquired
      /\ end' = [end EXCEPT ![side] = after]
      /\ streams' = [streams EXCEPT ![id] = Acquired(@)]
      /\ UNCHANGED <<told, history>>
  BY DEF AcquireInbound, Arrives
<1>2. id \in Ids /\ IsAnEnd(e)
  BY <1>1 DEF ConnectionInv, WiresAre, EndIs, IsAnEnd
<1>3. side = Other(id.side)
  BY <1>1, <1>2, IdsHave
<1>4. ModesAre'
  BY InboundKnows
<1>5. OnlyMoves(id) /\ streams'[id] = Acquired(streams[id])
  BY <1>1 DEF OnlyMoves
<1>6. history[id].mode \notin Unreliable =>
        /\ Around(id, end[id.side], e, streams, T, R, adm)
        /\ Delivery(id, end[id.side], e, streams, T, R, h)
  BY <1>2, <1>3, FlowIsAround DEF DeliveriesAre, DeliveryOf
<1> DEFINE inbound == Put(e.inbound, id, NewInbound)
<1>7. /\ DOMAIN inbound = DOMAIN e.inbound \cup {id} /\ inbound[id] = NewInbound
      /\ \A j \in DOMAIN e.inbound : j # id => inbound[j] = e.inbound[j]
  BY DEF Put
<1>8. /\ after.fc = e.fc /\ after.ep = e.ep /\ after.outbound = e.outbound
      /\ after.inbound = inbound
  BY <1>2 DEF IsAnEnd
<1> HIDE DEF e, after, T, R, h, adm, inbound
<1>9. Concerns(side, e, after, id)
  BY <1>7, <1>8 DEF Concerns
<1>10. ASSUME history[id].mode \notin Unreliable
       PROVE  Delivery(id, end[id.side], after, streams', T, R, h)
  BY <1>1, <1>2, <1>5, <1>6, <1>7, <1>8, <1>10, ArrivedDelivers
<1> QED
  BY <1>1, <1>2, <1>3, <1>4, <1>5, <1>9, <1>10, AcceptorDelivers DEF e, T, R, h

\* What is on a stream follows the first m chunks.
Follows(id, data, m) == \A i \in DOMAIN data : data[i] = ChunkOf(id, m + i)

\* The first of it is the next chunk, and the rest follows that.
LEMMA FirstChunk ==
  ASSUME NEW id, NEW m \in Nat, NEW data, Follows(id, data, m), NEW data2, IsShorter(data, data2)
  PROVE  /\ Head(data) = ChunkOf(id, m + 1) /\ Follows(id, data2, m + 1)
         /\ \A n \in Nat : Len(data) = n - m => Len(data2) = n - (m + 1)
<1>1. /\ Len(data) \in Nat /\ DOMAIN data = 1 .. Len(data) /\ Len(data) >= 1
      /\ Len(data2) = Len(data) - 1 /\ DOMAIN data2 = 1 .. Len(data) - 1
      /\ \A i \in 1 .. Len(data) - 1 : data2[i] = data[i + 1]
      /\ Head(data) = data[1]
  BY DEF IsShorter
<1> DEFINE l == Len(data)
           l2 == Len(data2)
           D == DOMAIN data
           D2 == DOMAIN data2
<1>2. /\ l \in Nat /\ D = 1 .. l /\ l >= 1 /\ l2 = l - 1 /\ D2 = 1 .. l - 1
      /\ \A i \in 1 .. l - 1 : data2[i] = data[i + 1]
  BY <1>1
<1>3. \A i \in D : data[i] = ChunkOf(id, m + i)
  BY DEF Follows
<1> HIDE DEF l, l2, D, D2
<1>4. 1 \in D /\ data[1] = ChunkOf(id, m + 1)
  BY <1>2, <1>3
<1>5. ASSUME NEW i \in D2
      PROVE  data2[i] = ChunkOf(id, (m + 1) + i)
  <2>1. i \in 1 .. l - 1 /\ i + 1 \in D /\ m + (i + 1) = (m + 1) + i
    BY <1>2
  <2> QED
    BY <1>2, <1>3, <2>1
<1>6. \A n \in Nat : l = n - m => l2 = n - (m + 1)
  BY <1>2
<1> QED
  BY <1>1, <1>4, <1>5, <1>6 DEF Follows, l, l2, D2

\* The acceptor reads the next chunk.
LEMMA ReadDelivers ==
  ASSUME NEW id \in Ids, NEW e, NEW r, NEW r2, NEW S, NEW S2, NEW T, NEW R, NEW h, NEW adm,
         Around(id, e, r, S, T, R, adm), Delivery(id, e, r, S, T, R, h),
         id \in DOMAIN S, S[id].data # <<>>, S2[id] = Consumed(S[id]),
         NEW m \in Nat, HasRead(id, r, S, m), id \in DOMAIN r.inbound,
         IsReceiving(id, r2, h.exposed), id \in DOMAIN r2.inbound,
         m + 1 = (IF r2.inbound[id].associated THEN 1 + r2.inbound[id].next ELSE 0)
  PROVE  Delivery(id, e, r2, S2, T, R, h)
<1> DEFINE s == S[id]
           s2 == S2[id]
           data2 == Tail(s.data)
<1>1. s = [data |-> s.data, end |-> s.end, stopped |-> s.stopped, acquired |-> s.acquired]
      /\ s.data \in Seq(Chunks) /\ s.acquired
  BY DEF Around, StreamIs
<1>2. s2 = [s EXCEPT !.data = data2]
  BY DEF Consumed
<1>3. Follows(id, s.data, m) /\ ~s.stopped
  BY DEF Delivery, IsStreaming, Follows
<1>4. IsShorter(s.data, data2)
  <2>1. s.data # <<>>
    OBVIOUS
  <2> HIDE DEF s
  <2> QED
    BY <1>1, <2>1, LessAtStart
<1> HIDE DEF s, s2, data2
<1>5. s2.data = data2 /\ s2.end = s.end /\ s2.stopped = s.stopped /\ s2.acquired = s.acquired
  BY <1>1, <1>2
<1>6. /\ Follows(id, data2, m + 1)
      /\ \A n \in Nat : Len(s.data) = n - m => Len(data2) = n - (m + 1)
  <2> DEFINE data == s.data
  <2>1. Follows(id, data, m) /\ IsShorter(data, data2) /\ m \in Nat
    BY <1>3, <1>4
  <2> HIDE DEF data
  <2>2. /\ Follows(id, data2, m + 1)
        /\ \A n \in Nat : Len(data) = n - m => Len(data2) = n - (m + 1)
    BY ONLY <2>1, FirstChunk
  <2> QED
    BY <2>2 DEF data
<1>7. ASSUME NEW l \in Nat, HasRead(id, r2, S2, l)
      PROVE  l = m + 1
  BY <1>1, <1>5, <1>7 DEF HasRead, s2
<1>8. /\ s.end = "Fin" => IsFinished(id, e)
      /\ \A n \in Nat : HasWritten(id, e, h.accepted, T, n) => Len(s.data) = n - m
  BY DEF Delivery, IsStreaming, s
<1>9. IsStreaming(id, e, r2, h.accepted, T, S2)
  <2>1. s2.end = "Fin" => IsFinished(id, e)
    BY <1>5, <1>8
  <2>2. ASSUME NEW l \in Nat, HasRead(id, r2, S2, l)
        PROVE  /\ ~s2.stopped /\ Follows(id, s2.data, l)
               /\ \A n \in Nat : HasWritten(id, e, h.accepted, T, n) => Len(s2.data) = n - l
    BY <1>3, <1>5, <1>6, <1>7, <1>8, <2>2
  <2> QED
    BY <2>1, <2>2 DEF IsStreaming, Follows, s2
<1> QED
  BY <1>9 DEF Delivery

\* What the acceptor reads next is the chunk after those it has read.
LEMMA NextRead ==
  ASSUME NEW id \in Ids, NEW e, NEW r, NEW S, NEW T, NEW R, NEW h, NEW adm,
         Around(id, e, r, S, T, R, adm), Delivery(id, e, r, S, T, R, h),
         id \in DOMAIN S, S[id].data # <<>>, NEW m \in Nat, HasRead(id, r, S, m)
  PROVE  Head(S[id].data) = ChunkOf(id, m + 1)
<1> DEFINE data == S[id].data
<1>1. data \in Seq(Chunks) /\ data # <<>>
  BY DEF Around, StreamIs
<1>2. \A i \in DOMAIN data : data[i] = ChunkOf(id, m + i)
  BY DEF Delivery, IsStreaming
<1> HIDE DEF data
<1>3. 1 \in DOMAIN data /\ Head(data) = data[1]
  BY <1>1
<1> QED
  BY <1>2, <1>3 DEF data

\* Only the first chunk is a flow's identifier.
LEMMA FirstIsHeader ==
  ASSUME NEW id, NEW i \in Nat
  PROVE  /\ ChunkOf(id, i) = Header <=> i = 1
         /\ i # 1 => ChunkOf(id, i).payload = Piece(id, i - 1)
<1>1. Header.kind = "FlowId"
  BY DEF Header
<1>2. /\ Message(Piece(id, i - 1)).kind = "Message"
      /\ Message(Piece(id, i - 1)).payload = Piece(id, i - 1)
  BY DEF Message
<1> QED
  BY <1>1, <1>2 DEF ChunkOf

\* The acceptor knows the flow of its stream.
LEMMA HeaderReadDelivers ==
  ASSUME NEW id \in Ids, NEW e, NEW r, NEW r2, NEW S, NEW S2, NEW T, NEW R, NEW h, NEW adm,
         Around(id, e, r, S, T, R, adm), Delivery(id, e, r, S, T, R, h),
         id \in DOMAIN r.inbound, CanAssociateStream(r.fc, id),
         S[id].data # <<>>, Head(S[id].data) = Header, S2[id] = Consumed(S[id]),
         Associates(Other(id.side), r, r2, id), r2.inbound[id] = Associated(r.inbound[id])
  PROVE  Delivery(id, e, r2, S2, T, R, h)
<1> DEFINE peer == Other(id.side)
           b == r.inbound[id]
           c == r2.inbound[id]
           x == h.exposed
           f == r.ep.flows[KeyOf(peer, id)]
           D == DOMAIN f.by_index
           m == 0
<1>1. b \in InboundStates /\ b.next \in Nat /\ id \in DOMAIN S
  BY DEF Around, EndIs, InboundIs, InboundStates
<1>2. ~b.associated
  <2> SUFFICES ASSUME b.associated
               PROVE  FALSE
    OBVIOUS
  <2> DEFINE n == 1 + b.next
  <2>1. n \in Nat /\ HasRead(id, r, S, n)
    BY <1>1 DEF HasRead
  <2>2. n + 1 \in Nat /\ n + 1 # 1
    BY <1>1
  <2> HIDE DEF n, b
  <2>3. ChunkOf(id, n + 1) = Header
    BY <1>1, <2>1, NextRead
  <2> QED
    BY <2>2, <2>3, FirstIsHeader
<1>3. HasRead(id, r, S, m) /\ m \in Nat
  BY <1>2 DEF HasRead
<1>4. c = [b EXCEPT !.associated = TRUE]
  BY DEF Associated
<1>5. c.associated = TRUE /\ c.next = b.next
  <2> DEFINE yes == TRUE
  <2>1. c = [b EXCEPT !.associated = yes]
    BY <1>4
  <2> HIDE DEF yes, b, c
  <2>2. c.associated = yes /\ c.next = b.next
    BY <1>1, <2>1 DEF InboundStates
  <2> QED
    BY <2>2 DEF yes
<1>6. IsReceiving(id, r, x) /\ id \in DOMAIN r.fc.registry /\ ~r.fc.registry[id].associated
  BY DEF Delivery, CanAssociateStream
<1>7. /\ b.next = 0 /\ D = {} /\ x = <<>>
      /\ x \in Seq(Payloads) /\ (\A i \in DOMAIN x : x[i] = Piece(id, i))
      /\ f.next_exposure = Len(x)
      /\ \A i \in D : f.by_index[i] = Piece(id, i + 1)
  BY <1>2, <1>6 DEF IsReceiving
<1>8. Len(x) = 0 /\ D = Len(x) .. c.next - 1 /\ Len(x) <= c.next
  <2>1. Len(<<>>) = 0 /\ 0 .. 0 - 1 = {} /\ 0 <= 0
    OBVIOUS
  <2> HIDE DEF D, x, c, b
  <2> QED
    BY <1>5, <1>7, <2>1
<1>9. /\ id \in DOMAIN r2.fc.registry /\ r2.fc.registry[id].associated = TRUE
      /\ r2.ep = r.ep /\ id \in DOMAIN r2.inbound
      /\ IsDecided(peer, r2.fc, id) <=> IsDecided(peer, r.fc, id)
  BY <1>6 DEF Associates
<1>10. IsReceiving(id, r2, x)
  BY <1>5, <1>6, <1>7, <1>8, <1>9 DEF IsReceiving
<1>11. m + 1 = IF c.associated THEN 1 + c.next ELSE 0
  BY <1>5, <1>7
<1> HIDE DEF m, x
<1> QED
  BY <1>1, <1>3, <1>9, <1>10, <1>11, ReadDelivers DEF x

\* The acceptor reads the first chunk.
LEMMA ReadHeaderDelivers ==
  ASSUME ConnectionInv, ModesAre, DeliveriesAre, NEW side \in Sides, NEW id,
         ReadHeader(side, id)
  PROVE  ModesAre' /\ DeliveriesAre'
<1> DEFINE e == end[side]
           b == Associated(e.inbound[id])
           after == [e EXCEPT !.fc = AssociateStream(@, id), !.inbound[id] = b]
           T == told[id.side]
           R == told[side]
           h == history[id]
           adm == Admitted(history)
<1>1. /\ id \in DOMAIN e.inbound /\ streams[id].data # <<>> /\ Head(streams[id].data) = Header
      /\ UNCHANGED <<told, history>>
  BY DEF ReadHeader, IsReading
<1>2. EndIs(side, e, told[side], adm) /\ IsAnEnd(e) /\ id.side # side /\ id \in Ids
  BY <1>1 DEF ConnectionInv, EndIs, InboundIs, IsAnEnd
<1>3. side = Other(id.side) /\ id \in DOMAIN streams
  BY <1>1, <1>2, IdsHave DEF ConnectionInv, StreamsAre
<1>4. ModesAre'
  BY InboundKnows
<1>5. CASE CanAssociateStream(e.fc, id)
  <2>1. /\ end' = [end EXCEPT ![side].fc = AssociateStream(@, id),
                              ![side].inbound[id] = Associated(@)]
        /\ streams' = [streams EXCEPT ![id] = Consumed(@)]
    BY <1>5 DEF ReadHeader
  <2>2. end' = [end EXCEPT ![side] = after]
    BY <2>1 DEF ConnectionInv
  <2>3. OnlyMoves(id) /\ streams'[id] = Consumed(streams[id])
    BY <1>1, <1>3, <2>1 DEF OnlyMoves
  <2>4. history[id].mode \notin Unreliable =>
          /\ Around(id, end[id.side], e, streams, T, R, adm)
          /\ Delivery(id, end[id.side], e, streams, T, R, h)
    BY <1>2, <1>3, FlowIsAround DEF DeliveriesAre, DeliveryOf
  <2>5. MayAssociate(side, e, id)
    BY <1>2, <1>5 DEF MayAssociate, EndIs
  <2> HIDE DEF e, b, T, R, h, adm
  <2>6. Associates(side, e, after, id)
    BY <1>1, <2>5, AssociatingInbound, Zenon
  <2>7. after.inbound[id] = b
    BY <1>1, <1>2 DEF IsAnEnd
  <2> HIDE DEF after
  <2>8. ASSUME history[id].mode \notin Unreliable
        PROVE  Delivery(id, end[id.side], after, streams', T, R, h)
    <3>1. /\ Associates(Other(id.side), e, after, id)
          /\ after.inbound[id] = Associated(e.inbound[id])
      BY <1>3, <2>6, <2>7 DEF b
    <3> QED
      BY <1>1, <1>2, <1>5, <2>3, <2>4, <2>8, <3>1, HeaderReadDelivers
  <2>9. Concerns(side, e, after, id)
    BY <2>6 DEF Associates
  <2> QED
    BY <1>1, <1>2, <1>3, <1>4, <2>2, <2>3, <2>8, <2>9, AcceptorDelivers DEF e, T, R, h
<1>6. CASE ~CanAssociateStream(e.fc, id)
  <2>1. /\ FailUnresolved(side, [e EXCEPT !.inbound = Drop(@, {id})], "ProfileProtocolError")
        /\ streams' = [streams EXCEPT ![id] = Stopped(@)]
    BY <1>6 DEF ReadHeader
  <2>2. IsCalm(side)
    BY <1>6, ReadHeaderKeeps
  <2> QED
    BY <1>1, <1>4, <2>1, <2>2, UnresolvedDelivers
<1> QED
  BY <1>5, <1>6

\* An end that changes how far it has read the flow's stream, and its endpoint.
MovesInbound(side, e, after, id, b, ep) ==
  /\ after.fc = e.fc /\ after.ep = ep /\ after.outbound = e.outbound
  /\ DOMAIN after.inbound = DOMAIN e.inbound /\ after.inbound[id] = b
  /\ Concerns(side, e, after, id)

\* It does nothing to other flows.
LEMMA OnlyInbound ==
  ASSUME NEW side, NEW e, IsAnEnd(e), NEW id \in DOMAIN e.inbound, NEW b, NEW ep,
         OnlyFlow(e.ep, ep, KeyOf(side, id))
  PROVE  MovesInbound(side, e, [[e EXCEPT !.ep = ep] EXCEPT !.inbound[id] = b], id, b, ep)
<1> DEFINE inbound == [e.inbound EXCEPT ![id] = b]
           m == [e EXCEPT !.ep = ep]
           after == [m EXCEPT !.inbound[id] = b]
<1>1. m = [phase |-> e.phase, sender |-> e.sender, deferred |-> e.deferred, ended |-> e.ended,
           fc |-> e.fc, ep |-> ep, outbound |-> e.outbound, inbound |-> e.inbound]
  BY DEF IsAnEnd
<1>2. after = [m EXCEPT !.inbound = inbound]
  BY <1>1
<1>3. /\ DOMAIN inbound = DOMAIN e.inbound /\ inbound[id] = b
      /\ \A j \in DOMAIN e.inbound : j # id => inbound[j] = e.inbound[j]
  OBVIOUS
<1> HIDE DEF m, inbound, after
<1>4. /\ after.fc = e.fc /\ after.ep = ep /\ after.outbound = e.outbound
      /\ after.inbound = inbound
  BY <1>1, <1>2
<1>5. Concerns(side, e, after, id)
  BY <1>3, <1>4 DEF Concerns
<1> QED
  BY <1>3, <1>4, <1>5 DEF MovesInbound, after, m

\* A buffer holds the messages of a flow from one transfer to another.
Buffers(id, m, l, n) == DOMAIN m = l .. n /\ \A i \in DOMAIN m : m[i] = Piece(id, i + 1)

\* So does one that takes the next.
LEMMA BufferedNext ==
  ASSUME NEW id, NEW l \in Nat, NEW n \in Nat, l <= n, NEW m, Buffers(id, m, l, n - 1)
  PROVE  Buffers(id, Put(m, n, Piece(id, n + 1)), l, n)
<1> DEFINE m2 == Put(m, n, Piece(id, n + 1))
<1>1. /\ DOMAIN m2 = DOMAIN m \cup {n} /\ m2[n] = Piece(id, n + 1)
      /\ \A i \in DOMAIN m : i # n => m2[i] = m[i]
  BY DEF Put
<1> HIDE DEF m2
<1>2. DOMAIN m2 = l .. n
  BY <1>1 DEF Buffers
<1>3. \A i \in DOMAIN m2 : m2[i] = Piece(id, i + 1)
  BY <1>1 DEF Buffers
<1> QED
  BY <1>2, <1>3 DEF Buffers, m2

\* The acceptor has the next message.
LEMMA MessageReadDelivers ==
  ASSUME NEW id \in Ids, NEW e, NEW r, NEW r2, NEW S, NEW S2, NEW T, NEW R, NEW h, NEW adm,
         Around(id, e, r, S, T, R, adm), Delivery(id, e, r, S, T, R, h),
         id \in DOMAIN r.inbound, r.inbound[id].associated,
         id \in DOMAIN r.fc.registry, r.fc.registry[id].associated,
         S[id].data # <<>>, S2[id] = Consumed(S[id]),
         NEW ep, MovesInbound(Other(id.side), r, r2, id, MessageRead(r.inbound[id]), ep),
         NEW f, f = r.ep.flows[KeyOf(Other(id.side), id)], f.mode = Reliable,
         NEW g, g = ep.flows[KeyOf(Other(id.side), id)],
         NEW t, t.index = r.inbound[id].next, t.payload = Head(S[id].data).payload,
         Received(f, g, Reliable, t)
  PROVE  Delivery(id, e, r2, S2, T, R, h)
<1> DEFINE peer == Other(id.side)
           b == r.inbound[id]
           c == r2.inbound[id]
           x == h.exposed
           l == Len(x)
           n == b.next
           m == 1 + n
           D == DOMAIN f.by_index
           p == Head(S[id].data).payload
<1>1. b \in InboundStates /\ n \in Nat /\ id \in DOMAIN S
  BY DEF Around, EndIs, InboundIs, InboundStates
<1>2. HasRead(id, r, S, m) /\ m \in Nat /\ m + 1 # 1 /\ (m + 1) - 1 = n + 1
  BY <1>1 DEF HasRead
<1>3. IsReceiving(id, r, x)
  BY DEF Delivery
<1>4. /\ x \in Seq(Payloads) /\ (\A i \in DOMAIN x : x[i] = Piece(id, i))
      /\ IsDecided(peer, r.fc, id) \/ x = <<>>
      /\ f.next_exposure = l /\ \A i \in D : f.by_index[i] = Piece(id, i + 1)
      /\ D = l .. n - 1 /\ l <= n
  BY <1>3 DEF IsReceiving
<1>5. l \in Nat
  BY <1>4
<1>6. p = Piece(id, n + 1)
  <2>1. Head(S[id].data) = ChunkOf(id, m + 1)
    BY <1>1, <1>2, NextRead
  <2>2. ChunkOf(id, m + 1).payload = Piece(id, (m + 1) - 1)
    BY <1>2, FirstIsHeader
  <2> QED
    BY <1>2, <2>1, <2>2
<1>7. t.index = n /\ t.payload = p
  OBVIOUS
<1>8. r2.fc = r.fc /\ r2.ep = ep /\ DOMAIN r2.inbound = DOMAIN r.inbound /\ c = MessageRead(b)
  BY DEF MovesInbound
<1>9. c.associated = b.associated /\ c.next = n + 1
  BY <1>1, <1>8 DEF MessageRead, InboundStates
<1>10. g.next_exposure = l /\ g.by_index = Put(f.by_index, n, Piece(id, n + 1))
  <2> HIDE DEF p, n, l, D
  <2>1. n \notin D /\ ~(n < l)
    BY <1>1, <1>4, <1>5 DEF n
  <2>2. ~IsDuplicate(f, t)
    BY <1>4, <1>7, <2>1 DEF IsDuplicate, D
  <2>3. ~IsIgnored(f, Reliable, t)
    BY <2>2 DEF IsIgnored
  <2>4. g.by_index = Put(f.by_index, t.index, t.payload) /\ g.next_exposure = f.next_exposure
    BY <2>3 DEF Received
  <2> QED
    BY <1>4, <1>6, <1>7, <2>4
<1>11. /\ DOMAIN g.by_index = l .. n
       /\ \A i \in DOMAIN g.by_index : g.by_index[i] = Piece(id, i + 1)
  <2> DEFINE q == f.by_index
  <2>1. Buffers(id, q, l, n - 1) /\ n \in Nat /\ l \in Nat /\ l <= n
    BY <1>1, <1>4, <1>5 DEF Buffers
  <2> HIDE DEF q, n, l
  <2>2. Buffers(id, Put(q, n, Piece(id, n + 1)), l, n)
    BY ONLY <2>1, BufferedNext
  <2> QED
    BY <1>10, <2>2 DEF Buffers, q
<1>12. l <= c.next /\ l .. n = l .. c.next - 1
  <2> HIDE DEF n, l
  <2>1. n \in Nat /\ l <= n
    BY <1>1, <1>4 DEF n
  <2> QED
    BY <1>5, <1>9, <2>1
<1> HIDE DEF n, l, c, D, p
<1>13. IsReceiving(id, r2, x)
  <2>1. ~IsDecided(peer, r2.fc, id) => x = <<>>
    BY <1>4, <1>8
  <2>2. g = r2.ep.flows[KeyOf(peer, id)] /\ r2.fc.registry[id].associated
    BY <1>8
  <2>3. id \in DOMAIN r2.inbound /\ r2.inbound[id].associated
    BY <1>8, <1>9 DEF c
  <2>4. /\ g.next_exposure = Len(x) /\ DOMAIN g.by_index = Len(x) .. r2.inbound[id].next - 1
        /\ Len(x) <= r2.inbound[id].next
    BY <1>10, <1>11, <1>12 DEF l, c
  <2>5. /\ x \in Seq(Payloads) /\ \A i \in DOMAIN x : x[i] = Piece(id, i)
        /\ \A i \in DOMAIN g.by_index : g.by_index[i] = Piece(id, i + 1)
    BY <1>4, <1>11
  <2> HIDE DEF x
  <2> QED
    BY ONLY <2>1, <2>2, <2>3, <2>4, <2>5 DEF IsReceiving
<1>14. id \in DOMAIN r2.inbound /\ m + 1 = IF c.associated THEN 1 + c.next ELSE 0
  BY <1>1, <1>8, <1>9 DEF n
<1> HIDE DEF m, x
<1> QED
  BY <1>1, <1>2, <1>13, <1>14, ReadDelivers DEF x, c

\* The acceptor cannot take a message, and lets the flow go.
LEMMA RefusedDelivers ==
  ASSUME ConnectionInv, DeliveriesAre, NEW side \in Sides, NEW id \in DOMAIN end[side].inbound,
         NEW left, IsAnEnd(left), DOMAIN left.inbound = DOMAIN end[side].inbound, NEW reason,
         end' = [end EXCEPT ![side] = FailFlow(side, left, id, reason)],
         IsCalm(side), UNCHANGED <<told, history>>,
         streams' = [streams EXCEPT ![id] = Stopped(@)]
  PROVE  DeliveriesAre'
<1> DEFINE after == FailFlow(side, left, id, reason)
<1>1. FailsAs(left, after, id, reason)
  BY FailFlowIs
<1>2. end' = [end EXCEPT ![side] = after]
  OBVIOUS
<1> HIDE DEF after
<1>3. DOMAIN Drop(left.inbound, {id}) = DOMAIN left.inbound \ {id}
  BY DropIsLess
<1>4. id \notin DOMAIN after.inbound
  BY <1>1, <1>3 DEF FailsAs
<1> QED
  BY <1>2, <1>4, StoppingDelivers

\* The acceptor reads a message.
LEMMA ReadMessageDelivers ==
  ASSUME ConnectionInv, ModesAre, DeliveriesAre, NEW side \in Sides, NEW id,
         ReadMessage(side, id)
  PROVE  ModesAre' /\ DeliveriesAre'
<1> DEFINE e == end[side]
           k == KeyOf(side, id)
           b == e.inbound[id]
           t == [index |-> b.next, payload |-> Head(streams[id].data).payload]
           ep == Receive(e.ep, k, Reliable, t)
           read == MessageRead(b)
           m == [e EXCEPT !.ep = ep]
           received == [m EXCEPT !.inbound[id] = read]
           T == told[id.side]
           R == told[side]
           h == history[id]
           adm == Admitted(history)
           Fails(reason, left) ==
             /\ end' = [end EXCEPT ![side] = FailFlow(side, left, id, reason)]
             /\ streams' = [streams EXCEPT ![id] = Stopped(@)]
<1>1. /\ EndIs(side, e, R, adm) /\ IsAnEnd(e) /\ e.phase = "Active"
      /\ id \in DOMAIN e.inbound /\ b.associated
      /\ streams[id].data # <<>> /\ Head(streams[id].data) # Header
      /\ UNCHANGED <<told, history>>
  BY DEF ConnectionInv, ReadMessage, IsReading, IsReady, EndIs, IsAnEnd
<1>2. /\ id \in Ids /\ id.side # side /\ b \in InboundStates
      /\ id \in DOMAIN e.fc.registry => e.fc.registry[id].mode = Reliable
  BY <1>1 DEF EndIs, InboundIs
<1>3. side = Other(id.side) /\ id \in DOMAIN streams
  BY <1>1, <1>2, IdsHave DEF ConnectionInv, StreamsAre
<1>4. ModesAre' /\ (ReadsWell(side, id) \/ IsCalm(side))
  BY ReadMessageKnows, ReadMessageKeeps
<1>5. IF t.index \notin Index \/ k \notin DOMAIN e.ep.flows THEN Fails("ProtocolFailure", e)
      ELSE IF FailsReliably(e.ep, k, Reliable, t)
      THEN Fails("ReliableDeliveryFailure", received)
      ELSE /\ end' = [end EXCEPT ![side] = received]
           /\ streams' = [streams EXCEPT ![id] = Consumed(@)]
  BY DEF ReadMessage
<1>6. ReadsWell(side, id) <=> /\ t.index \in Index /\ k \in DOMAIN e.ep.flows
                              /\ ~FailsReliably(e.ep, k, Reliable, t)
  BY DEF ReadsWell
<1>7. IsAnEnd(received) /\ DOMAIN received.inbound = DOMAIN e.inbound
  <2> HIDE DEF ep, read, e
  <2> DEFINE inbound == [e.inbound EXCEPT ![id] = read]
  <2>1. m = [phase |-> e.phase, sender |-> e.sender, deferred |-> e.deferred,
             ended |-> e.ended, fc |-> e.fc, ep |-> ep,
             outbound |-> e.outbound, inbound |-> e.inbound]
    BY <1>1 DEF IsAnEnd
  <2>2. received = [m EXCEPT !.inbound = inbound] /\ DOMAIN inbound = DOMAIN e.inbound
    BY <2>1
  <2> HIDE DEF m, inbound, received
  <2>3. received = [phase |-> e.phase, sender |-> e.sender, deferred |-> e.deferred,
                    ended |-> e.ended, fc |-> e.fc, ep |-> ep,
                    outbound |-> e.outbound, inbound |-> inbound]
    BY ONLY <2>1, <2>2
  <2> QED
    BY <2>2, <2>3 DEF IsAnEnd
<1>8. CASE ~ReadsWell(side, id)
  <2>1. Fails("ProtocolFailure", e) \/ Fails("ReliableDeliveryFailure", received)
    BY <1>5, <1>6, <1>8
  <2> HIDE DEF received, t
  <2>2. DeliveriesAre'
    BY <1>1, <1>4, <1>7, <1>8, <2>1, RefusedDelivers
  <2> QED
    BY <1>4, <2>2
<1>9. CASE ReadsWell(side, id)
  <2>1. /\ end' = [end EXCEPT ![side] = received]
        /\ streams' = [streams EXCEPT ![id] = Consumed(@)]
        /\ t.index \in Index /\ k \in DOMAIN e.ep.flows /\ ~FailsReliably(e.ep, k, Reliable, t)
    BY <1>5, <1>6, <1>9
  <2>2. OnlyMoves(id) /\ streams'[id] = Consumed(streams[id])
    BY <1>1, <1>3, <2>1 DEF OnlyMoves
  <2>3. t \in Transfer /\ CanReceive(e.ep, k) /\ EndpointInv(e.ep) /\ Reliable \in Mode
    <3>1. streams[id].data \in Seq(Chunks)
      BY <1>3 DEF ConnectionInv, WiresAre, StreamIs
    <3>2. Head(streams[id].data) \in Chunks
      BY <1>1, <3>1
    <3>3. t.payload \in Payloads
      BY <1>1, <3>2, ChunkIsMessage
    <3> QED
      BY <1>1, <1>2, <2>1, <3>3, KeyDirection DEF Transfer, CanReceive, EndIs, Mode
  <2>4. /\ id \in DOMAIN e.fc.registry /\ e.fc.registry[id].associated
        /\ e.ep.flows[k].mode = Reliable
    <3>1. id \in DOMAIN e.fc.registry
      BY <1>1, <1>2, <2>1, HasFlow DEF EndIs
    <3> QED
      BY <1>1, <1>2, <3>1 DEF EndIs, FlowsAgree, StreamsAgree, IsAssociated
  <2>5. history[id].mode \notin Unreliable =>
          /\ Around(id, end[id.side], e, streams, T, R, adm)
          /\ Delivery(id, end[id.side], e, streams, T, R, h)
    BY <1>2, <1>3, FlowIsAround DEF DeliveriesAre, DeliveryOf
  <2>6. t.index = b.next /\ t.payload = Head(streams[id].data).payload
    OBVIOUS
  <2> HIDE DEF t, e, T, R, h, adm, k
  <2>7. OnlyFlow(e.ep, ep, k) /\ Received(e.ep.flows[k], ep.flows[k], Reliable, t)
    BY <2>1, <2>3, ReceiveChanges
  <2> HIDE DEF ep, read, b
  <2>8. MovesInbound(side, e, received, id, read, ep)
    <3>1. OnlyFlow(e.ep, ep, KeyOf(side, id))
      BY <2>7 DEF k
    <3> QED
      BY <1>1, <3>1, OnlyInbound, Zenon
  <2> HIDE DEF received, m
  <2>9. ASSUME history[id].mode \notin Unreliable
        PROVE  Delivery(id, end[id.side], received, streams', T, R, h)
    <3> DEFINE f == e.ep.flows[k]
               g == ep.flows[k]
    <3>1. /\ f = e.ep.flows[KeyOf(Other(id.side), id)] /\ f.mode = Reliable
          /\ g = ep.flows[KeyOf(Other(id.side), id)] /\ Received(f, g, Reliable, t)
      BY <1>3, <2>4, <2>7 DEF k
    <3>2. /\ MovesInbound(Other(id.side), e, received, id, MessageRead(e.inbound[id]), ep)
          /\ e.inbound[id].associated /\ t.index = e.inbound[id].next
      BY <1>1, <1>3, <2>6, <2>8 DEF b, read
    <3> HIDE DEF f, g
    <3> QED
      BY <1>1, <1>2, <2>2, <2>4, <2>5, <2>6, <2>9, <3>1, <3>2, MessageReadDelivers
  <2>10. Concerns(side, e, received, id)
    BY <2>8 DEF MovesInbound
  <2> QED
    BY <1>1, <1>2, <1>3, <1>4, <2>1, <2>2, <2>9, <2>10, AcceptorDelivers DEF e, T, R, h
<1> QED
  BY <1>8, <1>9

-----------------------------------------------------------------------------
(* Whatever ends normally is delivered                                     *)

\* At first nothing is asked for, and nothing is on its way.
LEMMA DeliveryStarts ==
  ASSUME Init
  PROVE  ModesAre /\ DeliveriesAre
<1>1. /\ \A side \in Sides : end[side] = NewEnd /\ wire[side] = <<>>
      /\ \A id \in Ids : history[id].mode = "None" /\ history[id].accepted = 0
                         /\ history[id].exposed = <<>>
      /\ \A side \in Sides : \A id \in Ids : told[side][id] = "None"
      /\ streams = EmptyMap
  BY DEF Init
<1>2. /\ DOMAIN EmptyMap = {} /\ DOMAIN <<>> = {} /\ <<>> \in Seq(Payloads)
      /\ NoSend.frame = NoFrame /\ NoSend.cause # "Normal"
  <2>1. DOMAIN <<>> = {} /\ <<>> \in Seq(Payloads)
    OBVIOUS
  <2> QED
    BY <2>1, EmptyMapIsEmpty DEF NoSend
<1> DEFINE e == NewEnd
<1>3. /\ e.fc.registry = EmptyMap /\ e.fc.pending_outbound = EmptyMap
      /\ e.fc.pending_inbound = NoRequest /\ e.fc.local_flow_ids = 0 /\ e.fc.peer_flow_ids = 0
      /\ e.outbound = EmptyMap /\ e.inbound = EmptyMap
      /\ e.sender = NoSend /\ e.deferred = NoFrame
  BY DEF NewEnd, NewFlowControl
<1>4. ASSUME NEW side \in Sides, NEW id \in Ids
      PROVE  ~IsKnown(side, e.fc, id) /\ ~IsDecided(side, e.fc, id)
  BY <1>3, IdsHave DEF IsDecided, IsKnown, NewEnd
<1> HIDE DEF e
<1>5. ModesAre
  <2>1. \A m : AsksRightly(NoFrame, m) /\ AsksRightly(NoRequest, m)
    BY OthersAskNothing
  <2>2. \A side \in Sides : ModesAt(e, Modes(history))
    BY <1>2, <1>3, <2>1 DEF ModesAt, FlowsKnown, SaysRightly
  <2> QED
    BY <1>1, <1>2, <1>4, <2>2, IdsHave DEF ModesAre, e
<1>6. DeliveriesAre
  <2> SUFFICES ASSUME NEW id \in Ids
               PROVE  Delivery(id, e, e, streams, told[id.side], told[Other(id.side)], history[id])
    BY <1>1, IdsHave DEF DeliveriesAre, DeliveryOf, e
  <2>1. IsSending(id, e, history[id].accepted)
    BY <1>1, <1>2, <1>3 DEF IsSending
  <2>2. IsReceiving(id, e, history[id].exposed)
    BY <1>1, <1>2, <1>3 DEF IsReceiving
  <2>3. IsStreaming(id, e, e, history[id].accepted, told[id.side], streams)
    BY <1>1, <1>2 DEF IsStreaming
  <2>4. told[Other(id.side)][id] = "None"
    BY <1>1, IdsHave
  <2> QED
    BY <2>1, <2>2, <2>3, <2>4 DEF Delivery
<1> QED
  BY <1>5, <1>6

\* What hosts ask for.
LEMMA AskDelivers ==
  ASSUME ConnectionInv, ModesAre, DeliveriesAre, NEW side \in Sides, Ask(side)
  PROVE  ModesAre' /\ DeliveriesAre'
<1>1. CASE \E mode \in Requests[side] : OpenOutboundFlow(side, mode)
  BY <1>1, OpenOutboundFlowDelivers, EstablishedConnectionAssumption
<1>2. CASE \E id \in Ids : SubmitReliable(side, id) \/ SubmitUnreliable(side, id)
  BY <1>2, SubmissionDelivers
<1>3. CASE \E id \in Ids : FinishReliable(side, id)
  BY <1>3, FinishReliableDelivers
<1>4. CASE \/ \E id \in Ids : ExhaustSequence(side, id) \/ FinishUnreliable(side, id)
           \/ Teardown(side)
  BY <1>4, EndingDelivers
<1> QED
  BY <1>1, <1>2, <1>3, <1>4 DEF Ask

\* What drivers do.
LEMMA DriveDelivers ==
  ASSUME ConnectionInv, ModesAre, DeliveriesAre, NEW side \in Sides, Drive(side)
  PROVE  ModesAre' /\ DeliveriesAre'
<1>1. CASE ReceiveControl(side) \/ ProcessDeferred(side)
  BY <1>1, RoutedDelivers
<1>2. CASE \E id \in Ids : \/ AcquireOutbound(side, id) \/ WriteSegment(side, id)
                           \/ FailOutbound(side, id) \/ AcknowledgeFinish(side, id)
  BY <1>2, AcquireOutboundDelivers, WriteSegmentDelivers, FailOutboundDelivers,
     AcknowledgeFinishDelivers
<1>3. CASE \E id \in Ids : \/ AcquireInbound(side, id) \/ ReadHeader(side, id)
                           \/ ReadMessage(side, id) \/ ReadReset(side, id)
                           \/ DrainStream(side, id) \/ SendDatagram(side, id)
  BY <1>3, AcquireInboundDelivers, ReadHeaderDelivers, ReadMessageDelivers, ReadResetDelivers,
     DrainStreamDelivers, SendDatagramDelivers
<1>4. CASE \/ CompleteControlSend(side)
           \/ \E ending \in Endings(side) : \/ EndedOnReceive(side, ending)
                                            \/ EndedOnSend(side, ending)
                                            \/ EndedOnData(side, ending)
  BY <1>4, EndingDelivers
<1> QED
  BY <1>1, <1>2, <1>3, <1>4 DEF Drive

\* A step delivers what was delivered.
LEMMA NextDelivers ==
  ASSUME ConnectionInv, ModesAre, DeliveriesAre, [Next]_vars
  PROVE  ModesAre' /\ DeliveriesAre'
<1>1. CASE \E side \in Sides : Ask(side)
  BY <1>1, AskDelivers
<1>2. CASE \E side \in Sides : Decide(side)
  BY <1>2, RoutedDelivers DEF Decide
<1>3. CASE \E side \in Sides : \E id \in Ids : PollExposure(side, id)
  BY <1>3, PollExposureDelivers
<1>4. CASE \E side \in Sides : Drive(side)
  BY <1>4, DriveDelivers
<1>5. CASE \E side \in Sides : \E datagram \in datagrams : ReceiveDatagram(side, datagram)
  BY <1>5, ReceiveDatagramDelivers
<1>6. CASE LoseTransport \/ UNCHANGED vars
  <2>1. UNCHANGED <<end, wire, streams, told, history>>
    BY <1>6 DEF LoseTransport, vars
  <2> QED
    BY <2>1 DEF ModesAre, DeliveriesAre, DeliveryOf
<1> QED
  BY <1>1, <1>2, <1>3, <1>4, <1>5, <1>6 DEF Next

\* A reliable flow that ended normally for both hosts was exposed as it was accepted.
LEMMA NormalIsDelivered ==
  ASSUME ConnectionInv, DeliveriesAre
  PROVE  NormalMeansDelivered
<1> SUFFICES ASSUME NEW id \in Ids, history[id].mode = Reliable,
                    \A side \in Sides : told[side][id] = "Normal"
             PROVE  /\ Len(history[id].exposed) = history[id].accepted
                    /\ \A i \in DOMAIN history[id].exposed : history[id].exposed[i].n = i
  BY DEF NormalMeansDelivered
<1> DEFINE e == end[id.side]
           r == end[Other(id.side)]
           T == told[id.side]
           x == history[id].exposed
           n == history[id].accepted
           m == 1 + n
<1>1. n \in Nat /\ id.side \in Sides /\ Other(id.side) \in Sides
  BY IdsHave DEF ConnectionInv, HistoryIs
<1>2. Reliable \notin Unreliable
  BY DEF Unreliable, Reliable, Unordered, Sequenced
<1>3. DeliveryOf(id)
  BY <1>2 DEF DeliveriesAre
<1>4. IsReceiving(id, r, x) /\ AllIsExposed(id, e, n, x, T)
  BY <1>1, <1>3 DEF DeliveryOf, Delivery
<1>5. HasWritten(id, e, n, T, m) /\ m \in Nat
  BY <1>1 DEF HasWritten
<1>6. x \in Seq(Payloads) /\ \A i \in DOMAIN x : x[i] = Piece(id, i)
  BY <1>4 DEF IsReceiving
<1>7. m = 1 + Len(x)
  BY <1>4, <1>5 DEF AllIsExposed
<1> HIDE DEF x, n
<1>8. Len(x) = n
  <2>1. Len(x) \in Nat
    BY <1>6
  <2> QED
    BY <1>1, <1>7, <2>1
<1>9. \A i \in DOMAIN x : x[i].n = i
  BY <1>6 DEF Piece
<1> QED
  BY <1>8, <1>9 DEF x, n

\* A reliable flow that both hosts were told ended normally has delivered every message
\* that was accepted for it, in order (quinn_binding.rs, FIN and drain): the opener tells
\* so only when its stream has the flow's identifier, all it accepted and the end of the
\* stream, the acceptor only when it has read to that end and its host took all.
THEOREM NormalEndsDeliver == Spec => []NormalMeansDelivered
<1> DEFINE Inv == ConnectionInv /\ ModesAre /\ DeliveriesAre
<1>1. Init => ModesAre /\ DeliveriesAre
  BY DeliveryStarts
<1>2. ConnectionInv /\ ModesAre /\ DeliveriesAre /\ [Next]_vars => ModesAre' /\ DeliveriesAre'
  BY NextDelivers
<1>3. ConnectionInv /\ DeliveriesAre => NormalMeansDelivered
  BY NormalIsDelivered
<1> QED
  BY <1>1, <1>2, <1>3, ConnectionIsRight, PTL DEF Spec
=============================================================================
