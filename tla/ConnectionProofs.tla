-------------------------- MODULE ConnectionProofs --------------------------
(***************************************************************************)
(* What the two ends of an established connection keep of their flows, for *)
(* any number of flows, any policies, limits and settings.                 *)
(***************************************************************************)
EXTENDS EstablishedConnection, DeliveryEndpointProofs

Phases == {"Active", "PeerClosed", "Failed", "TornDown"}
Causes == {"Normal", "ResourceFailure", "ProtocolFailure", "ReliableDeliveryFailure"}
OpenFrames ==
  {OpenFlow(id, mode, PolicyOf[id.side][mode].message_bytes) : id \in Ids, mode \in Mode}

OutboundStates == [state : {"Acquiring", "Writing", "Finishing"}, header : BOOLEAN, next : Nat]
InboundStates == [associated : BOOLEAN, next : Nat, draining : BOOLEAN]

-----------------------------------------------------------------------------
(* An end                                                                  *)

\* The end has assigned the flow's identifier, or has seen it.
IsKnown(side, fc, id) ==
  id.sequence < (IF id.side = side THEN fc.local_flow_ids ELSE fc.peer_flow_ids)

\* The peer or the host has yet to decide about it.
IsUndecided(fc, id) == id \in DOMAIN fc.pending_outbound \/ fc.pending_inbound.id = id

\* Both have, or one of them decided against it.
IsDecided(side, fc, id) == IsKnown(side, fc, id) /\ ~IsUndecided(fc, id)

\* The host's policy suits the mode.
IsUsable(side, mode) == ValidPolicy(PolicyOf[side][mode], mode)

FlowControlIs(side, fc) ==
  /\ fc = [local_flow_ids |-> fc.local_flow_ids, peer_flow_ids |-> fc.peer_flow_ids,
           pending_outbound |-> fc.pending_outbound, pending_inbound |-> fc.pending_inbound,
           registry |-> fc.registry]
  /\ fc.local_flow_ids \in Nat /\ fc.peer_flow_ids \in Nat
  /\ \A id \in DOMAIN fc.pending_outbound :
       /\ id \in Ids /\ id.side = side /\ IsKnown(side, fc, id)
       /\ fc.pending_outbound[id] \in Mode
       /\ IsUsable(side, fc.pending_outbound[id])
  /\ \/ fc.pending_inbound = NoRequest
     \/ /\ fc.pending_inbound \in OpenFrames
        /\ fc.pending_inbound.id.side = Other(side)
        /\ IsKnown(side, fc, fc.pending_inbound.id)
  /\ \A id \in DOMAIN fc.registry :
       /\ id \in Ids /\ IsDecided(side, fc, id)
       /\ fc.registry[id] \in [mode : Mode, associated : BOOLEAN]

\* A stream is driven for a flow that both ends have agreed on, now or before.
OutboundIs(side, fc, outbound) ==
  \A id \in DOMAIN outbound :
    /\ id \in Ids /\ id.side = side /\ outbound[id] \in OutboundStates
    /\ IsDecided(side, fc, id)
    /\ id \in DOMAIN fc.registry => fc.registry[id].mode = Reliable

InboundIs(side, fc, inbound) ==
  \A id \in DOMAIN inbound :
    /\ id \in Ids /\ id.side # side /\ inbound[id] \in InboundStates
    /\ inbound[id].associated =>
         /\ IsDecided(side, fc, id)
         /\ id \in DOMAIN fc.registry => fc.registry[id].mode = Reliable

\* The registry and the delivery endpoint have the same flows.
FlowsAgree(side, fc, ep) ==
  /\ DOMAIN ep.flows = {KeyOf(side, id) : id \in DOMAIN fc.registry}
  /\ \A id \in DOMAIN fc.registry : ep.flows[KeyOf(side, id)].mode = fc.registry[id].mode

\* A reliable flow is associated when its stream is.
IsAssociated(side, fc, outbound, inbound, id) ==
  IF id.side = side
  THEN /\ id \in DOMAIN outbound
       /\ fc.registry[id].associated = (outbound[id].state # "Acquiring")
  ELSE fc.registry[id].associated = (id \in DOMAIN inbound /\ inbound[id].associated)

StreamsAgree(side, fc, outbound, inbound) ==
  \A id \in DOMAIN fc.registry :
    fc.registry[id].mode = Reliable => IsAssociated(side, fc, outbound, inbound, id)

\* What the host was told of flows, T, is of flows that are over.
TellingIs(side, fc, T, adm) ==
  /\ T \in [Ids -> {"None", "Rejected"} \cup Causes]
  /\ \A id \in Ids : T[id] # "None" => IsDecided(side, fc, id) /\ id \notin DOMAIN fc.registry
  /\ \A id \in Ids : id.side # side /\ adm[id] => IsDecided(side, fc, id)
  /\ \A id \in DOMAIN fc.registry : id.side # side => adm[id]

\* A report that waits to be sent is of a flow that is over and not yet told of.
ReportIs(side, fc, sender, T) ==
  /\ sender = [frame |-> sender.frame, cause |-> sender.cause]
  /\ sender.frame \in Frames
  /\ sender.cause # "None" =>
       LET id == sender.frame.id
       IN /\ id \in Ids /\ sender.cause \in Causes
          /\ sender.frame = FlowTerminate(id, sender.cause)
          /\ T[id] = "None" /\ IsDecided(side, fc, id) /\ id \notin DOMAIN fc.registry

\* The flow was there, and is not any more.
HasEnded(side, fc, adm, id) ==
  /\ IsDecided(side, fc, id) /\ id \notin DOMAIN fc.registry
  /\ id.side # side => adm[id]

\* The host of an active end was told, or its report waits.
EndsAreTold(side, fc, sender, T, adm) ==
  \A id \in Ids : HasEnded(side, fc, adm, id) =>
    T[id] # "None" \/ (sender.cause # "None" /\ sender.frame.id = id)

\* An end, whose host was told T, and whose hosts admitted adm of the peer's flows.
EndIs(side, e, T, adm) ==
  /\ e = [phase |-> e.phase, sender |-> e.sender, deferred |-> e.deferred,
          ended |-> e.ended, fc |-> e.fc, ep |-> e.ep,
          outbound |-> e.outbound, inbound |-> e.inbound]
  /\ e.phase \in Phases /\ e.deferred \in Frames
  /\ e.phase # "Active" => e.sender = NoSend /\ e.deferred = NoFrame
  /\ EndpointInv(e.ep)
  /\ FlowControlIs(side, e.fc)
  /\ OutboundIs(side, e.fc, e.outbound) /\ InboundIs(side, e.fc, e.inbound)
  /\ FlowsAgree(side, e.fc, e.ep)
  /\ e.phase \in {"Active", "PeerClosed"} => StreamsAgree(side, e.fc, e.outbound, e.inbound)
  /\ TellingIs(side, e.fc, T, adm) /\ ReportIs(side, e.fc, e.sender, T)
  /\ e.phase = "Active" => EndsAreTold(side, e.fc, e.sender, T, adm)

-----------------------------------------------------------------------------
(* Identifiers and keys                                                    *)

\* An identifier is a side and a number; a side has another.
LEMMA IdsHave ==
  /\ \A id \in Ids : /\ id = FlowId(id.side, id.sequence) /\ id.side \in Sides
                     /\ id.sequence \in 0 .. LastFlow /\ id.sequence \in Nat
                     /\ id # NoFlow
  /\ \A side \in Sides, n \in 0 .. LastFlow : FlowId(side, n) \in Ids
  /\ \A side \in Sides : /\ Other(side) \in Sides /\ Other(side) # side
                         /\ Other(Other(side)) = side
                         /\ \A s \in Sides : s # side => s = Other(side)
<1>1. ASSUME NEW id \in Ids
      PROVE  /\ id = FlowId(id.side, id.sequence) /\ id.side \in Sides
             /\ id.sequence \in 0 .. LastFlow /\ id.sequence \in Nat /\ id # NoFlow
  <2>1. PICK side \in Sides, n \in 0 .. LastFlow : id = FlowId(side, n)
    BY DEF Ids
  <2>2. id.side = side /\ id.sequence = n
    BY <2>1 DEF FlowId
  <2>3. id.side # "None"
    BY <2>2 DEF Sides, Client, Server
  <2> QED
    BY <2>1, <2>2, <2>3, FlowControlAssumption DEF NoFlow
<1>2. \A side \in Sides, n \in 0 .. LastFlow : FlowId(side, n) \in Ids
  BY DEF Ids
<1>3. \A side \in Sides : /\ Other(side) \in Sides /\ Other(side) # side
                         /\ Other(Other(side)) = side
                         /\ \A s \in Sides : s # side => s = Other(side)
  BY DEF Sides, Client, Server, Other
<1> QED
  BY <1>1, <1>2, <1>3

\* No two flows of an end have the same key.
LEMMA KeysDiffer ==
  ASSUME NEW side \in Sides, NEW i \in Ids, NEW j \in Ids, KeyOf(side, i) = KeyOf(side, j)
  PROVE  i = j
<1>1. HandleOf[i] = HandleOf[j] /\ (i.side = side <=> j.side = side)
  BY DEF KeyOf, Key
<1>2. i.side = j.side
  BY <1>1, IdsHave
<1> QED
  BY <1>1, <1>2, HandleAssumption

\* An end has a flow exactly when it is registered.
LEMMA HasFlow ==
  ASSUME NEW side \in Sides, NEW fc, NEW ep, FlowControlIs(side, fc),
         FlowsAgree(side, fc, ep), NEW id \in Ids
  PROVE  KeyOf(side, id) \in DOMAIN ep.flows <=> id \in DOMAIN fc.registry
BY KeysDiffer DEF FlowsAgree, FlowControlIs

-----------------------------------------------------------------------------
(* The endpoint or the bindings move on                                    *)

\* The same flows in the same modes.
SameFlows(ep, after) ==
  /\ EndpointInv(after) /\ DOMAIN after.flows = DOMAIN ep.flows
  /\ \A k \in DOMAIN ep.flows : after.flows[k].mode = ep.flows[k].mode

\* The same bindings, as far as their association goes.
SameBindings(e, after) ==
  /\ DOMAIN after.outbound = DOMAIN e.outbound /\ DOMAIN after.inbound = DOMAIN e.inbound
  /\ \A id \in DOMAIN e.outbound :
       /\ after.outbound[id] \in OutboundStates
       /\ (after.outbound[id].state = "Acquiring") = (e.outbound[id].state = "Acquiring")
  /\ \A id \in DOMAIN e.inbound :
       /\ after.inbound[id] \in InboundStates
       /\ after.inbound[id].associated = e.inbound[id].associated

\* Nothing else has changed.
MovesOn(e, after) ==
  /\ after = [phase |-> e.phase, sender |-> e.sender, deferred |-> e.deferred,
              ended |-> e.ended, fc |-> e.fc, ep |-> after.ep,
              outbound |-> after.outbound, inbound |-> after.inbound]
  /\ SameFlows(e.ep, after.ep) /\ SameBindings(e, after)

\* An end that moves on is as it should be.
LEMMA MovingOn ==
  ASSUME NEW side \in Sides, NEW e, NEW T, NEW adm, EndIs(side, e, T, adm),
         NEW after, MovesOn(e, after)
  PROVE  EndIs(side, after, T, adm)
<1>1. /\ after.phase = e.phase /\ after.sender = e.sender /\ after.deferred = e.deferred
      /\ after.ended = e.ended /\ after.fc = e.fc
      /\ after = [phase |-> after.phase, sender |-> after.sender, deferred |-> after.deferred,
                  ended |-> after.ended, fc |-> after.fc, ep |-> after.ep,
                  outbound |-> after.outbound, inbound |-> after.inbound]
  BY DEF MovesOn
<1>2. OutboundIs(side, e.fc, after.outbound) /\ InboundIs(side, e.fc, after.inbound)
  BY DEF EndIs, MovesOn, SameBindings, OutboundIs, InboundIs
<1>3. FlowsAgree(side, e.fc, after.ep) /\ EndpointInv(after.ep)
  BY DEF EndIs, MovesOn, SameFlows, FlowsAgree
<1>4. StreamsAgree(side, e.fc, e.outbound, e.inbound) =>
        StreamsAgree(side, e.fc, after.outbound, after.inbound)
  BY DEF MovesOn, SameBindings, StreamsAgree, IsAssociated
<1> QED
  BY <1>1, <1>2, <1>3, <1>4 DEF EndIs
-----------------------------------------------------------------------------
(* A flow ends                                                             *)

\* One map is another without some of the keys ks, and the same elsewhere.
IsLess(m, n, ks) ==
  /\ DOMAIN n \subseteq DOMAIN m /\ DOMAIN m \ ks \subseteq DOMAIN n
  /\ \A k \in DOMAIN n : n[k] = m[k]

\* So is what Drop leaves.
LEMMA DropIsLess ==
  ASSUME NEW m, NEW ks
  PROVE  IsLess(m, Drop(m, ks), ks) /\ IsLess(m, m, ks) /\ DOMAIN Drop(m, ks) = DOMAIN m \ ks
BY DEF IsLess, Drop, Restrict

\* A released flow is gone from the registry; nothing is decided by that.
LEMMA ReleaseKeeps ==
  ASSUME NEW side \in Sides, NEW fc, FlowControlIs(side, fc), NEW id, NEW left,
         left = ReleaseFlow(fc, id)
  PROVE  /\ FlowControlIs(side, left)
         /\ DOMAIN left.registry = DOMAIN fc.registry \ {id}
         /\ \A j \in DOMAIN left.registry : left.registry[j] = fc.registry[j]
         /\ left.local_flow_ids = fc.local_flow_ids /\ left.peer_flow_ids = fc.peer_flow_ids
         /\ left.pending_outbound = fc.pending_outbound
         /\ left.pending_inbound = fc.pending_inbound
         /\ \A j : IsDecided(side, left, j) <=> IsDecided(side, fc, j)
<1>1. /\ left.local_flow_ids = fc.local_flow_ids /\ left.peer_flow_ids = fc.peer_flow_ids
      /\ left.pending_outbound = fc.pending_outbound
      /\ left.pending_inbound = fc.pending_inbound
      /\ left.registry = Drop(fc.registry, {id})
      /\ left = [local_flow_ids |-> left.local_flow_ids, peer_flow_ids |-> left.peer_flow_ids,
                 pending_outbound |-> left.pending_outbound,
                 pending_inbound |-> left.pending_inbound, registry |-> left.registry]
  BY DEF FlowControlIs, ReleaseFlow
<1>2. /\ DOMAIN left.registry = DOMAIN fc.registry \ {id}
      /\ \A j \in DOMAIN left.registry : left.registry[j] = fc.registry[j]
  BY <1>1 DEF Drop, Restrict
<1>3. \A j : /\ IsKnown(side, left, j) <=> IsKnown(side, fc, j)
             /\ IsUndecided(left, j) <=> IsUndecided(fc, j)
  BY <1>1 DEF IsKnown, IsUndecided
<1>4. FlowControlIs(side, left)
  BY <1>1, <1>2, <1>3 DEF FlowControlIs, IsDecided
<1> QED
  BY <1>1, <1>2, <1>3, <1>4 DEF IsDecided

\* The end releases the flow id and ends its delivery, and may drop its bindings.
FlowEnds(side, e, after, id) ==
  /\ after = [phase |-> e.phase, sender |-> after.sender, deferred |-> e.deferred,
              ended |-> e.ended, fc |-> ReleaseFlow(e.fc, id), ep |-> after.ep,
              outbound |-> after.outbound, inbound |-> after.inbound]
  /\ EndpointInv(after.ep)
  /\ DOMAIN after.ep.flows = DOMAIN e.ep.flows \ {KeyOf(side, id)}
  /\ \A k \in DOMAIN after.ep.flows : after.ep.flows[k] = e.ep.flows[k]
  /\ IsLess(e.outbound, after.outbound, {id}) /\ IsLess(e.inbound, after.inbound, {id})

\* Its host is told now, or a report is to be sent first, if there was a flow.
IsNoticed(e, after, id, T, Tafter) ==
  \/ /\ id \in DOMAIN e.fc.registry /\ after.sender = NoSend
     /\ \E cause \in Causes : Tafter = [T EXCEPT ![id] = cause]
  \/ /\ id \in DOMAIN e.fc.registry /\ Tafter = T
     /\ \E cause \in Causes :
          after.sender = [frame |-> FlowTerminate(id, cause), cause |-> cause]
  \/ id \notin DOMAIN e.fc.registry /\ Tafter = T /\ after.sender = NoSend

\* The frames that ends send.
LEMMA FramesAre ==
  /\ NoFrame \in Frames /\ OpenFrames \subseteq Frames
  /\ \A id \in Ids : FlowAccept(id) \in Frames
  /\ \A id \in Ids, reason \in RejectReasons : FlowReject(id, reason) \in Frames
  /\ \A id \in Ids, cause \in Causes : FlowTerminate(id, cause) \in Frames
  /\ NoSend = [frame |-> NoFrame, cause |-> "None"] /\ NoSend.cause = "None"
  /\ NoSend.frame = NoFrame /\ "None" \notin Causes
BY DEF Frames, OpenFrames, Causes, NoSend

\* An end that was ready and ends a flow is as it should be.
LEMMA FlowEnding ==
  ASSUME NEW side \in Sides, NEW e, NEW T, NEW adm, EndIs(side, e, T, adm),
         e.phase = "Active", e.sender = NoSend, NEW id \in Ids,
         NEW after, FlowEnds(side, e, after, id), NEW Tafter, IsNoticed(e, after, id, T, Tafter)
  PROVE  EndIs(side, after, Tafter, adm)
<1> DEFINE fc == e.fc
           left == after.fc
<1>1. /\ after.phase = e.phase /\ after.deferred = e.deferred /\ after.ended = e.ended
      /\ after = [phase |-> after.phase, sender |-> after.sender, deferred |-> after.deferred,
                  ended |-> after.ended, fc |-> after.fc, ep |-> after.ep,
                  outbound |-> after.outbound, inbound |-> after.inbound]
      /\ left = ReleaseFlow(fc, id)
  BY DEF FlowEnds
<1>2. /\ FlowControlIs(side, left)
      /\ DOMAIN left.registry = DOMAIN fc.registry \ {id}
      /\ \A j \in DOMAIN left.registry : left.registry[j] = fc.registry[j]
      /\ \A j : IsDecided(side, left, j) <=> IsDecided(side, fc, j)
  BY <1>1, ReleaseKeeps DEF EndIs
<1>3. OutboundIs(side, left, after.outbound) /\ InboundIs(side, left, after.inbound)
  BY <1>2 DEF EndIs, FlowEnds, IsLess, OutboundIs, InboundIs
<1>4. FlowsAgree(side, left, after.ep)
  <2>1. \A j \in DOMAIN fc.registry : j \in Ids
    BY DEF EndIs, FlowControlIs
  <2>2. DOMAIN after.ep.flows = {KeyOf(side, j) : j \in DOMAIN left.registry}
    BY <1>2, <2>1, KeysDiffer DEF EndIs, FlowsAgree, FlowEnds
  <2> QED
    BY <1>2, <2>2 DEF EndIs, FlowsAgree, FlowEnds
<1>5. StreamsAgree(side, fc, e.outbound, e.inbound) =>
        StreamsAgree(side, left, after.outbound, after.inbound)
  BY <1>2 DEF FlowEnds, IsLess, StreamsAgree, IsAssociated
<1>6. id \in DOMAIN fc.registry => T[id] = "None" /\ IsDecided(side, fc, id)
  BY DEF EndIs, TellingIs, FlowControlIs
<1>7. TellingIs(side, left, Tafter, adm)
  BY <1>2, <1>6 DEF EndIs, TellingIs, IsNoticed
<1>8. ReportIs(side, left, after.sender, Tafter)
  <2>1. CASE after.sender = NoSend
    BY <2>1, FramesAre DEF ReportIs
  <2>2. CASE id \in DOMAIN e.fc.registry /\ Tafter = T /\ after.sender # NoSend
    <3>1. PICK cause \in Causes :
            after.sender = [frame |-> FlowTerminate(id, cause), cause |-> cause]
      BY <2>2 DEF IsNoticed
    <3>2. after.sender.frame = FlowTerminate(id, cause) /\ after.sender.cause = cause
          /\ after.sender.frame.id = id
      BY <3>1 DEF FlowTerminate
    <3> QED
      BY <2>2, <3>1, <3>2, <1>2, <1>6, FramesAre DEF ReportIs
  <2> QED
    BY <2>1, <2>2 DEF IsNoticed
<1>9. EndsAreTold(side, fc, NoSend, T, adm) =>
        EndsAreTold(side, left, after.sender, Tafter, adm)
  <2> SUFFICES ASSUME EndsAreTold(side, fc, NoSend, T, adm), NEW j \in Ids,
                      HasEnded(side, left, adm, j)
               PROVE  Tafter[j] # "None" \/ (after.sender.cause # "None"
                                             /\ after.sender.frame.id = j)
    BY DEF EndsAreTold
  <2>1. CASE j # id \/ id \notin DOMAIN fc.registry
    <3>1. HasEnded(side, fc, adm, j)
      BY <2>1, <1>2 DEF HasEnded
    <3>2. T[j] # "None"
      BY <3>1, FramesAre DEF EndsAreTold
    <3> QED
      BY <2>1, <3>2 DEF IsNoticed, EndIs, TellingIs
  <2>2. CASE j = id /\ id \in DOMAIN fc.registry
    <3>1. CASE \E cause \in Causes : Tafter = [T EXCEPT ![id] = cause]
      BY <2>2, <3>1, FramesAre DEF EndIs, TellingIs
    <3>2. CASE \E cause \in Causes :
                 after.sender = [frame |-> FlowTerminate(id, cause), cause |-> cause]
      <4>1. PICK cause \in Causes :
              after.sender = [frame |-> FlowTerminate(id, cause), cause |-> cause]
        BY <3>2
      <4>2. after.sender.cause = cause /\ after.sender.frame.id = id
        BY <4>1 DEF FlowTerminate
      <4> QED
        BY <4>1, <4>2, <2>2, FramesAre
    <3> QED
      BY <2>2, <3>1, <3>2 DEF IsNoticed
  <2> QED
    BY <2>1, <2>2
<1> QED
  BY <1>1, <1>2, <1>3, <1>4, <1>5, <1>7, <1>8, <1>9 DEF EndIs, FlowEnds
-----------------------------------------------------------------------------
(* A flow is decided about                                                 *)

\* The flows new are decided about, and none is registered.
Decides(side, fc, left, new) ==
  /\ FlowControlIs(side, left) /\ left.registry = fc.registry
  /\ \A j \in Ids : IsDecided(side, left, j) <=> IsDecided(side, fc, j) \/ j \in new
  /\ \A j \in new : j \in Ids /\ ~IsDecided(side, fc, j)

\* Only flow control, the slot and the phase change; an end that is over has no slot.
Turns(e, after) ==
  /\ after = [phase |-> after.phase, sender |-> after.sender, deferred |-> after.deferred,
              ended |-> after.ended, fc |-> after.fc, ep |-> e.ep,
              outbound |-> e.outbound, inbound |-> e.inbound]
  /\ after.phase \in Phases
  /\ IF after.phase = "Active" THEN after.deferred = e.deferred
     ELSE after.sender = NoSend /\ after.deferred = NoFrame

\* A flow of the peer is refused or put before the host, an own one is reported or told
\* of, or the end is over.
IsSettled(side, after, new, T, Tafter) ==
  \/ /\ \A j \in new : j.side # side
     /\ Tafter = T /\ \E frame \in Frames : after.sender = [frame |-> frame, cause |-> "None"]
  \/ /\ \E j \in Ids : new = {j} /\ Tafter = [T EXCEPT ![j] = "Rejected"]
     /\ after.sender = NoSend
  \/ /\ Tafter = T
     /\ \E j \in Ids, cause \in Causes :
          /\ new = {j}
          /\ after.sender = [frame |-> FlowTerminate(j, cause), cause |-> cause]
  \/ after.phase # "Active" /\ Tafter = T /\ after.sender = NoSend

\* An end that decides about flows is as it should be.
LEMMA Deciding ==
  ASSUME NEW side \in Sides, NEW e, NEW T, NEW adm, EndIs(side, e, T, adm),
         e.phase = "Active", e.sender = NoSend, NEW new,
         NEW after, Turns(e, after), Decides(side, e.fc, after.fc, new),
         NEW Tafter, IsSettled(side, after, new, T, Tafter)
  PROVE  EndIs(side, after, Tafter, adm)
<1> DEFINE fc == e.fc
           left == after.fc
<1>1. /\ after.ep = e.ep /\ after.outbound = e.outbound /\ after.inbound = e.inbound
      /\ after = [phase |-> after.phase, sender |-> after.sender, deferred |-> after.deferred,
                  ended |-> after.ended, fc |-> after.fc, ep |-> after.ep,
                  outbound |-> after.outbound, inbound |-> after.inbound]
  BY DEF Turns
<1>2. /\ FlowControlIs(side, left) /\ left.registry = fc.registry
      /\ \A j \in Ids : IsDecided(side, fc, j) => IsDecided(side, left, j)
      /\ \A j \in Ids : IsDecided(side, left, j) => IsDecided(side, fc, j) \/ j \in new
      /\ \A j \in new : j \in Ids /\ ~IsDecided(side, fc, j) /\ IsDecided(side, left, j)
  BY DEF Decides
<1>3. OutboundIs(side, left, e.outbound) /\ InboundIs(side, left, e.inbound)
  BY <1>2 DEF EndIs, OutboundIs, InboundIs
<1>4. FlowsAgree(side, left, e.ep) /\ (StreamsAgree(side, fc, e.outbound, e.inbound)
        => StreamsAgree(side, left, e.outbound, e.inbound))
  BY <1>2 DEF EndIs, FlowsAgree, StreamsAgree, IsAssociated
<1>5. /\ T \in [Ids -> {"None", "Rejected"} \cup Causes]
      /\ \A j \in Ids : T[j] # "None" => IsDecided(side, fc, j) /\ j \notin DOMAIN fc.registry
      /\ \A j \in Ids : j.side # side /\ adm[j] => IsDecided(side, fc, j)
      /\ \A j \in DOMAIN fc.registry : j \in Ids /\ IsDecided(side, fc, j)
      /\ \A j \in DOMAIN fc.registry : j.side # side => adm[j]
  BY DEF EndIs, TellingIs, FlowControlIs
<1>6. \A j \in new : T[j] = "None" /\ j \notin DOMAIN fc.registry
  BY <1>2, <1>5
<1>7. \/ Tafter = T
      \/ \E j \in Ids : j \in new /\ Tafter = [T EXCEPT ![j] = "Rejected"]
  BY DEF IsSettled
<1>8. TellingIs(side, left, Tafter, adm)
  BY <1>2, <1>5, <1>6, <1>7 DEF TellingIs
<1>9. ReportIs(side, left, after.sender, Tafter)
  <2>1. CASE after.sender = NoSend
    BY <2>1, FramesAre DEF ReportIs
  <2>2. CASE \E frame \in Frames : after.sender = [frame |-> frame, cause |-> "None"]
    BY <2>2 DEF ReportIs
  <2>3. CASE /\ Tafter = T
             /\ \E j \in Ids, cause \in Causes :
                  /\ new = {j}
                  /\ after.sender = [frame |-> FlowTerminate(j, cause), cause |-> cause]
    <3>1. PICK j \in Ids, cause \in Causes :
            /\ new = {j}
            /\ after.sender = [frame |-> FlowTerminate(j, cause), cause |-> cause]
      BY <2>3
    <3>2. after.sender.frame = FlowTerminate(j, cause) /\ after.sender.cause = cause
          /\ after.sender.frame.id = j
      BY <3>1 DEF FlowTerminate
    <3> QED
      BY <2>3, <3>1, <3>2, <1>2, <1>6, FramesAre DEF ReportIs
  <2> QED
    BY <2>1, <2>2, <2>3 DEF IsSettled
<1>10. after.phase = "Active" => EndsAreTold(side, left, after.sender, Tafter, adm)
  <2> SUFFICES ASSUME after.phase = "Active", NEW j \in Ids, HasEnded(side, left, adm, j)
               PROVE  Tafter[j] # "None" \/ (after.sender.cause # "None"
                                             /\ after.sender.frame.id = j)
    BY DEF EndsAreTold
  <2>1. CASE j \notin new
    <3>1. HasEnded(side, fc, adm, j)
      BY <2>1, <1>2 DEF HasEnded
    <3>2. T[j] # "None"
      BY <3>1, FramesAre DEF EndsAreTold, EndIs
    <3> QED
      BY <2>1, <3>2, <1>5, <1>7
  <2>2. CASE j \in new
    <3>1. j.side = side
      BY <2>2, <1>2, <1>5 DEF HasEnded
    <3>2. CASE \E i \in Ids : new = {i} /\ Tafter = [T EXCEPT ![i] = "Rejected"]
      BY <2>2, <3>2, <1>5
    <3>3. CASE \E i \in Ids, cause \in Causes :
                  /\ new = {i}
                  /\ after.sender = [frame |-> FlowTerminate(i, cause), cause |-> cause]
      <4>1. PICK cause \in Causes :
                after.sender = [frame |-> FlowTerminate(j, cause), cause |-> cause]
        BY <2>2, <3>3
      <4>2. after.sender.cause = cause /\ after.sender.frame.id = j
        BY <4>1 DEF FlowTerminate
      <4> QED
        BY <4>1, <4>2, FramesAre
    <3> QED
      BY <2>2, <3>1, <3>2, <3>3 DEF IsSettled
  <2> QED
    BY <2>1, <2>2
<1>11. /\ after.phase \in Phases /\ after.deferred \in Frames
       /\ after.phase # "Active" => after.sender = NoSend /\ after.deferred = NoFrame
  BY FramesAre DEF Turns, EndIs
<1> QED
  BY <1>1, <1>2, <1>3, <1>4, <1>8, <1>9, <1>10, <1>11 DEF EndIs
-----------------------------------------------------------------------------
(* A flow begins                                                           *)

\* A flow that is decided about is registered.
LEMMA RegisterKeeps ==
  ASSUME NEW side \in Sides, NEW fc, FlowControlIs(side, fc), NEW id \in Ids,
         IsDecided(side, fc, id), NEW mode \in Mode, NEW left, left = Register(fc, id, mode)
  PROVE  /\ FlowControlIs(side, left)
         /\ DOMAIN left.registry = DOMAIN fc.registry \cup {id}
         /\ left.registry[id] = [mode |-> mode, associated |-> FALSE]
         /\ \A j \in DOMAIN fc.registry \ {id} : left.registry[j] = fc.registry[j]
         /\ \A j : IsDecided(side, left, j) <=> IsDecided(side, fc, j)
<1>1. /\ left.local_flow_ids = fc.local_flow_ids /\ left.peer_flow_ids = fc.peer_flow_ids
      /\ left.pending_outbound = fc.pending_outbound
      /\ left.pending_inbound = fc.pending_inbound
      /\ left.registry = Put(fc.registry, id, [mode |-> mode, associated |-> FALSE])
      /\ left = [local_flow_ids |-> left.local_flow_ids, peer_flow_ids |-> left.peer_flow_ids,
                 pending_outbound |-> left.pending_outbound,
                 pending_inbound |-> left.pending_inbound, registry |-> left.registry]
  BY DEF FlowControlIs, Register
<1>2. /\ DOMAIN left.registry = DOMAIN fc.registry \cup {id}
      /\ left.registry[id] = [mode |-> mode, associated |-> FALSE]
      /\ \A j \in DOMAIN fc.registry \ {id} : left.registry[j] = fc.registry[j]
  BY <1>1 DEF Put
<1>3. \A j : /\ IsKnown(side, left, j) <=> IsKnown(side, fc, j)
             /\ IsUndecided(left, j) <=> IsUndecided(fc, j)
  BY <1>1 DEF IsKnown, IsUndecided
<1>4. [mode |-> mode, associated |-> FALSE] \in [mode : Mode, associated : BOOLEAN]
  OBVIOUS
<1>5. FlowControlIs(side, left)
  BY <1>1, <1>2, <1>3, <1>4 DEF FlowControlIs, IsDecided
<1> QED
  BY <1>1, <1>2, <1>3, <1>5 DEF IsDecided

\* The flow id is decided about, registered and established, its stream is to come.
FlowBegins(side, e, after, id, mode) ==
  /\ after = [phase |-> e.phase, sender |-> after.sender, deferred |-> e.deferred,
              ended |-> e.ended, fc |-> after.fc, ep |-> after.ep,
              outbound |-> after.outbound, inbound |-> e.inbound]
  /\ \E mid : Decides(side, e.fc, mid, {id}) /\ after.fc = Register(mid, id, mode)
  /\ EndpointInv(after.ep)
  /\ DOMAIN after.ep.flows = DOMAIN e.ep.flows \cup {KeyOf(side, id)}
  /\ after.ep.flows[KeyOf(side, id)] = NewFlow(mode, PolicyOf[side][mode])
  /\ \A k \in DOMAIN e.ep.flows \ {KeyOf(side, id)} : after.ep.flows[k] = e.ep.flows[k]
  /\ after.outbound = IF id.side = side /\ mode = Reliable
                      THEN Put(e.outbound, id, NewOutbound) ELSE e.outbound
  /\ \E frame \in Frames : after.sender = [frame |-> frame, cause |-> "None"]

\* The host has admitted the flow, if it was the peer that asked for it.
Admits(side, id, adm, more) ==
  /\ id.side # side => more[id]
  /\ \A j \in Ids \ {id} : more[j] = adm[j]

\* An end where a flow begins is as it should be.
LEMMA FlowBeginning ==
  ASSUME NEW side \in Sides, NEW e, NEW T, NEW adm, EndIs(side, e, T, adm),
         e.phase = "Active", e.sender = NoSend, NEW id \in Ids, NEW mode \in Mode,
         NEW after, FlowBegins(side, e, after, id, mode), NEW more, Admits(side, id, adm, more)
  PROVE  EndIs(side, after, T, more)
<1> DEFINE fc == e.fc
           left == after.fc
<1>1. /\ after.phase = e.phase /\ after.deferred = e.deferred /\ after.ended = e.ended
      /\ after.inbound = e.inbound
      /\ after = [phase |-> after.phase, sender |-> after.sender, deferred |-> after.deferred,
                  ended |-> after.ended, fc |-> after.fc, ep |-> after.ep,
                  outbound |-> after.outbound, inbound |-> after.inbound]
  BY DEF FlowBegins
<1>2. PICK mid : Decides(side, fc, mid, {id}) /\ left = Register(mid, id, mode)
  BY DEF FlowBegins
<1>3. IsDecided(side, mid, id) /\ FlowControlIs(side, mid) /\ ~IsDecided(side, fc, id)
  BY <1>2 DEF Decides
<1>4. /\ FlowControlIs(side, left)
      /\ DOMAIN left.registry = DOMAIN mid.registry \cup {id}
      /\ left.registry[id] = [mode |-> mode, associated |-> FALSE]
      /\ \A j \in DOMAIN mid.registry \ {id} : left.registry[j] = mid.registry[j]
      /\ \A j : IsDecided(side, left, j) <=> IsDecided(side, mid, j)
  BY <1>2, <1>3, RegisterKeeps
<1>5. /\ DOMAIN left.registry = DOMAIN fc.registry \cup {id}
      /\ left.registry[id].mode = mode /\ left.registry[id].associated = FALSE
      /\ \A j \in DOMAIN fc.registry \ {id} : left.registry[j] = fc.registry[j]
      /\ \A j \in Ids : IsDecided(side, left, j) <=> IsDecided(side, fc, j) \/ j = id
  BY <1>2, <1>4 DEF Decides
<1>6. /\ \A j \in DOMAIN fc.registry : j \in Ids /\ IsDecided(side, fc, j) /\ j # id
      /\ id \notin DOMAIN e.outbound
      /\ id \in DOMAIN e.inbound => e.inbound[id].associated = FALSE
      /\ T[id] = "None"
  BY <1>3 DEF EndIs, FlowControlIs, OutboundIs, InboundIs, InboundStates, TellingIs
<1>7. NewOutbound \in OutboundStates /\ NewOutbound.state = "Acquiring"
  BY DEF NewOutbound, OutboundStates
<1>8. OutboundIs(side, left, after.outbound)
  <2>1. CASE id.side = side /\ mode = Reliable
    <3>1. /\ DOMAIN after.outbound = DOMAIN e.outbound \cup {id}
          /\ after.outbound[id] = NewOutbound
          /\ \A j \in DOMAIN e.outbound : after.outbound[j] = e.outbound[j]
      BY <2>1, <1>6 DEF FlowBegins, Put
    <3> QED
      BY <2>1, <3>1, <1>5, <1>6, <1>7 DEF EndIs, OutboundIs
  <2>2. CASE ~(id.side = side /\ mode = Reliable)
    <3>1. after.outbound = e.outbound
      BY <2>2 DEF FlowBegins
    <3> QED
      BY <3>1, <1>5, <1>6 DEF EndIs, OutboundIs
  <2> QED
    BY <2>1, <2>2
<1>9. InboundIs(side, left, e.inbound)
  BY <1>5, <1>6 DEF EndIs, InboundIs
<1>10. FlowsAgree(side, left, after.ep)
  <2>1. DOMAIN after.ep.flows = {KeyOf(side, j) : j \in DOMAIN left.registry}
    BY <1>5 DEF EndIs, FlowsAgree, FlowBegins
  <2>2. \A j \in DOMAIN fc.registry : KeyOf(side, j) # KeyOf(side, id)
    BY <1>6, KeysDiffer
  <2>3. NewFlow(mode, PolicyOf[side][mode]).mode = mode
    BY DEF NewFlow
  <2> QED
    BY <2>1, <2>2, <2>3, <1>5, <1>6 DEF EndIs, FlowsAgree, FlowBegins
<1>11. StreamsAgree(side, left, after.outbound, e.inbound)
  <2> SUFFICES ASSUME NEW j \in DOMAIN left.registry, left.registry[j].mode = Reliable
               PROVE  IsAssociated(side, left, after.outbound, e.inbound, j)
    BY DEF StreamsAgree
  <2>1. CASE j = id
    <3>1. CASE id.side = side
      BY <2>1, <3>1, <1>5, <1>7 DEF FlowBegins, IsAssociated, Put
    <3>2. CASE id.side # side
      BY <2>1, <3>2, <1>5, <1>6 DEF IsAssociated
    <3> QED
      BY <3>1, <3>2
  <2>2. CASE j # id
    <3>1. j \in DOMAIN fc.registry /\ left.registry[j] = fc.registry[j]
      BY <2>2, <1>5
    <3>2. IsAssociated(side, fc, e.outbound, e.inbound, j)
      BY <3>1 DEF EndIs, StreamsAgree
    <3>3. j \in DOMAIN e.outbound =>
            j \in DOMAIN after.outbound /\ after.outbound[j] = e.outbound[j]
      BY <2>2 DEF FlowBegins, Put
    <3> QED
      BY <3>1, <3>2, <3>3 DEF IsAssociated
  <2> QED
    BY <2>1, <2>2
<1>12. TellingIs(side, left, T, more)
  BY <1>5, <1>6 DEF EndIs, TellingIs, Admits
<1>13. ReportIs(side, left, after.sender, T)
  BY DEF FlowBegins, ReportIs
<1>14. EndsAreTold(side, left, after.sender, T, more)
  <2> SUFFICES ASSUME NEW j \in Ids, HasEnded(side, left, more, j) PROVE T[j] # "None"
    BY DEF EndsAreTold
  <2>1. j # id /\ HasEnded(side, fc, adm, j)
    BY <1>5 DEF HasEnded, Admits
  <2> QED
    BY <2>1, FramesAre DEF EndIs, EndsAreTold
<1> QED
  BY <1>1, <1>4, <1>8, <1>9, <1>10, <1>11, <1>12, <1>13, <1>14 DEF EndIs, FlowBegins
-----------------------------------------------------------------------------
(* The slots, and the end of a connection                                  *)

\* A frame is held back, or taken up again.
LEMMA Deferring ==
  ASSUME NEW side \in Sides, NEW e, NEW T, NEW adm, EndIs(side, e, T, adm),
         e.phase = "Active", NEW frame \in Frames, NEW after,
         after = [e EXCEPT !.deferred = frame]
  PROVE  EndIs(side, after, T, adm)
<1>1. /\ after.phase = e.phase /\ after.sender = e.sender /\ after.deferred = frame
      /\ after.fc = e.fc /\ after.ep = e.ep /\ after.outbound = e.outbound
      /\ after.inbound = e.inbound
      /\ after = [phase |-> after.phase, sender |-> after.sender, deferred |-> after.deferred,
                  ended |-> after.ended, fc |-> after.fc, ep |-> after.ep,
                  outbound |-> after.outbound, inbound |-> after.inbound]
  BY DEF EndIs
<1> QED
  BY <1>1 DEF EndIs

\* The host is told what was to be reported.
IsToldOf(sender, T, Tafter) ==
  Tafter = IF sender.cause = "None" THEN T
           ELSE [T EXCEPT ![sender.frame.id] = sender.cause]

\* What the host is told then is of a flow that is over and was not told of.
LEMMA Telling ==
  ASSUME NEW side \in Sides, NEW e, NEW T, NEW adm, EndIs(side, e, T, adm),
         NEW Tafter, IsToldOf(e.sender, T, Tafter)
  PROVE  /\ TellingIs(side, e.fc, Tafter, adm)
         /\ EndsAreTold(side, e.fc, e.sender, T, adm) =>
              EndsAreTold(side, e.fc, NoSend, Tafter, adm)
<1>1. CASE e.sender.cause = "None"
  BY <1>1 DEF IsToldOf, EndIs, EndsAreTold
<1>2. CASE e.sender.cause # "None"
  <2> DEFINE id == e.sender.frame.id
             cause == e.sender.cause
  <2>1. /\ id \in Ids /\ cause \in Causes
        /\ IsDecided(side, e.fc, id) /\ id \notin DOMAIN e.fc.registry
    BY <1>2 DEF EndIs, ReportIs
  <2>2. Tafter = [T EXCEPT ![id] = cause] /\ T \in [Ids -> {"None", "Rejected"} \cup Causes]
    BY <1>2 DEF IsToldOf, EndIs, TellingIs
  <2> HIDE DEF id, cause
  <2>3. Tafter[id] = cause /\ \A j \in Ids \ {id} : Tafter[j] = T[j]
    BY <2>1, <2>2
  <2>4. TellingIs(side, e.fc, Tafter, adm)
    BY <2>1, <2>2, <2>3 DEF EndIs, TellingIs
  <2>5. EndsAreTold(side, e.fc, e.sender, T, adm) =>
          EndsAreTold(side, e.fc, NoSend, Tafter, adm)
    BY <2>1, <2>3, FramesAre DEF EndsAreTold, id
  <2> QED
    BY <2>4, <2>5
<1> QED
  BY <1>1, <1>2

\* The frame has been written.
LEMMA Sending ==
  ASSUME NEW side \in Sides, NEW e, NEW T, NEW adm, EndIs(side, e, T, adm),
         NEW after, after = [e EXCEPT !.sender = NoSend],
         NEW Tafter, IsToldOf(e.sender, T, Tafter)
  PROVE  EndIs(side, after, Tafter, adm)
<1>1. /\ after.phase = e.phase /\ after.sender = NoSend /\ after.deferred = e.deferred
      /\ after.fc = e.fc /\ after.ep = e.ep /\ after.outbound = e.outbound
      /\ after.inbound = e.inbound
      /\ after = [phase |-> after.phase, sender |-> after.sender, deferred |-> after.deferred,
                  ended |-> after.ended, fc |-> after.fc, ep |-> after.ep,
                  outbound |-> after.outbound, inbound |-> after.inbound]
  BY DEF EndIs
<1>2. ReportIs(side, e.fc, NoSend, Tafter)
  BY FramesAre DEF ReportIs
<1> QED
  BY <1>1, <1>2, Telling DEF EndIs

\* The end is over. The binding of a stream that belongs to no flow may be gone, and
\* with the connection of a lost peer everything waits for the teardown.
Stops(e, after) ==
  /\ after = [phase |-> after.phase, sender |-> NoSend, deferred |-> NoFrame,
              ended |-> after.ended, fc |-> e.fc, ep |-> e.ep,
              outbound |-> e.outbound, inbound |-> after.inbound]
  /\ \/ after.phase \in {"PeerClosed", "Failed"} /\ after.inbound = e.inbound
     \/ after.phase = "Failed" /\ \E id : after.inbound = Drop(e.inbound, {id})

\* An end that is over is as it should be, and told or not of what it would report.
LEMMA Stopping ==
  ASSUME NEW side \in Sides, NEW e, NEW T, NEW adm, EndIs(side, e, T, adm),
         e.phase = "Active", NEW after, Stops(e, after),
         NEW Tafter, Tafter = T \/ IsToldOf(e.sender, T, Tafter)
  PROVE  EndIs(side, after, Tafter, adm)
<1>1. /\ after.sender = NoSend /\ after.deferred = NoFrame
      /\ after.fc = e.fc /\ after.ep = e.ep /\ after.outbound = e.outbound
      /\ after = [phase |-> after.phase, sender |-> after.sender, deferred |-> after.deferred,
                  ended |-> after.ended, fc |-> after.fc, ep |-> after.ep,
                  outbound |-> after.outbound, inbound |-> after.inbound]
      /\ after.phase \in {"PeerClosed", "Failed"}
      /\ after.phase = "PeerClosed" => after.inbound = e.inbound
  BY DEF Stops
<1>2. InboundIs(side, e.fc, after.inbound)
  <2>1. /\ DOMAIN after.inbound \subseteq DOMAIN e.inbound
        /\ \A id \in DOMAIN after.inbound : after.inbound[id] = e.inbound[id]
    BY DEF Stops, Drop, Restrict
  <2> QED
    BY <2>1 DEF EndIs, InboundIs
<1>3. ReportIs(side, e.fc, NoSend, Tafter) /\ NoFrame \in Frames
  BY FramesAre DEF ReportIs
<1>4. TellingIs(side, e.fc, Tafter, adm)
  BY Telling DEF EndIs
<1> QED
  BY <1>1, <1>2, <1>3, <1>4 DEF EndIs, Phases
-----------------------------------------------------------------------------
(* Streams are bound to flows                                              *)

\* Bindings and their association change, and the flows stay.
Rebinds(side, e, after) ==
  /\ after = [phase |-> e.phase, sender |-> e.sender, deferred |-> e.deferred,
              ended |-> e.ended, fc |-> after.fc, ep |-> e.ep,
              outbound |-> after.outbound, inbound |-> after.inbound]
  /\ FlowControlIs(side, after.fc)
  /\ DOMAIN after.fc.registry = DOMAIN e.fc.registry
  /\ \A j \in DOMAIN e.fc.registry : after.fc.registry[j].mode = e.fc.registry[j].mode
  /\ \A j : IsDecided(side, after.fc, j) <=> IsDecided(side, e.fc, j)
  /\ OutboundIs(side, after.fc, after.outbound) /\ InboundIs(side, after.fc, after.inbound)
  /\ StreamsAgree(side, after.fc, after.outbound, after.inbound)

\* An end that does that is as it should be.
LEMMA Rebinding ==
  ASSUME NEW side \in Sides, NEW e, NEW T, NEW adm, EndIs(side, e, T, adm),
         NEW after, Rebinds(side, e, after)
  PROVE  EndIs(side, after, T, adm)
<1>1. /\ after.phase = e.phase /\ after.sender = e.sender /\ after.deferred = e.deferred
      /\ after.ep = e.ep
      /\ after = [phase |-> after.phase, sender |-> after.sender, deferred |-> after.deferred,
                  ended |-> after.ended, fc |-> after.fc, ep |-> after.ep,
                  outbound |-> after.outbound, inbound |-> after.inbound]
  BY DEF Rebinds
<1>2. FlowsAgree(side, after.fc, e.ep)
  BY DEF EndIs, Rebinds, FlowsAgree
<1>3. TellingIs(side, after.fc, T, adm)
  BY DEF EndIs, Rebinds, TellingIs
<1>4. ReportIs(side, after.fc, e.sender, T)
  BY DEF EndIs, Rebinds, ReportIs
<1>5. EndsAreTold(side, e.fc, e.sender, T, adm) => EndsAreTold(side, after.fc, e.sender, T, adm)
  BY DEF EndIs, Rebinds, EndsAreTold, HasEnded
<1> QED
  BY <1>1, <1>2, <1>3, <1>4, <1>5 DEF EndIs, Rebinds

\* A stream is associated with its flow.
LEMMA AssociateKeepsFlows ==
  ASSUME NEW side \in Sides, NEW fc, FlowControlIs(side, fc), NEW id,
         CanAssociateStream(fc, id), NEW left, left = AssociateStream(fc, id)
  PROVE  /\ FlowControlIs(side, left) /\ DOMAIN left.registry = DOMAIN fc.registry
         /\ id \in Ids /\ fc.registry[id].mode = Reliable
         /\ left.registry[id].mode = Reliable /\ left.registry[id].associated = TRUE
         /\ \A j \in DOMAIN fc.registry \ {id} : left.registry[j] = fc.registry[j]
         /\ \A j : IsDecided(side, left, j) <=> IsDecided(side, fc, j)
<1>1. /\ left.local_flow_ids = fc.local_flow_ids /\ left.peer_flow_ids = fc.peer_flow_ids
      /\ left.pending_outbound = fc.pending_outbound
      /\ left.pending_inbound = fc.pending_inbound
      /\ left.registry = [fc.registry EXCEPT ![id].associated = TRUE]
      /\ left = [local_flow_ids |-> left.local_flow_ids, peer_flow_ids |-> left.peer_flow_ids,
                 pending_outbound |-> left.pending_outbound,
                 pending_inbound |-> left.pending_inbound, registry |-> left.registry]
  BY DEF FlowControlIs, AssociateStream
<1>2. /\ id \in DOMAIN fc.registry /\ fc.registry[id].mode = Reliable /\ id \in Ids
      /\ fc.registry[id] \in [mode : Mode, associated : BOOLEAN]
  BY DEF CanAssociateStream, FlowControlIs
<1>3. /\ DOMAIN left.registry = DOMAIN fc.registry
      /\ left.registry[id] = [mode |-> Reliable, associated |-> TRUE]
      /\ \A j \in DOMAIN fc.registry \ {id} : left.registry[j] = fc.registry[j]
  BY <1>1, <1>2
<1>4. \A j : /\ IsKnown(side, left, j) <=> IsKnown(side, fc, j)
             /\ IsUndecided(left, j) <=> IsUndecided(fc, j)
  BY <1>1 DEF IsKnown, IsUndecided
<1>5. FlowControlIs(side, left)
  <2>1. \A j \in DOMAIN left.registry :
          /\ j \in Ids /\ IsDecided(side, left, j)
          /\ left.registry[j] \in [mode : Mode, associated : BOOLEAN]
    <3>1. [mode |-> Reliable, associated |-> TRUE] \in [mode : Mode, associated : BOOLEAN]
      BY DEF Mode
    <3> QED
      BY <3>1, <1>3, <1>4 DEF FlowControlIs, IsDecided
  <2> QED
    BY <2>1, <1>1, <1>4 DEF FlowControlIs
<1> QED
  BY <1>1, <1>2, <1>3, <1>4, <1>5 DEF IsDecided

\* The opener has a stream for the flow.
LEMMA BindingOutbound ==
  ASSUME NEW side \in Sides, NEW e, NEW T, NEW adm, EndIs(side, e, T, adm),
         e.phase = "Active", NEW id \in DOMAIN e.outbound, CanAssociateStream(e.fc, id),
         NEW after, after = [e EXCEPT !.fc = AssociateStream(@, id), !.outbound[id] = Bound(@)]
  PROVE  Rebinds(side, e, after)
<1>1. /\ after = [phase |-> e.phase, sender |-> e.sender, deferred |-> e.deferred,
                  ended |-> e.ended, fc |-> after.fc, ep |-> e.ep,
                  outbound |-> after.outbound, inbound |-> after.inbound]
      /\ after.fc = AssociateStream(e.fc, id) /\ after.inbound = e.inbound
      /\ after.outbound = [e.outbound EXCEPT ![id] = Bound(@)]
  BY DEF EndIs
<1>2. /\ FlowControlIs(side, after.fc) /\ DOMAIN after.fc.registry = DOMAIN e.fc.registry
      /\ id \in Ids /\ e.fc.registry[id].mode = Reliable
      /\ after.fc.registry[id].mode = Reliable /\ after.fc.registry[id].associated = TRUE
      /\ \A j \in DOMAIN e.fc.registry \ {id} : after.fc.registry[j] = e.fc.registry[j]
      /\ \A j : IsDecided(side, after.fc, j) <=> IsDecided(side, e.fc, j)
  BY <1>1, AssociateKeepsFlows DEF EndIs
<1>3. /\ DOMAIN after.outbound = DOMAIN e.outbound /\ id.side = side
      /\ after.outbound[id] \in OutboundStates /\ after.outbound[id].state = "Writing"
      /\ \A j \in DOMAIN e.outbound \ {id} : after.outbound[j] = e.outbound[j]
  BY <1>1 DEF EndIs, OutboundIs, OutboundStates, Bound
<1>4. OutboundIs(side, after.fc, after.outbound)
  BY <1>2, <1>3 DEF EndIs, OutboundIs
<1>5. InboundIs(side, after.fc, after.inbound)
  BY <1>1, <1>2 DEF EndIs, InboundIs
<1>6. StreamsAgree(side, after.fc, after.outbound, after.inbound)
  <2> SUFFICES ASSUME NEW j \in DOMAIN after.fc.registry,
                      after.fc.registry[j].mode = Reliable
               PROVE  IsAssociated(side, after.fc, after.outbound, after.inbound, j)
    BY DEF StreamsAgree
  <2>1. j \in DOMAIN e.fc.registry /\ e.fc.registry[j].mode = Reliable
    BY <1>1, <1>2
  <2>2. IsAssociated(side, e.fc, e.outbound, e.inbound, j)
    BY <2>1 DEF EndIs, StreamsAgree
  <2>3. CASE j = id
    BY <2>1, <2>2, <2>3, <1>1, <1>2, <1>3 DEF IsAssociated
  <2>4. CASE j # id
    BY <2>1, <2>2, <2>4, <1>1, <1>2, <1>3 DEF IsAssociated
  <2> QED
    BY <2>3, <2>4
<1> QED
  BY <1>1, <1>2, <1>4, <1>5, <1>6 DEF Rebinds

\* The acceptor knows the flow of a stream.
LEMMA BindingInbound ==
  ASSUME NEW side \in Sides, NEW e, NEW T, NEW adm, EndIs(side, e, T, adm),
         e.phase = "Active", NEW id \in DOMAIN e.inbound, CanAssociateStream(e.fc, id),
         NEW after,
         after = [e EXCEPT !.fc = AssociateStream(@, id), !.inbound[id] = Associated(@)]
  PROVE  Rebinds(side, e, after)
<1>1. /\ after = [phase |-> e.phase, sender |-> e.sender, deferred |-> e.deferred,
                  ended |-> e.ended, fc |-> after.fc, ep |-> e.ep,
                  outbound |-> after.outbound, inbound |-> after.inbound]
      /\ after.fc = AssociateStream(e.fc, id) /\ after.outbound = e.outbound
      /\ after.inbound = [e.inbound EXCEPT ![id] = Associated(@)]
  BY DEF EndIs
<1>2. /\ FlowControlIs(side, after.fc) /\ DOMAIN after.fc.registry = DOMAIN e.fc.registry
      /\ id \in Ids /\ e.fc.registry[id].mode = Reliable
      /\ after.fc.registry[id].mode = Reliable /\ after.fc.registry[id].associated = TRUE
      /\ \A j \in DOMAIN e.fc.registry \ {id} : after.fc.registry[j] = e.fc.registry[j]
      /\ \A j : IsDecided(side, after.fc, j) <=> IsDecided(side, e.fc, j)
  BY <1>1, AssociateKeepsFlows DEF EndIs
<1>3. /\ DOMAIN after.inbound = DOMAIN e.inbound /\ id.side # side
      /\ after.inbound[id] \in InboundStates /\ after.inbound[id].associated = TRUE
      /\ \A j \in DOMAIN e.inbound \ {id} : after.inbound[j] = e.inbound[j]
  <2>1. e.inbound[id] \in InboundStates /\ id.side # side
    BY DEF EndIs, InboundIs
  <2>2. Associated(e.inbound[id]) \in InboundStates /\ Associated(e.inbound[id]).associated
    BY <2>1 DEF InboundStates, Associated
  <2> QED
    BY <2>1, <2>2, <1>1
<1>4. OutboundIs(side, after.fc, after.outbound)
  BY <1>1, <1>2 DEF EndIs, OutboundIs
<1>5. IsDecided(side, e.fc, id)
  BY DEF EndIs, FlowControlIs, CanAssociateStream
<1>6. InboundIs(side, after.fc, after.inbound)
  BY <1>1, <1>2, <1>3, <1>5 DEF EndIs, InboundIs
<1>7. StreamsAgree(side, after.fc, after.outbound, after.inbound)
  <2> SUFFICES ASSUME NEW j \in DOMAIN after.fc.registry,
                      after.fc.registry[j].mode = Reliable
               PROVE  IsAssociated(side, after.fc, after.outbound, after.inbound, j)
    BY DEF StreamsAgree
  <2>1. j \in DOMAIN e.fc.registry /\ e.fc.registry[j].mode = Reliable
    BY <1>1, <1>2
  <2>2. IsAssociated(side, e.fc, e.outbound, e.inbound, j)
    BY <2>1 DEF EndIs, StreamsAgree
  <2>3. CASE j = id
    BY <2>1, <2>2, <2>3, <1>1, <1>2, <1>3 DEF IsAssociated
  <2>4. CASE j # id
    BY <2>1, <2>2, <2>4, <1>1, <1>2, <1>3 DEF IsAssociated
  <2> QED
    BY <2>3, <2>4
<1> QED
  BY <1>1, <1>2, <1>4, <1>6, <1>7 DEF Rebinds

\* A stream is not wanted any more, as its flow has ended.
LEMMA Cancelling ==
  ASSUME NEW side \in Sides, NEW e, NEW T, NEW adm, EndIs(side, e, T, adm),
         e.phase = "Active", NEW id \in DOMAIN e.outbound,
         e.outbound[id].state = "Acquiring", ~CanAssociateStream(e.fc, id),
         NEW after, after = [e EXCEPT !.outbound = Drop(@, {id})]
  PROVE  Rebinds(side, e, after)
<1>1. /\ after = [phase |-> e.phase, sender |-> e.sender, deferred |-> e.deferred,
                  ended |-> e.ended, fc |-> after.fc, ep |-> e.ep,
                  outbound |-> after.outbound, inbound |-> after.inbound]
      /\ after.fc = e.fc /\ after.inbound = e.inbound /\ after.outbound = Drop(e.outbound, {id})
  BY DEF EndIs
<1>2. id \notin DOMAIN e.fc.registry
  <2> SUFFICES ASSUME id \in DOMAIN e.fc.registry PROVE FALSE
    OBVIOUS
  <2>1. e.fc.registry[id].mode = Reliable /\ id.side = side
    BY DEF EndIs, OutboundIs
  <2>2. e.fc.registry[id].associated = FALSE
    BY <2>1 DEF EndIs, StreamsAgree, IsAssociated
  <2> QED
    BY <2>1, <2>2 DEF CanAssociateStream
<1>3. /\ DOMAIN after.outbound = DOMAIN e.outbound \ {id}
      /\ \A j \in DOMAIN after.outbound : after.outbound[j] = e.outbound[j]
  BY <1>1 DEF Drop, Restrict
<1>4. OutboundIs(side, after.fc, after.outbound)
  BY <1>1, <1>3 DEF EndIs, OutboundIs
<1>5. StreamsAgree(side, after.fc, after.outbound, after.inbound)
  <2> SUFFICES ASSUME NEW j \in DOMAIN after.fc.registry,
                      after.fc.registry[j].mode = Reliable
               PROVE  IsAssociated(side, after.fc, after.outbound, after.inbound, j)
    BY DEF StreamsAgree
  <2>1. j \in DOMAIN e.fc.registry /\ e.fc.registry[j].mode = Reliable
    BY <1>1, <1>2
  <2>2. IsAssociated(side, e.fc, e.outbound, e.inbound, j)
    BY <2>1 DEF EndIs, StreamsAgree
  <2>3. CASE j = id
    BY <2>1, <2>2, <2>3, <1>1, <1>2, <1>3 DEF IsAssociated
  <2>4. CASE j # id
    BY <2>1, <2>2, <2>4, <1>1, <1>2, <1>3 DEF IsAssociated
  <2> QED
    BY <2>3, <2>4
<1> QED
  BY <1>1, <1>4, <1>5 DEF Rebinds, EndIs

\* The acceptor takes a stream, whose flow it does not know yet.
LEMMA AcquiringInbound ==
  ASSUME NEW side \in Sides, NEW e, NEW T, NEW adm, EndIs(side, e, T, adm),
         e.phase = "Active", NEW id \in Ids, id.side # side, id \notin DOMAIN e.inbound,
         NEW after, after = [e EXCEPT !.inbound = Put(@, id, NewInbound)]
  PROVE  Rebinds(side, e, after)
<1>1. /\ after = [phase |-> e.phase, sender |-> e.sender, deferred |-> e.deferred,
                  ended |-> e.ended, fc |-> after.fc, ep |-> e.ep,
                  outbound |-> after.outbound, inbound |-> after.inbound]
      /\ after.fc = e.fc /\ after.outbound = e.outbound
      /\ after.inbound = Put(e.inbound, id, NewInbound)
  BY DEF EndIs
<1>2. /\ DOMAIN after.inbound = DOMAIN e.inbound \cup {id}
      /\ after.inbound[id] = NewInbound
      /\ \A j \in DOMAIN e.inbound : after.inbound[j] = e.inbound[j]
  BY <1>1 DEF Put
<1>3. NewInbound \in InboundStates /\ NewInbound.associated = FALSE
  BY DEF NewInbound, InboundStates
<1>4. InboundIs(side, after.fc, after.inbound)
  BY <1>1, <1>2, <1>3 DEF EndIs, InboundIs
<1>5. StreamsAgree(side, after.fc, after.outbound, after.inbound)
  <2> SUFFICES ASSUME NEW j \in DOMAIN after.fc.registry,
                      after.fc.registry[j].mode = Reliable
               PROVE  IsAssociated(side, after.fc, after.outbound, after.inbound, j)
    BY DEF StreamsAgree
  <2>1. j \in DOMAIN e.fc.registry /\ e.fc.registry[j].mode = Reliable
    BY <1>1, <1>2
  <2>2. IsAssociated(side, e.fc, e.outbound, e.inbound, j)
    BY <2>1 DEF EndIs, StreamsAgree
  <2>3. CASE j = id
    BY <2>1, <2>2, <2>3, <1>1, <1>2, <1>3 DEF IsAssociated
  <2>4. CASE j # id
    BY <2>1, <2>2, <2>4, <1>1, <1>2, <1>3 DEF IsAssociated
  <2> QED
    BY <2>3, <2>4
<1> QED
  BY <1>1, <1>4, <1>5 DEF Rebinds, EndIs
-----------------------------------------------------------------------------
(* What flow control decides                                               *)

\* The parts of what flow control is left as.
LEMMA FlowControlHas ==
  ASSUME NEW side \in Sides, NEW fc, FlowControlIs(side, fc)
  PROVE  /\ fc = [local_flow_ids |-> fc.local_flow_ids, peer_flow_ids |-> fc.peer_flow_ids,
                  pending_outbound |-> fc.pending_outbound,
                  pending_inbound |-> fc.pending_inbound, registry |-> fc.registry]
         /\ fc.local_flow_ids \in Nat /\ fc.peer_flow_ids \in Nat
         /\ \A id \in DOMAIN fc.pending_outbound : id \in Ids /\ id.side = side
         /\ fc.pending_inbound = NoRequest \/ fc.pending_inbound.id \in Ids
         /\ fc.pending_inbound # NoRequest => fc.pending_inbound.id.side # side
         /\ NoRequest.id = NoFlow
<1>1. NoRequest.id = NoFlow
  BY DEF NoRequest, OpenFlow
<1>2. fc.pending_inbound \in OpenFrames => fc.pending_inbound.id \in Ids
  BY DEF OpenFrames, OpenFlow
<1>3. Other(side) # side
  BY IdsHave
<1> QED
  BY <1>1, <1>2, <1>3 DEF FlowControlIs

\* The peer's next identifier is used up.
LEMMA Consuming ==
  ASSUME NEW side \in Sides, NEW fc, FlowControlIs(side, fc), fc.pending_inbound = NoRequest,
         NEW id \in Ids, id = FlowId(Other(side), fc.peer_flow_ids),
         NEW left, left = [fc EXCEPT !.peer_flow_ids = @ + 1]
  PROVE  Decides(side, fc, left, {id})
<1>1. /\ left.local_flow_ids = fc.local_flow_ids
      /\ left.peer_flow_ids = fc.peer_flow_ids + 1
      /\ left.pending_outbound = fc.pending_outbound
      /\ left.pending_inbound = fc.pending_inbound /\ left.registry = fc.registry
      /\ left = [local_flow_ids |-> left.local_flow_ids, peer_flow_ids |-> left.peer_flow_ids,
                 pending_outbound |-> left.pending_outbound,
                 pending_inbound |-> left.pending_inbound, registry |-> left.registry]
  BY FlowControlHas
<1>2. id.side = Other(side) /\ id.sequence = fc.peer_flow_ids /\ id.side # side
  BY IdsHave DEF FlowId
<1>3. \A j \in Ids : IsKnown(side, left, j) <=> IsKnown(side, fc, j) \/ j = id
  <2> SUFFICES ASSUME NEW j \in Ids
               PROVE  IsKnown(side, left, j) <=> IsKnown(side, fc, j) \/ j = id
    OBVIOUS
  <2>1. /\ j = FlowId(j.side, j.sequence) /\ j.sequence \in Nat
        /\ j.side # side => j.side = Other(side)
    BY IdsHave
  <2>2. CASE j.side = side
    BY <2>2, <1>1, <1>2 DEF IsKnown
  <2>3. CASE j.side = Other(side)
    <3>1. j.sequence = fc.peer_flow_ids <=> j = id
      BY <2>1, <2>3, <1>2
    <3> QED
      BY <2>1, <2>3, <3>1, <1>1, <1>2, FlowControlHas DEF IsKnown
  <2> QED
    BY <2>1, <2>2, <2>3
<1>4. \A j \in Ids : IsUndecided(left, j) <=> IsUndecided(fc, j)
  BY <1>1 DEF IsUndecided
<1>5. ~IsUndecided(fc, id) /\ ~IsKnown(side, fc, id)
  <2>1. id \notin DOMAIN fc.pending_outbound /\ fc.pending_inbound.id # id
    BY <1>2, FlowControlHas, IdsHave
  <2> QED
    BY <2>1, <1>2, FlowControlHas DEF IsUndecided, IsKnown
<1>6. FlowControlIs(side, left)
  <2>1. left.local_flow_ids \in Nat /\ left.peer_flow_ids \in Nat
    BY <1>1, FlowControlHas
  <2> QED
    BY <2>1, <1>1, <1>3, <1>4 DEF FlowControlIs, IsDecided
<1> QED
  BY <1>1, <1>3, <1>4, <1>5, <1>6 DEF Decides, IsDecided

\* The host is asked about a flow whose identifier is used up.
LEMMA Considering ==
  ASSUME NEW side \in Sides, NEW fc, FlowControlIs(side, fc), fc.pending_inbound = NoRequest,
         NEW frame \in OpenFrames, frame.id = FlowId(Other(side), fc.peer_flow_ids),
         NEW left, left = [fc EXCEPT !.peer_flow_ids = @ + 1, !.pending_inbound = frame]
  PROVE  Decides(side, fc, left, {})
<1> DEFINE id == frame.id
           mid == [fc EXCEPT !.peer_flow_ids = @ + 1]
<1>1. id \in Ids /\ id.side = Other(side) /\ id.side # side
  BY IdsHave DEF OpenFrames, OpenFlow, FlowId
<1>2. Decides(side, fc, mid, {id})
  BY <1>1, Consuming
<1>3. /\ FlowControlIs(side, mid) /\ mid.registry = fc.registry
      /\ \A j \in Ids : IsDecided(side, mid, j) <=> IsDecided(side, fc, j) \/ j = id
      /\ ~IsDecided(side, fc, id)
  BY <1>2 DEF Decides
<1>4. /\ left.local_flow_ids = mid.local_flow_ids /\ left.peer_flow_ids = mid.peer_flow_ids
      /\ left.pending_outbound = mid.pending_outbound
      /\ left.pending_inbound = frame /\ left.registry = mid.registry
      /\ mid.pending_inbound = NoRequest
      /\ left = [local_flow_ids |-> left.local_flow_ids, peer_flow_ids |-> left.peer_flow_ids,
                 pending_outbound |-> left.pending_outbound,
                 pending_inbound |-> left.pending_inbound, registry |-> left.registry]
  <2>1. fc = [local_flow_ids |-> fc.local_flow_ids, peer_flow_ids |-> fc.peer_flow_ids,
              pending_outbound |-> fc.pending_outbound,
              pending_inbound |-> fc.pending_inbound, registry |-> fc.registry]
    BY FlowControlHas
  <2> QED
    BY <2>1
<1> HIDE DEF mid
<1>5. /\ \A j \in Ids : IsKnown(side, left, j) <=> IsKnown(side, mid, j)
      /\ \A j \in Ids : IsUndecided(left, j) <=> IsUndecided(mid, j) \/ j = id
  BY <1>4, IdsHave, FlowControlHas DEF IsUndecided, IsKnown
<1>6. \A j \in Ids : IsDecided(side, left, j) <=> IsDecided(side, fc, j)
  BY <1>3, <1>5 DEF IsDecided
<1>7. \A j \in DOMAIN fc.registry : j \in Ids /\ IsDecided(side, fc, j)
  BY DEF FlowControlIs
<1>8. IsKnown(side, left, id)
  BY <1>1, <1>3, <1>5 DEF IsDecided
<1>9. FlowControlIs(side, left)
  <2>1. \A j \in DOMAIN left.pending_outbound :
          /\ j \in Ids /\ j.side = side /\ IsKnown(side, left, j)
          /\ left.pending_outbound[j] \in Mode /\ IsUsable(side, left.pending_outbound[j])
    BY <1>3, <1>4, <1>5 DEF FlowControlIs
  <2>2. \A j \in DOMAIN left.registry :
          /\ j \in Ids /\ IsDecided(side, left, j)
          /\ left.registry[j] \in [mode : Mode, associated : BOOLEAN]
    BY <1>3, <1>4, <1>6, <1>7 DEF FlowControlIs
  <2>3. left.local_flow_ids \in Nat /\ left.peer_flow_ids \in Nat
    BY <1>3, <1>4, FlowControlHas
  <2> QED
    BY <2>1, <2>2, <2>3, <1>1, <1>4, <1>8 DEF FlowControlIs
<1> QED
  BY <1>3, <1>4, <1>6, <1>9 DEF Decides

\* The peer has answered.
LEMMA Answering ==
  ASSUME NEW side \in Sides, NEW fc, FlowControlIs(side, fc),
         NEW id \in DOMAIN fc.pending_outbound,
         NEW left, left = [fc EXCEPT !.pending_outbound = Drop(@, {id})]
  PROVE  Decides(side, fc, left, {id})
<1>1. /\ left.local_flow_ids = fc.local_flow_ids /\ left.peer_flow_ids = fc.peer_flow_ids
      /\ left.pending_outbound = Drop(fc.pending_outbound, {id})
      /\ left.pending_inbound = fc.pending_inbound /\ left.registry = fc.registry
      /\ left = [local_flow_ids |-> left.local_flow_ids, peer_flow_ids |-> left.peer_flow_ids,
                 pending_outbound |-> left.pending_outbound,
                 pending_inbound |-> left.pending_inbound, registry |-> left.registry]
  BY FlowControlHas
<1>2. /\ DOMAIN left.pending_outbound = DOMAIN fc.pending_outbound \ {id}
      /\ \A j \in DOMAIN left.pending_outbound :
           left.pending_outbound[j] = fc.pending_outbound[j]
  BY <1>1 DEF Drop, Restrict
<1>3. id \in Ids /\ id.side = side /\ fc.pending_inbound.id # id /\ IsKnown(side, fc, id)
  BY FlowControlHas, IdsHave DEF FlowControlIs
<1>4. /\ \A j \in Ids : IsKnown(side, left, j) <=> IsKnown(side, fc, j)
      /\ \A j \in Ids : IsUndecided(left, j) <=> IsUndecided(fc, j) /\ j # id
  BY <1>1, <1>2, <1>3 DEF IsUndecided, IsKnown
<1>5. IsUndecided(fc, id)
  BY DEF IsUndecided
<1>6. FlowControlIs(side, left)
  BY <1>1, <1>2, <1>4, FlowControlHas DEF FlowControlIs, IsDecided
<1> QED
  BY <1>1, <1>3, <1>4, <1>5, <1>6 DEF Decides, IsDecided

\* The host has decided.
LEMMA Resolving ==
  ASSUME NEW side \in Sides, NEW fc, FlowControlIs(side, fc), fc.pending_inbound # NoRequest,
         NEW left, left = [fc EXCEPT !.pending_inbound = NoRequest]
  PROVE  Decides(side, fc, left, {fc.pending_inbound.id})
<1> DEFINE id == fc.pending_inbound.id
<1>1. /\ left.local_flow_ids = fc.local_flow_ids /\ left.peer_flow_ids = fc.peer_flow_ids
      /\ left.pending_outbound = fc.pending_outbound
      /\ left.pending_inbound = NoRequest /\ left.registry = fc.registry
      /\ left = [local_flow_ids |-> left.local_flow_ids, peer_flow_ids |-> left.peer_flow_ids,
                 pending_outbound |-> left.pending_outbound,
                 pending_inbound |-> left.pending_inbound, registry |-> left.registry]
  BY FlowControlHas
<1>2. id \in Ids /\ id.side # side /\ id \notin DOMAIN fc.pending_outbound
      /\ IsKnown(side, fc, id) /\ IsUndecided(fc, id) /\ NoRequest.id = NoFlow
  BY FlowControlHas DEF FlowControlIs, IsUndecided
<1>3. /\ \A j \in Ids : IsKnown(side, left, j) <=> IsKnown(side, fc, j)
      /\ \A j \in Ids : IsUndecided(left, j) <=> IsUndecided(fc, j) /\ j # id
  BY <1>1, <1>2, IdsHave DEF IsUndecided, IsKnown
<1>4. FlowControlIs(side, left)
  BY <1>1, <1>3, FlowControlHas DEF FlowControlIs, IsDecided
<1> QED
  BY <1>1, <1>2, <1>3, <1>4 DEF Decides, IsDecided

\* The host asks the peer for a flow.
LEMMA Asking ==
  ASSUME NEW side \in Sides, NEW fc, FlowControlIs(side, fc), NEW mode \in Mode,
         fc.local_flow_ids <= LastFlow, IsUsable(side, mode),
         NEW left, left = PrepareOutboundOpen(side, fc, mode).fc
  PROVE  LET id == FlowId(side, fc.local_flow_ids)
         IN /\ Decides(side, fc, left, {}) /\ id \in Ids /\ ~IsDecided(side, left, id)
            /\ id \notin DOMAIN fc.registry /\ ~IsKnown(side, fc, id)
            /\ left.pending_outbound = Put(fc.pending_outbound, id, mode)
            /\ left.local_flow_ids = fc.local_flow_ids + 1
            /\ left.peer_flow_ids = fc.peer_flow_ids
            /\ left.pending_inbound = fc.pending_inbound
<1> DEFINE id == FlowId(side, fc.local_flow_ids)
<1>1. /\ left.local_flow_ids = fc.local_flow_ids + 1 /\ left.peer_flow_ids = fc.peer_flow_ids
      /\ left.pending_outbound = Put(fc.pending_outbound, id, mode)
      /\ left.pending_inbound = fc.pending_inbound /\ left.registry = fc.registry
      /\ left = [local_flow_ids |-> left.local_flow_ids, peer_flow_ids |-> left.peer_flow_ids,
                 pending_outbound |-> left.pending_outbound,
                 pending_inbound |-> left.pending_inbound, registry |-> left.registry]
  <2>1. left = [fc EXCEPT !.local_flow_ids = @ + 1, !.pending_outbound = Put(@, id, mode)]
    BY DEF PrepareOutboundOpen
  <2>2. fc = [local_flow_ids |-> fc.local_flow_ids, peer_flow_ids |-> fc.peer_flow_ids,
              pending_outbound |-> fc.pending_outbound,
              pending_inbound |-> fc.pending_inbound, registry |-> fc.registry]
    BY FlowControlHas
  <2> HIDE DEF id
  <2> QED
    BY ONLY <2>1, <2>2
<1>2. id \in Ids /\ id.side = side /\ id.sequence = fc.local_flow_ids
  <2>1. fc.local_flow_ids \in 0 .. LastFlow
    BY FlowControlHas, FlowControlAssumption
  <2> QED
    BY <2>1, IdsHave DEF FlowId
<1>3. /\ DOMAIN left.pending_outbound = DOMAIN fc.pending_outbound \cup {id}
      /\ left.pending_outbound[id] = mode
      /\ \A j \in DOMAIN fc.pending_outbound \ {id} :
           left.pending_outbound[j] = fc.pending_outbound[j]
  BY <1>1 DEF Put
<1>4. \A j \in Ids : /\ IsKnown(side, fc, j) => IsKnown(side, left, j)
                     /\ IsKnown(side, left, j) => IsKnown(side, fc, j) \/ j = id
  <2> SUFFICES ASSUME NEW j \in Ids
               PROVE  /\ IsKnown(side, fc, j) => IsKnown(side, left, j)
                      /\ IsKnown(side, left, j) => IsKnown(side, fc, j) \/ j = id
    OBVIOUS
  <2>1. j = FlowId(j.side, j.sequence) /\ j.sequence \in Nat
    BY IdsHave
  <2>2. CASE j.side = side
    <3>1. j.sequence = fc.local_flow_ids => j = id
      BY <2>1, <2>2
    <3> QED
      BY <2>1, <2>2, <3>1, <1>1, FlowControlHas DEF IsKnown
  <2>3. CASE j.side # side
    BY <2>3, <1>1 DEF IsKnown
  <2> QED
    BY <2>2, <2>3
<1>5. ~IsKnown(side, fc, id) /\ IsKnown(side, left, id)
  BY <1>1, <1>2, FlowControlHas DEF IsKnown
<1>6. \A j \in Ids : IsUndecided(left, j) <=> IsUndecided(fc, j) \/ j = id
  BY <1>1, <1>3 DEF IsUndecided
<1>7. \A j \in Ids : IsDecided(side, left, j) <=> IsDecided(side, fc, j)
  BY <1>4, <1>5, <1>6 DEF IsDecided
<1>8. FlowControlIs(side, left)
  <2>1. \A j \in DOMAIN left.pending_outbound :
          /\ j \in Ids /\ j.side = side /\ IsKnown(side, left, j)
          /\ left.pending_outbound[j] \in Mode /\ IsUsable(side, left.pending_outbound[j])
    BY <1>2, <1>3, <1>4, <1>5 DEF FlowControlIs
  <2>2. left.local_flow_ids \in Nat /\ left.peer_flow_ids \in Nat
    BY <1>1, FlowControlHas
  <2>3. \/ left.pending_inbound = NoRequest
        \/ /\ left.pending_inbound \in OpenFrames
           /\ left.pending_inbound.id.side = Other(side)
           /\ IsKnown(side, left, left.pending_inbound.id)
    BY <1>1, <1>4, FlowControlHas DEF FlowControlIs
  <2> QED
    BY <2>1, <2>2, <2>3, <1>1, <1>7 DEF FlowControlIs
<1> QED
  BY <1>1, <1>2, <1>5, <1>6, <1>7, <1>8 DEF Decides, IsDecided, FlowControlIs
-----------------------------------------------------------------------------
(* What an end does about a frame, or the host about a flow                *)

\* Flows are decided about, one ends, or one begins; more is what is admitted then.
Effect(side, e, after, T, Tafter, adm, more) ==
  \/ /\ \E new : /\ Turns(e, after) /\ Decides(side, e.fc, after.fc, new)
                 /\ IsSettled(side, after, new, T, Tafter)
     /\ more = adm
  \/ /\ \E id \in Ids : FlowEnds(side, e, after, id) /\ IsNoticed(e, after, id, T, Tafter)
     /\ more = adm
  \/ /\ \E id \in Ids, mode \in Mode :
          FlowBegins(side, e, after, id, mode) /\ Admits(side, id, adm, more)
     /\ Tafter = T

\* None of that harms an end that is ready.
LEMMA EffectKeeps ==
  ASSUME NEW side \in Sides, NEW e, NEW T, NEW adm, EndIs(side, e, T, adm),
         e.phase = "Active", e.sender = NoSend, NEW after, NEW Tafter, NEW more,
         Effect(side, e, after, T, Tafter, adm, more)
  PROVE  EndIs(side, after, Tafter, more)
<1>1. CASE \E new : /\ Turns(e, after) /\ Decides(side, e.fc, after.fc, new)
                    /\ IsSettled(side, after, new, T, Tafter) /\ more = adm
  BY <1>1, Deciding
<1>2. CASE \E id \in Ids : /\ FlowEnds(side, e, after, id)
                           /\ IsNoticed(e, after, id, T, Tafter) /\ more = adm
  BY <1>2, FlowEnding
<1>3. CASE \E id \in Ids, mode \in Mode :
             FlowBegins(side, e, after, id, mode) /\ Admits(side, id, adm, more) /\ Tafter = T
  BY <1>3, FlowBeginning
<1> QED
  BY <1>1, <1>2, <1>3 DEF Effect

\* The end that has sent, failed, or gone on with what flow control made of it.
LEMMA RoutedIs ==
  ASSUME NEW side \in Sides, NEW e, NEW T, NEW adm, EndIs(side, e, T, adm),
         NEW result, NEW after, after = Routed(side, e, result)
  PROVE  LET progress == result.progress
         IN /\ progress.kind = "Send" =>
                 after = [phase |-> e.phase,
                          sender |-> [frame |-> progress.frame, cause |-> progress.cause],
                          deferred |-> e.deferred, ended |-> e.ended, fc |-> result.fc,
                          ep |-> result.ep, outbound |-> e.outbound, inbound |-> e.inbound]
            /\ progress.kind = "Error" =>
                 after = [phase |-> "Failed", sender |-> NoSend, deferred |-> NoFrame,
                          ended |-> after.ended, fc |-> result.fc,
                          ep |-> result.ep, outbound |-> e.outbound, inbound |-> e.inbound]
            /\ progress.kind = "OutboundEstablished" =>
                 after = [phase |-> e.phase, sender |-> e.sender, deferred |-> e.deferred,
                          ended |-> e.ended, fc |-> result.fc, ep |-> result.ep,
                          outbound |-> IF result.fc.registry[progress.id].mode = Reliable
                                       THEN Put(e.outbound, progress.id, NewOutbound)
                                       ELSE e.outbound,
                          inbound |-> e.inbound]
            /\ progress.kind \notin {"Send", "Error", "OutboundEstablished"} =>
                 after = [phase |-> e.phase, sender |-> e.sender, deferred |-> e.deferred,
                          ended |-> e.ended, fc |-> result.fc, ep |-> result.ep,
                          outbound |-> e.outbound, inbound |-> e.inbound]
<1> DEFINE progress == result.progress
           mid == [e EXCEPT !.fc = result.fc, !.ep = result.ep]
<1>1. e = [phase |-> e.phase, sender |-> e.sender, deferred |-> e.deferred,
           ended |-> e.ended, fc |-> e.fc, ep |-> e.ep,
           outbound |-> e.outbound, inbound |-> e.inbound]
  BY DEF EndIs
<1>2. mid = [phase |-> e.phase, sender |-> e.sender, deferred |-> e.deferred,
             ended |-> e.ended, fc |-> result.fc, ep |-> result.ep,
             outbound |-> e.outbound, inbound |-> e.inbound]
  <2> DEFINE m == [e EXCEPT !.fc = result.fc]
  <2>1. m = [phase |-> e.phase, sender |-> e.sender, deferred |-> e.deferred,
             ended |-> e.ended, fc |-> result.fc, ep |-> e.ep,
             outbound |-> e.outbound, inbound |-> e.inbound]
    BY ONLY <1>1
  <2>2. mid = [m EXCEPT !.ep = result.ep]
    OBVIOUS
  <2> HIDE DEF m, mid
  <2> QED
    BY ONLY <2>1, <2>2
<1> HIDE DEF mid
<1>3. CASE progress.kind = "Send"
  <2>1. after = StartSend(mid, progress.frame, progress.cause)
    BY <1>3 DEF Routed, mid
  <2> QED
    BY <2>1, <1>2, <1>3 DEF StartSend
<1>4. CASE progress.kind = "Error"
  <2>1. after = EnterTerminal(mid, "Failed", progress.cause)
    BY <1>4 DEF Routed, mid
  <2> QED
    BY <2>1, <1>2, <1>4 DEF EnterTerminal
<1>5. CASE progress.kind = "OutboundEstablished"
  <2>1. after = ScheduleOutbound(mid, progress.id)
    BY <1>5 DEF Routed, mid
  <2> QED
    BY <2>1, <1>2, <1>5 DEF ScheduleOutbound
<1>6. CASE progress.kind \notin {"Send", "Error", "OutboundEstablished"}
  <2>1. after = mid
    BY <1>6 DEF Routed, mid
  <2> QED
    BY <2>1, <1>2, <1>6
<1> QED
  BY <1>3, <1>4, <1>5, <1>6

\* What the host was told of flows, with what it is told of a result.
IsRouted(result, T, Tafter) ==
  Tafter = IF result.progress.kind \in {"Send", "Error"} \/ result.progress.cause = "None" THEN T
           ELSE [T EXCEPT ![result.progress.id] =
                   IF @ = "None" THEN result.progress.cause ELSE "Twice"]

\* An operation that fails leaves flow control as it was, or with less to decide.
LEMMA Erring ==
  ASSUME NEW side \in Sides, NEW e, NEW T, NEW adm, EndIs(side, e, T, adm),
         NEW new, NEW fc, Decides(side, e.fc, fc, new), NEW code,
         NEW result, result = Result(fc, e.ep, Error(code)),
         NEW after, after = Routed(side, e, result), NEW Tafter, IsRouted(result, T, Tafter)
  PROVE  Effect(side, e, after, T, Tafter, adm, adm)
<1>1. /\ result.progress.kind = "Error" /\ result.fc = fc /\ result.ep = e.ep
  BY DEF Result, Error
<1>2. after = [phase |-> "Failed", sender |-> NoSend, deferred |-> NoFrame,
               ended |-> after.ended, fc |-> fc,
               ep |-> e.ep, outbound |-> e.outbound, inbound |-> e.inbound]
  BY <1>1, RoutedIs
<1>3. after.phase = "Failed" /\ after.sender = NoSend /\ after.deferred = NoFrame
      /\ after.fc = fc
  BY <1>2
<1>4. Turns(e, after)
  BY <1>2, <1>3 DEF Turns, Phases
<1>5. Tafter = T
  BY <1>1 DEF IsRouted
<1>6. IsSettled(side, after, new, T, Tafter)
  BY <1>3, <1>5 DEF IsSettled
<1> QED
  BY <1>3, <1>4, <1>6 DEF Effect

\* A flow of the peer is refused, or the host is to decide about it.
LEMMA Refusing ==
  ASSUME NEW side \in Sides, NEW e, NEW T, NEW adm, EndIs(side, e, T, adm),
         e.phase = "Active", NEW new, NEW fc, Decides(side, e.fc, fc, new),
         \A j \in new : j.side # side,
         NEW frame \in Frames, NEW result, result = Result(fc, e.ep, Send(frame, "None")),
         NEW after, after = Routed(side, e, result), NEW Tafter, IsRouted(result, T, Tafter)
  PROVE  Effect(side, e, after, T, Tafter, adm, adm)
<1>1. /\ result.progress.kind = "Send" /\ result.fc = fc /\ result.ep = e.ep
      /\ result.progress.frame = frame /\ result.progress.cause = "None"
  BY DEF Result, Send
<1>2. after = [phase |-> e.phase, sender |-> [frame |-> frame, cause |-> "None"],
               deferred |-> e.deferred, ended |-> e.ended, fc |-> fc,
               ep |-> e.ep, outbound |-> e.outbound, inbound |-> e.inbound]
  BY <1>1, RoutedIs
<1>3. Turns(e, after)
  BY <1>2 DEF Turns, Phases
<1>4. Tafter = T /\ after.fc = fc /\ after.sender = [frame |-> frame, cause |-> "None"]
  BY <1>1, <1>2 DEF IsRouted
<1>5. IsSettled(side, after, new, T, Tafter)
  BY <1>4 DEF IsSettled
<1> QED
  BY <1>3, <1>4, <1>5 DEF Effect

\* Nothing is sent or reported yet.
LEMMA Waiting ==
  ASSUME NEW side \in Sides, NEW e, NEW T, NEW adm, EndIs(side, e, T, adm),
         e.phase = "Active", e.sender = NoSend,
         NEW fc, Decides(side, e.fc, fc, {}), NEW id,
         NEW result, result = Result(fc, e.ep, Progress("InboundOpen", id, "None")),
         NEW after, after = Routed(side, e, result), NEW Tafter, IsRouted(result, T, Tafter)
  PROVE  Effect(side, e, after, T, Tafter, adm, adm)
<1>1. /\ result.progress.kind = "InboundOpen" /\ result.fc = fc /\ result.ep = e.ep
      /\ result.progress.cause = "None"
  BY DEF Result, Progress
<1>2. after = [phase |-> e.phase, sender |-> e.sender, deferred |-> e.deferred,
               ended |-> e.ended, fc |-> fc, ep |-> e.ep,
               outbound |-> e.outbound, inbound |-> e.inbound]
  BY <1>1, RoutedIs
<1>3. Turns(e, after)
  BY <1>2 DEF Turns, Phases
<1>4. Tafter = T /\ after.fc = fc /\ after.sender = NoSend
  BY <1>1, <1>2 DEF IsRouted
<1>5. IsSettled(side, after, {}, T, Tafter)
  BY <1>4, FramesAre DEF IsSettled
<1> QED
  BY <1>3, <1>4, <1>5 DEF Effect

\* A request of the peer is refused, put before the host, or breaks the protocol.
LEMMA ReceivingOpen ==
  ASSUME NEW side \in Sides, NEW e, NEW T, NEW adm, EndIs(side, e, T, adm),
         e.phase = "Active", e.sender = NoSend, e.fc.pending_inbound = NoRequest,
         NEW frame \in OpenFrames,
         NEW result, result = ReceiveOpen(side, e.fc, e.ep, frame),
         NEW after, after = Routed(side, e, result), NEW Tafter, IsRouted(result, T, Tafter)
  PROVE  Effect(side, e, after, T, Tafter, adm, adm)
<1> DEFINE fc == e.fc
           id == frame.id
           consumed == [fc EXCEPT !.peer_flow_ids = @ + 1]
           left == [consumed EXCEPT !.pending_inbound = frame]
<1>1. FlowControlIs(side, fc) /\ id \in Ids
  BY DEF EndIs, OpenFrames, OpenFlow
<1>2. CASE id # FlowId(Other(side), fc.peer_flow_ids)
  <2>1. result = Result(fc, e.ep, Error("FlowProtocolError"))
    BY <1>2 DEF ReceiveOpen
  <2>2. Decides(side, fc, fc, {})
    BY <1>1 DEF Decides
  <2> QED
    BY <2>1, <2>2, Erring
<1>3. CASE id = FlowId(Other(side), fc.peer_flow_ids)
  <2>1. Decides(side, fc, consumed, {id}) /\ id.side # side
    BY <1>1, <1>3, Consuming, IdsHave DEF FlowId
  <2>2. CASE \E reason \in RejectReasons :
               result = Result(consumed, e.ep, Send(FlowReject(id, reason), "None"))
    <3>1. PICK reason \in RejectReasons :
            result = Result(consumed, e.ep, Send(FlowReject(id, reason), "None"))
      BY <2>2
    <3>2. FlowReject(id, reason) \in Frames
      BY <1>1, FramesAre
    <3> DEFINE answer == FlowReject(id, reason)
               new == {id}
    <3>3. \A j \in new : j.side # side
      BY <2>1
    <3>4. Decides(side, fc, consumed, new) /\ answer \in Frames
          /\ result = Result(consumed, e.ep, Send(answer, "None"))
      BY <3>1, <3>2, <2>1
    <3> HIDE DEF consumed, answer, new
    <3> QED
      BY <3>3, <3>4, Refusing
  <2>3. CASE result = Result(left, e.ep, Progress("InboundOpen", id, "None"))
    <3>1. left = [fc EXCEPT !.peer_flow_ids = @ + 1, !.pending_inbound = frame]
      OBVIOUS
    <3>2. Decides(side, fc, left, {})
      BY <3>1, <1>1, <1>3, Considering
    <3> HIDE DEF left
    <3> QED
      BY <2>3, <3>2, Waiting
  <2> QED
    BY <1>3, <2>2, <2>3 DEF ReceiveOpen, RejectReasons
<1> QED
  BY <1>2, <1>3

\* A flow is established.
LEMMA Establishing ==
  ASSUME NEW side \in Sides, NEW ep, EndpointInv(ep), NEW id \in Ids, NEW mode \in Mode,
         IsUsable(side, mode), KeyOf(side, id) \notin DOMAIN ep.flows,
         ~AtFlowLimit(side, ep, id, mode), NEW out, out = EstablishFlow(side, ep, id, mode)
  PROVE  /\ EndpointInv(out) /\ DOMAIN out.flows = DOMAIN ep.flows \cup {KeyOf(side, id)}
         /\ out.flows[KeyOf(side, id)] = NewFlow(mode, PolicyOf[side][mode])
         /\ \A k \in DOMAIN ep.flows : out.flows[k] = ep.flows[k]
<1> DEFINE k == KeyOf(side, id)
           policy == PolicyOf[side][mode]
           limits == LimitsOf[side]
<1>1. policy \in Policy /\ limits \in ScopeLimits
  BY FlowControlAssumption
<1>2. CanEstablish(ep, k, mode, policy, limits)
  BY DEF IsUsable, AtFlowLimit
<1>3. MayEstablish(ep, k, mode, policy, limits) /\ out = Establish(ep, k, mode, policy, limits)
  BY <1>1, <1>2 DEF MayEstablish, EstablishFlow
<1> HIDE DEF k, policy, limits
<1>4. /\ EndpointInv(out) /\ DOMAIN out.flows = DOMAIN ep.flows \cup {k}
      /\ out.flows[k] = NewFlow(mode, policy)
      /\ \A j \in DOMAIN ep.flows : out.flows[j] = ep.flows[j]
  BY <1>3, EstablishChanges
<1> QED
  BY <1>4 DEF k, policy

\* The peer has accepted: the flow begins, or there is no room for it any more.
LEMMA ReceivingAccept ==
  ASSUME NEW side \in Sides, NEW e, NEW T, NEW adm, EndIs(side, e, T, adm),
         e.phase = "Active", e.sender = NoSend, NEW frame,
         NEW result, result = ReceiveAccept(side, e.fc, e.ep, frame),
         NEW after, after = Routed(side, e, result), NEW Tafter, IsRouted(result, T, Tafter)
  PROVE  Effect(side, e, after, T, Tafter, adm, adm)
<1> DEFINE fc == e.fc
           id == frame.id
           mode == fc.pending_outbound[id]
           answered == [fc EXCEPT !.pending_outbound = Drop(@, {id})]
<1>1. FlowControlIs(side, fc) /\ EndpointInv(e.ep)
  BY DEF EndIs
<1>2. CASE ~IsExpected(side, fc, id)
  <2>1. result = Result(fc, e.ep, Error("FlowProtocolError"))
    BY <1>2 DEF ReceiveAccept
  <2>2. Decides(side, fc, fc, {})
    BY <1>1 DEF Decides
  <2> QED
    BY <2>1, <2>2, Erring
<1>3. CASE IsExpected(side, fc, id)
  <2>1. /\ id \in DOMAIN fc.pending_outbound /\ id \in Ids /\ id.side = side
        /\ mode \in Mode /\ IsUsable(side, mode)
    BY <1>1, <1>3 DEF IsExpected, FlowControlIs
  <2>2. Decides(side, fc, answered, {id})
    BY <1>1, <2>1, Answering
  <2>3. CASE KeyOf(side, id) \in DOMAIN e.ep.flows
    <3>1. result = Result(answered, e.ep, Error(NoCode))
      BY <1>3, <2>3 DEF ReceiveAccept
    <3> HIDE DEF answered
    <3> QED
      BY <3>1, <2>2, Erring
  <2>4. CASE /\ KeyOf(side, id) \notin DOMAIN e.ep.flows
             /\ AtFlowLimit(side, e.ep, id, mode) \/ ~CanRegister(answered)
    <3> DEFINE notice == FlowTerminate(id, "ResourceFailure")
    <3>1. result = Result(answered, e.ep, Send(notice, "ResourceFailure"))
      BY <1>3, <2>4 DEF ReceiveAccept
    <3> HIDE DEF answered, notice
    <3>2. /\ result.progress.kind = "Send" /\ result.fc = answered /\ result.ep = e.ep
          /\ result.progress.frame = notice /\ result.progress.cause = "ResourceFailure"
      BY <3>1 DEF Result, Send
    <3>3. after = [phase |-> e.phase, sender |-> [frame |-> notice, cause |-> "ResourceFailure"],
                   deferred |-> e.deferred, ended |-> e.ended, fc |-> answered,
                   ep |-> e.ep, outbound |-> e.outbound, inbound |-> e.inbound]
      BY <3>2, RoutedIs
    <3>4. Turns(e, after) /\ after.fc = answered
      BY <3>3 DEF Turns, Phases
    <3>5. Tafter = T /\ after.sender = [frame |-> notice, cause |-> "ResourceFailure"]
      BY <3>2, <3>3 DEF IsRouted
    <3>6. IsSettled(side, after, {id}, T, Tafter)
      BY <3>5, <2>1 DEF IsSettled, notice, Causes
    <3> QED
      BY <3>4, <3>6, <2>2 DEF Effect
  <2>5. CASE /\ KeyOf(side, id) \notin DOMAIN e.ep.flows
             /\ ~AtFlowLimit(side, e.ep, id, mode) /\ CanRegister(answered)
    <3> DEFINE reg == Register(answered, id, mode)
               ep == EstablishFlow(side, e.ep, id, mode)
    <3>1. result = Result(reg, ep, Progress("OutboundEstablished", id, "None"))
      BY <1>3, <2>5 DEF ReceiveAccept
    <3>2. /\ EndpointInv(ep) /\ DOMAIN ep.flows = DOMAIN e.ep.flows \cup {KeyOf(side, id)}
          /\ ep.flows[KeyOf(side, id)] = NewFlow(mode, PolicyOf[side][mode])
          /\ \A k \in DOMAIN e.ep.flows : ep.flows[k] = e.ep.flows[k]
      BY <1>1, <2>1, <2>5, Establishing
    <3>3. FlowControlIs(side, answered) /\ IsDecided(side, answered, id)
      BY <2>1, <2>2 DEF Decides
    <3> HIDE DEF answered, mode
    <3>4. reg.registry[id].mode = mode
      <4>1. reg.registry[id] = [mode |-> mode, associated |-> FALSE]
        BY <2>1, <3>3, RegisterKeeps
      <4> QED
        BY <4>1
    <3> HIDE DEF reg, ep
    <3>5. /\ result.progress.kind = "OutboundEstablished" /\ result.fc = reg
          /\ result.ep = ep /\ result.progress.id = id /\ result.progress.cause = "None"
      BY <3>1 DEF Result, Progress
    <3>6. after = [phase |-> e.phase, sender |-> e.sender, deferred |-> e.deferred,
                   ended |-> e.ended, fc |-> reg, ep |-> ep,
                   outbound |-> IF reg.registry[id].mode = Reliable
                                THEN Put(e.outbound, id, NewOutbound) ELSE e.outbound,
                   inbound |-> e.inbound]
      BY <3>5, RoutedIs
    <3>7. /\ after.fc = reg /\ after.ep = ep /\ after.sender = NoSend
          /\ after.outbound = IF id.side = side /\ mode = Reliable
                              THEN Put(e.outbound, id, NewOutbound) ELSE e.outbound
          /\ after = [phase |-> e.phase, sender |-> after.sender, deferred |-> e.deferred,
                      ended |-> e.ended, fc |-> after.fc, ep |-> after.ep,
                      outbound |-> after.outbound, inbound |-> e.inbound]
      BY <3>4, <3>6, <2>1
    <3>8. \E mid : Decides(side, fc, mid, {id}) /\ after.fc = Register(mid, id, mode)
      BY <3>7, <2>2 DEF reg
    <3>9. \E f \in Frames : after.sender = [frame |-> f, cause |-> "None"]
      BY <3>7, FramesAre
    <3>10. FlowBegins(side, e, after, id, mode)
      BY <3>2, <3>7, <3>8, <3>9 DEF FlowBegins
    <3>11. Admits(side, id, adm, adm) /\ Tafter = T
      BY <2>1, <3>5 DEF Admits, IsRouted
    <3> QED
      BY <2>1, <3>10, <3>11 DEF Effect, mode
  <2> QED
    BY <2>3, <2>4, <2>5
<1> QED
  BY <1>2, <1>3

\* The peer has refused, and the host is told.
LEMMA ReceivingReject ==
  ASSUME NEW side \in Sides, NEW e, NEW T, NEW adm, EndIs(side, e, T, adm),
         e.phase = "Active", e.sender = NoSend, NEW frame,
         NEW result, result = ReceiveReject(side, e.fc, e.ep, frame),
         NEW after, after = Routed(side, e, result), NEW Tafter, IsRouted(result, T, Tafter)
  PROVE  Effect(side, e, after, T, Tafter, adm, adm)
<1> DEFINE fc == e.fc
           id == frame.id
           answered == [fc EXCEPT !.pending_outbound = Drop(@, {id})]
<1>1. FlowControlIs(side, fc)
  BY DEF EndIs
<1>2. CASE ~IsExpected(side, fc, id)
  <2>1. result = Result(fc, e.ep, Error("FlowProtocolError"))
    BY <1>2 DEF ReceiveReject
  <2>2. Decides(side, fc, fc, {})
    BY <1>1 DEF Decides
  <2> QED
    BY <2>1, <2>2, Erring
<1>3. CASE IsExpected(side, fc, id)
  <2>1. id \in DOMAIN fc.pending_outbound /\ id \in Ids
    BY <1>1, <1>3 DEF IsExpected, FlowControlIs
  <2>2. Decides(side, fc, answered, {id})
    BY <1>1, <2>1, Answering
  <2>3. result = Result(answered, e.ep, Progress("OutboundRejected", id, "Rejected"))
    BY <1>3 DEF ReceiveReject
  <2> HIDE DEF answered
  <2>4. /\ result.progress.kind = "OutboundRejected" /\ result.fc = answered
        /\ result.ep = e.ep /\ result.progress.id = id /\ result.progress.cause = "Rejected"
    BY <2>3 DEF Result, Progress
  <2>5. after = [phase |-> e.phase, sender |-> e.sender, deferred |-> e.deferred,
                 ended |-> e.ended, fc |-> answered, ep |-> e.ep,
                 outbound |-> e.outbound, inbound |-> e.inbound]
    BY <2>4, RoutedIs
  <2>6. Turns(e, after) /\ after.fc = answered /\ after.sender = NoSend
    BY <2>5 DEF Turns, Phases
  <2>7. T[id] = "None" /\ T \in [Ids -> {"None", "Rejected"} \cup Causes]
    BY <2>1, <2>2 DEF EndIs, TellingIs, Decides
  <2>8. Tafter = [T EXCEPT ![id] = "Rejected"]
    BY <2>4, <2>7 DEF IsRouted
  <2>9. IsSettled(side, after, {id}, T, Tafter)
    BY <2>1, <2>6, <2>8 DEF IsSettled
  <2> QED
    BY <2>2, <2>6, <2>9 DEF Effect
<1> QED
  BY <1>2, <1>3

-----------------------------------------------------------------------------
(* How flows end                                                           *)

\* The delivery endpoint without a flow, if it had it.
Undelivered(side, e, id) ==
  IF KeyOf(side, id) \in DOMAIN e.ep.flows THEN Terminate(e.ep, KeyOf(side, id)) ELSE e.ep

\* The end without the flow and some of its bindings, with a slot filled or not.
Released(side, e, id, sender, outbound, inbound) ==
  [phase |-> e.phase, sender |-> sender, deferred |-> e.deferred, ended |-> e.ended,
   fc |-> ReleaseFlow(e.fc, id), ep |-> Undelivered(side, e, id),
   outbound |-> outbound, inbound |-> inbound]

Releases(side, e, after, id) ==
  \E outbound \in {e.outbound, Drop(e.outbound, {id})},
     inbound \in {e.inbound, Drop(e.inbound, {id})} :
    after = Released(side, e, id, after.sender, outbound, inbound)

\* That is how a flow ends.
LEMMA Releasing ==
  ASSUME NEW side \in Sides, NEW e, NEW T, NEW adm, EndIs(side, e, T, adm), NEW id \in Ids,
         NEW after, Releases(side, e, after, id)
  PROVE  /\ FlowEnds(side, e, after, id)
         /\ KeyOf(side, id) \in DOMAIN e.ep.flows <=> id \in DOMAIN e.fc.registry
<1> DEFINE k == KeyOf(side, id)
           ep == Undelivered(side, e, id)
<1>0. PICK outbound \in {e.outbound, Drop(e.outbound, {id})},
           inbound \in {e.inbound, Drop(e.inbound, {id})} :
        after = Released(side, e, id, after.sender, outbound, inbound)
  BY DEF Releases
<1>1. EndpointInv(e.ep) /\ (k \in DOMAIN e.ep.flows <=> id \in DOMAIN e.fc.registry)
  BY HasFlow DEF EndIs
<1>2. /\ EndpointInv(ep) /\ DOMAIN ep.flows = DOMAIN e.ep.flows \ {k}
      /\ \A j \in DOMAIN ep.flows : ep.flows[j] = e.ep.flows[j]
  <2>1. CASE k \in DOMAIN e.ep.flows
    <3>1. ep = Terminate(e.ep, k)
      BY <2>1 DEF Undelivered
    <3> HIDE DEF ep, k
    <3> QED
      BY <2>1, <3>1, <1>1, TerminateChanges
  <2>2. CASE k \notin DOMAIN e.ep.flows
    BY <2>2, <1>1 DEF Undelivered
  <2> QED
    BY <2>1, <2>2
<1>3. IsLess(e.outbound, outbound, {id}) /\ IsLess(e.inbound, inbound, {id})
  BY DEF IsLess, Drop, Restrict
<1> HIDE DEF ep
<1>4. /\ after.ep = ep /\ after.outbound = outbound /\ after.inbound = inbound
      /\ after = [phase |-> e.phase, sender |-> after.sender, deferred |-> e.deferred,
                  ended |-> e.ended, fc |-> ReleaseFlow(e.fc, id), ep |-> after.ep,
                  outbound |-> after.outbound, inbound |-> after.inbound]
  BY <1>0 DEF Released, ep
<1> QED
  BY <1>1, <1>2, <1>3, <1>4 DEF FlowEnds

\* A flow is ended by the peer.
LEMMA ReceivingTerminate ==
  ASSUME NEW side \in Sides, NEW e, NEW T, NEW adm, EndIs(side, e, T, adm),
         e.phase = "Active", e.sender = NoSend, NEW frame, frame.reason \in Causes,
         NEW result, result = ReceiveTerminate(side, e.fc, e.ep, frame),
         NEW after, after = Routed(side, e, result), NEW Tafter, IsRouted(result, T, Tafter)
  PROVE  Effect(side, e, after, T, Tafter, adm, adm)
<1> DEFINE fc == e.fc
           id == frame.id
           k == KeyOf(side, id)
<1>1. FlowControlIs(side, fc) /\ Decides(side, fc, fc, {})
  BY DEF EndIs, Decides
<1>2. CASE \E code : result = Result(fc, e.ep, Error(code))
  BY <1>1, <1>2, Erring
<1>3. CASE /\ id \in DOMAIN fc.registry /\ k \in DOMAIN e.ep.flows
           /\ result = Result(ReleaseFlow(fc, id), Terminate(e.ep, k),
                              Progress("RemoteTerminated", id, frame.reason))
  <2> DEFINE left == ReleaseFlow(fc, id)
             ep == Terminate(e.ep, k)
             cause == frame.reason
  <2>1. id \in Ids
    BY <1>1, <1>3 DEF FlowControlIs
  <2>2. result = Result(left, ep, Progress("RemoteTerminated", id, cause))
    BY <1>3
  <2> HIDE DEF left, ep, cause
  <2>3. /\ result.progress.kind = "RemoteTerminated" /\ result.fc = left
        /\ result.ep = ep /\ result.progress.id = id /\ result.progress.cause = cause
    BY <2>2 DEF Result, Progress
  <2>4. after = [phase |-> e.phase, sender |-> e.sender, deferred |-> e.deferred,
                 ended |-> e.ended, fc |-> left, ep |-> ep,
                 outbound |-> e.outbound, inbound |-> e.inbound]
    BY <2>3, RoutedIs
  <2>5. after.sender = NoSend /\ after = Released(side, e, id, after.sender, e.outbound, e.inbound)
    BY <2>4, <1>3 DEF Released, Undelivered, left, ep
  <2>6. FlowEnds(side, e, after, id)
    <3>1. Releases(side, e, after, id)
      BY <2>5 DEF Releases
    <3> QED
      BY <3>1, <2>1, Releasing
  <2>7. T[id] = "None" /\ T \in [Ids -> {"None", "Rejected"} \cup Causes]
    BY <2>1, <1>3 DEF EndIs, TellingIs
  <2>8. cause \in Causes /\ cause # "None"
    BY FramesAre DEF cause
  <2>9. Tafter = [T EXCEPT ![id] = cause]
    BY <2>3, <2>7, <2>8 DEF IsRouted
  <2>10. IsNoticed(e, after, id, T, Tafter)
    BY <2>5, <2>8, <2>9, <1>3 DEF IsNoticed
  <2> QED
    BY <2>1, <2>6, <2>10 DEF Effect
<1> QED
  BY <1>2, <1>3 DEF ReceiveTerminate

\* The host ends a flow, and the peer is to know.
LEMMA TerminatingLocal ==
  ASSUME NEW side \in Sides, NEW e, NEW T, NEW adm, EndIs(side, e, T, adm),
         e.phase = "Active", NEW id \in DOMAIN e.fc.registry, NEW cause \in Causes,
         NEW result, result = TerminateLocal(side, e.fc, e.ep, id, cause),
         NEW after, after = Routed(side, e, result), NEW Tafter, IsRouted(result, T, Tafter)
  PROVE  Effect(side, e, after, T, Tafter, adm, adm)
<1> DEFINE left == ReleaseFlow(e.fc, id)
           ep == Terminate(e.ep, KeyOf(side, id))
           notice == FlowTerminate(id, cause)
<1>1. id \in Ids /\ KeyOf(side, id) \in DOMAIN e.ep.flows
  BY HasFlow DEF EndIs, FlowControlIs
<1>2. result = Result(left, ep, Send(notice, cause))
  BY DEF TerminateLocal
<1> HIDE DEF left, ep, notice
<1>3. /\ result.progress.kind = "Send" /\ result.fc = left /\ result.ep = ep
      /\ result.progress.frame = notice /\ result.progress.cause = cause
  BY <1>2 DEF Result, Send
<1>4. after = [phase |-> e.phase, sender |-> [frame |-> notice, cause |-> cause],
               deferred |-> e.deferred, ended |-> e.ended, fc |-> left,
               ep |-> ep, outbound |-> e.outbound, inbound |-> e.inbound]
  BY <1>3, RoutedIs
<1>5. /\ after.sender = [frame |-> notice, cause |-> cause]
      /\ after = Released(side, e, id, after.sender, e.outbound, e.inbound)
  BY <1>1, <1>4 DEF Released, Undelivered, left, ep
<1>6. Releases(side, e, after, id)
  BY <1>5 DEF Releases
<1>7. FlowEnds(side, e, after, id)
  BY <1>1, <1>6, Releasing
<1>8. Tafter = T
  BY <1>3 DEF IsRouted
<1>9. IsNoticed(e, after, id, T, Tafter)
  BY <1>5, <1>8 DEF IsNoticed, notice
<1> QED
  BY <1>1, <1>7, <1>9 DEF Effect

\* A flow has failed, and the peer is to know of it if it was still there.
LEMMA Failing ==
  ASSUME NEW side \in Sides, NEW e, NEW T, NEW adm, EndIs(side, e, T, adm),
         e.phase = "Active", e.sender = NoSend, NEW id \in Ids, NEW cause \in Causes,
         id \in DOMAIN e.fc.registry => e.fc.registry[id].mode = Reliable,
         NEW after, after = FailFlow(side, e, id, cause)
  PROVE  Effect(side, e, after, T, T, adm, adm)
<1> DEFINE k == KeyOf(side, id)
           cleaned == Cleaned(side, e, id)
<1>1. /\ k \in DOMAIN e.ep.flows <=> id \in DOMAIN e.fc.registry
      /\ id \in DOMAIN e.fc.registry => e.ep.flows[k].mode = e.fc.registry[id].mode
  BY HasFlow DEF EndIs, FlowsAgree
<1>2. e = [phase |-> e.phase, sender |-> e.sender, deferred |-> e.deferred,
           ended |-> e.ended, fc |-> e.fc, ep |-> e.ep,
           outbound |-> e.outbound, inbound |-> e.inbound]
  BY DEF EndIs
<1>3. EndsDelivery(side, e, id) <=> k \in DOMAIN e.ep.flows
  BY <1>1 DEF EndsDelivery
<1>4. IsReportable(side, e, id) <=> id \in DOMAIN e.fc.registry
  BY <1>1, <1>3 DEF IsReportable
<1>5. cleaned = Released(side, e, id, NoSend, Drop(e.outbound, {id}), Drop(e.inbound, {id}))
  <2>1. (IF EndsDelivery(side, e, id) THEN Terminate(e.ep, k) ELSE e.ep)
          = Undelivered(side, e, id)
    BY <1>3 DEF Undelivered
  <2> DEFINE left == ReleaseFlow(e.fc, id)
             ep == Undelivered(side, e, id)
             outbound == Drop(e.outbound, {id})
             inbound == Drop(e.inbound, {id})
             m == [e EXCEPT !.fc = left, !.ep = ep, !.outbound = outbound, !.inbound = inbound]
             e1 == [e EXCEPT !.fc = left]
             e2 == [e1 EXCEPT !.ep = ep]
             e3 == [e2 EXCEPT !.outbound = outbound]
  <2>2. cleaned = m
    BY <2>1 DEF Cleaned
  <2>3. m = [e3 EXCEPT !.inbound = inbound]
    OBVIOUS
  <2> HIDE DEF m, left, ep, outbound, inbound
  <2>4. e1 = [phase |-> e.phase, sender |-> NoSend, deferred |-> e.deferred,
              ended |-> e.ended, fc |-> left, ep |-> e.ep,
              outbound |-> e.outbound, inbound |-> e.inbound]
    BY <1>2
  <2> HIDE DEF e1
  <2>5. e2 = [phase |-> e.phase, sender |-> NoSend, deferred |-> e.deferred,
              ended |-> e.ended, fc |-> left, ep |-> ep,
              outbound |-> e.outbound, inbound |-> e.inbound]
    BY <2>4
  <2> HIDE DEF e2
  <2>6. e3 = [phase |-> e.phase, sender |-> NoSend, deferred |-> e.deferred,
              ended |-> e.ended, fc |-> left, ep |-> ep,
              outbound |-> outbound, inbound |-> e.inbound]
    BY <2>5
  <2> HIDE DEF e3
  <2>7. m = [phase |-> e.phase, sender |-> NoSend, deferred |-> e.deferred,
             ended |-> e.ended, fc |-> left, ep |-> ep,
             outbound |-> outbound, inbound |-> inbound]
    BY <2>3, <2>6
  <2> QED
    BY <2>2, <2>7 DEF Released, left, ep, outbound, inbound
<1>6. CASE id \in DOMAIN e.fc.registry
  <2> DEFINE report == [frame |-> FlowTerminate(id, cause), cause |-> cause]
  <2>1. after = [cleaned EXCEPT !.sender = report]
    BY <1>4, <1>6 DEF FailFlow, Reported, StartSend
  <2> HIDE DEF report
  <2>2. /\ after.sender = report
        /\ after = Released(side, e, id, after.sender,
                            Drop(e.outbound, {id}), Drop(e.inbound, {id}))
    BY <2>1, <1>5 DEF Released
  <2>3. FlowEnds(side, e, after, id)
    <3>1. Releases(side, e, after, id)
      BY <2>2 DEF Releases
    <3> QED
      BY <3>1, Releasing
  <2>4. IsNoticed(e, after, id, T, T)
    BY <2>2, <1>6 DEF IsNoticed, report
  <2> QED
    BY <2>3, <2>4 DEF Effect
<1>7. CASE id \notin DOMAIN e.fc.registry
  <2>1. after = cleaned
    BY <1>4, <1>7 DEF FailFlow
  <2>2. /\ after.sender = NoSend
        /\ after = Released(side, e, id, after.sender,
                            Drop(e.outbound, {id}), Drop(e.inbound, {id}))
    BY <2>1, <1>5 DEF Released
  <2>3. FlowEnds(side, e, after, id)
    <3>1. Releases(side, e, after, id)
      BY <2>2 DEF Releases
    <3> QED
      BY <3>1, Releasing
  <2>4. IsNoticed(e, after, id, T, T)
    BY <2>2, <1>7 DEF IsNoticed
  <2> QED
    BY <2>3, <2>4 DEF Effect
<1> QED
  BY <1>6, <1>7

\* So it is when the endpoint has ended the flow over a message that was read.
LEMMA FailingToReceive ==
  ASSUME NEW side \in Sides, NEW e, NEW T, NEW adm, EndIs(side, e, T, adm),
         e.phase = "Active", e.sender = NoSend, NEW id \in Ids, NEW cause \in Causes,
         KeyOf(side, id) \in DOMAIN e.ep.flows, id \in DOMAIN e.inbound, NEW received,
         received = [e EXCEPT !.ep = Terminate(@, KeyOf(side, id)),
                              !.inbound[id] = MessageRead(@)],
         NEW after, after = FailFlow(side, received, id, cause)
  PROVE  Effect(side, e, after, T, T, adm, adm)
<1> DEFINE k == KeyOf(side, id)
           ep == Terminate(e.ep, k)
           read == [e.inbound EXCEPT ![id] = MessageRead(@)]
           left == ReleaseFlow(e.fc, id)
           outbound == Drop(e.outbound, {id})
           inbound == Drop(e.inbound, {id})
           report == [frame |-> FlowTerminate(id, cause), cause |-> cause]
<1>1. EndpointInv(e.ep) /\ id \in DOMAIN e.fc.registry
  BY HasFlow DEF EndIs
<1>2. DOMAIN ep.flows = DOMAIN e.ep.flows \ {k}
  <2> HIDE DEF k
  <2> QED
    BY <1>1, TerminateChanges DEF k
<1>3. received = [phase |-> e.phase, sender |-> NoSend, deferred |-> e.deferred,
                  ended |-> e.ended, fc |-> e.fc, ep |-> ep,
                  outbound |-> e.outbound, inbound |-> read]
  <2> DEFINE m == [e EXCEPT !.ep = ep]
  <2>1. e = [phase |-> e.phase, sender |-> NoSend, deferred |-> e.deferred,
             ended |-> e.ended, fc |-> e.fc, ep |-> e.ep,
             outbound |-> e.outbound, inbound |-> e.inbound]
    BY DEF EndIs
  <2>2. m = [phase |-> e.phase, sender |-> NoSend, deferred |-> e.deferred,
             ended |-> e.ended, fc |-> e.fc, ep |-> ep,
             outbound |-> e.outbound, inbound |-> e.inbound]
    BY ONLY <2>1
  <2>3. received = [m EXCEPT !.inbound[id] = MessageRead(@)]
    OBVIOUS
  <2> HIDE DEF m, ep
  <2>4. received = [m EXCEPT !.inbound = [m.inbound EXCEPT ![id] = MessageRead(@)]]
    BY ONLY <2>3
  <2>5. m.inbound = e.inbound
    BY ONLY <2>2
  <2>6. received = [m EXCEPT !.inbound = read]
    BY ONLY <2>4, <2>5
  <2> QED
    BY ONLY <2>2, <2>6
<1>4. Drop(read, {id}) = inbound
  BY DEF Drop, Restrict
<1> HIDE DEF read, ep
<1> HIDE DEF left, outbound, inbound
<1>31. /\ received.fc = e.fc /\ received.ep = ep
       /\ received.outbound = e.outbound /\ received.inbound = read
  BY ONLY <1>3
<1>5. ~EndsDelivery(side, received, id) /\ IsReportable(side, received, id)
  BY ONLY <1>1, <1>2, <1>31 DEF EndsDelivery, IsReportable
<1>6. Cleaned(side, received, id) =
        [phase |-> e.phase, sender |-> NoSend, deferred |-> e.deferred,
         ended |-> e.ended, fc |-> left, ep |-> ep, outbound |-> outbound, inbound |-> inbound]
  <2> DEFINE r1 == [received EXCEPT !.fc = left]
             r2 == [r1 EXCEPT !.ep = ep]
             r3 == [r2 EXCEPT !.outbound = outbound]
  <2>1. Cleaned(side, received, id) = [r3 EXCEPT !.inbound = inbound]
    BY ONLY <1>31, <1>4, <1>5 DEF Cleaned, left, outbound, inbound
  <2>2. r1 = [phase |-> e.phase, sender |-> NoSend, deferred |-> e.deferred,
              ended |-> e.ended, fc |-> left, ep |-> ep,
              outbound |-> e.outbound, inbound |-> read]
    BY ONLY <1>3
  <2> HIDE DEF r1
  <2>3. r2 = [phase |-> e.phase, sender |-> NoSend, deferred |-> e.deferred,
              ended |-> e.ended, fc |-> left, ep |-> ep,
              outbound |-> e.outbound, inbound |-> read]
    BY ONLY <2>2
  <2> HIDE DEF r2
  <2>4. r3 = [phase |-> e.phase, sender |-> NoSend, deferred |-> e.deferred,
              ended |-> e.ended, fc |-> left, ep |-> ep,
              outbound |-> outbound, inbound |-> read]
    BY ONLY <2>3
  <2> HIDE DEF r3
  <2> QED
    BY ONLY <2>1, <2>4
<1>7. after = StartSend(Cleaned(side, received, id), report.frame, report.cause)
  BY <1>5 DEF FailFlow, Reported
<1>8. after = [Cleaned(side, received, id) EXCEPT !.sender = report]
  BY <1>7 DEF StartSend
<1> HIDE DEF report
<1>9. /\ after.sender = report
      /\ after = [phase |-> e.phase, sender |-> after.sender, deferred |-> e.deferred,
                  ended |-> e.ended, fc |-> left, ep |-> ep,
                  outbound |-> outbound, inbound |-> inbound]
  BY <1>6, <1>8
<1>10. after = Released(side, e, id, after.sender, outbound, inbound)
  BY <1>9 DEF Released, Undelivered, ep, left
<1>11. Releases(side, e, after, id)
  BY <1>10 DEF Releases, outbound, inbound
<1>12. FlowEnds(side, e, after, id)
  BY <1>11, Releasing
<1>13. IsNoticed(e, after, id, T, T)
  BY <1>1, <1>9 DEF IsNoticed, report
<1> QED
  BY <1>12, <1>13 DEF Effect

-----------------------------------------------------------------------------
(* What the host decides                                                   *)

\* It refuses the flow the peer has asked for.
LEMMA RejectingInbound ==
  ASSUME NEW side \in Sides, NEW e, NEW T, NEW adm, EndIs(side, e, T, adm),
         e.phase = "Active", e.fc.pending_inbound # NoRequest, NEW reason \in RejectReasons,
         NEW result, result = RejectInbound(e.fc, e.ep, reason),
         NEW after, after = Routed(side, e, result), NEW Tafter, IsRouted(result, T, Tafter)
  PROVE  /\ Effect(side, e, after, T, Tafter, adm, adm)
         /\ e.fc.pending_inbound.id \notin DOMAIN result.fc.registry
<1> DEFINE id == e.fc.pending_inbound.id
           left == [e.fc EXCEPT !.pending_inbound = NoRequest]
           answer == FlowReject(id, reason)
           new == {id}
<1>1. FlowControlIs(side, e.fc) /\ id \in Ids /\ id.side # side
  BY FlowControlHas DEF EndIs
<1>2. Decides(side, e.fc, left, new) /\ answer \in Frames
  BY <1>1, Resolving, FramesAre
<1>3. /\ \A j \in new : j.side # side
      /\ id \notin DOMAIN e.fc.registry /\ left.registry = e.fc.registry
  BY <1>1, <1>2 DEF Decides, FlowControlIs
<1>4. result = Result(left, e.ep, Send(answer, "None"))
  BY DEF RejectInbound
<1> HIDE DEF left, answer, new
<1>5. Effect(side, e, after, T, Tafter, adm, adm)
  BY <1>2, <1>3, <1>4, Refusing
<1>6. result.fc = left
  BY <1>4 DEF Result
<1> QED
  BY <1>3, <1>5, <1>6

\* It admits the flow, or cannot.
LEMMA AcceptingInbound ==
  ASSUME NEW side \in Sides, NEW e, NEW T, NEW adm, EndIs(side, e, T, adm),
         e.phase = "Active", e.sender = NoSend, e.fc.pending_inbound # NoRequest,
         NEW result, result = AcceptInbound(side, e.fc, e.ep),
         NEW after, after = Routed(side, e, result), NEW Tafter, IsRouted(result, T, Tafter),
         NEW more, more = [adm EXCEPT ![e.fc.pending_inbound.id] =
                             e.fc.pending_inbound.id \in DOMAIN result.fc.registry],
         adm \in [Ids -> BOOLEAN]
  PROVE  Effect(side, e, after, T, Tafter, adm, more)
<1> DEFINE request == e.fc.pending_inbound
           id == request.id
           mode == request.mode
           decided == [e.fc EXCEPT !.pending_inbound = NoRequest]
<1>1. FlowControlIs(side, e.fc) /\ id \in Ids /\ id.side # side /\ mode \in Mode
      /\ EndpointInv(e.ep)
  <2>1. request \in OpenFrames => mode \in Mode
    BY DEF OpenFrames, OpenFlow
  <2> QED
    BY <2>1, FlowControlHas DEF EndIs, FlowControlIs
<1>2. /\ Decides(side, e.fc, decided, {id}) /\ FlowControlIs(side, decided)
      /\ IsDecided(side, decided, id) /\ ~IsDecided(side, e.fc, id)
  BY <1>1, Resolving DEF Decides
<1>3. adm[id] = FALSE /\ id \notin DOMAIN e.fc.registry
  BY <1>1, <1>2 DEF EndIs, TellingIs, FlowControlIs
<1>4. id \notin DOMAIN result.fc.registry => more = adm
  BY <1>1, <1>3
<1>5. CASE \E reason \in RejectReasons : result = RejectInbound(e.fc, e.ep, reason)
  <2>1. /\ Effect(side, e, after, T, Tafter, adm, adm)
        /\ id \notin DOMAIN result.fc.registry
    BY <1>5, RejectingInbound
  <2> QED
    BY <2>1, <1>4
<1>6. CASE result = Result(decided, e.ep, Error(NoCode))
  <2>1. decided.registry = e.fc.registry
    BY <1>2 DEF Decides
  <2> HIDE DEF decided
  <2>2. result.fc = decided
    BY <1>6 DEF Result
  <2>3. more = adm
    BY <2>1, <2>2, <1>3, <1>4
  <2> DEFINE new == {id}
  <2>4. Decides(side, e.fc, decided, new)
    BY <1>2
  <2> HIDE DEF new
  <2>5. Effect(side, e, after, T, Tafter, adm, adm)
    BY <2>4, <1>6, Erring
  <2> QED
    BY <2>3, <2>5
<1>7. CASE /\ IsUsable(side, mode) /\ KeyOf(side, id) \notin DOMAIN e.ep.flows
           /\ ~AtFlowLimit(side, e.ep, id, mode)
           /\ result = Result(Register(decided, id, mode), EstablishFlow(side, e.ep, id, mode),
                              Send(FlowAccept(id), "None"))
  <2> DEFINE reg == Register(decided, id, mode)
             ep == EstablishFlow(side, e.ep, id, mode)
             answer == FlowAccept(id)
  <2>1. /\ EndpointInv(ep) /\ DOMAIN ep.flows = DOMAIN e.ep.flows \cup {KeyOf(side, id)}
        /\ ep.flows[KeyOf(side, id)] = NewFlow(mode, PolicyOf[side][mode])
        /\ \A k \in DOMAIN e.ep.flows : ep.flows[k] = e.ep.flows[k]
    <3>1. ep = EstablishFlow(side, e.ep, id, mode)
      OBVIOUS
    <3>2. /\ IsUsable(side, mode) /\ KeyOf(side, id) \notin DOMAIN e.ep.flows
          /\ ~AtFlowLimit(side, e.ep, id, mode)
      BY <1>7
    <3>3. id \in Ids /\ mode \in Mode /\ EndpointInv(e.ep)
      BY <1>1
    <3> HIDE DEF id, mode, decided, request, reg, ep, answer
    <3> QED
      BY ONLY <3>1, <3>2, <3>3, Establishing, side \in Sides
  <2>2. answer \in Frames
    BY <1>1, FramesAre
  <2> HIDE DEF decided, mode, id
  <2>31. reg = Register(decided, id, mode)
    OBVIOUS
  <2> HIDE DEF reg, ep, answer
  <2>3. id \in DOMAIN reg.registry
    <3>1. /\ side \in Sides /\ id \in Ids /\ mode \in Mode
          /\ FlowControlIs(side, decided) /\ IsDecided(side, decided, id)
      BY <1>1, <1>2
    <3>2. reg.registry = Put(decided.registry, id, [mode |-> mode, associated |-> FALSE])
      BY ONLY <2>31, <3>1 DEF Register, FlowControlIs
    <3> QED
      BY ONLY <3>2 DEF Put
  <2>4. /\ result.progress.kind = "Send" /\ result.fc = reg /\ result.ep = ep
        /\ result.progress.frame = answer /\ result.progress.cause = "None"
    BY <1>7 DEF Result, Send, reg, ep, answer
  <2>5. after = [phase |-> e.phase, sender |-> [frame |-> answer, cause |-> "None"],
                 deferred |-> e.deferred, ended |-> e.ended, fc |-> reg,
                 ep |-> ep, outbound |-> e.outbound, inbound |-> e.inbound]
    BY <2>4, RoutedIs
  <2>6. /\ after.fc = reg /\ after.ep = ep
        /\ after.sender = [frame |-> answer, cause |-> "None"]
        /\ after.outbound = IF id.side = side /\ mode = Reliable
                            THEN Put(e.outbound, id, NewOutbound) ELSE e.outbound
        /\ after = [phase |-> e.phase, sender |-> after.sender, deferred |-> e.deferred,
                    ended |-> e.ended, fc |-> after.fc, ep |-> after.ep,
                    outbound |-> after.outbound, inbound |-> e.inbound]
    BY <2>5, <1>1
  <2>7. \E mid : Decides(side, e.fc, mid, {id}) /\ after.fc = Register(mid, id, mode)
    BY <2>6, <1>2 DEF reg
  <2>8. \E f \in Frames : after.sender = [frame |-> f, cause |-> "None"]
    BY <2>2, <2>6
  <2>9. FlowBegins(side, e, after, id, mode)
    BY <2>1, <2>6, <2>7, <2>8 DEF FlowBegins
  <2>10. Admits(side, id, adm, more) /\ Tafter = T
    BY <2>3, <2>4, <1>1 DEF Admits, IsRouted, id
  <2> QED
    BY <2>9, <2>10, <1>1 DEF Effect
<1> QED
  BY <1>5, <1>6, <1>7 DEF AcceptInbound, RejectReasons, IsUsable

-----------------------------------------------------------------------------
(* The connection                                                          *)

Chunks == {Header} \cup {Message(p) : p \in Payloads}

StreamIs(s) ==
  /\ s = [data |-> s.data, end |-> s.end, stopped |-> s.stopped, acquired |-> s.acquired]
  /\ s.data \in Seq(Chunks)

HistoryIs(h) ==
  /\ h = [id \in Ids |-> [mode |-> h[id].mode, accepted |-> h[id].accepted,
                          admitted |-> h[id].admitted, exposed |-> h[id].exposed]]
  /\ \A id \in Ids : /\ h[id].mode \in Mode \cup {"None"} /\ h[id].accepted \in Nat
                     /\ h[id].admitted \in BOOLEAN

Admitted(h) == [id \in Ids |-> h[id].admitted]

\* What is on its way between the ends.
WiresAre ==
  /\ wire \in [Sides -> Seq(Frames \ {NoFrame})]
  /\ DOMAIN streams \subseteq Ids /\ \A id \in DOMAIN streams : StreamIs(streams[id])
  /\ datagrams \subseteq [id : Ids, payload : Payloads, index : Index]

\* A stream is opened once, for a flow both have agreed on, and acquired once.
StreamsAre ==
  /\ \A id \in DOMAIN streams :
       LET e == end[id.side]
       IN /\ IsDecided(id.side, e.fc, id)
          /\ id \in DOMAIN e.outbound => e.outbound[id].state # "Acquiring"
  /\ \A side \in Sides : \A id \in DOMAIN end[side].inbound :
       id \in DOMAIN streams /\ streams[id].acquired

\* Both ends are as they should be, and so is what is on its way between them.
ConnectionInv ==
  /\ end = [side \in Sides |-> end[side]] /\ told = [side \in Sides |-> told[side]]
  /\ WiresAre /\ HistoryIs(history) /\ StreamsAre
  /\ \A side \in Sides : EndIs(side, end[side], told[side], Admitted(history))

-----------------------------------------------------------------------------
(* One end takes a step                                                    *)

\* It decides about no flow again, and opens and reads no further streams.
Remains(side, e, after) ==
  /\ \A id \in Ids : id.side = side /\ IsDecided(side, e.fc, id) =>
       /\ IsDecided(side, after.fc, id)
       /\ id \in DOMAIN after.outbound /\ after.outbound[id].state = "Acquiring" =>
            id \in DOMAIN e.outbound /\ e.outbound[id].state = "Acquiring"
  /\ DOMAIN after.inbound \subseteq DOMAIN e.inbound

\* What flow control makes of a frame or a decision is of that kind.
LEMMA EffectRemains ==
  ASSUME NEW side \in Sides, NEW e, NEW T, NEW adm, EndIs(side, e, T, adm),
         NEW after, NEW Tafter, NEW more, Effect(side, e, after, T, Tafter, adm, more)
  PROVE  Remains(side, e, after)
<1>0. FlowControlIs(side, e.fc)
  BY DEF EndIs
<1>1. CASE \E new : Turns(e, after) /\ Decides(side, e.fc, after.fc, new)
  <2>1. after.outbound = e.outbound /\ after.inbound = e.inbound
    BY <1>1 DEF Turns
  <2> QED
    BY <2>1, <1>1 DEF Remains, Decides
<1>2. CASE \E id \in Ids : FlowEnds(side, e, after, id)
  <2>1. PICK id \in Ids : FlowEnds(side, e, after, id)
    BY <1>2
  <2>2. after.fc = ReleaseFlow(e.fc, id)
    BY <2>1 DEF FlowEnds
  <2>3. \A j : IsDecided(side, after.fc, j) <=> IsDecided(side, e.fc, j)
    BY <2>2, <1>0, ReleaseKeeps
  <2> QED
    BY <2>1, <2>3 DEF Remains, FlowEnds, IsLess
<1>3. CASE \E id \in Ids, mode \in Mode : FlowBegins(side, e, after, id, mode)
  <2>1. PICK id \in Ids, mode \in Mode : FlowBegins(side, e, after, id, mode)
    BY <1>3
  <2>2. PICK mid : Decides(side, e.fc, mid, {id}) /\ after.fc = Register(mid, id, mode)
    BY <2>1 DEF FlowBegins
  <2>3. FlowControlIs(side, mid) /\ IsDecided(side, mid, id) /\ ~IsDecided(side, e.fc, id)
    BY <2>2 DEF Decides
  <2> DEFINE left == after.fc
  <2>4. /\ FlowControlIs(side, left)
        /\ DOMAIN left.registry = DOMAIN mid.registry \cup {id}
        /\ left.registry[id] = [mode |-> mode, associated |-> FALSE]
        /\ \A j \in DOMAIN mid.registry \ {id} : left.registry[j] = mid.registry[j]
        /\ \A j : IsDecided(side, left, j) <=> IsDecided(side, mid, j)
    BY <2>1, <2>2, <2>3, RegisterKeeps
  <2>5. after.inbound = e.inbound
    BY <2>1 DEF FlowBegins
  <2>6. \A j \in DOMAIN after.outbound : j # id =>
          j \in DOMAIN e.outbound /\ after.outbound[j] = e.outbound[j]
    BY <2>1 DEF FlowBegins, Put
  <2>7. \A j \in Ids : IsDecided(side, e.fc, j) => j # id /\ IsDecided(side, after.fc, j)
    BY <2>2, <2>3, <2>4 DEF Decides
  <2> QED
    BY <2>5, <2>6, <2>7 DEF Remains
<1> QED
  BY <1>1, <1>2, <1>3 DEF Effect

\* Only what the hosts admitted of the peer's flows matters to an end.
LEMMA OnlyAdmitted ==
  ASSUME NEW side \in Sides, NEW e, NEW T, NEW adm, EndIs(side, e, T, adm),
         NEW more, \A id \in Ids : id.side # side => more[id] = adm[id]
  PROVE  EndIs(side, e, T, more)
<1>1. \A id \in DOMAIN e.fc.registry : id \in Ids
  BY DEF EndIs, FlowControlIs
<1>2. TellingIs(side, e.fc, T, more)
  BY <1>1 DEF EndIs, TellingIs
<1>3. EndsAreTold(side, e.fc, e.sender, T, adm) => EndsAreTold(side, e.fc, e.sender, T, more)
  BY DEF EndsAreTold, HasEnded
<1> QED
  BY <1>2, <1>3 DEF EndIs

\* The step leaves one end as it should be, its host told Tafter.
LeavesEnd(side, after, Tafter) ==
  /\ end' = [end EXCEPT ![side] = after] /\ told' = [told EXCEPT ![side] = Tafter]
  /\ EndIs(side, after, Tafter, Admitted(history'))
  /\ HistoryIs(history')
  /\ \A id \in Ids : id.side = side => history'[id].admitted = history[id].admitted

\* Then both ends are.
LEMMA EndsRemain ==
  ASSUME ConnectionInv, NEW side \in Sides, NEW after, NEW Tafter,
         LeavesEnd(side, after, Tafter)
  PROVE  /\ end' = [s \in Sides |-> end'[s]] /\ told' = [s \in Sides |-> told'[s]]
         /\ end'[side] = after /\ \A s \in Sides \ {side} : end'[s] = end[s]
         /\ \A s \in Sides : EndIs(s, end'[s], told'[s], Admitted(history'))
<1>1. /\ end' = [s \in Sides |-> end'[s]] /\ told' = [s \in Sides |-> told'[s]]
      /\ end'[side] = after /\ told'[side] = Tafter
      /\ \A s \in Sides \ {side} : end'[s] = end[s] /\ told'[s] = told[s]
  BY DEF ConnectionInv, LeavesEnd
<1>2. ASSUME NEW s \in Sides \ {side}
      PROVE  EndIs(s, end[s], told[s], Admitted(history'))
  <2> DEFINE adm == Admitted(history)
             more == Admitted(history')
  <2>1. EndIs(s, end[s], told[s], adm)
    BY DEF ConnectionInv
  <2>2. \A id \in Ids : id.side # s => more[id] = adm[id]
    BY IdsHave DEF LeavesEnd, Admitted
  <2> HIDE DEF adm, more
  <2>3. EndIs(s, end[s], told[s], more)
    BY <2>1, <2>2, OnlyAdmitted
  <2> QED
    BY <2>3 DEF more
<1> QED
  BY <1>1, <1>2 DEF LeavesEnd

\* The streams stay where they are, whatever is written to them.
StreamsStay ==
  /\ WiresAre' /\ DOMAIN streams' = DOMAIN streams
  /\ \A id \in DOMAIN streams : streams[id].acquired => streams'[id].acquired

\* So does everything else.
LEMMA Stepping ==
  ASSUME ConnectionInv, NEW side \in Sides, NEW after, NEW Tafter,
         LeavesEnd(side, after, Tafter), Remains(side, end[side], after), StreamsStay
  PROVE  ConnectionInv'
<1>1. /\ end' = [s \in Sides |-> end'[s]] /\ told' = [s \in Sides |-> told'[s]]
      /\ end'[side] = after /\ \A s \in Sides \ {side} : end'[s] = end[s]
      /\ \A s \in Sides : EndIs(s, end'[s], told'[s], Admitted(history'))
  BY EndsRemain
<1>2. StreamsAre'
  <2>1. ASSUME NEW id \in DOMAIN streams'
        PROVE  /\ IsDecided(id.side, end'[id.side].fc, id)
               /\ id \in DOMAIN end'[id.side].outbound =>
                    end'[id.side].outbound[id].state # "Acquiring"
    <3>1. id \in DOMAIN streams /\ id \in Ids /\ id.side \in Sides
      BY IdsHave DEF StreamsStay, ConnectionInv, WiresAre
    <3>2. /\ IsDecided(id.side, end[id.side].fc, id)
          /\ id \in DOMAIN end[id.side].outbound =>
               end[id.side].outbound[id].state # "Acquiring"
      BY <3>1 DEF ConnectionInv, StreamsAre
    <3> QED
      BY <1>1, <3>1, <3>2 DEF Remains
  <2>2. ASSUME NEW s \in Sides, NEW id \in DOMAIN end'[s].inbound
        PROVE  id \in DOMAIN streams' /\ streams'[id].acquired
    <3>1. id \in DOMAIN end[s].inbound
      BY <1>1 DEF Remains
    <3> QED
      BY <3>1 DEF ConnectionInv, StreamsAre, StreamsStay
  <2> QED
    BY <2>1, <2>2 DEF StreamsAre
<1> QED
  BY <1>1, <1>2 DEF ConnectionInv, StreamsStay, LeavesEnd

\* Nothing moves between the ends, or one stream does.
LEMMA StreamsStaying ==
  ASSUME ConnectionInv, wire' \in [Sides -> Seq(Frames \ {NoFrame})],
         datagrams' \subseteq [id : Ids, payload : Payloads, index : Index],
         \/ streams' = streams
         \/ \E id, s : /\ streams' = [streams EXCEPT ![id] = s]
                       /\ id \in DOMAIN streams =>
                            StreamIs(s) /\ (streams[id].acquired => s.acquired)
  PROVE  StreamsStay
<1>1. CASE streams' = streams
  BY <1>1 DEF ConnectionInv, WiresAre, StreamsStay
<1>2. CASE \E id, s : /\ streams' = [streams EXCEPT ![id] = s]
                      /\ id \in DOMAIN streams =>
                           StreamIs(s) /\ (streams[id].acquired => s.acquired)
  <2>1. PICK id, s : /\ streams' = [streams EXCEPT ![id] = s]
                     /\ id \in DOMAIN streams =>
                          StreamIs(s) /\ (streams[id].acquired => s.acquired)
    BY <1>2
  <2>2. /\ DOMAIN streams' = DOMAIN streams
        /\ \A j \in DOMAIN streams : streams'[j] = IF j = id THEN s ELSE streams[j]
    BY <2>1
  <2>3. \A j \in DOMAIN streams : StreamIs(streams'[j])
    BY <2>1, <2>2 DEF ConnectionInv, WiresAre
  <2> QED
    BY <2>1, <2>2, <2>3 DEF ConnectionInv, WiresAre, StreamsStay
<1> QED
  BY <1>1, <1>2

\* Nothing at all moves.
LEMMA NothingMoves ==
  ASSUME ConnectionInv, UNCHANGED <<wire, streams, datagrams>>
  PROVE  StreamsStay
BY StreamsStaying DEF ConnectionInv, WiresAre

\* What the host is told of a flow.
TellsOf(id, cause, T, Tafter) ==
  Tafter = IF cause = "None" THEN T
           ELSE [T EXCEPT ![id] = IF @ = "None" THEN cause ELSE "Twice"]

\* So is what Tell makes of it.
LEMMA TellIs ==
  ASSUME ConnectionInv, NEW side \in Sides, NEW id, NEW cause
  PROVE  \E Tafter : /\ TellsOf(id, cause, told[side], Tafter)
                     /\ Tell(side, id, cause) = [told EXCEPT ![side] = Tafter]
<1> DEFINE Tafter == IF cause = "None" THEN told[side]
                     ELSE [told[side] EXCEPT ![id] = IF @ = "None" THEN cause ELSE "Twice"]
<1>1. told = [s \in Sides |-> told[s]]
  BY DEF ConnectionInv
<1>2. Tell(side, id, cause) = [told EXCEPT ![side] = Tafter]
  BY <1>1 DEF Tell
<1> QED
  BY <1>2 DEF TellsOf

\* Where what flow control made of a frame or a decision leads.
LEMMA Routing ==
  ASSUME ConnectionInv, NEW side \in Sides, NEW e, NEW result, Route(side, e, result)
  PROVE  /\ end' = [end EXCEPT ![side] = Routed(side, e, result)]
         /\ \E Tafter : /\ IsRouted(result, told[side], Tafter)
                        /\ told' = [told EXCEPT ![side] = Tafter]
<1>1. CASE result.progress.kind \in {"Send", "Error"}
  <2>1. told' = told /\ told = [told EXCEPT ![side] = told[side]]
    BY <1>1 DEF Route, ConnectionInv
  <2>2. IsRouted(result, told[side], told[side])
    BY <1>1 DEF IsRouted
  <2> QED
    BY <2>1, <2>2 DEF Route
<1>2. CASE result.progress.kind \notin {"Send", "Error"}
  <2>1. told' = Tell(side, result.progress.id, result.progress.cause)
    BY <1>2 DEF Route
  <2>2. PICK Tafter : /\ TellsOf(result.progress.id, result.progress.cause, told[side], Tafter)
                      /\ told' = [told EXCEPT ![side] = Tafter]
    BY <2>1, TellIs
  <2>3. IsRouted(result, told[side], Tafter)
    BY <1>2, <2>2 DEF IsRouted, TellsOf
  <2> QED
    BY <2>2, <2>3 DEF Route
<1> QED
  BY <1>1, <1>2

\* The flow has not been used at all.
IsUnused(flow) == flow.outbound = <<>> /\ flow.by_index = EmptyMap /\ flow.next_exposure = 0

\* An end does nothing to the messages of the flow id: the flow and its bindings stay as
\* they are or go, or the flow has just been decided about and is new.
Calm(side, e, after, id) ==
  /\ IsDecided(side, e.fc, id) => IsDecided(side, after.fc, id)
  /\ id \in DOMAIN after.fc.registry =>
       LET k == KeyOf(side, id)
       IN \/ /\ id \in DOMAIN e.fc.registry
             /\ after.fc.registry[id].associated = e.fc.registry[id].associated
             /\ after.ep.flows[k] = e.ep.flows[k]
          \/ /\ ~IsDecided(side, e.fc, id) /\ ~after.fc.registry[id].associated
             /\ IsUnused(after.ep.flows[k])
  /\ id \in DOMAIN after.outbound =>
       \/ id \in DOMAIN e.outbound /\ after.outbound[id] = e.outbound[id]
       \/ ~IsDecided(side, e.fc, id) /\ after.outbound[id] = NewOutbound
  /\ id \in DOMAIN after.inbound =>
       /\ id \in DOMAIN e.inbound /\ after.inbound[id].next = e.inbound[id].next
       /\ after.inbound[id].associated = e.inbound[id].associated

IsCalm(side) == \A id \in Ids : Calm(side, end[side], end'[side], id)

\* What flow control makes of a frame or a decision moves no messages.
LEMMA EffectIsCalm ==
  ASSUME NEW side \in Sides, NEW e, NEW T, NEW adm, EndIs(side, e, T, adm),
         NEW after, NEW Tafter, NEW more, Effect(side, e, after, T, Tafter, adm, more),
         NEW id \in Ids
  PROVE  Calm(side, e, after, id)
<1> DEFINE k == KeyOf(side, id)
<1>0. FlowControlIs(side, e.fc) /\ (k \in DOMAIN e.ep.flows <=> id \in DOMAIN e.fc.registry)
  BY HasFlow DEF EndIs
<1>1. CASE \E new : Turns(e, after) /\ Decides(side, e.fc, after.fc, new)
  <2>1. after.outbound = e.outbound /\ after.inbound = e.inbound /\ after.ep = e.ep
    BY <1>1 DEF Turns
  <2>2. after.fc.registry = e.fc.registry
        /\ (IsDecided(side, e.fc, id) => IsDecided(side, after.fc, id))
    BY <1>1 DEF Decides
  <2> QED
    BY <2>1, <2>2 DEF Calm
<1>2. CASE \E j \in Ids : FlowEnds(side, e, after, j)
  <2>1. PICK j \in Ids : FlowEnds(side, e, after, j)
    BY <1>2
  <2>2. after.fc = ReleaseFlow(e.fc, j)
    BY <2>1 DEF FlowEnds
  <2>3. /\ DOMAIN after.fc.registry = DOMAIN e.fc.registry \ {j}
        /\ \A i \in DOMAIN after.fc.registry : after.fc.registry[i] = e.fc.registry[i]
        /\ IsDecided(side, after.fc, id) <=> IsDecided(side, e.fc, id)
    BY <2>2, <1>0, ReleaseKeeps
  <2>4. id # j => k # KeyOf(side, j)
    BY KeysDiffer
  <2>5. id \in DOMAIN after.fc.registry => after.ep.flows[k] = e.ep.flows[k]
    BY <2>1, <2>3, <2>4, <1>0 DEF FlowEnds
  <2>6. /\ id \in DOMAIN after.outbound =>
             id \in DOMAIN e.outbound /\ after.outbound[id] = e.outbound[id]
        /\ id \in DOMAIN after.inbound =>
             id \in DOMAIN e.inbound /\ after.inbound[id] = e.inbound[id]
    BY <2>1 DEF FlowEnds, IsLess
  <2> QED
    BY <2>3, <2>5, <2>6 DEF Calm
<1>3. CASE \E j \in Ids, mode \in Mode : FlowBegins(side, e, after, j, mode)
  <2>1. PICK j \in Ids, mode \in Mode : FlowBegins(side, e, after, j, mode)
    BY <1>3
  <2>2. PICK mid : Decides(side, e.fc, mid, {j}) /\ after.fc = Register(mid, j, mode)
    BY <2>1 DEF FlowBegins
  <2>3. /\ FlowControlIs(side, mid) /\ IsDecided(side, mid, j) /\ ~IsDecided(side, e.fc, j)
        /\ mid.registry = e.fc.registry
    BY <2>2 DEF Decides
  <2> DEFINE left == after.fc
  <2>4. /\ DOMAIN left.registry = DOMAIN mid.registry \cup {j}
        /\ left.registry[j] = [mode |-> mode, associated |-> FALSE]
        /\ \A i \in DOMAIN mid.registry \ {j} : left.registry[i] = mid.registry[i]
        /\ \A i : IsDecided(side, left, i) <=> IsDecided(side, mid, i)
    BY <2>1, <2>2, <2>3, RegisterKeeps
  <2>5. IsDecided(side, e.fc, id) => IsDecided(side, after.fc, id)
    BY <2>2, <2>4 DEF Decides
  <2>6. after.ep.flows[KeyOf(side, j)] = NewFlow(mode, PolicyOf[side][mode])
        /\ \A i \in DOMAIN e.ep.flows \ {KeyOf(side, j)} : after.ep.flows[i] = e.ep.flows[i]
    BY <2>1 DEF FlowBegins
  <2>7. CASE id = j
    <3>1. IsUnused(after.ep.flows[k]) /\ ~after.fc.registry[id].associated
      BY <2>4, <2>6, <2>7 DEF IsUnused, NewFlow
    <3>2. id \in DOMAIN after.outbound =>
            \/ id \in DOMAIN e.outbound /\ after.outbound[id] = e.outbound[id]
            \/ after.outbound[id] = NewOutbound
      BY <2>1, <2>7 DEF FlowBegins, Put
    <3>3. after.inbound = e.inbound
      BY <2>1 DEF FlowBegins
    <3> QED
      BY <2>3, <2>5, <2>7, <3>1, <3>2, <3>3 DEF Calm
  <2>8. CASE id # j
    <3>1. k # KeyOf(side, j)
      BY <2>8, KeysDiffer
    <3>2. id \in DOMAIN after.fc.registry =>
            /\ id \in DOMAIN e.fc.registry /\ after.fc.registry[id] = e.fc.registry[id]
            /\ after.ep.flows[k] = e.ep.flows[k]
      BY <2>3, <2>4, <2>6, <2>8, <3>1, <1>0
    <3>3. id \in DOMAIN after.outbound =>
            id \in DOMAIN e.outbound /\ after.outbound[id] = e.outbound[id]
      BY <2>1, <2>8 DEF FlowBegins, Put
    <3>4. after.inbound = e.inbound
      BY <2>1 DEF FlowBegins
    <3> QED
      BY <2>5, <3>2, <3>3, <3>4 DEF Calm
  <2> QED
    BY <2>7, <2>8
<1> QED
  BY <1>1, <1>2, <1>3 DEF Effect

\* An end that keeps its flows, and no further binding, moves none either.
LEMMA StandingIsCalm ==
  ASSUME ConnectionInv, NEW side \in Sides, NEW after, end' = [end EXCEPT ![side] = after],
         after.fc = end[side].fc, after.ep = end[side].ep,
         after.outbound = end[side].outbound,
         \A id \in DOMAIN after.inbound :
           /\ id \in DOMAIN end[side].inbound
           /\ after.inbound[id].next = end[side].inbound[id].next
           /\ after.inbound[id].associated = end[side].inbound[id].associated
  PROVE  IsCalm(side)
<1>1. end'[side] = after
  BY DEF ConnectionInv
<1> QED
  BY <1>1 DEF IsCalm, Calm

\* One end has done what Effect says, after it took up a frame it held back or not.
Affects(side, e, after, Tafter) ==
  /\ EndIs(side, e, told[side], Admitted(history))
  /\ e.phase = "Active" /\ e.sender = NoSend
  /\ e.fc = end[side].fc /\ e.ep = end[side].ep
  /\ e.outbound = end[side].outbound /\ e.inbound = end[side].inbound
  /\ Effect(side, e, after, told[side], Tafter, Admitted(history), Admitted(history'))
  /\ end' = [end EXCEPT ![side] = after] /\ told' = [told EXCEPT ![side] = Tafter]
  /\ HistoryIs(history')
  /\ \A id \in Ids : id.side = side => history'[id].admitted = history[id].admitted

\* Then the connection is as it should be.
LEMMA Affecting ==
  ASSUME ConnectionInv, NEW side \in Sides, NEW e, NEW after, NEW Tafter,
         Affects(side, e, after, Tafter), StreamsStay
  PROVE  ConnectionInv' /\ IsCalm(side)
<1> DEFINE T == told[side]
           adm == Admitted(history)
           more == Admitted(history')
<1>1. /\ EndIs(side, e, T, adm) /\ e.phase = "Active" /\ e.sender = NoSend
      /\ Effect(side, e, after, T, Tafter, adm, more)
  BY DEF Affects
<1> HIDE DEF T, adm, more
<1>2. EndIs(side, after, Tafter, more) /\ Remains(side, e, after)
  BY <1>1, EffectKeeps, EffectRemains
<1>3. Remains(side, end[side], after)
  BY <1>2 DEF Affects, Remains
<1>4. LeavesEnd(side, after, Tafter)
  BY <1>2 DEF Affects, LeavesEnd, more
<1>5. IsCalm(side)
  <2>1. end'[side] = after
    BY DEF Affects, ConnectionInv
  <2>2. \A id \in Ids : Calm(side, e, after, id)
    BY <1>1, EffectIsCalm
  <2> QED
    BY <2>1, <2>2 DEF IsCalm, Calm, Affects
<1> QED
  BY <1>3, <1>4, <1>5, Stepping

\* Only one end changes, and its host is told nothing.
LEMMA Changing ==
  ASSUME ConnectionInv, NEW side \in Sides, NEW after,
         EndIs(side, after, told[side], Admitted(history)),
         Remains(side, end[side], after),
         end' = [end EXCEPT ![side] = after], told' = told, StreamsStay,
         HistoryIs(history'), \A id \in Ids : history'[id].admitted = history[id].admitted
  PROVE  ConnectionInv'
<1>1. told = [told EXCEPT ![side] = told[side]] /\ Admitted(history') = Admitted(history)
  BY DEF ConnectionInv, Admitted
<1>2. LeavesEnd(side, after, told[side])
  BY <1>1 DEF LeavesEnd
<1> QED
  BY <1>2, Stepping

-----------------------------------------------------------------------------
(* Frames and decisions                                                    *)

\* The frames there are.
LEMMA FrameKinds ==
  ASSUME NEW frame \in Frames, frame # NoFrame
  PROVE  /\ frame.type \in {"OpenFlow", "FlowAccept", "FlowReject", "FlowTerminate"}
         /\ frame.type = "OpenFlow" => frame \in OpenFrames
         /\ frame.type = "FlowTerminate" => frame.reason \in Causes
<1>1. CASE frame \in OpenFrames
  <2>1. frame.type = "OpenFlow"
    BY <1>1 DEF OpenFrames, OpenFlow
  <2> QED
    BY <1>1, <2>1
<1>2. CASE \E id \in Ids : frame = FlowAccept(id)
  BY <1>2 DEF FlowAccept
<1>3. CASE \E id \in Ids, reason \in RejectReasons : frame = FlowReject(id, reason)
  BY <1>3 DEF FlowReject
<1>4. CASE \E id \in Ids, cause \in Causes : frame = FlowTerminate(id, cause)
  BY <1>4 DEF FlowTerminate
<1> QED
  BY <1>1, <1>2, <1>3, <1>4 DEF Frames, OpenFrames, Causes

\* A frame is received by an end that is ready.
LEMMA ReceivingFrame ==
  ASSUME NEW side \in Sides, NEW e, NEW T, NEW adm, EndIs(side, e, T, adm),
         e.phase = "Active", e.sender = NoSend, NEW frame \in Frames, frame # NoFrame,
         NEW result, result = ReceiveFrame(side, e.fc, e.ep, frame),
         NEW after, after = Routed(side, e, result), NEW Tafter, IsRouted(result, T, Tafter)
  PROVE  Effect(side, e, after, T, Tafter, adm, adm)
<1>1. /\ frame.type \in {"OpenFlow", "FlowAccept", "FlowReject", "FlowTerminate"}
      /\ frame.type = "OpenFlow" => frame \in OpenFrames
      /\ frame.type = "FlowTerminate" => frame.reason \in Causes
  BY FrameKinds
<1>2. CASE frame.type = "OpenFlow" /\ e.fc.pending_inbound # NoRequest
  <2>1. result = Result(e.fc, e.ep, Error(NoCode))
    BY <1>2 DEF ReceiveFrame
  <2>2. Decides(side, e.fc, e.fc, {})
    BY DEF EndIs, Decides
  <2> QED
    BY <2>1, <2>2, Erring
<1>3. CASE frame.type = "OpenFlow" /\ e.fc.pending_inbound = NoRequest
  <2>1. result = ReceiveOpen(side, e.fc, e.ep, frame) /\ frame \in OpenFrames
    BY <1>1, <1>3 DEF ReceiveFrame
  <2> QED
    BY <2>1, <1>3, ReceivingOpen
<1>4. CASE frame.type = "FlowAccept"
  <2>1. result = ReceiveAccept(side, e.fc, e.ep, frame)
    BY <1>4 DEF ReceiveFrame
  <2> QED
    BY <2>1, ReceivingAccept
<1>5. CASE frame.type = "FlowReject"
  <2>1. result = ReceiveReject(side, e.fc, e.ep, frame)
    BY <1>5 DEF ReceiveFrame
  <2> QED
    BY <2>1, ReceivingReject
<1>6. CASE frame.type = "FlowTerminate"
  <2>1. result = ReceiveTerminate(side, e.fc, e.ep, frame) /\ frame.reason \in Causes
    BY <1>1, <1>6 DEF ReceiveFrame
  <2> QED
    BY <2>1, ReceivingTerminate
<1> QED
  BY <1>1, <1>2, <1>3, <1>4, <1>5, <1>6

\* An end that is ready, or becomes it by taking up what it held back.
TakesUp(side, e) ==
  /\ EndIs(side, e, told[side], Admitted(history))
  /\ e.phase = "Active" /\ e.sender = NoSend
  /\ e.fc = end[side].fc /\ e.ep = end[side].ep
  /\ e.outbound = end[side].outbound /\ e.inbound = end[side].inbound

\* What flow control makes of a frame or a decision leaves the connection as it should be.
LEMMA RoutingKeeps ==
  ASSUME ConnectionInv, NEW side \in Sides, NEW e, TakesUp(side, e), NEW result,
         Route(side, e, result),
         \A Tafter : IsRouted(result, told[side], Tafter) =>
           Effect(side, e, Routed(side, e, result), told[side], Tafter,
                  Admitted(history), Admitted(history')),
         HistoryIs(history'),
         \A id \in Ids : id.side = side => history'[id].admitted = history[id].admitted,
         StreamsStay
  PROVE  ConnectionInv' /\ IsCalm(side)
<1> DEFINE after == Routed(side, e, result)
<1>1. end' = [end EXCEPT ![side] = after]
  BY Routing
<1>2. PICK Tafter : /\ IsRouted(result, told[side], Tafter)
                    /\ told' = [told EXCEPT ![side] = Tafter]
  BY Routing
<1>3. Effect(side, e, after, told[side], Tafter, Admitted(history), Admitted(history'))
  BY <1>2
<1> HIDE DEF after
<1>4. Affects(side, e, after, Tafter)
  BY <1>1, <1>2, <1>3 DEF Affects, TakesUp
<1> QED
  BY <1>4, Affecting

\* An end that is ready takes up nothing.
LEMMA ReadyTakesUp ==
  ASSUME ConnectionInv, NEW side \in Sides, IsReady(end[side])
  PROVE  TakesUp(side, end[side])
BY DEF ConnectionInv, TakesUp, IsReady

\* A host ends a flow that sends datagrams, or has exhausted one.
LEMMA EndingLocally ==
  ASSUME ConnectionInv, NEW side \in Sides, IsReady(end[side]),
         NEW id \in DOMAIN end[side].fc.registry,
         Route(side, end[side], TerminateLocal(side, end[side].fc, end[side].ep, id, "Normal")),
         UNCHANGED <<wire, streams, datagrams, history>>
  PROVE  ConnectionInv' /\ IsCalm(side)
<1> DEFINE e == end[side]
           result == TerminateLocal(side, e.fc, e.ep, id, "Normal")
           adm == Admitted(history)
           T == told[side]
           after == Routed(side, e, result)
<1>1. TakesUp(side, e) /\ StreamsStay
  BY ReadyTakesUp, NothingMoves
<1>2. EndIs(side, e, T, adm) /\ e.phase = "Active" /\ "Normal" \in Causes
  BY <1>1 DEF TakesUp, Causes
<1>3. id \in DOMAIN e.fc.registry /\ Route(side, e, result)
  OBVIOUS
<1>4. ASSUME NEW Tafter, IsRouted(result, T, Tafter)
      PROVE  Effect(side, e, after, T, Tafter, adm, adm)
  <2> HIDE DEF e, adm, T
  <2> QED
    BY <1>2, <1>3, <1>4, TerminatingLocal
<1>5. Admitted(history') = adm /\ HistoryIs(history')
  BY DEF ConnectionInv, Admitted
<1> HIDE DEF e, result
<1> QED
  BY <1>1, <1>3, <1>4, <1>5, RoutingKeeps

\* A host decides against a flow the peer has asked for.
LEMMA RejectIncomingFlowKeeps ==
  ASSUME ConnectionInv, NEW side \in Sides, RejectIncomingFlow(side)
  PROVE  ConnectionInv' /\ IsCalm(side)
<1> DEFINE e == end[side]
           adm == Admitted(history)
           T == told[side]
<1>0. PICK reason \in RejectReasons : Route(side, e, RejectInbound(e.fc, e.ep, reason))
  BY DEF RejectIncomingFlow
<1> DEFINE result == RejectInbound(e.fc, e.ep, reason)
           after == Routed(side, e, result)
<1>1. /\ IsReady(e) /\ e.fc.pending_inbound # NoRequest
      /\ UNCHANGED <<wire, streams, datagrams, history>>
  BY DEF RejectIncomingFlow
<1>2. TakesUp(side, e) /\ StreamsStay
  BY <1>1, ReadyTakesUp, NothingMoves
<1>3. EndIs(side, e, T, adm) /\ e.phase = "Active"
  BY <1>2 DEF TakesUp
<1>4. ASSUME NEW Tafter, IsRouted(result, T, Tafter)
      PROVE  Effect(side, e, after, T, Tafter, adm, adm)
  <2> HIDE DEF e, adm, T
  <2> QED
    BY <1>0, <1>1, <1>3, <1>4, RejectingInbound
<1>5. Admitted(history') = adm /\ HistoryIs(history')
  BY <1>1 DEF ConnectionInv, Admitted
<1>6. \A id \in Ids : id.side = side => history'[id].admitted = history[id].admitted
  BY <1>1
<1> HIDE DEF e, result
<1> QED
  BY <1>0, <1>2, <1>4, <1>5, <1>6, RoutingKeeps DEF result

\* A record of the history changes.
LEMMA HistoryChanges ==
  ASSUME HistoryIs(history), NEW id \in Ids, NEW admitted \in BOOLEAN,
         history' = [history EXCEPT ![id].admitted = admitted]
  PROVE  /\ HistoryIs(history')
         /\ Admitted(history') = [Admitted(history) EXCEPT ![id] = admitted]
         /\ \A j \in Ids \ {id} : history'[j].admitted = history[j].admitted
<1>1. history[id] = [mode |-> history[id].mode, accepted |-> history[id].accepted,
                     admitted |-> history[id].admitted, exposed |-> history[id].exposed]
      /\ DOMAIN history = Ids
  BY DEF HistoryIs
<1>2. history'[id] = [mode |-> history[id].mode, accepted |-> history[id].accepted,
                      admitted |-> admitted, exposed |-> history[id].exposed]
      /\ history' = [history EXCEPT ![id] = history'[id]]
  BY <1>1
<1>3. HistoryIs(history')
  BY <1>1, <1>2 DEF HistoryIs
<1> QED
  BY <1>1, <1>2, <1>3 DEF Admitted

\* A host admits a flow the peer has asked for, if there is room for it.
LEMMA AcceptIncomingFlowKeeps ==
  ASSUME ConnectionInv, NEW side \in Sides, AcceptIncomingFlow(side)
  PROVE  ConnectionInv' /\ IsCalm(side)
<1> DEFINE e == end[side]
           adm == Admitted(history)
           more == Admitted(history')
           T == told[side]
           request == e.fc.pending_inbound
           id == request.id
           result == IF ExceedsStaging(side, request)
                     THEN RejectInbound(e.fc, e.ep, "ResourceLimit")
                     ELSE AcceptInbound(side, e.fc, e.ep)
           after == Routed(side, e, result)
<1>1. /\ IsReady(e) /\ request # NoRequest /\ Route(side, e, result)
      /\ UNCHANGED <<wire, streams, datagrams>>
      /\ history' = [history EXCEPT ![id].admitted = id \in DOMAIN result.fc.registry]
  BY DEF AcceptIncomingFlow
<1>2. TakesUp(side, e) /\ StreamsStay
  BY <1>1, ReadyTakesUp, NothingMoves
<1>3. EndIs(side, e, T, adm) /\ e.phase = "Active" /\ e.sender = NoSend
  BY <1>2 DEF TakesUp
<1>4. FlowControlIs(side, e.fc)
  BY <1>3 DEF EndIs
<1> HIDE DEF e, result, adm, T
<1>5. id \in Ids /\ id.side # side
  BY <1>1, <1>4, FlowControlHas
<1>6. /\ HistoryIs(history') /\ adm \in [Ids -> BOOLEAN]
      /\ more = [adm EXCEPT ![id] = id \in DOMAIN result.fc.registry]
      /\ \A j \in Ids \ {id} : history'[j].admitted = history[j].admitted
  <2> DEFINE admitted == id \in DOMAIN result.fc.registry
  <2>1. HistoryIs(history) /\ id \in Ids /\ admitted \in BOOLEAN
    BY <1>5 DEF ConnectionInv
  <2>2. history' = [history EXCEPT ![id].admitted = admitted]
    BY <1>1
  <2>3. adm \in [Ids -> BOOLEAN]
    BY <2>1 DEF HistoryIs, adm, Admitted
  <2> HIDE DEF admitted, id
  <2>4. /\ HistoryIs(history')
        /\ Admitted(history') = [Admitted(history) EXCEPT ![id] = admitted]
        /\ \A j \in Ids \ {id} : history'[j].admitted = history[j].admitted
    BY <2>1, <2>2, HistoryChanges
  <2> QED
    BY <2>3, <2>4 DEF adm, more, admitted
<1> HIDE DEF more
<1>7. ASSUME NEW Tafter, IsRouted(result, T, Tafter)
      PROVE  Effect(side, e, after, T, Tafter, adm, more)
  <2>1. CASE ExceedsStaging(side, request)
    <3>1. result = RejectInbound(e.fc, e.ep, "ResourceLimit")
          /\ "ResourceLimit" \in RejectReasons
      BY <2>1 DEF result, RejectReasons
    <3>2. /\ Effect(side, e, after, T, Tafter, adm, adm)
          /\ id \notin DOMAIN result.fc.registry
      BY <3>1, <1>1, <1>3, <1>7, RejectingInbound
    <3>3. ~IsDecided(side, e.fc, id)
      <4> DEFINE left == [e.fc EXCEPT !.pending_inbound = NoRequest]
      <4>1. Decides(side, e.fc, left, {id})
        BY <1>1, <1>4, Resolving
      <4> QED
        BY <4>1 DEF Decides
    <3>4. adm[id] = FALSE
      BY <3>3, <1>3, <1>5, <1>6 DEF EndIs, TellingIs
    <3>5. more = adm
      BY <3>2, <3>4, <1>6
    <3> QED
      BY <3>2, <3>5
  <2>2. CASE ~ExceedsStaging(side, request)
    <3>1. result = AcceptInbound(side, e.fc, e.ep)
      BY <2>2 DEF result
    <3> QED
      BY <3>1, <1>1, <1>3, <1>6, <1>7, AcceptingInbound
  <2> QED
    BY <2>1, <2>2
<1>8. \A j \in Ids : j.side = side => history'[j].admitted = history[j].admitted
  BY <1>5, <1>6
<1> QED
  BY <1>1, <1>2, <1>6, <1>7, <1>8, RoutingKeeps DEF T, adm, more

\* A frame that is held back is taken up.
LEMMA ProcessDeferredKeeps ==
  ASSUME ConnectionInv, NEW side \in Sides, ProcessDeferred(side)
  PROVE  ConnectionInv' /\ IsCalm(side)
<1> DEFINE e == end[side]
           taken == [e EXCEPT !.deferred = NoFrame]
           frame == e.deferred
           result == ReceiveFrame(side, e.fc, e.ep, frame)
           adm == Admitted(history)
           T == told[side]
           after == Routed(side, taken, result)
<1>1. /\ frame # NoFrame /\ ~ShouldDefer(e, frame) /\ Route(side, taken, result)
      /\ UNCHANGED <<wire, streams, datagrams, history>>
  BY DEF ProcessDeferred
<1>2. EndIs(side, e, T, adm) /\ e.sender = NoSend
  BY <1>1 DEF ConnectionInv, ShouldDefer
<1>3. e.phase = "Active" /\ frame \in Frames /\ NoFrame \in Frames
  BY <1>1, <1>2, FramesAre DEF EndIs
<1>4. /\ taken.phase = e.phase /\ taken.sender = e.sender /\ taken.fc = e.fc
      /\ taken.ep = e.ep /\ taken.outbound = e.outbound /\ taken.inbound = e.inbound
  BY <1>2 DEF EndIs
<1> HIDE DEF e, taken, adm, T
<1>5. EndIs(side, taken, T, adm)
  <2>1. taken = [e EXCEPT !.deferred = NoFrame]
    BY DEF taken
  <2> QED
    BY <2>1, <1>2, <1>3, Deferring
<1>6. TakesUp(side, taken)
  BY <1>2, <1>3, <1>4, <1>5 DEF TakesUp, T, adm, e
<1>7. result = ReceiveFrame(side, taken.fc, taken.ep, frame)
  BY <1>4
<1> HIDE DEF frame, result
<1>8. ASSUME NEW Tafter, IsRouted(result, T, Tafter)
      PROVE  Effect(side, taken, after, T, Tafter, adm, adm)
  <2>1. taken.phase = "Active" /\ taken.sender = NoSend
    BY <1>2, <1>3, <1>4
  <2> QED
    BY <2>1, <1>1, <1>3, <1>5, <1>7, <1>8, ReceivingFrame
<1>9. /\ Admitted(history') = adm /\ HistoryIs(history') /\ StreamsStay
      /\ \A id \in Ids : id.side = side => history'[id].admitted = history[id].admitted
  BY <1>1, NothingMoves DEF ConnectionInv, Admitted, adm
<1> QED
  BY <1>1, <1>6, <1>8, <1>9, RoutingKeeps DEF T, adm

\* A frame arrives.
LEMMA ReceiveControlKeeps ==
  ASSUME ConnectionInv, NEW side \in Sides, ReceiveControl(side)
  PROVE  ConnectionInv' /\ IsCalm(side)
<1> DEFINE e == end[side]
           peer == Other(side)
           frame == Head(wire[peer])
           result == ReceiveFrame(side, e.fc, e.ep, frame)
           adm == Admitted(history)
           T == told[side]
           after == Routed(side, e, result)
<1>1. /\ e.phase = "Active" /\ wire[peer] # <<>>
      /\ wire' = [wire EXCEPT ![peer] = Tail(@)]
      /\ UNCHANGED <<streams, datagrams, history>>
  BY DEF ReceiveControl
<1>2. EndIs(side, e, T, adm) /\ peer \in Sides
  BY IdsHave DEF ConnectionInv
<1>3. wire \in [Sides -> Seq(Frames \ {NoFrame})]
  BY DEF ConnectionInv, WiresAre
<1>4. frame \in Frames /\ frame # NoFrame /\ Tail(wire[peer]) \in Seq(Frames \ {NoFrame})
  BY <1>1, <1>2, <1>3
<1>5. /\ Admitted(history') = adm /\ HistoryIs(history') /\ StreamsStay
      /\ \A id \in Ids : history'[id].admitted = history[id].admitted
  <2>1. wire' \in [Sides -> Seq(Frames \ {NoFrame})]
    BY <1>1, <1>2, <1>3, <1>4
  <2>2. StreamsStay
    BY <2>1, <1>1, StreamsStaying DEF ConnectionInv, WiresAre
  <2> QED
    BY <2>2, <1>1 DEF ConnectionInv, Admitted, adm
<1>6. CASE ShouldDefer(e, frame)
  <2> DEFINE held == [e EXCEPT !.deferred = frame]
  <2>1. end' = [end EXCEPT ![side] = held] /\ told' = told
    BY <1>6 DEF ReceiveControl
  <2>2. /\ held.fc = e.fc /\ held.outbound = e.outbound /\ held.inbound = e.inbound
        /\ held.ep = e.ep
    BY <1>2 DEF EndIs
  <2> HIDE DEF e, frame, T, adm
  <2>3. EndIs(side, held, T, adm)
    BY <1>1, <1>2, <1>4, Deferring
  <2>4. Remains(side, end[side], held)
    BY <2>2 DEF Remains, e
  <2> HIDE DEF held
  <2>5. IsCalm(side)
    BY <2>1, <2>2, StandingIsCalm DEF e
  <2> QED
    BY <2>1, <2>3, <2>4, <2>5, <1>5, Changing DEF T, adm
<1>7. CASE ~ShouldDefer(e, frame)
  <2>1. Route(side, e, result) /\ e.sender = NoSend
    BY <1>7 DEF ReceiveControl, ShouldDefer
  <2>2. TakesUp(side, e)
    BY <2>1, <1>1, <1>2 DEF TakesUp
  <2> HIDE DEF e, frame, T, adm
  <2>3. ASSUME NEW Tafter, IsRouted(result, T, Tafter)
        PROVE  Effect(side, e, after, T, Tafter, adm, adm)
    BY <2>1, <2>3, <1>1, <1>2, <1>4, ReceivingFrame
  <2> HIDE DEF result
  <2> QED
    BY <2>1, <2>2, <2>3, <1>5, RoutingKeeps DEF T, adm
<1> QED
  BY <1>6, <1>7

\* What the host is told when the frame in the slot is written, or given up.
LEMMA ToldOfSlot ==
  ASSUME ConnectionInv, NEW side \in Sides,
         told' = Tell(side, end[side].sender.frame.id, end[side].sender.cause)
  PROVE  \E Tafter : /\ IsToldOf(end[side].sender, told[side], Tafter)
                     /\ told' = [told EXCEPT ![side] = Tafter]
<1> DEFINE sender == end[side].sender
           T == told[side]
<1>1. PICK Tafter : /\ TellsOf(sender.frame.id, sender.cause, T, Tafter)
                    /\ told' = [told EXCEPT ![side] = Tafter]
  BY TellIs
<1>2. sender.cause # "None" => sender.frame.id \in Ids /\ T[sender.frame.id] = "None"
  BY DEF ConnectionInv, EndIs, ReportIs
<1>3. T \in [Ids -> {"None", "Rejected"} \cup Causes]
  BY DEF ConnectionInv, EndIs, TellingIs
<1> HIDE DEF sender, T
<1>4. IsToldOf(sender, T, Tafter)
  BY <1>1, <1>2, <1>3 DEF TellsOf, IsToldOf
<1> QED
  BY <1>1, <1>4 DEF sender, T

\* A frame is written, and the host told of its effect.
LEMMA CompleteControlSendKeeps ==
  ASSUME ConnectionInv, NEW side \in Sides, CompleteControlSend(side)
  PROVE  ConnectionInv' /\ IsCalm(side)
<1> DEFINE e == end[side]
           adm == Admitted(history)
           T == told[side]
           after == [e EXCEPT !.sender = NoSend]
<1>1. /\ e.sender # NoSend /\ end' = [end EXCEPT ![side] = after]
      /\ wire' = [wire EXCEPT ![side] =
                    IF end[Other(side)].phase = "Active" THEN Append(@, e.sender.frame) ELSE @]
      /\ told' = Tell(side, e.sender.frame.id, e.sender.cause)
      /\ UNCHANGED <<streams, datagrams, history>>
  BY DEF CompleteControlSend, ConnectionInv
<1>2. EndIs(side, e, T, adm)
  BY DEF ConnectionInv
<1>3. PICK Tafter : /\ IsToldOf(e.sender, T, Tafter)
                    /\ told' = [told EXCEPT ![side] = Tafter]
  BY <1>1, ToldOfSlot
<1>4. e.sender.frame \in Frames \ {NoFrame}
  <2>1. /\ e.sender = [frame |-> e.sender.frame, cause |-> e.sender.cause]
        /\ e.sender.frame \in Frames
        /\ e.sender.cause # "None" =>
             e.sender.frame = FlowTerminate(e.sender.frame.id, e.sender.cause)
    BY <1>2 DEF EndIs, ReportIs
  <2>2. e.sender.cause # "None" => e.sender.frame.type = "FlowTerminate"
    BY <2>1 DEF FlowTerminate
  <2>3. e.sender.cause = "None" => e.sender.frame # NoFrame
    BY <2>1, <1>1 DEF NoSend
  <2> QED
    BY <2>1, <2>2, <2>3 DEF NoFrame
<1>5. StreamsStay
  <2>1. wire \in [Sides -> Seq(Frames \ {NoFrame})]
    BY DEF ConnectionInv, WiresAre
  <2> HIDE DEF e
  <2>2. Append(wire[side], e.sender.frame) \in Seq(Frames \ {NoFrame})
    BY <2>1, <1>4
  <2>3. wire' \in [Sides -> Seq(Frames \ {NoFrame})]
    BY <2>1, <2>2, <1>1
  <2> QED
    BY <2>3, <1>1, StreamsStaying DEF ConnectionInv, WiresAre
<1>6. /\ after.fc = e.fc /\ after.outbound = e.outbound /\ after.inbound = e.inbound
      /\ after.ep = e.ep
  BY <1>2 DEF EndIs
<1>7. HistoryIs(history') /\ Admitted(history') = adm
  BY <1>1 DEF ConnectionInv, Admitted
<1>8. \A id \in Ids : history'[id].admitted = history[id].admitted
  BY <1>1
<1> HIDE DEF e, adm, T
<1>9. EndIs(side, after, Tafter, adm)
  BY <1>2, <1>3, Sending
<1>10. Remains(side, end[side], after)
  BY <1>6 DEF Remains, e
<1> HIDE DEF after
<1>11. LeavesEnd(side, after, Tafter)
  BY <1>1, <1>3, <1>7, <1>8, <1>9 DEF LeavesEnd
<1>12. IsCalm(side)
  BY <1>1, <1>6, StandingIsCalm DEF e
<1> QED
  BY <1>5, <1>10, <1>11, <1>12, Stepping

-----------------------------------------------------------------------------
(* The end of the connection                                               *)

\* An end that is over remains what it was.
LEMMA OverKeeps ==
  ASSUME ConnectionInv, NEW side \in Sides, end[side].phase = "Active",
         NEW after, Stops(end[side], after), end' = [end EXCEPT ![side] = after],
         \/ told' = told
         \/ told' = Tell(side, end[side].sender.frame.id, end[side].sender.cause),
         UNCHANGED history, StreamsStay
  PROVE  ConnectionInv' /\ IsCalm(side)
<1> DEFINE e == end[side]
           adm == Admitted(history)
           T == told[side]
<1>1. PICK Tafter : /\ Tafter = T \/ IsToldOf(e.sender, T, Tafter)
                    /\ told' = [told EXCEPT ![side] = Tafter]
  <2>1. CASE told' = told
    BY <2>1 DEF ConnectionInv
  <2>2. CASE told' = Tell(side, e.sender.frame.id, e.sender.cause)
    BY <2>2, ToldOfSlot
  <2> QED
    BY <2>1, <2>2
<1>2. EndIs(side, e, T, adm) /\ e.phase = "Active" /\ Stops(e, after)
  BY DEF ConnectionInv
<1>3. HistoryIs(history') /\ Admitted(history') = adm
  BY DEF ConnectionInv, Admitted
<1>4. \A id \in Ids : history'[id].admitted = history[id].admitted
  OBVIOUS
<1>5. Remains(side, end[side], after)
  <2>1. after.fc = e.fc /\ after.outbound = e.outbound
    BY <1>2 DEF Stops
  <2>2. DOMAIN after.inbound \subseteq DOMAIN e.inbound
    BY <1>2 DEF Stops, Drop, Restrict
  <2> QED
    BY <2>1, <2>2 DEF Remains
<1>6. IsCalm(side)
  <2>1. after.fc = e.fc /\ after.ep = e.ep /\ after.outbound = e.outbound
    BY <1>2 DEF Stops
  <2>2. \A id \in DOMAIN after.inbound :
          id \in DOMAIN e.inbound /\ after.inbound[id] = e.inbound[id]
    BY <1>2 DEF Stops, Drop, Restrict
  <2> QED
    BY <2>1, <2>2, StandingIsCalm
<1> HIDE DEF e, adm, T
<1>7. EndIs(side, after, Tafter, adm)
  BY <1>1, <1>2, Stopping
<1>8. LeavesEnd(side, after, Tafter)
  BY <1>1, <1>3, <1>4, <1>7 DEF LeavesEnd
<1> QED
  BY <1>5, <1>6, <1>8, Stepping

\* What waits in an end that becomes over is dropped.
LEMMA EnteringIs ==
  ASSUME NEW e, e = [phase |-> e.phase, sender |-> e.sender, deferred |-> e.deferred,
                     ended |-> e.ended, fc |-> e.fc, ep |-> e.ep,
                     outbound |-> e.outbound, inbound |-> e.inbound],
         NEW phase, NEW code
  PROVE  EnterTerminal(e, phase, code) =
           [phase |-> phase, sender |-> NoSend, deferred |-> NoFrame,
            ended |-> phase = "Failed" /\ code = NoCode,
            fc |-> e.fc, ep |-> e.ep, outbound |-> e.outbound, inbound |-> e.inbound]
<1> DEFINE over == phase = "Failed" /\ code = NoCode
           d1 == [e EXCEPT !.phase = phase]
           d2 == [d1 EXCEPT !.sender = NoSend]
           d3 == [d2 EXCEPT !.deferred = NoFrame]
<1>1. EnterTerminal(e, phase, code) = [d3 EXCEPT !.ended = over]
  BY DEF EnterTerminal
<1> HIDE DEF over
<1>2. d1 = [phase |-> phase, sender |-> e.sender, deferred |-> e.deferred,
            ended |-> e.ended, fc |-> e.fc, ep |-> e.ep,
            outbound |-> e.outbound, inbound |-> e.inbound]
  OBVIOUS
<1> HIDE DEF d1
<1>3. d2 = [phase |-> phase, sender |-> NoSend, deferred |-> e.deferred,
            ended |-> e.ended, fc |-> e.fc, ep |-> e.ep,
            outbound |-> e.outbound, inbound |-> e.inbound]
  BY ONLY <1>2
<1> HIDE DEF d2
<1>4. d3 = [phase |-> phase, sender |-> NoSend, deferred |-> NoFrame,
            ended |-> e.ended, fc |-> e.fc, ep |-> e.ep,
            outbound |-> e.outbound, inbound |-> e.inbound]
  BY ONLY <1>3
<1> HIDE DEF d3
<1>5. [d3 EXCEPT !.ended = over] =
        [phase |-> phase, sender |-> NoSend, deferred |-> NoFrame, ended |-> over,
         fc |-> e.fc, ep |-> e.ep, outbound |-> e.outbound, inbound |-> e.inbound]
  BY ONLY <1>4
<1> QED
  BY <1>1, <1>5 DEF over

\* That is how an end becomes over.
LEMMA EnteringTerminal ==
  ASSUME NEW side \in Sides, NEW e, NEW T, NEW adm, EndIs(side, e, T, adm),
         NEW phase \in {"PeerClosed", "Failed"}, NEW code, NEW after,
         \/ after = EnterTerminal(e, phase, code)
         \/ /\ phase = "Failed"
            /\ \E id : after = EnterTerminal([e EXCEPT !.inbound = Drop(@, {id})], phase, code)
  PROVE  Stops(e, after)
<1>1. e = [phase |-> e.phase, sender |-> e.sender, deferred |-> e.deferred,
           ended |-> e.ended, fc |-> e.fc, ep |-> e.ep,
           outbound |-> e.outbound, inbound |-> e.inbound]
  BY DEF EndIs
<1> DEFINE over == phase = "Failed" /\ code = NoCode
<1>2. ASSUME NEW inbound, NEW d, d = [e EXCEPT !.inbound = inbound]
      PROVE  EnterTerminal(d, phase, code) =
               [phase |-> phase, sender |-> NoSend, deferred |-> NoFrame, ended |-> over,
                fc |-> e.fc, ep |-> e.ep, outbound |-> e.outbound, inbound |-> inbound]
  <2>1. d = [phase |-> e.phase, sender |-> e.sender, deferred |-> e.deferred,
             ended |-> e.ended, fc |-> e.fc, ep |-> e.ep,
             outbound |-> e.outbound, inbound |-> inbound]
    BY ONLY <1>1, <1>2
  <2>2. /\ d.fc = e.fc /\ d.ep = e.ep /\ d.outbound = e.outbound /\ d.inbound = inbound
        /\ d = [phase |-> d.phase, sender |-> d.sender, deferred |-> d.deferred,
                ended |-> d.ended, fc |-> d.fc, ep |-> d.ep,
                outbound |-> d.outbound, inbound |-> d.inbound]
    BY ONLY <2>1
  <2> QED
    BY <2>2, EnteringIs
<1> HIDE DEF over
<1>3. CASE after = EnterTerminal(e, phase, code)
  <2>1. e = [e EXCEPT !.inbound = e.inbound]
    BY ONLY <1>1
  <2>2. after = [phase |-> phase, sender |-> NoSend, deferred |-> NoFrame, ended |-> over,
                 fc |-> e.fc, ep |-> e.ep, outbound |-> e.outbound, inbound |-> e.inbound]
    BY <1>2, <1>3, <2>1
  <2> QED
    BY <2>2 DEF Stops
<1>4. CASE /\ phase = "Failed"
           /\ \E id : after = EnterTerminal([e EXCEPT !.inbound = Drop(@, {id})], phase, code)
  <2>1. PICK id : after = EnterTerminal([e EXCEPT !.inbound = Drop(@, {id})], phase, code)
    BY <1>4
  <2> DEFINE inbound == Drop(e.inbound, {id})
             d == [e EXCEPT !.inbound = inbound]
  <2>2. after = EnterTerminal(d, phase, code)
    BY <2>1
  <2>3. d = [e EXCEPT !.inbound = inbound]
    OBVIOUS
  <2> HIDE DEF d, inbound
  <2>4. after = [phase |-> phase, sender |-> NoSend, deferred |-> NoFrame, ended |-> over,
                 fc |-> e.fc, ep |-> e.ep, outbound |-> e.outbound, inbound |-> inbound]
    BY <1>2, <2>2, <2>3
  <2> QED
    BY <2>4, <1>4 DEF Stops, inbound
<1> QED
  BY <1>3, <1>4

\* Whoever sees it.
LEMMA EndedKeeps ==
  ASSUME ConnectionInv, NEW side \in Sides, NEW ending,
         \/ EndedOnReceive(side, ending)
         \/ EndedOnSend(side, ending)
         \/ EndedOnData(side, ending)
  PROVE  ConnectionInv' /\ IsCalm(side)
<1> DEFINE e == end[side]
           after == EnterTerminal(e, PhaseOf(ending), CodeOf(ending))
<1>1. /\ Ended(side, ending)
      /\ told' = told \/ told' = Tell(side, e.sender.frame.id, e.sender.cause)
  BY DEF EndedOnReceive, EndedOnSend, EndedOnData
<1>2. /\ e.phase = "Active" /\ end' = [end EXCEPT ![side] = after]
      /\ UNCHANGED <<wire, streams, datagrams, history>>
  BY <1>1 DEF Ended
<1>3. PhaseOf(ending) \in {"PeerClosed", "Failed"}
  BY DEF PhaseOf
<1>4. EndIs(side, e, told[side], Admitted(history))
  BY DEF ConnectionInv
<1>5. Stops(e, after)
  <2> HIDE DEF e
  <2> QED
    BY <1>3, <1>4, EnteringTerminal
<1> HIDE DEF after
<1> QED
  BY <1>1, <1>2, <1>5, NothingMoves, OverKeeps

\* The transport is lost: nothing changes yet.
LEMMA LoseTransportKeeps ==
  ASSUME ConnectionInv, LoseTransport
  PROVE  ConnectionInv'
BY DEF ConnectionInv, LoseTransport, WiresAre, StreamsAre, HistoryIs, Admitted

-----------------------------------------------------------------------------
(* What hosts ask for                                                      *)

\* One end moves on, and its flows stay.
LEMMA MovingKeeps ==
  ASSUME ConnectionInv, NEW side \in Sides, NEW after, MovesOn(end[side], after),
         end' = [end EXCEPT ![side] = after], told' = told, StreamsStay,
         HistoryIs(history'), \A id \in Ids : history'[id].admitted = history[id].admitted
  PROVE  ConnectionInv'
<1> DEFINE e == end[side]
           T == told[side]
           adm == Admitted(history)
<1>1. EndIs(side, e, T, adm) /\ MovesOn(e, after)
  BY DEF ConnectionInv
<1>2. Remains(side, end[side], after)
  BY DEF MovesOn, SameBindings, Remains
<1> HIDE DEF e, T, adm
<1>3. EndIs(side, after, T, adm)
  BY <1>1, MovingOn
<1> QED
  BY <1>2, <1>3, Changing DEF T, adm

\* Only the delivery endpoint changes, and its flows stay.
LEMMA EndpointMovesOn ==
  ASSUME NEW side \in Sides, NEW e, NEW T, NEW adm, EndIs(side, e, T, adm),
         NEW ep, EndpointInv(ep), NEW k, OnlyFlow(e.ep, ep, k),
         NEW after, after = [e EXCEPT !.ep = ep]
  PROVE  MovesOn(e, after) /\ after.ep = ep
<1>1. /\ after = [phase |-> e.phase, sender |-> e.sender, deferred |-> e.deferred,
                  ended |-> e.ended, fc |-> e.fc, ep |-> ep,
                  outbound |-> e.outbound, inbound |-> e.inbound]
  BY DEF EndIs
<1>2. SameFlows(e.ep, ep)
  BY DEF SameFlows, OnlyFlow
<1>3. SameBindings(e, after)
  BY <1>1 DEF SameBindings, EndIs, OutboundIs, InboundIs
<1> QED
  BY <1>1, <1>2, <1>3 DEF MovesOn

\* What is known of a flow changes, and not whether it was admitted.
LEMMA HistoryMoves ==
  ASSUME HistoryIs(history), NEW id \in Ids,
         \/ \E mode \in Mode : history' = [history EXCEPT ![id].mode = mode]
         \/ history' = [history EXCEPT ![id].accepted = @ + 1]
         \/ \E exposed : history' = [history EXCEPT ![id].exposed = exposed]
         \/ history' = history
  PROVE  HistoryIs(history') /\ \A j \in Ids : history'[j].admitted = history[j].admitted
<1> DEFINE h == history[id]
<1>1. /\ h = [mode |-> h.mode, accepted |-> h.accepted, admitted |-> h.admitted,
              exposed |-> h.exposed]
      /\ h.mode \in Mode \cup {"None"} /\ h.accepted \in Nat /\ h.admitted \in BOOLEAN
      /\ DOMAIN history = Ids
  BY DEF HistoryIs
<1>2. ASSUME NEW mode \in Mode \cup {"None"}, NEW accepted \in Nat, NEW exposed,
             history' = [history EXCEPT ![id] =
               [mode |-> mode, accepted |-> accepted, admitted |-> h.admitted,
                exposed |-> exposed]]
      PROVE  HistoryIs(history') /\ \A j \in Ids : history'[j].admitted = history[j].admitted
  BY <1>1, <1>2 DEF HistoryIs
<1>3. CASE \E mode \in Mode : history' = [history EXCEPT ![id].mode = mode]
  <2>1. PICK mode \in Mode : history' = [history EXCEPT ![id].mode = mode]
    BY <1>3
  <2>2. history' = [history EXCEPT ![id] =
          [mode |-> mode, accepted |-> h.accepted, admitted |-> h.admitted,
           exposed |-> h.exposed]]
    BY <1>1, <2>1
  <2> HIDE DEF h
  <2> QED
    BY <1>1, <1>2, <2>2
<1>4. CASE history' = [history EXCEPT ![id].accepted = @ + 1]
  <2>1. history' = [history EXCEPT ![id] =
          [mode |-> h.mode, accepted |-> h.accepted + 1, admitted |-> h.admitted,
           exposed |-> h.exposed]]
    BY <1>1, <1>4
  <2>2. h.accepted + 1 \in Nat
    BY <1>1
  <2> HIDE DEF h
  <2> QED
    BY <1>1, <1>2, <2>1, <2>2
<1>5. CASE \E exposed : history' = [history EXCEPT ![id].exposed = exposed]
  <2>1. PICK exposed : history' = [history EXCEPT ![id].exposed = exposed]
    BY <1>5
  <2>2. history' = [history EXCEPT ![id] =
          [mode |-> h.mode, accepted |-> h.accepted, admitted |-> h.admitted,
           exposed |-> exposed]]
    BY <1>1, <2>1
  <2> HIDE DEF h
  <2> QED
    BY <1>1, <1>2, <2>2
<1>6. CASE history' = history
  BY <1>6
<1> QED
  BY <1>3, <1>4, <1>5, <1>6

\* A host asks the peer for a flow.
LEMMA OpenOutboundFlowKeeps ==
  ASSUME ConnectionInv, NEW side \in Sides, NEW mode \in Mode, OpenOutboundFlow(side, mode)
  PROVE  ConnectionInv' /\ IsCalm(side)
<1> DEFINE e == end[side]
           T == told[side]
           adm == Admitted(history)
           id == FlowId(side, e.fc.local_flow_ids)
           open == PrepareOutboundOpen(side, e.fc, mode)
           left == open.fc
           frame == open.frame
           mid == [e EXCEPT !.fc = left]
           after == StartSend(mid, frame, "None")
<1>1. /\ IsReady(e) /\ CanOpen(side, e.fc, e.ep, mode)
      /\ end' = [end EXCEPT ![side] = after]
      /\ history' = [history EXCEPT ![id].mode = mode]
      /\ UNCHANGED <<wire, streams, datagrams, closed, told>>
  BY DEF OpenOutboundFlow
<1>2. TakesUp(side, e) /\ StreamsStay
  BY <1>1, ReadyTakesUp, NothingMoves
<1>3. EndIs(side, e, T, adm) /\ e.phase = "Active" /\ e.sender = NoSend
  BY <1>2 DEF TakesUp
<1>4. IsUsable(side, mode) /\ e.fc.local_flow_ids <= LastFlow
  BY <1>1 DEF CanOpen, IsUsable
<1>5. Decides(side, e.fc, left, {}) /\ id \in Ids
  <2>1. FlowControlIs(side, e.fc)
    BY <1>3 DEF EndIs
  <2> QED
    BY <2>1, <1>4, Asking
<1>6. frame \in Frames
  <2>1. frame = OpenFlow(id, mode, PolicyOf[side][mode].message_bytes) /\ id.side = side
    BY DEF PrepareOutboundOpen, FlowId
  <2>2. frame \in OpenFrames
    BY <2>1, <1>5 DEF OpenFrames
  <2> QED
    BY <2>2, FramesAre
<1> HIDE DEF e, left, frame, id
<1>7. after = [phase |-> e.phase, sender |-> [frame |-> frame, cause |-> "None"],
               deferred |-> e.deferred, ended |-> e.ended, fc |-> left, ep |-> e.ep,
               outbound |-> e.outbound, inbound |-> e.inbound]
  <2>1. mid = [phase |-> e.phase, sender |-> e.sender, deferred |-> e.deferred,
               ended |-> e.ended, fc |-> left, ep |-> e.ep,
               outbound |-> e.outbound, inbound |-> e.inbound]
    BY <1>3 DEF EndIs
  <2> HIDE DEF mid
  <2> QED
    BY ONLY <2>1 DEF StartSend
<1> HIDE DEF after, T, adm
<1>8. Turns(e, after) /\ Decides(side, e.fc, after.fc, {}) /\ IsSettled(side, after, {}, T, T)
  BY <1>3, <1>5, <1>6, <1>7 DEF Turns, IsSettled, Phases
<1>9. HistoryIs(history') /\ \A j \in Ids : history'[j].admitted = history[j].admitted
  BY <1>1, <1>5, HistoryMoves DEF ConnectionInv
<1>10. Admitted(history') = adm
  BY <1>9 DEF Admitted, adm
<1>11. told' = [told EXCEPT ![side] = T]
  BY <1>1 DEF ConnectionInv, T
<1>12. Effect(side, e, after, T, T, adm, Admitted(history'))
  BY <1>8, <1>10 DEF Effect
<1>13. Affects(side, e, after, T)
  BY <1>1, <1>2, <1>9, <1>11, <1>12 DEF Affects, TakesUp, T, adm
<1> QED
  BY <1>2, <1>13, Affecting

\* A stream stays one, and stays acquired, whatever is written, read, or said of its end.
LEMMA StreamMoves ==
  ASSUME NEW s, StreamIs(s)
  PROVE  /\ StreamIs(Acquired(s)) /\ Acquired(s).acquired
         /\ \A chunk \in Chunks :
              StreamIs(Written(s, chunk)) /\ Written(s, chunk).acquired = s.acquired
         /\ StreamIs(Finished(s)) /\ Finished(s).acquired = s.acquired
         /\ StreamIs(WasReset(s)) /\ WasReset(s).acquired = s.acquired
         /\ s.data # <<>> => StreamIs(Consumed(s)) /\ Consumed(s).acquired = s.acquired
         /\ StreamIs(Stopped(s)) /\ Stopped(s).acquired = s.acquired
<1>1. /\ s = [data |-> s.data, end |-> s.end, stopped |-> s.stopped, acquired |-> s.acquired]
      /\ s.data \in Seq(Chunks)
  BY DEF StreamIs
<1> DEFINE yes == TRUE
<1> HIDE DEF yes
<1>2. StreamIs(Acquired(s)) /\ Acquired(s).acquired
  <2> DEFINE r == [s EXCEPT !.acquired = yes]
  <2>1. r = [data |-> s.data, end |-> s.end, stopped |-> s.stopped, acquired |-> yes]
    BY <1>1
  <2> HIDE DEF r
  <2>2. r.data = s.data /\ r.acquired = yes
        /\ r = [data |-> r.data, end |-> r.end, stopped |-> r.stopped, acquired |-> r.acquired]
    BY ONLY <2>1
  <2>3. Acquired(s) = r
    BY DEF Acquired, r, yes
  <2>4. StreamIs(r)
    BY <1>1, <2>2 DEF StreamIs
  <2>5. r.acquired
    BY <2>2 DEF yes
  <2> QED
    BY <2>3, <2>4, <2>5
<1>3. ASSUME NEW chunk \in Chunks
      PROVE  StreamIs(Written(s, chunk)) /\ Written(s, chunk).acquired = s.acquired
  <2>1. Append(s.data, chunk) \in Seq(Chunks)
    BY <1>1
  <2> DEFINE data == Append(s.data, chunk)
  <2>2. [s EXCEPT !.data = data] = [data |-> data, end |-> s.end, stopped |-> s.stopped,
                                    acquired |-> s.acquired]
    BY <1>1
  <2>3. Written(s, chunk) = IF s.stopped THEN s ELSE [s EXCEPT !.data = data]
    BY DEF Written
  <2> HIDE DEF data
  <2> QED
    BY <1>1, <2>1, <2>2, <2>3 DEF StreamIs, data
<1>4. StreamIs(Finished(s)) /\ Finished(s).acquired = s.acquired
  BY <1>1 DEF StreamIs, Finished
<1>5. StreamIs(WasReset(s)) /\ WasReset(s).acquired = s.acquired
  BY <1>1 DEF StreamIs, WasReset
<1>6. ASSUME s.data # <<>>
      PROVE  StreamIs(Consumed(s)) /\ Consumed(s).acquired = s.acquired
  <2>1. Tail(s.data) \in Seq(Chunks)
    BY <1>1, <1>6
  <2> DEFINE data == Tail(s.data)
  <2> HIDE DEF data
  <2>2. [s EXCEPT !.data = data] = [data |-> data, end |-> s.end, stopped |-> s.stopped,
                                    acquired |-> s.acquired]
    BY <1>1
  <2>3. Consumed(s) = [s EXCEPT !.data = data]
    BY DEF Consumed, data
  <2> QED
    BY <2>1, <2>2, <2>3 DEF StreamIs, data
<1>7. StreamIs(Stopped(s)) /\ Stopped(s).acquired = s.acquired
  <2>1. <<>> \in Seq(Chunks)
    OBVIOUS
  <2> DEFINE m == [s EXCEPT !.stopped = yes]
  <2>2. m = [data |-> s.data, end |-> s.end, stopped |-> yes, acquired |-> s.acquired]
    BY <1>1
  <2>3. Stopped(s) = [m EXCEPT !.data = <<>>]
    BY DEF Stopped, yes
  <2> HIDE DEF m
  <2>4. Stopped(s) = [data |-> <<>>, end |-> s.end, stopped |-> yes, acquired |-> s.acquired]
    BY <2>2, <2>3
  <2> QED
    BY <2>1, <2>4 DEF StreamIs
<1> QED
  BY <1>2, <1>3, <1>4, <1>5, <1>6, <1>7

\* Something becomes of one stream.
OneStreamMoves(id) ==
  \/ \E chunk \in Chunks : streams' = [streams EXCEPT ![id] = Written(@, chunk)]
  \/ streams' = [streams EXCEPT ![id] = Finished(@)]
  \/ streams' = [streams EXCEPT ![id] = WasReset(@)]
  \/ streams[id].data # <<>> /\ streams' = [streams EXCEPT ![id] = Consumed(@)]
  \/ streams' = [streams EXCEPT ![id] = Stopped(@)]
  \/ streams' = streams

\* Then all of them stay where they are.
LEMMA StreamMoving ==
  ASSUME ConnectionInv, NEW id, OneStreamMoves(id), UNCHANGED <<wire, datagrams>>
  PROVE  StreamsStay
<1>1. /\ wire' \in [Sides -> Seq(Frames \ {NoFrame})]
      /\ datagrams' \subseteq [id : Ids, payload : Payloads, index : Index]
  BY DEF ConnectionInv, WiresAre
<1>2. \/ streams' = streams
      \/ \E s : /\ streams' = [streams EXCEPT ![id] = s]
                /\ id \in DOMAIN streams => StreamIs(s) /\ (streams[id].acquired => s.acquired)
  <2>1. id \in DOMAIN streams => StreamIs(streams[id])
    BY DEF ConnectionInv, WiresAre
  <2>2. CASE \E chunk \in Chunks : streams' = [streams EXCEPT ![id] = Written(@, chunk)]
    <3>1. PICK chunk \in Chunks : streams' = [streams EXCEPT ![id] = Written(@, chunk)]
      BY <2>2
    <3> DEFINE s == Written(streams[id], chunk)
    <3>2. id \in DOMAIN streams => StreamIs(s) /\ s.acquired = streams[id].acquired
      BY <2>1, <3>1, StreamMoves
    <3>3. streams' = [streams EXCEPT ![id] = s]
      BY <3>1
    <3> HIDE DEF s
    <3> QED
      BY <3>2, <3>3
  <2>3. CASE streams' = [streams EXCEPT ![id] = Finished(@)]
    BY <2>1, <2>3, StreamMoves
  <2>4. CASE streams' = [streams EXCEPT ![id] = WasReset(@)]
    BY <2>1, <2>4, StreamMoves
  <2>5. CASE streams[id].data # <<>> /\ streams' = [streams EXCEPT ![id] = Consumed(@)]
    BY <2>1, <2>5, StreamMoves
  <2>6. CASE streams' = [streams EXCEPT ![id] = Stopped(@)]
    BY <2>1, <2>6, StreamMoves
  <2> QED
    BY <2>2, <2>3, <2>4, <2>5, <2>6 DEF OneStreamMoves
<1> QED
  BY <1>1, <1>2, StreamsStaying

\* The key of a flow says whose it is.
LEMMA KeyDirection ==
  ASSUME NEW side, NEW id
  PROVE  /\ KeyOf(side, id).direction = (IF id.side = side THEN "Outbound" ELSE "Inbound")
         /\ KeyOf(side, id).connection = Connection
BY DEF KeyOf, Key

\* A host submits a message.
LEMMA AcceptedKeeps ==
  ASSUME ConnectionInv, NEW side \in Sides, NEW id \in Ids, NEW mode \in Mode,
         CanSubmit(end[side].ep, KeyOf(side, id), NextPayload(id)),
         history[id].accepted < MaxMessages[mode], Accepted(side, id),
         UNCHANGED <<wire, streams, datagrams, told>>
  PROVE  ConnectionInv'
<1> DEFINE e == end[side]
           T == told[side]
           adm == Admitted(history)
           k == KeyOf(side, id)
           p == NextPayload(id)
           ep == Submit(e.ep, k, p)
           after == [e EXCEPT !.ep = ep]
<1>1. EndIs(side, e, T, adm) /\ end = [s \in Sides |-> end[s]]
  BY DEF ConnectionInv
<1>2. p \in Payloads
  <2>1. history[id].accepted \in Nat
    BY DEF ConnectionInv, HistoryIs
  <2>2. MaxMessages[mode] \in Nat
    BY EstablishedConnectionAssumption
  <2>3. history[id].accepted + 1 \in 1 .. MaxMessages[mode]
    BY <2>1, <2>2
  <2> QED
    BY <2>3, EstablishedConnectionAssumption DEF NextPayload
<1>3. end' = [end EXCEPT ![side] = after]
  BY DEF Accepted
<1>4. HistoryIs(history') /\ \A j \in Ids : history'[j].admitted = history[j].admitted
  BY HistoryMoves DEF Accepted, ConnectionInv
<1>5. EndpointInv(e.ep) /\ CanSubmit(e.ep, k, p)
  BY <1>1 DEF EndIs
<1> HIDE DEF e, k, p, T, adm
<1>6. EndpointInv(ep) /\ OnlyFlow(e.ep, ep, k)
  BY <1>2, <1>5, SubmitChanges
<1> HIDE DEF ep
<1>7. MovesOn(e, after)
  BY <1>1, <1>6, EndpointMovesOn
<1> HIDE DEF after
<1> QED
  BY <1>3, <1>4, <1>7, NothingMoves, MovingKeeps DEF e

\* A host submits a message to a reliable flow.
LEMMA SubmitReliableKeeps ==
  ASSUME ConnectionInv, NEW side \in Sides, NEW id \in Ids, SubmitReliable(side, id)
  PROVE  ConnectionInv'
BY AcceptedKeeps DEF SubmitReliable, Mode

\* A host submits a message to a flow that has no stream.
LEMMA SubmitUnreliableKeeps ==
  ASSUME ConnectionInv, NEW side \in Sides, NEW id \in Ids, SubmitUnreliable(side, id)
  PROVE  ConnectionInv'
<1>1. end[side].fc.registry[id].mode \in Mode
  BY DEF ConnectionInv, EndIs, FlowControlIs, SubmitUnreliable, SendsDatagrams
<1> QED
  BY <1>1, AcceptedKeeps DEF SubmitUnreliable

\* A host submits a message too many, which ends the flow.
LEMMA ExhaustSequenceKeeps ==
  ASSUME ConnectionInv, NEW side \in Sides, NEW id, ExhaustSequence(side, id)
  PROVE  ConnectionInv' /\ IsCalm(side)
BY EndingLocally DEF ExhaustSequence, SendsDatagrams

\* A host ends a flow that has no stream.
LEMMA FinishUnreliableKeeps ==
  ASSUME ConnectionInv, NEW side \in Sides, NEW id, FinishUnreliable(side, id)
  PROVE  ConnectionInv' /\ IsCalm(side)
BY EndingLocally DEF FinishUnreliable, SendsDatagrams

\* Only one outbound binding changes, and is bound as before.
LEMMA OutboundMovesOn ==
  ASSUME NEW side \in Sides, NEW e, NEW T, NEW adm, EndIs(side, e, T, adm),
         NEW id \in DOMAIN e.outbound, e.outbound[id].state # "Acquiring",
         NEW b \in OutboundStates, b.state # "Acquiring",
         NEW after, after = [e EXCEPT !.outbound[id] = b]
  PROVE  MovesOn(e, after)
<1> DEFINE outbound == [e.outbound EXCEPT ![id] = b]
<1>1. after = [phase |-> e.phase, sender |-> e.sender, deferred |-> e.deferred,
               ended |-> e.ended, fc |-> e.fc, ep |-> e.ep,
               outbound |-> outbound, inbound |-> e.inbound]
  BY DEF EndIs
<1>2. /\ DOMAIN outbound = DOMAIN e.outbound
      /\ \A j \in DOMAIN e.outbound : outbound[j] = IF j = id THEN b ELSE e.outbound[j]
  OBVIOUS
<1> HIDE DEF outbound
<1>3. SameBindings(e, after)
  BY <1>1, <1>2 DEF SameBindings, EndIs, OutboundIs, InboundIs
<1>4. SameFlows(e.ep, e.ep)
  BY DEF SameFlows, EndIs
<1> QED
  BY <1>1, <1>3, <1>4 DEF MovesOn

\* A host finishes a flow that has one.
LEMMA FinishReliableKeeps ==
  ASSUME ConnectionInv, NEW side \in Sides, NEW id, FinishReliable(side, id)
  PROVE  ConnectionInv'
<1> DEFINE e == end[side]
           T == told[side]
           adm == Admitted(history)
           b == Finishing(e.outbound[id])
           after == [e EXCEPT !.outbound[id] = b]
<1>1. /\ EndIs(side, e, T, adm) /\ end = [s \in Sides |-> end[s]]
      /\ id \in DOMAIN e.outbound /\ e.outbound[id].state = "Writing"
      /\ streams' = [streams EXCEPT ![id] = Finished(@)]
      /\ UNCHANGED <<wire, datagrams, told, history>>
  BY DEF ConnectionInv, FinishReliable, CanFinish
<1>2. b \in OutboundStates /\ b.state # "Acquiring"
  <2>1. e.outbound[id] \in OutboundStates
    BY <1>1 DEF EndIs, OutboundIs
  <2> QED
    BY <2>1 DEF OutboundStates, Finishing
<1>3. end' = [end EXCEPT ![side] = after]
  BY <1>1 DEF FinishReliable
<1>4. StreamsStay
  BY <1>1, StreamMoving DEF OneStreamMoves
<1>5. HistoryIs(history') /\ \A j \in Ids : history'[j].admitted = history[j].admitted
  BY <1>1 DEF ConnectionInv
<1> HIDE DEF e, T, adm, b
<1>6. MovesOn(e, after)
  BY <1>1, <1>2, OutboundMovesOn
<1> HIDE DEF after
<1> QED
  BY <1>1, <1>3, <1>4, <1>5, <1>6, MovingKeeps DEF e

\* A host takes what a flow exposes.
LEMMA PollExposureKeeps ==
  ASSUME ConnectionInv, NEW side \in Sides, NEW id \in Ids, PollExposure(side, id)
  PROVE  ConnectionInv'
<1> DEFINE e == end[side]
           T == told[side]
           adm == Admitted(history)
           k == KeyOf(side, id)
           ep == Poll(e.ep, k)
           after == [e EXCEPT !.ep = ep]
           x == Append(history[id].exposed, Exposure(e.ep.flows[k]).payload)
<1>1. /\ EndIs(side, e, T, adm) /\ end = [s \in Sides |-> end[s]]
      /\ id.side # side /\ k \in DOMAIN e.ep.flows
      /\ UNCHANGED <<wire, streams, datagrams, told>>
  BY DEF ConnectionInv, PollExposure
<1>2. CanReceive(e.ep, k) /\ EndpointInv(e.ep)
  BY <1>1, KeyDirection DEF CanReceive, EndIs
<1>3. end' = [end EXCEPT ![side] = after]
  BY <1>1 DEF PollExposure
<1>4. history' = [history EXCEPT ![id].exposed = x]
  BY DEF PollExposure
<1> HIDE DEF e, k, T, adm, x
<1>5. HistoryIs(history') /\ \A j \in Ids : history'[j].admitted = history[j].admitted
  BY <1>4, HistoryMoves DEF ConnectionInv
<1>6. EndpointInv(ep) /\ OnlyFlow(e.ep, ep, k)
  BY <1>2, PollChanges
<1> HIDE DEF ep
<1>7. MovesOn(e, after)
  BY <1>1, <1>6, EndpointMovesOn
<1> HIDE DEF after
<1> QED
  BY <1>1, <1>3, <1>5, <1>7, NothingMoves, MovingKeeps DEF e

-----------------------------------------------------------------------------
(* Teardown                                                                *)

\* What flow control is left as when a connection is torn down.
Cleared(fc) ==
  [local_flow_ids |-> fc.local_flow_ids, peer_flow_ids |-> fc.peer_flow_ids,
   pending_outbound |-> EmptyMap, pending_inbound |-> NoRequest, registry |-> EmptyMap]

\* The record that is left of the end.
TornOf(e) ==
  [phase |-> "TornDown", sender |-> NoSend, deferred |-> NoFrame, ended |-> e.ended,
   fc |-> Cleared(e.fc), ep |-> WithoutFlows(e.ep), outbound |-> EmptyMap, inbound |-> EmptyMap]

\* A request that is not there is of no flow.
LEMMA NoRequestIsOfNone == NoRequest.id \notin Ids
<1>1. NoRequest.id = NoFlow
  BY DEF NoRequest, OpenFlow
<1>2. NoFlow.side = "None"
  BY DEF NoFlow
<1> QED
  BY <1>1, <1>2, IdsHave DEF Sides, Client, Server

\* Without its flows and requests, the end has decided about all it knows of.
LEMMA Clearing ==
  ASSUME NEW side \in Sides, NEW fc, FlowControlIs(side, fc)
  PROVE  /\ FlowControlIs(side, Cleared(fc)) /\ DOMAIN Cleared(fc).registry = {}
         /\ \A id \in Ids : IsDecided(side, Cleared(fc), id) <=> IsKnown(side, fc, id)
<1> DEFINE left == Cleared(fc)
<1>1. /\ left.local_flow_ids = fc.local_flow_ids /\ left.peer_flow_ids = fc.peer_flow_ids
      /\ left.pending_outbound = EmptyMap /\ left.pending_inbound = NoRequest
      /\ left.registry = EmptyMap
      /\ left = [local_flow_ids |-> left.local_flow_ids, peer_flow_ids |-> left.peer_flow_ids,
                 pending_outbound |-> left.pending_outbound,
                 pending_inbound |-> left.pending_inbound, registry |-> left.registry]
  BY DEF Cleared
<1>2. DOMAIN EmptyMap = {}
  BY EmptyMapIsEmpty
<1>3. fc.local_flow_ids \in Nat /\ fc.peer_flow_ids \in Nat
  BY DEF FlowControlIs
<1> HIDE DEF left
<1>4. FlowControlIs(side, left)
  BY <1>1, <1>2, <1>3 DEF FlowControlIs
<1>5. \A id \in Ids : ~IsUndecided(left, id)
  BY <1>1, <1>2, NoRequestIsOfNone DEF IsUndecided
<1>6. \A id \in Ids : IsKnown(side, left, id) <=> IsKnown(side, fc, id)
  BY <1>1 DEF IsKnown
<1> QED
  BY <1>1, <1>2, <1>4, <1>5, <1>6 DEF IsDecided, left

\* The endpoint has no flow left.
LEMMA NoFlowStays ==
  ASSUME NEW side \in Sides, NEW e, NEW T, NEW adm, EndIs(side, e, T, adm)
  PROVE  EndpointInv(WithoutFlows(e.ep)) /\ DOMAIN WithoutFlows(e.ep).flows = {}
<1> DEFINE S == {k \in DOMAIN e.ep.flows : k.connection = Connection}
           out == Without(e.ep, S)
<1>1. EndpointInv(e.ep) /\ \A k \in DOMAIN e.ep.flows : k.connection = Connection
  BY KeyDirection DEF EndIs, FlowsAgree
<1>2. S = DOMAIN e.ep.flows
  BY <1>1
<1>3. WithoutFlows(e.ep) = out
  BY DEF WithoutFlows, Without
<1> HIDE DEF S
<1>4. EndpointInv(out) /\ DOMAIN out.flows = DOMAIN e.ep.flows \ S
  BY <1>1, <1>2, TerminateAllChanges
<1> QED
  BY <1>2, <1>3, <1>4

\* What is left of the end is as it should be.
LEMMA TearingDown ==
  ASSUME NEW side \in Sides, NEW e, NEW T, NEW adm, EndIs(side, e, T, adm)
  PROVE  EndIs(side, TornOf(e), T, adm) /\ Remains(side, e, TornOf(e))
<1> DEFINE after == TornOf(e)
           left == Cleared(e.fc)
           ep == WithoutFlows(e.ep)
<1>1. after = [phase |-> "TornDown", sender |-> NoSend, deferred |-> NoFrame,
               ended |-> e.ended, fc |-> left, ep |-> ep,
               outbound |-> EmptyMap, inbound |-> EmptyMap]
  BY DEF TornOf
<1>2. /\ FlowControlIs(side, left) /\ DOMAIN left.registry = {}
      /\ \A id \in Ids : IsDecided(side, left, id) <=> IsKnown(side, e.fc, id)
  BY Clearing DEF EndIs
<1>3. EndpointInv(ep) /\ DOMAIN ep.flows = {} /\ DOMAIN EmptyMap = {}
  BY NoFlowStays, EmptyMapIsEmpty
<1>4. \A id \in Ids : IsDecided(side, e.fc, id) => IsDecided(side, left, id)
  BY <1>2 DEF IsDecided
<1> HIDE DEF after, left, ep
<1>5. TellingIs(side, left, T, adm)
  BY <1>2, <1>4 DEF EndIs, TellingIs
<1>6. ReportIs(side, left, NoSend, T) /\ NoFrame \in Frames
  BY FramesAre DEF ReportIs
<1>7. FlowsAgree(side, left, ep)
  BY <1>2, <1>3 DEF FlowsAgree
<1>8. OutboundIs(side, left, EmptyMap) /\ InboundIs(side, left, EmptyMap)
  BY <1>3 DEF OutboundIs, InboundIs
<1>9. /\ after.phase = "TornDown" /\ after.sender = NoSend /\ after.deferred = NoFrame
      /\ after.fc = left /\ after.ep = ep
      /\ after.outbound = EmptyMap /\ after.inbound = EmptyMap
      /\ after = [phase |-> after.phase, sender |-> after.sender, deferred |-> after.deferred,
                  ended |-> after.ended, fc |-> after.fc, ep |-> after.ep,
                  outbound |-> after.outbound, inbound |-> after.inbound]
  BY <1>1
<1>10. EndIs(side, after, T, adm)
  BY <1>2, <1>3, <1>5, <1>6, <1>7, <1>8, <1>9 DEF EndIs, Phases
<1>11. Remains(side, e, after)
  BY <1>3, <1>4, <1>9 DEF Remains
<1> QED
  BY <1>10, <1>11 DEF after

\* A torn down connection is left with nothing.
LEMMA TeardownIs ==
  ASSUME ConnectionInv, NEW side \in Sides, Teardown(side)
  PROVE  end' = [end EXCEPT ![side] = TornOf(end[side])]
<1> DEFINE e == end[side]
           T == told[side]
           adm == Admitted(history)
           over == EnterTerminal(e, "TornDown", NoCode)
           left == [e.fc EXCEPT !.pending_outbound = EmptyMap, !.pending_inbound = NoRequest,
                                !.registry = EmptyMap]
           torn == [over EXCEPT !.ended = e.ended, !.ep = WithoutFlows(@),
                                !.fc = [@ EXCEPT !.pending_outbound = EmptyMap,
                                                 !.pending_inbound = NoRequest,
                                                 !.registry = EmptyMap],
                                !.outbound = EmptyMap, !.inbound = EmptyMap]
<1>1. /\ EndIs(side, e, T, adm) /\ end = [s \in Sides |-> end[s]]
      /\ end' = [end EXCEPT ![side] = torn]
      /\ wire' = [wire EXCEPT ![Other(side)] = <<>>]
      /\ UNCHANGED <<streams, datagrams, told, history>>
  BY DEF ConnectionInv, Teardown
<1>2. torn = TornOf(e)
  <2> HIDE DEF e
  <2>1. left = Cleared(e.fc)
    <3>1. e.fc = [local_flow_ids |-> e.fc.local_flow_ids, peer_flow_ids |-> e.fc.peer_flow_ids,
                  pending_outbound |-> e.fc.pending_outbound,
                  pending_inbound |-> e.fc.pending_inbound, registry |-> e.fc.registry]
      BY <1>1 DEF EndIs, FlowControlIs
    <3> DEFINE fc == e.fc
               m1 == [fc EXCEPT !.pending_outbound = EmptyMap]
               m2 == [m1 EXCEPT !.pending_inbound = NoRequest]
    <3>2. left = [m2 EXCEPT !.registry = EmptyMap]
      OBVIOUS
    <3> HIDE DEF fc
    <3>3. m1 = [local_flow_ids |-> fc.local_flow_ids, peer_flow_ids |-> fc.peer_flow_ids,
                pending_outbound |-> EmptyMap,
                pending_inbound |-> fc.pending_inbound, registry |-> fc.registry]
      BY <3>1 DEF fc
    <3> HIDE DEF m1
    <3>4. m2 = [local_flow_ids |-> fc.local_flow_ids, peer_flow_ids |-> fc.peer_flow_ids,
                pending_outbound |-> EmptyMap,
                pending_inbound |-> NoRequest, registry |-> fc.registry]
      BY ONLY <3>3
    <3> HIDE DEF m2, left
    <3> QED
      BY <3>2, <3>4 DEF Cleared, fc
  <2>2. /\ over.fc = e.fc /\ over.ep = e.ep
        /\ over = [phase |-> "TornDown", sender |-> NoSend, deferred |-> NoFrame,
                   ended |-> over.ended, fc |-> over.fc, ep |-> over.ep,
                   outbound |-> over.outbound, inbound |-> over.inbound]
    <3>1. e = [phase |-> e.phase, sender |-> e.sender, deferred |-> e.deferred,
               ended |-> e.ended, fc |-> e.fc, ep |-> e.ep,
               outbound |-> e.outbound, inbound |-> e.inbound]
      BY <1>1 DEF EndIs
    <3> DEFINE ended == "TornDown" = "Failed" /\ NoCode = NoCode
    <3>2. over = [phase |-> "TornDown", sender |-> NoSend, deferred |-> NoFrame,
                  ended |-> ended, fc |-> e.fc, ep |-> e.ep,
                  outbound |-> e.outbound, inbound |-> e.inbound]
      BY <3>1, EnteringIs
    <3> HIDE DEF over, ended
    <3> QED
      BY ONLY <3>2
  <2> DEFINE ep == WithoutFlows(e.ep)
             ended == e.ended
             n1 == [over EXCEPT !.ended = ended]
             n2 == [n1 EXCEPT !.ep = ep]
             n3 == [n2 EXCEPT !.fc = left]
             n4 == [n3 EXCEPT !.outbound = EmptyMap]
  <2>3. torn = [n4 EXCEPT !.inbound = EmptyMap]
    BY <2>2
  <2> HIDE DEF over, left, ep, ended, torn
  <2>4. n1 = [phase |-> "TornDown", sender |-> NoSend, deferred |-> NoFrame,
              ended |-> ended, fc |-> over.fc, ep |-> over.ep,
              outbound |-> over.outbound, inbound |-> over.inbound]
    BY ONLY <2>2
  <2> HIDE DEF n1
  <2>5. n2 = [phase |-> "TornDown", sender |-> NoSend, deferred |-> NoFrame,
              ended |-> ended, fc |-> over.fc, ep |-> ep,
              outbound |-> over.outbound, inbound |-> over.inbound]
    BY ONLY <2>4
  <2> HIDE DEF n2
  <2>6. n3 = [phase |-> "TornDown", sender |-> NoSend, deferred |-> NoFrame,
              ended |-> ended, fc |-> left, ep |-> ep,
              outbound |-> over.outbound, inbound |-> over.inbound]
    BY ONLY <2>5
  <2> HIDE DEF n3
  <2>7. n4 = [phase |-> "TornDown", sender |-> NoSend, deferred |-> NoFrame,
              ended |-> ended, fc |-> left, ep |-> ep,
              outbound |-> EmptyMap, inbound |-> over.inbound]
    BY ONLY <2>6
  <2> HIDE DEF n4
  <2>8. torn = [phase |-> "TornDown", sender |-> NoSend, deferred |-> NoFrame,
                ended |-> ended, fc |-> left, ep |-> ep,
                outbound |-> EmptyMap, inbound |-> EmptyMap]
    BY ONLY <2>3, <2>7
  <2> QED
    BY <2>1, <2>8 DEF TornOf, ep, ended
<1> QED
  BY <1>1, <1>2

\* A host tears the connection down.
LEMMA TeardownKeeps ==
  ASSUME ConnectionInv, NEW side \in Sides, Teardown(side)
  PROVE  ConnectionInv' /\ IsCalm(side)
<1> DEFINE e == end[side]
           T == told[side]
           adm == Admitted(history)
<1>1. /\ EndIs(side, e, T, adm) /\ end = [s \in Sides |-> end[s]]
      /\ wire' = [wire EXCEPT ![Other(side)] = <<>>]
      /\ UNCHANGED <<streams, datagrams, told, history>>
  BY DEF ConnectionInv, Teardown
<1>2. end' = [end EXCEPT ![side] = TornOf(e)]
  BY TeardownIs
<1>3. EndIs(side, TornOf(e), T, adm) /\ Remains(side, e, TornOf(e))
  <2> HIDE DEF e, T, adm
  <2> QED
    BY <1>1, TearingDown
<1>4. StreamsStay
  <2>1. <<>> \in Seq(Frames \ {NoFrame})
    OBVIOUS
  <2>2. wire \in [Sides -> Seq(Frames \ {NoFrame})]
    BY DEF ConnectionInv, WiresAre
  <2>3. wire' \in [Sides -> Seq(Frames \ {NoFrame})]
    BY ONLY <1>1, <2>1, <2>2
  <2> QED
    BY <1>1, <2>3, StreamsStaying DEF ConnectionInv, WiresAre
<1>5. HistoryIs(history') /\ \A j \in Ids : history'[j].admitted = history[j].admitted
  BY <1>1 DEF ConnectionInv
<1>6. IsCalm(side)
  <2> DEFINE after == TornOf(e)
  <2>1. end'[side] = after
    BY <1>1, <1>2
  <2>2. after.fc = Cleared(e.fc) /\ after.outbound = EmptyMap /\ after.inbound = EmptyMap
    BY DEF TornOf
  <2>3. /\ DOMAIN after.fc.registry = {} /\ DOMAIN EmptyMap = {}
        /\ \A id \in Ids : IsDecided(side, e.fc, id) => IsDecided(side, after.fc, id)
    <3>1. FlowControlIs(side, e.fc)
      BY <1>1 DEF EndIs
    <3> QED
      BY <2>2, <3>1, Clearing, EmptyMapIsEmpty DEF IsDecided
  <2> HIDE DEF after, e
  <2> QED
    BY <2>1, <2>2, <2>3 DEF IsCalm, Calm, e
<1> QED
  BY <1>1, <1>2, <1>3, <1>4, <1>5, <1>6, Changing

-----------------------------------------------------------------------------
(* Streams are opened and acquired                                         *)

\* An end takes a step with the streams.
LEMMA Reaching ==
  ASSUME ConnectionInv, NEW side \in Sides, NEW after, NEW Tafter,
         LeavesEnd(side, after, Tafter), WiresAre', StreamsAre'
  PROVE  ConnectionInv'
BY EndsRemain DEF ConnectionInv, LeavesEnd

\* Bindings change, and the host is told nothing.
LEMMA RebindingLeaves ==
  ASSUME ConnectionInv, NEW side \in Sides, NEW after, Rebinds(side, end[side], after),
         end' = [end EXCEPT ![side] = after], UNCHANGED <<told, history>>
  PROVE  LeavesEnd(side, after, told[side])
<1> DEFINE e == end[side]
           T == told[side]
           adm == Admitted(history)
<1>1. EndIs(side, e, T, adm) /\ Rebinds(side, e, after)
  BY DEF ConnectionInv
<1>2. /\ told' = [told EXCEPT ![side] = told[side]] /\ HistoryIs(history')
      /\ Admitted(history') = adm
  BY DEF ConnectionInv, Admitted
<1> HIDE DEF e, T, adm
<1>3. EndIs(side, after, T, adm)
  BY <1>1, Rebinding
<1> QED
  BY <1>2, <1>3 DEF LeavesEnd, T

\* An end that opens no further stream and reads none more.
LEMMA RebindingKeeps ==
  ASSUME ConnectionInv, NEW side \in Sides, NEW after, Rebinds(side, end[side], after),
         DOMAIN after.inbound \subseteq DOMAIN end[side].inbound,
         \A id \in DOMAIN after.outbound :
           id \in DOMAIN end[side].outbound
           /\ (after.outbound[id].state = "Acquiring" =>
                 end[side].outbound[id].state = "Acquiring"),
         end' = [end EXCEPT ![side] = after], UNCHANGED <<told, history>>, StreamsStay
  PROVE  ConnectionInv'
<1>1. LeavesEnd(side, after, told[side])
  BY RebindingLeaves
<1>2. Remains(side, end[side], after)
  BY DEF Remains, Rebinds
<1> QED
  BY <1>1, <1>2, Stepping

\* The opener of a flow gets its stream, or has lost the flow meanwhile.
LEMMA AcquireOutboundKeeps ==
  ASSUME ConnectionInv, NEW side \in Sides, NEW id, AcquireOutbound(side, id)
  PROVE  ConnectionInv' /\ (CanAssociateStream(end[side].fc, id) \/ IsCalm(side))
<1> DEFINE e == end[side]
           T == told[side]
           adm == Admitted(history)
<1>1. /\ EndIs(side, e, T, adm) /\ end = [s \in Sides |-> end[s]]
      /\ e.phase = "Active" /\ id \in DOMAIN e.outbound /\ e.outbound[id].state = "Acquiring"
      /\ UNCHANGED <<wire, datagrams, told, history>>
  BY DEF ConnectionInv, AcquireOutbound, IsReady
<1>2. CASE CanAssociateStream(e.fc, id)
  <2> DEFINE after == [e EXCEPT !.fc = AssociateStream(@, id), !.outbound[id] = Bound(@)]
  <2>1. end' = [end EXCEPT ![side] = after] /\ streams' = Put(streams, id, NewStream)
    BY <1>1, <1>2 DEF AcquireOutbound
  <2>2. id \notin DOMAIN streams /\ id \in Ids /\ id.side = side
    BY <1>1 DEF ConnectionInv, StreamsAre, EndIs, OutboundIs
  <2>3. e.outbound[id] \in OutboundStates /\ IsDecided(side, e.fc, id)
    BY <1>1 DEF EndIs, OutboundIs
  <2> HIDE DEF e, T, adm
  <2>4. Rebinds(side, e, after)
    BY <1>1, <1>2, BindingOutbound
  <2>5. /\ after.inbound = e.inbound /\ DOMAIN after.outbound = DOMAIN e.outbound
        /\ after.outbound[id].state = "Writing"
        /\ \A j \in DOMAIN e.outbound : j # id => after.outbound[j] = e.outbound[j]
    <3>1. after.inbound = e.inbound /\ after.outbound = [e.outbound EXCEPT ![id] = Bound(@)]
      BY <1>1 DEF EndIs
    <3>2. Bound(e.outbound[id]).state = "Writing"
      BY <2>3 DEF Bound, OutboundStates
    <3> QED
      BY <1>1, <3>1, <3>2
  <2> HIDE DEF after
  <2>6. LeavesEnd(side, after, told[side])
    BY <1>1, <2>1, <2>4, RebindingLeaves DEF e
  <2>7. /\ DOMAIN streams' = DOMAIN streams \cup {id} /\ streams'[id] = NewStream
        /\ \A j \in DOMAIN streams : streams'[j] = streams[j]
    BY <2>1, <2>2 DEF Put
  <2>8. WiresAre'
    <3>1. StreamIs(NewStream)
      <4>1. <<>> \in Seq(Chunks)
        OBVIOUS
      <4> QED
        BY <4>1 DEF NewStream, StreamIs
    <3> QED
      BY <1>1, <2>2, <2>7, <3>1 DEF ConnectionInv, WiresAre
  <2>9. /\ end'[side] = after /\ \A s \in Sides \ {side} : end'[s] = end[s]
        /\ \A j : IsDecided(side, after.fc, j) <=> IsDecided(side, e.fc, j)
    BY <1>1, <2>1, <2>4 DEF Rebinds
  <2>10. StreamsAre'
    <3>1. ASSUME NEW j \in DOMAIN streams'
          PROVE  /\ IsDecided(j.side, end'[j.side].fc, j)
                 /\ j \in DOMAIN end'[j.side].outbound =>
                      end'[j.side].outbound[j].state # "Acquiring"
      <4>1. CASE j = id
        BY <2>2, <2>3, <2>5, <2>9, <4>1
      <4>2. CASE j # id
        <5>1. j \in DOMAIN streams /\ j \in Ids /\ j.side \in Sides
          BY <2>7, <4>2, IdsHave DEF ConnectionInv, WiresAre
        <5>2. /\ IsDecided(j.side, end[j.side].fc, j)
              /\ j \in DOMAIN end[j.side].outbound =>
                   end[j.side].outbound[j].state # "Acquiring"
          BY <5>1 DEF ConnectionInv, StreamsAre
        <5>3. CASE j.side = side
          BY <2>5, <2>9, <4>2, <5>2, <5>3 DEF e
        <5>4. CASE j.side # side
          BY <2>9, <5>1, <5>2, <5>4
        <5> QED
          BY <5>3, <5>4
      <4> QED
        BY <4>1, <4>2
    <3>2. ASSUME NEW s \in Sides, NEW j \in DOMAIN end'[s].inbound
          PROVE  j \in DOMAIN streams' /\ streams'[j].acquired
      <4>1. j \in DOMAIN end[s].inbound
        BY <2>5, <2>9 DEF e
      <4>2. j \in DOMAIN streams /\ streams[j].acquired
        BY <4>1 DEF ConnectionInv, StreamsAre
      <4> QED
        BY <2>7, <4>2
    <3> QED
      BY <3>1, <3>2 DEF StreamsAre
  <2> QED
    BY <1>2, <2>6, <2>8, <2>10, Reaching DEF e
<1>3. CASE ~CanAssociateStream(e.fc, id)
  <2> DEFINE after == [e EXCEPT !.outbound = Drop(@, {id})]
  <2>1. end' = [end EXCEPT ![side] = after] /\ streams' = streams
    BY <1>1, <1>3 DEF AcquireOutbound
  <2>2. StreamsStay
    BY <1>1, <2>1, NothingMoves
  <2> HIDE DEF e, T, adm
  <2>3. Rebinds(side, e, after)
    BY <1>1, <1>3, Cancelling
  <2>4. after.inbound = e.inbound /\ after.outbound = Drop(e.outbound, {id})
    BY <1>1 DEF EndIs
  <2>5. \A j \in DOMAIN after.outbound :
          j \in DOMAIN e.outbound /\ after.outbound[j] = e.outbound[j]
    BY <2>4 DEF Drop, Restrict
  <2>6. after.fc = e.fc /\ after.ep = e.ep
    BY <1>1 DEF EndIs
  <2> HIDE DEF after
  <2>7. IsCalm(side)
    <3>1. end'[side] = after
      BY <1>1, <2>1
    <3> QED
      BY <2>4, <2>5, <2>6, <3>1 DEF IsCalm, Calm, e
  <2> QED
    BY <1>1, <2>1, <2>2, <2>3, <2>4, <2>5, <2>7, RebindingKeeps DEF e
<1> QED
  BY <1>2, <1>3 DEF e

\* The acceptor takes a stream that has arrived.
LEMMA AcquireInboundKeeps ==
  ASSUME ConnectionInv, NEW side \in Sides, NEW id, AcquireInbound(side, id)
  PROVE  ConnectionInv'
<1> DEFINE e == end[side]
           T == told[side]
           adm == Admitted(history)
           after == [e EXCEPT !.inbound = Put(@, id, NewInbound)]
<1>1. /\ EndIs(side, e, T, adm) /\ end = [s \in Sides |-> end[s]]
      /\ e.phase = "Active" /\ id.side # side /\ id \in DOMAIN streams /\ Arrives(streams[id])
      /\ streams' = [streams EXCEPT ![id] = Acquired(@)]
      /\ UNCHANGED <<wire, datagrams, told, history>>
  BY DEF ConnectionInv, AcquireInbound, IsReady
<1>2. id \in Ids /\ id \notin DOMAIN e.inbound
  BY <1>1 DEF ConnectionInv, StreamsAre, WiresAre, Arrives
<1>3. end' = [end EXCEPT ![side] = after]
  BY <1>1 DEF AcquireInbound
<1>4. StreamIs(Acquired(streams[id])) /\ Acquired(streams[id]).acquired
  BY <1>1, StreamMoves DEF ConnectionInv, WiresAre
<1>5. /\ DOMAIN streams' = DOMAIN streams /\ streams'[id].acquired /\ StreamIs(streams'[id])
      /\ \A j \in DOMAIN streams : j # id => streams'[j] = streams[j]
  <2> DEFINE s == Acquired(streams[id])
  <2>1. streams' = [streams EXCEPT ![id] = s]
    BY <1>1
  <2> HIDE DEF s
  <2>2. /\ DOMAIN streams' = DOMAIN streams /\ streams'[id] = s
        /\ \A j \in DOMAIN streams : j # id => streams'[j] = streams[j]
    BY <1>1, <2>1
  <2> QED
    BY <1>4, <2>2 DEF s
<1> HIDE DEF e, T, adm
<1>6. Rebinds(side, e, after)
  BY <1>1, <1>2, AcquiringInbound
<1>7. after.outbound = e.outbound /\ DOMAIN after.inbound = DOMAIN e.inbound \cup {id}
  BY <1>1 DEF EndIs, Put
<1> HIDE DEF after
<1>8. LeavesEnd(side, after, told[side])
  BY <1>1, <1>3, <1>6, RebindingLeaves DEF e
<1>9. WiresAre'
  BY <1>1, <1>5 DEF ConnectionInv, WiresAre
<1>10. /\ end'[side] = after /\ \A s \in Sides \ {side} : end'[s] = end[s]
       /\ \A j : IsDecided(side, after.fc, j) <=> IsDecided(side, e.fc, j)
  BY <1>1, <1>3, <1>6 DEF Rebinds
<1>11. StreamsAre'
  <2>1. ASSUME NEW j \in DOMAIN streams'
        PROVE  /\ IsDecided(j.side, end'[j.side].fc, j)
               /\ j \in DOMAIN end'[j.side].outbound =>
                    end'[j.side].outbound[j].state # "Acquiring"
    <3>1. j \in DOMAIN streams /\ j.side \in Sides
      BY <1>5, IdsHave DEF ConnectionInv, WiresAre
    <3>2. /\ IsDecided(j.side, end[j.side].fc, j)
          /\ j \in DOMAIN end[j.side].outbound => end[j.side].outbound[j].state # "Acquiring"
      BY <3>1 DEF ConnectionInv, StreamsAre
    <3>3. CASE j.side = side
      BY <1>7, <1>10, <3>2, <3>3 DEF e
    <3>4. CASE j.side # side
      BY <1>10, <3>1, <3>2, <3>4
    <3> QED
      BY <3>3, <3>4
  <2>2. ASSUME NEW s \in Sides, NEW j \in DOMAIN end'[s].inbound
        PROVE  j \in DOMAIN streams' /\ streams'[j].acquired
    <3>1. j = id \/ j \in DOMAIN end[s].inbound
      BY <1>7, <1>10 DEF e
    <3>2. CASE j = id
      BY <1>1, <1>5, <3>2
    <3>3. CASE j # id /\ j \in DOMAIN end[s].inbound
      <4>1. j \in DOMAIN streams /\ streams[j].acquired
        BY <3>3 DEF ConnectionInv, StreamsAre
      <4> QED
        BY <1>5, <3>3, <4>1
    <3> QED
      BY <3>1, <3>2, <3>3
  <2> QED
    BY <2>1, <2>2 DEF StreamsAre
<1> QED
  BY <1>8, <1>9, <1>11, Reaching

-----------------------------------------------------------------------------
(* The flows of streams                                                    *)

\* A flow has failed at an end.
LEMMA FailingKeeps ==
  ASSUME ConnectionInv, NEW side \in Sides, IsReady(end[side]), NEW after,
         Effect(side, end[side], after, told[side], told[side],
                Admitted(history), Admitted(history)),
         end' = [end EXCEPT ![side] = after], UNCHANGED <<told, history>>, StreamsStay
  PROVE  ConnectionInv' /\ IsCalm(side)
<1>1. told' = [told EXCEPT ![side] = told[side]] /\ HistoryIs(history')
  BY DEF ConnectionInv
<1>2. Admitted(history') = Admitted(history)
  BY DEF Admitted
<1>3. Affects(side, end[side], after, told[side])
  BY <1>1, <1>2 DEF Affects, ConnectionInv, IsReady
<1> QED
  BY <1>3, Affecting

\* A flow is over, and if it was still there its host is told so now.
LEMMA EndingKeeps ==
  ASSUME ConnectionInv, NEW side \in Sides, IsReady(end[side]), NEW id \in Ids, NEW after,
         Releases(side, end[side], after, id), after.sender = NoSend,
         end' = [end EXCEPT ![side] = after],
         told' = IF id \in DOMAIN end[side].fc.registry THEN Tell(side, id, "Normal") ELSE told,
         UNCHANGED history, StreamsStay
  PROVE  ConnectionInv' /\ IsCalm(side)
<1> DEFINE e == end[side]
           T == told[side]
           adm == Admitted(history)
<1>1. EndIs(side, e, T, adm) /\ e.phase = "Active" /\ e.sender = NoSend
  BY DEF ConnectionInv, IsReady
<1>2. PICK Tafter : /\ told' = [told EXCEPT ![side] = Tafter]
                    /\ IF id \in DOMAIN e.fc.registry THEN TellsOf(id, "Normal", T, Tafter)
                       ELSE Tafter = T
  <2>1. CASE id \in DOMAIN e.fc.registry
    BY <2>1, TellIs
  <2>2. CASE id \notin DOMAIN e.fc.registry
    BY <2>2 DEF ConnectionInv
  <2> QED
    BY <2>1, <2>2
<1>3. HistoryIs(history') /\ Admitted(history') = adm
  BY DEF ConnectionInv, Admitted
<1>4. IsNoticed(e, after, id, T, Tafter)
  <2>1. CASE id \in DOMAIN e.fc.registry
    <3>1. T[id] = "None"
      BY <1>1, <2>1 DEF EndIs, TellingIs
    <3>2. Tafter = [T EXCEPT ![id] = "Normal"]
      BY <1>2, <2>1, <3>1 DEF TellsOf
    <3> QED
      BY <2>1, <3>2 DEF IsNoticed, Causes
  <2>2. CASE id \notin DOMAIN e.fc.registry
    BY <1>2, <2>2 DEF IsNoticed
  <2> QED
    BY <2>1, <2>2
<1> HIDE DEF e, T, adm
<1>5. FlowEnds(side, e, after, id)
  BY <1>1, Releasing DEF e
<1>6. Effect(side, e, after, T, Tafter, adm, adm)
  BY <1>4, <1>5 DEF Effect
<1>7. Affects(side, e, after, Tafter)
  BY <1>1, <1>2, <1>3, <1>6 DEF Affects, e, T, adm
<1> QED
  BY <1>7, Affecting

\* A flow that has a binding is reliable, if it is still there.
LEMMA BoundIsReliable ==
  ASSUME ConnectionInv, NEW side \in Sides, NEW id,
         \/ id \in DOMAIN end[side].outbound
         \/ id \in DOMAIN end[side].inbound /\ end[side].inbound[id].associated
  PROVE  /\ id \in Ids
         /\ id \in DOMAIN end[side].fc.registry => end[side].fc.registry[id].mode = Reliable
<1>1. EndIs(side, end[side], told[side], Admitted(history))
  BY DEF ConnectionInv
<1> QED
  BY <1>1 DEF EndIs, OutboundIs, InboundIs

\* The sender gives a flow up.
LEMMA FailOutboundKeeps ==
  ASSUME ConnectionInv, NEW side \in Sides, NEW id, FailOutbound(side, id)
  PROVE  ConnectionInv' /\ IsCalm(side)
<1> DEFINE e == end[side]
           T == told[side]
           adm == Admitted(history)
           cause == "ReliableDeliveryFailure"
           after == FailFlow(side, e, id, cause)
<1>1. /\ IsReady(e) /\ id \in DOMAIN e.outbound /\ end' = [end EXCEPT ![side] = after]
      /\ streams' = [streams EXCEPT ![id] = WasReset(@)] \/ streams' = streams
      /\ UNCHANGED <<wire, datagrams, told, history>>
  BY DEF FailOutbound, IsBound
<1>2. EndIs(side, e, T, adm) /\ e.phase = "Active" /\ e.sender = NoSend /\ cause \in Causes
  BY <1>1 DEF ConnectionInv, IsReady, Causes
<1>3. id \in Ids /\ (id \in DOMAIN e.fc.registry => e.fc.registry[id].mode = Reliable)
  BY <1>1, BoundIsReliable
<1>4. StreamsStay
  BY <1>1, StreamMoving DEF OneStreamMoves
<1> HIDE DEF e, T, adm, cause
<1>5. Effect(side, e, after, T, T, adm, adm)
  BY <1>2, <1>3, Failing
<1> HIDE DEF after
<1> QED
  BY <1>1, <1>4, <1>5, FailingKeeps DEF e, T, adm

\* The sender's transport has been acknowledged everything.
LEMMA AcknowledgeFinishKeeps ==
  ASSUME ConnectionInv, NEW side \in Sides, NEW id, AcknowledgeFinish(side, id)
  PROVE  ConnectionInv' /\ IsCalm(side)
<1> DEFINE e == end[side]
           T == told[side]
           adm == Admitted(history)
           k == KeyOf(side, id)
           left == ReleaseFlow(e.fc, id)
           ep == Terminate(e.ep, k)
           outbound == Drop(e.outbound, {id})
           m1 == [e EXCEPT !.fc = left]
           m2 == [m1 EXCEPT !.ep = ep]
           after == [m2 EXCEPT !.outbound = outbound]
<1>1. /\ EndIs(side, e, T, adm) /\ end = [s \in Sides |-> end[s]]
      /\ IsReady(e) /\ id \in DOMAIN e.outbound /\ k \in DOMAIN e.ep.flows
      /\ told' = Tell(side, id, "Normal")
      /\ UNCHANGED <<wire, streams, datagrams, history>>
  BY DEF ConnectionInv, AcknowledgeFinish, IsBound, CannotGoOn
<1>2. end' = [end EXCEPT ![side] = after]
  <2>1. end' = [end EXCEPT ![side].fc = ReleaseFlow(@, id), ![side].ep = Terminate(@, k),
                           ![side].outbound = Drop(@, {id})]
    BY DEF AcknowledgeFinish
  <2> QED
    BY <1>1, <2>1
<1>3. id \in Ids
  BY <1>1, BoundIsReliable
<1> HIDE DEF e, T, adm, left, ep, outbound
<1>4. id \in DOMAIN e.fc.registry
  BY <1>1, <1>3, HasFlow DEF EndIs
<1>5. after = [phase |-> e.phase, sender |-> NoSend, deferred |-> e.deferred,
               ended |-> e.ended, fc |-> left, ep |-> ep,
               outbound |-> outbound, inbound |-> e.inbound]
  <2>1. m1 = [phase |-> e.phase, sender |-> NoSend, deferred |-> e.deferred,
              ended |-> e.ended, fc |-> left, ep |-> e.ep,
              outbound |-> e.outbound, inbound |-> e.inbound]
    BY <1>1 DEF EndIs, IsReady
  <2> HIDE DEF m1
  <2>2. m2 = [phase |-> e.phase, sender |-> NoSend, deferred |-> e.deferred,
              ended |-> e.ended, fc |-> left, ep |-> ep,
              outbound |-> e.outbound, inbound |-> e.inbound]
    BY ONLY <2>1
  <2> HIDE DEF m2
  <2> QED
    BY ONLY <2>2
<1> HIDE DEF after
<1>6. after.sender = NoSend /\ Releases(side, e, after, id)
  BY <1>1, <1>5 DEF Releases, Released, Undelivered, left, ep, outbound
<1> QED
  BY <1>1, <1>2, <1>3, <1>4, <1>6, NothingMoves, EndingKeeps DEF e

\* A stream that belongs to no flow ends the connection.
LEMMA UnresolvedKeeps ==
  ASSUME ConnectionInv, NEW side \in Sides, IsReady(end[side]), NEW id, NEW code,
         FailUnresolved(side, [end[side] EXCEPT !.inbound = Drop(@, {id})], code),
         UNCHANGED <<told, history>>, StreamsStay
  PROVE  ConnectionInv' /\ IsCalm(side)
<1> DEFINE e == end[side]
           after == EnterTerminal([e EXCEPT !.inbound = Drop(@, {id})], "Failed", code)
<1>1. EndIs(side, e, told[side], Admitted(history)) /\ e.phase = "Active"
  BY DEF ConnectionInv, IsReady
<1>2. end' = [end EXCEPT ![side] = after]
  BY DEF FailUnresolved
<1>3. Stops(e, after)
  <2> HIDE DEF e
  <2> QED
    BY <1>1, EnteringTerminal
<1> HIDE DEF after
<1> QED
  BY <1>1, <1>2, <1>3, OverKeeps

\* The acceptor reads which flow a stream is for.
LEMMA ReadHeaderKeeps ==
  ASSUME ConnectionInv, NEW side \in Sides, NEW id, ReadHeader(side, id)
  PROVE  ConnectionInv' /\ (CanAssociateStream(end[side].fc, id) \/ IsCalm(side))
<1> DEFINE e == end[side]
           T == told[side]
           adm == Admitted(history)
<1>1. /\ EndIs(side, e, T, adm) /\ end = [s \in Sides |-> end[s]] /\ e.phase = "Active"
      /\ IsReady(e) /\ id \in DOMAIN e.inbound /\ streams[id].data # <<>>
      /\ UNCHANGED <<wire, datagrams, told, history>>
  BY DEF ConnectionInv, ReadHeader, IsReading, IsReady
<1>2. CASE CanAssociateStream(e.fc, id)
  <2> DEFINE after == [e EXCEPT !.fc = AssociateStream(@, id), !.inbound[id] = Associated(@)]
  <2>1. /\ end' = [end EXCEPT ![side] = after]
        /\ streams' = [streams EXCEPT ![id] = Consumed(@)]
    BY <1>1, <1>2 DEF ReadHeader
  <2>2. StreamsStay
    BY <1>1, <2>1, StreamMoving DEF OneStreamMoves
  <2> HIDE DEF e, T, adm
  <2>3. Rebinds(side, e, after)
    BY <1>1, <1>2, BindingInbound
  <2>4. after.outbound = e.outbound /\ DOMAIN after.inbound = DOMAIN e.inbound
    BY <1>1 DEF EndIs
  <2> HIDE DEF after
  <2> QED
    BY <1>1, <1>2, <2>1, <2>2, <2>3, <2>4, RebindingKeeps DEF e
<1>3. CASE ~CanAssociateStream(e.fc, id)
  <2>1. /\ FailUnresolved(side, [e EXCEPT !.inbound = Drop(@, {id})], "ProfileProtocolError")
        /\ streams' = [streams EXCEPT ![id] = Stopped(@)]
    BY <1>3 DEF ReadHeader
  <2>2. StreamsStay
    BY <1>1, <2>1, StreamMoving DEF OneStreamMoves
  <2> QED
    BY <1>1, <2>1, <2>2, UnresolvedKeeps
<1> QED
  BY <1>2, <1>3 DEF e

\* The acceptor reads that the sender has given a stream up.
LEMMA ReadResetKeeps ==
  ASSUME ConnectionInv, NEW side \in Sides, NEW id, ReadReset(side, id)
  PROVE  ConnectionInv' /\ IsCalm(side)
<1> DEFINE e == end[side]
           T == told[side]
           adm == Admitted(history)
           cause == "ReliableDeliveryFailure"
           after == FailFlow(side, e, id, cause)
<1>1. /\ IsReady(e) /\ id \in DOMAIN e.inbound
      /\ streams' = [streams EXCEPT ![id] = Stopped(@)]
      /\ UNCHANGED <<wire, datagrams, told, history>>
  BY DEF ReadReset, IsReading
<1>2. EndIs(side, e, T, adm) /\ e.phase = "Active" /\ e.sender = NoSend /\ cause \in Causes
  BY <1>1 DEF ConnectionInv, IsReady, Causes
<1>3. StreamsStay
  BY <1>1, StreamMoving DEF OneStreamMoves
<1>4. CASE e.inbound[id].associated
  <2>1. id \in Ids /\ (id \in DOMAIN e.fc.registry => e.fc.registry[id].mode = Reliable)
    BY <1>1, <1>4, BoundIsReliable
  <2>2. end' = [end EXCEPT ![side] = after]
    BY <1>4 DEF ReadReset
  <2> HIDE DEF e, T, adm, cause
  <2>3. Effect(side, e, after, T, T, adm, adm)
    BY <1>2, <2>1, Failing
  <2> HIDE DEF after
  <2> QED
    BY <1>1, <1>3, <2>2, <2>3, FailingKeeps DEF e, T, adm
<1>5. CASE ~e.inbound[id].associated
  <2>1. FailUnresolved(side, [e EXCEPT !.inbound = Drop(@, {id})], NoCode)
    BY <1>5 DEF ReadReset
  <2> QED
    BY <1>1, <1>3, <2>1, UnresolvedKeeps
<1> QED
  BY <1>4, <1>5

\* The acceptor has read a stream to its end.
LEMMA DrainStreamKeeps ==
  ASSUME ConnectionInv, NEW side \in Sides, NEW id, DrainStream(side, id)
  PROVE  ConnectionInv' /\ IsCalm(side)
<1> DEFINE e == end[side]
           T == told[side]
           adm == Admitted(history)
           k == KeyOf(side, id)
           left == ReleaseFlow(e.fc, id)
           inbound == Drop(e.inbound, {id})
           m1 == [e EXCEPT !.fc = left]
           over == [m1 EXCEPT !.inbound = inbound]
<1>1. /\ EndIs(side, e, T, adm) /\ end = [s \in Sides |-> end[s]]
      /\ IsReady(e) /\ id \in DOMAIN e.inbound /\ e.inbound[id].associated
      /\ UNCHANGED <<wire, streams, datagrams, history>>
  BY DEF ConnectionInv, DrainStream
<1>2. id \in Ids
  BY <1>1, BoundIsReliable
<1>3. \/ /\ k \notin DOMAIN e.ep.flows /\ told' = told
         /\ end' = [end EXCEPT ![side] = over]
      \/ /\ k \in DOMAIN e.ep.flows /\ told' = Tell(side, id, "Normal")
         /\ end' = [end EXCEPT ![side] = [over EXCEPT !.ep = Terminate(@, k)]]
      \/ /\ told' = told
         /\ end' = [end EXCEPT ![side].inbound[id] = Draining(@)]
  BY DEF DrainStream, HasDrained
<1>4. StreamsStay
  BY <1>1, NothingMoves
<1> HIDE DEF e, T, adm, left, inbound
<1>5. k \in DOMAIN e.ep.flows <=> id \in DOMAIN e.fc.registry
  BY <1>1, <1>2, HasFlow DEF EndIs
<1>6. over = [phase |-> e.phase, sender |-> NoSend, deferred |-> e.deferred,
              ended |-> e.ended, fc |-> left, ep |-> e.ep,
              outbound |-> e.outbound, inbound |-> inbound]
  <2>1. m1 = [phase |-> e.phase, sender |-> NoSend, deferred |-> e.deferred,
              ended |-> e.ended, fc |-> left, ep |-> e.ep,
              outbound |-> e.outbound, inbound |-> e.inbound]
    BY <1>1 DEF EndIs, IsReady
  <2> HIDE DEF m1
  <2> QED
    BY ONLY <2>1
<1>7. CASE /\ k \notin DOMAIN e.ep.flows /\ told' = told
           /\ end' = [end EXCEPT ![side] = over]
  <2> HIDE DEF over
  <2>1. over.sender = NoSend /\ Releases(side, e, over, id)
    BY <1>6, <1>7 DEF Releases, Released, Undelivered, left, inbound
  <2> QED
    BY <1>1, <1>2, <1>4, <1>5, <1>7, <2>1, EndingKeeps DEF e
<1>8. CASE /\ k \in DOMAIN e.ep.flows /\ told' = Tell(side, id, "Normal")
           /\ end' = [end EXCEPT ![side] = [over EXCEPT !.ep = Terminate(@, k)]]
  <2> DEFINE ep == Terminate(e.ep, k)
             after == [over EXCEPT !.ep = ep]
  <2>1. end' = [end EXCEPT ![side] = after]
    BY <1>6, <1>8
  <2> HIDE DEF over, ep
  <2>2. after = [phase |-> e.phase, sender |-> NoSend, deferred |-> e.deferred,
                 ended |-> e.ended, fc |-> left, ep |-> ep,
                 outbound |-> e.outbound, inbound |-> inbound]
    BY <1>6
  <2> HIDE DEF after
  <2>3. after.sender = NoSend /\ Releases(side, e, after, id)
    BY <1>8, <2>2 DEF Releases, Released, Undelivered, left, inbound, ep
  <2> QED
    BY <1>1, <1>2, <1>4, <1>5, <1>8, <2>1, <2>3, EndingKeeps DEF e
<1>9. CASE /\ told' = told
           /\ end' = [end EXCEPT ![side].inbound[id] = Draining(@)]
  <2> DEFINE b == Draining(e.inbound[id])
             after == [e EXCEPT !.inbound[id] = b]
  <2>1. end' = [end EXCEPT ![side] = after]
    BY <1>1, <1>9 DEF e
  <2>2. b \in InboundStates /\ b.associated = e.inbound[id].associated
    <3>1. e.inbound[id] \in InboundStates
      BY <1>1 DEF EndIs, InboundIs
    <3> QED
      BY <3>1 DEF InboundStates, Draining
  <2>3. HistoryIs(history') /\ \A j \in Ids : history'[j].admitted = history[j].admitted
    BY <1>1 DEF ConnectionInv
  <2> HIDE DEF b
  <2>5. IsCalm(side)
    <3>1. /\ after.fc = e.fc /\ after.ep = e.ep /\ after.outbound = e.outbound
          /\ after.inbound = [e.inbound EXCEPT ![id] = b]
      BY <1>1 DEF EndIs
    <3>2. b.next = e.inbound[id].next /\ b.associated = e.inbound[id].associated
      <4>1. e.inbound[id] \in InboundStates
        BY <1>1 DEF EndIs, InboundIs
      <4> QED
        BY <4>1 DEF InboundStates, Draining, b
    <3> HIDE DEF after
    <3> QED
      BY <2>1, <3>1, <3>2, StandingIsCalm DEF e
  <2>4. MovesOn(e, after)
    <3>1. /\ after.ep = e.ep /\ after.outbound = e.outbound
          /\ after.inbound = [e.inbound EXCEPT ![id] = b]
          /\ after = [phase |-> e.phase, sender |-> e.sender, deferred |-> e.deferred,
                      ended |-> e.ended, fc |-> e.fc, ep |-> after.ep,
                      outbound |-> after.outbound, inbound |-> after.inbound]
      BY <1>1 DEF EndIs
    <3> HIDE DEF after
    <3>2. SameFlows(e.ep, after.ep)
      BY <1>1, <3>1 DEF SameFlows, EndIs
    <3>3. SameBindings(e, after)
      BY <1>1, <2>2, <3>1 DEF SameBindings, EndIs, OutboundIs, InboundIs
    <3> QED
      BY <3>1, <3>2, <3>3 DEF MovesOn
  <2> HIDE DEF after
  <2> QED
    BY <1>1, <1>4, <1>9, <2>1, <2>3, <2>4, <2>5, MovingKeeps DEF e
<1> QED
  BY <1>3, <1>7, <1>8, <1>9

\* What there is on a stream after the flow's identifier are messages.
LEMMA ChunkIsMessage ==
  ASSUME NEW chunk \in Chunks, chunk # Header
  PROVE  chunk.payload \in Payloads
BY DEF Chunks, Message

\* The message can be received.
ReadsWell(side, id) ==
  LET e == end[side]
      k == KeyOf(side, id)
      t == [index |-> e.inbound[id].next, payload |-> Head(streams[id].data).payload]
  IN t.index \in Index /\ k \in DOMAIN e.ep.flows /\ ~FailsReliably(e.ep, k, Reliable, t)

\* The acceptor reads a message.
LEMMA ReadMessageKeeps ==
  ASSUME ConnectionInv, NEW side \in Sides, NEW id, ReadMessage(side, id)
  PROVE  ConnectionInv' /\ (ReadsWell(side, id) \/ IsCalm(side))
<1> DEFINE e == end[side]
           T == told[side]
           adm == Admitted(history)
           k == KeyOf(side, id)
           b == e.inbound[id]
           t == [index |-> b.next, payload |-> Head(streams[id].data).payload]
           ep == Receive(e.ep, k, Reliable, t)
           read == MessageRead(b)
           m == [e EXCEPT !.ep = ep]
           received == [m EXCEPT !.inbound[id] = read]
           Fails(reason, left) == end' = [end EXCEPT ![side] = FailFlow(side, left, id, reason)]
<1>1. /\ EndIs(side, e, T, adm) /\ end = [s \in Sides |-> end[s]] /\ e.phase = "Active"
      /\ e.sender = NoSend
      /\ IsReady(e) /\ id \in DOMAIN e.inbound /\ b.associated
      /\ streams[id].data # <<>> /\ Head(streams[id].data) # Header
      /\ UNCHANGED <<wire, datagrams, told, history>>
  BY DEF ConnectionInv, ReadMessage, IsReading, IsReady
<1>2. /\ id \in Ids /\ (id \in DOMAIN e.fc.registry => e.fc.registry[id].mode = Reliable)
      /\ id.side # side /\ b \in InboundStates
  <2>1. id.side # side /\ b \in InboundStates
    BY <1>1 DEF EndIs, InboundIs
  <2> QED
    BY <1>1, <2>1, BoundIsReliable
<1>3. StreamsStay
  <2>1. \/ streams' = [streams EXCEPT ![id] = Stopped(@)]
        \/ streams' = [streams EXCEPT ![id] = Consumed(@)]
    BY DEF ReadMessage
  <2> QED
    BY <1>1, <2>1, StreamMoving DEF OneStreamMoves
<1>4. t.payload \in Payloads
  <2>1. streams[id].data \in Seq(Chunks)
    BY <1>1 DEF ConnectionInv, StreamsAre, WiresAre, StreamIs
  <2>2. Head(streams[id].data) \in Chunks
    BY <1>1, <2>1
  <2> QED
    BY <1>1, <2>2, ChunkIsMessage
<1>5. IF t.index \notin Index \/ k \notin DOMAIN e.ep.flows THEN Fails("ProtocolFailure", e)
      ELSE IF FailsReliably(e.ep, k, Reliable, t)
      THEN Fails("ReliableDeliveryFailure", received)
      ELSE end' = [end EXCEPT ![side] = received]
  BY DEF ReadMessage
<1>6. {"ProtocolFailure", "ReliableDeliveryFailure"} \subseteq Causes
  BY DEF Causes
<1>7. t.index = b.next
  OBVIOUS
<1>11. ReadsWell(side, id) <=> /\ t.index \in Index /\ k \in DOMAIN e.ep.flows
                               /\ ~FailsReliably(e.ep, k, Reliable, t)
  BY DEF ReadsWell
<1>8. CASE t.index \notin Index \/ k \notin DOMAIN e.ep.flows
  <2> DEFINE cause == "ProtocolFailure"
             after == FailFlow(side, e, id, cause)
  <2>1. end' = [end EXCEPT ![side] = after] /\ cause \in Causes
    BY <1>5, <1>6, <1>8
  <2> HIDE DEF e, T, adm, cause
  <2>2. Effect(side, e, after, T, T, adm, adm)
    BY <1>1, <1>2, <2>1, Failing
  <2> HIDE DEF after
  <2> QED
    BY <1>1, <1>3, <2>1, <2>2, FailingKeeps DEF e, T, adm
<1>9. CASE /\ t.index \in Index /\ k \in DOMAIN e.ep.flows
           /\ FailsReliably(e.ep, k, Reliable, t)
  <2> DEFINE cause == "ReliableDeliveryFailure"
             after == FailFlow(side, received, id, cause)
  <2>1. end' = [end EXCEPT ![side] = after] /\ cause \in Causes
    BY <1>5, <1>6, <1>9
  <2>2. received = [e EXCEPT !.ep = Terminate(@, k), !.inbound[id] = MessageRead(@)]
    <3>1. ep = Terminate(e.ep, k)
      BY <1>9 DEF Receive
    <3>2. received = [e EXCEPT !.ep = ep, !.inbound[id] = read]
      OBVIOUS
    <3> HIDE DEF ep, received, k, e, read
    <3>3. received = [e EXCEPT !.ep = Terminate(e.ep, k), !.inbound[id] = read]
      BY <3>1, <3>2
    <3> QED
      BY <3>3 DEF read
  <2> HIDE DEF received, e, T, adm, cause
  <2>3. Effect(side, e, after, T, T, adm, adm)
    BY <1>1, <1>2, <1>9, <2>1, <2>2, FailingToReceive
  <2> HIDE DEF after
  <2> QED
    BY <1>1, <1>3, <2>1, <2>3, FailingKeeps DEF e, T, adm
<1>10. CASE /\ t.index \in Index /\ k \in DOMAIN e.ep.flows
            /\ ~FailsReliably(e.ep, k, Reliable, t)
  <2>1. end' = [end EXCEPT ![side] = received]
    BY <1>5, <1>10
  <2>2. t \in Transfer /\ CanReceive(e.ep, k) /\ EndpointInv(e.ep) /\ Reliable \in Mode
    BY <1>1, <1>2, <1>4, <1>10, KeyDirection DEF Transfer, CanReceive, EndIs, Mode
  <2>3. read \in InboundStates /\ read.associated = b.associated
    BY <1>2 DEF InboundStates, MessageRead
  <2>4. HistoryIs(history') /\ \A j \in Ids : history'[j].admitted = history[j].admitted
    BY <1>1 DEF ConnectionInv
  <2> HIDE DEF t, e, T, adm, k
  <2>5. EndpointInv(ep) /\ OnlyFlow(e.ep, ep, k)
    BY <1>10, <2>2, ReceiveChanges
  <2> HIDE DEF ep, read
  <2>6. MovesOn(e, received)
    <3>1. m = [phase |-> e.phase, sender |-> e.sender, deferred |-> e.deferred,
               ended |-> e.ended, fc |-> e.fc, ep |-> ep,
               outbound |-> e.outbound, inbound |-> e.inbound]
      BY <1>1 DEF EndIs
    <3> DEFINE inbound == [e.inbound EXCEPT ![id] = read]
    <3>2. received = [m EXCEPT !.inbound = inbound]
      BY <3>1
    <3> HIDE DEF m, received
    <3>3. /\ DOMAIN inbound = DOMAIN e.inbound
          /\ \A j \in DOMAIN e.inbound : inbound[j] = IF j = id THEN read ELSE e.inbound[j]
      OBVIOUS
    <3> HIDE DEF inbound
    <3>4. received = [phase |-> e.phase, sender |-> e.sender, deferred |-> e.deferred,
                      ended |-> e.ended, fc |-> e.fc, ep |-> ep,
                      outbound |-> e.outbound, inbound |-> inbound]
      BY <3>1, <3>2
    <3>5. SameFlows(e.ep, ep)
      BY <2>5 DEF SameFlows, OnlyFlow
    <3>6. SameBindings(e, received)
      BY <1>1, <2>3, <3>3, <3>4 DEF SameBindings, EndIs, OutboundIs, InboundIs
    <3> QED
      BY <3>4, <3>5, <3>6 DEF MovesOn
  <2> HIDE DEF received
  <2> QED
    BY <1>1, <1>3, <1>10, <1>11, <2>1, <2>4, <2>6, MovingKeeps DEF e
<1> QED
  BY <1>8, <1>9, <1>10

\* The sender writes to a stream.
LEMMA WriteSegmentKeeps ==
  ASSUME ConnectionInv, NEW side \in Sides, NEW id, WriteSegment(side, id)
  PROVE  ConnectionInv'
<1> DEFINE e == end[side]
           T == told[side]
           adm == Admitted(history)
           k == KeyOf(side, id)
           b == e.outbound[id]
<1>1. /\ EndIs(side, e, T, adm) /\ end = [s \in Sides |-> end[s]] /\ e.phase = "Active"
      /\ IsReady(e) /\ id \in DOMAIN e.outbound /\ b.state = "Writing"
      /\ k \in DOMAIN e.ep.flows /\ (~b.header \/ e.ep.flows[k].outbound # <<>>)
      /\ UNCHANGED <<wire, datagrams, told, history>>
  BY DEF ConnectionInv, WriteSegment, IsBound, IsReady, CannotGoOn, HasPending
<1>2. id \in Ids /\ id.side = side /\ b \in OutboundStates
  BY <1>1 DEF EndIs, OutboundIs
<1>3. HistoryIs(history') /\ \A j \in Ids : history'[j].admitted = history[j].admitted
  BY <1>1 DEF ConnectionInv
<1>4. CASE ~b.header
  <2> DEFINE next == HeaderWritten(b)
             after == [e EXCEPT !.outbound[id] = next]
  <2>1. /\ streams' = [streams EXCEPT ![id] = Written(@, Header)]
        /\ end' = [end EXCEPT ![side].outbound[id] = HeaderWritten(@)]
    BY <1>4 DEF WriteSegment
  <2>2. end' = [end EXCEPT ![side] = after]
    BY <1>1, <2>1
  <2>3. StreamsStay
    <3>1. Header \in Chunks
      BY DEF Chunks
    <3> QED
      BY <1>1, <2>1, <3>1, StreamMoving DEF OneStreamMoves
  <2>4. next \in OutboundStates /\ next.state # "Acquiring"
    BY <1>1, <1>2 DEF OutboundStates, HeaderWritten
  <2> HIDE DEF e, T, adm, next
  <2>5. MovesOn(e, after)
    BY <1>1, <2>4, OutboundMovesOn
  <2> HIDE DEF after
  <2> QED
    BY <1>1, <1>3, <2>2, <2>3, <2>5, MovingKeeps DEF e
<1>5. CASE b.header
  <2> DEFINE next == MessageWritten(b)
             ep == CommitCustody(e.ep, k)
             m == [e EXCEPT !.outbound[id] = next]
             after == [m EXCEPT !.ep = ep]
             chunk == Message(e.ep.flows[k].outbound[1].payload)
  <2>1. /\ streams' = [streams EXCEPT ![id] = Written(@, chunk)]
        /\ end' = [end EXCEPT ![side].outbound[id] = MessageWritten(@),
                              ![side].ep = CommitCustody(@, k)]
    BY <1>5 DEF WriteSegment
  <2>2. end' = [end EXCEPT ![side] = after]
    BY <1>1, <2>1
  <2>3. CanCommitCustody(e.ep, k) /\ EndpointInv(e.ep)
    BY <1>1, <1>2, <1>5, KeyDirection DEF CanCommitCustody, EndIs
  <2>4. next \in OutboundStates /\ next.state # "Acquiring"
    BY <1>1, <1>2 DEF OutboundStates, MessageWritten
  <2> HIDE DEF e, T, adm, next, k
  <2>5. /\ EndpointInv(ep) /\ OnlyFlow(e.ep, ep, k)
        /\ e.ep.flows[k].outbound \in Seq(Transfer) /\ e.ep.flows[k].outbound # <<>>
    BY <2>3, CommitChanges
  <2>6. StreamsStay
    <3>1. e.ep.flows[k].outbound[1] \in Transfer
      BY <2>5
    <3>2. chunk \in Chunks
      BY <3>1 DEF Transfer, Chunks
    <3> HIDE DEF chunk
    <3> QED
      BY <1>1, <2>1, <3>2, StreamMoving DEF OneStreamMoves
  <2> HIDE DEF ep, chunk
  <2>7. MovesOn(e, after)
    <3> DEFINE outbound == [e.outbound EXCEPT ![id] = next]
    <3>1. m = [phase |-> e.phase, sender |-> e.sender, deferred |-> e.deferred,
               ended |-> e.ended, fc |-> e.fc, ep |-> e.ep,
               outbound |-> outbound, inbound |-> e.inbound]
      BY <1>1 DEF EndIs
    <3> HIDE DEF m
    <3>2. /\ DOMAIN outbound = DOMAIN e.outbound
          /\ \A j \in DOMAIN e.outbound : outbound[j] = IF j = id THEN next ELSE e.outbound[j]
      OBVIOUS
    <3> HIDE DEF outbound
    <3>3. after = [phase |-> e.phase, sender |-> e.sender, deferred |-> e.deferred,
                   ended |-> e.ended, fc |-> e.fc, ep |-> ep,
                   outbound |-> outbound, inbound |-> e.inbound]
      BY <3>1
    <3> HIDE DEF after
    <3>4. SameFlows(e.ep, ep)
      BY <2>5 DEF SameFlows, OnlyFlow
    <3>5. SameBindings(e, after)
      BY <1>1, <2>4, <3>2, <3>3 DEF SameBindings, EndIs, OutboundIs, InboundIs
    <3> QED
      BY <3>3, <3>4, <3>5 DEF MovesOn
  <2> HIDE DEF after
  <2> QED
    BY <1>1, <1>3, <2>2, <2>6, <2>7, MovingKeeps DEF e
<1> QED
  BY <1>4, <1>5

-----------------------------------------------------------------------------
(* Datagrams                                                               *)

\* A message leaves in a datagram.
LEMMA SendDatagramKeeps ==
  ASSUME ConnectionInv, NEW side \in Sides, NEW id \in Ids, SendDatagram(side, id)
  PROVE  ConnectionInv'
<1> DEFINE e == end[side]
           T == told[side]
           adm == Admitted(history)
           k == KeyOf(side, id)
           ep == CommitCustody(e.ep, k)
           after == [e EXCEPT !.ep = ep]
           t == Head(e.ep.flows[k].outbound)
           datagram == DatagramOf(id, e.fc.registry[id].mode, t)
<1>1. /\ EndIs(side, e, T, adm) /\ end = [s \in Sides |-> end[s]]
      /\ id.side = side /\ k \in DOMAIN e.ep.flows /\ e.ep.flows[k].outbound # <<>>
      /\ end' = [end EXCEPT ![side].ep = CommitCustody(@, k)]
      /\ datagrams' \in {datagrams, datagrams \cup {datagram}}
      /\ UNCHANGED <<wire, streams, told, history>>
  BY DEF ConnectionInv, SendDatagram, SendsDatagrams, HasPending
<1>2. end' = [end EXCEPT ![side] = after]
  BY <1>1
<1>3. CanCommitCustody(e.ep, k) /\ EndpointInv(e.ep)
  BY <1>1, KeyDirection DEF CanCommitCustody, EndIs
<1>4. HistoryIs(history') /\ \A j \in Ids : history'[j].admitted = history[j].admitted
  BY <1>1 DEF ConnectionInv
<1> HIDE DEF e, T, adm, k
<1>5. /\ EndpointInv(ep) /\ OnlyFlow(e.ep, ep, k)
      /\ e.ep.flows[k].outbound \in Seq(Transfer) /\ e.ep.flows[k].outbound # <<>>
  BY <1>3, CommitChanges
<1>6. StreamsStay
  <2>1. t \in Transfer
    BY <1>5
  <2>2. 0 \in Index
    BY DeliveryAssumption DEF Index
  <2>3. datagram \in [id : Ids, payload : Payloads, index : Index]
    BY <2>1, <2>2 DEF DatagramOf, Transfer
  <2>4. datagrams \subseteq [id : Ids, payload : Payloads, index : Index]
    BY DEF ConnectionInv, WiresAre
  <2> HIDE DEF datagram
  <2>5. datagrams' \subseteq [id : Ids, payload : Payloads, index : Index]
    BY <1>1, <2>3, <2>4
  <2>6. wire' \in [Sides -> Seq(Frames \ {NoFrame})]
    BY <1>1 DEF ConnectionInv, WiresAre
  <2> QED
    BY <1>1, <2>5, <2>6, StreamsStaying
<1> HIDE DEF ep
<1>7. MovesOn(e, after)
  BY <1>1, <1>5, EndpointMovesOn
<1> HIDE DEF after
<1> QED
  BY <1>1, <1>2, <1>4, <1>6, <1>7, MovingKeeps DEF e

\* A datagram arrives.
LEMMA ReceiveDatagramKeeps ==
  ASSUME ConnectionInv, NEW side \in Sides, NEW datagram \in datagrams,
         ReceiveDatagram(side, datagram)
  PROVE  /\ ConnectionInv'
         /\ \/ IsCalm(side)
            \/ LET fc == end[side].fc
                   id == datagram.id
               IN id \in DOMAIN fc.registry /\ fc.registry[id].mode # Reliable
<1> DEFINE e == end[side]
           T == told[side]
           adm == Admitted(history)
           id == datagram.id
           k == KeyOf(side, id)
           t == [index |-> datagram.index, payload |-> datagram.payload]
           after == DatagramReceived(side, e, id, t)
<1>1. /\ EndIs(side, e, T, adm) /\ end = [s \in Sides |-> end[s]] /\ e.phase = "Active"
      /\ IsReady(e) /\ id.side # side /\ datagrams' = datagrams \ {datagram}
      /\ UNCHANGED <<wire, streams, told, history>>
  BY DEF ConnectionInv, ReceiveDatagram, IsReady
<1>2. end' = [end EXCEPT ![side] = after]
  BY <1>1 DEF ReceiveDatagram
<1>3. id \in Ids /\ t \in Transfer
  BY DEF ConnectionInv, WiresAre, Transfer
<1>4. StreamsStay
  <2>1. datagrams' \subseteq [id : Ids, payload : Payloads, index : Index]
    BY <1>1 DEF ConnectionInv, WiresAre
  <2>2. wire' \in [Sides -> Seq(Frames \ {NoFrame})]
    BY <1>1 DEF ConnectionInv, WiresAre
  <2> QED
    BY <1>1, <2>1, <2>2, StreamsStaying
<1>5. HistoryIs(history') /\ \A j \in Ids : history'[j].admitted = history[j].admitted
  BY <1>1 DEF ConnectionInv
<1>6. CASE id \notin DOMAIN e.fc.registry
  <2>1. after = e
    BY <1>6 DEF DatagramReceived
  <2>2. end' = [end EXCEPT ![side] = e]
    BY <1>2, <2>1
  <2>3. Remains(side, e, e)
    BY DEF Remains
  <2>4. IsCalm(side)
    BY <2>2, StandingIsCalm DEF e
  <2> QED
    BY <1>1, <1>4, <1>5, <2>2, <2>3, <2>4, Changing
<1>7. CASE id \in DOMAIN e.fc.registry /\ e.fc.registry[id].mode = Reliable
  <2> DEFINE cause == "ProtocolFailure"
             result == TerminateLocal(side, e.fc, e.ep, id, cause)
  <2>1. after = Routed(side, e, result) /\ cause \in Causes
    BY <1>7 DEF DatagramReceived, Causes
  <2>2. IsRouted(result, T, T)
    BY DEF IsRouted, TerminateLocal, Result, Send
  <2> HIDE DEF e, T, adm, id, after, cause
  <2>3. Effect(side, e, after, T, T, adm, adm)
    BY <1>1, <1>7, <2>1, <2>2, TerminatingLocal
  <2> QED
    BY <1>1, <1>2, <1>4, <2>3, FailingKeeps DEF e, T, adm
<1>8. CASE id \in DOMAIN e.fc.registry /\ e.fc.registry[id].mode # Reliable
  <2> DEFINE mode == e.fc.registry[id].mode
             ep == Receive(e.ep, k, mode, t)
  <2>1. after = [e EXCEPT !.ep = ep]
    BY <1>8 DEF DatagramReceived
  <2>2. /\ EndpointInv(e.ep) /\ mode \in Mode
        /\ k \in DOMAIN e.ep.flows /\ e.ep.flows[k].mode = mode
    BY <1>1, <1>3, <1>8, HasFlow DEF EndIs, FlowsAgree, FlowControlIs
  <2>3. CanReceive(e.ep, k) /\ ~FailsReliably(e.ep, k, mode, t)
    BY <1>1, <1>8, <2>2, KeyDirection DEF CanReceive, FailsReliably
  <2> HIDE DEF e, T, adm, id, after, k, t, mode
  <2>4. EndpointInv(ep) /\ OnlyFlow(e.ep, ep, k)
    BY <1>3, <2>2, <2>3, ReceiveChanges
  <2> HIDE DEF ep
  <2>5. MovesOn(e, after)
    BY <1>1, <2>1, <2>4, EndpointMovesOn
  <2> QED
    BY <1>1, <1>2, <1>4, <1>5, <1>8, <2>5, MovingKeeps DEF e, id
<1> QED
  BY <1>6, <1>7, <1>8

-----------------------------------------------------------------------------
(* The invariant                                                           *)

\* A new end is as it should be.
LEMMA NewEndIs ==
  ASSUME NEW side \in Sides, NEW T, T = [id \in Ids |-> "None"],
         NEW adm, adm = [id \in Ids |-> FALSE]
  PROVE  EndIs(side, NewEnd, T, adm)
<1> DEFINE e == NewEnd
           fc == NewFlowControl
           ep == NewEndpoint
<1>1. e = [phase |-> "Active", sender |-> NoSend, deferred |-> NoFrame, ended |-> FALSE,
           fc |-> fc, ep |-> ep, outbound |-> EmptyMap, inbound |-> EmptyMap]
  BY DEF NewEnd
<1>2. EndpointInv(ep) /\ DOMAIN ep.flows = {} /\ DOMAIN EmptyMap = {}
  BY NewEndpointIsRight, EmptyMapIsEmpty
<1>3. /\ fc.local_flow_ids = 0 /\ fc.peer_flow_ids = 0
      /\ fc.pending_outbound = EmptyMap /\ fc.pending_inbound = NoRequest
      /\ fc.registry = EmptyMap
      /\ fc = [local_flow_ids |-> fc.local_flow_ids, peer_flow_ids |-> fc.peer_flow_ids,
               pending_outbound |-> fc.pending_outbound,
               pending_inbound |-> fc.pending_inbound, registry |-> fc.registry]
  BY DEF NewFlowControl
<1> HIDE DEF e, fc, ep
<1>4. FlowControlIs(side, fc)
  BY <1>2, <1>3 DEF FlowControlIs
<1>5. \A id \in Ids : ~IsDecided(side, fc, id)
  BY <1>3, IdsHave DEF IsDecided, IsKnown
<1>6. OutboundIs(side, fc, EmptyMap) /\ InboundIs(side, fc, EmptyMap)
  BY <1>2 DEF OutboundIs, InboundIs
<1>7. FlowsAgree(side, fc, ep) /\ StreamsAgree(side, fc, EmptyMap, EmptyMap)
  BY <1>2, <1>3 DEF FlowsAgree, StreamsAgree
<1>8. TellingIs(side, fc, T, adm)
  BY <1>2, <1>3 DEF TellingIs
<1>9. ReportIs(side, fc, NoSend, T) /\ NoFrame \in Frames
  BY FramesAre DEF ReportIs
<1>10. EndsAreTold(side, fc, NoSend, T, adm)
  BY <1>5 DEF EndsAreTold, HasEnded
<1>11. /\ e.phase = "Active" /\ e.sender = NoSend /\ e.deferred = NoFrame
       /\ e.fc = fc /\ e.ep = ep /\ e.outbound = EmptyMap /\ e.inbound = EmptyMap
       /\ e = [phase |-> e.phase, sender |-> e.sender, deferred |-> e.deferred,
               ended |-> e.ended, fc |-> e.fc, ep |-> e.ep,
               outbound |-> e.outbound, inbound |-> e.inbound]
  BY <1>1
<1>12. EndIs(side, e, T, adm)
  BY <1>2, <1>4, <1>6, <1>7, <1>8, <1>9, <1>10, <1>11 DEF EndIs, Phases
<1> QED
  BY <1>12 DEF e

\* So is a new connection.
LEMMA ConnectionStarts ==
  ASSUME Init
  PROVE  ConnectionInv
<1>1. \A side \in Sides : /\ end[side] = NewEnd
                          /\ told[side] = [id \in Ids |-> "None"]
  BY DEF Init
<1>2. DOMAIN EmptyMap = {}
  BY EmptyMapIsEmpty
<1>3. HistoryIs(history) /\ Admitted(history) = [id \in Ids |-> FALSE]
  BY DEF Init, HistoryIs, Admitted
<1>4. WiresAre
  <2>1. <<>> \in Seq(Frames \ {NoFrame})
    OBVIOUS
  <2> QED
    BY <1>2, <2>1 DEF Init, WiresAre
<1>5. StreamsAre
  <2>1. \A side \in Sides : DOMAIN end[side].inbound = {}
    BY <1>1, <1>2 DEF NewEnd
  <2> QED
    BY <1>2, <2>1 DEF Init, StreamsAre
<1>6. \A side \in Sides : EndIs(side, end[side], told[side], Admitted(history))
  BY <1>1, <1>3, NewEndIs
<1> QED
  BY <1>3, <1>4, <1>5, <1>6 DEF Init, ConnectionInv

\* What hosts ask for.
LEMMA AskKeeps ==
  ASSUME ConnectionInv, NEW side \in Sides, Ask(side)
  PROVE  ConnectionInv'
<1>1. CASE \E mode \in Requests[side] : OpenOutboundFlow(side, mode)
  BY <1>1, OpenOutboundFlowKeeps, EstablishedConnectionAssumption
<1>2. CASE \E id \in Ids : \/ SubmitReliable(side, id) \/ SubmitUnreliable(side, id)
                           \/ ExhaustSequence(side, id) \/ FinishReliable(side, id)
                           \/ FinishUnreliable(side, id)
  BY <1>2, SubmitReliableKeeps, SubmitUnreliableKeeps, ExhaustSequenceKeeps,
     FinishReliableKeeps, FinishUnreliableKeeps
<1>3. CASE Teardown(side)
  BY <1>3, TeardownKeeps
<1> QED
  BY <1>1, <1>2, <1>3 DEF Ask

\* What drivers do.
LEMMA DriveKeeps ==
  ASSUME ConnectionInv, NEW side \in Sides, Drive(side)
  PROVE  ConnectionInv'
<1>1. CASE CompleteControlSend(side) \/ ReceiveControl(side) \/ ProcessDeferred(side)
  BY <1>1, CompleteControlSendKeeps, ReceiveControlKeeps, ProcessDeferredKeeps
<1>2. CASE \E id \in Ids : \/ AcquireOutbound(side, id) \/ WriteSegment(side, id)
                           \/ FailOutbound(side, id) \/ AcknowledgeFinish(side, id)
  BY <1>2, AcquireOutboundKeeps, WriteSegmentKeeps, FailOutboundKeeps,
     AcknowledgeFinishKeeps
<1>3. CASE \E id \in Ids : \/ AcquireInbound(side, id) \/ ReadHeader(side, id)
                           \/ ReadMessage(side, id) \/ ReadReset(side, id)
                           \/ DrainStream(side, id) \/ SendDatagram(side, id)
  BY <1>3, AcquireInboundKeeps, ReadHeaderKeeps, ReadMessageKeeps, ReadResetKeeps,
     DrainStreamKeeps, SendDatagramKeeps
<1>4. CASE \E ending \in Endings(side) : \/ EndedOnReceive(side, ending)
                                         \/ EndedOnSend(side, ending)
                                         \/ EndedOnData(side, ending)
  BY <1>4, EndedKeeps
<1> QED
  BY <1>1, <1>2, <1>3, <1>4 DEF Drive

\* Both ends stay as they should be, whatever happens.
THEOREM ConnectionIsRight == Spec => []ConnectionInv
<1>1. Init => ConnectionInv
  BY ConnectionStarts
<1>2. ConnectionInv /\ [Next]_vars => ConnectionInv'
  <2> SUFFICES ASSUME ConnectionInv, [Next]_vars
               PROVE  ConnectionInv'
    OBVIOUS
  <2>1. CASE \E side \in Sides : Ask(side)
    BY <2>1, AskKeeps
  <2>2. CASE \E side \in Sides : Decide(side)
    BY <2>2, AcceptIncomingFlowKeeps, RejectIncomingFlowKeeps DEF Decide
  <2>3. CASE \E side \in Sides : \E id \in Ids : PollExposure(side, id)
    BY <2>3, PollExposureKeeps
  <2>4. CASE \E side \in Sides : Drive(side)
    BY <2>4, DriveKeeps
  <2>5. CASE \E side \in Sides : \E datagram \in datagrams : ReceiveDatagram(side, datagram)
    BY <2>5, ReceiveDatagramKeeps
  <2>6. CASE LoseTransport
    BY <2>6, LoseTransportKeeps
  <2>7. CASE UNCHANGED vars
    BY <2>7 DEF vars, ConnectionInv, WiresAre, StreamsAre, HistoryIs, Admitted
  <2> QED
    BY <2>1, <2>2, <2>3, <2>4, <2>5, <2>6, <2>7 DEF Next
<1> QED
  BY <1>1, <1>2, PTL DEF Spec


-----------------------------------------------------------------------------
(* What follows for the hosts                                              *)

\* An end that is as it should be has the types that TypeOK states of it.
LEMMA EndHasItsType ==
  ASSUME NEW side \in Sides, NEW e, NEW T, NEW adm, EndIs(side, e, T, adm)
  PROVE  /\ e.phase \in {"Active", "PeerClosed", "Failed", "TornDown"}
         /\ e.sender.frame \in Frames /\ e.deferred \in Frames
         /\ e.phase # "Active" => e.sender = NoSend /\ e.deferred = NoFrame
         /\ DOMAIN e.outbound \subseteq {id \in Ids : id.side = side}
         /\ DOMAIN e.inbound \subseteq {id \in Ids : id.side # side}
<1>1. e.sender.frame \in Frames
  BY DEF EndIs, ReportIs
<1>2. /\ DOMAIN e.outbound \subseteq {id \in Ids : id.side = side}
      /\ DOMAIN e.inbound \subseteq {id \in Ids : id.side # side}
  BY DEF EndIs, OutboundIs, InboundIs
<1> QED
  BY <1>1, <1>2 DEF EndIs, Phases

\* Its registry is that of its delivery endpoint and of its streams.
LEMMA EndMatches ==
  ASSUME NEW side \in Sides, NEW e, NEW T, NEW adm, EndIs(side, e, T, adm),
         e.phase \in {"Active", "PeerClosed"}
  PROVE  /\ {KeyOf(side, id) : id \in DOMAIN e.fc.registry} = DOMAIN e.ep.flows
         /\ \A id \in DOMAIN e.fc.registry :
              /\ e.fc.registry[id].mode = e.ep.flows[KeyOf(side, id)].mode
              /\ e.fc.registry[id].mode = Reliable =>
                   e.fc.registry[id].associated =
                     IF id.side = side THEN e.outbound[id].state # "Acquiring"
                     ELSE id \in DOMAIN e.inbound /\ e.inbound[id].associated
<1>1. FlowsAgree(side, e.fc, e.ep) /\ StreamsAgree(side, e.fc, e.outbound, e.inbound)
  BY DEF EndIs
<1>2. ASSUME NEW id \in DOMAIN e.fc.registry, e.fc.registry[id].mode = Reliable
      PROVE  e.fc.registry[id].associated =
               IF id.side = side THEN e.outbound[id].state # "Acquiring"
               ELSE id \in DOMAIN e.inbound /\ e.inbound[id].associated
  <2>1. IsAssociated(side, e.fc, e.outbound, e.inbound, id)
    BY <1>1, <1>2 DEF StreamsAgree
  <2>2. CASE id.side = side
    BY <2>1, <2>2 DEF IsAssociated
  <2>3. CASE id.side # side
    BY <2>1, <2>3 DEF IsAssociated
  <2> QED
    BY <2>2, <2>3
<1> QED
  BY <1>1, <1>2 DEF FlowsAgree

\* The ends, the wires, the streams and the history have their types.
LEMMA ConnectionHasItsType ==
  ASSUME ConnectionInv
  PROVE  TypeOK
<1>1. ASSUME NEW side \in Sides
      PROVE  /\ end[side].phase \in {"Active", "PeerClosed", "Failed", "TornDown"}
             /\ end[side].sender.frame \in Frames /\ end[side].deferred \in Frames
             /\ end[side].phase # "Active" =>
                  end[side].sender = NoSend /\ end[side].deferred = NoFrame
             /\ DOMAIN end[side].outbound \subseteq {id \in Ids : id.side = side}
             /\ DOMAIN end[side].inbound \subseteq {id \in Ids : id.side # side}
  <2>1. EndIs(side, end[side], told[side], Admitted(history))
    BY DEF ConnectionInv
  <2> QED
    BY <2>1, EndHasItsType
<1>2. ASSUME NEW side \in Sides
      PROVE  Range(wire[side]) \subseteq Frames
  <2>1. wire[side] \in Seq(Frames \ {NoFrame})
    BY DEF ConnectionInv, WiresAre
  <2>2. \A i \in DOMAIN wire[side] : wire[side][i] \in Frames
    BY <2>1
  <2> QED
    BY <2>2 DEF Range
<1>3. DOMAIN streams \subseteq Ids
  BY DEF ConnectionInv, WiresAre, StreamsAre
<1>4. \A id \in Ids : history[id].mode \in Mode \cup {"None"}
  BY DEF ConnectionInv, HistoryIs
<1> QED
  BY <1>1, <1>2, <1>3, <1>4 DEF TypeOK

\* A flow is registered exactly while the delivery endpoint of the end has it, in the
\* same mode, and is associated exactly when its stream is (flow_control.rs,
\* quinn_binding.rs): no interleaving of frames, streams, datagrams and the host's
\* calls takes the three apart, whatever fails on the way.
THEOREM RegistriesMatch == Spec => []RegistryMatchesEndpoint
<1>1. ASSUME ConnectionInv
      PROVE  RegistryMatchesEndpoint
  <2>1. \A side \in Sides : EndIs(side, end[side], told[side], Admitted(history))
    BY <1>1 DEF ConnectionInv
  <2> QED
    BY <1>1, <2>1, ConnectionHasItsType, EndMatches DEF RegistryMatchesEndpoint
<1> QED
  BY <1>1, ConnectionIsRight, PTL

\* What an end that is as it should be has told its host of a flow that was open.
LEMMA EndHasTold ==
  ASSUME NEW side \in Sides, NEW e, NEW T, NEW adm, EndIs(side, e, T, adm), NEW id \in Ids
  PROVE  /\ T[id] # "Twice"
         /\ id \in DOMAIN e.fc.registry => T[id] = "None"
         /\ e.phase = "Active" /\ HasEnded(side, e.fc, adm, id) =>
              T[id] # "None" \/ e.sender.frame = FlowTerminate(id, e.sender.cause)
<1>1. T[id] # "Twice" /\ (id \in DOMAIN e.fc.registry => T[id] = "None")
  BY DEF EndIs, TellingIs, Causes
<1>2. ASSUME e.phase = "Active", HasEnded(side, e.fc, adm, id), T[id] = "None"
      PROVE  e.sender.frame = FlowTerminate(id, e.sender.cause)
  <2>1. e.sender.cause # "None" /\ e.sender.frame.id = id
    BY <1>2 DEF EndIs, EndsAreTold
  <2> QED
    BY <2>1 DEF EndIs, ReportIs
<1> QED
  BY <1>1, <1>2

\* The state of a flow at an end, as it follows from what the end keeps.
LEMMA StatesAre ==
  ASSUME ConnectionInv, NEW side \in Sides, NEW id \in Ids
  PROVE  /\ StateOf(side, id) = "Open" => id \in DOMAIN end[side].fc.registry
         /\ StateOf(side, id) = "Over" =>
              HasEnded(side, end[side].fc, Admitted(history), id)
<1>1. FlowControlIs(side, end[side].fc)
  BY DEF ConnectionInv, EndIs
<1>2. /\ id.sequence \in Nat
      /\ end[side].fc.local_flow_ids \in Nat /\ end[side].fc.peer_flow_ids \in Nat
  BY <1>1, IdsHave DEF FlowControlIs
<1>3. CASE id.side = side
  <2>1. end[side].fc.pending_inbound.id # id
    BY <1>1, <1>3, IdsHave, NoRequestIsOfNone DEF FlowControlIs
  <2> QED
    BY <1>2, <1>3, <2>1
       DEF StateOf, OpenerState, HasEnded, IsDecided, IsKnown, IsUndecided
<1>4. CASE id.side # side
  <2>1. id \notin DOMAIN end[side].fc.pending_outbound
    BY <1>1, <1>4 DEF FlowControlIs
  <2>2. Other(id.side) = side
    BY <1>4, IdsHave
  <2>3. history[id].admitted = Admitted(history)[id]
    BY DEF Admitted
  <2> QED
    BY <1>2, <1>4, <2>1, <2>2, <2>3
       DEF StateOf, AcceptorState, HasEnded, IsDecided, IsKnown, IsUndecided
<1> QED
  BY <1>3, <1>4

\* No host is told of the end of a flow twice, or while it has it; and a host whose end
\* is active was told of the end of every flow it had, or the report of it waits in
\* the slot (public_connection.rs, next_event): frame, stream, datagram and the host's
\* own calls may end a flow in any order, and one of them tells.
THEOREM HostsAreToldOnce == Spec => []EndsAreToldOnce
<1>1. ASSUME ConnectionInv
      PROVE  EndsAreToldOnce
  <2>1. ASSUME NEW side \in Sides, NEW id \in Ids
        PROVE  /\ told[side][id] # "Twice"
               /\ StateOf(side, id) = "Open" => told[side][id] = "None"
               /\ end[side].phase = "Active" /\ StateOf(side, id) = "Over" =>
                    \/ told[side][id] # "None"
                    \/ end[side].sender.frame = FlowTerminate(id, end[side].sender.cause)
    <3>1. EndIs(side, end[side], told[side], Admitted(history))
      BY <1>1 DEF ConnectionInv
    <3> QED
      BY <1>1, <3>1, EndHasTold, StatesAre
  <2> QED
    BY <2>1 DEF EndsAreToldOnce
<1> QED
  BY <1>1, ConnectionIsRight, PTL
=============================================================================
