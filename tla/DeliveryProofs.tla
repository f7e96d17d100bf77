--------------------------- MODULE DeliveryProofs ---------------------------
(***************************************************************************)
(* What a delivery endpoint promises of its books: the counters that every *)
(* operation adjusts by hand are exact and within their limits, for any    *)
(* flows, sessions, policies and limits, and what a flow holds is in order.*)
(* And what one flow promises from end to end: no accepted message of a    *)
(* reliable flow is lost while both its ends are alive, and every flow     *)
(* implements FlowContract.                                                *)
(*                                                                         *)
(* DeliveryEndpointProofs has the invariant of an endpoint and what each   *)
(* operation keeps and changes. Here an arbitrary host uses them; then two *)
(* ends of a flow do, with an invariant that says of each place a message  *)
(* may be - the sender's queue, the transport, the receiver's buffers -    *)
(* that what is there was accepted under its index, and how far the ends   *)
(* have counted.                                                           *)
(***************************************************************************)
EXTENDS Delivery, DeliveryPath, DeliveryEndpointProofs

\* The flow has a policy and a session the host can give it.
OfHost(flow) == flow.policy \in Policies /\ flow.session \in Sessions \cup {NoSession}

\* The flows are those of the host.
HostInv(flows) == DOMAIN flows \subseteq Keys /\ \A k \in DOMAIN flows : OfHost(flows[k])

IInv == EndpointInv(endpoint) /\ HostInv(endpoint.flows)

-----------------------------------------------------------------------------
(* The endpoint of the specification                                       *)

\* No flows, no scopes, and nothing charged.
LEMMA InitHolds == EndpointInit => IInv
<1> SUFFICES ASSUME EndpointInit PROVE EndpointInv(endpoint) /\ HostInv(endpoint.flows)
  BY DEF IInv
<1>1. EndpointInv(endpoint) /\ DOMAIN endpoint.flows = {}
  BY NewEndpointIsRight DEF EndpointInit
<1> QED BY <1>1 DEF HostInv

\* A flow that changes stays the host's, and so do those that do not.
LEMMA FlowStaysWithHost ==
  ASSUME NEW ep, HostInv(ep.flows), NEW k, k \in DOMAIN ep.flows, NEW after,
         OnlyFlow(ep, after, k)
  PROVE  HostInv(after.flows)
BY DEF HostInv, OfHost, OnlyFlow

\* Every operation keeps the books.
LEMMA NextKeeps == IInv /\ [EndpointNext]_endpoint => IInv'
<1> SUFFICES ASSUME EndpointInv(endpoint), HostInv(endpoint.flows), [EndpointNext]_endpoint
             PROVE  EndpointInv(endpoint') /\ HostInv(endpoint'.flows)
  BY DEF IInv
<1> DEFINE Good == EndpointInv(endpoint') /\ HostInv(endpoint'.flows)
<1>1. CASE UNCHANGED endpoint
  BY <1>1
<1>2. ASSUME NEW k \in Keys, HostStep(k) PROVE Good
  <2>1. ASSUME NEW m \in Mode, NEW policy \in Policies, NEW limits \in ConnectionLimits,
               EstablishFlow(k, m, policy, limits)
        PROVE  Good
    <3>1. policy \in Policy /\ limits \in ScopeLimits
      BY DeliveryHostAssumption
    <3>2. /\ EndpointInv(endpoint') /\ DOMAIN endpoint'.flows = DOMAIN endpoint.flows \cup {k}
          /\ endpoint'.flows[k] = NewFlow(m, policy)
          /\ \A j \in DOMAIN endpoint.flows : endpoint'.flows[j] = endpoint.flows[j]
      <4>1. /\ MayEstablish(endpoint, k, m, policy, limits)
            /\ endpoint' = Establish(endpoint, k, m, policy, limits)
        BY <2>1, <3>1 DEF EstablishFlow, MayEstablish
      <4> QED BY <4>1, EstablishChanges
    <3>3. OfHost(NewFlow(m, policy))
      BY DEF OfHost, NewFlow
    <3> QED BY <3>2, <3>3 DEF HostInv
  <2>2. ASSUME NEW s \in Sessions, NEW limits \in SessionLimits,
               AssociateFlowWithSession(k, s, limits)
        PROVE  Good
    <3>1. s # NoSession /\ limits \in ScopeLimits
      BY DeliveryHostAssumption
    <3>2. /\ EndpointInv(endpoint') /\ DOMAIN endpoint'.flows = DOMAIN endpoint.flows
          /\ k \in DOMAIN endpoint.flows
          /\ \A j \in DOMAIN endpoint.flows \ {k} : endpoint'.flows[j] = endpoint.flows[j]
          /\ endpoint'.flows[k].policy = endpoint.flows[k].policy
          /\ endpoint'.flows[k].session = s
      BY <2>2, <3>1, AssociateChanges DEF AssociateFlowWithSession
    <3> QED BY <3>2 DEF HostInv, OfHost
  <2>3. ASSUME NEW payload \in Payloads, SubmitMessage(k, payload)
        PROVE  Good
    BY <2>3, SubmitChanges, FlowStaysWithHost DEF SubmitMessage
  <2>4. CASE PollExposure(k)
    BY <2>4, PollChanges, FlowStaysWithHost DEF PollExposure
  <2>5. CASE TerminateFlow(k)
    BY <2>5, TerminateChanges DEF TerminateFlow, Flows, HostInv
  <2> QED BY <1>2, <2>1, <2>2, <2>3, <2>4, <2>5 DEF HostStep
<1>3. ASSUME NEW k \in Keys, TransportStep(k) PROVE Good
  <2>1. CASE CommitOutboundCustody(k)
    BY <2>1, CommitChanges, FlowStaysWithHost DEF CommitOutboundCustody
  <2>2. ASSUME NEW m \in Mode, NEW t \in Transfer, ReceiveTransfer(k, m, t)
        PROVE  Good
    <3>1. CanReceive(endpoint, k) /\ endpoint' = Receive(endpoint, k, m, t)
      BY <2>2 DEF ReceiveTransfer
    <3>2. CASE FailsReliably(endpoint, k, m, t)
      <4>1. k \in DOMAIN endpoint.flows /\ endpoint' = Terminate(endpoint, k)
        BY <3>1, <3>2 DEF Receive, CanReceive
      <4> QED BY <4>1, TerminateChanges DEF HostInv
    <3>3. CASE ~FailsReliably(endpoint, k, m, t)
      BY <3>1, <3>3, ReceiveChanges, FlowStaysWithHost
    <3> QED BY <3>2, <3>3
  <2> QED BY <1>3, <2>1, <2>2 DEF TransportStep
<1>4. ASSUME NEW c, TerminateConnection(c) PROVE Good
  <2> DEFINE S == {k \in Flows : k.connection = c}
  <2>1. S \subseteq DOMAIN endpoint.flows
    BY DEF Flows
  <2>2. endpoint' = Without(endpoint, S)
    BY <1>4 DEF TerminateConnection, Without
  <2> HIDE DEF S
  <2> QED BY <2>1, <2>2, TerminateAllChanges DEF HostInv
<1> QED BY <1>1, <1>2, <1>3, <1>4 DEF EndpointNext

\* In every reachable state the books are kept.
THEOREM BooksAlwaysKept == EndpointSpec => []IInv
<1>1. EndpointInit => IInv
  BY InitHolds
<1>2. IInv /\ [EndpointNext]_endpoint => IInv'
  BY NextKeeps
<1> QED BY <1>1, <1>2, PTL DEF EndpointSpec

-----------------------------------------------------------------------------
(* What the invariant says                                                 *)

\* Every flow, scope and counter has its type.
LEMMA IInvHasTypes == IInv => EndpointTypeOK
<1> SUFFICES ASSUME EndpointInv(endpoint), HostInv(endpoint.flows) PROVE EndpointTypeOK
  BY DEF IInv
<1>1. /\ \A k \in Flows : IsFlow(k, endpoint.flows[k])
      /\ Flows \subseteq Keys
  <2>1. ASSUME NEW k \in Flows PROVE IsFlow(k, endpoint.flows[k])
    <3>1. /\ endpoint.flows[k] \in FlowRecord(endpoint.flows[k].session)
          /\ IsSuited(k, endpoint.flows[k]) /\ OfHost(endpoint.flows[k])
      BY EndpointParts DEF Flows, FlowInv, HostInv
    <3> QED BY <3>1 DEF IsFlow, IsSuited, OfHost, FlowRecord
  <2> QED BY <2>1 DEF Flows, HostInv
<1>2. endpoint.outbound_drops \in 0 .. MaxCount /\ endpoint.inbound_drops \in 0 .. MaxCount
  BY EndpointParts
<1>3. endpoint.aggregate \in Scope
  BY EndpointParts DEF Covers
<1>4. \A c \in DOMAIN endpoint.connections : endpoint.connections[c] \in Scope
  BY EndpointParts DEF Balanced, Covers
<1>5. /\ \A s \in DOMAIN endpoint.sessions : endpoint.sessions[s] \in Scope
      /\ DOMAIN endpoint.sessions =
           {SessionOf(endpoint.flows)[k] : k \in DOMAIN SessionOf(endpoint.flows)}
             \ {NoSession}
  BY EndpointParts DEF Balanced, Covers
<1>6. \A k \in DOMAIN endpoint.flows :
        SessionOf(endpoint.flows)[k] \in Sessions \cup {NoSession}
  BY <1>1 DEF SessionOf, IsFlow, Flows
<1>7. DOMAIN endpoint.sessions \subseteq Sessions
  BY <1>5, <1>6 DEF SessionOf
<1> QED BY <1>1, <1>2, <1>3, <1>4, <1>5, <1>7 DEF EndpointTypeOK

\* What flows hold is what they are charged for.
LEMMA HoldingsAreCharged ==
  ASSUME EndpointInv(endpoint), NEW ks \in SUBSET Flows
  PROVE  Holdings(ks) = Charges(endpoint.flows, ks)
<1> DEFINE flows == endpoint.flows
           m == [k \in ks |-> Contents(flows[k]).messages]
           b == [k \in ks |-> Contents(flows[k]).bytes]
<1>1. IsFiniteSet(ks) /\ ks \subseteq DOMAIN flows
  BY EndpointParts, FS_Subset DEF Flows
<1>2. \A k \in ks : Contents(flows[k]) = [messages |-> flows[k].pending_messages,
                                          bytes |-> flows[k].pending_bytes]
  BY <1>1, EndpointParts DEF FlowInv
<1>3. ASSUME NEW k \in ks PROVE m[k] = MessagesOf(flows)[k] /\ b[k] = BytesOf(flows)[k]
  <2> DEFINE c == Contents(flows[k])
  <2>1. c.messages = flows[k].pending_messages /\ c.bytes = flows[k].pending_bytes
    <3>1. c = [messages |-> flows[k].pending_messages, bytes |-> flows[k].pending_bytes]
      BY <1>2
    <3> HIDE DEF c, flows
    <3> QED BY <3>1
  <2>2. m[k] = c.messages /\ b[k] = c.bytes
    OBVIOUS
  <2>3. /\ MessagesOf(flows)[k] = flows[k].pending_messages
        /\ BytesOf(flows)[k] = flows[k].pending_bytes
    BY <1>1 DEF MessagesOf, BytesOf
  <2> HIDE DEF m, b, c
  <2> QED BY <2>1, <2>2, <2>3
<1>4. DOMAIN m = ks /\ DOMAIN b = ks
  OBVIOUS
<1>5. Holdings(ks) = [flows |-> Cardinality(ks), messages |-> SumFunction(m),
                      bytes |-> SumFunction(b)]
  BY DEF Holdings
<1> HIDE DEF m, b, flows
<1>6. SumFunction(m) = SumFunctionOnSet(MessagesOf(flows), ks)
  BY <1>1, <1>3, <1>4, SumOverSubset
<1>7. SumFunction(b) = SumFunctionOnSet(BytesOf(flows), ks)
  BY <1>1, <1>3, <1>4, SumOverSubset
<1> QED BY <1>5, <1>6, <1>7 DEF Charges, flows

\* The flows of a connection and of a session are those it is charged for.
LEMMA MembersAre ==
  ASSUME NEW s
  PROVE  /\ Members(ConnectionOf(endpoint.flows), s) = On(s)
         /\ Members(SessionOf(endpoint.flows), s) = Of(s)
         /\ On(s) \subseteq Flows /\ Of(s) \subseteq Flows
BY DEF Members, ConnectionOf, SessionOf, On, Of, Flows

\* Every counter is exact.
LEMMA IInvIsExact == IInv => UsageIsExact
<1> SUFFICES ASSUME EndpointInv(endpoint) PROVE UsageIsExact
  BY DEF IInv
<1>1. \A k \in Flows :
        Contents(endpoint.flows[k]) = [messages |-> endpoint.flows[k].pending_messages,
                                       bytes |-> endpoint.flows[k].pending_bytes]
  BY EndpointParts DEF FlowInv, Flows
<1>2. endpoint.aggregate.usage = Holdings(Flows)
  <2>1. endpoint.aggregate.usage = Charges(endpoint.flows, Flows)
    BY EndpointParts DEF Covers, Flows
  <2> QED BY <2>1, HoldingsAreCharged
<1>3. DOMAIN endpoint.connections = {k.connection : k \in Flows}
  <2> DEFINE o == ConnectionOf(endpoint.flows)
  <2>1. DOMAIN endpoint.connections = {o[k] : k \in DOMAIN o}
    BY EndpointParts DEF Balanced
  <2>2. DOMAIN o = Flows /\ \A k \in Flows : o[k] = k.connection
    BY DEF ConnectionOf, Flows
  <2> HIDE DEF o
  <2> QED BY <2>1, <2>2
<1>4. DOMAIN endpoint.sessions = {endpoint.flows[k].session : k \in Flows} \ {NoSession}
  <2> DEFINE o == SessionOf(endpoint.flows)
  <2>1. DOMAIN endpoint.sessions = {o[k] : k \in DOMAIN o} \ {NoSession}
    BY EndpointParts DEF Balanced
  <2>2. DOMAIN o = Flows /\ \A k \in Flows : o[k] = endpoint.flows[k].session
    BY DEF SessionOf, Flows
  <2> HIDE DEF o
  <2> QED BY <2>1, <2>2
<1>5. ASSUME NEW c \in DOMAIN endpoint.connections
      PROVE  endpoint.connections[c].usage = Holdings(On(c))
  <2>1. endpoint.connections[c].usage = Charges(endpoint.flows, On(c))
    BY EndpointParts, MembersAre DEF Balanced, Covers
  <2> QED BY <2>1, HoldingsAreCharged, MembersAre
<1>6. ASSUME NEW s \in DOMAIN endpoint.sessions
      PROVE  endpoint.sessions[s].usage = Holdings(Of(s))
  <2>1. endpoint.sessions[s].usage = Charges(endpoint.flows, Of(s))
    BY EndpointParts, MembersAre DEF Balanced, Covers
  <2> QED BY <2>1, HoldingsAreCharged, MembersAre
<1> QED BY <1>1, <1>2, <1>3, <1>4, <1>5, <1>6 DEF UsageIsExact

\* And within its limit.
LEMMA IInvHoldsLimits == IInv => LimitsHold
<1> SUFFICES ASSUME EndpointInv(endpoint), UsageIsExact PROVE LimitsHold
  BY IInvIsExact DEF IInv
<1>1. ASSUME NEW k \in Flows
      PROVE  Within([flows |-> 1, messages |-> endpoint.flows[k].policy.messages,
                     bytes |-> endpoint.flows[k].policy.bytes], Holdings({k}))
  <2> DEFINE flows == endpoint.flows
             f == flows[k]
  <2>1. /\ f \in FlowRecord(f.session)
        /\ f.pending_messages <= f.policy.messages /\ f.pending_bytes <= f.policy.bytes
    BY EndpointParts DEF FlowInv, Flows
  <2>2. f.pending_messages \in Nat /\ f.pending_bytes \in Nat
    BY <2>1 DEF FlowRecord
  <2>3. Holdings({k}) = Charges(flows, {k})
    BY HoldingsAreCharged
  <2>4. /\ {k} \in SUBSET DOMAIN flows /\ IsFiniteSet({k}) /\ Counters(flows, {k})
        /\ k \in {k} /\ {k} \ {k} = {}
    BY <2>2, FS_Singleton DEF Counters, Flows
  <2>5. Charges(flows, {k}) = [flows |-> NoUsage.flows + 1,
                               messages |-> NoUsage.messages + f.pending_messages,
                               bytes |-> NoUsage.bytes + f.pending_bytes]
    <3>1. Charges(flows, {k} \ {k}) = NoUsage
      BY <2>4, NothingIsFree
    <3> QED BY <2>4, <3>1, ChargesTakeAny
  <2> HIDE DEF f
  <2>6. Charges(flows, {k}) = [flows |-> 1, messages |-> f.pending_messages,
                               bytes |-> f.pending_bytes]
    BY <2>2, <2>5 DEF NoUsage
  <2>7. Within([flows |-> 1, messages |-> f.policy.messages, bytes |-> f.policy.bytes],
               Charges(flows, {k}))
    BY <2>1, <2>6 DEF Within
  <2> QED BY <2>3, <2>7 DEF f
<1>2. ASSUME NEW c \in DOMAIN endpoint.connections
      PROVE  Within(endpoint.connections[c].limits, Holdings(On(c)))
  BY EndpointParts DEF Balanced, Covers, UsageIsExact
<1>3. ASSUME NEW s \in DOMAIN endpoint.sessions
      PROVE  Within(endpoint.sessions[s].limits, Holdings(Of(s)))
  BY EndpointParts DEF Balanced, Covers, UsageIsExact
<1>4. Within(endpoint.aggregate.limits, Holdings(Flows))
  BY EndpointParts DEF Covers, UsageIsExact
<1> QED BY <1>1, <1>2, <1>3, <1>4 DEF LimitsHold

\* EndpointTypeOK: what an endpoint keeps is always of its type, in particular a flow has no
\* queue in the direction it does not go.
THEOREM TypesAlwaysHold == EndpointSpec => []EndpointTypeOK
<1>1. IInv => EndpointTypeOK
  BY IInvHasTypes
<1> QED BY <1>1, BooksAlwaysKept, PTL

\* AccountingHolds: for any flows, sessions, policies and limits the counters that
\* add_pending, remove_pending, associate and terminate_flow adjust by hand are what
\* the flows hold, and no flow or scope ever exceeds its limits.
THEOREM AccountsAlwaysHold == EndpointSpec => []AccountingHolds
<1>1. IInv => AccountingHolds
  BY IInvIsExact, IInvHoldsLimits DEF AccountingHolds
<1> QED BY <1>1, BooksAlwaysKept, PTL

\* OrderIsKept: the queue out of a flow is ascending, without a gap if it is
\* reliable, and nothing a reliable flow has exposed is buffered.
THEOREM OrderIsAlwaysKept == EndpointSpec => []OrderIsKept
<1>1. IInv => OrderIsKept
  <2> SUFFICES ASSUME EndpointInv(endpoint) PROVE OrderIsKept
    BY DEF IInv
  <2>1. \A k \in Flows : InOrder(endpoint.flows[k])
    BY EndpointParts DEF FlowInv, Flows
  <2> QED BY <2>1 DEF OrderIsKept, InOrder, Ascends
<1> QED BY <1>1, BooksAlwaysKept, PTL

\* InboundDropsAreCounted: whatever a receiver's queue loses to a transfer, and the
\* transfer itself if it finds no room, is counted as a pressure drop.
THEOREM InboundDropsAlwaysCounted == EndpointSpec => InboundDropsAreCounted
<1> DEFINE Counts(k, t) ==
      LET flow == endpoint.flows[k]
      IN /\ flow.mode # Reliable
         /\ \/ endpoint'.flows[k].queue # flow.queue
            \/ endpoint'.inbound_drops # endpoint.inbound_drops
         /\ ~IsIgnored(flow, flow.mode, t)
         /\ ReceiveTransfer(k, flow.mode, t)
         => endpoint'.inbound_drops =
              Counted(endpoint.inbound_drops,
                      Len(flow.queue) + 1 - Len(endpoint'.flows[k].queue))
<1>1. ASSUME IInv, NEW k \in Flows \cap DOMAIN endpoint'.flows, NEW t \in Transfer
      PROVE  Counts(k, t)
  <2> DEFINE flow == endpoint.flows[k]
  <2>1. SUFFICES ASSUME flow.mode # Reliable, ~IsIgnored(flow, flow.mode, t),
                        ReceiveTransfer(k, flow.mode, t)
                 PROVE  DropsAreCounted(endpoint, endpoint', k)
    BY DEF DropsAreCounted
  <2>2. endpoint' = Receive(endpoint, k, flow.mode, t) /\ CanReceive(endpoint, k)
    BY <2>1 DEF ReceiveTransfer
  <2>3. ~FailsReliably(endpoint, k, flow.mode, t)
    BY <2>1 DEF FailsReliably
  <2>4. endpoint' = BufferUnreliable(endpoint, k, t)
    BY <2>1, <2>2, <2>3 DEF Receive
  <2> QED BY <1>1, <2>2, <2>4, BufferUnreliableKeeps DEF IInv, CanReceive
<1>2. IInv /\ [EndpointNext]_endpoint =>
        [\A k \in Flows \cap DOMAIN endpoint'.flows, t \in Transfer : Counts(k, t)]_endpoint
  BY <1>1
<1> QED BY <1>2, BooksAlwaysKept, PTL DEF EndpointSpec, InboundDropsAreCounted

-----------------------------------------------------------------------------
(* A flow from end to end                                                  *)

\* The transfer t is one of the accepted messages acc under its index.
IsAccepted(acc, t) == t.index < Len(acc) /\ t.payload = acc[t.index + 1]

\* The sending end f of a flow of mode m that accepted acc.
SendingInv(f, m, acc) ==
  /\ f.mode = m /\ f.next_accepted_index = Len(acc)
  /\ \A i \in DOMAIN f.outbound : IsAccepted(acc, f.outbound[i])

\* Where the receiving end is with what it has exposed.
IsAt(f, m, exp) ==
  /\ m = Reliable => f.next_exposure = Len(exp)
  /\ m = Sequenced =>
       f.last_exposed_sequence = IF exp = <<>> THEN NoIndex ELSE exp[Len(exp)].index

\* Its receiving end, that exposed exp.
ReceivingInv(f, m, acc, exp) ==
  /\ f.mode = m
  /\ \A i \in DOMAIN f.queue : IsAccepted(acc, f.queue[i])
  /\ \A i \in DOMAIN f.by_index : IsAccepted(acc, [index |-> i, payload |-> f.by_index[i]])
  /\ IsAt(f, m, exp)

\* Every message of acc waits in out, is carried or buffered, or is exposed.
Somewhere(acc, out, carried, buffer, exp) ==
  \A i \in DOMAIN acc :
    \/ [index |-> i - 1, payload |-> acc[i]] \in {out[j] : j \in DOMAIN out} \cup carried
    \/ i - 1 \in DOMAIN buffer
    \/ i <= Len(exp)

PathInv ==
  /\ EndpointInv(sender) /\ EndpointInv(receiver)
  /\ TypeOK
  /\ mode = "None" => /\ sender = NewEndpoint /\ receiver = NewEndpoint
                      /\ accepted = <<>> /\ exposed = <<>>
  /\ \A t \in in_transit : IsAccepted(accepted, t)
  /\ Sending => SendingInv(sender.flows[Outbound], mode, accepted)
  /\ Receiving => ReceivingInv(receiver.flows[Inbound], mode, accepted, exposed)
  /\ ReliableMessagesAreSomewhere

-----------------------------------------------------------------------------
(* The flow of an endpoint                                                 *)

\* What the invariant of an endpoint says of a flow of it.
LEMMA FlowHas ==
  ASSUME NEW ep, EndpointInv(ep), NEW k \in DOMAIN ep.flows, NEW f, f = ep.flows[k]
  PROVE  /\ f.mode \in Mode
         /\ f.outbound \in Seq(Transfer) /\ f.queue \in Seq(Transfer)
         /\ f.by_index \in Buffer /\ DOMAIN f.by_index \subseteq Index
         /\ f.by_index \in [DOMAIN f.by_index -> Payloads]
         /\ f.next_accepted_index \in 0 .. MaxIndex + 1
         /\ f.next_exposure \in 0 .. MaxIndex + 1
         /\ f.last_exposed_sequence \in Index \cup {NoIndex}
         /\ f.mode = Reliable => f.policy.outbound = "RejectNew"
<1>1. f \in FlowRecord(f.session) /\ ValidPolicy(f.policy, f.mode)
  BY EndpointHas DEF FlowInv, IsSuited
<1>2. /\ f.mode \in Mode
      /\ f.outbound \in Seq(Transfer) /\ f.queue \in Seq(Transfer)
      /\ f.by_index \in Buffer
      /\ f.next_accepted_index \in 0 .. MaxIndex + 1
      /\ f.next_exposure \in 0 .. MaxIndex + 1
      /\ f.last_exposed_sequence \in Index \cup {NoIndex}
  BY <1>1 DEF FlowRecord
<1> QED BY <1>1, <1>2, BufferType DEF ValidPolicy

\* Accepting one more message leaves the accepted ones what they were.
LEMMA AcceptedStays ==
  ASSUME NEW acc \in Seq(Payloads), NEW p \in Payloads, NEW t, t.index \in Nat,
         IsAccepted(acc, t)
  PROVE  IsAccepted(Append(acc, p), t)
BY DEF IsAccepted

\* The one it accepts is accepted under the next index.
LEMMA AppendedIsAccepted ==
  ASSUME NEW acc \in Seq(Payloads), NEW p \in Payloads
  PROVE  IsAccepted(Append(acc, p), [index |-> Len(acc), payload |-> p])
BY DEF IsAccepted

\* The rest of a queue holds nothing the queue did not, and all of it in order.
LEMMA RestIs ==
  ASSUME NEW q \in Seq(Transfer), NEW n \in 0 .. Len(q), NEW r, r = Rest(q, n)
  PROVE  /\ r \in Seq(Transfer) /\ Len(r) = Len(q) - n
         /\ \A i \in DOMAIN r : i + n \in DOMAIN q /\ r[i] = q[i + n]
<1>1. Len(q) \in Nat /\ n + 1 \in Nat
  OBVIOUS
<1>2. /\ r \in Seq(Transfer) /\ Len(r) = Len(q) - n
      /\ \A i \in 1 .. Len(r) : r[i] = q[n + i]
  BY SubSeqProperties DEF Rest
<1> QED BY <1>1, <1>2

\* What is kept of a queue was in it.
LEMMA KeptIs ==
  ASSUME NEW f, f.outbound \in Seq(Transfer), NEW left, Kept(f, left)
  PROVE  /\ left \in Seq(Transfer)
         /\ \A i \in DOMAIN left : \E j \in DOMAIN f.outbound : left[i] = f.outbound[j]
<1>1. PICK n \in 0 .. Len(f.outbound) : left = Rest(f.outbound, n)
  BY DEF Kept
<1> QED BY <1>1, RestIs

-----------------------------------------------------------------------------
(* The ends of the flow                                                    *)

\* The flow k of ep is the sending end of a flow, or its receiving end.
SendsFor(ep, k, m, acc) ==
  EndpointInv(ep) /\ SendingInv(ep.flows[k], m, acc)
ReceivesFor(ep, k, m, acc, exp) ==
  /\ EndpointInv(ep) /\ acc \in Seq(Payloads) /\ exp \in Seq(Transfer)
  /\ ReceivingInv(ep.flows[k], m, acc, exp)

\* The messages accepted and exposed when p is submitted and the flow f polled.
AcceptedNow(ep, k, p, acc) == IF Accepts(ep, k, p) THEN Append(acc, p) ELSE acc
ExposedNow(f, exp) == IF Ready(f) THEN Append(exp, Exposure(f)) ELSE exp

\* Whatever was in the queue q is in r.
Holds(q, r) == \A i \in DOMAIN q : \E j \in DOMAIN r : r[j] = q[i]

\* A submission keeps the sending end with what is accepted; of a reliable flow nothing
\* leaves the queue, and what is accepted joins it.
LEMMA SubmitSends ==
  ASSUME NEW ep, NEW k, NEW m, NEW acc \in Seq(Payloads), SendsFor(ep, k, m, acc),
         NEW p \in Payloads, CanSubmit(ep, k, p), NEW out, out = Submit(ep, k, p),
         NEW now, now = AcceptedNow(ep, k, p, acc)
  PROVE  /\ EndpointInv(out) /\ DOMAIN out.flows = DOMAIN ep.flows
         /\ now \in Seq(Payloads) /\ Len(now) <= MaxIndex + 1
         /\ SendingInv(out.flows[k], m, now)
         /\ m = Reliable =>
              /\ Holds(ep.flows[k].outbound, out.flows[k].outbound)
              /\ Accepts(ep, k, p) =>
                   \E j \in DOMAIN out.flows[k].outbound :
                     out.flows[k].outbound[j] = [index |-> Len(acc), payload |-> p]
<1> DEFINE f == ep.flows[k]
           g == out.flows[k]
           t == [index |-> f.next_accepted_index, payload |-> p]
<1>0. EndpointInv(ep) /\ SendingInv(ep.flows[k], m, acc)
  BY DEF SendsFor
<1>1. /\ EndpointInv(out) /\ OnlyFlow(ep, out, k) /\ k \in DOMAIN ep.flows
      /\ Submitted(f, g, p, Accepts(ep, k, p))
  BY <1>0, SubmitChanges
<1>2. /\ f.outbound \in Seq(Transfer) /\ f.next_accepted_index \in Nat
      /\ f.next_accepted_index \in Index
      /\ f.mode = Reliable => f.policy.outbound = "RejectNew"
  BY <1>0, <1>1, FlowHas, DeliveryAssumption DEF CanSubmit, Index
<1>3. f.mode = m /\ f.next_accepted_index = Len(acc)
      /\ \A i \in DOMAIN f.outbound : IsAccepted(acc, f.outbound[i])
  BY <1>0 DEF SendingInv
<1>4. g.mode = m /\ DOMAIN out.flows = DOMAIN ep.flows
  BY <1>1, <1>3 DEF OnlyFlow
<1> HIDE DEF f, g
<1>5. PICK left \in Seq(Transfer) :
        /\ Kept(f, left)
        /\ Accepts(ep, k, p) => /\ g.next_accepted_index = f.next_accepted_index + 1
                                /\ g.outbound = Append(left, t)
        /\ ~Accepts(ep, k, p) => /\ g.next_accepted_index = f.next_accepted_index
                                 /\ g.outbound = left
  BY <1>1 DEF Submitted
<1>6. \A i \in DOMAIN left : IsAccepted(acc, left[i]) /\ left[i].index \in Nat
  <2>1. \A i \in DOMAIN left : left[i] \in Transfer
    OBVIOUS
  <2>2. \A x \in Transfer : x.index \in Nat
    BY DeliveryAssumption DEF Transfer, Index
  <2>3. \A i \in DOMAIN left : \E j \in DOMAIN f.outbound : left[i] = f.outbound[j]
    BY <1>2, <1>5, KeptIs
  <2> QED BY <1>3, <2>1, <2>2, <2>3
<1>7. m = Reliable => left = f.outbound
  BY <1>2, <1>3, <1>5 DEF Kept
<1>n. now = IF Accepts(ep, k, p) THEN Append(acc, p) ELSE acc
  BY DEF AcceptedNow
<1>8. CASE Accepts(ep, k, p)
  <2>1. /\ now = Append(acc, p) /\ now \in Seq(Payloads) /\ Len(now) = Len(acc) + 1
        /\ Len(now) <= MaxIndex + 1
    BY <1>n, <1>2, <1>3, <1>8, DeliveryAssumption DEF Index
  <2>2. /\ g.next_accepted_index = Len(now) /\ g.outbound = Append(left, t)
        /\ t = [index |-> Len(acc), payload |-> p]
    BY <1>3, <1>5, <1>8, <2>1
  <2> HIDE DEF t
  <2>3. /\ DOMAIN g.outbound = 1 .. Len(left) + 1 /\ g.outbound[Len(left) + 1] = t
        /\ DOMAIN left = 1 .. Len(left) /\ \A i \in DOMAIN left : g.outbound[i] = left[i]
        /\ Len(left) \in Nat
    <3>1. Len(left) \in Nat /\ DOMAIN left = 1 .. Len(left)
      OBVIOUS
    <3>2. Len(g.outbound) = Len(left) + 1 /\ DOMAIN g.outbound = 1 .. Len(left) + 1
      BY <2>2
    <3> QED BY <2>2, <3>1, <3>2
  <2>4. \A i \in DOMAIN left : IsAccepted(now, left[i])
    BY <1>6, <2>1, AcceptedStays
  <2>5. IsAccepted(now, t)
    BY <2>1, <2>2, AppendedIsAccepted
  <2>6. \A i \in DOMAIN g.outbound : IsAccepted(now, g.outbound[i])
    <3> SUFFICES ASSUME NEW i \in DOMAIN g.outbound PROVE IsAccepted(now, g.outbound[i])
      OBVIOUS
    <3>1. CASE i \in DOMAIN left
      BY <2>3, <2>4, <3>1
    <3>2. CASE i = Len(left) + 1
      BY <2>3, <2>5, <3>2
    <3> QED BY <2>3, <3>1, <3>2
  <2>7. SendingInv(g, m, now)
    BY <1>4, <2>2, <2>6 DEF SendingInv
  <2>8. m = Reliable =>
          /\ Holds(f.outbound, g.outbound)
          /\ \E j \in DOMAIN g.outbound : g.outbound[j] = t
    <3>1. \E j \in DOMAIN g.outbound : g.outbound[j] = t
      BY <2>3
    <3>2. DOMAIN left \subseteq DOMAIN g.outbound
      BY <2>3
    <3> QED BY <1>7, <2>3, <3>1, <3>2 DEF Holds
  <2> QED BY <1>1, <1>4, <2>1, <2>2, <2>7, <2>8 DEF f, g
<1>9. CASE ~Accepts(ep, k, p)
  <2>1. now = acc /\ g.next_accepted_index = Len(acc) /\ g.outbound = left
    BY <1>n, <1>3, <1>5, <1>9
  <2>2. Len(acc) <= MaxIndex + 1
    BY <1>2, <1>3, DeliveryAssumption DEF Index
  <2>3. SendingInv(g, m, now)
    BY <1>4, <1>6, <2>1 DEF SendingInv
  <2>4. m = Reliable => Holds(f.outbound, g.outbound)
    BY <1>7, <2>1 DEF Holds
  <2> QED BY <1>1, <1>4, <1>9, <2>1, <2>2, <2>3, <2>4 DEF f, g
<1> QED BY <1>8, <1>9

\* Custody takes the front of the queue, and nothing else.
LEMMA CommitSends ==
  ASSUME NEW ep, NEW k, NEW m, NEW acc \in Seq(Payloads), SendsFor(ep, k, m, acc),
         CanCommitCustody(ep, k),
         NEW out, out = CommitCustody(ep, k)
  PROVE  /\ EndpointInv(out) /\ DOMAIN out.flows = DOMAIN ep.flows
         /\ SendingInv(out.flows[k], m, acc)
         /\ ep.flows[k].outbound[1] \in Transfer
         /\ IsAccepted(acc, ep.flows[k].outbound[1])
         /\ \A i \in DOMAIN ep.flows[k].outbound :
              \/ ep.flows[k].outbound[i] = ep.flows[k].outbound[1]
              \/ \E j \in DOMAIN out.flows[k].outbound :
                   out.flows[k].outbound[j] = ep.flows[k].outbound[i]
<1> DEFINE f == ep.flows[k]
           g == out.flows[k]
<1>0. EndpointInv(ep) /\ SendingInv(ep.flows[k], m, acc)
  BY DEF SendsFor
<1>1. /\ EndpointInv(out) /\ OnlyFlow(ep, out, k) /\ k \in DOMAIN ep.flows
      /\ f.outbound \in Seq(Transfer) /\ f.outbound # <<>>
      /\ g.next_accepted_index = f.next_accepted_index /\ g.outbound = Tail(f.outbound)
  BY <1>0, CommitChanges
<1>2. /\ f.mode = m /\ f.next_accepted_index = Len(acc)
      /\ \A i \in DOMAIN f.outbound : IsAccepted(acc, f.outbound[i])
  BY <1>0 DEF SendingInv
<1>3. g.mode = m /\ DOMAIN out.flows = DOMAIN ep.flows
  BY <1>1, <1>2 DEF OnlyFlow
<1> HIDE DEF f, g
<1>5. /\ Len(f.outbound) \in Nat \ {0} /\ DOMAIN f.outbound = 1 .. Len(f.outbound)
      /\ Len(g.outbound) = Len(f.outbound) - 1 /\ DOMAIN g.outbound = 1 .. Len(g.outbound)
      /\ \A i \in DOMAIN g.outbound : g.outbound[i] = f.outbound[i + 1]
  BY <1>1
<1>6. 1 \in DOMAIN f.outbound /\ f.outbound[1] \in Transfer
  BY <1>1, <1>5
<1>7. \A i \in DOMAIN g.outbound : IsAccepted(acc, g.outbound[i])
  BY <1>2, <1>5
<1>8. \A i \in DOMAIN f.outbound :
        i = 1 \/ (i - 1 \in DOMAIN g.outbound /\ g.outbound[i - 1] = f.outbound[i])
  BY <1>5
<1>9. SendingInv(g, m, acc)
  BY <1>1, <1>2, <1>3, <1>7 DEF SendingInv
<1> QED BY <1>1, <1>2, <1>3, <1>6, <1>8, <1>9 DEF f, g

\* A transfer that does not end the flow is buffered, queued, dropped, or known already.
LEMMA ReceiveHolds ==
  ASSUME NEW ep, NEW k, NEW m, NEW acc, NEW exp, ReceivesFor(ep, k, m, acc, exp),
         m \in Mode, CanReceive(ep, k), NEW t \in Transfer, IsAccepted(acc, t), NEW out, out = Receive(ep, k, m, t),
         ~FailsReliably(ep, k, m, t)
  PROVE  /\ EndpointInv(out) /\ DOMAIN out.flows = DOMAIN ep.flows
         /\ ReceivingInv(out.flows[k], m, acc, exp)
         /\ m = Reliable =>
              /\ DOMAIN ep.flows[k].by_index \subseteq DOMAIN out.flows[k].by_index
              /\ t.index \in DOMAIN out.flows[k].by_index \/ t.index < Len(exp)
<1> DEFINE f == ep.flows[k]
           g == out.flows[k]
<1> /\ EndpointInv(ep) /\ acc \in Seq(Payloads) /\ exp \in Seq(Transfer)
    /\ ReceivingInv(ep.flows[k], m, acc, exp)
  BY DEF ReceivesFor
<1>1. /\ EndpointInv(out) /\ OnlyFlow(ep, out, k) /\ k \in DOMAIN ep.flows
      /\ Received(f, g, m, t)
  BY ReceiveChanges
<1>2. f.queue \in Seq(Transfer) /\ f.by_index \in [DOMAIN f.by_index -> Payloads]
  BY <1>1, FlowHas
<1>3. /\ f.mode = m /\ \A i \in DOMAIN f.queue : IsAccepted(acc, f.queue[i])
      /\ \A i \in DOMAIN f.by_index : IsAccepted(acc, [index |-> i, payload |-> f.by_index[i]])
      /\ IsAt(f, m, exp)
  BY DEF ReceivingInv
<1>4. g.mode = m /\ DOMAIN out.flows = DOMAIN ep.flows
  BY <1>1, <1>3 DEF OnlyFlow
<1> HIDE DEF f, g
<1>5. CASE IsIgnored(f, m, t)
  <2>1. g = f
    BY <1>1, <1>5 DEF Received
  <2>2. m = Reliable => t.index < f.next_exposure \/ t.index \in DOMAIN f.by_index
    BY <1>3, <1>5 DEF IsIgnored, IsDuplicate
  <2>3. m = Reliable => f.next_exposure = Len(exp)
    BY <1>3 DEF IsAt
  <2> QED BY <1>1, <1>4, <2>1, <2>2, <2>3 DEF f, g
<1>6. CASE ~IsIgnored(f, m, t) /\ m = Reliable
  <2>1. /\ g.by_index = Put(f.by_index, t.index, t.payload)
        /\ g.next_exposure = f.next_exposure
        /\ g.last_exposed_sequence = f.last_exposed_sequence /\ g.queue = f.queue
    BY <1>1, <1>3, <1>6 DEF Received
  <2>2. /\ DOMAIN g.by_index = DOMAIN f.by_index \cup {t.index}
        /\ g.by_index[t.index] = t.payload
        /\ \A i \in DOMAIN f.by_index : i # t.index => g.by_index[i] = f.by_index[i]
    BY <2>1 DEF Put
  <2>3. \A i \in DOMAIN g.by_index :
          IsAccepted(acc, [index |-> i, payload |-> g.by_index[i]])
    <3> SUFFICES ASSUME NEW i \in DOMAIN g.by_index
                 PROVE  IsAccepted(acc, [index |-> i, payload |-> g.by_index[i]])
      OBVIOUS
    <3>1. CASE i = t.index
      BY <2>2, <3>1 DEF IsAccepted
    <3>2. CASE i # t.index
      BY <1>3, <2>2, <3>2
    <3> QED BY <3>1, <3>2
  <2>4. IsAt(g, m, exp)
    BY <1>3, <2>1 DEF IsAt
  <2>5. ReceivingInv(g, m, acc, exp)
    BY <1>3, <1>4, <2>1, <2>3, <2>4 DEF ReceivingInv
  <2> QED BY <1>1, <1>4, <2>2, <2>5 DEF f, g
<1>7. CASE ~IsIgnored(f, m, t) /\ m # Reliable
  <2>1. Queued(f, g, t)
    BY <1>1, <1>3, <1>7 DEF Received
  <2>2. PICK n \in 0 .. Len(f.queue) :
          g.queue \in {Rest(f.queue, n), Append(Rest(f.queue, n), t)}
    BY <2>1 DEF Queued
  <2> DEFINE r == Rest(f.queue, n)
  <2>3. r \in Seq(Transfer) /\ \A i \in DOMAIN r : IsAccepted(acc, r[i])
    <3>1. r \in Seq(Transfer) /\ \A i \in DOMAIN r : i + n \in DOMAIN f.queue
                                                      /\ r[i] = f.queue[i + n]
      BY <1>2, RestIs
    <3> HIDE DEF r
    <3> QED BY <1>3, <3>1
  <2> HIDE DEF r
  <2>4. g.queue \in {r, Append(r, t)}
    BY <2>2 DEF r
  <2>5. \A i \in DOMAIN g.queue : IsAccepted(acc, g.queue[i])
    <3>1. CASE g.queue = r
      BY <2>3, <3>1
    <3>2. CASE g.queue = Append(r, t)
      <4>1. /\ Len(r) \in Nat /\ DOMAIN r = 1 .. Len(r)
            /\ DOMAIN g.queue = 1 .. Len(r) + 1 /\ g.queue[Len(r) + 1] = t
            /\ \A i \in 1 .. Len(r) : g.queue[i] = r[i]
        BY <2>3, <3>2
      <4> QED BY <2>3, <4>1
    <3> QED BY <2>4, <3>1, <3>2
  <2>6. IsAt(g, m, exp)
    BY <1>3, <2>1 DEF IsAt, Queued
  <2>7. g.by_index = f.by_index
    BY <2>1 DEF Queued
  <2>8. ReceivingInv(g, m, acc, exp)
    BY <1>3, <1>4, <2>5, <2>6, <2>7 DEF ReceivingInv
  <2> QED BY <1>1, <1>4, <1>7, <2>8 DEF g
<1> QED BY <1>5, <1>6, <1>7

\* A transfer that ends the flow leaves the endpoint without it.
LEMMA ReceiveEnds ==
  ASSUME NEW ep, EndpointInv(ep), NEW k, CanReceive(ep, k), NEW m, NEW t,
         NEW out, out = Receive(ep, k, m, t), FailsReliably(ep, k, m, t)
  PROVE  EndpointInv(out) /\ DOMAIN out.flows = DOMAIN ep.flows \ {k}
<1>1. k \in DOMAIN ep.flows /\ out = Terminate(ep, k)
  BY DEF CanReceive, Receive
<1> QED BY <1>1, TerminateChanges

\* What is exposed is buffered, or the first transfer of the queue that is not stale.
LEMMA ExposureIs ==
  ASSUME NEW ep, EndpointInv(ep), NEW k \in DOMAIN ep.flows, NEW f, f = ep.flows[k],
         Ready(f)
  PROVE  /\ Exposure(f) \in Transfer
         /\ f.mode = Reliable =>
              /\ f.next_exposure \in DOMAIN f.by_index
              /\ Exposure(f) = [index |-> f.next_exposure,
                                payload |-> f.by_index[f.next_exposure]]
         /\ f.mode # Reliable =>
              /\ FirstFresh(f) \in DOMAIN f.queue /\ Exposure(f) = f.queue[FirstFresh(f)]
              /\ ~IsStale(f, Exposure(f).index)
<1>1. /\ f.queue \in Seq(Transfer) /\ DOMAIN f.by_index \subseteq Index
      /\ f.by_index \in [DOMAIN f.by_index -> Payloads]
  BY FlowHas
<1>2. CASE f.mode = Reliable
  <2>1. f.next_exposure \in DOMAIN f.by_index
    BY <1>2 DEF Ready
  <2>2. Exposure(f) = [index |-> f.next_exposure,
                       payload |-> f.by_index[f.next_exposure]]
    BY <1>2 DEF Exposure
  <2> QED BY <1>1, <1>2, <2>1, <2>2 DEF Transfer
<1>3. CASE f.mode # Reliable
  <2> DEFINE fresh == {i \in DOMAIN f.queue : ~IsStale(f, f.queue[i].index)}
             S == fresh \cup {Len(f.queue) + 1}
             n == FirstFresh(f)
  <2>1. n \in DOMAIN f.queue /\ Exposure(f) = f.queue[n]
    BY <1>3 DEF Ready, Exposure
  <2>2. n = Min(S)
    BY DEF FirstFresh
  <2>3. Len(f.queue) \in Nat /\ DOMAIN f.queue = 1 .. Len(f.queue)
    BY <1>1
  <2>4. n \in S
    <3>1. Len(f.queue) + 1 \in Nat /\ S \subseteq 0 .. Len(f.queue) + 1 /\ S # {}
      BY <2>3
    <3> HIDE DEF S, n
    <3> QED BY <2>2, <3>1, MinOfRange
  <2>5. n \in fresh
    <3> HIDE DEF n, fresh
    <3> QED BY <2>1, <2>3, <2>4
  <2> HIDE DEF n
  <2> QED BY <1>1, <1>3, <2>1, <2>5 DEF n
<1> QED BY <1>2, <1>3

\* Polling exposes an accepted message as the mode of the flow allows, and of a reliable
\* flow loses none.
LEMMA PollExposes ==
  ASSUME NEW ep, NEW k, NEW m, NEW acc, NEW exp, ReceivesFor(ep, k, m, acc, exp),
         CanReceive(ep, k), NEW out, out = Poll(ep, k),
         NEW t, t = Exposure(ep.flows[k]), NEW now, now = ExposedNow(ep.flows[k], exp)
  PROVE  /\ EndpointInv(out) /\ DOMAIN out.flows = DOMAIN ep.flows
         /\ now \in Seq(Transfer)
         /\ ReceivingInv(out.flows[k], m, acc, now)
         /\ Ready(ep.flows[k]) =>
              /\ t \in Transfer /\ IsAccepted(acc, t)
              /\ m = Reliable => t.index = Len(exp)
              /\ m = Sequenced /\ exp # <<>> => exp[Len(exp)].index < t.index
         /\ m = Reliable =>
              \A i \in DOMAIN ep.flows[k].by_index :
                i \in DOMAIN out.flows[k].by_index \/ i < Len(now)
<1> DEFINE f == ep.flows[k]
           g == out.flows[k]
<1> /\ EndpointInv(ep) /\ acc \in Seq(Payloads) /\ exp \in Seq(Transfer)
    /\ ReceivingInv(ep.flows[k], m, acc, exp)
  BY DEF ReceivesFor
<1>1. /\ EndpointInv(out) /\ OnlyFlow(ep, out, k) /\ k \in DOMAIN ep.flows /\ Polled(f, g)
  BY PollChanges
<1>2. /\ f.queue \in Seq(Transfer) /\ f.by_index \in [DOMAIN f.by_index -> Payloads]
      /\ f.next_exposure \in Nat /\ f.last_exposed_sequence \in Int
  <2>1. /\ f.queue \in Seq(Transfer) /\ f.by_index \in [DOMAIN f.by_index -> Payloads]
        /\ f.next_exposure \in 0 .. MaxIndex + 1
        /\ f.last_exposed_sequence \in Index \cup {NoIndex}
    BY <1>1, FlowHas
  <2>2. Index \cup {NoIndex} \subseteq Int /\ 0 .. MaxIndex + 1 \subseteq Nat
    BY DeliveryAssumption DEF Index, NoIndex
  <2> QED BY <2>1, <2>2
<1>3. /\ f.mode = m /\ \A i \in DOMAIN f.queue : IsAccepted(acc, f.queue[i])
      /\ \A i \in DOMAIN f.by_index : IsAccepted(acc, [index |-> i, payload |-> f.by_index[i]])
      /\ IsAt(f, m, exp)
  BY DEF ReceivingInv
<1>4. g.mode = m /\ DOMAIN out.flows = DOMAIN ep.flows
  BY <1>1, <1>3 DEF OnlyFlow
<1>5. Ready(f) =>
        /\ t \in Transfer
        /\ m = Reliable => /\ f.next_exposure \in DOMAIN f.by_index
                           /\ t = [index |-> f.next_exposure,
                                   payload |-> f.by_index[f.next_exposure]]
        /\ m # Reliable => /\ FirstFresh(f) \in DOMAIN f.queue /\ t = f.queue[FirstFresh(f)]
                           /\ ~IsStale(f, t.index)
  BY <1>1, <1>3, ExposureIs
<1>6. t = Exposure(f) /\ now = IF Ready(f) THEN Append(exp, t) ELSE exp
  BY DEF ExposedNow
<1> HIDE DEF f, g
<1>7. /\ DOMAIN g.by_index \subseteq DOMAIN f.by_index
      /\ \A i \in DOMAIN g.by_index : g.by_index[i] = f.by_index[i]
      /\ \A i \in DOMAIN g.queue : \E j \in DOMAIN f.queue : g.queue[i] = f.queue[j]
  <2>1. CASE Ready(f) /\ f.mode = Reliable
    <3>1. g.by_index = Drop(f.by_index, {f.next_exposure}) /\ g.queue = f.queue
      BY <1>1, <2>1 DEF Polled
    <3> QED BY <3>1 DEF Drop, Restrict
  <2>2. CASE ~(Ready(f) /\ f.mode = Reliable)
    <3>1. PICK n \in 0 .. Len(f.queue) : g.queue = Rest(f.queue, n)
      BY <1>1, <2>2 DEF Polled
    <3>2. g.by_index = f.by_index
      BY <1>1, <2>2 DEF Polled
    <3> QED BY <1>2, <3>1, <3>2, RestIs
  <2> QED BY <2>1, <2>2
<1>8. /\ \A i \in DOMAIN g.queue : IsAccepted(acc, g.queue[i])
      /\ \A i \in DOMAIN g.by_index : IsAccepted(acc, [index |-> i, payload |-> g.by_index[i]])
  BY <1>3, <1>7
<1>9. CASE ~Ready(f)
  <2>1. now = exp
    BY <1>6, <1>9
  <2>2. g.next_exposure = f.next_exposure
        /\ g.last_exposed_sequence = f.last_exposed_sequence /\ g.by_index = f.by_index
    BY <1>1, <1>9 DEF Polled
  <2>3. ReceivingInv(g, m, acc, now)
    BY <1>3, <1>4, <1>8, <2>1, <2>2 DEF ReceivingInv, IsAt
  <2> QED BY <1>1, <1>4, <1>9, <2>1, <2>2, <2>3 DEF f, g
<1>10. CASE Ready(f)
  <2>1. /\ now = Append(exp, t) /\ t \in Transfer /\ now \in Seq(Transfer)
    BY <1>5, <1>6, <1>10
  <2>2. Len(exp) \in Nat /\ Len(now) = Len(exp) + 1 /\ now[Len(now)] = t /\ now # <<>>
    BY <2>1
  <2>3. t.index \in Int
    BY <2>1, DeliveryAssumption DEF Transfer, Index
  <2>4. CASE m = Reliable
    <3>1. f.next_exposure = Len(exp) /\ t.index = f.next_exposure
      BY <1>3, <1>5, <1>10, <2>4 DEF IsAt
    <3>2. /\ g.next_exposure = f.next_exposure + 1
          /\ g.by_index = Drop(f.by_index, {f.next_exposure})
      BY <1>1, <1>3, <1>10, <2>4 DEF Polled
    <3>3. DOMAIN g.by_index = DOMAIN f.by_index \ {f.next_exposure}
      BY <3>2 DEF Drop, Restrict
    <3>4. IsAt(g, m, now)
      BY <2>2, <2>4, <3>1, <3>2 DEF IsAt, Reliable, Sequenced
    <3>5. ReceivingInv(g, m, acc, now)
      BY <1>4, <1>8, <3>4 DEF ReceivingInv
    <3>6. IsAccepted(acc, t)
      BY <1>3, <1>5, <1>10, <2>4
    <3>7. \A i \in DOMAIN f.by_index : i \in DOMAIN g.by_index \/ i < Len(now)
      BY <2>2, <3>1, <3>3
    <3> QED BY <1>1, <1>4, <2>1, <2>4, <3>1, <3>5, <3>6, <3>7
            DEF f, g, Reliable, Sequenced
  <2>5. CASE m # Reliable
    <3>1. IsAccepted(acc, t)
      BY <1>3, <1>5, <1>10, <2>5
    <3>2. m = Sequenced => f.last_exposed_sequence < t.index
      BY <1>2, <1>3, <1>5, <1>10, <2>3, <2>5 DEF IsStale
    <3>3. m = Sequenced => g.last_exposed_sequence = t.index
      BY <1>1, <1>3, <1>6, <1>10 DEF Polled
    <3>4. IsAt(g, m, now)
      BY <2>2, <2>5, <3>3 DEF IsAt
    <3>5. ReceivingInv(g, m, acc, now)
      BY <1>4, <1>8, <3>4 DEF ReceivingInv
    <3>6. m = Sequenced /\ exp # <<>> => exp[Len(exp)].index < t.index
      BY <1>3, <3>2 DEF IsAt
    <3> QED BY <1>1, <1>4, <2>1, <2>5, <3>1, <3>5, <3>6 DEF f, g
  <2> QED BY <2>4, <2>5
<1> QED BY <1>9, <1>10

-----------------------------------------------------------------------------
(* The steps of the flow                                                   *)


\* A flow that is open at both ends is new at both.
LEMMA NewFlowIs ==
  ASSUME NEW m \in Mode, NEW policy, NEW f, f = NewFlow(m, policy)
  PROVE  /\ SendingInv(f, m, <<>>) /\ ReceivingInv(f, m, <<>>, <<>>)
         /\ f.outbound = <<>>
<1>1. /\ f.mode = m /\ f.next_accepted_index = 0 /\ f.outbound = <<>> /\ f.queue = <<>>
      /\ f.by_index = EmptyMap /\ f.next_exposure = 0 /\ f.last_exposed_sequence = NoIndex
  BY DEF NewFlow
<1>2. DOMAIN EmptyMap = {} /\ DOMAIN <<>> = {} /\ Len(<<>>) = 0
  BY EmptyMapIsEmpty
<1> QED BY <1>1, <1>2 DEF SendingInv, ReceivingInv, IsAt

\* Every flow may be established in a new endpoint.
LEMMA NewEndpointHasRoom ==
  ASSUME NEW ep, ep = NewEndpoint, NEW k, NEW m \in Mode, NEW policy \in Policy,
         ValidPolicy(policy, m)
  PROVE  MayEstablish(ep, k, m, policy, LinkLimits)
<1>1. EndpointInv(ep) /\ DOMAIN ep.flows = {}
  BY NewEndpointIsRight
<1>2. ASSUME NEW limits \in ScopeLimits PROVE CanAdd(NewScope(limits), 1, 0, 0)
  BY DEF CanAdd, NewScope, NoUsage, ScopeLimits
<1>3. ep.aggregate = NewScope(AggregateLimits) /\ ep.connections = EmptyMap
  BY DEF NewEndpoint
<1>4. DOMAIN ep.connections = {}
  BY <1>3, EmptyMapIsEmpty
<1>5. LinkLimits \in ScopeLimits /\ AggregateLimits \in ScopeLimits
  BY DeliveryAssumption, DeliveryPathAssumption
<1>6. CanEstablish(ep, k, m, policy, LinkLimits)
  <2>1. ScopeOf(ep.connections, k.connection, LinkLimits) = NewScope(LinkLimits)
    BY <1>4 DEF ScopeOf
  <2> QED BY <1>1, <1>2, <1>3, <1>4, <1>5, <2>1 DEF CanEstablish
<1> QED BY <1>1, <1>5, <1>6 DEF MayEstablish

\* Opening a flow.
LEMMA OpenStep ==
  ASSUME PathInv, NEW m \in Modes, OpenFlow(m)
  PROVE  PathInv' /\ Contract!Open(m)
<1>1. /\ mode = "None" /\ mode' = m /\ m \in Mode
      /\ sender' = Establish(sender, Outbound, m, SendingPolicy[m], LinkLimits)
      /\ receiver' = Establish(receiver, Inbound, m, ReceivingPolicy[m], LinkLimits)
      /\ in_transit' = in_transit /\ accepted' = accepted /\ exposed' = exposed
  BY DeliveryPathAssumption DEF OpenFlow
<1>2. /\ sender = NewEndpoint /\ receiver = NewEndpoint /\ accepted = <<>> /\ exposed = <<>>
      /\ \A t \in in_transit : IsAccepted(accepted, t)
      /\ in_transit \subseteq Transfer
  BY <1>1 DEF PathInv, TypeOK
<1>3. /\ SendingPolicy[m] \in Policy /\ ValidPolicy(SendingPolicy[m], m)
      /\ ReceivingPolicy[m] \in Policy /\ ValidPolicy(ReceivingPolicy[m], m)
  BY <1>1, DeliveryPathAssumption
<1>4. DOMAIN sender.flows = {} /\ DOMAIN receiver.flows = {}
  BY <1>2, NewEndpointIsRight
<1>5. /\ EndpointInv(sender') /\ DOMAIN sender'.flows = {Outbound}
      /\ sender'.flows[Outbound] = NewFlow(m, SendingPolicy[m])
  <2>1. MayEstablish(sender, Outbound, m, SendingPolicy[m], LinkLimits)
    BY <1>1, <1>2, <1>3, NewEndpointHasRoom
  <2> QED BY <1>1, <1>4, <2>1, EstablishChanges
<1>6. /\ EndpointInv(receiver') /\ DOMAIN receiver'.flows = {Inbound}
      /\ receiver'.flows[Inbound] = NewFlow(m, ReceivingPolicy[m])
  <2>1. MayEstablish(receiver, Inbound, m, ReceivingPolicy[m], LinkLimits)
    BY <1>1, <1>2, <1>3, NewEndpointHasRoom
  <2> QED BY <1>1, <1>4, <2>1, EstablishChanges
<1>7. /\ SendingInv(sender'.flows[Outbound], m, <<>>)
      /\ ReceivingInv(receiver'.flows[Inbound], m, <<>>, <<>>)
  BY <1>1, <1>5, <1>6, NewFlowIs
<1>8. Sending' /\ Receiving'
  BY <1>5, <1>6 DEF Sending, Receiving
<1>9. m # "None"
  BY <1>1 DEF Mode, Reliable, Unordered, Sequenced
<1>10. TypeOK'
  <2>1. accepted \in Seq(Payloads) /\ exposed \in Seq(Transfer) /\ Len(accepted) <= MaxIndex + 1
    BY DEF PathInv, TypeOK
  <2> QED BY <1>1, <1>2, <1>5, <1>6, <2>1 DEF TypeOK
<1>11. ReliableMessagesAreSomewhere'
  <2>1. DOMAIN accepted' = {}
    BY <1>1, <1>2
  <2> QED BY <2>1 DEF ReliableMessagesAreSomewhere
<1>12. PathInv'
  BY <1>1, <1>2, <1>5, <1>6, <1>7, <1>8, <1>9, <1>10, <1>11 DEF PathInv
<1>13. Contract!Open(m)
  BY <1>1, <1>8 DEF Contract!Open
<1> QED BY <1>12, <1>13

\* While a message is sent or taken the flow has a mode.
LEMMA FlowIsOpen ==
  ASSUME PathInv
  PROVE  Sending \/ Receiving => mode \in Mode
<1>1. mode = "None" => sender = NewEndpoint /\ receiver = NewEndpoint
  BY DEF PathInv
<1>2. mode = "None" => DOMAIN sender.flows = {} /\ DOMAIN receiver.flows = {}
  BY <1>1, NewEndpointIsRight
<1>3. mode \in Mode \cup {"None"}
  BY DEF PathInv, TypeOK
<1> QED BY <1>2, <1>3 DEF Sending, Receiving

\* Submitting a message: it is accepted, or nothing is.
LEMMA SubmitStep ==
  ASSUME PathInv, NEW p \in Payloads, HostSubmits(p)
  PROVE  PathInv' /\ (Contract!Accept(p) \/ UNCHANGED Contract!vars)
<1> DEFINE f == sender.flows[Outbound]
           g == sender'.flows[Outbound]
<1>1. /\ CanSubmit(sender, Outbound, p) /\ sender' = Submit(sender, Outbound, p)
      /\ accepted' = IF Accepts(sender, Outbound, p) THEN Append(accepted, p) ELSE accepted
      /\ receiver' = receiver /\ mode' = mode /\ in_transit' = in_transit
      /\ exposed' = exposed
  BY DEF HostSubmits
<1>2. Sending
  BY <1>1 DEF CanSubmit, Sending
<1>3. /\ EndpointInv(sender) /\ SendingInv(f, mode, accepted) /\ accepted \in Seq(Payloads)
      /\ DOMAIN sender.flows = {Outbound}
  BY <1>2 DEF PathInv, TypeOK, Sending
<1>4. /\ EndpointInv(sender') /\ DOMAIN sender'.flows = DOMAIN sender.flows
      /\ accepted' \in Seq(Payloads) /\ Len(accepted') <= MaxIndex + 1
      /\ SendingInv(g, mode, accepted')
      /\ mode = Reliable =>
           /\ Holds(f.outbound, g.outbound)
           /\ Accepts(sender, Outbound, p) =>
                \E j \in DOMAIN g.outbound :
                  g.outbound[j] = [index |-> Len(accepted), payload |-> p]
  <2>1. SendsFor(sender, Outbound, mode, accepted)
    BY <1>3 DEF SendsFor
  <2>2. accepted' = AcceptedNow(sender, Outbound, p, accepted)
    BY <1>1 DEF AcceptedNow
  <2>3. /\ CanSubmit(sender, Outbound, p) /\ sender' = Submit(sender, Outbound, p)
        /\ accepted \in Seq(Payloads)
    BY <1>1, <1>3
  <2> QED BY ONLY <2>1, <2>2, <2>3, p \in Payloads, SubmitSends
<1>5. ASSUME NEW t, t.index \in Nat, IsAccepted(accepted, t) PROVE IsAccepted(accepted', t)
  BY <1>1, <1>3, <1>5, AcceptedStays
<1>6. Sending' /\ Receiving' = Receiving /\ mode # "None"
  <2>1. mode # "None"
    BY <1>2, FlowIsOpen DEF Mode, Reliable, Unordered, Sequenced
  <2> QED BY <1>1, <1>2, <1>4, <2>1 DEF Sending, Receiving
<1>7. TypeOK'
  BY <1>1, <1>4 DEF PathInv, TypeOK
<1>8. \A t \in in_transit' : IsAccepted(accepted', t)
  <2>1. \A t \in Transfer : t.index \in Nat
    BY DeliveryAssumption DEF Transfer, Index
  <2> QED BY <1>1, <1>5, <2>1 DEF PathInv, TypeOK
<1>9. Receiving' => ReceivingInv(receiver'.flows[Inbound], mode', accepted', exposed')
  <2> SUFFICES ASSUME Receiving
               PROVE  ReceivingInv(receiver.flows[Inbound], mode, accepted', exposed)
    BY <1>1, <1>6
  <2> DEFINE r == receiver.flows[Inbound]
  <2>1. ReceivingInv(r, mode, accepted, exposed)
    BY DEF PathInv
  <2>2. r.queue \in Seq(Transfer) /\ DOMAIN r.by_index \subseteq Index
    BY FlowHas DEF PathInv, Receiving
  <2> HIDE DEF r
  <2>3. \A i \in DOMAIN r.queue : IsAccepted(accepted', r.queue[i])
    <3>1. \A t \in Transfer : t.index \in Nat
      BY DeliveryAssumption DEF Transfer, Index
    <3>2. \A i \in DOMAIN r.queue : r.queue[i].index \in Nat
      BY <2>2, <3>1
    <3> QED BY <1>5, <2>1, <3>2 DEF ReceivingInv
  <2>4. \A i \in DOMAIN r.by_index :
          IsAccepted(accepted', [index |-> i, payload |-> r.by_index[i]])
    <3>1. \A i \in DOMAIN r.by_index : i \in Nat
      BY <2>2, DeliveryAssumption DEF Index
    <3> QED BY <1>5, <2>1, <3>1 DEF ReceivingInv
  <2> QED BY <2>1, <2>3, <2>4 DEF ReceivingInv, r
<1> HIDE DEF f, g
<1>10. ReliableMessagesAreSomewhere'
  <2> SUFFICES ASSUME mode = Reliable, Receiving, NEW i \in DOMAIN accepted'
               PROVE  \/ [index |-> i - 1, payload |-> accepted'[i]]
                           \in {g.outbound[j] : j \in DOMAIN g.outbound} \cup in_transit
                      \/ i - 1 \in DOMAIN receiver.flows[Inbound].by_index
                      \/ i <= Len(exposed)
    BY <1>1, <1>6 DEF ReliableMessagesAreSomewhere, g
  <2>1. CASE i \in DOMAIN accepted
    <3>1. accepted'[i] = accepted[i]
      BY <1>1, <1>3, <2>1
    <3>2. \/ [index |-> i - 1, payload |-> accepted[i]]
               \in {f.outbound[j] : j \in DOMAIN f.outbound} \cup in_transit
          \/ i - 1 \in DOMAIN receiver.flows[Inbound].by_index
          \/ i <= Len(exposed)
      BY <1>2, <2>1 DEF PathInv, ReliableMessagesAreSomewhere, f
    <3> QED BY <1>4, <3>1, <3>2 DEF Holds
  <2>2. CASE i \notin DOMAIN accepted
    <3>1. /\ Accepts(sender, Outbound, p) /\ i - 1 = Len(accepted) /\ accepted'[i] = p
      BY <1>1, <1>3, <2>2
    <3> QED BY <1>4, <3>1
  <2> QED BY <2>1, <2>2
<1>11. PathInv'
  BY <1>1, <1>4, <1>6, <1>7, <1>8, <1>9, <1>10 DEF PathInv, g
<1>12. Contract!Accept(p) \/ UNCHANGED Contract!vars
  BY <1>1, <1>2, <1>6 DEF Contract!Accept, Contract!vars
<1> QED BY <1>11, <1>12

\* Taking custody of a message: the contract does not see it.
LEMMA CustodyStep ==
  ASSUME PathInv, TakeCustody
  PROVE  PathInv' /\ UNCHANGED Contract!vars
<1> DEFINE f == sender.flows[Outbound]
           g == sender'.flows[Outbound]
           t == f.outbound[1]
<1>1. /\ CanCommitCustody(sender, Outbound) /\ sender' = CommitCustody(sender, Outbound)
      /\ in_transit' = in_transit \cup {t}
      /\ receiver' = receiver /\ mode' = mode /\ accepted' = accepted /\ exposed' = exposed
  BY DEF TakeCustody
<1>2. Sending
  BY <1>1 DEF CanCommitCustody, Sending
<1>3. /\ EndpointInv(sender) /\ SendingInv(f, mode, accepted) /\ accepted \in Seq(Payloads)
      /\ DOMAIN sender.flows = {Outbound}
  BY <1>2 DEF PathInv, TypeOK, Sending
<1>4. /\ EndpointInv(sender') /\ DOMAIN sender'.flows = DOMAIN sender.flows
      /\ SendingInv(g, mode, accepted) /\ t \in Transfer /\ IsAccepted(accepted, t)
      /\ \A i \in DOMAIN f.outbound :
           \/ f.outbound[i] = t
           \/ \E j \in DOMAIN g.outbound : g.outbound[j] = f.outbound[i]
  <2>1. SendsFor(sender, Outbound, mode, accepted)
    BY <1>3 DEF SendsFor
  <2> QED BY <1>1, <1>3, <2>1, CommitSends
<1>5. Sending' /\ Receiving' = Receiving /\ mode # "None"
  <2>1. mode # "None"
    BY <1>2, FlowIsOpen DEF Mode, Reliable, Unordered, Sequenced
  <2> QED BY <1>1, <1>2, <1>4, <2>1 DEF Sending, Receiving
<1> HIDE DEF f, g, t
<1>6. TypeOK'
  BY <1>1, <1>4 DEF PathInv, TypeOK
<1>7. ReliableMessagesAreSomewhere'
  <2> SUFFICES ASSUME mode = Reliable, Receiving, NEW i \in DOMAIN accepted
               PROVE  \/ [index |-> i - 1, payload |-> accepted[i]]
                           \in {g.outbound[j] : j \in DOMAIN g.outbound} \cup in_transit'
                      \/ i - 1 \in DOMAIN receiver.flows[Inbound].by_index
                      \/ i <= Len(exposed)
    BY <1>1, <1>5 DEF ReliableMessagesAreSomewhere, g
  <2>1. \/ [index |-> i - 1, payload |-> accepted[i]]
             \in {f.outbound[j] : j \in DOMAIN f.outbound} \cup in_transit
        \/ i - 1 \in DOMAIN receiver.flows[Inbound].by_index
        \/ i <= Len(exposed)
    BY <1>2 DEF PathInv, ReliableMessagesAreSomewhere, f
  <2> QED BY <1>1, <1>4, <2>1
<1>8. \A x \in in_transit' : IsAccepted(accepted', x)
  BY <1>1, <1>4 DEF PathInv
<1>9. Receiving' => ReceivingInv(receiver'.flows[Inbound], mode', accepted', exposed')
  BY <1>1, <1>5 DEF PathInv
<1>10. PathInv'
  BY <1>1, <1>4, <1>5, <1>6, <1>7, <1>8, <1>9 DEF PathInv, g
<1> QED BY <1>1, <1>2, <1>5, <1>10 DEF Contract!vars

\* A transfer of the receiving end: what is in transit, and whether the flow is open.
LEMMA ReceivingHas ==
  ASSUME PathInv, CanReceive(receiver, Inbound)
  PROVE  /\ Receiving /\ mode \in Mode /\ DOMAIN receiver.flows = {Inbound}
         /\ EndpointInv(receiver) /\ accepted \in Seq(Payloads) /\ exposed \in Seq(Transfer)
         /\ ReceivesFor(receiver, Inbound, mode, accepted, exposed)
<1>1. Receiving
  BY DEF CanReceive, Receiving
<1> QED BY <1>1, FlowIsOpen DEF PathInv, TypeOK, ReceivesFor, Receiving

\* A transfer arrives: the contract does not see it, or the receiving end fails.
LEMMA DeliverStep ==
  ASSUME PathInv, NEW t \in in_transit, Deliver(t)
  PROVE  PathInv' /\ (Contract!EndReceiving \/ UNCHANGED Contract!vars)
<1> DEFINE r == receiver.flows[Inbound]
           g == receiver'.flows[Inbound]
<1>1. /\ CanReceive(receiver, Inbound) /\ receiver' = Receive(receiver, Inbound, mode, t)
      /\ in_transit' = in_transit \ {t} \/ in_transit' = in_transit
      /\ sender' = sender /\ mode' = mode /\ accepted' = accepted /\ exposed' = exposed
  BY DEF Deliver
<1>2. /\ Receiving /\ mode \in Mode /\ DOMAIN receiver.flows = {Inbound}
      /\ EndpointInv(receiver) /\ accepted \in Seq(Payloads) /\ exposed \in Seq(Transfer)
      /\ ReceivesFor(receiver, Inbound, mode, accepted, exposed)
  BY <1>1, ReceivingHas
<1>3. mode # "None" /\ t \in Transfer /\ IsAccepted(accepted, t)
  BY <1>2 DEF Mode, Reliable, Unordered, Sequenced, PathInv, TypeOK
<1>4. /\ in_transit' \subseteq in_transit /\ (in_transit \ {t}) \subseteq in_transit'
      /\ Sending' = Sending
  BY <1>1 DEF Sending
<1>5. CASE FailsReliably(receiver, Inbound, mode, t)
  <2>1. EndpointInv(receiver') /\ DOMAIN receiver'.flows = {}
    <3>1. EndpointInv(receiver') /\ DOMAIN receiver'.flows = DOMAIN receiver.flows \ {Inbound}
      BY <1>1, <1>2, <1>5, ReceiveEnds
    <3> QED BY <1>2, <3>1
  <2>2. ~Receiving'
    BY <2>1 DEF Receiving
  <2>3. TypeOK'
    BY <1>1, <1>4, <2>1 DEF PathInv, TypeOK
  <2>4. ReliableMessagesAreSomewhere'
    BY <2>2 DEF ReliableMessagesAreSomewhere
  <2>5. \A x \in in_transit' : IsAccepted(accepted', x)
    BY <1>1, <1>4 DEF PathInv
  <2>6. Sending' => SendingInv(sender'.flows[Outbound], mode', accepted')
    BY <1>1, <1>4 DEF PathInv
  <2>7. PathInv'
    BY <1>1, <1>3, <2>1, <2>2, <2>3, <2>4, <2>5, <2>6 DEF PathInv
  <2> QED BY <1>1, <1>4, <2>2, <2>7 DEF Contract!EndReceiving
<1>6. CASE ~FailsReliably(receiver, Inbound, mode, t)
  <2>1. /\ EndpointInv(receiver') /\ DOMAIN receiver'.flows = DOMAIN receiver.flows
        /\ ReceivingInv(g, mode, accepted, exposed)
        /\ mode = Reliable => /\ DOMAIN r.by_index \subseteq DOMAIN g.by_index
                              /\ t.index \in DOMAIN g.by_index \/ t.index < Len(exposed)
    BY <1>1, <1>2, <1>3, <1>6, ReceiveHolds
  <2>2. Receiving'
    BY <1>2, <2>1 DEF Receiving
  <2>3. TypeOK'
    BY <1>1, <1>4, <2>1 DEF PathInv, TypeOK
  <2> HIDE DEF r, g
  <2>4. ReliableMessagesAreSomewhere'
    <3> DEFINE w == {sender.flows[Outbound].outbound[j] :
                       j \in DOMAIN sender.flows[Outbound].outbound}
    <3> SUFFICES ASSUME mode = Reliable, Sending, NEW i \in DOMAIN accepted
                 PROVE  \/ [index |-> i - 1, payload |-> accepted[i]] \in w \cup in_transit'
                        \/ i - 1 \in DOMAIN g.by_index
                        \/ i <= Len(exposed)
      BY <1>1, <1>4 DEF ReliableMessagesAreSomewhere, g
    <3>1. \/ [index |-> i - 1, payload |-> accepted[i]] \in w \cup in_transit
          \/ i - 1 \in DOMAIN r.by_index
          \/ i <= Len(exposed)
      BY <1>2 DEF PathInv, ReliableMessagesAreSomewhere, r
    <3> HIDE DEF w
    <3>2. i \in Nat /\ Len(exposed) \in Nat
      BY <1>2
    <3>3. CASE [index |-> i - 1, payload |-> accepted[i]] = t
      <4>1. t.index = i - 1
        BY <3>3
      <4> QED BY <2>1, <3>2, <4>1
    <3> QED BY <1>4, <2>1, <3>1, <3>3
  <2>5. \A x \in in_transit' : IsAccepted(accepted', x)
    BY <1>1, <1>4 DEF PathInv
  <2>6. Sending' => SendingInv(sender'.flows[Outbound], mode', accepted')
    BY <1>1, <1>4 DEF PathInv
  <2>7. PathInv'
    BY <1>1, <1>3, <2>1, <2>2, <2>3, <2>4, <2>5, <2>6 DEF PathInv, g
  <2>8. Receiving' = Receiving
    BY <1>2, <2>1 DEF Receiving
  <2> QED BY <1>1, <1>4, <2>7, <2>8 DEF Contract!vars
<1> QED BY <1>5, <1>6

\* Losing an unreliable transfer.
LEMMA LoseStep ==
  ASSUME PathInv, NEW t \in in_transit, LoseUnreliable(t)
  PROVE  PathInv' /\ UNCHANGED Contract!vars
<1>1. /\ in_transit' = in_transit \ {t} /\ mode # Reliable
      /\ sender' = sender /\ receiver' = receiver /\ mode' = mode
      /\ accepted' = accepted /\ exposed' = exposed
  BY DEF LoseUnreliable
<1>2. Sending' = Sending /\ Receiving' = Receiving
  BY <1>1 DEF Sending, Receiving
<1>3. TypeOK' /\ \A x \in in_transit' : IsAccepted(accepted', x)
  BY <1>1 DEF PathInv, TypeOK
<1>4. ReliableMessagesAreSomewhere'
  BY <1>1 DEF ReliableMessagesAreSomewhere
<1>5. PathInv'
  BY <1>1, <1>2, <1>3, <1>4 DEF PathInv
<1> QED BY <1>1, <1>2, <1>5 DEF Contract!vars

\* The sending end is gone, and no more is in transit than was.
LEMMA SendingEnds ==
  ASSUME PathInv, Sending, sender' = Terminate(sender, Outbound),
         in_transit' \subseteq in_transit,
         UNCHANGED <<receiver, mode, accepted, exposed>>
  PROVE  PathInv' /\ Contract!EndSending
<1>1. receiver' = receiver /\ mode' = mode /\ accepted' = accepted /\ exposed' = exposed
  OBVIOUS
<1>2. EndpointInv(sender') /\ DOMAIN sender'.flows = {} /\ mode # "None"
  <2>1. Outbound \in DOMAIN sender.flows /\ DOMAIN sender.flows \subseteq {Outbound}
    BY DEF Sending, PathInv, TypeOK
  <2>2. EndpointInv(sender') /\ DOMAIN sender'.flows = DOMAIN sender.flows \ {Outbound}
    BY <2>1, TerminateChanges DEF PathInv
  <2>3. mode # "None"
    BY FlowIsOpen DEF Mode, Reliable, Unordered, Sequenced
  <2> QED BY <2>1, <2>2, <2>3
<1>3. ~Sending' /\ Receiving' = Receiving
  BY <1>1, <1>2 DEF Sending, Receiving
<1>4. TypeOK' /\ \A x \in in_transit' : IsAccepted(accepted', x)
  BY <1>1, <1>2 DEF PathInv, TypeOK
<1>5. ReliableMessagesAreSomewhere'
  BY <1>3 DEF ReliableMessagesAreSomewhere
<1>6. PathInv'
  BY <1>1, <1>2, <1>3, <1>4, <1>5 DEF PathInv
<1> QED BY <1>1, <1>3, <1>6 DEF Contract!EndSending

\* The host ends the receiving end.
LEMMA EndReceivingStep ==
  ASSUME PathInv, EndReceiving
  PROVE  PathInv' /\ Contract!EndReceiving
<1>1. /\ Receiving /\ receiver' = Terminate(receiver, Inbound) /\ sender' = sender
      /\ mode' = mode /\ in_transit' = in_transit
      /\ accepted' = accepted /\ exposed' = exposed
  BY DEF EndReceiving
<1>2. EndpointInv(receiver') /\ DOMAIN receiver'.flows = {} /\ mode # "None"
  <2>1. Inbound \in DOMAIN receiver.flows /\ DOMAIN receiver.flows \subseteq {Inbound}
    BY <1>1 DEF Receiving, PathInv, TypeOK
  <2>2. EndpointInv(receiver') /\ DOMAIN receiver'.flows = DOMAIN receiver.flows \ {Inbound}
    BY <1>1, <2>1, TerminateChanges DEF PathInv
  <2>3. mode # "None"
    BY <1>1, FlowIsOpen DEF Mode, Reliable, Unordered, Sequenced
  <2> QED BY <2>1, <2>2, <2>3
<1>3. Sending' = Sending /\ ~Receiving'
  BY <1>1, <1>2 DEF Sending, Receiving
<1>4. TypeOK' /\ \A x \in in_transit' : IsAccepted(accepted', x)
  BY <1>1, <1>2 DEF PathInv, TypeOK
<1>5. ReliableMessagesAreSomewhere'
  BY <1>3 DEF ReliableMessagesAreSomewhere
<1>6. PathInv'
  BY <1>1, <1>2, <1>3, <1>4, <1>5 DEF PathInv
<1> QED BY <1>1, <1>3, <1>6 DEF Contract!EndReceiving

\* Polling exposes a message as the contract allows, or none.
LEMMA PollStep ==
  ASSUME PathInv, HostPolls
  PROVE  /\ PathInv'
         /\ \/ \E i \in 0 .. Len(accepted) - 1 : Contract!Expose(i)
            \/ UNCHANGED Contract!vars
<1> DEFINE r == receiver.flows[Inbound]
           g == receiver'.flows[Inbound]
           t == Exposure(r)
<1>1. /\ CanReceive(receiver, Inbound) /\ receiver' = Poll(receiver, Inbound)
      /\ exposed' = IF Ready(r) THEN Append(exposed, t) ELSE exposed
      /\ sender' = sender /\ mode' = mode /\ in_transit' = in_transit
      /\ accepted' = accepted
  BY DEF HostPolls
<1>2. /\ Receiving /\ mode \in Mode /\ DOMAIN receiver.flows = {Inbound}
      /\ EndpointInv(receiver) /\ accepted \in Seq(Payloads) /\ exposed \in Seq(Transfer)
      /\ ReceivesFor(receiver, Inbound, mode, accepted, exposed)
  BY <1>1, ReceivingHas
<1>3. mode # "None"
  BY <1>2 DEF Mode, Reliable, Unordered, Sequenced
<1>4. /\ EndpointInv(receiver') /\ DOMAIN receiver'.flows = DOMAIN receiver.flows
      /\ exposed' \in Seq(Transfer)
      /\ ReceivingInv(g, mode, accepted, exposed')
      /\ Ready(r) =>
           /\ t \in Transfer /\ IsAccepted(accepted, t)
           /\ mode = Reliable => t.index = Len(exposed)
           /\ mode = Sequenced /\ exposed # <<>> => exposed[Len(exposed)].index < t.index
      /\ mode = Reliable =>
           \A i \in DOMAIN r.by_index : i \in DOMAIN g.by_index \/ i < Len(exposed')
  <2>1. exposed' = ExposedNow(r, exposed)
    BY <1>1 DEF ExposedNow
  <2>2. CanReceive(receiver, Inbound) /\ receiver' = Poll(receiver, Inbound)
    BY <1>1
  <2>3. ReceivesFor(receiver, Inbound, mode, accepted, exposed)
    BY <1>2
  <2> QED BY ONLY <2>1, <2>2, <2>3, PollExposes
<1>5. Sending' = Sending /\ Receiving' = Receiving
  BY <1>1, <1>2, <1>4 DEF Sending, Receiving
<1>6. TypeOK'
  BY <1>1, <1>4 DEF PathInv, TypeOK
<1> HIDE DEF r, g, t
<1>7. ReliableMessagesAreSomewhere'
  <2> DEFINE w == {sender.flows[Outbound].outbound[j] :
                     j \in DOMAIN sender.flows[Outbound].outbound}
  <2> SUFFICES ASSUME mode = Reliable, Sending, NEW i \in DOMAIN accepted
               PROVE  \/ [index |-> i - 1, payload |-> accepted[i]] \in w \cup in_transit
                      \/ i - 1 \in DOMAIN g.by_index
                      \/ i <= Len(exposed')
    BY <1>1, <1>5 DEF ReliableMessagesAreSomewhere, g
  <2>1. \/ [index |-> i - 1, payload |-> accepted[i]] \in w \cup in_transit
        \/ i - 1 \in DOMAIN r.by_index
        \/ i <= Len(exposed)
    BY <1>2 DEF PathInv, ReliableMessagesAreSomewhere, r
  <2> HIDE DEF w
  <2>2. i \in Nat /\ Len(exposed) \in Nat /\ Len(exposed') \in Nat
    BY <1>2, <1>4
  <2>3. Len(exposed) <= Len(exposed')
    <3>1. CASE Ready(r)
      <4>1. exposed' = Append(exposed, t) /\ t \in Transfer
        BY <1>1, <1>4, <3>1 DEF r, t
      <4>2. Len(exposed') = Len(exposed) + 1
        BY <1>2, <4>1
      <4> QED BY <2>2, <4>2
    <3>2. CASE ~Ready(r)
      BY <1>1, <2>2, <3>2 DEF r
    <3> QED BY <3>1, <3>2
  <2> QED BY <1>4, <2>1, <2>2, <2>3
<1>8. (\A x \in in_transit' : IsAccepted(accepted', x))
      /\ (Sending' => SendingInv(sender'.flows[Outbound], mode', accepted'))
  BY <1>1, <1>5 DEF PathInv
<1>9. PathInv'
  BY <1>1, <1>3, <1>4, <1>5, <1>6, <1>7, <1>8 DEF PathInv, g
<1>10. CASE ~Ready(r)
  BY <1>1, <1>5, <1>9, <1>10 DEF Contract!vars, r
<1>11. CASE Ready(r)
  <2>1. t = [index |-> t.index, payload |-> accepted[t.index + 1]]
        /\ t.index \in 0 .. Len(accepted) - 1
    <3>1. t = [index |-> t.index, payload |-> t.payload] /\ t.index \in Nat
      BY <1>4, <1>11, DeliveryAssumption DEF Transfer, Index
    <3>2. t.index < Len(accepted) /\ t.payload = accepted[t.index + 1]
      BY <1>4, <1>11 DEF IsAccepted
    <3>3. Len(accepted) \in Nat
      BY <1>2
    <3> QED BY <3>1, <3>2, <3>3
  <2>2. exposed' = Append(exposed, [index |-> t.index, payload |-> accepted[t.index + 1]])
    BY <1>1, <1>11, <2>1 DEF r, t
  <2>3. /\ mode = "ReliableOrdered" => t.index = Len(exposed)
        /\ mode = "UnreliableSequenced" /\ exposed # <<>> =>
             exposed[Len(exposed)].index < t.index
    BY <1>4, <1>11 DEF Reliable, Sequenced
  <2>4. t.index < Len(accepted)
    BY <1>4, <1>11 DEF IsAccepted
  <2>5. Contract!Expose(t.index)
    BY <1>1, <1>2, <1>5, <2>2, <2>3, <2>4 DEF Contract!Expose, Contract!MayExpose
  <2> QED BY <1>9, <2>1, <2>5
<1> QED BY <1>10, <1>11

-----------------------------------------------------------------------------
(* The flow                                                                *)

\* Before it opens there is no flow, and the contract starts so.
LEMMA PathInitHolds == Init => PathInv /\ Contract!Init
<1> SUFFICES ASSUME Init PROVE PathInv /\ Contract!Init
  OBVIOUS
<1>1. /\ sender = NewEndpoint /\ receiver = NewEndpoint /\ mode = "None"
      /\ in_transit = {} /\ accepted = <<>> /\ exposed = <<>>
  BY DEF Init
<1>2. /\ EndpointInv(sender) /\ DOMAIN sender.flows = {}
      /\ EndpointInv(receiver) /\ DOMAIN receiver.flows = {}
  BY <1>1, NewEndpointIsRight
<1>3. ~Sending /\ ~Receiving
  BY <1>2 DEF Sending, Receiving
<1>4. TypeOK
  <2>1. <<>> \in Seq(Payloads) /\ <<>> \in Seq(Transfer) /\ Len(<<>>) <= MaxIndex + 1
    BY DeliveryAssumption
  <2> QED BY <1>1, <1>2, <2>1 DEF TypeOK
<1>5. ReliableMessagesAreSomewhere
  BY <1>3 DEF ReliableMessagesAreSomewhere
<1>6. PathInv
  BY <1>1, <1>2, <1>3, <1>4, <1>5 DEF PathInv
<1> QED BY <1>1, <1>3, <1>6 DEF Contract!Init

\* Every step keeps the invariant and is one the contract allows.
LEMMA PathNextKeeps ==
  PathInv /\ [Next]_vars => PathInv' /\ [Contract!Next]_(Contract!vars)
<1> SUFFICES ASSUME PathInv, [Next]_vars
             PROVE  PathInv' /\ [Contract!Next]_(Contract!vars)
  OBVIOUS
<1>1. CASE UNCHANGED vars
  <2>1. /\ sender' = sender /\ receiver' = receiver /\ mode' = mode
        /\ in_transit' = in_transit /\ accepted' = accepted /\ exposed' = exposed
    BY <1>1 DEF vars
  <2>2. PathInv'
    BY <2>1 DEF PathInv, TypeOK, Sending, Receiving, ReliableMessagesAreSomewhere
  <2>3. UNCHANGED Contract!vars
    BY <2>1 DEF Contract!vars, Sending, Receiving
  <2> QED BY <2>2, <2>3
<1>2. ASSUME NEW m \in Modes, OpenFlow(m)
      PROVE  PathInv' /\ [Contract!Next]_(Contract!vars)
  <2>1. PathInv' /\ Contract!Open(m)
    BY <1>2, OpenStep
  <2>2. m \in {"ReliableOrdered", "UnreliableUnordered", "UnreliableSequenced"}
    BY DeliveryPathAssumption DEF Mode, Reliable, Unordered, Sequenced
  <2> QED BY <2>1, <2>2 DEF Contract!Next
<1>3. ASSUME NEW p \in Payloads, HostSubmits(p)
      PROVE  PathInv' /\ [Contract!Next]_(Contract!vars)
  BY <1>3, SubmitStep DEF Contract!Next
<1>4. CASE TakeCustody
  BY <1>4, CustodyStep
<1>5. ASSUME NEW t \in in_transit, Deliver(t) \/ LoseUnreliable(t) \/ FailReliableCustody(t)
      PROVE  PathInv' /\ [Contract!Next]_(Contract!vars)
  <2>1. CASE Deliver(t)
    BY <2>1, DeliverStep DEF Contract!Next
  <2>2. CASE LoseUnreliable(t)
    BY <2>2, LoseStep
  <2>3. CASE FailReliableCustody(t)
    BY <2>3, SendingEnds DEF FailReliableCustody, Contract!Next
  <2> QED BY <1>5, <2>1, <2>2, <2>3
<1>6. CASE HostPolls
  BY <1>6, PollStep DEF Contract!Next
<1>7. CASE EndSending
  BY <1>7, SendingEnds DEF EndSending, Contract!Next
<1>8. CASE EndReceiving
  BY <1>8, EndReceivingStep DEF Contract!Next
<1> QED BY <1>1, <1>2, <1>3, <1>4, <1>5, <1>6, <1>7, <1>8 DEF Next

\* In every reachable state the ends, the transport and the histories agree.
THEOREM PathInvAlways == Spec => []PathInv
<1>1. Init => PathInv
  BY PathInitHolds
<1>2. PathInv /\ [Next]_vars => PathInv'
  BY PathNextKeeps
<1> QED BY <1>1, <1>2, PTL DEF Spec

\* CustodyIsUnbroken: while both ends of a reliable flow are alive, every message that
\* submit_message accepted is waiting, in the transport's custody, buffered or exposed,
\* for any policies, limits, payloads and number of messages.
THEOREM CustodyIsNeverBroken == Spec => []CustodyIsUnbroken
<1>1. PathInv => CustodyIsUnbroken
  BY DEF PathInv, CustodyIsUnbroken
<1> QED BY <1>1, PathInvAlways, PTL

\* ImplementsContract: whatever the transport reorders, repeats or loses, what
\* poll_exposure returns is what was accepted under its index, in the order the mode of
\* the flow promises.
THEOREM FlowImplementsContract == Spec => ImplementsContract
<1>1. Init => Contract!Init
  BY PathInitHolds
<1>2. PathInv /\ [Next]_vars => [Contract!Next]_(Contract!vars)
  BY PathNextKeeps
<1> QED BY <1>1, <1>2, PathInvAlways, PTL DEF Spec, ImplementsContract, Contract!Spec
=============================================================================
