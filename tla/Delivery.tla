------------------------------ MODULE Delivery ------------------------------
(***************************************************************************)
(* One delivery endpoint (DeliveryEndpoint of delivery.rs) with an         *)
(* arbitrary host and an arbitrary transport: flows come and go, messages  *)
(* are submitted, taken, received in any order and number, and exposed,    *)
(* all under shared limits.                                                *)
(***************************************************************************)
EXTENDS DeliveryEndpoint

CONSTANTS
  Keys,            \* flow keys: connection, direction, handle
  Sessions,        \* open sessions
  Policies,        \* resource policies the host chooses from
  ConnectionLimits, SessionLimits    \* DeliveryScopeLimits it chooses from

ASSUME DeliveryHostAssumption ==
  /\ Policies \subseteq Policy
  /\ ConnectionLimits \subseteq ScopeLimits /\ SessionLimits \subseteq ScopeLimits
  /\ NoSession \notin Sessions

VARIABLE endpoint

Flows == DOMAIN endpoint.flows

IsFlow(k, flow) ==
  /\ flow.mode \in Mode /\ flow.policy \in Policies
  /\ ValidPolicy(flow.policy, flow.mode)
  /\ flow.session \in Sessions \cup {NoSession}
  /\ flow.next_accepted_index \in 0 .. MaxIndex + 1
  /\ flow.next_exposure \in 0 .. MaxIndex + 1
  /\ flow.last_exposed_sequence \in Index \cup {NoIndex}
  /\ flow.outbound \in Seq(Transfer) /\ flow.queue \in Seq(Transfer)
  /\ flow.by_index \in [DOMAIN flow.by_index -> Payloads]
  /\ k.direction = "Inbound" => flow.outbound = <<>>
  /\ k.direction = "Outbound" => flow.queue = <<>> /\ flow.by_index = EmptyMap

EndpointTypeOK ==
  /\ Flows \subseteq Keys
  /\ \A k \in Flows : IsFlow(k, endpoint.flows[k])
  /\ endpoint.aggregate \in Scope
  /\ \A c \in DOMAIN endpoint.connections : endpoint.connections[c] \in Scope
  /\ DOMAIN endpoint.sessions \subseteq Sessions
  /\ \A s \in DOMAIN endpoint.sessions : endpoint.sessions[s] \in Scope
  /\ endpoint.outbound_drops \in 0 .. MaxCount
  /\ endpoint.inbound_drops \in 0 .. MaxCount

EndpointInit == endpoint = NewEndpoint

-----------------------------------------------------------------------------

EstablishFlow(k, mode, policy, limits) ==
  /\ CanEstablish(endpoint, k, mode, policy, limits)
  /\ endpoint' = Establish(endpoint, k, mode, policy, limits)

AssociateFlowWithSession(k, s, limits) ==
  /\ CanAssociate(endpoint, k, s, limits)
  /\ endpoint' = Associate(endpoint, k, s, limits)

SubmitMessage(k, payload) ==
  /\ CanSubmit(endpoint, k, payload)
  /\ endpoint' = Submit(endpoint, k, payload)

CommitOutboundCustody(k) ==
  /\ CanCommitCustody(endpoint, k)
  /\ endpoint' = CommitCustody(endpoint, k)

ReceiveTransfer(k, mode, t) ==
  /\ CanReceive(endpoint, k)
  /\ endpoint' = Receive(endpoint, k, mode, t)

PollExposure(k) ==
  /\ CanReceive(endpoint, k)
  /\ endpoint' = Poll(endpoint, k)

\* terminate_flow; fail_reliable_custody is the same for a reliable flow.
TerminateFlow(k) ==
  /\ k \in Flows
  /\ endpoint' = Terminate(endpoint, k)

\* terminate_connection: every flow of the connection, one after the other.
TerminateConnection(c) ==
  endpoint' = FoldSet(LAMBDA k, ep : Terminate(ep, k), endpoint,
                      {k \in Flows : k.connection = c})

HostStep(k) ==
  \/ \E mode \in Mode, policy \in Policies, limits \in ConnectionLimits :
       EstablishFlow(k, mode, policy, limits)
  \/ \E s \in Sessions, limits \in SessionLimits : AssociateFlowWithSession(k, s, limits)
  \/ \E payload \in Payloads : SubmitMessage(k, payload)
  \/ PollExposure(k)
  \/ TerminateFlow(k)

TransportStep(k) ==
  \/ CommitOutboundCustody(k)
  \/ \E mode \in Mode, t \in Transfer : ReceiveTransfer(k, mode, t)

EndpointNext ==
  \/ \E k \in Keys : HostStep(k) \/ TransportStep(k)
  \/ \E c \in DOMAIN endpoint.connections : TerminateConnection(c)

EndpointSpec == EndpointInit /\ [][EndpointNext]_endpoint
-----------------------------------------------------------------------------

Holdings(ks) ==
  [flows |-> Cardinality(ks),
   messages |-> SumFunction([k \in ks |-> Contents(endpoint.flows[k]).messages]),
   bytes |-> SumFunction([k \in ks |-> Contents(endpoint.flows[k]).bytes])]

Of(s) == {k \in Flows : endpoint.flows[k].session = s}
On(c) == {k \in Flows : k.connection = c}

\* The counters that every operation adjusts by hand are exact: each flow and
\* each scope is charged for what its flows hold, wherever eviction, exposure,
\* custody, association and termination cross, and a scope exists exactly as
\* long as it has a flow (add_pending, remove_pending, terminate_flow).
UsageIsExact ==
  /\ \A k \in Flows :
       LET flow == endpoint.flows[k]
       IN Contents(flow) = [messages |-> flow.pending_messages, bytes |-> flow.pending_bytes]
  /\ endpoint.aggregate.usage = Holdings(Flows)
  /\ DOMAIN endpoint.connections = {k.connection : k \in Flows}
  /\ \A c \in DOMAIN endpoint.connections :
       endpoint.connections[c].usage = Holdings(On(c))
  /\ DOMAIN endpoint.sessions = {endpoint.flows[k].session : k \in Flows} \ {NoSession}
  /\ \A s \in DOMAIN endpoint.sessions : endpoint.sessions[s].usage = Holdings(Of(s))

\* No flow, connection, session or endpoint ever holds more than its limits,
\* also when a flow joins a session with messages already pending.
LimitsHold ==
  /\ \A k \in Flows :
       LET policy == endpoint.flows[k].policy
       IN Within([flows |-> 1, messages |-> policy.messages, bytes |-> policy.bytes],
                 Holdings({k}))
  /\ \A c \in DOMAIN endpoint.connections : Within(endpoint.connections[c].limits, Holdings(On(c)))
  /\ \A s \in DOMAIN endpoint.sessions : Within(endpoint.sessions[s].limits, Holdings(Of(s)))
  /\ Within(endpoint.aggregate.limits, Holdings(Flows))

\* The hand-kept counters of every scope are exact and bounded, in every order of
\* associations, evictions, exposures, custody transfers and terminations.
AccountingHolds == UsageIsExact /\ LimitsHold

\* What a flow has accepted and not handed over is a run of consecutive indices
\* up to the last accepted one when the flow is reliable, for such a message
\* leaves only by custody, and strictly ascending otherwise. What a reliable
\* flow has buffered is never something it has exposed.
OrderIsKept ==
  \A k \in Flows :
    LET flow == endpoint.flows[k]
        out == flow.outbound
    IN /\ \A i, j \in DOMAIN out : i < j => out[i].index < out[j].index
       /\ flow.mode = Reliable =>
            \A i \in DOMAIN out :
              out[i].index = flow.next_accepted_index - Len(out) + i - 1
       /\ \A i \in DOMAIN flow.by_index : flow.next_exposure <= i

\* Every message the receiver gives up under pressure is counted, the incoming
\* one included ("Each eviction MUST be classified").
InboundDropsAreCounted ==
  [][\A k \in Flows \cap DOMAIN endpoint'.flows, t \in Transfer :
       LET flow == endpoint.flows[k]
       IN /\ flow.mode # Reliable
          /\ \/ endpoint'.flows[k].queue # flow.queue
             \/ endpoint'.inbound_drops # endpoint.inbound_drops
          /\ ~IsIgnored(flow, flow.mode, t)
          /\ ReceiveTransfer(k, flow.mode, t)
          => endpoint'.inbound_drops =
               Counted(endpoint.inbound_drops,
                       Len(flow.queue) + 1 - Len(endpoint'.flows[k].queue))]_endpoint

\* "Each deliberate eviction MUST be classified as a local unreliable pressure
\* drop", also when the submission that caused it is rejected in the end.
OutboundDropsAreCounted ==
  [][\A k \in Flows \cap DOMAIN endpoint'.flows, payload \in Payloads :
       SubmitMessage(k, payload) =>
         LET before == endpoint.flows[k]
             after == endpoint'.flows[k]
             accepted == after.next_accepted_index - before.next_accepted_index
         IN endpoint'.outbound_drops =
              Counted(endpoint.outbound_drops,
                      Len(before.outbound) + accepted - Len(after.outbound))]_endpoint
=============================================================================
