-------------------------- MODULE DeliveryEndpoint --------------------------
(***************************************************************************)
(* A delivery endpoint (delivery.rs): flows in three delivery modes, each  *)
(* under its own resource policy, charged to the scopes it belongs to -    *)
(* its connection, its session if it has one, and the whole endpoint. The  *)
(* operations are operators on an endpoint record: CanOp(ep, ...) says     *)
(* when the code changes anything and Op(ep, ...) is what it leaves.       *)
(*                                                                         *)
(* The counters of every scope are kept by hand, as in the code. Of the    *)
(* diagnostics only the pressure drops are kept.                           *)
(***************************************************************************)
EXTENDS Integers, Sequences, FiniteSetsExt, PartialMaps

CONSTANTS
  Payloads, PayloadBytes,  \* message payloads and their lengths
  MaxIndex,                \* the last accepted index (u64::MAX in the code)
  MaxCount,                \* where the diagnostic counters saturate (usize::MAX)
  NoSession,               \* Option::None for a session
  AggregateLimits          \* DeliveryScopeLimits of the endpoint

Index == 0 .. MaxIndex
NoIndex == -1

Reliable == "ReliableOrdered"
Unordered == "UnreliableUnordered"
Sequenced == "UnreliableSequenced"
Mode == {Reliable, Unordered, Sequenced}

ScopeLimits == [flows : Nat \ {0}, messages : Nat \ {0}, bytes : Nat \ {0}]

ASSUME DeliveryAssumption ==
  /\ PayloadBytes \in [Payloads -> Nat]
  /\ MaxIndex \in Nat /\ MaxCount \in Nat
  /\ AggregateLimits \in ScopeLimits

Policy ==
  [message_bytes : Nat \ {0}, messages : Nat \ {0}, bytes : Nat \ {0},
   outbound : {"RejectNew", "EvictOldest"},
   receiver : {"Terminate", "DropIncoming", "EvictOldest"}]

\* validate_for_mode
ValidPolicy(policy, mode) ==
  IF mode = Reliable
  THEN policy.outbound = "RejectNew" /\ policy.receiver = "Terminate"
  ELSE policy.receiver # "Terminate"

Key(c, direction, handle) ==
  [connection |-> c, direction |-> direction, handle |-> handle]

Transfer == [index : Index, payload : Payloads]

\* next_accepted_index and next_exposure beyond MaxIndex are Option::None.
NewFlow(mode, policy) ==
  [mode |-> mode, policy |-> policy, session |-> NoSession,
   next_accepted_index |-> 0, outbound |-> <<>>,
   by_index |-> EmptyMap, next_exposure |-> 0,
   queue |-> <<>>, last_exposed_sequence |-> NoIndex,
   pending_messages |-> 0, pending_bytes |-> 0]

Scope == [limits : ScopeLimits, usage : [flows : Nat, messages : Nat, bytes : Nat]]

NoUsage == [flows |-> 0, messages |-> 0, bytes |-> 0]

NewScope(limits) == [limits |-> limits, usage |-> NoUsage]

NewEndpoint ==
  [aggregate |-> NewScope(AggregateLimits), connections |-> EmptyMap,
   sessions |-> EmptyMap, flows |-> EmptyMap,
   outbound_drops |-> 0, inbound_drops |-> 0]

Counted(count, drops) == Min({count + drops, MaxCount})

-----------------------------------------------------------------------------
(* Scopes                                                                  *)

\* ScopeUsage::can_add
CanAdd(scope, flows, messages, bytes) ==
  /\ scope.usage.flows + flows <= scope.limits.flows
  /\ scope.usage.messages + messages <= scope.limits.messages
  /\ scope.usage.bytes + bytes <= scope.limits.bytes

\* ScopeUsage::add, and remove with negative amounts.
Add(scope, flows, messages, bytes) ==
  [scope EXCEPT !.usage = [flows |-> @.flows + flows, messages |-> @.messages + messages,
                           bytes |-> @.bytes + bytes]]

ScopeOf(scopes, s, limits) == IF s \in DOMAIN scopes THEN scopes[s] ELSE NewScope(limits)

\* A scope exists for as long as it has flows.
Release(scopes, s, messages, bytes) ==
  LET left == Add(scopes[s], -1, -messages, -bytes)
  IN IF left.usage.flows = 0 THEN Drop(scopes, {s}) ELSE Put(scopes, s, left)

CanAddPending(ep, k, bytes) ==
  LET flow == ep.flows[k]
  IN /\ flow.pending_messages + 1 <= flow.policy.messages
     /\ flow.pending_bytes + bytes <= flow.policy.bytes
     /\ CanAdd(ep.connections[k.connection], 0, 1, bytes)
     /\ CanAdd(ep.aggregate, 0, 1, bytes)
     /\ flow.session # NoSession => CanAdd(ep.sessions[flow.session], 0, 1, bytes)

\* EXCEPT leaves the sessions alone when the flow has none.
\* add_pending, and remove_pending with negative amounts.
Charge(ep, k, messages, bytes) ==
  LET Charged(scopes, s) == [scopes EXCEPT ![s] = Add(@, 0, messages, bytes)]
  IN [ep EXCEPT !.flows[k].pending_messages = @ + messages,
                !.flows[k].pending_bytes = @ + bytes,
                !.connections = Charged(@, k.connection),
                !.aggregate = Add(@, 0, messages, bytes),
                !.sessions = Charged(@, ep.flows[k].session)]

Bytes(transfers) ==
  SumFunction([i \in DOMAIN transfers |-> PayloadBytes[transfers[i].payload]])

\* Is the usage within the limits?
Within(limits, usage) ==
  /\ usage.flows <= limits.flows
  /\ usage.messages <= limits.messages
  /\ usage.bytes <= limits.bytes

\* What a flow holds, counted from its queues.
Contents(flow) ==
  LET buffered == SumFunction([i \in DOMAIN flow.by_index |-> PayloadBytes[flow.by_index[i]]])
  IN [messages |-> Len(flow.outbound) + Len(flow.queue)
                     + Cardinality(DOMAIN flow.by_index),
      bytes |-> Bytes(flow.outbound) + Bytes(flow.queue) + buffered]

-----------------------------------------------------------------------------
(* Establishment, association and termination                              *)

CanEstablish(ep, k, mode, policy, limits) ==
  /\ ValidPolicy(policy, mode)
  /\ k \notin DOMAIN ep.flows
  /\ CanAdd(ep.aggregate, 1, 0, 0)
  /\ k.connection \in DOMAIN ep.connections =>
       ep.connections[k.connection].limits = limits
  /\ CanAdd(ScopeOf(ep.connections, k.connection, limits), 1, 0, 0)

Establish(ep, k, mode, policy, limits) ==
  [ep EXCEPT !.aggregate = Add(@, 1, 0, 0),
             !.connections = Put(@, k.connection,
                                 Add(ScopeOf(@, k.connection, limits), 1, 0, 0)),
             !.flows = Put(@, k, NewFlow(mode, policy))]

\* Mutant of CanAssociate: what is pending already is not looked at.
CanAssociateBusy(ep, k, s, limits) ==
  /\ k \in DOMAIN ep.flows
  /\ ep.flows[k].session = NoSession
  /\ s \in DOMAIN ep.sessions => ep.sessions[s].limits = limits
  /\ CanAdd(ScopeOf(ep.sessions, s, limits), 1, 0, 0)

\* A flow joins one open session, at most once, with all that it has pending.
CanAssociate(ep, k, s, limits) ==
  /\ k \in DOMAIN ep.flows
  /\ ep.flows[k].session = NoSession
  /\ s \in DOMAIN ep.sessions => ep.sessions[s].limits = limits
  /\ CanAdd(ScopeOf(ep.sessions, s, limits), 1, ep.flows[k].pending_messages,
            ep.flows[k].pending_bytes)

\* Mutant of Associate: only what comes later is charged to the session.
AssociateEmpty(ep, k, s, limits) ==
  [ep EXCEPT !.sessions = Put(@, s, Add(ScopeOf(@, s, limits), 1, 0, 0)),
             !.flows[k].session = s]

Associate(ep, k, s, limits) ==
  [ep EXCEPT !.sessions = Put(@, s, Add(ScopeOf(@, s, limits), 1,
                                        ep.flows[k].pending_messages,
                                        ep.flows[k].pending_bytes)),
             !.flows[k].session = s]

Terminate(ep, k) ==
  LET flow == ep.flows[k]
  IN [ep EXCEPT
        !.flows = Drop(@, {k}),
        !.aggregate = Add(@, -1, -flow.pending_messages, -flow.pending_bytes),
        !.connections =
          Release(@, k.connection, flow.pending_messages, flow.pending_bytes),
        !.sessions =
          IF flow.session = NoSession THEN @
          ELSE Release(@, flow.session, flow.pending_messages, flow.pending_bytes)]

-----------------------------------------------------------------------------
(* Sending                                                                 *)

DropOutbound(ep, k, n) ==
  LET out == ep.flows[k].outbound
  IN Charge([ep EXCEPT !.flows[k].outbound = SubSeq(@, n + 1, Len(@))],
            k, -n, -Bytes(SubSeq(out, 1, n)))

\* How many of the oldest entries of q must go before Fits holds: all of them
\* when it never does.
Evictions(q, Fits(_)) == Min({n \in 0 .. Len(q) : Fits(n)} \cup {Len(q)})

\* Mutant of CanSubmit: the indices never run out.
CanAlwaysSubmit(ep, k, payload) ==
  /\ k \in DOMAIN ep.flows /\ k.direction = "Outbound"
  /\ PayloadBytes[payload] <= ep.flows[k].policy.message_bytes

CanSubmit(ep, k, payload) ==
  /\ k \in DOMAIN ep.flows /\ k.direction = "Outbound"
  /\ PayloadBytes[payload] <= ep.flows[k].policy.message_bytes
  /\ ep.flows[k].next_accepted_index \in Index

\* The endpoint with room for the submission, or with as much as can be made.
MakeRoom(ep, k, bytes) ==
  LET Fits(n) == CanAddPending(DropOutbound(ep, k, n), k, bytes)
  IN IF ep.flows[k].policy.outbound = "RejectNew" THEN ep
     ELSE DropOutbound(ep, k, Evictions(ep.flows[k].outbound, Fits))

Accepts(ep, k, payload) ==
  CanAddPending(MakeRoom(ep, k, PayloadBytes[payload]), k, PayloadBytes[payload])

\* The drops are counted only when the submission is accepted.
Submit(ep, k, payload) ==
  LET room == MakeRoom(ep, k, PayloadBytes[payload])
      drops == Len(ep.flows[k].outbound) - Len(room.flows[k].outbound)
      index == ep.flows[k].next_accepted_index
  IN IF Accepts(ep, k, payload)
     THEN Charge([room EXCEPT
                    !.flows[k].next_accepted_index = @ + 1,
                    !.flows[k].outbound = Append(@, [index |-> index, payload |-> payload]),
                    !.outbound_drops = Counted(@, drops)],
                 k, 1, PayloadBytes[payload])
     ELSE room

\* commit_outbound_custody of the front transfer; any other is refused.
CanCommitCustody(ep, k) ==
  /\ k \in DOMAIN ep.flows /\ k.direction = "Outbound"
  /\ ep.flows[k].outbound # <<>>

CommitCustody(ep, k) == DropOutbound(ep, k, 1)

-----------------------------------------------------------------------------
(* Receiving                                                               *)

DropQueued(ep, k, n) ==
  LET q == ep.flows[k].queue
  IN Charge([ep EXCEPT !.flows[k].queue = SubSeq(@, n + 1, Len(@))],
            k, -n, -Bytes(SubSeq(q, 1, n)))

\* Mutant of IsDuplicate: an exposed transfer may be buffered again.
IsBufferedAlready(flow, t) == t.index \in DOMAIN flow.by_index

\* Mutant of IsDuplicate: whatever is behind a buffered transfer is one.
IsBehind(flow, t) ==
  \/ t.index < flow.next_exposure
  \/ \E i \in DOMAIN flow.by_index : t.index <= i

\* Mutant of IsDuplicate: off by one, the transfer to expose next is one.
IsNotAhead(flow, t) ==
  t.index <= flow.next_exposure \/ t.index \in DOMAIN flow.by_index

IsDuplicate(flow, t) ==
  t.index < flow.next_exposure \/ t.index \in DOMAIN flow.by_index

Conflicts(flow, t) ==
  /\ t.index >= flow.next_exposure
  /\ t.index \in DOMAIN flow.by_index /\ flow.by_index[t.index] # t.payload

\* Of the flow's mode and within its message limit.
IsProper(flow, mode, t) ==
  mode = flow.mode /\ PayloadBytes[t.payload] <= flow.policy.message_bytes

\* What a reliable flow cannot do without breaking its promise ends it.
FailsReliably(ep, k, mode, t) ==
  LET flow == ep.flows[k]
  IN /\ flow.mode = Reliable
     /\ \/ ~IsProper(flow, mode, t)
        \/ IsDuplicate(flow, t) /\ Conflicts(flow, t)
        \/ ~IsDuplicate(flow, t) /\ ~CanAddPending(ep, k, PayloadBytes[t.payload])

\* Mutant of IsStale: only exact repetitions are stale.
IsRepeated(flow, index) ==
  flow.mode = Sequenced /\ index = flow.last_exposed_sequence

IsStale(flow, index) ==
  flow.mode = Sequenced /\ index <= flow.last_exposed_sequence

IsIgnored(flow, mode, t) ==
  \/ flow.mode = Reliable /\ IsDuplicate(flow, t)
  \/ flow.mode # Reliable /\ (~IsProper(flow, mode, t) \/ IsStale(flow, t.index))

BufferReliable(ep, k, t) ==
  Charge([ep EXCEPT !.flows[k].by_index = Put(@, t.index, t.payload)],
         k, 1, PayloadBytes[t.payload])

\* Mutant of DropIncoming: only the evicted transfers are counted.
DropIncomingUncounted(ep, evicted) ==
  [ep EXCEPT !.inbound_drops = Counted(@, evicted)]

\* The incoming transfer is dropped, after some were evicted in vain.
DropIncoming(ep, evicted) ==
  [ep EXCEPT !.inbound_drops = Counted(@, evicted + 1)]

\* receive_unreliable: make room or drop the transfer, and count every drop.
BufferUnreliable(ep, k, t) ==
  LET flow == ep.flows[k]
      bytes == PayloadBytes[t.payload]
      Fits(n) == CanAddPending(DropQueued(ep, k, n), k, bytes)
      drops == IF flow.policy.receiver = "EvictOldest"
               THEN Evictions(flow.queue, Fits) ELSE 0
      room == DropQueued(ep, k, drops)
  IN IF Fits(drops)
     THEN Charge([room EXCEPT !.flows[k].queue = Append(@, t),
                              !.inbound_drops = Counted(@, drops)],
                 k, 1, bytes)
     ELSE DropIncoming(room, drops)

CanReceive(ep, k) == k \in DOMAIN ep.flows /\ k.direction = "Inbound"

Receive(ep, k, mode, t) ==
  IF FailsReliably(ep, k, mode, t) THEN Terminate(ep, k)
  ELSE IF IsIgnored(ep.flows[k], mode, t) THEN ep
  ELSE IF mode = Reliable THEN BufferReliable(ep, k, t)
  ELSE BufferUnreliable(ep, k, t)

-----------------------------------------------------------------------------
(* Exposure                                                                *)

\* Where the first transfer to expose is in the queue of an unreliable flow,
\* past the stale ones in front of it; Len(queue) + 1 if there is none.
FirstFresh(flow) ==
  Min({i \in DOMAIN flow.queue : ~IsStale(flow, flow.queue[i].index)}
        \cup {Len(flow.queue) + 1})

Ready(flow) ==
  IF flow.mode = Reliable THEN flow.next_exposure \in DOMAIN flow.by_index
  ELSE FirstFresh(flow) \in DOMAIN flow.queue

\* The transfer poll_exposure returns, if it is Ready.
Exposure(flow) ==
  IF flow.mode = Reliable
  THEN [index |-> flow.next_exposure, payload |-> flow.by_index[flow.next_exposure]]
  ELSE flow.queue[FirstFresh(flow)]

ExposeReliable(ep, k) ==
  LET t == Exposure(ep.flows[k])
  IN Charge([ep EXCEPT !.flows[k].by_index = Drop(@, {t.index}),
                       !.flows[k].next_exposure = t.index + 1],
            k, -1, -PayloadBytes[t.payload])

ExposeUnreliable(ep, k) ==
  LET flow == ep.flows[k]
  IN [DropQueued(ep, k, FirstFresh(flow)) EXCEPT
        !.flows[k].last_exposed_sequence =
          IF flow.mode = Sequenced THEN Exposure(flow).index ELSE @]

\* poll_exposure drops the stale transfers it passes, to the last if need be.
Poll(ep, k) ==
  LET flow == ep.flows[k]
  IN IF ~Ready(flow) THEN DropQueued(ep, k, Len(flow.queue))
     ELSE IF flow.mode = Reliable THEN ExposeReliable(ep, k)
     ELSE ExposeUnreliable(ep, k)
=============================================================================
