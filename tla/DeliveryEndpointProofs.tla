----------------------- MODULE DeliveryEndpointProofs -----------------------
(***************************************************************************)
(* What the operations of a delivery endpoint keep, for any flows,         *)
(* sessions, policies and limits: the counters that they adjust by hand    *)
(* are exact and within their limits, and what a flow holds is in order.   *)
(* The modules that prove what becomes of an endpoint that is used alone,  *)
(* at either end of a flow, or by a connection, rest on these lemmas.      *)
(*                                                                         *)
(* An operation changes the queues of one flow and charges the scopes the  *)
(* flow belongs to, or lets a flow join or leave a scope. The facts about  *)
(* charging, joining and leaving are stated once, for connections and      *)
(* sessions alike.                                                         *)
(***************************************************************************)
EXTENDS DeliveryEndpoint, SequenceTheorems, PartialMapTheorems

IsMap(m) == m = [x \in DOMAIN m |-> m[x]]

-----------------------------------------------------------------------------
(* The inductive invariant                                                 *)

MessagesOf(flows) == [k \in DOMAIN flows |-> flows[k].pending_messages]
BytesOf(flows) == [k \in DOMAIN flows |-> flows[k].pending_bytes]

\* What the flows ks are charged for.
Charges(flows, ks) ==
  [flows |-> Cardinality(ks), messages |-> SumFunctionOnSet(MessagesOf(flows), ks),
   bytes |-> SumFunctionOnSet(BytesOf(flows), ks)]

\* The scope is charged for the flows ks, and has room for them.
Covers(scope, flows, ks) ==
  /\ scope \in Scope
  /\ scope.usage = Charges(flows, ks)
  /\ Within(scope.limits, scope.usage)

Members(owner, s) == {k \in DOMAIN owner : owner[k] = s}

\* There is a scope for every owner of a flow that is not none, and it covers
\* the flows it owns.
Balanced(scopes, flows, owner, none) ==
  /\ IsMap(scopes)
  /\ DOMAIN scopes = {owner[k] : k \in DOMAIN owner} \ none
  /\ \A s \in DOMAIN scopes : Covers(scopes[s], flows, Members(owner, s))

ConnectionOf(flows) == [k \in DOMAIN flows |-> k.connection]
SessionOf(flows) == [k \in DOMAIN flows |-> flows[k].session]

\* A buffer keeps payloads by index.
Buffer == UNION {[D -> Payloads] : D \in SUBSET Index}

FlowRecord(session) ==
  [mode : Mode, policy : Policy, session : {session},
   next_accepted_index : 0 .. MaxIndex + 1, outbound : Seq(Transfer),
   by_index : Buffer,
   next_exposure : 0 .. MaxIndex + 1,
   queue : Seq(Transfer), last_exposed_sequence : Index \cup {NoIndex},
   pending_messages : Nat, pending_bytes : Nat]

\* The queue out of a flow that accepts next next.
Ascends(out, next, mode) ==
  /\ \A i, j \in DOMAIN out : i < j => out[i].index < out[j].index
  /\ \A i \in DOMAIN out : out[i].index < next
  /\ mode = Reliable => \A i \in DOMAIN out : out[i].index = next - Len(out) + i - 1

\* OrderIsKept of one flow, and what is queued was accepted before.
InOrder(flow) ==
  /\ Ascends(flow.outbound, flow.next_accepted_index, flow.mode)
  /\ \A i \in DOMAIN flow.by_index : flow.next_exposure <= i

\* The policy suits the mode, and there is no queue the other way.
IsSuited(k, flow) ==
  /\ ValidPolicy(flow.policy, flow.mode)
  /\ flow.by_index \in [DOMAIN flow.by_index -> Payloads]
  /\ k.direction = "Inbound" => flow.outbound = <<>>
  /\ k.direction = "Outbound" => flow.queue = <<>> /\ flow.by_index = EmptyMap

FlowInv(k, flow) ==
  /\ flow \in FlowRecord(flow.session)
  /\ IsSuited(k, flow)
  /\ Contents(flow) = [messages |-> flow.pending_messages, bytes |-> flow.pending_bytes]
  /\ flow.pending_messages <= flow.policy.messages
  /\ flow.pending_bytes <= flow.policy.bytes
  /\ InOrder(flow)

IsEndpoint(ep) ==
  /\ ep = [aggregate |-> ep.aggregate, connections |-> ep.connections,
           sessions |-> ep.sessions, flows |-> ep.flows,
           outbound_drops |-> ep.outbound_drops, inbound_drops |-> ep.inbound_drops]
  /\ ep.outbound_drops \in 0 .. MaxCount /\ ep.inbound_drops \in 0 .. MaxCount

FlowsInv(flows) ==
  /\ IsMap(flows) /\ IsFiniteSet(DOMAIN flows)
  /\ \A k \in DOMAIN flows : FlowInv(k, flows[k])

ScopesInv(ep) ==
  /\ Covers(ep.aggregate, ep.flows, DOMAIN ep.flows)
  /\ Balanced(ep.connections, ep.flows, ConnectionOf(ep.flows), {})
  /\ Balanced(ep.sessions, ep.flows, SessionOf(ep.flows), {NoSession})

EndpointInv(ep) == IsEndpoint(ep) /\ FlowsInv(ep.flows) /\ ScopesInv(ep)

-----------------------------------------------------------------------------
(* Charges                                                                 *)

\* A charge that grew by n flows, m messages and b bytes.
ChargedMore(before, now, n, m, b) ==
  /\ now \in [flows : Nat, messages : Nat, bytes : Nat]
  /\ now = [flows |-> before.flows + n, messages |-> before.messages + m,
            bytes |-> before.bytes + b]

\* Flows whose pending messages and bytes are natural numbers.
Counters(flows, ks) ==
  \A k \in ks : flows[k].pending_messages \in Nat /\ flows[k].pending_bytes \in Nat

\* What a finite set of flows is charged for is three natural numbers.
LEMMA ChargesType ==
  ASSUME NEW flows, NEW ks \in SUBSET DOMAIN flows, IsFiniteSet(ks), Counters(flows, ks)
  PROVE  Charges(flows, ks) \in [flows : Nat, messages : Nat, bytes : Nat]
<1>1. Cardinality(ks) \in Nat
  BY FS_CardinalityType
<1>2. ASSUME NEW f, \A k \in ks : f[k] \in Nat
      PROVE  SumFunctionOnSet(f, ks) \in Nat
  <2>1. \A k \in ks : f[k] \in Int /\ f[k] >= 0
    BY <1>2
  <2>2. SumFunctionOnSet(f, ks) \in Int /\ SumFunctionOnSet(f, ks) >= 0
    BY <2>1, SumType
  <2> QED BY <2>2
<1>3. \A k \in ks : MessagesOf(flows)[k] \in Nat /\ BytesOf(flows)[k] \in Nat
  BY DEF MessagesOf, BytesOf, Counters
<1>4. SumFunctionOnSet(MessagesOf(flows), ks) \in Nat
  BY <1>2, <1>3
<1>5. SumFunctionOnSet(BytesOf(flows), ks) \in Nat
  BY <1>2, <1>3
<1> QED BY <1>1, <1>4, <1>5 DEF Charges

\* They depend on the counters of these flows only.
LEMMA ChargesReadTheirFlows ==
  ASSUME NEW flows, NEW after, NEW ks, ks \subseteq DOMAIN flows, ks \subseteq DOMAIN after,
         IsFiniteSet(ks),
         \A k \in ks : /\ after[k].pending_messages = flows[k].pending_messages
                       /\ after[k].pending_bytes = flows[k].pending_bytes
  PROVE  Charges(after, ks) = Charges(flows, ks)
<1>1. \A k \in ks : /\ MessagesOf(after)[k] = MessagesOf(flows)[k]
                    /\ BytesOf(after)[k] = BytesOf(flows)[k]
  BY DEF MessagesOf, BytesOf
<1>2. SumFunctionOnSet(MessagesOf(after), ks) = SumFunctionOnSet(MessagesOf(flows), ks)
  BY <1>1, SumReadsItsSet
<1>3. SumFunctionOnSet(BytesOf(after), ks) = SumFunctionOnSet(BytesOf(flows), ks)
  BY <1>1, SumReadsItsSet
<1> QED BY <1>2, <1>3 DEF Charges

\* No flows, no charges.
LEMMA NothingIsFree ==
  ASSUME NEW flows
  PROVE  Charges(flows, {}) = NoUsage
<1>1. Cardinality({}) = 0 /\ IsFiniteSet({})
  BY FS_EmptySet
<1>2. \A f : SumFunctionOnSet(f, {}) = 0
  BY <1>1, SumFirst
<1> QED BY <1>1, <1>2 DEF Charges, NoUsage

\* One flow of ks, and the rest of them.
LEMMA ChargesTakeAny ==
  ASSUME NEW flows, NEW ks \in SUBSET DOMAIN flows, IsFiniteSet(ks), Counters(flows, ks),
         NEW k \in ks
  PROVE  LET rest == Charges(flows, ks \ {k})
         IN Charges(flows, ks) = [flows |-> rest.flows + 1,
                                  messages |-> rest.messages + flows[k].pending_messages,
                                  bytes |-> rest.bytes + flows[k].pending_bytes]
<1> DEFINE rest == Charges(flows, ks \ {k})
<1>1. /\ Cardinality(ks \ {k}) = Cardinality(ks) - 1
      /\ Cardinality(ks) \in Nat /\ IsFiniteSet(ks \ {k})
  BY FS_RemoveElement, FS_CardinalityType
<1>2. \A j \in ks : MessagesOf(flows)[j] \in Int /\ BytesOf(flows)[j] \in Int
  BY DEF MessagesOf, BytesOf, Counters
<1>3. SumFunctionOnSet(MessagesOf(flows), ks) =
        MessagesOf(flows)[k] + SumFunctionOnSet(MessagesOf(flows), ks \ {k})
  BY <1>2, SumTakesAny
<1>4. SumFunctionOnSet(BytesOf(flows), ks) =
        BytesOf(flows)[k] + SumFunctionOnSet(BytesOf(flows), ks \ {k})
  BY <1>2, SumTakesAny
<1>5. rest \in [flows : Nat, messages : Nat, bytes : Nat]
  <2>1. Counters(flows, ks \ {k})
    BY DEF Counters
  <2> QED BY <1>1, <2>1, ChargesType
<1>6. /\ rest.flows = Cardinality(ks) - 1
      /\ rest.messages = SumFunctionOnSet(MessagesOf(flows), ks \ {k})
      /\ rest.bytes = SumFunctionOnSet(BytesOf(flows), ks \ {k})
  BY <1>1 DEF Charges
<1>7. MessagesOf(flows)[k] = flows[k].pending_messages /\ BytesOf(flows)[k] = flows[k].pending_bytes
  BY DEF MessagesOf, BytesOf
<1>8. flows[k].pending_messages \in Nat /\ flows[k].pending_bytes \in Nat
  BY DEF Counters
<1> HIDE DEF rest
<1>9. Charges(flows, ks) = [flows |-> rest.flows + 1,
                            messages |-> rest.messages + flows[k].pending_messages,
                            bytes |-> rest.bytes + flows[k].pending_bytes]
  <2>1. Cardinality(ks) = rest.flows + 1
    BY <1>1, <1>5, <1>6
  <2>2. SumFunctionOnSet(MessagesOf(flows), ks) = rest.messages + flows[k].pending_messages
    BY <1>3, <1>5, <1>6, <1>7, <1>8
  <2>3. SumFunctionOnSet(BytesOf(flows), ks) = rest.bytes + flows[k].pending_bytes
    BY <1>4, <1>5, <1>6, <1>7, <1>8
  <2> QED BY <2>1, <2>2, <2>3 DEF Charges
<1> QED BY <1>9 DEF rest

\* After an operation the flow k is charged for m messages and b bytes more.
Recharged(flows, after, k, m, b) ==
  /\ k \in DOMAIN flows /\ DOMAIN after = DOMAIN flows
  /\ Counters(flows, DOMAIN flows) /\ Counters(after, DOMAIN flows)
  /\ after[k].pending_messages = flows[k].pending_messages + m
  /\ after[k].pending_bytes = flows[k].pending_bytes + b
  /\ \A j \in DOMAIN flows \ {k} :
       /\ after[j].pending_messages = flows[j].pending_messages
       /\ after[j].pending_bytes = flows[j].pending_bytes

\* So is every set of flows it belongs to, and no other.
LEMMA ChargesMove ==
  ASSUME NEW flows, NEW after, NEW k, NEW m \in Int, NEW b \in Int,
         Recharged(flows, after, k, m, b), NEW ks \in SUBSET DOMAIN flows, IsFiniteSet(ks)
  PROVE  /\ k \notin ks => Charges(after, ks) = Charges(flows, ks)
         /\ k \in ks => ChargedMore(Charges(flows, ks), Charges(after, ks), 0, m, b)
<1>1. /\ Counters(flows, ks) /\ Counters(after, ks)
      /\ ks \subseteq DOMAIN after /\ ks \subseteq DOMAIN flows
  BY DEF Recharged, Counters
<1>2. /\ Charges(flows, ks) \in [flows : Nat, messages : Nat, bytes : Nat]
      /\ Charges(after, ks) \in [flows : Nat, messages : Nat, bytes : Nat]
  BY <1>1, ChargesType
<1>3. CASE k \notin ks
  <2>1. \A j \in ks : /\ after[j].pending_messages = flows[j].pending_messages
                      /\ after[j].pending_bytes = flows[j].pending_bytes
    BY <1>1, <1>3 DEF Recharged
  <2>2. Charges(after, ks) = Charges(flows, ks)
    BY <1>1, <2>1, ChargesReadTheirFlows
  <2> QED BY <1>2, <1>3, <2>2
<1>4. CASE k \in ks
  <2> DEFINE js == ks \ {k}
  <2>1. IsFiniteSet(js) /\ js \subseteq DOMAIN flows /\ js \subseteq DOMAIN after
    BY <1>1, FS_RemoveElement
  <2>2. \A j \in js : /\ after[j].pending_messages = flows[j].pending_messages
                      /\ after[j].pending_bytes = flows[j].pending_bytes
    BY <1>1 DEF Recharged
  <2>3. Charges(after, js) = Charges(flows, js)
    <3> HIDE DEF js
    <3> QED BY <2>1, <2>2, ChargesReadTheirFlows
  <2>4. Charges(flows, js) \in [flows : Nat, messages : Nat, bytes : Nat]
    <3>1. Counters(flows, js)
      BY <1>1 DEF Counters
    <3> HIDE DEF js
    <3> QED BY <2>1, <3>1, ChargesType
  <2> DEFINE rest == Charges(flows, js)
  <2>5. Charges(flows, ks) = [flows |-> rest.flows + 1,
                              messages |-> rest.messages + flows[k].pending_messages,
                              bytes |-> rest.bytes + flows[k].pending_bytes]
    <3>1. /\ ks \in SUBSET DOMAIN flows /\ k \in ks
          /\ IsFiniteSet(ks) /\ Counters(flows, ks)
      BY <1>1, <1>4
    <3> QED BY ONLY <3>1, ChargesTakeAny
  <2>6. Charges(after, ks) = [flows |-> rest.flows + 1,
                              messages |-> rest.messages + after[k].pending_messages,
                              bytes |-> rest.bytes + after[k].pending_bytes]
    <3>1. LET r == Charges(after, ks \ {k})
          IN Charges(after, ks) = [flows |-> r.flows + 1,
                                   messages |-> r.messages + after[k].pending_messages,
                                   bytes |-> r.bytes + after[k].pending_bytes]
      BY <1>1, <1>4, ChargesTakeAny
    <3> QED BY <2>3, <3>1
  <2>7. /\ flows[k].pending_messages \in Nat /\ flows[k].pending_bytes \in Nat
        /\ after[k].pending_messages = flows[k].pending_messages + m
        /\ after[k].pending_bytes = flows[k].pending_bytes + b
    BY <1>1, <1>4 DEF Recharged, Counters
  <2>8. /\ rest.messages \in Nat /\ rest.bytes \in Nat
    BY <2>4
  <2> HIDE DEF rest
  <2>9. /\ rest.messages + after[k].pending_messages =
             (rest.messages + flows[k].pending_messages) + m
        /\ rest.bytes + after[k].pending_bytes = (rest.bytes + flows[k].pending_bytes) + b
    BY <2>7, <2>8
  <2>10. rest.flows + 1 = (rest.flows + 1) + 0
    BY <2>4 DEF rest
  <2> QED BY <1>2, <1>4, <2>5, <2>6, <2>9, <2>10 DEF ChargedMore
<1> QED BY <1>3, <1>4

\* A scope that is charged for more, within its limits, or for less.
LEMMA CoversMore ==
  ASSUME NEW scope, NEW flows, NEW ks, Covers(scope, flows, ks),
         NEW n \in Int, NEW m \in Int, NEW b \in Int,
         CanAdd(scope, n, m, b) \/ (n <= 0 /\ m <= 0 /\ b <= 0),
         NEW after, NEW js, ChargedMore(Charges(flows, ks), Charges(after, js), n, m, b)
  PROVE  Covers(Add(scope, n, m, b), after, js)
<1>1. /\ scope \in Scope /\ scope.usage = Charges(flows, ks)
      /\ Within(scope.limits, scope.usage)
  BY DEF Covers
<1>2. /\ scope.limits \in ScopeLimits
      /\ scope.usage \in [flows : Nat, messages : Nat, bytes : Nat]
      /\ scope = [limits |-> scope.limits, usage |-> scope.usage]
  BY <1>1 DEF Scope
<1> DEFINE left == Add(scope, n, m, b)
<1>3. left = [limits |-> scope.limits, usage |-> Charges(after, js)]
  BY <1>1, <1>2 DEF Add, ChargedMore
<1>4. left \in Scope /\ left.limits = scope.limits /\ left.usage = Charges(after, js)
  BY <1>2, <1>3 DEF Scope, ChargedMore
<1>5. /\ scope.limits.flows \in Nat /\ scope.limits.messages \in Nat
      /\ scope.limits.bytes \in Nat
      /\ scope.usage.flows \in Nat /\ scope.usage.messages \in Nat /\ scope.usage.bytes \in Nat
  BY <1>2 DEF ScopeLimits
<1>6. /\ left.usage.flows = scope.usage.flows + n
      /\ left.usage.messages = scope.usage.messages + m
      /\ left.usage.bytes = scope.usage.bytes + b
  BY <1>1, <1>4 DEF ChargedMore
<1>7. /\ left.usage.flows \in Nat /\ left.usage.messages \in Nat /\ left.usage.bytes \in Nat
  BY <1>4 DEF ChargedMore
<1> HIDE DEF left
<1>8. Within(left.limits, left.usage)
  <2>1. CASE CanAdd(scope, n, m, b)
    BY <1>4, <1>6, <2>1 DEF CanAdd, Within
  <2>2. CASE n <= 0 /\ m <= 0 /\ b <= 0
    BY <1>1, <1>4, <1>5, <1>6, <2>2 DEF Within
  <2> QED BY <2>1, <2>2
<1> QED BY <1>4, <1>8 DEF Covers, left

-----------------------------------------------------------------------------
(* Scopes                                                                  *)

\* The flow k has the same counters in both.
SameCounters(flows, after, k) ==
  /\ after[k].pending_messages = flows[k].pending_messages
  /\ after[k].pending_bytes = flows[k].pending_bytes

\* The scopes that do not notice a change stay balanced.
LEMMA BalancedStays ==
  ASSUME NEW flows, NEW owner, DOMAIN owner = DOMAIN flows, IsFiniteSet(DOMAIN flows),
         NEW after, NEW owner2, DOMAIN owner2 = DOMAIN after,
         NEW scopes, NEW none, Balanced(scopes, flows, owner, none),
         \A s : s \notin none => Members(owner2, s) = Members(owner, s),
         \A k \in DOMAIN owner : owner[k] \notin none => SameCounters(flows, after, k)
  PROVE  Balanced(scopes, after, owner2, none)
<1>1. DOMAIN scopes = {owner2[k] : k \in DOMAIN owner2} \ none
  BY DEF Balanced, Members
<1>2. ASSUME NEW s \in DOMAIN scopes
      PROVE  Covers(scopes[s], after, Members(owner2, s))
  <2> DEFINE ks == Members(owner, s)
  <2>1. s \notin none /\ Covers(scopes[s], flows, ks) /\ Members(owner2, s) = ks
    BY <1>2 DEF Balanced
  <2>2. ks \subseteq DOMAIN flows /\ ks \subseteq DOMAIN after
    BY <2>1 DEF Members
  <2>3. IsFiniteSet(ks)
    BY <2>2, FS_Subset
  <2>4. \A k \in ks : SameCounters(flows, after, k)
    BY <2>1 DEF Members
  <2> HIDE DEF ks
  <2>5. Charges(after, ks) = Charges(flows, ks)
    BY <2>2, <2>3, <2>4, ChargesReadTheirFlows DEF SameCounters
  <2> QED BY <2>1, <2>5 DEF Covers
<1> QED BY <1>1, <1>2 DEF Balanced

\* One flow is charged, and with it the scope it belongs to, if there is one.
LEMMA BalancedCharge ==
  ASSUME NEW flows, NEW after, NEW k, NEW m \in Int, NEW b \in Int,
         Recharged(flows, after, k, m, b), IsFiniteSet(DOMAIN flows),
         NEW owner, DOMAIN owner = DOMAIN flows,
         NEW scopes, NEW none, Balanced(scopes, flows, owner, none),
         \/ m <= 0 /\ b <= 0
         \/ owner[k] \in DOMAIN scopes => CanAdd(scopes[owner[k]], 0, m, b)
  PROVE  Balanced([scopes EXCEPT ![owner[k]] = Add(@, 0, m, b)], after, owner, none)
<1> DEFINE left == [scopes EXCEPT ![owner[k]] = Add(@, 0, m, b)]
<1>1. IsMap(left) /\ DOMAIN left = DOMAIN scopes
  BY DEF Balanced, IsMap
<1>2. ASSUME NEW s \in DOMAIN scopes
      PROVE  Covers(left[s], after, Members(owner, s))
  <2> DEFINE ks == Members(owner, s)
  <2>1. ks \subseteq DOMAIN flows /\ (k \in ks <=> owner[k] = s)
    BY DEF Members, Recharged
  <2>2. IsFiniteSet(ks) /\ ks \in SUBSET DOMAIN flows
    BY <2>1, FS_Subset
  <2>3. Covers(scopes[s], flows, ks)
    BY <1>2 DEF Balanced
  <2> HIDE DEF ks
  <2>4. /\ k \notin ks => Charges(after, ks) = Charges(flows, ks)
        /\ k \in ks => ChargedMore(Charges(flows, ks), Charges(after, ks), 0, m, b)
    BY <2>2, ChargesMove
  <2>5. CASE k \notin ks
    <3>1. left[s] = scopes[s]
      BY <1>2, <2>1, <2>5 DEF Balanced, IsMap
    <3>2. Charges(after, ks) = Charges(flows, ks)
      BY <2>4, <2>5
    <3> QED BY <2>3, <3>1, <3>2 DEF Covers, ks
  <2>6. CASE k \in ks
    <3>1. left[s] = Add(scopes[s], 0, m, b)
      BY <1>2, <2>1, <2>6 DEF Balanced, IsMap
    <3>2. CanAdd(scopes[s], 0, m, b) \/ (0 <= 0 /\ m <= 0 /\ b <= 0)
      BY <1>2, <2>1, <2>6
    <3>3. Covers(Add(scopes[s], 0, m, b), after, ks)
      BY <2>3, <2>4, <2>6, <3>2, CoversMore
    <3> QED BY <3>1, <3>3 DEF ks
  <2> QED BY <2>5, <2>6
<1> QED BY <1>1, <1>2 DEF Balanced

\* A new scope has room, and nothing in it.
LEMMA NewScopeCovers ==
  ASSUME NEW limits \in ScopeLimits, NEW flows
  PROVE  Covers(NewScope(limits), flows, {})
<1>1. NewScope(limits) = [limits |-> limits, usage |-> NoUsage]
  BY DEF NewScope
<1>2. NewScope(limits) \in Scope
  BY <1>1 DEF Scope, NoUsage
<1>3. limits.flows \in Nat /\ limits.messages \in Nat /\ limits.bytes \in Nat
  BY DEF ScopeLimits
<1>4. Within(limits, NoUsage)
  BY <1>3 DEF Within, NoUsage
<1>5. Charges(flows, {}) = NoUsage
  BY NothingIsFree
<1> QED BY <1>1, <1>2, <1>4, <1>5 DEF Covers

\* A scope that has room for one flow more covers it when it joins.
LEMMA CoversJoin ==
  ASSUME NEW flows, NEW ks, ks \subseteq DOMAIN flows, IsFiniteSet(ks),
         NEW scope, Covers(scope, flows, ks),
         NEW after, NEW k, k \notin ks, NEW js, js = ks \cup {k}, js \subseteq DOMAIN after,
         Counters(after, js), \A j \in ks : SameCounters(flows, after, j),
         NEW m, m = after[k].pending_messages, NEW b, b = after[k].pending_bytes,
         CanAdd(scope, 1, m, b)
  PROVE  Covers(Add(scope, 1, m, b), after, js)
<1>1. m \in Nat /\ b \in Nat
  BY DEF Counters
<1>2. ks \subseteq DOMAIN after /\ IsFiniteSet(js) /\ js \ {k} = ks /\ k \in js
  BY FS_AddElement
<1>3. Charges(after, ks) = Charges(flows, ks)
  BY <1>2, ChargesReadTheirFlows DEF SameCounters
<1>4. Charges(after, js) \in [flows : Nat, messages : Nat, bytes : Nat]
  BY <1>2, ChargesType
<1>5. Charges(after, js) = [flows |-> Charges(after, js \ {k}).flows + 1,
                            messages |-> Charges(after, js \ {k}).messages + m,
                            bytes |-> Charges(after, js \ {k}).bytes + b]
  BY <1>2, ChargesTakeAny
<1>6. Charges(after, js) = [flows |-> Charges(flows, ks).flows + 1,
                            messages |-> Charges(flows, ks).messages + m,
                            bytes |-> Charges(flows, ks).bytes + b]
  BY <1>2, <1>3, <1>5
<1>7. ChargedMore(Charges(flows, ks), Charges(after, js), 1, m, b)
  BY <1>4, <1>6 DEF ChargedMore
<1> QED BY <1>1, <1>7, CoversMore

\* A scope covers what is left when a flow leaves it.
LEMMA CoversLeave ==
  ASSUME NEW flows, NEW ks, ks \subseteq DOMAIN flows, IsFiniteSet(ks), Counters(flows, ks),
         NEW scope, Covers(scope, flows, ks), NEW k \in ks,
         NEW after, NEW js, js = ks \ {k}, js \subseteq DOMAIN after,
         \A j \in js : SameCounters(flows, after, j),
         NEW m, m = flows[k].pending_messages, NEW b, b = flows[k].pending_bytes
  PROVE  Covers(Add(scope, -1, -m, -b), after, js)
<1> DEFINE n == -1
           dm == -m
           db == -b
<1>1. m \in Nat /\ b \in Nat
  BY DEF Counters
<1>2. n \in Int /\ dm \in Int /\ db \in Int /\ n <= 0 /\ dm <= 0 /\ db <= 0
  BY <1>1
<1>3. /\ js \subseteq DOMAIN flows /\ IsFiniteSet(js) /\ Counters(flows, js)
  BY FS_Subset DEF Counters
<1>4. Charges(after, js) = Charges(flows, js)
  BY <1>3, ChargesReadTheirFlows DEF SameCounters
<1>5. Charges(flows, js) \in [flows : Nat, messages : Nat, bytes : Nat]
  BY <1>3, ChargesType
<1>6. Charges(flows, ks) = [flows |-> Charges(flows, js).flows + 1,
                            messages |-> Charges(flows, js).messages + m,
                            bytes |-> Charges(flows, js).bytes + b]
  <2>1. /\ ks \in SUBSET DOMAIN flows /\ k \in ks /\ js = ks \ {k}
        /\ IsFiniteSet(ks) /\ Counters(flows, ks)
        /\ m = flows[k].pending_messages /\ b = flows[k].pending_bytes
    OBVIOUS
  <2> QED BY ONLY <2>1, ChargesTakeAny
<1> DEFINE whole == Charges(flows, ks)
           part == Charges(flows, js)
<1>7. part = [flows |-> part.flows, messages |-> part.messages, bytes |-> part.bytes]
  BY <1>5
<1>8. /\ part.flows \in Nat /\ part.messages \in Nat /\ part.bytes \in Nat
      /\ whole.flows = part.flows + 1 /\ whole.messages = part.messages + m
      /\ whole.bytes = part.bytes + b
  BY <1>5, <1>6
<1> HIDE DEF whole, part
<1>9. /\ part.flows = whole.flows + n /\ part.messages = whole.messages + dm
      /\ part.bytes = whole.bytes + db
  BY <1>1, <1>8
<1>10. Charges(after, js) = [flows |-> Charges(flows, ks).flows + n,
                             messages |-> Charges(flows, ks).messages + dm,
                             bytes |-> Charges(flows, ks).bytes + db]
  BY <1>4, <1>7, <1>9 DEF whole, part
<1>11. ChargedMore(Charges(flows, ks), Charges(after, js), n, dm, db)
  BY <1>4, <1>5, <1>10 DEF ChargedMore
<1> HIDE DEF n, dm, db
<1>12. Covers(Add(scope, n, dm, db), after, js)
  BY <1>2, <1>11, CoversMore
<1> QED BY <1>12 DEF n, dm, db

\* A flow k, of no scope so far, joins the scope s, which may be new.
LEMMA BalancedJoin ==
  ASSUME NEW flows, NEW owner, DOMAIN owner = DOMAIN flows, IsFiniteSet(DOMAIN flows),
         NEW scopes, NEW none, Balanced(scopes, flows, owner, none),
         NEW k, k \in DOMAIN owner => owner[k] \in none,
         NEW after, NEW owner2, DOMAIN owner2 = DOMAIN after,
         DOMAIN after = DOMAIN flows \cup {k}, Counters(after, DOMAIN after),
         \A j \in DOMAIN flows \ {k} : owner2[j] = owner[j] /\ SameCounters(flows, after, j),
         NEW s, s \notin none, owner2[k] = s,
         NEW limits \in ScopeLimits,
         CanAdd(ScopeOf(scopes, s, limits), 1, after[k].pending_messages,
                after[k].pending_bytes)
  PROVE  Balanced(Put(scopes, s, Add(ScopeOf(scopes, s, limits), 1,
                                     after[k].pending_messages, after[k].pending_bytes)),
                  after, owner2, none)
<1> DEFINE scope == ScopeOf(scopes, s, limits)
           m == after[k].pending_messages
           b == after[k].pending_bytes
           left == Put(scopes, s, Add(scope, 1, m, b))
<1>1. /\ IsMap(left) /\ DOMAIN left = DOMAIN scopes \cup {s}
      /\ left[s] = Add(scope, 1, m, b)
      /\ \A r \in DOMAIN scopes \ {s} : left[r] = scopes[r]
  BY DEF Put, IsMap
<1>2. m \in Nat /\ b \in Nat
  BY DEF Counters
<1>3. DOMAIN left = {owner2[j] : j \in DOMAIN owner2} \ none
  <2>1. DOMAIN scopes = {owner[j] : j \in DOMAIN owner} \ none
    BY DEF Balanced
  <2>2. \A r : r \in DOMAIN left <=> r \in {owner2[j] : j \in DOMAIN owner2} \ none
    BY <1>1, <2>1
  <2> HIDE DEF left
  <2> QED BY <2>2
<1>4. Members(owner2, s) = Members(owner, s) \cup {k} /\ k \notin Members(owner, s)
  BY DEF Members
<1>5. \A r : r \notin none /\ r # s =>
              Members(owner2, r) = Members(owner, r) /\ k \notin Members(owner, r)
  BY DEF Members
<1>6. ASSUME NEW r \in DOMAIN scopes \ {s}
      PROVE  Covers(left[r], after, Members(owner2, r))
  <2> DEFINE ks == Members(owner, r)
  <2>1. r \notin none /\ Covers(scopes[r], flows, ks) /\ Members(owner2, r) = ks
    BY <1>5, <1>6 DEF Balanced
  <2>2. ks \subseteq DOMAIN flows /\ ks \subseteq DOMAIN after /\ k \notin ks
    BY <1>5, <2>1 DEF Members
  <2>3. IsFiniteSet(ks)
    BY <2>2, FS_Subset
  <2> HIDE DEF ks
  <2>4. \A j \in ks : SameCounters(flows, after, j)
    BY <2>2
  <2>5. Charges(after, ks) = Charges(flows, ks)
    BY <2>2, <2>3, <2>4, ChargesReadTheirFlows DEF SameCounters
  <2>6. left[r] = scopes[r]
    BY <1>1, <1>6
  <2> HIDE DEF left
  <2> QED BY <2>1, <2>5, <2>6 DEF Covers
<1>7. Covers(left[s], after, Members(owner2, s))
  <2> DEFINE ks == Members(owner, s)
             js == Members(owner2, s)
  <2>1. ks \subseteq DOMAIN flows /\ ks \subseteq DOMAIN after /\ js \subseteq DOMAIN after
    BY DEF Members
  <2>2. js = ks \cup {k} /\ k \notin ks /\ js \ {k} = ks /\ k \in js
    BY <1>4
  <2>3. Covers(scope, flows, ks)
    <3>1. CASE s \in DOMAIN scopes
      BY <3>1 DEF Balanced, ScopeOf
    <3>2. CASE s \notin DOMAIN scopes
      <4>1. ks = {}
        BY <3>2 DEF Balanced, Members
      <4> QED BY <3>2, <4>1, NewScopeCovers DEF ScopeOf
    <3> QED BY <3>1, <3>2
  <2>4. IsFiniteSet(ks) /\ IsFiniteSet(DOMAIN after)
    BY <2>1, FS_Subset, FS_AddElement
  <2>5. IsFiniteSet(js)
    BY <2>1, <2>4, FS_Subset
  <2>6. \A j \in ks : SameCounters(flows, after, j)
    BY <2>1, <2>2
  <2>7. Counters(after, js) /\ js \in SUBSET DOMAIN after
    BY <2>1 DEF Counters
  <2> HIDE DEF ks, js
  <2>8. Covers(Add(scope, 1, m, b), after, js)
    <3>1. CanAdd(scope, 1, m, b)
      OBVIOUS
    <3> HIDE DEF scope
    <3> QED BY <2>1, <2>2, <2>3, <2>4, <2>6, <2>7, <3>1, CoversJoin
  <2> HIDE DEF left
  <2> QED BY <1>1, <2>8 DEF js
<1> HIDE DEF left
<1>8. \A r \in DOMAIN left : Covers(left[r], after, Members(owner2, r))
  BY <1>1, <1>6, <1>7
<1>9. Balanced(left, after, owner2, none)
  BY <1>1, <1>3, <1>8 DEF Balanced
<1> QED BY <1>9 DEF left

\* A flow leaves its scope, which ends with its last flow.
LEMMA BalancedLeave ==
  ASSUME NEW flows, NEW owner, DOMAIN owner = DOMAIN flows, IsFiniteSet(DOMAIN flows),
         Counters(flows, DOMAIN flows),
         NEW scopes, NEW none, Balanced(scopes, flows, owner, none),
         NEW k \in DOMAIN flows, owner[k] \notin none,
         NEW after, NEW owner2, DOMAIN owner2 = DOMAIN after,
         DOMAIN after = DOMAIN flows \ {k},
         \A j \in DOMAIN after : owner2[j] = owner[j] /\ SameCounters(flows, after, j)
  PROVE  Balanced(Release(scopes, owner[k], flows[k].pending_messages, flows[k].pending_bytes),
                  after, owner2, none)
<1> DEFINE s == owner[k]
           m == flows[k].pending_messages
           b == flows[k].pending_bytes
           rest == Add(scopes[s], -1, -m, -b)
           left == Release(scopes, s, m, b)
           ks == Members(owner, s)
           js == Members(owner2, s)
<1>1. s \in DOMAIN scopes
  BY DEF Balanced
<1>2. m \in Nat /\ b \in Nat
  BY DEF Counters
<1>3. /\ ks \subseteq DOMAIN flows /\ js \subseteq DOMAIN flows /\ js \subseteq DOMAIN after
      /\ js = ks \ {k} /\ k \in ks
  BY DEF Members
<1>4. IsFiniteSet(ks) /\ IsFiniteSet(js) /\ Counters(flows, ks) /\ Counters(flows, js)
  BY <1>3, FS_Subset DEF Counters
<1>5. \A j \in js : SameCounters(flows, after, j)
  BY <1>3
<1>6. \A r : r \notin none /\ r # s => Members(owner2, r) = Members(owner, r)
  BY DEF Members
<1>7. Covers(rest, after, js)
  <2>1. Covers(scopes[s], flows, ks)
    BY <1>1 DEF Balanced
  <2> HIDE DEF ks, js, s
  <2>2. /\ ks \subseteq DOMAIN flows /\ IsFiniteSet(ks) /\ Counters(flows, ks)
        /\ k \in ks /\ js = ks \ {k} /\ js \subseteq DOMAIN after
        /\ \A j \in js : SameCounters(flows, after, j)
    BY <1>3, <1>4, <1>5
  <2> QED BY ONLY <2>1, <2>2, CoversLeave
<1>8. rest.usage.flows = 0 <=> js = {}
  <2>1. rest.usage.flows = Cardinality(js)
    BY <1>7 DEF Covers, Charges
  <2> QED BY <1>4, <2>1, FS_EmptySet
<1>9. /\ IsMap(left)
      /\ DOMAIN left = IF js = {} THEN DOMAIN scopes \ {s} ELSE DOMAIN scopes
      /\ \A r \in DOMAIN left : left[r] = IF r = s THEN rest ELSE scopes[r]
  <2> HIDE DEF js, s
  <2>1. CASE js = {}
    <3>1. left = Drop(scopes, {s})
      BY <1>8, <2>1 DEF Release
    <3> HIDE DEF left
    <3> QED BY <2>1, <3>1 DEF Drop, Restrict, IsMap
  <2>2. CASE js # {}
    <3>1. left = Put(scopes, s, rest)
      BY <1>8, <2>2 DEF Release
    <3> HIDE DEF left
    <3> QED BY <1>1, <2>2, <3>1 DEF Put, IsMap
  <2> QED BY <2>1, <2>2
<1>10. DOMAIN left = {owner2[j] : j \in DOMAIN owner2} \ none
  <2>1. DOMAIN scopes = {owner[j] : j \in DOMAIN owner} \ none
    BY DEF Balanced
  <2>2. ASSUME NEW r
        PROVE  r \in DOMAIN left <=> r \in {owner2[j] : j \in DOMAIN owner2} \ none
    <3>1. r \in DOMAIN left <=> r \in DOMAIN scopes /\ (js = {} => r # s)
      <4> HIDE DEF left, js, s
      <4> QED BY <1>1, <1>9
    <3>2. CASE r = s
      <4>1. js # {} <=> r \in {owner2[j] : j \in DOMAIN owner2}
        BY <3>2 DEF Members
      <4> HIDE DEF left, js
      <4> QED BY <1>1, <3>1, <3>2, <4>1
    <3>3. CASE r # s
      <4>1. r \in {owner2[j] : j \in DOMAIN owner2} <=> r \in {owner[j] : j \in DOMAIN owner}
        BY <3>3
      <4> HIDE DEF left, js
      <4> QED BY <2>1, <3>1, <3>3, <4>1
    <3> QED BY <3>2, <3>3
  <2> HIDE DEF left
  <2> QED BY <2>2
<1>11. ASSUME NEW r \in DOMAIN left
       PROVE  Covers(left[r], after, Members(owner2, r))
  <2>1. CASE r = s
    <3>1. left[r] = rest
      <4> HIDE DEF left, rest
      <4> QED BY <1>9, <1>11, <2>1
    <3> HIDE DEF left, rest
    <3> QED BY <1>7, <2>1, <3>1
  <2>2. CASE r # s
    <3> DEFINE is == Members(owner, r)
    <3>1. r \in DOMAIN scopes /\ left[r] = scopes[r]
      <4> HIDE DEF left, js, s, rest
      <4> QED BY <1>9, <1>11, <2>2
    <3>2. r \notin none /\ Covers(scopes[r], flows, is)
      BY <3>1 DEF Balanced
    <3>3. Members(owner2, r) = is
      <4> HIDE DEF s
      <4> QED BY <1>6, <2>2, <3>2
    <3>4. is \subseteq DOMAIN flows /\ is \subseteq DOMAIN after
      BY <2>2 DEF Members
    <3>5. IsFiniteSet(is) /\ \A j \in is : SameCounters(flows, after, j)
      BY <3>4, FS_Subset
    <3> HIDE DEF is, left
    <3>6. Charges(after, is) = Charges(flows, is)
      BY <3>4, <3>5, ChargesReadTheirFlows DEF SameCounters
    <3> QED BY <3>1, <3>2, <3>3, <3>6 DEF Covers
  <2> QED BY <2>1, <2>2
<1> HIDE DEF left
<1>12. Balanced(left, after, owner2, none)
  BY <1>9, <1>10, <1>11 DEF Balanced
<1> QED BY <1>12 DEF left

-----------------------------------------------------------------------------
(* What a flow holds                                                       *)

Sizes(q) == [i \in DOMAIN q |-> PayloadBytes[q[i].payload]]

\* The lengths of the queued transfers are natural numbers, and finitely many.
LEMMA SizesType ==
  ASSUME NEW q \in Seq(Transfer)
  PROVE  /\ IsFiniteSet(DOMAIN q) /\ DOMAIN q = 1 .. Len(q) /\ Len(q) \in Nat
         /\ Sizes(q) \in [1 .. Len(q) -> Nat]
         /\ Bytes(q) = SumFunction(Sizes(q)) /\ Bytes(q) \in Nat
<1>1. DOMAIN q = 1 .. Len(q) /\ Len(q) \in Nat
  OBVIOUS
<1>2. IsFiniteSet(1 .. Len(q))
  <2>1. 1 \in Int /\ Len(q) \in Int
    OBVIOUS
  <2> QED BY <2>1, FS_Interval
<1>3. \A i \in 1 .. Len(q) : PayloadBytes[q[i].payload] \in Nat
  <2>1. \A i \in 1 .. Len(q) : q[i] \in Transfer
    OBVIOUS
  <2> QED BY <2>1, DeliveryAssumption DEF Transfer
<1>4. Sizes(q) \in [1 .. Len(q) -> Nat]
  BY <1>1, <1>3 DEF Sizes
<1>5. Bytes(q) = SumFunction(Sizes(q))
  BY DEF Bytes, Sizes
<1>6. SumFunction(Sizes(q)) \in Nat
  <2> DEFINE S == 1 .. Len(q)
             f == Sizes(q)
  <2>1. IsFiniteSet(S) /\ f \in [S -> Nat]
    BY <1>2, <1>4
  <2> HIDE DEF S, f
  <2>2. SumFunction(f) \in Nat
    BY <2>1, SumIsNat
  <2> QED BY <2>2 DEF f
<1> QED BY <1>1, <1>2, <1>4, <1>5, <1>6

\* An empty queue holds nothing.
LEMMA NoBytes == Bytes(<<>>) = 0
<1>1. DOMAIN [i \in DOMAIN <<>> |-> PayloadBytes[<<>>[i].payload]] = {}
  OBVIOUS
<1> QED BY <1>1, SumOfNone DEF Bytes

\* One more transfer.
LEMMA BytesAppend ==
  ASSUME NEW q \in Seq(Transfer), NEW t \in Transfer
  PROVE  Bytes(Append(q, t)) = Bytes(q) + PayloadBytes[t.payload]
<1> DEFINE r == Append(q, t)
           n == Len(q) + 1
           S == 1 .. Len(q)
           T == 1 .. n
           f == Sizes(q)
           g == Sizes(r)
<1>1. r \in Seq(Transfer) /\ Len(r) = n /\ r[n] = t /\ \A i \in S : r[i] = q[i]
  BY AppendProperties
<1>2. /\ IsFiniteSet(S) /\ f \in [S -> Nat] /\ Bytes(q) = SumFunction(f) /\ Len(q) \in Nat
  BY SizesType
<1>3. g \in [T -> Nat] /\ Bytes(r) = SumFunction(g)
  <2> HIDE DEF r, g
  <2>1. g \in [1 .. Len(r) -> Nat] /\ Bytes(r) = SumFunction(g)
    BY <1>1, SizesType DEF g
  <2> QED BY <1>1, <2>1
<1>4. n \notin S /\ T = S \cup {n} /\ n \in T
  BY <1>2
<1>5. f \in [S -> Int] /\ g \in [T -> Int]
  BY <1>2, <1>3
<1>6. \A i \in S : g[i] = f[i]
  <2>1. DOMAIN q = S /\ DOMAIN r = T
    BY <1>1, <1>2
  <2> HIDE DEF r, S, T
  <2> QED BY <1>1, <1>4, <2>1 DEF Sizes
<1>7. g[n] = PayloadBytes[t.payload]
  <2>1. DOMAIN r = T
    BY <1>1, <1>2
  <2> HIDE DEF r, S, T, n
  <2> QED BY <1>1, <1>4, <2>1 DEF Sizes
<1> HIDE DEF f, g
<1>8. SumFunction(g) = SumFunction(f) + g[n]
  BY <1>2, <1>5, <1>6, SumAppends
<1> QED BY <1>2, <1>3, <1>7, <1>8

\* The queue q is gone, of length n, and then left.
Splits(q, n, gone, left) ==
  /\ gone \in Seq(Transfer) /\ left \in Seq(Transfer)
  /\ Len(gone) = n /\ Len(left) = Len(q) - n /\ Len(q) = n + Len(left)
  /\ \A i \in 1 .. Len(q) - n : left[i] = q[n + i]
  /\ Bytes(gone) \in Nat /\ Bytes(left) \in Nat
  /\ Bytes(q) = Bytes(gone) + Bytes(left)

\* What is left of a queue when the n oldest transfers go.
LEMMA BytesSplit ==
  ASSUME NEW q \in Seq(Transfer), NEW n \in 0 .. Len(q)
  PROVE  Splits(q, n, SubSeq(q, 1, n), SubSeq(q, n + 1, Len(q)))
<1> DEFINE out == SubSeq(q, 1, n)
           left == SubSeq(q, n + 1, Len(q))
           m == Len(q) - n
           S == 1 .. Len(q)
           A == 1 .. n
           B == 1 .. m
           f == Sizes(q)
           g == Sizes(out)
           h == Sizes(left)
<1>1. /\ IsFiniteSet(S) /\ f \in [S -> Nat] /\ Bytes(q) = SumFunction(f) /\ Len(q) \in Nat
      /\ DOMAIN q = S
  BY SizesType
<1>2. n \in Nat /\ n <= Len(q) /\ m \in Nat
  BY <1>1
<1>3. /\ out \in Seq(Transfer) /\ Len(out) = n /\ \A i \in A : out[i] = q[i]
  <2>1. \A i \in 1 .. n : q[i] \in Transfer
    BY <1>1, <1>2
  <2>2. /\ out \in Seq(Transfer) /\ Len(out) = IF 1 <= n THEN n - 1 + 1 ELSE 0
        /\ \A i \in 1 .. n - 1 + 1 : out[i] = q[1 + i - 1]
    <3>1. 1 \in Int /\ n \in Int
      BY <1>2
    <3> HIDE DEF out
    <3> QED BY <2>1, <3>1, SubSeqProperties DEF out
  <2> HIDE DEF out
  <2>3. Len(out) = n
    BY <1>2, <2>2
  <2>4. \A i \in A : i \in 1 .. n - 1 + 1 /\ 1 + i - 1 = i
    BY <1>2
  <2> QED BY <2>2, <2>3, <2>4
<1>4. /\ left \in Seq(Transfer) /\ Len(left) = m /\ \A i \in B : left[i] = q[n + i]
  <2> DEFINE a == n + 1
             z == Len(q)
  <2>1. \A i \in a .. z : q[i] \in Transfer
    BY <1>1, <1>2
  <2>2. a \in Int /\ z \in Int
    BY <1>1, <1>2
  <2>3. left = SubSeq(q, a, z)
    OBVIOUS
  <2> HIDE DEF left
  <2>4. /\ left \in Seq(Transfer)
        /\ Len(left) = IF a <= z THEN z - a + 1 ELSE 0
        /\ \A i \in 1 .. z - a + 1 : left[i] = q[a + i - 1]
    <3> HIDE DEF a, z
    <3> QED BY <2>1, <2>2, <2>3, SubSeqProperties
  <2>5. Len(left) = m
    <3>1. Len(left) = IF a <= z THEN z - a + 1 ELSE 0
      BY <2>4
    <3>2. z \in Nat /\ n \in Nat /\ n <= z /\ m = z - n /\ a = n + 1
      BY <1>1, <1>2
    <3> HIDE DEF a, z, m
    <3> QED BY ONLY <3>1, <3>2
  <2>6. \A i \in B : i \in 1 .. z - a + 1 /\ a + i - 1 = n + i
    BY <1>1, <1>2
  <2> QED BY <2>4, <2>5, <2>6
<1> HIDE DEF out, left
<1>5. /\ g \in [A -> Nat] /\ Bytes(out) = SumFunction(g) /\ Bytes(out) \in Nat /\ DOMAIN out = A
      /\ IsFiniteSet(A)
  BY <1>3, SizesType
<1>6. /\ h \in [B -> Nat] /\ Bytes(left) = SumFunction(h) /\ Bytes(left) \in Nat
      /\ DOMAIN left = B /\ IsFiniteSet(B)
  BY <1>4, SizesType
<1>7. A \in SUBSET S /\ S \ A = {n + i : i \in B}
  <2>1. A \in SUBSET S
    BY <1>1, <1>2
  <2>2. ASSUME NEW j \in S \ A
        PROVE  j \in {n + i : i \in B}
    <3>1. j - n \in B /\ j = n + (j - n)
      BY <1>1, <1>2
    <3> HIDE DEF B
    <3> QED BY <3>1
  <2>3. \A i \in B : n + i \in S \ A
    BY <1>1, <1>2
  <2> HIDE DEF A, B, S
  <2> QED BY <2>1, <2>2, <2>3
<1>8. \A i \in A : g[i] = f[i]
  <2>1. \A i \in A : i \in S
    BY <1>7
  <2> HIDE DEF A, S
  <2> QED BY <1>1, <1>3, <1>5, <2>1 DEF Sizes
<1>9. \A i \in B : f[n + i] = h[i]
  <2>1. \A i \in B : n + i \in S
    BY <1>7
  <2> HIDE DEF B, S
  <2> QED BY <1>1, <1>4, <1>6, <2>1 DEF Sizes
<1>10. B \subseteq Nat
  BY <1>2
<1> HIDE DEF A, B, S, f, g, h
<1>11. SumFunction(f) = SumFunctionOnSet(f, A) + SumFunctionOnSet(f, S \ A)
  <2>1. f \in [S -> Int] /\ A \in SUBSET S
    BY <1>1, <1>7
  <2> QED BY <1>1, <2>1, SumSplits
<1>12. SumFunction(g) = SumFunctionOnSet(f, A)
  <2>1. DOMAIN g = A
    BY <1>5
  <2> QED BY <1>5, <1>8, <2>1, SumOverSubset
<1>13. SumFunctionOnSet(h, B) = SumFunctionOnSet(f, {n + i : i \in B})
  <2>1. \A i \in B : h[i] \in Int /\ f[n + i] = h[i]
    BY <1>6, <1>9
  <2> QED BY <1>2, <1>6, <1>10, <2>1, SumShifts
<1>14. SumFunction(h) = SumFunctionOnSet(h, B)
  <2>1. DOMAIN h = B
    BY <1>6
  <2> QED BY <2>1 DEF SumFunction
<1>15. Bytes(q) = Bytes(out) + Bytes(left)
  BY <1>1, <1>5, <1>6, <1>7, <1>11, <1>12, <1>13, <1>14
<1>16. Len(q) = n + m
  BY <1>1, <1>2
<1>17. Len(left) = Len(q) - n /\ Len(q) = n + Len(left)
  BY <1>4, <1>16
<1>18. \A i \in 1 .. Len(q) - n : left[i] = q[n + i]
  BY <1>4 DEF B, m
<1>19. Splits(q, n, out, left)
  BY ONLY <1>3, <1>4, <1>5, <1>6, <1>15, <1>17, <1>18 DEF Splits
<1> QED BY ONLY <1>19 DEF out, left

\* The bytes of the buffer of a reliable flow.
Buffered(m) == SumFunction([i \in DOMAIN m |-> PayloadBytes[m[i]]])

\* A buffer holds finitely many transfers.
LEMMA BufferType ==
  ASSUME NEW m \in Buffer
  PROVE  /\ DOMAIN m \subseteq Index /\ m \in [DOMAIN m -> Payloads]
         /\ IsFiniteSet(DOMAIN m) /\ Cardinality(DOMAIN m) \in Nat /\ Buffered(m) \in Nat
<1>1. DOMAIN m \subseteq Index /\ m \in [DOMAIN m -> Payloads]
  BY DEF Buffer
<1>2. IsFiniteSet(DOMAIN m)
  <2>1. 0 \in Int /\ MaxIndex \in Int
    BY DeliveryAssumption
  <2>2. IsFiniteSet(Index)
    BY <2>1, FS_Interval DEF Index
  <2> QED BY <1>1, <2>2, FS_Subset
<1> DEFINE D == DOMAIN m
           f == [i \in D |-> PayloadBytes[m[i]]]
<1>3. f \in [D -> Nat]
  BY <1>1, DeliveryAssumption
<1>4. Buffered(m) = SumFunction(f)
  BY DEF Buffered
<1> HIDE DEF f, D
<1>5. SumFunction(f) \in Nat
  BY <1>2, <1>3, SumIsNat DEF D
<1> QED BY <1>1, <1>2, <1>4, <1>5, FS_CardinalityType

\* An empty buffer.
LEMMA NoBuffer ==
  EmptyMap \in Buffer /\ DOMAIN EmptyMap = {} /\ Buffered(EmptyMap) = 0
<1>1. EmptyMap \in [{} -> Payloads] /\ DOMAIN EmptyMap = {}
  BY EmptyMapIsEmpty
<1>2. {} \in SUBSET Index
  OBVIOUS
<1>3. EmptyMap \in Buffer
  BY <1>1, <1>2 DEF Buffer
<1>4. DOMAIN [i \in DOMAIN EmptyMap |-> PayloadBytes[EmptyMap[i]]] = {}
  BY <1>1
<1> QED BY <1>1, <1>3, <1>4, SumOfNone DEF Buffered

\* One more transfer in the buffer.
LEMMA BufferPut ==
  ASSUME NEW m \in Buffer, NEW i \in Index, i \notin DOMAIN m, NEW p \in Payloads
  PROVE  /\ Put(m, i, p) \in Buffer /\ DOMAIN Put(m, i, p) = DOMAIN m \cup {i}
         /\ Cardinality(DOMAIN Put(m, i, p)) = Cardinality(DOMAIN m) + 1
         /\ Buffered(Put(m, i, p)) = Buffered(m) + PayloadBytes[p]
<1> DEFINE D == DOMAIN m
           E == D \cup {i}
           r == Put(m, i, p)
           g == [j \in E |-> PayloadBytes[r[j]]]
<1>1. /\ D \subseteq Index /\ m \in [D -> Payloads] /\ IsFiniteSet(D)
      /\ Buffered(m) \in Nat
  BY BufferType
<1>2. r \in [E -> Payloads] /\ DOMAIN r = E /\ r[i] = p /\ \A j \in D : r[j] = m[j]
  BY <1>1 DEF Put
<1>3. r \in Buffer
  <2>1. E \in SUBSET Index
    BY <1>1
  <2> HIDE DEF E, r
  <2> QED BY <1>2, <2>1 DEF Buffer
<1>4. Cardinality(E) = Cardinality(D) + 1 /\ IsFiniteSet(E)
  BY <1>1, FS_AddElement
<1>5. Buffered(r) = SumFunction(g)
  <2> HIDE DEF r, E
  <2> QED BY <1>2 DEF Buffered
<1>6. DOMAIN g = E /\ g[i] = PayloadBytes[p] /\ \A j \in E : g[j] \in Int
  <2> HIDE DEF r
  <2>1. \A j \in E : r[j] \in Payloads
    BY <1>2
  <2> QED BY <1>2, <2>1, DeliveryAssumption
<1>7. Buffered(m) = SumFunctionOnSet(g, D)
  <2> DEFINE f == [j \in D |-> PayloadBytes[m[j]]]
  <2>1. DOMAIN f = D /\ \A j \in D : f[j] = g[j]
    <3> HIDE DEF r
    <3> QED BY <1>2
  <2>2. Buffered(m) = SumFunction(f)
    BY DEF Buffered
  <2> HIDE DEF f, g, D
  <2>3. SumFunction(f) = SumFunctionOnSet(g, D)
    BY <1>1, <2>1, SumOverSubset
  <2> QED BY <2>2, <2>3
<1>8. i \in E /\ E \ {i} = D
  OBVIOUS
<1> HIDE DEF g, E, D, r
<1>9. SumFunctionOnSet(g, E) = g[i] + SumFunctionOnSet(g, D)
  BY <1>4, <1>6, <1>8, SumTakesAny
<1>10. SumFunction(g) = SumFunctionOnSet(g, E)
  BY <1>6 DEF SumFunction
<1>11. PayloadBytes[p] \in Nat
  BY DeliveryAssumption
<1>12. Buffered(r) = Buffered(m) + PayloadBytes[p]
  BY <1>1, <1>5, <1>6, <1>7, <1>9, <1>10, <1>11
<1> QED BY <1>2, <1>3, <1>4, <1>12 DEF E, D, r

\* One transfer less.
LEMMA BufferDrop ==
  ASSUME NEW m \in Buffer, NEW i \in DOMAIN m
  PROVE  /\ Drop(m, {i}) \in Buffer /\ DOMAIN Drop(m, {i}) = DOMAIN m \ {i}
         /\ Cardinality(DOMAIN m) = Cardinality(DOMAIN Drop(m, {i})) + 1
         /\ Buffered(m) = Buffered(Drop(m, {i})) + PayloadBytes[m[i]]
         /\ i \in Index /\ m[i] \in Payloads
<1> DEFINE r == Drop(m, {i})
           p == m[i]
<1>1. DOMAIN m \subseteq Index /\ m \in [DOMAIN m -> Payloads]
  BY BufferType
<1>2. r \in [DOMAIN m \ {i} -> Payloads] /\ DOMAIN r = DOMAIN m \ {i}
      /\ \A j \in DOMAIN r : r[j] = m[j]
  BY <1>1 DEF Drop, Restrict
<1>3. r \in Buffer
  BY <1>1, <1>2 DEF Buffer
<1>4. Put(r, i, p) = m
  BY <1>1, <1>2 DEF Put
<1>5. i \in Index /\ i \notin DOMAIN r /\ p \in Payloads
  BY <1>1, <1>2
<1> HIDE DEF r, p
<1>6. /\ Cardinality(DOMAIN Put(r, i, p)) = Cardinality(DOMAIN r) + 1
      /\ Buffered(Put(r, i, p)) = Buffered(r) + PayloadBytes[p]
  BY <1>3, <1>5, BufferPut
<1>7. /\ Cardinality(DOMAIN m) = Cardinality(DOMAIN r) + 1
      /\ Buffered(m) = Buffered(r) + PayloadBytes[p]
  BY <1>4, <1>6
<1> QED BY <1>2, <1>3, <1>5, <1>7 DEF r, p

-----------------------------------------------------------------------------
(* Charging one flow                                                       *)

\* The flows of an endpoint that keeps its invariant have counters.
LEMMA FlowsHaveCounters ==
  ASSUME NEW flows, FlowsInv(flows)
  PROVE  Counters(flows, DOMAIN flows)
BY DEF FlowsInv, FlowInv, FlowRecord, Counters

\* mid is the endpoint ep with f in the place of its flow k, and perhaps more
\* drops counted.
Rewrites(ep, mid, k, f) ==
  /\ IsEndpoint(mid)
  /\ mid.flows = [ep.flows EXCEPT ![k] = f]
  /\ mid.aggregate = ep.aggregate
  /\ mid.connections = ep.connections /\ mid.sessions = ep.sessions
  /\ f.session = ep.flows[k].session
  /\ f.pending_messages = ep.flows[k].pending_messages
  /\ f.pending_bytes = ep.flows[k].pending_bytes

\* The scopes of the flow k have room for m messages and b bytes more.
RoomFor(ep, k, m, b) ==
  /\ CanAdd(ep.aggregate, 0, m, b)
  /\ CanAdd(ep.connections[k.connection], 0, m, b)
  /\ ep.flows[k].session # NoSession => CanAdd(ep.sessions[ep.flows[k].session], 0, m, b)

\* ep is mid with its flow k, now g, and the scopes of g charged for m messages and
\* b bytes.
Charged(mid, ep, k, g, m, b) ==
  /\ IsEndpoint(ep)
  /\ ep.flows = [mid.flows EXCEPT ![k] = g]
  /\ ep.aggregate = Add(mid.aggregate, 0, m, b)
  /\ ep.connections = [mid.connections EXCEPT ![k.connection] = Add(@, 0, m, b)]
  /\ ep.sessions = [mid.sessions EXCEPT ![g.session] = Add(@, 0, m, b)]
  /\ ep.outbound_drops = mid.outbound_drops /\ ep.inbound_drops = mid.inbound_drops

\* What Charge leaves, field by field.
LEMMA ChargeIs ==
  ASSUME NEW mid, IsEndpoint(mid), IsMap(mid.flows), NEW k \in DOMAIN mid.flows,
         IsMap(mid.connections), IsMap(mid.sessions), NEW m \in Int, NEW b \in Int,
         NEW f, f \in FlowRecord(f.session), mid.flows[k] = f,
         NEW g, g = [f EXCEPT !.pending_messages = @ + m, !.pending_bytes = @ + b]
  PROVE  Charged(mid, Charge(mid, k, m, b), k, g, m, b)
<1> DEFINE ep == Charge(mid, k, m, b)
           fs == [mid.flows EXCEPT ![k] = [mid.flows[k] EXCEPT !.pending_messages = @ + m,
                                                               !.pending_bytes = @ + b]]
           ag == Add(mid.aggregate, 0, m, b)
           cs == [mid.connections EXCEPT ![k.connection] = Add(@, 0, m, b)]
           ss == [mid.sessions EXCEPT ![f.session] = Add(@, 0, m, b)]
<1>1. mid = [aggregate |-> mid.aggregate, connections |-> mid.connections,
             sessions |-> mid.sessions, flows |-> mid.flows,
             outbound_drops |-> mid.outbound_drops, inbound_drops |-> mid.inbound_drops]
  BY DEF IsEndpoint
<1>2. [[mid.flows EXCEPT ![k].pending_messages = @ + m] EXCEPT ![k].pending_bytes = @ + b] = fs
  <2>1. mid.flows[k] \in FlowRecord(mid.flows[k].session)
    OBVIOUS
  <2> QED BY <2>1 DEF IsMap, FlowRecord
<1>3. ep = [mid EXCEPT !.flows = fs, !.connections = cs, !.aggregate = ag, !.sessions = ss]
  BY <1>1, <1>2 DEF Charge
<1> HIDE DEF fs, ag, cs, ss, ep
<1>4. ep = [aggregate |-> ag, connections |-> cs, sessions |-> ss, flows |-> fs,
            outbound_drops |-> mid.outbound_drops, inbound_drops |-> mid.inbound_drops]
  BY <1>1, <1>3
<1>5. IsEndpoint(ep)
  BY <1>4 DEF IsEndpoint
<1>6. g.session = f.session
  BY DEF FlowRecord
<1>7. fs = [mid.flows EXCEPT ![k] = g]
  BY DEF fs
<1> QED BY <1>4, <1>5, <1>6, <1>7 DEF ag, cs, ss, ep, Charged

\* f with m messages and b bytes more pending.
With(f, m, b) == [f EXCEPT !.pending_messages = @ + m, !.pending_bytes = @ + b]

\* A charge of m messages and b bytes to the flow k of ep, rewritten to f.
IsCharge(ep, mid, k, f, g, m, b) ==
  /\ EndpointInv(ep) /\ k \in DOMAIN ep.flows
  /\ m \in Int /\ b \in Int
  /\ (m <= 0 /\ b <= 0) \/ RoomFor(ep, k, m, b)
  /\ f \in FlowRecord(f.session) /\ Rewrites(ep, mid, k, f)
  /\ g = With(f, m, b) /\ FlowInv(k, g)

\* after is mid with the flow k of ep now g, and keeps the books.
Leaves(ep, mid, after, k, g) ==
  /\ EndpointInv(after) /\ FlowInv(k, g)
  /\ after.flows = [ep.flows EXCEPT ![k] = g] /\ after.flows[k] = g
  /\ k \in DOMAIN after.flows /\ DOMAIN after.flows = DOMAIN ep.flows
  /\ after.outbound_drops = mid.outbound_drops /\ after.inbound_drops = mid.inbound_drops

\* Charging a flow, after its queues changed, keeps the books of the endpoint:
\* the flow's own by hypothesis, the scopes' by the charge.
LEMMA ChargeKeeps ==
  ASSUME NEW ep, NEW mid, NEW k, NEW f, NEW g, NEW m, NEW b,
         IsCharge(ep, mid, k, f, g, m, b)
  PROVE  Leaves(ep, mid, Charge(mid, k, m, b), k, g)
<1> SUFFICES ASSUME EndpointInv(ep), k \in DOMAIN ep.flows, m \in Int, b \in Int,
                    (m <= 0 /\ b <= 0) \/ RoomFor(ep, k, m, b),
                    f \in FlowRecord(f.session), Rewrites(ep, mid, k, f),
                    g = [f EXCEPT !.pending_messages = @ + m, !.pending_bytes = @ + b],
                    FlowInv(k, g)
             PROVE  Leaves(ep, mid, Charge(mid, k, m, b), k, g)
  BY DEF IsCharge, With
<1> DEFINE left == Charge(mid, k, m, b)
           flows == ep.flows
           after == [flows EXCEPT ![k] = g]
           s == f.session
<1>1. /\ IsMap(flows) /\ IsFiniteSet(DOMAIN flows)
      /\ \A j \in DOMAIN flows : FlowInv(j, flows[j])
      /\ k \in DOMAIN flows
  BY DEF EndpointInv, FlowsInv
<1>2. /\ Covers(ep.aggregate, flows, DOMAIN flows)
      /\ Balanced(ep.connections, flows, ConnectionOf(flows), {})
      /\ Balanced(ep.sessions, flows, SessionOf(flows), {NoSession})
      /\ IsMap(ep.connections) /\ IsMap(ep.sessions)
  BY DEF EndpointInv, ScopesInv, Balanced
<1>3. /\ IsEndpoint(mid) /\ mid.flows = [flows EXCEPT ![k] = f]
      /\ mid.aggregate = ep.aggregate
      /\ mid.connections = ep.connections /\ mid.sessions = ep.sessions
      /\ s = flows[k].session
  BY DEF Rewrites
<1>4. IsMap(mid.flows) /\ k \in DOMAIN mid.flows /\ mid.flows[k] = f
  BY <1>1, <1>3 DEF IsMap
<1>5. /\ IsEndpoint(left)
      /\ left.flows = [mid.flows EXCEPT ![k] = g]
      /\ left.aggregate = Add(ep.aggregate, 0, m, b)
      /\ left.connections = [ep.connections EXCEPT ![k.connection] = Add(@, 0, m, b)]
      /\ left.sessions = [ep.sessions EXCEPT ![s] = Add(@, 0, m, b)]
      /\ left.outbound_drops = mid.outbound_drops /\ left.inbound_drops = mid.inbound_drops
  <2>1. Charged(mid, left, k, g, m, b)
    <3>1. IsMap(mid.connections) /\ IsMap(mid.sessions)
      BY <1>2, <1>3
    <3> QED BY <1>3, <1>4, <3>1, ChargeIs
  <2>2. g.session = s
    BY DEF FlowRecord
  <2> QED BY <1>3, <2>1, <2>2 DEF Charged
<1> HIDE DEF left
<1>6. [mid.flows EXCEPT ![k] = g] = after
  BY <1>1, <1>3 DEF IsMap
<1>7. /\ IsMap(after) /\ DOMAIN after = DOMAIN flows /\ after[k] = g
      /\ \A j \in DOMAIN flows \ {k} : after[j] = flows[j]
  BY <1>1 DEF IsMap
<1>8. /\ g.pending_messages = flows[k].pending_messages + m
      /\ g.pending_bytes = flows[k].pending_bytes + b
      /\ g.session = flows[k].session
  BY <1>3 DEF Rewrites, FlowRecord
<1>9. FlowsInv(after)
  <2>1. \A j \in DOMAIN after : FlowInv(j, after[j])
    <3> HIDE DEF after
    <3> QED BY <1>1, <1>7
  <2> HIDE DEF after
  <2> QED BY <1>1, <1>7, <2>1 DEF FlowsInv
<1> HIDE DEF after
<1>10. Counters(flows, DOMAIN flows) /\ Counters(after, DOMAIN after)
  BY <1>1, <1>9, FlowsHaveCounters DEF FlowsInv
<1>11. Recharged(flows, after, k, m, b)
  BY <1>1, <1>7, <1>8, <1>10 DEF Recharged
<1>12. /\ DOMAIN ConnectionOf(flows) = DOMAIN flows /\ DOMAIN SessionOf(flows) = DOMAIN flows
       /\ ConnectionOf(after) = ConnectionOf(flows)
       /\ SessionOf(after) = SessionOf(flows)
       /\ ConnectionOf(flows)[k] = k.connection /\ SessionOf(flows)[k] = s
  <2>1. \A j \in DOMAIN flows : after[j].session = flows[j].session
    BY <1>7, <1>8
  <2> QED BY <1>1, <1>3, <1>7, <2>1 DEF ConnectionOf, SessionOf
<1>13. Covers(left.aggregate, after, DOMAIN after)
  <2>1. DOMAIN flows \in SUBSET DOMAIN flows
    OBVIOUS
  <2>2. ChargedMore(Charges(flows, DOMAIN flows), Charges(after, DOMAIN flows), 0, m, b)
    BY <1>1, <1>11, <2>1, ChargesMove
  <2>3. CanAdd(ep.aggregate, 0, m, b) \/ (0 <= 0 /\ m <= 0 /\ b <= 0)
    BY DEF RoomFor
  <2>4. Covers(Add(ep.aggregate, 0, m, b), after, DOMAIN flows)
    BY <1>2, <2>2, <2>3, CoversMore
  <2> QED BY <1>5, <1>7, <2>4
<1>14. Balanced(left.connections, after, ConnectionOf(after), {})
  <2> DEFINE owner == ConnectionOf(flows)
  <2>1. \/ m <= 0 /\ b <= 0
        \/ owner[k] \in DOMAIN ep.connections => CanAdd(ep.connections[owner[k]], 0, m, b)
    BY <1>12 DEF RoomFor
  <2>2. DOMAIN owner = DOMAIN flows /\ owner[k] = k.connection
    BY <1>12
  <2> HIDE DEF owner
  <2>3. Balanced([ep.connections EXCEPT ![owner[k]] = Add(@, 0, m, b)], after, owner, {})
    BY <1>1, <1>2, <1>11, <2>1, <2>2, BalancedCharge DEF owner
  <2> QED BY <1>5, <1>12, <2>2, <2>3 DEF owner
<1>15. Balanced(left.sessions, after, SessionOf(after), {NoSession})
  <2> DEFINE owner == SessionOf(flows)
  <2>1. \/ m <= 0 /\ b <= 0
        \/ owner[k] \in DOMAIN ep.sessions => CanAdd(ep.sessions[owner[k]], 0, m, b)
    <3>1. DOMAIN ep.sessions = {owner[j] : j \in DOMAIN owner} \ {NoSession}
      BY <1>2 DEF Balanced
    <3>2. owner[k] = ep.flows[k].session
      BY <1>3, <1>12
    <3> QED BY <3>1, <3>2 DEF RoomFor
  <2>2. DOMAIN owner = DOMAIN flows /\ owner[k] = s
    BY <1>12
  <2> HIDE DEF owner
  <2>3. Balanced([ep.sessions EXCEPT ![owner[k]] = Add(@, 0, m, b)], after, owner, {NoSession})
    BY <1>1, <1>2, <1>11, <2>1, <2>2, BalancedCharge DEF owner
  <2> QED BY <1>5, <1>12, <2>2, <2>3 DEF owner
<1>16. left.flows = after
  BY <1>5, <1>6
<1>17. EndpointInv(left)
  BY <1>5, <1>9, <1>13, <1>14, <1>15, <1>16 DEF EndpointInv, ScopesInv
<1>18. Leaves(ep, mid, left, k, g)
  BY <1>5, <1>7, <1>16, <1>17 DEF Leaves, after
<1> QED BY <1>18 DEF left

-----------------------------------------------------------------------------
(* What the operations make of a flow                                      *)

\* The contents of a flow are what its two queues and its buffer hold.
LEMMA ContentsAre ==
  ASSUME NEW flow, flow \in FlowRecord(flow.session)
  PROVE  /\ Contents(flow).messages =
              Len(flow.outbound) + Len(flow.queue) + Cardinality(DOMAIN flow.by_index)
         /\ Contents(flow).bytes =
              Bytes(flow.outbound) + Bytes(flow.queue) + Buffered(flow.by_index)
         /\ Contents(flow) = [messages |-> Contents(flow).messages,
                              bytes |-> Contents(flow).bytes]
         /\ flow.outbound \in Seq(Transfer) /\ flow.queue \in Seq(Transfer)
         /\ flow.by_index \in Buffer
         /\ Len(flow.outbound) \in Nat /\ Len(flow.queue) \in Nat
         /\ Cardinality(DOMAIN flow.by_index) \in Nat
         /\ Bytes(flow.outbound) \in Nat /\ Bytes(flow.queue) \in Nat
         /\ Buffered(flow.by_index) \in Nat
         /\ flow.pending_messages \in Nat /\ flow.pending_bytes \in Nat
<1>1. /\ flow.outbound \in Seq(Transfer) /\ flow.queue \in Seq(Transfer)
      /\ flow.by_index \in Buffer
      /\ flow.pending_messages \in Nat /\ flow.pending_bytes \in Nat
  BY DEF FlowRecord, Buffer
<1>2. /\ Len(flow.outbound) \in Nat /\ Bytes(flow.outbound) \in Nat
      /\ Len(flow.queue) \in Nat /\ Bytes(flow.queue) \in Nat
  BY <1>1, SizesType
<1>3. Cardinality(DOMAIN flow.by_index) \in Nat /\ Buffered(flow.by_index) \in Nat
  BY <1>1, BufferType
<1>4. Contents(flow) =
        [messages |-> Len(flow.outbound) + Len(flow.queue) + Cardinality(DOMAIN flow.by_index),
         bytes |-> Bytes(flow.outbound) + Bytes(flow.queue) + Buffered(flow.by_index)]
  BY DEF Contents, Buffered
<1> QED BY <1>1, <1>2, <1>3, <1>4

\* The limits of a flow are numbers.
LEMMA PolicyType ==
  ASSUME NEW flow, flow \in FlowRecord(flow.session)
  PROVE  /\ flow.policy \in Policy
         /\ flow.policy.messages \in Nat /\ flow.policy.bytes \in Nat
<1>1. flow.policy \in Policy
  BY DEF FlowRecord
<1> QED BY <1>1 DEF Policy

\* The counters of a flow are exact, and within its limits: the part of FlowInv that
\* is about numbers.
FlowCounts(flow) ==
  /\ flow.pending_messages =
       Len(flow.outbound) + Len(flow.queue) + Cardinality(DOMAIN flow.by_index)
  /\ flow.pending_bytes = Bytes(flow.outbound) + Bytes(flow.queue) + Buffered(flow.by_index)
  /\ flow.pending_messages <= flow.policy.messages
  /\ flow.pending_bytes <= flow.policy.bytes
  /\ flow.policy.messages \in Nat /\ flow.policy.bytes \in Nat
  /\ Len(flow.outbound) \in Nat /\ Len(flow.queue) \in Nat
  /\ Cardinality(DOMAIN flow.by_index) \in Nat
  /\ Bytes(flow.outbound) \in Nat /\ Bytes(flow.queue) \in Nat
  /\ Buffered(flow.by_index) \in Nat

\* The numbers of a flow that is right.
LEMMA FlowCountsHold ==
  ASSUME NEW k, NEW flow, FlowInv(k, flow)
  PROVE  FlowCounts(flow) /\ flow \in FlowRecord(flow.session)
<1>1. flow \in FlowRecord(flow.session)
  BY DEF FlowInv
<1>2. /\ Contents(flow).messages = flow.pending_messages
      /\ Contents(flow).bytes = flow.pending_bytes
  BY DEF FlowInv
<1> QED BY <1>1, <1>2, ContentsAre, PolicyType DEF FlowInv, FlowCounts

\* And the other way around.
LEMMA FlowIsRight ==
  ASSUME NEW k, NEW flow, flow \in FlowRecord(flow.session), IsSuited(k, flow), FlowCounts(flow), InOrder(flow)
  PROVE  FlowInv(k, flow)
<1>1. Contents(flow) = [messages |-> flow.pending_messages, bytes |-> flow.pending_bytes]
  BY ContentsAre DEF FlowCounts
<1> QED BY <1>1 DEF FlowInv, FlowCounts

\* A queue stays ascending when its oldest transfers go.
LEMMA AscendsLater ==
  ASSUME NEW q \in Seq(Transfer), NEW n \in 0 .. Len(q), NEW gone, NEW left,
         Splits(q, n, gone, left), NEW next \in Int, NEW mode, Ascends(q, next, mode)
  PROVE  Ascends(left, next, mode)
<1>1. /\ DOMAIN q = 1 .. Len(q) /\ Len(q) \in Nat /\ n \in Nat /\ n <= Len(q)
      /\ Len(left) = Len(q) - n /\ DOMAIN left = 1 .. Len(left)
  BY DEF Splits
<1>2. /\ \A i, j \in DOMAIN q : i < j => q[i].index < q[j].index
      /\ \A i \in DOMAIN q : q[i].index < next
      /\ mode = Reliable => \A i \in DOMAIN q : q[i].index = next - Len(q) + i - 1
  BY DEF Ascends
<1>3. \A i \in DOMAIN left : n + i \in DOMAIN q /\ left[i] = q[n + i] /\ i \in Nat
  <2>1. \A i \in 1 .. Len(q) - n : left[i] = q[n + i]
    BY DEF Splits
  <2> QED BY <1>1, <2>1
<1>4. \A i, j \in DOMAIN left : i < j => left[i].index < left[j].index
  <2>1. \A i, j \in DOMAIN left : i < j => n + i < n + j
    BY <1>1, <1>3
  <2>2. ASSUME NEW i \in DOMAIN left, NEW j \in DOMAIN left, i < j
        PROVE  left[i].index < left[j].index
    <3>1. n + i \in DOMAIN q /\ n + j \in DOMAIN q /\ n + i < n + j
      BY <1>3, <2>1, <2>2
    <3>2. q[n + i].index < q[n + j].index
      BY <1>2, <3>1
    <3> QED BY <1>3, <3>2
  <2> QED BY <2>2
<1>5. \A i \in DOMAIN left : left[i].index < next
  BY <1>2, <1>3
<1>6. ASSUME mode = Reliable, NEW i \in DOMAIN left
      PROVE  left[i].index = next - Len(left) + i - 1
  <2>1. left[i].index = next - Len(q) + (n + i) - 1
    BY <1>2, <1>3, <1>6
  <2>2. next - Len(q) + (n + i) - 1 = next - Len(left) + i - 1
    <3>1. i \in Nat /\ n \in Nat /\ Len(q) \in Nat /\ Len(left) = Len(q) - n
      BY <1>1, <1>3, <1>6
    <3> QED BY <3>1
  <2> QED BY <2>1, <2>2
<1> QED BY <1>4, <1>5, <1>6 DEF Ascends

\* A flow whose counters may be any integers.
FlowShape(session) ==
  [mode : Mode, policy : Policy, session : {session},
   next_accepted_index : 0 .. MaxIndex + 1, outbound : Seq(Transfer),
   by_index : Buffer,
   next_exposure : 0 .. MaxIndex + 1,
   queue : Seq(Transfer), last_exposed_sequence : Index \cup {NoIndex},
   pending_messages : Int, pending_bytes : Int]

\* From f to g one of the three stores gets m messages and b bytes more.
OutboundMoves(f, g, m, b) ==
  /\ g.queue = f.queue /\ g.by_index = f.by_index
  /\ Len(g.outbound) = Len(f.outbound) + m /\ Bytes(g.outbound) = Bytes(f.outbound) + b

QueueMoves(f, g, m, b) ==
  /\ g.outbound = f.outbound /\ g.by_index = f.by_index
  /\ Len(g.queue) = Len(f.queue) + m /\ Bytes(g.queue) = Bytes(f.queue) + b

BufferMoves(f, g, m, b) ==
  /\ g.outbound = f.outbound /\ g.queue = f.queue
  /\ Cardinality(DOMAIN g.by_index) = Cardinality(DOMAIN f.by_index) + m
  /\ Buffered(g.by_index) = Buffered(f.by_index) + b

\* g is f with m messages and b bytes more in its stores and on its counters.
Becomes(f, g, m, b) ==
  /\ g \in FlowShape(g.session)
  /\ g.mode = f.mode /\ g.policy = f.policy
  /\ g.pending_messages = f.pending_messages + m /\ g.pending_bytes = f.pending_bytes + b
  /\ OutboundMoves(f, g, m, b) \/ QueueMoves(f, g, m, b) \/ BufferMoves(f, g, m, b)
  /\ m <= 0 \/ f.pending_messages + m <= f.policy.messages
  /\ b <= 0 \/ f.pending_bytes + b <= f.policy.bytes

\* Three numbers that add up still do when one of them and the sum grow alike.
SumsUp(p, a, b, c, limit) == p \in Nat /\ p = a + b + c /\ p <= limit

\* So they do, whichever of the three it is.
LEMMA SumsMove ==
  ASSUME NEW p, NEW a \in Nat, NEW b \in Nat, NEW c \in Nat, p = a + b + c,
         NEW limit \in Nat, p <= limit, NEW m \in Int, m <= 0 \/ p + m <= limit
  PROVE  /\ a + m \in Nat => SumsUp(p + m, a + m, b, c, limit)
         /\ b + m \in Nat => SumsUp(p + m, a, b + m, c, limit)
         /\ c + m \in Nat => SumsUp(p + m, a, b, c + m, limit)
BY DEF SumsUp

\* A flow that moves messages in or out of one of its stores, and charges itself for
\* it within its limits, stays right if it is in order.
LEMMA FlowBecomes ==
  ASSUME NEW k, NEW f, FlowInv(k, f), NEW m \in Int, NEW b \in Int, NEW g, Becomes(f, g, m, b),
         k.direction = "Inbound" => g.outbound = <<>>,
         k.direction = "Outbound" => g.queue = <<>> /\ g.by_index = EmptyMap,
         InOrder(g)
  PROVE  FlowInv(k, g)
<1>1. f \in FlowRecord(f.session) /\ IsSuited(k, f) /\ FlowCounts(f)
  BY FlowCountsHold DEF FlowInv
<1>2. /\ g.outbound \in Seq(Transfer) /\ g.queue \in Seq(Transfer) /\ g.by_index \in Buffer
      /\ g \in FlowShape(g.session) /\ g.mode = f.mode /\ g.policy = f.policy
  BY DEF Becomes, FlowShape
<1>3. /\ Len(g.outbound) \in Nat /\ Bytes(g.outbound) \in Nat
      /\ Len(g.queue) \in Nat /\ Bytes(g.queue) \in Nat
  BY <1>2, SizesType
<1>4. /\ Cardinality(DOMAIN g.by_index) \in Nat /\ Buffered(g.by_index) \in Nat
      /\ g.by_index \in [DOMAIN g.by_index -> Payloads]
  BY <1>2, BufferType
<1>5. SumsUp(g.pending_messages, Len(g.outbound), Len(g.queue),
             Cardinality(DOMAIN g.by_index), g.policy.messages)
  <2> DEFINE Up(p, a, b1, c) == SumsUp(p, a, b1, c, f.policy.messages)
             p == f.pending_messages
             a == Len(f.outbound)
             q == Len(f.queue)
             c == Cardinality(DOMAIN f.by_index)
  <2>1. /\ a + m \in Nat => Up(p + m, a + m, q, c)
        /\ q + m \in Nat => Up(p + m, a, q + m, c)
        /\ c + m \in Nat => Up(p + m, a, q, c + m)
    <3>1. /\ a \in Nat /\ q \in Nat /\ c \in Nat /\ p = a + q + c
          /\ f.policy.messages \in Nat /\ p <= f.policy.messages
          /\ m <= 0 \/ p + m <= f.policy.messages
      BY <1>1 DEF FlowCounts, Becomes
    <3> HIDE DEF p, a, q, c
    <3> QED BY <3>1, SumsMove
  <2> HIDE DEF Up
  <2>2. Up(g.pending_messages, Len(g.outbound), Len(g.queue), Cardinality(DOMAIN g.by_index))
    BY <1>3, <1>4, <2>1 DEF Becomes, OutboundMoves, QueueMoves, BufferMoves
  <2> QED BY <1>2, <2>2 DEF Up
<1>6. SumsUp(g.pending_bytes, Bytes(g.outbound), Bytes(g.queue),
             Buffered(g.by_index), g.policy.bytes)
  <2> DEFINE Up(p, a, b1, c) == SumsUp(p, a, b1, c, f.policy.bytes)
             p == f.pending_bytes
             a == Bytes(f.outbound)
             q == Bytes(f.queue)
             c == Buffered(f.by_index)
  <2>1. /\ a + b \in Nat => Up(p + b, a + b, q, c)
        /\ q + b \in Nat => Up(p + b, a, q + b, c)
        /\ c + b \in Nat => Up(p + b, a, q, c + b)
    <3>1. /\ a \in Nat /\ q \in Nat /\ c \in Nat /\ p = a + q + c
          /\ f.policy.bytes \in Nat /\ p <= f.policy.bytes
          /\ b <= 0 \/ p + b <= f.policy.bytes
      BY <1>1 DEF FlowCounts, Becomes
    <3> HIDE DEF p, a, q, c
    <3> QED BY <3>1, SumsMove
  <2> HIDE DEF Up
  <2>2. Up(g.pending_bytes, Bytes(g.outbound), Bytes(g.queue), Buffered(g.by_index))
    BY <1>3, <1>4, <2>1 DEF Becomes, OutboundMoves, QueueMoves, BufferMoves
  <2> QED BY <1>2, <2>2 DEF Up
<1>7. g.pending_messages \in Nat /\ g.pending_bytes \in Nat
  BY <1>5, <1>6 DEF SumsUp
<1>8. g \in FlowRecord(g.session)
  BY <1>2, <1>7 DEF FlowShape, FlowRecord
<1>9. FlowCounts(g)
  BY <1>1, <1>2, <1>3, <1>4, <1>5, <1>6 DEF SumsUp, FlowCounts
<1>10. IsSuited(k, g)
  BY <1>1, <1>2, <1>4, <1>8 DEF IsSuited, FlowRecord
<1> QED BY <1>8, <1>9, <1>10, FlowIsRight

\* The same as a difference.
LEMMA SplitLeaves ==
  ASSUME NEW q, Len(q) \in Nat, Bytes(q) \in Nat, NEW n \in Nat, NEW gone, NEW left,
         Splits(q, n, gone, left)
  PROVE  /\ left \in Seq(Transfer) /\ Bytes(gone) \in Nat
         /\ Len(left) = Len(q) + -n /\ Bytes(left) = Bytes(q) + -Bytes(gone)
<1> DEFINE l == Len(left)
           z == Len(q)
           x == Bytes(q)
           y == Bytes(gone)
           w == Bytes(left)
<1>1. /\ left \in Seq(Transfer) /\ l = z - n /\ x = y + w /\ y \in Nat /\ w \in Nat
      /\ z \in Nat /\ n \in Nat
  BY DEF Splits
<1> HIDE DEF l, z, x, y, w
<1>2. l = z + -n /\ w = x + -y
  BY ONLY <1>1
<1> QED BY <1>1, <1>2 DEF l, z, x, y, w

\* The oldest transfers of the outbound queue go.
LEMMA OutboundShrinks ==
  ASSUME NEW k, NEW f, FlowInv(k, f), NEW n \in 0 .. Len(f.outbound),
         NEW gone, gone = SubSeq(f.outbound, 1, n),
         NEW g, g = With([f EXCEPT !.outbound = SubSeq(@, n + 1, Len(@))], -n, -Bytes(gone))
  PROVE  FlowInv(k, g) /\ n \in Nat /\ Bytes(gone) \in Nat
<1> DEFINE out == f.outbound
           left == SubSeq(out, n + 1, Len(out))
<1>1. f \in FlowRecord(f.session) /\ IsSuited(k, f) /\ InOrder(f) /\ FlowCounts(f)
  BY FlowCountsHold DEF FlowInv
<1>2. /\ out \in Seq(Transfer) /\ Len(out) \in Nat /\ Bytes(out) \in Nat
      /\ n \in Nat /\ n \in 0 .. Len(out)
  <2>1. out \in Seq(Transfer) /\ Len(out) \in Nat /\ Bytes(out) \in Nat
    BY <1>1, ContentsAre
  <2> QED BY <2>1
<1>3. Splits(out, n, gone, left)
  BY <1>2, BytesSplit
<1> HIDE DEF left
<1>4. /\ left \in Seq(Transfer) /\ Bytes(gone) \in Nat
      /\ Len(left) = Len(out) + -n /\ Bytes(left) = Bytes(out) + -Bytes(gone)
  BY <1>2, <1>3, SplitLeaves
<1>5. g = [f EXCEPT !.outbound = left, !.pending_messages = @ + -n,
                    !.pending_bytes = @ + -Bytes(gone)]
  BY <1>1 DEF With, left, FlowRecord
<1>6. /\ g \in FlowShape(g.session) /\ g.outbound = left /\ g.queue = f.queue /\ g.by_index = f.by_index
      /\ g.mode = f.mode /\ g.policy = f.policy
      /\ g.next_accepted_index = f.next_accepted_index /\ g.next_exposure = f.next_exposure
      /\ g.pending_messages = f.pending_messages + -n
      /\ g.pending_bytes = f.pending_bytes + -Bytes(gone)
  <2>1. /\ f.pending_messages + -n \in Int /\ f.pending_bytes + -Bytes(gone) \in Int
        /\ left \in Seq(Transfer)
    BY <1>1, <1>2, <1>4 DEF FlowRecord
  <2> QED BY ONLY <1>1, <1>5, <2>1 DEF FlowRecord, FlowShape
<1>7. Becomes(f, g, -n, -Bytes(gone))
  BY <1>2, <1>4, <1>6 DEF Becomes, OutboundMoves
<1>8. k.direction = "Inbound" => left = <<>>
  <2>1. k.direction = "Inbound" => Len(left) = 0
    <3>1. k.direction = "Inbound" => out = <<>>
      BY <1>1 DEF IsSuited
    <3> QED BY <1>2, <1>3, <3>1 DEF Splits
  <2> QED BY <1>4, <2>1, EmptySeq
<1>9. InOrder(g)
  <2>1. Ascends(out, f.next_accepted_index, f.mode) /\ f.next_accepted_index \in Int
    BY <1>1, DeliveryAssumption DEF InOrder, FlowRecord
  <2>2. Ascends(left, f.next_accepted_index, f.mode)
    BY <1>2, <1>3, <2>1, AscendsLater
  <2> QED BY <1>1, <1>6, <2>2 DEF InOrder
<1>10. /\ k.direction = "Outbound" => f.queue = <<>> /\ f.by_index = EmptyMap
  BY <1>1 DEF IsSuited
<1>11. -n \in Int /\ -Bytes(gone) \in Int
  BY <1>2, <1>4
<1>12. FlowInv(k, g)
  BY <1>6, <1>7, <1>8, <1>9, <1>10, <1>11, FlowBecomes
<1> QED BY <1>2, <1>4, <1>12

\* So do those of the queue of an unreliable receiver.
LEMMA QueueShrinks ==
  ASSUME NEW k, NEW f, FlowInv(k, f), NEW n \in 0 .. Len(f.queue),
         NEW gone, gone = SubSeq(f.queue, 1, n),
         NEW g, g = With([f EXCEPT !.queue = SubSeq(@, n + 1, Len(@))], -n, -Bytes(gone))
  PROVE  FlowInv(k, g) /\ n \in Nat /\ Bytes(gone) \in Nat
<1> DEFINE q == f.queue
           left == SubSeq(q, n + 1, Len(q))
<1>1. f \in FlowRecord(f.session) /\ IsSuited(k, f) /\ InOrder(f) /\ FlowCounts(f)
  BY FlowCountsHold DEF FlowInv
<1>2. /\ q \in Seq(Transfer) /\ Len(q) \in Nat /\ Bytes(q) \in Nat
      /\ n \in Nat /\ n \in 0 .. Len(q)
  <2>1. q \in Seq(Transfer) /\ Len(q) \in Nat /\ Bytes(q) \in Nat
    BY <1>1, ContentsAre
  <2> QED BY <2>1
<1>3. Splits(q, n, gone, left)
  BY <1>2, BytesSplit
<1> HIDE DEF left
<1>4. /\ left \in Seq(Transfer) /\ Bytes(gone) \in Nat
      /\ Len(left) = Len(q) + -n /\ Bytes(left) = Bytes(q) + -Bytes(gone)
  BY <1>2, <1>3, SplitLeaves
<1>5. g = [f EXCEPT !.queue = left, !.pending_messages = @ + -n,
                    !.pending_bytes = @ + -Bytes(gone)]
  BY <1>1 DEF With, left, FlowRecord
<1>6. /\ g \in FlowShape(g.session) /\ g.queue = left /\ g.outbound = f.outbound
      /\ g.by_index = f.by_index /\ g.mode = f.mode /\ g.policy = f.policy
      /\ g.next_accepted_index = f.next_accepted_index /\ g.next_exposure = f.next_exposure
      /\ g.pending_messages = f.pending_messages + -n
      /\ g.pending_bytes = f.pending_bytes + -Bytes(gone)
  <2>1. /\ f.pending_messages + -n \in Int /\ f.pending_bytes + -Bytes(gone) \in Int
        /\ left \in Seq(Transfer)
    BY <1>1, <1>2, <1>4 DEF FlowRecord
  <2> QED BY ONLY <1>1, <1>5, <2>1 DEF FlowRecord, FlowShape
<1>7. Becomes(f, g, -n, -Bytes(gone))
  BY <1>2, <1>4, <1>6 DEF Becomes, QueueMoves
<1>8. k.direction = "Outbound" => left = <<>> /\ f.by_index = EmptyMap
  <2>1. k.direction = "Outbound" => Len(left) = 0
    <3>1. k.direction = "Outbound" => q = <<>>
      BY <1>1 DEF IsSuited
    <3> QED BY <1>2, <1>3, <3>1 DEF Splits
  <2>2. k.direction = "Outbound" => f.by_index = EmptyMap
    BY <1>1 DEF IsSuited
  <2> QED BY <1>4, <2>1, <2>2, EmptySeq
<1>9. InOrder(g)
  BY <1>1, <1>6 DEF InOrder
<1>10. k.direction = "Inbound" => f.outbound = <<>>
  BY <1>1 DEF IsSuited
<1>11. -n \in Int /\ -Bytes(gone) \in Int
  BY <1>2, <1>4
<1>12. FlowInv(k, g)
  BY <1>6, <1>7, <1>8, <1>9, <1>10, <1>11, FlowBecomes
<1> QED BY <1>2, <1>4, <1>12

\* A queue stays ascending when the transfer to accept next is put at its end.
LEMMA AscendsFurther ==
  ASSUME NEW q \in Seq(Transfer), NEW next \in Int, NEW mode, Ascends(q, next, mode),
         NEW t \in Transfer, t.index = next, NEW more, more = Append(q, t)
  PROVE  Ascends(more, next + 1, mode)
<1> DEFINE n == Len(q) + 1
<1>1. /\ DOMAIN q = 1 .. Len(q) /\ Len(q) \in Nat /\ more \in Seq(Transfer) /\ Len(more) = n
      /\ more[n] = t /\ \A i \in 1 .. Len(q) : more[i] = q[i]
  BY AppendProperties
<1>2. DOMAIN more = DOMAIN q \cup {n} /\ \A i \in DOMAIN q : more[i] = q[i] /\ i < n /\ i \in Nat
  BY <1>1
<1>3. /\ \A i, j \in DOMAIN q : i < j => q[i].index < q[j].index
      /\ \A i \in DOMAIN q : q[i].index < next /\ q[i].index \in Int
      /\ mode = Reliable => \A i \in DOMAIN q : q[i].index = next - Len(q) + i - 1
  <2>1. \A i \in DOMAIN q : q[i] \in Transfer
    BY <1>1
  <2>2. \A i \in DOMAIN q : q[i].index \in Int
    BY <2>1, DeliveryAssumption DEF Transfer, Index
  <2> QED BY <2>2 DEF Ascends
<1>4. \A i, j \in DOMAIN more : i < j => more[i].index < more[j].index
  <2>1. ASSUME NEW i \in DOMAIN more, NEW j \in DOMAIN more, i < j
        PROVE  more[i].index < more[j].index
    <3>1. i \in DOMAIN q
      BY <1>1, <1>2, <2>1
    <3>2. CASE j = n
      BY <1>1, <1>2, <1>3, <3>1, <3>2
    <3>3. CASE j \in DOMAIN q
      BY <1>2, <1>3, <2>1, <3>1, <3>3
    <3> QED BY <1>2, <3>2, <3>3
  <2> QED BY <2>1
<1>5. \A i \in DOMAIN more : more[i].index < next + 1
  <2>1. \A i \in DOMAIN q : q[i].index < next + 1
    BY <1>3
  <2>2. t.index < next + 1
    OBVIOUS
  <2> HIDE DEF n
  <2> QED BY <1>1, <1>2, <2>1, <2>2
<1>6. ASSUME mode = Reliable, NEW i \in DOMAIN more
      PROVE  more[i].index = next + 1 - Len(more) + i - 1
  <2>1. CASE i = n
    BY <1>1, <2>1
  <2>2. CASE i \in DOMAIN q
    <3>1. more[i].index = next - Len(q) + i - 1
      BY <1>2, <1>3, <1>6, <2>2
    <3>2. i \in Nat /\ Len(q) \in Nat /\ Len(more) = Len(q) + 1
      BY <1>1, <1>2, <2>2
    <3> QED BY ONLY <3>1, <3>2, next \in Int
  <2> QED BY <1>2, <1>6, <2>1, <2>2
<1> QED BY <1>4, <1>5, <1>6 DEF Ascends

\* A message is accepted within the limits of the flow.
LEMMA OutboundGrows ==
  ASSUME NEW k, k.direction = "Outbound", NEW f, FlowInv(k, f), NEW p \in Payloads,
         f.next_accepted_index \in Index,
         f.pending_messages + 1 <= f.policy.messages,
         f.pending_bytes + PayloadBytes[p] <= f.policy.bytes,
         NEW t, t = [index |-> f.next_accepted_index, payload |-> p],
         NEW g, g = With([f EXCEPT !.next_accepted_index = @ + 1, !.outbound = Append(@, t)],
                         1, PayloadBytes[p])
  PROVE  FlowInv(k, g)
<1> DEFINE out == f.outbound
           more == Append(out, t)
           b == PayloadBytes[p]
<1>1. f \in FlowRecord(f.session) /\ IsSuited(k, f) /\ InOrder(f)
  BY DEF FlowInv
<1>2. out \in Seq(Transfer) /\ Len(out) \in Nat /\ Bytes(out) \in Nat
  BY <1>1, ContentsAre
<1>3. t \in Transfer /\ b \in Nat /\ t.payload = p /\ t.index = f.next_accepted_index
  BY DeliveryAssumption DEF Transfer
<1>4. more \in Seq(Transfer) /\ Len(more) = Len(out) + 1 /\ Bytes(more) = Bytes(out) + b
  <2> HIDE DEF out
  <2>1. more \in Seq(Transfer) /\ Len(more) = Len(out) + 1
    BY <1>2, <1>3, AppendProperties
  <2> QED BY <1>2, <1>3, <2>1, BytesAppend
<1> HIDE DEF more, b
<1>5. g = [f EXCEPT !.next_accepted_index = @ + 1, !.outbound = more,
                    !.pending_messages = @ + 1, !.pending_bytes = @ + b]
  BY <1>1 DEF With, more, b, FlowRecord
<1>6. /\ g \in FlowShape(g.session) /\ g.outbound = more /\ g.queue = f.queue
      /\ g.by_index = f.by_index /\ g.mode = f.mode /\ g.policy = f.policy
      /\ g.next_accepted_index = f.next_accepted_index + 1
      /\ g.next_exposure = f.next_exposure
      /\ g.pending_messages = f.pending_messages + 1 /\ g.pending_bytes = f.pending_bytes + b
  <2>1. /\ f.pending_messages + 1 \in Int /\ f.pending_bytes + b \in Int
        /\ f.next_accepted_index + 1 \in 0 .. MaxIndex + 1
    BY <1>1, <1>3, DeliveryAssumption DEF FlowRecord, Index
  <2> QED BY ONLY <1>1, <1>4, <1>5, <2>1 DEF FlowRecord, FlowShape
<1>7. Becomes(f, g, 1, b)
  BY <1>4, <1>6 DEF Becomes, OutboundMoves, b
<1>8. InOrder(g)
  <2>1. Ascends(out, f.next_accepted_index, f.mode) /\ f.next_accepted_index \in Int
    BY <1>1, DeliveryAssumption DEF InOrder, FlowRecord
  <2> HIDE DEF out
  <2>2. Ascends(more, f.next_accepted_index + 1, f.mode)
    BY <1>2, <1>3, <2>1, AscendsFurther DEF more
  <2> QED BY <1>1, <1>6, <2>2 DEF InOrder
<1>9. f.queue = <<>> /\ f.by_index = EmptyMap
  BY <1>1 DEF IsSuited
<1>10. /\ 1 \in Int /\ b \in Int
       /\ k.direction = "Inbound" => g.outbound = <<>>
       /\ k.direction = "Outbound" => g.queue = <<>> /\ g.by_index = EmptyMap
  BY <1>3, <1>6, <1>9
<1> QED BY <1>7, <1>8, <1>10, FlowBecomes

\* An unreliable message is queued within the limits of the flow.
LEMMA QueueGrows ==
  ASSUME NEW k, k.direction = "Inbound", NEW f, FlowInv(k, f), NEW t \in Transfer,
         f.pending_messages + 1 <= f.policy.messages,
         f.pending_bytes + PayloadBytes[t.payload] <= f.policy.bytes,
         NEW g, g = With([f EXCEPT !.queue = Append(@, t)], 1, PayloadBytes[t.payload])
  PROVE  FlowInv(k, g)
<1> DEFINE q == f.queue
           more == Append(q, t)
           b == PayloadBytes[t.payload]
<1>1. f \in FlowRecord(f.session) /\ IsSuited(k, f) /\ InOrder(f)
  BY DEF FlowInv
<1>2. q \in Seq(Transfer) /\ Len(q) \in Nat /\ Bytes(q) \in Nat
  BY <1>1, ContentsAre
<1>3. b \in Nat
  BY DeliveryAssumption DEF Transfer
<1>4. more \in Seq(Transfer) /\ Len(more) = Len(q) + 1 /\ Bytes(more) = Bytes(q) + b
  <2> HIDE DEF q
  <2>1. more \in Seq(Transfer) /\ Len(more) = Len(q) + 1
    BY <1>2, AppendProperties
  <2> QED BY <1>2, <2>1, BytesAppend
<1> HIDE DEF more, b
<1>5. g = [f EXCEPT !.queue = more, !.pending_messages = @ + 1, !.pending_bytes = @ + b]
  BY <1>1 DEF With, more, b, FlowRecord
<1>6. /\ g \in FlowShape(g.session) /\ g.outbound = f.outbound /\ g.queue = more
      /\ g.by_index = f.by_index /\ g.mode = f.mode /\ g.policy = f.policy
      /\ g.next_accepted_index = f.next_accepted_index
      /\ g.next_exposure = f.next_exposure
      /\ g.pending_messages = f.pending_messages + 1 /\ g.pending_bytes = f.pending_bytes + b
  <2>1. f.pending_messages + 1 \in Int /\ f.pending_bytes + b \in Int
    BY <1>1, <1>3 DEF FlowRecord
  <2> QED BY ONLY <1>1, <1>4, <1>5, <2>1 DEF FlowRecord, FlowShape
<1>7. Becomes(f, g, 1, b)
  BY <1>4, <1>6 DEF Becomes, QueueMoves, b
<1>8. InOrder(g)
  BY <1>1, <1>6 DEF InOrder
<1>9. f.outbound = <<>>
  BY <1>1 DEF IsSuited
<1>10. /\ 1 \in Int /\ b \in Int
       /\ k.direction = "Inbound" => g.outbound = <<>>
       /\ k.direction = "Outbound" => g.queue = <<>> /\ g.by_index = EmptyMap
  BY <1>3, <1>6, <1>9
<1> QED BY <1>7, <1>8, <1>10, FlowBecomes

\* A reliable message that was not exposed yet is buffered within the limits of the flow.
LEMMA BufferGrows ==
  ASSUME NEW k, k.direction = "Inbound", NEW f, FlowInv(k, f), NEW t \in Transfer,
         f.pending_messages + 1 <= f.policy.messages,
         f.pending_bytes + PayloadBytes[t.payload] <= f.policy.bytes,
         t.index \notin DOMAIN f.by_index, f.next_exposure <= t.index,
         NEW g, g = With([f EXCEPT !.by_index = Put(@, t.index, t.payload)],
                         1, PayloadBytes[t.payload])
  PROVE  FlowInv(k, g)
<1> DEFINE m == f.by_index
           more == Put(m, t.index, t.payload)
           b == PayloadBytes[t.payload]
<1>1. f \in FlowRecord(f.session) /\ IsSuited(k, f) /\ InOrder(f)
  BY DEF FlowInv
<1>2. m \in Buffer /\ t.index \in Index /\ t.payload \in Payloads
  BY <1>1, ContentsAre DEF Transfer
<1>3. b \in Nat
  BY DeliveryAssumption DEF Transfer
<1>4. /\ more \in Buffer /\ DOMAIN more = DOMAIN m \cup {t.index}
      /\ Cardinality(DOMAIN more) = Cardinality(DOMAIN m) + 1
      /\ Buffered(more) = Buffered(m) + b
  BY <1>2, BufferPut
<1> HIDE DEF more, b
<1>5. g = [f EXCEPT !.by_index = more, !.pending_messages = @ + 1, !.pending_bytes = @ + b]
  BY <1>1 DEF With, more, b, FlowRecord
<1>6. /\ g \in FlowShape(g.session) /\ g.outbound = f.outbound /\ g.queue = f.queue
      /\ g.by_index = more /\ g.mode = f.mode /\ g.policy = f.policy
      /\ g.next_accepted_index = f.next_accepted_index
      /\ g.next_exposure = f.next_exposure
      /\ g.pending_messages = f.pending_messages + 1 /\ g.pending_bytes = f.pending_bytes + b
  <2>1. f.pending_messages + 1 \in Int /\ f.pending_bytes + b \in Int
    BY <1>1, <1>3 DEF FlowRecord
  <2> QED BY ONLY <1>1, <1>4, <1>5, <2>1 DEF FlowRecord, FlowShape
<1>7. Becomes(f, g, 1, b)
  BY <1>4, <1>6 DEF Becomes, BufferMoves, b
<1>8. InOrder(g)
  BY <1>1, <1>4, <1>6 DEF InOrder
<1>9. f.outbound = <<>>
  BY <1>1 DEF IsSuited
<1>10. /\ 1 \in Int /\ b \in Int
       /\ k.direction = "Inbound" => g.outbound = <<>>
       /\ k.direction = "Outbound" => g.queue = <<>> /\ g.by_index = EmptyMap
  BY <1>3, <1>6, <1>9
<1> QED BY <1>7, <1>8, <1>10, FlowBecomes

\* The next message of a reliable flow is exposed, and the one after it is next.
LEMMA BufferShrinks ==
  ASSUME NEW k, k.direction = "Inbound", NEW f, FlowInv(k, f),
         f.next_exposure \in DOMAIN f.by_index,
         NEW i, i = f.next_exposure, NEW b, b = PayloadBytes[f.by_index[i]],
         NEW g, g = With([f EXCEPT !.by_index = Drop(@, {i}), !.next_exposure = i + 1], -1, -b)
  PROVE  FlowInv(k, g) /\ b \in Nat
<1> DEFINE m == f.by_index
           less == Drop(m, {i})
<1>1. f \in FlowRecord(f.session) /\ IsSuited(k, f) /\ InOrder(f)
  BY DEF FlowInv
<1>2. m \in Buffer /\ i \in DOMAIN m /\ Buffered(m) \in Nat /\ Cardinality(DOMAIN m) \in Nat
  BY <1>1, ContentsAre
<1>3. /\ less \in Buffer /\ DOMAIN less = DOMAIN m \ {i}
      /\ Cardinality(DOMAIN m) = Cardinality(DOMAIN less) + 1
      /\ Buffered(m) = Buffered(less) + b
      /\ i \in Index /\ b \in Nat
  BY <1>2, BufferDrop, DeliveryAssumption
<1> HIDE DEF less
<1>4. Cardinality(DOMAIN less) \in Nat /\ Buffered(less) \in Nat
  BY <1>3, BufferType
<1>5. g = [f EXCEPT !.by_index = less, !.next_exposure = i + 1,
                    !.pending_messages = @ + -1, !.pending_bytes = @ + -b]
  BY <1>1 DEF With, less, FlowRecord
<1>6. /\ g \in FlowShape(g.session) /\ g.outbound = f.outbound /\ g.queue = f.queue
      /\ g.by_index = less /\ g.mode = f.mode /\ g.policy = f.policy
      /\ g.next_accepted_index = f.next_accepted_index
      /\ g.next_exposure = i + 1
      /\ g.pending_messages = f.pending_messages + -1 /\ g.pending_bytes = f.pending_bytes + -b
  <2>1. f.pending_messages + -1 \in Int /\ f.pending_bytes + -b \in Int
    <3>1. f.pending_messages \in Int /\ f.pending_bytes \in Int
      BY <1>1 DEF FlowRecord
    <3> QED BY ONLY <1>3, <3>1
  <2>2. i + 1 \in 0 .. MaxIndex + 1
    BY <1>3, DeliveryAssumption DEF Index
  <2> QED BY ONLY <1>1, <1>3, <1>5, <2>1, <2>2 DEF FlowRecord, FlowShape
<1>7. Becomes(f, g, -1, -b)
  <2>1. /\ Cardinality(DOMAIN less) = Cardinality(DOMAIN m) + -1
        /\ Buffered(less) = Buffered(m) + -b
    <3> DEFINE x == Buffered(less)
               y == Buffered(m)
               z == Cardinality(DOMAIN less)
               w == Cardinality(DOMAIN m)
    <3>1. x \in Nat /\ y \in Nat /\ z \in Nat /\ w \in Nat /\ w = z + 1 /\ y = x + b /\ b \in Nat
      BY <1>2, <1>3, <1>4
    <3> HIDE DEF x, y, z, w
    <3>2. z = w + -1 /\ x = y + -b
      BY ONLY <3>1
    <3> QED BY <3>2 DEF x, y, z, w
  <2>2. -1 <= 0 /\ -b <= 0
    BY ONLY <1>3
  <2> QED BY <1>6, <2>1, <2>2 DEF Becomes, BufferMoves
<1>8. InOrder(g)
  <2>1. \A j \in DOMAIN m : i <= j /\ j \in Int
    BY <1>1, <1>2, BufferType, DeliveryAssumption DEF InOrder, Index
  <2>2. \A j \in DOMAIN less : i + 1 <= j
    BY <1>3, <2>1, DeliveryAssumption DEF Index
  <2> QED BY <1>1, <1>6, <2>2 DEF InOrder
<1>9. f.outbound = <<>>
  BY <1>1 DEF IsSuited
<1>10. -b \in Int /\ -1 \in Int
  BY <1>3
<1> QED BY <1>3, <1>6, <1>7, <1>8, <1>9, <1>10, FlowBecomes

\* The index exposed last is no part of the books or of the order.
LEMMA FlowExposes ==
  ASSUME NEW k, NEW f, FlowInv(k, f), NEW v \in Index \cup {NoIndex},
         NEW g, g = [f EXCEPT !.last_exposed_sequence = v]
  PROVE  /\ FlowInv(k, g) /\ g.session = f.session
         /\ g.pending_messages = f.pending_messages /\ g.pending_bytes = f.pending_bytes
<1>1. f \in FlowRecord(f.session) /\ IsSuited(k, f) /\ InOrder(f)
  BY DEF FlowInv
<1>2. /\ g \in FlowRecord(g.session) /\ g.outbound = f.outbound /\ g.queue = f.queue
      /\ g.by_index = f.by_index /\ g.mode = f.mode /\ g.policy = f.policy
      /\ g.next_accepted_index = f.next_accepted_index /\ g.next_exposure = f.next_exposure
      /\ g.session = f.session /\ g.last_exposed_sequence = v
      /\ g.pending_messages = f.pending_messages /\ g.pending_bytes = f.pending_bytes
  BY <1>1 DEF FlowRecord
<1>3. IsSuited(k, g)
  BY <1>1, <1>2 DEF IsSuited
<1>4. InOrder(g)
  BY <1>1, <1>2 DEF InOrder
<1>5. FlowCounts(g)
  BY <1>2, FlowCountsHold DEF FlowCounts
<1> QED BY <1>2, <1>3, <1>4, <1>5, FlowIsRight

\* Neither is the session.
LEMMA FlowJoins ==
  ASSUME NEW k, NEW f, FlowInv(k, f), NEW s, s # NoSession, NEW g, g = [f EXCEPT !.session = s]
  PROVE  /\ FlowInv(k, g) /\ g.session = s
         /\ g.pending_messages = f.pending_messages /\ g.pending_bytes = f.pending_bytes
<1>1. f \in FlowRecord(f.session) /\ IsSuited(k, f) /\ InOrder(f)
  BY DEF FlowInv
<1>2. /\ g \in FlowRecord(g.session) /\ g.outbound = f.outbound /\ g.queue = f.queue
      /\ g.by_index = f.by_index /\ g.mode = f.mode /\ g.policy = f.policy
      /\ g.next_accepted_index = f.next_accepted_index /\ g.next_exposure = f.next_exposure
      /\ g.session = s /\ g.last_exposed_sequence = f.last_exposed_sequence
      /\ g.pending_messages = f.pending_messages /\ g.pending_bytes = f.pending_bytes
  BY <1>1 DEF FlowRecord
<1>3. IsSuited(k, g)
  BY <1>1, <1>2 DEF IsSuited
<1>4. InOrder(g)
  BY <1>1, <1>2 DEF InOrder
<1>5. FlowCounts(g)
  BY <1>2, FlowCountsHold DEF FlowCounts
<1> QED BY <1>2, <1>3, <1>4, <1>5, FlowIsRight

\* A new flow is empty.
LEMMA NewFlowIsRight ==
  ASSUME NEW k, NEW mode \in Mode, NEW policy \in Policy, ValidPolicy(policy, mode)
  PROVE  /\ FlowInv(k, NewFlow(mode, policy))
         /\ NewFlow(mode, policy).session = NoSession
         /\ NewFlow(mode, policy).pending_messages = 0
         /\ NewFlow(mode, policy).pending_bytes = 0
<1> DEFINE f == NewFlow(mode, policy)
<1>1. /\ EmptyMap \in Buffer /\ DOMAIN EmptyMap = {} /\ Buffered(EmptyMap) = 0
      /\ EmptyMap \in [DOMAIN EmptyMap -> Payloads]
  BY NoBuffer, EmptyMapIsEmpty
<1>2. /\ f.mode = mode /\ f.policy = policy /\ f.session = NoSession
      /\ f.next_accepted_index = 0 /\ f.next_exposure = 0
      /\ f.last_exposed_sequence = NoIndex /\ f.outbound = <<>> /\ f.queue = <<>>
      /\ f.by_index = EmptyMap /\ f.pending_messages = 0 /\ f.pending_bytes = 0
  BY DEF NewFlow
<1>3. 0 \in 0 .. MaxIndex + 1 /\ <<>> \in Seq(Transfer)
  BY DeliveryAssumption
<1>4. f \in FlowRecord(f.session)
  BY <1>1, <1>3 DEF NewFlow, FlowRecord
<1> HIDE DEF f
<1>5. IsSuited(k, f)
  BY <1>1, <1>2, <1>3 DEF IsSuited
<1>6. Len(<<>>) = 0 /\ DOMAIN <<>> = {} /\ Bytes(<<>>) = 0 /\ Cardinality({}) = 0
  BY NoBytes, FS_EmptySet
<1>7. InOrder(f)
  BY <1>1, <1>2, <1>6 DEF InOrder, Ascends
<1>8. f.policy.messages \in Nat /\ f.policy.bytes \in Nat
  BY <1>4, PolicyType
<1>9. FlowCounts(f)
  BY <1>1, <1>2, <1>6, <1>8 DEF FlowCounts
<1>10. FlowInv(k, f)
  BY <1>4, <1>5, <1>7, <1>9, FlowIsRight
<1> QED BY <1>2, <1>10 DEF f

-----------------------------------------------------------------------------
(* The operations on an endpoint                                           *)

\* The counters of drops stay counters.
LEMMA CountedType ==
  ASSUME NEW count \in 0 .. MaxCount, NEW drops \in Nat
  PROVE  Counted(count, drops) \in 0 .. MaxCount
<1>1. count \in Nat /\ MaxCount \in Nat /\ count + drops \in Nat
  BY DeliveryAssumption
<1> DEFINE S == {count + drops, MaxCount}
<1>2. \E x \in S : \A y \in S : x <= y
  BY <1>1
<1>3. Min(S) \in S /\ \A y \in S : Min(S) <= y
  BY <1>2 DEF Min
<1>4. Min(S) \in Nat /\ Min(S) <= MaxCount
  BY <1>1, <1>3
<1> QED BY <1>4 DEF Counted

\* mid is ep with f, of the same session and counters, in the place of its flow k,
\* and o and i drops counted.
IsRewrite(ep, mid, k, f, o, i) ==
  /\ EndpointInv(ep) /\ k \in DOMAIN ep.flows
  /\ f.session = ep.flows[k].session
  /\ f.pending_messages = ep.flows[k].pending_messages
  /\ f.pending_bytes = ep.flows[k].pending_bytes
  /\ o \in 0 .. MaxCount /\ i \in 0 .. MaxCount
  /\ mid = [ep EXCEPT !.flows = [ep.flows EXCEPT ![k] = f],
                      !.outbound_drops = o, !.inbound_drops = i]

\* So ep is rewritten.
LEMMA RewritesIs ==
  ASSUME NEW ep, NEW mid, NEW k, NEW f, NEW o, NEW i, IsRewrite(ep, mid, k, f, o, i)
  PROVE  Rewrites(ep, mid, k, f) /\ mid.outbound_drops = o /\ mid.inbound_drops = i
<1> DEFINE fs == [ep.flows EXCEPT ![k] = f]
<1>1. ep = [aggregate |-> ep.aggregate, connections |-> ep.connections,
            sessions |-> ep.sessions, flows |-> ep.flows,
            outbound_drops |-> ep.outbound_drops, inbound_drops |-> ep.inbound_drops]
  BY DEF EndpointInv, IsEndpoint, IsRewrite
<1> HIDE DEF fs
<1>2. mid = [aggregate |-> ep.aggregate, connections |-> ep.connections,
             sessions |-> ep.sessions, flows |-> fs,
             outbound_drops |-> o, inbound_drops |-> i]
  BY <1>1 DEF fs, IsRewrite
<1>3. IsEndpoint(mid)
  BY <1>2 DEF IsEndpoint, IsRewrite
<1> QED BY <1>2, <1>3 DEF fs, Rewrites, IsRewrite

\* A change of a flow that moves no message keeps the books.
LEMMA RewriteKeeps ==
  ASSUME NEW ep, EndpointInv(ep), NEW k \in DOMAIN ep.flows, NEW f, FlowInv(k, f),
         NEW mid, Rewrites(ep, mid, k, f)
  PROVE  EndpointInv(mid)
<1> DEFINE flows == ep.flows
           after == [flows EXCEPT ![k] = f]
<1>1. /\ IsMap(flows) /\ IsFiniteSet(DOMAIN flows)
      /\ \A j \in DOMAIN flows : FlowInv(j, flows[j])
  BY DEF EndpointInv, FlowsInv
<1>2. /\ Covers(ep.aggregate, flows, DOMAIN flows)
      /\ Balanced(ep.connections, flows, ConnectionOf(flows), {})
      /\ Balanced(ep.sessions, flows, SessionOf(flows), {NoSession})
  BY DEF EndpointInv, ScopesInv
<1>3. /\ IsEndpoint(mid) /\ mid.flows = after /\ mid.aggregate = ep.aggregate
      /\ mid.connections = ep.connections /\ mid.sessions = ep.sessions
      /\ f.session = flows[k].session
      /\ f.pending_messages = flows[k].pending_messages
      /\ f.pending_bytes = flows[k].pending_bytes
  BY DEF Rewrites
<1>4. /\ IsMap(after) /\ DOMAIN after = DOMAIN flows /\ after[k] = f
      /\ \A j \in DOMAIN flows \ {k} : after[j] = flows[j]
  BY <1>1 DEF IsMap
<1> HIDE DEF after, flows
<1>5. FlowsInv(after)
  <2>1. \A j \in DOMAIN after : FlowInv(j, after[j])
    BY <1>1, <1>4
  <2> QED BY <1>1, <1>4, <2>1 DEF FlowsInv
<1>6. \A j \in DOMAIN flows : SameCounters(flows, after, j) /\ after[j].session = flows[j].session
  BY <1>3, <1>4 DEF SameCounters
<1>7. /\ DOMAIN ConnectionOf(flows) = DOMAIN flows /\ DOMAIN SessionOf(flows) = DOMAIN flows
      /\ ConnectionOf(after) = ConnectionOf(flows) /\ SessionOf(after) = SessionOf(flows)
  BY <1>4, <1>6 DEF ConnectionOf, SessionOf
<1>8. Covers(mid.aggregate, after, DOMAIN after)
  <2>1. Charges(after, DOMAIN flows) = Charges(flows, DOMAIN flows)
    BY <1>1, <1>4, <1>6, ChargesReadTheirFlows DEF SameCounters
  <2> QED BY <1>2, <1>3, <1>4, <2>1 DEF Covers
<1>9. Balanced(mid.connections, after, ConnectionOf(after), {})
  <2> DEFINE owner == ConnectionOf(flows)
  <2>1. /\ DOMAIN owner = DOMAIN flows /\ DOMAIN owner = DOMAIN after
        /\ Balanced(mid.connections, flows, owner, {})
        /\ \A s : s \notin {} => Members(owner, s) = Members(owner, s)
        /\ \A j \in DOMAIN owner : owner[j] \notin {} => SameCounters(flows, after, j)
    BY <1>2, <1>3, <1>4, <1>6, <1>7
  <2> HIDE DEF owner
  <2>2. Balanced(mid.connections, after, owner, {})
    BY ONLY <1>1, <2>1, BalancedStays
  <2> QED BY <1>7, <2>2 DEF owner
<1>10. Balanced(mid.sessions, after, SessionOf(after), {NoSession})
  <2> DEFINE owner == SessionOf(flows)
  <2>1. /\ DOMAIN owner = DOMAIN flows /\ DOMAIN owner = DOMAIN after
        /\ Balanced(mid.sessions, flows, owner, {NoSession})
        /\ \A s : s \notin {NoSession} => Members(owner, s) = Members(owner, s)
        /\ \A j \in DOMAIN owner : owner[j] \notin {NoSession} => SameCounters(flows, after, j)
    BY <1>2, <1>3, <1>4, <1>6, <1>7
  <2> HIDE DEF owner
  <2>2. Balanced(mid.sessions, after, owner, {NoSession})
    BY ONLY <1>1, <2>1, BalancedStays
  <2> QED BY <1>7, <2>2 DEF owner
<1> QED BY <1>3, <1>5, <1>8, <1>9, <1>10 DEF EndpointInv, ScopesInv

\* The least of some numbers up to n.
LEMMA MinOfRange ==
  ASSUME NEW n \in Nat, NEW S, S \subseteq 0 .. n, S # {}
  PROVE  Min(S) \in S /\ \A y \in S : Min(S) <= y
<1> DEFINE Bad == {T \in SUBSET (0 .. n) : \E x \in S : T = 0 .. x}
<1>1. \A x \in S : x \in Nat /\ x <= n
  OBVIOUS
<1>2. \E T \in Bad : \A U \in Bad : U \subseteq T => U = T
  <2>1. IsFiniteSet(0 .. n)
    <3>1. 0 \in Int /\ n \in Int
      OBVIOUS
    <3> QED BY <3>1, FS_Interval
  <2>2. Bad \subseteq SUBSET (0 .. n)
    OBVIOUS
  <2>3. Bad # {}
    <3>1. PICK x \in S : x \in Nat /\ x <= n
      BY <1>1
    <3>2. 0 .. x \in SUBSET (0 .. n)
      BY <3>1
    <3> QED BY <3>2
  <2> DEFINE I == 0 .. n
  <2>4. IsFiniteSet(I) /\ Bad \subseteq SUBSET I /\ Bad # {}
    BY <2>1, <2>2, <2>3
  <2> HIDE DEF Bad, I
  <2> QED BY ONLY <2>4, SmallestSet
<1>3. PICK m \in S : \A y \in S : 0 .. y \subseteq 0 .. m => 0 .. y = 0 .. m
  <2>1. \A y \in S : 0 .. y \in SUBSET (0 .. n)
    BY <1>1
  <2>2. \A y \in S : 0 .. y \in Bad
    BY <2>1
  <2>3. PICK T \in Bad : \A U \in Bad : U \subseteq T => U = T
    BY <1>2
  <2>4. PICK m \in S : T = 0 .. m
    BY <2>3
  <2> HIDE DEF Bad
  <2> QED BY <2>2, <2>3, <2>4
<1>4. ASSUME NEW y \in S
      PROVE  m <= y
  <2>1. m \in Nat /\ y \in Nat
    BY <1>1, <1>3, <1>4
  <2>2. CASE y < m
    <3>1. 0 .. y \subseteq 0 .. m
      BY <2>1, <2>2
    <3>2. m \in 0 .. y
      BY <1>3, <1>4, <2>1, <3>1
    <3> QED BY <2>1, <2>2, <3>2
  <2> QED BY <2>1, <2>2
<1>5. \E x \in S : \A y \in S : x <= y
  BY <1>3, <1>4
<1> QED BY <1>5 DEF Min

\* The flows of an endpoint that keeps its invariant.
LEMMA EndpointHas ==
  ASSUME NEW ep, EndpointInv(ep), NEW k \in DOMAIN ep.flows
  PROVE  /\ FlowInv(k, ep.flows[k]) /\ ep.flows[k] \in FlowRecord(ep.flows[k].session) /\ IsMap(ep.flows)
         /\ ep = [aggregate |-> ep.aggregate, connections |-> ep.connections,
                  sessions |-> ep.sessions, flows |-> ep.flows,
                  outbound_drops |-> ep.outbound_drops, inbound_drops |-> ep.inbound_drops]
         /\ ep.outbound_drops \in 0 .. MaxCount /\ ep.inbound_drops \in 0 .. MaxCount
         /\ Len(ep.flows[k].outbound) \in Nat /\ Len(ep.flows[k].queue) \in Nat
<1>1. FlowInv(k, ep.flows[k]) /\ ep.flows[k] \in FlowRecord(ep.flows[k].session)
  BY DEF EndpointInv, FlowsInv, FlowInv
<1> QED BY <1>1, ContentsAre DEF EndpointInv, FlowsInv, IsEndpoint

\* DropOutbound drops the oldest submissions of a flow.
LEMMA OutboundIsDropped ==
  ASSUME NEW ep, EndpointInv(ep), NEW k \in DOMAIN ep.flows,
         NEW n \in 0 .. Len(ep.flows[k].outbound),
         NEW f, f = ep.flows[k], NEW gone, gone = SubSeq(f.outbound, 1, n),
         NEW g, g = With([f EXCEPT !.outbound = SubSeq(@, n + 1, Len(@))], -n, -Bytes(gone))
  PROVE  Leaves(ep, ep, DropOutbound(ep, k, n), k, g)
<1> DEFINE f1 == [f EXCEPT !.outbound = SubSeq(@, n + 1, Len(@))]
           mid == [ep EXCEPT !.flows[k].outbound = SubSeq(@, n + 1, Len(@))]
           after == DropOutbound(ep, k, n)
           b == -Bytes(gone)
           m == -n
<1>1. /\ FlowInv(k, f) /\ f \in FlowRecord(f.session) /\ IsMap(ep.flows)
      /\ ep.outbound_drops \in 0 .. MaxCount /\ ep.inbound_drops \in 0 .. MaxCount
  BY EndpointHas
<1>2. FlowInv(k, g) /\ n \in Nat /\ Bytes(gone) \in Nat
  BY <1>1, OutboundShrinks
<1>3. f1 \in FlowRecord(f1.session)
  <2>1. f.outbound \in Seq(Transfer) /\ n \in 0 .. Len(f.outbound)
    BY <1>1, ContentsAre
  <2>2. SubSeq(f.outbound, n + 1, Len(f.outbound)) \in Seq(Transfer)
    BY <2>1, BytesSplit DEF Splits
  <2> QED BY <1>1, <2>2 DEF FlowRecord
<1>4. /\ f1.session = f.session /\ f1.pending_messages = f.pending_messages
      /\ f1.pending_bytes = f.pending_bytes
  BY <1>1 DEF FlowRecord
<1>5. mid = [ep EXCEPT !.flows = [ep.flows EXCEPT ![k] = f1],
                       !.outbound_drops = ep.outbound_drops,
                       !.inbound_drops = ep.inbound_drops]
  BY <1>1, EndpointHas DEF FlowRecord, IsMap
<1>6. after = Charge(mid, k, m, b)
  BY DEF DropOutbound
<1>7. g = With(f1, m, b)
  OBVIOUS
<1> HIDE DEF f1, mid, after, b, m
<1>8. Rewrites(ep, mid, k, f1) /\ mid.outbound_drops = ep.outbound_drops
      /\ mid.inbound_drops = ep.inbound_drops
  <2>1. IsRewrite(ep, mid, k, f1, ep.outbound_drops, ep.inbound_drops)
    BY <1>1, <1>4, <1>5 DEF IsRewrite
  <2> QED BY <2>1, RewritesIs
<1>9. m \in Int /\ b \in Int /\ m <= 0 /\ b <= 0
  BY ONLY <1>2 DEF m, b
<1>10. IsCharge(ep, mid, k, f1, g, m, b)
  BY <1>2, <1>3, <1>7, <1>8, <1>9 DEF IsCharge
<1>11. Leaves(ep, ep, after, k, g)
  <2>1. Leaves(ep, mid, Charge(mid, k, m, b), k, g)
    BY <1>10, ChargeKeeps
  <2> QED BY <1>6, <1>8, <2>1 DEF Leaves
<1> QED BY <1>11 DEF after

\* DropQueued drops the oldest transfers in the queue of a receiver.
LEMMA QueueIsDropped ==
  ASSUME NEW ep, EndpointInv(ep), NEW k \in DOMAIN ep.flows,
         NEW n \in 0 .. Len(ep.flows[k].queue),
         NEW f, f = ep.flows[k], NEW gone, gone = SubSeq(f.queue, 1, n),
         NEW g, g = With([f EXCEPT !.queue = SubSeq(@, n + 1, Len(@))], -n, -Bytes(gone))
  PROVE  Leaves(ep, ep, DropQueued(ep, k, n), k, g)
<1> DEFINE f1 == [f EXCEPT !.queue = SubSeq(@, n + 1, Len(@))]
           mid == [ep EXCEPT !.flows[k].queue = SubSeq(@, n + 1, Len(@))]
           after == DropQueued(ep, k, n)
           b == -Bytes(gone)
           m == -n
<1>1. /\ FlowInv(k, f) /\ f \in FlowRecord(f.session) /\ IsMap(ep.flows)
      /\ ep.outbound_drops \in 0 .. MaxCount /\ ep.inbound_drops \in 0 .. MaxCount
  BY EndpointHas
<1>2. FlowInv(k, g) /\ n \in Nat /\ Bytes(gone) \in Nat
  BY <1>1, QueueShrinks
<1>3. f1 \in FlowRecord(f1.session)
  <2>1. f.queue \in Seq(Transfer) /\ n \in 0 .. Len(f.queue)
    BY <1>1, ContentsAre
  <2>2. SubSeq(f.queue, n + 1, Len(f.queue)) \in Seq(Transfer)
    BY <2>1, BytesSplit DEF Splits
  <2> QED BY <1>1, <2>2 DEF FlowRecord
<1>4. /\ f1.session = f.session /\ f1.pending_messages = f.pending_messages
      /\ f1.pending_bytes = f.pending_bytes
  BY <1>1 DEF FlowRecord
<1>5. mid = [ep EXCEPT !.flows = [ep.flows EXCEPT ![k] = f1],
                       !.outbound_drops = ep.outbound_drops,
                       !.inbound_drops = ep.inbound_drops]
  BY <1>1, EndpointHas DEF FlowRecord, IsMap
<1>6. after = Charge(mid, k, m, b)
  BY DEF DropQueued
<1>7. g = With(f1, m, b)
  OBVIOUS
<1> HIDE DEF f1, mid, after, b, m
<1>8. Rewrites(ep, mid, k, f1) /\ mid.outbound_drops = ep.outbound_drops
      /\ mid.inbound_drops = ep.inbound_drops
  <2>1. IsRewrite(ep, mid, k, f1, ep.outbound_drops, ep.inbound_drops)
    BY <1>1, <1>4, <1>5 DEF IsRewrite
  <2> QED BY <2>1, RewritesIs
<1>9. m \in Int /\ b \in Int /\ m <= 0 /\ b <= 0
  BY ONLY <1>2 DEF m, b
<1>10. IsCharge(ep, mid, k, f1, g, m, b)
  BY <1>2, <1>3, <1>7, <1>8, <1>9 DEF IsCharge
<1>11. Leaves(ep, ep, after, k, g)
  <2>1. Leaves(ep, mid, Charge(mid, k, m, b), k, g)
    BY <1>10, ChargeKeeps
  <2> QED BY <1>6, <1>8, <2>1 DEF Leaves
<1> QED BY <1>11 DEF after

\* What CanAddPending checks of the flow and of its scopes.
LEMMA PendingFits ==
  ASSUME NEW ep, NEW k, NEW b, CanAddPending(ep, k, b)
  PROVE  /\ RoomFor(ep, k, 1, b)
         /\ ep.flows[k].pending_messages + 1 <= ep.flows[k].policy.messages
         /\ ep.flows[k].pending_bytes + b <= ep.flows[k].policy.bytes
BY DEF CanAddPending, RoomFor

\* What evicting some of the oldest submissions leaves for the one that needs the room.
RoomMade(ep, room, k) ==
  /\ EndpointInv(room) /\ k \in DOMAIN room.flows
  /\ room.flows[k].next_accepted_index = ep.flows[k].next_accepted_index
  /\ Len(ep.flows[k].outbound) - Len(room.flows[k].outbound) \in Nat
  /\ room.outbound_drops = ep.outbound_drops

\* Making room keeps the books and says by how much the queue has shrunk.
LEMMA RoomIsMade ==
  ASSUME NEW ep, EndpointInv(ep), NEW k \in DOMAIN ep.flows, NEW b
  PROVE  RoomMade(ep, MakeRoom(ep, k, b), k)
<1> DEFINE f == ep.flows[k]
           Fits(n) == CanAddPending(DropOutbound(ep, k, n), k, b)
           z == Len(f.outbound)
           S == {n \in 0 .. z : Fits(n)} \cup {z}
           e == Min(S)
<1>1. f \in FlowRecord(f.session) /\ z \in Nat /\ f.outbound \in Seq(Transfer)
  BY EndpointHas, ContentsAre
<1>2. CASE f.policy.outbound = "RejectNew"
  <2>1. z - z \in Nat
    BY <1>1
  <2> QED BY <1>2, <2>1 DEF MakeRoom, RoomMade
<1>3. CASE f.policy.outbound # "RejectNew"
  <2>1. MakeRoom(ep, k, b) = DropOutbound(ep, k, e)
    BY <1>3 DEF MakeRoom, Evictions
  <2>2. e \in 0 .. z
    <3>1. S \subseteq 0 .. z /\ S # {}
      BY <1>1
    <3> HIDE DEF S, z
    <3> QED BY <1>1, <3>1, MinOfRange
  <2> HIDE DEF e
  <2> DEFINE gone == SubSeq(f.outbound, 1, e)
             left == SubSeq(f.outbound, e + 1, Len(f.outbound))
             f1 == [f EXCEPT !.outbound = left]
             g == With(f1, -e, -Bytes(gone))
             room == DropOutbound(ep, k, e)
  <2>3. Leaves(ep, ep, room, k, g)
    BY <2>2, OutboundIsDropped
  <2>4. g.next_accepted_index = f.next_accepted_index /\ g.outbound = left
    BY <1>1 DEF With, FlowRecord
  <2>5. Len(left) = z - e /\ e \in Nat
    BY <1>1, <2>2, BytesSplit DEF Splits
  <2>6. z - Len(left) \in Nat
    <3> HIDE DEF left, z
    <3> QED BY <1>1, <2>5
  <2> HIDE DEF g, left, room
  <2>7. RoomMade(ep, room, k)
    BY <2>3, <2>4, <2>6 DEF Leaves, RoomMade
  <2> QED BY <2>1, <2>7 DEF room
<1> QED BY <1>2, <1>3

\* An accepted submission is charged to its flow and to every scope of the flow.
LEMMA SubmitKeeps ==
  ASSUME NEW ep, EndpointInv(ep), NEW k, NEW p \in Payloads, CanSubmit(ep, k, p)
  PROVE  EndpointInv(Submit(ep, k, p))
<1> DEFINE b == PayloadBytes[p]
           room == MakeRoom(ep, k, b)
           drops == Len(ep.flows[k].outbound) - Len(room.flows[k].outbound)
           t == [index |-> ep.flows[k].next_accepted_index, payload |-> p]
           f == room.flows[k]
           f1 == [f EXCEPT !.next_accepted_index = @ + 1, !.outbound = Append(@, t)]
           o == Counted(room.outbound_drops, drops)
           mid == [room EXCEPT !.flows[k].next_accepted_index = @ + 1,
                               !.flows[k].outbound = Append(@, t),
                               !.outbound_drops = Counted(@, drops)]
           g == With(f1, 1, b)
<1>1. /\ k \in DOMAIN ep.flows /\ k.direction = "Outbound"
      /\ ep.flows[k].next_accepted_index \in Index
  BY DEF CanSubmit
<1>2. RoomMade(ep, room, k)
  BY <1>1, RoomIsMade
<1>3. CASE ~Accepts(ep, k, p)
  BY <1>2, <1>3 DEF Submit, RoomMade
<1>4. CASE Accepts(ep, k, p)
  <2>1. Submit(ep, k, p) = Charge(mid, k, 1, b)
    BY <1>4 DEF Submit
  <2>2. CanAddPending(room, k, b)
    BY <1>4 DEF Accepts
  <2> HIDE DEF room
  <2>3. /\ EndpointInv(room) /\ k \in DOMAIN room.flows
        /\ f.next_accepted_index = ep.flows[k].next_accepted_index /\ drops \in Nat
    BY <1>2 DEF RoomMade
  <2>4. /\ FlowInv(k, f) /\ f \in FlowRecord(f.session) /\ IsMap(room.flows)
        /\ room.outbound_drops \in 0 .. MaxCount /\ room.inbound_drops \in 0 .. MaxCount
    BY <2>3, EndpointHas
  <2>5. b \in Nat /\ t \in Transfer
    BY <1>1, DeliveryAssumption DEF Transfer
  <2>6. /\ RoomFor(room, k, 1, b) /\ f.pending_messages + 1 <= f.policy.messages
        /\ f.pending_bytes + b <= f.policy.bytes
    BY <2>2, PendingFits
  <2>7. FlowInv(k, g)
    <3> HIDE DEF f
    <3> QED BY <1>1, <2>3, <2>4, <2>6, OutboundGrows
  <2>8. f1 \in FlowRecord(f1.session)
    <3>1. Append(f.outbound, t) \in Seq(Transfer)
      <4>1. f.outbound \in Seq(Transfer)
        BY <2>4, ContentsAre
      <4> HIDE DEF t
      <4> QED BY <2>5, <4>1, AppendProperties
    <3>2. f.next_accepted_index + 1 \in 0 .. MaxIndex + 1
      BY <1>1, <2>3, DeliveryAssumption DEF Index
    <3> HIDE DEF t, f
    <3> QED BY <2>4, <3>1, <3>2 DEF FlowRecord
  <2>9. /\ f1.session = f.session /\ f1.pending_messages = f.pending_messages
        /\ f1.pending_bytes = f.pending_bytes
    BY <2>4 DEF FlowRecord
  <2> HIDE DEF drops, t
  <2>10. o \in 0 .. MaxCount
    BY <2>3, <2>4, CountedType
  <2>11. mid = [room EXCEPT !.flows = [room.flows EXCEPT ![k] = f1],
                            !.outbound_drops = o, !.inbound_drops = room.inbound_drops]
    <3>1. room = [aggregate |-> room.aggregate, connections |-> room.connections,
                  sessions |-> room.sessions, flows |-> room.flows,
                  outbound_drops |-> room.outbound_drops,
                  inbound_drops |-> room.inbound_drops]
      BY <2>3, EndpointHas
    <3> DEFINE first == [room.flows EXCEPT ![k] = [f EXCEPT !.next_accepted_index = @ + 1]]
               then == [first EXCEPT ![k] = [first[k] EXCEPT !.outbound = Append(f.outbound, t)]]
    <3>2. then = [room.flows EXCEPT ![k] = f1]
      BY <2>3, <2>4 DEF FlowRecord, IsMap
    <3>3. mid = [[[room EXCEPT !.flows = first] EXCEPT !.flows = then]
                   EXCEPT !.outbound_drops = o]
      <4>1. [room EXCEPT !.flows = first].flows = first
        BY <3>1
      <4> QED BY <4>1, Zenon
    <3> HIDE DEF f1, first, then, mid, o
    <3> QED BY <3>1, <3>2, <3>3
  <2> HIDE DEF f1, mid, b
  <2>12. Rewrites(room, mid, k, f1)
    <3>1. IsRewrite(room, mid, k, f1, o, room.inbound_drops)
      BY <2>3, <2>4, <2>9, <2>10, <2>11 DEF IsRewrite
    <3> QED BY <3>1, RewritesIs
  <2>13. IsCharge(room, mid, k, f1, g, 1, b)
    BY <2>3, <2>5, <2>6, <2>7, <2>8, <2>12 DEF IsCharge
  <2>14. Leaves(room, mid, Charge(mid, k, 1, b), k, g)
    BY <2>13, ChargeKeeps
  <2> QED BY <2>1, <2>14 DEF Leaves
<1> QED BY <1>3, <1>4

\* The transfer the transport took is no longer charged.
LEMMA CommitKeeps ==
  ASSUME NEW ep, EndpointInv(ep), NEW k, CanCommitCustody(ep, k)
  PROVE  EndpointInv(CommitCustody(ep, k))
<1> DEFINE f == ep.flows[k]
           g == With([f EXCEPT !.outbound = SubSeq(@, 1 + 1, Len(@))],
                     -1, -Bytes(SubSeq(f.outbound, 1, 1)))
<1>1. k \in DOMAIN ep.flows /\ f.outbound # <<>>
  BY DEF CanCommitCustody
<1>2. 1 \in 0 .. Len(f.outbound)
  <2>1. f \in FlowRecord(f.session)
    BY <1>1, EndpointHas
  <2>2. f.outbound \in Seq(Transfer) /\ Len(f.outbound) \in Nat
    BY <2>1, ContentsAre
  <2>3. Len(f.outbound) # 0
    BY <1>1, <2>2, EmptySeq
  <2> QED BY <2>2, <2>3
<1>3. Leaves(ep, ep, DropOutbound(ep, k, 1), k, g)
  BY <1>1, <1>2, OutboundIsDropped
<1> QED BY <1>3 DEF Leaves, CommitCustody

\* A reliable transfer that has room is buffered once, and not after its exposure.
LEMMA BufferReliableKeeps ==
  ASSUME NEW ep, EndpointInv(ep), NEW k \in DOMAIN ep.flows, k.direction = "Inbound",
         NEW t \in Transfer, ~IsDuplicate(ep.flows[k], t),
         CanAddPending(ep, k, PayloadBytes[t.payload])
  PROVE  EndpointInv(BufferReliable(ep, k, t))
<1> DEFINE b == PayloadBytes[t.payload]
           f == ep.flows[k]
           f1 == [f EXCEPT !.by_index = Put(@, t.index, t.payload)]
           mid == [ep EXCEPT !.flows[k].by_index = Put(@, t.index, t.payload)]
           g == With(f1, 1, b)
<1>1. /\ FlowInv(k, f) /\ f \in FlowRecord(f.session) /\ IsMap(ep.flows)
      /\ ep.outbound_drops \in 0 .. MaxCount /\ ep.inbound_drops \in 0 .. MaxCount
  BY EndpointHas
<1>2. /\ RoomFor(ep, k, 1, b) /\ f.pending_messages + 1 <= f.policy.messages
      /\ f.pending_bytes + b <= f.policy.bytes
  BY PendingFits
<1>3. t.index \notin DOMAIN f.by_index /\ f.next_exposure <= t.index
  BY <1>1, DeliveryAssumption DEF IsDuplicate, FlowRecord, Transfer, Index
<1>4. f1 \in FlowRecord(f1.session) /\ b \in Int
  <2>1. f.by_index \in Buffer /\ t.index \in Index /\ t.payload \in Payloads
    BY <1>1, ContentsAre DEF Transfer
  <2>2. Put(f.by_index, t.index, t.payload) \in Buffer
    BY <1>3, <2>1, BufferPut
  <2>3. b \in Int
    BY <2>1, DeliveryAssumption
  <2>4. f1 \in FlowRecord(f1.session)
    <3> DEFINE x == Put(f.by_index, t.index, t.payload)
    <3>1. f \in FlowRecord(f.session) /\ x \in Buffer /\ f1 = [f EXCEPT !.by_index = x]
      BY <1>1, <2>2
    <3> HIDE DEF x, f, f1
    <3> QED BY ONLY <3>1 DEF FlowRecord
  <2> QED BY <2>3, <2>4
<1>5. /\ f1.session = f.session /\ f1.pending_messages = f.pending_messages
      /\ f1.pending_bytes = f.pending_bytes
  BY <1>1 DEF FlowRecord
<1>6. FlowInv(k, g)
  <2> HIDE DEF f
  <2> QED BY <1>1, <1>2, <1>3, BufferGrows
<1>7. mid = [ep EXCEPT !.flows = [ep.flows EXCEPT ![k] = f1],
                       !.outbound_drops = ep.outbound_drops,
                       !.inbound_drops = ep.inbound_drops]
  BY <1>1, EndpointHas DEF FlowRecord, IsMap
<1>8. BufferReliable(ep, k, t) = Charge(mid, k, 1, b)
  BY DEF BufferReliable
<1> HIDE DEF f1, mid, b
<1>9. Rewrites(ep, mid, k, f1)
  <2>1. IsRewrite(ep, mid, k, f1, ep.outbound_drops, ep.inbound_drops)
    BY <1>1, <1>5, <1>7 DEF IsRewrite
  <2> QED BY <2>1, RewritesIs
<1>10. IsCharge(ep, mid, k, f1, g, 1, b)
  BY <1>2, <1>4, <1>6, <1>9 DEF IsCharge
<1>11. Leaves(ep, mid, Charge(mid, k, 1, b), k, g)
  BY <1>10, ChargeKeeps
<1> QED BY <1>8, <1>11 DEF Leaves

\* What evicting from the queue of a receiver leaves: n transfers less.
QueueCut(ep, room, k, n) ==
  /\ EndpointInv(room) /\ k \in DOMAIN room.flows
  /\ room.inbound_drops = ep.inbound_drops
  /\ n \in Nat /\ Len(room.flows[k].queue) = Len(ep.flows[k].queue) - n
  /\ room.flows[k].mode = ep.flows[k].mode

\* Dropping the oldest entries of the queue into a flow keeps the books.
LEMMA QueueIsCut ==
  ASSUME NEW ep, EndpointInv(ep), NEW k \in DOMAIN ep.flows,
         NEW n \in 0 .. Len(ep.flows[k].queue)
  PROVE  QueueCut(ep, DropQueued(ep, k, n), k, n)
<1> DEFINE f == ep.flows[k]
           gone == SubSeq(f.queue, 1, n)
           left == SubSeq(f.queue, n + 1, Len(f.queue))
           g == With([f EXCEPT !.queue = left], -n, -Bytes(gone))
           room == DropQueued(ep, k, n)
<1>1. f \in FlowRecord(f.session)
  BY EndpointHas
<1>2. f.queue \in Seq(Transfer) /\ Len(f.queue) \in Nat
  BY <1>1, ContentsAre
<1>3. Leaves(ep, ep, room, k, g)
  BY QueueIsDropped
<1>4. g.queue = left /\ g.mode = f.mode
  BY <1>1 DEF With, FlowRecord
<1>5. Len(left) = Len(f.queue) - n /\ n \in Nat
  <2>1. n \in Nat /\ n \in 0 .. Len(f.queue)
    BY <1>2
  <2> QED BY <1>2, <2>1, BytesSplit DEF Splits
<1> HIDE DEF g, left, room
<1>6. QueueCut(ep, room, k, n)
  BY <1>3, <1>4, <1>5 DEF Leaves, QueueCut
<1> QED BY <1>6 DEF room

\* What the queue of k lost from ep to left, a transfer that came in included, is
\* counted.
DropsAreCounted(ep, left, k) ==
  left.inbound_drops =
    Counted(ep.inbound_drops, Len(ep.flows[k].queue) + 1 - Len(left.flows[k].queue))

\* Of the transfers in the queue of an unreliable flow, none but the incoming one is
\* charged anew, and only if there is room after the evictions. Every transfer given up is counted.
LEMMA BufferUnreliableKeeps ==
  ASSUME NEW ep, EndpointInv(ep), NEW k \in DOMAIN ep.flows, k.direction = "Inbound",
         NEW t \in Transfer
  PROVE  /\ EndpointInv(BufferUnreliable(ep, k, t))
         /\ DropsAreCounted(ep, BufferUnreliable(ep, k, t), k)
<1> DEFINE b == PayloadBytes[t.payload]
           z == Len(ep.flows[k].queue)
           Fits(n) == CanAddPending(DropQueued(ep, k, n), k, b)
           S == {n \in 0 .. z : Fits(n)} \cup {z}
           drops == IF ep.flows[k].policy.receiver = "EvictOldest" THEN Min(S) ELSE 0
           room == DropQueued(ep, k, drops)
           f == room.flows[k]
           f1 == [f EXCEPT !.queue = Append(@, t)]
           i == Counted(room.inbound_drops, drops)
           mid == [room EXCEPT !.flows[k].queue = Append(@, t),
                               !.inbound_drops = Counted(@, drops)]
           g == With(f1, 1, b)
           out == [room EXCEPT !.inbound_drops = Counted(@, drops + 1)]
<1>1. BufferUnreliable(ep, k, t) = IF Fits(drops) THEN Charge(mid, k, 1, b) ELSE out
  BY DEF BufferUnreliable, Evictions, DropIncoming
<1>2. drops \in 0 .. z /\ drops \in Nat
  <2>1. z \in Nat
    BY EndpointHas
  <2>2. S \subseteq 0 .. z /\ S # {}
    BY <2>1
  <2> HIDE DEF S, z
  <2>3. Min(S) \in 0 .. z
    BY <2>1, <2>2, MinOfRange
  <2> QED BY <2>1, <2>3
<1> HIDE DEF drops
<1>3. /\ EndpointInv(room) /\ k \in DOMAIN room.flows
      /\ room.inbound_drops = ep.inbound_drops /\ Len(room.flows[k].queue) = z - drops
  <2>1. QueueCut(ep, room, k, drops)
    BY <1>2, QueueIsCut
  <2> QED BY <2>1 DEF QueueCut
<1> HIDE DEF room
<1>4. /\ FlowInv(k, f) /\ f \in FlowRecord(f.session) /\ IsMap(room.flows)
      /\ room.outbound_drops \in 0 .. MaxCount /\ room.inbound_drops \in 0 .. MaxCount
      /\ room = [aggregate |-> room.aggregate, connections |-> room.connections,
                 sessions |-> room.sessions, flows |-> room.flows,
                 outbound_drops |-> room.outbound_drops,
                 inbound_drops |-> room.inbound_drops]
  BY <1>3, EndpointHas
<1>5. CASE Fits(drops)
  <2>1. /\ RoomFor(room, k, 1, b) /\ f.pending_messages + 1 <= f.policy.messages
        /\ f.pending_bytes + b <= f.policy.bytes
    BY <1>5, PendingFits DEF room
  <2>2. f1 \in FlowRecord(f1.session) /\ b \in Int
    <3>1. f.queue \in Seq(Transfer)
      BY <1>4, ContentsAre
    <3>2. Append(f.queue, t) \in Seq(Transfer)
      BY <3>1, AppendProperties
    <3>3. b \in Int
      BY DeliveryAssumption DEF Transfer
    <3>4. f1 \in FlowRecord(f1.session)
      <4> DEFINE x == Append(f.queue, t)
      <4>1. f \in FlowRecord(f.session) /\ x \in Seq(Transfer) /\ f1 = [f EXCEPT !.queue = x]
        BY <1>4, <3>2
      <4> HIDE DEF x, f, f1
      <4> QED BY ONLY <4>1 DEF FlowRecord
    <3> QED BY <3>3, <3>4
  <2>3. /\ f1.session = f.session /\ f1.pending_messages = f.pending_messages
        /\ f1.pending_bytes = f.pending_bytes
    BY <1>4 DEF FlowRecord
  <2>4. FlowInv(k, g)
    <3> HIDE DEF f
    <3> QED BY <1>4, <2>1, QueueGrows
  <2>5. i \in 0 .. MaxCount
    BY <1>2, <1>4, CountedType
  <2>6. mid = [room EXCEPT !.flows = [room.flows EXCEPT ![k] = f1],
                           !.outbound_drops = room.outbound_drops, !.inbound_drops = i]
    <3>1. [room.flows EXCEPT ![k].queue = Append(@, t)] = [room.flows EXCEPT ![k] = f1]
      BY <1>3, <1>4 DEF FlowRecord, IsMap
    <3> HIDE DEF f1
    <3> QED BY <1>4, <3>1
  <2>10. /\ mid.inbound_drops = i /\ Len(g.queue) = Len(f.queue) + 1
         /\ Len(f.queue) \in Nat
    <3>1. mid.inbound_drops = i
      BY <1>4, <2>6
    <3>2. Len(Append(f.queue, t)) = Len(f.queue) + 1 /\ Len(f.queue) \in Nat
      <4>1. f.queue \in Seq(Transfer)
        BY <1>4, ContentsAre
      <4> HIDE DEF f
      <4> QED BY <4>1
    <3>3. g.queue = Append(f.queue, t)
      <4> HIDE DEF f
      <4> QED BY <1>4 DEF With, FlowRecord
    <3> HIDE DEF mid, g, i, f
    <3> QED BY <3>1, <3>2, <3>3
  <2> HIDE DEF f1, mid, b
  <2>7. Rewrites(room, mid, k, f1)
    <3>1. IsRewrite(room, mid, k, f1, room.outbound_drops, i)
      BY <1>3, <1>4, <2>3, <2>5, <2>6 DEF IsRewrite
    <3> QED BY <3>1, RewritesIs
  <2>8. IsCharge(room, mid, k, f1, g, 1, b)
    BY <1>3, <2>1, <2>2, <2>4, <2>7 DEF IsCharge
  <2>9. Leaves(room, mid, Charge(mid, k, 1, b), k, g)
    BY <2>8, ChargeKeeps
  <2>11. DropsAreCounted(ep, Charge(mid, k, 1, b), k)
    <3> DEFINE after == Charge(mid, k, 1, b)
    <3>1. after.flows[k].queue = g.queue /\ after.inbound_drops = i
      BY <2>9, <2>10 DEF Leaves
    <3>2. z \in Nat /\ z + 1 - Len(g.queue) = drops
      <4>1. z \in Nat
        BY EndpointHas
      <4> HIDE DEF g, z
      <4> QED BY <1>2, <1>3, <2>10, <4>1
    <3> HIDE DEF after, g
    <3>3. DropsAreCounted(ep, after, k)
      BY <1>3, <3>1, <3>2 DEF DropsAreCounted
    <3> QED BY <3>3 DEF after
  <2> QED BY <1>1, <1>5, <2>9, <2>11 DEF Leaves
<1>6. CASE ~Fits(drops)
  <2> DEFINE j == Counted(room.inbound_drops, drops + 1)
  <2>1. j \in 0 .. MaxCount
    BY <1>2, <1>4, CountedType
  <2>2. out = [room EXCEPT !.flows = [room.flows EXCEPT ![k] = f],
                           !.outbound_drops = room.outbound_drops, !.inbound_drops = j]
    <3>1. [room.flows EXCEPT ![k] = f] = room.flows
      BY <1>3, <1>4 DEF IsMap
    <3> QED BY <1>4, <3>1
  <2>5. DropsAreCounted(ep, out, k)
    <3>1. out.inbound_drops = j /\ out.flows = room.flows
      BY <1>4
    <3>2. z \in Nat /\ z + 1 - Len(room.flows[k].queue) = drops + 1
      <4>1. z \in Nat
        BY EndpointHas
      <4> HIDE DEF f, z
      <4> QED BY <1>2, <1>3, <4>1
    <3> HIDE DEF out
    <3> QED BY <1>3, <3>1, <3>2 DEF DropsAreCounted
  <2> HIDE DEF out, j
  <2>3. IsRewrite(room, out, k, f, room.outbound_drops, j)
    BY <1>3, <1>4, <2>1, <2>2 DEF IsRewrite
  <2>4. EndpointInv(out)
    BY <1>3, <1>4, <2>3, RewritesIs, RewriteKeeps
  <2> QED BY <1>1, <1>6, <2>4, <2>5
<1> QED BY <1>5, <1>6

\* The exposure of the next message of a reliable flow.
LEMMA ExposeReliableKeeps ==
  ASSUME NEW ep, EndpointInv(ep), NEW k \in DOMAIN ep.flows, k.direction = "Inbound",
         ep.flows[k].mode = Reliable, Ready(ep.flows[k])
  PROVE  EndpointInv(ExposeReliable(ep, k))
<1> DEFINE f == ep.flows[k]
           i == f.next_exposure
           b == PayloadBytes[f.by_index[i]]
           t == [index |-> i, payload |-> f.by_index[i]]
           less == Drop(f.by_index, {i})
           f1 == [f EXCEPT !.by_index = Drop(@, {i}), !.next_exposure = i + 1]
           mid == [ep EXCEPT !.flows[k].by_index = Drop(@, {t.index}),
                             !.flows[k].next_exposure = t.index + 1]
           g == With(f1, -1, -b)
<1>1. /\ FlowInv(k, f) /\ f \in FlowRecord(f.session) /\ IsMap(ep.flows)
      /\ ep.outbound_drops \in 0 .. MaxCount /\ ep.inbound_drops \in 0 .. MaxCount
      /\ ep = [aggregate |-> ep.aggregate, connections |-> ep.connections,
               sessions |-> ep.sessions, flows |-> ep.flows,
               outbound_drops |-> ep.outbound_drops, inbound_drops |-> ep.inbound_drops]
  BY EndpointHas
<1>2. i \in DOMAIN f.by_index
  BY DEF Ready
<1>3. FlowInv(k, g) /\ b \in Nat
  <2> HIDE DEF f
  <2> QED BY <1>1, <1>2, BufferShrinks
<1>4. f1 \in FlowRecord(f1.session)
  <2>1. f.by_index \in Buffer
    BY <1>1, ContentsAre
  <2>2. less \in Buffer /\ i \in Index
    BY <1>2, <2>1, BufferDrop
  <2>3. i + 1 \in 0 .. MaxIndex + 1
    BY <2>2, DeliveryAssumption DEF Index
  <2>4. f \in FlowRecord(f.session) /\ f1 = [f EXCEPT !.by_index = less, !.next_exposure = i + 1]
    BY <1>1
  <2> HIDE DEF f, f1, less, i
  <2> QED BY ONLY <2>2, <2>3, <2>4 DEF FlowRecord
<1>5. /\ f1.session = f.session /\ f1.pending_messages = f.pending_messages
      /\ f1.pending_bytes = f.pending_bytes
  BY <1>1 DEF FlowRecord
<1>6. mid = [ep EXCEPT !.flows = [ep.flows EXCEPT ![k] = f1],
                       !.outbound_drops = ep.outbound_drops,
                       !.inbound_drops = ep.inbound_drops]
  <2> DEFINE first == [ep.flows EXCEPT ![k] = [f EXCEPT !.by_index = Drop(@, {t.index})]]
             then == [first EXCEPT ![k] = [first[k] EXCEPT !.next_exposure = t.index + 1]]
  <2>1. then = [ep.flows EXCEPT ![k] = f1]
    BY <1>1 DEF FlowRecord, IsMap
  <2>2. mid = [[ep EXCEPT !.flows = first] EXCEPT !.flows = then]
    <3>1. [ep EXCEPT !.flows = first].flows = first
      BY <1>1
    <3> QED BY <3>1, Zenon
  <2> HIDE DEF f1, first, then, mid
  <2> QED BY <1>1, <2>1, <2>2
<1>7. ExposeReliable(ep, k) = Charge(mid, k, -1, -b)
  BY DEF ExposeReliable, Exposure
<1> HIDE DEF f1, mid, b
<1>8. Rewrites(ep, mid, k, f1)
  <2>1. IsRewrite(ep, mid, k, f1, ep.outbound_drops, ep.inbound_drops)
    BY <1>1, <1>5, <1>6 DEF IsRewrite
  <2> QED BY <2>1, RewritesIs
<1>9. -1 \in Int /\ -b \in Int /\ -1 <= 0 /\ -b <= 0
  BY ONLY <1>3
<1>10. IsCharge(ep, mid, k, f1, g, -1, -b)
  BY <1>3, <1>4, <1>8, <1>9 DEF IsCharge
<1>11. Leaves(ep, mid, Charge(mid, k, -1, -b), k, g)
  BY <1>10, ChargeKeeps
<1> QED BY <1>7, <1>11 DEF Leaves

\* The exposure of an unreliable message drops those in front of it.
LEMMA ExposeUnreliableKeeps ==
  ASSUME NEW ep, EndpointInv(ep), NEW k \in DOMAIN ep.flows,
         ep.flows[k].mode # Reliable, Ready(ep.flows[k])
  PROVE  EndpointInv(ExposeUnreliable(ep, k))
<1> DEFINE f == ep.flows[k]
           n == FirstFresh(f)
           room == DropQueued(ep, k, n)
           h == room.flows[k]
           v == IF f.mode = Sequenced THEN Exposure(f).index ELSE h.last_exposed_sequence
           g == [h EXCEPT !.last_exposed_sequence = v]
           out == [room EXCEPT !.flows[k].last_exposed_sequence =
                                 IF f.mode = Sequenced THEN Exposure(f).index ELSE @]
<1>1. f \in FlowRecord(f.session)
  BY EndpointHas
<1>2. f.queue \in Seq(Transfer)
  BY <1>1, ContentsAre
<1>3. n \in DOMAIN f.queue /\ n \in 0 .. Len(f.queue)
  <2>1. n \in DOMAIN f.queue
    BY DEF Ready
  <2> HIDE DEF n
  <2> QED BY <1>2, <2>1
<1>4. QueueCut(ep, room, k, n)
  BY <1>3, QueueIsCut
<1>5. ExposeUnreliable(ep, k) = out
  BY DEF ExposeUnreliable
<1>6. Exposure(f).index \in Index
  <2>1. Exposure(f) = f.queue[n]
    BY DEF Exposure
  <2>2. f.queue[n] \in Transfer
    BY <1>2, <1>3
  <2> QED BY <2>1, <2>2 DEF Transfer
<1> HIDE DEF room
<1>7. /\ EndpointInv(room) /\ k \in DOMAIN room.flows
  BY <1>4 DEF QueueCut
<1>8. /\ FlowInv(k, h) /\ h \in FlowRecord(h.session) /\ IsMap(room.flows)
      /\ room.outbound_drops \in 0 .. MaxCount /\ room.inbound_drops \in 0 .. MaxCount
      /\ room = [aggregate |-> room.aggregate, connections |-> room.connections,
                 sessions |-> room.sessions, flows |-> room.flows,
                 outbound_drops |-> room.outbound_drops,
                 inbound_drops |-> room.inbound_drops]
  BY <1>7, EndpointHas
<1>9. v \in Index \cup {NoIndex}
  BY <1>6, <1>8 DEF FlowRecord
<1>10. out = [room EXCEPT !.flows = [room.flows EXCEPT ![k] = g],
                          !.outbound_drops = room.outbound_drops,
                          !.inbound_drops = room.inbound_drops]
  <2> DEFINE fs == [room.flows EXCEPT ![k] = g]
  <2>1. out = [room EXCEPT !.flows = fs]
    OBVIOUS
  <2> HIDE DEF out, fs
  <2> QED BY <1>8, <2>1 DEF fs
<1>11. /\ FlowInv(k, g) /\ g.session = h.session
       /\ g.pending_messages = h.pending_messages /\ g.pending_bytes = h.pending_bytes
  <2> HIDE DEF v, h
  <2> QED BY <1>8, <1>9, FlowExposes
<1> HIDE DEF g, out
<1>12. Rewrites(room, out, k, g)
  <2>1. IsRewrite(room, out, k, g, room.outbound_drops, room.inbound_drops)
    BY <1>7, <1>8, <1>10, <1>11 DEF IsRewrite
  <2> QED BY <2>1, RewritesIs
<1>13. EndpointInv(out)
  BY <1>7, <1>11, <1>12, RewriteKeeps
<1> QED BY <1>5, <1>13

\* Polling keeps the books, whether or not it finds something to expose.
LEMMA PollKeeps ==
  ASSUME NEW ep, EndpointInv(ep), NEW k, CanReceive(ep, k)
  PROVE  EndpointInv(Poll(ep, k))
<1>1. k \in DOMAIN ep.flows /\ k.direction = "Inbound"
  BY DEF CanReceive
<1>2. CASE ~Ready(ep.flows[k])
  <2>1. Len(ep.flows[k].queue) \in 0 .. Len(ep.flows[k].queue)
    <3>1. Len(ep.flows[k].queue) \in Nat
      BY <1>1, EndpointHas
    <3> QED BY <3>1
  <2>2. QueueCut(ep, DropQueued(ep, k, Len(ep.flows[k].queue)), k, Len(ep.flows[k].queue))
    BY <1>1, <2>1, QueueIsCut
  <2> QED BY <1>2, <2>2 DEF Poll, QueueCut
<1>3. CASE Ready(ep.flows[k]) /\ ep.flows[k].mode = Reliable
  BY <1>1, <1>3, ExposeReliableKeeps DEF Poll
<1>4. CASE Ready(ep.flows[k]) /\ ep.flows[k].mode # Reliable
  BY <1>1, <1>4, ExposeUnreliableKeeps DEF Poll
<1> QED BY <1>2, <1>3, <1>4

\* The parts of the invariant of an endpoint.
LEMMA EndpointParts ==
  ASSUME NEW ep, EndpointInv(ep)
  PROVE  /\ ep = [aggregate |-> ep.aggregate, connections |-> ep.connections,
                  sessions |-> ep.sessions, flows |-> ep.flows,
                  outbound_drops |-> ep.outbound_drops, inbound_drops |-> ep.inbound_drops]
         /\ ep.outbound_drops \in 0 .. MaxCount /\ ep.inbound_drops \in 0 .. MaxCount
         /\ IsMap(ep.flows) /\ IsFiniteSet(DOMAIN ep.flows)
         /\ \A k \in DOMAIN ep.flows : FlowInv(k, ep.flows[k])
         /\ Counters(ep.flows, DOMAIN ep.flows)
         /\ Covers(ep.aggregate, ep.flows, DOMAIN ep.flows)
         /\ Balanced(ep.connections, ep.flows, ConnectionOf(ep.flows), {})
         /\ Balanced(ep.sessions, ep.flows, SessionOf(ep.flows), {NoSession})
         /\ DOMAIN ConnectionOf(ep.flows) = DOMAIN ep.flows
         /\ DOMAIN SessionOf(ep.flows) = DOMAIN ep.flows
<1>1. FlowsInv(ep.flows)
  BY DEF EndpointInv
<1> QED BY <1>1, FlowsHaveCounters
        DEF EndpointInv, IsEndpoint, FlowsInv, ScopesInv, ConnectionOf, SessionOf

\* A new flow is charged to its connection, which may be new, and to the endpoint.
LEMMA EstablishKeeps ==
  ASSUME NEW ep, EndpointInv(ep), NEW k, NEW mode \in Mode, NEW policy \in Policy,
         NEW limits \in ScopeLimits, CanEstablish(ep, k, mode, policy, limits)
  PROVE  EndpointInv(Establish(ep, k, mode, policy, limits))
<1> DEFINE f == NewFlow(mode, policy)
           flows == ep.flows
           after == Put(flows, k, f)
           c == k.connection
           a == Add(ep.aggregate, 1, 0, 0)
           cs == Put(ep.connections, c, Add(ScopeOf(ep.connections, c, limits), 1, 0, 0))
           out == Establish(ep, k, mode, policy, limits)
<1>1. /\ k \notin DOMAIN flows /\ ValidPolicy(policy, mode)
      /\ CanAdd(ep.aggregate, 1, 0, 0)
      /\ CanAdd(ScopeOf(ep.connections, c, limits), 1, 0, 0)
      /\ limits \in ScopeLimits
  BY DEF CanEstablish
<1>2. /\ ep = [aggregate |-> ep.aggregate, connections |-> ep.connections,
               sessions |-> ep.sessions, flows |-> flows,
               outbound_drops |-> ep.outbound_drops, inbound_drops |-> ep.inbound_drops]
      /\ ep.outbound_drops \in 0 .. MaxCount /\ ep.inbound_drops \in 0 .. MaxCount
      /\ IsMap(flows) /\ IsFiniteSet(DOMAIN flows)
      /\ \A j \in DOMAIN flows : FlowInv(j, flows[j])
      /\ Covers(ep.aggregate, flows, DOMAIN flows)
      /\ Balanced(ep.connections, flows, ConnectionOf(flows), {})
      /\ Balanced(ep.sessions, flows, SessionOf(flows), {NoSession})
      /\ DOMAIN ConnectionOf(flows) = DOMAIN flows /\ DOMAIN SessionOf(flows) = DOMAIN flows
  BY EndpointParts
<1>3. /\ FlowInv(k, f) /\ f.session = NoSession
      /\ f.pending_messages = 0 /\ f.pending_bytes = 0
  BY <1>1, NewFlowIsRight
<1> HIDE DEF f
<1>4. /\ IsMap(after) /\ DOMAIN after = DOMAIN flows \cup {k} /\ after[k] = f
      /\ \A j \in DOMAIN flows : after[j] = flows[j] /\ j # k
  BY <1>1 DEF Put, IsMap
<1>5. out = [aggregate |-> a, connections |-> cs, sessions |-> ep.sessions, flows |-> after,
             outbound_drops |-> ep.outbound_drops, inbound_drops |-> ep.inbound_drops]
  <2>1. out = [ep EXCEPT !.aggregate = a, !.connections = cs, !.flows = after]
    BY DEF Establish, f
  <2> HIDE DEF out, a, cs, after
  <2> QED BY <1>2, <2>1
<1> HIDE DEF after, flows
<1>6. FlowsInv(after)
  <2>1. \A j \in DOMAIN after : FlowInv(j, after[j])
    BY <1>2, <1>3, <1>4
  <2>2. IsFiniteSet(DOMAIN after)
    BY <1>2, <1>4, FS_AddElement
  <2> QED BY <1>4, <2>1, <2>2 DEF FlowsInv
<1>7. Counters(after, DOMAIN after)
  BY <1>6, FlowsHaveCounters
<1>8. \A j \in DOMAIN flows : SameCounters(flows, after, j)
  BY <1>4 DEF SameCounters
<1>9. after[k].pending_messages = 0 /\ after[k].pending_bytes = 0
  BY <1>3, <1>4
<1>10. Covers(a, after, DOMAIN after)
  <2>1. /\ DOMAIN flows \subseteq DOMAIN flows /\ IsFiniteSet(DOMAIN flows)
        /\ Covers(ep.aggregate, flows, DOMAIN flows) /\ k \notin DOMAIN flows
        /\ DOMAIN after = DOMAIN flows \cup {k} /\ DOMAIN after \subseteq DOMAIN after
        /\ 0 = after[k].pending_messages /\ 0 = after[k].pending_bytes
        /\ CanAdd(ep.aggregate, 1, 0, 0)
    BY <1>1, <1>2, <1>4, <1>9 DEF flows
  <2> QED BY ONLY <1>7, <1>8, <2>1, CoversJoin DEF a
<1>11. Balanced(cs, after, ConnectionOf(after), {})
  <2> DEFINE owner == ConnectionOf(flows)
             owner2 == ConnectionOf(after)
  <2>1. /\ DOMAIN owner = DOMAIN flows /\ IsFiniteSet(DOMAIN flows)
        /\ Balanced(ep.connections, flows, owner, {})
        /\ (k \in DOMAIN owner => owner[k] \in {})
        /\ DOMAIN owner2 = DOMAIN after /\ DOMAIN after = DOMAIN flows \cup {k}
    BY <1>1, <1>2, <1>4 DEF ConnectionOf, flows
  <2>2. /\ \A j \in DOMAIN flows \ {k} : owner2[j] = owner[j] /\ SameCounters(flows, after, j)
        /\ c \notin {} /\ owner2[k] = c
    BY <1>4, <1>8 DEF ConnectionOf
  <2>3. CanAdd(ScopeOf(ep.connections, c, limits), 1, after[k].pending_messages,
               after[k].pending_bytes) /\ limits \in ScopeLimits
    BY <1>1, <1>9
  <2> HIDE DEF owner, owner2, c
  <2>4. Balanced(Put(ep.connections, c,
                     Add(ScopeOf(ep.connections, c, limits), 1,
                         after[k].pending_messages, after[k].pending_bytes)),
                 after, owner2, {})
    BY ONLY <1>7, <2>1, <2>2, <2>3, BalancedJoin
  <2> QED BY <1>9, <2>4 DEF owner2
<1>12. Balanced(ep.sessions, after, SessionOf(after), {NoSession})
  <2> DEFINE owner == SessionOf(flows)
             owner2 == SessionOf(after)
  <2>1. /\ DOMAIN owner = DOMAIN flows /\ IsFiniteSet(DOMAIN flows)
        /\ DOMAIN owner2 = DOMAIN after
        /\ Balanced(ep.sessions, flows, owner, {NoSession})
    BY <1>2 DEF SessionOf, flows
  <2>2. owner2[k] = NoSession /\ \A j \in DOMAIN flows : owner2[j] = owner[j]
    BY <1>3, <1>4 DEF SessionOf
  <2>3. \A s : s \notin {NoSession} => Members(owner2, s) = Members(owner, s)
    BY <1>4, <2>1, <2>2 DEF Members
  <2>4. \A j \in DOMAIN owner : owner[j] \notin {NoSession} => SameCounters(flows, after, j)
    BY <1>8, <2>1
  <2> HIDE DEF owner, owner2
  <2>5. Balanced(ep.sessions, after, owner2, {NoSession})
    BY ONLY <2>1, <2>3, <2>4, BalancedStays
  <2> QED BY <2>5 DEF owner2
<1> HIDE DEF a, cs, out
<1>13. EndpointInv(out)
  <2>1. IsEndpoint(out)
    BY <1>2, <1>5 DEF IsEndpoint
  <2>2. /\ out.flows = after /\ out.aggregate = a /\ out.connections = cs
        /\ out.sessions = ep.sessions
    BY <1>5
  <2> QED BY <1>6, <1>10, <1>11, <1>12, <2>1, <2>2 DEF EndpointInv, ScopesInv
<1> QED BY <1>13 DEF out

\* A flow joins a session, which may be new, with all that it has pending.
LEMMA AssociateKeeps ==
  ASSUME NEW ep, EndpointInv(ep), NEW k, NEW s, s # NoSession, NEW limits \in ScopeLimits,
         CanAssociate(ep, k, s, limits)
  PROVE  EndpointInv(Associate(ep, k, s, limits))
<1> DEFINE flows == ep.flows
           f == flows[k]
           g == [f EXCEPT !.session = s]
           after == [flows EXCEPT ![k] = g]
           m == f.pending_messages
           b == f.pending_bytes
           ss == Put(ep.sessions, s, Add(ScopeOf(ep.sessions, s, limits), 1, m, b))
           out == Associate(ep, k, s, limits)
<1>1. /\ k \in DOMAIN flows /\ f.session = NoSession
      /\ CanAdd(ScopeOf(ep.sessions, s, limits), 1, m, b)
      /\ limits \in ScopeLimits /\ s # NoSession
  BY DEF CanAssociate
<1>2. /\ ep = [aggregate |-> ep.aggregate, connections |-> ep.connections,
               sessions |-> ep.sessions, flows |-> flows,
               outbound_drops |-> ep.outbound_drops, inbound_drops |-> ep.inbound_drops]
      /\ ep.outbound_drops \in 0 .. MaxCount /\ ep.inbound_drops \in 0 .. MaxCount
      /\ IsMap(flows) /\ IsFiniteSet(DOMAIN flows)
      /\ \A j \in DOMAIN flows : FlowInv(j, flows[j])
      /\ Covers(ep.aggregate, flows, DOMAIN flows)
      /\ Balanced(ep.connections, flows, ConnectionOf(flows), {})
      /\ Balanced(ep.sessions, flows, SessionOf(flows), {NoSession})
      /\ DOMAIN ConnectionOf(flows) = DOMAIN flows /\ DOMAIN SessionOf(flows) = DOMAIN flows
  BY EndpointParts
<1>3. FlowInv(k, f)
  BY <1>1, <1>2
<1>4. /\ FlowInv(k, g) /\ g.session = s /\ g.pending_messages = m /\ g.pending_bytes = b
  <2> HIDE DEF f
  <2> QED BY <1>3, FlowJoins
<1>5. /\ IsMap(after) /\ DOMAIN after = DOMAIN flows /\ after[k] = g
      /\ \A j \in DOMAIN flows \ {k} : after[j] = flows[j]
  BY <1>1, <1>2 DEF IsMap
<1>6. out = [aggregate |-> ep.aggregate, connections |-> ep.connections, sessions |-> ss,
             flows |-> after,
             outbound_drops |-> ep.outbound_drops, inbound_drops |-> ep.inbound_drops]
  <2>1. [ep EXCEPT !.sessions = ss].flows = flows
    BY <1>2
  <2>2. out = [[ep EXCEPT !.sessions = ss] EXCEPT !.flows = after]
    BY <2>1, Zenon DEF Associate
  <2> HIDE DEF out, ss, after
  <2> QED BY <1>2, <2>2
<1> HIDE DEF after, flows, g
<1>7. FlowsInv(after)
  <2>1. \A j \in DOMAIN after : FlowInv(j, after[j])
    BY <1>2, <1>4, <1>5
  <2> QED BY <1>2, <1>5, <2>1 DEF FlowsInv
<1>8. Counters(after, DOMAIN after)
  BY <1>7, FlowsHaveCounters
<1>9. \A j \in DOMAIN flows : SameCounters(flows, after, j)
  BY <1>4, <1>5 DEF SameCounters
<1>10. Covers(ep.aggregate, after, DOMAIN after)
  <2>1. Charges(after, DOMAIN flows) = Charges(flows, DOMAIN flows)
    BY <1>2, <1>5, <1>9, ChargesReadTheirFlows DEF SameCounters
  <2> QED BY <1>2, <1>5, <2>1 DEF Covers
<1>11. Balanced(ep.connections, after, ConnectionOf(after), {})
  <2> DEFINE owner == ConnectionOf(flows)
  <2>1. ConnectionOf(after) = owner
    BY <1>5 DEF ConnectionOf
  <2>2. /\ DOMAIN owner = DOMAIN flows /\ DOMAIN owner = DOMAIN after
        /\ IsFiniteSet(DOMAIN flows) /\ Balanced(ep.connections, flows, owner, {})
        /\ \A r : r \notin {} => Members(owner, r) = Members(owner, r)
        /\ \A j \in DOMAIN owner : owner[j] \notin {} => SameCounters(flows, after, j)
    BY <1>2, <1>5, <1>9
  <2> HIDE DEF owner
  <2>3. Balanced(ep.connections, after, owner, {})
    BY ONLY <2>2, BalancedStays
  <2> QED BY <2>1, <2>3
<1>12. Balanced(ss, after, SessionOf(after), {NoSession})
  <2> DEFINE owner == SessionOf(flows)
             owner2 == SessionOf(after)
  <2>1. /\ DOMAIN owner = DOMAIN flows /\ IsFiniteSet(DOMAIN flows)
        /\ Balanced(ep.sessions, flows, owner, {NoSession})
        /\ (k \in DOMAIN owner => owner[k] \in {NoSession})
        /\ DOMAIN owner2 = DOMAIN after /\ DOMAIN after = DOMAIN flows \cup {k}
    BY <1>1, <1>2, <1>5 DEF SessionOf, flows
  <2>2. /\ \A j \in DOMAIN flows \ {k} : owner2[j] = owner[j] /\ SameCounters(flows, after, j)
        /\ s \notin {NoSession} /\ owner2[k] = s
    BY <1>1, <1>4, <1>5, <1>9 DEF SessionOf
  <2>3. /\ CanAdd(ScopeOf(ep.sessions, s, limits), 1, after[k].pending_messages,
                  after[k].pending_bytes)
        /\ limits \in ScopeLimits
    BY <1>1, <1>4, <1>5
  <2> HIDE DEF owner, owner2
  <2>4. Balanced(Put(ep.sessions, s,
                     Add(ScopeOf(ep.sessions, s, limits), 1,
                         after[k].pending_messages, after[k].pending_bytes)),
                 after, owner2, {NoSession})
    BY ONLY <1>8, <2>1, <2>2, <2>3, BalancedJoin
  <2> QED BY <1>4, <1>5, <2>4 DEF owner2
<1> HIDE DEF ss, out
<1>13. EndpointInv(out)
  <2>1. IsEndpoint(out)
    BY <1>2, <1>6 DEF IsEndpoint
  <2>2. /\ out.flows = after /\ out.aggregate = ep.aggregate /\ out.sessions = ss
        /\ out.connections = ep.connections
    BY <1>6
  <2> QED BY <1>7, <1>10, <1>11, <1>12, <2>1, <2>2 DEF EndpointInv, ScopesInv
<1> QED BY <1>13 DEF out

\* A flow that ends takes its charges out of every scope it belongs to.
LEMMA TerminateKeeps ==
  ASSUME NEW ep, EndpointInv(ep), NEW k \in DOMAIN ep.flows
  PROVE  /\ EndpointInv(Terminate(ep, k))
         /\ DOMAIN Terminate(ep, k).flows = DOMAIN ep.flows \ {k}
<1> DEFINE flows == ep.flows
           f == flows[k]
           after == Drop(flows, {k})
           m == f.pending_messages
           b == f.pending_bytes
           c == k.connection
           a == Add(ep.aggregate, -1, -m, -b)
           cs == Release(ep.connections, c, m, b)
           ss == IF f.session = NoSession THEN ep.sessions
                 ELSE Release(ep.sessions, f.session, m, b)
           out == Terminate(ep, k)
<1>1. /\ ep = [aggregate |-> ep.aggregate, connections |-> ep.connections,
               sessions |-> ep.sessions, flows |-> flows,
               outbound_drops |-> ep.outbound_drops, inbound_drops |-> ep.inbound_drops]
      /\ ep.outbound_drops \in 0 .. MaxCount /\ ep.inbound_drops \in 0 .. MaxCount
      /\ IsMap(flows) /\ IsFiniteSet(DOMAIN flows)
      /\ \A j \in DOMAIN flows : FlowInv(j, flows[j])
      /\ Counters(flows, DOMAIN flows)
      /\ Covers(ep.aggregate, flows, DOMAIN flows)
      /\ Balanced(ep.connections, flows, ConnectionOf(flows), {})
      /\ Balanced(ep.sessions, flows, SessionOf(flows), {NoSession})
      /\ DOMAIN ConnectionOf(flows) = DOMAIN flows /\ DOMAIN SessionOf(flows) = DOMAIN flows
  BY EndpointParts
<1>2. /\ IsMap(after) /\ DOMAIN after = DOMAIN flows \ {k}
      /\ \A j \in DOMAIN after : after[j] = flows[j] /\ j \in DOMAIN flows
  BY <1>1 DEF Drop, Restrict, IsMap
<1>3. out = [aggregate |-> a, connections |-> cs, sessions |-> ss, flows |-> after,
             outbound_drops |-> ep.outbound_drops, inbound_drops |-> ep.inbound_drops]
  <2>1. out = [ep EXCEPT !.flows = after, !.aggregate = a, !.connections = cs,
                         !.sessions = ss]
    BY DEF Terminate
  <2> HIDE DEF out, a, cs, ss, after
  <2> QED BY <1>1, <2>1
<1>4. k \in DOMAIN flows
  OBVIOUS
<1> HIDE DEF after, flows, ss
<1>5. FlowsInv(after)
  <2>1. \A j \in DOMAIN after : FlowInv(j, after[j])
    BY <1>1, <1>2
  <2>2. IsFiniteSet(DOMAIN after)
    BY <1>1, <1>2, FS_Subset
  <2> QED BY <1>2, <2>1, <2>2 DEF FlowsInv
<1>6. \A j \in DOMAIN after : SameCounters(flows, after, j)
  BY <1>2 DEF SameCounters
<1>7. Covers(a, after, DOMAIN after)
  <2>1. /\ DOMAIN flows \subseteq DOMAIN flows /\ IsFiniteSet(DOMAIN flows)
        /\ Counters(flows, DOMAIN flows) /\ Covers(ep.aggregate, flows, DOMAIN flows)
        /\ k \in DOMAIN flows /\ DOMAIN after = DOMAIN flows \ {k}
        /\ DOMAIN after \subseteq DOMAIN after
        /\ m = flows[k].pending_messages /\ b = flows[k].pending_bytes
    BY <1>1, <1>2, <1>4
  <2> HIDE DEF m, b
  <2> QED BY ONLY <1>6, <2>1, CoversLeave DEF a
<1>8. Balanced(cs, after, ConnectionOf(after), {})
  <2> DEFINE owner == ConnectionOf(flows)
             owner2 == ConnectionOf(after)
  <2>1. /\ DOMAIN owner = DOMAIN flows /\ IsFiniteSet(DOMAIN flows)
        /\ Counters(flows, DOMAIN flows) /\ Balanced(ep.connections, flows, owner, {})
        /\ k \in DOMAIN flows /\ owner[k] \notin {}
        /\ DOMAIN owner2 = DOMAIN after /\ DOMAIN after = DOMAIN flows \ {k}
        /\ \A j \in DOMAIN after : owner2[j] = owner[j] /\ SameCounters(flows, after, j)
    BY <1>1, <1>2, <1>4, <1>6 DEF ConnectionOf
  <2>2. owner[k] = c
    BY <1>4 DEF ConnectionOf
  <2> HIDE DEF owner, owner2, c
  <2>3. Balanced(Release(ep.connections, owner[k], flows[k].pending_messages,
                         flows[k].pending_bytes), after, owner2, {})
    BY ONLY <2>1, BalancedLeave
  <2> QED BY <2>2, <2>3 DEF owner2
<1>9. Balanced(ss, after, SessionOf(after), {NoSession})
  <2> DEFINE owner == SessionOf(flows)
             owner2 == SessionOf(after)
  <2>1. /\ DOMAIN owner = DOMAIN flows /\ IsFiniteSet(DOMAIN flows)
        /\ Counters(flows, DOMAIN flows) /\ Balanced(ep.sessions, flows, owner, {NoSession})
        /\ k \in DOMAIN flows
        /\ DOMAIN owner2 = DOMAIN after /\ DOMAIN after = DOMAIN flows \ {k}
        /\ \A j \in DOMAIN after : owner2[j] = owner[j] /\ SameCounters(flows, after, j)
    BY <1>1, <1>2, <1>4, <1>6 DEF SessionOf
  <2>2. owner[k] = f.session
    BY <1>4 DEF SessionOf
  <2>3. CASE f.session = NoSession
    <3>1. \A s : s \notin {NoSession} => Members(owner2, s) = Members(owner, s)
      <4> HIDE DEF owner, owner2
      <4> QED BY <2>1, <2>2, <2>3 DEF Members
    <3>2. \A j \in DOMAIN owner : owner[j] \notin {NoSession} => SameCounters(flows, after, j)
      BY <1>2, <2>1, <2>2, <2>3
    <3>3. ss = ep.sessions
      BY <2>3 DEF ss
    <3> HIDE DEF owner, owner2
    <3>4. Balanced(ep.sessions, after, owner2, {NoSession})
      BY ONLY <2>1, <3>1, <3>2, BalancedStays
    <3> QED BY <3>3, <3>4 DEF owner2
  <2>4. CASE f.session # NoSession
    <3>1. owner[k] \notin {NoSession}
      BY <2>2, <2>4
    <3>2. ss = Release(ep.sessions, f.session, m, b)
      BY <2>4 DEF ss
    <3> HIDE DEF owner, owner2
    <3>3. Balanced(Release(ep.sessions, owner[k], flows[k].pending_messages,
                           flows[k].pending_bytes), after, owner2, {NoSession})
      BY ONLY <2>1, <3>1, BalancedLeave
    <3> QED BY <2>2, <3>2, <3>3 DEF owner2
  <2> QED BY <2>3, <2>4
<1> HIDE DEF a, cs, out
<1>10. EndpointInv(out)
  <2>1. IsEndpoint(out)
    BY <1>1, <1>3 DEF IsEndpoint
  <2>2. /\ out.flows = after /\ out.aggregate = a /\ out.connections = cs
        /\ out.sessions = ss
    BY <1>3
  <2> QED BY <1>5, <1>7, <1>8, <1>9, <2>1, <2>2 DEF EndpointInv, ScopesInv
<1>11. DOMAIN out.flows = DOMAIN flows \ {k}
  BY <1>2, <1>3
<1> QED BY <1>10, <1>11 DEF out, flows

\* What a receiver does with a transfer: a flow that cannot keep its promise ends,
\* any other keeps its books.
LEMMA ReceiveKeeps ==
  ASSUME NEW ep, EndpointInv(ep), NEW k, CanReceive(ep, k), NEW mode \in Mode,
         NEW t \in Transfer
  PROVE  EndpointInv(Receive(ep, k, mode, t))
<1> DEFINE f == ep.flows[k]
<1>1. k \in DOMAIN ep.flows /\ k.direction = "Inbound"
  BY DEF CanReceive
<1>2. CASE FailsReliably(ep, k, mode, t)
  BY <1>1, <1>2, TerminateKeeps DEF Receive
<1>3. CASE ~FailsReliably(ep, k, mode, t) /\ IsIgnored(f, mode, t)
  BY <1>3 DEF Receive
<1>4. CASE ~FailsReliably(ep, k, mode, t) /\ ~IsIgnored(f, mode, t) /\ mode = Reliable
  <2>1. f.mode = Reliable
    BY <1>4 DEF IsIgnored, IsProper
  <2>2. ~IsDuplicate(f, t)
    BY <1>4, <2>1 DEF IsIgnored
  <2>3. CanAddPending(ep, k, PayloadBytes[t.payload])
    BY <1>4, <2>1, <2>2 DEF FailsReliably
  <2> HIDE DEF f
  <2>4. EndpointInv(BufferReliable(ep, k, t))
    BY <1>1, <2>2, <2>3, BufferReliableKeeps DEF f
  <2> QED BY <1>4, <2>4 DEF Receive, f
<1>5. CASE ~FailsReliably(ep, k, mode, t) /\ ~IsIgnored(f, mode, t) /\ mode # Reliable
  BY <1>1, <1>5, BufferUnreliableKeeps DEF Receive
<1> QED BY <1>2, <1>3, <1>4, <1>5

-----------------------------------------------------------------------------
(* The end of a connection                                                 *)

\* One step of ending the flows s of ep, when g says what ending fewer leaves.
EndStep(ep, g, s) ==
  IF s = {} THEN ep
  ELSE Terminate(g[s \ {CHOOSE x \in s : TRUE}], CHOOSE x \in s : TRUE)

\* g says what ending the flows of each subset of T leaves of ep.
IsEnd(ep, T, g) == g = [s \in SUBSET T |-> EndStep(ep, g, s)]

\* TerminateConnection reads off such a table.
LEMMA EndUnfolds ==
  ASSUME NEW ep, NEW S
  PROVE  FoldSet(LAMBDA k, e : Terminate(e, k), ep, S) = (CHOOSE g : IsEnd(ep, S, g))[S]
BY DEF FoldSet, MapThenFoldSet, IsEnd, EndStep

\* Two tables agree where both are defined.
LEMMA EndsAgree ==
  ASSUME NEW ep, NEW T, NEW T2, NEW g, IsEnd(ep, T, g), NEW h, IsEnd(ep, T2, h),
         NEW V, IsFiniteSet(V), V \in SUBSET T, V \in SUBSET T2
  PROVE  g[V] = h[V]
<1> DEFINE Bad == {U \in SUBSET V : g[U] # h[U]}
<1> SUFFICES ASSUME Bad # {} PROVE FALSE
  OBVIOUS
<1>1. PICK U \in Bad : \A W \in Bad : W \subseteq U => W = U
  <2>1. Bad \subseteq SUBSET V
    OBVIOUS
  <2> HIDE DEF Bad
  <2> QED BY <2>1, SmallestSet
<1>2. g[U] = EndStep(ep, g, U) /\ h[U] = EndStep(ep, h, U)
  BY DEF IsEnd
<1>3. U # {}
  BY <1>2 DEF EndStep
<1> DEFINE c == CHOOSE x \in U : TRUE
<1>4. c \in U
  BY <1>3
<1>5. g[U \ {c}] = h[U \ {c}]
  BY <1>1, <1>4
<1> QED
  BY <1>1, <1>2, <1>5 DEF EndStep

\* There is a table for every finite set.
LEMMA EndsExist ==
  ASSUME NEW ep, NEW S, IsFiniteSet(S)
  PROVE  \E g : IsEnd(ep, S, g)
<1> DEFINE Bad == {T \in SUBSET S : ~ \E g : IsEnd(ep, T, g)}
<1> SUFFICES ASSUME Bad # {} PROVE FALSE
  OBVIOUS
<1>1. PICK T \in Bad : \A W \in Bad : W \subseteq T => W = T
  <2>1. Bad \subseteq SUBSET S
    OBVIOUS
  <2> HIDE DEF Bad
  <2> QED BY <2>1, SmallestSet
<1> DEFINE G(U) == (CHOOSE g : IsEnd(ep, U, g))
           c(s) == CHOOSE x \in s : TRUE
           h == [s \in SUBSET T |-> IF s = {} THEN ep
                                    ELSE Terminate(G(s \ {c(s)})[s \ {c(s)}], c(s))]
<1>2. \A U \in SUBSET T : U # T => IsEnd(ep, U, G(U))
  BY <1>1
<1>3. ASSUME NEW s \in SUBSET T, s # {}
      PROVE  G(s \ {c(s)})[s \ {c(s)}] = h[s \ {c(s)}]
  <2> DEFINE U == s \ {c(s)}
  <2>1. c(s) \in s
    BY <1>3
  <2>2. U \in SUBSET T /\ U # T
    BY <2>1
  <2>3. IsEnd(ep, U, G(U))
    BY <2>2, <1>2
  <2>4. G(U)[U] = EndStep(ep, G(U), U)
    BY <2>3 DEF IsEnd
  <2>5. CASE U = {}
    BY <2>4, <2>5 DEF EndStep
  <2>6. CASE U # {}
    <3> DEFINE V == U \ {c(U)}
    <3>1. c(U) \in U
      BY <2>6
    <3>2. V \in SUBSET T /\ V # T /\ V \subseteq U
      BY <2>2, <3>1
    <3>3. IsEnd(ep, V, G(V))
      BY <3>2, <1>2
    <3>4. G(U)[V] = G(V)[V]
      <4>1. IsFiniteSet(V) /\ V \in SUBSET U /\ V \in SUBSET V
        BY <1>1, <2>2, <3>2, FS_Subset
      <4> HIDE DEF G, U, V
      <4> QED BY <2>3, <3>3, <4>1, EndsAgree
    <3>5. G(U)[U] = Terminate(G(U)[V], c(U))
      BY <2>4, <2>6 DEF EndStep
    <3>6. h[U] = Terminate(G(V)[V], c(U))
      BY <2>2, <2>6
    <3>7. h[U] = G(U)[U]
      <4> HIDE DEF G, U, V, h
      <4> QED BY <3>4, <3>5, <3>6
    <3> HIDE DEF G, h, c
    <3> QED BY <3>7
  <2> QED BY <2>5, <2>6
<1>4. IsEnd(ep, T, h)
  <2>1. ASSUME NEW s \in SUBSET T
        PROVE  h[s] = EndStep(ep, h, s)
    <3>1. CASE s = {}
      BY <3>1 DEF EndStep
    <3>2. CASE s # {}
      <4>1. h[s] = Terminate(G(s \ {c(s)})[s \ {c(s)}], c(s))
        BY <3>2
      <4>2. h[s] = Terminate(h[s \ {c(s)}], c(s))
        <5>1. G(s \ {c(s)})[s \ {c(s)}] = h[s \ {c(s)}]
          BY <3>2, <1>3
        <5> HIDE DEF G, h, c
        <5> QED BY <4>1, <5>1
      <4> HIDE DEF h
      <4> QED BY <3>2, <4>2 DEF EndStep
    <3> QED BY <3>1, <3>2
  <2>2. h = [s \in SUBSET T |-> h[s]]
    OBVIOUS
  <2> HIDE DEF h
  <2> QED BY <2>1, <2>2 DEF IsEnd
<1> QED
  BY <1>1, <1>4

-----------------------------------------------------------------------------
(* What an operation changes                                               *)

\* The flow k is still the same flow, and the others are as they were.
OnlyFlow(ep, after, k) ==
  /\ DOMAIN after.flows = DOMAIN ep.flows
  /\ \A j \in DOMAIN ep.flows \ {k} : after.flows[j] = ep.flows[j]
  /\ after.flows[k].mode = ep.flows[k].mode
  /\ after.flows[k].policy = ep.flows[k].policy
  /\ after.flows[k].session = ep.flows[k].session

\* Nothing was received or exposed; nothing was accepted or taken.
SameInbound(f, g) ==
  /\ g.by_index = f.by_index /\ g.next_exposure = f.next_exposure
  /\ g.queue = f.queue /\ g.last_exposed_sequence = f.last_exposed_sequence
SameOutbound(f, g) ==
  g.next_accepted_index = f.next_accepted_index /\ g.outbound = f.outbound

\* What is left of the queue q without its n oldest entries.
Rest(q, n) == SubSeq(q, n + 1, Len(q))

\* A charge leaves everything of a flow as it is but its counters.
LEMMA WithKeeps ==
  ASSUME NEW f, f \in FlowRecord(f.session), NEW m \in Int, NEW b \in Int
  PROVE  /\ SameInbound(f, With(f, m, b)) /\ SameOutbound(f, With(f, m, b))
         /\ With(f, m, b).mode = f.mode /\ With(f, m, b).policy = f.policy
         /\ With(f, m, b).session = f.session
BY DEF With, FlowRecord, SameInbound, SameOutbound

\* The flows a charge leaves.
LEMMA ChargeChanges ==
  ASSUME NEW mid, IsMap(mid.flows), NEW k \in DOMAIN mid.flows,
         mid = [aggregate |-> mid.aggregate, connections |-> mid.connections,
                sessions |-> mid.sessions, flows |-> mid.flows,
                outbound_drops |-> mid.outbound_drops, inbound_drops |-> mid.inbound_drops],
         NEW f, f = mid.flows[k], f \in FlowRecord(f.session), NEW m \in Int, NEW b \in Int
  PROVE  Charge(mid, k, m, b).flows = [mid.flows EXCEPT ![k] = With(f, m, b)]
<1> DEFINE ep == Charge(mid, k, m, b)
           fs == [mid.flows EXCEPT ![k] = [mid.flows[k] EXCEPT !.pending_messages = @ + m,
                                                               !.pending_bytes = @ + b]]
           ag == Add(mid.aggregate, 0, m, b)
           cs == [mid.connections EXCEPT ![k.connection] = Add(@, 0, m, b)]
           ss == [mid.sessions EXCEPT ![f.session] = Add(@, 0, m, b)]
<1>1. [[mid.flows EXCEPT ![k].pending_messages = @ + m] EXCEPT ![k].pending_bytes = @ + b] = fs
  <2>1. mid.flows[k] \in FlowRecord(mid.flows[k].session)
    OBVIOUS
  <2> QED BY <2>1 DEF IsMap, FlowRecord
<1>2. ep = [mid EXCEPT !.flows = fs, !.connections = cs, !.aggregate = ag, !.sessions = ss]
  BY <1>1 DEF Charge
<1> HIDE DEF fs, ag, cs, ss, ep
<1>3. ep.flows = fs
  BY <1>2
<1>4. fs = [mid.flows EXCEPT ![k] = With(f, m, b)]
  BY DEF fs, With
<1> QED BY <1>3, <1>4 DEF ep

\* mid is ep with f, the same flow, in the place of its flow k, and o and i drops
\* counted.
IsRedraft(ep, mid, k, f, o, i) ==
  /\ EndpointInv(ep) /\ k \in DOMAIN ep.flows
  /\ f \in FlowRecord(f.session)
  /\ f.mode = ep.flows[k].mode /\ f.policy = ep.flows[k].policy
  /\ f.session = ep.flows[k].session
  /\ mid = [ep EXCEPT !.flows = [ep.flows EXCEPT ![k] = f],
                      !.outbound_drops = o, !.inbound_drops = i]

\* It changes one flow, charged or not.
LEMMA RewriteChanges ==
  ASSUME NEW ep, NEW mid, NEW k, NEW f, NEW o, NEW i, IsRedraft(ep, mid, k, f, o, i),
         NEW m \in Int, NEW b \in Int
  PROVE  /\ OnlyFlow(ep, mid, k) /\ mid.flows[k] = f
         /\ OnlyFlow(ep, Charge(mid, k, m, b), k)
         /\ Charge(mid, k, m, b).flows[k] = With(f, m, b)
<1> USE DEF IsRedraft
<1> DEFINE fs == [ep.flows EXCEPT ![k] = f]
<1>1. /\ ep = [aggregate |-> ep.aggregate, connections |-> ep.connections,
               sessions |-> ep.sessions, flows |-> ep.flows,
               outbound_drops |-> ep.outbound_drops, inbound_drops |-> ep.inbound_drops]
      /\ IsMap(ep.flows)
  BY EndpointHas
<1>2. fs[k] = f /\ DOMAIN fs = DOMAIN ep.flows /\ \A j \in DOMAIN fs \ {k} : fs[j] = ep.flows[j]
  BY <1>1 DEF IsMap
<1>3. IsMap(fs)
  BY <1>1 DEF IsMap
<1> HIDE DEF fs
<1>4. mid = [aggregate |-> ep.aggregate, connections |-> ep.connections,
             sessions |-> ep.sessions, flows |-> fs,
             outbound_drops |-> o, inbound_drops |-> i]
  BY <1>1 DEF fs
<1>5. /\ mid.flows = fs
      /\ mid = [aggregate |-> mid.aggregate, connections |-> mid.connections,
                sessions |-> mid.sessions, flows |-> mid.flows,
                outbound_drops |-> mid.outbound_drops, inbound_drops |-> mid.inbound_drops]
  BY ONLY <1>4
<1>6. /\ f \in FlowRecord(f.session) /\ m \in Int /\ b \in Int
      /\ k \in DOMAIN mid.flows /\ f = mid.flows[k] /\ IsMap(mid.flows)
  BY <1>2, <1>3, <1>5
<1>7. /\ mid.flows = fs /\ Charge(mid, k, m, b).flows = [mid.flows EXCEPT ![k] = With(f, m, b)]
      /\ With(f, m, b).mode = f.mode /\ With(f, m, b).policy = f.policy
      /\ With(f, m, b).session = f.session
  <2>1. Charge(mid, k, m, b).flows = [mid.flows EXCEPT ![k] = With(f, m, b)]
    BY ONLY <1>5, <1>6, ChargeChanges
  <2>2. /\ With(f, m, b).mode = f.mode /\ With(f, m, b).policy = f.policy
        /\ With(f, m, b).session = f.session
    BY ONLY <1>6, WithKeeps
  <2> QED BY <1>5, <2>1, <2>2
<1>8. OnlyFlow(ep, mid, k) /\ mid.flows[k] = f
  BY <1>2, <1>5 DEF OnlyFlow
<1> DEFINE after == Charge(mid, k, m, b)
           h == With(f, m, b)
<1>9. /\ after.flows = [fs EXCEPT ![k] = h] /\ h.mode = f.mode /\ h.policy = f.policy
      /\ h.session = f.session
  BY <1>7
<1> HIDE DEF after, h
<1>10. OnlyFlow(ep, after, k) /\ after.flows[k] = h
  BY <1>2, <1>3, <1>9 DEF OnlyFlow, IsMap
<1> QED BY <1>8, <1>10 DEF after, h

\* What may be left of the queue out of f: its newest entries, and all of them if
\* nothing may be evicted.
Kept(f, left) ==
  /\ \E n \in 0 .. Len(f.outbound) : left = Rest(f.outbound, n)
  /\ f.policy.outbound = "RejectNew" => left = f.outbound

\* Making room drops the oldest submissions, and of a reliable flow none.
LEMMA MakeRoomChanges ==
  ASSUME NEW ep, EndpointInv(ep), NEW k \in DOMAIN ep.flows, NEW b,
         NEW room, room = MakeRoom(ep, k, b)
  PROVE  /\ EndpointInv(room) /\ OnlyFlow(ep, room, k)
         /\ SameInbound(ep.flows[k], room.flows[k])
         /\ room.flows[k].next_accepted_index = ep.flows[k].next_accepted_index
         /\ Kept(ep.flows[k], room.flows[k].outbound)
<1> DEFINE f == ep.flows[k]
           Fits(n) == CanAddPending(DropOutbound(ep, k, n), k, b)
           z == Len(f.outbound)
           S == {n \in 0 .. z : Fits(n)} \cup {z}
           e == Min(S)
<1>1. f \in FlowRecord(f.session) /\ z \in Nat /\ f.outbound \in Seq(Transfer)
  BY EndpointHas, ContentsAre
<1>2. CASE f.policy.outbound = "RejectNew"
  <2>1. room = ep
    BY <1>2 DEF MakeRoom
  <2>2. Rest(f.outbound, 0) = f.outbound
    <3>1. \A q \in Seq(Transfer) : SubSeq(q, 0 + 1, Len(q)) = q
      OBVIOUS
    <3> HIDE DEF f
    <3> QED BY <1>1, <3>1 DEF Rest
  <2>3. Kept(f, f.outbound)
    <3>1. 0 \in 0 .. z
      BY <1>1
    <3> QED BY <2>2, <3>1 DEF Kept
  <2> QED BY <2>1, <2>3 DEF OnlyFlow, SameInbound
<1>3. CASE f.policy.outbound # "RejectNew"
  <2>1. room = DropOutbound(ep, k, e)
    BY <1>3 DEF MakeRoom, Evictions
  <2>2. e \in 0 .. z
    <3>1. S \subseteq 0 .. z /\ S # {}
      BY <1>1
    <3> HIDE DEF S, z
    <3> QED BY <1>1, <3>1, MinOfRange
  <2> HIDE DEF e
  <2> DEFINE gone == SubSeq(f.outbound, 1, e)
             left == Rest(f.outbound, e)
             f1 == [f EXCEPT !.outbound = left]
             g == With(f1, -e, -Bytes(gone))
  <2>3. Leaves(ep, ep, room, k, g)
    BY <2>1, <2>2, OutboundIsDropped DEF Rest
  <2>4. /\ SameInbound(f, g) /\ g.next_accepted_index = f.next_accepted_index
        /\ g.outbound = left /\ g.mode = f.mode /\ g.policy = f.policy
        /\ g.session = f.session
    <3> HIDE DEF left, f
    <3> QED BY <1>1 DEF With, FlowRecord, SameInbound
  <2>5. Kept(f, left)
    BY <1>3, <2>2 DEF Kept
  <2>6. IsMap(ep.flows)
    BY EndpointHas
  <2> HIDE DEF g, left
  <2> QED BY <2>3, <2>4, <2>5, <2>6 DEF Leaves, OnlyFlow, IsMap
<1> QED BY <1>2, <1>3

\* A submission that is accepted goes to the end of the queue with the next index; one
\* that is not may still have evicted others.
Submitted(f, g, p, accepts) ==
  /\ SameInbound(f, g)
  /\ \E left \in Seq(Transfer) :
       /\ Kept(f, left)
       /\ accepts =>
            /\ g.next_accepted_index = f.next_accepted_index + 1
            /\ g.outbound = Append(left, [index |-> f.next_accepted_index, payload |-> p])
       /\ ~accepts => g.next_accepted_index = f.next_accepted_index /\ g.outbound = left

\* So a submission does.
LEMMA SubmitChanges ==
  ASSUME NEW ep, EndpointInv(ep), NEW k, NEW p \in Payloads, CanSubmit(ep, k, p),
         NEW out, out = Submit(ep, k, p)
  PROVE  /\ EndpointInv(out) /\ OnlyFlow(ep, out, k) /\ k \in DOMAIN ep.flows
         /\ Submitted(ep.flows[k], out.flows[k], p, Accepts(ep, k, p))
<1> DEFINE b == PayloadBytes[p]
           room == MakeRoom(ep, k, b)
           drops == Len(ep.flows[k].outbound) - Len(room.flows[k].outbound)
           f == room.flows[k]
           t == [index |-> ep.flows[k].next_accepted_index, payload |-> p]
           f1 == [f EXCEPT !.next_accepted_index = @ + 1, !.outbound = Append(@, t)]
           o == Counted(room.outbound_drops, drops)
           mid == [room EXCEPT !.flows[k].next_accepted_index = @ + 1,
                               !.flows[k].outbound = Append(@, t),
                               !.outbound_drops = Counted(@, drops)]
<1>1. k \in DOMAIN ep.flows /\ ep.flows[k].next_accepted_index \in Index /\ EndpointInv(out)
  BY SubmitKeeps DEF CanSubmit
<1>2. /\ EndpointInv(room) /\ OnlyFlow(ep, room, k) /\ k \in DOMAIN room.flows
      /\ SameInbound(ep.flows[k], f)
      /\ f.next_accepted_index = ep.flows[k].next_accepted_index
      /\ Kept(ep.flows[k], f.outbound)
  BY <1>1, MakeRoomChanges DEF OnlyFlow
<1>3. /\ f \in FlowRecord(f.session) /\ IsMap(room.flows) /\ f.outbound \in Seq(Transfer)
      /\ room = [aggregate |-> room.aggregate, connections |-> room.connections,
                 sessions |-> room.sessions, flows |-> room.flows,
                 outbound_drops |-> room.outbound_drops,
                 inbound_drops |-> room.inbound_drops]
  BY <1>2, EndpointHas, ContentsAre
<1>4. CASE ~Accepts(ep, k, p)
  <2>1. out = room
    BY <1>4 DEF Submit
  <2> QED BY <1>1, <1>2, <1>3, <1>4, <2>1 DEF Submitted
<1>5. CASE Accepts(ep, k, p)
  <2>1. out = Charge(mid, k, 1, b)
    BY <1>5 DEF Submit
  <2> HIDE DEF room
  <2>2. t \in Transfer /\ b \in Int
    BY <1>1, DeliveryAssumption DEF Transfer
  <2>3. f1 \in FlowRecord(f1.session) /\ f1.session = f.session /\ f1.mode = f.mode
        /\ f1.policy = f.policy /\ SameInbound(f, f1)
        /\ f1.next_accepted_index = f.next_accepted_index + 1
        /\ f1.outbound = Append(f.outbound, t)
    <3>1. Append(f.outbound, t) \in Seq(Transfer)
      <4> HIDE DEF t, f
      <4> QED BY <1>3, <2>2, AppendProperties
    <3>2. f.next_accepted_index + 1 \in 0 .. MaxIndex + 1
      BY <1>1, <1>2, DeliveryAssumption DEF Index
    <3> HIDE DEF t, f
    <3> QED BY <1>3, <3>1, <3>2 DEF FlowRecord, SameInbound
  <2>4. mid = [room EXCEPT !.flows = [room.flows EXCEPT ![k] = f1],
                           !.outbound_drops = o, !.inbound_drops = room.inbound_drops]
    <3> DEFINE first == [room.flows EXCEPT ![k] = [f EXCEPT !.next_accepted_index = @ + 1]]
               then == [first EXCEPT ![k] = [first[k] EXCEPT !.outbound = Append(f.outbound, t)]]
    <3> HIDE DEF drops, t
    <3>1. then = [room.flows EXCEPT ![k] = f1]
      BY <1>2, <1>3 DEF FlowRecord, IsMap
    <3>2. mid = [[[room EXCEPT !.flows = first] EXCEPT !.flows = then]
                   EXCEPT !.outbound_drops = o]
      <4>1. [room EXCEPT !.flows = first].flows = first
        BY <1>3
      <4> QED BY <4>1, Zenon
    <3> HIDE DEF f1, first, then, mid, o
    <3> QED BY <1>3, <3>1, <3>2
  <2> HIDE DEF f1, mid, b, f, drops, o, t
  <2>5. OnlyFlow(room, out, k) /\ out.flows[k] = With(f1, 1, b)
    <3>1. 1 \in Int
      OBVIOUS
    <3>2. IsRedraft(room, mid, k, f1, o, room.inbound_drops)
      BY <1>2, <2>3, <2>4 DEF f, IsRedraft
    <3> QED BY <2>1, <2>2, <3>1, <3>2, RewriteChanges
  <2>6. SameInbound(f1, out.flows[k]) /\ SameOutbound(f1, out.flows[k])
    <3>1. 1 \in Int
      OBVIOUS
    <3> QED BY ONLY <2>2, <2>3, <2>5, <3>1, WithKeeps
  <2>7. OnlyFlow(ep, out, k)
    BY <1>1, <1>2, <2>5 DEF OnlyFlow
  <2>8. Submitted(ep.flows[k], out.flows[k], p, Accepts(ep, k, p))
    BY <1>2, <1>3, <1>5, <2>3, <2>6 DEF Submitted, SameInbound, SameOutbound, t
  <2> QED BY <1>1, <2>7, <2>8
<1> QED BY <1>4, <1>5

\* The transport takes the front transfer.
LEMMA CommitChanges ==
  ASSUME NEW ep, EndpointInv(ep), NEW k, CanCommitCustody(ep, k),
         NEW out, out = CommitCustody(ep, k)
  PROVE  /\ EndpointInv(out) /\ OnlyFlow(ep, out, k) /\ k \in DOMAIN ep.flows
         /\ ep.flows[k].outbound \in Seq(Transfer) /\ ep.flows[k].outbound # <<>>
         /\ SameInbound(ep.flows[k], out.flows[k])
         /\ out.flows[k].next_accepted_index = ep.flows[k].next_accepted_index
         /\ out.flows[k].outbound = Tail(ep.flows[k].outbound)
<1> DEFINE f == ep.flows[k]
           left == SubSeq(f.outbound, 1 + 1, Len(f.outbound))
           g == With([f EXCEPT !.outbound = left], -1, -Bytes(SubSeq(f.outbound, 1, 1)))
<1>1. k \in DOMAIN ep.flows /\ f.outbound # <<>> /\ EndpointInv(out)
  BY CommitKeeps DEF CanCommitCustody
<1>2. f \in FlowRecord(f.session) /\ f.outbound \in Seq(Transfer) /\ IsMap(ep.flows)
  BY <1>1, EndpointHas, ContentsAre
<1>3. 1 \in 0 .. Len(f.outbound) /\ left = Tail(f.outbound)
  <2>1. \A q \in Seq(Transfer) :
          q # <<>> => 1 \in 0 .. Len(q) /\ SubSeq(q, 1 + 1, Len(q)) = Tail(q)
    OBVIOUS
  <2> HIDE DEF f
  <2> QED BY <1>1, <1>2, <2>1
<1>4. Leaves(ep, ep, out, k, g)
  BY <1>1, <1>3, OutboundIsDropped DEF CommitCustody
<1>5. /\ SameInbound(f, g) /\ g.next_accepted_index = f.next_accepted_index
      /\ g.outbound = left /\ g.mode = f.mode /\ g.policy = f.policy
      /\ g.session = f.session
  <2> HIDE DEF left, f
  <2> QED BY <1>2 DEF With, FlowRecord, SameInbound
<1> HIDE DEF g, left
<1>6. OnlyFlow(ep, out, k) /\ out.flows[k] = g
  BY <1>1, <1>2, <1>4, <1>5 DEF Leaves, OnlyFlow, IsMap
<1> QED BY <1>1, <1>2, <1>3, <1>5, <1>6 DEF SameInbound

\* Dropping the oldest n transfers in the queue of a receiver.
LEMMA DropQueuedChanges ==
  ASSUME NEW ep, EndpointInv(ep), NEW k \in DOMAIN ep.flows,
         NEW n \in 0 .. Len(ep.flows[k].queue), NEW room, room = DropQueued(ep, k, n)
  PROVE  /\ EndpointInv(room) /\ OnlyFlow(ep, room, k) /\ k \in DOMAIN room.flows
         /\ SameOutbound(ep.flows[k], room.flows[k])
         /\ room.flows[k].by_index = ep.flows[k].by_index
         /\ room.flows[k].next_exposure = ep.flows[k].next_exposure
         /\ room.flows[k].last_exposed_sequence = ep.flows[k].last_exposed_sequence
         /\ room.flows[k].queue = Rest(ep.flows[k].queue, n)
<1> DEFINE f == ep.flows[k]
           gone == SubSeq(f.queue, 1, n)
           left == Rest(f.queue, n)
           g == With([f EXCEPT !.queue = left], -n, -Bytes(gone))
<1>1. f \in FlowRecord(f.session) /\ IsMap(ep.flows)
  BY EndpointHas
<1>2. Leaves(ep, ep, room, k, g)
  BY QueueIsDropped DEF Rest
<1>3. /\ SameOutbound(f, g) /\ g.by_index = f.by_index /\ g.next_exposure = f.next_exposure
      /\ g.last_exposed_sequence = f.last_exposed_sequence /\ g.queue = left
      /\ g.mode = f.mode /\ g.policy = f.policy /\ g.session = f.session
  <2> HIDE DEF left, f
  <2> QED BY <1>1 DEF With, FlowRecord, SameOutbound
<1> HIDE DEF g, left
<1>4. OnlyFlow(ep, room, k) /\ room.flows[k] = g /\ EndpointInv(room) /\ k \in DOMAIN room.flows
  BY <1>1, <1>2, <1>3 DEF Leaves, OnlyFlow, IsMap
<1> QED BY <1>3, <1>4 DEF SameOutbound, left

\* A reliable transfer goes to the buffer.
LEMMA BufferReliableChanges ==
  ASSUME NEW ep, EndpointInv(ep), NEW k \in DOMAIN ep.flows, NEW t \in Transfer,
         t.index \notin DOMAIN ep.flows[k].by_index, NEW out, out = BufferReliable(ep, k, t)
  PROVE  /\ OnlyFlow(ep, out, k) /\ SameOutbound(ep.flows[k], out.flows[k])
         /\ out.flows[k].by_index = Put(ep.flows[k].by_index, t.index, t.payload)
         /\ out.flows[k].next_exposure = ep.flows[k].next_exposure
         /\ out.flows[k].last_exposed_sequence = ep.flows[k].last_exposed_sequence
         /\ out.flows[k].queue = ep.flows[k].queue
<1> DEFINE b == PayloadBytes[t.payload]
           f == ep.flows[k]
           x == Put(f.by_index, t.index, t.payload)
           f1 == [f EXCEPT !.by_index = x]
           mid == [ep EXCEPT !.flows[k].by_index = Put(@, t.index, t.payload)]
<1>1. /\ f \in FlowRecord(f.session) /\ IsMap(ep.flows) /\ f.by_index \in Buffer
      /\ t.index \in Index /\ t.payload \in Payloads /\ b \in Int
  <2>1. f \in FlowRecord(f.session) /\ IsMap(ep.flows)
    BY EndpointHas
  <2>2. f.by_index \in Buffer
    BY <2>1, ContentsAre
  <2>3. t.index \in Index /\ t.payload \in Payloads
    BY DEF Transfer
  <2> QED BY <2>1, <2>2, <2>3, DeliveryAssumption
<1>2. x \in Buffer
  BY <1>1, BufferPut
<1>3. mid = [ep EXCEPT !.flows = [ep.flows EXCEPT ![k] = f1],
                       !.outbound_drops = ep.outbound_drops,
                       !.inbound_drops = ep.inbound_drops]
  <2>1. ep = [aggregate |-> ep.aggregate, connections |-> ep.connections,
              sessions |-> ep.sessions, flows |-> ep.flows,
              outbound_drops |-> ep.outbound_drops, inbound_drops |-> ep.inbound_drops]
    BY EndpointHas
  <2> HIDE DEF x
  <2>2. mid = [ep EXCEPT !.flows = [ep.flows EXCEPT ![k] = f1]]
    BY DEF x
  <2> HIDE DEF f1, mid
  <2> QED BY <2>1, <2>2
<1>4. out = Charge(mid, k, 1, b)
  BY DEF BufferReliable
<1>5. /\ f1 \in FlowRecord(f1.session) /\ f1.mode = f.mode /\ f1.policy = f.policy
      /\ f1.session = f.session /\ SameOutbound(f, f1) /\ f1.by_index = x
      /\ f1.next_exposure = f.next_exposure
      /\ f1.last_exposed_sequence = f.last_exposed_sequence /\ f1.queue = f.queue
  <2> HIDE DEF f, x
  <2> QED BY <1>1, <1>2 DEF FlowRecord, SameOutbound
<1> HIDE DEF f1, mid, x, b
<1>6. IsRedraft(ep, mid, k, f1, ep.outbound_drops, ep.inbound_drops) /\ 1 \in Int
  BY <1>3, <1>5 DEF IsRedraft
<1>7. OnlyFlow(ep, out, k) /\ out.flows[k] = With(f1, 1, b)
  <2>1. b \in Int
    BY <1>1
  <2>2. OnlyFlow(ep, Charge(mid, k, 1, b), k) /\ Charge(mid, k, 1, b).flows[k] = With(f1, 1, b)
    BY ONLY <2>1, <1>6, RewriteChanges
  <2> QED
    BY ONLY <2>2, <1>4
<1>8. SameInbound(f1, out.flows[k]) /\ SameOutbound(f1, out.flows[k])
  BY ONLY <1>1, <1>5, <1>6, <1>7, WithKeeps
<1> QED BY <1>5, <1>7, <1>8 DEF SameInbound, SameOutbound, x

\* The queue into g is what evictions left of the one into f, with the transfer t at its
\* end unless t was dropped.
Queued(f, g, t) ==
  /\ SameOutbound(f, g) /\ g.by_index = f.by_index
  /\ g.next_exposure = f.next_exposure
  /\ g.last_exposed_sequence = f.last_exposed_sequence
  /\ \E n \in 0 .. Len(f.queue) : g.queue \in {Rest(f.queue, n), Append(Rest(f.queue, n), t)}

\* An unreliable transfer is queued or dropped.
LEMMA BufferUnreliableChanges ==
  ASSUME NEW ep, EndpointInv(ep), NEW k \in DOMAIN ep.flows, NEW t \in Transfer,
         NEW out, out = BufferUnreliable(ep, k, t)
  PROVE  OnlyFlow(ep, out, k) /\ Queued(ep.flows[k], out.flows[k], t)
<1> DEFINE b == PayloadBytes[t.payload]
           z == Len(ep.flows[k].queue)
           Fits(n) == CanAddPending(DropQueued(ep, k, n), k, b)
           S == {n \in 0 .. z : Fits(n)} \cup {z}
           drops == IF ep.flows[k].policy.receiver = "EvictOldest" THEN Min(S) ELSE 0
           room == DropQueued(ep, k, drops)
           f == room.flows[k]
           f1 == [f EXCEPT !.queue = Append(@, t)]
           mid == [room EXCEPT !.flows[k].queue = Append(@, t),
                               !.inbound_drops = Counted(@, drops)]
           less == [room EXCEPT !.inbound_drops = Counted(@, drops + 1)]
<1>1. out = IF Fits(drops) THEN Charge(mid, k, 1, b) ELSE less
  BY DEF BufferUnreliable, Evictions, DropIncoming
<1>2. drops \in 0 .. z
  <2>1. z \in Nat
    BY EndpointHas
  <2>2. S \subseteq 0 .. z /\ S # {}
    BY <2>1
  <2> HIDE DEF S, z
  <2>3. Min(S) \in 0 .. z
    BY <2>1, <2>2, MinOfRange
  <2> QED BY <2>1, <2>3
<1> HIDE DEF drops
<1>3. /\ EndpointInv(room) /\ OnlyFlow(ep, room, k) /\ k \in DOMAIN room.flows
      /\ SameOutbound(ep.flows[k], f) /\ f.by_index = ep.flows[k].by_index
      /\ f.next_exposure = ep.flows[k].next_exposure
      /\ f.last_exposed_sequence = ep.flows[k].last_exposed_sequence
      /\ f.queue = Rest(ep.flows[k].queue, drops)
  BY <1>2, DropQueuedChanges
<1> HIDE DEF room
<1>4. /\ f \in FlowRecord(f.session) /\ IsMap(room.flows) /\ f.queue \in Seq(Transfer)
      /\ room = [aggregate |-> room.aggregate, connections |-> room.connections,
                 sessions |-> room.sessions, flows |-> room.flows,
                 outbound_drops |-> room.outbound_drops,
                 inbound_drops |-> room.inbound_drops]
  BY <1>3, EndpointHas, ContentsAre
<1>5. CASE Fits(drops)
  <2> DEFINE i == Counted(room.inbound_drops, drops)
             x == Append(f.queue, t)
  <2>1. out = Charge(mid, k, 1, b) /\ b \in Int
    <3>1. b \in Int
      BY DeliveryAssumption DEF Transfer
    <3> QED BY <1>1, <1>5, <3>1
  <2>2. /\ f1 \in FlowRecord(f1.session) /\ f1.mode = f.mode /\ f1.policy = f.policy
        /\ f1.session = f.session /\ SameOutbound(f, f1) /\ f1.by_index = f.by_index
        /\ f1.next_exposure = f.next_exposure
        /\ f1.last_exposed_sequence = f.last_exposed_sequence /\ f1.queue = x
    <3>1. x \in Seq(Transfer) /\ f1 = [f EXCEPT !.queue = x]
      BY <1>4, AppendProperties
    <3> HIDE DEF x, f, f1
    <3> QED BY <1>4, <3>1 DEF FlowRecord, SameOutbound
  <2>3. mid = [room EXCEPT !.flows = [room.flows EXCEPT ![k] = f1],
                           !.outbound_drops = room.outbound_drops, !.inbound_drops = i]
    <3>1. [room.flows EXCEPT ![k].queue = Append(@, t)] = [room.flows EXCEPT ![k] = f1]
      BY <1>3, <1>4 DEF FlowRecord, IsMap
    <3> HIDE DEF f1
    <3> QED BY <1>4, <3>1
  <2> HIDE DEF mid, f1, i, b, f, x
  <2>4. IsRedraft(room, mid, k, f1, room.outbound_drops, i) /\ 1 \in Int
    BY <1>3, <2>2, <2>3 DEF IsRedraft, f
  <2>5. OnlyFlow(room, out, k) /\ out.flows[k] = With(f1, 1, b)
    BY <2>1, <2>4, RewriteChanges
  <2>6. SameInbound(f1, out.flows[k]) /\ SameOutbound(f1, out.flows[k])
    BY ONLY <2>1, <2>2, <2>4, <2>5, WithKeeps
  <2>7. OnlyFlow(ep, out, k)
    BY <1>3, <2>5 DEF OnlyFlow
  <2>8. Queued(ep.flows[k], out.flows[k], t)
    <3>1. out.flows[k].queue = Append(Rest(ep.flows[k].queue, drops), t)
      BY <1>3, <2>2, <2>6 DEF SameInbound, x
    <3> QED BY <1>2, <1>3, <2>2, <2>6, <3>1 DEF Queued, SameInbound, SameOutbound
  <2> QED BY <2>7, <2>8
<1>6. CASE ~Fits(drops)
  <2>1. out = less
    BY <1>1, <1>6
  <2>2. out.flows = room.flows
    BY <1>4, <2>1
  <2>3. OnlyFlow(ep, out, k)
    BY <1>3, <2>2 DEF OnlyFlow
  <2>4. Queued(ep.flows[k], out.flows[k], t)
    BY <1>2, <1>3, <2>2 DEF Queued
  <2> QED BY <2>3, <2>4
<1> QED BY <1>5, <1>6

\* What a transfer t makes of the flow f that it does not end.
Received(f, g, mode, t) ==
  IF IsIgnored(f, mode, t) THEN g = f
  ELSE IF f.mode = Reliable
  THEN /\ SameOutbound(f, g) /\ g.by_index = Put(f.by_index, t.index, t.payload)
       /\ g.next_exposure = f.next_exposure
       /\ g.last_exposed_sequence = f.last_exposed_sequence /\ g.queue = f.queue
  ELSE Queued(f, g, t)

\* A reliable transfer is buffered, an unreliable one queued or dropped.
LEMMA ReceiveChanges ==
  ASSUME NEW ep, EndpointInv(ep), NEW k, CanReceive(ep, k), NEW mode \in Mode,
         NEW t \in Transfer, NEW out, out = Receive(ep, k, mode, t),
         ~FailsReliably(ep, k, mode, t)
  PROVE  /\ EndpointInv(out) /\ OnlyFlow(ep, out, k) /\ k \in DOMAIN ep.flows
         /\ Received(ep.flows[k], out.flows[k], mode, t)
<1> DEFINE f == ep.flows[k]
<1>1. k \in DOMAIN ep.flows /\ EndpointInv(out)
  BY ReceiveKeeps DEF CanReceive
<1>2. CASE IsIgnored(f, mode, t)
  <2>1. out = ep
    BY <1>2 DEF Receive
  <2> QED BY <1>1, <1>2, <2>1 DEF OnlyFlow, Received
<1>3. CASE ~IsIgnored(f, mode, t) /\ mode = Reliable
  <2>1. f.mode = Reliable
    BY <1>3 DEF IsIgnored, IsProper
  <2>2. t.index \notin DOMAIN f.by_index
    BY <1>3, <2>1 DEF IsIgnored, IsDuplicate
  <2>3. out = BufferReliable(ep, k, t)
    BY <1>3 DEF Receive
  <2> HIDE DEF f
  <2>4. /\ OnlyFlow(ep, out, k) /\ SameOutbound(f, out.flows[k])
        /\ out.flows[k].by_index = Put(f.by_index, t.index, t.payload)
        /\ out.flows[k].next_exposure = f.next_exposure
        /\ out.flows[k].last_exposed_sequence = f.last_exposed_sequence
        /\ out.flows[k].queue = f.queue
    BY <1>1, <2>2, <2>3, BufferReliableChanges DEF f
  <2> QED BY <1>1, <1>3, <2>1, <2>4 DEF Received, f
<1>4. CASE ~IsIgnored(f, mode, t) /\ mode # Reliable
  <2>1. f.mode # Reliable
    BY <1>4 DEF FailsReliably, IsProper
  <2>2. out = BufferUnreliable(ep, k, t)
    BY <1>4 DEF Receive
  <2>3. OnlyFlow(ep, out, k) /\ Queued(f, out.flows[k], t)
    BY <1>1, <2>2, BufferUnreliableChanges
  <2> QED BY <1>1, <1>4, <2>1, <2>3 DEF Received
<1> QED BY <1>2, <1>3, <1>4

\* The next message of a reliable flow leaves the buffer.
LEMMA ExposeReliableChanges ==
  ASSUME NEW ep, EndpointInv(ep), NEW k \in DOMAIN ep.flows,
         ep.flows[k].mode = Reliable, Ready(ep.flows[k]),
         NEW out, out = ExposeReliable(ep, k)
  PROVE  /\ OnlyFlow(ep, out, k) /\ SameOutbound(ep.flows[k], out.flows[k])
         /\ out.flows[k].by_index = Drop(ep.flows[k].by_index, {ep.flows[k].next_exposure})
         /\ out.flows[k].next_exposure = ep.flows[k].next_exposure + 1
         /\ out.flows[k].last_exposed_sequence = ep.flows[k].last_exposed_sequence
         /\ out.flows[k].queue = ep.flows[k].queue
<1> DEFINE f == ep.flows[k]
           i == f.next_exposure
           b == PayloadBytes[f.by_index[i]]
           t == [index |-> i, payload |-> f.by_index[i]]
           x == Drop(f.by_index, {i})
           f1 == [f EXCEPT !.by_index = x, !.next_exposure = i + 1]
           mid == [ep EXCEPT !.flows[k].by_index = Drop(@, {t.index}),
                             !.flows[k].next_exposure = t.index + 1]
<1>1. /\ f \in FlowRecord(f.session) /\ IsMap(ep.flows)
      /\ ep = [aggregate |-> ep.aggregate, connections |-> ep.connections,
               sessions |-> ep.sessions, flows |-> ep.flows,
               outbound_drops |-> ep.outbound_drops, inbound_drops |-> ep.inbound_drops]
  BY EndpointHas
<1>2. f.by_index \in Buffer /\ i \in DOMAIN f.by_index
  BY <1>1, ContentsAre DEF Ready
<1>3. x \in Buffer /\ i \in Index /\ -b \in Int
  <2>1. x \in Buffer /\ i \in Index
    BY <1>2, BufferDrop
  <2>2. b \in Nat
    <3>1. f.by_index[i] \in Payloads
      BY <1>2, BufferType
    <3> QED BY <3>1, DeliveryAssumption
  <2> HIDE DEF b
  <2> QED BY <2>1, <2>2
<1>4. /\ f1 \in FlowRecord(f1.session) /\ f1.mode = f.mode /\ f1.policy = f.policy
      /\ f1.session = f.session /\ SameOutbound(f, f1) /\ f1.by_index = x
      /\ f1.next_exposure = i + 1
      /\ f1.last_exposed_sequence = f.last_exposed_sequence /\ f1.queue = f.queue
  <2>1. i + 1 \in 0 .. MaxIndex + 1
    BY <1>3, DeliveryAssumption DEF Index
  <2> HIDE DEF f, x, i
  <2> QED BY <1>1, <1>3, <2>1 DEF FlowRecord, SameOutbound
<1>5. mid = [ep EXCEPT !.flows = [ep.flows EXCEPT ![k] = f1],
                       !.outbound_drops = ep.outbound_drops,
                       !.inbound_drops = ep.inbound_drops]
  <2> DEFINE first == [ep.flows EXCEPT ![k] = [f EXCEPT !.by_index = Drop(@, {t.index})]]
             then == [first EXCEPT ![k] = [first[k] EXCEPT !.next_exposure = t.index + 1]]
  <2>1. then = [ep.flows EXCEPT ![k] = f1]
    BY <1>1 DEF FlowRecord, IsMap
  <2>2. mid = [[ep EXCEPT !.flows = first] EXCEPT !.flows = then]
    <3>1. [ep EXCEPT !.flows = first].flows = first
      BY <1>1
    <3> QED BY <3>1, Zenon
  <2> HIDE DEF f1, first, then, mid
  <2> QED BY <1>1, <2>1, <2>2
<1>6. out = Charge(mid, k, -1, -b)
  BY DEF ExposeReliable, Exposure
<1> HIDE DEF f1, mid, b, x, f
<1>7. IsRedraft(ep, mid, k, f1, ep.outbound_drops, ep.inbound_drops) /\ -1 \in Int
  BY <1>4, <1>5 DEF IsRedraft, f
<1>8. OnlyFlow(ep, out, k) /\ out.flows[k] = With(f1, -1, -b)
  BY <1>3, <1>6, <1>7, RewriteChanges
<1>9. SameInbound(f1, out.flows[k]) /\ SameOutbound(f1, out.flows[k])
  BY ONLY <1>3, <1>4, <1>7, <1>8, WithKeeps
<1> QED BY <1>4, <1>8, <1>9 DEF SameInbound, SameOutbound, x, f

\* What polling makes of the flow f.
Polled(f, g) ==
  /\ SameOutbound(f, g)
  /\ IF Ready(f) /\ f.mode = Reliable
     THEN /\ g.by_index = Drop(f.by_index, {f.next_exposure})
          /\ g.next_exposure = f.next_exposure + 1 /\ g.queue = f.queue
     ELSE /\ g.by_index = f.by_index /\ g.next_exposure = f.next_exposure
          /\ \E n \in 0 .. Len(f.queue) :
               g.queue = Rest(f.queue, n) /\ (Ready(f) => n = FirstFresh(f))
  /\ g.last_exposed_sequence =
       IF Ready(f) /\ f.mode = Sequenced THEN Exposure(f).index ELSE f.last_exposed_sequence

\* Polling exposes a message or drops the stale ones.
LEMMA PollChanges ==
  ASSUME NEW ep, EndpointInv(ep), NEW k, CanReceive(ep, k), NEW out, out = Poll(ep, k)
  PROVE  /\ EndpointInv(out) /\ OnlyFlow(ep, out, k) /\ k \in DOMAIN ep.flows
         /\ Polled(ep.flows[k], out.flows[k])
<1> DEFINE f == ep.flows[k]
<1>1. k \in DOMAIN ep.flows /\ EndpointInv(out)
  BY PollKeeps DEF CanReceive
<1>2. f \in FlowRecord(f.session) /\ f.queue \in Seq(Transfer) /\ Len(f.queue) \in Nat
  BY <1>1, EndpointHas, ContentsAre
<1>3. CASE ~Ready(f)
  <2>1. out = DropQueued(ep, k, Len(f.queue))
    BY <1>3 DEF Poll
  <2>2. Len(f.queue) \in 0 .. Len(f.queue)
    BY <1>2
  <2>3. /\ OnlyFlow(ep, out, k) /\ SameOutbound(f, out.flows[k])
        /\ out.flows[k].by_index = f.by_index
        /\ out.flows[k].next_exposure = f.next_exposure
        /\ out.flows[k].last_exposed_sequence = f.last_exposed_sequence
        /\ out.flows[k].queue = Rest(f.queue, Len(f.queue))
    BY <1>1, <2>1, <2>2, DropQueuedChanges
  <2> QED BY <1>1, <1>3, <2>2, <2>3 DEF Polled
<1>4. CASE Ready(f) /\ f.mode = Reliable
  <2>1. out = ExposeReliable(ep, k)
    BY <1>4 DEF Poll
  <2>2. /\ OnlyFlow(ep, out, k) /\ SameOutbound(f, out.flows[k])
        /\ out.flows[k].by_index = Drop(f.by_index, {f.next_exposure})
        /\ out.flows[k].next_exposure = f.next_exposure + 1
        /\ out.flows[k].last_exposed_sequence = f.last_exposed_sequence
        /\ out.flows[k].queue = f.queue
    BY <1>1, <1>4, <2>1, ExposeReliableChanges
  <2>3. f.mode # Sequenced
    BY <1>4 DEF Reliable, Sequenced
  <2> QED BY <1>1, <1>4, <2>2, <2>3 DEF Polled
<1>5. CASE Ready(f) /\ f.mode # Reliable
  <2> DEFINE n == FirstFresh(f)
             room == DropQueued(ep, k, n)
             h == room.flows[k]
             g == [h EXCEPT !.last_exposed_sequence =
                              IF f.mode = Sequenced THEN Exposure(f).index ELSE @]
  <2>1. n \in 0 .. Len(f.queue)
    <3>1. n \in DOMAIN f.queue
      BY <1>5 DEF Ready
    <3> HIDE DEF n, f
    <3> QED BY <1>2, <3>1
  <2>2. out = [room EXCEPT !.flows[k].last_exposed_sequence =
                             IF f.mode = Sequenced THEN Exposure(f).index ELSE @]
    BY <1>5 DEF Poll, ExposeUnreliable
  <2>3. /\ EndpointInv(room) /\ OnlyFlow(ep, room, k) /\ k \in DOMAIN room.flows
        /\ SameOutbound(f, h) /\ h.by_index = f.by_index
        /\ h.next_exposure = f.next_exposure
        /\ h.last_exposed_sequence = f.last_exposed_sequence
        /\ h.queue = Rest(f.queue, n)
    BY <1>1, <2>1, DropQueuedChanges
  <2> HIDE DEF room
  <2>4. /\ h \in FlowRecord(h.session) /\ IsMap(room.flows)
        /\ room = [aggregate |-> room.aggregate, connections |-> room.connections,
                   sessions |-> room.sessions, flows |-> room.flows,
                   outbound_drops |-> room.outbound_drops,
                   inbound_drops |-> room.inbound_drops]
    BY <2>3, EndpointHas
  <2>5. out.flows = [room.flows EXCEPT ![k] = g]
    BY <2>2, <2>4
  <2>6. /\ SameOutbound(h, g) /\ g.by_index = h.by_index /\ g.next_exposure = h.next_exposure
        /\ g.queue = h.queue /\ g.mode = h.mode /\ g.policy = h.policy
        /\ g.session = h.session
        /\ g.last_exposed_sequence = IF f.mode = Sequenced THEN Exposure(f).index
                                     ELSE h.last_exposed_sequence
    <3> HIDE DEF h, f
    <3> QED BY <2>4 DEF FlowRecord, SameOutbound
  <2> HIDE DEF g
  <2>7. OnlyFlow(ep, out, k) /\ out.flows[k] = g
    BY <2>3, <2>4, <2>5, <2>6 DEF OnlyFlow, IsMap
  <2>8. Polled(f, out.flows[k])
    <3> HIDE DEF f
    <3> QED BY <1>5, <2>1, <2>3, <2>6, <2>7 DEF Polled, SameOutbound
  <2> QED BY <1>1, <2>7, <2>8
<1> QED BY <1>3, <1>4, <1>5

\* A flow that ends is gone; the others are as they were.
LEMMA TerminateChanges ==
  ASSUME NEW ep, EndpointInv(ep), NEW k \in DOMAIN ep.flows, NEW out, out = Terminate(ep, k)
  PROVE  /\ EndpointInv(out) /\ DOMAIN out.flows = DOMAIN ep.flows \ {k}
         /\ \A j \in DOMAIN out.flows : out.flows[j] = ep.flows[j]
<1> DEFINE after == Drop(ep.flows, {k})
           f == ep.flows[k]
           a == Add(ep.aggregate, -1, -f.pending_messages, -f.pending_bytes)
           cs == Release(ep.connections, k.connection, f.pending_messages, f.pending_bytes)
           ss == IF f.session = NoSession THEN ep.sessions
                 ELSE Release(ep.sessions, f.session, f.pending_messages, f.pending_bytes)
<1>1. EndpointInv(out)
  BY TerminateKeeps
<1>2. /\ ep = [aggregate |-> ep.aggregate, connections |-> ep.connections,
               sessions |-> ep.sessions, flows |-> ep.flows,
               outbound_drops |-> ep.outbound_drops, inbound_drops |-> ep.inbound_drops]
      /\ IsMap(ep.flows)
  BY EndpointHas
<1>3. out.flows = after
  <2>1. out = [ep EXCEPT !.flows = after, !.aggregate = a, !.connections = cs,
                         !.sessions = ss]
    BY DEF Terminate
  <2> HIDE DEF a, cs, ss, after
  <2> QED BY <1>2, <2>1
<1>4. DOMAIN after = DOMAIN ep.flows \ {k} /\ \A j \in DOMAIN after : after[j] = ep.flows[j]
  BY <1>2 DEF Drop, Restrict, IsMap
<1> QED BY <1>1, <1>3, <1>4

\* A flow of the mode with the policy may be established, in a connection with the limits.
MayEstablish(ep, k, mode, policy, limits) ==
  /\ EndpointInv(ep) /\ mode \in Mode /\ policy \in Policy /\ limits \in ScopeLimits
  /\ CanEstablish(ep, k, mode, policy, limits)

\* An established flow is new; the others are as they were.
LEMMA EstablishChanges ==
  ASSUME NEW ep, NEW k, NEW mode, NEW policy, NEW limits,
         MayEstablish(ep, k, mode, policy, limits),
         NEW out, out = Establish(ep, k, mode, policy, limits)
  PROVE  /\ EndpointInv(out) /\ DOMAIN out.flows = DOMAIN ep.flows \cup {k}
         /\ k \notin DOMAIN ep.flows /\ out.flows[k] = NewFlow(mode, policy)
         /\ \A j \in DOMAIN ep.flows : out.flows[j] = ep.flows[j]
<1> DEFINE f == NewFlow(mode, policy)
           after == Put(ep.flows, k, f)
           a == Add(ep.aggregate, 1, 0, 0)
           c == k.connection
           cs == Put(ep.connections, c, Add(ScopeOf(ep.connections, c, limits), 1, 0, 0))
<1>1. EndpointInv(out) /\ k \notin DOMAIN ep.flows /\ EndpointInv(ep)
  <2>1. /\ mode \in Mode /\ policy \in Policy /\ limits \in ScopeLimits
        /\ EndpointInv(ep) /\ CanEstablish(ep, k, mode, policy, limits)
    BY DEF MayEstablish
  <2> QED BY <2>1, EstablishKeeps DEF CanEstablish
<1>2. ep = [aggregate |-> ep.aggregate, connections |-> ep.connections,
            sessions |-> ep.sessions, flows |-> ep.flows,
            outbound_drops |-> ep.outbound_drops, inbound_drops |-> ep.inbound_drops]
  BY <1>1, EndpointParts
<1>3. out.flows = after
  <2>1. out = [ep EXCEPT !.aggregate = a, !.connections = cs, !.flows = after]
    BY DEF Establish
  <2> HIDE DEF a, cs, after
  <2> QED BY <1>2, <2>1
<1>4. /\ DOMAIN after = DOMAIN ep.flows \cup {k} /\ after[k] = f
      /\ \A j \in DOMAIN ep.flows : j # k => after[j] = ep.flows[j]
  <2> HIDE DEF f
  <2> QED BY DEF Put
<1> HIDE DEF after
<1> QED BY <1>1, <1>3, <1>4

\* A flow that joins a session is as it was otherwise.
LEMMA AssociateChanges ==
  ASSUME NEW ep, EndpointInv(ep), NEW k, NEW s, s # NoSession, NEW limits \in ScopeLimits,
         CanAssociate(ep, k, s, limits), NEW out, out = Associate(ep, k, s, limits)
  PROVE  /\ EndpointInv(out) /\ DOMAIN out.flows = DOMAIN ep.flows /\ k \in DOMAIN ep.flows
         /\ \A j \in DOMAIN ep.flows \ {k} : out.flows[j] = ep.flows[j]
         /\ out.flows[k].policy = ep.flows[k].policy /\ out.flows[k].session = s
<1> DEFINE after == [ep.flows EXCEPT ![k].session = s]
           ss == Put(ep.sessions, s, Add(ScopeOf(ep.sessions, s, limits), 1,
                                         ep.flows[k].pending_messages,
                                         ep.flows[k].pending_bytes))
<1>1. EndpointInv(out) /\ k \in DOMAIN ep.flows
  BY AssociateKeeps DEF CanAssociate
<1>2. /\ ep = [aggregate |-> ep.aggregate, connections |-> ep.connections,
               sessions |-> ep.sessions, flows |-> ep.flows,
               outbound_drops |-> ep.outbound_drops, inbound_drops |-> ep.inbound_drops]
      /\ IsMap(ep.flows) /\ ep.flows[k] \in FlowRecord(ep.flows[k].session)
  BY <1>1, EndpointHas
<1>3. out.flows = after
  <2>1. out = [ep EXCEPT !.sessions = ss, !.flows = after]
    <3>1. [ep EXCEPT !.sessions = ss].flows = ep.flows
      <4> HIDE DEF ss
      <4> QED BY <1>2
    <3> QED BY <3>1 DEF Associate
  <2> HIDE DEF ss, after
  <2> QED BY <1>2, <2>1
<1>4. /\ DOMAIN after = DOMAIN ep.flows
      /\ \A j \in DOMAIN ep.flows \ {k} : after[j] = ep.flows[j]
      /\ after[k].policy = ep.flows[k].policy /\ after[k].session = s
  BY <1>1, <1>2 DEF FlowRecord, IsMap
<1> QED BY <1>1, <1>3, <1>4

\* What ending the flows S of ep, one after the other, leaves.
Without(ep, S) == FoldSet(LAMBDA k, e : Terminate(e, k), ep, S)

\* Each of them ends once and is gone; the others are as they were.
LEMMA TerminateAllChanges ==
  ASSUME NEW ep, EndpointInv(ep), NEW S, S \subseteq DOMAIN ep.flows, NEW out,
         out = Without(ep, S)
  PROVE  /\ EndpointInv(out) /\ DOMAIN out.flows = DOMAIN ep.flows \ S
         /\ \A j \in DOMAIN out.flows : out.flows[j] = ep.flows[j]
<1>1. IsFiniteSet(S)
  BY EndpointParts, FS_Subset
<1> DEFINE g == CHOOSE h : IsEnd(ep, S, h)
           Good(U) == /\ EndpointInv(g[U]) /\ DOMAIN g[U].flows = DOMAIN ep.flows \ U
                      /\ \A j \in DOMAIN g[U].flows : g[U].flows[j] = ep.flows[j]
           Bad == {U \in SUBSET S : ~Good(U)}
<1>2. IsEnd(ep, S, g)
  BY <1>1, EndsExist
<1> HIDE DEF g
<1>3. Bad = {}
  <2> SUFFICES ASSUME Bad # {} PROVE FALSE
    OBVIOUS
  <2>1. PICK U \in Bad : \A W \in Bad : W \subseteq U => W = U
    <3>1. Bad \subseteq SUBSET S
      OBVIOUS
    <3> HIDE DEF Bad
    <3> QED BY <1>1, <3>1, SmallestSet
  <2>2. g[U] = EndStep(ep, g, U)
    BY <1>2 DEF IsEnd
  <2>3. U # {}
    BY <2>1, <2>2 DEF EndStep
  <2> DEFINE c == CHOOSE x \in U : TRUE
             W == U \ {c}
  <2>4. c \in U
    BY <2>3
  <2>5. W \in SUBSET S /\ W # U /\ W \subseteq U /\ U \in SUBSET S
    BY <2>1, <2>4
  <2>6. Good(W)
    BY <2>1, <2>5
  <2>7. g[U] = Terminate(g[W], c)
    BY <2>2, <2>3 DEF EndStep
  <2> HIDE DEF c
  <2>8. c \in DOMAIN g[W].flows /\ DOMAIN g[W].flows \ {c} = DOMAIN ep.flows \ U
    BY <2>4, <2>5, <2>6
  <2> HIDE DEF W
  <2>9. /\ EndpointInv(g[U]) /\ DOMAIN g[U].flows = DOMAIN g[W].flows \ {c}
        /\ \A j \in DOMAIN g[U].flows : g[U].flows[j] = g[W].flows[j]
    BY <2>6, <2>7, <2>8, TerminateChanges
  <2> QED BY <2>1, <2>6, <2>8, <2>9
<1>4. Good(S)
  BY <1>3
<1>5. Without(ep, S) = g[S]
  BY EndUnfolds DEF g, Without
<1> QED BY <1>4, <1>5

\* A new endpoint has no flows, no scopes, and nothing charged.
LEMMA NewEndpointIsRight ==
  ASSUME NEW ep, ep = NewEndpoint
  PROVE  EndpointInv(ep) /\ DOMAIN ep.flows = {}
<1> DEFINE a == NewScope(AggregateLimits)
<1>1. ep = [aggregate |-> a, connections |-> EmptyMap, sessions |-> EmptyMap,
            flows |-> EmptyMap, outbound_drops |-> 0, inbound_drops |-> 0]
  BY DEF NewEndpoint
<1>2. DOMAIN EmptyMap = {} /\ IsMap(EmptyMap)
  <2>1. DOMAIN EmptyMap = {}
    BY EmptyMapIsEmpty
  <2> QED BY <2>1 DEF IsMap, EmptyMap
<1>3. Covers(a, EmptyMap, {})
  BY NewScopeCovers, DeliveryAssumption
<1>4. ASSUME NEW owner, DOMAIN owner = {}, NEW none
      PROVE  Balanced(EmptyMap, EmptyMap, owner, none)
  BY <1>2, <1>4 DEF Balanced
<1>5. /\ Balanced(EmptyMap, EmptyMap, ConnectionOf(EmptyMap), {})
      /\ Balanced(EmptyMap, EmptyMap, SessionOf(EmptyMap), {NoSession})
  <2>1. DOMAIN ConnectionOf(EmptyMap) = {} /\ DOMAIN SessionOf(EmptyMap) = {}
    BY <1>2 DEF ConnectionOf, SessionOf
  <2> QED BY <2>1, <1>4
<1>6. FlowsInv(EmptyMap)
  BY <1>2, FS_EmptySet DEF FlowsInv
<1> HIDE DEF a
<1>7. IsEndpoint(ep)
  BY <1>1, DeliveryAssumption DEF IsEndpoint
<1>8. ScopesInv(ep)
  BY <1>1, <1>2, <1>3, <1>5 DEF ScopesInv
<1> QED BY <1>1, <1>2, <1>6, <1>7, <1>8 DEF EndpointInv
=============================================================================
