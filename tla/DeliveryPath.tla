---------------------------- MODULE DeliveryPath ----------------------------
(***************************************************************************)
(* One delivery flow end to end: the sending endpoint, a transport that    *)
(* takes accepted messages into its custody, and the receiving endpoint.   *)
(* The transport reorders and repeats what it carries; it may drop an      *)
(* unreliable message, and losing a reliable one it reports a failure of   *)
(* custody. Either end of the flow may end at any time.                    *)
(***************************************************************************)
EXTENDS DeliveryEndpoint

CONSTANTS
  Link, Handle,                   \* the connection and the handle of the flow
  SendingPolicy, ReceivingPolicy, \* Mode -> resource policy of each end
  LinkLimits,                     \* DeliveryScopeLimits of the connection
  Modes,                          \* the delivery modes the flow may have
  MaxExposed                      \* bound on the exposures: an unordered flow
                                  \* may expose its messages again and again

ASSUME DeliveryPathAssumption ==
  /\ SendingPolicy \in [Mode -> Policy] /\ ReceivingPolicy \in [Mode -> Policy]
  /\ \A m \in Mode : ValidPolicy(SendingPolicy[m], m) /\ ValidPolicy(ReceivingPolicy[m], m)
  /\ LinkLimits \in ScopeLimits
  /\ Modes \subseteq Mode
  /\ MaxExposed \in Nat

VARIABLES
  sender, receiver,    \* the delivery endpoints
  mode,                \* of the flow; "None" until it is established
  in_transit,          \* the transfers in the transport's custody
  accepted,            \* history: the payloads accepted, in order
  exposed              \* history: the transfers exposed, in order

vars == <<sender, receiver, mode, in_transit, accepted, exposed>>

Outbound == Key(Link, "Outbound", Handle)
Inbound == Key(Link, "Inbound", Handle)

Sending == Outbound \in DOMAIN sender.flows
Receiving == Inbound \in DOMAIN receiver.flows

TypeOK ==
  /\ DOMAIN sender.flows \subseteq {Outbound}
  /\ DOMAIN receiver.flows \subseteq {Inbound}
  /\ mode \in Mode \cup {"None"}
  /\ in_transit \subseteq Transfer
  /\ accepted \in Seq(Payloads) /\ Len(accepted) <= MaxIndex + 1
  /\ exposed \in Seq(Transfer)

Init ==
  /\ sender = NewEndpoint /\ receiver = NewEndpoint
  /\ mode = "None"
  /\ in_transit = {}
  /\ accepted = <<>> /\ exposed = <<>>

-----------------------------------------------------------------------------

\* The transport establishes the receiving end before the sending end learns
\* of it, and a flow has one lifetime.
OpenFlow(m) ==
  /\ mode = "None"
  /\ mode' = m
  /\ sender' = Establish(sender, Outbound, m, SendingPolicy[m], LinkLimits)
  /\ receiver' = Establish(receiver, Inbound, m, ReceivingPolicy[m], LinkLimits)
  /\ UNCHANGED <<in_transit, accepted, exposed>>

HostSubmits(payload) ==
  /\ CanSubmit(sender, Outbound, payload)
  /\ sender' = Submit(sender, Outbound, payload)
  /\ accepted' = IF Accepts(sender, Outbound, payload)
                 THEN Append(accepted, payload) ELSE accepted
  /\ UNCHANGED <<receiver, mode, in_transit, exposed>>

TakeCustody ==
  /\ CanCommitCustody(sender, Outbound)
  /\ sender' = CommitCustody(sender, Outbound)
  /\ in_transit' = in_transit \cup {sender.flows[Outbound].outbound[1]}
  /\ UNCHANGED <<receiver, mode, accepted, exposed>>

\* A transfer arrives, for the last time or not.
Deliver(t) ==
  /\ t \in in_transit
  /\ CanReceive(receiver, Inbound)
  /\ receiver' = Receive(receiver, Inbound, mode, t)
  /\ \/ in_transit' = in_transit \ {t}
     \/ in_transit' = in_transit
  /\ UNCHANGED <<sender, mode, accepted, exposed>>

LoseUnreliable(t) ==
  /\ t \in in_transit
  /\ mode # Reliable
  /\ in_transit' = in_transit \ {t}
  /\ UNCHANGED <<sender, receiver, mode, accepted, exposed>>

\* fail_reliable_custody
FailReliableCustody(t) ==
  /\ t \in in_transit
  /\ mode = Reliable /\ Sending
  /\ in_transit' = in_transit \ {t}
  /\ sender' = Terminate(sender, Outbound)
  /\ UNCHANGED <<receiver, mode, accepted, exposed>>

HostPolls ==
  /\ CanReceive(receiver, Inbound)
  /\ Len(exposed) < MaxExposed
  /\ receiver' = Poll(receiver, Inbound)
  /\ exposed' = IF Ready(receiver.flows[Inbound])
                THEN Append(exposed, Exposure(receiver.flows[Inbound])) ELSE exposed
  /\ UNCHANGED <<sender, mode, in_transit, accepted>>

EndSending ==
  /\ Sending
  /\ sender' = Terminate(sender, Outbound)
  /\ UNCHANGED <<receiver, mode, in_transit, accepted, exposed>>

EndReceiving ==
  /\ Receiving
  /\ receiver' = Terminate(receiver, Inbound)
  /\ UNCHANGED <<sender, mode, in_transit, accepted, exposed>>

Next ==
  \/ \E m \in Modes : OpenFlow(m)
  \/ \E payload \in Payloads : HostSubmits(payload)
  \/ TakeCustody
  \/ \E t \in in_transit : Deliver(t) \/ LoseUnreliable(t) \/ FailReliableCustody(t)
  \/ HostPolls
  \/ EndSending
  \/ EndReceiving

\* The drivers keep moving what was accepted and the host keeps polling. Only a
\* reliable flow promises exposure, so only for one is it asked.
Fairness ==
  /\ WF_vars(mode = Reliable /\ TakeCustody)
  /\ \A t \in Transfer : WF_vars(mode = Reliable /\ Deliver(t))
  /\ WF_vars(mode = Reliable /\ HostPolls)

Spec == Init /\ [][Next]_vars

FairSpec == Spec /\ Fairness
-----------------------------------------------------------------------------

\* Every accepted message of a reliable flow whose ends are both alive is
\* somewhere: waiting, carried, buffered or exposed. Nothing that happens to
\* it - refusal, repetition, pressure, reordering - loses it silently.
ReliableMessagesAreSomewhere ==
  mode = Reliable /\ Sending /\ Receiving =>
    LET out == sender.flows[Outbound].outbound
        in == receiver.flows[Inbound]
        waiting == {out[i] : i \in DOMAIN out}
    IN \A i \in DOMAIN accepted :
         \/ [index |-> i - 1, payload |-> accepted[i]] \in waiting \cup in_transit
         \/ i - 1 \in DOMAIN in.by_index
         \/ i <= Len(exposed)

CustodyIsUnbroken == TypeOK /\ ReliableMessagesAreSomewhere

\* An accepted message of a reliable flow is exposed, or one of the flow's
\* ends learns that the promise is broken: no message waits for ever behind
\* one that will never come.
ReliableIsExposedOrFails ==
  \A i \in 1 .. MaxIndex + 1 :
    mode = Reliable /\ Len(accepted) >= i
      ~> Len(exposed) >= i \/ ~Sending \/ ~Receiving

\* A flow implements FlowContract: what is exposed is, unchanged, what was
\* accepted under its index, in the order its mode allows.
Contract ==
  INSTANCE FlowContract
    WITH Messages <- Payloads, sending <- Sending, receiving <- Receiving

ImplementsContract == Contract!Spec
=============================================================================
