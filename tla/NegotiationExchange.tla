------------------------ MODULE NegotiationExchange ------------------------
(***************************************************************************)
(* Two hosts negotiating over QUIC connections (negotiation.rs, with the   *)
(* part of public_connection.rs that drives it), once the bootstrap has    *)
(* made them ready. A link is a connection with an end on either side;     *)
(* each host has one negotiation manager for all its links. An end sends   *)
(* one frame at a time and does not read while it sends. The control       *)
(* stream keeps order; when a transport closes, an end may still read what *)
(* had arrived or see the failure first.                                   *)
(*                                                                         *)
(* Frames carry offers and contracts themselves. The byte limit of a frame *)
(* is checked on the length the encoder would produce.                     *)
(***************************************************************************)
EXTENDS Negotiation, ProfileBootstrap

CONSTANTS
  Offers,                  \* Offers[side][l]: what a host may offer
  Contracts,               \* Contracts[l]: what the authority's host may select
  Requirements,            \* Requirements[side]: NegotiationRequirements
  OfferLimits,             \* OfferLimits[side]
  ManagerLimits,           \* ManagerLimits[side]
  NoOffer                  \* Option::None for an offer

AllOffers == UNION {Offers[side][l] : side \in Sides, l \in Links}
AllContracts == UNION {Contracts[l] : l \in Links}

\* The lists of an offer and of a contract are finite, and limits are counts.
IsOffer(offer) ==
  /\ IsFiniteSet(offer.protocols) /\ IsFiniteSet(offer.capabilities)
  /\ IsFiniteSet(DOMAIN offer.schemas)
  /\ \A s \in DOMAIN offer.schemas :
       /\ IsFiniteSet(DOMAIN offer.schemas[s])
       /\ \A k \in DOMAIN offer.schemas[s] : IsFiniteSet(offer.schemas[s][k])

IsContract(contract) ==
  IsFiniteSet(contract.capabilities) /\ IsFiniteSet(DOMAIN contract.schemas)

ASSUME ExchangeAssumption ==
  /\ \A offer \in AllOffers : IsOffer(offer)
  /\ \A contract \in AllContracts : IsContract(contract)
  /\ NoOffer \notin AllOffers /\ NoContract \notin AllContracts
  /\ \A side \in Sides :
       /\ OfferLimits[side].bytes \in Nat
       /\ ManagerLimits[side].attempts \in Nat /\ ManagerLimits[side].bytes \in Nat

FrameType == {"Offer", "Proposal", "Validated", "Established", "Failed"}
NoFrame == Frame("None", NoBody)

NegotiationState ==
  {"Ready", "AwaitingPeerOffer", "AwaitingAuthoritySelection", "AwaitingProposal",
   "AwaitingValidated", "AwaitingEstablished", "Established", "Failed"}

\* ConnectionState, with an end before activation and after teardown. An end is
\* Reporting when its failure frame is written but not yet acknowledged.
Phase ==
  {"Idle", "Sending", "Reporting", "Receiving", "Selecting", "Established",
   "Failed", "TornDown"}

\* Why an end failed. Protocol stands for a violated profile, for an error of the
\* manager's own state and for an unexpected status.
Failure == {"None", "Local", "Remote", "Control", "Protocol"}

VARIABLES
  manager,   \* manager[side]
  end,       \* end[side][l]: the exchange and the state of the connection
  history    \* history[side][l]: the offer and the contract an end ever held

vars == <<manager, end, history, setup, wire, open>>

NewEnd ==
  [phase |-> "Idle", state |-> "Ready", offer |-> NoOffer, owned |-> FALSE,
   frame |-> NoFrame, failure |-> "None"]

Init ==
  /\ BootstrapInit
  /\ manager = [side \in Sides |-> NewManager(OfferLimits[side], ManagerLimits[side])]
  /\ end = [side \in Sides |-> [l \in Links |-> NewEnd]]
  /\ history =
       [side \in Sides |-> [l \in Links |-> [offer |-> NoOffer, contract |-> NoContract]]]

-----------------------------------------------------------------------------
(* What becomes of an end                                                  *)

\* The end becomes e and its manager m; history notes an established contract.
Becomes(side, l, e, m) ==
  /\ end' = [end EXCEPT ![side][l] = e]
  /\ manager' = [manager EXCEPT ![side] = m]
  /\ history' = [history EXCEPT ![side][l].contract =
                   IF l \in DOMAIN m.established THEN m.established[l].contract ELSE @]

Sends(e, state, frame) ==
  [e EXCEPT !.phase = "Sending", !.state = state, !.frame = frame]

\* release_manager
Released(side, l) ==
  IF end[side][l].owned THEN Terminate(manager[side], l) ELSE manager[side]

Ended(phase, failure) ==
  [NewEnd EXCEPT !.phase = phase, !.state = "Failed", !.failure = failure]

\* fail_local: report the failure, then close.
FailLocal(side, l) ==
  /\ Becomes(side, l,
       Sends(Ended("Failed", "Local"), "Failed", Frame("Failed", NoBody)),
       Released(side, l))
  /\ UNCHANGED open

\* fail_protocol, fail_manager_state, receive_failure and abort: close at once.
FailAndClose(side, l, failure) ==
  /\ Becomes(side, l, Ended("Failed", failure), Released(side, l))
  /\ open' = [open EXCEPT ![l] = FALSE]

Proceeds(side, l, e, m) == Becomes(side, l, e, m) /\ UNCHANGED open

-----------------------------------------------------------------------------
(* What the host does                                                      *)

\* offer_body_len, for counts that fit a one-byte varint
OfferBodyBytes(offer) ==
  OfferBytes(offer) + 3
  + SumFunction([s \in DOMAIN offer.schemas |-> 1 + Cardinality(DOMAIN offer.schemas[s])])

ProposalBodyBytes(contract) == ContractBytes(contract) + 2

CanOffer(side, l, offer) ==
  /\ IsValidOffer(offer, OfferLimits[side])
  /\ ~offer.labelled
  /\ OfferBodyBytes(offer) <= FrameLimit(side, l)

\* activate, with prepare_offer
Activate(side, l) ==
  /\ setup[side][l].phase = "Ready" /\ end[side][l].phase = "Idle"
  /\ \E offer \in Offers[side][l] :
       IF CanOffer(side, l, offer)
       THEN LET e == [end[side][l] EXCEPT !.offer = offer]
            IN /\ end' = [end EXCEPT ![side][l] =
                            Sends(e, "AwaitingPeerOffer", Frame("Offer", offer))]
               /\ history' = [history EXCEPT ![side][l].offer = offer]
               /\ UNCHANGED <<manager, open>>
       ELSE FailLocal(side, l)
  /\ UNCHANGED <<wire, setup>>

\* select_authority, with propose_authority
SelectAuthority(l) ==
  /\ end[Authority][l].phase = "Selecting"
  /\ \E contract \in Contracts[l] :
       LET m == manager[Authority]
           proposed == ValidateAuthority(Propose(m, l, contract), l)
       IN IF ~AwaitsProposal(m, l)
          THEN FailAndClose(Authority, l, "Protocol")
          ELSE IF CanPropose(m, l, contract, Requirements[Authority])
                    /\ ProposalBodyBytes(contract) <= FrameLimit(Authority, l)
          THEN Proceeds(Authority, l,
                 Sends(end[Authority][l], "AwaitingValidated", Frame("Proposal", contract)),
                 proposed)
          ELSE FailLocal(Authority, l)
  /\ UNCHANGED <<wire, setup>>

\* teardown: of the flows' end see DeliveryEndpoint.
Teardown(side, l) ==
  /\ end[side][l].phase \notin {"Idle", "TornDown"}
  /\ Becomes(side, l, Ended("TornDown", "None"),
             Released(side, l))
  /\ open' = [open EXCEPT ![l] = FALSE]
  /\ setup' = [setup EXCEPT ![side][l].phase = "Closed"]
  /\ UNCHANGED wire

-----------------------------------------------------------------------------
(* Sending: the part of poll for ConnectionState::Sending                  *)

\* What a written frame leads to: PendingSendDisposition.
PhaseAfter(frame) ==
  CASE frame.type = "Established" -> "Established"
    [] frame.type = "Failed" -> "Reporting"
    [] OTHER -> "Receiving"

WriteFrame(side, l) ==
  LET e == end[side][l]
  IN /\ e.phase = "Sending" /\ open[l]
     /\ wire' = [wire EXCEPT ![side][l] = Append(@, e.frame)]
     /\ end' = [end EXCEPT ![side][l].phase = PhaseAfter(e.frame),
                           ![side][l].frame = NoFrame]
     /\ UNCHANGED <<manager, open, history>>

\* The report is acknowledged, or the transport is gone: either way the end closes it.
FinishReport(side, l) ==
  /\ end[side][l].phase = "Reporting"
  /\ end' = [end EXCEPT ![side][l].phase = "Failed"]
  /\ open' = [open EXCEPT ![l] = FALSE]
  /\ UNCHANGED <<manager, wire, history>>

\* A frame that cannot be written; a failure report that cannot changes nothing more.
FailSend(side, l) ==
  /\ end[side][l].phase = "Sending" /\ ~open[l]
  /\ LET failure == IF end[side][l].failure = "None" THEN "Control" ELSE end[side][l].failure
     IN FailAndClose(side, l, failure)
  /\ UNCHANGED wire

-----------------------------------------------------------------------------
(* Receiving: NegotiationExchange::receive, a frame type at a time         *)

\* The end takes a frame of this type off the stream.
Takes(side, l, type) ==
  /\ end[side][l].phase = "Receiving"
  /\ wire[Other(side)][l] # <<>>
  /\ Head(wire[Other(side)][l]).type = type
  /\ wire' = [wire EXCEPT ![Other(side)][l] = Tail(@)]

Body(side, l) == Head(wire[Other(side)][l]).body

\* A body above the receiver's own limit is not even read.
IsTooLong(side, l, bytes) == ~MayRead(side, l, bytes)

Waits(e, phase, state) == [e EXCEPT !.phase = phase, !.state = state]

\* receive_offer
ReceiveOffer(side, l) ==
  /\ Takes(side, l, "Offer")
  /\ LET e == end[side][l]
         m == manager[side]
         local == e.offer
         peer == Body(side, l)
         authority_offer == IF side = Authority THEN local ELSE peer
         peer_offer == IF side = Authority THEN peer ELSE local
         started == [Waits(e, IF side = Authority THEN "Selecting" ELSE "Receiving",
                           IF side = Authority THEN "AwaitingAuthoritySelection"
                           ELSE "AwaitingProposal")
                     EXCEPT !.offer = NoOffer, !.owned = TRUE]
     IN IF \/ IsTooLong(side, l, OfferBodyBytes(peer))
           \/ e.state # "AwaitingPeerOffer" \/ local = NoOffer
        THEN FailAndClose(side, l, "Protocol")
        ELSE IF ~WithinLimits(peer, OfferLimits[side])
        THEN FailLocal(side, l)
        ELSE IF IsKnown(m, l)
        THEN FailAndClose(side, l, "Protocol")
        ELSE IF CanStart(m, l, authority_offer, peer_offer)
        THEN Proceeds(side, l, started, Start(m, l, authority_offer, peer_offer))
        ELSE FailLocal(side, l)

\* receive_proposal; an unexpected status after ValidatePeer would be an error.
ReceiveProposal(side, l) ==
  /\ Takes(side, l, "Proposal")
  /\ LET e == end[side][l]
         m == manager[side]
         contract == Body(side, l)
         validated == ValidatePeer(Propose(m, l, contract), l)
     IN IF IsTooLong(side, l, ProposalBodyBytes(contract)) \/ e.state # "AwaitingProposal"
        THEN FailAndClose(side, l, "Protocol")
        ELSE IF ~ContractWithinLimits(contract, OfferLimits[side])
        THEN FailLocal(side, l)
        ELSE IF ~AwaitsProposal(m, l)
        THEN FailAndClose(side, l, "Protocol")
        ELSE IF ~CanPropose(m, l, contract, Requirements[side])
        THEN FailLocal(side, l)
        ELSE IF l \in DOMAIN validated.established
        THEN FailAndClose(side, l, "Protocol")
        ELSE Proceeds(side, l, Sends(e, "AwaitingEstablished", Frame("Validated", NoBody)),
                      validated)

\* receive_validated
ReceiveValidated(side, l) ==
  /\ Takes(side, l, "Validated")
  /\ LET e == end[side][l]
         m == manager[side]
     IN IF /\ e.state = "AwaitingValidated"
           /\ CanValidate(m, l)
           /\ l \in DOMAIN ValidatePeer(m, l).established
        THEN Proceeds(side, l, Sends(e, "Established", Frame("Established", NoBody)),
                      ValidatePeer(m, l))
        ELSE FailAndClose(side, l, "Protocol")

\* receive_established
ReceiveEstablished(side, l) ==
  /\ Takes(side, l, "Established")
  /\ LET e == end[side][l]
         m == manager[side]
     IN IF /\ e.state = "AwaitingEstablished"
           /\ CanValidate(m, l)
           /\ l \in DOMAIN ValidateAuthority(m, l).established
        THEN Proceeds(side, l, Waits(e, "Established", "Established"),
                      ValidateAuthority(m, l))
        ELSE FailAndClose(side, l, "Protocol")

\* receive_failure
ReceiveFailed(side, l) ==
  /\ Takes(side, l, "Failed")
  /\ FailAndClose(side, l,
       IF end[side][l].state \in {"Established", "Failed"} THEN "Protocol" ELSE "Remote")

\* Mutant of FailReceive: a stream that ends before the first frame is no failure.
FailReceiveLater(side, l) ==
  /\ end[side][l].phase = "Receiving" /\ ~open[l]
  /\ end[side][l].state # "AwaitingPeerOffer"
  /\ FailAndClose(side, l, "Control")
  /\ UNCHANGED wire

\* The stream fails before the next frame is read: abort.
FailReceive(side, l) ==
  /\ end[side][l].phase = "Receiving" /\ ~open[l]
  /\ FailAndClose(side, l, "Control")
  /\ UNCHANGED wire

LoseTransport(l) ==
  /\ open[l]
  /\ open' = [open EXCEPT ![l] = FALSE]
  /\ UNCHANGED <<manager, end, history, setup, wire>>

-----------------------------------------------------------------------------
Send(side, l) ==
  /\ WriteFrame(side, l) \/ FinishReport(side, l) \/ FailSend(side, l)
  /\ UNCHANGED setup

Receive(side, l) ==
  /\ \/ ReceiveOffer(side, l)
     \/ ReceiveProposal(side, l)
     \/ ReceiveValidated(side, l)
     \/ ReceiveEstablished(side, l)
     \/ ReceiveFailed(side, l)
     \/ FailReceive(side, l)
  /\ UNCHANGED setup

\* What happens to a connection before it is activated.
Dial(l) == Connect(l) /\ UNCHANGED <<manager, end, history>>

Answer(l) == Accept(l) /\ UNCHANGED <<manager, end, history>>

SetUp(side, l) == Bootstrap(side, l) /\ UNCHANGED <<manager, end, history>>

GiveUp(side, l) ==
  /\ end[side][l].phase = "Idle"
  /\ Abandon(side, l)
  /\ UNCHANGED <<manager, end, history>>

Next ==
  \E l \in Links :
    \/ Dial(l)
    \/ Answer(l)
    \/ SelectAuthority(l)
    \/ LoseTransport(l)
    \/ \E side \in Sides :
         \/ SetUp(side, l)
         \/ GiveUp(side, l)
         \/ Activate(side, l)
         \/ Send(side, l)
         \/ Receive(side, l)
         \/ Teardown(side, l)

Spec == Init /\ [][Next]_vars

\* The host accepts what comes in, polls what it waits on, activates every connection
\* and answers when a selection is asked for. Nothing fair is assumed of connecting,
\* losses, dropped futures or teardowns.
Fairness ==
  \A l \in Links :
    /\ WF_vars(Answer(l))
    /\ WF_vars(SelectAuthority(l))
    /\ \A side \in Sides :
         WF_vars(SetUp(side, l)) /\ WF_vars(Activate(side, l)) /\ WF_vars(Send(side, l)) /\ WF_vars(Receive(side, l))

FairSpec == Spec /\ Fairness

-----------------------------------------------------------------------------
\* Every variable has its type (negotiation.rs, protocol.rs).
TypeOK ==
  /\ BootstrapTypeOK
  /\ \A side \in Sides :
       /\ manager[side].reserved_bytes \in Nat
       /\ DOMAIN manager[side].attempts \subseteq Links
       /\ DOMAIN manager[side].established \subseteq Links
  /\ end \in [Sides -> [Links ->
       [phase : Phase, state : NegotiationState, offer : AllOffers \cup {NoOffer},
        owned : BOOLEAN, failure : Failure,
        frame : {NoFrame} \cup
                [type : FrameType, body : {NoBody} \cup AllOffers \cup AllContracts]]]]

EstablishedBytes(m) ==
  SumFunction([l \in DOMAIN m.established |-> m.established[l].accounted_bytes])

\* What the manager counts as reserved is what its attempts and contracts hold,
\* within its limits; and it holds an entry exactly for the connections whose
\* exchange will release it (NegotiationManager::start, promote_established,
\* terminate; NegotiationExchange::release_manager).
ReservationsAreExact ==
  /\ TypeOK
  /\ \A side \in Sides :
      LET m == manager[side]
      IN /\ m.reserved_bytes =
              Reservation(m) * Cardinality(DOMAIN m.attempts) + EstablishedBytes(m)
         /\ m.reserved_bytes <= m.limits.bytes
         /\ Cardinality(DOMAIN m.attempts) <= m.limits.attempts
         /\ \A l \in Links : IsKnown(m, l) <=> end[side][l].owned

\* A contract either end ever established has only what both immutable offers have,
\* and all that either offer and either host require (spec/protocol/negotiation.md:
\* the offers an end keeps in its attempt are those both ends really made).
SelectedByBoth ==
  \A side \in Sides, l \in Links :
    LET contract == history[side][l].contract
        first == history[Authority][l].offer
        second == history[NonAuthority][l].offer
    IN contract # NoContract =>
         /\ NoOffer \notin {first, second}
         /\ SelectsOnlyCommon(contract, first, second)
         /\ SelectsAllRequired(contract, first, second)
         /\ \A host \in Sides : SelectsHostRequired(contract, Requirements[host])

\* The non-authority establishes no contract but the one the authority established
\* before it (receive_validated, receive_established).
PeerFollowsAuthority ==
  \A l \in Links :
    history[NonAuthority][l].contract \in {NoContract, history[Authority][l].contract}

\* The two hosts never disagree on what they established, nor exceed what either
\* offered.
EstablishedIsMutual == SelectedByBoth /\ PeerFollowsAuthority /\ SettingsAreExchanged

\* Two hosts that follow the profile never see each other break it: no frame comes
\* out of turn and the manager is never in a state the exchange does not expect
\* (NegotiationProtocolError, ManagerState, UnexpectedCoreStatus).
NobodyBreaksTheProfile ==
  /\ NobodyBreaksTheBootstrap
  /\ \A side \in Sides, l \in Links : end[side][l].failure # "Protocol"

\* Every connection that was begun comes to an end of its negotiation at both ends and
\* for good: established, failed or torn down, unless its bootstrap ended it before
\* (poll, with an end that fails while the other sends, selects or waits).
HasEnded(side, l) ==
  \/ end[side][l].phase \in {"Established", "Failed", "TornDown"}
  \/ end[side][l].phase = "Idle" /\ setup[side][l].phase \in {"None", "Closed", "Breached"}

NegotiationsEnd == <>[](\A side \in Sides, l \in Links : HasEnded(side, l))
=============================================================================
