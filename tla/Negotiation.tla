---------------------------- MODULE Negotiation ----------------------------
(***************************************************************************)
(* Compatibility offers and the negotiation manager (protocol.rs): what an *)
(* offer may contain, which contract two offers allow, and the manager's   *)
(* table of attempts and established contracts with its hand-kept count of *)
(* reserved bytes. Operations are operators on a manager record:           *)
(* CanOp(m, ...) says when the code changes anything and Op(m, ...) is     *)
(* what it leaves.                                                         *)
(*                                                                         *)
(* The lists of an offer are sets and maps here; "repeats" says that some  *)
(* list of the code names an entry twice. A diagnostic label counts for    *)
(* nothing but its presence. Which error an operation returns is left out, *)
(* but for the errors of the manager's own state.                          *)
(***************************************************************************)
EXTENDS Integers, FiniteSetsExt, PartialMaps

CONSTANTS
  NoContract   \* Option::None for a contract

RequiredMark == 1
IdBytes == 16

-----------------------------------------------------------------------------
(* Offers                                                                  *)

\* accounted_offer_bytes, but for the label
SchemaBytes(contracts) ==
  IdBytes + RequiredMark
  + SumFunction([k \in DOMAIN contracts |-> IdBytes + IdBytes * Cardinality(contracts[k])])

OfferBytes(offer) ==
  2 * IdBytes * Cardinality(offer.protocols)
  + (IdBytes + RequiredMark) * Cardinality(offer.capabilities)
  + SumFunction([s \in DOMAIN offer.schemas |-> SchemaBytes(offer.schemas[s])])

\* The ceilings of OfferLimits, which a decoder enforces as it reads.
WithinLimits(offer, limits) ==
  /\ Cardinality(offer.protocols) <= limits.protocols
  /\ Cardinality(offer.capabilities) <= limits.capabilities
  /\ Cardinality(DOMAIN offer.schemas) <= limits.schemas
  /\ \A s \in DOMAIN offer.schemas :
       /\ Cardinality(DOMAIN offer.schemas[s]) <= limits.contracts
       /\ \A k \in DOMAIN offer.schemas[s] :
            Cardinality(offer.schemas[s][k]) <= limits.codecs
  /\ OfferBytes(offer) <= limits.bytes

\* CompatibilityOffer::validate
IsValidOffer(offer, limits) ==
  /\ WithinLimits(offer, limits)
  /\ offer.protocols # {}
  /\ \A s \in DOMAIN offer.schemas :
       /\ offer.schemas[s] # EmptyMap
       /\ \A k \in DOMAIN offer.schemas[s] : offer.schemas[s][k] # {}
  /\ ~offer.repeats

\* The <<contract, codec>> pairs an offer has for a schema.
Bindings(offer, s) ==
  IF s \in DOMAIN offer.schemas
  THEN UNION {{k} \X offer.schemas[s][k] : k \in DOMAIN offer.schemas[s]}
  ELSE {}

CommonBindings(first, second, s) == Bindings(first, s) \cap Bindings(second, s)

\* verify_offer_requirements
MeetsRequirementsOf(other, requiring) ==
  /\ requiring.required_capabilities \subseteq other.capabilities
  /\ \A s \in requiring.required_schemas : CommonBindings(requiring, other, s) # {}

\* NegotiationAttempt::new succeeds
AreCompatible(authority_offer, peer_offer) ==
  /\ authority_offer.protocols \cap peer_offer.protocols # {}
  /\ MeetsRequirementsOf(peer_offer, authority_offer)
  /\ MeetsRequirementsOf(authority_offer, peer_offer)

-----------------------------------------------------------------------------
(* Contracts                                                               *)

ContractBytes(contract) ==
  2 * IdBytes + IdBytes * Cardinality(contract.capabilities)
  + 3 * IdBytes * Cardinality(DOMAIN contract.schemas)

ContractWithinLimits(contract, limits) ==
  /\ Cardinality(contract.capabilities) <= limits.capabilities
  /\ Cardinality(DOMAIN contract.schemas) <= limits.schemas
  /\ ContractBytes(contract) <= limits.bytes

\* A contract has only what both offers have.
SelectsOnlyCommon(contract, authority_offer, peer_offer) ==
  /\ contract.protocol \in authority_offer.protocols \cap peer_offer.protocols
  /\ contract.capabilities \subseteq authority_offer.capabilities \cap peer_offer.capabilities
  /\ \A s \in DOMAIN contract.schemas :
       contract.schemas[s] \in CommonBindings(authority_offer, peer_offer, s)

\* A contract has all that either offer requires.
SelectsAllRequired(contract, authority_offer, peer_offer) ==
  /\ authority_offer.required_capabilities \cup peer_offer.required_capabilities
       \subseteq contract.capabilities
  /\ authority_offer.required_schemas \cup peer_offer.required_schemas
       \subseteq DOMAIN contract.schemas

\* NegotiationRequirements: what the host of one end insists on.
SelectsHostRequired(contract, requirements) ==
  /\ requirements.capabilities \subseteq contract.capabilities
  /\ requirements.schemas \subseteq DOMAIN contract.schemas

\* Mutant of IsValidSelection: the host's own requirements are not checked.
IsSelectionBothOffer(attempt, contract, requirements, limits) ==
  /\ SelectsOnlyCommon(contract, attempt.authority_offer, attempt.peer_offer)
  /\ ContractWithinLimits(contract, limits)
  /\ SelectsAllRequired(contract, attempt.authority_offer, attempt.peer_offer)

\* validate_selection
IsValidSelection(attempt, contract, requirements, limits) ==
  /\ SelectsOnlyCommon(contract, attempt.authority_offer, attempt.peer_offer)
  /\ ContractWithinLimits(contract, limits)
  /\ SelectsAllRequired(contract, attempt.authority_offer, attempt.peer_offer)
  /\ SelectsHostRequired(contract, requirements)

-----------------------------------------------------------------------------
(* The manager                                                             *)

NewManager(offer_limits, limits) ==
  [offer_limits |-> offer_limits, limits |-> limits, reserved_bytes |-> 0,
   attempts |-> EmptyMap, established |-> EmptyMap]

\* max_attempt_reservation: two offers and a proposal.
Reservation(m) == 3 * m.offer_limits.bytes

IsKnown(m, c) == c \in DOMAIN m.attempts \cup DOMAIN m.established

NewAttempt(authority_offer, peer_offer) ==
  [authority_offer |-> authority_offer, peer_offer |-> peer_offer,
   proposal |-> NoContract, authority_validated |-> FALSE, peer_validated |-> FALSE]

CanStart(m, c, authority_offer, peer_offer) ==
  /\ ~IsKnown(m, c)
  /\ Cardinality(DOMAIN m.attempts) < m.limits.attempts
  /\ m.reserved_bytes + Reservation(m) <= m.limits.bytes
  /\ IsValidOffer(authority_offer, m.offer_limits)
  /\ IsValidOffer(peer_offer, m.offer_limits)
  /\ AreCompatible(authority_offer, peer_offer)

Start(m, c, authority_offer, peer_offer) ==
  [m EXCEPT !.attempts = Put(@, c, NewAttempt(authority_offer, peer_offer)),
            !.reserved_bytes = @ + Reservation(m)]

AwaitsProposal(m, c) == c \in DOMAIN m.attempts /\ m.attempts[c].proposal = NoContract

CanPropose(m, c, contract, requirements) ==
  AwaitsProposal(m, c)
    /\ IsValidSelection(m.attempts[c], contract, requirements, m.offer_limits)

Propose(m, c, contract) == [m EXCEPT !.attempts[c].proposal = contract]

\* validate_party succeeds once there is a proposal.
CanValidate(m, c) == c \in DOMAIN m.attempts /\ m.attempts[c].proposal # NoContract

\* Mutant of Promote: the attempt's reservation is kept beside the contract's bytes.
PromoteKeepingReservation(m, c) ==
  LET contract == m.attempts[c].proposal
      bytes == ContractBytes(contract)
  IN [m EXCEPT !.attempts = Drop(@, {c}),
               !.reserved_bytes = @ + bytes,
               !.established =
                 Put(@, c, [contract |-> contract, accounted_bytes |-> bytes])]

\* promote_established
Promote(m, c) ==
  LET contract == m.attempts[c].proposal
      bytes == ContractBytes(contract)
  IN [m EXCEPT !.attempts = Drop(@, {c}),
               !.reserved_bytes = (@ - Reservation(m)) + bytes,
               !.established =
                 Put(@, c, [contract |-> contract, accounted_bytes |-> bytes])]

PromoteIfValidated(m, c) ==
  IF m.attempts[c].authority_validated /\ m.attempts[c].peer_validated
  THEN Promote(m, c)
  ELSE m

ValidateAuthority(m, c) ==
  PromoteIfValidated([m EXCEPT !.attempts[c].authority_validated = TRUE], c)

ValidatePeer(m, c) ==
  PromoteIfValidated([m EXCEPT !.attempts[c].peer_validated = TRUE], c)

\* terminate, of a known connection
Terminate(m, c) ==
  [m EXCEPT !.attempts = Drop(@, {c}), !.established = Drop(@, {c}),
            !.reserved_bytes =
              @ - IF c \in DOMAIN m.attempts THEN Reservation(m)
                  ELSE m.established[c].accounted_bytes]
=============================================================================
