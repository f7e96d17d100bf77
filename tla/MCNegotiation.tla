---------------------------- MODULE MCNegotiation ----------------------------
(***************************************************************************)
(* Profiles, offers, contracts, requirements and limits for TLC: one       *)
(* connection with every kind of offer and selection, and a second one     *)
(* that competes with it for the manager of the authority.                 *)
(***************************************************************************)
EXTENDS NegotiationExchange, TLC

CONSTANTS l1, l2, p1, p2, p3, cap, schema, k1, k2, j1, j2

MCLinks == {l1, l2}

OfferOf(protocols, required, schemas, required_schemas) ==
  [protocols |-> protocols, capabilities |-> {cap}, required_capabilities |-> required,
   schemas |-> schemas, required_schemas |-> required_schemas,
   repeats |-> FALSE, labelled |-> FALSE]

Rich == OfferOf({p1, p2}, {}, schema :> (k1 :> {j1, j2} @@ k2 :> {j1}), {})
Strict == OfferOf({p1}, {cap}, schema :> (k1 :> {j2}), {schema})
Wide == OfferOf({p1, p2, p3}, {}, EmptyMap, {})
Repeating == [Strict EXCEPT !.repeats = TRUE]

\* The authority may send it, but the other side would not read it.
Bulky == OfferOf({p1, p2, p3}, {}, Rich.schemas, {})

MCOffers ==
  [side \in Sides |->
     IF side = Authority
     THEN (l1 :> {Rich, Wide, Bulky} @@ l2 :> {Strict})
     ELSE (l1 :> {Rich, Strict, Repeating} @@ l2 :> {Strict})]

ContractOf(protocol, capabilities, schemas) ==
  [protocol |-> protocol, capabilities |-> capabilities, schemas |-> schemas]

Full == ContractOf(p1, {cap}, schema :> <<k1, j2>>)

MCContracts ==
  l1 :> {Full, ContractOf(p2, {}, schema :> <<k2, j1>>), ContractOf(p1, {cap}, EmptyMap)}
  @@ l2 :> {Full}

\* The host of the non-authority insists on the capability, that of the authority
\* on nothing.
MCRequirements ==
  [side \in Sides |->
     [capabilities |-> IF side = NonAuthority THEN {cap} ELSE {}, schemas |-> {}]]

\* The authority offers more alternatives than the non-authority reads.
MCOfferLimits ==
  [side \in Sides |->
     [protocols |-> IF side = Authority THEN 3 ELSE 2, capabilities |-> 1, schemas |-> 1,
      contracts |-> 2, codecs |-> 2,
      bytes |-> IF side = Authority THEN 220 ELSE 200]]

\* An attempt of the authority reserves 660 bytes: the authority has room for one beside an
\* established contract, and the non-authority is allowed one attempt at a time.
MCManagerLimits ==
  [side \in Sides |->
     IF side = Authority THEN [attempts |-> 2, bytes |-> 760]
     ELSE [attempts |-> 1, bytes |-> 1200]]

MCDialer == l1 :> NonAuthority @@ l2 :> Authority

SettingsOf(role, negotiation_bytes) ==
  [role |-> role, control_bytes |-> 220, negotiation_bytes |-> negotiation_bytes,
   flows |-> 1, message_bytes |-> 1]

\* The non-authority's host may claim the authority by mistake.
MCProfiles ==
  [side \in Sides |-> [l \in MCLinks |->
     IF side = Authority THEN {SettingsOf(Authority, 220)}
     ELSE {SettingsOf(NonAuthority, 200)}
          \cup IF l = l2 THEN {SettingsOf(Authority, 200)} ELSE {}]]
=============================================================================
