--------------------------- MODULE NegotiationProofs ---------------------------
(***************************************************************************)
(* Two hosts that negotiate agree, and their managers count exactly what   *)
(* they hold, for any connections, profiles, offers, contracts,            *)
(* requirements and limits.                                                *)
(*                                                                         *)
(* Links meet only in the managers. So the argument has two invariants:    *)
(* one of a single link, over what each side has of it, and one of the     *)
(* sums a manager keeps.                                                   *)
(***************************************************************************)
EXTENDS NegotiationExchange, SequenceTheorems, PartialMapTheorems

-----------------------------------------------------------------------------
(* The shape of the state                                                  *)

\* A frame on the wire, with the body of its type.
AnyFrame ==
  [type : {"Settings"}, body : AllSettings] \cup [type : {"Offer"}, body : AllOffers]
    \cup [type : {"Proposal"}, body : AllContracts]
    \cup [type : {"Validated", "Established", "Failed"}, body : {NoBody}]
    \cup {NoFrame}

\* What a side keeps of the bootstrap.
SetupRecord ==
  [phase : SetupPhase, local : AllSettings \cup {NoSettings},
   peer : AllSettings \cup {NoSettings}]

\* The exchange of an end and the state of its connection.
EndRecord ==
  [phase : Phase, state : NegotiationState, offer : AllOffers \cup {NoOffer},
   owned : BOOLEAN, failure : Failure,
   frame : {NoFrame} \cup
           [type : FrameType, body : {NoBody} \cup AllOffers \cup AllContracts]]

\* What an end ever offered and established.
HistoryRecord ==
  [offer : AllOffers \cup {NoOffer}, contract : AllContracts \cup {NoContract}]

\* An attempt that a manager may hold.
Attempt ==
  [authority_offer : AllOffers, peer_offer : AllOffers,
   proposal : AllContracts \cup {NoContract},
   authority_validated : BOOLEAN, peer_validated : BOOLEAN]

\* A partial map.
IsTable(t) == t = [x \in DOMAIN t |-> t[x]]

\* The fields of a manager, in the form that survives an update.
HasManagerFields(m) ==
  m \in [offer_limits : {m.offer_limits}, limits : {m.limits},
         reserved_bytes : {m.reserved_bytes}, attempts : {m.attempts},
         established : {m.established}]

\* A manager, whatever it has reserved.
IsManager(m) ==
  /\ HasManagerFields(m)
  /\ IsTable(m.attempts) /\ IsTable(m.established)
  /\ DOMAIN m.attempts \subseteq Links /\ DOMAIN m.established \subseteq Links
  /\ \A l \in DOMAIN m.attempts : m.attempts[l] \in Attempt
  /\ \A l \in DOMAIN m.established :
       m.established[l].contract \in AllContracts \cup {NoContract}

\* The variables of the bootstrap have their shape, and so have those of the exchange.
SetupShape ==
  /\ setup \in [Sides -> [Links -> SetupRecord]]
  /\ wire \in [Sides -> [Links -> Seq(AnyFrame)]]
  /\ open \in [Links -> BOOLEAN]

EndShape ==
  /\ end \in [Sides -> [Links -> EndRecord]]
  /\ history \in [Sides -> [Links -> HistoryRecord]]
  /\ IsTable(manager) /\ DOMAIN manager = Sides
  /\ \A s \in Sides : IsManager(manager[s])

Shape == SetupShape /\ EndShape

-----------------------------------------------------------------------------
(* The invariant of a link                                                 *)

\* What a table has of the link l.
At(table, l) == IF l \in DOMAIN table THEN {table[l]} ELSE {}

\* All that the side s has of the link l.
Side(s, l) ==
  [setup |-> setup[s][l], wire |-> wire[s][l], end |-> end[s][l],
   offer |-> history[s][l].offer, contract |-> history[s][l].contract,
   attempt |-> At(manager[s].attempts, l), settled |-> At(manager[s].established, l)]

(* In what follows the side s has mine and the other side has theirs; k is *)
(* the contract the authority has proposed, or NoContract.                 *)

\* The authority's and the non-authority's of a pair.
First(s, mine, theirs) == IF s = Authority THEN mine ELSE theirs
Second(s, mine, theirs) == IF s = Authority THEN theirs ELSE mine

\* The side has neither closed nor failed.
IsAlive(side) == side.setup.phase \notin {"Closed", "Breached"} /\ side.end.state # "Failed"

\* A body of so many bytes can be read by the side.
CanRead(side, bytes) ==
  side.setup.local # NoSettings /\ bytes <= side.setup.local.negotiation_bytes

\* The authority may select k of two offers; the other side may validate it.
Selected(k, first, second) ==
  /\ k \in AllContracts /\ first \in AllOffers /\ second \in AllOffers
  /\ SelectsOnlyCommon(k, first, second)
  /\ SelectsAllRequired(k, first, second)
  /\ SelectsHostRequired(k, Requirements[Authority])

Validated(k) == SelectsHostRequired(k, Requirements[NonAuthority])

\* A frame that s sends or has sent says what s has really done.
FrameIsTrue(k, s, mine, theirs, frame) ==
  /\ frame.type = "Settings" => frame.body = mine.setup.local /\ frame.body # NoSettings
  /\ frame.type = "Offer" =>
       /\ frame.body = mine.offer /\ frame.body \in AllOffers
       /\ CanRead(theirs, OfferBodyBytes(frame.body))
  /\ frame.type = "Proposal" =>
       /\ s = Authority /\ frame.body = k /\ k \in AllContracts
       /\ CanRead(theirs, ProposalBodyBytes(k))
  /\ frame.type = "Validated" => s = NonAuthority /\ k \in AllContracts /\ Validated(k)
  /\ frame.type = "Established" =>
       s = Authority /\ k \in AllContracts /\ mine.contract = k

\* Where an end may be in the exchange.
IsStage(s, state, phase) ==
  \/ state = "Ready" /\ phase = "Idle"
  \/ state = "AwaitingPeerOffer" /\ phase \in {"Sending", "Receiving"}
  \/ s = Authority /\ state = "AwaitingAuthoritySelection" /\ phase = "Selecting"
  \/ s = Authority /\ state = "AwaitingValidated" /\ phase \in {"Sending", "Receiving"}
  \/ s = Authority /\ state = "Established" /\ phase \in {"Sending", "Established"}
  \/ s = NonAuthority /\ state = "AwaitingProposal" /\ phase = "Receiving"
  \/ s = NonAuthority /\ state = "AwaitingEstablished" /\ phase \in {"Sending", "Receiving"}
  \/ s = NonAuthority /\ state = "Established" /\ phase = "Established"
  \/ state = "Failed" /\ phase \in {"Sending", "Reporting", "Failed", "TornDown"}

\* The frame an end sends on its way to a state.
FrameTo(k, side, state) ==
  IF state = "AwaitingPeerOffer" THEN Frame("Offer", side.offer)
  ELSE IF state = "AwaitingValidated" THEN Frame("Proposal", k)
  ELSE IF state = "AwaitingEstablished" THEN Frame("Validated", NoBody)
  ELSE IF state = "Established" THEN Frame("Established", NoBody)
  ELSE Frame("Failed", NoBody)

\* The attempts of an authority that has proposed and a non-authority that has
\* validated.
ProposedAttempt(k, first, second) ==
  [NewAttempt(first, second) EXCEPT !.proposal = k, !.authority_validated = TRUE]
ValidatedAttempt(k, first, second) ==
  [NewAttempt(first, second) EXCEPT !.proposal = k, !.peer_validated = TRUE]

\* The attempt the manager keeps for an end in a state.
AttemptIn(k, first, second, state) ==
  IF state \in {"AwaitingAuthoritySelection", "AwaitingProposal"}
  THEN {NewAttempt(first, second)}
  ELSE IF state = "AwaitingValidated" THEN {ProposedAttempt(k, first, second)}
  ELSE IF state = "AwaitingEstablished" THEN {ValidatedAttempt(k, first, second)}
  ELSE {}

\* The contract the manager keeps for an end in a state.
SettledIn(k, state) ==
  IF state = "Established"
  THEN {[contract |-> k, accounted_bytes |-> ContractBytes(k)]} ELSE {}

\* Phases of a side without its peer's settings, and states of an end before and from the
\* proposal on, and with an entry in the manager.
Early == {"None", "Handshaking", "AwaitingSettings"}
Unproposed == {"Ready", "AwaitingPeerOffer", "AwaitingAuthoritySelection"}
Proposed == {"AwaitingValidated", "AwaitingEstablished", "Established"}
Owning == Proposed \cup {"AwaitingAuthoritySelection", "AwaitingProposal"}

\* What is in the connection of an end, and in its manager for it.
EndIs(k, s, mine, theirs) ==
  LET e == mine.end
  IN /\ IsStage(s, e.state, e.phase)
     /\ e.offer = IF e.state = "AwaitingPeerOffer" THEN mine.offer ELSE NoOffer
     /\ e.owned <=> e.state \in Owning
     /\ e.frame = IF e.phase = "Sending" THEN FrameTo(k, mine, e.state) ELSE NoFrame
     /\ e.failure # "Protocol"
     /\ mine.attempt = AttemptIn(k, First(s, mine, theirs).offer,
                                 Second(s, mine, theirs).offer, e.state)
     /\ mine.settled = SettledIn(k, e.state)

\* What an end knows where it is.
EndKnows(k, s, mine, theirs) ==
  LET state == mine.end.state
  IN /\ state = "Ready" => mine.offer = NoOffer
     /\ state = "AwaitingPeerOffer" \/ state \in Owning => mine.offer \in AllOffers
     /\ state \in Owning => theirs.offer \in AllOffers
     /\ s = Authority /\ state \in Unproposed => k = NoContract
     /\ state \in Proposed =>
          k \in AllContracts /\ ContractWithinLimits(k, OfferLimits[s])
     /\ state = "AwaitingEstablished" => Validated(k)
     /\ state = "Established" => mine.contract = k
     /\ FrameIsTrue(k, s, mine, theirs, mine.end.frame)
     /\ state # "Ready" => mine.setup.peer # NoSettings
     /\ state \notin {"Ready", "Failed"} => mine.setup.phase = "Ready"

\* How far a side is in the bootstrap.
SetupIs(mine, theirs) ==
  LET setting == mine.setup
  IN /\ setting.phase = "None" <=> setting.local = NoSettings
     /\ setting.local # NoSettings => IsUsable(setting.local)
     /\ setting.phase \in Early => setting.peer = NoSettings
     /\ setting.phase = "Ready" => setting.peer # NoSettings
     /\ setting.peer # NoSettings =>
          setting.peer = theirs.setup.local /\ setting.peer.role # setting.local.role
     /\ setting.phase = "Breached" =>
          /\ theirs.setup.local # NoSettings
          /\ setting.local.role = theirs.setup.local.role

\* How many frames a side has read, and how many it has written, while it lives.
ReadBy(s, side) ==
  LET state == side.end.state
  IN IF side.setup.peer = NoSettings THEN 0
     ELSE IF state \in {"Ready", "AwaitingPeerOffer"} THEN 1
     ELSE IF state \in Owning \ {"AwaitingEstablished", "Established"} THEN 2
     ELSE IF state = "Established" /\ s = NonAuthority THEN 4 ELSE 3

WrittenBy(s, side) ==
  LET e == side.end
      all == IF e.state = "Ready" THEN 1
             ELSE IF e.state = "Established" /\ s = Authority THEN 4
             ELSE IF e.state \in Proposed THEN 3 ELSE 2
  IN IF side.setup.phase \in {"None", "Handshaking"} THEN 0
     ELSE IF e.phase = "Sending" THEN all - 1 ELSE all

\* The frame may be the n-th that a side writes.
IsInPlace(frame, n) ==
  CASE frame.type = "Settings" -> n = 1
    [] frame.type = "Offer" -> n = 2
    [] frame.type \in {"Proposal", "Validated"} -> n = 3
    [] frame.type = "Established" -> n = 4
    [] OTHER -> n > 1

\* What s has written and the other side has not read.
WireIs(k, s, mine, theirs) ==
  LET w == mine.wire
      read == ReadBy(Other(s), theirs)
  IN /\ \A i \in DOMAIN w : FrameIsTrue(k, s, mine, theirs, w[i])
     /\ mine.setup.phase \in {"None", "Handshaking"} => w = <<>>
     /\ IsAlive(theirs) =>
          /\ \A i \in DOMAIN w : IsInPlace(w[i], read + i)
          /\ IsAlive(mine) => read + Len(w) = WrittenBy(s, mine)
          /\ mine.setup.peer # NoSettings => read + Len(w) > 0

\* All that holds of a side.
SideIs(k, s, mine, theirs) ==
  /\ SetupIs(mine, theirs)
  /\ EndIs(k, s, mine, theirs)
  /\ EndKnows(k, s, mine, theirs)
  /\ WireIs(k, s, mine, theirs)

\* What the two ends ever agreed on.
PairIs(k, first, second) ==
  /\ k # NoContract => Selected(k, first.offer, second.offer)
  /\ first.contract \in {NoContract, k}
  /\ second.contract \in {NoContract, first.contract}
  /\ first.contract # NoContract => Validated(k)

\* The invariant of a link, as the side s sees it.
LinkIs(k, s, mine, theirs) ==
  /\ PairIs(k, First(s, mine, theirs), Second(s, mine, theirs))
  /\ SideIs(k, s, mine, theirs)
  /\ SideIs(k, Other(s), theirs, mine)

\* The invariant of the link l, and of all links.
LinkIsSound(s, l) ==
  \E k \in AllContracts \cup {NoContract} : LinkIs(k, s, Side(s, l), Side(Other(s), l))

LinksAreSound == \A l \in Links : LinkIsSound(Authority, l)

-----------------------------------------------------------------------------
(* How a link may go on                                                    *)

\* What a side has settled for a link stays.
Grows(mine, mine2) ==
  /\ mine.setup.local # NoSettings => mine2.setup.local = mine.setup.local
  /\ mine.offer # NoOffer => mine2.offer = mine.offer
  /\ mine.contract # NoContract => mine2.contract = mine.contract

\* The authority s may propose a contract, if there is none yet.
MayPropose(s, k, k2) ==
  \/ k2 = k
  \/ s = Authority /\ k = NoContract

\* All is the same but what is on the wire.
SameButWire(side, side2) ==
  /\ side2.setup = side.setup /\ side2.end = side.end
  /\ side2.offer = side.offer /\ side2.contract = side.contract
  /\ side2.attempt = side.attempt /\ side2.settled = side.settled

\* Each side is the other's other.
LEMMA TwoSides ==
  /\ Authority \in Sides /\ NonAuthority \in Sides /\ Authority # NonAuthority
  /\ \A s \in Sides : Other(s) \in Sides /\ Other(s) # s /\ Other(Other(s)) = s
  /\ \A s \in Sides : s = Authority \/ s = NonAuthority
  /\ \A s \in Sides : \A a, b : /\ First(Other(s), a, b) = First(s, b, a)
                                /\ Second(Other(s), a, b) = Second(s, b, a)
  BY DEF Sides, Other, Authority, NonAuthority, First, Second

\* The invariant of a link does not depend on whose side it is seen from.
LEMMA LinkFromBothSides ==
  ASSUME NEW s \in Sides, NEW k, NEW mine, NEW theirs
  PROVE  LinkIs(k, s, mine, theirs) <=> LinkIs(k, Other(s), theirs, mine)
  <1>1. /\ Other(Other(s)) = s
        /\ First(Other(s), theirs, mine) = First(s, mine, theirs)
        /\ Second(Other(s), theirs, mine) = Second(s, mine, theirs)
    BY TwoSides
  <1> QED
    BY <1>1 DEF LinkIs

\* The shape of a side that the proofs of a step need.
IsTyped(side) ==
  side.setup \in SetupRecord /\ side.wire \in Seq(AnyFrame) /\ side.end \in EndRecord

\* A frame that was true stays so.
LEMMA FramesStayTrue ==
  ASSUME NEW s, NEW k, NEW k2, NEW mine, NEW mine2, NEW theirs, NEW theirs2, NEW frame,
         k # NoContract => k2 = k, Grows(mine, mine2), Grows(theirs, theirs2),
         FrameIsTrue(k, s, mine, theirs, frame)
  PROVE  FrameIsTrue(k2, s, mine2, theirs2, frame)
  <1>1. NoOffer \notin AllOffers /\ NoContract \notin AllContracts
    BY ExchangeAssumption
  <1>2. \A n : CanRead(theirs, n) => CanRead(theirs2, n)
    BY DEF CanRead, Grows
  <1> HIDE DEF AllOffers, AllContracts
  <1> QED
    BY <1>1, <1>2 DEF FrameIsTrue, Grows

\* What the other side of a step is and knows stays so.
LEMMA OtherStays ==
  ASSUME NEW s \in Sides, NEW k, NEW k2, NEW mine, NEW mine2, NEW theirs, NEW theirs2,
         MayPropose(Other(s), k, k2), Grows(theirs, theirs2), SameButWire(mine, mine2),
         SetupIs(mine, theirs), EndIs(k, s, mine, theirs), EndKnows(k, s, mine, theirs)
  PROVE  /\ SetupIs(mine2, theirs2) /\ EndIs(k2, s, mine2, theirs2)
         /\ EndKnows(k2, s, mine2, theirs2)
  <1>1. NoOffer \notin AllOffers /\ NoContract \notin AllContracts
    BY ExchangeAssumption
  <1>2. k # NoContract => k2 = k
    BY DEF MayPropose
  <1>3. Grows(mine, mine2)
    BY DEF SameButWire, Grows
  <1>4. SetupIs(mine2, theirs2)
    BY DEF SetupIs, SameButWire, Grows
  <1>5. FrameIsTrue(k2, s, mine2, theirs2, mine2.end.frame)
    BY <1>2, <1>3, FramesStayTrue DEF EndKnows, SameButWire
  <1>6. /\ mine.end.state \in Owning => theirs2.offer = theirs.offer
        /\ mine.end.state \in Proposed => k2 = k
        /\ s = Authority => k2 = k
    BY <1>1, <1>2, TwoSides DEF EndKnows, Grows, MayPropose
  <1>7. FrameTo(k2, mine2, mine2.end.state) = FrameTo(k, mine, mine.end.state)
    BY <1>6 DEF FrameTo, SameButWire, Proposed
  <1>8. /\ AttemptIn(k2, First(s, mine2, theirs2).offer, Second(s, mine2, theirs2).offer,
                     mine2.end.state)
             = AttemptIn(k, First(s, mine, theirs).offer, Second(s, mine, theirs).offer,
                         mine.end.state)
    <2>1. CASE mine.end.state \in Owning
      <3>1. /\ First(s, mine2, theirs2).offer = First(s, mine, theirs).offer
            /\ Second(s, mine2, theirs2).offer = Second(s, mine, theirs).offer
        BY <1>6, <2>1 DEF First, Second, SameButWire
      <3>2. mine.end.state \in Proposed => k2 = k
        BY <1>6
      <3> QED
        BY <3>1, <3>2, <2>1 DEF AttemptIn, SameButWire, Owning, Proposed
    <2>2. CASE mine.end.state \notin Owning
      BY <2>2 DEF AttemptIn, SameButWire, Owning, Proposed
    <2> QED
      BY <2>1, <2>2
  <1>9. SettledIn(k2, mine2.end.state) = SettledIn(k, mine.end.state)
    BY <1>6 DEF SettledIn, SameButWire, Proposed
  <1>10. EndIs(k2, s, mine2, theirs2)
    BY <1>7, <1>8, <1>9 DEF EndIs, SameButWire
  <1>11. EndKnows(k2, s, mine2, theirs2)
    BY <1>5, <1>6 DEF EndKnows, SameButWire, Proposed
  <1> QED
    BY <1>4, <1>10, <1>11

\* What is on the wire stays right when the two sides go on and leave it.
LEMMA WireStays ==
  ASSUME NEW s \in Sides, NEW k, NEW k2, NEW mine, NEW mine2, NEW theirs, NEW theirs2,
         k # NoContract => k2 = k, Grows(mine, mine2), Grows(theirs, theirs2),
         WireIs(k, s, mine, theirs), mine2.wire = mine.wire,
         mine2.setup.phase \in {"None", "Handshaking"} =>
           mine.setup.phase \in {"None", "Handshaking"},
         IsAlive(theirs2) => /\ IsAlive(theirs)
                             /\ ReadBy(Other(s), theirs2) = ReadBy(Other(s), theirs),
         IsAlive(mine2) => IsAlive(mine) /\ WrittenBy(s, mine2) = WrittenBy(s, mine),
         mine2.setup.peer # NoSettings =>
           mine.setup.peer # NoSettings \/ (IsAlive(mine) /\ WrittenBy(s, mine) > 0)
  PROVE  WireIs(k2, s, mine2, theirs2)
  <1>1. \A i \in DOMAIN mine.wire : FrameIsTrue(k2, s, mine2, theirs2, mine.wire[i])
    BY FramesStayTrue DEF WireIs
  <1> HIDE DEF WrittenBy, ReadBy, IsAlive, FrameIsTrue, IsInPlace
  <1> QED
    BY <1>1 DEF WireIs

\* What is on the wire stays right when the other side reads the next frame of it.
LEMMA WireIsRead ==
  ASSUME NEW s \in Sides, NEW k, NEW k2, NEW mine, NEW mine2, NEW theirs, NEW theirs2,
         k # NoContract => k2 = k, Grows(theirs, theirs2),
         WireIs(k, s, mine, theirs), SameButWire(mine, mine2),
         mine.wire \in Seq(AnyFrame), mine.wire # <<>>, mine2.wire = Tail(mine.wire),
         ReadBy(Other(s), theirs) \in Nat,
         IsAlive(theirs2) =>
           /\ IsAlive(theirs)
           /\ ReadBy(Other(s), theirs2) = ReadBy(Other(s), theirs) + 1
  PROVE  WireIs(k2, s, mine2, theirs2)
  <1> DEFINE w == mine.wire
             w2 == Tail(w)
             read == ReadBy(Other(s), theirs)
             read2 == ReadBy(Other(s), theirs2)
  <1>1. Grows(mine, mine2)
    BY DEF SameButWire, Grows
  <1>2. \A i \in DOMAIN w : FrameIsTrue(k2, s, mine2, theirs2, w[i])
    BY <1>1, FramesStayTrue DEF WireIs
  <1>3. /\ Len(w2) = Len(w) - 1 /\ Len(w) \in Nat /\ Len(w) > 0 /\ w2 \in Seq(AnyFrame)
        /\ \A i \in DOMAIN w2 : i \in Nat /\ i + 1 \in DOMAIN w /\ w2[i] = w[i + 1]
    BY DEF AnyFrame
  <1>4. /\ \A i \in DOMAIN w2 : FrameIsTrue(k2, s, mine2, theirs2, w2[i])
        /\ mine.setup.phase \notin {"None", "Handshaking"}
    BY <1>2, <1>3 DEF WireIs
  <1>5. /\ IsAlive(mine2) = IsAlive(mine) /\ WrittenBy(s, mine2) = WrittenBy(s, mine)
        /\ mine2.setup = mine.setup /\ mine2.wire = w2
    BY DEF SameButWire, IsAlive, WrittenBy
  <1>6. ASSUME IsAlive(theirs2)
        PROVE  /\ \A i \in DOMAIN w2 : IsInPlace(w2[i], read2 + i)
               /\ IsAlive(mine) => read2 + Len(w2) = WrittenBy(s, mine)
               /\ mine.setup.peer # NoSettings => read2 + Len(w2) > 0
    <2>1. /\ \A i \in DOMAIN w : IsInPlace(w[i], read + i)
          /\ IsAlive(mine) => read + Len(w) = WrittenBy(s, mine)
          /\ mine.setup.peer # NoSettings => read + Len(w) > 0
          /\ read2 = read + 1 /\ read \in Nat
      BY <1>6 DEF WireIs
    <2> HIDE DEF w, read, read2, w2
    <2>2. \A i \in DOMAIN w2 : read2 + i = read + (i + 1)
      BY <1>3, <2>1
    <2> QED
      BY <1>3, <2>1, <2>2
  <1> HIDE DEF w2, read2
  <1> QED
    BY <1>4, <1>5, <1>6 DEF WireIs, read2

\* What is on the wire stays right when a side writes a frame.
LEMMA WireIsWritten ==
  ASSUME NEW s \in Sides, NEW k, NEW mine, NEW mine2, NEW theirs, NEW frame \in AnyFrame,
         Grows(mine, mine2), WireIs(k, s, mine, theirs),
         mine.wire \in Seq(AnyFrame), mine2.wire = Append(mine.wire, frame),
         mine2.setup.phase \notin {"None", "Handshaking"},
         FrameIsTrue(k, s, mine2, theirs, frame),
         mine2.setup.peer = mine.setup.peer, ReadBy(Other(s), theirs) \in Nat,
         IF IsAlive(mine)
         THEN /\ WrittenBy(s, mine2) = WrittenBy(s, mine) + 1
              /\ IsInPlace(frame, WrittenBy(s, mine) + 1)
         ELSE ~IsAlive(mine2) /\ frame.type = "Failed" /\ mine.setup.peer # NoSettings
  PROVE  WireIs(k, s, mine2, theirs)
  <1> DEFINE w == mine.wire
             w2 == Append(w, frame)
             read == ReadBy(Other(s), theirs)
  <1>1. Grows(theirs, theirs)
    BY DEF Grows
  <1>2. \A i \in DOMAIN w : FrameIsTrue(k, s, mine2, theirs, w[i])
    BY <1>1, FramesStayTrue DEF WireIs
  <1>3. /\ Len(w2) = Len(w) + 1 /\ Len(w) \in Nat /\ w2[Len(w) + 1] = frame
        /\ \A i \in DOMAIN w2 : i \in DOMAIN w \/ i = Len(w) + 1
        /\ \A i \in DOMAIN w : w2[i] = w[i]
    BY DEF AnyFrame
  <1> HIDE DEF w2
  <1>4. \A i \in DOMAIN w2 : FrameIsTrue(k, s, mine2, theirs, w2[i])
    BY <1>2, <1>3
  <1>5. ASSUME IsAlive(theirs)
        PROVE  /\ \A i \in DOMAIN w2 : IsInPlace(w2[i], read + i)
               /\ IsAlive(mine2) => read + Len(w2) = WrittenBy(s, mine2)
               /\ mine2.setup.peer # NoSettings => read + Len(w2) > 0
    <2>1. /\ \A i \in DOMAIN w : IsInPlace(w[i], read + i)
          /\ IsAlive(mine) => read + Len(w) = WrittenBy(s, mine)
          /\ mine.setup.peer # NoSettings => read + Len(w) > 0
          /\ read \in Nat
      BY <1>5 DEF WireIs
    <2> HIDE DEF w, read
    <2>2. IsInPlace(frame, read + (Len(w) + 1))
      <3>1. CASE IsAlive(mine)
        <4>1. read + (Len(w) + 1) = WrittenBy(s, mine) + 1
          BY <1>3, <2>1, <3>1
        <4> QED
          BY <3>1, <4>1
      <3>2. CASE ~IsAlive(mine)
        <4>1. read + (Len(w) + 1) > 1
          BY <1>3, <2>1, <3>2
        <4> QED
          BY <3>2, <4>1 DEF IsInPlace
      <3> QED
        BY <3>1, <3>2
    <2>3. IsAlive(mine2) => read + Len(w2) = WrittenBy(s, mine2)
      BY <1>3, <2>1
    <2>4. read + Len(w2) > 0
      BY <1>3, <2>1
    <2> QED
      BY <1>3, <2>1, <2>2, <2>3, <2>4
  <1> QED
    BY <1>4, <1>5 DEF WireIs, w2

\* How much a side has read is a count.
LEMMA ReadIsNat ==
  ASSUME NEW s, NEW side
  PROVE  ReadBy(s, side) \in Nat
  BY DEF ReadBy

-----------------------------------------------------------------------------
(* An end fails                                                            *)

\* The end has failed and may have to say so.
IsFailed(e) ==
  /\ e.state = "Failed" /\ e.phase \in {"Sending", "Failed", "TornDown"}
  /\ e.offer = NoOffer /\ ~e.owned /\ e.failure # "Protocol"
  /\ e.frame = IF e.phase = "Sending" THEN Frame("Failed", NoBody) ELSE NoFrame

\* mine becomes mine2 when it fails.
Fails(mine, mine2) ==
  /\ mine.setup.peer # NoSettings
  /\ mine2.setup.local = mine.setup.local /\ mine2.setup.peer = mine.setup.peer
  /\ mine2.setup.phase \in {mine.setup.phase, "Closed"}
  /\ IsFailed(mine2.end)
  /\ mine2.wire = mine.wire /\ mine2.offer = mine.offer /\ mine2.contract = mine.contract
  /\ mine2.attempt = {} /\ mine2.settled = {}

\* The end may have read a frame before.
MayBeRead(side, side2) ==
  /\ SameButWire(side, side2)
  /\ \/ side2.wire = side.wire
     \/ side.wire # <<>> /\ side2.wire = Tail(side.wire)

\* An end that fails, or reads as it fails, leaves the link right.
LEMMA LinkFails ==
  ASSUME NEW s \in Sides, NEW k, NEW mine, NEW mine2, NEW theirs, NEW theirs2,
         LinkIs(k, s, mine, theirs), IsTyped(theirs),
         Fails(mine, mine2), MayBeRead(theirs, theirs2)
  PROVE  LinkIs(k, s, mine2, theirs2)
  <1> DEFINE o == Other(s)
  <1>1. /\ o \in Sides /\ Other(o) = s
    BY TwoSides
  <1>2. /\ Grows(mine, mine2) /\ Grows(theirs, theirs2) /\ MayPropose(Other(o), k, k)
        /\ SameButWire(theirs, theirs2)
    <2>1. Grows(mine, mine2)
      BY DEF Fails, Grows
    <2>2. SameButWire(theirs, theirs2) /\ Grows(theirs, theirs2)
      BY DEF MayBeRead, SameButWire, Grows
    <2> QED
      BY <2>1, <2>2 DEF MayPropose
  <1>3. /\ SetupIs(theirs2, mine2) /\ EndIs(k, o, theirs2, mine2)
        /\ EndKnows(k, o, theirs2, mine2)
    BY <1>1, <1>2, OtherStays DEF LinkIs, SideIs
  <1>4. SetupIs(mine2, theirs2)
    BY DEF LinkIs, SideIs, SetupIs, Fails, MayBeRead, SameButWire, Early
  <1>5. EndIs(k, s, mine2, theirs2)
    <2>1. IsStage(s, mine2.end.state, mine2.end.phase)
      BY DEF Fails, IsFailed, IsStage
    <2>2. /\ AttemptIn(k, First(s, mine2, theirs2).offer, Second(s, mine2, theirs2).offer,
                       mine2.end.state) = mine2.attempt
          /\ SettledIn(k, mine2.end.state) = mine2.settled
      BY DEF Fails, IsFailed, AttemptIn, SettledIn
    <2>3. FrameTo(k, mine2, mine2.end.state) = Frame("Failed", NoBody)
      BY DEF Fails, IsFailed, FrameTo
    <2>4. mine2.end.state \notin Owning /\ mine2.end.state # "AwaitingPeerOffer"
      BY DEF Fails, IsFailed, Owning, Proposed
    <2> QED
      BY <2>1, <2>2, <2>3, <2>4 DEF EndIs, Fails, IsFailed
  <1>6. EndKnows(k, s, mine2, theirs2)
    BY DEF EndKnows, Fails, IsFailed, FrameIsTrue, Frame, NoFrame, Owning, Proposed, Unproposed
  <1>7. ~IsAlive(mine2)
    BY DEF Fails, IsFailed, IsAlive
  <1>8. WireIs(k, s, mine2, theirs2)
    <2>1. /\ mine2.setup.phase \in {"None", "Handshaking"} =>
               mine.setup.phase \in {"None", "Handshaking"}
          /\ mine2.setup.peer # NoSettings => mine.setup.peer # NoSettings
          /\ mine2.wire = mine.wire
      BY DEF Fails
    <2>2. IsAlive(theirs2) = IsAlive(theirs) /\ ReadBy(o, theirs2) = ReadBy(o, theirs)
      BY DEF MayBeRead, SameButWire, IsAlive, ReadBy
    <2> QED
      BY <1>2, <1>7, <2>1, <2>2, WireStays DEF LinkIs, SideIs
  <1>9. WireIs(k, o, theirs2, mine2)
    <2>1. WireIs(k, o, theirs, mine)
      BY DEF LinkIs, SideIs
    <2>2. CASE theirs2.wire = theirs.wire
      <3>1. /\ theirs2.setup = theirs.setup
            /\ IsAlive(theirs2) = IsAlive(theirs) /\ WrittenBy(o, theirs2) = WrittenBy(o, theirs)
        BY <1>2 DEF SameButWire, IsAlive, WrittenBy
      <3> QED
        BY <1>1, <1>2, <1>7, <2>1, <2>2, <3>1, WireStays
    <2>3. CASE theirs.wire # <<>> /\ theirs2.wire = Tail(theirs.wire)
      BY <1>1, <1>2, <1>7, <2>1, <2>3, ReadIsNat, WireIsRead DEF IsTyped
    <2> QED
      BY <2>2, <2>3 DEF MayBeRead
  <1>10. PairIs(k, First(s, mine2, theirs2), Second(s, mine2, theirs2))
    BY DEF LinkIs, PairIs, First, Second, Fails, MayBeRead, SameButWire
  <1> QED
    BY <1>3, <1>4, <1>5, <1>6, <1>8, <1>9, <1>10 DEF LinkIs, SideIs


-----------------------------------------------------------------------------
(* A side goes on with the bootstrap                                       *)

\* A step of s keeps the invariant when it leaves s right and the wire right.
LEMMA LinkSteps ==
  ASSUME NEW s \in Sides, NEW k, NEW k2, NEW mine, NEW mine2, NEW theirs, NEW theirs2,
         LinkIs(k, s, mine, theirs), SameButWire(theirs, theirs2), Grows(mine, mine2),
         MayPropose(s, k, k2),
         PairIs(k2, First(s, mine2, theirs2), Second(s, mine2, theirs2)),
         SideIs(k2, s, mine2, theirs2), WireIs(k2, Other(s), theirs2, mine2)
  PROVE  LinkIs(k2, s, mine2, theirs2)
  <1>1. Other(s) \in Sides /\ Other(Other(s)) = s
    BY TwoSides
  <1>2. /\ SetupIs(theirs, mine) /\ EndIs(k, Other(s), theirs, mine)
        /\ EndKnows(k, Other(s), theirs, mine)
    BY DEF LinkIs, SideIs
  <1>3. /\ SetupIs(theirs2, mine2) /\ EndIs(k2, Other(s), theirs2, mine2)
        /\ EndKnows(k2, Other(s), theirs2, mine2)
    BY <1>1, <1>2, OtherStays
  <1> QED
    BY <1>3 DEF LinkIs, SideIs

\* All is the same but for the bootstrap and what is on the wire.
SameEnd(side, side2) ==
  /\ side2.end = side.end /\ side2.offer = side.offer /\ side2.contract = side.contract
  /\ side2.attempt = side.attempt /\ side2.settled = side.settled

\* A step of the bootstrap, before the end is activated.
LEMMA LinkSetsUp ==
  ASSUME NEW s \in Sides, NEW k, NEW mine, NEW mine2, NEW theirs, NEW theirs2,
         LinkIs(k, s, mine, theirs), SameButWire(theirs, theirs2), SameEnd(mine, mine2),
         mine.setup.local # NoSettings => mine2.setup.local = mine.setup.local,
         mine.end.state = "Ready", SetupIs(mine2, theirs2),
         WireIs(k, s, mine2, theirs2), WireIs(k, Other(s), theirs2, mine2)
  PROVE  LinkIs(k, s, mine2, theirs2)
  <1>1. MayPropose(s, k, k) /\ Grows(mine, mine2) /\ Grows(theirs, theirs2)
    BY DEF MayPropose, Grows, SameEnd, SameButWire
  <1>2. PairIs(k, First(s, mine2, theirs2), Second(s, mine2, theirs2))
    BY DEF LinkIs, PairIs, First, Second, SameButWire, SameEnd
  <1>3. EndIs(k, s, mine2, theirs2)
    <2>1. /\ First(s, mine2, theirs2).offer = First(s, mine, theirs).offer
          /\ Second(s, mine2, theirs2).offer = Second(s, mine, theirs).offer
      BY DEF First, Second, SameButWire, SameEnd
    <2>2. FrameTo(k, mine2, mine2.end.state) = FrameTo(k, mine, mine.end.state)
      BY DEF FrameTo, SameEnd
    <2> QED
      BY <2>1, <2>2 DEF LinkIs, SideIs, EndIs, SameEnd
  <1>4. FrameIsTrue(k, s, mine2, theirs2, mine2.end.frame)
    BY <1>1, FramesStayTrue DEF LinkIs, SideIs, EndKnows, SameEnd
  <1>5. EndKnows(k, s, mine2, theirs2)
    BY <1>4 DEF LinkIs, SideIs, EndKnows, Owning, Proposed, SameEnd
  <1> QED
    BY <1>1, <1>2, <1>3, <1>5, LinkSteps DEF SideIs

\* An end that has not the other's settings is not activated.
LEMMA EndBeforeSettings ==
  ASSUME NEW s \in Sides, NEW k, NEW mine, NEW theirs, LinkIs(k, s, mine, theirs),
         mine.setup.phase \in Early
  PROVE  /\ mine.end.state = "Ready" /\ mine.setup.peer = NoSettings
         /\ ReadBy(s, mine) = 0 /\ IsAlive(mine)
         /\ WrittenBy(s, mine) = IF mine.setup.phase = "AwaitingSettings" THEN 1 ELSE 0
  <1>1. mine.end.state = "Ready" /\ mine.setup.peer = NoSettings
    BY DEF LinkIs, SideIs, SetupIs, EndKnows
  <1>2. mine.end.phase = "Idle"
    BY <1>1 DEF LinkIs, SideIs, EndIs, IsStage
  <1> QED
    BY <1>1, <1>2 DEF ReadBy, IsAlive, WrittenBy, Early

\* connect_profile_ready, accept_profile_ready
LEMMA LinkBegins ==
  ASSUME NEW s \in Sides, NEW k, NEW mine, NEW mine2, NEW theirs, NEW local \in AllSettings,
         LinkIs(k, s, mine, theirs), mine.setup.phase = "None", IsUsable(local),
         mine2.setup = Setup("Handshaking", local), SameEnd(mine, mine2),
         mine2.wire = mine.wire
  PROVE  LinkIs(k, s, mine2, theirs)
  <1>1. /\ mine2.setup.phase = "Handshaking" /\ mine2.setup.local = local
        /\ mine2.setup.peer = NoSettings /\ local # NoSettings
    BY ProfileAssumption DEF Setup
  <1>2. /\ mine.end.state = "Ready" /\ mine.setup.peer = NoSettings
        /\ ReadBy(s, mine) = 0 /\ IsAlive(mine) /\ WrittenBy(s, mine) = 0
    BY EndBeforeSettings DEF Early
  <1>3. ReadBy(s, mine2) = 0 /\ WrittenBy(s, mine2) = 0
    BY <1>1 DEF ReadBy, WrittenBy
  <1>4. mine.setup.local = NoSettings
    BY DEF LinkIs, SideIs, SetupIs
  <1>5. Grows(mine, mine2) /\ Grows(theirs, theirs) /\ SameButWire(theirs, theirs)
    BY <1>4 DEF Grows, SameEnd, SameButWire
  <1>6. SetupIs(mine2, theirs)
    BY <1>1 DEF SetupIs
  <1>7. WireIs(k, s, mine2, theirs)
    BY <1>1, <1>2, <1>3, <1>5, WireStays DEF LinkIs, SideIs
  <1>8. WireIs(k, Other(s), theirs, mine2)
    <2>1. WireIs(k, Other(s), theirs, mine) /\ Other(s) \in Sides /\ Other(Other(s)) = s
      BY TwoSides DEF LinkIs, SideIs
    <2> QED
      BY <1>2, <1>3, <1>5, <2>1, WireStays
  <1> QED
    BY <1>2, <1>4, <1>5, <1>6, <1>7, <1>8, LinkSetsUp

\* The bootstrap ends, or the host drops the connection before it is activated.
LEMMA LinkCloses ==
  ASSUME NEW s \in Sides, NEW k, NEW mine, NEW mine2, NEW theirs,
         LinkIs(k, s, mine, theirs), mine.setup.phase # "None", mine.end.state = "Ready",
         mine2.setup.phase = "Closed", mine2.setup.local = mine.setup.local,
         mine2.setup.peer = mine.setup.peer, SameEnd(mine, mine2),
         mine2.wire = mine.wire
  PROVE  LinkIs(k, s, mine2, theirs)
  <1>1. ~IsAlive(mine2)
    BY DEF IsAlive
  <1>2. Grows(mine, mine2) /\ Grows(theirs, theirs) /\ SameButWire(theirs, theirs)
    BY DEF Grows, SameEnd, SameButWire
  <1>3. SetupIs(mine2, theirs)
    BY DEF LinkIs, SideIs, SetupIs, Early
  <1>4. WireIs(k, s, mine2, theirs)
    BY <1>1, <1>2, WireStays DEF LinkIs, SideIs
  <1>5. WireIs(k, Other(s), theirs, mine2)
    <2>1. WireIs(k, Other(s), theirs, mine) /\ Other(s) \in Sides /\ Other(Other(s)) = s
      BY TwoSides DEF LinkIs, SideIs
    <2> QED
      BY <1>1, <1>2, <2>1, WireStays
  <1> QED
    BY <1>2, <1>3, <1>4, <1>5, LinkSetsUp

\* send_local_settings
LEMMA LinkSendsSettings ==
  ASSUME NEW s \in Sides, NEW k, NEW mine, NEW mine2, NEW theirs,
         LinkIs(k, s, mine, theirs), IsTyped(mine), mine.setup.phase = "Handshaking",
         mine2.setup.phase = "AwaitingSettings", mine2.setup.local = mine.setup.local,
         mine2.setup.peer = mine.setup.peer, SameEnd(mine, mine2),
         mine2.wire = Append(mine.wire, Frame("Settings", mine.setup.local))
  PROVE  LinkIs(k, s, mine2, theirs)
  <1> DEFINE f == Frame("Settings", mine.setup.local)
  <1>1. /\ mine.end.state = "Ready" /\ mine.setup.peer = NoSettings
        /\ ReadBy(s, mine) = 0 /\ IsAlive(mine) /\ WrittenBy(s, mine) = 0
    BY EndBeforeSettings DEF Early
  <1>2. mine.end.phase = "Idle" /\ mine.setup.local \in AllSettings
    BY <1>1 DEF LinkIs, SideIs, EndIs, IsStage, SetupIs, IsTyped, SetupRecord
  <1>3. ReadBy(s, mine2) = 0 /\ WrittenBy(s, mine2) = 1
    BY <1>1, <1>2 DEF ReadBy, WrittenBy, SameEnd
  <1>4. Grows(mine, mine2) /\ Grows(theirs, theirs) /\ SameButWire(theirs, theirs)
    BY DEF Grows, SameEnd, SameButWire
  <1>5. SetupIs(mine2, theirs)
    BY DEF LinkIs, SideIs, SetupIs, Early
  <1>6. /\ f \in AnyFrame /\ FrameIsTrue(k, s, mine2, theirs, f) /\ IsInPlace(f, 1)
    BY <1>2, ProfileAssumption DEF AnyFrame, Frame, FrameIsTrue, IsInPlace
  <1> HIDE DEF f
  <1>7. WireIs(k, s, mine2, theirs)
    BY <1>1, <1>3, <1>4, <1>6, ReadIsNat, WireIsWritten DEF LinkIs, SideIs, IsTyped, f
  <1>8. WireIs(k, Other(s), theirs, mine2)
    <2>1. WireIs(k, Other(s), theirs, mine) /\ Other(s) \in Sides /\ Other(Other(s)) = s
      BY TwoSides DEF LinkIs, SideIs
    <2> QED
      BY <1>1, <1>3, <1>4, <2>1, WireStays
  <1> QED
    BY <1>1, <1>4, <1>5, <1>7, <1>8, LinkSetsUp

\* The first frame a side reads is what the other has sent first.
LEMMA SettingsAreDue ==
  ASSUME NEW s \in Sides, NEW k, NEW mine, NEW theirs, LinkIs(k, s, mine, theirs),
         IsTyped(theirs), mine.setup.phase = "AwaitingSettings", theirs.wire # <<>>
  PROVE  LET frame == Head(theirs.wire)
         IN /\ frame.type = "Settings" /\ frame.body = theirs.setup.local
            /\ frame.body \in AllSettings /\ IsValidSettings(frame.body)
  <1> DEFINE frame == theirs.wire[1]
  <1>1. 1 \in DOMAIN theirs.wire /\ frame = Head(theirs.wire)
    BY DEF IsTyped, AnyFrame
  <1> HIDE DEF frame
  <1>2. IsAlive(mine) /\ ReadBy(s, mine) = 0
    BY EndBeforeSettings DEF Early
  <1>3. WireIs(k, Other(s), theirs, mine) /\ Other(Other(s)) = s
    BY TwoSides DEF LinkIs, SideIs
  <1>4. FrameIsTrue(k, Other(s), theirs, mine, frame) /\ IsInPlace(frame, 1)
    BY <1>1, <1>2, <1>3 DEF WireIs, frame
  <1>5. frame.type = "Settings"
    BY <1>4 DEF IsInPlace
  <1>6. frame.body = theirs.setup.local /\ frame.body # NoSettings
    BY <1>4, <1>5 DEF FrameIsTrue
  <1>7. theirs.setup.local \in AllSettings /\ IsValidSettings(theirs.setup.local)
    BY <1>6 DEF LinkIs, SideIs, SetupIs, IsTyped, SetupRecord, IsUsable
  <1> QED
    BY <1>1, <1>5, <1>6, <1>7

\* receive_peer_settings, when the settings are proper
LEMMA LinkGetsSettings ==
  ASSUME NEW s \in Sides, NEW k, NEW mine, NEW mine2, NEW theirs, NEW theirs2,
         LinkIs(k, s, mine, theirs), IsTyped(mine), IsTyped(theirs),
         mine.setup.phase = "AwaitingSettings", theirs.wire # <<>>,
         IsProperSettings(Head(theirs.wire), mine.setup.local),
         mine2.setup.phase = "Ready", mine2.setup.local = mine.setup.local,
         mine2.setup.peer = Head(theirs.wire).body, SameEnd(mine, mine2),
         mine2.wire = mine.wire,
         SameButWire(theirs, theirs2), theirs2.wire = Tail(theirs.wire)
  PROVE  LinkIs(k, s, mine2, theirs2)
  <1>1. /\ mine.end.state = "Ready" /\ mine.setup.peer = NoSettings
        /\ ReadBy(s, mine) = 0 /\ IsAlive(mine) /\ WrittenBy(s, mine) = 1
    BY EndBeforeSettings DEF Early
  <1>2. /\ mine2.setup.peer = theirs.setup.local /\ mine2.setup.peer \in AllSettings
        /\ mine2.setup.peer # NoSettings /\ mine2.setup.peer.role = Other(mine.setup.local.role)
    BY SettingsAreDue, ProfileAssumption DEF IsProperSettings
  <1>3. mine.end.phase = "Idle" /\ mine.setup.local \in AllSettings
    BY <1>1 DEF LinkIs, SideIs, EndIs, IsStage, SetupIs, IsTyped, SetupRecord
  <1>4. ReadBy(s, mine2) = 1 /\ WrittenBy(s, mine2) = 1
    BY <1>1, <1>2, <1>3 DEF ReadBy, WrittenBy, SameEnd
  <1>5. Grows(mine, mine2) /\ Grows(theirs, theirs2)
    BY DEF Grows, SameEnd, SameButWire
  <1>6. SetupIs(mine2, theirs2)
    <2>1. mine2.setup.peer.role # mine2.setup.local.role
      BY <1>2, <1>3, ProfileAssumption, TwoSides
    <2>2. /\ mine2.setup.local # NoSettings /\ IsUsable(mine2.setup.local)
          /\ theirs2.setup = theirs.setup
      BY <1>3, ProfileAssumption DEF LinkIs, SideIs, SetupIs, SameButWire
    <2> QED
      BY <1>2, <2>1, <2>2 DEF SetupIs, Early
  <1>7. WireIs(k, s, mine2, theirs2)
    <2>1. IsAlive(theirs2) = IsAlive(theirs)
          /\ ReadBy(Other(s), theirs2) = ReadBy(Other(s), theirs)
      BY DEF SameButWire, IsAlive, ReadBy
    <2> QED
      BY <1>1, <1>4, <1>5, <2>1, WireStays DEF LinkIs, SideIs
  <1>8. WireIs(k, Other(s), theirs2, mine2)
    <2>1. WireIs(k, Other(s), theirs, mine) /\ Other(s) \in Sides /\ Other(Other(s)) = s
      BY TwoSides DEF LinkIs, SideIs
    <2> QED
      BY <1>1, <1>4, <1>5, <2>1, WireIsRead DEF IsTyped
  <1> QED
    BY <1>1, <1>6, <1>7, <1>8, LinkSetsUp

\* receive_peer_settings, when both sides claim one role
LEMMA LinkIsBreached ==
  ASSUME NEW s \in Sides, NEW k, NEW mine, NEW mine2, NEW theirs, NEW theirs2,
         LinkIs(k, s, mine, theirs), IsTyped(mine), IsTyped(theirs),
         mine.setup.phase = "AwaitingSettings", theirs.wire # <<>>,
         ~IsProperSettings(Head(theirs.wire), mine.setup.local),
         mine2.setup.phase = "Breached", mine2.setup.local = mine.setup.local,
         mine2.setup.peer = mine.setup.peer, SameEnd(mine, mine2),
         mine2.wire = mine.wire,
         SameButWire(theirs, theirs2), theirs2.wire = Tail(theirs.wire)
  PROVE  LinkIs(k, s, mine2, theirs2)
  <1>1. /\ mine.end.state = "Ready" /\ mine.setup.peer = NoSettings
        /\ ReadBy(s, mine) = 0 /\ ~IsAlive(mine2)
    BY EndBeforeSettings DEF Early, IsAlive
  <1>2. /\ theirs.setup.local \in AllSettings /\ theirs.setup.local # NoSettings
        /\ theirs.setup.local.role # Other(mine.setup.local.role)
    BY SettingsAreDue, ProfileAssumption DEF IsProperSettings
  <1>3. mine.setup.local \in AllSettings /\ mine.setup.local # NoSettings
    BY ProfileAssumption DEF LinkIs, SideIs, SetupIs, IsTyped, SetupRecord
  <1>4. mine.setup.local.role = theirs.setup.local.role
    <2>1. mine.setup.local.role \in Sides /\ theirs.setup.local.role \in Sides
      BY <1>2, <1>3, ProfileAssumption
    <2> QED
      BY <1>2, <2>1 DEF Sides, Other, Authority, NonAuthority
  <1>5. Grows(theirs, theirs2) /\ Grows(mine, mine2)
    BY DEF Grows, SameButWire, SameEnd
  <1>6. SetupIs(mine2, theirs2)
    BY <1>1, <1>2, <1>3, <1>4 DEF LinkIs, SideIs, SetupIs, Early, SameButWire
  <1>7. WireIs(k, s, mine2, theirs2)
    <2>1. IsAlive(theirs2) = IsAlive(theirs)
          /\ ReadBy(Other(s), theirs2) = ReadBy(Other(s), theirs)
      BY DEF SameButWire, IsAlive, ReadBy
    <2> QED
      BY <1>1, <1>5, <2>1, WireStays DEF LinkIs, SideIs
  <1>8. WireIs(k, Other(s), theirs2, mine2)
    <2>1. WireIs(k, Other(s), theirs, mine) /\ Other(s) \in Sides /\ Other(Other(s)) = s
      BY TwoSides DEF LinkIs, SideIs
    <2> QED
      BY <1>1, <1>5, <2>1, ReadIsNat, WireIsRead DEF IsTyped
  <1> QED
    BY <1>1, <1>6, <1>7, <1>8, LinkSetsUp

-----------------------------------------------------------------------------
(* An end goes on with the exchange                                        *)

\* A step of the exchange, in which only s changes but for the wire.
LEMMA LinkExchanges ==
  ASSUME NEW s \in Sides, NEW k, NEW k2, NEW mine, NEW mine2, NEW theirs, NEW theirs2,
         LinkIs(k, s, mine, theirs), SameButWire(theirs, theirs2), Grows(mine, mine2),
         MayPropose(s, k, k2), mine2.setup = mine.setup,
         PairIs(k2, First(s, mine2, theirs2), Second(s, mine2, theirs2)),
         EndIs(k2, s, mine2, theirs2), EndKnows(k2, s, mine2, theirs2),
         WireIs(k2, s, mine2, theirs2), WireIs(k2, Other(s), theirs2, mine2)
  PROVE  LinkIs(k2, s, mine2, theirs2)
  <1>1. SetupIs(mine2, theirs2)
    BY DEF LinkIs, SideIs, SetupIs, SameButWire
  <1> QED
    BY <1>1, LinkSteps DEF SideIs

\* The wires when an end goes on and neither reads nor writes.
LEMMA WiresStay ==
  ASSUME NEW s \in Sides, NEW k, NEW k2, NEW mine, NEW mine2, NEW theirs,
         LinkIs(k, s, mine, theirs), k # NoContract => k2 = k, Grows(mine, mine2),
         mine2.setup = mine.setup, mine2.wire = mine.wire,
         IsAlive(mine2) => /\ IsAlive(mine) /\ WrittenBy(s, mine2) = WrittenBy(s, mine)
                           /\ ReadBy(s, mine2) = ReadBy(s, mine)
  PROVE  WireIs(k2, s, mine2, theirs) /\ WireIs(k2, Other(s), theirs, mine2)
  <1>1. Grows(theirs, theirs)
    BY DEF Grows
  <1>2. WireIs(k2, s, mine2, theirs)
    BY <1>1, WireStays DEF LinkIs, SideIs
  <1>3. WireIs(k, Other(s), theirs, mine) /\ Other(s) \in Sides /\ Other(Other(s)) = s
    BY TwoSides DEF LinkIs, SideIs
  <1>4. WireIs(k2, Other(s), theirs, mine2)
    BY <1>1, <1>3, WireStays
  <1> QED
    BY <1>2, <1>4

\* The wires when an end reads a frame and goes on.
LEMMA WiresAreRead ==
  ASSUME NEW s \in Sides, NEW k, NEW mine, NEW mine2, NEW theirs, NEW theirs2,
         LinkIs(k, s, mine, theirs), IsTyped(theirs), Grows(mine, mine2),
         mine2.setup = mine.setup, mine2.wire = mine.wire,
         SameButWire(theirs, theirs2), theirs.wire # <<>>, theirs2.wire = Tail(theirs.wire),
         IsAlive(mine), WrittenBy(s, mine2) = WrittenBy(s, mine),
         ReadBy(s, mine2) = ReadBy(s, mine) + 1
  PROVE  WireIs(k, s, mine2, theirs2) /\ WireIs(k, Other(s), theirs2, mine2)
  <1>1. /\ Grows(theirs, theirs2) /\ IsAlive(theirs2) = IsAlive(theirs)
        /\ ReadBy(Other(s), theirs2) = ReadBy(Other(s), theirs)
    BY DEF Grows, SameButWire, IsAlive, ReadBy
  <1>2. WireIs(k, s, mine2, theirs2)
    BY <1>1, WireStays DEF LinkIs, SideIs
  <1>3. WireIs(k, Other(s), theirs, mine) /\ Other(s) \in Sides /\ Other(Other(s)) = s
    BY TwoSides DEF LinkIs, SideIs
  <1>4. WireIs(k, Other(s), theirs2, mine2)
    BY <1>1, <1>3, ReadIsNat, WireIsRead DEF IsTyped
  <1> QED
    BY <1>2, <1>4

\* activate
LEMMA LinkActivates ==
  ASSUME NEW s \in Sides, NEW k, NEW mine, NEW mine2, NEW theirs, NEW offer \in AllOffers,
         LinkIs(k, s, mine, theirs), mine.setup.phase = "Ready", mine.end.phase = "Idle",
         CanRead(theirs, OfferBodyBytes(offer)),
         mine2.setup = mine.setup, mine2.wire = mine.wire,
         mine2.end = [phase |-> "Sending", state |-> "AwaitingPeerOffer", offer |-> offer,
                      owned |-> mine.end.owned, frame |-> Frame("Offer", offer),
                      failure |-> mine.end.failure],
         mine2.offer = offer, mine2.contract = mine.contract,
         mine2.attempt = mine.attempt, mine2.settled = mine.settled
  PROVE  LinkIs(k, s, mine2, theirs)
  <1>1. mine.end.state = "Ready" /\ mine.offer = NoOffer /\ mine.setup.peer # NoSettings
    BY DEF LinkIs, SideIs, EndIs, EndKnows, IsStage, SetupIs
  <1>2. k = NoContract
    BY <1>1, ExchangeAssumption DEF LinkIs, PairIs, Selected, First, Second
  <1>3. Grows(mine, mine2) /\ SameButWire(theirs, theirs) /\ MayPropose(s, k, k)
    BY <1>1 DEF Grows, SameButWire, MayPropose
  <1>4. PairIs(k, First(s, mine2, theirs), Second(s, mine2, theirs))
    BY <1>2 DEF LinkIs, PairIs, First, Second
  <1>5. EndIs(k, s, mine2, theirs)
    <2>1. IsStage(s, "AwaitingPeerOffer", "Sending")
      BY DEF IsStage
    <2>2. mine.attempt = {} /\ mine.settled = {} /\ ~mine.end.owned
          /\ mine.end.failure # "Protocol"
      BY <1>1 DEF LinkIs, SideIs, EndIs, AttemptIn, SettledIn, Owning, Proposed
    <2>3. \A a, b : AttemptIn(k, a, b, "AwaitingPeerOffer") = {}
      BY DEF AttemptIn
    <2>4. SettledIn(k, "AwaitingPeerOffer") = {}
      BY DEF SettledIn
    <2> QED
      BY <2>1, <2>2, <2>3, <2>4 DEF EndIs, FrameTo, Owning, Proposed
  <1>6. EndKnows(k, s, mine2, theirs)
    BY <1>1, <1>2 DEF EndKnows, FrameIsTrue, Frame, Owning, Proposed
  <1>7. IsAlive(mine) /\ WrittenBy(s, mine2) = WrittenBy(s, mine)
        /\ ReadBy(s, mine2) = ReadBy(s, mine)
    BY <1>1 DEF IsAlive, WrittenBy, ReadBy, Proposed, Owning
  <1>8. WireIs(k, s, mine2, theirs) /\ WireIs(k, Other(s), theirs, mine2)
    BY <1>3, <1>7, WiresStay
  <1> QED
    BY <1>3, <1>4, <1>5, <1>6, <1>8, LinkExchanges

\* The part of poll that writes a frame.
LEMMA LinkWrites ==
  ASSUME NEW s \in Sides, NEW k, NEW mine, NEW mine2, NEW theirs,
         LinkIs(k, s, mine, theirs), IsTyped(mine), mine.end.phase = "Sending",
         mine2.setup = mine.setup, mine2.wire = Append(mine.wire, mine.end.frame),
         mine2.end = [phase |-> PhaseAfter(mine.end.frame), state |-> mine.end.state,
                      offer |-> mine.end.offer, owned |-> mine.end.owned,
                      frame |-> NoFrame, failure |-> mine.end.failure],
         mine2.offer = mine.offer, mine2.contract = mine.contract,
         mine2.attempt = mine.attempt, mine2.settled = mine.settled
  PROVE  LinkIs(k, s, mine2, theirs)
  <1> DEFINE frame == mine.end.frame
             state == mine.end.state
  <1>1. /\ frame = FrameTo(k, mine, state) /\ IsStage(s, state, "Sending")
        /\ FrameIsTrue(k, s, mine, theirs, frame)
    BY DEF LinkIs, SideIs, EndIs, EndKnows
  <1>2. /\ state # "Ready" /\ mine.setup.peer # NoSettings
        /\ state # "Failed" => mine.setup.phase = "Ready"
        /\ mine.setup.phase \notin {"None", "Handshaking"}
    BY <1>1 DEF LinkIs, SideIs, EndKnows, IsStage, SetupIs, Early
  <1>3. \/ /\ state = "AwaitingPeerOffer" /\ frame = Frame("Offer", mine.offer)
           /\ mine2.end.phase = "Receiving" /\ IsInPlace(frame, 2)
        \/ /\ state = "AwaitingValidated" /\ frame = Frame("Proposal", k)
           /\ mine2.end.phase = "Receiving" /\ IsInPlace(frame, 3)
        \/ /\ state = "AwaitingEstablished" /\ frame = Frame("Validated", NoBody)
           /\ mine2.end.phase = "Receiving" /\ IsInPlace(frame, 3)
        \/ /\ state = "Established" /\ frame = Frame("Established", NoBody)
           /\ mine2.end.phase = "Established" /\ s = Authority /\ IsInPlace(frame, 4)
        \/ /\ state = "Failed" /\ frame = Frame("Failed", NoBody)
           /\ mine2.end.phase = "Reporting"
    BY <1>1 DEF IsStage, FrameTo, PhaseAfter, Frame, IsInPlace
  <1>4. frame \in AnyFrame
    BY <1>1, <1>3 DEF AnyFrame, Frame, FrameIsTrue
  <1>5. Grows(mine, mine2) /\ SameButWire(theirs, theirs) /\ MayPropose(s, k, k)
        /\ Grows(theirs, theirs)
    BY DEF Grows, SameButWire, MayPropose
  <1>6. PairIs(k, First(s, mine2, theirs), Second(s, mine2, theirs))
    BY DEF LinkIs, PairIs, First, Second
  <1>7. EndIs(k, s, mine2, theirs)
    <2>1. IsStage(s, state, mine2.end.phase) /\ mine2.end.phase # "Sending"
      BY <1>1, <1>3 DEF IsStage
    <2>2. /\ First(s, mine2, theirs).offer = First(s, mine, theirs).offer
          /\ Second(s, mine2, theirs).offer = Second(s, mine, theirs).offer
      BY DEF First, Second
    <2> QED
      BY <2>1, <2>2 DEF LinkIs, SideIs, EndIs
  <1>8. EndKnows(k, s, mine2, theirs)
    <2>1. FrameIsTrue(k, s, mine2, theirs, NoFrame)
      BY DEF FrameIsTrue, NoFrame, Frame
    <2> QED
      BY <2>1 DEF LinkIs, SideIs, EndKnows
  <1>9. IF IsAlive(mine)
        THEN /\ WrittenBy(s, mine2) = WrittenBy(s, mine) + 1
             /\ IsInPlace(frame, WrittenBy(s, mine) + 1)
        ELSE ~IsAlive(mine2) /\ frame.type = "Failed" /\ mine.setup.peer # NoSettings
    <2>1. CASE state = "Failed"
      BY <1>2, <1>3, <2>1 DEF IsAlive, Frame
    <2>2. CASE state # "Failed"
      <3>1. IsAlive(mine)
        BY <1>2, <2>2 DEF IsAlive
      <3>2. WrittenBy(s, mine2) = WrittenBy(s, mine) + 1
        BY <1>2, <1>3, <2>2 DEF WrittenBy, Proposed
      <3>3. IsInPlace(frame, WrittenBy(s, mine) + 1)
        <4>1. WrittenBy(s, mine) + 1 = IF state = "AwaitingPeerOffer" THEN 2
                                       ELSE IF state = "Established" THEN 4 ELSE 3
          BY <1>2, <1>3, <2>2 DEF WrittenBy, Proposed
        <4> QED
          BY <1>3, <2>2, <4>1
      <3> QED
        BY <3>1, <3>2, <3>3
    <2> QED
      BY <2>1, <2>2
  <1>10. WireIs(k, s, mine2, theirs)
    <2>1. FrameIsTrue(k, s, mine2, theirs, frame)
      BY <1>1, <1>5, FramesStayTrue
    <2> HIDE DEF frame, state
    <2> QED
      BY <1>2, <1>4, <1>5, <1>9, <2>1, ReadIsNat, WireIsWritten DEF LinkIs, SideIs, IsTyped, frame
  <1>11. WireIs(k, Other(s), theirs, mine2)
    <2>1. WireIs(k, Other(s), theirs, mine) /\ Other(s) \in Sides /\ Other(Other(s)) = s
      BY TwoSides DEF LinkIs, SideIs
    <2>2. IsAlive(mine2) = IsAlive(mine) /\ ReadBy(s, mine2) = ReadBy(s, mine)
      BY DEF IsAlive, ReadBy
    <2> QED
      BY <1>5, <2>1, <2>2, WireStays
  <1> QED
    BY <1>5, <1>6, <1>7, <1>8, <1>10, <1>11, LinkExchanges

\* FinishReport
LEMMA LinkReports ==
  ASSUME NEW s \in Sides, NEW k, NEW mine, NEW mine2, NEW theirs,
         LinkIs(k, s, mine, theirs), mine.end.phase = "Reporting",
         mine2.setup = mine.setup, mine2.wire = mine.wire,
         mine2.end = [phase |-> "Failed", state |-> mine.end.state,
                      offer |-> mine.end.offer, owned |-> mine.end.owned,
                      frame |-> mine.end.frame, failure |-> mine.end.failure],
         mine2.offer = mine.offer, mine2.contract = mine.contract,
         mine2.attempt = mine.attempt, mine2.settled = mine.settled
  PROVE  LinkIs(k, s, mine2, theirs)
  <1>1. mine.end.state = "Failed"
    BY DEF LinkIs, SideIs, EndIs, IsStage
  <1>2. ~IsAlive(mine2)
    BY <1>1 DEF IsAlive
  <1>3. Grows(mine, mine2) /\ SameButWire(theirs, theirs) /\ MayPropose(s, k, k)
    BY DEF Grows, SameButWire, MayPropose
  <1>4. PairIs(k, First(s, mine2, theirs), Second(s, mine2, theirs))
    BY DEF LinkIs, PairIs, First, Second
  <1>5. EndIs(k, s, mine2, theirs)
    <2>1. IsStage(s, "Failed", "Failed")
      BY DEF IsStage
    <2>2. \A a, b : AttemptIn(k, a, b, "Failed") = {}
      BY DEF AttemptIn
    <2> QED
      BY <1>1, <2>1, <2>2 DEF LinkIs, SideIs, EndIs
  <1>6. EndKnows(k, s, mine2, theirs)
    <2>1. FrameIsTrue(k, s, mine2, theirs, mine2.end.frame)
      BY DEF LinkIs, SideIs, EndKnows, FrameIsTrue
    <2> QED
      BY <2>1 DEF LinkIs, SideIs, EndKnows
  <1>7. WireIs(k, s, mine2, theirs) /\ WireIs(k, Other(s), theirs, mine2)
    BY <1>2, <1>3, WiresStay
  <1> QED
    BY <1>3, <1>4, <1>5, <1>6, <1>7, LinkExchanges

\* What an end that receives knows of the next frame.
LEMMA FrameIsDue ==
  ASSUME NEW s \in Sides, NEW k, NEW mine, NEW theirs, LinkIs(k, s, mine, theirs),
         IsTyped(theirs), mine.end.phase = "Receiving", theirs.wire # <<>>
  PROVE  LET frame == Head(theirs.wire)
             state == mine.end.state
         IN /\ IsAlive(mine) /\ mine.setup.phase = "Ready" /\ mine.setup.peer # NoSettings
            /\ FrameIsTrue(k, Other(s), theirs, mine, frame)
            /\ IsInPlace(frame, ReadBy(s, mine) + 1)
            /\ mine.end.frame = NoFrame
            /\ \/ /\ state = "AwaitingPeerOffer" /\ ReadBy(s, mine) = 1
                  /\ WrittenBy(s, mine) = 2
               \/ /\ state = "AwaitingValidated" /\ s = Authority /\ ReadBy(s, mine) = 2
                  /\ WrittenBy(s, mine) = 3
               \/ /\ state = "AwaitingProposal" /\ s = NonAuthority /\ ReadBy(s, mine) = 2
                  /\ WrittenBy(s, mine) = 2
               \/ /\ state = "AwaitingEstablished" /\ s = NonAuthority /\ ReadBy(s, mine) = 3
                  /\ WrittenBy(s, mine) = 3
  <1> DEFINE frame == theirs.wire[1]
             state == mine.end.state
  <1>1. 1 \in DOMAIN theirs.wire /\ frame = Head(theirs.wire)
    BY DEF IsTyped, AnyFrame
  <1> HIDE DEF frame
  <1>2. \/ state = "AwaitingPeerOffer"
        \/ state = "AwaitingValidated" /\ s = Authority
        \/ state = "AwaitingProposal" /\ s = NonAuthority
        \/ state = "AwaitingEstablished" /\ s = NonAuthority
    BY DEF LinkIs, SideIs, EndIs, IsStage
  <1>3. /\ mine.setup.phase = "Ready" /\ mine.setup.peer # NoSettings
        /\ mine.end.frame = NoFrame
    BY <1>2 DEF LinkIs, SideIs, EndIs, EndKnows
  <1>4. IsAlive(mine)
    BY <1>2, <1>3 DEF IsAlive
  <1>5. WireIs(k, Other(s), theirs, mine) /\ Other(Other(s)) = s
    BY TwoSides DEF LinkIs, SideIs
  <1>6. FrameIsTrue(k, Other(s), theirs, mine, frame) /\ IsInPlace(frame, ReadBy(s, mine) + 1)
    BY <1>1, <1>4, <1>5 DEF WireIs, frame
  <1>7. /\ state = "AwaitingPeerOffer" => ReadBy(s, mine) = 1 /\ WrittenBy(s, mine) = 2
        /\ state = "AwaitingValidated" => ReadBy(s, mine) = 2 /\ WrittenBy(s, mine) = 3
        /\ state = "AwaitingProposal" => ReadBy(s, mine) = 2 /\ WrittenBy(s, mine) = 2
        /\ state = "AwaitingEstablished" => ReadBy(s, mine) = 3 /\ WrittenBy(s, mine) = 3
    BY <1>3 DEF ReadBy, WrittenBy, Owning, Proposed
  <1> QED
    BY <1>1, <1>2, <1>3, <1>4, <1>6, <1>7

\* An offer comes when it is expected, and can be read.
LEMMA OfferIsDue ==
  ASSUME NEW s \in Sides, NEW k, NEW mine, NEW theirs, LinkIs(k, s, mine, theirs),
         IsTyped(theirs), mine.end.phase = "Receiving", theirs.wire # <<>>,
         Head(theirs.wire).type = "Offer"
  PROVE  LET frame == Head(theirs.wire)
         IN /\ mine.end.state = "AwaitingPeerOffer"
            /\ mine.end.offer = mine.offer /\ mine.offer \in AllOffers
            /\ frame.body = theirs.offer /\ theirs.offer \in AllOffers
            /\ CanRead(mine, OfferBodyBytes(theirs.offer))
            /\ mine.attempt = {} /\ mine.settled = {}
  <1> DEFINE frame == Head(theirs.wire)
  <1>1. /\ FrameIsTrue(k, Other(s), theirs, mine, frame)
        /\ IsInPlace(frame, ReadBy(s, mine) + 1)
        /\ \/ mine.end.state = "AwaitingPeerOffer" /\ ReadBy(s, mine) = 1
           \/ ReadBy(s, mine) \in {2, 3}
    BY FrameIsDue
  <1> HIDE DEF frame
  <1>2. ReadBy(s, mine) + 1 = 2
    BY <1>1 DEF IsInPlace, frame
  <1>3. mine.end.state = "AwaitingPeerOffer"
    BY <1>1, <1>2
  <1>4. /\ frame.body = theirs.offer /\ theirs.offer \in AllOffers
        /\ CanRead(mine, OfferBodyBytes(theirs.offer))
    BY <1>1 DEF FrameIsTrue, frame
  <1>5. /\ mine.end.offer = mine.offer /\ mine.offer \in AllOffers
        /\ mine.attempt = {} /\ mine.settled = {}
    BY <1>3 DEF LinkIs, SideIs, EndIs, EndKnows, AttemptIn, SettledIn
  <1> QED
    BY <1>3, <1>4, <1>5 DEF frame

\* A proposal comes when it is expected, can be read and is the authority's.
LEMMA ProposalIsDue ==
  ASSUME NEW s \in Sides, NEW k, NEW mine, NEW theirs, LinkIs(k, s, mine, theirs),
         IsTyped(theirs), mine.end.phase = "Receiving", theirs.wire # <<>>,
         Head(theirs.wire).type = "Proposal"
  PROVE  LET frame == Head(theirs.wire)
         IN /\ s = NonAuthority /\ mine.end.state = "AwaitingProposal"
            /\ frame.body = k /\ k \in AllContracts
            /\ CanRead(mine, ProposalBodyBytes(k))
            /\ mine.offer \in AllOffers /\ theirs.offer \in AllOffers
            /\ mine.attempt = {NewAttempt(theirs.offer, mine.offer)} /\ mine.settled = {}
  <1> DEFINE frame == Head(theirs.wire)
  <1>1. /\ FrameIsTrue(k, Other(s), theirs, mine, frame)
        /\ IsInPlace(frame, ReadBy(s, mine) + 1)
        /\ \/ ReadBy(s, mine) \in {1, 3}
           \/ mine.end.state = "AwaitingValidated" /\ s = Authority
           \/ mine.end.state = "AwaitingProposal" /\ s = NonAuthority
    BY FrameIsDue
  <1> HIDE DEF frame
  <1>2. ReadBy(s, mine) + 1 = 3
    BY <1>1 DEF IsInPlace, frame
  <1>3. /\ Other(s) = Authority /\ frame.body = k /\ k \in AllContracts
        /\ CanRead(mine, ProposalBodyBytes(k))
    BY <1>1 DEF FrameIsTrue, frame
  <1>4. s = NonAuthority
    BY <1>3, TwoSides
  <1>5. mine.end.state = "AwaitingProposal"
    BY <1>1, <1>2, <1>4, TwoSides
  <1>6. /\ mine.offer \in AllOffers /\ theirs.offer \in AllOffers
        /\ mine.attempt = {NewAttempt(theirs.offer, mine.offer)} /\ mine.settled = {}
    BY <1>4, <1>5, TwoSides
       DEF LinkIs, SideIs, EndIs, EndKnows, AttemptIn, SettledIn, Owning, First, Second
  <1> QED
    BY <1>3, <1>4, <1>5, <1>6 DEF frame

\* A validation comes to the authority when it is expected.
LEMMA ValidatedIsDue ==
  ASSUME NEW s \in Sides, NEW k, NEW mine, NEW theirs, LinkIs(k, s, mine, theirs),
         IsTyped(theirs), mine.end.phase = "Receiving", theirs.wire # <<>>,
         Head(theirs.wire).type = "Validated"
  PROVE  /\ s = Authority /\ mine.end.state = "AwaitingValidated"
         /\ k \in AllContracts /\ Validated(k)
         /\ ContractWithinLimits(k, OfferLimits[s])
         /\ mine.offer \in AllOffers /\ theirs.offer \in AllOffers
         /\ mine.attempt = {ProposedAttempt(k, mine.offer, theirs.offer)}
         /\ mine.settled = {}
  <1> DEFINE frame == Head(theirs.wire)
  <1>1. /\ FrameIsTrue(k, Other(s), theirs, mine, frame)
        /\ IsInPlace(frame, ReadBy(s, mine) + 1)
        /\ \/ ReadBy(s, mine) \in {1, 3}
           \/ mine.end.state = "AwaitingValidated" /\ s = Authority
           \/ mine.end.state = "AwaitingProposal" /\ s = NonAuthority
    BY FrameIsDue
  <1> HIDE DEF frame
  <1>2. ReadBy(s, mine) + 1 = 3
    BY <1>1 DEF IsInPlace, frame
  <1>3. Other(s) = NonAuthority /\ k \in AllContracts /\ Validated(k)
    BY <1>1 DEF FrameIsTrue, frame
  <1>4. s = Authority
    BY <1>3, TwoSides
  <1>5. mine.end.state = "AwaitingValidated"
    BY <1>1, <1>2, <1>4, TwoSides
  <1>6. /\ mine.offer \in AllOffers /\ theirs.offer \in AllOffers
        /\ ContractWithinLimits(k, OfferLimits[s])
        /\ mine.attempt = {ProposedAttempt(k, mine.offer, theirs.offer)}
        /\ mine.settled = {}
    BY <1>4, <1>5
       DEF LinkIs, SideIs, EndIs, EndKnows, AttemptIn, SettledIn, Owning, Proposed, First, Second
  <1> QED
    BY <1>3, <1>4, <1>5, <1>6

\* The establishment comes to the non-authority when it is expected.
LEMMA EstablishedIsDue ==
  ASSUME NEW s \in Sides, NEW k, NEW mine, NEW theirs, LinkIs(k, s, mine, theirs),
         IsTyped(theirs), mine.end.phase = "Receiving", theirs.wire # <<>>,
         Head(theirs.wire).type = "Established"
  PROVE  /\ s = NonAuthority /\ mine.end.state = "AwaitingEstablished"
         /\ k \in AllContracts /\ theirs.contract = k
         /\ ContractWithinLimits(k, OfferLimits[s])
         /\ mine.offer \in AllOffers /\ theirs.offer \in AllOffers
         /\ mine.attempt = {ValidatedAttempt(k, theirs.offer, mine.offer)}
         /\ mine.settled = {}
  <1> DEFINE frame == Head(theirs.wire)
  <1>1. /\ FrameIsTrue(k, Other(s), theirs, mine, frame)
        /\ IsInPlace(frame, ReadBy(s, mine) + 1)
        /\ \/ ReadBy(s, mine) \in {1, 2}
           \/ mine.end.state = "AwaitingEstablished" /\ s = NonAuthority
    BY FrameIsDue
  <1> HIDE DEF frame
  <1>2. ReadBy(s, mine) + 1 = 4
    BY <1>1 DEF IsInPlace, frame
  <1>3. /\ s = NonAuthority /\ mine.end.state = "AwaitingEstablished"
        /\ k \in AllContracts /\ theirs.contract = k
    BY <1>1, <1>2 DEF FrameIsTrue, frame
  <1>4. /\ mine.offer \in AllOffers /\ theirs.offer \in AllOffers
        /\ ContractWithinLimits(k, OfferLimits[s])
        /\ mine.attempt = {ValidatedAttempt(k, theirs.offer, mine.offer)}
        /\ mine.settled = {}
    BY <1>3, TwoSides
       DEF LinkIs, SideIs, EndIs, EndKnows, AttemptIn, SettledIn, Owning, Proposed, First, Second
  <1> QED
    BY <1>3, <1>4

\* receive_offer, when the attempt starts
LEMMA LinkStarts ==
  ASSUME NEW s \in Sides, NEW k, NEW mine, NEW mine2, NEW theirs, NEW theirs2,
         LinkIs(k, s, mine, theirs), IsTyped(theirs), mine.end.phase = "Receiving",
         theirs.wire # <<>>, Head(theirs.wire).type = "Offer",
         mine2.setup = mine.setup, mine2.wire = mine.wire,
         mine2.end = [phase |-> IF s = Authority THEN "Selecting" ELSE "Receiving",
                      state |-> IF s = Authority THEN "AwaitingAuthoritySelection"
                                ELSE "AwaitingProposal",
                      offer |-> NoOffer, owned |-> TRUE, frame |-> mine.end.frame,
                      failure |-> mine.end.failure],
         mine2.offer = mine.offer, mine2.contract = mine.contract,
         mine2.attempt = {NewAttempt(First(s, mine, theirs).offer,
                                     Second(s, mine, theirs).offer)},
         mine2.settled = mine.settled,
         SameButWire(theirs, theirs2), theirs2.wire = Tail(theirs.wire)
  PROVE  LinkIs(k, s, mine2, theirs2)
  <1> DEFINE state2 == mine2.end.state
  <1>1. /\ mine.end.state = "AwaitingPeerOffer" /\ mine.end.frame = NoFrame
        /\ mine.offer \in AllOffers /\ theirs.offer \in AllOffers /\ mine.settled = {}
        /\ IsAlive(mine) /\ mine.setup.phase = "Ready" /\ mine.setup.peer # NoSettings
        /\ WrittenBy(s, mine) = 2 /\ ReadBy(s, mine) = 1
    BY OfferIsDue, FrameIsDue
  <1>2. /\ state2 \in {"AwaitingAuthoritySelection", "AwaitingProposal"}
        /\ IsStage(s, state2, mine2.end.phase) /\ mine2.end.phase # "Sending"
        /\ s = Authority => state2 = "AwaitingAuthoritySelection"
    BY TwoSides DEF IsStage
  <1>3. Grows(mine, mine2) /\ MayPropose(s, k, k)
    BY DEF Grows, MayPropose
  <1>4. /\ First(s, mine2, theirs2).offer = First(s, mine, theirs).offer
        /\ Second(s, mine2, theirs2).offer = Second(s, mine, theirs).offer
        /\ First(s, mine2, theirs2).contract = First(s, mine, theirs).contract
        /\ Second(s, mine2, theirs2).contract = Second(s, mine, theirs).contract
    BY DEF First, Second, SameButWire
  <1>5. PairIs(k, First(s, mine2, theirs2), Second(s, mine2, theirs2))
    BY <1>4 DEF LinkIs, PairIs
  <1>6. mine.end.failure # "Protocol"
    BY DEF LinkIs, SideIs, EndIs
  <1>7. EndIs(k, s, mine2, theirs2)
    <2>1. \A a, b : AttemptIn(k, a, b, state2) = {NewAttempt(a, b)}
      BY <1>2 DEF AttemptIn
    <2>2. SettledIn(k, state2) = {} /\ state2 \in Owning /\ state2 # "AwaitingPeerOffer"
      BY <1>2 DEF SettledIn, Owning
    <2> QED
      BY <1>1, <1>2, <1>4, <1>6, <2>1, <2>2 DEF EndIs
  <1>8. EndKnows(k, s, mine2, theirs2)
    <2>1. FrameIsTrue(k, s, mine2, theirs2, NoFrame)
      BY DEF FrameIsTrue, NoFrame, Frame
    <2>2. s = Authority => k = NoContract
      BY <1>1 DEF LinkIs, SideIs, EndKnows, Unproposed
    <2> QED
      BY <1>1, <1>2, <2>1, <2>2 DEF EndKnows, SameButWire, Proposed
  <1>9. WrittenBy(s, mine2) = 2 /\ ReadBy(s, mine2) = 2
    BY <1>1, <1>2 DEF WrittenBy, ReadBy, Proposed, Owning
  <1>10. WireIs(k, s, mine2, theirs2) /\ WireIs(k, Other(s), theirs2, mine2)
    BY <1>1, <1>3, <1>9, WiresAreRead
  <1> QED
    BY <1>3, <1>5, <1>7, <1>8, <1>10, LinkExchanges

\* propose_authority
LEMMA LinkProposes ==
  ASSUME NEW k, NEW contract \in AllContracts, NEW mine, NEW mine2, NEW theirs,
         LinkIs(k, Authority, mine, theirs), IsTyped(mine), mine.end.phase = "Selecting",
         SelectsOnlyCommon(contract, mine.offer, theirs.offer),
         SelectsAllRequired(contract, mine.offer, theirs.offer),
         SelectsHostRequired(contract, Requirements[Authority]),
         ContractWithinLimits(contract, OfferLimits[Authority]),
         CanRead(theirs, ProposalBodyBytes(contract)),
         mine2.setup = mine.setup, mine2.wire = mine.wire,
         mine2.end = [phase |-> "Sending", state |-> "AwaitingValidated",
                      offer |-> mine.end.offer, owned |-> mine.end.owned,
                      frame |-> Frame("Proposal", contract), failure |-> mine.end.failure],
         mine2.offer = mine.offer, mine2.contract = mine.contract,
         mine2.attempt = {ProposedAttempt(contract, mine.offer, theirs.offer)},
         mine2.settled = mine.settled
  PROVE  LinkIs(contract, Authority, mine2, theirs)
  <1> DEFINE s == Authority
  <1>1. /\ mine.end.state = "AwaitingAuthoritySelection"
        /\ k = NoContract /\ mine.offer \in AllOffers /\ theirs.offer \in AllOffers
        /\ mine.end.offer = NoOffer /\ mine.end.owned /\ mine.end.failure # "Protocol"
        /\ mine.settled = {} /\ mine.setup.peer # NoSettings /\ mine.setup.phase = "Ready"
    BY DEF LinkIs, SideIs, EndIs, EndKnows, IsStage, SettledIn, Owning, Unproposed
  <1>2. mine.contract = NoContract /\ theirs.contract = NoContract
    BY <1>1 DEF LinkIs, PairIs, First, Second
  <1>3. /\ Grows(mine, mine2) /\ MayPropose(s, k, contract) /\ SameButWire(theirs, theirs)
        /\ Grows(theirs, theirs)
    BY <1>1 DEF Grows, MayPropose, SameButWire
  <1>4. PairIs(contract, First(s, mine2, theirs), Second(s, mine2, theirs))
    BY <1>1, <1>2 DEF PairIs, Selected, First, Second
  <1>5. EndIs(contract, s, mine2, theirs)
    <2>1. /\ IsStage(s, "AwaitingValidated", "Sending")
          /\ SettledIn(contract, "AwaitingValidated") = {} /\ "AwaitingValidated" \in Owning
          /\ FrameTo(contract, mine2, "AwaitingValidated") = Frame("Proposal", contract)
      BY DEF IsStage, SettledIn, Owning, Proposed, FrameTo
    <2>2. AttemptIn(contract, mine.offer, theirs.offer, "AwaitingValidated") = mine2.attempt
      BY DEF AttemptIn
    <2> QED
      BY <1>1, <2>1, <2>2 DEF EndIs, First, Second
  <1>6. EndKnows(contract, s, mine2, theirs)
    <2>1. FrameIsTrue(contract, s, mine2, theirs, Frame("Proposal", contract))
      BY DEF FrameIsTrue, Frame
    <2> QED
      BY <1>1, <2>1 DEF EndKnows, Unproposed, Proposed, Owning
  <1>7. IsAlive(mine) /\ WrittenBy(s, mine2) = WrittenBy(s, mine)
        /\ ReadBy(s, mine2) = ReadBy(s, mine)
    <2>1. mine.end.phase # "Sending"
      OBVIOUS
    <2> QED
      BY <1>1, <2>1 DEF IsAlive, WrittenBy, ReadBy, Proposed, Owning
  <1>8. WireIs(contract, s, mine2, theirs) /\ WireIs(contract, Other(s), theirs, mine2)
    BY <1>1, <1>3, <1>7, TwoSides, WiresStay
  <1> QED
    BY <1>3, <1>4, <1>5, <1>6, <1>8, TwoSides, LinkExchanges

\* receive_proposal, when the selection is valid
LEMMA LinkValidates ==
  ASSUME NEW s \in Sides, NEW k, NEW mine, NEW mine2, NEW theirs, NEW theirs2,
         LinkIs(k, s, mine, theirs), IsTyped(theirs), mine.end.phase = "Receiving",
         theirs.wire # <<>>, Head(theirs.wire).type = "Proposal",
         Validated(k), ContractWithinLimits(k, OfferLimits[s]),
         mine2.setup = mine.setup, mine2.wire = mine.wire,
         mine2.end = [phase |-> "Sending", state |-> "AwaitingEstablished",
                      offer |-> mine.end.offer, owned |-> mine.end.owned,
                      frame |-> Frame("Validated", NoBody), failure |-> mine.end.failure],
         mine2.offer = mine.offer, mine2.contract = mine.contract,
         mine2.attempt = {ValidatedAttempt(k, theirs.offer, mine.offer)},
         mine2.settled = mine.settled,
         SameButWire(theirs, theirs2), theirs2.wire = Tail(theirs.wire)
  PROVE  LinkIs(k, s, mine2, theirs2)
  <1>1. /\ s = NonAuthority /\ mine.end.state = "AwaitingProposal" /\ k \in AllContracts
        /\ mine.offer \in AllOffers /\ theirs.offer \in AllOffers /\ mine.settled = {}
        /\ IsAlive(mine) /\ mine.setup.phase = "Ready" /\ mine.setup.peer # NoSettings
        /\ WrittenBy(s, mine) = 2 /\ ReadBy(s, mine) = 2
    BY ProposalIsDue, FrameIsDue
  <1>2. mine.end.offer = NoOffer /\ mine.end.owned /\ mine.end.failure # "Protocol"
    BY <1>1 DEF LinkIs, SideIs, EndIs, Owning
  <1>3. Grows(mine, mine2) /\ MayPropose(s, k, k)
    BY DEF Grows, MayPropose
  <1>4. PairIs(k, First(s, mine2, theirs2), Second(s, mine2, theirs2))
    BY DEF LinkIs, PairIs, First, Second, SameButWire
  <1>5. EndIs(k, s, mine2, theirs2)
    <2>1. /\ IsStage(s, "AwaitingEstablished", "Sending")
          /\ SettledIn(k, "AwaitingEstablished") = {} /\ "AwaitingEstablished" \in Owning
          /\ FrameTo(k, mine2, "AwaitingEstablished") = Frame("Validated", NoBody)
      BY <1>1 DEF IsStage, SettledIn, Owning, Proposed, FrameTo
    <2>2. AttemptIn(k, theirs.offer, mine.offer, "AwaitingEstablished") = mine2.attempt
      BY DEF AttemptIn
    <2>3. /\ First(s, mine2, theirs2).offer = theirs.offer
          /\ Second(s, mine2, theirs2).offer = mine.offer
      BY <1>1, TwoSides DEF First, Second, SameButWire
    <2> QED
      BY <1>1, <1>2, <2>1, <2>2, <2>3 DEF EndIs
  <1>6. EndKnows(k, s, mine2, theirs2)
    <2>1. FrameIsTrue(k, s, mine2, theirs2, Frame("Validated", NoBody))
      BY <1>1 DEF FrameIsTrue, Frame
    <2> QED
      BY <1>1, <2>1, TwoSides DEF EndKnows, SameButWire, Proposed, Owning
  <1>7. WrittenBy(s, mine2) = 2 /\ ReadBy(s, mine2) = 3
    BY <1>1 DEF WrittenBy, ReadBy, Proposed, Owning
  <1>8. WireIs(k, s, mine2, theirs2) /\ WireIs(k, Other(s), theirs2, mine2)
    BY <1>1, <1>3, <1>7, WiresAreRead
  <1> QED
    BY <1>3, <1>4, <1>5, <1>6, <1>8, LinkExchanges

\* receive_validated
LEMMA LinkEstablishes ==
  ASSUME NEW s \in Sides, NEW k, NEW mine, NEW mine2, NEW theirs, NEW theirs2,
         LinkIs(k, s, mine, theirs), IsTyped(theirs), mine.end.phase = "Receiving",
         theirs.wire # <<>>, Head(theirs.wire).type = "Validated",
         mine2.setup = mine.setup, mine2.wire = mine.wire,
         mine2.end = [phase |-> "Sending", state |-> "Established",
                      offer |-> mine.end.offer, owned |-> mine.end.owned,
                      frame |-> Frame("Established", NoBody), failure |-> mine.end.failure],
         mine2.offer = mine.offer, mine2.contract = k, mine2.attempt = {},
         mine2.settled = {[contract |-> k, accounted_bytes |-> ContractBytes(k)]},
         SameButWire(theirs, theirs2), theirs2.wire = Tail(theirs.wire)
  PROVE  LinkIs(k, s, mine2, theirs2)
  <1>1. /\ s = Authority /\ mine.end.state = "AwaitingValidated" /\ k \in AllContracts
        /\ Validated(k) /\ ContractWithinLimits(k, OfferLimits[s])
        /\ mine.offer \in AllOffers /\ theirs.offer \in AllOffers
        /\ IsAlive(mine) /\ mine.setup.phase = "Ready" /\ mine.setup.peer # NoSettings
        /\ WrittenBy(s, mine) = 3 /\ ReadBy(s, mine) = 2
    BY ValidatedIsDue, FrameIsDue
  <1>2. mine.end.offer = NoOffer /\ mine.end.owned /\ mine.end.failure # "Protocol"
    BY <1>1 DEF LinkIs, SideIs, EndIs, Owning, Proposed
  <1>3. Grows(mine, mine2) /\ MayPropose(s, k, k)
    BY <1>1 DEF Grows, MayPropose, LinkIs, PairIs, First
  <1>4. PairIs(k, First(s, mine2, theirs2), Second(s, mine2, theirs2))
    BY <1>1 DEF LinkIs, PairIs, First, Second, SameButWire
  <1>5. EndIs(k, s, mine2, theirs2)
    <2>1. /\ IsStage(s, "Established", "Sending") /\ "Established" \in Owning
          /\ SettledIn(k, "Established") = mine2.settled
          /\ FrameTo(k, mine2, "Established") = Frame("Established", NoBody)
      BY <1>1 DEF IsStage, SettledIn, Owning, Proposed, FrameTo
    <2>2. \A a, b : AttemptIn(k, a, b, "Established") = {}
      BY DEF AttemptIn
    <2> QED
      BY <1>1, <1>2, <2>1, <2>2 DEF EndIs
  <1>6. EndKnows(k, s, mine2, theirs2)
    <2>1. FrameIsTrue(k, s, mine2, theirs2, Frame("Established", NoBody))
      BY <1>1 DEF FrameIsTrue, Frame
    <2> QED
      BY <1>1, <2>1 DEF EndKnows, SameButWire, Proposed, Owning, Unproposed
  <1>7. WrittenBy(s, mine2) = 3 /\ ReadBy(s, mine2) = 3
    BY <1>1, TwoSides DEF WrittenBy, ReadBy, Proposed, Owning
  <1>8. WireIs(k, s, mine2, theirs2) /\ WireIs(k, Other(s), theirs2, mine2)
    BY <1>1, <1>3, <1>7, WiresAreRead
  <1> QED
    BY <1>3, <1>4, <1>5, <1>6, <1>8, LinkExchanges

\* receive_established
LEMMA LinkAgrees ==
  ASSUME NEW s \in Sides, NEW k, NEW mine, NEW mine2, NEW theirs, NEW theirs2,
         LinkIs(k, s, mine, theirs), IsTyped(theirs), mine.end.phase = "Receiving",
         theirs.wire # <<>>, Head(theirs.wire).type = "Established",
         mine2.setup = mine.setup, mine2.wire = mine.wire,
         mine2.end = [phase |-> "Established", state |-> "Established",
                      offer |-> mine.end.offer, owned |-> mine.end.owned,
                      frame |-> mine.end.frame, failure |-> mine.end.failure],
         mine2.offer = mine.offer, mine2.contract = k, mine2.attempt = {},
         mine2.settled = {[contract |-> k, accounted_bytes |-> ContractBytes(k)]},
         SameButWire(theirs, theirs2), theirs2.wire = Tail(theirs.wire)
  PROVE  LinkIs(k, s, mine2, theirs2)
  <1>1. /\ s = NonAuthority /\ mine.end.state = "AwaitingEstablished" /\ k \in AllContracts
        /\ ContractWithinLimits(k, OfferLimits[s]) /\ theirs.contract = k
        /\ mine.offer \in AllOffers /\ theirs.offer \in AllOffers
        /\ IsAlive(mine) /\ mine.setup.phase = "Ready" /\ mine.setup.peer # NoSettings
        /\ WrittenBy(s, mine) = 3 /\ ReadBy(s, mine) = 3 /\ mine.end.frame = NoFrame
    <2>1. /\ s = NonAuthority /\ mine.end.state = "AwaitingEstablished" /\ k \in AllContracts
          /\ ContractWithinLimits(k, OfferLimits[s]) /\ theirs.contract = k
          /\ mine.offer \in AllOffers /\ theirs.offer \in AllOffers
      <3>1. /\ s \in Sides /\ LinkIs(k, s, mine, theirs) /\ IsTyped(theirs)
            /\ mine.end.phase = "Receiving" /\ theirs.wire # <<>>
            /\ Head(theirs.wire).type = "Established"
        OBVIOUS
      <3> QED
        BY ONLY <3>1, EstablishedIsDue
    <2>2. /\ IsAlive(mine) /\ mine.setup.phase = "Ready" /\ mine.setup.peer # NoSettings
          /\ mine.end.frame = NoFrame
          /\ mine.end.state = "AwaitingEstablished" =>
               ReadBy(s, mine) = 3 /\ WrittenBy(s, mine) = 3
      BY FrameIsDue
    <2> QED
      BY <2>1, <2>2
  <1>2. mine.end.offer = NoOffer /\ mine.end.owned /\ mine.end.failure # "Protocol"
    BY <1>1 DEF LinkIs, SideIs, EndIs, Owning, Proposed
  <1>3. mine.contract \in {NoContract, k}
    BY <1>1, TwoSides DEF LinkIs, PairIs, First, Second
  <1>4. Grows(mine, mine2) /\ MayPropose(s, k, k)
    BY <1>3 DEF Grows, MayPropose
  <1>5. PairIs(k, First(s, mine2, theirs2), Second(s, mine2, theirs2))
    BY <1>1, TwoSides DEF LinkIs, PairIs, First, Second, SameButWire
  <1>6. EndIs(k, s, mine2, theirs2)
    <2>1. /\ IsStage(s, "Established", "Established") /\ "Established" \in Owning
          /\ SettledIn(k, "Established") = mine2.settled
      BY <1>1 DEF IsStage, SettledIn, Owning, Proposed
    <2>2. \A a, b : AttemptIn(k, a, b, "Established") = {}
      BY DEF AttemptIn
    <2> QED
      BY <1>1, <1>2, <2>1, <2>2 DEF EndIs
  <1>7. EndKnows(k, s, mine2, theirs2)
    <2>1. FrameIsTrue(k, s, mine2, theirs2, NoFrame)
      BY DEF FrameIsTrue, NoFrame, Frame
    <2> QED
      BY <1>1, <2>1, TwoSides DEF EndKnows, SameButWire, Proposed, Owning
  <1>8. WrittenBy(s, mine2) = 3 /\ ReadBy(s, mine2) = 4
    BY <1>1, TwoSides DEF WrittenBy, ReadBy, Proposed, Owning
  <1>9. WireIs(k, s, mine2, theirs2) /\ WireIs(k, Other(s), theirs2, mine2)
    BY <1>1, <1>4, <1>8, WiresAreRead
  <1> QED
    BY <1>4, <1>5, <1>6, <1>7, <1>9, LinkExchanges

-----------------------------------------------------------------------------
(* What the operations of the manager return                               *)

\* The manager m becomes n, which has reserved so much and has this of l; of other
\* links it has what it had.
ManagerMoves(m, n, l, reserved, attempt, settled) ==
  /\ IsManager(n)
  /\ n.offer_limits = m.offer_limits /\ n.limits = m.limits
  /\ n.reserved_bytes = reserved
  /\ At(n.attempts, l) = attempt /\ At(n.established, l) = settled
  /\ \A d \in Links \ {l} : /\ At(n.attempts, d) = At(m.attempts, d)
                            /\ At(n.established, d) = At(m.established, d)

\* The manager m with other reserved bytes and tables, and as updated to have them.
Rebuilt(m, reserved, attempts, established) ==
  [offer_limits |-> m.offer_limits, limits |-> m.limits, reserved_bytes |-> reserved,
   attempts |-> attempts, established |-> established]

\* A manager is rebuilt by changing what changes.
LEMMA RebuiltByAttempts ==
  ASSUME NEW m, HasManagerFields(m), NEW attempts
  PROVE  LET n == [m EXCEPT !.attempts = attempts]
         IN /\ n = Rebuilt(m, m.reserved_bytes, attempts, m.established)
            /\ HasManagerFields(n) /\ n.attempts = attempts
            /\ n.reserved_bytes = m.reserved_bytes /\ n.established = m.established
            /\ n.limits = m.limits /\ n.offer_limits = m.offer_limits
  BY DEF HasManagerFields, Rebuilt

\* The same of a change of the attempts and of what is reserved.
LEMMA RebuiltByReserved ==
  ASSUME NEW m, HasManagerFields(m), NEW attempts, NEW reserved
  PROVE  [m EXCEPT !.attempts = attempts, !.reserved_bytes = reserved]
           = Rebuilt(m, reserved, attempts, m.established)
  <1> DEFINE n == [m EXCEPT !.attempts = attempts]
  <1>1. /\ HasManagerFields(n) /\ n.attempts = attempts /\ n.established = m.established
        /\ n.limits = m.limits /\ n.offer_limits = m.offer_limits
    BY RebuiltByAttempts
  <1> HIDE DEF n
  <1>2. [n EXCEPT !.reserved_bytes = reserved] = Rebuilt(m, reserved, attempts, m.established)
    BY <1>1 DEF HasManagerFields, Rebuilt
  <1> QED
    BY <1>2 DEF n

WithAll(m, reserved, attempts, established) ==
  [m EXCEPT !.attempts = attempts, !.established = established,
            !.reserved_bytes = reserved]

\* The same of a change of both tables and of what is reserved.
LEMMA RebuiltByAll ==
  ASSUME NEW m, HasManagerFields(m), NEW reserved, NEW attempts, NEW established
  PROVE  WithAll(m, reserved, attempts, established)
           = Rebuilt(m, reserved, attempts, established)
  <1> DEFINE n == [m EXCEPT !.attempts = attempts]
             o == [n EXCEPT !.established = established]
  <1>1. /\ HasManagerFields(n) /\ n.attempts = attempts /\ n.established = m.established
        /\ n.limits = m.limits /\ n.offer_limits = m.offer_limits
    BY RebuiltByAttempts
  <1> HIDE DEF n
  <1>2. /\ HasManagerFields(o) /\ o.attempts = attempts /\ o.established = established
        /\ o.limits = m.limits /\ o.offer_limits = m.offer_limits
    BY <1>1 DEF HasManagerFields
  <1> HIDE DEF o
  <1>3. [o EXCEPT !.reserved_bytes = reserved] = Rebuilt(m, reserved, attempts, established)
    BY <1>2 DEF HasManagerFields, Rebuilt
  <1> QED
    BY <1>3 DEF n, o, WithAll

\* A manager rebuilt with other tables.
LEMMA RebuiltMoves ==
  ASSUME NEW m, IsManager(m), NEW l \in Links, NEW reserved, NEW attempts, NEW established,
         IsTable(attempts), DOMAIN attempts \subseteq Links,
         \A d \in DOMAIN attempts : attempts[d] \in Attempt,
         IsTable(established), DOMAIN established \subseteq Links,
         \A d \in DOMAIN established :
           established[d].contract \in AllContracts \cup {NoContract},
         \A d \in Links \ {l} : /\ At(attempts, d) = At(m.attempts, d)
                                /\ At(established, d) = At(m.established, d)
  PROVE  ManagerMoves(m, Rebuilt(m, reserved, attempts, established), l, reserved,
                      At(attempts, l), At(established, l))
  <1> DEFINE n == Rebuilt(m, reserved, attempts, established)
  <1>1. /\ n.offer_limits = m.offer_limits /\ n.limits = m.limits
        /\ n.reserved_bytes = reserved /\ n.attempts = attempts
        /\ n.established = established
        /\ HasManagerFields(n)
    BY DEF Rebuilt, HasManagerFields
  <1> HIDE DEF n
  <1> QED
    BY <1>1 DEF ManagerMoves, IsManager, n

\* u is t with x at l, or without l.
IsPut(u, t, l, x) ==
  /\ IsTable(u) /\ DOMAIN u = DOMAIN t \cup {l} /\ u[l] = x /\ At(u, l) = {x}
  /\ \A d \in DOMAIN t \ {l} : u[d] = t[d]
  /\ \A d \in Links \ {l} : At(u, d) = At(t, d)

IsDrop(u, t, l) ==
  /\ IsTable(u) /\ DOMAIN u = DOMAIN t \ {l} /\ At(u, l) = {}
  /\ \A d \in DOMAIN u : u[d] = t[d]
  /\ \A d \in Links \ {l} : At(u, d) = At(t, d)

\* insert, as seen at every key.
LEMMA PutAt ==
  ASSUME NEW t, NEW l, NEW x
  PROVE  IsPut(Put(t, l, x), t, l, x)
  BY DEF IsPut, Put, At, IsTable

\* remove, as seen at every key.
LEMMA DropAt ==
  ASSUME NEW t, NEW l
  PROVE  IsDrop(Drop(t, {l}), t, l)
  BY DEF IsDrop, Drop, Restrict, At, IsTable

\* NegotiationManager::start
LEMMA StartMoves ==
  ASSUME NEW m, IsManager(m), NEW l \in Links, NEW first \in AllOffers, NEW second \in AllOffers
  PROVE  ManagerMoves(m, Start(m, l, first, second), l, m.reserved_bytes + Reservation(m),
                      {NewAttempt(first, second)}, At(m.established, l))
  <1> DEFINE a == NewAttempt(first, second)
             attempts == Put(m.attempts, l, a)
             reserved == m.reserved_bytes + Reservation(m)
  <1>1. Start(m, l, first, second) = Rebuilt(m, reserved, attempts, m.established)
    BY RebuiltByReserved DEF Start, IsManager
  <1>2. a \in Attempt
    BY DEF NewAttempt, Attempt
  <1> HIDE DEF a, reserved
  <1>3. /\ IsTable(attempts) /\ DOMAIN attempts \subseteq Links /\ At(attempts, l) = {a}
        /\ \A d \in DOMAIN attempts : attempts[d] \in Attempt
        /\ \A d \in Links \ {l} : At(attempts, d) = At(m.attempts, d)
    <2>1. IsPut(attempts, m.attempts, l, a)
      BY PutAt
    <2> HIDE DEF attempts
    <2> QED
      BY <1>2, <2>1 DEF IsManager, IsPut
  <1> HIDE DEF attempts
  <1>4. ManagerMoves(m, Rebuilt(m, reserved, attempts, m.established), l, reserved,
                     At(attempts, l), At(m.established, l))
    BY <1>3, RebuiltMoves DEF IsManager
  <1> QED
    BY <1>1, <1>3, <1>4 DEF a, reserved

\* NegotiationManager::terminate
LEMMA TerminateMoves ==
  ASSUME NEW m, IsManager(m), NEW l \in Links
  PROVE  ManagerMoves(m, Terminate(m, l), l,
           m.reserved_bytes - IF l \in DOMAIN m.attempts THEN Reservation(m)
                              ELSE m.established[l].accounted_bytes, {}, {})
  <1> DEFINE attempts == Drop(m.attempts, {l})
             established == Drop(m.established, {l})
             reserved == m.reserved_bytes - IF l \in DOMAIN m.attempts THEN Reservation(m)
                                            ELSE m.established[l].accounted_bytes
  <1>1. Terminate(m, l) = Rebuilt(m, reserved, attempts, established)
    <2>1. Terminate(m, l) = WithAll(m, reserved, attempts, established)
      BY DEF Terminate, WithAll
    <2> HIDE DEF attempts, established, reserved
    <2>2. HasManagerFields(m)
      BY DEF IsManager
    <2> QED
      BY <2>1, <2>2, RebuiltByAll
  <1> HIDE DEF reserved
  <1>2. /\ IsTable(attempts) /\ DOMAIN attempts \subseteq Links /\ At(attempts, l) = {}
        /\ \A d \in DOMAIN attempts : attempts[d] \in Attempt
        /\ \A d \in Links \ {l} : At(attempts, d) = At(m.attempts, d)
    <2>1. IsDrop(attempts, m.attempts, l)
      BY DropAt
    <2> HIDE DEF attempts
    <2> QED
      BY <2>1 DEF IsManager, IsDrop
  <1>3. /\ IsTable(established) /\ DOMAIN established \subseteq Links
        /\ At(established, l) = {}
        /\ \A d \in DOMAIN established :
             established[d].contract \in AllContracts \cup {NoContract}
        /\ \A d \in Links \ {l} : At(established, d) = At(m.established, d)
    <2>1. IsDrop(established, m.established, l)
      BY DropAt
    <2> HIDE DEF established
    <2> QED
      BY <2>1 DEF IsManager, IsDrop
  <1> HIDE DEF attempts, established
  <1>4. ManagerMoves(m, Rebuilt(m, reserved, attempts, established), l, reserved,
                     At(attempts, l), At(established, l))
    BY <1>2, <1>3, RebuiltMoves
  <1> QED
    BY <1>1, <1>2, <1>3, <1>4 DEF reserved

\* The attempt of l becomes a.
WithAttempt(m, l, a) == [m EXCEPT !.attempts = [m.attempts EXCEPT ![l] = a]]

\* A manager with another attempt for a link it has one for.
LEMMA UpdateMoves ==
  ASSUME NEW m, IsManager(m), NEW l \in Links, l \in DOMAIN m.attempts, NEW a \in Attempt
  PROVE  LET n == WithAttempt(m, l, a)
         IN /\ ManagerMoves(m, n, l, m.reserved_bytes, {a}, At(m.established, l))
            /\ DOMAIN n.attempts = DOMAIN m.attempts /\ n.attempts[l] = a
            /\ n.established = m.established
  <1> DEFINE attempts == [m.attempts EXCEPT ![l] = a]
             n == WithAttempt(m, l, a)
             r == Rebuilt(m, m.reserved_bytes, attempts, m.established)
  <1>1. n = r /\ r.attempts = attempts /\ r.established = m.established
    BY RebuiltByAttempts DEF IsManager, Rebuilt, WithAttempt
  <1>2. /\ IsTable(attempts) /\ DOMAIN attempts = DOMAIN m.attempts
        /\ At(attempts, l) = {a} /\ attempts[l] = a
        /\ \A d \in DOMAIN attempts : attempts[d] \in Attempt
        /\ \A d \in Links \ {l} : At(attempts, d) = At(m.attempts, d)
    BY DEF IsManager, IsTable, At
  <1> HIDE DEF attempts, r, n
  <1>3. ManagerMoves(m, Rebuilt(m, m.reserved_bytes, attempts, m.established), l,
                     m.reserved_bytes, At(attempts, l), At(m.established, l))
    BY <1>2, RebuiltMoves DEF IsManager
  <1> QED
    BY <1>1, <1>2, <1>3 DEF r, n

\* propose, then validate by the authority, of a new attempt
LEMMA ProposeMoves ==
  ASSUME NEW m, IsManager(m), NEW l \in Links, NEW k \in AllContracts, NEW first, NEW second,
         At(m.attempts, l) = {NewAttempt(first, second)}
  PROVE  /\ ManagerMoves(m, ValidateAuthority(Propose(m, l, k), l), l, m.reserved_bytes,
                         {ProposedAttempt(k, first, second)}, At(m.established, l))
         /\ ManagerMoves(m, ValidatePeer(Propose(m, l, k), l), l, m.reserved_bytes,
                         {ValidatedAttempt(k, first, second)}, At(m.established, l))
         /\ ValidatePeer(Propose(m, l, k), l).established = m.established
  <1> DEFINE a == NewAttempt(first, second)
             b == [a EXCEPT !.proposal = k]
             n == WithAttempt(m, l, b)
  <1>1. l \in DOMAIN m.attempts /\ m.attempts[l] = a
    BY DEF At
  <1>2. /\ a \in Attempt /\ b \in Attempt
        /\ a.authority_validated = FALSE /\ a.peer_validated = FALSE
        /\ b.authority_validated = FALSE /\ b.peer_validated = FALSE
    BY <1>1 DEF IsManager, Attempt, NewAttempt
  <1> DEFINE c == ProposedAttempt(k, first, second)
             d == ValidatedAttempt(k, first, second)
  <1>3. /\ c = [b EXCEPT !.authority_validated = TRUE] /\ c \in Attempt
        /\ d = [b EXCEPT !.peer_validated = TRUE] /\ d \in Attempt
        /\ c.peer_validated = FALSE /\ d.authority_validated = FALSE
    BY <1>2 DEF ProposedAttempt, ValidatedAttempt, Attempt
  <1> HIDE DEF a, b, c, d
  <1>4. Propose(m, l, k) = n
    BY <1>1 DEF Propose, WithAttempt, b
  <1>5. /\ ManagerMoves(m, n, l, m.reserved_bytes, {b}, At(m.established, l))
        /\ DOMAIN n.attempts = DOMAIN m.attempts /\ n.attempts[l] = b
        /\ n.established = m.established
    BY <1>1, <1>2, UpdateMoves
  <1> HIDE DEF n
  <1>6. IsManager(n) /\ n.reserved_bytes = m.reserved_bytes
    BY <1>5 DEF ManagerMoves
  <1> DEFINE p == WithAttempt(n, l, c)
             q == WithAttempt(n, l, d)
  <1>7. /\ ManagerMoves(n, p, l, n.reserved_bytes, {c}, At(n.established, l))
        /\ p.attempts[l] = c
    <2>1. IsManager(n) /\ l \in Links /\ l \in DOMAIN n.attempts /\ c \in Attempt
      BY <1>1, <1>3, <1>5, <1>6
    <2> QED
      BY ONLY <2>1, UpdateMoves
  <1>8. /\ ManagerMoves(n, q, l, n.reserved_bytes, {d}, At(n.established, l))
        /\ q.attempts[l] = d /\ q.established = n.established
    <2>1. IsManager(n) /\ l \in Links /\ l \in DOMAIN n.attempts /\ d \in Attempt
      BY <1>1, <1>3, <1>5, <1>6
    <2> QED
      BY ONLY <2>1, UpdateMoves
  <1>9. ValidateAuthority(n, l) = p /\ ValidatePeer(n, l) = q
    <2>1. /\ [n EXCEPT !.attempts[l].authority_validated = TRUE] = p
          /\ [n EXCEPT !.attempts[l].peer_validated = TRUE] = q
      BY <1>3, <1>5 DEF WithAttempt
    <2> HIDE DEF p, q
    <2> QED
      BY <1>3, <1>7, <1>8, <2>1 DEF ValidateAuthority, ValidatePeer, PromoteIfValidated
  <1> HIDE DEF p, q
  <1> QED
    BY <1>4, <1>5, <1>6, <1>7, <1>8, <1>9 DEF ManagerMoves, c, d

\* promote_established
LEMMA PromoteMoves ==
  ASSUME NEW m, IsManager(m), NEW l \in Links, l \in DOMAIN m.attempts, NEW k \in AllContracts,
         m.attempts[l].proposal = k
  PROVE  ManagerMoves(m, Promote(m, l), l,
                      (m.reserved_bytes - Reservation(m)) + ContractBytes(k), {},
                      {[contract |-> k, accounted_bytes |-> ContractBytes(k)]})
  <1> DEFINE e == [contract |-> k, accounted_bytes |-> ContractBytes(k)]
             attempts == Drop(m.attempts, {l})
             established == Put(m.established, l, e)
             reserved == (m.reserved_bytes - Reservation(m)) + ContractBytes(k)
  <1>1. Promote(m, l) = Rebuilt(m, reserved, attempts, established)
    <2> DEFINE n == [m EXCEPT !.attempts = attempts]
               o == [n EXCEPT !.reserved_bytes = reserved]
    <2>1. Promote(m, l) = [o EXCEPT !.established = established]
      BY DEF Promote, IsManager, HasManagerFields
    <2> HIDE DEF attempts, established, reserved
    <2>2. /\ HasManagerFields(n) /\ n.attempts = attempts
          /\ n.limits = m.limits /\ n.offer_limits = m.offer_limits
      BY RebuiltByAttempts DEF IsManager
    <2> HIDE DEF n
    <2>3. /\ HasManagerFields(o) /\ o.attempts = attempts /\ o.reserved_bytes = reserved
          /\ o.limits = m.limits /\ o.offer_limits = m.offer_limits
      BY <2>2 DEF HasManagerFields
    <2> HIDE DEF o
    <2>4. [o EXCEPT !.established = established] = Rebuilt(m, reserved, attempts, established)
      BY <2>3 DEF HasManagerFields, Rebuilt
    <2> QED
      BY <2>1, <2>4
  <1>2. e.contract = k
    OBVIOUS
  <1> HIDE DEF e, reserved
  <1>3. /\ IsTable(attempts) /\ DOMAIN attempts \subseteq Links /\ At(attempts, l) = {}
        /\ \A d \in DOMAIN attempts : attempts[d] \in Attempt
        /\ \A d \in Links \ {l} : At(attempts, d) = At(m.attempts, d)
    <2>1. IsDrop(attempts, m.attempts, l)
      BY DropAt
    <2> HIDE DEF attempts
    <2> QED
      BY <2>1 DEF IsManager, IsDrop
  <1>4. /\ IsTable(established) /\ DOMAIN established \subseteq Links
        /\ At(established, l) = {e}
        /\ \A d \in DOMAIN established :
             established[d].contract \in AllContracts \cup {NoContract}
        /\ \A d \in Links \ {l} : At(established, d) = At(m.established, d)
    <2>1. IsPut(established, m.established, l, e)
      BY PutAt
    <2> HIDE DEF established
    <2> QED
      BY <1>2, <2>1 DEF IsManager, IsPut
  <1> HIDE DEF attempts, established
  <1>5. ManagerMoves(m, Rebuilt(m, reserved, attempts, established), l, reserved,
                     At(attempts, l), At(established, l))
    BY <1>3, <1>4, RebuiltMoves
  <1> QED
    BY <1>1, <1>3, <1>4, <1>5 DEF reserved, e

\* The second party's validation promotes the attempt.
LEMMA ValidateMoves ==
  ASSUME NEW m, IsManager(m), NEW l \in Links, NEW k \in AllContracts, NEW first, NEW second
  PROVE  LET reserved == (m.reserved_bytes - Reservation(m)) + ContractBytes(k)
             settled == {[contract |-> k, accounted_bytes |-> ContractBytes(k)]}
         IN /\ At(m.attempts, l) = {ProposedAttempt(k, first, second)} =>
                 ManagerMoves(m, ValidatePeer(m, l), l, reserved, {}, settled)
            /\ At(m.attempts, l) = {ValidatedAttempt(k, first, second)} =>
                 ManagerMoves(m, ValidateAuthority(m, l), l, reserved, {}, settled)
  <1> DEFINE reserved == (m.reserved_bytes - Reservation(m)) + ContractBytes(k)
             settled == {[contract |-> k, accounted_bytes |-> ContractBytes(k)]}
             p == ProposedAttempt(k, first, second)
             v == ValidatedAttempt(k, first, second)
  <1>1. ASSUME NEW a \in Attempt, l \in DOMAIN m.attempts,
               a.proposal = k, a.authority_validated, a.peer_validated
        PROVE  LET n == WithAttempt(m, l, a)
               IN n.attempts[l] = a /\ ManagerMoves(m, Promote(n, l), l, reserved, {}, settled)
    <2> DEFINE n == WithAttempt(m, l, a)
    <2>1. /\ ManagerMoves(m, n, l, m.reserved_bytes, {a}, At(m.established, l))
          /\ DOMAIN n.attempts = DOMAIN m.attempts /\ n.attempts[l] = a
      BY <1>1, UpdateMoves
    <2> HIDE DEF n
    <2>2. /\ IsManager(n) /\ l \in DOMAIN n.attempts /\ n.attempts[l].proposal = k
          /\ Reservation(n) = Reservation(m) /\ n.reserved_bytes = m.reserved_bytes
      BY <1>1, <2>1 DEF ManagerMoves, Reservation
    <2>3. ManagerMoves(n, Promote(n, l), l,
                       (n.reserved_bytes - Reservation(n)) + ContractBytes(k), {}, settled)
      BY <2>2, PromoteMoves
    <2>4. ManagerMoves(m, Promote(n, l), l, reserved, {}, settled)
      <3> HIDE DEF settled
      <3> QED
        BY <2>1, <2>2, <2>3 DEF ManagerMoves
    <2> QED
      BY <2>1, <2>4 DEF n
  <1>2. ASSUME At(m.attempts, l) = {p}
        PROVE  ManagerMoves(m, ValidatePeer(m, l), l, reserved, {}, settled)
    <2> DEFINE a == [m.attempts[l] EXCEPT !.peer_validated = TRUE]
    <2>1. l \in DOMAIN m.attempts /\ m.attempts[l] = p /\ p \in Attempt
      BY <1>2 DEF At, IsManager
    <2>2. /\ a \in Attempt /\ a.proposal = k /\ a.authority_validated /\ a.peer_validated
      BY <2>1 DEF ProposedAttempt, NewAttempt, Attempt
    <2>3. [m EXCEPT !.attempts[l].peer_validated = TRUE] = WithAttempt(m, l, a)
      BY DEF WithAttempt
    <2> HIDE DEF a, p, reserved, settled
    <2>4. /\ WithAttempt(m, l, a).attempts[l] = a
          /\ ManagerMoves(m, Promote(WithAttempt(m, l, a), l), l, reserved, {}, settled)
      BY <1>1, <2>1, <2>2
    <2> QED
      BY <2>2, <2>3, <2>4 DEF ValidatePeer, PromoteIfValidated
  <1>3. ASSUME At(m.attempts, l) = {v}
        PROVE  ManagerMoves(m, ValidateAuthority(m, l), l, reserved, {}, settled)
    <2> DEFINE a == [m.attempts[l] EXCEPT !.authority_validated = TRUE]
    <2>1. l \in DOMAIN m.attempts /\ m.attempts[l] = v /\ v \in Attempt
      BY <1>3 DEF At, IsManager
    <2>2. /\ a \in Attempt /\ a.proposal = k /\ a.authority_validated /\ a.peer_validated
      BY <2>1 DEF ValidatedAttempt, NewAttempt, Attempt
    <2>3. [m EXCEPT !.attempts[l].authority_validated = TRUE] = WithAttempt(m, l, a)
      BY DEF WithAttempt
    <2> HIDE DEF a, v, reserved, settled
    <2>4. /\ WithAttempt(m, l, a).attempts[l] = a
          /\ ManagerMoves(m, Promote(WithAttempt(m, l, a), l), l, reserved, {}, settled)
      BY <1>1, <2>1, <2>2
    <2> QED
      BY <2>2, <2>3, <2>4 DEF ValidateAuthority, PromoteIfValidated
  <1> QED
    BY <1>2, <1>3

-----------------------------------------------------------------------------
(* A step of one side                                                      *)

\* Of setup and wire a step changes at most what s has of l and what is read of l.
SetupSpares(s, l) ==
  /\ \A t \in Sides : \A d \in Links : t # s \/ d # l => setup'[t][d] = setup[t][d]
  /\ \A t \in Sides : \A d \in Links \ {l} : wire'[t][d] = wire[t][d]

\* Of the rest a step changes at most what s has of l.
EndSpares(s, l) ==
  \A t \in Sides : \A d \in Links : t # s \/ d # l =>
    /\ end'[t][d] = end[t][d] /\ history'[t][d] = history[t][d]
    /\ At(manager'[t].attempts, d) = At(manager[t].attempts, d)
    /\ At(manager'[t].established, d) = At(manager[t].established, d)

\* The other links stay as they are, and so does the other end of l.
LEMMA OthersAreSpared ==
  ASSUME NEW s \in Sides, NEW l \in Links, SetupSpares(s, l), EndSpares(s, l)
  PROVE  /\ \A t \in Sides : \A d \in Links \ {l} : Side(t, d)' = Side(t, d)
         /\ SameButWire(Side(Other(s), l), Side(Other(s), l)')
  <1>1. ASSUME NEW t \in Sides, NEW d \in Links \ {l}
        PROVE  Side(t, d)' = Side(t, d)
    <2>1. /\ setup'[t][d] = setup[t][d] /\ wire'[t][d] = wire[t][d]
          /\ end'[t][d] = end[t][d] /\ history'[t][d] = history[t][d]
          /\ At(manager'[t].attempts, d) = At(manager[t].attempts, d)
          /\ At(manager'[t].established, d) = At(manager[t].established, d)
      BY DEF SetupSpares, EndSpares
    <2> QED
      BY <2>1 DEF Side, At
  <1>2. SameButWire(Side(Other(s), l), Side(Other(s), l)')
    <2> DEFINE o == Other(s)
    <2>1. o \in Sides /\ o # s
      BY TwoSides
    <2>2. /\ setup'[o][l] = setup[o][l]
          /\ end'[o][l] = end[o][l] /\ history'[o][l] = history[o][l]
          /\ At(manager'[o].attempts, l) = At(manager[o].attempts, l)
          /\ At(manager'[o].established, l) = At(manager[o].established, l)
      BY <2>1 DEF SetupSpares, EndSpares
    <2> HIDE DEF o
    <2>3. SameButWire(Side(o, l), Side(o, l)')
      BY <2>2 DEF SameButWire, Side, At
    <2> QED
      BY <2>3 DEF o
  <1> QED
    BY <1>1, <1>2

\* A link seen from either side, with the shape of both.
LEMMA SoundAt ==
  ASSUME Shape, LinksAreSound, NEW s \in Sides, NEW l \in Links
  PROVE  /\ \E k \in AllContracts \cup {NoContract} :
              LinkIs(k, s, Side(s, l), Side(Other(s), l))
         /\ IsTyped(Side(s, l)) /\ IsTyped(Side(Other(s), l))
  <1>1. PICK k \in AllContracts \cup {NoContract} :
               LinkIs(k, Authority, Side(Authority, l), Side(Other(Authority), l))
    BY DEF LinksAreSound, LinkIsSound
  <1>2. LinkIs(k, s, Side(s, l), Side(Other(s), l))
    <2>1. LinkIs(k, Other(Authority), Side(Other(Authority), l), Side(Authority, l))
      BY <1>1, TwoSides, LinkFromBothSides
    <2>2. s = Authority \/ (s = Other(Authority) /\ Other(s) = Authority)
      BY DEF Other, Sides, Authority, NonAuthority
    <2> QED
      BY <1>1, <2>1, <2>2
  <1>3. \A t \in Sides : IsTyped(Side(t, l))
    BY DEF Shape, SetupShape, EndShape, IsTyped, Side
  <1> QED
    BY <1>2, <1>3, TwoSides

\* When a step leaves its own link right, all links are right.
LEMMA SoundAgain ==
  ASSUME LinksAreSound, NEW s \in Sides, NEW l \in Links, SetupSpares(s, l), EndSpares(s, l),
         NEW k \in AllContracts \cup {NoContract},
         LinkIs(k, s, Side(s, l)', Side(Other(s), l)')
  PROVE  LinksAreSound'
  <1> SUFFICES ASSUME NEW d \in Links PROVE LinkIsSound(Authority, d)'
    BY DEF LinksAreSound
  <1>1. Authority \in Sides /\ Other(Authority) \in Sides
    BY TwoSides
  <1>2. CASE d = l
    <2>1. LinkIs(k, Other(s), Side(Other(s), l)', Side(s, l)')
      BY LinkFromBothSides
    <2>2. \/ s = Authority
          \/ Other(s) = Authority /\ s = Other(Authority)
      BY DEF Other, Sides, Authority, NonAuthority
    <2>3. LinkIs(k, Authority, Side(Authority, l)', Side(Other(Authority), l)')
      BY <2>1, <2>2
    <2> QED
      BY <1>2, <2>3 DEF LinkIsSound
  <1>3. CASE d # l
    <2>1. Side(Authority, d)' = Side(Authority, d)
      BY <1>1, <1>3, OthersAreSpared
    <2>2. Side(Other(Authority), d)' = Side(Other(Authority), d)
      BY <1>1, <1>3, OthersAreSpared
    <2>3. LinkIsSound(Authority, d)
      BY DEF LinksAreSound
    <2> QED
      BY <2>1, <2>2, <2>3 DEF LinkIsSound
  <1> QED
    BY <1>2, <1>3

\* g is f but for e at s and l.
IsUpdated(g, f, s, l, e) ==
  /\ g[s][l] = e
  /\ \A t \in Sides : \A d \in Links : t # s \/ d # l => g[t][d] = f[t][d]

\* What a step writes for one side and link.
LEMMA Updates ==
  ASSUME NEW T, NEW f \in [Sides -> [Links -> T]], NEW s \in Sides, NEW l \in Links,
         NEW e \in T
  PROVE  LET g == [f EXCEPT ![s][l] = e]
         IN g \in [Sides -> [Links -> T]] /\ IsUpdated(g, f, s, l, e)
  BY DEF IsUpdated

-----------------------------------------------------------------------------
(* The sums a manager keeps                                                *)

\* The manager of s reserves what it holds, within its limits.
Balanced(s, m) ==
  /\ m.offer_limits = OfferLimits[s] /\ m.limits = ManagerLimits[s]
  /\ IsFiniteSet(DOMAIN m.attempts) /\ IsFiniteSet(DOMAIN m.established)
  /\ \A l \in DOMAIN m.established : m.established[l].accounted_bytes \in Nat
  /\ m.reserved_bytes =
       Reservation(m) * Cardinality(DOMAIN m.attempts) + EstablishedBytes(m)
  /\ m.reserved_bytes <= m.limits.bytes
  /\ Cardinality(DOMAIN m.attempts) <= m.limits.attempts

\* Both managers are balanced.
Books == \A s \in Sides : Balanced(s, manager[s])

\* What the contract of a link counts for, and what a link counts for.
Weight(settled) ==
  IF settled = {} THEN 0 ELSE (CHOOSE x \in settled : TRUE).accounted_bytes

Held(m, attempt, settled) ==
  (IF attempt = {} THEN 0 ELSE Reservation(m)) + Weight(settled)

\* What the contracts of the other links count for.
RestOf(m, l) ==
  SumFunction([d \in DOMAIN m.established \ {l} |-> m.established[d].accounted_bytes])

\* Counting with and without an element.
LEMMA CountSplits ==
  ASSUME NEW D, IsFiniteSet(D), NEW l
  PROVE  /\ IsFiniteSet(D \ {l}) /\ Cardinality(D \ {l}) \in Nat
         /\ Cardinality(D) = Cardinality(D \ {l}) + (IF l \in D THEN 1 ELSE 0)
  <1>1. IsFiniteSet(D \ {l})
    BY FS_Subset
  <1>2. Cardinality(D) \in Nat /\ Cardinality(D \ {l}) \in Nat
    BY <1>1, FS_CardinalityType
  <1>3. CASE l \in D
    <2>1. Cardinality(D \ {l}) = Cardinality(D) - 1
      BY <1>3, FS_RemoveElement
    <2> QED
      BY <1>1, <1>2, <1>3, <2>1
  <1>4. CASE l \notin D
    <2>1. D \ {l} = D
      BY <1>4
    <2>2. Cardinality(D) = Cardinality(D \ {l})
      BY <2>1
    <2>3. Cardinality(D) = Cardinality(D \ {l}) + 0
      BY ONLY <1>2, <2>2
    <2> QED
      BY <1>1, <1>2, <1>4, <2>3
  <1> QED
    BY <1>3, <1>4

\* Summing what the contracts count for, with and without one of them.
LEMMA WeightSplits ==
  ASSUME NEW m, NEW l, IsFiniteSet(DOMAIN m.established),
         \A d \in DOMAIN m.established : m.established[d].accounted_bytes \in Nat
  PROVE  /\ RestOf(m, l) \in Nat /\ Weight(At(m.established, l)) \in Nat
         /\ EstablishedBytes(m) = RestOf(m, l) + Weight(At(m.established, l))
  <1> DEFINE D == DOMAIN m.established
             S == D \ {l}
             f == [d \in S |-> m.established[d].accounted_bytes]
             g == [d \in D |-> m.established[d].accounted_bytes]
  <1>1. IsFiniteSet(S) /\ f \in [S -> Nat]
    BY FS_Subset
  <1>2. RestOf(m, l) \in Nat
    <2>1. SumFunction(f) \in Nat
      BY ONLY <1>1, SumIsNat
    <2> QED
      BY <2>1 DEF RestOf
  <1>3. CASE l \in D
    <2>1. /\ f \in [S -> Int] /\ g \in [D -> Int] /\ D = S \cup {l} /\ l \notin S
          /\ \A d \in S : g[d] = f[d]
      BY <1>3
    <2>2. SumFunction(g) = SumFunction(f) + g[l]
      <3> HIDE DEF f, g, S, D
      <3> QED
        BY <1>1, <2>1, SumGrows
    <2>3. (CHOOSE x \in {m.established[l]} : TRUE) = m.established[l]
      OBVIOUS
    <2>4. Weight(At(m.established, l)) = m.established[l].accounted_bytes
      BY <1>3, <2>3 DEF Weight, At
    <2>5. SumFunction(g) = SumFunction(f) + m.established[l].accounted_bytes
      BY <1>3, <2>2
    <2> QED
      BY <1>2, <1>3, <2>4, <2>5 DEF RestOf, EstablishedBytes
  <1>4. CASE l \notin D
    <2>1. S = D /\ At(m.established, l) = {}
      BY <1>4 DEF At
    <2>2. EstablishedBytes(m) = RestOf(m, l) /\ Weight(At(m.established, l)) = 0
      BY <2>1 DEF EstablishedBytes, RestOf, Weight
    <2> QED
      BY <1>2, <2>2
  <1> QED
    BY <1>3, <1>4

\* Tables that agree but at l.
LEMMA TablesAgree ==
  ASSUME NEW t, NEW u, NEW l, DOMAIN t \subseteq Links, DOMAIN u \subseteq Links,
         \A d \in Links \ {l} : At(u, d) = At(t, d)
  PROVE  DOMAIN u \ {l} = DOMAIN t \ {l} /\ \A d \in DOMAIN t \ {l} : u[d] = t[d]
  <1>1. \A d \in Links \ {l} :
           /\ d \in DOMAIN u <=> d \in DOMAIN t
           /\ d \in DOMAIN t => u[d] = t[d]
    BY DEF At
  <1> QED
    BY <1>1

\* A manager that reserves and releases what a link counts for keeps its books.
LEMMA BooksMove ==
  ASSUME NEW s \in Sides, NEW m, NEW n, NEW l \in Links, NEW reserved, NEW attempt,
         NEW settled, IsManager(m), Balanced(s, m),
         ManagerMoves(m, n, l, reserved, attempt, settled),
         \A x \in settled : x.accounted_bytes \in Nat,
         reserved = (m.reserved_bytes - Held(m, At(m.attempts, l), At(m.established, l)))
                      + Held(m, attempt, settled),
         reserved <= m.limits.bytes,
         At(m.attempts, l) # {} \/ attempt = {}
           \/ Cardinality(DOMAIN m.attempts) < m.limits.attempts
  PROVE  Balanced(s, n)
  <1> DEFINE D == DOMAIN m.attempts
             E == DOMAIN n.attempts
             r == Reservation(m)
  <1>1. /\ IsManager(n) /\ n.offer_limits = m.offer_limits /\ n.limits = m.limits
        /\ n.reserved_bytes = reserved
        /\ At(n.attempts, l) = attempt /\ At(n.established, l) = settled
        /\ \A d \in Links \ {l} : /\ At(n.attempts, d) = At(m.attempts, d)
                                  /\ At(n.established, d) = At(m.established, d)
    BY DEF ManagerMoves
  <1>2. /\ DOMAIN m.attempts \subseteq Links /\ DOMAIN m.established \subseteq Links
        /\ DOMAIN n.attempts \subseteq Links /\ DOMAIN n.established \subseteq Links
    BY <1>1 DEF IsManager
  <1>3. E \ {l} = D \ {l}
    <2>1. /\ DOMAIN m.attempts \subseteq Links /\ DOMAIN n.attempts \subseteq Links
          /\ \A d \in Links \ {l} : At(n.attempts, d) = At(m.attempts, d)
      BY <1>1, <1>2
    <2> QED
      BY ONLY <2>1, TablesAgree
  <1>4. /\ DOMAIN n.established \ {l} = DOMAIN m.established \ {l}
        /\ \A d \in DOMAIN m.established \ {l} : n.established[d] = m.established[d]
    <2>1. /\ DOMAIN m.established \subseteq Links /\ DOMAIN n.established \subseteq Links
          /\ \A d \in Links \ {l} : At(n.established, d) = At(m.established, d)
      BY <1>1, <1>2
    <2> QED
      BY ONLY <2>1, TablesAgree
  <1>5. IsFiniteSet(E) /\ IsFiniteSet(DOMAIN n.established)
    <2>1. \A A, B : IsFiniteSet(A) /\ B \ {l} = A \ {l} => IsFiniteSet(B)
      <3> SUFFICES ASSUME NEW A, NEW B, IsFiniteSet(A), B \ {l} = A \ {l}
                   PROVE  IsFiniteSet(B)
        OBVIOUS
      <3>1. IsFiniteSet(A \cup {l})
        BY FS_AddElement
      <3>2. B \subseteq A \cup {l}
        OBVIOUS
      <3> QED
        BY <3>1, <3>2, FS_Subset
    <2> QED
      BY <1>3, <1>4, <2>1 DEF Balanced
  <1>6. \A d \in DOMAIN n.established : n.established[d].accounted_bytes \in Nat
    <2>1. l \in DOMAIN n.established => n.established[l] \in settled
      BY <1>1 DEF At
    <2> QED
      BY <1>4, <2>1 DEF Balanced
  <1>7. RestOf(n, l) = RestOf(m, l)
    BY <1>4 DEF RestOf
  <1>8. /\ EstablishedBytes(m) = RestOf(m, l) + Weight(At(m.established, l))
        /\ EstablishedBytes(n) = RestOf(m, l) + Weight(settled)
        /\ RestOf(m, l) \in Nat /\ Weight(At(m.established, l)) \in Nat
        /\ Weight(settled) \in Nat
    <2>1. /\ EstablishedBytes(m) = RestOf(m, l) + Weight(At(m.established, l))
          /\ RestOf(m, l) \in Nat /\ Weight(At(m.established, l)) \in Nat
      BY WeightSplits DEF Balanced
    <2>2. /\ EstablishedBytes(n) = RestOf(n, l) + Weight(At(n.established, l))
          /\ Weight(At(n.established, l)) \in Nat
      BY <1>5, <1>6, WeightSplits
    <2> QED
      BY <1>1, <1>7, <2>1, <2>2
  <1> DEFINE c == Cardinality(D \ {l})
             a == IF At(m.attempts, l) = {} THEN 0 ELSE 1
             b == IF attempt = {} THEN 0 ELSE 1
  <1>9. c \in Nat /\ Cardinality(D) = c + a /\ Cardinality(E) = c + b
    <2>1. /\ c \in Nat /\ Cardinality(D) = c + (IF l \in D THEN 1 ELSE 0)
      BY CountSplits DEF Balanced
    <2>2. Cardinality(E) = c + (IF l \in E THEN 1 ELSE 0)
      <3>1. Cardinality(E) = Cardinality(E \ {l}) + (IF l \in E THEN 1 ELSE 0)
        BY ONLY <1>5, CountSplits
      <3> QED
        BY <1>3, <3>1
    <2>3. /\ l \in D <=> At(m.attempts, l) # {}
          /\ l \in E <=> attempt # {}
      BY <1>1 DEF At
    <2> QED
      BY <2>1, <2>2, <2>3
  <1>10. r \in Nat /\ Reservation(n) = r /\ m.limits.attempts \in Nat
    <2>1. OfferLimits[s].bytes \in Nat /\ ManagerLimits[s].attempts \in Nat
      BY ExchangeAssumption
    <2> QED
      BY <1>1, <2>1 DEF Reservation, Balanced
  <1>11. /\ r * (c + a) = r * c + (IF At(m.attempts, l) = {} THEN 0 ELSE r)
         /\ r * (c + b) = r * c + (IF attempt = {} THEN 0 ELSE r)
         /\ r * c \in Nat
    <2> HIDE DEF r, c
    <2> QED
      BY <1>9, <1>10
  <1>12. n.reserved_bytes = Reservation(n) * Cardinality(E) + EstablishedBytes(n)
    <2>1. /\ m.reserved_bytes = r * (c + a) + EstablishedBytes(m)
          /\ reserved = (m.reserved_bytes
                - ((IF At(m.attempts, l) = {} THEN 0 ELSE r) + Weight(At(m.established, l))))
                + ((IF attempt = {} THEN 0 ELSE r) + Weight(settled))
      BY <1>9 DEF Balanced, Held
    <2>2. reserved = r * (c + b) + EstablishedBytes(n)
      <3> DEFINE w == Weight(At(m.established, l))
                 v == Weight(settled)
                 q == RestOf(m, l)
                 rc == r * c
                 ra == IF At(m.attempts, l) = {} THEN 0 ELSE r
                 rb == IF attempt = {} THEN 0 ELSE r
      <3>1. ra \in Nat /\ rb \in Nat /\ w \in Nat /\ v \in Nat /\ q \in Nat /\ rc \in Nat
        BY <1>8, <1>10, <1>11
      <3>2. m.reserved_bytes = (rc + ra) + (q + w)
        BY <1>8, <1>11, <2>1
      <3>3. reserved = (m.reserved_bytes - (ra + w)) + (rb + v)
        BY <2>1
      <3> HIDE DEF ra, rb, w, v, q, rc, a, b, r
      <3>4. reserved = (rc + rb) + (q + v)
        BY ONLY <3>1, <3>2, <3>3
      <3> QED
        BY <1>8, <1>11, <3>4 DEF rb, v, q, rc
    <2> QED
      BY <1>1, <1>9, <1>10, <2>2
  <1>13. Cardinality(E) <= m.limits.attempts
    BY <1>9, <1>10 DEF Balanced
  <1> QED
    BY <1>1, <1>5, <1>6, <1>12, <1>13 DEF Balanced

-----------------------------------------------------------------------------
(* What becomes of an end                                                  *)

\* The managers when one of them becomes m.
LEMMA ManagerBecomes ==
  ASSUME EndShape, NEW s \in Sides, NEW l \in Links, NEW m, NEW reserved, NEW attempt,
         NEW settled, ManagerMoves(manager[s], m, l, reserved, attempt, settled),
         manager' = [manager EXCEPT ![s] = m]
  PROVE  /\ IsTable(manager') /\ DOMAIN manager' = Sides
         /\ \A t \in Sides : IsManager(manager'[t])
         /\ manager'[s] = m /\ \A t \in Sides \ {s} : manager'[t] = manager[t]
         /\ \A t \in Sides : \A d \in Links : t # s \/ d # l =>
              /\ At(manager'[t].attempts, d) = At(manager[t].attempts, d)
              /\ At(manager'[t].established, d) = At(manager[t].established, d)
  <1>1. IsTable(manager) /\ DOMAIN manager = Sides /\ \A t \in Sides : IsManager(manager[t])
    BY DEF EndShape
  <1>2. /\ IsTable(manager') /\ DOMAIN manager' = Sides
        /\ manager'[s] = m /\ \A t \in Sides \ {s} : manager'[t] = manager[t]
    BY <1>1 DEF IsTable
  <1>3. /\ IsManager(m)
        /\ \A d \in Links \ {l} : /\ At(m.attempts, d) = At(manager[s].attempts, d)
                                  /\ At(m.established, d) = At(manager[s].established, d)
    BY DEF ManagerMoves
  <1>4. \A t \in Sides : IsManager(manager'[t])
    BY <1>1, <1>2, <1>3
  <1>5. ASSUME NEW t \in Sides, NEW d \in Links, t # s \/ d # l
        PROVE  /\ At(manager'[t].attempts, d) = At(manager[t].attempts, d)
               /\ At(manager'[t].established, d) = At(manager[t].established, d)
    <2>1. CASE t = s
      <3>1. d \in Links \ {l} /\ manager'[t] = m
        BY <1>2, <1>5, <2>1
      <3>2. /\ At(m.attempts, d) = At(manager[s].attempts, d)
            /\ At(m.established, d) = At(manager[s].established, d)
        BY <1>3, <3>1
      <3> QED
        BY <2>1, <3>1, <3>2
    <2>2. CASE t # s
      BY <1>2, <2>2
    <2> QED
      BY <2>1, <2>2
  <1> QED
    BY <1>2, <1>4, <1>5

\* The history of a side and a link when its manager becomes m.
LEMMA HistoryBecomes ==
  ASSUME EndShape, NEW s \in Sides, NEW l \in Links, NEW m, IsManager(m),
         history' = [history EXCEPT ![s][l].contract =
                       IF l \in DOMAIN m.established THEN m.established[l].contract ELSE @]
  PROVE  /\ history' \in [Sides -> [Links -> HistoryRecord]]
         /\ \A t \in Sides : \A d \in Links : t # s \/ d # l => history'[t][d] = history[t][d]
         /\ history'[s][l].offer = history[s][l].offer
         /\ history'[s][l].contract = IF l \in DOMAIN m.established
                                      THEN m.established[l].contract
                                      ELSE history[s][l].contract
  <1> DEFINE c == IF l \in DOMAIN m.established THEN m.established[l].contract
                  ELSE history[s][l].contract
             h == [offer |-> history[s][l].offer, contract |-> c]
  <1>1. history[s][l] \in HistoryRecord /\ history \in [Sides -> [Links -> HistoryRecord]]
    BY DEF EndShape
  <1>2. c \in AllContracts \cup {NoContract}
    BY <1>1 DEF HistoryRecord, IsManager
  <1>3. history' = [history EXCEPT ![s][l].contract = c]
    BY <1>1
  <1>4. h \in HistoryRecord
    BY <1>1, <1>2 DEF HistoryRecord
  <1>5. [history[s][l] EXCEPT !.contract = c] = h
    <2> HIDE DEF c
    <2> QED
      BY <1>1 DEF HistoryRecord
  <1>6. history' = [history EXCEPT ![s][l] = h]
    BY <1>3, <1>5
  <1>7. /\ history' \in [Sides -> [Links -> HistoryRecord]]
        /\ IsUpdated(history', history, s, l, h)
    <2> HIDE DEF h
    <2>1. h \in HistoryRecord /\ history \in [Sides -> [Links -> HistoryRecord]]
      BY <1>1, <1>4
    <2>2. LET g == [history EXCEPT ![s][l] = h]
          IN g \in [Sides -> [Links -> HistoryRecord]] /\ IsUpdated(g, history, s, l, h)
      BY ONLY s \in Sides, l \in Links, <2>1, Updates
    <2> QED
      BY ONLY <1>6, <2>2
  <1> QED
    BY <1>7 DEF IsUpdated

\* What the side s has of l: the end e, and so much in the manager.
NowHas(s, l, e, m, attempt, settled) ==
  LET mine == Side(s, l)
      mine2 == Side(s, l)'
  IN /\ EndShape' /\ EndSpares(s, l)
     /\ mine2.end = e /\ mine2.offer = mine.offer
     /\ settled = {} => mine2.contract = mine.contract
     /\ \A x : settled = {x} => mine2.contract = x.contract
     /\ mine2.attempt = attempt /\ mine2.settled = settled
     /\ Balanced(s, m) /\ Books => Books'

\* Becomes, as seen from the side and the link.
LEMMA EndBecomes ==
  ASSUME EndShape, NEW s \in Sides, NEW l \in Links, NEW e \in EndRecord, NEW m,
         NEW reserved, NEW attempt, NEW settled,
         ManagerMoves(manager[s], m, l, reserved, attempt, settled), Becomes(s, l, e, m)
  PROVE  NowHas(s, l, e, m, attempt, settled)
  <1>1. IsManager(m) /\ At(m.attempts, l) = attempt /\ At(m.established, l) = settled
    BY DEF ManagerMoves
  <1>2. /\ end' \in [Sides -> [Links -> EndRecord]] /\ IsUpdated(end', end, s, l, e)
    <2>1. end' = [end EXCEPT ![s][l] = e] /\ end \in [Sides -> [Links -> EndRecord]]
      BY DEF Becomes, EndShape
    <2> HIDE DEF EndRecord
    <2> QED
      BY <2>1, Updates
  <1>3. /\ IsTable(manager') /\ DOMAIN manager' = Sides
        /\ \A t \in Sides : IsManager(manager'[t])
        /\ manager'[s] = m /\ \A t \in Sides \ {s} : manager'[t] = manager[t]
        /\ \A t \in Sides : \A d \in Links : t # s \/ d # l =>
             /\ At(manager'[t].attempts, d) = At(manager[t].attempts, d)
             /\ At(manager'[t].established, d) = At(manager[t].established, d)
    <2>1. manager' = [manager EXCEPT ![s] = m]
      BY DEF Becomes
    <2> QED
      BY <2>1, ManagerBecomes
  <1>4. /\ history' \in [Sides -> [Links -> HistoryRecord]]
        /\ \A t \in Sides : \A d \in Links : t # s \/ d # l => history'[t][d] = history[t][d]
        /\ history'[s][l].offer = history[s][l].offer
        /\ history'[s][l].contract = IF l \in DOMAIN m.established
                                     THEN m.established[l].contract
                                     ELSE history[s][l].contract
    <2>1. history' = [history EXCEPT ![s][l].contract =
                        IF l \in DOMAIN m.established THEN m.established[l].contract ELSE @]
      BY DEF Becomes
    <2> QED
      BY <1>1, <2>1, HistoryBecomes
  <1>5. EndShape'
    BY <1>2, <1>3, <1>4 DEF EndShape
  <1>6. EndSpares(s, l)
    BY <1>2, <1>3, <1>4 DEF EndSpares, IsUpdated
  <1>7. /\ Side(s, l)'.end = e /\ Side(s, l)'.offer = Side(s, l).offer
        /\ Side(s, l)'.attempt = attempt /\ Side(s, l)'.settled = settled
    BY <1>1, <1>2, <1>3, <1>4 DEF IsUpdated, Side, At
  <1>8. settled = {} => Side(s, l)'.contract = Side(s, l).contract
    BY <1>1, <1>4 DEF Side, At
  <1>9. \A x : settled = {x} => Side(s, l)'.contract = x.contract
    <2> SUFFICES ASSUME NEW x, settled = {x} PROVE Side(s, l)'.contract = x.contract
      OBVIOUS
    <2>1. l \in DOMAIN m.established /\ m.established[l] = x
      BY <1>1 DEF At
    <2> QED
      BY <1>4, <2>1 DEF Side
  <1>10. ASSUME Balanced(s, m), Books PROVE Books'
    <2>1. \A t \in Sides : Balanced(t, manager'[t])
      BY <1>3, <1>10 DEF Books
    <2> QED
      BY <2>1 DEF Books
  <1> QED
    BY <1>5, <1>6, <1>7, <1>8, <1>9, <1>10 DEF NowHas

\* An end that owns its entry in the manager holds an attempt or a contract there, an
\* end that does not holds neither.
LEMMA OwnedIsHeld ==
  ASSUME NEW s, NEW k, NEW mine, NEW theirs, EndIs(k, s, mine, theirs)
  PROVE  /\ mine.end.owned => (mine.attempt = {}) # (mine.settled = {})
         /\ ~mine.end.owned => mine.attempt = {} /\ mine.settled = {}
         /\ mine.end.owned \in BOOLEAN => (mine.end.owned <=> mine.end.state \in Owning)
  BY DEF EndIs, AttemptIn, SettledIn, Owning, Proposed

\* release_manager: what is released is what was held.
LEMMA ReleaseMoves ==
  ASSUME Shape, Books, NEW s \in Sides, NEW l \in Links, NEW k,
         LinkIs(k, s, Side(s, l), Side(Other(s), l))
  PROVE  /\ \E reserved : ManagerMoves(manager[s], Released(s, l), l, reserved, {}, {})
         /\ Balanced(s, Released(s, l))
  <1> DEFINE m == manager[s]
             mine == Side(s, l)
  <1>1. IsManager(m) /\ Balanced(s, m)
    BY DEF Shape, EndShape, Books
  <1>2. /\ mine.attempt = At(m.attempts, l) /\ mine.settled = At(m.established, l)
        /\ mine.end.owned = end[s][l].owned /\ end[s][l].owned \in BOOLEAN
    BY DEF Side, Shape, EndShape, EndRecord
  <1>3. EndIs(k, s, mine, Side(Other(s), l))
    BY DEF LinkIs, SideIs
  <1> HIDE DEF mine
  <1>4. /\ mine.end.owned => (mine.attempt = {}) # (mine.settled = {})
        /\ ~mine.end.owned => mine.attempt = {} /\ mine.settled = {}
    BY <1>3, OwnedIsHeld
  <1>5. CASE end[s][l].owned
    <2> DEFINE n == Terminate(m, l)
               gone == IF l \in DOMAIN m.attempts THEN Reservation(m)
                       ELSE m.established[l].accounted_bytes
               reserved == m.reserved_bytes - gone
    <2>1. Released(s, l) = n
      BY <1>5 DEF Released
    <2>2. ManagerMoves(m, n, l, reserved, {}, {})
      BY <1>1, TerminateMoves
    <2>3. /\ gone = Held(m, At(m.attempts, l), At(m.established, l)) /\ gone \in Nat
          /\ m.reserved_bytes \in Nat
      <3>1. Reservation(m) \in Nat
        BY <1>1, ExchangeAssumption DEF Reservation, Balanced
      <3>2. EstablishedBytes(m) \in Nat /\ Cardinality(DOMAIN m.attempts) \in Nat
        <4>1. /\ IsFiniteSet(DOMAIN m.established) /\ IsFiniteSet(DOMAIN m.attempts)
              /\ \A d \in DOMAIN m.established : m.established[d].accounted_bytes \in Nat
          BY <1>1 DEF Balanced
        <4>2. /\ RestOf(m, l) \in Nat /\ Weight(At(m.established, l)) \in Nat
              /\ EstablishedBytes(m) = RestOf(m, l) + Weight(At(m.established, l))
          <5> HIDE DEF m
          <5> QED
            BY ONLY <4>1, WeightSplits
        <4> QED
          BY <4>1, <4>2, FS_CardinalityType
      <3>3. m.reserved_bytes \in Nat
        BY <1>1, <3>1, <3>2 DEF Balanced
      <3>4. CASE l \in DOMAIN m.attempts
        <4>1. At(m.attempts, l) # {} /\ At(m.established, l) = {}
          BY <1>2, <1>4, <1>5, <3>4 DEF At
        <4> QED
          BY <3>1, <3>3, <3>4, <4>1 DEF Held, Weight
      <3>5. CASE l \notin DOMAIN m.attempts
        <4>1. At(m.attempts, l) = {} /\ l \in DOMAIN m.established
          BY <1>2, <1>4, <1>5, <3>5 DEF At
        <4>2. At(m.established, l) = {m.established[l]}
          BY <4>1 DEF At
        <4>3. Weight(At(m.established, l)) = m.established[l].accounted_bytes
          BY <4>2 DEF Weight
        <4>4. m.established[l].accounted_bytes \in Nat
          BY <1>1, <4>1 DEF Balanced
        <4> QED
          BY <3>3, <3>5, <4>1, <4>3, <4>4 DEF Held
      <3> QED
        BY <3>4, <3>5
    <2>4. /\ reserved = (m.reserved_bytes - Held(m, At(m.attempts, l), At(m.established, l)))
                          + Held(m, {}, {})
          /\ reserved <= m.limits.bytes
      <3>1. Held(m, {}, {}) = 0
        BY DEF Held, Weight
      <3>2. m.reserved_bytes <= m.limits.bytes /\ m.limits.bytes \in Nat
        BY <1>1, ExchangeAssumption DEF Balanced
      <3> QED
        BY <2>3, <3>1, <3>2
    <2> HIDE DEF n, reserved, m
    <2>5. Balanced(s, n)
      BY <1>1, <2>2, <2>4, BooksMove
    <2> QED
      BY <2>1, <2>2, <2>5 DEF m
  <1>6. CASE ~end[s][l].owned
    <2>1. Released(s, l) = m
      BY <1>6 DEF Released
    <2>2. At(m.attempts, l) = {} /\ At(m.established, l) = {}
      BY <1>2, <1>4, <1>6
    <2>3. ManagerMoves(m, m, l, m.reserved_bytes, {}, {})
      BY <1>1, <2>2 DEF ManagerMoves
    <2> QED
      BY <1>1, <2>1, <2>3
  <1> QED
    BY <1>2, <1>5, <1>6

-----------------------------------------------------------------------------
(* The inductive invariant, and the ways an end fails                      *)

\* The inductive invariant.
Sound == Shape /\ LinksAreSound /\ Books

\* The wire to a side is as it was, or the side has read a frame of it.
ReadsAtMost(s, l) ==
  LET w == wire[Other(s)][l]
  IN /\ wire'[s][l] = wire[s][l]
     /\ \/ wire'[Other(s)][l] = w
        \/ w # <<>> /\ wire'[Other(s)][l] = Tail(w)

\* An end, a field at a time.
EndOf(phase, state, offer, owned, frame, failure) ==
  [phase |-> phase, state |-> state, offer |-> offer, owned |-> owned, frame |-> frame,
   failure |-> failure]

\* The fields of an end, in the form that survives an update.
IsEnd(e, phase, state, offer, owned, frame, failure) ==
  e \in [phase : {phase}, state : {state}, offer : {offer}, owned : {owned},
         frame : {frame}, failure : {failure}]

\* An end is what its fields are.
LEMMA EndIsMadeOf ==
  ASSUME NEW e
  PROVE  /\ e \in EndRecord =>
              IsEnd(e, e.phase, e.state, e.offer, e.owned, e.frame, e.failure)
         /\ \A phase, state, offer, owned, frame, failure :
              IsEnd(e, phase, state, offer, owned, frame, failure) =>
                e = EndOf(phase, state, offer, owned, frame, failure)
  <1>1. e \in EndRecord => IsEnd(e, e.phase, e.state, e.offer, e.owned, e.frame, e.failure)
    BY DEF EndRecord, IsEnd
  <1>2. ASSUME NEW phase, NEW state, NEW offer, NEW owned, NEW frame, NEW failure,
               IsEnd(e, phase, state, offer, owned, frame, failure)
        PROVE  e = EndOf(phase, state, offer, owned, frame, failure)
    BY <1>2 DEF IsEnd, EndOf
  <1> QED
    BY <1>1, <1>2

\* The states an end fails in.
LEMMA FailedEnds ==
  /\ LET e == Sends(Ended("Failed", "Local"), "Failed", Frame("Failed", NoBody))
     IN IsFailed(e) /\ e \in EndRecord
  /\ \A phase \in {"Failed", "TornDown"} : \A failure \in Failure \ {"Protocol"} :
       LET e == Ended(phase, failure) IN IsFailed(e) /\ e \in EndRecord
  <1>1. ASSUME NEW phase, NEW failure
        PROVE  Ended(phase, failure) =
                 EndOf(phase, "Failed", NoOffer, FALSE, NoFrame, failure)
    <2>1. IsEnd(NewEnd, "Idle", "Ready", NoOffer, FALSE, NoFrame, "None")
      BY DEF NewEnd, IsEnd
    <2> DEFINE a == [NewEnd EXCEPT !.phase = phase]
               b == [a EXCEPT !.state = "Failed"]
               c == [b EXCEPT !.failure = failure]
    <2> HIDE DEF NewEnd
    <2>2. IsEnd(a, phase, "Ready", NoOffer, FALSE, NoFrame, "None")
      BY ONLY <2>1 DEF IsEnd
    <2> HIDE DEF a
    <2>3. IsEnd(b, phase, "Failed", NoOffer, FALSE, NoFrame, "None")
      BY ONLY <2>2 DEF IsEnd
    <2> HIDE DEF b
    <2>4. IsEnd(c, phase, "Failed", NoOffer, FALSE, NoFrame, failure)
      BY ONLY <2>3 DEF IsEnd
    <2> HIDE DEF c
    <2>5. c = EndOf(phase, "Failed", NoOffer, FALSE, NoFrame, failure)
      BY ONLY <2>4 DEF IsEnd, EndOf
    <2> QED
      BY <2>5 DEF a, b, c, Ended
  <1>2. Sends(Ended("Failed", "Local"), "Failed", Frame("Failed", NoBody)) =
          EndOf("Sending", "Failed", NoOffer, FALSE, Frame("Failed", NoBody), "Local")
    <2> DEFINE a == [Ended("Failed", "Local") EXCEPT !.phase = "Sending"]
               b == [a EXCEPT !.state = "Failed"]
               c == [b EXCEPT !.frame = Frame("Failed", NoBody)]
    <2>1. IsEnd(Ended("Failed", "Local"), "Failed", "Failed", NoOffer, FALSE, NoFrame, "Local")
      BY <1>1 DEF EndOf, IsEnd
    <2> HIDE DEF Ended
    <2>2. IsEnd(a, "Sending", "Failed", NoOffer, FALSE, NoFrame, "Local")
      BY ONLY <2>1 DEF IsEnd
    <2> HIDE DEF a
    <2>3. IsEnd(b, "Sending", "Failed", NoOffer, FALSE, NoFrame, "Local")
      BY ONLY <2>2 DEF IsEnd
    <2> HIDE DEF b
    <2>4. IsEnd(c, "Sending", "Failed", NoOffer, FALSE, Frame("Failed", NoBody), "Local")
      BY ONLY <2>3 DEF IsEnd
    <2> HIDE DEF c
    <2>5. c = EndOf("Sending", "Failed", NoOffer, FALSE, Frame("Failed", NoBody), "Local")
      BY ONLY <2>4 DEF IsEnd, EndOf
    <2> QED
      BY <2>5 DEF a, b, c, Sends
  <1>3. Frame("Failed", NoBody) \in
          [type : FrameType, body : {NoBody} \cup AllOffers \cup AllContracts]
    BY DEF Frame, FrameType
  <1>4. /\ LET e == EndOf("Sending", "Failed", NoOffer, FALSE, Frame("Failed", NoBody), "Local")
           IN IsFailed(e) /\ e \in EndRecord
    <2> HIDE DEF Frame, NoFrame, AllOffers, AllContracts
    <2> QED
      BY <1>3 DEF IsFailed, EndRecord, Phase, NegotiationState, Failure, EndOf
  <1>5. \A phase \in {"Failed", "TornDown"} : \A failure \in Failure \ {"Protocol"} :
          LET e == EndOf(phase, "Failed", NoOffer, FALSE, NoFrame, failure)
          IN IsFailed(e) /\ e \in EndRecord
    <2> HIDE DEF NoFrame, AllOffers, AllContracts
    <2> QED
      BY DEF IsFailed, EndRecord, Phase, NegotiationState, Failure, EndOf
  <1> HIDE DEF EndOf
  <1> QED
    BY <1>1, <1>2, <1>4, <1>5

\* A side that has left the state Ready has the other's settings.
LEMMA SettingsAreKnown ==
  ASSUME Shape, LinksAreSound, NEW s \in Sides, NEW l \in Links,
         end[s][l].state # "Ready" \/ setup[s][l].phase = "Ready"
  PROVE  setup[s][l].peer # NoSettings
  <1> DEFINE mine == Side(s, l)
             theirs == Side(Other(s), l)
  <1>1. PICK k : LinkIs(k, s, mine, theirs)
    BY SoundAt
  <1>2. mine.setup = setup[s][l] /\ mine.end = end[s][l]
    BY DEF Side
  <1> HIDE DEF mine, theirs
  <1> QED
    BY <1>1, <1>2 DEF LinkIs, SideIs, EndKnows, SetupIs

\* An end fails and its entry is released: fail_local, fail_protocol, abort, teardown.
LEMMA SideFails ==
  ASSUME Sound, NEW s \in Sides, NEW l \in Links, NEW e \in EndRecord, IsFailed(e),
         Becomes(s, l, e, Released(s, l)), SetupShape', SetupSpares(s, l),
         setup[s][l].peer # NoSettings,
         setup'[s][l].local = setup[s][l].local, setup'[s][l].peer = setup[s][l].peer,
         setup'[s][l].phase \in {setup[s][l].phase, "Closed"}, ReadsAtMost(s, l)
  PROVE  Sound'
  <1> DEFINE mine == Side(s, l)
             mine2 == Side(s, l)'
             theirs == Side(Other(s), l)
             theirs2 == Side(Other(s), l)'
  <1>1. Shape /\ LinksAreSound /\ Books /\ EndShape
    BY DEF Sound, Shape
  <1>2. PICK k \in AllContracts \cup {NoContract} : LinkIs(k, s, mine, theirs)
    BY <1>1, SoundAt
  <1>3. IsTyped(mine) /\ IsTyped(theirs)
    BY <1>1, SoundAt
  <1>4. /\ \E reserved : ManagerMoves(manager[s], Released(s, l), l, reserved, {}, {})
        /\ Balanced(s, Released(s, l))
    BY <1>1, <1>2, ReleaseMoves
  <1>5. /\ EndShape' /\ EndSpares(s, l)
        /\ mine2.end = e /\ mine2.offer = mine.offer /\ mine2.contract = mine.contract
        /\ mine2.attempt = {} /\ mine2.settled = {} /\ Books'
    <2>1. PICK reserved : ManagerMoves(manager[s], Released(s, l), l, reserved, {}, {})
      BY <1>4
    <2> HIDE DEF Released, Becomes, EndRecord
    <2>2. EndShape /\ Becomes(s, l, e, Released(s, l))
      BY <1>1
    <2>3. NowHas(s, l, e, Released(s, l), {}, {})
      BY ONLY s \in Sides, l \in Links, e \in EndRecord, <2>1, <2>2, EndBecomes
    <2> QED
      BY ONLY <1>1, <1>4, <2>3 DEF NowHas
  <1>6. Shape'
    BY <1>5 DEF Shape
  <1>7. SameButWire(theirs, theirs2)
    BY <1>5, OthersAreSpared
  <1>8. MayBeRead(theirs, theirs2)
    BY <1>7 DEF MayBeRead, ReadsAtMost, Side
  <1>9. Fails(mine, mine2)
    <2>1. /\ mine.setup = setup[s][l] /\ mine2.setup = setup'[s][l]
          /\ mine.wire = wire[s][l] /\ mine2.wire = wire'[s][l]
      BY DEF Side
    <2> HIDE DEF mine, mine2
    <2> QED
      BY <1>5, <2>1 DEF Fails, ReadsAtMost
  <1>10. LinkIs(k, s, mine2, theirs2)
    <2> HIDE DEF mine, mine2, theirs, theirs2
    <2> QED
      BY <1>2, <1>3, <1>8, <1>9, LinkFails
  <1>11. LinksAreSound'
    <2> HIDE DEF LinkIs, Side
    <2> QED
      BY <1>1, <1>5, <1>10, SoundAgain
  <1> QED
    BY <1>5, <1>6, <1>11 DEF Sound

\* A step that leaves the bootstrap alone and reads at most a frame.
LEMMA WireShapeStays ==
  ASSUME SetupShape, NEW s \in Sides, NEW l \in Links, UNCHANGED setup,
         open' \in [Links -> BOOLEAN],
         \/ wire' = wire
         \/ /\ wire[Other(s)][l] # <<>>
            /\ wire' = [wire EXCEPT ![Other(s)][l] = Tail(@)]
  PROVE  SetupShape' /\ SetupSpares(s, l) /\ ReadsAtMost(s, l)
  <1> DEFINE o == Other(s)
             w == wire[o][l]
  <1>1. o \in Sides /\ o # s
    BY TwoSides
  <1>2. w \in Seq(AnyFrame) /\ wire \in [Sides -> [Links -> Seq(AnyFrame)]]
    BY <1>1 DEF SetupShape
  <1>3. CASE wire' = wire
    BY <1>3 DEF SetupShape, SetupSpares, ReadsAtMost
  <1>4. CASE w # <<>> /\ wire' = [wire EXCEPT ![o][l] = Tail(@)]
    <2>1. Tail(w) \in Seq(AnyFrame)
      BY <1>2, <1>4 DEF AnyFrame
    <2>2. /\ wire' \in [Sides -> [Links -> Seq(AnyFrame)]]
          /\ IsUpdated(wire', wire, o, l, Tail(w))
      <3>1. wire' = [wire EXCEPT ![o][l] = Tail(w)]
        BY <1>4
      <3> HIDE DEF o, w
      <3>2. LET g == [wire EXCEPT ![o][l] = Tail(w)]
            IN /\ g \in [Sides -> [Links -> Seq(AnyFrame)]]
               /\ IsUpdated(g, wire, o, l, Tail(w))
        BY ONLY <1>1, <1>2, <2>1, l \in Links, Updates
      <3> QED
        BY ONLY <3>1, <3>2
    <2> QED
      BY <1>1, <1>4, <2>2 DEF SetupShape, SetupSpares, ReadsAtMost, IsUpdated
  <1> QED
    BY <1>3, <1>4

\* A step of the side s that leaves the link l right.
LEMMA SideSteps ==
  ASSUME Sound, NEW s \in Sides, NEW l \in Links, SetupShape', EndShape',
         SetupSpares(s, l), EndSpares(s, l), Books', NEW k \in AllContracts \cup {NoContract},
         LinkIs(k, s, Side(s, l)', Side(Other(s), l)')
  PROVE  Sound'
  <1>1. LinksAreSound'
    <2> HIDE DEF LinkIs, Side
    <2> QED
      BY SoundAgain DEF Sound
  <1> QED
    BY <1>1 DEF Sound, Shape

\* fail_local, and the closings for any reason but a violated profile.
LEMMA Failing ==
  ASSUME Sound, NEW s \in Sides, NEW l \in Links,
         end[s][l].state # "Ready" \/ setup[s][l].phase = "Ready", UNCHANGED setup,
         \/ wire' = wire
         \/ /\ wire[Other(s)][l] # <<>>
            /\ wire' = [wire EXCEPT ![Other(s)][l] = Tail(@)],
         \/ FailLocal(s, l)
         \/ \E failure \in Failure \ {"Protocol"} : FailAndClose(s, l, failure)
  PROVE  Sound'
  <1>1. Shape /\ LinksAreSound /\ SetupShape
    BY DEF Sound, Shape
  <1>2. open' \in [Links -> BOOLEAN]
    BY <1>1 DEF SetupShape, FailLocal, FailAndClose
  <1>3. SetupShape' /\ SetupSpares(s, l) /\ ReadsAtMost(s, l)
    BY <1>1, <1>2, WireShapeStays
  <1>4. setup[s][l].peer # NoSettings
    BY <1>1, SettingsAreKnown
  <1>5. PICK e \in EndRecord : IsFailed(e) /\ Becomes(s, l, e, Released(s, l))
    <2>1. CASE FailLocal(s, l)
      BY <2>1, FailedEnds DEF FailLocal
    <2>2. CASE \E failure \in Failure \ {"Protocol"} : FailAndClose(s, l, failure)
      BY <2>2, FailedEnds DEF FailAndClose
    <2> QED
      BY <2>1, <2>2
  <1>6. /\ setup'[s][l].local = setup[s][l].local /\ setup'[s][l].peer = setup[s][l].peer
        /\ setup'[s][l].phase \in {setup[s][l].phase, "Closed"}
    OBVIOUS
  <1> HIDE DEF EndRecord
  <1> QED
    BY <1>3, <1>4, <1>5, <1>6, SideFails

\* What becomes of the bootstrap of a side.
LEMMA SetupBecomes ==
  ASSUME SetupShape, NEW s \in Sides, NEW l \in Links, NEW r \in SetupRecord,
         setup' = [setup EXCEPT ![s][l] = r], wire' = wire, open' \in [Links -> BOOLEAN]
  PROVE  SetupShape' /\ SetupSpares(s, l) /\ setup'[s][l] = r
  <1>1. setup' \in [Sides -> [Links -> SetupRecord]] /\ IsUpdated(setup', setup, s, l, r)
    <2>1. setup \in [Sides -> [Links -> SetupRecord]]
      BY DEF SetupShape
    <2> HIDE DEF SetupRecord
    <2> QED
      BY <2>1, Updates
  <1> QED
    BY <1>1 DEF SetupShape, SetupSpares, IsUpdated

\* A record of the bootstrap with another phase, and with the other's settings too.
LEMMA PhaseBecomes ==
  ASSUME NEW r \in SetupRecord, NEW phase \in SetupPhase
  PROVE  LET q == [r EXCEPT !.phase = phase]
         IN /\ q \in SetupRecord /\ q.phase = phase
            /\ q.local = r.local /\ q.peer = r.peer
  BY DEF SetupRecord

\* teardown
LEMMA TeardownKeeps ==
  ASSUME Sound, NEW s \in Sides, NEW l \in Links, Teardown(s, l)
  PROVE  Sound'
  <1> DEFINE r == [setup[s][l] EXCEPT !.phase = "Closed"]
             e == Ended("TornDown", "None")
  <1>1. Shape /\ LinksAreSound /\ SetupShape
    BY DEF Sound, Shape
  <1>2. /\ r \in SetupRecord /\ r.phase = "Closed"
        /\ r.local = setup[s][l].local /\ r.peer = setup[s][l].peer
    <2>1. setup[s][l] \in SetupRecord /\ "Closed" \in SetupPhase
      BY <1>1 DEF SetupShape, SetupPhase
    <2> QED
      BY <2>1, PhaseBecomes
  <1>3. setup' = [setup EXCEPT ![s][l] = r]
    BY DEF Teardown
  <1> HIDE DEF r
  <1>4. open' \in [Links -> BOOLEAN] /\ wire' = wire
    BY <1>1 DEF SetupShape, Teardown
  <1>5. SetupShape' /\ SetupSpares(s, l) /\ setup'[s][l] = r
    BY <1>1, <1>2, <1>3, <1>4, SetupBecomes
  <1>6. setup[s][l].peer # NoSettings
    <2>1. end[s][l].state # "Ready"
      <3>1. PICK k : LinkIs(k, s, Side(s, l), Side(Other(s), l))
        BY <1>1, SoundAt
      <3>2. EndIs(k, s, Side(s, l), Side(Other(s), l)) /\ Side(s, l).end = end[s][l]
        BY <3>1 DEF LinkIs, SideIs, Side
      <3>3. end[s][l].phase # "Idle"
        BY DEF Teardown
      <3> QED
        BY <3>2, <3>3 DEF EndIs, IsStage
    <2> QED
      BY <1>1, <2>1, SettingsAreKnown
  <1>7. IsFailed(e) /\ e \in EndRecord
    BY FailedEnds DEF Failure
  <1>8. Becomes(s, l, e, Released(s, l))
    BY DEF Teardown
  <1>9. ReadsAtMost(s, l)
    BY <1>4 DEF ReadsAtMost
  <1>10. /\ setup'[s][l].local = setup[s][l].local /\ setup'[s][l].peer = setup[s][l].peer
         /\ setup'[s][l].phase \in {setup[s][l].phase, "Closed"}
    BY <1>2, <1>5
  <1> HIDE DEF e, EndRecord
  <1> QED
    BY <1>5, <1>6, <1>7, <1>8, <1>9, <1>10, SideFails

-----------------------------------------------------------------------------
(* The steps of the bootstrap keep the invariant                           *)

\* A step that leaves managers, ends and history alone.
LEMMA EndStays ==
  ASSUME Sound, NEW s \in Sides, NEW l \in Links, UNCHANGED <<manager, end, history>>
  PROVE  /\ EndShape' /\ EndSpares(s, l) /\ Books'
         /\ SameEnd(Side(s, l), Side(s, l)')
  <1>1. EndShape /\ Books
    BY DEF Sound, Shape
  <1>2. EndShape' /\ Books'
    BY <1>1 DEF EndShape, Books
  <1>3. EndSpares(s, l) /\ SameEnd(Side(s, l), Side(s, l)')
    BY DEF EndSpares, SameEnd, Side, At
  <1> QED
    BY <1>2, <1>3

\* The other end of a link stays as it is, unless it is read from.
LEMMA OtherEndStays ==
  ASSUME NEW s \in Sides, NEW l \in Links, SetupSpares(s, l), EndSpares(s, l),
         wire' = wire
  PROVE  Side(Other(s), l)' = Side(Other(s), l)
  <1> DEFINE o == Other(s)
  <1>1. o \in Sides /\ o # s
    BY TwoSides
  <1>2. /\ setup'[o][l] = setup[o][l]
        /\ end'[o][l] = end[o][l] /\ history'[o][l] = history[o][l]
        /\ At(manager'[o].attempts, l) = At(manager[o].attempts, l)
        /\ At(manager'[o].established, l) = At(manager[o].established, l)
    BY <1>1 DEF SetupSpares, EndSpares
  <1> HIDE DEF o
  <1>3. Side(o, l)' = Side(o, l)
    BY <1>2 DEF Side, At
  <1> QED
    BY <1>3 DEF o

\* A side begins: connect_profile_ready, accept_profile_ready.
LEMMA BeginKeeps ==
  ASSUME Sound, NEW s \in Sides, NEW l \in Links, NEW local \in Profiles[s][l],
         setup[s][l].phase = "None", IsUsable(local),
         setup' = [setup EXCEPT ![s][l] = Setup("Handshaking", local)],
         open' \in [Links -> BOOLEAN], wire' = wire, UNCHANGED <<manager, end, history>>
  PROVE  Sound'
  <1> DEFINE mine == Side(s, l)
             mine2 == Side(s, l)'
             theirs == Side(Other(s), l)
             r == Setup("Handshaking", local)
  <1>1. Shape /\ LinksAreSound /\ SetupShape
    BY DEF Sound, Shape
  <1>2. local \in AllSettings /\ r \in SetupRecord
    BY DEF AllSettings, Setup, SetupRecord, SetupPhase
  <1>3. SetupShape' /\ SetupSpares(s, l) /\ setup'[s][l] = r
    <2> HIDE DEF r
    <2> QED
      BY <1>1, <1>2, SetupBecomes DEF r
  <1>4. EndShape' /\ EndSpares(s, l) /\ Books' /\ SameEnd(mine, mine2)
    BY EndStays
  <1>5. Side(Other(s), l)' = theirs
    BY <1>3, <1>4, OtherEndStays
  <1>6. PICK k \in AllContracts \cup {NoContract} : LinkIs(k, s, mine, theirs)
    BY <1>1, SoundAt
  <1>7. /\ mine.setup.phase = "None" /\ mine2.setup = Setup("Handshaking", local)
        /\ mine2.wire = mine.wire
    BY <1>3 DEF Side
  <1>8. LinkIs(k, s, mine2, theirs)
    <2> HIDE DEF mine, mine2, theirs, AllSettings
    <2> QED
      BY <1>2, <1>4, <1>6, <1>7, LinkBegins
  <1>9. LinkIs(k, s, Side(s, l)', Side(Other(s), l)')
    BY <1>5, <1>8
  <1> HIDE DEF mine, mine2, theirs, r
  <1> QED
    BY <1>3, <1>4, <1>9, SideSteps

\* connect_profile_ready
LEMMA DialKeeps ==
  ASSUME Sound, NEW l \in Links, Dial(l)
  PROVE  Sound'
  <1> DEFINE s == Dialer[l]
  <1>1. s \in Sides /\ SetupShape
    BY ProfileAssumption DEF Sound, Shape
  <1>2. PICK local \in Profiles[s][l] :
          /\ IsUsable(local)
          /\ setup' = [setup EXCEPT ![s][l] = Setup("Handshaking", local)]
    BY DEF Dial, Connect
  <1>3. /\ setup[s][l].phase = "None" /\ open' \in [Links -> BOOLEAN] /\ wire' = wire
        /\ UNCHANGED <<manager, end, history>>
    BY <1>1 DEF Dial, Connect, SetupShape
  <1> HIDE DEF s
  <1> QED
    BY <1>1, <1>2, <1>3, BeginKeeps

\* accept_profile_ready
LEMMA AnswerKeeps ==
  ASSUME Sound, NEW l \in Links, Answer(l)
  PROVE  Sound'
  <1> DEFINE s == Other(Dialer[l])
  <1>1. s \in Sides /\ SetupShape
    BY ProfileAssumption, TwoSides DEF Sound, Shape
  <1>2. PICK local \in Profiles[s][l] :
          /\ IsUsable(local)
          /\ setup' = [setup EXCEPT ![s][l] = Setup("Handshaking", local)]
    BY DEF Answer, Accept
  <1>3. /\ setup[s][l].phase = "None" /\ open' \in [Links -> BOOLEAN] /\ wire' = wire
        /\ UNCHANGED <<manager, end, history>>
    BY <1>1 DEF Answer, Accept, SetupShape
  <1> HIDE DEF s
  <1> QED
    BY <1>1, <1>2, <1>3, BeginKeeps

\* A side that has not activated its end closes the connection.
LEMMA CloseKeeps ==
  ASSUME Sound, NEW s \in Sides, NEW l \in Links, setup[s][l].phase # "None",
         end[s][l].phase = "Idle" \/ setup[s][l].phase \in Bootstrapping,
         setup' = [setup EXCEPT ![s][l].phase = "Closed"],
         open' \in [Links -> BOOLEAN], wire' = wire, UNCHANGED <<manager, end, history>>
  PROVE  Sound'
  <1> DEFINE mine == Side(s, l)
             mine2 == Side(s, l)'
             theirs == Side(Other(s), l)
             r == [setup[s][l] EXCEPT !.phase = "Closed"]
  <1>1. Shape /\ LinksAreSound /\ SetupShape
    BY DEF Sound, Shape
  <1>2. /\ r \in SetupRecord /\ r.phase = "Closed"
        /\ r.local = setup[s][l].local /\ r.peer = setup[s][l].peer
    <2>1. setup[s][l] \in SetupRecord /\ "Closed" \in SetupPhase
      BY <1>1 DEF SetupShape, SetupPhase
    <2> QED
      BY <2>1, PhaseBecomes
  <1>3. SetupShape' /\ SetupSpares(s, l) /\ setup'[s][l] = r
    <2>1. setup' = [setup EXCEPT ![s][l] = r]
      OBVIOUS
    <2>2. wire' = wire /\ open' \in [Links -> BOOLEAN]
      OBVIOUS
    <2> HIDE DEF r
    <2> QED
      BY ONLY s \in Sides, l \in Links, <1>1, <1>2, <2>1, <2>2, SetupBecomes
  <1>4. EndShape' /\ EndSpares(s, l) /\ Books' /\ SameEnd(mine, mine2)
    BY EndStays
  <1>5. Side(Other(s), l)' = theirs
    BY <1>3, <1>4, OtherEndStays
  <1>6. PICK k \in AllContracts \cup {NoContract} : LinkIs(k, s, mine, theirs)
    BY <1>1, SoundAt
  <1>7. /\ mine.setup = setup[s][l] /\ mine2.setup = r /\ mine2.wire = mine.wire
        /\ mine.end = end[s][l]
    BY <1>3 DEF Side
  <1> HIDE DEF mine, mine2, theirs, r
  <1>8. mine.end.state = "Ready"
    <2>1. CASE mine.end.phase = "Idle"
      BY <1>6, <2>1 DEF LinkIs, SideIs, EndIs, IsStage
    <2>2. CASE mine.setup.phase \in Bootstrapping
      BY <1>6, <2>2, EndBeforeSettings DEF Bootstrapping, Early
    <2> QED
      BY <1>7, <2>1, <2>2
  <1>9. LinkIs(k, s, mine2, theirs)
    BY <1>2, <1>4, <1>6, <1>7, <1>8, LinkCloses
  <1>10. LinkIs(k, s, Side(s, l)', Side(Other(s), l)')
    BY <1>5, <1>9 DEF mine2
  <1> QED
    BY <1>3, <1>4, <1>10, SideSteps

\* The host drops the connection before it is activated.
LEMMA GiveUpKeeps ==
  ASSUME Sound, NEW s \in Sides, NEW l \in Links, GiveUp(s, l)
  PROVE  Sound'
  <1>1. SetupShape
    BY DEF Sound, Shape
  <1>2. /\ setup[s][l].phase # "None" /\ end[s][l].phase = "Idle"
        /\ setup' = [setup EXCEPT ![s][l].phase = "Closed"]
        /\ open' \in [Links -> BOOLEAN] /\ wire' = wire
        /\ UNCHANGED <<manager, end, history>>
    BY <1>1 DEF GiveUp, Abandon, Bootstrapping, SetupShape
  <1> QED
    BY <1>2, CloseKeeps

\* The transport is lost.
LEMMA LoseTransportKeeps ==
  ASSUME Sound, NEW l \in Links, LoseTransport(l)
  PROVE  Sound'
  <1>1. /\ UNCHANGED <<manager, end, history, setup, wire>>
        /\ SetupShape /\ EndShape /\ LinksAreSound /\ Books
    BY DEF Sound, Shape, LoseTransport
  <1>2. SetupShape'
    BY <1>1 DEF SetupShape, LoseTransport
  <1>3. EndShape' /\ Books'
    BY <1>1 DEF EndShape, Books
  <1>4. \A t, d : Side(t, d)' = Side(t, d)
    BY <1>1 DEF Side, At
  <1>5. LinksAreSound'
    BY <1>1, <1>4 DEF LinksAreSound, LinkIsSound
  <1> QED
    BY <1>2, <1>3, <1>5 DEF Sound, Shape

\* A side writes a frame.
LEMMA WireGrows ==
  ASSUME SetupShape, NEW s \in Sides, NEW l \in Links, NEW frame \in AnyFrame,
         wire' = [wire EXCEPT ![s][l] = Append(@, frame)]
  PROVE  /\ wire' \in [Sides -> [Links -> Seq(AnyFrame)]]
         /\ IsUpdated(wire', wire, s, l, Append(wire[s][l], frame))
  <1> DEFINE w == Append(wire[s][l], frame)
  <1>1. wire \in [Sides -> [Links -> Seq(AnyFrame)]]
    BY DEF SetupShape
  <1>2. wire[s][l] \in Seq(AnyFrame)
    BY <1>1
  <1>3. w \in Seq(AnyFrame)
    BY <1>2 DEF AnyFrame
  <1>4. wire' = [wire EXCEPT ![s][l] = w]
    OBVIOUS
  <1> HIDE DEF w, AnyFrame
  <1>5. LET g == [wire EXCEPT ![s][l] = w]
        IN g \in [Sides -> [Links -> Seq(AnyFrame)]] /\ IsUpdated(g, wire, s, l, w)
    BY ONLY s \in Sides, l \in Links, <1>1, <1>3, Updates
  <1> QED
    BY ONLY <1>4, <1>5 DEF w

\* send_local_settings
LEMMA SendSettingsKeeps ==
  ASSUME Sound, NEW s \in Sides, NEW l \in Links, SendSettings(s, l),
         UNCHANGED <<manager, end, history>>
  PROVE  Sound'
  <1> DEFINE mine == Side(s, l)
             mine2 == Side(s, l)'
             theirs == Side(Other(s), l)
             theirs2 == Side(Other(s), l)'
             r == [setup[s][l] EXCEPT !.phase = "AwaitingSettings"]
             f == Frame("Settings", setup[s][l].local)
  <1>1. Shape /\ LinksAreSound /\ SetupShape
    BY DEF Sound, Shape
  <1>2. PICK k \in AllContracts \cup {NoContract} : LinkIs(k, s, mine, theirs)
    BY <1>1, SoundAt
  <1>3. IsTyped(mine)
    BY <1>1, SoundAt
  <1>4. setup[s][l].phase = "Handshaking" /\ setup[s][l] \in SetupRecord
    BY <1>1 DEF SendSettings, SetupShape
  <1>5. /\ r \in SetupRecord /\ r.phase = "AwaitingSettings"
        /\ r.local = setup[s][l].local /\ r.peer = setup[s][l].peer
    <2>1. "AwaitingSettings" \in SetupPhase
      BY DEF SetupPhase
    <2> QED
      BY <1>4, <2>1, PhaseBecomes
  <1>6. f \in AnyFrame
    <2>1. mine.setup = setup[s][l]
      BY DEF Side
    <2>2. setup[s][l].local # NoSettings
      <3> HIDE DEF mine, theirs
      <3> QED
        BY <1>2, <1>4, <2>1 DEF LinkIs, SideIs, SetupIs
    <2> QED
      BY <1>4, <2>2 DEF SetupRecord, AnyFrame, Frame
  <1>7. setup' = [setup EXCEPT ![s][l] = r] /\ wire' = [wire EXCEPT ![s][l] = Append(@, f)]
        /\ open' = open
    BY DEF SendSettings
  <1> HIDE DEF r, f
  <1>8. setup' \in [Sides -> [Links -> SetupRecord]] /\ IsUpdated(setup', setup, s, l, r)
    <2>1. setup \in [Sides -> [Links -> SetupRecord]]
      BY <1>1 DEF SetupShape
    <2>2. LET g == [setup EXCEPT ![s][l] = r]
          IN g \in [Sides -> [Links -> SetupRecord]] /\ IsUpdated(g, setup, s, l, r)
      BY ONLY s \in Sides, l \in Links, <1>5, <2>1, Updates
    <2> QED
      BY ONLY <1>7, <2>2
  <1>9. /\ wire' \in [Sides -> [Links -> Seq(AnyFrame)]]
        /\ IsUpdated(wire', wire, s, l, Append(wire[s][l], f))
    BY ONLY s \in Sides, l \in Links, <1>1, <1>6, <1>7, WireGrows
  <1>10. SetupShape'
    BY <1>1, <1>7, <1>8, <1>9 DEF SetupShape
  <1>11. SetupSpares(s, l)
    BY <1>8, <1>9 DEF SetupSpares, IsUpdated
  <1>12. EndShape' /\ EndSpares(s, l) /\ Books' /\ SameEnd(mine, mine2)
    BY EndStays
  <1>13. theirs2 = theirs
    <2> DEFINE o == Other(s)
    <2>1. o \in Sides /\ o # s
      BY TwoSides
    <2>2. wire'[o][l] = wire[o][l] /\ SameButWire(theirs, theirs2)
      BY <1>9, <1>11, <1>12, <2>1, OthersAreSpared DEF IsUpdated
    <2> QED
      BY <2>2 DEF Side, SameButWire
  <1>14. /\ mine.setup = setup[s][l] /\ mine2.setup = r
         /\ mine2.wire = Append(mine.wire, f)
    BY <1>8, <1>9 DEF Side, IsUpdated
  <1>15. LinkIs(k, s, mine2, theirs)
    <2> HIDE DEF mine, mine2, theirs, theirs2
    <2>1. /\ LinkIs(k, s, mine, theirs) /\ IsTyped(mine) /\ mine.setup.phase = "Handshaking"
          /\ mine2.setup.phase = "AwaitingSettings" /\ mine2.setup.local = mine.setup.local
          /\ mine2.setup.peer = mine.setup.peer /\ SameEnd(mine, mine2)
          /\ mine2.wire = Append(mine.wire, Frame("Settings", mine.setup.local))
      BY <1>2, <1>3, <1>4, <1>5, <1>12, <1>14 DEF f
    <2> QED
      BY ONLY s \in Sides, <2>1, LinkSendsSettings
  <1>16. LinkIs(k, s, Side(s, l)', Side(Other(s), l)')
    BY <1>13, <1>15
  <1> HIDE DEF mine, mine2, theirs, theirs2
  <1> QED
    BY <1>10, <1>11, <1>12, <1>16, SideSteps

\* receive_peer_settings
LEMMA ReceiveSettingsKeeps ==
  ASSUME Sound, NEW s \in Sides, NEW l \in Links, ReceiveSettings(s, l),
         UNCHANGED <<manager, end, history>>
  PROVE  Sound'
  <1> DEFINE mine == Side(s, l)
             mine2 == Side(s, l)'
             o == Other(s)
             theirs == Side(o, l)
             theirs2 == Side(o, l)'
             frame == Head(wire[o][l])
  <1>1. Shape /\ LinksAreSound /\ SetupShape
    BY DEF Sound, Shape
  <1>2. PICK k \in AllContracts \cup {NoContract} : LinkIs(k, s, mine, theirs)
    BY <1>1, SoundAt
  <1>3. IsTyped(mine) /\ IsTyped(theirs) /\ o \in Sides /\ o # s
    BY <1>1, SoundAt, TwoSides
  <1>4. /\ setup[s][l].phase = "AwaitingSettings" /\ setup[s][l] \in SetupRecord
        /\ wire[o][l] # <<>> /\ wire[o][l] \in Seq(AnyFrame)
        /\ wire' = [wire EXCEPT ![o][l] = Tail(@)]
    BY <1>1, <1>3 DEF ReceiveSettings, SetupShape
  <1>5. /\ mine.setup = setup[s][l] /\ mine.wire = wire[s][l] /\ theirs.wire = wire[o][l]
        /\ mine2.setup = setup'[s][l] /\ mine2.wire = wire'[s][l]
        /\ theirs2.wire = wire'[o][l]
    BY DEF Side
  <1>6. EndShape' /\ EndSpares(s, l) /\ Books' /\ SameEnd(mine, mine2)
    BY EndStays
  <1>7. /\ wire' \in [Sides -> [Links -> Seq(AnyFrame)]]
        /\ IsUpdated(wire', wire, o, l, Tail(wire[o][l]))
    <2> DEFINE w == Tail(wire[o][l])
    <2>1. w \in Seq(AnyFrame) /\ wire \in [Sides -> [Links -> Seq(AnyFrame)]]
      BY <1>1, <1>4 DEF AnyFrame, SetupShape
    <2>2. wire' = [wire EXCEPT ![o][l] = w]
      BY <1>4
    <2> HIDE DEF w, o
    <2>3. LET g == [wire EXCEPT ![o][l] = w]
          IN g \in [Sides -> [Links -> Seq(AnyFrame)]] /\ IsUpdated(g, wire, o, l, w)
      BY ONLY l \in Links, <1>3, <2>1, Updates
    <2> QED
      BY ONLY <2>2, <2>3 DEF w
  <1>8. PICK r \in SetupRecord :
          /\ setup' = [setup EXCEPT ![s][l] = r] /\ r.local = setup[s][l].local
          /\ IF IsProperSettings(frame, setup[s][l].local)
             THEN r.phase = "Ready" /\ r.peer = frame.body
             ELSE r.phase = "Breached" /\ r.peer = setup[s][l].peer
    <2>1. CASE IsProperSettings(frame, setup[s][l].local)
      <3> DEFINE r == [setup[s][l] EXCEPT !.phase = "Ready", !.peer = frame.body]
      <3>1. setup' = [setup EXCEPT ![s][l] = r]
        BY <2>1, <1>1, <1>4 DEF ReceiveSettings, SetupShape
      <3>2. frame.body \in AllSettings
        <4> HIDE DEF mine, theirs, AllSettings
        <4> QED
          BY <1>2, <1>3, <1>4, <1>5, SettingsAreDue
      <3>3. /\ r \in SetupRecord /\ r.phase = "Ready" /\ r.peer = frame.body
            /\ r.local = setup[s][l].local
        <4> HIDE DEF frame, AllSettings
        <4> QED
          BY <1>4, <3>2 DEF SetupRecord, SetupPhase
      <3> QED
        BY <2>1, <3>1, <3>3
    <2>2. CASE ~IsProperSettings(frame, setup[s][l].local)
      <3> DEFINE r == [setup[s][l] EXCEPT !.phase = "Breached"]
      <3>1. setup' = [setup EXCEPT ![s][l] = r]
        BY <2>2 DEF ReceiveSettings
      <3>2. /\ r \in SetupRecord /\ r.phase = "Breached" /\ r.peer = setup[s][l].peer
            /\ r.local = setup[s][l].local
        BY <1>4 DEF SetupRecord, SetupPhase
      <3> QED
        BY <2>2, <3>1, <3>2
    <2> QED
      BY <2>1, <2>2
  <1>9. setup' \in [Sides -> [Links -> SetupRecord]] /\ IsUpdated(setup', setup, s, l, r)
    <2>1. setup \in [Sides -> [Links -> SetupRecord]]
      BY <1>1 DEF SetupShape
    <2>2. LET g == [setup EXCEPT ![s][l] = r]
          IN g \in [Sides -> [Links -> SetupRecord]] /\ IsUpdated(g, setup, s, l, r)
      BY ONLY s \in Sides, l \in Links, r \in SetupRecord, <2>1, Updates
    <2> QED
      BY ONLY <1>8, <2>2
  <1>10. SetupShape'
    <2>1. open' \in [Links -> BOOLEAN]
      BY <1>1 DEF SetupShape, ReceiveSettings
    <2> QED
      BY <1>7, <1>9, <2>1 DEF SetupShape
  <1>11. SetupSpares(s, l)
    BY <1>7, <1>9 DEF SetupSpares, IsUpdated
  <1>12. SameButWire(theirs, theirs2)
    BY <1>6, <1>11, OthersAreSpared
  <1>13. /\ mine2.setup = r /\ mine2.wire = mine.wire /\ theirs2.wire = Tail(theirs.wire)
    BY <1>3, <1>5, <1>7, <1>9 DEF IsUpdated
  <1>14. LinkIs(k, s, mine2, theirs2)
    <2> HIDE DEF mine, mine2, theirs, theirs2
    <2>1. CASE IsProperSettings(frame, setup[s][l].local)
      BY <1>2, <1>3, <1>4, <1>5, <1>6, <1>8, <1>12, <1>13, <2>1, LinkGetsSettings
    <2>2. CASE ~IsProperSettings(frame, setup[s][l].local)
      BY <1>2, <1>3, <1>4, <1>5, <1>6, <1>8, <1>12, <1>13, <2>2, LinkIsBreached
    <2> QED
      BY <2>1, <2>2
  <1> HIDE DEF mine, mine2
  <1>15. LinkIs(k, s, Side(s, l)', Side(Other(s), l)')
    BY <1>14 DEF mine2
  <1> QED
    BY <1>6, <1>10, <1>11, <1>15, SideSteps

\* The bootstrap of an end.
LEMMA SetUpKeeps ==
  ASSUME Sound, NEW s \in Sides, NEW l \in Links, SetUp(s, l)
  PROVE  Sound'
  <1>1. UNCHANGED <<manager, end, history>> /\ SetupShape
    BY DEF SetUp, Sound, Shape
  <1>2. CASE SendSettings(s, l)
    BY <1>1, <1>2, SendSettingsKeeps
  <1>3. CASE ReceiveSettings(s, l)
    BY <1>1, <1>3, ReceiveSettingsKeeps
  <1>4. CASE FailBootstrap(s, l)
    <2>1. /\ setup[s][l].phase # "None" /\ setup[s][l].phase \in Bootstrapping
          /\ setup' = [setup EXCEPT ![s][l].phase = "Closed"]
          /\ open' \in [Links -> BOOLEAN] /\ wire' = wire
      BY <1>1, <1>4 DEF FailBootstrap, Bootstrapping, SetupShape
    <2> QED
      BY <1>1, <2>1, CloseKeeps
  <1> QED
    BY <1>2, <1>3, <1>4 DEF SetUp, Bootstrap

-----------------------------------------------------------------------------
(* The steps of the exchange keep the invariant                            *)

\* The lengths of offers and contracts are counts.
LEMMA LengthsAreNat ==
  /\ \A offer \in AllOffers : OfferBodyBytes(offer) \in Nat
  /\ \A contract \in AllContracts :
       ContractBytes(contract) \in Nat /\ ProposalBodyBytes(contract) \in Nat
  <1>1. ASSUME NEW offer \in AllOffers
        PROVE  OfferBodyBytes(offer) \in Nat
    <2> DEFINE schemas == offer.schemas
               D == DOMAIN schemas
    <2>1. /\ IsFiniteSet(offer.protocols) /\ IsFiniteSet(offer.capabilities) /\ IsFiniteSet(D)
          /\ \A s \in D :
               /\ IsFiniteSet(DOMAIN schemas[s])
               /\ \A k \in DOMAIN schemas[s] : IsFiniteSet(schemas[s][k])
      BY ExchangeAssumption DEF IsOffer
    <2>2. ASSUME NEW s \in D PROVE SchemaBytes(schemas[s]) \in Nat
      <3> DEFINE c == schemas[s]
                 f == [k \in DOMAIN c |-> IdBytes + IdBytes * Cardinality(c[k])]
      <3>1. \A k \in DOMAIN c : Cardinality(c[k]) \in Nat
        BY <2>1, FS_CardinalityType
      <3>2. f \in [DOMAIN c -> Nat]
        BY <3>1 DEF IdBytes
      <3>3. IsFiniteSet(DOMAIN c)
        BY <2>1
      <3>4. SumFunction(f) \in Nat
        <4> HIDE DEF f, c
        <4> QED
          BY ONLY <3>2, <3>3, SumIsNat
      <3> QED
        BY <3>4 DEF SchemaBytes, IdBytes, RequiredMark
    <2>3. SumFunction([s \in D |-> SchemaBytes(schemas[s])]) \in Nat
      <3>1. [s \in D |-> SchemaBytes(schemas[s])] \in [D -> Nat]
        BY <2>2
      <3> QED
        BY ONLY <2>1, <3>1, SumIsNat
    <2>4. SumFunction([s \in D |-> 1 + Cardinality(DOMAIN schemas[s])]) \in Nat
      <3>1. [s \in D |-> 1 + Cardinality(DOMAIN schemas[s])] \in [D -> Nat]
        BY <2>1, FS_CardinalityType
      <3> QED
        BY ONLY <2>1, <3>1, SumIsNat
    <2>5. Cardinality(offer.protocols) \in Nat /\ Cardinality(offer.capabilities) \in Nat
      BY <2>1, FS_CardinalityType
    <2> QED
      BY <2>3, <2>4, <2>5 DEF OfferBodyBytes, OfferBytes, IdBytes, RequiredMark
  <1>2. ASSUME NEW contract \in AllContracts
        PROVE  ContractBytes(contract) \in Nat /\ ProposalBodyBytes(contract) \in Nat
    <2>1. IsFiniteSet(contract.capabilities) /\ IsFiniteSet(DOMAIN contract.schemas)
      BY ExchangeAssumption DEF IsContract
    <2>2. /\ Cardinality(contract.capabilities) \in Nat
          /\ Cardinality(DOMAIN contract.schemas) \in Nat
      BY <2>1, FS_CardinalityType
    <2> QED
      BY <2>2 DEF ContractBytes, ProposalBodyBytes, IdBytes
  <1> QED
    BY <1>1, <1>2

\* What fits the limit of a frame can be read at the other end.
LEMMA FrameCanBeRead ==
  ASSUME Shape, NEW s \in Sides, NEW l \in Links, NEW k,
         LinkIs(k, s, Side(s, l), Side(Other(s), l)), setup[s][l].peer # NoSettings,
         NEW n \in Nat, n <= FrameLimit(s, l)
  PROVE  CanRead(Side(Other(s), l), n)
  <1> DEFINE mine == Side(s, l)
             theirs == Side(Other(s), l)
             local == setup[s][l].local
             peer == setup[s][l].peer
  <1>1. setup[s][l] \in SetupRecord /\ mine.setup = setup[s][l]
    BY DEF Shape, SetupShape, Side
  <1>2. peer \in AllSettings /\ peer = theirs.setup.local
    <2>1. peer = mine.setup.peer /\ mine.setup.peer # NoSettings
      BY <1>1
    <2>2. mine.setup.peer = theirs.setup.local
      BY <2>1 DEF LinkIs, SideIs, SetupIs
    <2>3. peer \in AllSettings
      BY <1>1 DEF SetupRecord
    <2> QED
      BY <2>1, <2>2, <2>3
  <1>3. local \in AllSettings
    <2>1. local # NoSettings
      <3>1. SetupIs(mine, theirs)
        BY DEF LinkIs, SideIs
      <3>2. mine.setup.peer # NoSettings
        BY <1>1
      <3> HIDE DEF mine, theirs
      <3>3. mine.setup.local # NoSettings
        BY <3>1, <3>2 DEF SetupIs, Early
      <3> QED
        BY <1>1, <3>3
    <2> QED
      BY <1>1, <2>1 DEF SetupRecord
  <1>4. local.negotiation_bytes \in Nat /\ peer.negotiation_bytes \in Nat
    BY <1>2, <1>3, ProfileAssumption
  <1>5. n <= peer.negotiation_bytes
    BY <1>4 DEF FrameLimit, Smaller
  <1>6. theirs.setup.local # NoSettings /\ n <= theirs.setup.local.negotiation_bytes
    BY <1>2, <1>5, ProfileAssumption
  <1> QED
    BY ONLY <1>6 DEF CanRead

\* The end while it sends.
LEMMA SendsIs ==
  ASSUME NEW e \in EndRecord, NEW state, NEW frame
  PROVE  Sends(e, state, frame) =
           [phase |-> "Sending", state |-> state, offer |-> e.offer, owned |-> e.owned,
            frame |-> frame, failure |-> e.failure]
  <1> DEFINE a == [e EXCEPT !.phase = "Sending"]
             b == [a EXCEPT !.state = state]
             c == [b EXCEPT !.frame = frame]
  <1>1. IsEnd(e, e.phase, e.state, e.offer, e.owned, e.frame, e.failure)
    BY DEF IsEnd, EndRecord
  <1>2. IsEnd(a, "Sending", e.state, e.offer, e.owned, e.frame, e.failure)
    BY ONLY <1>1 DEF IsEnd
  <1> HIDE DEF a
  <1>3. IsEnd(b, "Sending", state, e.offer, e.owned, e.frame, e.failure)
    BY ONLY <1>2 DEF IsEnd
  <1> HIDE DEF b
  <1>4. IsEnd(c, "Sending", state, e.offer, e.owned, frame, e.failure)
    BY ONLY <1>3 DEF IsEnd
  <1> HIDE DEF c
  <1>5. c = [phase |-> "Sending", state |-> state, offer |-> e.offer, owned |-> e.owned,
             frame |-> frame, failure |-> e.failure]
    BY ONLY <1>4 DEF IsEnd
  <1> QED
    BY <1>5 DEF a, b, c, Sends

\* The end while it waits.
LEMMA WaitsIs ==
  ASSUME NEW e \in EndRecord, NEW phase, NEW state
  PROVE  Waits(e, phase, state) =
           [phase |-> phase, state |-> state, offer |-> e.offer, owned |-> e.owned,
            frame |-> e.frame, failure |-> e.failure]
  <1> DEFINE a == [e EXCEPT !.phase = phase]
             b == [a EXCEPT !.state = state]
  <1>1. IsEnd(e, e.phase, e.state, e.offer, e.owned, e.frame, e.failure)
    BY DEF IsEnd, EndRecord
  <1>2. IsEnd(a, phase, e.state, e.offer, e.owned, e.frame, e.failure)
    BY ONLY <1>1 DEF IsEnd
  <1> HIDE DEF a
  <1>3. IsEnd(b, phase, state, e.offer, e.owned, e.frame, e.failure)
    BY ONLY <1>2 DEF IsEnd
  <1> HIDE DEF b
  <1>4. b = [phase |-> phase, state |-> state, offer |-> e.offer, owned |-> e.owned,
             frame |-> e.frame, failure |-> e.failure]
    BY ONLY <1>3 DEF IsEnd
  <1> QED
    BY <1>4 DEF a, b, Waits

\* The end becomes e and the history h, and the managers are left alone.
UpdatesEnd(s, l, e, h) ==
  /\ end' = [end EXCEPT ![s][l] = e]
  /\ \/ h = history[s][l] /\ history' = history
     \/ history' = [history EXCEPT ![s][l] = h]
  /\ UNCHANGED manager

\* What it has then.
NowIs(s, l, e, h) ==
  /\ EndShape' /\ EndSpares(s, l) /\ Books'
  /\ Side(s, l)'.end = e
  /\ Side(s, l)'.offer = h.offer /\ Side(s, l)'.contract = h.contract
  /\ Side(s, l)'.attempt = Side(s, l).attempt
  /\ Side(s, l)'.settled = Side(s, l).settled

\* A step that leaves the managers alone.
LEMMA EndUpdates ==
  ASSUME Sound, NEW s \in Sides, NEW l \in Links, NEW e \in EndRecord,
         NEW h \in HistoryRecord, UpdatesEnd(s, l, e, h)
  PROVE  NowIs(s, l, e, h)
  <1>1. EndShape /\ Books
    BY DEF Sound, Shape
  <1>2. end' \in [Sides -> [Links -> EndRecord]] /\ IsUpdated(end', end, s, l, e)
    <2>1. end \in [Sides -> [Links -> EndRecord]] /\ end' = [end EXCEPT ![s][l] = e]
      BY <1>1 DEF EndShape, UpdatesEnd
    <2> HIDE DEF EndRecord
    <2> QED
      BY ONLY s \in Sides, l \in Links, e \in EndRecord, <2>1, Updates
  <1>3. /\ history' \in [Sides -> [Links -> HistoryRecord]]
        /\ IsUpdated(history', history, s, l, h)
    <2>1. history \in [Sides -> [Links -> HistoryRecord]]
      BY <1>1 DEF EndShape
    <2>2. CASE h = history[s][l] /\ history' = history
      BY <2>1, <2>2 DEF IsUpdated
    <2>3. CASE history' = [history EXCEPT ![s][l] = h]
      <3> HIDE DEF HistoryRecord
      <3> QED
        BY ONLY s \in Sides, l \in Links, h \in HistoryRecord, <2>1, <2>3, Updates
    <2> QED
      BY <2>2, <2>3 DEF UpdatesEnd
  <1>4. EndShape' /\ Books'
    BY <1>1, <1>2, <1>3 DEF EndShape, Books, UpdatesEnd
  <1>5. EndSpares(s, l)
    BY <1>2, <1>3 DEF EndSpares, IsUpdated, At, UpdatesEnd
  <1> QED
    BY <1>2, <1>3, <1>4, <1>5 DEF Side, IsUpdated, At, UpdatesEnd, NowIs

\* activate, with prepare_offer
LEMMA ActivateKeeps ==
  ASSUME Sound, NEW s \in Sides, NEW l \in Links, Activate(s, l)
  PROVE  Sound'
  <1> DEFINE mine == Side(s, l)
             mine2 == Side(s, l)'
             theirs == Side(Other(s), l)
             theirs2 == Side(Other(s), l)'
  <1>1. Shape /\ LinksAreSound /\ SetupShape
    BY DEF Sound, Shape
  <1>2. setup[s][l].phase = "Ready" /\ end[s][l].phase = "Idle" /\ UNCHANGED <<wire, setup>>
    BY DEF Activate
  <1>3. PICK offer \in Offers[s][l] :
          IF CanOffer(s, l, offer)
          THEN LET e == [end[s][l] EXCEPT !.offer = offer]
               IN /\ end' = [end EXCEPT ![s][l] =
                               Sends(e, "AwaitingPeerOffer", Frame("Offer", offer))]
                  /\ history' = [history EXCEPT ![s][l].offer = offer]
                  /\ UNCHANGED <<manager, open>>
          ELSE FailLocal(s, l)
    BY DEF Activate
  <1>4. CASE ~CanOffer(s, l, offer)
    <2>1. FailLocal(s, l)
      BY <1>3, <1>4
    <2> QED
      BY <1>2, <2>1, Failing
  <1>5. CASE CanOffer(s, l, offer)
    <2> DEFINE old == end[s][l]
               e == [old EXCEPT !.offer = offer]
               f == Frame("Offer", offer)
               new == Sends(e, "AwaitingPeerOffer", f)
               h == [history[s][l] EXCEPT !.offer = offer]
    <2>1. /\ end' = [end EXCEPT ![s][l] = new] /\ history' = [history EXCEPT ![s][l] = h]
          /\ UNCHANGED <<manager, open>>
      BY <1>3, <1>5
    <2>2. offer \in AllOffers
      BY DEF AllOffers
    <2>3. old \in EndRecord /\ history[s][l] \in HistoryRecord
      BY <1>1 DEF Shape, EndShape
    <2>4. h \in HistoryRecord /\ h.offer = offer /\ h.contract = history[s][l].contract
      <3> HIDE DEF AllOffers, AllContracts
      <3> QED
        BY <2>2, <2>3 DEF HistoryRecord
    <2>5. /\ e \in EndRecord /\ e.offer = offer /\ e.owned = old.owned
          /\ e.failure = old.failure
      <3> HIDE DEF AllOffers, AllContracts, old
      <3> QED
        BY <2>2, <2>3 DEF EndRecord
    <2>6. new = [phase |-> "Sending", state |-> "AwaitingPeerOffer", offer |-> offer,
                 owned |-> old.owned, frame |-> f, failure |-> old.failure]
      <3> HIDE DEF e, f, EndRecord
      <3>1. Sends(e, "AwaitingPeerOffer", f) =
              [phase |-> "Sending", state |-> "AwaitingPeerOffer", offer |-> e.offer,
               owned |-> e.owned, frame |-> f, failure |-> e.failure]
        BY ONLY <2>5, SendsIs
      <3> QED
        BY <2>5, <3>1
    <2>7. new \in EndRecord
      <3> HIDE DEF AllOffers, AllContracts, old, new, NoFrame
      <3>1. f \in [type : FrameType, body : {NoBody} \cup AllOffers \cup AllContracts]
        BY <2>2 DEF Frame, FrameType
      <3> HIDE DEF f
      <3> QED
        BY <2>2, <2>3, <2>6, <3>1 DEF EndRecord, Phase, NegotiationState
    <2>8. /\ EndShape' /\ EndSpares(s, l) /\ Books'
          /\ mine2.end = new /\ mine2.offer = offer /\ mine2.contract = history[s][l].contract
          /\ mine2.attempt = mine.attempt /\ mine2.settled = mine.settled
      <3> HIDE DEF new, h, HistoryRecord, EndRecord
      <3>1. UpdatesEnd(s, l, new, h)
        BY <2>1 DEF UpdatesEnd
      <3>2. NowIs(s, l, new, h)
        BY <2>4, <2>7, <3>1, EndUpdates
      <3> QED
        BY ONLY <2>4, <3>2 DEF NowIs
    <2>9. SetupShape' /\ SetupSpares(s, l)
      BY <1>1, <1>2, <2>1 DEF SetupShape, SetupSpares
    <2>10. theirs2 = theirs
      BY <1>2, <2>8, <2>9, OtherEndStays
    <2>11. PICK k \in AllContracts \cup {NoContract} : LinkIs(k, s, mine, theirs)
      BY <1>1, SoundAt
    <2>12. CanRead(theirs, OfferBodyBytes(offer))
      <3>1. OfferBodyBytes(offer) \in Nat /\ OfferBodyBytes(offer) <= FrameLimit(s, l)
        BY <1>5, <2>2, LengthsAreNat DEF CanOffer
      <3>2. setup[s][l].peer # NoSettings
        BY <1>1, <1>2, SettingsAreKnown
      <3> QED
        BY <1>1, <2>11, <3>1, <3>2, FrameCanBeRead
    <2>13. /\ mine.setup.phase = "Ready" /\ mine.end = old /\ mine.end.phase = "Idle"
           /\ mine2.setup = mine.setup /\ mine2.wire = mine.wire
           /\ mine.contract = history[s][l].contract
      BY <1>2 DEF Side
    <2>14. LinkIs(k, s, mine2, theirs)
      <3> HIDE DEF mine, mine2, theirs, theirs2, old, new, e, h, f, AllOffers
      <3>1. /\ mine2.end = [phase |-> "Sending", state |-> "AwaitingPeerOffer",
                            offer |-> offer, owned |-> mine.end.owned,
                            frame |-> Frame("Offer", offer), failure |-> mine.end.failure]
        BY <2>6, <2>8, <2>13 DEF f
      <3>2. mine2.contract = mine.contract
        BY <2>8, <2>13
      <3> QED
        BY ONLY s \in Sides, <2>2, <2>8, <2>11, <2>12, <2>13, <3>1, <3>2, LinkActivates
    <2>15. LinkIs(k, s, Side(s, l)', Side(Other(s), l)')
      BY <2>10, <2>14
    <2> HIDE DEF mine, mine2, theirs, theirs2, new, h
    <2> QED
      BY <2>8, <2>9, <2>15, SideSteps
  <1> QED
    BY <1>4, <1>5

\* poll writes the frame an end sends.
LEMMA WriteFrameKeeps ==
  ASSUME Sound, NEW s \in Sides, NEW l \in Links, WriteFrame(s, l), UNCHANGED setup
  PROVE  Sound'
  <1> DEFINE mine == Side(s, l)
             mine2 == Side(s, l)'
             theirs == Side(Other(s), l)
             theirs2 == Side(Other(s), l)'
             old == end[s][l]
             f == old.frame
             e == [phase |-> PhaseAfter(f), state |-> old.state, offer |-> old.offer,
                   owned |-> old.owned, frame |-> NoFrame, failure |-> old.failure]
  <1>1. Shape /\ LinksAreSound /\ SetupShape /\ EndShape
    BY DEF Sound, Shape
  <1>2. PICK k \in AllContracts \cup {NoContract} : LinkIs(k, s, mine, theirs)
    BY <1>1, SoundAt
  <1>3. IsTyped(mine) /\ old \in EndRecord /\ mine.end = old /\ mine.wire = wire[s][l]
    BY <1>1, SoundAt DEF EndShape, Side
  <1>4. /\ old.phase = "Sending" /\ wire' = [wire EXCEPT ![s][l] = Append(@, f)]
        /\ UNCHANGED <<manager, open, history>>
    BY DEF WriteFrame
  <1>5. e \in EndRecord
    <2> HIDE DEF old, AllOffers, AllContracts, NoFrame
    <2> QED
      BY <1>3 DEF EndRecord, PhaseAfter, Phase
  <1>6. end' = [end EXCEPT ![s][l] = e]
    <2> DEFINE a == [old EXCEPT !.phase = PhaseAfter(f)]
               b == [a EXCEPT !.frame = NoFrame]
    <2>1. end' = [end EXCEPT ![s][l] = b]
      <3>1. end \in [Sides -> [Links -> EndRecord]]
        BY <1>1 DEF EndShape
      <3> HIDE DEF EndRecord, PhaseAfter, NoFrame
      <3> QED
        BY <3>1 DEF WriteFrame
    <2>2. b = e
      <3> HIDE DEF old, PhaseAfter, NoFrame
      <3>1. IsEnd(old, old.phase, old.state, old.offer, old.owned, old.frame, old.failure)
        BY <1>3 DEF IsEnd, EndRecord
      <3>2. IsEnd(a, PhaseAfter(f), old.state, old.offer, old.owned, old.frame, old.failure)
        BY ONLY <3>1 DEF IsEnd
      <3> HIDE DEF a
      <3>3. IsEnd(b, PhaseAfter(f), old.state, old.offer, old.owned, NoFrame, old.failure)
        BY ONLY <3>2 DEF IsEnd
      <3> HIDE DEF b
      <3> QED
        BY ONLY <3>3 DEF IsEnd
    <2> QED
      BY <2>1, <2>2
  <1>7. f \in AnyFrame
    <2> HIDE DEF mine, theirs
    <2>1. EndIs(k, s, mine, theirs) /\ EndKnows(k, s, mine, theirs)
      BY <1>2 DEF LinkIs, SideIs
    <2>2. f = FrameTo(k, mine, old.state) /\ FrameIsTrue(k, s, mine, theirs, f)
      BY <1>3, <1>4, <2>1 DEF EndIs, EndKnows
    <2> HIDE DEF old, AllOffers, AllContracts, AllSettings
    <2> QED
      BY <2>2 DEF FrameTo, FrameIsTrue, Frame, AnyFrame
  <1> HIDE DEF f
  <1>8. /\ wire' \in [Sides -> [Links -> Seq(AnyFrame)]]
        /\ IsUpdated(wire', wire, s, l, Append(wire[s][l], f))
    BY ONLY s \in Sides, l \in Links, <1>1, <1>4, <1>7, WireGrows
  <1>9. SetupShape' /\ SetupSpares(s, l)
    BY <1>1, <1>4, <1>8 DEF SetupShape, SetupSpares, IsUpdated
  <1>10. /\ EndShape' /\ EndSpares(s, l) /\ Books'
         /\ mine2.end = e /\ mine2.offer = history[s][l].offer
         /\ mine2.contract = history[s][l].contract
         /\ mine2.attempt = mine.attempt /\ mine2.settled = mine.settled
    <2> DEFINE h == history[s][l]
    <2>1. h \in HistoryRecord /\ h = history[s][l] /\ history' = history
      BY <1>1, <1>4 DEF EndShape
    <2> HIDE DEF e, h, HistoryRecord, EndRecord
    <2>2. UpdatesEnd(s, l, e, h)
      BY <1>4, <1>6, <2>1 DEF UpdatesEnd
    <2>3. NowIs(s, l, e, h)
      BY <1>5, <2>1, <2>2, EndUpdates
    <2> QED
      BY ONLY <2>1, <2>3 DEF NowIs, h
  <1>11. theirs2 = theirs
    <2> DEFINE o == Other(s)
    <2>1. o \in Sides /\ o # s
      BY TwoSides
    <2>2. wire'[o][l] = wire[o][l] /\ SameButWire(theirs, theirs2)
      BY <1>8, <1>9, <1>10, <2>1, OthersAreSpared DEF IsUpdated
    <2> QED
      BY <2>2 DEF Side, SameButWire
  <1>12. /\ mine2.setup = mine.setup /\ mine2.wire = Append(mine.wire, f)
         /\ mine.offer = history[s][l].offer /\ mine.contract = history[s][l].contract
    BY <1>8 DEF Side, IsUpdated
  <1>13. LinkIs(k, s, mine2, theirs)
    <2> HIDE DEF mine, mine2, theirs, theirs2, old
    <2>1. /\ LinkIs(k, s, mine, theirs) /\ IsTyped(mine) /\ mine.end.phase = "Sending"
          /\ mine2.setup = mine.setup /\ mine2.wire = Append(mine.wire, mine.end.frame)
          /\ mine2.end = [phase |-> PhaseAfter(mine.end.frame), state |-> mine.end.state,
                          offer |-> mine.end.offer, owned |-> mine.end.owned,
                          frame |-> NoFrame, failure |-> mine.end.failure]
          /\ mine2.offer = mine.offer /\ mine2.contract = mine.contract
          /\ mine2.attempt = mine.attempt /\ mine2.settled = mine.settled
      BY <1>2, <1>3, <1>4, <1>10, <1>12 DEF f
    <2> QED
      BY ONLY s \in Sides, <2>1, LinkWrites
  <1>14. LinkIs(k, s, Side(s, l)', Side(Other(s), l)')
    BY <1>11, <1>13
  <1> HIDE DEF mine, mine2, theirs, theirs2
  <1> QED
    BY <1>9, <1>10, <1>14, SideSteps

\* The report of a failure is acknowledged.
LEMMA FinishReportKeeps ==
  ASSUME Sound, NEW s \in Sides, NEW l \in Links, FinishReport(s, l), UNCHANGED setup
  PROVE  Sound'
  <1> DEFINE mine == Side(s, l)
             mine2 == Side(s, l)'
             theirs == Side(Other(s), l)
             theirs2 == Side(Other(s), l)'
             old == end[s][l]
             h == history[s][l]
             e == [phase |-> "Failed", state |-> old.state, offer |-> old.offer,
                   owned |-> old.owned, frame |-> old.frame, failure |-> old.failure]
  <1>1. Shape /\ LinksAreSound /\ SetupShape /\ EndShape
    BY DEF Sound, Shape
  <1>2. PICK k \in AllContracts \cup {NoContract} : LinkIs(k, s, mine, theirs)
    BY <1>1, SoundAt
  <1>3. old \in EndRecord /\ h \in HistoryRecord
    BY <1>1 DEF EndShape
  <1>4. /\ old.phase = "Reporting" /\ end' = [end EXCEPT ![s][l].phase = "Failed"]
        /\ open' = [open EXCEPT ![l] = FALSE] /\ UNCHANGED <<manager, wire, history>>
    BY DEF FinishReport
  <1>5. e \in EndRecord
    <2> HIDE DEF old, AllOffers, AllContracts, NoFrame
    <2> QED
      BY <1>3 DEF EndRecord, Phase
  <1>6. UpdatesEnd(s, l, e, h)
    <2>1. [old EXCEPT !.phase = "Failed"] = e
      <3> HIDE DEF old, AllOffers, AllContracts, NoFrame
      <3> QED
        BY <1>3 DEF EndRecord
    <2>2. end' = [end EXCEPT ![s][l] = e]
      BY <1>4, <2>1
    <2> QED
      BY <1>4, <2>2 DEF UpdatesEnd
  <1>7. NowIs(s, l, e, h)
    <2> HIDE DEF e, h, EndRecord, HistoryRecord
    <2> QED
      BY <1>3, <1>5, <1>6, EndUpdates
  <1>8. SetupShape' /\ SetupSpares(s, l)
    BY <1>1, <1>4 DEF SetupShape, SetupSpares
  <1>9. EndShape' /\ EndSpares(s, l) /\ Books'
    BY <1>7 DEF NowIs
  <1>10. theirs2 = theirs
    BY <1>4, <1>8, <1>9, OtherEndStays
  <1>11. /\ mine.end = old /\ mine.offer = h.offer /\ mine.contract = h.contract
         /\ mine2.setup = mine.setup /\ mine2.wire = mine.wire
    BY <1>4 DEF Side
  <1>12. LinkIs(k, s, mine2, theirs)
    <2>1. /\ mine2.end = e /\ mine2.offer = h.offer /\ mine2.contract = h.contract
          /\ mine2.attempt = mine.attempt /\ mine2.settled = mine.settled
      BY <1>7 DEF NowIs
    <2> HIDE DEF mine, mine2, theirs, theirs2, old, h
    <2> QED
      BY <1>2, <1>4, <1>11, <2>1, LinkReports
  <1>13. LinkIs(k, s, Side(s, l)', Side(Other(s), l)')
    BY <1>10, <1>12
  <1> HIDE DEF mine, mine2, theirs, theirs2
  <1> QED
    BY <1>8, <1>9, <1>13, SideSteps

\* An end that sends or receives has been activated and has seen no violated profile.
LEMMA ActiveEnds ==
  ASSUME Sound, NEW s \in Sides, NEW l \in Links,
         end[s][l].phase \in {"Sending", "Receiving", "Selecting"}
  PROVE  /\ end[s][l].state # "Ready" /\ end[s][l].failure \in Failure \ {"Protocol"}
         /\ end[s][l].phase = "Receiving" => end[s][l].state \notin {"Established", "Failed"}
  <1>1. Shape /\ LinksAreSound /\ end[s][l] \in EndRecord
    BY DEF Sound, Shape, EndShape
  <1>2. PICK k : LinkIs(k, s, Side(s, l), Side(Other(s), l))
    BY <1>1, SoundAt
  <1>3. EndIs(k, s, Side(s, l), Side(Other(s), l)) /\ Side(s, l).end = end[s][l]
    BY <1>2 DEF LinkIs, SideIs, Side
  <1>4. end[s][l].failure \in Failure
    BY <1>1 DEF EndRecord
  <1>5. end[s][l].failure # "Protocol" /\ IsStage(s, end[s][l].state, end[s][l].phase)
    BY <1>3 DEF EndIs
  <1> QED
    BY <1>4, <1>5 DEF IsStage

\* A frame cannot be written.
LEMMA FailSendKeeps ==
  ASSUME Sound, NEW s \in Sides, NEW l \in Links, FailSend(s, l), UNCHANGED setup
  PROVE  Sound'
  <1> DEFINE failure == IF end[s][l].failure = "None" THEN "Control" ELSE end[s][l].failure
  <1>1. end[s][l].phase = "Sending" /\ FailAndClose(s, l, failure) /\ wire' = wire
    BY DEF FailSend
  <1>2. end[s][l].state # "Ready" /\ end[s][l].failure \in Failure \ {"Protocol"}
    BY <1>1, ActiveEnds
  <1>3. failure \in Failure \ {"Protocol"}
    BY <1>2 DEF Failure
  <1> HIDE DEF failure
  <1> QED
    BY <1>1, <1>2, <1>3, Failing

\* Sending
LEMMA SendKeeps ==
  ASSUME Sound, NEW s \in Sides, NEW l \in Links, Send(s, l)
  PROVE  Sound'
  BY WriteFrameKeeps, FinishReportKeeps, FailSendKeeps DEF Send

\* abort: the stream fails before the next frame.
LEMMA FailReceiveKeeps ==
  ASSUME Sound, NEW s \in Sides, NEW l \in Links, FailReceive(s, l), UNCHANGED setup
  PROVE  Sound'
  <1>1. end[s][l].phase = "Receiving" /\ FailAndClose(s, l, "Control") /\ wire' = wire
    BY DEF FailReceive
  <1>2. end[s][l].state # "Ready" /\ "Control" \in Failure \ {"Protocol"}
    BY <1>1, ActiveEnds DEF Failure
  <1> QED
    BY <1>1, <1>2, Failing

\* What an end takes off the stream.
LEMMA TakenIs ==
  ASSUME Sound, NEW s \in Sides, NEW l \in Links, NEW type, Takes(s, l, type)
  PROVE  /\ end[s][l].phase = "Receiving" /\ end[s][l].state # "Ready"
         /\ Side(s, l).end = end[s][l] /\ Side(s, l).end.phase = "Receiving"
         /\ wire[Other(s)][l] # <<>>
         /\ wire' = [wire EXCEPT ![Other(s)][l] = Tail(@)]
         /\ Side(Other(s), l).wire # <<>> /\ Head(Side(Other(s), l).wire).type = type
         /\ Head(Side(Other(s), l).wire).body = Body(s, l)
  <1>1. end[s][l].phase = "Receiving"
    BY DEF Takes
  <1>2. end[s][l].state # "Ready"
    BY <1>1, ActiveEnds
  <1> QED
    BY <1>1, <1>2 DEF Takes, Side, Body

\* receive_failure
LEMMA ReceiveFailedKeeps ==
  ASSUME Sound, NEW s \in Sides, NEW l \in Links, ReceiveFailed(s, l), UNCHANGED setup
  PROVE  Sound'
  <1>1. Takes(s, l, "Failed")
    BY DEF ReceiveFailed
  <1>2. end[s][l].phase = "Receiving"
    BY <1>1 DEF Takes
  <1>3. end[s][l].state \notin {"Ready", "Established", "Failed"}
    BY <1>2, ActiveEnds
  <1>4. FailAndClose(s, l, "Remote") /\ "Remote" \in Failure \ {"Protocol"}
    BY <1>3 DEF ReceiveFailed, Failure
  <1>5. /\ wire[Other(s)][l] # <<>>
        /\ wire' = [wire EXCEPT ![Other(s)][l] = Tail(@)]
    BY <1>1 DEF Takes
  <1> QED
    BY <1>3, <1>4, <1>5, Failing

\* The side s goes on with e, and its manager has this of l: a frame of the other side
\* may have been read.
GoesOn(s, l, e, attempt, settled) ==
  LET mine == Side(s, l)
      mine2 == Side(s, l)'
      theirs == Side(Other(s), l)
      theirs2 == Side(Other(s), l)'
  IN /\ SetupShape' /\ SetupSpares(s, l) /\ EndShape' /\ EndSpares(s, l) /\ Books'
     /\ mine2.setup = mine.setup /\ mine2.wire = mine.wire
     /\ mine2.end = e /\ mine2.offer = mine.offer
     /\ settled = {} => mine2.contract = mine.contract
     /\ \A x : settled = {x} => mine2.contract = x.contract
     /\ mine2.attempt = attempt /\ mine2.settled = settled
     /\ SameButWire(theirs, theirs2)
     /\ wire' = wire => theirs2 = theirs
     /\ wire' = [wire EXCEPT ![Other(s)][l] = Tail(@)] => theirs2.wire = Tail(theirs.wire)

\* How far a step has read the stream.
Reads(s, l) ==
  \/ wire' = wire
  \/ /\ wire[Other(s)][l] # <<>>
     /\ wire' = [wire EXCEPT ![Other(s)][l] = Tail(@)]

\* A step that proceeds.
LEMMA Proceeding ==
  ASSUME Sound, NEW s \in Sides, NEW l \in Links, NEW e \in EndRecord, NEW m, NEW reserved,
         NEW attempt, NEW settled,
         ManagerMoves(manager[s], m, l, reserved, attempt, settled), Balanced(s, m),
         Proceeds(s, l, e, m), UNCHANGED setup, Reads(s, l)
  PROVE  GoesOn(s, l, e, attempt, settled)
  <1>1. SetupShape /\ EndShape /\ Books
    BY DEF Sound, Shape
  <1>2. Becomes(s, l, e, m) /\ open' \in [Links -> BOOLEAN]
    BY <1>1 DEF Proceeds, SetupShape
  <1>3. SetupShape' /\ SetupSpares(s, l) /\ ReadsAtMost(s, l)
    BY <1>1, <1>2, WireShapeStays DEF Reads
  <1>4. NowHas(s, l, e, m, attempt, settled)
    <2> HIDE DEF EndRecord
    <2> QED
      BY ONLY s \in Sides, l \in Links, e \in EndRecord, <1>1, <1>2,
              ManagerMoves(manager[s], m, l, reserved, attempt, settled), EndBecomes
  <1>5. EndShape' /\ EndSpares(s, l) /\ Books'
    BY <1>1, <1>4 DEF NowHas
  <1>6. SameButWire(Side(Other(s), l), Side(Other(s), l)')
    BY <1>3, <1>5, OthersAreSpared
  <1>7. /\ Side(s, l)'.setup = Side(s, l).setup /\ Side(s, l)'.wire = Side(s, l).wire
    BY <1>3 DEF Side, ReadsAtMost
  <1>8. wire' = wire => Side(Other(s), l)' = Side(Other(s), l)
    BY <1>3, <1>5, OtherEndStays
  <1>9. wire' = [wire EXCEPT ![Other(s)][l] = Tail(@)] =>
          Side(Other(s), l)'.wire = Tail(Side(Other(s), l).wire)
    <2> DEFINE o == Other(s)
    <2>1. o \in Sides /\ wire \in [Sides -> [Links -> Seq(AnyFrame)]]
      BY <1>1, TwoSides DEF SetupShape
    <2>2. wire' = [wire EXCEPT ![o][l] = Tail(@)] => wire'[o][l] = Tail(wire[o][l])
      <3> HIDE DEF o
      <3> QED
        BY ONLY <2>1, l \in Links
    <2> QED
      BY <2>2 DEF Side
  <1> QED
    BY ONLY <1>3, <1>4, <1>5, <1>6, <1>7, <1>8, <1>9 DEF NowHas, GoesOn

\* A step that proceeds and leaves the link right.
LEMMA ProceedsWell ==
  ASSUME Sound, NEW s \in Sides, NEW l \in Links, NEW e, NEW attempt, NEW settled,
         GoesOn(s, l, e, attempt, settled), NEW k \in AllContracts \cup {NoContract},
         LinkIs(k, s, Side(s, l)', Side(Other(s), l)')
  PROVE  Sound'
  <1>1. SetupShape' /\ SetupSpares(s, l) /\ EndShape' /\ EndSpares(s, l) /\ Books'
    BY DEF GoesOn
  <1> QED
    BY <1>1, SideSteps

\* What a side has of a link.
LEMMA SideHas ==
  ASSUME Sound, NEW s \in Sides, NEW l \in Links
  PROVE  LET mine == Side(s, l)
         IN /\ mine.setup = setup[s][l] /\ mine.wire = wire[s][l] /\ mine.end = end[s][l]
            /\ mine.offer = history[s][l].offer /\ mine.contract = history[s][l].contract
            /\ mine.attempt = At(manager[s].attempts, l)
            /\ mine.settled = At(manager[s].established, l)
            /\ mine.end \in EndRecord /\ IsManager(manager[s]) /\ Balanced(s, manager[s])
            /\ manager[s].offer_limits = OfferLimits[s]
  BY DEF Side, Sound, Shape, EndShape, Books, Balanced

\* The books after a step that trades nothing for nothing.
LEMMA BooksStay ==
  ASSUME NEW s \in Sides, NEW m, NEW n, NEW l \in Links, NEW attempt,
         IsManager(m), Balanced(s, m), At(m.attempts, l) # {}, attempt # {},
         At(m.established, l) = {},
         ManagerMoves(m, n, l, m.reserved_bytes, attempt, {})
  PROVE  Balanced(s, n)
  <1> DEFINE reserved == m.reserved_bytes
             held == Held(m, At(m.attempts, l), At(m.established, l))
  <1>1. Reservation(m) \in Nat
    BY ExchangeAssumption DEF Reservation, Balanced
  <1>2. held = Reservation(m) /\ Held(m, attempt, {}) = Reservation(m)
    BY <1>1 DEF Held, Weight
  <1>3. reserved \in Int /\ reserved <= m.limits.bytes
    <2>1. /\ IsFiniteSet(DOMAIN m.established) /\ IsFiniteSet(DOMAIN m.attempts)
          /\ \A d \in DOMAIN m.established : m.established[d].accounted_bytes \in Nat
      BY DEF Balanced
    <2>2. /\ RestOf(m, l) \in Nat /\ Weight(At(m.established, l)) \in Nat
          /\ EstablishedBytes(m) = RestOf(m, l) + Weight(At(m.established, l))
      BY ONLY <2>1, WeightSplits
    <2>3. EstablishedBytes(m) \in Nat /\ Cardinality(DOMAIN m.attempts) \in Nat
      BY <2>1, <2>2, FS_CardinalityType
    <2> QED
      BY <1>1, <2>3 DEF Balanced
  <1>4. reserved = (m.reserved_bytes - held) + Held(m, attempt, {})
    BY <1>1, <1>2, <1>3
  <1> HIDE DEF reserved, held
  <1>5. ManagerMoves(m, n, l, reserved, attempt, {})
    BY DEF reserved
  <1>6. \A x \in {} : x.accounted_bytes \in Nat
    OBVIOUS
  <1> QED
    BY <1>3, <1>4, <1>5, <1>6, BooksMove DEF held

\* select_authority, with propose_authority
LEMMA SelectAuthorityKeeps ==
  ASSUME Sound, NEW l \in Links, SelectAuthority(l)
  PROVE  Sound'
  <1> DEFINE s == Authority
             mine == Side(s, l)
             mine2 == Side(s, l)'
             theirs == Side(Other(s), l)
             theirs2 == Side(Other(s), l)'
             m == manager[s]
             old == end[s][l]
             first == mine.offer
             second == theirs.offer
  <1>1. /\ Shape /\ LinksAreSound /\ SetupShape /\ EndShape /\ Books /\ s \in Sides
        /\ First(s, mine, theirs) = mine /\ Second(s, mine, theirs) = theirs
    BY TwoSides DEF Sound, Shape, First, Second
  <1>2. PICK k \in AllContracts \cup {NoContract} : LinkIs(k, s, mine, theirs)
    BY <1>1, SoundAt
  <1>3. IsTyped(mine)
    BY <1>1, SoundAt
  <1>4. /\ mine.end = old /\ mine.attempt = At(m.attempts, l)
        /\ mine.settled = At(m.established, l) /\ old \in EndRecord /\ IsManager(m)
        /\ Balanced(s, m) /\ m.offer_limits = OfferLimits[s]
    BY <1>1, SideHas
  <1>5. old.phase = "Selecting" /\ UNCHANGED <<wire, setup>>
    BY DEF SelectAuthority
  <1>6. old.state = "AwaitingAuthoritySelection"
    <2>1. IsStage(s, mine.end.state, mine.end.phase)
      BY <1>2 DEF LinkIs, SideIs, EndIs
    <2>2. mine.end.phase = "Selecting" /\ mine.end.state = old.state
      BY <1>4, <1>5
    <2> HIDE DEF mine, old
    <2> QED
      BY <2>1, <2>2 DEF IsStage
  <1>7. At(m.attempts, l) = {NewAttempt(first, second)} /\ At(m.established, l) = {}
    <2>1. EndIs(k, s, mine, theirs)
      BY <1>2 DEF LinkIs, SideIs
    <2> HIDE DEF mine, theirs, m, old
    <2> QED
      BY <1>1, <1>4, <1>6, <2>1 DEF EndIs, AttemptIn, SettledIn
  <1>8. l \in DOMAIN m.attempts /\ m.attempts[l] = NewAttempt(first, second)
    BY <1>7 DEF At
  <1>9. AwaitsProposal(m, l)
    <2> HIDE DEF m, first, second
    <2> QED
      BY <1>8 DEF AwaitsProposal, NewAttempt
  <1>10. PICK contract \in Contracts[l] :
           IF CanPropose(m, l, contract, Requirements[s])
                /\ ProposalBodyBytes(contract) <= FrameLimit(s, l)
           THEN Proceeds(s, l, Sends(old, "AwaitingValidated", Frame("Proposal", contract)),
                         ValidateAuthority(Propose(m, l, contract), l))
           ELSE FailLocal(s, l)
    BY <1>9 DEF SelectAuthority
  <1>11. contract \in AllContracts
    BY DEF AllContracts
  <1>12. CASE ~(CanPropose(m, l, contract, Requirements[s])
                  /\ ProposalBodyBytes(contract) <= FrameLimit(s, l))
    <2>1. FailLocal(s, l)
      BY <1>10, <1>12
    <2>2. end[s][l].state # "Ready"
      BY <1>6
    <2> QED
      BY <1>1, <1>5, <2>1, <2>2, Failing
  <1>13. CASE CanPropose(m, l, contract, Requirements[s])
                /\ ProposalBodyBytes(contract) <= FrameLimit(s, l)
    <2> DEFINE n == ValidateAuthority(Propose(m, l, contract), l)
               f == Frame("Proposal", contract)
               new == Sends(old, "AwaitingValidated", f)
               attempt == {ProposedAttempt(contract, first, second)}
    <2>1. Proceeds(s, l, new, n)
      BY <1>10, <1>13
    <2>2. new = [phase |-> "Sending", state |-> "AwaitingValidated", offer |-> old.offer,
                 owned |-> old.owned, frame |-> f, failure |-> old.failure]
      <3> HIDE DEF f, EndRecord, old
      <3> QED
        BY <1>4, SendsIs
    <2>3. new \in EndRecord
      <3> HIDE DEF AllOffers, AllContracts, old, new, NoFrame
      <3>1. f \in [type : FrameType, body : {NoBody} \cup AllOffers \cup AllContracts]
        BY <1>11 DEF Frame, FrameType
      <3> HIDE DEF f
      <3> QED
        BY <1>4, <2>2, <3>1 DEF EndRecord, Phase, NegotiationState
    <2>4. ManagerMoves(m, n, l, m.reserved_bytes, attempt, {})
      <3>1. IsManager(m) /\ At(m.attempts, l) = {NewAttempt(first, second)}
        BY <1>4, <1>7
      <3> HIDE DEF m, first, second, n, attempt
      <3>2. ManagerMoves(m, ValidateAuthority(Propose(m, l, contract), l), l,
                         m.reserved_bytes, {ProposedAttempt(contract, first, second)},
                         At(m.established, l))
        BY ONLY l \in Links, <1>11, <3>1, ProposeMoves
      <3> QED
        BY ONLY <1>7, <3>2 DEF n, attempt
    <2>5. Balanced(s, n)
      <3>1. At(m.attempts, l) # {} /\ attempt # {}
        BY <1>7
      <3> HIDE DEF m, n, attempt
      <3> QED
        BY <1>1, <1>4, <1>7, <2>4, <3>1, BooksStay
    <2>6. GoesOn(s, l, new, attempt, {})
      <3>1. ManagerMoves(manager[s], n, l, m.reserved_bytes, attempt, {})
        BY <2>4
      <3>2. Reads(s, l) /\ UNCHANGED setup
        BY <1>5 DEF Reads
      <3> HIDE DEF n, attempt, new, m, s, EndRecord
      <3> QED
        BY <1>1, <2>1, <2>3, <2>5, <3>1, <3>2, Proceeding
    <2>7. CanRead(theirs, ProposalBodyBytes(contract))
      <3>1. ProposalBodyBytes(contract) \in Nat
        BY <1>11, LengthsAreNat
      <3>2. setup[s][l].peer # NoSettings
        BY <1>1, <1>6, SettingsAreKnown
      <3> QED
        BY <1>1, <1>2, <1>13, <3>1, <3>2, FrameCanBeRead
    <2>8. /\ SelectsOnlyCommon(contract, first, second)
          /\ SelectsAllRequired(contract, first, second)
          /\ SelectsHostRequired(contract, Requirements[s])
          /\ ContractWithinLimits(contract, OfferLimits[s])
      <3>1. IsValidSelection(NewAttempt(first, second), contract, Requirements[s],
                             OfferLimits[s])
        <4> HIDE DEF m, first, second
        <4> QED
          BY <1>4, <1>8, <1>13 DEF CanPropose
      <3> HIDE DEF first, second
      <3> QED
        BY <3>1 DEF IsValidSelection, NewAttempt
    <2>9. LinkIs(contract, s, mine2, theirs)
      <3>1. /\ mine2.setup = mine.setup /\ mine2.wire = mine.wire
            /\ mine2.end = [phase |-> "Sending", state |-> "AwaitingValidated",
                            offer |-> mine.end.offer, owned |-> mine.end.owned,
                            frame |-> Frame("Proposal", contract),
                            failure |-> mine.end.failure]
            /\ mine2.offer = mine.offer /\ mine2.contract = mine.contract
            /\ mine2.attempt = {ProposedAttempt(contract, mine.offer, theirs.offer)}
            /\ mine2.settled = mine.settled
        <4>1. /\ mine2.setup = mine.setup /\ mine2.wire = mine.wire
              /\ mine2.end = new
              /\ mine2.offer = mine.offer /\ mine2.contract = mine.contract
              /\ mine2.attempt = attempt
              /\ mine2.settled = {}
          BY <2>6 DEF GoesOn
        <4> HIDE DEF mine, mine2, theirs, new, old, m
        <4> QED
          BY <1>4, <1>7, <2>2, <4>1
      <3>2. mine.end.phase = "Selecting"
        BY <1>4, <1>5
      <3>3. LinkIs(k, Authority, mine, theirs) /\ IsTyped(mine)
        BY <1>2, <1>3
      <3>4. /\ SelectsOnlyCommon(contract, mine.offer, theirs.offer)
            /\ SelectsAllRequired(contract, mine.offer, theirs.offer)
            /\ SelectsHostRequired(contract, Requirements[Authority])
            /\ ContractWithinLimits(contract, OfferLimits[Authority])
        BY <2>8
      <3>5. CanRead(theirs, ProposalBodyBytes(contract))
        BY <2>7
      <3> HIDE DEF mine, mine2, theirs
      <3>6. LinkIs(contract, Authority, mine2, theirs)
        BY ONLY <1>11, <3>1, <3>2, <3>3, <3>4, <3>5, LinkProposes
      <3> QED
        BY <3>6
    <2>10. LinkIs(contract, s, Side(s, l)', Side(Other(s), l)')
      <3>1. theirs2 = theirs
        BY <1>5, <2>6 DEF GoesOn
      <3> QED
        BY <2>9, <3>1
    <2> HIDE DEF new, attempt, mine, mine2, theirs, theirs2
    <2> QED
      BY <1>1, <1>11, <2>6, <2>10, ProceedsWell
  <1> QED
    BY <1>12, <1>13

\* What is not read too long, said of the bound of the side.
LEMMA LongFramesDoNotCome ==
  ASSUME NEW s \in Sides, NEW l \in Links, NEW n, CanRead(Side(s, l), n)
  PROVE  ~IsTooLong(s, l, n)
  BY DEF CanRead, IsTooLong, MayRead, Side

\* The books after a start.
LEMMA BooksStart ==
  ASSUME NEW s \in Sides, NEW m, NEW l \in Links, NEW first \in AllOffers,
         NEW second \in AllOffers, IsManager(m), Balanced(s, m),
         At(m.attempts, l) = {}, At(m.established, l) = {}, CanStart(m, l, first, second)
  PROVE  /\ ManagerMoves(m, Start(m, l, first, second), l,
                         m.reserved_bytes + Reservation(m), {NewAttempt(first, second)}, {})
         /\ Balanced(s, Start(m, l, first, second))
  <1> DEFINE attempt == {NewAttempt(first, second)}
             reserved == m.reserved_bytes + Reservation(m)
             n == Start(m, l, first, second)
             held == Held(m, At(m.attempts, l), At(m.established, l))
  <1>1. ManagerMoves(m, n, l, reserved, attempt, {})
    <2>1. ManagerMoves(m, n, l, reserved, attempt, At(m.established, l))
      BY ONLY IsManager(m), l \in Links, first \in AllOffers, second \in AllOffers, StartMoves
    <2> HIDE DEF n, reserved, attempt
    <2> QED
      BY <2>1
  <1>2. Reservation(m) \in Nat
    BY ExchangeAssumption DEF Reservation, Balanced
  <1>3. held = 0 /\ Held(m, attempt, {}) = Reservation(m)
    BY <1>2 DEF Held, Weight
  <1>4. m.reserved_bytes \in Int
    <2>1. /\ IsFiniteSet(DOMAIN m.established) /\ IsFiniteSet(DOMAIN m.attempts)
          /\ \A d \in DOMAIN m.established : m.established[d].accounted_bytes \in Nat
      BY DEF Balanced
    <2>2. /\ RestOf(m, l) \in Nat /\ Weight(At(m.established, l)) \in Nat
          /\ EstablishedBytes(m) = RestOf(m, l) + Weight(At(m.established, l))
      BY ONLY <2>1, WeightSplits
    <2>3. EstablishedBytes(m) \in Nat /\ Cardinality(DOMAIN m.attempts) \in Nat
      BY <2>1, <2>2, FS_CardinalityType
    <2> QED
      BY <1>2, <2>3 DEF Balanced
  <1>5. reserved = (m.reserved_bytes - held) + Held(m, attempt, {})
    BY <1>2, <1>3, <1>4
  <1>6. /\ reserved <= m.limits.bytes
        /\ Cardinality(DOMAIN m.attempts) < m.limits.attempts
    BY DEF CanStart
  <1>7. \A x \in {} : x.accounted_bytes \in Nat
    OBVIOUS
  <1>8. Balanced(s, n)
    <2> HIDE DEF reserved, held, n, attempt
    <2> QED
      BY <1>1, <1>5, <1>6, <1>7, BooksMove DEF held
  <1> QED
    BY <1>1, <1>8

\* receive_offer
LEMMA ReceiveOfferKeeps ==
  ASSUME Sound, NEW s \in Sides, NEW l \in Links, ReceiveOffer(s, l), UNCHANGED setup
  PROVE  Sound'
  <1> DEFINE mine == Side(s, l)
             mine2 == Side(s, l)'
             theirs == Side(Other(s), l)
             theirs2 == Side(Other(s), l)'
             m == manager[s]
             old == end[s][l]
             first == First(s, mine, theirs).offer
             second == Second(s, mine, theirs).offer
             phase == IF s = Authority THEN "Selecting" ELSE "Receiving"
             state == IF s = Authority THEN "AwaitingAuthoritySelection" ELSE "AwaitingProposal"
             new == [Waits(old, phase, state) EXCEPT !.offer = NoOffer, !.owned = TRUE]
  <1>1. Shape /\ LinksAreSound
    BY DEF Sound
  <1>2. PICK k \in AllContracts \cup {NoContract} : LinkIs(k, s, mine, theirs)
    BY <1>1, SoundAt
  <1>3. IsTyped(theirs)
    BY <1>1, SoundAt
  <1>4. Takes(s, l, "Offer")
    BY DEF ReceiveOffer
  <1>5. /\ old.state # "Ready" /\ mine.end = old /\ mine.end.phase = "Receiving"
        /\ wire[Other(s)][l] # <<>>
        /\ wire' = [wire EXCEPT ![Other(s)][l] = Tail(@)]
        /\ theirs.wire # <<>> /\ Head(theirs.wire).type = "Offer"
        /\ Head(theirs.wire).body = Body(s, l)
    BY <1>4, TakenIs
  <1>6. /\ mine.end.state = "AwaitingPeerOffer"
        /\ mine.end.offer = mine.offer /\ mine.offer \in AllOffers
        /\ Body(s, l) = theirs.offer /\ theirs.offer \in AllOffers
        /\ CanRead(mine, OfferBodyBytes(theirs.offer))
        /\ mine.attempt = {} /\ mine.settled = {}
    <2> HIDE DEF mine, theirs
    <2> QED
      BY <1>2, <1>3, <1>5, OfferIsDue
  <1>7. /\ mine.attempt = At(m.attempts, l)
        /\ mine.settled = At(m.established, l) /\ old \in EndRecord /\ IsManager(m)
        /\ Balanced(s, m)
    BY SideHas
  <1>8. ~IsTooLong(s, l, OfferBodyBytes(Body(s, l)))
    BY <1>6, LongFramesDoNotCome
  <1>9. old.state = "AwaitingPeerOffer" /\ old.offer = mine.offer /\ old.offer # NoOffer
    BY <1>5, <1>6, ExchangeAssumption
  <1>10. At(m.attempts, l) = {} /\ At(m.established, l) = {}
    BY <1>6, <1>7
  <1>11. ~IsKnown(m, l)
    BY <1>10 DEF IsKnown, At
  <1>12. /\ first \in AllOffers /\ second \in AllOffers
         /\ first = IF s = Authority THEN old.offer ELSE Body(s, l)
         /\ second = IF s = Authority THEN Body(s, l) ELSE old.offer
    BY <1>6, <1>9 DEF First, Second
  <1>13. \/ FailLocal(s, l)
         \/ /\ CanStart(m, l, first, second)
            /\ Proceeds(s, l, new, Start(m, l, first, second))
    BY <1>8, <1>9, <1>11, <1>12 DEF ReceiveOffer
  <1>14. CASE FailLocal(s, l)
    BY <1>5, <1>14, Failing
  <1>15. CASE CanStart(m, l, first, second) /\ Proceeds(s, l, new, Start(m, l, first, second))
    <2> DEFINE n == Start(m, l, first, second)
               attempt == {NewAttempt(first, second)}
    <2>1. /\ ManagerMoves(m, n, l, m.reserved_bytes + Reservation(m), attempt, {})
          /\ Balanced(s, n)
      <3> HIDE DEF first, second, m
      <3>1. CanStart(m, l, first, second)
        BY <1>15
      <3> QED
        BY ONLY s \in Sides, l \in Links, <1>7, <1>10, <1>12, <3>1, BooksStart
    <2>2. new = [phase |-> phase, state |-> state, offer |-> NoOffer, owned |-> TRUE,
                 frame |-> old.frame, failure |-> old.failure]
      <3> DEFINE a == Waits(old, phase, state)
                 b == [a EXCEPT !.offer = NoOffer]
                 c == [b EXCEPT !.owned = TRUE]
      <3> HIDE DEF old, phase, state, EndRecord
      <3>1. a = [phase |-> phase, state |-> state, offer |-> old.offer, owned |-> old.owned,
                 frame |-> old.frame, failure |-> old.failure]
        BY <1>7, WaitsIs
      <3> HIDE DEF a
      <3>2. IsEnd(a, phase, state, old.offer, old.owned, old.frame, old.failure)
        BY ONLY <3>1 DEF IsEnd
      <3>3. IsEnd(b, phase, state, NoOffer, old.owned, old.frame, old.failure)
        BY ONLY <3>2 DEF IsEnd
      <3> HIDE DEF b
      <3>4. IsEnd(c, phase, state, NoOffer, TRUE, old.frame, old.failure)
        BY ONLY <3>3 DEF IsEnd
      <3> HIDE DEF c
      <3>5. c = [phase |-> phase, state |-> state, offer |-> NoOffer, owned |-> TRUE,
                 frame |-> old.frame, failure |-> old.failure]
        BY ONLY <3>4 DEF IsEnd
      <3> QED
        BY <3>5 DEF a, b, c
    <2>3. new \in EndRecord
      <3> HIDE DEF AllOffers, AllContracts, old, new, NoFrame
      <3> QED
        BY <1>7, <2>2 DEF EndRecord, Phase, NegotiationState
    <2>4. GoesOn(s, l, new, attempt, {})
      <3>1. ManagerMoves(manager[s], n, l, m.reserved_bytes + Reservation(m), attempt, {})
        BY <2>1
      <3>2. Reads(s, l) /\ UNCHANGED setup /\ Proceeds(s, l, new, n)
        BY <1>5, <1>15 DEF Reads
      <3> HIDE DEF n, attempt, new, m, EndRecord
      <3> QED
        BY <2>1, <2>3, <3>1, <3>2, Proceeding
    <2>5. LinkIs(k, s, mine2, theirs2)
      <3>1. /\ mine2.setup = mine.setup /\ mine2.wire = mine.wire /\ mine2.end = new
            /\ mine2.offer = mine.offer /\ mine2.contract = mine.contract
            /\ mine2.attempt = attempt /\ mine2.settled = {}
            /\ SameButWire(theirs, theirs2) /\ theirs2.wire = Tail(theirs.wire)
        BY <1>5, <2>4 DEF GoesOn
      <3> HIDE DEF mine, mine2, theirs, theirs2, new, old, m
      <3>2. /\ mine2.end = [phase |-> IF s = Authority THEN "Selecting" ELSE "Receiving",
                            state |-> IF s = Authority THEN "AwaitingAuthoritySelection"
                                      ELSE "AwaitingProposal",
                            offer |-> NoOffer, owned |-> TRUE, frame |-> mine.end.frame,
                            failure |-> mine.end.failure]
            /\ mine2.settled = mine.settled
            /\ mine2.attempt = {NewAttempt(First(s, mine, theirs).offer,
                                           Second(s, mine, theirs).offer)}
        BY <1>5, <1>6, <2>2, <3>1
      <3> QED
        BY ONLY s \in Sides, <1>2, <1>3, <1>5, <3>1, <3>2, LinkStarts
    <2> HIDE DEF new, attempt, mine, mine2, theirs, theirs2
    <2>6. LinkIs(k, s, Side(s, l)', Side(Other(s), l)')
      BY <2>5 DEF mine2, theirs2
    <2> QED
      BY <2>4, <2>6, ProceedsWell
  <1> QED
    BY <1>13, <1>14, <1>15

\* receive_proposal
LEMMA ReceiveProposalKeeps ==
  ASSUME Sound, NEW s \in Sides, NEW l \in Links, ReceiveProposal(s, l), UNCHANGED setup
  PROVE  Sound'
  <1> DEFINE mine == Side(s, l)
             mine2 == Side(s, l)'
             theirs == Side(Other(s), l)
             theirs2 == Side(Other(s), l)'
             m == manager[s]
             old == end[s][l]
             first == theirs.offer
             second == mine.offer
             f == Frame("Validated", NoBody)
             new == Sends(old, "AwaitingEstablished", f)
  <1>1. Shape /\ LinksAreSound
    BY DEF Sound
  <1>2. PICK k \in AllContracts \cup {NoContract} : LinkIs(k, s, mine, theirs)
    BY <1>1, SoundAt
  <1>3. IsTyped(theirs)
    BY <1>1, SoundAt
  <1>4. Takes(s, l, "Proposal")
    BY DEF ReceiveProposal
  <1>5. /\ old.state # "Ready" /\ mine.end = old /\ mine.end.phase = "Receiving"
        /\ wire[Other(s)][l] # <<>>
        /\ wire' = [wire EXCEPT ![Other(s)][l] = Tail(@)]
        /\ theirs.wire # <<>> /\ Head(theirs.wire).type = "Proposal"
        /\ Head(theirs.wire).body = Body(s, l)
    BY <1>4, TakenIs
  <1>6. /\ s = NonAuthority /\ mine.end.state = "AwaitingProposal"
        /\ Body(s, l) = k /\ k \in AllContracts
        /\ CanRead(mine, ProposalBodyBytes(k))
        /\ mine.attempt = {NewAttempt(first, second)} /\ mine.settled = {}
    <2> HIDE DEF mine, theirs
    <2> QED
      BY <1>2, <1>3, <1>5, ProposalIsDue
  <1>7. /\ mine.attempt = At(m.attempts, l)
        /\ mine.settled = At(m.established, l) /\ old \in EndRecord /\ IsManager(m)
        /\ Balanced(s, m) /\ m.offer_limits = OfferLimits[s]
    BY SideHas
  <1>8. ~IsTooLong(s, l, ProposalBodyBytes(k))
    BY <1>6, LongFramesDoNotCome
  <1>9. old.state = "AwaitingProposal"
    BY <1>5, <1>6
  <1>10. At(m.attempts, l) = {NewAttempt(first, second)} /\ At(m.established, l) = {}
    BY <1>6, <1>7
  <1>11. /\ l \in DOMAIN m.attempts /\ m.attempts[l] = NewAttempt(first, second)
         /\ l \notin DOMAIN m.established
    BY <1>10 DEF At
  <1>12. AwaitsProposal(m, l)
    <2> HIDE DEF m, first, second
    <2> QED
      BY <1>11 DEF AwaitsProposal, NewAttempt
  <1> DEFINE n == ValidatePeer(Propose(m, l, k), l)
             attempt == {ValidatedAttempt(k, first, second)}
  <1>13. /\ ManagerMoves(m, n, l, m.reserved_bytes, attempt, {})
         /\ n.established = m.established
    <2>1. IsManager(m) /\ At(m.attempts, l) = {NewAttempt(first, second)}
      BY <1>7, <1>10
    <2> HIDE DEF m, first, second, n, attempt
    <2>2. k \in AllContracts
      BY <1>6
    <2>3. ManagerMoves(m, ValidatePeer(Propose(m, l, k), l), l, m.reserved_bytes,
                       {ValidatedAttempt(k, first, second)}, At(m.established, l))
      BY ONLY l \in Links, <2>1, <2>2, ProposeMoves
    <2>4. ValidatePeer(Propose(m, l, k), l).established = m.established
      BY ONLY l \in Links, <2>1, <2>2, ProposeMoves
    <2> QED
      BY ONLY <1>10, <2>3, <2>4 DEF n, attempt
  <1>14. l \notin DOMAIN n.established
    BY <1>11, <1>13
  <1>15. \/ FailLocal(s, l)
         \/ /\ CanPropose(m, l, k, Requirements[s])
            /\ Proceeds(s, l, new, n)
    <2> HIDE DEF FailLocal, FailAndClose, Proceeds, CanPropose
    <2> QED
      BY <1>6, <1>8, <1>9, <1>12, <1>14 DEF ReceiveProposal
  <1>16. CASE FailLocal(s, l)
    BY <1>5, <1>16, Failing
  <1>17. CASE CanPropose(m, l, k, Requirements[s]) /\ Proceeds(s, l, new, n)
    <2>1. Balanced(s, n)
      <3>1. At(m.attempts, l) # {} /\ attempt # {}
        BY <1>10
      <3> HIDE DEF m, n, attempt
      <3> QED
        BY <1>7, <1>10, <1>13, <3>1, BooksStay
    <2>2. new = [phase |-> "Sending", state |-> "AwaitingEstablished", offer |-> old.offer,
                 owned |-> old.owned, frame |-> f, failure |-> old.failure]
      <3> HIDE DEF f, EndRecord, old
      <3> QED
        BY <1>7, SendsIs
    <2>3. new \in EndRecord
      <3> HIDE DEF AllOffers, AllContracts, old, new, NoFrame
      <3>1. f \in [type : FrameType, body : {NoBody} \cup AllOffers \cup AllContracts]
        BY DEF Frame, FrameType
      <3> HIDE DEF f
      <3> QED
        BY <1>7, <2>2, <3>1 DEF EndRecord, Phase, NegotiationState
    <2>4. GoesOn(s, l, new, attempt, {})
      <3>1. ManagerMoves(manager[s], n, l, m.reserved_bytes, attempt, {})
        BY <1>13
      <3>2. Reads(s, l) /\ UNCHANGED setup /\ Proceeds(s, l, new, n)
        BY <1>5, <1>17 DEF Reads
      <3> HIDE DEF n, attempt, new, m, EndRecord
      <3> QED
        BY <2>1, <2>3, <3>1, <3>2, Proceeding
    <2>5. Validated(k) /\ ContractWithinLimits(k, OfferLimits[s])
      <3>1. IsValidSelection(m.attempts[l], k, Requirements[s], OfferLimits[s])
        BY <1>7, <1>17 DEF CanPropose
      <3> HIDE DEF m
      <3> QED
        BY <1>6, <3>1 DEF IsValidSelection, Validated
    <2>6. LinkIs(k, s, mine2, theirs2)
      <3>1. /\ mine2.setup = mine.setup /\ mine2.wire = mine.wire /\ mine2.end = new
            /\ mine2.offer = mine.offer /\ mine2.contract = mine.contract
            /\ mine2.attempt = attempt /\ mine2.settled = {}
            /\ SameButWire(theirs, theirs2) /\ theirs2.wire = Tail(theirs.wire)
        BY <1>5, <2>4 DEF GoesOn
      <3> HIDE DEF mine, mine2, theirs, theirs2, new, old, m
      <3>2. /\ mine2.end = [phase |-> "Sending", state |-> "AwaitingEstablished",
                            offer |-> mine.end.offer, owned |-> mine.end.owned,
                            frame |-> Frame("Validated", NoBody),
                            failure |-> mine.end.failure]
            /\ mine2.settled = mine.settled
            /\ mine2.attempt = {ValidatedAttempt(k, theirs.offer, mine.offer)}
        BY <1>5, <1>6, <2>2, <3>1
      <3> QED
        BY ONLY s \in Sides, <1>2, <1>3, <1>5, <2>5, <3>1, <3>2, LinkValidates
    <2> HIDE DEF new, attempt, mine, mine2, theirs, theirs2
    <2>7. LinkIs(k, s, Side(s, l)', Side(Other(s), l)')
      BY <2>6 DEF mine2, theirs2
    <2> QED
      BY <2>4, <2>7, ProceedsWell
  <1> QED
    BY <1>15, <1>16, <1>17

\* The books after a promotion: a contract weighs no more than the attempt reserved.
LEMMA BooksEstablish ==
  ASSUME NEW s \in Sides, NEW m, NEW n, NEW l \in Links, NEW k \in AllContracts,
         IsManager(m), Balanced(s, m), At(m.attempts, l) # {}, At(m.established, l) = {},
         ContractWithinLimits(k, OfferLimits[s]),
         ManagerMoves(m, n, l, (m.reserved_bytes - Reservation(m)) + ContractBytes(k), {},
                      {[contract |-> k, accounted_bytes |-> ContractBytes(k)]})
  PROVE  Balanced(s, n)
  <1> DEFINE bytes == ContractBytes(k)
             settled == {[contract |-> k, accounted_bytes |-> bytes]}
             reserved == (m.reserved_bytes - Reservation(m)) + bytes
             held == Held(m, At(m.attempts, l), At(m.established, l))
  <1>1. /\ bytes \in Nat /\ bytes <= OfferLimits[s].bytes /\ OfferLimits[s].bytes \in Nat
        /\ m.offer_limits = OfferLimits[s] /\ m.limits.bytes \in Nat
    BY LengthsAreNat, ExchangeAssumption DEF ContractWithinLimits, Balanced
  <1>2. Reservation(m) \in Nat /\ bytes <= Reservation(m)
    <2> HIDE DEF bytes
    <2> QED
      BY <1>1 DEF Reservation
  <1>3. held = Reservation(m) /\ Held(m, {}, settled) = bytes
    <2>1. Weight(settled) = bytes
      <3> DEFINE x == [contract |-> k, accounted_bytes |-> bytes]
      <3>1. x.accounted_bytes = bytes
        OBVIOUS
      <3> HIDE DEF x, bytes
      <3>2. Weight({x}) = x.accounted_bytes
        BY DEF Weight
      <3> QED
        BY <3>1, <3>2 DEF x
    <2>2. Weight({}) = 0
      BY DEF Weight
    <2> HIDE DEF bytes, settled
    <2> QED
      BY <1>1, <1>2, <2>1, <2>2 DEF Held
  <1>4. m.reserved_bytes \in Int /\ m.reserved_bytes <= m.limits.bytes
    <2>1. /\ IsFiniteSet(DOMAIN m.established) /\ IsFiniteSet(DOMAIN m.attempts)
          /\ \A d \in DOMAIN m.established : m.established[d].accounted_bytes \in Nat
      BY DEF Balanced
    <2>2. /\ RestOf(m, l) \in Nat /\ Weight(At(m.established, l)) \in Nat
          /\ EstablishedBytes(m) = RestOf(m, l) + Weight(At(m.established, l))
      BY ONLY <2>1, WeightSplits
    <2>3. EstablishedBytes(m) \in Nat /\ Cardinality(DOMAIN m.attempts) \in Nat
      BY <2>1, <2>2, FS_CardinalityType
    <2> QED
      BY <1>2, <2>3 DEF Balanced
  <1>5. \A x \in settled : x.accounted_bytes \in Nat
    BY <1>1
  <1> HIDE DEF bytes, settled
  <1>6. reserved = (m.reserved_bytes - held) + Held(m, {}, settled)
    BY <1>3
  <1>7. reserved <= m.limits.bytes
    BY <1>1, <1>2, <1>4
  <1>8. ManagerMoves(m, n, l, reserved, {}, settled)
    BY DEF settled, bytes
  <1> HIDE DEF reserved, held
  <1> QED
    BY <1>5, <1>6, <1>7, <1>8, BooksMove DEF held

\* A party of the link l has validated what the other had: the link is settled.
SettlesOn(s, l, k, n) ==
  LET m == manager[s]
      reserved == (m.reserved_bytes - Reservation(m)) + ContractBytes(k)
  IN ManagerMoves(m, n, l, reserved, {},
                  {[contract |-> k, accounted_bytes |-> ContractBytes(k)]})

\* A settled link is in the manager.
LEMMA SettledIsKnown ==
  ASSUME NEW s, NEW l, NEW k, NEW n, SettlesOn(s, l, k, n)
  PROVE  l \in DOMAIN n.established
  <1> DEFINE x == [contract |-> k, accounted_bytes |-> ContractBytes(k)]
  <1> HIDE DEF x
  <1>1. At(n.established, l) = {x}
    BY DEF SettlesOn, ManagerMoves, x
  <1> QED
    BY <1>1 DEF At

\* What the end of a settling step is.
LEMMA Settling ==
  ASSUME Sound, NEW s \in Sides, NEW l \in Links, NEW k \in AllContracts, NEW n,
         NEW e \in EndRecord, At(manager[s].attempts, l) # {},
         At(manager[s].established, l) = {},
         ContractWithinLimits(k, OfferLimits[s]), SettlesOn(s, l, k, n),
         Proceeds(s, l, e, n), UNCHANGED setup, Reads(s, l)
  PROVE  GoesOn(s, l, e, {}, {[contract |-> k, accounted_bytes |-> ContractBytes(k)]})
  <1> DEFINE m == manager[s]
             reserved == (m.reserved_bytes - Reservation(m)) + ContractBytes(k)
             settled == {[contract |-> k, accounted_bytes |-> ContractBytes(k)]}
  <1>1. IsManager(m) /\ Balanced(s, m)
    BY SideHas
  <1>2. ManagerMoves(m, n, l, reserved, {}, settled)
    BY DEF SettlesOn
  <1>3. Balanced(s, n)
    <2>1. At(m.attempts, l) # {} /\ At(m.established, l) = {}
      OBVIOUS
    <2> HIDE DEF m
    <2> QED
      BY ONLY s \in Sides, l \in Links, k \in AllContracts, <1>1, <1>2, <2>1,
              ContractWithinLimits(k, OfferLimits[s]), BooksEstablish
  <1> HIDE DEF reserved, settled, EndRecord
  <1>4. GoesOn(s, l, e, {}, settled)
    BY <1>2, <1>3, Proceeding
  <1> QED
    BY <1>4 DEF settled

\* receive_validated
LEMMA ReceiveValidatedKeeps ==
  ASSUME Sound, NEW s \in Sides, NEW l \in Links, ReceiveValidated(s, l), UNCHANGED setup
  PROVE  Sound'
  <1> DEFINE mine == Side(s, l)
             mine2 == Side(s, l)'
             theirs == Side(Other(s), l)
             theirs2 == Side(Other(s), l)'
             m == manager[s]
             old == end[s][l]
             f == Frame("Established", NoBody)
             new == Sends(old, "Established", f)
             n == ValidatePeer(m, l)
  <1>1. Shape /\ LinksAreSound
    BY DEF Sound
  <1>2. PICK k \in AllContracts \cup {NoContract} : LinkIs(k, s, mine, theirs)
    BY <1>1, SoundAt
  <1> DEFINE settled == {[contract |-> k, accounted_bytes |-> ContractBytes(k)]}
             attempt == ProposedAttempt(k, mine.offer, theirs.offer)
  <1>3. IsTyped(theirs)
    BY <1>1, SoundAt
  <1>4. Takes(s, l, "Validated")
    BY DEF ReceiveValidated
  <1>5. /\ mine.end = old /\ mine.end.phase = "Receiving"
        /\ wire[Other(s)][l] # <<>>
        /\ wire' = [wire EXCEPT ![Other(s)][l] = Tail(@)]
        /\ theirs.wire # <<>> /\ Head(theirs.wire).type = "Validated"
    BY <1>4, TakenIs
  <1>6. /\ s = Authority /\ mine.end.state = "AwaitingValidated" /\ k \in AllContracts
        /\ ContractWithinLimits(k, OfferLimits[s])
        /\ mine.attempt = {attempt} /\ mine.settled = {}
    <2> HIDE DEF mine, theirs
    <2> QED
      BY <1>2, <1>3, <1>5, ValidatedIsDue
  <1>7. /\ mine.attempt = At(m.attempts, l) /\ mine.settled = At(m.established, l)
        /\ old \in EndRecord /\ IsManager(m)
    BY SideHas
  <1>8. At(m.attempts, l) = {attempt} /\ At(m.established, l) = {}
    BY <1>6, <1>7
  <1>9. CanValidate(m, l)
    <2>1. l \in DOMAIN m.attempts /\ m.attempts[l] = attempt
      BY <1>8 DEF At
    <2>2. attempt.proposal = k
      BY DEF ProposedAttempt, NewAttempt
    <2>3. k # NoContract
      BY <1>6, ExchangeAssumption
    <2> HIDE DEF m, attempt
    <2> QED
      BY <2>1, <2>2, <2>3 DEF CanValidate
  <1>10. SettlesOn(s, l, k, n)
    <2> DEFINE first == mine.offer
               second == theirs.offer
    <2>1. IsManager(m) /\ At(m.attempts, l) = {ProposedAttempt(k, first, second)}
      BY <1>7, <1>8
    <2>2. k \in AllContracts
      BY <1>6
    <2> HIDE DEF m, first, second
    <2>3. ManagerMoves(m, ValidatePeer(m, l), l,
                       (m.reserved_bytes - Reservation(m)) + ContractBytes(k), {},
                       {[contract |-> k, accounted_bytes |-> ContractBytes(k)]})
      BY ONLY l \in Links, <2>1, <2>2, ValidateMoves
    <2> QED
      BY ONLY <2>3 DEF SettlesOn, m
  <1>11. l \in DOMAIN n.established
    <2> HIDE DEF n
    <2> QED
      BY <1>10, SettledIsKnown
  <1>12. Proceeds(s, l, new, n)
    <2>1. old.state = "AwaitingValidated"
      BY <1>5, <1>6
    <2> HIDE DEF FailAndClose, Proceeds, CanValidate
    <2> QED
      BY <1>9, <1>11, <2>1 DEF ReceiveValidated
  <1>13. new = [phase |-> "Sending", state |-> "Established", offer |-> old.offer,
                owned |-> old.owned, frame |-> f, failure |-> old.failure]
    <2> HIDE DEF f, EndRecord, old
    <2> QED
      BY <1>7, SendsIs
  <1>14. new \in EndRecord
    <2> HIDE DEF AllOffers, AllContracts, old, new, NoFrame
    <2>1. f \in [type : FrameType, body : {NoBody} \cup AllOffers \cup AllContracts]
      BY DEF Frame, FrameType
    <2> HIDE DEF f
    <2> QED
      BY <1>7, <1>13, <2>1 DEF EndRecord, Phase, NegotiationState
  <1>15. GoesOn(s, l, new, {}, settled)
    <2>1. Reads(s, l)
      BY <1>5 DEF Reads
    <2>2. At(manager[s].attempts, l) # {} /\ At(manager[s].established, l) = {}
      BY <1>8
    <2> HIDE DEF n, new, EndRecord
    <2> QED
      BY <1>6, <1>10, <1>12, <1>14, <2>1, <2>2, Settling
  <1>16. LinkIs(k, s, mine2, theirs2)
    <2> DEFINE x == [contract |-> k, accounted_bytes |-> ContractBytes(k)]
    <2>1. settled = {x} /\ x.contract = k
      OBVIOUS
    <2> HIDE DEF x
    <2>2. /\ mine2.setup = mine.setup /\ mine2.wire = mine.wire /\ mine2.end = new
          /\ mine2.offer = mine.offer /\ mine2.contract = k
          /\ mine2.attempt = {} /\ mine2.settled = settled
          /\ SameButWire(theirs, theirs2) /\ theirs2.wire = Tail(theirs.wire)
      BY <1>5, <1>15, <2>1 DEF GoesOn
    <2> HIDE DEF mine, mine2, theirs, theirs2, new, old, m
    <2>3. mine2.end = [phase |-> "Sending", state |-> "Established",
                       offer |-> mine.end.offer, owned |-> mine.end.owned,
                       frame |-> Frame("Established", NoBody),
                       failure |-> mine.end.failure]
      BY <1>5, <1>13, <2>2
    <2> QED
      BY ONLY s \in Sides, <1>2, <1>3, <1>5, <2>2, <2>3, LinkEstablishes
  <1> HIDE DEF new, settled, mine, mine2, theirs, theirs2
  <1>17. LinkIs(k, s, Side(s, l)', Side(Other(s), l)')
    BY <1>16 DEF mine2, theirs2
  <1> QED
    BY <1>15, <1>17, ProceedsWell

\* receive_established
LEMMA ReceiveEstablishedKeeps ==
  ASSUME Sound, NEW s \in Sides, NEW l \in Links, ReceiveEstablished(s, l), UNCHANGED setup
  PROVE  Sound'
  <1> DEFINE mine == Side(s, l)
             mine2 == Side(s, l)'
             theirs == Side(Other(s), l)
             theirs2 == Side(Other(s), l)'
             m == manager[s]
             old == end[s][l]
             new == Waits(old, "Established", "Established")
             n == ValidateAuthority(m, l)
  <1>1. Shape /\ LinksAreSound
    BY DEF Sound
  <1>2. PICK k \in AllContracts \cup {NoContract} : LinkIs(k, s, mine, theirs)
    BY <1>1, SoundAt
  <1> DEFINE settled == {[contract |-> k, accounted_bytes |-> ContractBytes(k)]}
             attempt == ValidatedAttempt(k, theirs.offer, mine.offer)
  <1>3. IsTyped(theirs)
    BY <1>1, SoundAt
  <1>4. Takes(s, l, "Established")
    BY DEF ReceiveEstablished
  <1>5. /\ mine.end = old /\ mine.end.phase = "Receiving"
        /\ wire[Other(s)][l] # <<>>
        /\ wire' = [wire EXCEPT ![Other(s)][l] = Tail(@)]
        /\ theirs.wire # <<>> /\ Head(theirs.wire).type = "Established"
    BY <1>4, TakenIs
  <1>6. /\ s = NonAuthority /\ mine.end.state = "AwaitingEstablished" /\ k \in AllContracts
        /\ ContractWithinLimits(k, OfferLimits[s])
        /\ mine.attempt = {attempt} /\ mine.settled = {}
    <2> HIDE DEF mine, theirs
    <2> QED
      BY <1>2, <1>3, <1>5, EstablishedIsDue
  <1>7. /\ mine.attempt = At(m.attempts, l) /\ mine.settled = At(m.established, l)
        /\ old \in EndRecord /\ IsManager(m)
    BY SideHas
  <1>8. At(m.attempts, l) = {attempt} /\ At(m.established, l) = {}
    BY <1>6, <1>7
  <1>9. CanValidate(m, l)
    <2>1. l \in DOMAIN m.attempts /\ m.attempts[l] = attempt
      BY <1>8 DEF At
    <2>2. attempt.proposal = k
      BY DEF ValidatedAttempt, NewAttempt
    <2>3. k # NoContract
      BY <1>6, ExchangeAssumption
    <2> HIDE DEF m, attempt
    <2> QED
      BY <2>1, <2>2, <2>3 DEF CanValidate
  <1>10. SettlesOn(s, l, k, n)
    <2> DEFINE first == theirs.offer
               second == mine.offer
    <2>1. IsManager(m) /\ At(m.attempts, l) = {ValidatedAttempt(k, first, second)}
      BY <1>7, <1>8
    <2>2. k \in AllContracts
      BY <1>6
    <2> HIDE DEF m, first, second
    <2>3. ManagerMoves(m, ValidateAuthority(m, l), l,
                       (m.reserved_bytes - Reservation(m)) + ContractBytes(k), {},
                       {[contract |-> k, accounted_bytes |-> ContractBytes(k)]})
      BY ONLY l \in Links, <2>1, <2>2, ValidateMoves
    <2> QED
      BY ONLY <2>3 DEF SettlesOn, m
  <1>11. l \in DOMAIN n.established
    <2> HIDE DEF n
    <2> QED
      BY <1>10, SettledIsKnown
  <1>12. Proceeds(s, l, new, n)
    <2>1. old.state = "AwaitingEstablished"
      BY <1>5, <1>6
    <2> HIDE DEF FailAndClose, Proceeds, CanValidate
    <2> QED
      BY <1>9, <1>11, <2>1 DEF ReceiveEstablished
  <1>13. new = [phase |-> "Established", state |-> "Established", offer |-> old.offer,
                owned |-> old.owned, frame |-> old.frame, failure |-> old.failure]
    <2> HIDE DEF EndRecord, old
    <2> QED
      BY <1>7, WaitsIs
  <1>14. new \in EndRecord
    <2> HIDE DEF AllOffers, AllContracts, old, new, NoFrame
    <2> QED
      BY <1>7, <1>13 DEF EndRecord, Phase, NegotiationState
  <1>15. GoesOn(s, l, new, {}, settled)
    <2>1. Reads(s, l)
      BY <1>5 DEF Reads
    <2>2. At(manager[s].attempts, l) # {} /\ At(manager[s].established, l) = {}
      BY <1>8
    <2> HIDE DEF n, new, EndRecord
    <2> QED
      BY <1>6, <1>10, <1>12, <1>14, <2>1, <2>2, Settling
  <1>16. LinkIs(k, s, mine2, theirs2)
    <2> DEFINE x == [contract |-> k, accounted_bytes |-> ContractBytes(k)]
    <2>1. settled = {x} /\ x.contract = k
      OBVIOUS
    <2> HIDE DEF x
    <2>2. /\ mine2.setup = mine.setup /\ mine2.wire = mine.wire /\ mine2.end = new
          /\ mine2.offer = mine.offer /\ mine2.contract = k
          /\ mine2.attempt = {} /\ mine2.settled = settled
          /\ SameButWire(theirs, theirs2) /\ theirs2.wire = Tail(theirs.wire)
      BY <1>5, <1>15, <2>1 DEF GoesOn
    <2> HIDE DEF mine, mine2, theirs, theirs2, new, old, m
    <2>3. mine2.end = [phase |-> "Established", state |-> "Established",
                       offer |-> mine.end.offer, owned |-> mine.end.owned,
                       frame |-> mine.end.frame, failure |-> mine.end.failure]
      BY <1>5, <1>13, <2>2
    <2> QED
      BY ONLY s \in Sides, <1>2, <1>3, <1>5, <2>2, <2>3, LinkAgrees
  <1> HIDE DEF new, settled, mine, mine2, theirs, theirs2
  <1>17. LinkIs(k, s, Side(s, l)', Side(Other(s), l)')
    BY <1>16 DEF mine2, theirs2
  <1> QED
    BY <1>15, <1>17, ProceedsWell

\* Receiving
LEMMA ReceiveKeeps ==
  ASSUME Sound, NEW s \in Sides, NEW l \in Links, Receive(s, l)
  PROVE  Sound'
  BY ReceiveOfferKeeps, ReceiveProposalKeeps, ReceiveValidatedKeeps, ReceiveEstablishedKeeps,
     ReceiveFailedKeeps, FailReceiveKeeps DEF Receive

-----------------------------------------------------------------------------
(* The invariant holds                                                     *)

\* A step of nobody.
LEMMA StutterKeeps ==
  ASSUME Sound, UNCHANGED vars
  PROVE  Sound'
  <1>1. UNCHANGED <<manager, end, history, setup, wire, open>>
    BY DEF vars
  <1>2. \A s \in Sides : \A l \in Links : Side(s, l)' = Side(s, l)
    BY <1>1 DEF Side, At
  <1>3. Shape'
    BY <1>1 DEF Sound, Shape, SetupShape, EndShape
  <1>4. Books'
    BY <1>1 DEF Sound, Books
  <1>5. LinksAreSound'
    <2>1. Authority \in Sides /\ Other(Authority) \in Sides
      BY TwoSides
    <2> HIDE DEF Side
    <2> QED
      BY <1>2, <2>1 DEF Sound, LinksAreSound, LinkIsSound
  <1> QED
    BY <1>3, <1>4, <1>5 DEF Sound

\* Every step keeps the invariant.
LEMMA NextKeeps ==
  ASSUME Sound, [Next]_vars
  PROVE  Sound'
  <1>1. CASE UNCHANGED vars
    BY <1>1, StutterKeeps
  <1>2. CASE Next
    <2>1. PICK l \in Links :
            \/ Dial(l)
            \/ Answer(l)
            \/ SelectAuthority(l)
            \/ LoseTransport(l)
            \/ \E s \in Sides :
                 \/ SetUp(s, l)
                 \/ GiveUp(s, l)
                 \/ Activate(s, l)
                 \/ Send(s, l)
                 \/ Receive(s, l)
                 \/ Teardown(s, l)
      BY <1>2 DEF Next
    <2>2. CASE Dial(l)
      BY <2>2, DialKeeps
    <2>3. CASE Answer(l)
      BY <2>3, AnswerKeeps
    <2>4. CASE SelectAuthority(l)
      BY <2>4, SelectAuthorityKeeps
    <2>5. CASE LoseTransport(l)
      BY <2>5, LoseTransportKeeps
    <2>6. ASSUME NEW s \in Sides,
                 \/ SetUp(s, l)
                 \/ GiveUp(s, l)
                 \/ Activate(s, l)
                 \/ Send(s, l)
                 \/ Receive(s, l)
                 \/ Teardown(s, l)
          PROVE  Sound'
      <3>1. CASE SetUp(s, l)
        BY <3>1, SetUpKeeps
      <3>2. CASE GiveUp(s, l)
        BY <3>2, GiveUpKeeps
      <3>3. CASE Activate(s, l)
        BY <3>3, ActivateKeeps
      <3>4. CASE Send(s, l)
        BY <3>4, SendKeeps
      <3>5. CASE Receive(s, l)
        BY <3>5, ReceiveKeeps
      <3>6. CASE Teardown(s, l)
        BY <3>6, TeardownKeeps
      <3> QED
        BY <2>6, <3>1, <3>2, <3>3, <3>4, <3>5, <3>6
    <2> QED
      BY <2>1, <2>2, <2>3, <2>4, <2>5, <2>6
  <1> QED
    BY <1>1, <1>2

\* Nobody has begun anything.
LEMMA FreshLinkIs ==
  ASSUME NEW s \in Sides, NEW mine, NEW theirs, mine = theirs,
         mine = [setup |-> Setup("None", NoSettings), wire |-> <<>>, end |-> NewEnd,
                 offer |-> NoOffer, contract |-> NoContract, attempt |-> {}, settled |-> {}]
  PROVE  LinkIs(NoContract, s, mine, theirs)
  <1> DEFINE e == mine.end
             k == NoContract
  <1>1. /\ mine.setup = [phase |-> "None", local |-> NoSettings, peer |-> NoSettings]
        /\ mine.wire = <<>> /\ mine.offer = NoOffer /\ mine.contract = NoContract
        /\ mine.attempt = {} /\ mine.settled = {}
        /\ e.phase = "Idle" /\ e.state = "Ready" /\ e.offer = NoOffer /\ e.owned = FALSE
        /\ e.frame = NoFrame /\ e.failure = "None"
    BY DEF NewEnd, Setup
  <1> HIDE DEF NoFrame
  <1>2. ASSUME NEW t \in Sides PROVE SideIs(k, t, mine, mine)
    <2>1. SetupIs(mine, mine)
      BY <1>1 DEF SetupIs
    <2>2. EndIs(k, t, mine, mine)
      BY <1>1 DEF EndIs, IsStage, Owning, Proposed, AttemptIn, SettledIn
    <2>3. EndKnows(k, t, mine, mine)
      <3>1. FrameIsTrue(k, t, mine, mine, NoFrame)
        BY DEF FrameIsTrue, NoFrame, Frame
      <3> QED
        BY <1>1, <3>1 DEF EndKnows, Owning, Proposed
    <2>4. WireIs(k, t, mine, mine)
      <3>1. ReadBy(Other(t), mine) = 0 /\ WrittenBy(t, mine) = 0
        BY <1>1 DEF ReadBy, WrittenBy
      <3>2. DOMAIN mine.wire = {} /\ Len(mine.wire) = 0
        BY <1>1
      <3> HIDE DEF k, e
      <3> QED
        BY ONLY <1>1, <3>1, <3>2 DEF WireIs
    <2> QED
      BY <2>1, <2>2, <2>3, <2>4 DEF SideIs
  <1>3. PairIs(k, mine, mine)
    BY <1>1 DEF PairIs
  <1> HIDE DEF e
  <1> QED
    BY <1>2, <1>3, TwoSides DEF LinkIs, First, Second

\* The invariant holds at first.
LEMMA InitIsSound ==
  ASSUME Init
  PROVE  Sound
  <1> DEFINE fresh == [setup |-> Setup("None", NoSettings), wire |-> <<>>, end |-> NewEnd,
                       offer |-> NoOffer, contract |-> NoContract, attempt |-> {},
                       settled |-> {}]
  <1>1. ASSUME NEW s \in Sides
        PROVE  /\ HasManagerFields(manager[s])
               /\ manager[s].offer_limits = OfferLimits[s]
               /\ manager[s].limits = ManagerLimits[s] /\ manager[s].reserved_bytes = 0
               /\ manager[s].attempts = EmptyMap /\ manager[s].established = EmptyMap
    BY DEF Init, NewManager, HasManagerFields
  <1>2. DOMAIN EmptyMap = {} /\ IsTable(EmptyMap)
    BY DEF EmptyMap, IsTable
  <1>3. Shape
    <2>1. SetupShape
      BY DEF Init, BootstrapInit, SetupShape, SetupRecord, SetupPhase, Setup
    <2>2. NewEnd \in EndRecord
      BY DEF NewEnd, EndRecord, Phase, NegotiationState, Failure
    <2>3. /\ end \in [Sides -> [Links -> EndRecord]]
          /\ history \in [Sides -> [Links -> HistoryRecord]]
      BY <2>2 DEF Init, HistoryRecord
    <2>4. IsTable(manager) /\ DOMAIN manager = Sides
      BY DEF Init, IsTable
    <2>5. ASSUME NEW s \in Sides PROVE IsManager(manager[s])
      BY <1>1, <1>2 DEF IsManager
    <2> QED
      BY <2>1, <2>3, <2>4, <2>5 DEF Shape, EndShape
  <1>4. LinksAreSound
    <2> SUFFICES ASSUME NEW l \in Links PROVE LinkIsSound(Authority, l)
      BY DEF LinksAreSound
    <2>1. ASSUME NEW s \in Sides PROVE Side(s, l) = fresh
      <3>1. /\ setup[s][l] = Setup("None", NoSettings) /\ wire[s][l] = <<>>
            /\ end[s][l] = NewEnd
            /\ history[s][l] = [offer |-> NoOffer, contract |-> NoContract]
        BY DEF Init, BootstrapInit
      <3>2. At(manager[s].attempts, l) = {} /\ At(manager[s].established, l) = {}
        BY <1>1, <1>2 DEF At
      <3> QED
        BY <3>1, <3>2 DEF Side
    <2>2. Side(Authority, l) = fresh /\ Side(Other(Authority), l) = fresh
      BY <2>1, TwoSides
    <2>3. LinkIs(NoContract, Authority, Side(Authority, l), Side(Other(Authority), l))
      <3> HIDE DEF Side
      <3> QED
        BY <2>2, TwoSides, FreshLinkIs
    <2> QED
      BY <2>3 DEF LinkIsSound
  <1>5. Books
    <2> SUFFICES ASSUME NEW s \in Sides PROVE Balanced(s, manager[s])
      BY DEF Books
    <2> DEFINE m == manager[s]
    <2>1. /\ m.offer_limits = OfferLimits[s] /\ m.limits = ManagerLimits[s]
          /\ m.reserved_bytes = 0 /\ DOMAIN m.attempts = {} /\ DOMAIN m.established = {}
      BY <1>1, <1>2
    <2>2. IsFiniteSet({}) /\ Cardinality({}) = 0
      BY FS_EmptySet
    <2> HIDE DEF m
    <2>3. EstablishedBytes(m) = 0
      <3> DEFINE f == [d \in DOMAIN m.established |-> m.established[d].accounted_bytes]
      <3>1. DOMAIN f = {}
        BY <2>1
      <3> HIDE DEF f
      <3>2. SumFunction(f) = 0
        BY <3>1, SumOfNone
      <3> QED
        BY <3>2 DEF EstablishedBytes, f
    <2>4. Reservation(m) \in Nat /\ m.limits.bytes \in Nat /\ m.limits.attempts \in Nat
      BY <2>1, ExchangeAssumption DEF Reservation
    <2>5. Reservation(m) * Cardinality(DOMAIN m.attempts) = 0
      BY <2>1, <2>2, <2>4
    <2> QED
      BY <2>1, <2>2, <2>3, <2>4, <2>5 DEF Balanced, m
  <1> QED
    BY <1>3, <1>4, <1>5 DEF Sound

\* Links that are right for the authority are right for either side.
LEMMA SoundSides ==
  ASSUME Sound, NEW l \in Links
  PROVE  \E k \in AllContracts \cup {NoContract} : \A s \in Sides :
           LinkIs(k, s, Side(s, l), Side(Other(s), l))
  <1>1. PICK k \in AllContracts \cup {NoContract} :
               LinkIs(k, Authority, Side(Authority, l), Side(Other(Authority), l))
    BY DEF Sound, LinksAreSound, LinkIsSound
  <1>2. LinkIs(k, Other(Authority), Side(Other(Authority), l), Side(Authority, l))
    <2> HIDE DEF Side
    <2> QED
      BY <1>1, TwoSides, LinkFromBothSides
  <1>3. \A s \in Sides : s = Authority \/ (s = Other(Authority) /\ Other(s) = Authority)
    BY DEF Other, Sides, Authority, NonAuthority
  <1> QED
    BY <1>1, <1>2, <1>3

\* What is reserved is what is held.
LEMMA SoundReservations ==
  ASSUME Sound
  PROVE  ReservationsAreExact
  <1>1. /\ Shape /\ SetupShape /\ EndShape /\ Books
    BY DEF Sound, Shape
  <1>2. ASSUME NEW s \in Sides
        PROVE  /\ manager[s].reserved_bytes \in Nat
               /\ DOMAIN manager[s].attempts \subseteq Links
               /\ DOMAIN manager[s].established \subseteq Links
    <2> DEFINE m == manager[s]
    <2>1. IsManager(m) /\ Balanced(s, m)
      BY <1>1 DEF EndShape, Books
    <2>2. EstablishedBytes(m) \in Nat
      <3> DEFINE f == [d \in DOMAIN m.established |-> m.established[d].accounted_bytes]
      <3>1. IsFiniteSet(DOMAIN m.established) /\ f \in [DOMAIN m.established -> Nat]
        BY <2>1 DEF Balanced
      <3> HIDE DEF f
      <3> QED
        BY <3>1, SumIsNat DEF EstablishedBytes, f
    <2>3. Reservation(m) \in Nat /\ Cardinality(DOMAIN m.attempts) \in Nat
      BY <2>1, ExchangeAssumption, FS_CardinalityType DEF Balanced, Reservation
    <2>4. Reservation(m) * Cardinality(DOMAIN m.attempts) \in Nat
      BY <2>3
    <2> QED
      BY <2>1, <2>2, <2>4 DEF Balanced, IsManager
  <1>3. TypeOK
    BY <1>1, <1>2 DEF TypeOK, BootstrapTypeOK, SetupShape, EndShape, SetupRecord, EndRecord
  <1>4. ASSUME NEW s \in Sides, NEW l \in Links
        PROVE  IsKnown(manager[s], l) <=> end[s][l].owned
    <2> DEFINE mine == Side(s, l)
               m == manager[s]
    <2>1. PICK k : LinkIs(k, s, mine, Side(Other(s), l))
      BY SoundSides
    <2>2. EndIs(k, s, mine, Side(Other(s), l))
      BY <2>1 DEF LinkIs, SideIs
    <2>3. /\ mine.attempt = At(m.attempts, l) /\ mine.settled = At(m.established, l)
          /\ mine.end.owned = end[s][l].owned
      BY DEF Side
    <2> HIDE DEF mine, m
    <2>4. /\ mine.end.owned => (mine.attempt = {}) # (mine.settled = {})
          /\ ~mine.end.owned => mine.attempt = {} /\ mine.settled = {}
      BY <2>2, OwnedIsHeld
    <2>5. mine.end.owned <=> mine.attempt # {} \/ mine.settled # {}
      BY <2>4
    <2>6. IsKnown(m, l) <=> At(m.attempts, l) # {} \/ At(m.established, l) # {}
      BY DEF IsKnown, At
    <2> QED
      BY <2>3, <2>5, <2>6 DEF m
  <1> QED
    BY <1>1, <1>3, <1>4 DEF ReservationsAreExact, Books, Balanced

\* The hosts agree.
LEMMA SoundAgreement ==
  ASSUME Sound
  PROVE  EstablishedIsMutual
  <1>1. ASSUME NEW l \in Links
        PROVE  LET first == history[Authority][l]
                   second == history[NonAuthority][l]
               IN \E k : PairIs(k, first, second)
    <2> DEFINE mine == Side(Authority, l)
               theirs == Side(NonAuthority, l)
    <2>1. PICK k : LinkIs(k, Authority, mine, theirs)
      BY SoundSides, TwoSides DEF Other
    <2>2. PairIs(k, mine, theirs)
      BY <2>1 DEF LinkIs, First, Second
    <2>3. /\ mine.offer = history[Authority][l].offer
          /\ mine.contract = history[Authority][l].contract
          /\ theirs.offer = history[NonAuthority][l].offer
          /\ theirs.contract = history[NonAuthority][l].contract
      BY DEF Side
    <2>4. PairIs(k, history[Authority][l], history[NonAuthority][l])
      <3> HIDE DEF mine, theirs
      <3> QED
        BY <2>2, <2>3 DEF PairIs
    <2> QED
      BY <2>4
  <1>2. SelectedByBoth
    <2> SUFFICES ASSUME NEW s \in Sides, NEW l \in Links,
                        history[s][l].contract # NoContract
                 PROVE  LET contract == history[s][l].contract
                            first == history[Authority][l].offer
                            second == history[NonAuthority][l].offer
                        IN /\ NoOffer \notin {first, second}
                           /\ SelectsOnlyCommon(contract, first, second)
                           /\ SelectsAllRequired(contract, first, second)
                           /\ \A host \in Sides :
                                SelectsHostRequired(contract, Requirements[host])
      BY DEF SelectedByBoth
    <2> DEFINE first == history[Authority][l]
               second == history[NonAuthority][l]
    <2>1. PICK k : PairIs(k, first, second)
      BY <1>1
    <2>2. history[s][l] = first \/ history[s][l] = second
      BY TwoSides
    <2> HIDE DEF first, second
    <2>3. /\ history[s][l].contract = k /\ Selected(k, first.offer, second.offer)
          /\ Validated(k)
      BY <2>1, <2>2 DEF PairIs
    <2>4. first.offer # NoOffer /\ second.offer # NoOffer
      BY <2>3, ExchangeAssumption DEF Selected
    <2>5. \A host \in Sides : SelectsHostRequired(k, Requirements[host])
      BY <2>3, TwoSides DEF Selected, Validated
    <2> QED
      BY <2>3, <2>4, <2>5 DEF Selected, first, second
  <1>3. PeerFollowsAuthority
    BY <1>1 DEF PeerFollowsAuthority, PairIs
  <1>4. SettingsAreExchanged
    <2> SUFFICES ASSUME NEW s \in Sides, NEW l \in Links, setup[s][l].peer # NoSettings
                 PROVE  /\ setup[s][l].peer = setup[Other(s)][l].local
                        /\ setup[s][l].peer.role # setup[s][l].local.role
      BY DEF SettingsAreExchanged
    <2>1. SetupIs(Side(s, l), Side(Other(s), l))
      BY SoundSides DEF LinkIs, SideIs
    <2> QED
      BY <2>1 DEF SetupIs, Side
  <1> QED
    BY <1>2, <1>3, <1>4 DEF EstablishedIsMutual

\* No end sees the other break the profile.
LEMMA SoundProfile ==
  ASSUME Sound
  PROVE  NobodyBreaksTheProfile
  <1>1. ASSUME NEW s \in Sides, NEW l \in Links
        PROVE  /\ setup[s][l].phase = "Breached" =>
                    setup[s][l].local.role = setup[Other(s)][l].local.role
               /\ end[s][l].failure # "Protocol"
    <2>1. PICK k : LinkIs(k, s, Side(s, l), Side(Other(s), l))
      BY SoundSides
    <2>2. SetupIs(Side(s, l), Side(Other(s), l)) /\ EndIs(k, s, Side(s, l), Side(Other(s), l))
      BY <2>1 DEF LinkIs, SideIs
    <2>3. end[s][l].failure # "Protocol"
      BY <2>2 DEF EndIs, Side
    <2> QED
      BY <2>2, <2>3 DEF SetupIs, Side
  <1> QED
    BY <1>1 DEF NobodyBreaksTheProfile, NobodyBreaksTheBootstrap

\* The invariant of the links and of the sums (negotiation.rs, public_connection.rs).
THEOREM AlwaysSound == Spec => []Sound
  <1>1. Init => Sound
    BY InitIsSound
  <1>2. Sound /\ [Next]_vars => Sound'
    BY NextKeeps
  <1> QED
    BY <1>1, <1>2, PTL DEF Spec

\* A manager's hand-kept count of reserved bytes is always what its attempts and contracts
\* hold, within its limits, and it holds an entry exactly for the ends that will release
\* it, whatever the two hosts do (NegotiationManager::start, promote_established,
\* terminate; release_manager).
THEOREM ReservationsAlwaysExact == Spec => []ReservationsAreExact
  <1>1. Sound => ReservationsAreExact
    BY SoundReservations
  <1> QED
    BY <1>1, AlwaysSound, PTL

\* The two hosts never disagree on a contract, and what is established is what both
\* offered and all that either requires (receive_proposal, receive_validated,
\* receive_established, receive_settings).
THEOREM EstablishedAlwaysMutual == Spec => []EstablishedIsMutual
  <1>1. Sound => EstablishedIsMutual
    BY SoundAgreement
  <1> QED
    BY <1>1, AlwaysSound, PTL

\* Two hosts of opposite roles that follow the profile never see each other break it
\* (NegotiationProtocolError, ManagerState, UnexpectedCoreStatus).
THEOREM ProfileNeverBroken == Spec => []NobodyBreaksTheProfile
  <1>1. Sound => NobodyBreaksTheProfile
    BY SoundProfile
  <1> QED
    BY <1>1, AlwaysSound, PTL
=============================================================================
