---------------------------- MODULE SessionProofs ----------------------------
(***************************************************************************)
(* The safety properties of the session and of the input that its          *)
(* participants submit, for every set of participants and connections and  *)
(* every limit. The invariant of the session is inductive once it also     *)
(* says that whoever is live was admitted: with that, the two tables, the  *)
(* clock and the set of used identities cannot drift apart.                *)
(***************************************************************************)
EXTENDS AuthorityInput, PartialMapTheorems

LiveWereAdmitted == Live \subseteq used_participants

IInv == TypeOK /\ BindingsAgree /\ NoOverdueMembership /\ LiveWereAdmitted

LEMMA MembershipType ==
  ASSUME NEW c \in Connections
  PROVE  Bound(c) \in Membership
  BY SessionAssumption DEF Bound, Membership, Time

LEMMA UnboundType ==
  ASSUME NEW c \in Connections, NEW t \in Time
  PROVE  Unbound(t, c) \in Membership
  BY DEF Unbound, Membership

LEMMA InitIInv == Init => IInv
  <1> SUFFICES ASSUME Init PROVE IInv
    OBVIOUS
  <1>1. DOMAIN memberships = {} /\ DOMAIN bindings = {}
    BY EmptyMapIsEmpty DEF Init
  <1>2. memberships \in [{} -> Membership] /\ bindings \in [{} -> Participants]
    BY EmptyMapIsEmpty DEF Init
  <1> QED
    BY <1>1, <1>2, SessionAssumption
    DEF Init, IInv, TypeOK, BindingsAgree, NoOverdueMembership, LiveWereAdmitted, Live, Time

\* The operations that give a connection to a participant.
LEMMA BindStep ==
  ASSUME IInv, NEW p \in Participants, NEW c \in Connections,
         c \notin DOMAIN bindings,
         ~IsBound(p),
         phase' = phase, recovery_clock' = recovery_clock,
         used_participants' = used_participants \cup {p},
         bindings' = Put(bindings, c, p),
         memberships' = Put(memberships, p, Bound(c))
  PROVE  IInv'
  <1>1. DOMAIN memberships' = Live \cup {p} /\ DOMAIN bindings' = DOMAIN bindings \cup {c}
    BY DEF Put, Live
  <1>2. /\ memberships'[p] = Bound(c) /\ bindings'[c] = p
        /\ \A q \in Live : q # p => memberships'[q] = memberships[q]
        /\ \A d \in DOMAIN bindings : d # c => bindings'[d] = bindings[d]
    BY DEF Put, Live
  <1>3. TypeOK'
    BY <1>1, MembershipType DEF IInv, TypeOK, Live, Put
  <1>4. c # NoConnection /\ Bound(c).connection = c
    BY SessionAssumption DEF Bound
  <1>5. BindingsAgree'
    <2>1. ASSUME NEW d \in DOMAIN bindings'
          PROVE  IsAuthorized(bindings[d], d)'
      <3>1. CASE d = c
        BY <1>1, <1>2, <1>4, <3>1 DEF IsAuthorized, Live
      <3>2. CASE d # c
        <4>1. d \in DOMAIN bindings /\ IsAuthorized(bindings[d], d)
          BY <1>1, <2>1, <3>2 DEF IInv, BindingsAgree
        <4>2. d # NoConnection
          BY <4>1, SessionAssumption DEF IInv, TypeOK
        <4>3. bindings[d] # p
          BY <4>1, <4>2 DEF IsAuthorized, IsBound
        <4> QED
          BY <1>1, <1>2, <4>1, <4>3, <3>2 DEF IsAuthorized, Live
      <3> QED
        BY <3>1, <3>2
    <2>2. ASSUME NEW q \in Live', IsBound(q)'
          PROVE  IsAuthorized(q, memberships[q].connection)'
      <3>1. CASE q = p
        BY <1>1, <1>2, <1>4, <3>1 DEF IsAuthorized, Live
      <3>2. CASE q # p
        <4>1. q \in Live /\ memberships'[q] = memberships[q]
          BY <1>1, <1>2, <2>2, <3>2 DEF Live
        <4>2. IsAuthorized(q, memberships[q].connection)
          BY <4>1, <2>2 DEF IInv, BindingsAgree, IsBound
        <4> QED
          BY <1>1, <1>2, <4>1, <4>2 DEF IsAuthorized, Live
      <3> QED
        BY <3>1, <3>2
    <2> QED
      BY <2>1, <2>2 DEF BindingsAgree
  <1>6. NoOverdueMembership'
    BY <1>1, <1>2, <1>4 DEF IInv, NoOverdueMembership, IsUnbound, Live
  <1>7. LiveWereAdmitted'
    BY <1>1 DEF IInv, LiveWereAdmitted, Live
  <1> QED
    BY <1>3, <1>5, <1>6, <1>7 DEF IInv

\* The operations that end memberships S and release the connections cs.
LEMMA EndStep ==
  ASSUME IInv, NEW S, NEW cs,
         \A c \in DOMAIN bindings : c \in cs <=> bindings[c] \in S,
         phase' = phase, used_participants' = used_participants,
         recovery_clock' \in Time,
         \A p \in Live \ S : IsUnbound(p) => recovery_clock' < memberships[p].expires_at,
         bindings' = Drop(bindings, cs),
         memberships' = Drop(memberships, S)
  PROVE  IInv'
  <1>1. DOMAIN memberships' = Live \ S /\ DOMAIN bindings' = DOMAIN bindings \ cs
    BY DEF Drop, Restrict, Live
  <1>2. /\ \A q \in Live \ S : memberships'[q] = memberships[q]
        /\ \A d \in DOMAIN bindings \ cs : bindings'[d] = bindings[d]
    BY DEF Drop, Restrict, Live
  <1>3. TypeOK'
    BY <1>1 DEF IInv, TypeOK, Live, Drop, Restrict
  <1>5. BindingsAgree'
    BY <1>1, <1>2 DEF IInv, TypeOK, BindingsAgree, IsAuthorized, IsBound, Live
  <1>6. NoOverdueMembership'
    BY <1>1, <1>2 DEF NoOverdueMembership, IsUnbound, Live
  <1>7. LiveWereAdmitted'
    BY <1>1 DEF IInv, LiveWereAdmitted, Live
  <1> QED
    BY <1>3, <1>5, <1>6, <1>7 DEF IInv

LEMMA NextIInv == IInv /\ [Next]_vars => IInv'
  <1> SUFFICES ASSUME IInv, [Next]_vars PROVE IInv'
    OBVIOUS
  <1>1. ASSUME NEW p \in Participants, NEW c \in Connections, AdmitNew(p, c)
        PROVE  IInv'
    <2>1. ~IsBound(p)
      BY <1>1 DEF AdmitNew, IInv, LiveWereAdmitted, IsBound
    <2> QED
      BY <1>1, <2>1, BindStep DEF AdmitNew
  <1>2. ASSUME NEW p \in Participants, NEW c \in Connections, LoseTerminate(p, c)
        PROVE  IInv'
    <2>1. \A d \in DOMAIN bindings : d \in {c} <=> bindings[d] \in {p}
      BY <1>2 DEF LoseTerminate, IsAuthorized, IInv, BindingsAgree
    <2>2. \A q \in Live \ {p} : IsUnbound(q) => recovery_clock' < memberships[q].expires_at
      BY <1>2 DEF LoseTerminate, IInv, NoOverdueMembership
    <2>3. recovery_clock' \in Time
      BY <1>2 DEF LoseTerminate, IInv, TypeOK
    <2> QED
      BY <1>2, <2>1, <2>2, <2>3, EndStep DEF LoseTerminate
  <1>3. ASSUME NEW p \in Participants, NEW c \in Connections, NEW d \in Duration,
               LoseRetain(p, c, d)
        PROVE  IInv'
    <2>1. /\ c \in DOMAIN bindings /\ bindings[c] = p
          /\ p \in Live /\ memberships[p].connection = c
      BY <1>3 DEF LoseRetain, IsAuthorized
    <2>2. /\ Live' = Live
          /\ memberships'[p] = Unbound(recovery_clock + d, c)
          /\ \A q \in Live : q # p => memberships'[q] = memberships[q]
      BY <1>3, <2>1 DEF LoseRetain, Put, Live
    <2>3. /\ DOMAIN bindings' = DOMAIN bindings \ {c}
          /\ \A e \in DOMAIN bindings \ {c} : bindings'[e] = bindings[e]
      BY <1>3 DEF LoseRetain, Drop, Restrict
    <2>4. recovery_clock + d \in Time /\ recovery_clock < recovery_clock + d
      BY <1>3, SessionAssumption DEF LoseRetain, Duration, Time, IInv, TypeOK
    <2>5. TypeOK'
      BY <1>3, <2>1, <2>2, <2>3, <2>4, UnboundType
      DEF LoseRetain, IInv, TypeOK, Live, Put, Drop, Restrict
    <2>6. ~IsBound(p)' /\ memberships'[p].expires_at = recovery_clock + d
      BY <2>2 DEF IsBound, Unbound
    <2>7. BindingsAgree'
      <3>1. \A e \in DOMAIN bindings' : bindings'[e] # p
        BY <2>1, <2>3 DEF IInv, BindingsAgree, IsAuthorized
      <3>2. \A e \in DOMAIN bindings' : IsAuthorized(bindings[e], e)'
        BY <2>2, <2>3, <3>1 DEF IInv, BindingsAgree, IsAuthorized, Live
      <3>3. \A q \in Live' : IsBound(q)' => q # p /\ IsAuthorized(q, memberships[q].connection)
        BY <2>2, <2>6 DEF IInv, BindingsAgree, IsBound, Live
      <3>4. \A q \in Live' : IsBound(q)' => IsAuthorized(q, memberships[q].connection)'
        BY <2>1, <2>2, <2>3, <3>3 DEF IsAuthorized, Live
      <3> QED
        BY <3>2, <3>4 DEF BindingsAgree
    <2>8. NoOverdueMembership'
      BY <1>3, <2>2, <2>4, <2>6 DEF LoseRetain, IInv, NoOverdueMembership, IsUnbound, Live
    <2>9. LiveWereAdmitted'
      BY <1>3, <2>2 DEF LoseRetain, IInv, LiveWereAdmitted
    <2> QED
      BY <2>5, <2>7, <2>8, <2>9 DEF IInv
  <1>4. ASSUME NEW p \in Participants, NEW c \in Connections, BindReplacement(p, c)
        PROVE  IInv'
    <2>1. ~IsBound(p) /\ used_participants' = used_participants \cup {p}
      BY <1>4 DEF BindReplacement, IsUnbound, IsBound, IInv, LiveWereAdmitted
    <2> QED
      BY <1>4, <2>1, BindStep DEF BindReplacement
  <1>5. ASSUME NEW p \in Participants, RemoveParticipant(p)
        PROVE  IInv'
    <2>1. \A d \in DOMAIN bindings :
             d \in {memberships[p].connection} <=> bindings[d] \in {p}
      <3>1. ASSUME NEW d \in DOMAIN bindings, bindings[d] = p
            PROVE  d = memberships[p].connection
        BY <3>1 DEF IInv, BindingsAgree, IsAuthorized
      <3>2. ASSUME NEW d \in DOMAIN bindings, d = memberships[p].connection
            PROVE  bindings[d] = p
        <4>1. d # NoConnection
          BY SessionAssumption DEF IInv, TypeOK
        <4>2. IsBound(p)
          BY <1>5, <3>2, <4>1 DEF RemoveParticipant, IsBound
        <4> QED
          BY <3>2, <4>2 DEF IInv, BindingsAgree, IsAuthorized, IsBound
      <3> QED
        BY <3>1, <3>2
    <2>2. \A q \in Live \ {p} : IsUnbound(q) => recovery_clock' < memberships[q].expires_at
      BY <1>5 DEF RemoveParticipant, IInv, NoOverdueMembership
    <2>3. recovery_clock' \in Time
      BY <1>5 DEF RemoveParticipant, IInv, TypeOK
    <2> QED
      BY <1>5, <2>1, <2>2, <2>3, EndStep DEF RemoveParticipant
  <1>6. ASSUME NEW now \in Time, AdvanceRecoveryClock(now)
        PROVE  IInv'
    <2>1. \A d \in DOMAIN bindings : ~(bindings[d] \in Expired(now))
      BY SessionAssumption
      DEF Expired, IsUnbound, IInv, TypeOK, BindingsAgree, IsAuthorized
    <2>2. \A d \in DOMAIN bindings : d \in {} <=> bindings[d] \in Expired(now)
      BY <2>1
    <2>3. \A q \in Live : memberships[q].expires_at \in Time
      BY DEF IInv, TypeOK, Membership
    <2>4. \A q \in Live \ Expired(now) :
             IsUnbound(q) => recovery_clock' < memberships[q].expires_at
      BY <1>6, <2>3, SessionAssumption DEF AdvanceRecoveryClock, Expired, Time
    <2>5. bindings' = Drop(bindings, {})
      BY <1>6 DEF AdvanceRecoveryClock, Drop, Restrict, IInv, TypeOK
    <2> QED
      BY <1>6, <2>2, <2>4, <2>5, EndStep DEF AdvanceRecoveryClock
  <1>7. CASE Close
    <2>1. DOMAIN memberships' = {} /\ DOMAIN bindings' = {}
      BY <1>7, EmptyMapIsEmpty DEF Close
    <2>2. memberships' \in [{} -> Membership] /\ bindings' \in [{} -> Participants]
      BY <1>7, EmptyMapIsEmpty DEF Close
    <2> QED
      BY <1>7, <2>1, <2>2
      DEF Close, IInv, TypeOK, BindingsAgree, NoOverdueMembership, LiveWereAdmitted, Live
  <1>8. CASE UNCHANGED vars
    BY <1>8
    DEF vars, IInv, TypeOK, BindingsAgree, NoOverdueMembership, LiveWereAdmitted,
        Live, IsAuthorized, IsBound, IsUnbound
  <1> QED
    BY <1>1, <1>2, <1>3, <1>4, <1>5, <1>6, <1>7, <1>8 DEF Next, ConnectionLost

LEMMA Invariance == Spec => []IInv
  BY InitIInv, NextIInv, PTL DEF Spec
-----------------------------------------------------------------------------

\* The tables hold what the code's types and limits allow: no expiry beyond
\* the recovery clock, no stranger in either table.
THEOREM TypeCorrect == Spec => []TypeOK
  BY Invariance, PTL DEF IInv

\* The membership table and the binding table of the session never disagree
\* on who speaks over which connection.
THEOREM BindingsAlwaysAgree == Spec => []BindingsAgree
  BY Invariance, PTL DEF IInv

\* Expiry is eager: an overdue membership is never there to be rebound, so the
\* expired branch of bind_replacement is never taken.
THEOREM NothingOverdue == Spec => []NoOverdueMembership
  BY Invariance, PTL DEF IInv

LEMMA EndedStaysEnded ==
  ASSUME [Next]_vars
  PROVE  \A p \in Participants :
           p \in used_participants /\ p \notin Live => p \notin Live'
  <1> SUFFICES ASSUME NEW p \in Participants, p \in used_participants, p \notin Live
               PROVE  p \notin Live'
    OBVIOUS
  <1>1. ASSUME NEW q \in Participants, NEW c \in Connections, AdmitNew(q, c)
        PROVE  p \notin Live'
    BY <1>1 DEF AdmitNew, Live, Put
  <1>2. ASSUME NEW q \in Participants, NEW c \in Connections, ConnectionLost(q, c)
        PROVE  p \notin Live'
    <2>1. CASE LoseTerminate(q, c)
      BY <2>1 DEF LoseTerminate, Live, Drop, Restrict
    <2>2. ASSUME NEW d \in Duration, LoseRetain(q, c, d)
          PROVE  p \notin Live'
      BY <2>2 DEF LoseRetain, IsAuthorized, Live, Put
    <2> QED
      BY <1>2, <2>1, <2>2 DEF ConnectionLost
  <1>3. ASSUME NEW q \in Participants, NEW c \in Connections, BindReplacement(q, c)
        PROVE  p \notin Live'
    BY <1>3 DEF BindReplacement, IsUnbound, Live, Put
  <1>4. ASSUME NEW q \in Participants, RemoveParticipant(q)
        PROVE  p \notin Live'
    BY <1>4 DEF RemoveParticipant, Live, Drop, Restrict
  <1>5. ASSUME NEW now \in Time, AdvanceRecoveryClock(now)
        PROVE  p \notin Live'
    BY <1>5 DEF AdvanceRecoveryClock, Live, Drop, Restrict
  <1>6. CASE Close
    BY <1>6 DEF Close, Live, EmptyMap
  <1>7. CASE UNCHANGED vars
    BY <1>7 DEF vars, Live
  <1> QED
    BY <1>1, <1>2, <1>3, <1>4, <1>5, <1>6, <1>7 DEF Next

\* No order of loss, replacement, removal, expiry and admission brings an ended
\* membership back: an identity lives once.
THEOREM EndedForGood == Spec => MembershipEndsForGood
  <1>1. [Next]_vars => [\A p \in Participants :
           p \in used_participants /\ p \notin Live => p \notin Live']_vars
    BY EndedStaysEnded
  <1> QED
    BY <1>1, PTL DEF Spec, MembershipEndsForGood
-----------------------------------------------------------------------------

LEMMA StatusValues ==
  ASSUME IInv, NEW p \in Participants
  PROVE  /\ p \notin used_participants => Status[p] = "Fresh"
         /\ p \in used_participants /\ p \notin Live => Status[p] = "Ended"
         /\ IsUnbound(p) => Status[p] = "Unbound"
         /\ IsBound(p) => /\ Status[p] = memberships[p].connection
                          /\ Status[p] \in Connections
                          /\ Status[p] \in DOMAIN bindings
                          /\ bindings[Status[p]] = p
         /\ p \in Live => IsBound(p) \/ IsUnbound(p)
         /\ p \in Live => p \in used_participants
  <1>1. p \in Live => p \in used_participants
    BY DEF IInv, LiveWereAdmitted
  <1>2. IsBound(p) => /\ memberships[p].connection \in DOMAIN bindings
                      /\ bindings[memberships[p].connection] = p
                      /\ memberships[p].connection \in Connections
    BY DEF IInv, TypeOK, BindingsAgree, IsAuthorized, IsBound
  <1> QED
    BY <1>1, <1>2 DEF Status, IsBound, IsUnbound

LEMMA InitContract == Init => Contract!Init
  BY DEF Init, Contract!Init, Contract!Fresh, Status

\* How the status changes when only the membership of p does.
LEMMA StatusUpdate ==
  ASSUME NEW p \in Participants, NEW v, Status'[p] = v,
         \A q \in Participants \ {p} : Status'[q] = Status[q]
  PROVE  Status' = [Status EXCEPT ![p] = v]
  <1>1. Status' = [q \in Participants |-> Status'[q]]
    BY DEF Status
  <1>2. Status = [q \in Participants |-> Status[q]]
    BY DEF Status
  <1> QED
    BY <1>1, <1>2

LEMMA BindRefines ==
  ASSUME IInv, NEW p \in Participants, NEW c \in Connections,
         phase = "Open", phase' = phase,
         c \notin DOMAIN bindings, Status[p] \in {"Fresh", "Unbound"},
         used_participants' = used_participants \cup {p},
         memberships' = Put(memberships, p, Bound(c))
  PROVE  Contract!Bind(p, c)
  <1>1. \A q \in Participants : Status[q] # c
    BY StatusValues, SessionAssumption
    DEF Status, IsBound, IsUnbound
  <1>2. /\ Live' = Live \cup {p} /\ memberships'[p] = Bound(c)
        /\ \A q \in Live : q # p => memberships'[q] = memberships[q]
    BY DEF Put, Live
  <1>3. Status'[p] = c
    BY <1>2, SessionAssumption DEF Status, IsBound, Bound, Live
  <1>4. \A q \in Participants \ {p} : Status'[q] = Status[q]
    BY <1>2 DEF Status, IsBound, Live
  <1>5. Status' = [Status EXCEPT ![p] = c]
    BY <1>3, <1>4, StatusUpdate
  <1> QED
    BY <1>1, <1>5 DEF Contract!Bind, Contract!Fresh, Contract!Unbound

LEMMA EndRefines ==
  ASSUME IInv, NEW S \in SUBSET Participants, S \subseteq Live,
         phase = "Open", phase' = phase,
         used_participants' = used_participants,
         memberships' = Drop(memberships, S)
  PROVE  Contract!End(S)
  <1>1. \A p \in S : Status[p] \in Connections \cup {"Unbound"}
    BY StatusValues
  <1>2. /\ Live' = Live \ S
        /\ \A q \in Live \ S : memberships'[q] = memberships[q]
    BY DEF Drop, Restrict, Live
  <1>3. \A p \in S : Status'[p] = "Ended"
    BY <1>2 DEF Status, IInv, LiveWereAdmitted, Live
  <1>4. \A q \in Participants \ S : Status'[q] = Status[q]
    BY <1>2 DEF Status, IsBound, Live
  <1>5. Status' = [p \in Participants |-> Status'[p]]
    BY DEF Status
  <1>6. Status' = [p \in Participants |-> IF p \in S THEN "Ended" ELSE Status[p]]
    BY <1>3, <1>4, <1>5
  <1> QED
    BY <1>1, <1>6 DEF Contract!End, Contract!Ended, Contract!Unbound

LEMMA StepRefines == IInv /\ [Next]_vars => [Contract!Next]_(Contract!vars)
  <1> SUFFICES ASSUME IInv, [Next]_vars PROVE [Contract!Next]_(Contract!vars)
    OBVIOUS
  <1>1. ASSUME NEW p \in Participants, NEW c \in Connections, AdmitNew(p, c)
        PROVE  Contract!Bind(p, c)
    <2>1. Status[p] = "Fresh"
      BY <1>1, StatusValues DEF AdmitNew
    <2> QED
      BY <1>1, <2>1, BindRefines DEF AdmitNew
  <1>2. ASSUME NEW p \in Participants, NEW c \in Connections, LoseTerminate(p, c)
        PROVE  \E S \in SUBSET Participants : Contract!End(S)
    <2>1. {p} \subseteq Live
      BY <1>2 DEF LoseTerminate, IsAuthorized
    <2>2. Contract!End({p})
      BY <1>2, <2>1, EndRefines DEF LoseTerminate
    <2> QED
      BY <2>2
  <1>3. ASSUME NEW p \in Participants, NEW c \in Connections, NEW d \in Duration,
               LoseRetain(p, c, d)
        PROVE  Contract!Retain(p)
    <2>1. p \in Live /\ memberships[p].connection = c
      BY <1>3 DEF LoseRetain, IsAuthorized
    <2>2. IsBound(p)
      BY <2>1, SessionAssumption DEF IsBound
    <2>3. Status[p] \in Connections
      BY <2>2, StatusValues
    <2>4. /\ Live' = Live
          /\ memberships'[p] = Unbound(recovery_clock + d, c)
          /\ \A q \in Live : q # p => memberships'[q] = memberships[q]
      BY <1>3, <2>1 DEF LoseRetain, Put, Live
    <2>5. Status'[p] = "Unbound"
      BY <1>3, <2>1, <2>4
      DEF LoseRetain, Status, IsBound, Unbound, IInv, LiveWereAdmitted
    <2>6. \A q \in Participants \ {p} : Status'[q] = Status[q]
      BY <1>3, <2>4 DEF LoseRetain, Status, IsBound
    <2>7. Status' = [Status EXCEPT ![p] = "Unbound"]
      BY <2>5, <2>6, StatusUpdate
    <2> QED
      BY <1>3, <2>3, <2>7 DEF LoseRetain, Contract!Retain, Contract!Unbound
  <1>4. ASSUME NEW p \in Participants, NEW c \in Connections, BindReplacement(p, c)
        PROVE  Contract!Bind(p, c)
    <2>1. /\ Status[p] = "Unbound"
          /\ used_participants' = used_participants \cup {p}
      BY <1>4, StatusValues DEF BindReplacement, IsUnbound
    <2> QED
      BY <1>4, <2>1, BindRefines DEF BindReplacement
  <1>5. ASSUME NEW p \in Participants, RemoveParticipant(p)
        PROVE  \E S \in SUBSET Participants : Contract!End(S)
    <2>1. Contract!End({p})
      BY <1>5, EndRefines DEF RemoveParticipant
    <2> QED
      BY <2>1
  <1>6. ASSUME NEW now \in Time, AdvanceRecoveryClock(now)
        PROVE  \E S \in SUBSET Participants : Contract!End(S)
    <2>1. Expired(now) \subseteq Live /\ Expired(now) \in SUBSET Participants
      BY DEF Expired, IInv, TypeOK
    <2>2. Contract!End(Expired(now))
      BY <1>6, <2>1, EndRefines DEF AdvanceRecoveryClock
    <2> QED
      BY <2>1, <2>2
  <1>7. CASE Close
    <2>1. Live' = {}
      BY <1>7, EmptyMapIsEmpty DEF Close, Live
    <2>2. \A p \in Participants :
             Status'[p] = IF Status[p] \in Connections \cup {"Unbound"}
                          THEN "Ended" ELSE Status[p]
      <3> SUFFICES ASSUME NEW p \in Participants
                   PROVE  Status'[p] = IF Status[p] \in Connections \cup {"Unbound"}
                                       THEN "Ended" ELSE Status[p]
        OBVIOUS
      <3>1. CASE p \in Live
        <4>1. Status[p] \in Connections \cup {"Unbound"} /\ p \in used_participants
          BY <3>1, StatusValues
        <4> QED
          BY <1>7, <2>1, <4>1 DEF Close, Status
      <3>2. CASE p \notin Live
        <4>1. Status[p] \in {"Fresh", "Ended"} /\ Status'[p] = Status[p]
          BY <1>7, <2>1, <3>2 DEF Close, Status
        <4> QED
          BY <4>1, SessionAssumption
      <3> QED
        BY <3>1, <3>2
    <2>3. Status' = [p \in Participants |-> Status'[p]]
      BY DEF Status
    <2> QED
      BY <1>7, <2>2, <2>3
      DEF Close, Contract!Next, Contract!Close, Contract!Ended, Contract!Unbound
  <1>8. CASE UNCHANGED vars
    BY <1>8 DEF vars, Contract!vars, Status, IsBound, Live
  <1> QED
    BY <1>1, <1>2, <1>3, <1>4, <1>5, <1>6, <1>7, <1>8
    DEF Next, ConnectionLost, Contract!Next

\* The tables, clock and limits of the session implement the contract: one life
\* per identity, one speaker per connection, no change of connection without a
\* loss in between.
THEOREM SessionRefinesContract == Spec => ImplementsContract
  BY Invariance, InitContract, StepRefines, PTL DEF Spec, ImplementsContract, Contract!Spec

-----------------------------------------------------------------------------
(* Input. A key is accepted at most once. Nothing in the code remembers    *)
(* the keys it has accepted: what keeps an accepted key out is, in turn,   *)
(* the batch that is retained, the window that has moved past it and, once *)
(* the input is released, the session, which never admits the participant  *)
(* again.                                                                  *)

\* Why the key <<p, t>> cannot be accepted (again).
IsClosed(p, t) ==
  IF p \in DOMAIN inputs
  THEN t < inputs[p].window.minimum \/ t \in DOMAIN inputs[p].retained
  ELSE p \notin Live

InputsWereAdmitted ==
  /\ DOMAIN inputs \subseteq used_participants
  /\ \A p \in DOMAIN inputs :
       /\ inputs[p].window \in Window /\ DOMAIN inputs[p].retained \subseteq TargetTick
       /\ DOMAIN inputs[p] = {"window", "retained", "bytes"}

AcceptedAreClosed ==
  \A p \in Participants, t \in TargetTick :
    <<p, t>> \in accepted => p \in used_participants /\ IsClosed(p, t)

KeysInv == IInv /\ InputsWereAdmitted /\ AcceptedAreClosed

LEMMA WindowTicks ==
  ASSUME NEW w \in Window
  PROVE  w.minimum \in Int /\ w.maximum \in Int /\ w.minimum <= w.maximum
  BY AuthorityInputAssumption DEF Window, TargetTick

LEMMA InitKeysInv == InputInit => KeysInv
  <1> SUFFICES ASSUME InputInit PROVE KeysInv
    OBVIOUS
  <1>1. IInv
    BY InitIInv DEF InputInit
  <1>2. DOMAIN inputs = {}
    BY EmptyMapIsEmpty DEF InputInit
  <1> QED
    BY <1>1, <1>2 DEF InputInit, KeysInv, InputsWereAdmitted, AcceptedAreClosed

\* No step of the session or of the input forgets a used identity or revives one.
LEMMA SessionMoves ==
  ASSUME IInv, [Next]_vars
  PROVE  /\ IInv'
         /\ used_participants \subseteq used_participants'
         /\ \A p \in Participants : p \in used_participants /\ p \notin Live => p \notin Live'
  <1>1. used_participants \subseteq used_participants'
    BY DEF Next, vars, AdmitNew, ConnectionLost, LoseTerminate, LoseRetain, BindReplacement,
           RemoveParticipant, AdvanceRecoveryClock, Close
  <1> QED
    BY <1>1, NextIInv, EndedStaysEnded

\* The session moves under the input: a participant may lose its membership, but
\* its input stays, and one whose input was released does not come back.
LEMMA SessionStep ==
  ASSUME KeysInv, Next, UNCHANGED inputVars
  PROVE  KeysInv'
  <1>1. /\ IInv'
        /\ used_participants \subseteq used_participants'
        /\ \A p \in Participants : p \in used_participants /\ p \notin Live => p \notin Live'
    BY SessionMoves DEF KeysInv
  <1>2. InputsWereAdmitted'
    BY <1>1 DEF KeysInv, InputsWereAdmitted, inputVars
  <1>3. AcceptedAreClosed'
    BY <1>1 DEF KeysInv, AcceptedAreClosed, IsClosed, inputVars
  <1> QED
    BY <1>1, <1>2, <1>3 DEF KeysInv

\* The input moves over a session that stands still.
LEMMA SessionStands ==
  ASSUME KeysInv, UNCHANGED vars
  PROVE  IInv' /\ used_participants' = used_participants /\ Live' = Live
  BY NextIInv DEF KeysInv, vars, Live

\* A live participant that has no input never had a batch accepted: had it been
\* released, the participant would have left.
LEMMA AddStep ==
  ASSUME KeysInv, NEW p \in Participants, NEW w \in Window, AddParticipant(p, w)
  PROVE  KeysInv'
  <1>1. IInv' /\ used_participants' = used_participants /\ Live' = Live
    BY SessionStands DEF AddParticipant
  <1>2. /\ DOMAIN inputs' = DOMAIN inputs \cup {p}
        /\ DOMAIN inputs'[p] = {"window", "retained", "bytes"}
        /\ inputs'[p].window = w /\ DOMAIN inputs'[p].retained = {}
        /\ \A q \in DOMAIN inputs : inputs'[q] = inputs[q]
        /\ accepted' = accepted
    BY EmptyMapIsEmpty DEF AddParticipant, Put, NewParticipantInput
  <1>3. p \in used_participants
    BY DEF AddParticipant, KeysInv, IInv, LiveWereAdmitted
  <1>4. \A t \in TargetTick : <<p, t>> \notin accepted
    BY DEF AddParticipant, KeysInv, AcceptedAreClosed, IsClosed
  <1>5. InputsWereAdmitted'
    BY <1>1, <1>2, <1>3 DEF KeysInv, InputsWereAdmitted
  <1>6. AcceptedAreClosed'
    BY <1>1, <1>2, <1>4 DEF KeysInv, AcceptedAreClosed, IsClosed
  <1> QED
    BY <1>1, <1>5, <1>6 DEF KeysInv

\* What the new window releases lies before it.
LEMMA AdvanceStep ==
  ASSUME KeysInv, NEW p \in Participants, NEW w \in Window, AdvanceWindow(p, w)
  PROVE  KeysInv'
  <1> DEFINE closed == {t \in DOMAIN inputs[p].retained : t < w.minimum}
  <1>1. IInv' /\ used_participants' = used_participants /\ Live' = Live
    BY SessionStands DEF AdvanceWindow
  <1>2. /\ p \in DOMAIN inputs /\ DOMAIN inputs' = DOMAIN inputs
        /\ DOMAIN inputs'[p] = {"window", "retained", "bytes"}
        /\ inputs'[p].window = w /\ inputs'[p].retained = Drop(inputs[p].retained, closed)
        /\ \A q \in DOMAIN inputs : q # p => inputs'[q] = inputs[q]
        /\ accepted' = accepted
    BY DEF AdvanceWindow, Put
  <1>3. DOMAIN inputs'[p].retained = DOMAIN inputs[p].retained \ closed
    BY <1>2 DEF Drop, Restrict
  <1>4. InputsWereAdmitted'
    BY <1>1, <1>2, <1>3 DEF KeysInv, InputsWereAdmitted
  <1>5. ASSUME NEW t \in TargetTick, IsClosed(p, t) PROVE IsClosed(p, t)'
    <2>1. /\ inputs[p].window.minimum \in Int /\ w.minimum \in Int /\ t \in Int
          /\ inputs[p].window.minimum <= w.minimum
      BY <1>2, WindowTicks DEF AdvanceWindow, Advances, KeysInv, InputsWereAdmitted, TargetTick
    <2> QED
      BY <1>2, <1>3, <1>5, <2>1 DEF IsClosed
  <1>6. ASSUME NEW q \in Participants, NEW t \in TargetTick, q # p, IsClosed(q, t)
        PROVE  IsClosed(q, t)'
    BY <1>1, <1>2, <1>6 DEF IsClosed
  <1>7. AcceptedAreClosed'
    BY <1>1, <1>2, <1>5, <1>6 DEF KeysInv, AcceptedAreClosed
  <1> QED
    BY <1>1, <1>4, <1>7 DEF KeysInv

\* Input is released only of participants that are live no more.
LEMMA ReconcileStep ==
  ASSUME KeysInv, ReconcileMemberships
  PROVE  KeysInv'
  <1>1. IInv' /\ used_participants' = used_participants /\ Live' = Live
    BY SessionStands DEF ReconcileMemberships
  <1>2. /\ DOMAIN inputs' = DOMAIN inputs \ (DOMAIN inputs \ Live)
        /\ \A q \in DOMAIN inputs' : inputs'[q] = inputs[q]
        /\ accepted' = accepted
    BY DEF ReconcileMemberships, Drop, Restrict
  <1>3. InputsWereAdmitted'
    BY <1>1, <1>2 DEF KeysInv, InputsWereAdmitted
  <1>4. AcceptedAreClosed'
    BY <1>1, <1>2 DEF KeysInv, AcceptedAreClosed, IsClosed
  <1> QED
    BY <1>1, <1>3, <1>4 DEF KeysInv

LEMMA SubmitStep ==
  ASSUME KeysInv, NEW p \in Participants, NEW c \in Connections, NEW t \in TargetTick,
         NEW b \in Batches, Submit(p, c, t, b)
  PROVE  KeysInv'
  <1>1. IInv' /\ used_participants' = used_participants /\ Live' = Live
    BY SessionStands DEF Submit
  <1>2. /\ p \in DOMAIN inputs /\ DOMAIN inputs' = DOMAIN inputs
        /\ inputs'[p] = [inputs[p] EXCEPT !.retained = Put(@, t, b), !.bytes = @ + BatchBytes[b]]
        /\ \A q \in DOMAIN inputs : q # p => inputs'[q] = inputs[q]
        /\ accepted' = accepted \cup {<<p, t>>}
    BY DEF Submit, Put
  <1>3. DOMAIN inputs[p] = {"window", "retained", "bytes"}
    BY <1>2 DEF KeysInv, InputsWereAdmitted
  <1>4. /\ DOMAIN inputs'[p] = {"window", "retained", "bytes"}
        /\ inputs'[p].window = inputs[p].window
        /\ inputs'[p].retained = Put(inputs[p].retained, t, b)
    BY <1>2, <1>3
  <1>5. DOMAIN inputs'[p].retained = DOMAIN inputs[p].retained \cup {t}
    BY <1>4 DEF Put
  <1>6. InputsWereAdmitted'
    BY <1>1, <1>2, <1>4, <1>5 DEF KeysInv, InputsWereAdmitted
  <1>7. \A q \in Participants, u \in TargetTick : IsClosed(q, u) => IsClosed(q, u)'
    BY <1>1, <1>2, <1>4, <1>5 DEF IsClosed
  <1>8. p \in used_participants /\ IsClosed(p, t)'
    BY <1>2, <1>5 DEF KeysInv, InputsWereAdmitted, IsClosed
  <1>9. AcceptedAreClosed'
    <2> SUFFICES ASSUME NEW q \in Participants, NEW u \in TargetTick, <<q, u>> \in accepted'
                 PROVE  q \in used_participants' /\ IsClosed(q, u)'
      BY DEF AcceptedAreClosed
    <2>1. <<q, u>> \in accepted \/ (q = p /\ u = t)
      BY <1>2
    <2> QED
      BY <1>1, <1>7, <1>8, <2>1 DEF KeysInv, AcceptedAreClosed
  <1> QED
    BY <1>1, <1>6, <1>9 DEF KeysInv

LEMMA NextKeysInv == KeysInv /\ [InputNext]_<<vars, inputVars>> => KeysInv'
  <1> SUFFICES ASSUME KeysInv, [InputNext]_<<vars, inputVars>> PROVE KeysInv'
    OBVIOUS
  <1>1. CASE Next /\ UNCHANGED inputVars
    BY <1>1, SessionStep
  <1>2. ASSUME NEW p \in Participants, NEW w \in Window, AddParticipant(p, w)
        PROVE  KeysInv'
    BY <1>2, AddStep
  <1>3. ASSUME NEW p \in Participants, NEW w \in Window, AdvanceWindow(p, w)
        PROVE  KeysInv'
    BY <1>3, AdvanceStep
  <1>4. CASE ReconcileMemberships
    BY <1>4, ReconcileStep
  <1>5. ASSUME NEW p \in Participants, NEW c \in Connections, NEW t \in TargetTick,
               NEW b \in Batches, Submit(p, c, t, b)
        PROVE  KeysInv'
    BY <1>5, SubmitStep
  <1>6. CASE UNCHANGED <<vars, inputVars>>
    <2>1. IInv'
      BY <1>6, SessionStands
    <2> QED
      BY <1>6, <2>1 DEF KeysInv, InputsWereAdmitted, AcceptedAreClosed, IsClosed, inputVars,
                        vars, Live
  <1> QED
    BY <1>1, <1>2, <1>3, <1>4, <1>5, <1>6 DEF InputNext, InputStep

LEMMA KeysInvariance == InputSpec => []KeysInv
  BY InitKeysInv, NextKeysInv, PTL DEF InputSpec
-----------------------------------------------------------------------------

\* What KeysAreAcceptedOnce asks of a step.
AcceptsOnce ==
  \A p \in DOMAIN inputs' :
    LET before == IF p \in DOMAIN inputs THEN inputs[p].retained ELSE EmptyMap
        after == inputs'[p].retained
    IN \A t \in DOMAIN after :
         IF t \in DOMAIN before THEN after[t] = before[t] ELSE <<p, t>> \notin accepted

\* An input that is left alone, or loses batches, accepts nothing.
LEMMA ReleaseAcceptsOnce ==
  ASSUME DOMAIN inputs' \subseteq DOMAIN inputs,
         \A p \in DOMAIN inputs' :
           /\ DOMAIN inputs'[p].retained \subseteq DOMAIN inputs[p].retained
           /\ \A t \in DOMAIN inputs'[p].retained : inputs'[p].retained[t] = inputs[p].retained[t]
  PROVE  AcceptsOnce
  BY DEF AcceptsOnce

LEMMA StepAcceptsOnce == KeysInv /\ [InputNext]_<<vars, inputVars>> => AcceptsOnce
  <1> SUFFICES ASSUME KeysInv, [InputNext]_<<vars, inputVars>> PROVE AcceptsOnce
    OBVIOUS
  <1>1. CASE UNCHANGED inputs
    BY <1>1, ReleaseAcceptsOnce
  <1>2. ASSUME NEW p \in Participants, NEW w \in Window, AddParticipant(p, w)
        PROVE  AcceptsOnce
    BY <1>2, EmptyMapIsEmpty DEF AddParticipant, Put, NewParticipantInput, AcceptsOnce
  <1>3. ASSUME NEW p \in Participants, NEW w \in Window, AdvanceWindow(p, w)
        PROVE  AcceptsOnce
    BY <1>3, ReleaseAcceptsOnce DEF AdvanceWindow, Put, Drop, Restrict
  <1>4. CASE ReconcileMemberships
    BY <1>4, ReleaseAcceptsOnce DEF ReconcileMemberships, Drop, Restrict
  <1>5. ASSUME NEW p \in Participants, NEW c \in Connections, NEW t \in TargetTick,
               NEW b \in Batches, Submit(p, c, t, b)
        PROVE  AcceptsOnce
    <2>1. /\ p \in DOMAIN inputs /\ DOMAIN inputs' = DOMAIN inputs
          /\ inputs'[p] = [inputs[p] EXCEPT !.retained = Put(@, t, b),
                                            !.bytes = @ + BatchBytes[b]]
          /\ \A q \in DOMAIN inputs : q # p => inputs'[q] = inputs[q]
      BY <1>5 DEF Submit, Put
    <2>2. inputs'[p].retained = Put(inputs[p].retained, t, b)
      BY <2>1 DEF KeysInv, InputsWereAdmitted
    <2>3. <<p, t>> \notin accepted
      <3>1. /\ inputs[p].window.minimum \in Int /\ t \in Int
            /\ inputs[p].window.minimum <= t /\ t \notin DOMAIN inputs[p].retained
        BY <1>5, <2>1, WindowTicks DEF Submit, KeysInv, InputsWereAdmitted, TargetTick
      <3> QED
        BY <2>1, <3>1 DEF KeysInv, AcceptedAreClosed, IsClosed
    <2>4. /\ DOMAIN inputs'[p].retained = DOMAIN inputs[p].retained \cup {t}
          /\ \A u \in DOMAIN inputs[p].retained :
               u # t => inputs'[p].retained[u] = inputs[p].retained[u]
          /\ t \notin DOMAIN inputs[p].retained
      BY <1>5, <2>2 DEF Put, Submit
    <2> QED
      BY <2>1, <2>3, <2>4 DEF AcceptsOnce
  <1> QED
    BY <1>1, <1>2, <1>3, <1>4, <1>5 DEF InputNext, InputStep, inputVars

\* However windows move, connections are replaced, memberships end and evidence is
\* released, submit accepts a batch for a participant and tick at most once, and
\* what is retained for them is never exchanged.
THEOREM AcceptedOnce == InputSpec => KeysAreAcceptedOnce
  <1>1. KeysInv /\ [InputNext]_<<vars, inputVars>>
          => [\A p \in DOMAIN inputs' :
                LET before == IF p \in DOMAIN inputs THEN inputs[p].retained ELSE EmptyMap
                    after == inputs'[p].retained
                IN \A t \in DOMAIN after :
                     IF t \in DOMAIN before THEN after[t] = before[t]
                     ELSE <<p, t>> \notin accepted]_<<vars, inputVars>>
    BY StepAcceptsOnce DEF AcceptsOnce
  <1> QED
    BY <1>1, KeysInvariance, PTL DEF InputSpec, KeysAreAcceptedOnce

\* The session keeps its promises while the authority's input is taken from it.
THEOREM SessionUnderInput == InputSpec => [](TypeOK /\ BindingsAgree /\ NoOverdueMembership)
  BY KeysInvariance, PTL DEF KeysInv, IInv
-----------------------------------------------------------------------------
(* The accounting                                                          *)

InputsAreFinite ==
  /\ IsFiniteSet(DOMAIN inputs)
  /\ \A p \in DOMAIN inputs :
       inputs[p].retained \in [DOMAIN inputs[p].retained -> Batches]

AccountsInv == KeysInv /\ InputsAreFinite /\ InputsAreAccounted

\* The batches of one participant may be released in parts.
LEMMA ReleasedBytes ==
  ASSUME NEW r, r \in [DOMAIN r -> Batches], DOMAIN r \subseteq TargetTick,
         NEW U \in SUBSET DOMAIN r
  PROVE  /\ IsFiniteSet(DOMAIN r) /\ IsFiniteSet(U)
         /\ DOMAIN Drop(r, U) = DOMAIN r \ U
         /\ BytesAt(r, DOMAIN r) \in Nat /\ BytesAt(r, U) \in Nat
         /\ BytesAt(Drop(r, U), DOMAIN Drop(r, U)) \in Nat
         /\ BytesAt(r, DOMAIN r)
              = BytesAt(r, U) + BytesAt(Drop(r, U), DOMAIN Drop(r, U))
         /\ Cardinality(U) \in Nat
         /\ Cardinality(DOMAIN r)
              = Cardinality(U) + Cardinality(DOMAIN Drop(r, U))
         /\ Cardinality(DOMAIN Drop(r, U)) \in Nat
  <1>1. IsFiniteSet(TargetTick)
    <2>1. 0 \in Int /\ MaxTargetTick \in Int
      BY AuthorityInputAssumption
    <2>2. IsFiniteSet(0 .. MaxTargetTick)
      BY <2>1, FS_Interval
    <2> QED
      BY <2>2 DEF TargetTick
  <1>2. IsFiniteSet(DOMAIN r) /\ IsFiniteSet(U) /\ IsFiniteSet(DOMAIN r \ U)
    BY <1>1, FS_Subset
  <1>3. DOMAIN Drop(r, U) = DOMAIN r \ U /\ \A t \in DOMAIN r \ U : Drop(r, U)[t] = r[t]
    BY DEF Drop, Restrict
  <1> DEFINE f == [t \in DOMAIN r |-> BatchBytes[r[t]]]
             g == [t \in U |-> BatchBytes[r[t]]]
             h == [t \in DOMAIN Drop(r, U) |-> BatchBytes[Drop(r, U)[t]]]
  <1>4. f \in [DOMAIN r -> Nat] /\ g \in [U -> Nat] /\ h \in [DOMAIN r \ U -> Nat]
    BY <1>3, AuthorityInputAssumption
  <1>5. (\A t \in U : g[t] = f[t]) /\ (\A t \in DOMAIN r \ U : h[t] = f[t])
    BY <1>3
  <1>6. /\ BytesAt(r, DOMAIN r) = SumFunction(f) /\ BytesAt(r, U) = SumFunction(g)
        /\ BytesAt(Drop(r, U), DOMAIN Drop(r, U)) = SumFunction(h)
    BY DEF BytesAt
  <1> HIDE DEF f, g, h
  <1>7. SumFunction(f) \in Nat /\ SumFunction(g) \in Nat /\ SumFunction(h) \in Nat
    BY <1>2, <1>4, SumIsNat
  <1>8. SumFunction(f) = SumFunction(g) + SumFunction(h)
    <2>1. f \in [DOMAIN r -> Int] /\ g \in [U -> Int] /\ h \in [DOMAIN r \ U -> Int]
      BY <1>4
    <2>2. IsFiniteSet(DOMAIN r) /\ U \in SUBSET DOMAIN r
      BY <1>2
    <2> DEFINE S == DOMAIN r
    <2>3. /\ IsFiniteSet(S) /\ U \in SUBSET S /\ f \in [S -> Int]
          /\ DOMAIN g = U /\ DOMAIN h = S \ U /\ IsFiniteSet(U) /\ IsFiniteSet(S \ U)
          /\ (\A t \in U : g[t] = f[t]) /\ (\A t \in S \ U : h[t] = f[t])
      BY <2>1, <2>2, <1>2, <1>5
    <2> HIDE DEF S
    <2>4. SumFunction(f) = SumFunctionOnSet(f, U) + SumFunctionOnSet(f, S \ U)
      BY <2>3, SumSplits
    <2>5. SumFunction(g) = SumFunctionOnSet(f, U)
      BY <2>3, SumOverSubset
    <2>6. SumFunction(h) = SumFunctionOnSet(f, S \ U)
      BY <2>3, SumOverSubset
    <2> QED
      BY <2>4, <2>5, <2>6
  <1>9. /\ Cardinality(U) \in Nat /\ Cardinality(DOMAIN r \ U) \in Nat
        /\ Cardinality(DOMAIN r) = Cardinality(U) + Cardinality(DOMAIN r \ U)
    <2>1. U \cap (DOMAIN r \ U) = {} /\ U \cup (DOMAIN r \ U) = DOMAIN r
      OBVIOUS
    <2>2. Cardinality(U) \in Nat /\ Cardinality(DOMAIN r \ U) \in Nat
      BY <1>2, FS_CardinalityType
    <2>3. Cardinality(U \cup (DOMAIN r \ U)) = Cardinality(U) + Cardinality(DOMAIN r \ U)
                                               - Cardinality(U \cap (DOMAIN r \ U))
      BY <1>2, FS_Union
    <2>4. Cardinality({}) = 0
      BY FS_EmptySet
    <2>5. Cardinality(DOMAIN r) = Cardinality(U) + Cardinality(DOMAIN r \ U) - 0
      BY <2>1, <2>3, <2>4
    <2> QED
      BY <2>2, <2>5
  <1> QED
    BY <1>2, <1>3, <1>6, <1>7, <1>8, <1>9

\* One more batch.
LEMMA AddedBytes ==
  ASSUME NEW r, r \in [DOMAIN r -> Batches], DOMAIN r \subseteq TargetTick,
         NEW t \in TargetTick, t \notin DOMAIN r, NEW b \in Batches
  PROVE  /\ BytesAt(Put(r, t, b), DOMAIN Put(r, t, b)) = BytesAt(r, DOMAIN r) + BatchBytes[b]
         /\ Cardinality(DOMAIN Put(r, t, b)) = Cardinality(DOMAIN r) + 1
         /\ Put(r, t, b) \in [DOMAIN Put(r, t, b) -> Batches]
         /\ DOMAIN Put(r, t, b) = DOMAIN r \cup {t}
  <1>1. IsFiniteSet(DOMAIN r)
    BY ReleasedBytes
  <1>2. /\ DOMAIN Put(r, t, b) = DOMAIN r \cup {t} /\ Put(r, t, b)[t] = b
        /\ \A u \in DOMAIN r : Put(r, t, b)[u] = r[u]
        /\ Put(r, t, b) \in [DOMAIN Put(r, t, b) -> Batches]
    BY DEF Put
  <1> DEFINE f == [u \in DOMAIN r |-> BatchBytes[r[u]]]
             g == [u \in DOMAIN Put(r, t, b) |-> BatchBytes[Put(r, t, b)[u]]]
  <1>3. /\ f \in [DOMAIN r -> Int] /\ g \in [DOMAIN r \cup {t} -> Int]
        /\ \A u \in DOMAIN r : g[u] = f[u]
        /\ g[t] = BatchBytes[b]
    BY <1>2, AuthorityInputAssumption
  <1>4. BytesAt(r, DOMAIN r) = SumFunction(f)
        /\ BytesAt(Put(r, t, b), DOMAIN Put(r, t, b)) = SumFunction(g)
    BY DEF BytesAt
  <1> HIDE DEF f, g
  <1>5. SumFunction(g) = SumFunction(f) + g[t]
    <2> DEFINE S == DOMAIN r
               T == DOMAIN r \cup {t}
    <2> HIDE DEF S, T
    <2>1. /\ IsFiniteSet(S) /\ t \notin S /\ T = S \cup {t}
          /\ f \in [S -> Int] /\ g \in [T -> Int] /\ \A u \in S : g[u] = f[u]
      BY <1>1, <1>3 DEF S, T
    <2> QED
      BY <2>1, SumGrows
  <1>6. Cardinality(DOMAIN r \cup {t}) = Cardinality(DOMAIN r) + 1
    BY <1>1, FS_AddElement
  <1> QED
    BY <1>2, <1>3, <1>4, <1>5, <1>6

\* What the counters of the participants are: natural numbers.
LEMMA CountersAreNat ==
  ASSUME AccountsInv, NEW p \in DOMAIN inputs
  PROVE  /\ Cardinality(DOMAIN inputs[p].retained) \in Nat /\ inputs[p].bytes \in Nat
         /\ DOMAIN inputs[p].retained \subseteq TargetTick
         /\ inputs[p].retained \in [DOMAIN inputs[p].retained -> Batches]
  <1>1. /\ DOMAIN inputs[p].retained \subseteq TargetTick
        /\ inputs[p].retained \in [DOMAIN inputs[p].retained -> Batches]
    BY DEF AccountsInv, KeysInv, InputsWereAdmitted, InputsAreFinite
  <1>2. /\ BytesAt(inputs[p].retained, DOMAIN inputs[p].retained) \in Nat
        /\ Cardinality(DOMAIN inputs[p].retained) \in Nat
    <2>1. IsFiniteSet(DOMAIN inputs[p].retained)
      BY <1>1, ReleasedBytes
    <2> QED
      BY <1>1, <2>1, ReleasedBytes, FS_CardinalityType
  <1> QED
    BY <1>1, <1>2 DEF AccountsInv, InputsAreAccounted

\* Both counters follow a change of what one participant holds.
LEMMA OneParticipantChanges ==
  ASSUME AccountsInv, NEW p \in DOMAIN inputs, DOMAIN inputs' = DOMAIN inputs,
         \A q \in DOMAIN inputs : q # p => inputs'[q] = inputs[q],
         Cardinality(DOMAIN inputs'[p].retained) \in Nat, inputs'[p].bytes \in Nat
  PROVE  /\ KeysOf(DOMAIN inputs)' = KeysOf(DOMAIN inputs)
              - Cardinality(DOMAIN inputs[p].retained) + Cardinality(DOMAIN inputs'[p].retained)
         /\ BytesOf(DOMAIN inputs)' = BytesOf(DOMAIN inputs) - inputs[p].bytes + inputs'[p].bytes
  <1> DEFINE D == DOMAIN inputs
             f == [q \in D |-> Cardinality(DOMAIN inputs[q].retained)]
             g == [q \in D |-> Cardinality(DOMAIN inputs'[q].retained)]
             fb == [q \in D |-> inputs[q].bytes]
             gb == [q \in D |-> inputs'[q].bytes]
  <1>1. \A q \in D : Cardinality(DOMAIN inputs[q].retained) \in Nat /\ inputs[q].bytes \in Nat
    BY CountersAreNat
  <1>2. /\ f \in [D -> Int] /\ g \in [D -> Int] /\ fb \in [D -> Int] /\ gb \in [D -> Int]
        /\ \A q \in D \ {p} : g[q] = f[q] /\ gb[q] = fb[q]
    BY <1>1
  <1>3. IsFiniteSet(D)
    BY DEF AccountsInv, InputsAreFinite
  <1>4. /\ f[p] = Cardinality(DOMAIN inputs[p].retained)
        /\ g[p] = Cardinality(DOMAIN inputs'[p].retained)
        /\ fb[p] = inputs[p].bytes /\ gb[p] = inputs'[p].bytes
    OBVIOUS
  <1>5. /\ KeysOf(DOMAIN inputs) = SumFunction(f) /\ KeysOf(DOMAIN inputs)' = SumFunction(g)
        /\ BytesOf(DOMAIN inputs) = SumFunction(fb) /\ BytesOf(DOMAIN inputs)' = SumFunction(gb)
    BY DEF KeysOf, BytesOf
  <1>6. p \in D
    OBVIOUS
  <1> HIDE DEF D, f, g, fb, gb
  <1>7. /\ SumFunction(g) = SumFunction(f) - f[p] + g[p]
        /\ SumFunction(gb) = SumFunction(fb) - fb[p] + gb[p]
    BY <1>2, <1>3, <1>6, SumChanges
  <1> QED
    BY <1>4, <1>5, <1>7

LEMMA HoldingsAreInt ==
  ASSUME AccountsInv
  PROVE  KeysOf(DOMAIN inputs) \in Int /\ BytesOf(DOMAIN inputs) \in Int
  <1> DEFINE D == DOMAIN inputs
             f == [q \in D |-> Cardinality(DOMAIN inputs[q].retained)]
             fb == [q \in D |-> inputs[q].bytes]
  <1>1. f \in [D -> Int] /\ fb \in [D -> Int]
    BY CountersAreNat
  <1>2. IsFiniteSet(D)
    BY DEF AccountsInv, InputsAreFinite
  <1>3. KeysOf(DOMAIN inputs) = SumFunction(f) /\ BytesOf(DOMAIN inputs) = SumFunction(fb)
    BY DEF KeysOf, BytesOf
  <1> HIDE DEF D, f, fb
  <1> QED
    BY <1>1, <1>2, <1>3, SumIsInt

\* At first nothing is held.
LEMMA InitAccounts == InputInit => AccountsInv
  <1> SUFFICES ASSUME InputInit PROVE AccountsInv
    OBVIOUS
  <1>1. DOMAIN inputs = {} /\ retained_keys = 0 /\ retained_bytes = 0
    BY EmptyMapIsEmpty DEF InputInit
  <1>2. KeysOf(DOMAIN inputs) = 0 /\ BytesOf(DOMAIN inputs) = 0
    BY <1>1, SumOfNone DEF KeysOf, BytesOf
  <1>3. IsFiniteSet(DOMAIN inputs)
    BY <1>1, FS_EmptySet
  <1>4. SharedInputLimits.keys \in Nat /\ SharedInputLimits.bytes \in Nat
    BY AuthorityInputAssumption
  <1> QED
    BY <1>1, <1>2, <1>3, <1>4, InitKeysInv
    DEF AccountsInv, InputsAreFinite, InputsAreAccounted

\* A step that leaves the input alone.
LEMMA InputStands ==
  ASSUME AccountsInv, KeysInv', UNCHANGED inputVars
  PROVE  AccountsInv'
  <1>1. DOMAIN inputs \subseteq used_participants'
    BY DEF KeysInv, InputsWereAdmitted, inputVars
  <1>2. KeysOf(DOMAIN inputs)' = KeysOf(DOMAIN inputs)
        /\ BytesOf(DOMAIN inputs)' = BytesOf(DOMAIN inputs)
    BY DEF KeysOf, BytesOf, inputVars
  <1> QED
    BY <1>1, <1>2 DEF AccountsInv, InputsAreFinite, InputsAreAccounted, inputVars

LEMMA AddAccounts ==
  ASSUME AccountsInv, NEW p \in Participants, NEW w \in Window, AddParticipant(p, w), KeysInv'
  PROVE  AccountsInv'
  <1>1. /\ DOMAIN inputs' = DOMAIN inputs \cup {p} /\ p \notin DOMAIN inputs
        /\ inputs'[p] = NewParticipantInput(w)
        /\ \A q \in DOMAIN inputs : inputs'[q] = inputs[q]
        /\ retained_keys' = retained_keys /\ retained_bytes' = retained_bytes
        /\ Span(w) <= InputLimits.span
    BY DEF AddParticipant, Put
  <1>2. /\ inputs'[p].window = w /\ inputs'[p].retained = EmptyMap /\ inputs'[p].bytes = 0
        /\ DOMAIN EmptyMap = {}
    BY <1>1, EmptyMapIsEmpty DEF NewParticipantInput
  <1>3. Cardinality(DOMAIN inputs'[p].retained) = 0
    BY <1>2, FS_EmptySet
  <1>4. /\ KeysOf(DOMAIN inputs)' = KeysOf(DOMAIN inputs)
        /\ BytesOf(DOMAIN inputs)' = BytesOf(DOMAIN inputs)
    <2> DEFINE D == DOMAIN inputs
               E == DOMAIN inputs'
               f == [q \in D |-> Cardinality(DOMAIN inputs[q].retained)]
               g == [q \in E |-> Cardinality(DOMAIN inputs'[q].retained)]
               fb == [q \in D |-> inputs[q].bytes]
               gb == [q \in E |-> inputs'[q].bytes]
    <2>1. \A q \in D : Cardinality(DOMAIN inputs[q].retained) \in Nat /\ inputs[q].bytes \in Nat
      BY CountersAreNat
    <2>2. IsFiniteSet(D) /\ p \notin D /\ E = D \cup {p}
      BY <1>1 DEF AccountsInv, InputsAreFinite
    <2>3. /\ f \in [D -> Int] /\ g \in [E -> Int] /\ \A q \in D : g[q] = f[q]
          /\ fb \in [D -> Int] /\ gb \in [E -> Int] /\ \A q \in D : gb[q] = fb[q]
          /\ g[p] = 0 /\ gb[p] = 0
      BY <1>1, <1>2, <1>3, <2>1
    <2>4. /\ KeysOf(DOMAIN inputs) = SumFunction(f) /\ KeysOf(DOMAIN inputs)' = SumFunction(g)
          /\ BytesOf(DOMAIN inputs) = SumFunction(fb) /\ BytesOf(DOMAIN inputs)' = SumFunction(gb)
      BY DEF KeysOf, BytesOf
    <2> HIDE DEF D, E, f, g, fb, gb
    <2>5. /\ SumFunction(g) = SumFunction(f) + g[p] /\ SumFunction(gb) = SumFunction(fb) + gb[p]
          /\ SumFunction(f) \in Int /\ SumFunction(fb) \in Int
      BY <2>2, <2>3, SumGrows, SumIsInt
    <2> QED
      BY <2>3, <2>4, <2>5
  <1>5. BytesAt(EmptyMap, DOMAIN EmptyMap) = 0
    BY <1>2, SumOfNone DEF BytesAt
  <1>6. InputsAreFinite'
    <2>1. IsFiniteSet(DOMAIN inputs')
      BY <1>1, FS_AddElement DEF AccountsInv, InputsAreFinite
    <2>2. EmptyMap \in [DOMAIN EmptyMap -> Batches]
      BY EmptyMapIsEmpty
    <2> QED
      BY <1>1, <1>2, <2>1, <2>2 DEF AccountsInv, InputsAreFinite
  <1>7. InputLimits.bytes \in Nat /\ InputLimits.keys \in Nat
    BY AuthorityInputAssumption
  <1>8. DOMAIN inputs' \subseteq used_participants'
    BY DEF KeysInv, InputsWereAdmitted
  <1>9. InputsAreAccounted'
    <2>1. ASSUME NEW q \in DOMAIN inputs'
          PROVE LET i == inputs'[q]
                IN /\ i.window \in Window /\ Span(i.window) <= InputLimits.span
                   /\ DOMAIN i.retained \subseteq i.window.minimum .. i.window.maximum
                   /\ i.bytes = BytesAt(i.retained, DOMAIN i.retained)
                   /\ i.bytes <= InputLimits.bytes
                   /\ Cardinality(DOMAIN i.retained) <= InputLimits.keys
      <3>1. CASE q = p
        BY <1>1, <1>2, <1>3, <1>5, <1>7, <3>1
      <3>2. CASE q # p
        BY <1>1, <3>2 DEF AccountsInv, InputsAreAccounted
      <3> QED
        BY <3>1, <3>2
    <2> QED
      BY <1>1, <1>4, <1>8, <2>1 DEF AccountsInv, InputsAreAccounted
  <1> QED
    BY <1>6, <1>9 DEF AccountsInv

LEMMA AdvanceAccounts ==
  ASSUME AccountsInv, NEW p \in Participants, NEW w \in Window, AdvanceWindow(p, w), KeysInv'
  PROVE  AccountsInv'
  <1> DEFINE r == inputs[p].retained
             closed == {t \in DOMAIN r : t < w.minimum}
             kept == Drop(r, closed)
  <1>1. /\ p \in DOMAIN inputs /\ DOMAIN inputs' = DOMAIN inputs
        /\ inputs'[p] = [window |-> w, retained |-> kept,
                         bytes |-> inputs[p].bytes - BytesAt(r, closed)]
        /\ \A q \in DOMAIN inputs : q # p => inputs'[q] = inputs[q]
        /\ retained_keys' = retained_keys - Cardinality(closed)
        /\ retained_bytes' = retained_bytes - BytesAt(r, closed)
        /\ Advances(inputs[p].window, w)
    BY DEF AdvanceWindow, Put
  <1>2. /\ Cardinality(DOMAIN r) \in Nat /\ inputs[p].bytes \in Nat
        /\ DOMAIN r \subseteq TargetTick /\ r \in [DOMAIN r -> Batches]
        /\ inputs[p].bytes = BytesAt(r, DOMAIN r)
        /\ inputs[p].bytes <= InputLimits.bytes
        /\ Cardinality(DOMAIN r) <= InputLimits.keys
        /\ inputs[p].window \in Window
        /\ DOMAIN r \subseteq inputs[p].window.minimum .. inputs[p].window.maximum
    BY <1>1, CountersAreNat DEF AccountsInv, InputsAreAccounted
  <1>3. /\ DOMAIN kept = DOMAIN r \ closed
        /\ BytesAt(r, closed) \in Nat /\ BytesAt(kept, DOMAIN kept) \in Nat
        /\ BytesAt(r, DOMAIN r) = BytesAt(r, closed) + BytesAt(kept, DOMAIN kept)
        /\ Cardinality(closed) \in Nat /\ Cardinality(DOMAIN kept) \in Nat
        /\ Cardinality(DOMAIN r) = Cardinality(closed) + Cardinality(DOMAIN kept)
    <2>1. closed \in SUBSET DOMAIN r
      OBVIOUS
    <2> HIDE DEF r, closed
    <2> QED
      BY <1>2, <2>1, ReleasedBytes
  <1>4. /\ inputs'[p].window = w /\ inputs'[p].retained = kept
        /\ inputs'[p].bytes = BytesAt(kept, DOMAIN kept)
    BY <1>1, <1>2, <1>3
  <1>5. kept \in [DOMAIN kept -> Batches]
    BY <1>2, <1>3 DEF Drop, Restrict
  <1>6. DOMAIN kept \subseteq w.minimum .. w.maximum
    <2>1. /\ inputs[p].window.minimum \in Int /\ inputs[p].window.maximum \in Int
          /\ w.minimum \in Int /\ w.maximum \in Int
      BY <1>2, WindowTicks
    <2>2. inputs[p].window.maximum <= w.maximum
      BY <1>1 DEF Advances
    <2> SUFFICES ASSUME NEW t \in DOMAIN kept PROVE t \in w.minimum .. w.maximum
      OBVIOUS
    <2>3. t \in DOMAIN r /\ ~ (t < w.minimum)
      BY <1>3
    <2>4. t \in Int /\ t <= inputs[p].window.maximum
      BY <1>2, <2>1, <2>3
    <2> HIDE DEF kept, closed, r
    <2> QED
      BY <2>1, <2>2, <2>3, <2>4
  <1>7. Span(w) <= InputLimits.span
    BY <1>1 DEF Advances
  <1> HIDE DEF r, closed, kept
  <1>8. /\ KeysOf(DOMAIN inputs)' = KeysOf(DOMAIN inputs)
              - Cardinality(DOMAIN r) + Cardinality(DOMAIN kept)
        /\ BytesOf(DOMAIN inputs)' = BytesOf(DOMAIN inputs) - inputs[p].bytes + inputs'[p].bytes
    BY <1>1, <1>3, <1>4, OneParticipantChanges DEF r
  <1>9. KeysOf(DOMAIN inputs) \in Int /\ BytesOf(DOMAIN inputs) \in Int
    BY HoldingsAreInt
  <1>10. /\ retained_keys' = KeysOf(DOMAIN inputs)' /\ retained_bytes' = BytesOf(DOMAIN inputs)'
         /\ retained_keys' <= retained_keys /\ retained_bytes' <= retained_bytes
    <2>1. retained_keys = KeysOf(DOMAIN inputs) /\ retained_bytes = BytesOf(DOMAIN inputs)
      BY DEF AccountsInv, InputsAreAccounted
    <2> QED
      BY <1>1, <1>2, <1>3, <1>4, <1>8, <1>9, <2>1
  <1>11. InputsAreFinite'
    BY <1>1, <1>4, <1>5 DEF AccountsInv, InputsAreFinite
  <1>12. DOMAIN inputs' \subseteq used_participants'
    BY DEF KeysInv, InputsWereAdmitted
  <1>13. ASSUME NEW q \in DOMAIN inputs'
         PROVE LET i == inputs'[q]
               IN /\ i.window \in Window /\ Span(i.window) <= InputLimits.span
                  /\ DOMAIN i.retained \subseteq i.window.minimum .. i.window.maximum
                  /\ i.bytes = BytesAt(i.retained, DOMAIN i.retained)
                  /\ i.bytes <= InputLimits.bytes
                  /\ Cardinality(DOMAIN i.retained) <= InputLimits.keys
    <2>1. CASE q = p
      <3>1. BytesAt(kept, DOMAIN kept) <= InputLimits.bytes
            /\ Cardinality(DOMAIN kept) <= InputLimits.keys
        BY <1>2, <1>3, AuthorityInputAssumption
      <3> QED
        BY <1>4, <1>6, <1>7, <2>1, <3>1
    <2>2. CASE q # p
      BY <1>1, <2>2 DEF AccountsInv, InputsAreAccounted
    <2> QED
      BY <2>1, <2>2
  <1>14. retained_keys' <= SharedInputLimits.keys /\ retained_bytes' <= SharedInputLimits.bytes
    <2>1. /\ retained_keys <= SharedInputLimits.keys /\ retained_bytes <= SharedInputLimits.bytes
          /\ retained_keys \in Int /\ retained_bytes \in Int
      BY <1>9 DEF AccountsInv, InputsAreAccounted
    <2>2. SharedInputLimits.keys \in Int /\ SharedInputLimits.bytes \in Int
      BY AuthorityInputAssumption
    <2>3. retained_keys' \in Int /\ retained_bytes' \in Int
      BY <1>1, <1>3, <2>1
    <2> QED
      BY <1>10, <2>1, <2>2, <2>3
  <1> QED
    BY <1>1, <1>10, <1>11, <1>12, <1>13, <1>14 DEF AccountsInv, InputsAreAccounted

LEMMA ReconcileAccounts ==
  ASSUME AccountsInv, ReconcileMemberships, KeysInv'
  PROVE  AccountsInv'
  <1> DEFINE ended == DOMAIN inputs \ Live
  <1>1. /\ DOMAIN inputs' = DOMAIN inputs \ ended
        /\ \A q \in DOMAIN inputs' : inputs'[q] = inputs[q]
        /\ retained_keys' = retained_keys - KeysOf(ended)
        /\ retained_bytes' = retained_bytes - BytesOf(ended)
    BY DEF ReconcileMemberships, Drop, Restrict
  <1>2. IsFiniteSet(DOMAIN inputs) /\ IsFiniteSet(ended) /\ IsFiniteSet(DOMAIN inputs')
    BY <1>1, FS_Subset DEF AccountsInv, InputsAreFinite
  <1>3. /\ KeysOf(DOMAIN inputs) = KeysOf(ended) + KeysOf(DOMAIN inputs)'
        /\ BytesOf(DOMAIN inputs) = BytesOf(ended) + BytesOf(DOMAIN inputs)'
        /\ KeysOf(ended) \in Nat /\ BytesOf(ended) \in Nat
        /\ KeysOf(DOMAIN inputs)' \in Nat /\ BytesOf(DOMAIN inputs)' \in Nat
    <2> DEFINE D == DOMAIN inputs
               E == DOMAIN inputs'
               f == [q \in D |-> Cardinality(DOMAIN inputs[q].retained)]
               g == [q \in ended |-> Cardinality(DOMAIN inputs[q].retained)]
               h == [q \in E |-> Cardinality(DOMAIN inputs'[q].retained)]
               fb == [q \in D |-> inputs[q].bytes]
               gb == [q \in ended |-> inputs[q].bytes]
               hb == [q \in E |-> inputs'[q].bytes]
    <2>1. \A q \in D : Cardinality(DOMAIN inputs[q].retained) \in Nat /\ inputs[q].bytes \in Nat
      BY CountersAreNat
    <2>2. /\ IsFiniteSet(D) /\ IsFiniteSet(ended) /\ IsFiniteSet(E)
          /\ ended \in SUBSET D /\ E = D \ ended
      BY <1>1, <1>2
    <2>3. /\ f \in [D -> Nat] /\ g \in [ended -> Nat] /\ h \in [E -> Nat]
          /\ fb \in [D -> Nat] /\ gb \in [ended -> Nat] /\ hb \in [E -> Nat]
      BY <1>1, <2>1
    <2>4. /\ \A q \in ended : g[q] = f[q] /\ gb[q] = fb[q]
          /\ \A q \in D \ ended : h[q] = f[q] /\ hb[q] = fb[q]
      BY <1>1
    <2>5. /\ KeysOf(DOMAIN inputs) = SumFunction(f) /\ KeysOf(DOMAIN inputs)' = SumFunction(h)
          /\ BytesOf(DOMAIN inputs) = SumFunction(fb) /\ BytesOf(DOMAIN inputs)' = SumFunction(hb)
          /\ KeysOf(ended) = SumFunction(g) /\ BytesOf(ended) = SumFunction(gb)
      BY DEF KeysOf, BytesOf
    <2> HIDE DEF D, E, ended, f, g, h, fb, gb, hb
    <2>6. /\ f \in [D -> Int] /\ g \in [ended -> Int] /\ h \in [E -> Int]
          /\ fb \in [D -> Int] /\ gb \in [ended -> Int] /\ hb \in [E -> Int]
      BY <2>2, <2>3
    <2>7. /\ SumFunction(f) = SumFunction(g) + SumFunction(h)
          /\ SumFunction(fb) = SumFunction(gb) + SumFunction(hb)
      <3>1. IsFiniteSet(D) /\ ended \in SUBSET D
        BY <2>2
      <3>2. SumFunction(f) = SumFunction(g) + SumFunction(h)
        <4>1. SumFunction(f) = SumFunctionOnSet(f, ended) + SumFunctionOnSet(f, D \ ended)
          BY <2>6, <3>1, SumSplits
        <4>2. SumFunction(g) = SumFunctionOnSet(f, ended)
          BY <2>2, <2>4, <2>6, SumOverSubset
        <4>3. SumFunction(h) = SumFunctionOnSet(f, D \ ended)
          BY <2>2, <2>4, <2>6, SumOverSubset
        <4> QED
          BY <4>1, <4>2, <4>3
      <3>3. SumFunction(fb) = SumFunction(gb) + SumFunction(hb)
        <4>1. SumFunction(fb) = SumFunctionOnSet(fb, ended) + SumFunctionOnSet(fb, D \ ended)
          BY <2>6, <3>1, SumSplits
        <4>2. SumFunction(gb) = SumFunctionOnSet(fb, ended)
          BY <2>2, <2>4, <2>6, SumOverSubset
        <4>3. SumFunction(hb) = SumFunctionOnSet(fb, D \ ended)
          BY <2>2, <2>4, <2>6, SumOverSubset
        <4> QED
          BY <4>1, <4>2, <4>3
      <3> QED
        BY <3>2, <3>3
    <2>8. /\ SumFunction(g) \in Nat /\ SumFunction(h) \in Nat
          /\ SumFunction(gb) \in Nat /\ SumFunction(hb) \in Nat
      BY <2>2, <2>3, SumIsNat
    <2> QED
      BY <2>5, <2>7, <2>8
  <1>4. InputsAreFinite'
    BY <1>1, <1>2 DEF AccountsInv, InputsAreFinite
  <1>5. DOMAIN inputs' \subseteq used_participants'
    BY DEF KeysInv, InputsWereAdmitted
  <1>6. SharedInputLimits.keys \in Int /\ SharedInputLimits.bytes \in Int
    BY AuthorityInputAssumption
  <1>7. /\ retained_keys = KeysOf(DOMAIN inputs) /\ retained_bytes = BytesOf(DOMAIN inputs)
        /\ retained_keys <= SharedInputLimits.keys /\ retained_bytes <= SharedInputLimits.bytes
    BY DEF AccountsInv, InputsAreAccounted
  <1> HIDE DEF ended
  <1>8. /\ retained_keys' = KeysOf(DOMAIN inputs)' /\ retained_bytes' = BytesOf(DOMAIN inputs)'
        /\ retained_keys' <= SharedInputLimits.keys /\ retained_bytes' <= SharedInputLimits.bytes
    BY <1>1, <1>3, <1>6, <1>7
  <1> QED
    BY <1>1, <1>4, <1>5, <1>8 DEF AccountsInv, InputsAreAccounted, ended

LEMMA SubmitAccounts ==
  ASSUME AccountsInv, NEW p \in Participants, NEW c \in Connections, NEW t \in TargetTick,
         NEW b \in Batches, Submit(p, c, t, b), KeysInv'
  PROVE  AccountsInv'
  <1> DEFINE r == inputs[p].retained
             more == Put(r, t, b)
  <1>1. /\ p \in DOMAIN inputs /\ DOMAIN inputs' = DOMAIN inputs
        /\ inputs'[p] = [inputs[p] EXCEPT !.retained = Put(@, t, b), !.bytes = @ + BatchBytes[b]]
        /\ \A q \in DOMAIN inputs : q # p => inputs'[q] = inputs[q]
        /\ retained_keys' = retained_keys + 1
        /\ retained_bytes' = retained_bytes + BatchBytes[b]
        /\ t \notin DOMAIN r /\ inputs[p].window.minimum <= t /\ t <= inputs[p].window.maximum
    BY DEF Submit, Put
  <1>2. DOMAIN inputs[p] = {"window", "retained", "bytes"}
    BY <1>1 DEF AccountsInv, KeysInv, InputsWereAdmitted
  <1>3. /\ inputs'[p].window = inputs[p].window /\ inputs'[p].retained = more
        /\ inputs'[p].bytes = inputs[p].bytes + BatchBytes[b]
    BY <1>1, <1>2
  <1>4. /\ Cardinality(DOMAIN r) \in Nat /\ inputs[p].bytes \in Nat
        /\ DOMAIN r \subseteq TargetTick /\ r \in [DOMAIN r -> Batches]
        /\ inputs[p].bytes = BytesAt(r, DOMAIN r)
        /\ inputs[p].window \in Window /\ Span(inputs[p].window) <= InputLimits.span
        /\ DOMAIN r \subseteq inputs[p].window.minimum .. inputs[p].window.maximum
    BY <1>1, CountersAreNat DEF AccountsInv, InputsAreAccounted
  <1>5. /\ BytesAt(more, DOMAIN more) = BytesAt(r, DOMAIN r) + BatchBytes[b]
        /\ Cardinality(DOMAIN more) = Cardinality(DOMAIN r) + 1
        /\ more \in [DOMAIN more -> Batches] /\ DOMAIN more = DOMAIN r \cup {t}
    <2> HIDE DEF r
    <2> QED
      BY <1>1, <1>4, AddedBytes
  <1>6. BatchBytes[b] \in Nat
    BY AuthorityInputAssumption
  <1>7. /\ Cardinality(DOMAIN r) < InputLimits.keys /\ retained_keys < SharedInputLimits.keys
        /\ inputs[p].bytes + BatchBytes[b] <= InputLimits.bytes
        /\ retained_bytes + BatchBytes[b] <= SharedInputLimits.bytes
    BY DEF Submit, IsAdmitted
  <1>8. /\ InputLimits.keys \in Int /\ SharedInputLimits.keys \in Int
    BY AuthorityInputAssumption
  <1>9. DOMAIN more \subseteq inputs[p].window.minimum .. inputs[p].window.maximum
    <2>1. /\ inputs[p].window.minimum \in Int /\ inputs[p].window.maximum \in Int
      BY <1>4, WindowTicks
    <2>2. t \in Int
      BY DEF TargetTick
    <2>3. t \in inputs[p].window.minimum .. inputs[p].window.maximum
      BY <1>1, <2>1, <2>2
    <2> HIDE DEF more, r
    <2> QED
      BY <1>4, <1>5, <2>3
  <1> HIDE DEF r, more
  <1>10. /\ KeysOf(DOMAIN inputs)' = KeysOf(DOMAIN inputs)
               - Cardinality(DOMAIN r) + Cardinality(DOMAIN more)
         /\ BytesOf(DOMAIN inputs)' = BytesOf(DOMAIN inputs) - inputs[p].bytes + inputs'[p].bytes
    <2>1. Cardinality(DOMAIN more) \in Nat /\ inputs'[p].bytes \in Nat
      BY <1>3, <1>4, <1>5, <1>6
    <2> QED
      BY <1>1, <1>3, <2>1, OneParticipantChanges DEF r
  <1>11. /\ retained_keys = KeysOf(DOMAIN inputs) /\ retained_bytes = BytesOf(DOMAIN inputs)
         /\ retained_keys \in Int /\ retained_bytes \in Int
    BY HoldingsAreInt DEF AccountsInv, InputsAreAccounted
  <1>12. /\ retained_keys' = KeysOf(DOMAIN inputs)' /\ retained_bytes' = BytesOf(DOMAIN inputs)'
         /\ retained_keys' <= SharedInputLimits.keys /\ retained_bytes' <= SharedInputLimits.bytes
    BY <1>1, <1>3, <1>4, <1>5, <1>6, <1>7, <1>8, <1>10, <1>11
  <1>13. InputsAreFinite'
    BY <1>1, <1>3, <1>5 DEF AccountsInv, InputsAreFinite
  <1>14. DOMAIN inputs' \subseteq used_participants'
    BY DEF KeysInv, InputsWereAdmitted
  <1>15. ASSUME NEW q \in DOMAIN inputs'
         PROVE LET i == inputs'[q]
               IN /\ i.window \in Window /\ Span(i.window) <= InputLimits.span
                  /\ DOMAIN i.retained \subseteq i.window.minimum .. i.window.maximum
                  /\ i.bytes = BytesAt(i.retained, DOMAIN i.retained)
                  /\ i.bytes <= InputLimits.bytes
                  /\ Cardinality(DOMAIN i.retained) <= InputLimits.keys
    <2>1. CASE q = p
      <3>1. Cardinality(DOMAIN more) <= InputLimits.keys
        BY <1>4, <1>5, <1>7, <1>8
      <3> QED
        BY <1>3, <1>4, <1>5, <1>7, <1>9, <2>1, <3>1
    <2>2. CASE q # p
      BY <1>1, <2>2 DEF AccountsInv, InputsAreAccounted
    <2> QED
      BY <2>1, <2>2
  <1> QED
    BY <1>1, <1>12, <1>13, <1>14, <1>15 DEF AccountsInv, InputsAreAccounted

LEMMA NextAccounts == AccountsInv /\ [InputNext]_<<vars, inputVars>> => AccountsInv'
  <1> SUFFICES ASSUME AccountsInv, [InputNext]_<<vars, inputVars>> PROVE AccountsInv'
    OBVIOUS
  <1>1. KeysInv'
    BY NextKeysInv DEF AccountsInv
  <1>2. CASE UNCHANGED inputVars
    BY <1>1, <1>2, InputStands
  <1>3. ASSUME NEW p \in Participants, NEW w \in Window, AddParticipant(p, w)
        PROVE  AccountsInv'
    BY <1>1, <1>3, AddAccounts
  <1>4. ASSUME NEW p \in Participants, NEW w \in Window, AdvanceWindow(p, w)
        PROVE  AccountsInv'
    BY <1>1, <1>4, AdvanceAccounts
  <1>5. CASE ReconcileMemberships
    BY <1>1, <1>5, ReconcileAccounts
  <1>6. ASSUME NEW p \in Participants, NEW c \in Connections, NEW t \in TargetTick,
               NEW b \in Batches, Submit(p, c, t, b)
        PROVE  AccountsInv'
    BY <1>1, <1>6, SubmitAccounts
  <1> QED
    BY <1>2, <1>3, <1>4, <1>5, <1>6 DEF InputNext, InputStep

\* The counters of retained input, which submit, advance_window and
\* reconcile_memberships adjust by hand, are exact and within both limits at all times,
\* so no subtraction of the code ever reports a broken invariant.
THEOREM InputsAlwaysAccounted == InputSpec => []InputsAreAccounted
  BY InitAccounts, NextAccounts, PTL DEF InputSpec, AccountsInv
=============================================================================
