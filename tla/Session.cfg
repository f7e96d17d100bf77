\* Three identities for two memberships at a time, two connections and a clock that
\* reaches its end: loss, replacement, expiry and expiry overflow of one participant
\* while another holds or takes the connection. Windows of two of three ticks, three
\* batches in all.
CONSTANTS
  p1 = p1
  p2 = p2
  p3 = p3
  c1 = c1
  c2 = c2
  small = small
  large = large
  Participants <- MCParticipants
  Connections <- MCConnections
  NoConnection = NoConnection
  MaxMemberships = 2
  MaxIncarnations = 3
  MaxTime = 1
  Batches <- MCBatches
  BatchBytes <- MCBatchBytes
  MaxTargetTick = 2
  InputLimits <- MCInputLimits
  SharedInputLimits <- MCSharedInputLimits
SYMMETRY SessionSymmetry
SPECIFICATION InputSpec
INVARIANTS TypeOK BindingsAgree NoOverdueMembership InputsAreAccounted
PROPERTIES MembershipEndsForGood ImplementsContract KeysAreAcceptedOnce
