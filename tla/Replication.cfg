CONSTANTS
  a = a
  b = b
  MaxCursor = 3
  MaxTick = 1
  MaxGeneration = 1
  MaxConnections = 2
  Images <- MCImages
  ImageBytes <- MCImageBytes
  AuthorityLimits <- MCAuthorityLimits
  ClientLimits <- MCClientLimits
  ClientSetLimits <- MCClientSetLimits
SYMMETRY ImageSymmetry
SPECIFICATION Spec
INVARIANTS TypeOK ReplicaIsExact DeltasFollowAFreshFull
PROPERTIES RecoveryIsABarrier OnlyTheBoundConnectionConfirms ImplementsContract
