\* Two lineages that compete for the shared limits, against an arbitrary host
\* and peer: three cursors and two ticks each, two recovery generations.
CONSTANTS
  p1 = p1
  p2 = p2
  small = small
  large = large
  MaxCursor = 3
  MaxTick = 2
  MaxGeneration = 1
  ExtraBytes = {1}
  Participants <- MCParticipants
  Images <- MCImages
  ImageBytes <- MCImageBytes
  AuthorityLimits <- MCAuthorityLimits
  SessionLimits <- MCSessionLimits
SYMMETRY ParticipantSymmetry
SPECIFICATION AuthoritySpec
INVARIANTS AuthorityTypeOK EligibleBaseIsConfirmedAndRetained NoPendingWorkCrossesRecovery LimitsHold
PROPERTIES RecoveryEndsByItsOwnFull EveryBoundaryIsAGeneration LineagesOnlyAdvance
