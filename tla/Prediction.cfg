\* Cursors, generations and connections enough for every disturbance. Once the
\* disturbances are spent and service is restored nothing is left to do, so the
\* system stops in service: a deadlock is not an error here.
CONSTANTS
  a = a
  MaxCursor = 8
  MaxTick = 2
  MaxGeneration = 6
  MaxConnections = 3
  MaxDisturbances = 2
  MaxTargetTick = 3
  InputSizes = {2}
  Images <- MCImages
  ImageBytes <- MCImageBytes
  AuthorityLimits <- MCAuthorityLimits
  ClientLimits <- MCClientLimits
  ClientSetLimits <- MCClientSetLimits
  PredictionLimits <- MCPredictionLimits
SPECIFICATION PredictionSpec
INVARIANTS PredictionStandsOnACommit
PROPERTIES DoubtedInputIsNeverReplayed PredictionResumes
CHECK_DEADLOCK FALSE
