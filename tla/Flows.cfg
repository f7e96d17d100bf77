\* An end that was torn down stays so.
CONSTANTS
  h1 = h1
  h2 = h2
  connection = connection
  Connection = connection
  NoSession = NoSession
  MaxIndex = 4
  MaxCount = 0
  LastFlow = 0
  LastSequence = 1
  Window = 1
  HandleOf <- MCHandleOf
  Payloads <- MCPayloads
  PayloadBytes <- MCPayloadBytes
  PolicyOf <- MCPolicyOf
  LimitsOf <- MCLimitsOf
  AggregateLimits <- MCAggregateLimits
  Settings <- MCSettings
  StagingBytes <- MCStagingBytes
  Requests <- MCRequests
  MaxMessages <- MCMaxMessages
SPECIFICATION FairSpec
INVARIANTS NothingIsForgotten RegistryMatchesEndpoint EndsAreToldOnce NormalMeansDelivered
PROPERTIES FlowsLiveTheirLives FlowsSettle
CHECK_DEADLOCK FALSE
