CONSTANTS
  small = small
  large = large
  c1 = c1
  c2 = c2
  handle = handle
  NoSession = NoSession
  MaxIndex = 1
  MaxCount = 2
  Sessions = {s1}
  Payloads <- MCPayloads
  PayloadBytes <- MCPayloadBytes
  Keys <- ThreeFlows
  Policies <- MCPolicies
  ConnectionLimits <- MCConnectionLimits
  SessionLimits <- MCSessionLimits
  AggregateLimits <- MCAggregateLimits
SPECIFICATION EndpointSpec
PROPERTY OutboundDropsAreCounted
