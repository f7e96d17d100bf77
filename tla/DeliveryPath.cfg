\* A flow that ends stops for good: its host and its transport may have nothing
\* left to do, so a deadlock is not an error here.
CONSTANTS
  small = small
  large = large
  Link = c1
  Handle = handle
  NoSession = NoSession
  MaxIndex = 2
  MaxCount = 0
  MaxExposed = 4
  Modes = {"ReliableOrdered", "UnreliableUnordered", "UnreliableSequenced"}
  Payloads <- MCPayloads
  PayloadBytes <- MCPayloadBytes
  AggregateLimits <- MCAggregateLimits
  LinkLimits <- MCLinkLimits
  SendingPolicy <- MCPolicies
  ReceivingPolicy <- MCPolicies
SPECIFICATION FairSpec
INVARIANT CustodyIsUnbroken
PROPERTIES ImplementsContract ReliableIsExposedOrFails
CHECK_DEADLOCK FALSE

