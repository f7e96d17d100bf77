\* One participant, two connections: loss of the first, then of the second.
CONSTANTS
  Participants = {p1}
  Connections = {c1, c2}
  NoConnection = NoConnection
  MaxMemberships = 1
  MaxIncarnations = 1
  MaxTime = 2
SPECIFICATION MCSpec
INVARIANT LostConnectionStaysLost
