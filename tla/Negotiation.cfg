\* Links that ended stay ended.
CONSTANTS
  l1 = l1
  l2 = l2
  p1 = p1
  p2 = p2
  p3 = p3
  cap = cap
  schema = schema
  k1 = k1
  k2 = k2
  j1 = j1
  j2 = j2
  NoContract = NoContract
  NoOffer = NoOffer
  NoBody = NoBody
  NoSettings = NoSettings
  Links <- MCLinks
  Offers <- MCOffers
  Contracts <- MCContracts
  Requirements <- MCRequirements
  OfferLimits <- MCOfferLimits
  Dialer <- MCDialer
  Profiles <- MCProfiles
  ManagerLimits <- MCManagerLimits
SPECIFICATION FairSpec
INVARIANTS ReservationsAreExact EstablishedIsMutual NobodyBreaksTheProfile
PROPERTIES NegotiationsEnd
CHECK_DEADLOCK FALSE
