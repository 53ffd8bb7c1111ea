SPECIFICATION FairSpec
CONSTANTS
  s1 = s1
  s2 = s2
  w1 = w1
  w3 = w3
  NoWire = NoWire
  Subscriber = {s1,s2}
  Old = {s2}
  Wire = {w1,w3}
  Default = w1
  Pinned = {w3}
  MaxRevision = 2
INVARIANT TypeOK
INVARIANT PersistedIsCurrent
PROPERTY IsSharedConfig
PROPERTY ChangesReachListeners
