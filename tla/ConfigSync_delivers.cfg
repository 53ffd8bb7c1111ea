SPECIFICATION FairSpec
CONSTANTS
  s1 = s1
  w1 = w1
  w2 = w2
  NoWire = NoWire
  Subscriber = {s1}
  Old = {}
  Wire = {w1,w2}
  Default = w1
  Pinned = {}
  MaxRevision = 1
PROPERTY StreamDelivers
