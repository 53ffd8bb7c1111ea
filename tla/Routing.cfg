SPECIFICATION Spec
CONSTANTS
  p1 = p1
  p2 = p2
  m = m
  r1 = r1
  r2 = r2
  Peer <- Peers
  Model <- Models
  Request <- TwoRequests
  Elected <- NoPeer
  Pathless <- OnePeer
  Untunneled <- TheOther
  Shaky <- OnePeer
  Auditable <- OneRoute
  Threshold = 2
  MinMismatches = 1
CHECK_DEADLOCK FALSE
INVARIANT TypeOK
INVARIANT WithdrawnIsNoticed
PROPERTY RouteDemotionEarned
SYMMETRY RequestSymmetry
CONSTRAINT TwoAtOnce
