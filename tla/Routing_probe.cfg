SPECIFICATION Spec
CONSTANTS
  p1 = p1
  p2 = p2
  m = m
  r1 = r1
  r2 = r2
  Peer <- Peers
  Model <- Models
  Request <- OneRequest
  Elected <- NoPeer
  Pathless <- Peers
  Untunneled <- NoPeer
  Shaky <- OnePeer
  Auditable <- OneRoute
  Threshold = 2
  MinMismatches = 2
CHECK_DEADLOCK FALSE
PROPERTY ProbeSparesAHost
