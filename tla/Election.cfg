SPECIFICATION Spec
CONSTANTS
  a = a
  b = b
  Node <- Nodes
  Rank <- MCRank
  Fast <- TooSmall
  Ram <- Tight
  Bytes <- Bytes20
  Links <- Paths
  Broken <- NoNode
  WantDuplicate = FALSE
  Patient <- OnlyA
  Faulty <- OnlyA
  MaxFaults = 1
CHECK_DEADLOCK FALSE
INVARIANT TypeOK
INVARIANT RolesAgree
INVARIANT OneElectsItself
PROPERTY HealthyServerKept
CONSTRAINT OneMisfortune
