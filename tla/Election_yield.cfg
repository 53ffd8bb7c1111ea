SPECIFICATION Spec
CONSTANTS
  a = a
  b = b
  Node <- Nodes
  Rank <- MCRank
  Fast <- LargeEnough
  Ram <- Plenty
  Bytes <- Bytes20
  Links <- Paths
  Broken <- NoNode
  WantDuplicate = FALSE
  Patient <- NoNode
  Faulty <- OnlyA
  MaxFaults = 0
CHECK_DEADLOCK FALSE
PROPERTY YieldLeavesAServer
