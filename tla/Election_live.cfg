SPECIFICATION FairSpec
CONSTANTS
  a = a
  b = b
  Node <- Nodes
  Rank <- MCRank
  Fast <- LargeEnough
  Ram <- Plenty
  Bytes <- Bytes20
  Links <- Unmeasured
  Broken <- NoNode
  WantDuplicate = FALSE
  Patient <- NoNode
  Faulty <- OnlyA
  MaxFaults = 1
CHECK_DEADLOCK FALSE
PROPERTY SomebodyServes
PROPERTY StopIsHeeded
