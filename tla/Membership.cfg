SPECIFICATION Spec
CONSTANTS
  n1 = n1
  n2 = n2
  Node = {n1, n2}
  Strict = {}
  StaleTicks = 2
  GenericThreshold = 2
  StrictThreshold = 2
  BootAnchored = FALSE
  MaxTasks = 1
  MaxFrames = 1
SYMMETRY Symmetry
INVARIANT TypeOK
INVARIANT DeadIsUnlisted
INVARIANT SeenIsEvidence
PROPERTY HearsayRaisesNoDead
