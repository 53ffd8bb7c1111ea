SPECIFICATION Spec
CONSTANTS
  n1 = n1
  n2 = n2
  Node = {n1, n2}
  Strict = {}
  StaleTicks = 1
  GenericThreshold = 2
  StrictThreshold = 2
  BootAnchored = TRUE
  MaxTasks = 2
  MaxFrames = 1
PROPERTY PruneSparesTheFresh
