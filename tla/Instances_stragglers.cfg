SPECIFICATION Spec
CONSTANTS
  s1 = s1
  s2 = s2
  p1 = p1
  p2 = p2
  Nobody = Nobody
  Slot <- Slots
  Proc <- Procs
  Rpc <- OneRpc
  Reusable <- Again
  LongLived <- Nothing
  Stuck <- Nothing
  MaxCrashes = 2
CHECK_DEADLOCK FALSE
PROPERTY StragglersEnd
