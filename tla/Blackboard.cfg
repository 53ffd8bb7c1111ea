SPECIFICATION BoardSpec
CONSTANTS
  a = a
  r = r
  b = b
  Node <- Nodes
  Everybody = Everybody
  Links <- Line
  MaxItems = 1
  Item <- TwoAtATime
  LastExpired = 1
  Posters <- OnlyB
  Meets <- Meeting
  Unstable <- OnlyA
  MaxFrames = 3
  MaxMeetings = 1
  MaxLosses = 1
CHECK_DEADLOCK FALSE
INVARIANT BoardTypeOK
INVARIANT BoardIsNewest
INVARIANT OwedIsOnItsWay
PROPERTY CaughtUp
