SPECIFICATION Spec
CONSTANTS
  h1 = h1
  h2 = h2
  Node = {h1, h2}
  None = None
  c1 = c1
  c2 = c2
  c3 = c3
  Conn = {c1, c2, c3}
  MaxTasks = 1
  MaxClosings = 1
SYMMETRY Symmetry
PROPERTY StaleDispatcherSparesReplacement
