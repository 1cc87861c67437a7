SPECIFICATION FairSpec
CONSTANTS
  root = root
  a1 = a1
  a2 = a2
  a3 = a3
  a4 = a4
  b1 = b1
  c1 = c1
  Agents = {root, a1, a2, a3, a4, b1, c1}
  Root = root
  Children <- Tree
  Level <- Depth
  Modes = {"bfs", "dfs", "policy"}
  Signatures = {s1, s2}
  NoSignature = NoSignature
  Subtasks = {0, 1, 2, 3}
  MaxDepth = 3
  MaxBreadth = 3
  Totals = {3, 4, 8}
  MaxIterations = 3
  StagnationThreshold = 2
  MaxConcurrent = 2
INVARIANTS BoundariesHold Accounted
PROPERTY DelegationEnds
CHECK_DEADLOCK FALSE
