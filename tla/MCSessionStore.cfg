SPECIFICATION FairSpec
CONSTANTS
  Managers = {a1, a2}
  U = U
  Sessions = {s1}
  Messages = {m1, m2}
  Parts = {p1}
  Closed = Closed
  Unlinked = Unlinked
  MaxCalls = 4
  MaxFaults = 1
INVARIANTS FilesSound ListingComplete CommitPersists
PROPERTY CallsReturn
CHECK_DEADLOCK FALSE
