SPECIFICATION Spec
CONSTANTS
  r1 = r1
  r2 = r2
  Runs = {r1, r2}
  Tools = {t1, t2}
  Allowed <- MCAllowed
  MaxLoops = 2
  NoMessage = NoMessage
INVARIANT RepliesCountedOnce
CHECK_DEADLOCK FALSE
