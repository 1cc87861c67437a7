SPECIFICATION GuardsSpec
CONSTANTS
  k1 = k1
  k2 = k2
  Callers = {a1, a2, a3}
  Keys = {k1, k2}
  ToolOf <- Tools
  Sizes = {1, 2}
  NoKey = NoKey
  MaxCalls = 3
  MaxCancels = 1
  r1 = r1
  r2 = r2
  Users = {u1, u2, u3}
  Resources = {r1, r2}
  Limit <- Limits
  Overrides = {0, 2}
  Unset = Unset
INVARIANTS SingleFlight PendingIsExecuting NeverOverCapacity SinglePermitReturns
PROPERTIES ExecutedIsCached AnsweredOrAbandoned
