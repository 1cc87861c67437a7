SPECIFICATION AgentsSpec
CONSTANTS
  t1 = t1
  t2 = t2
  t3 = t3
  d1 = d1
  d2 = d2
  d3 = d3
  Tasks = {t1, t2, t3}
  Calls = {d1, d2, d3}
  TaskOf <- Owner
  ViaTask = {d1}
  MaxCancels = 1
  Canceller = Canceller
  Nobody = Nobody
  a1 = a1
  a2 = a2
  a3 = a3
  ghost = ghost
  Agents <- MCAgents
  Unknown = ghost
  Modes <- MCModes
  Graphs <- MCGraphs
  Contexts <- MCContexts
  MaxChanges = 1
INVARIANTS ResultTellsStatus CyclesRejected AgentsAccounted
PROPERTIES DoneIsFinal EveryCallReturns WorkflowEnds
CHECK_DEADLOCK FALSE
