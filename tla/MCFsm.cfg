SPECIFICATION Spec
CONSTANTS
  States <- WorkflowStates
  Initial = "reason"
  Transitions <- WorkflowTransitions
  ExitHooks <- WorkStates
  EntryHooks <- WorkStates
  Callers = {c1, c2}
  Observers = {o1, o2}
  Unreadable = Unreadable
  MaxCalls = 3
INVARIANTS ReachableOnly AuditSound AgreeWhenOk
PROPERTIES MovesAreDeclared ToldAfterPersisted
