SPECIFICATION Spec
CONSTANTS
  FwFault = 1
  LepFault = 2
  PressTicks = 3
  AlertTicks = 2
  Budgets <- MCBudgets
INVARIANTS ResetAsked BlinksCode FaultShown
PROPERTIES ResetEnds
CHECK_DEADLOCK FALSE
