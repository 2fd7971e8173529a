SPECIFICATION Spec
CONSTANTS
  k1 = k1
  k2 = k2
  k3 = k3
  Check <- ThreeChecks
  MaxAttempts = 2
CHECK_DEADLOCK FALSE
INVARIANTS AttemptsBounded ExactWithoutOverlap
PROPERTIES SettledStays NoLateApproval
