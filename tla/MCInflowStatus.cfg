\* An inflow and a custom event delivered twice, whose rules notify or change the status, with workers that die.
CONSTANTS
  A = A
  D1 = D1
  D2 = D2
  Accounts <- OneAcc
  Model <- Sequential
  Rules <- StatusRules
  Deliveries <- MixedJobs
  Closings <- None
  Patches <- None
  Free = Free
  MaxAttempts = 1
  MaxStalls = 1
  MayFail = FALSE
SYMMETRY Interchangeable
SPECIFICATION Spec
INVARIANTS
  RulesRunOnce
CHECK_DEADLOCK FALSE
