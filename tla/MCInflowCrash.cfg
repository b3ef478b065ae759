\* A worker that dies while it processes an inflow.
CONSTANTS
  A = A
  D1 = D1
  D2 = D2
  Accounts <- OneAcc
  Model <- Parallel
  Rules <- NotifyRule
  Deliveries <- OneInflow
  Closings <- None
  Patches <- None
  Free = Free
  MaxAttempts = 1
  MaxStalls = 1
  MayFail = FALSE
SPECIFICATION FairSpec
PROPERTIES
  InflowsReconcile
CHECK_DEADLOCK FALSE
