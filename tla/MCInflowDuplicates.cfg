\* Duplicated and concurrent deliveries whose workers die or fail.
CONSTANTS
  A = A
  D1 = D1
  D2 = D2
  Accounts <- OneAcc
  Model <- Parallel
  Rules <- Thresholds
  Deliveries <- DuplicateAndNext
  Closings <- None
  Patches <- None
  Free = Free
  MaxAttempts = 1
  MaxStalls = 1
  MayFail = TRUE
SPECIFICATION Spec
INVARIANTS
  RulesRunOnce
  RunningTotal
  ReconciledMeansRun
  PendingIsOwned
CHECK_DEADLOCK FALSE
