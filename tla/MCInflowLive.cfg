\* Actions of an inflow that fail and are retried while the account is suspended and closed, with no failures of the database or the workers.
CONSTANTS
  A = A
  D1 = D1
  D2 = D2
  Accounts <- OneAcc
  Model <- Parallel
  Rules <- NotifyAndShare
  Deliveries <- OneInflow
  Closings <- CloseA
  Patches <- Suspend
  Free = Free
  MaxAttempts = 2
  MaxStalls = 0
  MayFail = FALSE
SPECIFICATION FairSpec
INVARIANTS
  SuspendedInflowsHeld
PROPERTIES
  InflowsReconcile
  RetriesResolve
  ClosedDrains
  TerminalIsFinal
CHECK_DEADLOCK FALSE
