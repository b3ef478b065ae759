\* Settlements of every kind out of A, a transfer into A, handlers that die.
CONSTANTS
  A = A
  B = B
  C = C
  Buckets <- BothBuckets
  Provisioned <- BothBuckets
  Opening <- OpenA2
  Withdrawals <- SettleRequests
  Transfers <- MoveBack
  Credits <- CreditB
  Closings <- None
  MaxRetries = 1
  MayAbandon = TRUE
  MayLoseAck = FALSE
  Bank = Bank
  Free = Free
SPECIFICATION FairSpec
INVARIANTS
  DebitOnlyOnCompletion
  ReservationsCovered
  CumulativeExact
  ReservationsHandled
PROPERTIES
  SettledIsFinal
  ImplementsFunds
  SettlementsResolve
CHECK_DEADLOCK FALSE
