\* A transfer next to a settlement in flight.
CONSTANTS
  A = A
  B = B
  C = C
  Buckets <- BothBuckets
  Provisioned <- BothBuckets
  Opening <- OpenA1
  Withdrawals <- OneWithdrawal
  Transfers <- OneTransfer
  Credits <- None
  Closings <- None
  MaxRetries = 1
  MayAbandon = FALSE
  MayLoseAck = FALSE
  Bank = Bank
  Free = Free
SPECIFICATION Spec
INVARIANTS
  ReservedFundsStay
CHECK_DEADLOCK FALSE
