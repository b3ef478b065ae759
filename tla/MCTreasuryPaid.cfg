\* A settlement whose bank transfer was made but not acknowledged, then another one.
CONSTANTS
  A = A
  B = B
  C = C
  Buckets <- BothBuckets
  Provisioned <- BothBuckets
  Opening <- OpenA1
  Withdrawals <- TwoWithdrawals
  Transfers <- None
  Credits <- None
  Closings <- None
  MaxRetries = 1
  MayAbandon = FALSE
  MayLoseAck = FALSE
  Bank = Bank
  Free = Free
SPECIFICATION Spec
INVARIANTS
  PaidIsCovered
CHECK_DEADLOCK FALSE
