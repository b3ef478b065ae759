\* An external and an internal settlement, credits and a closing at once; a bucket provisioned meanwhile, lost answers, dying handlers.
CONSTANTS
  A = A
  B = B
  C = C
  Buckets <- AllBuckets
  Provisioned <- BothBuckets
  Opening <- OpenA1
  Withdrawals <- MixedRequests
  Transfers <- None
  Credits <- MixedCredits
  Closings <- CloseA
  MaxRetries = 1
  MayAbandon = TRUE
  MayLoseAck = TRUE
  Bank = Bank
  Free = Free
SPECIFICATION Spec
INVARIANTS
  TypeOK
  Conservation
  CumulativeExact
  AllocatedOnce
CHECK_DEADLOCK FALSE
