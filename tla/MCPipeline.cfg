\* An inflow whose rules release more than half of it, notify, or release less than a kobo, with calls that fail, retries and workers that die.
CONSTANTS
  A = A
  P = P
  Q = Q
  Accounts <- OneAcc
  Model <- Sequential
  Rules <- ShareOrNotify
  Deliveries <- OneInflow
  Closings <- None
  Patches <- None
  Free = Free
  MaxAttempts = 2
  MaxStalls = 1
  MayFail = TRUE
  Buckets <- TwoBuckets
  Provisioned <- OnlyQ
  Dest <- ToPOrQ
  MaxRetries = 1
SPECIFICATION PipelineSpec
INVARIANTS
  TypeOK
  CompletedTookEffect
  AttemptsBounded
  RetryingHasJob
  CompletedIsCredited
  ReleasedWithinInflow
  FulfilledInFull
PROPERTIES
  ResolvedIsFinal
CHECK_DEADLOCK FALSE
