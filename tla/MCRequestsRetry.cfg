\* A withdrawal that is retried under one Idempotency-Key and body.
CONSTANTS
  B1 = B1
  B2 = B2
  R1 = R1
  R2 = R2
  Businesses <- BothBusinesses
  ApiKeys <- BothKeys
  Established <- SecondKey
  Requests <- OneKey
  NoKey = NoKey
  TokenLife = 3
  Margin = 1
  CallTime = 1
  MaxCredentials = 1
  MaxTime = 3
SPECIFICATION Spec
INVARIANTS
  SafeRetry
CHECK_DEADLOCK FALSE
