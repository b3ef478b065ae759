\* A withdrawal that is retried under one Idempotency-Key, next to a request with another body and one of another business.
CONSTANTS
  B1 = B1
  B2 = B2
  R1 = R1
  R2 = R2
  Businesses <- BothBusinesses
  ApiKeys <- BothKeys
  Established <- SecondKey
  Requests <- OneKey
  NoKey = NoKey
  TokenLife = 3
  Margin = 1
  CallTime = 1
  MaxCredentials = 1
  MaxTime = 3
SYMMETRY Interchangeable
SPECIFICATION Spec
INVARIANTS
  TypeOK
  ReplayFaithful
  ReplaysAgree
  TokenAlive
CHECK_DEADLOCK FALSE
