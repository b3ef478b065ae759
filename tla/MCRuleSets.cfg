\* Provisionings that race, replacements, tier changes, toggles and a deletion at once.
CONSTANTS
  U = U
  B = B
  Customers <- OneCustomer
  Accounts <- OneAccount
  Owner <- AllOfU
  Provisions <- AllOpens
  Registered <- Opened
  Replacements <- KeepOrSet
  TierChanges <- UpAndDown
  Enables <- EnableB1
  Archivals <- DeleteB2
  MayFail <- Mortal
SPECIFICATION Spec
INVARIANTS
  TypeOK
  StaleRulesReviewed
  PercentagesBounded
  OrphansCompensated
CHECK_DEADLOCK FALSE
