--------------------------- MODULE RuleSetsProofs ---------------------------
(***************************************************************************)
(* What RuleSets guarantees for any customers, accounts, rules and requests*)
(* of any number: every variable keeps its type, a rule of another tier is *)
(* flagged (EC-03), the percentages of a PARALLEL account stay bounded     *)
(* (EC-08), and a virtual account without a row is accounted for.          *)
(***************************************************************************)
EXTENDS RuleSets, SumTheorems

-----------------------------------------------------------------------------
(* The inductive invariant.                                                *)

\* A replacement that has passed its checks replaces the rules of an account that
\* exists, with a model and rules that EC-08 allows.
ReplaceInv ==
  \A q \in Replacements : pc[q] \in {"tier", "archive", "create"} =>
    /\ model[q.account] # "NONE"
    /\ newModel[q] \in ExecutionModel
    /\ newModel[q] = "PARALLEL" => Total(q.rules) <= 100

\* A creator that no tier change has overtaken holds the tier of its customer.
ReadInv ==
  \A q \in Creators : pc[q] \in {"call", "archive", "create"} /\ q \notin outdated =>
    readTier[q] = tier[Owner[q.account]]

\* A change of the customer's tier will flag the row, or failed before it could: the
\* change to the present tier has yet to look for stale rules, or has found the row.
WillFlag(t, x) ==
  /\ t.customer = Owner[x[1].account]
  /\ \/ pc[t] = "failed"
     \/ /\ t.to = tier[t.customer]
        /\ pc[t] = "find" \/ (pc[t] = "flag" /\ x \in staleRules[t])

StaleInv ==
  \A x \in Rows :
    status[x] = "ACTIVE" /\ tierAt[x] # tier[Owner[x[1].account]] =>
      \/ x \in reenabled
      \/ x[1] \in outdated
      \/ \E t \in TierChanges : WillFlag(t, x)

\* What a tier change flags and a request enables are rows that exist.
ExistInv ==
  /\ \A t \in TierChanges : \A x \in staleRules[t] : status[x] # "NONE"
  /\ \A e \in Enables : pc[e] = "enable" => status[e.row] # "NONE"

\* The rows of an account that no replacement has superseded.
Current(a) == {x \in RowsOn(a) \ superseded : status[x] # "NONE"}

\* The rows of an account that are not superseded are of one creator, unless two
\* replacements raced.  A replacement that made a PARALLEL account what it is was
\* allowed by EC-08.  There are none before the account exists, nor between the two
\* statements of a replacement.
SharesInv ==
  \A a \in Accounts \ raced :
    /\ model[a] = "NONE" => Current(a) = {}
    /\ \A q \in Replacements : q.account = a /\ pc[q] = "create" =>
         /\ Current(a) = {}
         /\ \A s \in Replacements \ {q} : s.account = a => pc[s] # "create"
    /\ model[a] = "PARALLEL" =>
         \/ Current(a) = {}
         \/ \E c \in Creators :
              /\ c.account = a
              /\ Current(a) \subseteq RowsOf(c)
              /\ c \in Replacements => Total(c.rules) <= 100

Inv ==
  /\ TypeOK
  /\ ReplaceInv
  /\ ReadInv
  /\ StaleInv
  /\ ExistInv
  /\ SharesInv
  /\ OrphansCompensated

-----------------------------------------------------------------------------
(* Requests and rows.                                                      *)

\* What the constants say of a request of each kind.
LEMMA RequestFacts ==
  /\ \A p \in Provisions : /\ p \in Creators /\ p \in Requests
                           /\ p \notin Replacements /\ p \notin TierChanges
                           /\ p.account \in Accounts /\ p.model \in ExecutionModel
  /\ \A q \in Replacements : /\ q \in Creators /\ q \in Requests
                             /\ q \notin Provisions /\ q \notin TierChanges
                             /\ q.account \in Accounts
                             /\ q.model \in ExecutionModel \cup {"KEEP"}
  /\ \A t \in TierChanges : /\ t \in Requests /\ t \notin Creators
                            /\ t.customer \in Customers /\ t.to \in KycTier
  /\ \A e \in Enables : e \in Requests /\ e \notin Creators /\ e \notin TierChanges
  /\ \A d \in Archivals : d \in Requests /\ d \notin Creators /\ d \notin TierChanges
  /\ \A e \in Enables \cup Archivals : e.row \in Rows
  /\ \A q \in Creators : /\ q \in Requests /\ q.account \in Accounts
                         /\ q \in Provisions \/ q \in Replacements
  /\ \A a \in Accounts : Owner[a] \in Customers
<1> USE RequestAssumption, KindAssumption DEF Requests, Creators
<1> QED
  OBVIOUS

\* A row is of its creator and on the creator's account.
LEMMA RowFacts ==
  /\ \A x \in Rows : x[1] \in Creators /\ x[2] \in x[1].rules /\ x = <<x[1], x[2]>>
  /\ \A q \in Creators : RowsOf(q) \subseteq Rows /\ \A x \in RowsOf(q) : x[1] = q
  /\ \A a : \A x \in RowsOn(a) : x \in Rows /\ x[1] \in Creators /\ x[1].account = a
  /\ \A q \in Creators : RowsOf(q) \subseteq RowsOn(q.account)
<1>1. \A x \in Rows : x[1] \in Creators /\ x[2] \in x[1].rules /\ x = <<x[1], x[2]>>
  BY DEF Rows
<1> QED
  BY <1>1 DEF RowsOf, RowsOn

\* The percentages of a valid rule set are natural numbers, and so is their total.
LEMMA TotalFacts ==
  \A q \in Creators : /\ IsFiniteSet(q.rules)
                      /\ \A r \in q.rules : r.percent \in Nat
                      /\ Total(q.rules) \in Int
<1> SUFFICES ASSUME NEW q \in Creators
             PROVE  /\ IsFiniteSet(q.rules)
                    /\ \A r \in q.rules : r.percent \in Nat
                    /\ Total(q.rules) \in Int
  OBVIOUS
<1>1. IsFiniteSet(q.rules) /\ \A r \in q.rules : r.percent \in Nat
  BY RequestAssumption DEF ValidRuleSet
<1>2. Total(q.rules) \in Int
  <2> DEFINE f == [r \in q.rules |-> r.percent]
  <2>1. \A r \in q.rules : f[r] \in Int
    BY <1>1
  <2> HIDE DEF f
  <2>2. SumFunctionOnSet(f, q.rules) \in Int
    BY <1>1, <2>1, SumOfAll
  <2> QED
    BY <2>2 DEF f, Total
<1> QED
  BY <1>1, <1>2

-----------------------------------------------------------------------------
(* Type correctness.                                                       *)

\* The states the services start in have the right types.
LEMMA TypeInit == Init => TypeOK
<1> SUFFICES ASSUME Init PROVE TypeOK
  OBVIOUS
<1>1. tier \in [Customers -> KycTier]
  BY DEF Init, InitialTiers, KycTier
<1>2. model \in [Accounts -> ExecutionModel \cup {"NONE"}]
  <2>1. ASSUME NEW a \in Accounts, \E p \in Registered : p.account = a
        PROVE  (CHOOSE p \in Registered : p.account = a).model \in ExecutionModel
    BY <2>1, RequestAssumption
  <2> QED
    BY <2>1 DEF Init
<1>3. tierAt \in [Rows -> KycTier]
  <2>1. \A x \in Rows : tier[Owner[x[1].account]] \in KycTier
    BY <1>1, RequestFacts, RowFacts
  <2>2. 0 \in KycTier
    BY DEF KycTier
  <2> QED
    BY <2>1, <2>2 DEF Init
<1> QED
  BY <1>1, <1>2, <1>3 DEF Init, TypeOK, RuleStatus, RequestPc, KycTier

\* Together with what a replacement has checked, no step breaks the types.
LEMMA TypeStep == TypeOK /\ ReplaceInv /\ [Next]_vars => TypeOK'
<1> SUFFICES ASSUME TypeOK, ReplaceInv, [Next]_vars PROVE TypeOK'
  OBVIOUS
<1> USE RequestFacts DEF TypeOK, Goto, RequestPc, readVars, historyVars
<1>1. ASSUME NEW p \in Provisions, ProvisionCheck(p) PROVE TypeOK'
  BY <1>1 DEF ProvisionCheck
<1>2. ASSUME NEW p \in Provisions, ProvisionDva(p) PROVE TypeOK'
  BY <1>2 DEF ProvisionDva
<1>3. ASSUME NEW p \in Provisions, ProvisionRefused(p) PROVE TypeOK'
  BY <1>3 DEF ProvisionRefused
<1>4. ASSUME NEW p \in Provisions, ProvisionAnswerLost(p) PROVE TypeOK'
  BY <1>4 DEF ProvisionAnswerLost
<1>5. ASSUME NEW p \in Provisions, ProvisionCreate(p) PROVE TypeOK'
  BY <1>5 DEF ProvisionCreate, CreateRules, RuleStatus, KycTier
<1>6. ASSUME NEW p \in Provisions, ProvisionConflict(p) PROVE TypeOK'
  BY <1>6 DEF ProvisionConflict
<1>7. ASSUME NEW p \in Provisions, Compensate(p) PROVE TypeOK'
  BY <1>7 DEF Compensate
<1>8. ASSUME NEW p \in Provisions, CompensateError(p) PROVE TypeOK'
  BY <1>8 DEF CompensateError
<1>9. ASSUME NEW q \in Replacements, ReplaceRead(q) PROVE TypeOK'
  BY <1>9 DEF ReplaceRead, EffectiveModel
<1>10. ASSUME NEW q \in Replacements, ReplaceReadTier(q) PROVE TypeOK'
  BY <1>10 DEF ReplaceReadTier
<1>11. ASSUME NEW q \in Replacements, ReplaceArchive(q) PROVE TypeOK'
  <2>1. superseded' \subseteq Rows /\ raced' \subseteq Accounts
    BY <1>11, RowFacts DEF ReplaceArchive
  <2>2. status' \in [Rows -> RuleStatus \cup {"NONE"}]
    BY <1>11 DEF ReplaceArchive, RuleStatus
  <2> QED
    BY <1>11, <2>1, <2>2 DEF ReplaceArchive
<1>12. ASSUME NEW q \in Replacements, ReplaceCreate(q) PROVE TypeOK'
  BY <1>12 DEF ReplaceCreate, ReplaceInv, CreateRules, RuleStatus, KycTier
<1>13. ASSUME NEW t \in TierChanges, TierWrite(t) PROVE TypeOK'
  BY <1>13 DEF TierWrite, Creating
<1>14. ASSUME NEW t \in TierChanges, TierFind(t) PROVE TypeOK'
  BY <1>14 DEF TierFind
<1>15. ASSUME NEW t \in TierChanges, TierFlag(t) PROVE TypeOK'
  BY <1>15 DEF TierFlag, RuleStatus
<1>16. ASSUME NEW e \in Enables, EnableRead(e) PROVE TypeOK'
  BY <1>16 DEF EnableRead
<1>17. ASSUME NEW e \in Enables, EnableWrite(e) PROVE TypeOK'
  BY <1>17 DEF EnableWrite, RuleStatus
<1>18. ASSUME NEW d \in Archivals, ArchiveRule(d) PROVE TypeOK'
  BY <1>18 DEF ArchiveRule, RuleStatus
<1>19. ASSUME NEW p \in Requests, FailRequest(p) PROVE TypeOK'
  BY <1>19 DEF FailRequest
<1>20. CASE UNCHANGED vars
  BY <1>20 DEF vars
<1> QED
  BY <1>1, <1>2, <1>3, <1>4, <1>5, <1>6, <1>7, <1>8, <1>9, <1>10, <1>11, <1>12, <1>13, <1>14,
     <1>15, <1>16, <1>17, <1>18, <1>19, <1>20 DEF Next, ProvisionStep
-----------------------------------------------------------------------------
(* What creators have read.                                                *)

\* A replacement keeps what it has checked: no step takes the account away or writes
\* the model of another request.
LEMMA ReplaceStep == TypeOK /\ ReplaceInv /\ [Next]_vars => ReplaceInv'
<1> SUFFICES ASSUME TypeOK, ReplaceInv, [Next]_vars PROVE ReplaceInv'
  OBVIOUS
<1> USE RequestFacts DEF TypeOK, ReplaceInv, Goto, readVars, historyVars
<1>1. ASSUME NEW p \in Provisions, ProvisionCheck(p) PROVE ReplaceInv'
  BY <1>1 DEF ProvisionCheck
<1>2. ASSUME NEW p \in Provisions, ProvisionDva(p) PROVE ReplaceInv'
  BY <1>2 DEF ProvisionDva
<1>3. ASSUME NEW p \in Provisions, ProvisionRefused(p) PROVE ReplaceInv'
  BY <1>3 DEF ProvisionRefused
<1>4. ASSUME NEW p \in Provisions, ProvisionAnswerLost(p) PROVE ReplaceInv'
  BY <1>4 DEF ProvisionAnswerLost
<1>5. ASSUME NEW p \in Provisions, ProvisionCreate(p) PROVE ReplaceInv'
  BY <1>5 DEF ProvisionCreate, ExecutionModel
<1>6. ASSUME NEW p \in Provisions, ProvisionConflict(p) PROVE ReplaceInv'
  BY <1>6 DEF ProvisionConflict
<1>7. ASSUME NEW p \in Provisions, Compensate(p) PROVE ReplaceInv'
  BY <1>7 DEF Compensate
<1>8. ASSUME NEW p \in Provisions, CompensateError(p) PROVE ReplaceInv'
  BY <1>8 DEF CompensateError
<1>9. ASSUME NEW q \in Replacements, ReplaceRead(q) PROVE ReplaceInv'
  <2>1. Total(q.rules) \in Int
    BY TotalFacts
  <2>2. pc'[q] = "tier" => /\ model[q.account] # "NONE"
                           /\ EffectiveModel(q) = "PARALLEL" => Total(q.rules) <= 100
    BY <1>9, <2>1 DEF ReplaceRead
  <2>3. model[q.account] # "NONE" => EffectiveModel(q) \in ExecutionModel
    BY DEF EffectiveModel
  <2>4. pc'[q] \in {"tier", "rejected"} /\ newModel'[q] = EffectiveModel(q) /\ model' = model
    BY <1>9 DEF ReplaceRead
  <2>5. \A s \in Replacements \ {q} : pc'[s] = pc[s] /\ newModel'[s] = newModel[s]
    BY <1>9 DEF ReplaceRead
  <2>6. \A s \in Replacements : s = q \/ s \in Replacements \ {q}
    OBVIOUS
  <2> HIDE DEF Goto, TypeOK
  <2> QED
    BY ONLY ReplaceInv, <2>2, <2>3, <2>4, <2>5, <2>6 DEF ReplaceInv
<1>10. ASSUME NEW q \in Replacements, ReplaceReadTier(q) PROVE ReplaceInv'
  BY <1>10 DEF ReplaceReadTier
<1>11. ASSUME NEW q \in Replacements, ReplaceArchive(q) PROVE ReplaceInv'
  BY <1>11 DEF ReplaceArchive
<1>12. ASSUME NEW q \in Replacements, ReplaceCreate(q) PROVE ReplaceInv'
  BY <1>12 DEF ReplaceCreate, ExecutionModel
<1>13. ASSUME NEW t \in TierChanges, TierWrite(t) PROVE ReplaceInv'
  BY <1>13 DEF TierWrite
<1>14. ASSUME NEW t \in TierChanges, TierFind(t) PROVE ReplaceInv'
  BY <1>14 DEF TierFind
<1>15. ASSUME NEW t \in TierChanges, TierFlag(t) PROVE ReplaceInv'
  BY <1>15 DEF TierFlag
<1>16. ASSUME NEW e \in Enables, EnableRead(e) PROVE ReplaceInv'
  BY <1>16 DEF EnableRead
<1>17. ASSUME NEW e \in Enables, EnableWrite(e) PROVE ReplaceInv'
  BY <1>17 DEF EnableWrite
<1>18. ASSUME NEW d \in Archivals, ArchiveRule(d) PROVE ReplaceInv'
  BY <1>18 DEF ArchiveRule
<1>19. ASSUME NEW p \in Requests, FailRequest(p) PROVE ReplaceInv'
  BY <1>19 DEF FailRequest
<1>20. CASE UNCHANGED vars
  BY <1>20 DEF vars
<1> QED
  BY <1>1, <1>2, <1>3, <1>4, <1>5, <1>6, <1>7, <1>8, <1>9, <1>10, <1>11, <1>12, <1>13,
     <1>14, <1>15, <1>16, <1>17, <1>18, <1>19, <1>20 DEF Next, ProvisionStep

\* A creator that no tier change has overtaken still holds the tier it read.
LEMMA ReadStep == TypeOK /\ ReadInv /\ [Next]_vars => ReadInv'
<1> SUFFICES ASSUME TypeOK, ReadInv, [Next]_vars PROVE ReadInv'
  OBVIOUS
<1> USE RequestFacts DEF TypeOK, ReadInv, Goto, readVars, historyVars
<1>1. ASSUME NEW p \in Provisions, ProvisionCheck(p) PROVE ReadInv'
  BY <1>1 DEF ProvisionCheck
<1>2. ASSUME NEW p \in Provisions, ProvisionDva(p) PROVE ReadInv'
  BY <1>2 DEF ProvisionDva
<1>3. ASSUME NEW p \in Provisions, ProvisionRefused(p) PROVE ReadInv'
  BY <1>3 DEF ProvisionRefused
<1>4. ASSUME NEW p \in Provisions, ProvisionAnswerLost(p) PROVE ReadInv'
  BY <1>4 DEF ProvisionAnswerLost
<1>5. ASSUME NEW p \in Provisions, ProvisionCreate(p) PROVE ReadInv'
  BY <1>5 DEF ProvisionCreate, CreateRules
<1>6. ASSUME NEW p \in Provisions, ProvisionConflict(p) PROVE ReadInv'
  BY <1>6 DEF ProvisionConflict
<1>7. ASSUME NEW p \in Provisions, Compensate(p) PROVE ReadInv'
  BY <1>7 DEF Compensate
<1>8. ASSUME NEW p \in Provisions, CompensateError(p) PROVE ReadInv'
  BY <1>8 DEF CompensateError
<1>9. ASSUME NEW q \in Replacements, ReplaceRead(q) PROVE ReadInv'
  BY <1>9 DEF ReplaceRead
<1>10. ASSUME NEW q \in Replacements, ReplaceReadTier(q) PROVE ReadInv'
  BY <1>10 DEF ReplaceReadTier
<1>11. ASSUME NEW q \in Replacements, ReplaceArchive(q) PROVE ReadInv'
  BY <1>11 DEF ReplaceArchive
<1>12. ASSUME NEW q \in Replacements, ReplaceCreate(q) PROVE ReadInv'
  BY <1>12 DEF ReplaceCreate, CreateRules
<1>13. ASSUME NEW t \in TierChanges, TierWrite(t) PROVE ReadInv'
  BY <1>13 DEF TierWrite, Creating
<1>14. ASSUME NEW t \in TierChanges, TierFind(t) PROVE ReadInv'
  BY <1>14 DEF TierFind
<1>15. ASSUME NEW t \in TierChanges, TierFlag(t) PROVE ReadInv'
  BY <1>15 DEF TierFlag
<1>16. ASSUME NEW e \in Enables, EnableRead(e) PROVE ReadInv'
  BY <1>16 DEF EnableRead
<1>17. ASSUME NEW e \in Enables, EnableWrite(e) PROVE ReadInv'
  BY <1>17 DEF EnableWrite
<1>18. ASSUME NEW d \in Archivals, ArchiveRule(d) PROVE ReadInv'
  BY <1>18 DEF ArchiveRule
<1>19. ASSUME NEW p \in Requests, FailRequest(p) PROVE ReadInv'
  BY <1>19 DEF FailRequest
<1>20. CASE UNCHANGED vars
  BY <1>20 DEF vars
<1> QED
  BY <1>1, <1>2, <1>3, <1>4, <1>5, <1>6, <1>7, <1>8, <1>9, <1>10, <1>11, <1>12, <1>13,
     <1>14, <1>15, <1>16, <1>17, <1>18, <1>19, <1>20 DEF Next, ProvisionStep

\* A virtual account that goes live has a provisioning that ends by creating the row,
\* by expiring the account, or half-way.
LEMMA OrphanStep == TypeOK /\ ReplaceInv /\ OrphansCompensated /\ [Next]_vars => OrphansCompensated'
<1> SUFFICES ASSUME TypeOK, ReplaceInv, OrphansCompensated, [Next]_vars PROVE OrphansCompensated'
  OBVIOUS
<1> USE RequestFacts DEF TypeOK, OrphansCompensated, Goto, readVars, historyVars
<1>1. ASSUME NEW p \in Provisions, ProvisionCheck(p) PROVE OrphansCompensated'
  BY <1>1 DEF ProvisionCheck
<1>2. ASSUME NEW p \in Provisions, ProvisionDva(p) PROVE OrphansCompensated'
  BY <1>2 DEF ProvisionDva
<1>3. ASSUME NEW p \in Provisions, ProvisionRefused(p) PROVE OrphansCompensated'
  BY <1>3 DEF ProvisionRefused
<1>4. ASSUME NEW p \in Provisions, ProvisionAnswerLost(p) PROVE OrphansCompensated'
  BY <1>4 DEF ProvisionAnswerLost
<1>5. ASSUME NEW p \in Provisions, ProvisionCreate(p) PROVE OrphansCompensated'
  BY <1>5 DEF ProvisionCreate, ExecutionModel
<1>6. ASSUME NEW p \in Provisions, ProvisionConflict(p) PROVE OrphansCompensated'
  BY <1>6 DEF ProvisionConflict
<1>7. ASSUME NEW p \in Provisions, Compensate(p) PROVE OrphansCompensated'
  BY <1>7 DEF Compensate
<1>8. ASSUME NEW p \in Provisions, CompensateError(p) PROVE OrphansCompensated'
  BY <1>8 DEF CompensateError
<1>9. ASSUME NEW q \in Replacements, ReplaceRead(q) PROVE OrphansCompensated'
  BY <1>9 DEF ReplaceRead
<1>10. ASSUME NEW q \in Replacements, ReplaceReadTier(q) PROVE OrphansCompensated'
  BY <1>10 DEF ReplaceReadTier
<1>11. ASSUME NEW q \in Replacements, ReplaceArchive(q) PROVE OrphansCompensated'
  BY <1>11 DEF ReplaceArchive
<1>12. ASSUME NEW q \in Replacements, ReplaceCreate(q) PROVE OrphansCompensated'
  BY <1>12 DEF ReplaceCreate, ReplaceInv, ExecutionModel
<1>13. ASSUME NEW t \in TierChanges, TierWrite(t) PROVE OrphansCompensated'
  BY <1>13 DEF TierWrite
<1>14. ASSUME NEW t \in TierChanges, TierFind(t) PROVE OrphansCompensated'
  BY <1>14 DEF TierFind
<1>15. ASSUME NEW t \in TierChanges, TierFlag(t) PROVE OrphansCompensated'
  BY <1>15 DEF TierFlag
<1>16. ASSUME NEW e \in Enables, EnableRead(e) PROVE OrphansCompensated'
  BY <1>16 DEF EnableRead
<1>17. ASSUME NEW e \in Enables, EnableWrite(e) PROVE OrphansCompensated'
  BY <1>17 DEF EnableWrite
<1>18. ASSUME NEW d \in Archivals, ArchiveRule(d) PROVE OrphansCompensated'
  BY <1>18 DEF ArchiveRule
<1>19. ASSUME NEW p \in Requests, FailRequest(p) PROVE OrphansCompensated'
  BY <1>19 DEF FailRequest
<1>20. CASE UNCHANGED vars
  BY <1>20 DEF vars
<1> QED
  BY <1>1, <1>2, <1>3, <1>4, <1>5, <1>6, <1>7, <1>8, <1>9, <1>10, <1>11, <1>12, <1>13,
     <1>14, <1>15, <1>16, <1>17, <1>18, <1>19, <1>20 DEF Next, ProvisionStep
-----------------------------------------------------------------------------
(* Stale rules (EC-03).                                                    *)

\* Every step that makes an ACTIVE rule stale leaves a tier change that will flag it,
\* and a tier change ends only after it has.
LEMMA StaleStep == TypeOK /\ ReadInv /\ StaleInv /\ [Next]_vars => StaleInv'
<1> SUFFICES ASSUME TypeOK, ReadInv, StaleInv, [Next]_vars PROVE StaleInv'
  OBVIOUS
<1> USE RequestFacts, RowFacts DEF TypeOK, StaleInv, WillFlag, Goto, readVars, historyVars
<1>1. ASSUME NEW p \in Provisions, ProvisionCheck(p) PROVE StaleInv'
  BY <1>1 DEF ProvisionCheck
<1>2. ASSUME NEW p \in Provisions, ProvisionDva(p) PROVE StaleInv'
  BY <1>2 DEF ProvisionDva
<1>3. ASSUME NEW p \in Provisions, ProvisionRefused(p) PROVE StaleInv'
  BY <1>3 DEF ProvisionRefused
<1>4. ASSUME NEW p \in Provisions, ProvisionAnswerLost(p) PROVE StaleInv'
  BY <1>4 DEF ProvisionAnswerLost
<1>5. ASSUME NEW p \in Provisions, ProvisionCreate(p) PROVE StaleInv'
  <2>1. \A x \in Rows : x[1] = p => tierAt'[x] = readTier[p]
    BY <1>5 DEF ProvisionCreate, CreateRules
  <2>2. \A x \in Rows : x[1] # p => status'[x] = status[x] /\ tierAt'[x] = tierAt[x]
    BY <1>5 DEF ProvisionCreate, CreateRules
  <2>3. p \notin outdated => readTier[p] = tier[Owner[p.account]]
    BY <1>5 DEF ProvisionCreate, ReadInv
  <2>4. /\ UNCHANGED <<tier, reenabled, outdated, staleRules>>
        /\ \A t \in TierChanges : pc'[t] = pc[t]
    BY <1>5 DEF ProvisionCreate, CreateRules
  <2> SUFFICES ASSUME NEW x \in Rows, status'[x] = "ACTIVE",
                      tierAt'[x] # tier[Owner[x[1].account]]
               PROVE  \/ x \in reenabled
                      \/ x[1] \in outdated
                      \/ \E t \in TierChanges : WillFlag(t, x)
    BY <2>4
  <2> QED
    BY <2>1, <2>2, <2>3
<1>6. ASSUME NEW p \in Provisions, ProvisionConflict(p) PROVE StaleInv'
  BY <1>6 DEF ProvisionConflict
<1>7. ASSUME NEW p \in Provisions, Compensate(p) PROVE StaleInv'
  BY <1>7 DEF Compensate
<1>8. ASSUME NEW p \in Provisions, CompensateError(p) PROVE StaleInv'
  BY <1>8 DEF CompensateError
<1>9. ASSUME NEW q \in Replacements, ReplaceRead(q) PROVE StaleInv'
  BY <1>9 DEF ReplaceRead
<1>10. ASSUME NEW q \in Replacements, ReplaceReadTier(q) PROVE StaleInv'
  BY <1>10 DEF ReplaceReadTier
<1>11. ASSUME NEW q \in Replacements, ReplaceArchive(q) PROVE StaleInv'
  BY <1>11 DEF ReplaceArchive
<1>12. ASSUME NEW q \in Replacements, ReplaceCreate(q) PROVE StaleInv'
  BY <1>12 DEF ReplaceCreate, CreateRules, ReadInv
<1>13. ASSUME NEW t \in TierChanges, TierWrite(t) PROVE StaleInv'
  BY <1>13 DEF TierWrite
<1>14. ASSUME NEW t \in TierChanges, TierFind(t) PROVE StaleInv'
  BY <1>14 DEF TierFind
<1>15. ASSUME NEW t \in TierChanges, TierFlag(t) PROVE StaleInv'
  BY <1>15 DEF TierFlag
<1>16. ASSUME NEW e \in Enables, EnableRead(e) PROVE StaleInv'
  BY <1>16 DEF EnableRead
<1>17. ASSUME NEW e \in Enables, EnableWrite(e) PROVE StaleInv'
  BY <1>17 DEF EnableWrite
<1>18. ASSUME NEW d \in Archivals, ArchiveRule(d) PROVE StaleInv'
  BY <1>18 DEF ArchiveRule
<1>19. ASSUME NEW p \in Requests, FailRequest(p) PROVE StaleInv'
  BY <1>19 DEF FailRequest
<1>20. CASE UNCHANGED vars
  BY <1>20 DEF vars
<1> QED
  BY <1>1, <1>2, <1>3, <1>4, <1>5, <1>6, <1>7, <1>8, <1>9, <1>10, <1>11, <1>12, <1>13,
     <1>14, <1>15, <1>16, <1>17, <1>18, <1>19, <1>20 DEF Next, ProvisionStep

-----------------------------------------------------------------------------
(* Percentages (EC-08).                                                    *)

\* A row that exists is never removed, so what was found still exists.
LEMMA ExistStep == TypeOK /\ ExistInv /\ [Next]_vars => ExistInv'
<1> SUFFICES ASSUME TypeOK, ExistInv, [Next]_vars PROVE ExistInv'
  OBVIOUS
<1> USE RequestFacts DEF TypeOK, ExistInv, Goto, readVars, historyVars
<1>1. ASSUME NEW p \in Provisions, ProvisionCheck(p) PROVE ExistInv'
  BY <1>1 DEF ProvisionCheck
<1>2. ASSUME NEW p \in Provisions, ProvisionDva(p) PROVE ExistInv'
  BY <1>2 DEF ProvisionDva
<1>3. ASSUME NEW p \in Provisions, ProvisionRefused(p) PROVE ExistInv'
  BY <1>3 DEF ProvisionRefused
<1>4. ASSUME NEW p \in Provisions, ProvisionAnswerLost(p) PROVE ExistInv'
  BY <1>4 DEF ProvisionAnswerLost
<1>5. ASSUME NEW p \in Provisions, ProvisionCreate(p) PROVE ExistInv'
  BY <1>5 DEF ProvisionCreate, CreateRules
<1>6. ASSUME NEW p \in Provisions, ProvisionConflict(p) PROVE ExistInv'
  BY <1>6 DEF ProvisionConflict
<1>7. ASSUME NEW p \in Provisions, Compensate(p) PROVE ExistInv'
  BY <1>7 DEF Compensate
<1>8. ASSUME NEW p \in Provisions, CompensateError(p) PROVE ExistInv'
  BY <1>8 DEF CompensateError
<1>9. ASSUME NEW q \in Replacements, ReplaceRead(q) PROVE ExistInv'
  BY <1>9 DEF ReplaceRead
<1>10. ASSUME NEW q \in Replacements, ReplaceReadTier(q) PROVE ExistInv'
  BY <1>10 DEF ReplaceReadTier
<1>11. ASSUME NEW q \in Replacements, ReplaceArchive(q) PROVE ExistInv'
  BY <1>11 DEF ReplaceArchive
<1>12. ASSUME NEW q \in Replacements, ReplaceCreate(q) PROVE ExistInv'
  BY <1>12 DEF ReplaceCreate, CreateRules
<1>13. ASSUME NEW t \in TierChanges, TierWrite(t) PROVE ExistInv'
  BY <1>13 DEF TierWrite
<1>14. ASSUME NEW t \in TierChanges, TierFind(t) PROVE ExistInv'
  BY <1>14 DEF TierFind
<1>15. ASSUME NEW t \in TierChanges, TierFlag(t) PROVE ExistInv'
  BY <1>15 DEF TierFlag
<1>16. ASSUME NEW e \in Enables, EnableRead(e) PROVE ExistInv'
  BY <1>16 DEF EnableRead
<1>17. ASSUME NEW e \in Enables, EnableWrite(e) PROVE ExistInv'
  BY <1>17 DEF EnableWrite
<1>18. ASSUME NEW d \in Archivals, ArchiveRule(d) PROVE ExistInv'
  BY <1>18 DEF ArchiveRule
<1>19. ASSUME NEW p \in Requests, FailRequest(p) PROVE ExistInv'
  BY <1>19 DEF FailRequest
<1>20. CASE UNCHANGED vars
  BY <1>20 DEF vars
<1> QED
  BY <1>1, <1>2, <1>3, <1>4, <1>5, <1>6, <1>7, <1>8, <1>9, <1>10, <1>11, <1>12, <1>13,
     <1>14, <1>15, <1>16, <1>17, <1>18, <1>19, <1>20 DEF Next, ProvisionStep

\* A step that writes no account, creates no row and supersedes none keeps the rows to
\* one creator.
LEMMA SharesKeep ==
  ASSUME SharesInv, model' = model, superseded' = superseded, raced' = raced,
         \A x \in Rows : status'[x] # "NONE" => status[x] # "NONE",
         \A s \in Replacements : pc'[s] = "create" => pc[s] = "create"
  PROVE  SharesInv'
<1>1. \A a : Current(a)' \subseteq Current(a)
  BY RowFacts DEF Current
<1> QED
  BY <1>1 DEF SharesInv

\* The first statement of a replacement supersedes every row of the account.
LEMMA SharesArchive ==
  ASSUME TypeOK, SharesInv, NEW q \in Replacements, ReplaceArchive(q)
  PROVE  SharesInv'
<1> USE DEF TypeOK
<1>1. /\ model' = model
      /\ \A x \in Rows : status'[x] # "NONE" => status[x] # "NONE"
      /\ superseded' = superseded \cup {x \in RowsOn(q.account) : status[x] # "NONE"}
      /\ raced' = IF \E s \in Replacements \ {q} : s.account = q.account /\ pc[s] = "create"
                  THEN raced \cup {q.account} ELSE raced \ {q.account}
      /\ \A s \in Replacements \ {q} : pc'[s] = pc[s]
  BY RequestFacts DEF ReplaceArchive, Goto, readVars
<1>2. Current(q.account)' = {}
  BY <1>1, RowFacts DEF Current
<1>3. ASSUME NEW a \in Accounts \ raced', a = q.account
      PROVE  \A s \in Replacements \ {q} : s.account = a => pc'[s] # "create"
  BY <1>1, <1>3
<1>4. ASSUME NEW a \in Accounts \ raced', a # q.account
      PROVE  Current(a)' \subseteq Current(a) /\ a \notin raced
  BY <1>1, <1>4, RowFacts DEF Current
<1> QED
  BY <1>1, <1>2, <1>3, <1>4 DEF SharesInv

\* A creator that finds no row but superseded ones writes its own, and no other
\* replacement of the account is between its two statements.
LEMMA SharesCreate ==
  ASSUME SharesInv, TypeOK, NEW c \in Creators, NEW m, m # "NONE",
         model' = [model EXCEPT ![c.account] = m],
         status' = [x \in Rows |-> IF x[1] = c THEN "ACTIVE" ELSE status[x]],
         superseded' = superseded, raced' = raced,
         c.account \notin raced => Current(c.account) = {},
         m = "PARALLEL" /\ c \in Replacements => Total(c.rules) <= 100,
         \A s \in Replacements : pc'[s] = "create" => pc[s] = "create",
         c.account \notin raced =>
           \A s \in Replacements : s.account = c.account => pc'[s] # "create"
  PROVE  SharesInv'
<1>1. c.account \in Accounts
  BY RequestFacts
<1>2. ASSUME NEW a \in Accounts \ raced', a = c.account
      PROVE  Current(a)' \subseteq RowsOf(c) /\ model'[a] = m
  BY <1>1, <1>2, RowFacts DEF Current, RowsOf, TypeOK
<1>3. ASSUME NEW a \in Accounts \ raced', a # c.account
      PROVE  Current(a)' = Current(a) /\ model'[a] = model[a]
  BY <1>1, <1>3, RowFacts DEF Current, TypeOK
<1>4. ASSUME NEW a \in Accounts \ raced', a = c.account
      PROVE  /\ model'[a] # "NONE"
             /\ \A s \in Replacements : s.account = a => pc'[s] # "create"
             /\ model'[a] = "PARALLEL" =>
                  \E d \in Creators : /\ d.account = a
                                      /\ Current(a)' \subseteq RowsOf(d)
                                      /\ d \in Replacements => Total(d.rules) <= 100
  BY <1>2, <1>4
<1> QED
  BY <1>3, <1>4 DEF SharesInv

\* Rows are created by two statements and superseded by a third; every other step keeps
\* the rows there are.
LEMMA SharesStep == TypeOK /\ ReplaceInv /\ ExistInv /\ SharesInv /\ [Next]_vars => SharesInv'
<1> SUFFICES ASSUME TypeOK, ReplaceInv, ExistInv, SharesInv, [Next]_vars PROVE SharesInv'
  OBVIOUS
<1> USE RequestFacts DEF TypeOK, Goto, readVars, historyVars
<1> DEFINE Keeps == /\ model' = model /\ superseded' = superseded /\ raced' = raced
                    /\ \A x \in Rows : status'[x] # "NONE" => status[x] # "NONE"
                    /\ \A s \in Replacements : pc'[s] = "create" => pc[s] = "create"
<1> HIDE DEF Keeps
<1>0. Keeps => SharesInv'
  BY SharesKeep DEF Keeps
<1>1. ASSUME NEW p \in Provisions, ProvisionCheck(p) PROVE SharesInv'
  BY <1>1, <1>0 DEF Keeps, ProvisionCheck
<1>2. ASSUME NEW p \in Provisions, ProvisionDva(p) PROVE SharesInv'
  BY <1>2, <1>0 DEF Keeps, ProvisionDva
<1>3. ASSUME NEW p \in Provisions, ProvisionRefused(p) PROVE SharesInv'
  BY <1>3, <1>0 DEF Keeps, ProvisionRefused
<1>4. ASSUME NEW p \in Provisions, ProvisionAnswerLost(p) PROVE SharesInv'
  BY <1>4, <1>0 DEF Keeps, ProvisionAnswerLost
<1>5. ASSUME NEW p \in Provisions, ProvisionCreate(p) PROVE SharesInv'
  <2>1. model' = [model EXCEPT ![p.account] = p.model] /\ p.model # "NONE"
    BY <1>5 DEF ProvisionCreate, ExecutionModel
  <2>2. /\ status' = [x \in Rows |-> IF x[1] = p THEN "ACTIVE" ELSE status[x]]
        /\ superseded' = superseded /\ raced' = raced
    BY <1>5 DEF ProvisionCreate, CreateRules
  <2>3. p.account \notin raced => Current(p.account) = {}
    BY <1>5 DEF ProvisionCreate, SharesInv
  <2>4. p.model = "PARALLEL" /\ p \in Replacements => Total(p.rules) <= 100
    OBVIOUS
  <2>5. \A s \in Replacements : pc'[s] = pc[s]
    BY <1>5 DEF ProvisionCreate
  <2>6. \A s \in Replacements : s.account = p.account => pc[s] # "create"
    BY <1>5 DEF ProvisionCreate, ReplaceInv
  <2>7. /\ \A s \in Replacements : pc'[s] = "create" => pc[s] = "create"
        /\ p.account \notin raced =>
             \A s \in Replacements : s.account = p.account => pc'[s] # "create"
    BY <2>5, <2>6
  <2>8. TypeOK /\ SharesInv /\ p \in Creators
    OBVIOUS
  <2> HIDE DEF TypeOK
  <2> QED
    BY ONLY <2>1, <2>2, <2>3, <2>4, <2>7, <2>8, SharesCreate
<1>6. ASSUME NEW p \in Provisions, ProvisionConflict(p) PROVE SharesInv'
  BY <1>6, <1>0 DEF Keeps, ProvisionConflict
<1>7. ASSUME NEW p \in Provisions, Compensate(p) PROVE SharesInv'
  BY <1>7, <1>0 DEF Keeps, Compensate
<1>8. ASSUME NEW p \in Provisions, CompensateError(p) PROVE SharesInv'
  BY <1>8, <1>0 DEF Keeps, CompensateError
<1>9. ASSUME NEW q \in Replacements, ReplaceRead(q) PROVE SharesInv'
  BY <1>9, <1>0 DEF Keeps, ReplaceRead
<1>10. ASSUME NEW q \in Replacements, ReplaceReadTier(q) PROVE SharesInv'
  BY <1>10, <1>0 DEF Keeps, ReplaceReadTier
<1>11. ASSUME NEW q \in Replacements, ReplaceArchive(q) PROVE SharesInv'
  BY <1>11, SharesArchive
<1>12. ASSUME NEW q \in Replacements, ReplaceCreate(q) PROVE SharesInv'
  <2>1. model' = [model EXCEPT ![q.account] = newModel[q]] /\ newModel[q] # "NONE"
    BY <1>12 DEF ReplaceCreate, ReplaceInv, ExecutionModel
  <2>2. /\ status' = [x \in Rows |-> IF x[1] = q THEN "ACTIVE" ELSE status[x]]
        /\ superseded' = superseded /\ raced' = raced
    BY <1>12 DEF ReplaceCreate, CreateRules
  <2>3. q.account \notin raced => Current(q.account) = {}
    BY <1>12 DEF ReplaceCreate, SharesInv
  <2>4. newModel[q] = "PARALLEL" /\ q \in Replacements => Total(q.rules) <= 100
    BY <1>12 DEF ReplaceCreate, ReplaceInv
  <2>5. \A s \in Replacements : pc'[s] = "create" => pc[s] = "create" /\ s # q
    BY <1>12 DEF ReplaceCreate
  <2>6. q.account \notin raced =>
          \A s \in Replacements : s.account = q.account => pc'[s] # "create"
    BY <1>12, <2>5 DEF ReplaceCreate, SharesInv
  <2> QED
    BY <2>1, <2>2, <2>3, <2>4, <2>5, <2>6, SharesCreate
<1>13. ASSUME NEW t \in TierChanges, TierWrite(t) PROVE SharesInv'
  BY <1>13, <1>0 DEF Keeps, TierWrite
<1>14. ASSUME NEW t \in TierChanges, TierFind(t) PROVE SharesInv'
  BY <1>14, <1>0 DEF Keeps, TierFind
<1>15. ASSUME NEW t \in TierChanges, TierFlag(t) PROVE SharesInv'
  BY <1>15, <1>0 DEF Keeps, TierFlag, ExistInv
<1>16. ASSUME NEW e \in Enables, EnableRead(e) PROVE SharesInv'
  BY <1>16, <1>0 DEF Keeps, EnableRead
<1>17. ASSUME NEW e \in Enables, EnableWrite(e) PROVE SharesInv'
  BY <1>17, <1>0 DEF Keeps, EnableWrite, ExistInv
<1>18. ASSUME NEW d \in Archivals, ArchiveRule(d) PROVE SharesInv'
  BY <1>18, <1>0 DEF Keeps, ArchiveRule
<1>19. ASSUME NEW p \in Requests, FailRequest(p) PROVE SharesInv'
  BY <1>19, <1>0 DEF Keeps, FailRequest
<1>20. CASE UNCHANGED vars
  BY <1>0, <1>20 DEF Keeps, vars
<1> QED
  BY <1>1, <1>2, <1>3, <1>4, <1>5, <1>6, <1>7, <1>8, <1>9, <1>10, <1>11, <1>12, <1>13,
     <1>14, <1>15, <1>16, <1>17, <1>18, <1>19, <1>20 DEF Next, ProvisionStep

\* The rows of a creator release what its rules do, and some of them no more.
LEMMA RowsWithinRules ==
  ASSUME NEW c \in Creators, NEW rows \in SUBSET RowsOf(c)
  PROVE  RowTotal(rows) \in Int /\ RowTotal(rows) <= Total(c.rules)
<1> DEFINE f == [r \in c.rules |-> r.percent]
           m == [r \in c.rules |-> <<c, r>>]
           e == [x \in RowsOf(c) |-> x[2].percent]
           g == [x \in rows |-> x[2].percent]
<1>1. RowsOf(c) = {m[r] : r \in c.rules}
  <2>1. ASSUME NEW x \in RowsOf(c) PROVE x \in {m[r] : r \in c.rules}
    BY RowFacts DEF RowsOf
  <2>2. ASSUME NEW r \in c.rules PROVE m[r] \in RowsOf(c)
    BY DEF Rows, RowsOf
  <2> QED
    BY <2>1, <2>2
<1>2. IsFiniteSet(c.rules) /\ \A r \in c.rules : f[r] \in Int
  BY TotalFacts
<1>3. \A r, s \in c.rules : m[r] = m[s] => r = s
  OBVIOUS
<1>4. \A r \in c.rules : e[m[r]] = f[r]
  BY <1>1
<1>5. \A x \in RowsOf(c) : e[x] \in Nat
  BY TotalFacts, RowFacts DEF RowsOf
<1>6. \A x \in rows : g[x] = e[x]
  OBVIOUS
<1>7. RowTotal(rows) = SumFunctionOnSet(g, rows) /\ Total(c.rules) = SumFunctionOnSet(f, c.rules)
  BY Zenon DEF RowTotal, Total
<1> HIDE DEF f, m, e, g
<1>8. (\A r \in c.rules : m[r] \in RowsOf(c)) /\ \A z \in RowsOf(c) : \E r \in c.rules : z = m[r]
  BY <1>1
<1>9. IsFiniteSet(RowsOf(c)) /\ SumFunctionOnSet(e, RowsOf(c)) = Total(c.rules)
  <2>1. IsFiniteSet(RowsOf(c)) /\ SumFunctionOnSet(e, RowsOf(c)) = SumFunctionOnSet(f, c.rules)
    BY ONLY <1>2, <1>3, <1>4, <1>8, SumOfImage
  <2> QED
    BY <1>7, <2>1
<1>10. SumFunctionOnSet(e, rows) <= SumFunctionOnSet(e, RowsOf(c))
  BY <1>5, <1>9, SumOfPart
<1>11. SumFunctionOnSet(g, rows) = SumFunctionOnSet(e, rows)
  <2>1. IsFiniteSet(rows)
    BY <1>9, FS_Subset
  <2>2. \A x \in rows : e[x] \in Int /\ g[x] = e[x]
    BY <1>5, <1>6
  <2> QED
    BY ONLY <2>1, <2>2, SumOfEqual
<1>12. SumFunctionOnSet(e, rows) \in Int
  <2>1. IsFiniteSet(rows) /\ \A x \in rows : e[x] \in Int
    BY <1>5, <1>9, FS_Subset
  <2> QED
    BY ONLY <2>1, SumOfAll
<1> QED
  BY <1>7, <1>9, <1>10, <1>11, <1>12

\* Nothing is released by no row.
LEMMA NoRowTotal == RowTotal({}) = 0
<1> DEFINE g == [x \in {} |-> x[2].percent]
<1>1. RowTotal({}) = SumFunctionOnSet(g, {})
  BY Zenon DEF RowTotal
<1>2. \A x \in {} : g[x] \in Int
  OBVIOUS
<1> HIDE DEF g
<1>3. SumFunctionOnSet(g, {}) = 0
  BY <1>2, FS_EmptySet, SumOfAll
<1> QED
  BY <1>1, <1>3

-----------------------------------------------------------------------------
(* The invariant holds.                                                    *)

\* The rows that exist at the start are of the registered provisionings, one for each
\* account, and carry the tier of their customer.
LEMMA InitInv == Init => Inv
<1> SUFFICES ASSUME Init PROVE Inv
  OBVIOUS
<1>1. TypeOK
  BY TypeInit
<1>2. \A p \in Requests : pc[p] \in {"idle", "done"}
  BY DEF Init
<1>3. ReplaceInv /\ ReadInv
  BY <1>2, RequestFacts DEF ReplaceInv, ReadInv
<1>4. StaleInv
  BY DEF Init, StaleInv
<1>5. SharesInv
  <2> SUFFICES ASSUME NEW a \in Accounts
               PROVE  /\ model[a] = "NONE" => Current(a) = {}
                      /\ model[a] = "PARALLEL" =>
                           \/ Current(a) = {}
                           \/ \E c \in Creators : /\ c.account = a
                                                  /\ Current(a) \subseteq RowsOf(c)
                                                  /\ c \notin Replacements
    BY <1>2, RequestFacts DEF SharesInv
  <2>1. \A x \in Current(a) : x \in RowsOf(x[1]) /\ x[1] \in Registered /\ x[1].account = a
    BY RowFacts DEF Init, Current, RowsOf
  <2>2. CASE \E p \in Registered : p.account = a
    <3>1. PICK o \in Registered : o.account = a
      BY <2>2
    <3>2. model[a] # "NONE"
      <4>1. model[a] = (CHOOSE p \in Registered : p.account = a).model
        BY <2>2 DEF Init
      <4>2. (CHOOSE p \in Registered : p.account = a).model \in ExecutionModel
        BY <2>2, RequestAssumption
      <4> QED
        BY <4>1, <4>2 DEF ExecutionModel
    <3>3. \A p \in Registered : p.account = a => p = o
      BY <3>1, RequestAssumption
    <3>4. Current(a) \subseteq RowsOf(o)
      BY <2>1, <3>3
    <3>5. o \in Creators /\ o \notin Replacements
      BY <3>1, RequestAssumption, RequestFacts
    <3> QED
      BY <3>1, <3>2, <3>4, <3>5
  <2>3. CASE ~\E p \in Registered : p.account = a
    BY <2>1, <2>3 DEF Init
  <2> QED
    BY <2>2, <2>3
<1>7. ExistInv
  BY <1>2, RequestFacts DEF Init, ExistInv
<1>6. OrphansCompensated
  BY DEF Init, OrphansCompensated
<1> QED
  BY <1>1, <1>3, <1>4, <1>5, <1>6, <1>7 DEF Inv

\* The invariant is inductive.
LEMMA InvStep == Inv /\ [Next]_vars => Inv'
  BY TypeStep, ReplaceStep, ReadStep, StaleStep, ExistStep, SharesStep, OrphanStep DEF Inv

\* The invariant holds in every behaviour.
LEMMA Invariance == Spec => []Inv
<1>1. Init => Inv
  BY InitInv
<1>2. Inv /\ [Next]_vars => Inv'
  BY InvStep
<1> QED
  BY <1>1, <1>2, PTL DEF Spec

\* In any behaviour of the services every variable keeps its type, whatever model a
\* replacement names or leaves out.
THEOREM TypeCorrect == Spec => []TypeOK
<1>1. Inv => TypeOK
  BY DEF Inv
<1> QED
  BY <1>1, Invariance, PTL

\* updateKycTier flags every ACTIVE rule of another tier, whatever overlaps it, but for
\* the exceptions StaleRulesReviewed names.
THEOREM StaleRulesAreReviewed == Spec => []StaleRulesReviewed
<1>1. Inv => StaleRulesReviewed
  BY DEF Inv, StaleInv, WillFlag, StaleRulesReviewed
<1> QED
  BY <1>1, Invariance, PTL

\* EC-08 of enforcePercentageSum survives every interleaving of replacements that do not
\* overlap each other with tier changes, enablings, deletions and provisionings: the rules
\* a PARALLEL account was last given by replaceRuleSet never release more than an inflow.
\* Of the rules an account was opened with it says nothing: provisionAccount does not add
\* them up.
THEOREM PercentagesStayBounded == Spec => []PercentagesBounded
<1>1. Inv => PercentagesBounded
  <2> SUFFICES ASSUME Inv, NEW a \in Accounts \ raced, model[a] = "PARALLEL"
               PROVE  \/ RowTotal(LiveRows(a)) <= 100
                      \/ \E p \in Provisions : /\ p.account = a
                                               /\ Total(p.rules) > 100
                                               /\ LiveRows(a) \subseteq RowsOf(p)
    BY DEF PercentagesBounded
  <2>0. LiveRows(a) \subseteq Current(a)
    BY DEF LiveRows, Current
  <2>1. CASE LiveRows(a) = {}
    <3>1. RowTotal(LiveRows(a)) = 0
      BY <2>1, NoRowTotal, Zenon
    <3> QED
      BY <3>1
  <2>2. CASE LiveRows(a) # {}
    <3>1. PICK c \in Creators : /\ c.account = a
                                /\ LiveRows(a) \subseteq RowsOf(c)
                                /\ c \in Replacements => Total(c.rules) <= 100
      BY <2>0, <2>2 DEF Inv, SharesInv
    <3> DEFINE live == LiveRows(a)
    <3>2. live \in SUBSET RowsOf(c)
      BY <3>1
    <3>3. Total(c.rules) \in Int /\ (c \in Provisions \/ c \in Replacements)
      BY TotalFacts, RequestFacts
    <3> HIDE DEF live
    <3>4. RowTotal(live) \in Int /\ RowTotal(live) <= Total(c.rules)
      BY <3>2, RowsWithinRules
    <3>5. RowTotal(live) <= 100 \/ (c \in Provisions /\ Total(c.rules) > 100)
      BY <3>1, <3>3, <3>4
    <3> QED
      BY <3>1, <3>5 DEF live
  <2> QED
    BY <2>1, <2>2
<1> QED
  BY <1>1, Invariance, PTL

\* provisionAccount leaves no live virtual account without a row, but for a request that
\* is under way or ended half-way, also when two provision one accountRef.
THEOREM OrphansAreCompensated == Spec => []OrphansCompensated
<1>1. Inv => OrphansCompensated
  BY DEF Inv
<1> QED
  BY <1>1, Invariance, PTL
=============================================================================
