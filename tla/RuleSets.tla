------------------------------ MODULE RuleSets ------------------------------
(***************************************************************************)
(* Accounts, their rule sets and the KYC tier of their customers:          *)
(* AccountLifecycleService.provisionAccount, RulesService (replaceRuleSet, *)
(* toggleRule, deleteRule) and IdentityService.updateKycTier.              *)
(*                                                                         *)
(* None of these is a transaction: every database statement is a step of   *)
(* its own, and so is a call of Nomba.  A request is a record and runs at  *)
(* most once.  A rule row is <<request that creates it, rule>>; of a rule  *)
(* the model keeps the percentage of a RELEASE_FUNDS action (0: none).     *)
(***************************************************************************)
EXTENDS Integers, FiniteSets, Functions

CONSTANTS
  Customers,    \* customers of one business
  Accounts,     \* accountRefs
  Owner,        \* the customer each account is opened for
  Provisions,   \* calls of provisionAccount: [id, kind, account, model, rules]
  Registered,   \* the ones that returned before the model starts
  Replacements, \* calls of replaceRuleSet: [id, kind, account, model, rules]
  TierChanges,  \* calls of updateKycTier: [id, kind, customer, to]
  Enables,      \* calls of toggleRule with enabled: true: [id, kind, row]
  Archivals,    \* calls of toggleRule with enabled: false, and of deleteRule: [id, kind, row]
  MayFail       \* requests whose handler may die, or whose database calls may throw

Creators == Provisions \cup Replacements
Rows     == UNION {{<<q, r>> : r \in q.rules} : q \in Creators}
RowsOf(q) == {x \in Rows : x[1] = q}
RowsOn(a) == {x \in Rows : x[1].account = a}
Requests == Creators \cup TierChanges \cup Enables \cup Archivals

KycTier        == 0..3
InitialTiers   == {0, 1}
ExecutionModel == {"SEQUENTIAL", "PARALLEL"}
RuleStatus     == {"ACTIVE", "ARCHIVED", "FLAGGED_FOR_REVIEW"}

\* validateRuleSet: at least one rule, and a percentage is an integer from 1 to 100.
ValidRuleSet(rules) == rules # {} /\ \A r \in rules : r.percent \in 0..100

\* provisionAccount defaults the model of a new account; a replacement may leave it
\* out ("KEEP").  A request with an invalid rule set ends before it touches anything.
ASSUME RequestAssumption ==
  /\ Owner \in [Accounts -> Customers]
  /\ Registered \subseteq Provisions
  /\ \A p \in Provisions : p.account \in Accounts /\ p.model \in ExecutionModel
  /\ \A p, q \in Registered : p.account = q.account => p = q
  /\ \A q \in Replacements : q.account \in Accounts /\ q.model \in ExecutionModel \cup {"KEEP"}
  /\ \A q \in Creators : ValidRuleSet(q.rules) /\ IsFiniteSet(q.rules)
  /\ \A t \in TierChanges : t.customer \in Customers /\ t.to \in KycTier
  /\ \A e \in Enables \cup Archivals : e.row \in Rows
  /\ MayFail \subseteq Requests

\* A request is of one kind.
ASSUME KindAssumption ==
  /\ Provisions \cap Replacements = {}
  /\ Creators \cap (TierChanges \cup Enables \cup Archivals) = {}
  /\ TierChanges \cap (Enables \cup Archivals) = {}
  /\ Enables \cap Archivals = {}

VARIABLES
  tier,       \* Customer.kycTier
  model,      \* Account.executionModel, "NONE" before the row exists
  dva,        \* the virtual account Nomba keeps for the accountRef
  status,     \* Rule.status, "NONE" before the row exists
  tierAt,     \* Rule.kycTierAtCreation
  pc,         \* where each request is
  readTier,   \* the tier a creator has read
  newModel,   \* the executionModel a replacement will write
  staleRules, \* the rules updateKycTier has found
  outdated,   \* history: creators whose customer changed tier after they read it
  reenabled,  \* history: rules enabled since the last tier change of their customer
  superseded, \* history: rows a replacement has found in the place of its own
  raced       \* history: accounts whose last two replacements overlapped

readVars    == <<readTier, newModel, staleRules>>
historyVars == <<outdated, reenabled, superseded, raced>>
vars == <<tier, model, dva, status, tierAt, pc, readVars, historyVars>>

\* "failed" is an end half-way; after provisionAccount the virtual account may be live.
RequestPc == {"idle", "call", "create", "compensate", "tier", "archive", "find", "flag",
              "enable", "done", "rejected", "failed"}

-----------------------------------------------------------------------------
\* A customer is registered with or without a BVN.
Init ==
  /\ tier       \in [Customers -> InitialTiers]
  /\ model      = [a \in Accounts |->
                     IF \E p \in Registered : p.account = a
                     THEN (CHOOSE p \in Registered : p.account = a).model ELSE "NONE"]
  /\ dva        = [a \in Accounts |-> IF model[a] = "NONE" THEN "none" ELSE "live"]
  /\ status     = [x \in Rows |->
                     IF x[1] \in Registered THEN "ACTIVE" ELSE "NONE"]
  /\ tierAt     = [x \in Rows |-> IF status[x] = "NONE" THEN 0 ELSE tier[Owner[x[1].account]]]
  /\ pc         = [p \in Requests |-> IF p \in Registered THEN "done" ELSE "idle"]
  /\ readTier   = [q \in Creators |-> 0]
  /\ newModel   = [q \in Replacements |-> "KEEP"]
  /\ staleRules = [t \in TierChanges |-> {}]
  /\ outdated   = {}
  /\ reenabled  = {}
  /\ superseded = {}
  /\ raced      = {}

Goto(p, from, to) ==
  /\ pc[p] = from
  /\ pc' = [pc EXCEPT ![p] = to]

\* The nested create: the rows carry the tier the request has read.
CreateRules(q) ==
  /\ status' = [x \in Rows |-> IF x[1] = q THEN "ACTIVE" ELSE status[x]]
  /\ tierAt' = [x \in Rows |-> IF x[1] = q THEN readTier[q] ELSE tierAt[x]]
  /\ readTier' = [readTier EXCEPT ![q] = 0]

Total(rules) == SumFunctionOnSet([r \in rules |-> r.percent], rules)

-----------------------------------------------------------------------------
(* AccountLifecycleService.provisionAccount.                               *)

\* Steps 1 to 3: the accountRef is free, and the customer's tier is read.
ProvisionCheck(p) ==
  /\ Goto(p, "idle", IF model[p.account] = "NONE" THEN "call" ELSE "rejected")
  /\ readTier' = [readTier EXCEPT ![p] = tier[Owner[p.account]]]
  /\ UNCHANGED <<tier, model, dva, status, tierAt, newModel, staleRules, historyVars>>

\* Step 4: Nomba creates the account, or answers with the one it has for the ref.
ProvisionDva(p) ==
  /\ Goto(p, "call", "create")
  /\ dva' = [dva EXCEPT ![p.account] = "live"]
  /\ UNCHANGED <<tier, model, status, tierAt, readVars, historyVars>>

\* provisionDva throws, outside the try block: Nomba refused ...
ProvisionRefused(p) ==
  /\ Goto(p, "call", "rejected")
  /\ UNCHANGED <<tier, model, dva, status, tierAt, readVars, historyVars>>

\* ... or created the account and its answer was lost.
ProvisionAnswerLost(p) ==
  /\ Goto(p, "call", "failed")
  /\ dva' = [dva EXCEPT ![p.account] = "live"]
  /\ UNCHANGED <<tier, model, status, tierAt, readVars, historyVars>>

\* Step 5: the account and its rules, in one statement.
ProvisionCreate(p) ==
  /\ model[p.account] = "NONE"
  /\ Goto(p, "create", "done")
  /\ model' = [model EXCEPT ![p.account] = p.model]
  /\ CreateRules(p)
  /\ UNCHANGED <<tier, dva, newModel, staleRules, historyVars>>

\* Mutant: the failed insert is reported, the virtual account left alone.
ProvisionConflictThrows(p) ==
  /\ model[p.account] # "NONE" \/ p \in MayFail
  /\ Goto(p, "create", "rejected")
  /\ UNCHANGED <<tier, model, dva, status, tierAt, readVars, historyVars>>

\* The insert fails: accountRef is taken by now, or a database error.
ProvisionConflict(p) ==
  /\ model[p.account] # "NONE" \/ p \in MayFail
  /\ Goto(p, "create", "compensate")
  /\ UNCHANGED <<tier, model, dva, status, tierAt, readVars, historyVars>>

\* The catch block expires the virtual account of the ref, whoever uses it ...
Compensate(p) ==
  /\ Goto(p, "compensate", "rejected")
  /\ dva' = [dva EXCEPT ![p.account] = "expired"]
  /\ UNCHANGED <<tier, model, status, tierAt, readVars, historyVars>>

\* ... or logs that it could not.
CompensateError(p) ==
  /\ Goto(p, "compensate", "failed")
  /\ UNCHANGED <<tier, model, dva, status, tierAt, readVars, historyVars>>

-----------------------------------------------------------------------------
(* RulesService.replaceRuleSet.                                            *)

EffectiveModel(q) == IF q.model = "KEEP" THEN model[q.account] ELSE q.model

\* Mutant: EC-08 looks at the model of the request only.
ReplaceReadOwnModel(q) ==
  /\ Goto(q, "idle", IF model[q.account] = "NONE" \/ (q.model = "PARALLEL" /\ Total(q.rules) > 100)
                     THEN "rejected" ELSE "tier")
  /\ newModel' = [newModel EXCEPT ![q] = EffectiveModel(q)]
  /\ UNCHANGED <<tier, model, dva, status, tierAt, readTier, staleRules, historyVars>>

\* Steps 1 to 3: the account exists, and EC-08 holds of the new rules.
ReplaceRead(q) ==
  /\ Goto(q, "idle", IF \/ model[q.account] = "NONE"
                        \/ EffectiveModel(q) = "PARALLEL" /\ Total(q.rules) > 100
                     THEN "rejected" ELSE "tier")
  /\ newModel' = [newModel EXCEPT ![q] = EffectiveModel(q)]
  /\ UNCHANGED <<tier, model, dva, status, tierAt, readTier, staleRules, historyVars>>

\* Step 4.
ReplaceReadTier(q) ==
  /\ Goto(q, "tier", "archive")
  /\ readTier' = [readTier EXCEPT ![q] = tier[Owner[q.account]]]
  /\ UNCHANGED <<tier, model, dva, status, tierAt, newModel, staleRules, historyVars>>

\* Step 5: the ACTIVE rules of the moment; flagged ones stay.  Another replacement may be
\* between its step 5 and its step 6.
ReplaceArchive(q) ==
  LET a        == q.account
      overlaps == \E s \in Replacements \ {q} : s.account = a /\ pc[s] = "create"
  IN  /\ Goto(q, "archive", "create")
      /\ status' = [x \in Rows |-> IF x[1].account = a /\ status[x] = "ACTIVE"
                                   THEN "ARCHIVED" ELSE status[x]]
      /\ superseded' = superseded \cup {x \in RowsOn(a) : status[x] # "NONE"}
      /\ raced' = IF overlaps THEN raced \cup {a} ELSE raced \ {a}
      /\ UNCHANGED <<tier, model, dva, tierAt, readVars, outdated, reenabled>>

\* Mutant: the account is updated with the model of the request.
ReplaceCreateRaw(q) ==
  /\ Goto(q, "create", "done")
  /\ model' = [model EXCEPT ![q.account] = q.model]
  /\ CreateRules(q)
  /\ UNCHANGED <<tier, dva, newModel, staleRules, historyVars>>

\* Step 6: the account and the new rules, in one statement.
ReplaceCreate(q) ==
  /\ Goto(q, "create", "done")
  /\ model' = [model EXCEPT ![q.account] = newModel[q]]
  /\ CreateRules(q)
  /\ UNCHANGED <<tier, dva, newModel, staleRules, historyVars>>

-----------------------------------------------------------------------------
(* IdentityService.updateKycTier.                                          *)

\* Creators of the customer that have read the tier and not written their rules.
Creating(c) == {q \in Creators : Owner[q.account] = c /\ pc[q] \in {"call", "archive", "create"}}

TierWrite(t) ==
  /\ Goto(t, "idle", "find")
  /\ tier' = [tier EXCEPT ![t.customer] = t.to]
  /\ outdated' = outdated \cup Creating(t.customer)
  /\ reenabled' = {x \in reenabled : Owner[x[1].account] # t.customer}
  /\ UNCHANGED <<model, dva, status, tierAt, readVars, superseded, raced>>

\* Mutant: only rules made under a lower tier are stale.
TierFindLower(t) ==
  /\ Goto(t, "find", "flag")
  /\ staleRules' = [staleRules EXCEPT ![t] =
       {x \in Rows : /\ Owner[x[1].account] = t.customer
                     /\ status[x] = "ACTIVE"
                     /\ tierAt[x] < t.to}]
  /\ UNCHANGED <<tier, model, dva, status, tierAt, readTier, newModel, historyVars>>

\* The ACTIVE rules made under another tier than this call's.
TierFind(t) ==
  /\ Goto(t, "find", "flag")
  /\ staleRules' = [staleRules EXCEPT ![t] =
       {x \in Rows : /\ Owner[x[1].account] = t.customer
                     /\ status[x] = "ACTIVE"
                     /\ tierAt[x] # t.to}]
  /\ UNCHANGED <<tier, model, dva, status, tierAt, readTier, newModel, historyVars>>

\* updateMany by id: whatever their status is by now.
TierFlag(t) ==
  /\ Goto(t, "flag", "done")
  /\ status' = [x \in Rows |-> IF x \in staleRules[t] THEN "FLAGGED_FOR_REVIEW" ELSE status[x]]
  /\ staleRules' = [staleRules EXCEPT ![t] = {}]
  /\ UNCHANGED <<tier, model, dva, tierAt, readTier, newModel, historyVars>>

-----------------------------------------------------------------------------
(* RulesService.toggleRule and deleteRule.                                 *)

EnableRead(e) ==
  /\ Goto(e, "idle", IF status[e.row] = "FLAGGED_FOR_REVIEW" THEN "enable" ELSE "rejected")
  /\ UNCHANGED <<tier, model, dva, status, tierAt, readVars, historyVars>>

\* The update is by id: whatever the status is by now.
EnableWrite(e) ==
  /\ Goto(e, "enable", "done")
  /\ status' = [status EXCEPT ![e.row] = "ACTIVE"]
  /\ reenabled' = reenabled \cup {e.row}
  /\ UNCHANGED <<tier, model, dva, tierAt, readVars, outdated, superseded, raced>>

\* The row is found (rules are never removed) and archived.
ArchiveRule(d) ==
  /\ status[d.row] # "NONE"
  /\ Goto(d, "idle", "done")
  /\ status' = [status EXCEPT ![d.row] = "ARCHIVED"]
  /\ UNCHANGED <<tier, model, dva, tierAt, readVars, historyVars>>

\* A handler dies, or a database call throws, between two steps.
FailRequest(p) ==
  /\ p \in MayFail
  /\ pc[p] \in {"call", "create", "compensate", "tier", "archive", "find", "flag", "enable"}
  /\ pc' = [pc EXCEPT ![p] = "failed"]
  /\ UNCHANGED <<tier, model, dva, status, tierAt, readVars, historyVars>>

-----------------------------------------------------------------------------
ProvisionStep(p) ==
  \/ ProvisionCheck(p)
  \/ ProvisionDva(p)
  \/ ProvisionRefused(p)
  \/ ProvisionAnswerLost(p)
  \/ ProvisionCreate(p)
  \/ ProvisionConflict(p)
  \/ Compensate(p)
  \/ CompensateError(p)

Next ==
  \/ \E p \in Provisions : ProvisionStep(p)
  \/ \E q \in Replacements :
       ReplaceRead(q) \/ ReplaceReadTier(q) \/ ReplaceArchive(q) \/ ReplaceCreate(q)
  \/ \E t \in TierChanges : TierWrite(t) \/ TierFind(t) \/ TierFlag(t)
  \/ \E e \in Enables : EnableRead(e) \/ EnableWrite(e)
  \/ \E d \in Archivals : ArchiveRule(d)
  \/ \E p \in Requests : FailRequest(p)

Spec == Init /\ [][Next]_vars

-----------------------------------------------------------------------------
(* Properties.                                                             *)

\* Every variable keeps its type, whatever model a request names or leaves out.
TypeOK ==
  /\ tier \in [Customers -> KycTier]
  /\ model \in [Accounts -> ExecutionModel \cup {"NONE"}]
  /\ dva \in [Accounts -> {"none", "live", "expired"}]
  /\ status \in [Rows -> RuleStatus \cup {"NONE"}]
  /\ tierAt \in [Rows -> KycTier]
  /\ pc \in [Requests -> RequestPc]
  /\ readTier \in [Creators -> KycTier]
  /\ newModel \in [Replacements -> ExecutionModel \cup {"KEEP", "NONE"}]
  /\ staleRules \in [TierChanges -> SUBSET Rows]
  /\ outdated \subseteq Creators
  /\ reenabled \subseteq Rows
  /\ superseded \subseteq Rows
  /\ raced \subseteq Accounts

\* EC-03: once every tier change of a customer has returned, an ACTIVE rule carries
\* the customer's tier, however the changes overlapped each other, deletions and
\* replacements.  The exceptions are a rule an operator enabled since the change and
\* one whose creator had read the tier before it.
StaleRulesReviewed ==
  \A x \in Rows :
    LET c == Owner[x[1].account]
    IN  status[x] = "ACTIVE" /\ tierAt[x] # tier[c] =>
          \/ x \in reenabled
          \/ x[1] \in outdated
          \/ \E t \in TierChanges : t.customer = c /\ pc[t] \in {"find", "flag", "failed"}

\* The ACTIVE rules of an account that no replacement has superseded.  A superseded one is
\* ACTIVE when it was flagged before the replacement and enabled after it.
LiveRows(a) == {x \in RowsOn(a) \ superseded : status[x] = "ACTIVE"}

\* What rows release of an inflow between them, in percent.
RowTotal(rows) == SumFunctionOnSet([x \in rows |-> x[2].percent], rows)

\* EC-08: the rules a PARALLEL account has now never release more than 100 percent of
\* an inflow, however often they were replaced, with or without a change of the
\* model, by requests that drop out half-way or overlap tier changes, enablings and
\* the provisioning.  The exceptions are rules the account was opened with, which
\* provisionAccount does not add up, and replacements that overlap each other.
PercentagesBounded ==
  \A a \in Accounts \ raced :
    model[a] = "PARALLEL" =>
      \/ RowTotal(LiveRows(a)) <= 100
      \/ \E p \in Provisions :
           p.account = a /\ Total(p.rules) > 100 /\ LiveRows(a) \subseteq RowsOf(p)

\* "we don't leave a live virtual account with no record of it": a live virtual
\* account without a row belongs to a provisioning that is under way or that could
\* not know or not undo it, also when two provision one accountRef.
OrphansCompensated ==
  \A a \in Accounts :
    dva[a] = "live" /\ model[a] = "NONE" =>
      \E p \in Provisions :
        p.account = a /\ pc[p] \in {"create", "compensate", "failed"}
=============================================================================
