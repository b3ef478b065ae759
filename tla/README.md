# AccountOS: a TLA+ verification project

AccountOS is a NestJS service on PostgreSQL (Prisma), Redis (BullMQ) and the
Nomba banking API. It gives each customer virtual accounts with rules that run
on incoming payments, and gives each business treasury buckets, which are
sub-ledgers that rules allocate to and settlements pay out of. This directory
holds TLA+ models of the parts that move money or decide whether a rule runs, TLC
runs over small instances, and TLAPS proofs for all instances. Paths below are
relative to the repository.

## 1. Inventory

| Component | State | Operations | Hard because |
|---|---|---|---|
| Settlements (`src/treasury/settlement.service.ts`) | `Settlement` rows, DEBIT entries | `initiate`: TX1 reserve, Nomba call, TX2 debit; internal settlement; catch block | three transactions around an external call; snapshot read before a lock; lost answers; crashes |
| Buckets (`src/treasury/treasury.service.ts`) | `TreasuryBucket`, `BucketLedgerEntry` | provision, close, transfer | two row locks in caller order; close is check-then-act |
| Allocation (`src/treasury/allocation.service.ts`) | CREDIT entries, unique reference | `credit` under `runSerializable` | replays; snapshots against Read Committed writers |
| Intake (`src/webhooks`, `src/events`) | queue of jobs | `processInflow`, `dispatch` | duplicated deliveries |
| Webhook worker (`src/common/queue/webhook.processor.ts`) | `ProcessedEvent`, `LedgerEntry.reconciliationStatus` | `process` | many statements, no transaction; restarts after a stall |
| Account ledger (`src/ledger/ledger.service.ts`) | `LedgerEntry` with a running total | `writeInflow` | concurrent inflows to one account |
| Rule engine (`src/rules/rule-engine.service.ts`) | `RuleExecution`, `Account.status` | `evaluate`, `execute` (six actions) | ties of priority; status checks that go stale |
| Retry worker (`src/common/queue/retry.processor.ts`) | `RuleExecution`, dead letters | `process`, `onFailed` | two counters of attempts; repeated jobs |
| Account lifecycle (`src/accounts/account-lifecycle.service.ts`) | `Account`, virtual account at Nomba | provision, override status, close | compensation; runs next to workers |
| Rule sets (`src/rules/rules.service.ts`, `rule-schema.ts`) | `Rule` rows | replace, toggle, delete | archive and create are separate statements |
| Customers (`src/identity/identity.service.ts`) | `Customer.kycTier` | `updateKycTier`, create, rename | writes the tier, finds stale rules, flags them, in three statements |
| Nomba client (`src/nomba-client`), notifications | token cache in memory | `getToken`, calls with a timeout | tokens expire during calls; the answer may be lost after the effect |
| Idempotency keys (`src/common/interceptors/idempotency.interceptor.ts`) | `IdempotencyKey` rows | look up, replay, refuse, store | the row is stored after the response was sent, and nobody waits for it |
| Authentication (`src/auth`) | `Business`, `ApiKey` | register, update credentials, create and revoke keys, the guard | requests work with the copy of the business that the guard loaded |
| Scheduler, audit, HTTP, health, metrics | audit rows | - | nothing reads what they write |

How they interact: intake queues a job; the worker writes the ledger, evaluates the rules
and executes them; RELEASE_FUNDS calls `credit`, which writes a bucket's ledger; a failed
action becomes a job of the retry queue; closing an account archives its executions while
workers run; a tier change flags rules while they are being replaced; every API request
passes the guard and the idempotency interceptor, and gets a token from the cache before it
calls Nomba. Everything meets in the database, so the hard behaviours are interleavings of
statements of different handlers, and handlers that end half-way.

What makes each part correct:

- settlements: money is debited once and only for a completed settlement; reserved
  money is there when it is needed; every reservation ends, and has a handler until then,
  also when moves that lock two rows wait for each other;
- ledgers: the running total stored in the latest entry is the sum of the entries;
  value is conserved; an allocation is entered once however often it is tried;
- inflows: each rule runs at most once per transaction or event; the reconciliation
  status agrees with what ran; every recorded inflow is reconciled, and one that is not
  yet is in the hands of a worker;
- retries: COMPLETED means the call succeeded; calls are bounded; outcomes are final; an
  action to be retried has a job that will do it;
- rule sets: no stale rule stays ACTIVE unreviewed (EC-03); PARALLEL percentages
  stay within 100 (EC-08); no live virtual account without a record;
- allocation from end to end: a COMPLETED RELEASE_FUNDS has one entry in its bucket,
  an inflow is not released twice however its attempts are cut off, and what the
  percentages promise arrives;
- requests: a replayed response answers the request it is replayed for; a request
  can be retried without executing twice; no call goes out with a dead token.

## 2. Modules

| Module | Contents |
|---|---|
| `BucketFunds` | the abstract specification of the treasury: atomic holds, settlements, releases, moves, deposits |
| `Treasury` | settlements, transfers, credits, closings, on PostgreSQL's transactions; implements `BucketFunds` |
| `Inflow` | webhook worker, rule engine, retry worker, closing and status overrides |
| `Pipeline` | composition of `Inflow` and `Treasury`: RELEASE_FUNDS down to the bucket |
| `RuleSets` | provisioning, rule sets, tier changes |
| `Requests` | API keys, credentials, idempotency keys, the token cache |
| `MCTreasury`, `MCInflow`, `MCPipeline`, `MCRuleSets`, `MCRequests` | instances for TLC |
| `SumTheorems` | lemmas about sums over finite sets |
| `TreasuryProofs`, `InflowProofs`, `RuleSetsProofs`, `RequestsProofs` | theorems about one module each |
| `FundsProofs`, `PipelineProofs` | the refinement of `BucketFunds`; the composition |

In all of them a process *is* its request, a record with the arguments of the call,
and runs at most once. `pc` says where its handler is, so every `await` that another
handler can fall into is a boundary between two actions. Each definition is mapped
to its source lines in `PROJECT.json`.

A definition whose comment begins with "Mutant:" is a plausible bug. It is used in
no specification, and stands before the definition it would replace. Each property
was seen to fail when its mutant (`PROJECT.json`, "mutants") is put in.

### Treasury

| Variable | Code |
|---|---|
| `status` | `TreasuryBucket.status` |
| `sum`, `latest` | SUM over the bucket's entries; `cumulativeAmountKobo` of its most recent entry |
| `credited` | the CREDIT entries of `credit`, with their unique reference |
| `settlement`, `debits` | `Settlement.status`, number of DEBIT entries |
| `paid` | transfers Nomba made |
| `snap` | what a transaction read at its first statement |
| `conflicted` | open Serializable transactions that PostgreSQL will fail |
| `overtaken` | open credits whose bucket got an entry since their snapshot |
| `lock`, `attempts` | the FOR UPDATE lock of a bucket row; replays of a credit |

`initiate` is `Initiate`, TX1 (`BeginReserve`, then `Reserve` or `RejectReserve`),
`MarkProcessing`, one of the destinations (`BankTransferOk` / `BankTransferError`,
`SettleInternalBegin`, then `SettleInternal` / `SettleInternalUnacknowledged` /
`SettleInternalError`), TX2 (`CompleteSettlement`, `CompleteUnacknowledged`,
`CompleteError`) and the catch block (`MarkFailed`). Nothing stores what is reserved:
`reserved` is an operator, the sum of the in-flight rows, as `reservedKobo` computes it.
Missing destination details throw into the same catch and are part of the two error actions.
`Abandon` is the death of the handler, or a failed update that is swallowed. Transfers are
`TransferBegin` and `Transfer` / `TransferError`, credits `CreditBegin`, `Credit`,
`CreditRetry`, `CreditError`, closing is its three reads and its update.

Of PostgreSQL the model keeps what the code relies on: the snapshot of a Serializable
transaction is taken by its first statement, before it waits for the row lock; two
Serializable transactions that read what the other writes do not both commit; Read Committed
transactions with FOR UPDATE are invisible to that check; an insert of an entry waits for a
lock on the bucket row; a transaction that waits for a row may fail at any time, as the
victim of a deadlock or at Prisma's time limit. `createdAt` of an entry is set before its
insert waits, which is why `Credit` may leave another entry as the most recent one.

### BucketFunds

What a caller may believe: `balance`, `held`, the fate of each `hold` and what was
`entered`, changed by `Hold`, `Settle`, `Release`, `Move` and `Deposit`, each one
atomic step. It has no code of its own. `Treasury` instantiates it with the refinement
mapping `balance <- sum`, `held <- reserved`, a settlement's status read as the state of
its hold, and the credits and finished transfers as what was entered. The refinement
(`ImplementsFunds`) holds for requests that keep settled buckets apart from credits and
transfers out; why only for those is the content of the first finding and of the note
on cumulative amounts in section 5.

### Inflow

| Variable | Code |
|---|---|
| `account`, `total` | `Account.status`, SUM of its INFLOW entries |
| `recon`, `cum` | `LedgerEntry.reconciliationStatus`, `cumulativeAmountKobo` |
| `processed` | `ProcessedEvent` rows |
| `exec`, `runs` | `RuleExecution.status`, number of rows created |
| `tries`, `effects` | downstream calls made, and those that took effect |
| `pc`, `seen`, `prior`, `todo`, `result`, `stalls` | the worker's locals, and BullMQ's stall count |
| `rpc`, `rresult`, `made`, `rstalls`, `deadLetters` | the retry job of each execution |

The worker's `process` is `CheckDuplicate`, `LookupAccount`, `ClaimEvent` (custom
events) or `WriteBegin` and `WriteInflow` / `WriteConflict` (inflows), then per rule
`CreateExecution`, the action, `RecordExecution` and possibly `EnqueueRetry`, then
`Reconcile` and `MarkProcessed`. `Matches` and `Evaluations` are `evaluate`: rules of
one priority come in any order. `FailJob` is a database call that throws,
`CrashWorker` a worker that dies. `RetryBegin`, `RetryAct`, `RetryRecord`,
`RetryFinish` and `RetryThrow` are the retry worker with BullMQ's counting of
attempts. `CloseResolve`, `CloseArchive`, `CloseExpire`, `CloseAccount` and
`PatchRead`, `PatchWrite` are the API next to it. A RELEASE_FUNDS call is an outcome
here (`Calls`); what happens inside it is in `Pipeline`.

### Pipeline

The steps of `Inflow` and of `Treasury`, joined at the call of `credit`. `BeginCall` is
`handleReleaseFunds` or `attemptRelease` up to the call, `CallStep` the transaction of
Treasury that it runs, and `WorkerRelease` / `RetryRelease` the answer: the outcome that
`Inflow` leaves open is decided by what the transaction did (`Answer`), or by the early
returns before the call (`Skipped`). `WorkerDies` and `RetryDies` leave the call behind,
and `OrphanStep` is its COMMIT arriving after all. `calls` counts the calls of an
execution, so each call is a process of Treasury of its own; `calling` are the
executions whose caller is waiting. The reference has the transaction and the bucket in
it, as `rule-engine.service.ts` and `retry.processor.ts` build it.

### RuleSets

`tier`, `model`, `status` and `tierAt` are columns, `dva` is Nomba's virtual account,
and `readTier`, `newModel` and `staleRules` are locals of handlers. Four variables are
history: `outdated` (creators whose customer changed tier after they read it),
`reenabled` (rules an operator enabled since the last tier change), `superseded` (rows a
replacement found in the place of its own) and `raced` (accounts whose last two replacements
overlapped). They name exceptions, no guard reads them. Every database
statement of `provisionAccount`, `replaceRuleSet`, `updateKycTier`, `toggleRule` and
`deleteRule` is an action; reads that decide nothing are merged with their
neighbour. `FailRequest` ends a handler anywhere; `MayFail` says whose.

### Requests

| Variable | Code |
|---|---|
| `registered`, `creds`, `apiKey` | `Business` rows, the version of their Nomba credentials, `ApiKey` rows |
| `rows` | `IdempotencyKey` rows, each named by the request whose response it holds |
| `cache` | `tokenCache` of `NombaClientService` |
| `pc`, `outcome`, `reply` | where a request is, and how and with whose response it was answered |
| `loaded`, `token`, `since` | `request.business`, the token `getToken` returned, the begin of the present call |
| `now` | the clock of token lifetimes and key expiry |

`Authenticate` and `Unauthorized` are the guard, `EnterHandler`, `Replay` and `Conflict` the
interceptor before the handler, `UseCachedToken`, `RefreshToken`, `IssueToken` and
`StoreToken` are `getToken`, `HandlerOk` and `HandlerError` the operation, which is
abstract, and `StoreResponse` or `LoseResponse` the insert after the response.
`RegisterBusiness`, `UpdateCredentials`, `CreateApiKey` and `RevokeApiKey` are
`AuthService`. `Restart` empties what is in memory. `Tick` lets time pass, but not beyond
the timeout of a call under way.

## 3. Runs

| Run | Instance | Shows |
|---|---|---|
| `treasury_settle` | three settlements (two external, one internal) that ask for 4 of 2 kobo, a credit to the other bucket and a transfer back that locks the two rows in the opposite order, fair, dying handlers; 204,313 states | `DebitOnlyOnCompletion`, `ReservationsCovered`, `CumulativeExact`, `ReservationsHandled`, `SettledIsFinal`, `ImplementsFunds`, `SettlementsResolve` |
| `treasury_mixed` | an external and an internal settlement, three credits (two with one reference), a closing, a bucket provisioned meanwhile, lost answers, dying handlers; 1,958,772 states | `TypeOK`, `Conservation`, `CumulativeExact`, `AllocatedOnce` |
| `inflow_duplicates` | one transaction delivered twice and another one to the same account, workers that fail or die once per job; 638,059 states | `RulesRunOnce`, `RunningTotal`, `ReconciledMeansRun`, `PendingIsOwned` |
| `inflow_status` | an inflow and a custom event delivered twice, rules that notify, suspend, reactivate or expire the account, dying workers and retry workers; 664,029 states | `RulesRunOnce` |
| `inflow_live` | an inflow with a notification that fails and a share of less than a kobo, a suspension and a closing, fair, no deaths; 14,208 states | `SuspendedInflowsHeld`, `InflowsReconcile`, `RetriesResolve`, `ClosedDrains`, `TerminalIsFinal` |
| `pipeline` | an inflow of 5 for which one of three rules runs: it releases 70 percent, notifies, or releases 10 percent, which is less than a kobo, to another bucket; replays, retries, dying workers, errors, a bucket provisioned meanwhile; 171,178 states | `TypeOK`, `CompletedTookEffect`, `AttemptsBounded`, `RetryingHasJob`, `CompletedIsCredited`, `ReleasedWithinInflow`, `FulfilledInFull`, `ResolvedIsFinal` |
| `rules` | one account, provisioned by two racing requests (one PARALLEL with 120 percent), a replacement that sets PARALLEL and one that keeps the model and asks for 120 percent, two tier changes, an enabling, a deletion, a provisioning and a replacement cut off anywhere; 2,321,368 states | `TypeOK`, `StaleRulesReviewed`, `PercentagesBounded`, `OrphansCompensated` |
| `requests` | a withdrawal and its retry, a request with another body and one of another business, all with one key, restarts, keys that expire and are revoked; 389,540 states | `TypeOK`, `ReplayFaithful`, `ReplaysAgree`, `TokenAlive` |
| `treasury_reserved` | a transfer next to a settlement | **violated** `ReservedFundsStay` |
| `treasury_paid` | two settlements of one balance | **violated** `PaidIsCovered` |
| `inflow_crash` | an inflow whose worker dies | **violated** `InflowsReconcile` |
| `requests_retry` | the requests of `requests` | **violated** `SafeRetry` |

The violated ones are the findings of `PROJECT.json`:

- `ReservedFundsStay`: `transferBetweenBuckets` checks the bare balance, so it moves
  money a settlement has reserved; the documentation says it cannot.
- `PaidIsCovered`: an answer of Nomba that is lost after the transfer was made marks
  the settlement FAILED and releases its reservation; the money is paid out again.
- `InflowsReconcile` with crashes: the restarted job meets its own ledger entry, takes
  itself for a duplicate and never runs the rules.
- `SafeRetry`: the interceptor looks for the stored response before the handler and stores
  its own in an insert nobody awaits, after the answer; a retry in between, even one sent
  after the answer, is executed too. `README.md:197` offers the key for safe retries.

### Bounds, and why they are enough

Requests are finite sets because each is a call that may or may not come; two
overlapping ones suffice for every pairwise conflict of the code, and three or four
are given where the conflict needs a third party (two TX1s and the transfer that
refills the bucket; a duplicate delivery and a second transaction; a stored response,
its retry and a request that conflicts with both). Amounts are 1 and 2 kobo, such that
some requests fit and all together do not; `pipeline` takes 70 percent of 5, which is no
whole number and of which two entries exceed the inflow, and 10 percent of 5, which makes no
call. `MaxRetries` is 1 (the code: 5) and
`MaxAttempts` 2 (the code: 5): the first failure, the middle and the last attempt are
distinguished. `MaxStalls` is 1, which is BullMQ's default. `MaxCalls` is one more than an
execution can reach. In `rules` the PARALLEL requests ask for 60 and
120 percent, one allowed and one not, and which replacement EC-08 accepts depends on the
model it finds; the customer moves up and down, so a rule can be stale and fresh again.
Time in `requests` is scaled to ticks: `Margin` and `CallTime` are 1 and
`TokenLife` 3, the smallest that satisfy `TimeAssumption` and let a token age from fresh to
stale within `MaxTime` 3. `MaxCredentials` is 1, so credentials are completed but not
replaced in that instance, and all four requests carry a key: a request without one
meets no other request. Deadlock checking is off everywhere because requests end and the
system then rests. Two runs use symmetry: in `requests` the withdrawal and its retry, in
`inflow_status` the two deliveries of the event differ in nothing but their name, and
neither checks a liveness property.

### Fairness

`FairSpec` assumes weak fairness of the steps of a handler that has started, never of
a request arriving. The code justifies it: Nomba calls time out after 15 seconds
(`nomba-client.service.ts`), notifications after 10 (`notification.service.ts`),
Prisma's interactive transactions have a time limit and PostgreSQL breaks lock cycles, so a
transaction ends one way or the other, and BullMQ keeps handing out queued jobs.
Nothing is assumed about what the outcome is, only that there is one. Fairness
never excludes a death: `SettlementsResolve` allows for it by name (`"abandoned"`), and
`inflow_live` has workers that live (`MayFail` FALSE, `MaxStalls` 0), because the code has
no recovery for either, which `inflow_crash` shows with deaths allowed. The safety
properties, and the refinement, do not depend on fairness.

## 4. Proofs

`TreasuryProofs` proves, for any buckets, requests, amounts and retry bound that
satisfy the assumptions of `Treasury`:

| Theorem | Statement |
|---|---|
| `TypeCorrect` | `Spec => []TypeOK` |
| `ReservationsStayCovered` | `Spec => []ReservationsCovered` |
| `CumulativeStaysExact` | `Spec => []CumulativeExact` |
| `AllocationsAreOnce` | `Spec => []AllocatedOnce` |
| `ValueIsConserved` | `Spec => []Conservation` |
| `ReservationsStayHandled` | `Spec => []ReservationsHandled` |
| `DebitsMatchSettlements` | with acknowledged commits (`~MayLoseAck`), `Spec => []DebitOnlyOnCompletion` |
| `SettlementsAreFinal` | with acknowledged commits, `Spec => SettledIsFinal` |

The argument has three inductive strengthenings. `BalanceInv` adds to
`ReservationsCovered` and `CumulativeExact` what open transactions know: a TX1 that is
not `conflicted` has a snapshot that does not exceed what is available now, although
it may be old (others can only have released or refilled meanwhile), and on a bucket that only
`credit` touches, a credit that is not `conflicted` has the present sum in its snapshot
and was not overtaken. Without
these the commit steps say nothing about the present. `SettlementInv` ties each
handler's `pc` to the status and the number of DEBITs of its row, which is what makes
the catch block harmless: a handler in `failing` has no DEBIT yet. That is just what
a lost acknowledgement breaks, so the two theorems about settlements exclude it.
`HoldInv` is the part of it that survives a lost acknowledgement: which control points have a
row in flight. With it `ReservedStep` says by how much each step changes the sum over in-flight
settlements, on which the balances and the refinement rest; `ConservationStep` does the same
for the sum over the buckets, and neither needs an assumption on the answers.

`ReservationsHandled` is the safety part of `SettlementsResolve`. It is inductive: every way out
of `initiate` passes the row's COMPLETED or FAILED first, or is a death.

The sums are folds over finite sets, and the library's induction theorems have an operator
as parameter, which the installed provers cannot instantiate. `SumTheorems` therefore proves
induction over the subsets of a finite set with a *set* of subsets in place of the predicate
(`SubsetInduction`, from the well-foundedness of strict inclusion), then that the fold is
the function it should be (`FoldIsSum`), and from that what the proofs use: how a sum
changes with one summand, over a part, over an image, over its non-zero summands, and under
a bound on each summand. The other proofs cite only those. They need finite tables, which
`FiniteAssumption` states.

`FundsProofs` proves the refinement, `TreasuryImplementsFunds`: with acknowledged commits
and settled buckets kept apart (`Separate`), `Spec => ImplementsFunds`. Every step is one
of six that a caller sees or changes nothing `BucketFunds` speaks of (`VisibleOrHidden`);
each of the six is an abstract step by a lemma of its own. The interesting one is
`ReserveHolds`: TX1 tests a snapshot, and `SnapshotCovers` with `CumulativeExact` make that a
test of the present `Available`. `FundsInv` adds that nothing is reserved on a bucket
nobody settles from, which is why a transfer that tests the bare balance there never
touches held money.

`InflowProofs` proves, for any accounts, rules, deliveries, closings, overrides, attempts
and deaths that satisfy the assumptions of `Inflow`:

| Theorem | Statement |
|---|---|
| `TypeCorrect` | `Spec => []TypeOK` |
| `RulesDoRunOnce` | `Spec => []RulesRunOnce` |
| `TotalsKeepRunning` | `Spec => []RunningTotal` |
| `ReconciliationIsTrue` | `Spec => []ReconciledMeansRun` |
| `HeldInflowsRunNothing` | `Spec => []SuspendedInflowsHeld` |
| `CompletionIsEarned` | `Spec => []CompletedTookEffect` |
| `AttemptsStayBounded` | `Spec => []AttemptsBounded` |
| `TerminalStaysFinal` | `Spec => TerminalIsFinal` |
| `PendingStaysOwned` | `Spec => []PendingIsOwned` |
| `RetriesKeepTheirJob` | `Spec => []RetryingHasJob` |
| `ResolutionIsFinal` | `Spec => ResolvedIsFinal` |

None of these is inductive by itself. The core of `Inv` is `OwnerInv`: a transaction is
taken by the insert of its entry (or of the `ProcessedEvent`), at most one job *owns* it,
that is, is between that insert and the reconciliation, and nothing was executed before it
is taken. A job that restarts after a death finds the transaction taken and can never own it
again, which is why rules run at most once, and also why they may not run at all
(`inflow_crash`). `ExecInv` adds what the owner has still to do: the executions of the rules
left are `Untouched`, the current one has no retry job yet. That needs the rules of a job to
be distinct, which is `OrdersAreRules` about the query. `OutcomeInv` and `ReconInv` say what
the owner leaves for `updateReconciliationStatus`, and that a reconciled or held transaction
has no owner. `ReconciledMeansRun` leaves out inflows a rule flagged; the invariant says the
same of those (`RunsMatch`), which is the overwrite of FLAGGED in section 5. `LockInv` ties
the lock of the account row to the sum its holder read, for `RunningTotal`. `RetryInv`
bounds the calls by what the retry job has counted at each of its control points, and says
that an execution whose retry is under way is not COMPLETED or FAILED, which makes
`ResolvedIsFinal` a consequence. `EffectInv` covers an "ok" that is not recorded yet.

`PendingIsOwned` and `RetryingHasJob` are where `InflowsReconcile` and `RetriesResolve`
begin: what is unfinished is in somebody's hands. They name the only ways to lose it
(`Interrupted`: a job of the transaction failed, or lost its worker), which the restarted
job does not repair. They are inductive next to `Inv` (`OwnedInv`), which says who the owner
is and that the execution a worker is at is the head of its rules. `OwnRules` adds that
executions belong to a rule of the account of their transaction, and `CustomHasNoEntry` that
a custom event has no ledger entry to lose.

`PipelineProofs` proves, for any rules, deliveries, buckets and bounds:

| Theorem | Statement |
|---|---|
| `PipelineImplementsInflow` | `PipelineSpec => Spec` |
| `InflowResultsCarryOver` | `PipelineSpec => [](TypeOK /\ RulesRunOnce /\ CompletedTookEffect /\ AttemptsBounded) /\ [](PendingIsOwned /\ RetryingHasJob) /\ ResolvedIsFinal` |
| `PipelineImplementsTreasury` | `PipelineSpec => T!Spec` |
| `CompletionIsCredited` | `PipelineSpec => []CompletedIsCredited` |
| `InflowIsNotExceeded` | `PipelineSpec => []ReleasedWithinInflow` |
| `BalancesAddUp` | `PipelineSpec => []BucketsAddUp` |
| `PromisesAreKept` | `PipelineSpec => []FulfilledInFull` |
| `SharesExhaust` | any finite set of percentages that add up to 100: the floored shares are at most the inflow, and less than a kobo per rule below it |

The composition implements both of its parts, so the invariant of `Inflow` holds of it. To
that `PipelineInv` adds that a call which came back finds its reference in the ledger
(`AllocInv`), that who waits has begun a call (`CallInv`), and that what `Inflow` counts as
an effect of a release is an entry (`EffectsEntered`). The last one is where the reference
matters: it has no attempt in it, so the entry of a caller that died answers for all later
calls. An execution then has at most one entry, so the entries of an inflow add up to no
more than its shares (`SumOfImage`, `SumOfPart`), and those to no more than the inflow
(`SumOfShares`). For `FulfilledInFull` the other direction is needed too: a COMPLETED
release with a share of a kobo or more has its entry (`InvImpliesCredited`), and one that
makes no call has no share (`NothingToRelease`, which needs `OwnRules`), so the entries are
the floored shares of all of them (`SumOfSupport`), each of them short by less than a kobo.
`BucketsAddUp` follows from the refinement of `Treasury`: `LedgerInv` says that the snapshot
of a call which may still commit is the present sum, since every other commit on the bucket
would have made it fail.

`RuleSetsProofs` proves, for any customers, accounts, rules and requests that satisfy the
assumptions of `RuleSets`:

| Theorem | Statement |
|---|---|
| `TypeCorrect` | `Spec => []TypeOK` |
| `StaleRulesAreReviewed` | `Spec => []StaleRulesReviewed` |
| `PercentagesStayBounded` | `Spec => []PercentagesBounded` |
| `OrphansAreCompensated` | `Spec => []OrphansCompensated` |

`StaleInv` says which tier change will flag a stale rule (`WillFlag`): one to the *present*
tier that has not looked yet, or has found this row; with two changes to different tiers the
later writer is the one that counts. It rests on `ReadInv`, that a creator no change has
overtaken holds the present tier. `SharesInv` speaks of the rows of an account that no
replacement has superseded (`Current`): they are of one creator, there are none between the
two statements of a replacement, and on a PARALLEL account a replacement that created them
was allowed by EC-08. It says so of every account whose last two replacements did not
overlap, so it bounds the percentages through any number of replacements (`SharesArchive`,
`SharesCreate`). What the property excepts is what the code does not ensure: rules the
account was opened with, replacements that overlap, and rules of a superseded set that are
enabled again. `KindAssumption` says that requests of different kinds are different
requests.

`RequestsProofs` proves, for any businesses, keys, requests and times that satisfy the
assumptions of `Requests`:

| Theorem | Statement |
|---|---|
| `TypeCorrect` | `Spec => []TypeOK` |
| `ReplaysAreFaithful` | `Spec => []ReplayFaithful` |
| `ReplaysDoAgree` | `Spec => []ReplaysAgree` |
| `TokensStayAlive` | `Spec => []TokenAlive` |

`TypeInv` adds to the types that a request which asks for a token has loaded complete
credentials. `RowInv` says that a row belongs to an executed request and that a slot
(business and key) has one row, and that what was replayed is that row. `TokenInv` bounds
ages: a token under way was issued within its call, and one in use had more than a call's
time left when the call began. It needs that the margin covers a call and that a token
outlives two calls (`TimeAssumption`; the code: 60 seconds, 15 seconds, and the lifetime
Nomba states).

Only model-checked: the liveness properties (`SettlementsResolve`, `InflowsReconcile`,
`RetriesResolve`, `ClosedDrains`); fairness is outside the prover's reach. All other
properties of the passing runs are theorems, most of them for more than the run checks
(`ImplementsFunds` with the same restriction to separate buckets). Each inductive invariant
was checked by TLC on the instances of its runs before it was proved, and so was
`BucketsAddUp` (on `pipeline`), which no run lists.

## 5. Observed divergences

Behaviours of the code that the models contain and that differ from what its
documentation or a comment leads one to expect, apart from the four findings:

- `credit` (Serializable, no lock) and the locked Read Committed writers do not see each
  other, so on a bucket that both write the latest cumulative amount, documented to be
  the balance (`PRD.md:76`), can miss an entry. `CumulativeExact` states where it cannot.
- The last attempt of a retry job returns instead of throwing (`retry.processor.ts:183`),
  so `onFailed` does not fire and no dead letter is written.
- Two rules of one account that name one bucket build the same reference: one of them
  is credited, the other finds its entry and is COMPLETED too. `attemptRelease` does not look
  at the bucket's status, `handleReleaseFunds` does. An execution can end FAILED
  although its credit was entered (its COMMIT arrived late, or its answer was lost).
- `closeBucket` reads balance and reservations and closes without a lock, and `credit`
  ignores the bucket's status: a credit in between ends in a closed bucket.
- A settlement whose handler dies after TX1 stays in flight; nothing resumes or
  sweeps it, and its amount stays reserved.
- When the COMMIT of TX2 or of `settleInternal` succeeds and its answer is lost, the catch
  block overwrites COMPLETED with FAILED although the DEBIT exists (`README.md:320`: "no
  DEBIT written"). `treasury_mixed` reaches both; `DebitOnlyOnCompletion`,
  `SettledIsFinal` and the refinement are therefore stated for acknowledged commits.
- The allocation reference keeps eight characters of the bucket id; two buckets that
  agree on them share it, and the second allocation of an inflow is skipped.
- `matches` does not look at the kind of event for INFLOW_RECEIVED rules, so a custom
  event (amount 0) runs those without a lower bound. A RELEASE_FUNDS run by a custom
  event fails, is marked RETRYING, and no retry job is queued.
- A worker that dies between marking RETRYING and queueing the job leaves an execution
  nothing resolves.
- FLAGGED, set by a FLAG_FOR_REVIEW rule "so a human can review it"
  (`rule-engine.service.ts:385-388`), is overwritten with MATCHED at the end of the same job
  (`webhook.processor.ts:345`). `ReconciledMeansRun` leaves such inflows out and so neither
  asks for the overwrite nor forbids it.
- `closeAccount` archives executions before it closes; a worker in flight creates or
  reopens some afterwards. When Nomba's answer is an error the account stays open with
  its executions archived.
- `updateStatus` and the status actions write by id after an earlier check, so they
  can turn a CLOSED account back to SUSPENDED or ACTIVE.
- `provisionAccount` does not add up percentages, and `validateRuleSet` does not either
  (`account-lifecycle.service.ts:50-145`, `rule-schema.ts:183-194`): a PARALLEL account
  can be opened with rules that release more than the inflow, although EC-08 covers `POST
  /accounts` (`PRD.md:187`, `BUILD.md:694-699`, `API_SPEC.md:586`, `README.md:319`). `rules`
  opens one with 120 percent, and `PercentagesBounded` excepts it until it is replaced.
- FLAGGED_FOR_REVIEW rules survive a replacement and can be enabled next to the new set. Two
  overlapping replacements leave both sets ACTIVE. A tier change, or an enabling that read
  the rule earlier, revives ARCHIVED rules. A rule whose creator read the tier before a tier
  change is not flagged. The loser of two provisionings expires the virtual account by the
  reference it shares with the winner. An answer of Nomba lost before the try block leaves a
  live virtual account without a row.
- A restart between answer and insert loses the `IdempotencyKey` row, and an operation that
  threw after taking effect is not stored at all. The path is not compared, so a key reused
  on another route with the same body returns that route's response; `MUTATING_PATHS` is not
  used, every POST is covered.
- `updateBusinessCredentials` leaves the cached token, and a request that loaded the old
  credentials may cache another one. Revoking a key does not stop requests that have
  passed the guard.

## 6. Not modelled

- Customer renaming with its name history, and bucket renaming: one-row operations.
- The scheduler and the audit log only append audit entries, which nothing reads;
  `audit.log` never throws.
- HTTP: routing, guards, validation pipes, filters, health, metrics, OpenAPI. Request
  validation is an assumption on the requests (amounts at least 1 kobo, valid rule
  sets). The validation pipe strips the fields an INTERNAL_BUCKET settlement needs, so
  internal settlements are modelled as the service offers them.
- `TreasuryService.withdraw`, `LedgerService.writeOutflow` and `transferFunds` of the Nomba
  client have no caller. Reads,
  statements, CSV and the mock mode of the Nomba client change nothing.
- Row-level security and cryptography (hashing, encryption, webhook signatures).

## 7. Plan

1. `FundsProofs` without `Separate`: which weaker abstract treasury do buckets that are both
   settled from and moved from implement? The first finding says it is not `BucketFunds`.
2. Instances: replaced credentials (`MaxCredentials` 2) in `requests`.
