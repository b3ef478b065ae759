------------------------------- MODULE Inflow -------------------------------
(***************************************************************************)
(* The inflow pipeline of AccountOS: Nomba webhooks and custom events are  *)
(* queued (WebhooksService, EventsService), a worker writes the account's  *)
(* ledger, evaluates the account's rules and executes the ones that match  *)
(* (WebhookProcessorService, LedgerService, RuleEngineService), and a      *)
(* second queue retries the actions that failed (RetryProcessorService).   *)
(* Meanwhile the API changes the account's status or closes the account    *)
(* (AccountLifecycleService).                                              *)
(*                                                                         *)
(* A process is its request, as in Treasury: a delivery, a closing or a    *)
(* status override.  Every database statement outside a transaction is a   *)
(* step of its own; writeInflow locks the account row, so it is two steps  *)
(* with the lock held in between.  Any number of workers run, each job in  *)
(* one of them at a time: when a worker dies BullMQ hands its job to       *)
(* another one, MaxStalls times.  A job that throws is not retried (the    *)
(* webhook queue has no attempts), a retry job is, MaxAttempts times.      *)
(***************************************************************************)
EXTENDS Integers, Sequences, FiniteSets

CONSTANTS
  Accounts,    \* accounts of one business
  Model,       \* their executionModel, "SEQUENTIAL" or "PARALLEL"
  Rules,       \* ACTIVE rules: [id, account, priority, trigger, gte, lte, cumGte,
               \*   event, action, percent, value]
  Deliveries,  \* queued events: [id, kind, event, txn, account, amount, name]
  Closings,    \* calls of closeAccount: [id, account]
  Patches,     \* calls of updateStatus: [id, account, to]
  Free,        \* the lock value of an account row nobody holds
  MaxAttempts, \* attempts and maxAttempts of a retry job
  MaxStalls,   \* how often a job survives the death of its worker (0: none dies)
  MayFail      \* TRUE: a database call of a worker may throw

Procs  == Deliveries \cup Closings \cup Patches
Txns   == {j.txn : j \in Deliveries}
Events == {j.event : j \in Deliveries}
Execs  == Txns \X Rules

Terminal == {"CLOSED", "EXPIRED"}
Resolved == {"COMPLETED", "FAILED", "ARCHIVED"}

Effectful     == {"RELEASE_FUNDS", "NOTIFY_WEBHOOK"}
StatusActions == {"SUSPEND_ACCOUNT", "EXPIRE_ACCOUNT", "REACTIVATE_ACCOUNT"}

\* amounts are integers of at least 1 kobo; a custom event carries none.  An
\* event names one transaction, and a transaction one account and amount.
ASSUME DeliveryAssumption ==
  /\ \A j \in Deliveries :
       /\ j.account \in Accounts
       /\ j.kind \in {"inflow", "custom"}
       /\ j.amount \in Nat
       /\ j.kind = "custom" <=> j.amount = 0
       /\ j.kind = "custom" => j.txn = j.event
  /\ \A i, j \in Deliveries :
       /\ i.event = j.event => i.txn = j.txn
       /\ i.txn = j.txn => i.account = j.account /\ i.amount = j.amount /\ i.name = j.name

\* What rule-schema.ts lets through: amounts are integers, a percentage is an integer
\* from 1 to 100 (kept in basis points), any trigger goes with any action.
ValidRule(r) ==
  /\ {r.priority, r.gte, r.lte, r.cumGte, r.value} \subseteq Nat
  /\ r.trigger \in {"INFLOW_RECEIVED", "CUSTOM_EVENT", "TIME_ELAPSED", "TIER_CHANGED"}
  /\ r.action \in Effectful \cup StatusActions \cup {"FLAG_FOR_REVIEW"}
  /\ r.percent \in BOOLEAN
  /\ r.percent => r.value \in {100 * p : p \in 1..100}

ASSUME RuleAssumption ==
  /\ Model \in [Accounts -> {"SEQUENTIAL", "PARALLEL"}]
  /\ IsFiniteSet(Rules)
  /\ \A r \in Rules : r.account \in Accounts /\ ValidRule(r)

ASSUME ProcessAssumption ==
  /\ \A k \in Closings : k.account \in Accounts
  /\ \A p \in Patches : p.account \in Accounts
  /\ Deliveries \cap (Closings \cup Patches) = {}
  /\ Closings \cap Patches = {}
  /\ Free \notin Deliveries
  /\ MaxAttempts \in Nat \ {0}
  /\ MaxStalls \in Nat
  /\ MayFail \in BOOLEAN

VARIABLES
  account,    \* Account.status
  total,      \* SUM of the account's INFLOW entries
  recon,      \* LedgerEntry.reconciliationStatus, "NONE" before the entry exists
  cum,        \* LedgerEntry.cumulativeAmountKobo
  processed,  \* eventIds of the ProcessedEvent rows
  exec,       \* RuleExecution.status, "NONE" before the row exists
  runs,       \* how many RuleExecution rows were created
  tries,      \* how often the action's downstream call was made
  effects,    \* executions whose downstream call took effect
  pc,         \* where each process is
  seen,       \* Account.status as the worker read it
  prior,      \* the sum writeInflow read
  todo,       \* matching rules the worker has not finished
  result,     \* outcome of the current rule's action
  stalls,     \* deaths of the job's worker so far
  lock,       \* holder of the account row's FOR UPDATE lock
  rpc,        \* where the retry job of an execution is
  rresult,    \* outcome of its current attempt
  made,       \* job.attemptsMade
  rstalls,    \* deaths of the retry job's worker so far
  deadLetters \* retry jobs for which onFailed wrote the dead-letter entry

ledgerVars == <<total, recon, cum>>
execVars   == <<exec, runs, tries, effects>>
workVars   == <<seen, prior, todo, result, stalls>>
retryVars  == <<rpc, rresult, made, rstalls, deadLetters>>
vars == <<account, ledgerVars, processed, execVars, pc, workVars, lock, retryVars>>

AccountStatus == {"ACTIVE", "SUSPENDED", "EXPIRED", "CLOSED"}
ReconStatus   == {"NONE", "PENDING", "MATCHED", "UNMATCHED", "FLAGGED"}
ExecStatus    == {"NONE", "PENDING", "RETRYING"} \cup Resolved
Outcome       == {"none", "ok", "fail", "retry"}

\* A delivery that a worker is processing.
Working == {"lookup", "claim", "write", "insert", "rule", "act", "apply",
            "record", "enqueue", "matched", "unmatched", "mark"}
JobPc   == Working \cup {"idle", "queued", "done", "failed"}

\* Where it has matching rules left, where it executes one of them, and where it has the
\* right to run the rules of its transaction or to reconcile it.
Executing == {"rule", "act", "apply", "record", "enqueue"}
Acting    == {"act", "apply", "record"}
Owning    == Executing \cup {"matched", "unmatched"}

ApiPc == {"idle", "archive", "expire", "close", "write", "done", "rejected"}

\* A retry job that a worker is processing.
Retrying == {"active", "acted", "ack", "spent", "throw"}
RetryPc  == Retrying \cup {"none", "queued", "finished", "exhausted", "dead"}

-----------------------------------------------------------------------------
Init ==
  /\ account     = [a \in Accounts |-> "ACTIVE"]
  /\ total       = [a \in Accounts |-> 0]
  /\ recon       = [t \in Txns |-> "NONE"]
  /\ cum         = [t \in Txns |-> 0]
  /\ processed   = {}
  /\ exec        = [x \in Execs |-> "NONE"]
  /\ runs        = [x \in Execs |-> 0]
  /\ tries       = [x \in Execs |-> 0]
  /\ effects     = {}
  /\ pc          = [p \in Procs |-> "idle"]
  /\ seen        = [j \in Deliveries |-> "ACTIVE"]
  /\ prior       = [j \in Deliveries |-> 0]
  /\ todo        = [j \in Deliveries |-> <<>>]
  /\ result      = [j \in Deliveries |-> "none"]
  /\ stalls      = [j \in Deliveries |-> 0]
  /\ lock        = [a \in Accounts |-> Free]
  /\ rpc         = [x \in Execs |-> "none"]
  /\ rresult     = [x \in Execs |-> "none"]
  /\ made        = [x \in Execs |-> 0]
  /\ rstalls     = [x \in Execs |-> 0]
  /\ deadLetters = {}

Goto(p, from, to) ==
  /\ pc[p] = from
  /\ pc' = [pc EXCEPT ![p] = to]

Unlock(j) == lock' = [lock EXCEPT ![j.account] = IF @ = j THEN Free ELSE @]

\* The rule the worker is executing, and its RuleExecution.
Rule(j) == Head(todo[j])
Exec(j) == <<j.txn, Rule(j)>>

-----------------------------------------------------------------------------
(* RuleEngineService.evaluate and matches.                                 *)

\* amount_eq is gte = lte, amount_lt is lte minus 1.  A condition the rule does not
\* have is gte = 0, lte = its largest value or cumGte = 0.  A custom event is
\* matched with amounts of 0.
Matches(r, j, c) ==
  \/ /\ r.trigger = "INFLOW_RECEIVED"
     /\ r.gte <= j.amount /\ j.amount <= r.lte
     /\ r.cumGte <= c
  \/ /\ r.trigger = "CUSTOM_EVENT"
     /\ j.kind = "custom"
     /\ r.event = j.name

\* The orders the query may return: by priority, ties in any order.
Orders(S) ==
  {s \in [1..Cardinality(S) -> S] :
     \A m, n \in DOMAIN s : m < n => s[m] # s[n] /\ s[m].priority <= s[n].priority}

\* SEQUENTIAL stops at the first match, PARALLEL takes them all.
Evaluations(j, c) ==
  LET hits == {r \in Rules : r.account = j.account /\ Matches(r, j, c)}
  IN  IF Model[j.account] = "SEQUENTIAL" /\ hits # {}
      THEN {<<s[1]>> : s \in Orders(hits)}
      ELSE Orders(hits)

\* Mutant: the share is rounded up.
CreditAmountUp(r, amount) ==
  IF r.percent THEN (r.value * amount + 9999) \div 10000 ELSE r.value

\* What RELEASE_FUNDS credits: basis points of the inflow, or a fixed amount.
CreditAmount(r, amount) == IF r.percent THEN (r.value * amount) \div 10000 ELSE r.value

-----------------------------------------------------------------------------
(* Intake: WebhooksService.processInflow and EventsService.dispatch.       *)

\* A webhook with a valid signature for a known account is queued.
ReceiveWebhook(j) ==
  /\ j.kind = "inflow"
  /\ Goto(j, "idle", "queued")
  /\ UNCHANGED <<account, ledgerVars, processed, execVars, workVars, lock, retryVars>>

\* A custom event is queued unless its eventId was processed.
DispatchEvent(j) ==
  /\ j.kind = "custom"
  /\ Goto(j, "idle", IF j.event \in processed THEN "done" ELSE "queued")
  /\ UNCHANGED <<account, ledgerVars, processed, execVars, workVars, lock, retryVars>>

-----------------------------------------------------------------------------
(* WebhookProcessorService.process.                                        *)

\* Step 1.
CheckDuplicate(j) ==
  /\ Goto(j, "queued", IF j.event \in processed THEN "done" ELSE "lookup")
  /\ UNCHANGED <<account, ledgerVars, processed, execVars, workVars, lock, retryVars>>

\* Steps 3 to 5: a custom event ignores the status, a terminal account ends the
\* job of an inflow.
Gate(j) ==
  IF j.kind = "custom" THEN "claim"
  ELSE IF account[j.account] \in Terminal THEN "done" ELSE "write"

\* Step 2: the status read here decides what is written later.
LookupAccount(j) ==
  /\ Goto(j, "lookup", Gate(j))
  /\ seen' = [seen EXCEPT ![j] = account[j.account]]
  /\ UNCHANGED <<account, ledgerVars, processed, execVars, prior, todo, result, stalls,
                 lock, retryVars>>

\* The worker goes from pc "from" to the rules that match, or past them.
StartRules(j, c, from, past) ==
  \E hits \in Evaluations(j, c) :
    /\ todo' = [todo EXCEPT ![j] = hits]
    /\ Goto(j, from, IF hits = <<>> THEN past ELSE "rule")

\* Mutant: the claim does not look whether the event is taken.
ClaimTwice(j) ==
  /\ processed' = processed \cup {j.event}
  /\ StartRules(j, 0, "claim", "done")
  /\ UNCHANGED <<account, ledgerVars, execVars, seen, prior, result, stalls, lock, retryVars>>

\* Step 3: the ProcessedEvent of a custom event is written before its rules run;
\* its unique eventId turns a duplicate away.
ClaimEvent(j) ==
  IF j.event \in processed
  THEN /\ Goto(j, "claim", "done")
       /\ UNCHANGED <<account, ledgerVars, processed, execVars, workVars, lock, retryVars>>
  ELSE /\ processed' = processed \cup {j.event}
       /\ StartRules(j, 0, "claim", "done")
       /\ UNCHANGED <<account, ledgerVars, execVars, seen, prior, result, stalls, lock,
                      retryVars>>

\* Mutant: the account row is not locked.
WriteUnlocked(j) ==
  /\ Goto(j, "write", "insert")
  /\ prior' = [prior EXCEPT ![j] = total[j.account]]
  /\ UNCHANGED <<account, ledgerVars, processed, execVars, seen, todo, result, stalls, lock,
                 retryVars>>

\* writeInflow locks the account row, then reads the sum.
WriteBegin(j) ==
  /\ lock[j.account] = Free
  /\ Goto(j, "write", "insert")
  /\ lock' = [lock EXCEPT ![j.account] = j]
  /\ prior' = [prior EXCEPT ![j] = total[j.account]]
  /\ UNCHANGED <<account, ledgerVars, processed, execVars, seen, todo, result, stalls,
                 retryVars>>

\* Step 4: the entry of an inflow to a SUSPENDED account.
EntryStatus(j) == IF seen[j] = "SUSPENDED" THEN "FLAGGED" ELSE "PENDING"

\* Mutant: the ProcessedEvent is written first, next to the entry.
WriteInflowMarking(j) ==
  /\ recon[j.txn] = "NONE"
  /\ recon' = [recon EXCEPT ![j.txn] = EntryStatus(j)]
  /\ cum' = [cum EXCEPT ![j.txn] = prior[j] + j.amount]
  /\ total' = [total EXCEPT ![j.account] = @ + j.amount]
  /\ processed' = processed \cup {j.event}
  /\ Unlock(j)
  /\ StartRules(j, prior[j] + j.amount, "insert", "unmatched")
  /\ UNCHANGED <<account, execVars, seen, prior, result, stalls, retryVars>>

\* Mutant: the rules of a SUSPENDED account are evaluated.
WriteInflowUngated(j) ==
  /\ recon[j.txn] = "NONE"
  /\ recon' = [recon EXCEPT ![j.txn] = EntryStatus(j)]
  /\ cum' = [cum EXCEPT ![j.txn] = prior[j] + j.amount]
  /\ total' = [total EXCEPT ![j.account] = @ + j.amount]
  /\ Unlock(j)
  /\ StartRules(j, prior[j] + j.amount, "insert", "unmatched")
  /\ UNCHANGED <<account, processed, execVars, seen, prior, result, stalls, retryVars>>

\* writeInflow inserts and commits: FLAGGED and the end of the job when the
\* account was SUSPENDED, else PENDING and the evaluation of the rules.
WriteInflow(j) ==
  /\ recon[j.txn] = "NONE"
  /\ recon' = [recon EXCEPT ![j.txn] = EntryStatus(j)]
  /\ cum' = [cum EXCEPT ![j.txn] = prior[j] + j.amount]
  /\ total' = [total EXCEPT ![j.account] = @ + j.amount]
  /\ Unlock(j)
  /\ IF seen[j] = "SUSPENDED"
     THEN Goto(j, "insert", "done") /\ todo' = todo
     ELSE StartRules(j, prior[j] + j.amount, "insert", "unmatched")
  /\ UNCHANGED <<account, processed, execVars, seen, prior, result, stalls, retryVars>>

\* Mutant: the entry that exists is taken for this job's own, and its rules run.
WriteAgain(j) ==
  /\ recon[j.txn] # "NONE"
  /\ StartRules(j, cum[j.txn], "insert", "unmatched")
  /\ Unlock(j)
  /\ UNCHANGED <<account, ledgerVars, processed, execVars, seen, prior, result, stalls,
                 retryVars>>

\* nombaTransactionRef is taken (P2002): the job ends as a duplicate.
WriteConflict(j) ==
  /\ recon[j.txn] # "NONE"
  /\ Goto(j, "insert", "done")
  /\ Unlock(j)
  /\ UNCHANGED <<account, ledgerVars, processed, execVars, workVars, retryVars>>

-----------------------------------------------------------------------------
(* RuleEngineService.execute, one rule after the other.                    *)

CreateExecution(j) ==
  /\ Goto(j, "rule", "act")
  /\ exec' = [exec EXCEPT ![Exec(j)] = "PENDING"]
  /\ runs' = [runs EXCEPT ![Exec(j)] = @ + 1]
  /\ UNCHANGED <<account, ledgerVars, processed, tries, effects, workVars, lock, retryVars>>

\* The outcomes of a downstream call for execution x, and whether it took effect:
\* an error may hide a call that succeeded.
Calls == {<<"ok", TRUE>>, <<"retry", TRUE>>, <<"retry", FALSE>>}

Effect(x, took) ==
  /\ tries' = [tries EXCEPT ![x] = @ + 1]
  /\ effects' = IF took THEN effects \cup {x} ELSE effects

\* handleReleaseFunds.  An incomplete payload or a missing or closed bucket
\* fails; nothing to credit completes; else credit() is called.  The credit of a
\* custom event refers to a ledger entry that does not exist, so it throws.
ReleaseFunds(j) ==
  /\ Rule(j).action = "RELEASE_FUNDS"
  /\ Goto(j, "act", "record")
  /\ \/ /\ result' = [result EXCEPT ![j] = "fail"]
        /\ UNCHANGED <<tries, effects>>
     \/ /\ CreditAmount(Rule(j), j.amount) = 0
        /\ result' = [result EXCEPT ![j] = "ok"]
        /\ UNCHANGED <<tries, effects>>
     \/ /\ CreditAmount(Rule(j), j.amount) > 0
        /\ \E c \in Calls :
             /\ j.kind = "custom" => c = <<"retry", FALSE>>
             /\ result' = [result EXCEPT ![j] = c[1]]
             /\ Effect(Exec(j), c[2])
  /\ UNCHANGED <<account, ledgerVars, processed, exec, runs, seen, prior, todo, stalls,
                 lock, retryVars>>

\* handleNotifyWebhook: fails without a url, else delivers.
NotifyWebhook(j) ==
  /\ Rule(j).action = "NOTIFY_WEBHOOK"
  /\ Goto(j, "act", "record")
  /\ \/ /\ result' = [result EXCEPT ![j] = "fail"]
        /\ UNCHANGED <<tries, effects>>
     \/ \E c \in Calls :
          /\ result' = [result EXCEPT ![j] = c[1]]
          /\ Effect(Exec(j), c[2])
  /\ UNCHANGED <<account, ledgerVars, processed, exec, runs, seen, prior, todo, stalls,
                 lock, retryVars>>

AllowedFrom(action) ==
  CASE action = "SUSPEND_ACCOUNT"    -> {"ACTIVE"}
    [] action = "EXPIRE_ACCOUNT"     -> {"ACTIVE", "SUSPENDED"}
    [] action = "REACTIVATE_ACCOUNT" -> {"SUSPENDED"}

Target(action) ==
  CASE action = "SUSPEND_ACCOUNT"    -> "SUSPENDED"
    [] action = "EXPIRE_ACCOUNT"     -> "EXPIRED"
    [] action = "REACTIVATE_ACCOUNT" -> "ACTIVE"

\* handleStatusChange reads the status ...
ReadStatus(j) ==
  /\ Rule(j).action \in StatusActions
  /\ Goto(j, "act", IF account[j.account] \in AllowedFrom(Rule(j).action) THEN "apply"
                                                                          ELSE "record")
  /\ result' = [result EXCEPT ![j] = "ok"]
  /\ UNCHANGED <<account, ledgerVars, processed, execVars, seen, prior, todo, stalls, lock,
                 retryVars>>

\* ... and updates it, whatever it is by then.
ApplyStatus(j) ==
  /\ lock[j.account] = Free
  /\ Goto(j, "apply", "record")
  /\ account' = [account EXCEPT ![j.account] = Target(Rule(j).action)]
  /\ UNCHANGED <<ledgerVars, processed, execVars, workVars, lock, retryVars>>

\* handleFlagForReview: a custom event has no entry to flag.
FlagForReview(j) ==
  /\ Rule(j).action = "FLAG_FOR_REVIEW"
  /\ Goto(j, "act", "record")
  /\ recon' = IF j.kind = "custom" THEN recon ELSE [recon EXCEPT ![j.txn] = "FLAGGED"]
  /\ result' = [result EXCEPT ![j] = "ok"]
  /\ UNCHANGED <<account, total, cum, processed, execVars, seen, prior, todo, stalls, lock,
                 retryVars>>

\* Mutant: the worker returns when its rules have taken the account out of ACTIVE.
AfterRuleActive(j) ==
  IF account[j.account] # "ACTIVE" THEN "done"
  ELSE IF Len(todo[j]) > 1 THEN "rule"
  ELSE IF j.kind = "custom" THEN "done" ELSE "matched"

\* Where the worker goes after a rule.
AfterRule(j) ==
  IF Tail(todo[j]) # <<>> THEN "rule" ELSE IF j.kind = "custom" THEN "done" ELSE "matched"

\* Mutant: an action whose call failed counts as done.
StatusOptimistic(outcome) == IF outcome = "fail" THEN "FAILED" ELSE "COMPLETED"

StatusOf(outcome) ==
  CASE outcome = "ok" -> "COMPLETED" [] outcome = "fail" -> "FAILED" [] outcome = "retry" -> "RETRYING"

\* Mutant: the worker returns after an action that has to be retried.
RecordAndReturn(j) ==
  /\ exec' = [exec EXCEPT ![Exec(j)] = StatusOf(result[j])]
  /\ result' = [result EXCEPT ![j] = "none"]
  /\ Goto(j, "record", IF result[j] = "retry" THEN "done" ELSE AfterRule(j))
  /\ todo' = [todo EXCEPT ![j] = Tail(@)]
  /\ UNCHANGED <<account, ledgerVars, processed, runs, tries, effects, seen, prior, stalls,
                 lock, retryVars>>

\* The update of the RuleExecution, whatever its status is by then.  Only for an
\* inflow does the caller go on to queue a retry.
RecordExecution(j) ==
  /\ exec' = [exec EXCEPT ![Exec(j)] = StatusOf(result[j])]
  /\ result' = [result EXCEPT ![j] = "none"]
  /\ IF result[j] = "retry" /\ j.kind = "inflow"
     THEN Goto(j, "record", "enqueue") /\ todo' = todo
     ELSE Goto(j, "record", AfterRule(j)) /\ todo' = [todo EXCEPT ![j] = Tail(@)]
  /\ UNCHANGED <<account, ledgerVars, processed, runs, tries, effects, seen, prior, stalls,
                 lock, retryVars>>

\* Mutant: the retry job is not queued.
ForgetRetry(j) ==
  /\ Goto(j, "enqueue", AfterRule(j))
  /\ todo' = [todo EXCEPT ![j] = Tail(@)]
  /\ UNCHANGED <<account, ledgerVars, processed, execVars, seen, prior, result, stalls, lock,
                 retryVars>>

\* Mutant: no retry is queued for an account that was closed meanwhile.
EnqueueUnlessClosed(j) ==
  /\ Goto(j, "enqueue", AfterRule(j))
  /\ rpc' = [rpc EXCEPT ![Exec(j)] = IF account[j.account] = "CLOSED" THEN @ ELSE "queued"]
  /\ todo' = [todo EXCEPT ![j] = Tail(@)]
  /\ UNCHANGED <<account, ledgerVars, processed, execVars, seen, prior, result, stalls, lock,
                 rresult, made, rstalls, deadLetters>>

EnqueueRetry(j) ==
  /\ Goto(j, "enqueue", AfterRule(j))
  /\ rpc' = [rpc EXCEPT ![Exec(j)] = "queued"]
  /\ todo' = [todo EXCEPT ![j] = Tail(@)]
  /\ UNCHANGED <<account, ledgerVars, processed, execVars, seen, prior, result, stalls, lock,
                 rresult, made, rstalls, deadLetters>>

-----------------------------------------------------------------------------
(* The end of the job.                                                     *)

\* updateReconciliationStatus.
Reconcile(j) ==
  \/ /\ Goto(j, "matched", "mark")
     /\ recon' = [recon EXCEPT ![j.txn] = "MATCHED"]
     /\ UNCHANGED <<account, total, cum, processed, execVars, workVars, lock, retryVars>>
  \/ /\ Goto(j, "unmatched", "mark")
     /\ recon' = [recon EXCEPT ![j.txn] = "UNMATCHED"]
     /\ UNCHANGED <<account, total, cum, processed, execVars, workVars, lock, retryVars>>

\* Step 10.  A ProcessedEvent that exists is the P2002 the catch discards.
MarkProcessed(j) ==
  /\ Goto(j, "mark", "done")
  /\ processed' = processed \cup {j.event}
  /\ UNCHANGED <<account, ledgerVars, execVars, workVars, lock, retryVars>>

\* A database call throws: the job fails, and is not tried again.
FailJob(j) ==
  /\ MayFail
  /\ pc[j] \in Working
  /\ pc' = [pc EXCEPT ![j] = "failed"]
  /\ Unlock(j)
  /\ UNCHANGED <<account, ledgerVars, processed, execVars, workVars, retryVars>>

\* The worker dies: the job starts over, or fails when it stalled too often.
CrashWorker(j) ==
  /\ MaxStalls > 0
  /\ pc[j] \in Working
  /\ pc' = [pc EXCEPT ![j] = IF stalls[j] < MaxStalls THEN "queued" ELSE "failed"]
  /\ stalls' = [stalls EXCEPT ![j] = IF @ < MaxStalls THEN @ + 1 ELSE @]
  /\ todo' = [todo EXCEPT ![j] = <<>>]
  /\ result' = [result EXCEPT ![j] = "none"]
  /\ Unlock(j)
  /\ UNCHANGED <<account, ledgerVars, processed, execVars, seen, prior, retryVars>>

-----------------------------------------------------------------------------
(* RetryProcessorService: the job of one RuleExecution.                    *)

\* Mutant: the status of the execution is not looked at.
RetryAnyway(x) ==
  /\ rpc[x] = "queued"
  /\ rpc' = [rpc EXCEPT ![x] = "active"]
  /\ UNCHANGED <<account, ledgerVars, processed, execVars, pc, workVars, lock, rresult, made,
                 rstalls, deadLetters>>

\* process reads the execution; a resolved one ends the job.
RetryBegin(x) ==
  /\ rpc[x] = "queued"
  /\ rpc' = [rpc EXCEPT ![x] = IF exec[x] \in Resolved THEN "finished" ELSE "active"]
  /\ UNCHANGED <<account, ledgerVars, processed, execVars, pc, workVars, lock, rresult, made,
                 rstalls, deadLetters>>

\* attemptRelease or attemptNotify; "fail" is a terminal outcome.
RetryAct(x) ==
  /\ rpc[x] = "active"
  /\ rpc' = [rpc EXCEPT ![x] = "acted"]
  /\ \/ /\ rresult' = [rresult EXCEPT ![x] = "fail"]
        /\ UNCHANGED <<tries, effects>>
     \/ \E c \in Calls :
          /\ rresult' = [rresult EXCEPT ![x] = c[1]]
          /\ Effect(x, c[2])
  /\ UNCHANGED <<account, ledgerVars, processed, exec, runs, pc, workVars, lock, made,
                 rstalls, deadLetters>>

\* The update of the RuleExecution, whatever its status is by then.  A transient
\* failure throws unless this was the last attempt.
RetryRecord(x) ==
  /\ rpc[x] = "acted"
  /\ LET exhausted == rresult[x] = "retry" /\ made[x] + 1 >= MaxAttempts
     IN  /\ exec' = [exec EXCEPT ![x] = IF exhausted THEN "FAILED" ELSE StatusOf(rresult[x])]
         /\ rpc' = [rpc EXCEPT ![x] = IF exhausted THEN "spent"
                                      ELSE IF rresult[x] = "retry" THEN "throw" ELSE "ack"]
  /\ rresult' = [rresult EXCEPT ![x] = "none"]
  /\ UNCHANGED <<account, ledgerVars, processed, runs, tries, effects, pc, workVars, lock,
                 made, rstalls, deadLetters>>

\* process returned: BullMQ completes the job.
RetryFinish(x) ==
  /\ rpc[x] \in {"ack", "spent"}
  /\ rpc' = [rpc EXCEPT ![x] = IF @ = "spent" THEN "exhausted" ELSE "finished"]
  /\ UNCHANGED <<account, ledgerVars, processed, execVars, pc, workVars, lock, rresult, made,
                 rstalls, deadLetters>>

\* Mutant: the job is queued again without limit.
RetryForever(x) ==
  /\ \/ rpc[x] = "throw"
     \/ MayFail /\ rpc[x] \in {"queued", "active", "acted"}
  /\ made' = [made EXCEPT ![x] = @ + 1]
  /\ rpc' = [rpc EXCEPT ![x] = "queued"]
  /\ rresult' = [rresult EXCEPT ![x] = "none"]
  /\ UNCHANGED <<account, ledgerVars, processed, execVars, pc, workVars, lock, rstalls,
                 deadLetters>>

\* Mutant: the attempt is not counted.
RetryUncounted(x) ==
  /\ \/ rpc[x] = "throw"
     \/ MayFail /\ rpc[x] \in {"queued", "active", "acted"}
  /\ rpc' = [rpc EXCEPT ![x] = "queued"]
  /\ rresult' = [rresult EXCEPT ![x] = "none"]
  /\ UNCHANGED <<account, ledgerVars, processed, execVars, pc, workVars, lock, made, rstalls,
                 deadLetters>>

\* process threw (the transient failure, or a database call, the one that reads the
\* execution included): BullMQ counts the attempt and queues the job again, or fails
\* it; onFailed writes the dead letter.
RetryThrow(x) ==
  /\ \/ rpc[x] = "throw"
     \/ MayFail /\ rpc[x] \in {"queued", "active", "acted"}
  /\ made' = [made EXCEPT ![x] = @ + 1]
  /\ IF made[x] + 1 < MaxAttempts
     THEN /\ rpc' = [rpc EXCEPT ![x] = "queued"]
          /\ deadLetters' = deadLetters
     ELSE /\ rpc' = [rpc EXCEPT ![x] = "dead"]
          /\ deadLetters' = deadLetters \cup {x}
  /\ rresult' = [rresult EXCEPT ![x] = "none"]
  /\ UNCHANGED <<account, ledgerVars, processed, execVars, pc, workVars, lock, rstalls>>

CrashRetry(x) ==
  /\ MaxStalls > 0
  /\ rpc[x] \in Retrying
  /\ rpc' = [rpc EXCEPT ![x] = IF rstalls[x] < MaxStalls THEN "queued" ELSE "dead"]
  /\ rstalls' = [rstalls EXCEPT ![x] = IF @ < MaxStalls THEN @ + 1 ELSE @]
  /\ rresult' = [rresult EXCEPT ![x] = "none"]
  /\ UNCHANGED <<account, ledgerVars, processed, execVars, pc, workVars, lock, made,
                 deadLetters>>

-----------------------------------------------------------------------------
(* AccountLifecycleService.closeAccount and updateStatus.                  *)

CloseResolve(k) ==
  /\ Goto(k, "idle", IF account[k.account] \in Terminal THEN "rejected" ELSE "archive")
  /\ UNCHANGED <<account, ledgerVars, processed, execVars, workVars, lock, retryVars>>

\* EC-02: the executions that are PENDING or RETRYING at this moment.
CloseArchive(k) ==
  /\ Goto(k, "archive", "expire")
  /\ exec' = [x \in Execs |->
                IF x[2].account = k.account /\ exec[x] \in {"PENDING", "RETRYING"}
                THEN "ARCHIVED" ELSE exec[x]]
  /\ UNCHANGED <<account, ledgerVars, processed, runs, tries, effects, workVars, lock, retryVars>>

\* Nomba expires the account, or its error ends the call with the rows archived.
CloseExpire(k) ==
  /\ \E to \in {"close", "rejected"} : Goto(k, "expire", to)
  /\ UNCHANGED <<account, ledgerVars, processed, execVars, workVars, lock, retryVars>>

CloseAccount(k) ==
  /\ lock[k.account] = Free
  /\ Goto(k, "close", "done")
  /\ account' = [account EXCEPT ![k.account] = "CLOSED"]
  /\ UNCHANGED <<ledgerVars, processed, execVars, workVars, lock, retryVars>>

\* Mutant: the status the account has is not looked at.
PatchAnyway(from, to) == to \in {"ACTIVE", "SUSPENDED"}

\* The transitions updateStatus allows.
ValidTransition(from, to) ==
  \/ from = "ACTIVE" /\ to = "SUSPENDED"
  \/ from = "SUSPENDED" /\ to = "ACTIVE"

\* updateStatus reads and checks the account ...
PatchRead(p) ==
  /\ Goto(p, "idle", IF ValidTransition(account[p.account], p.to) THEN "write" ELSE "rejected")
  /\ UNCHANGED <<account, ledgerVars, processed, execVars, workVars, lock, retryVars>>

\* ... and writes it, whatever it is by then.
PatchWrite(p) ==
  /\ lock[p.account] = Free
  /\ Goto(p, "write", "done")
  /\ account' = [account EXCEPT ![p.account] = p.to]
  /\ UNCHANGED <<ledgerVars, processed, execVars, workVars, lock, retryVars>>

-----------------------------------------------------------------------------
JobStep(j) ==
  \/ CheckDuplicate(j)
  \/ LookupAccount(j)
  \/ pc[j] = "claim" /\ ClaimEvent(j)
  \/ WriteBegin(j)
  \/ pc[j] = "insert" /\ WriteInflow(j)
  \/ WriteConflict(j)
  \/ CreateExecution(j)
  \/ pc[j] = "act" /\ (ReleaseFunds(j) \/ NotifyWebhook(j) \/ ReadStatus(j) \/ FlagForReview(j))
  \/ ApplyStatus(j)
  \/ pc[j] = "record" /\ RecordExecution(j)
  \/ pc[j] = "enqueue" /\ EnqueueRetry(j)
  \/ Reconcile(j)
  \/ MarkProcessed(j)

RetryStep(x) ==
  \/ RetryBegin(x)
  \/ RetryAct(x)
  \/ RetryRecord(x)
  \/ RetryFinish(x)
  \/ RetryThrow(x)

CloseStep(k) == CloseArchive(k) \/ CloseExpire(k) \/ CloseAccount(k)

\* The requests of the API: intake, closing and status override.
ApiStep ==
  \/ \E j \in Deliveries : ReceiveWebhook(j) \/ DispatchEvent(j)
  \/ \E k \in Closings : CloseResolve(k) \/ CloseStep(k)
  \/ \E p \in Patches : PatchRead(p) \/ PatchWrite(p)

Next ==
  \/ ApiStep
  \/ \E j \in Deliveries : JobStep(j) \/ FailJob(j) \/ CrashWorker(j)
  \/ \E x \in Execs : RetryStep(x) \/ CrashRetry(x)

Spec == Init /\ [][Next]_vars

(* BullMQ workers take queued jobs and a started handler goes on: every    *)
(* call it awaits ends (the HTTP clients have timeouts, a lock is released *)
(* by a handler that goes on).                                             *)
Fairness ==
  /\ \A j \in Deliveries : WF_vars(JobStep(j))
  /\ \A x \in Execs : WF_vars(RetryStep(x))
  /\ \A k \in Closings : WF_vars(CloseStep(k))
  /\ \A p \in Patches : WF_vars(PatchWrite(p))

FairSpec == Spec /\ Fairness

-----------------------------------------------------------------------------
(* Properties.                                                             *)

\* Every variable keeps its type, across every job, retry, failure and crash.
TypeOK ==
  /\ account \in [Accounts -> AccountStatus]
  /\ total \in [Accounts -> Nat]
  /\ recon \in [Txns -> ReconStatus]
  /\ cum \in [Txns -> Nat]
  /\ processed \subseteq Events
  /\ exec \in [Execs -> ExecStatus]
  /\ runs \in [Execs -> Nat]
  /\ tries \in [Execs -> Nat]
  /\ effects \subseteq Execs
  /\ pc \in [Procs -> JobPc \cup ApiPc]
  /\ seen \in [Deliveries -> AccountStatus]
  /\ prior \in [Deliveries -> Nat]
  /\ todo \in [Deliveries -> Seq(Rules)]
  /\ result \in [Deliveries -> Outcome]
  /\ stalls \in [Deliveries -> 0..MaxStalls]
  /\ lock \in [Accounts -> Deliveries \cup {Free}]
  /\ rpc \in [Execs -> RetryPc]
  /\ rresult \in [Execs -> Outcome]
  /\ made \in [Execs -> 0..MaxAttempts]
  /\ rstalls \in [Execs -> 0..MaxStalls]
  /\ deadLetters \subseteq Execs

\* EC-04: however often a transaction or an event is delivered, at the same time,
\* late or again after its worker died, each rule runs for it at most once.
RulesRunOnce == \A x \in Execs : runs[x] <= 1

\* The entries of an account carry its running total: of any two inflows to one
\* account one counted the other, so no cumulative_gte threshold is missed, and no
\* entry is ahead of the account's sum.
RunningTotal ==
  \A i, j \in Deliveries :
    /\ recon[i.txn] # "NONE" => cum[i.txn] <= total[i.account]
    /\ i.txn # j.txn /\ i.account = j.account /\ {i.kind, j.kind} = {"inflow"}
         /\ recon[i.txn] # "NONE" /\ recon[j.txn] # "NONE" =>
           cum[i.txn] + j.amount <= cum[j.txn] \/ cum[j.txn] + i.amount <= cum[i.txn]

\* A rule has flagged the transaction for review.
FlaggedByRule(t) ==
  \E r \in Rules : r.action = "FLAG_FOR_REVIEW" /\ exec[<<t, r>>] # "NONE"

\* A transaction is MATCHED only when a rule ran for it, UNMATCHED only when none
\* did, and its event is processed only when it was reconciled, whichever of the
\* jobs that carry it got how far.  An inflow that a rule flagged for review is left
\* out: a human should find it FLAGGED, and the end of the job makes it MATCHED.
ReconciledMeansRun ==
  \A j \in Deliveries :
    j.kind = "inflow" /\ ~FlaggedByRule(j.txn) =>
      LET ran == {r \in Rules : exec[<<j.txn, r>>] # "NONE"}
      IN  /\ recon[j.txn] = "MATCHED" =>
               /\ ran # {}
               /\ \A r \in ran : exec[<<j.txn, r>>] # "PENDING"
          /\ recon[j.txn] = "UNMATCHED" => ran = {}
          /\ j.event \in processed => recon[j.txn] \in {"MATCHED", "UNMATCHED"}

\* An inflow to an account that its worker found SUSPENDED is FLAGGED and runs no
\* rule, whatever becomes of the account meanwhile (for accounts on which no rule
\* flags inflows).
SuspendedInflowsHeld ==
  \A j \in Deliveries :
    /\ j.kind = "inflow" /\ recon[j.txn] = "FLAGGED"
    /\ \A r \in Rules : r.action = "FLAG_FOR_REVIEW" => r.trigger # "INFLOW_RECEIVED"
    => \A r \in Rules : exec[<<j.txn, r>>] = "NONE"

\* Handlers that have checked the account's status and will write it.
StatusWriters(a) ==
  {j \in Deliveries : j.account = a /\ pc[j] = "apply"}
    \cup {k \in Closings : k.account = a /\ pc[k] \in {"archive", "expire", "close"}}
    \cup {p \in Patches : p.account = a /\ pc[p] = "write"}

\* CLOSED and EXPIRED are final once the handlers that checked the status before are
\* through: no override, rule or second closing that begins later touches it.
TerminalIsFinal ==
  [][\A a \in Accounts :
       account[a] \in Terminal /\ StatusWriters(a) = {} =>
         account'[a] = account[a] /\ StatusWriters(a)' = {}]_vars

\* EC-06: an action is COMPLETED only when its downstream call took effect, over
\* first attempts, retries and attempts cut off by a crash.
CompletedTookEffect ==
  \A x \in Execs :
    exec[x] = "COMPLETED" /\ x[2].action \in Effectful =>
      \/ x \in effects
      \/ /\ x[2].action = "RELEASE_FUNDS"
         /\ \E j \in Deliveries : j.txn = x[1] /\ CreditAmount(x[2], j.amount) = 0

\* A retry never reopens an execution that is COMPLETED or FAILED, also when its
\* worker died after recording the outcome.
ResolvedIsFinal ==
  [][\A x \in Execs : exec[x] \in {"COMPLETED", "FAILED"} => exec'[x] = exec[x]]_vars

\* The downstream call of one execution is made once by the first attempt, once
\* per attempt of its retry job and once more per death of the worker.
AttemptsBounded == \A x \in Execs : tries[x] <= 1 + MaxAttempts + MaxStalls

\* Transactions with a delivery whose job failed or whose worker died.
Interrupted(t) == \E i \in Deliveries : i.txn = t /\ (pc[i] = "failed" \/ stalls[i] > 0)

\* Only a failure or a death loses an inflow half-way: an entry or an execution that is
\* PENDING is in the hands of a worker, however many duplicates were turned away and
\* whatever became of the account.
PendingIsOwned ==
  \A j \in Deliveries :
    /\ recon[j.txn] = "PENDING" =>
         Interrupted(j.txn) \/ \E i \in Deliveries : i.txn = j.txn /\ pc[i] \in Owning
    /\ \A r \in Rules :
         exec[<<j.txn, r>>] = "PENDING" =>
           \/ Interrupted(j.txn)
           \/ \E i \in Deliveries : i.txn = j.txn /\ pc[i] \in Acting /\ Rule(i) = r

\* No retry is lost: an execution that is RETRYING has a job that will take it up, or will
\* get one from its worker, or its job died and left a dead letter.  (Custom events have
\* no retries; a worker that dies takes the job it did not queue with it.)
RetryingHasJob ==
  \A j \in Deliveries, r \in Rules :
    LET x == <<j.txn, r>>
    IN  exec[x] = "RETRYING" =>
          \/ /\ rpc[x] = "none"
             /\ \/ j.kind = "custom" \/ Interrupted(j.txn)
                \/ \E i \in Deliveries : i.txn = j.txn /\ pc[i] = "enqueue" /\ Rule(i) = r
          \/ rpc[x] \in {"queued", "active", "acted", "throw"}
          \/ rpc[x] = "dead" /\ (x \in deadLetters \/ rstalls[x] > 0)

\* An inflow that was recorded is reconciled.
InflowsReconcile ==
  \A t \in Txns : recon[t] = "PENDING" ~> recon[t] # "PENDING"

\* An execution that is to be retried is completed, failed or archived.
RetriesResolve ==
  \A x \in Execs : exec[x] = "RETRYING" ~> exec[x] \in Resolved

\* EC-02, with the workers that were busy when the account was closed: they may reopen
\* executions that closeAccount has archived, but in the end all of them are resolved.
ClosedDrains ==
  \A a \in Accounts :
    account[a] = "CLOSED" ~>
      [](\A x \in Execs : x[2].account = a => exec[x] \in Resolved \cup {"NONE"})
=============================================================================
