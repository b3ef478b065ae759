---------------------------- MODULE InflowProofs ----------------------------
(***************************************************************************)
(* Theorems about Inflow, for any accounts, rules, deliveries, closings    *)
(* and overrides that satisfy its assumptions, and any number of attempts  *)
(* and of worker deaths.                                                   *)
(***************************************************************************)
EXTENDS Inflow, FiniteSetTheorems, SequenceTheorems, TLAPS

\* The transaction of j was taken by some job: its entry, or its ProcessedEvent, exists.
Taken(j) == IF j.kind = "custom" THEN j.event \in processed ELSE recon[j.txn] # "NONE"

\* No worker has come to execution x.
Untouched(x) ==
  exec[x] = "NONE" /\ runs[x] = 0 /\ tries[x] = 0 /\ rpc[x] = "none"

\* Distinct rules of delivery j's account, which an event of its kind can trigger.
GoodRules(j, rules) ==
  /\ \A m \in 1..Len(rules) :
       /\ rules[m].account = j.account
       /\ j.kind = "inflow" => rules[m].trigger = "INFLOW_RECEIVED"
  /\ \A m, n \in 1..Len(rules) : m # n => rules[m] # rules[n]

\* The control state of a job, and the rules it has left.
JobControl(j) ==
  /\ pc[j] = "claim" => j.kind = "custom"
  /\ pc[j] \in {"write", "insert", "enqueue", "matched", "unmatched", "mark"} => j.kind = "inflow"
  /\ pc[j] \in Executing => todo[j] # <<>>
  /\ pc[j] = "apply" => Rule(j).action \in StatusActions
  /\ pc[j] \in {"apply", "record"} => result[j] # "none"
  /\ GoodRules(j, todo[j])

JobInv == \A j \in Deliveries : JobControl(j)

\* The lock of an account row is held by the job that is about to insert an entry, and
\* the sum that job has read is still the account's.
LockInv ==
  /\ \A a \in Accounts, j \in Deliveries : lock[a] = j => j.account = a /\ pc[j] = "insert"
  /\ \A j \in Deliveries :
       pc[j] = "insert" => lock[j.account] = j /\ prior[j] = total[j.account]

\* One job at a time owns a transaction, and none before it is taken.
OwnerInv ==
  /\ \A i, j \in Deliveries :
       i.txn = j.txn /\ pc[i] \in Owning /\ pc[j] \in Owning => i = j
  /\ \A j \in Deliveries :
       /\ pc[j] \in Owning => Taken(j)
       /\ ~Taken(j) => \A r \in Rules : Untouched(<<j.txn, r>>)

\* The executions of the owner of a transaction: those it has not begun, and the
\* current one, whose retry job does not exist yet.
Later(j) == {<<j.txn, todo[j][m]>> : m \in 2..Len(todo[j])}

OwnExecs(j) ==
  /\ pc[j] \in Executing => \A x \in Later(j) : Untouched(x)
  /\ pc[j] = "rule" => Untouched(Exec(j))
  /\ pc[j] \in Executing => rpc[Exec(j)] = "none"
  /\ pc[j] \in {"act", "apply"} => tries[Exec(j)] = 0
  /\ pc[j] \in Acting => exec[Exec(j)] \in {"PENDING", "ARCHIVED"}
  /\ pc[j] = "enqueue" => exec[Exec(j)] \notin {"NONE", "PENDING"}

ExecInv == RulesRunOnce /\ \A j \in Deliveries : OwnExecs(j)

\* What the owner leaves behind for updateReconciliationStatus.
OwnOutcome(j) ==
  /\ pc[j] \in Owning =>
       \A r \in Rules : exec[<<j.txn, r>>] = "PENDING" => pc[j] \in Acting /\ r = Rule(j)
  /\ pc[j] = "matched" => \E r \in Rules : exec[<<j.txn, r>>] # "NONE"
  /\ pc[j] = "unmatched" => \A r \in Rules : exec[<<j.txn, r>>] = "NONE"

OutcomeInv == \A j \in Deliveries : OwnOutcome(j)

\* The accounts on which no rule flags inflows.
NoRuleFlags == \A r \in Rules : r.action = "FLAG_FOR_REVIEW" => r.trigger # "INFLOW_RECEIVED"

\* The transaction of j is reconciled, or held because the account was suspended.
Settled(j) ==
  /\ j.kind = "inflow"
  /\ \/ recon[j.txn] \in {"MATCHED", "UNMATCHED"}
     \/ recon[j.txn] = "FLAGGED" /\ NoRuleFlags

\* A transaction that is settled has no owner any more.
ReconInv ==
  /\ \A j \in Deliveries : pc[j] = "mark" => recon[j.txn] \in {"MATCHED", "UNMATCHED"}
  /\ \A i, j \in Deliveries : i.txn = j.txn /\ Settled(j) => pc[i] \notin Owning

\* The retry job: its attempts, what it may find, and what its last outcome means.
RetryJob(x) ==
  /\ rpc[x] = "none" => made[x] = 0 /\ rstalls[x] = 0 /\ tries[x] <= 1
  /\ rpc[x] \in {"queued"} \cup Retrying => made[x] < MaxAttempts
  /\ rpc[x] \in {"queued", "active"} => tries[x] <= 1 + made[x] + rstalls[x]
  /\ rpc[x] \in {"acted", "ack", "spent", "throw", "finished", "exhausted"} =>
       tries[x] <= 2 + made[x] + rstalls[x] /\ made[x] < MaxAttempts
  /\ rpc[x] = "dead" => tries[x] <= 1 + MaxAttempts + MaxStalls
  /\ rpc[x] \in {"active", "acted"} => exec[x] \notin {"COMPLETED", "FAILED"}
  /\ rpc[x] # "none" => exec[x] \notin {"NONE", "PENDING"}
  /\ rpc[x] = "acted" => rresult[x] # "none"
  /\ rpc[x] = "acted" /\ rresult[x] = "ok" => x \in effects

RetryInv == \A x \in Execs : RetryJob(x)

\* An "ok" that is not recorded yet stands for a call that took effect, as in
\* CompletedTookEffect.
EffectInv ==
  /\ CompletedTookEffect
  /\ \A j \in Deliveries :
       pc[j] = "record" /\ result[j] = "ok" /\ Rule(j).action \in Effectful =>
         \/ Exec(j) \in effects
         \/ Rule(j).action = "RELEASE_FUNDS" /\ CreditAmount(Rule(j), j.amount) = 0

\* A handler of the API that has checked the status it will write.
PatchInv == \A p \in Patches : pc[p] = "write" => p.to \in {"ACTIVE", "SUSPENDED"}

\* ReconciledMeansRun as the code keeps it: also for inflows that a rule has flagged,
\* whose FLAGGED the end of the job overwrites.
RunsMatch ==
  \A j \in Deliveries :
    j.kind = "inflow" =>
      LET ran == {r \in Rules : exec[<<j.txn, r>>] # "NONE"}
      IN  /\ recon[j.txn] = "MATCHED" =>
               /\ ran # {}
               /\ \A r \in ran : exec[<<j.txn, r>>] # "PENDING"
          /\ recon[j.txn] = "UNMATCHED" => ran = {}
          /\ j.event \in processed => recon[j.txn] \in {"MATCHED", "UNMATCHED"}

Inv ==
  /\ TypeOK /\ JobInv /\ PatchInv /\ LockInv /\ OwnerInv /\ ExecInv /\ OutcomeInv /\ ReconInv
  /\ RetryInv /\ EffectInv /\ RunningTotal /\ RunsMatch /\ SuspendedInflowsHeld

\* What a delivery assumes, in the form the steps below use: deliveries of one
\* transaction agree in all but their identity and event.
LEMMA SameTxn ==
  ASSUME NEW i \in Deliveries, NEW j \in Deliveries, i.txn = j.txn
  PROVE  i.account = j.account /\ i.amount = j.amount /\ i.kind = j.kind
BY DeliveryAssumption

\* The query for matching rules returns distinct rules of the account that match.
LEMMA OrdersAreRules ==
  ASSUME NEW S \in SUBSET Rules, NEW s \in Orders(S)
  PROVE  /\ s \in Seq(Rules)
         /\ Len(s) = Cardinality(S)
         /\ \A m \in 1..Len(s) : s[m] \in S
         /\ \A m, n \in 1..Len(s) : m # n => s[m] # s[n]
<1>1. Cardinality(S) \in Nat
  BY RuleAssumption, FS_Subset, FS_CardinalityType
<1>2. s \in [1..Cardinality(S) -> S]
  BY DEF Orders
<1>3. s \in Seq(Rules) /\ Len(s) = Cardinality(S)
  BY <1>1, <1>2
<1>4. \A m, n \in 1..Len(s) : m < n => s[m] # s[n]
  BY <1>2, <1>3 DEF Orders
<1>5. \A m, n \in 1..Len(s) : m # n => m < n \/ n < m
  BY <1>1, <1>3
<1> QED
  BY <1>2, <1>3, <1>4, <1>5

\* What evaluate returns for delivery j: a sequence of distinct rules of j's account, in
\* both execution models; an inflow triggers only INFLOW_RECEIVED rules.
LEMMA EvaluationsAreRules ==
  ASSUME NEW j \in Deliveries, NEW c \in Nat, NEW hits \in Evaluations(j, c)
  PROVE  /\ hits \in Seq(Rules)
         /\ GoodRules(j, hits)
<1> DEFINE S == {r \in Rules : r.account = j.account /\ Matches(r, j, c)}
<1>1. \A r \in S : /\ r \in Rules /\ r.account = j.account
                   /\ j.kind = "inflow" => r.trigger = "INFLOW_RECEIVED"
  BY DEF Matches
<1>2. S \in SUBSET Rules
  OBVIOUS
<1>3. CASE Model[j.account] = "SEQUENTIAL" /\ S # {}
  <2>1. PICK s \in Orders(S) : hits = <<s[1]>>
    BY <1>3 DEF Evaluations
  <2>2. Cardinality(S) \in Nat \ {0}
    BY <1>2, <1>3, RuleAssumption, FS_Subset, FS_CardinalityType, FS_EmptySet
  <2>3. s[1] \in S
    BY <1>2, <2>2, OrdersAreRules
  <2> HIDE DEF S
  <2> QED
    BY <1>1, <2>1, <2>3 DEF GoodRules
<1>4. CASE ~(Model[j.account] = "SEQUENTIAL" /\ S # {})
  <2>1. hits \in Orders(S)
    BY <1>4 DEF Evaluations
  <2> HIDE DEF S
  <2> QED
    BY <1>1, <1>2, <2>1, OrdersAreRules DEF GoodRules
<1> QED
  BY <1>3, <1>4

\* Finishing the first rule of a sequence of rules leaves the others, in their order.
LEMMA TailOfRules ==
  ASSUME NEW s \in Seq(Rules), s # <<>>
  PROVE  /\ Len(s) \in Nat /\ Len(s) >= 1
         /\ Head(s) = s[1] /\ Head(s) \in Rules
         /\ Tail(s) \in Seq(Rules)
         /\ Len(Tail(s)) = Len(s) - 1
         /\ \A m \in 1..Len(Tail(s)) : Tail(s)[m] = s[m + 1] /\ m + 1 \in 1..Len(s)
<1>1. Len(s) \in Nat /\ Len(s) >= 1
  OBVIOUS
<1>2. /\ Head(s) \in Rules
      /\ Tail(s) \in Seq(Rules)
      /\ Len(Tail(s)) = Len(s) - 1
      /\ \A m \in 1..Len(Tail(s)) : Tail(s)[m] = s[m + 1]
  BY HeadTailProperties
<1> QED
  BY <1>1, <1>2

\* The outcomes of a downstream call: an "ok" is never reported without the effect.
LEMMA CallOutcomes ==
  \A c \in Calls : c[1] \in {"ok", "retry"} /\ c[2] \in BOOLEAN /\ (c[1] = "ok" => c[2])
<1> SUFFICES ASSUME NEW c \in Calls
             PROVE  c[1] \in {"ok", "retry"} /\ c[2] \in BOOLEAN /\ (c[1] = "ok" => c[2])
  OBVIOUS
<1>1. CASE c = <<"ok", TRUE>>
  BY <1>1
<1>2. CASE c = <<"retry", TRUE>>
  BY <1>2
<1>3. CASE c = <<"retry", FALSE>>
  BY <1>3
<1> QED
  BY <1>1, <1>2, <1>3 DEF Calls

\* What the first attempt of an action leaves: an outcome, at most one more call, and
\* an effect where the outcome is "ok", unless there was nothing to credit.
LEMMA FirstAttemptOutcome ==
  ASSUME NEW j \in Deliveries, ReleaseFunds(j) \/ NotifyWebhook(j)
  PROVE  \E o \in {"ok", "fail", "retry"} :
           /\ result' = [result EXCEPT ![j] = o]
           /\ tries' = tries \/ tries' = [tries EXCEPT ![Exec(j)] = @ + 1]
           /\ effects' = effects \/ effects' = effects \cup {Exec(j)}
           /\ o = "ok" => \/ Exec(j) \in effects'
                          \/ /\ Rule(j).action = "RELEASE_FUNDS"
                             /\ CreditAmount(Rule(j), j.amount) = 0
<1>1. ASSUME NEW c \in Calls, result' = [result EXCEPT ![j] = c[1]], Effect(Exec(j), c[2])
      PROVE  \E o \in {"ok", "fail", "retry"} :
               /\ result' = [result EXCEPT ![j] = o]
               /\ tries' = [tries EXCEPT ![Exec(j)] = @ + 1]
               /\ effects' = effects \/ effects' = effects \cup {Exec(j)}
               /\ o = "ok" => Exec(j) \in effects'
  <2>1. c[1] \in {"ok", "fail", "retry"} /\ (c[1] = "ok" => c[2])
    BY CallOutcomes
  <2>2. tries' = [tries EXCEPT ![Exec(j)] = @ + 1]
    BY <1>1 DEF Effect
  <2>3. /\ effects' = effects \/ effects' = effects \cup {Exec(j)}
        /\ c[2] => Exec(j) \in effects'
    BY <1>1 DEF Effect
  <2> QED
    BY <1>1, <2>1, <2>2, <2>3
<1>2. CASE ReleaseFunds(j)
  <2>1. CASE result' = [result EXCEPT ![j] = "fail"] /\ UNCHANGED <<tries, effects>>
    BY <2>1
  <2>2. CASE /\ CreditAmount(Rule(j), j.amount) = 0
             /\ result' = [result EXCEPT ![j] = "ok"] /\ UNCHANGED <<tries, effects>>
    BY <1>2, <2>2 DEF ReleaseFunds
  <2>3. CASE \E c \in Calls : result' = [result EXCEPT ![j] = c[1]] /\ Effect(Exec(j), c[2])
    BY <1>1, <2>3
  <2> QED
    BY <1>2, <2>1, <2>2, <2>3 DEF ReleaseFunds
<1>3. CASE NotifyWebhook(j)
  <2>1. CASE result' = [result EXCEPT ![j] = "fail"] /\ UNCHANGED <<tries, effects>>
    BY <2>1
  <2>2. CASE \E c \in Calls : result' = [result EXCEPT ![j] = c[1]] /\ Effect(Exec(j), c[2])
    BY <1>1, <2>2
  <2> QED
    BY <1>3, <2>1, <2>2 DEF NotifyWebhook
<1> QED
  BY <1>2, <1>3

\* The same for an attempt of the retry worker.
LEMMA RetryOutcome ==
  ASSUME NEW x \in Execs, RetryAct(x)
  PROVE  \E o \in {"ok", "fail", "retry"} :
           /\ rresult' = [rresult EXCEPT ![x] = o]
           /\ tries' = tries \/ tries' = [tries EXCEPT ![x] = @ + 1]
           /\ effects' = effects \/ effects' = effects \cup {x}
           /\ o = "ok" => x \in effects'
<1>1. CASE rresult' = [rresult EXCEPT ![x] = "fail"] /\ UNCHANGED <<tries, effects>>
  BY <1>1
<1>2. ASSUME NEW c \in Calls, rresult' = [rresult EXCEPT ![x] = c[1]], Effect(x, c[2])
      PROVE  \E o \in {"ok", "fail", "retry"} :
               /\ rresult' = [rresult EXCEPT ![x] = o]
               /\ tries' = [tries EXCEPT ![x] = @ + 1]
               /\ effects' = effects \/ effects' = effects \cup {x}
               /\ o = "ok" => x \in effects'
  <2>1. c[1] \in {"ok", "fail", "retry"} /\ (c[1] = "ok" => c[2])
    BY CallOutcomes
  <2>2. tries' = [tries EXCEPT ![x] = @ + 1]
    BY <1>2 DEF Effect
  <2>3. /\ effects' = effects \/ effects' = effects \cup {x}
        /\ c[2] => x \in effects'
    BY <1>2 DEF Effect
  <2> QED
    BY <1>2, <2>1, <2>2, <2>3
<1> QED
  BY <1>1, <1>2 DEF RetryAct

-----------------------------------------------------------------------------
\* Every process stays at one of its control points.
LEMMA ControlStep == Inv /\ [Next]_vars => pc' \in [Procs -> JobPc \cup ApiPc]
<1> SUFFICES ASSUME Inv, [Next]_vars PROVE pc' \in [Procs -> JobPc \cup ApiPc]
  OBVIOUS
<1> DEFINE AnyPc == JobPc \cup ApiPc
<1> USE DEF Goto
<1>a. /\ "queued" \in AnyPc /\ "done" \in AnyPc /\ "failed" \in AnyPc
      /\ "lookup" \in AnyPc /\ "claim" \in AnyPc /\ "write" \in AnyPc /\ "insert" \in AnyPc
      /\ "rule" \in AnyPc /\ "act" \in AnyPc /\ "apply" \in AnyPc /\ "record" \in AnyPc
      /\ "enqueue" \in AnyPc /\ "matched" \in AnyPc /\ "unmatched" \in AnyPc /\ "mark" \in AnyPc
      /\ "archive" \in AnyPc /\ "expire" \in AnyPc /\ "close" \in AnyPc /\ "rejected" \in AnyPc
  BY DEF JobPc, ApiPc, Working
<1>b. pc \in [Procs -> AnyPc]
  BY DEF Inv, TypeOK
<1>c. \A p \in Procs : \A to \in AnyPc : [pc EXCEPT ![p] = to] \in [Procs -> AnyPc]
  BY <1>b
<1> HIDE DEF AnyPc
<1>0. CASE UNCHANGED vars
  BY <1>0, <1>b DEF vars, AnyPc
<1>1. ASSUME NEW j \in Deliveries, ReceiveWebhook(j) \/ DispatchEvent(j) PROVE pc' \in [Procs -> AnyPc]
  <2>1. j \in Procs
    BY DEF Procs
  <2>2. PICK to \in {"queued", "done"} : pc' = [pc EXCEPT ![j] = to]
    BY <1>1 DEF ReceiveWebhook, DispatchEvent
  <2> QED
    BY <2>1, <2>2, <1>a, <1>c
<1>2. ASSUME NEW k \in Closings, CloseResolve(k) \/ CloseStep(k) PROVE pc' \in [Procs -> AnyPc]
  BY <1>2, <1>a, <1>c DEF CloseResolve, CloseStep, CloseArchive, CloseExpire, CloseAccount, Procs
<1>3. ASSUME NEW p \in Patches, PatchRead(p) \/ PatchWrite(p) PROVE pc' \in [Procs -> AnyPc]
  BY <1>3, <1>a, <1>c DEF PatchRead, PatchWrite, Procs
<1>4. ASSUME NEW j \in Deliveries, JobStep(j) \/ FailJob(j) \/ CrashWorker(j)
      PROVE  pc' \in [Procs -> AnyPc]
  <2>1. j \in Procs /\ AfterRule(j) \in AnyPc /\ Gate(j) \in AnyPc
    BY <1>a DEF AfterRule, Gate, Procs
  <2>2. ASSUME NEW c, NEW from, NEW past \in AnyPc, StartRules(j, c, from, past)
        PROVE  pc' \in [Procs -> AnyPc]
    BY <2>1, <2>2, <1>a, <1>c DEF StartRules
  <2>3. CASE CheckDuplicate(j) \/ LookupAccount(j) \/ WriteBegin(j) \/ WriteConflict(j)
    BY <2>1, <2>3, <1>a, <1>c DEF CheckDuplicate, LookupAccount, WriteBegin, WriteConflict
  <2>4. CASE ClaimEvent(j)
    BY <2>1, <2>2, <2>4, <1>a, <1>c DEF ClaimEvent
  <2>5. CASE WriteInflow(j)
    BY <2>1, <2>2, <2>5, <1>a, <1>c DEF WriteInflow
  <2>6. CASE CreateExecution(j) \/ ReleaseFunds(j) \/ NotifyWebhook(j) \/ ReadStatus(j)
             \/ FlagForReview(j) \/ ApplyStatus(j)
    BY <2>1, <2>6, <1>a, <1>c
    DEF CreateExecution, ReleaseFunds, NotifyWebhook, ReadStatus, FlagForReview, ApplyStatus
  <2>7. CASE RecordExecution(j) \/ EnqueueRetry(j) \/ Reconcile(j) \/ MarkProcessed(j)
    BY <2>1, <2>7, <1>a, <1>c DEF RecordExecution, EnqueueRetry, Reconcile, MarkProcessed
  <2>8. CASE FailJob(j) \/ CrashWorker(j)
    BY <2>1, <2>8, <1>a, <1>c DEF FailJob, CrashWorker
  <2> QED
    BY <1>4, <2>3, <2>4, <2>5, <2>6, <2>7, <2>8 DEF JobStep
<1>5. ASSUME NEW x \in Execs, RetryStep(x) \/ CrashRetry(x) PROVE pc' \in [Procs -> AnyPc]
  BY <1>5, <1>b
  DEF RetryStep, RetryBegin, RetryAct, RetryRecord, RetryFinish, RetryThrow, CrashRetry
<1> QED
  BY <1>0, <1>1, <1>2, <1>3, <1>4, <1>5 DEF Next, ApiStep, AnyPc

\* Each variable of Inflow keeps its type at every step.
LEMMA TypeStep == Inv /\ [Next]_vars => TypeOK'
<1> SUFFICES ASSUME Inv, [Next]_vars PROVE TypeOK'
  OBVIOUS
<1>a. pc' \in [Procs -> JobPc \cup ApiPc]
  BY ControlStep
<1> USE DEF Inv, TypeOK, ledgerVars, execVars, workVars, retryVars
<1>0. CASE UNCHANGED vars
  BY <1>0 DEF vars
<1>1. ASSUME NEW j \in Deliveries, ReceiveWebhook(j) \/ DispatchEvent(j) PROVE TypeOK'
  BY <1>1, <1>a DEF ReceiveWebhook, DispatchEvent
<1>2. ASSUME NEW k \in Closings, CloseResolve(k) \/ CloseExpire(k) PROVE TypeOK'
  BY <1>2, <1>a DEF CloseResolve, CloseExpire
<1>3. ASSUME NEW k \in Closings, CloseArchive(k) PROVE TypeOK'
  <2>1. exec' \in [Execs -> ExecStatus]
    BY <1>3 DEF CloseArchive, ExecStatus, Resolved
  <2> QED
    BY <1>3, <1>a, <2>1 DEF CloseArchive
<1>4. ASSUME NEW k \in Closings, CloseAccount(k) PROVE TypeOK'
  <2>1. account' \in [Accounts -> AccountStatus]
    BY <1>4 DEF CloseAccount, AccountStatus
  <2> QED
    BY <1>4, <1>a, <2>1 DEF CloseAccount
<1>5. ASSUME NEW p \in Patches, PatchRead(p) PROVE TypeOK'
  BY <1>5, <1>a DEF PatchRead
<1>6. ASSUME NEW p \in Patches, PatchWrite(p) PROVE TypeOK'
  <2>1. account' \in [Accounts -> AccountStatus]
    BY <1>6 DEF PatchWrite, Goto, AccountStatus, PatchInv
  <2> QED
    BY <1>6, <1>a, <2>1 DEF PatchWrite
<1>7. ASSUME NEW j \in Deliveries, JobStep(j) \/ FailJob(j) \/ CrashWorker(j) PROVE TypeOK'
  <2>0. j.account \in Accounts /\ j.txn \in Txns /\ j.event \in Events /\ j.amount \in Nat
    BY DeliveryAssumption DEF Txns, Events
  <2>a. ASSUME pc[j] \in Executing
        PROVE  /\ Rule(j) \in Rules
               /\ Exec(j) \in Execs
               /\ Tail(todo[j]) \in Seq(Rules)
    BY <2>0, <2>a, TailOfRules DEF JobInv, JobControl, Rule, Exec, Execs
  <2>b. ASSUME NEW c \in Nat, NEW from, NEW past, StartRules(j, c, from, past)
        PROVE  todo' \in [Deliveries -> Seq(Rules)]
    BY <2>b, EvaluationsAreRules DEF StartRules
  <2>c. Unlock(j) => lock' \in [Accounts -> Deliveries \cup {Free}]
    BY <2>0 DEF Unlock
  <2>1. CASE CheckDuplicate(j)
    BY <2>1, <1>a DEF CheckDuplicate
  <2>2. CASE LookupAccount(j)
    BY <2>0, <2>2, <1>a DEF LookupAccount
  <2>3. CASE ClaimEvent(j)
    <3>1. todo' \in [Deliveries -> Seq(Rules)]
      BY <2>3, <2>b DEF ClaimEvent
    <3> QED
      BY <2>0, <2>3, <3>1, <1>a DEF ClaimEvent
  <2>4. CASE WriteBegin(j)
    BY <2>0, <2>4, <1>a DEF WriteBegin
  <2>5. CASE WriteInflow(j)
    <3>1. prior[j] + j.amount \in Nat /\ total[j.account] + j.amount \in Nat
      BY <2>0
    <3>2. todo' \in [Deliveries -> Seq(Rules)]
      BY <2>5, <2>b, <3>1 DEF WriteInflow
    <3>3. recon' \in [Txns -> ReconStatus]
      BY <2>0, <2>5 DEF WriteInflow, EntryStatus, ReconStatus
    <3>4. total' \in [Accounts -> Nat] /\ cum' \in [Txns -> Nat]
      BY <2>0, <2>5, <3>1 DEF WriteInflow
    <3> QED
      BY <2>5, <2>c, <3>2, <3>3, <3>4, <1>a DEF WriteInflow
  <2>6. CASE WriteConflict(j) \/ FailJob(j)
    BY <2>6, <2>c, <1>a DEF WriteConflict, FailJob
  <2>7. CASE CreateExecution(j)
    <3>1. Exec(j) \in Execs
      BY <2>7, <2>a DEF CreateExecution, Goto, Executing
    <3>2. exec' \in [Execs -> ExecStatus] /\ runs' \in [Execs -> Nat]
      BY <2>7, <3>1 DEF CreateExecution, ExecStatus
    <3> QED
      BY <2>7, <3>2, <1>a DEF CreateExecution
  <2>8. CASE ReleaseFunds(j) \/ NotifyWebhook(j)
    <3>1. Exec(j) \in Execs
      BY <2>8, <2>a DEF ReleaseFunds, NotifyWebhook, Goto, Executing
    <3>2. PICK o \in Outcome :
            /\ result' = [result EXCEPT ![j] = o]
            /\ tries' = tries \/ tries' = [tries EXCEPT ![Exec(j)] = @ + 1]
            /\ effects' = effects \/ effects' = effects \cup {Exec(j)}
      BY <2>8, FirstAttemptOutcome DEF Outcome
    <3>3. tries' \in [Execs -> Nat] /\ effects' \subseteq Execs
      <4>1. tries \in [Execs -> Nat] /\ tries[Exec(j)] + 1 \in Nat
        BY <3>1
      <4> QED
        BY <3>1, <3>2, <4>1
    <3>4. result' \in [Deliveries -> Outcome]
      BY <3>2
    <3>5. UNCHANGED <<account, ledgerVars, processed, exec, runs, seen, prior, todo, stalls, lock,
                      retryVars>>
      BY <2>8, Zenon DEF ReleaseFunds, NotifyWebhook
    <3> QED
      BY <3>3, <3>4, <3>5, <1>a
  <2>9. CASE ReadStatus(j)
    <3>1. result' \in [Deliveries -> Outcome]
      BY <2>9 DEF ReadStatus, Outcome
    <3> QED
      BY <2>9, <3>1, <1>a DEF ReadStatus
  <2>10. CASE FlagForReview(j)
    <3>1. recon' \in [Txns -> ReconStatus] /\ result' \in [Deliveries -> Outcome]
      BY <2>0, <2>10 DEF FlagForReview, ReconStatus, Outcome
    <3> QED
      BY <2>10, <3>1, <1>a DEF FlagForReview
  <2>11. CASE ApplyStatus(j)
    <3>1. Target(Rule(j).action) \in AccountStatus
      BY <2>11 DEF ApplyStatus, Goto, JobInv, JobControl, Target, StatusActions, AccountStatus
    <3> QED
      BY <2>0, <2>11, <3>1, <1>a DEF ApplyStatus
  <2>12. CASE pc[j] = "record" /\ RecordExecution(j)
    <3>1. StatusOf(result[j]) \in ExecStatus
      BY <2>12 DEF JobInv, JobControl, StatusOf, ExecStatus, Resolved, Outcome
    <3>2. exec' \in [Execs -> ExecStatus]
      BY <2>12, <2>a, <3>1 DEF RecordExecution, Executing
    <3>3. todo' \in [Deliveries -> Seq(Rules)] /\ result' \in [Deliveries -> Outcome]
      BY <2>12, <2>a DEF RecordExecution, Executing, Outcome
    <3> QED
      BY <2>12, <3>2, <3>3, <1>a DEF RecordExecution
  <2>13. CASE pc[j] = "enqueue" /\ EnqueueRetry(j)
    <3>1. todo' \in [Deliveries -> Seq(Rules)] /\ rpc' \in [Execs -> RetryPc]
      BY <2>13, <2>a DEF EnqueueRetry, Executing, RetryPc
    <3> QED
      BY <2>13, <3>1, <1>a DEF EnqueueRetry
  <2>14. CASE Reconcile(j)
    <3>1. recon' \in [Txns -> ReconStatus]
      BY <2>0, <2>14 DEF Reconcile, ReconStatus
    <3> QED
      BY <2>14, <3>1, <1>a DEF Reconcile
  <2>15. CASE MarkProcessed(j)
    BY <2>0, <2>15, <1>a DEF MarkProcessed
  <2>16. CASE CrashWorker(j)
    <3>1. stalls' \in [Deliveries -> 0..MaxStalls]
      BY <2>16, ProcessAssumption DEF CrashWorker
    <3>2. todo' \in [Deliveries -> Seq(Rules)] /\ result' \in [Deliveries -> Outcome]
      BY <2>16 DEF CrashWorker, Outcome
    <3> QED
      BY <2>16, <2>c, <3>1, <3>2, <1>a DEF CrashWorker
  <2> QED
    BY <1>7, <2>1, <2>2, <2>3, <2>4, <2>5, <2>6, <2>7, <2>8, <2>9, <2>10, <2>11, <2>12, <2>13,
       <2>14, <2>15, <2>16 DEF JobStep
<1>8. ASSUME NEW x \in Execs, RetryStep(x) \/ CrashRetry(x) PROVE TypeOK'
  <2>1. CASE RetryBegin(x) \/ RetryFinish(x)
    <3>1. rpc' \in [Execs -> RetryPc]
      BY <2>1 DEF RetryBegin, RetryFinish, RetryPc, Retrying
    <3> QED
      BY <2>1, <3>1, <1>a DEF RetryBegin, RetryFinish
  <2>2. CASE RetryAct(x)
    <3>1. PICK o \in Outcome :
            /\ rresult' = [rresult EXCEPT ![x] = o]
            /\ tries' = tries \/ tries' = [tries EXCEPT ![x] = @ + 1]
            /\ effects' = effects \/ effects' = effects \cup {x}
      BY <2>2, RetryOutcome DEF Outcome
    <3>2. tries' \in [Execs -> Nat] /\ effects' \subseteq Execs
      <4>1. tries \in [Execs -> Nat] /\ tries[x] + 1 \in Nat
        BY <1>8
      <4> QED
        BY <1>8, <3>1, <4>1
    <3>3. rpc' \in [Execs -> RetryPc] /\ rresult' \in [Execs -> Outcome]
      BY <2>2, <3>1 DEF RetryAct, RetryPc, Retrying
    <3>4. UNCHANGED <<account, ledgerVars, processed, exec, runs, workVars, lock, made, rstalls,
                      deadLetters>>
      BY <2>2, Zenon DEF RetryAct
    <3> QED
      BY <3>2, <3>3, <3>4, <1>a
  <2>3. CASE RetryRecord(x)
    <3>1. StatusOf(rresult[x]) \in ExecStatus /\ "FAILED" \in ExecStatus
      BY <2>3 DEF RetryRecord, RetryInv, RetryJob, StatusOf, ExecStatus, Resolved, Outcome
    <3>2. exec' \in [Execs -> ExecStatus]
      BY <2>3, <3>1 DEF RetryRecord
    <3>3. rpc' \in [Execs -> RetryPc] /\ rresult' \in [Execs -> Outcome]
      BY <2>3 DEF RetryRecord, RetryPc, Retrying, Outcome
    <3> QED
      BY <2>3, <3>2, <3>3, <1>a DEF RetryRecord
  <2>4. CASE RetryThrow(x)
    <3>1. made[x] + 1 \in 0..MaxAttempts
      BY <2>4, ProcessAssumption DEF RetryThrow, RetryInv, RetryJob, Retrying
    <3>2. rpc' \in [Execs -> RetryPc] /\ rresult' \in [Execs -> Outcome]
      BY <2>4 DEF RetryThrow, RetryPc, Retrying, Outcome
    <3> QED
      BY <1>8, <2>4, <3>1, <3>2, <1>a DEF RetryThrow
  <2>5. CASE CrashRetry(x)
    <3>1. rstalls' \in [Execs -> 0..MaxStalls]
      BY <2>5, ProcessAssumption DEF CrashRetry
    <3>2. rpc' \in [Execs -> RetryPc] /\ rresult' \in [Execs -> Outcome]
      BY <2>5 DEF CrashRetry, RetryPc, Retrying, Outcome
    <3> QED
      BY <2>5, <3>1, <3>2, <1>a DEF CrashRetry
  <2> QED
    BY <1>8, <2>1, <2>2, <2>3, <2>4, <2>5 DEF RetryStep
<1> QED
  BY <1>0, <1>1, <1>2, <1>3, <1>4, <1>5, <1>6, <1>7, <1>8 DEF Next, ApiStep, CloseStep

-----------------------------------------------------------------------------
\* The steps of the worker, or of the intake, that work on delivery j, and all others.
StepOf(j)      == ReceiveWebhook(j) \/ DispatchEvent(j) \/ JobStep(j) \/ FailJob(j) \/ CrashWorker(j)
BackgroundStep ==
  \/ UNCHANGED vars
  \/ \E k \in Closings : CloseResolve(k) \/ CloseStep(k)
  \/ \E p \in Patches : PatchRead(p) \/ PatchWrite(p)
  \/ \E x \in Execs : RetryStep(x) \/ CrashRetry(x)

SameJob(i)  == pc'[i] = pc[i] /\ todo'[i] = todo[i] /\ result'[i] = result[i] /\ prior'[i] = prior[i]
SameExec(x) ==
  /\ exec'[x] = exec[x] /\ runs'[x] = runs[x] /\ tries'[x] = tries[x] /\ rpc'[x] = rpc[x]
  /\ x \in effects' <=> x \in effects

\* Each step is one or the other.
LEMMA StepKinds == [Next]_vars => BackgroundStep \/ \E j \in Deliveries : StepOf(j)
BY DEF Next, ApiStep, BackgroundStep, StepOf

\* A process of the API leaves the jobs alone.
LEMMA ApiFrame ==
  ASSUME TypeOK, NEW q \in Closings \cup Patches, NEW to, pc' = [pc EXCEPT ![q] = to]
  PROVE  \A i \in Deliveries : pc'[i] = pc[i]
BY ProcessAssumption DEF TypeOK, Procs

\* What closings, overrides and retries may do to the jobs (nothing) and to executions:
\* an execution without a retry job is at most archived, and none is set PENDING.
LEMMA BackgroundFrame ==
  ASSUME Inv, BackgroundStep
  PROVE  /\ UNCHANGED <<ledgerVars, processed, runs, workVars, lock>>
         /\ \A i \in Deliveries : SameJob(i)
         /\ \A x \in Execs :
              /\ exec'[x] = "PENDING" => exec[x] = "PENDING"
              /\ exec'[x] = "NONE" <=> exec[x] = "NONE"
              /\ rpc[x] = "none" =>
                   /\ rpc'[x] = "none" /\ tries'[x] = tries[x]
                   /\ exec'[x] = exec[x] \/ (exec[x] \in {"PENDING", "RETRYING"} /\ exec'[x] = "ARCHIVED")
<1> USE DEF ledgerVars, execVars, workVars, retryVars, SameJob
<1>a. TypeOK /\ RetryInv
  BY DEF Inv
<1>b. ASSUME UNCHANGED <<ledgerVars, processed, execVars, workVars, lock, rpc>>,
             \A i \in Deliveries : pc'[i] = pc[i]
      PROVE  /\ UNCHANGED <<ledgerVars, processed, runs, workVars, lock>>
             /\ \A i \in Deliveries : SameJob(i)
             /\ \A x \in Execs :
                  /\ exec'[x] = "PENDING" => exec[x] = "PENDING"
                  /\ exec'[x] = "NONE" <=> exec[x] = "NONE"
                  /\ rpc[x] = "none" =>
                       /\ rpc'[x] = "none" /\ tries'[x] = tries[x]
                       /\ \/ exec'[x] = exec[x]
                          \/ exec[x] \in {"PENDING", "RETRYING"} /\ exec'[x] = "ARCHIVED"
  BY <1>b
<1>0. CASE UNCHANGED vars
  BY <1>0, <1>b DEF vars
<1>1. ASSUME NEW k \in Closings, CloseResolve(k) \/ CloseExpire(k) \/ CloseAccount(k)
      PROVE  UNCHANGED <<ledgerVars, processed, execVars, workVars, lock, rpc>>
             /\ \A i \in Deliveries : pc'[i] = pc[i]
  BY <1>1, <1>a, ApiFrame DEF CloseResolve, CloseExpire, CloseAccount, Goto
<1>2. ASSUME NEW k \in Closings, CloseArchive(k)
      PROVE  /\ UNCHANGED <<ledgerVars, processed, runs, tries, workVars, lock, rpc>>
             /\ \A i \in Deliveries : pc'[i] = pc[i]
             /\ \A x \in Execs : \/ exec'[x] = exec[x]
                                 \/ exec[x] \in {"PENDING", "RETRYING"} /\ exec'[x] = "ARCHIVED"
  <2>1. \A i \in Deliveries : pc'[i] = pc[i]
    BY <1>2, <1>a, ApiFrame DEF CloseArchive, Goto
  <2>2. \A x \in Execs : \/ exec'[x] = exec[x]
                         \/ exec[x] \in {"PENDING", "RETRYING"} /\ exec'[x] = "ARCHIVED"
    BY <1>2 DEF CloseArchive
  <2> QED
    BY <1>2, <2>1, <2>2 DEF CloseArchive
<1>3. ASSUME NEW p \in Patches, PatchRead(p) \/ PatchWrite(p)
      PROVE  UNCHANGED <<ledgerVars, processed, execVars, workVars, lock, rpc>>
             /\ \A i \in Deliveries : pc'[i] = pc[i]
  BY <1>3, <1>a, ApiFrame DEF PatchRead, PatchWrite, Goto
<1>4. ASSUME NEW y \in Execs, RetryStep(y) \/ CrashRetry(y)
      PROVE  /\ UNCHANGED <<ledgerVars, processed, runs, workVars, lock, pc>>
             /\ rpc[y] # "none"
             /\ \A x \in Execs : x # y => /\ exec'[x] = exec[x] /\ tries'[x] = tries[x]
                                          /\ rpc'[x] = rpc[x]
             /\ exec'[y] = exec[y] \/ exec'[y] \notin {"NONE", "PENDING"}
  <2> USE DEF TypeOK
  <2>1. CASE RetryBegin(y) \/ RetryFinish(y) \/ RetryThrow(y) \/ CrashRetry(y)
    BY <1>a, <2>1 DEF RetryBegin, RetryFinish, RetryThrow, CrashRetry, Retrying
  <2>2. CASE RetryAct(y)
    <3>1. tries' = tries \/ tries' = [tries EXCEPT ![y] = @ + 1]
      BY <2>2, RetryOutcome
    <3>2. UNCHANGED <<ledgerVars, processed, exec, runs, pc, workVars, lock>>
          /\ rpc[y] # "none" /\ rpc' = [rpc EXCEPT ![y] = "acted"]
      BY <2>2, Zenon DEF RetryAct
    <3> QED
      BY <1>a, <3>1, <3>2
  <2>3. CASE RetryRecord(y)
    <3>1. StatusOf(rresult[y]) \notin {"NONE", "PENDING"}
      BY <1>a, <2>3 DEF RetryRecord, RetryInv, RetryJob, StatusOf, Outcome
    <3>2. exec'[y] \notin {"NONE", "PENDING"} /\ \A x \in Execs : x # y => exec'[x] = exec[x]
      BY <1>a, <2>3, <3>1 DEF RetryRecord
    <3> QED
      BY <1>a, <2>3, <3>2 DEF RetryRecord
  <2> QED
    BY <1>4, <2>1, <2>2, <2>3 DEF RetryStep
<1>5. ASSUME NEW y \in Execs, RetryStep(y) \/ CrashRetry(y)
      PROVE  /\ UNCHANGED <<ledgerVars, processed, runs, workVars, lock>>
             /\ \A i \in Deliveries : SameJob(i)
             /\ \A x \in Execs :
                  /\ exec'[x] = "PENDING" => exec[x] = "PENDING"
                  /\ exec'[x] = "NONE" <=> exec[x] = "NONE"
                  /\ rpc[x] = "none" =>
                       /\ rpc'[x] = "none" /\ tries'[x] = tries[x] /\ exec'[x] = exec[x]
  <2>1. exec[y] \notin {"NONE", "PENDING"}
    BY <1>a, <1>4, <1>5 DEF RetryInv, RetryJob
  <2> QED
    BY <1>4, <1>5, <2>1
<1> QED
  BY <1>b, <1>0, <1>1, <1>2, <1>3, <1>5 DEF BackgroundStep, CloseStep

\* A step on delivery j leaves the other jobs, the other transactions, the retry jobs and
\* all executions but j's current one alone.
LEMMA JobFrame ==
  ASSUME Inv, NEW j \in Deliveries, StepOf(j)
  PROVE  /\ \A i \in Deliveries : i # j => SameJob(i)
         /\ \A x \in Execs : x # Exec(j) \/ pc[j] \notin Executing => SameExec(x)
         /\ \A t \in Txns : t # j.txn => recon'[t] = recon[t] /\ cum'[t] = cum[t]
         /\ UNCHANGED <<rresult, made, rstalls, deadLetters>>
<1> USE DEF ledgerVars, execVars, workVars, retryVars, SameJob, SameExec, TypeOK, Goto, Procs, Executing
<1>a. TypeOK
  BY DEF Inv
<1>1. CASE ReceiveWebhook(j) \/ DispatchEvent(j) \/ CheckDuplicate(j) \/ LookupAccount(j)
  BY <1>a, <1>1 DEF ReceiveWebhook, DispatchEvent, CheckDuplicate, LookupAccount
<1>2. CASE pc[j] = "claim" /\ ClaimEvent(j)
  BY <1>a, <1>2 DEF ClaimEvent, StartRules
<1>3. CASE WriteBegin(j) \/ WriteConflict(j)
  BY <1>a, <1>3 DEF WriteBegin, WriteConflict
<1>4. CASE pc[j] = "insert" /\ WriteInflow(j)
  BY <1>a, <1>4 DEF WriteInflow, StartRules
<1>5. CASE CreateExecution(j)
  BY <1>a, <1>5 DEF CreateExecution
<1>6. CASE pc[j] = "act" /\ (ReleaseFunds(j) \/ NotifyWebhook(j))
  <2>1. /\ UNCHANGED <<ledgerVars, exec, runs, rpc, rresult, made, rstalls, deadLetters, todo, prior>>
        /\ pc' = [pc EXCEPT ![j] = "record"]
    BY <1>6, Zenon DEF ReleaseFunds, NotifyWebhook
  <2>2. PICK o :
          /\ result' = [result EXCEPT ![j] = o]
          /\ tries' = tries \/ tries' = [tries EXCEPT ![Exec(j)] = @ + 1]
          /\ effects' = effects \/ effects' = effects \cup {Exec(j)}
    BY <1>6, FirstAttemptOutcome
  <2> QED
    BY <1>a, <1>6, <2>1, <2>2
<1>7. CASE ReadStatus(j) \/ FlagForReview(j) \/ ApplyStatus(j)
  BY <1>a, <1>7 DEF ReadStatus, FlagForReview, ApplyStatus
<1>8. CASE pc[j] = "record" /\ RecordExecution(j)
  BY <1>a, <1>8 DEF RecordExecution
<1>9. CASE pc[j] = "enqueue" /\ EnqueueRetry(j)
  BY <1>a, <1>9 DEF EnqueueRetry
<1>10. CASE Reconcile(j) \/ MarkProcessed(j)
  BY <1>a, <1>10 DEF Reconcile, MarkProcessed
<1>11. CASE FailJob(j) \/ CrashWorker(j)
  BY <1>a, <1>11 DEF FailJob, CrashWorker
<1> QED
  BY <1>1, <1>2, <1>3, <1>4, <1>5, <1>6, <1>7, <1>8, <1>9, <1>10, <1>11 DEF StepOf, JobStep

-----------------------------------------------------------------------------
\* A rule that is done leaves good rules to do.
LEMMA TailIsGood ==
  ASSUME NEW j, NEW s \in Seq(Rules), s # <<>>, GoodRules(j, s)
  PROVE  GoodRules(j, Tail(s))
<1>1. \A m, n \in 1..Len(Tail(s)) : m # n => m + 1 # n + 1
  BY TailOfRules
<1> QED
  BY <1>1, TailOfRules DEF GoodRules

\* The control state of a job stays consistent with its kind and with its rules.
LEMMA JobInvStep == Inv /\ [Next]_vars => JobInv'
<1> SUFFICES ASSUME Inv, [Next]_vars PROVE JobInv'
  OBVIOUS
<1>a. TypeOK /\ JobInv
  BY DEF Inv
<1>b. ASSUME NEW i \in Deliveries, SameJob(i) PROVE JobControl(i)'
  BY <1>a, <1>b DEF JobInv, JobControl, SameJob, Rule, GoodRules
<1>1. CASE BackgroundStep
  BY <1>1, <1>b, BackgroundFrame DEF JobInv
<1>2. ASSUME NEW j \in Deliveries, StepOf(j) PROVE JobInv'
  <2> SUFFICES JobControl(j)'
    BY <1>2, <1>b, JobFrame DEF JobInv
  <2> USE DEF Goto, TypeOK, Procs, Executing, workVars
  <2>a. JobControl(j) /\ j.kind \in {"inflow", "custom"}
    BY <1>a, DeliveryAssumption DEF JobInv
  <2>b. ASSUME NEW to, pc' = [pc EXCEPT ![j] = to], todo' = todo,
               to \notin Executing, to = "claim" => j.kind = "custom",
               to \in {"write", "insert", "matched", "unmatched", "mark"} => j.kind = "inflow"
        PROVE  JobControl(j)'
    BY <1>a, <2>a, <2>b DEF JobControl, GoodRules
  <2>c. ASSUME NEW c \in Nat, NEW from, NEW past \in {"done", "unmatched"},
               StartRules(j, c, from, past), past = "unmatched" => j.kind = "inflow"
        PROVE  JobControl(j)'
    <3>1. PICK hits \in Evaluations(j, c) :
            todo' = [todo EXCEPT ![j] = hits] /\ pc' = [pc EXCEPT ![j] = IF hits = <<>> THEN past ELSE "rule"]
      BY <2>c DEF StartRules
    <3>2. todo'[j] = hits /\ GoodRules(j, hits)
      BY <1>a, <3>1, EvaluationsAreRules
    <3>3. pc'[j] = IF hits = <<>> THEN past ELSE "rule"
      BY <1>a, <3>1
    <3> QED
      BY <2>c, <3>2, <3>3 DEF JobControl, GoodRules
  <2>1. CASE ReceiveWebhook(j) \/ DispatchEvent(j) \/ CheckDuplicate(j)
    BY <2>1, <2>b DEF ReceiveWebhook, DispatchEvent, CheckDuplicate
  <2>2. CASE LookupAccount(j)
    BY <2>2, <2>a, <2>b DEF LookupAccount, Gate
  <2>3. CASE pc[j] = "claim" /\ ClaimEvent(j)
    <3>1. CASE pc' = [pc EXCEPT ![j] = "done"] /\ todo' = todo
      BY <2>b, <3>1
    <3>2. CASE StartRules(j, 0, "claim", "done")
      BY <2>c, <3>2
    <3> QED
      BY <2>3, <3>1, <3>2 DEF ClaimEvent
  <2>4. CASE WriteBegin(j) \/ WriteConflict(j)
    BY <2>4, <2>a, <2>b DEF WriteBegin, WriteConflict, JobControl
  <2>5. CASE pc[j] = "insert" /\ WriteInflow(j)
    <3>1. prior[j] + j.amount \in Nat
      BY <1>a, DeliveryAssumption
    <3> QED
      BY <2>5, <2>a, <2>b, <2>c, <3>1 DEF WriteInflow, JobControl
  <2>6. CASE CreateExecution(j)
    BY <1>a, <2>6, <2>a DEF CreateExecution, JobControl, GoodRules
  <2>7. CASE pc[j] = "act" /\ (ReleaseFunds(j) \/ NotifyWebhook(j))
    <3>1. pc' = [pc EXCEPT ![j] = "record"] /\ todo' = todo
      BY <2>7, Zenon DEF ReleaseFunds, NotifyWebhook
    <3>2. PICK o \in {"ok", "fail", "retry"} : result' = [result EXCEPT ![j] = o]
      BY <2>7, FirstAttemptOutcome
    <3> QED
      BY <1>a, <2>7, <2>a, <3>1, <3>2 DEF JobControl, GoodRules
  <2>8. CASE pc[j] = "act" /\ (ReadStatus(j) \/ FlagForReview(j))
    BY <1>a, <2>8, <2>a DEF ReadStatus, FlagForReview, JobControl, GoodRules, Rule
  <2>9. CASE ApplyStatus(j)
    BY <1>a, <2>9, <2>a DEF ApplyStatus, JobControl, GoodRules
  <2>10. CASE pc[j] = "record" /\ RecordExecution(j)
    <3>1. todo[j] # <<>> /\ GoodRules(j, Tail(todo[j]))
      BY <1>a, <2>10, <2>a, TailIsGood DEF JobControl
    <3>2. CASE result[j] = "retry" /\ j.kind = "inflow"
      <4>1. todo'[j] = todo[j] /\ pc'[j] = "enqueue"
        BY <1>a, <2>10, <3>2 DEF RecordExecution
      <4>2. GoodRules(j, todo[j])'
        BY <2>a, <4>1 DEF JobControl, GoodRules
      <4> QED
        BY <3>1, <3>2, <4>1, <4>2 DEF JobControl
    <3>3. CASE ~(result[j] = "retry" /\ j.kind = "inflow")
      <4>1. todo'[j] = Tail(todo[j]) /\ pc'[j] = AfterRule(j)
        BY <1>a, <2>10, <3>3 DEF RecordExecution
      <4> QED
        BY <2>a, <3>1, <4>1 DEF JobControl, GoodRules, AfterRule
    <3> QED
      BY <3>2, <3>3
  <2>11. CASE pc[j] = "enqueue" /\ EnqueueRetry(j)
    <3>1. todo[j] # <<>> /\ GoodRules(j, Tail(todo[j]))
      BY <1>a, <2>11, <2>a, TailIsGood DEF JobControl
    <3>2. todo'[j] = Tail(todo[j]) /\ pc'[j] = AfterRule(j)
      BY <1>a, <2>11 DEF EnqueueRetry
    <3> QED
      BY <2>a, <2>11, <3>1, <3>2 DEF JobControl, GoodRules, AfterRule
  <2>12. CASE Reconcile(j) \/ MarkProcessed(j)
    BY <2>12, <2>a, <2>b DEF Reconcile, MarkProcessed, JobControl
  <2>13. CASE FailJob(j)
    BY <2>13, <2>b DEF FailJob
  <2>14. CASE CrashWorker(j)
    <3>1. todo'[j] = <<>> /\ pc'[j] \in {"queued", "failed"}
      BY <1>a, <2>14 DEF CrashWorker
    <3> QED
      BY <3>1 DEF JobControl, GoodRules
  <2> QED
    BY <1>2, <2>1, <2>2, <2>3, <2>4, <2>5, <2>6, <2>7, <2>8, <2>9, <2>10, <2>11, <2>12, <2>13, <2>14
    DEF StepOf, JobStep
<1> QED
  BY <1>1, <1>2, StepKinds

\* An override that has passed updateStatus's check writes one of two statuses.
LEMMA PatchInvStep == Inv /\ [Next]_vars => PatchInv'
<1> SUFFICES ASSUME Inv, [Next]_vars PROVE PatchInv'
  OBVIOUS
<1>a. TypeOK /\ PatchInv
  BY DEF Inv
<1>1. ASSUME NEW q \in Procs \ Patches, NEW to, pc' = [pc EXCEPT ![q] = to] PROVE PatchInv'
  BY <1>a, <1>1 DEF TypeOK, PatchInv, Procs
<1>2. ASSUME pc' = pc PROVE PatchInv'
  BY <1>a, <1>2 DEF PatchInv
<1>3. ASSUME NEW p \in Patches, PatchRead(p) PROVE PatchInv'
  BY <1>a, <1>3 DEF PatchRead, ValidTransition, Goto, TypeOK, PatchInv, Procs
<1>4. ASSUME NEW p \in Patches, PatchWrite(p) PROVE PatchInv'
  BY <1>a, <1>4 DEF PatchWrite, Goto, TypeOK, PatchInv, Procs
<1>5. ASSUME NEW k \in Closings, CloseResolve(k) \/ CloseStep(k) PROVE PatchInv'
  <2>1. \E to : pc' = [pc EXCEPT ![k] = to]
    BY <1>5 DEF CloseResolve, CloseStep, CloseArchive, CloseExpire, CloseAccount, Goto
  <2> QED
    BY <1>1, <2>1, ProcessAssumption DEF Procs
<1>6. ASSUME NEW j \in Deliveries, StepOf(j) PROVE PatchInv'
  <2> USE DEF Goto
  <2>1. CASE ReceiveWebhook(j) \/ DispatchEvent(j) \/ CheckDuplicate(j) \/ LookupAccount(j)
    BY <2>1, <1>1, ProcessAssumption
    DEF ReceiveWebhook, DispatchEvent, CheckDuplicate, LookupAccount, Procs
  <2>2. CASE ClaimEvent(j) \/ WriteBegin(j) \/ WriteInflow(j) \/ WriteConflict(j)
    BY <2>2, <1>1, ProcessAssumption
    DEF ClaimEvent, WriteBegin, WriteInflow, WriteConflict, StartRules, Procs
  <2>3. CASE CreateExecution(j) \/ ReleaseFunds(j) \/ NotifyWebhook(j) \/ ReadStatus(j)
             \/ FlagForReview(j) \/ ApplyStatus(j)
    BY <2>3, <1>1, ProcessAssumption
    DEF CreateExecution, ReleaseFunds, NotifyWebhook, ReadStatus, FlagForReview, ApplyStatus, Procs
  <2>4. CASE RecordExecution(j) \/ EnqueueRetry(j) \/ Reconcile(j) \/ MarkProcessed(j)
    BY <2>4, <1>1, ProcessAssumption
    DEF RecordExecution, EnqueueRetry, Reconcile, MarkProcessed, Procs
  <2>5. CASE FailJob(j) \/ CrashWorker(j)
    BY <2>5, <1>1, ProcessAssumption DEF FailJob, CrashWorker, Procs
  <2> QED
    BY <1>6, <2>1, <2>2, <2>3, <2>4, <2>5 DEF StepOf, JobStep
<1>7. ASSUME NEW x \in Execs, RetryStep(x) \/ CrashRetry(x) PROVE PatchInv'
  <2>1. pc' = pc
    BY <1>7 DEF RetryStep, RetryBegin, RetryAct, RetryRecord, RetryFinish, RetryThrow, CrashRetry
  <2> QED
    BY <1>2, <2>1
<1> QED
  BY <1>2, <1>3, <1>4, <1>5, <1>6, <1>7, StepKinds DEF BackgroundStep, vars

-----------------------------------------------------------------------------
\* Only writeInflow touches the sum of an account, and only under the lock of its row:
\* a sum that was read stays the sum until the entry is inserted.
LEMMA LockInvStep == Inv /\ [Next]_vars => LockInv'
<1> SUFFICES ASSUME Inv, [Next]_vars PROVE LockInv'
  OBVIOUS
<1>a. TypeOK /\ LockInv /\ \A j \in Deliveries : j.account \in Accounts
  BY DeliveryAssumption DEF Inv
<1> USE ProcessAssumption DEF ledgerVars, workVars
<1>1. CASE BackgroundStep
  <2>1. UNCHANGED <<total, prior, lock>> /\ \A i \in Deliveries : pc'[i] = pc[i]
    BY <1>1, BackgroundFrame DEF SameJob
  <2>2. ASSUME NEW i \in Deliveries, pc'[i] = "insert"
        PROVE  lock'[i.account] = i /\ prior'[i] = total'[i.account]
    BY <1>a, <2>1, <2>2 DEF LockInv
  <2>3. ASSUME NEW a \in Accounts, NEW i \in Deliveries, lock'[a] = i
        PROVE  i.account = a /\ pc'[i] = "insert"
    BY <1>a, <2>1, <2>3 DEF LockInv
  <2> QED
    BY <2>2, <2>3 DEF LockInv
<1>2. ASSUME NEW j \in Deliveries, StepOf(j) PROVE LockInv'
  <2> USE DEF Goto
  <2>a. \A i \in Deliveries : i # j => pc'[i] = pc[i] /\ prior'[i] = prior[i]
    BY <1>2, JobFrame DEF SameJob
  <2>b. ASSUME UNCHANGED <<total, lock>>, pc[j] # "insert", pc'[j] # "insert" PROVE LockInv'
    BY <1>a, <2>a, <2>b DEF LockInv
  <2>c. ASSUME Unlock(j), pc'[j] # "insert", \A a \in Accounts : a # j.account => total'[a] = total[a],
               pc[j] # "insert" => total' = total
        PROVE  LockInv'
    <3>1. \A a \in Accounts : lock'[a] = IF a = j.account /\ lock[a] = j THEN Free ELSE lock[a]
      BY <1>a, <2>c DEF TypeOK, Unlock
    <3>2. ASSUME NEW a \in Accounts, NEW i \in Deliveries, lock'[a] = i
          PROVE  i.account = a /\ pc'[i] = "insert"
      <4>1. lock[a] = i /\ i # j
        BY <1>a, <3>1, <3>2 DEF LockInv
      <4> QED
        BY <1>a, <2>a, <4>1 DEF LockInv
    <3>3. ASSUME NEW i \in Deliveries, pc'[i] = "insert"
          PROVE  lock'[i.account] = i /\ prior'[i] = total'[i.account]
      <4>1. i # j /\ pc[i] = "insert" /\ lock[i.account] = i /\ prior'[i] = total[i.account]
        BY <1>a, <2>a, <2>c, <3>3 DEF LockInv
      <4>2. pc[j] = "insert" => i.account # j.account
        BY <1>a, <4>1 DEF LockInv
      <4> QED
        BY <1>a, <2>c, <3>1, <4>1, <4>2
    <3> QED
      BY <3>2, <3>3 DEF LockInv
  <2> USE DEF TypeOK, Procs
  <2>1. CASE ReceiveWebhook(j) \/ DispatchEvent(j) \/ CheckDuplicate(j) \/ LookupAccount(j)
    BY <1>a, <2>1, <2>b DEF ReceiveWebhook, DispatchEvent, CheckDuplicate, LookupAccount, Gate
  <2>2. CASE pc[j] = "claim" /\ ClaimEvent(j)
    BY <1>a, <2>2, <2>b DEF ClaimEvent, StartRules
  <2>3. CASE WriteBegin(j)
    BY <1>a, <2>3, <2>a DEF WriteBegin, LockInv
  <2>4. CASE pc[j] = "insert" /\ WriteInflow(j)
    <3>1. pc'[j] # "insert"
      BY <1>a, <2>4 DEF WriteInflow, StartRules
    <3>2. Unlock(j) /\ \A a \in Accounts : a # j.account => total'[a] = total[a]
      BY <1>a, <2>4 DEF WriteInflow
    <3> QED
      BY <2>4, <2>c, <3>1, <3>2
  <2>5. CASE WriteConflict(j) \/ FailJob(j) \/ CrashWorker(j)
    BY <1>a, <2>5, <2>c DEF WriteConflict, FailJob, CrashWorker
  <2>6. CASE CreateExecution(j) \/ ReadStatus(j) \/ FlagForReview(j) \/ ApplyStatus(j)
    BY <1>a, <2>6, <2>b DEF CreateExecution, ReadStatus, FlagForReview, ApplyStatus
  <2>7. CASE ReleaseFunds(j) \/ NotifyWebhook(j)
    <3>1. UNCHANGED <<total, lock>> /\ pc[j] = "act" /\ pc' = [pc EXCEPT ![j] = "record"]
      BY <2>7, Zenon DEF ReleaseFunds, NotifyWebhook
    <3> QED
      BY <1>a, <2>b, <3>1
  <2>8. CASE pc[j] = "record" /\ RecordExecution(j)
    BY <1>a, <2>8, <2>b DEF RecordExecution, AfterRule
  <2>9. CASE pc[j] = "enqueue" /\ EnqueueRetry(j)
    BY <1>a, <2>9, <2>b DEF EnqueueRetry, AfterRule
  <2>10. CASE Reconcile(j) \/ MarkProcessed(j)
    BY <1>a, <2>10, <2>b DEF Reconcile, MarkProcessed
  <2> QED
    BY <1>2, <2>1, <2>2, <2>3, <2>4, <2>5, <2>6, <2>7, <2>8, <2>9, <2>10 DEF StepOf, JobStep
<1> QED
  BY <1>1, <1>2, StepKinds

\* An entry counts everything that was entered before it.
LEMMA RunningTotalStep == Inv /\ [Next]_vars => RunningTotal'
<1> SUFFICES ASSUME Inv, [Next]_vars PROVE RunningTotal'
  OBVIOUS
<1>a. TypeOK /\ LockInv /\ JobInv /\ OwnerInv /\ ExecInv /\ RunningTotal
  BY DEF Inv
<1>b. \A j \in Deliveries : j.account \in Accounts /\ j.txn \in Txns /\ j.amount \in Nat
  BY DeliveryAssumption DEF Txns
<1> USE DEF ledgerVars, TypeOK
<1>c. ASSUME UNCHANGED <<total, cum>>, \A t \in Txns : recon'[t] = "NONE" <=> recon[t] = "NONE"
      PROVE  RunningTotal'
  BY <1>a, <1>b, <1>c DEF RunningTotal
<1>1. CASE BackgroundStep
  BY <1>1, <1>c, BackgroundFrame
<1>2. ASSUME NEW j \in Deliveries, StepOf(j) PROVE RunningTotal'
  <2>1. CASE pc[j] = "insert" /\ WriteInflow(j)
    <3>1. prior[j] = total[j.account] /\ j.kind = "inflow"
      BY <1>a, <2>1 DEF LockInv, JobInv, JobControl
    <3>2. /\ recon[j.txn] = "NONE"
          /\ \A t \in Txns : t # j.txn => recon'[t] = recon[t] /\ cum'[t] = cum[t]
          /\ cum'[j.txn] = total[j.account] + j.amount
          /\ total'[j.account] = total[j.account] + j.amount
          /\ \A a \in Accounts : a # j.account => total'[a] = total[a]
      BY <1>a, <1>b, <2>1, <3>1 DEF WriteInflow
    <3>3. ASSUME NEW i \in Deliveries, recon'[i.txn] # "NONE" PROVE cum'[i.txn] <= total'[i.account]
      <4>1. CASE i.txn = j.txn
        BY <1>a, <1>b, <3>2, <4>1, SameTxn
      <4>2. CASE i.txn # j.txn
        <5>1. cum[i.txn] <= total[i.account]
          BY <1>a, <1>b, <3>2, <3>3, <4>2 DEF RunningTotal
        <5>2. cum[i.txn] \in Nat /\ total[i.account] \in Nat /\ j.amount \in Nat
          BY <1>a, <1>b
        <5>3. cum'[i.txn] = cum[i.txn] /\ total'[i.account] \in {total[i.account], total[i.account] + j.amount}
          BY <1>b, <3>2, <4>2
        <5> QED
          BY <5>1, <5>2, <5>3
      <4> QED
        BY <4>1, <4>2
    <3>4. ASSUME NEW i \in Deliveries, i.txn # j.txn, i.account = j.account, recon'[i.txn] # "NONE"
          PROVE  cum'[i.txn] + j.amount <= cum'[j.txn]
      <4>1. recon[i.txn] # "NONE" /\ cum'[i.txn] = cum[i.txn]
        BY <1>b, <3>2, <3>4
      <4>2. cum[i.txn] <= total[j.account] /\ cum[i.txn] \in Nat /\ total[j.account] \in Nat
        BY <1>a, <1>b, <3>4, <4>1 DEF RunningTotal
      <4> QED
        BY <1>b, <3>2, <4>1, <4>2
    <3>5. ASSUME NEW i \in Deliveries, NEW k \in Deliveries, i.txn # k.txn, i.account = k.account,
                 {i.kind, k.kind} = {"inflow"}, recon'[i.txn] # "NONE", recon'[k.txn] # "NONE"
          PROVE  cum'[i.txn] + k.amount <= cum'[k.txn] \/ cum'[k.txn] + i.amount <= cum'[i.txn]
      <4>1. CASE i.txn = j.txn
        BY <1>b, <3>4, <3>5, <4>1, SameTxn
      <4>2. CASE k.txn = j.txn
        BY <1>b, <3>4, <3>5, <4>2, SameTxn
      <4>3. CASE i.txn # j.txn /\ k.txn # j.txn
        <5>1. /\ recon[i.txn] # "NONE" /\ cum'[i.txn] = cum[i.txn]
              /\ recon[k.txn] # "NONE" /\ cum'[k.txn] = cum[k.txn]
          BY <1>b, <3>2, <3>5, <4>3
        <5>2. cum[i.txn] + k.amount <= cum[k.txn] \/ cum[k.txn] + i.amount <= cum[i.txn]
          BY <1>a, <3>5, <5>1 DEF RunningTotal
        <5> QED
          BY <5>1, <5>2
      <4> QED
        BY <4>1, <4>2, <4>3
    <3> QED
      BY <3>3, <3>5 DEF RunningTotal
  <2>2. CASE FlagForReview(j) \/ Reconcile(j)
    <3>1. j.kind = "inflow" => recon[j.txn] # "NONE"
      BY <1>a, <2>2 DEF FlagForReview, Reconcile, Goto, OwnerInv, Owning, Executing, Taken
    <3>2. Reconcile(j) => j.kind = "inflow"
      BY <1>a DEF Reconcile, Goto, JobInv, JobControl
    <3> QED
      BY <1>a, <1>b, <1>c, <2>2, <3>1, <3>2, DeliveryAssumption DEF FlagForReview, Reconcile
  <2> USE DEF ledgerVars
  <2>3. CASE ReceiveWebhook(j) \/ DispatchEvent(j) \/ CheckDuplicate(j) \/ LookupAccount(j)
    BY <2>3, <1>c DEF ReceiveWebhook, DispatchEvent, CheckDuplicate, LookupAccount
  <2>4. CASE ClaimEvent(j) \/ WriteBegin(j) \/ WriteConflict(j) \/ FailJob(j) \/ CrashWorker(j)
    BY <2>4, <1>c DEF ClaimEvent, WriteBegin, WriteConflict, FailJob, CrashWorker
  <2>5. CASE CreateExecution(j) \/ ReleaseFunds(j) \/ NotifyWebhook(j) \/ ReadStatus(j) \/ ApplyStatus(j)
    BY <2>5, <1>c DEF CreateExecution, ReleaseFunds, NotifyWebhook, ReadStatus, ApplyStatus
  <2>6. CASE RecordExecution(j) \/ EnqueueRetry(j) \/ MarkProcessed(j)
    BY <2>6, <1>c DEF RecordExecution, EnqueueRetry, MarkProcessed
  <2> QED
    BY <1>2, <2>1, <2>2, <2>3, <2>4, <2>5, <2>6 DEF StepOf, JobStep
<1> QED
  BY <1>1, <1>2, StepKinds

-----------------------------------------------------------------------------
\* A transaction is taken for all of its deliveries at once.
LEMMA TakenTogether ==
  ASSUME NEW i \in Deliveries, NEW j \in Deliveries, i.txn = j.txn
  PROVE  Taken(i) <=> Taken(j)
BY SameTxn, DeliveryAssumption DEF Taken

\* A transaction that was taken stays taken, and a job that comes to own one has taken it
\* in that very step: the unique eventId or nombaTransactionRef lets only one job through.
LEMMA Entering ==
  ASSUME Inv, NEW j \in Deliveries, StepOf(j)
  PROVE  /\ \A i \in Deliveries : Taken(i) => Taken(i)'
         /\ pc[j] \notin Owning /\ pc'[j] \in Owning => ~Taken(j) /\ Taken(j)'
<1>a. TypeOK /\ JobInv /\ OwnerInv
  BY DEF Inv
<1>b. \A i \in Deliveries : i.txn \in Txns /\ i.kind \in {"inflow", "custom"}
  BY DeliveryAssumption DEF Txns
<1> USE DEF TypeOK, Goto, Procs, Owning, Executing, ledgerVars
<1>c. ASSUME processed \subseteq processed', \A t \in Txns : recon[t] # "NONE" => recon'[t] # "NONE"
      PROVE  \A i \in Deliveries : Taken(i) => Taken(i)'
  BY <1>b, <1>c DEF Taken
<1>1. CASE ReceiveWebhook(j) \/ DispatchEvent(j) \/ CheckDuplicate(j) \/ LookupAccount(j)
  BY <1>a, <1>c, <1>1 DEF ReceiveWebhook, DispatchEvent, CheckDuplicate, LookupAccount, Gate
<1>2. CASE pc[j] = "claim" /\ ClaimEvent(j)
  <2>1. j.kind = "custom"
    BY <1>a, <1>2 DEF JobInv, JobControl
  <2>2. processed \subseteq processed' /\ recon' = recon
    BY <1>2 DEF ClaimEvent
  <2>3. CASE j.event \in processed
    BY <1>a, <1>2, <1>c, <2>2, <2>3 DEF ClaimEvent
  <2>4. CASE j.event \notin processed
    BY <1>2, <1>c, <2>1, <2>2, <2>4 DEF ClaimEvent, Taken
  <2> QED
    BY <2>3, <2>4
<1>3. CASE WriteBegin(j) \/ WriteConflict(j)
  BY <1>a, <1>c, <1>3 DEF WriteBegin, WriteConflict
<1>4. CASE pc[j] = "insert" /\ WriteInflow(j)
  <2>1. j.kind = "inflow"
    BY <1>a, <1>4 DEF JobInv, JobControl
  <2>2. /\ recon[j.txn] = "NONE" /\ recon'[j.txn] # "NONE" /\ processed' = processed
        /\ \A t \in Txns : recon[t] # "NONE" => recon'[t] # "NONE"
    BY <1>a, <1>b, <1>4 DEF WriteInflow, EntryStatus
  <2> QED
    BY <1>c, <2>1, <2>2 DEF Taken
<1>5. CASE CreateExecution(j) \/ ReadStatus(j) \/ ApplyStatus(j)
  BY <1>a, <1>c, <1>5 DEF CreateExecution, ReadStatus, ApplyStatus
<1>6. CASE ReleaseFunds(j) \/ NotifyWebhook(j)
  <2>1. UNCHANGED <<recon, processed>> /\ pc[j] = "act"
    BY <1>6, Zenon DEF ReleaseFunds, NotifyWebhook
  <2> QED
    BY <1>c, <2>1
<1>7. CASE FlagForReview(j)
  BY <1>a, <1>b, <1>c, <1>7 DEF FlagForReview
<1>8. CASE pc[j] = "record" /\ RecordExecution(j)
  BY <1>c, <1>8 DEF RecordExecution
<1>9. CASE pc[j] = "enqueue" /\ EnqueueRetry(j)
  BY <1>c, <1>9 DEF EnqueueRetry
<1>10. CASE Reconcile(j) \/ MarkProcessed(j)
  BY <1>a, <1>b, <1>c, <1>10 DEF Reconcile, MarkProcessed
<1>11. CASE FailJob(j) \/ CrashWorker(j)
  BY <1>a, <1>c, <1>11 DEF FailJob, CrashWorker
<1> QED
  BY <1>1, <1>2, <1>3, <1>4, <1>5, <1>6, <1>7, <1>8, <1>9, <1>10, <1>11 DEF StepOf, JobStep, execVars

\* At most one job owns a transaction, whatever dies, fails or is delivered again.
LEMMA OwnerInvStep == Inv /\ [Next]_vars => OwnerInv'
<1> SUFFICES ASSUME Inv, [Next]_vars PROVE OwnerInv'
  OBVIOUS
<1>a. OwnerInv /\ TypeOK
  BY DEF Inv
<1>b. ASSUME NEW i \in Deliveries, NEW r \in Rules PROVE <<i.txn, r>> \in Execs
  BY DEF Execs, Txns
<1>1. CASE BackgroundStep
  <2>1. /\ \A i \in Deliveries : pc'[i] = pc[i]
        /\ UNCHANGED <<recon, processed, runs>>
    BY <1>1, BackgroundFrame DEF SameJob, ledgerVars
  <2>2. \A x \in Execs : Untouched(x) => Untouched(x)'
    BY <1>1, <2>1, BackgroundFrame DEF Untouched
  <2> QED
    BY <1>a, <1>b, <2>1, <2>2 DEF OwnerInv, Taken
<1>2. ASSUME NEW j \in Deliveries, StepOf(j) PROVE OwnerInv'
  <2>1. ASSUME NEW i \in Deliveries, i.txn = j.txn, i # j, pc'[i] \in Owning, pc'[j] \in Owning
        PROVE  FALSE
    <3>1. pc[i] \in Owning /\ Taken(j)
      BY <1>2, <1>a, <2>1, JobFrame, TakenTogether DEF SameJob, OwnerInv
    <3> QED
      BY <1>2, <1>a, <2>1, <3>1, Entering DEF OwnerInv
  <2>2. ASSUME NEW i \in Deliveries, NEW k \in Deliveries, i.txn = k.txn,
               pc'[i] \in Owning, pc'[k] \in Owning
        PROVE  i = k
    BY <1>2, <1>a, <2>1, <2>2, JobFrame DEF SameJob, OwnerInv
  <2>3. ASSUME NEW i \in Deliveries, pc'[i] \in Owning PROVE Taken(i)'
    <3>1. CASE i = j
      BY <1>2, <1>a, <2>3, <3>1, Entering DEF OwnerInv
    <3>2. CASE i # j
      BY <1>2, <1>a, <2>3, <3>2, Entering, JobFrame DEF OwnerInv, SameJob
    <3> QED
      BY <3>1, <3>2
  <2>4. ASSUME NEW i \in Deliveries, ~Taken(i)', NEW r \in Rules PROVE Untouched(<<i.txn, r>>)'
    <3>1. ~Taken(i) /\ Untouched(<<i.txn, r>>)
      BY <1>2, <1>a, <2>4, Entering DEF OwnerInv
    <3>2. pc[j] \in Executing => i.txn # j.txn
      BY <1>a, <3>1, TakenTogether DEF OwnerInv, Owning
    <3>3. SameExec(<<i.txn, r>>)
      BY <1>2, <1>b, <3>2, JobFrame DEF Exec
    <3> QED
      BY <3>1, <3>3 DEF Untouched, SameExec
  <2> QED
    BY <2>2, <2>3, <2>4 DEF OwnerInv
<1> QED
  BY <1>1, <1>2, StepKinds

-----------------------------------------------------------------------------
\* A job at a rule: the rule, its execution, and the executions of the rules after it.
LEMMA AtRule ==
  ASSUME Inv, NEW j \in Deliveries, pc[j] \in Executing
  PROVE  /\ Rule(j) \in Rules /\ Exec(j) = <<j.txn, Rule(j)>> /\ Exec(j) \in Execs
         /\ Exec(j) \notin Later(j)
         /\ \A x \in Later(j) : x \in Execs /\ \E r \in Rules : x = <<j.txn, r>>
<1>1. todo[j] \in Seq(Rules) /\ todo[j] # <<>> /\ GoodRules(j, todo[j])
  BY DEF Inv, TypeOK, JobInv, JobControl
<1>2. /\ Len(todo[j]) \in Nat /\ Len(todo[j]) >= 1
      /\ Rule(j) \in Rules /\ Rule(j) = todo[j][1]
  BY <1>1, TailOfRules DEF Rule
<1>3. \A m \in 2..Len(todo[j]) : todo[j][m] \in Rules /\ todo[j][m] # todo[j][1]
  BY <1>1, <1>2 DEF GoodRules
<1>4. \A r \in Rules : <<j.txn, r>> \in Execs
  BY DEF Execs, Txns
<1> QED
  BY <1>2, <1>3, <1>4 DEF Exec, Later

\* The next rule is one of the later ones, and the rules after it are, too.
LEMMA NextRule ==
  ASSUME Inv, NEW j \in Deliveries, pc[j] \in Executing, todo' = [todo EXCEPT ![j] = Tail(@)],
         Tail(todo[j]) # <<>>
  PROVE  Exec(j)' \in Later(j) /\ Later(j)' \subseteq Later(j)
<1>1. todo \in [Deliveries -> Seq(Rules)] /\ todo[j] \in Seq(Rules) /\ todo[j] # <<>>
  BY DEF Inv, TypeOK, JobInv, JobControl
<1>2. todo'[j] = Tail(todo[j])
  BY <1>1
<1>3. /\ Len(todo[j]) \in Nat /\ Len(Tail(todo[j])) = Len(todo[j]) - 1
      /\ Tail(todo[j]) \in Seq(Rules)
      /\ \A m \in 1..Len(Tail(todo[j])) : Tail(todo[j])[m] = todo[j][m + 1]
  BY <1>1, TailOfRules
<1>4. Len(Tail(todo[j])) >= 1 /\ Head(Tail(todo[j])) = Tail(todo[j])[1]
  BY <1>3, TailOfRules
<1>5. Exec(j)' = <<j.txn, todo[j][2]>> /\ 2 \in 2..Len(todo[j])
  <2>1. Tail(todo[j])[1] = todo[j][1 + 1] /\ 1 + 1 = 2 /\ Len(todo[j]) >= 2
    BY <1>3, <1>4
  <2>2. Exec(j)' = <<j.txn, Head(Tail(todo[j]))>>
    BY <1>2 DEF Exec, Rule
  <2> QED
    BY <1>3, <1>4, <2>1, <2>2
<1>6. ASSUME NEW m \in 2..Len(Tail(todo[j]))
      PROVE  m + 1 \in 2..Len(todo[j]) /\ Tail(todo[j])[m] = todo[j][m + 1]
  BY <1>3
<1> QED
  BY <1>2, <1>5, <1>6 DEF Later

\* The owner of another transaction is not disturbed by a step on delivery j.
LEMMA OthersUndisturbed ==
  ASSUME Inv, NEW j \in Deliveries, StepOf(j), NEW i \in Deliveries, i # j, pc[i] \in Owning
  PROVE  \A r \in Rules : SameExec(<<i.txn, r>>)
<1>1. pc[j] \in Executing => i.txn # j.txn
  BY DEF Inv, OwnerInv, Owning
<1>2. \A r \in Rules : <<i.txn, r>> \in Execs /\ (pc[j] \in Executing => <<i.txn, r>> # Exec(j))
  BY <1>1 DEF Execs, Txns, Exec
<1> QED
  BY <1>2, JobFrame

\* A rule is begun once: its execution does not exist when the owner comes to it, and has
\* no retry job until the owner leaves it.
LEMMA ExecInvStep == Inv /\ [Next]_vars => ExecInv'
<1> SUFFICES ASSUME Inv, [Next]_vars PROVE ExecInv'
  OBVIOUS
<1>a. TypeOK /\ JobInv /\ OwnerInv /\ ExecInv
  BY DEF Inv
<1>b. ASSUME NEW i \in Deliveries, pc'[i] \notin Executing PROVE OwnExecs(i)'
  BY <1>b DEF OwnExecs, Executing, Acting
<1>c. ASSUME NEW i \in Deliveries, SameJob(i) PROVE Exec(i)' = Exec(i) /\ Later(i)' = Later(i)
  BY <1>c DEF SameJob, Exec, Rule, Later
<1>1. CASE BackgroundStep
  <2>1. /\ \A i \in Deliveries : SameJob(i)
        /\ runs' = runs
    BY <1>1, BackgroundFrame
  <2>2. \A x \in Execs : Untouched(x) => Untouched(x)'
    BY <1>1, <2>1, BackgroundFrame DEF Untouched
  <2>3. ASSUME NEW i \in Deliveries, pc[i] \in Executing PROVE OwnExecs(i)'
    <3>1. OwnExecs(i) /\ Exec(i) \in Execs /\ Later(i) \subseteq Execs
      BY <1>a, <2>3, AtRule DEF ExecInv
    <3>2. /\ rpc'[Exec(i)] = "none" /\ tries'[Exec(i)] = tries[Exec(i)]
          /\ exec[Exec(i)] \in {"PENDING", "ARCHIVED"} => exec'[Exec(i)] \in {"PENDING", "ARCHIVED"}
          /\ exec[Exec(i)] \notin {"NONE", "PENDING"} => exec'[Exec(i)] \notin {"NONE", "PENDING"}
      BY <1>1, <2>3, <3>1, BackgroundFrame DEF OwnExecs
    <3>3. \A x \in Later(i) : Untouched(x)'
      BY <2>2, <2>3, <3>1 DEF OwnExecs
    <3>4. pc[i] = "rule" => Untouched(Exec(i))'
      BY <1>c, <2>1, <2>2, <3>1 DEF OwnExecs, Untouched
    <3> QED
      BY <1>c, <2>1, <3>1, <3>2, <3>3, <3>4 DEF OwnExecs, SameJob, Acting
  <2>4. \A i \in Deliveries : OwnExecs(i)'
    BY <1>b, <2>1, <2>3 DEF SameJob
  <2> QED
    BY <1>a, <2>1, <2>4 DEF ExecInv, RulesRunOnce
<1>2. ASSUME NEW j \in Deliveries, StepOf(j) PROVE ExecInv'
  <2>1. ASSUME NEW i \in Deliveries, i # j PROVE OwnExecs(i)'
    <3>1. SameJob(i)
      BY <1>2, <2>1, JobFrame
    <3>2. CASE pc[i] \in Executing
      <4>1. SameExec(Exec(i)) /\ \A x \in Later(i) : SameExec(x)
        BY <1>2, <2>1, <3>2, AtRule, OthersUndisturbed DEF Owning
      <4>2. OwnExecs(i)
        BY <1>a DEF ExecInv
      <4> QED
        BY <1>c, <3>1, <4>1, <4>2 DEF OwnExecs, Untouched, SameExec, SameJob
    <3>3. CASE pc[i] \notin Executing
      BY <1>b, <3>1, <3>3 DEF SameJob
    <3> QED
      BY <3>2, <3>3
  <2>2. SUFFICES RulesRunOnce' /\ OwnExecs(j)'
    BY <2>1 DEF ExecInv
  <2>3. pc[j] \in Executing => \A x \in Later(j) : Untouched(x)'
    BY <1>2, <1>a, AtRule, JobFrame DEF ExecInv, OwnExecs, Untouched, SameExec
  <2>4. runs' = runs => RulesRunOnce'
    BY <1>a DEF ExecInv, RulesRunOnce
  <2>5. OwnExecs(j)
    BY <1>a DEF ExecInv
  <2>6. ASSUME NEW c \in Nat, NEW from, NEW past \in {"done", "unmatched"},
               StartRules(j, c, from, past), pc[j] \notin Owning, UNCHANGED <<execVars, rpc>>
        PROVE  OwnExecs(j)'
    <3>1. CASE pc'[j] \notin Executing
      BY <1>b, <3>1
    <3>2. CASE pc'[j] \in Executing
      <4>1. \A r \in Rules : Untouched(<<j.txn, r>>)
        BY <1>2, <1>a, <2>6, <3>2, Entering DEF OwnerInv, Owning
      <4>2. PICK hits \in Evaluations(j, c) : todo'[j] = hits /\ pc'[j] \in {past, "rule"}
                                               /\ (hits = <<>> => pc'[j] = past)
        BY <1>a, <2>6 DEF StartRules, Goto, TypeOK, Procs
      <4>3. hits \in Seq(Rules) /\ hits # <<>>
        BY <3>2, <4>2, EvaluationsAreRules DEF Executing
      <4>4. /\ Exec(j)' = <<j.txn, Head(hits)>> /\ Head(hits) \in Rules
            /\ \A m \in 2..Len(hits) : hits[m] \in Rules
        BY <4>2, <4>3, TailOfRules DEF Exec, Rule
      <4>5. Untouched(Exec(j))' /\ \A x \in Later(j)' : Untouched(x)'
        BY <2>6, <4>1, <4>2, <4>4 DEF Later, Untouched, execVars
      <4>6. pc'[j] = "rule"
        BY <3>2, <4>2 DEF Executing
      <4> QED
        BY <4>5, <4>6 DEF OwnExecs, Untouched, Acting
    <3> QED
      BY <3>1, <3>2
  <2>7. ASSUME pc[j] \in Executing, todo' = [todo EXCEPT ![j] = Tail(@)], pc'[j] = AfterRule(j)
        PROVE  OwnExecs(j)'
    <3>1. CASE Tail(todo[j]) = <<>>
      BY <1>b, <2>7, <3>1 DEF AfterRule, Executing
    <3>2. CASE Tail(todo[j]) # <<>>
      <4>1. Exec(j)' \in Later(j) /\ Later(j)' \subseteq Later(j)
        BY <2>7, <3>2, NextRule
      <4>2. Untouched(Exec(j))' /\ \A x \in Later(j)' : Untouched(x)'
        BY <2>3, <2>7, <4>1 DEF Untouched
      <4>3. pc'[j] = "rule"
        BY <2>7, <3>2 DEF AfterRule
      <4> QED
        BY <4>2, <4>3 DEF OwnExecs, Untouched, Acting
    <3> QED
      BY <3>1, <3>2
  <2>8. ASSUME pc[j] \in Executing, todo' = todo PROVE Exec(j)' = Exec(j) /\ Later(j)' = Later(j)
    BY <2>8 DEF Exec, Rule, Later
  <2> USE DEF Goto, TypeOK, Procs, execVars
  <2>11. CASE ReceiveWebhook(j) \/ DispatchEvent(j) \/ CheckDuplicate(j) \/ LookupAccount(j)
    <3>1. pc'[j] \notin Executing /\ runs' = runs
      BY <1>a, <2>11
      DEF ReceiveWebhook, DispatchEvent, CheckDuplicate, LookupAccount, Gate, Executing
    <3> QED
      BY <1>b, <2>4, <3>1
  <2>12. CASE pc[j] = "claim" /\ ClaimEvent(j)
    <3>1. CASE j.event \in processed
      BY <1>a, <1>b, <2>4, <2>12, <3>1 DEF ClaimEvent, Executing
    <3>2. CASE j.event \notin processed
      <4>1. StartRules(j, 0, "claim", "done") /\ UNCHANGED <<execVars, rpc>> /\ pc[j] \notin Owning
        BY <2>12, <3>2 DEF ClaimEvent, retryVars, Owning, Executing
      <4> QED
        BY <2>4, <2>6, <4>1
    <3> QED
      BY <3>1, <3>2
  <2>13. CASE WriteBegin(j) \/ WriteConflict(j) \/ FailJob(j) \/ CrashWorker(j) \/ Reconcile(j)
              \/ MarkProcessed(j)
    <3>1. pc'[j] \notin Executing /\ runs' = runs
      BY <1>a, <2>13
      DEF WriteBegin, WriteConflict, FailJob, CrashWorker, Reconcile, MarkProcessed, Executing
    <3> QED
      BY <1>b, <2>4, <3>1
  <2>14. CASE pc[j] = "insert" /\ WriteInflow(j)
    <3>1. runs' = runs /\ UNCHANGED <<execVars, rpc>> /\ pc[j] \notin Owning
      BY <2>14 DEF WriteInflow, retryVars, Owning, Executing
    <3>2. CASE seen[j] = "SUSPENDED"
      BY <1>a, <1>b, <2>4, <2>14, <3>1, <3>2 DEF WriteInflow, Executing
    <3>3. CASE seen[j] # "SUSPENDED"
      <4>1. prior[j] + j.amount \in Nat
        BY <1>a, DeliveryAssumption
      <4>2. StartRules(j, prior[j] + j.amount, "insert", "unmatched")
        BY <2>14, <3>3 DEF WriteInflow
      <4> QED
        BY <2>4, <2>6, <3>1, <4>1, <4>2
    <3> QED
      BY <3>2, <3>3
  <2>15. CASE CreateExecution(j)
    <3>1. pc[j] = "rule" /\ pc'[j] = "act" /\ todo' = todo /\ Exec(j) \in Execs
      BY <1>a, <2>15, AtRule DEF CreateExecution, workVars, Executing
    <3>2. Untouched(Exec(j))
      BY <2>5, <3>1 DEF OwnExecs
    <3>3. /\ exec'[Exec(j)] = "PENDING" /\ rpc'[Exec(j)] = "none" /\ tries'[Exec(j)] = 0
          /\ runs'[Exec(j)] = 1 /\ \A x \in Execs : x # Exec(j) => runs'[x] = runs[x]
      BY <1>a, <2>15, <3>1, <3>2 DEF CreateExecution, Untouched, retryVars
    <3>4. RulesRunOnce'
      <4>1. \A x \in Execs : runs'[x] \in {1, runs[x]}
        BY <3>3
      <4>2. RulesRunOnce
        BY <1>a DEF ExecInv
      <4> QED
        BY <4>1, <4>2 DEF RulesRunOnce
    <3> QED
      BY <2>3, <2>8, <3>1, <3>3, <3>4 DEF OwnExecs, Executing, Acting
  <2>16. CASE pc[j] = "act" /\ (ReleaseFunds(j) \/ NotifyWebhook(j))
    <3>1. pc' = [pc EXCEPT ![j] = "record"] /\ UNCHANGED <<todo, runs, exec, rpc>>
      BY <2>16, Zenon DEF ReleaseFunds, NotifyWebhook, retryVars
    <3> QED
      BY <1>a, <2>3, <2>4, <2>5, <2>8, <2>16, <3>1 DEF OwnExecs, Executing, Acting
  <2>17. CASE pc[j] = "act" /\ (ReadStatus(j) \/ FlagForReview(j))
    <3>1. pc'[j] \in {"apply", "record"} /\ UNCHANGED <<todo, runs, exec, rpc, tries>>
      BY <1>a, <2>17 DEF ReadStatus, FlagForReview, retryVars
    <3> QED
      BY <2>3, <2>4, <2>5, <2>8, <2>17, <3>1 DEF OwnExecs, Executing, Acting
  <2>18. CASE ApplyStatus(j)
    <3>1. pc[j] = "apply" /\ pc'[j] = "record" /\ UNCHANGED <<todo, runs, exec, rpc, tries>>
      BY <1>a, <2>18 DEF ApplyStatus, retryVars, workVars
    <3> QED
      BY <2>3, <2>4, <2>5, <2>8, <3>1 DEF OwnExecs, Executing, Acting
  <2>19. CASE pc[j] = "record" /\ RecordExecution(j)
    <3>1. UNCHANGED <<runs, rpc>> /\ Exec(j) \in Execs
      BY <2>19, AtRule DEF RecordExecution, retryVars, Executing
    <3>2. CASE result[j] = "retry" /\ j.kind = "inflow"
      <4>1. pc'[j] = "enqueue" /\ todo' = todo /\ exec'[Exec(j)] = "RETRYING"
        BY <1>a, <2>19, <3>1, <3>2 DEF RecordExecution, StatusOf
      <4> QED
        BY <2>3, <2>4, <2>5, <2>8, <2>19, <3>1, <4>1 DEF OwnExecs, Executing, Acting
    <3>3. CASE ~(result[j] = "retry" /\ j.kind = "inflow")
      <4>1. todo' = [todo EXCEPT ![j] = Tail(@)] /\ pc'[j] = AfterRule(j)
        BY <1>a, <2>19, <3>3 DEF RecordExecution
      <4> QED
        BY <2>4, <2>7, <2>19, <3>1, <4>1 DEF Executing
    <3> QED
      BY <3>2, <3>3
  <2>20. CASE pc[j] = "enqueue" /\ EnqueueRetry(j)
    <3>1. todo' = [todo EXCEPT ![j] = Tail(@)] /\ pc'[j] = AfterRule(j) /\ runs' = runs
      BY <1>a, <2>20 DEF EnqueueRetry
    <3> QED
      BY <2>4, <2>7, <2>20, <3>1 DEF Executing
  <2> QED
    BY <1>2, <2>11, <2>12, <2>13, <2>14, <2>15, <2>16, <2>17, <2>18, <2>19, <2>20 DEF StepOf, JobStep
<1> QED
  BY <1>1, <1>2, StepKinds

-----------------------------------------------------------------------------
\* While a worker is at a rule, it disturbs no other execution of its transaction.
LEMMA OtherRules ==
  ASSUME Inv, NEW j \in Deliveries, StepOf(j), NEW r \in Rules,
         pc[j] \in Executing => r # Rule(j)
  PROVE  SameExec(<<j.txn, r>>)
<1>1. <<j.txn, r>> \in Execs /\ (pc[j] \in Executing => <<j.txn, r>> # Exec(j))
  BY DEF Execs, Txns, Exec
<1> QED
  BY <1>1, JobFrame

\* When the owner comes to reconcile, none of its executions is PENDING, and there is one
\* exactly if it goes to MATCHED.
LEMMA OutcomeInvStep == Inv /\ [Next]_vars => OutcomeInv'
<1> SUFFICES ASSUME Inv, [Next]_vars PROVE OutcomeInv'
  OBVIOUS
<1>a. TypeOK /\ JobInv /\ OwnerInv /\ ExecInv /\ OutcomeInv
  BY DEF Inv
<1>b. ASSUME NEW i \in Deliveries, pc'[i] \notin Owning PROVE OwnOutcome(i)'
  BY <1>b DEF OwnOutcome, Owning
<1>c. \A i \in Deliveries, r \in Rules : <<i.txn, r>> \in Execs
  BY DEF Execs, Txns
<1>1. CASE BackgroundStep
  <2>1. ASSUME NEW i \in Deliveries PROVE OwnOutcome(i)'
    <3>1. SameJob(i) /\ Rule(i)' = Rule(i)
      BY <1>1, BackgroundFrame DEF SameJob, Rule
    <3>2. \A r \in Rules : /\ exec'[<<i.txn, r>>] = "PENDING" => exec[<<i.txn, r>>] = "PENDING"
                           /\ exec'[<<i.txn, r>>] = "NONE" <=> exec[<<i.txn, r>>] = "NONE"
      BY <1>1, <1>c, BackgroundFrame
    <3> QED
      BY <1>a, <3>1, <3>2 DEF OutcomeInv, OwnOutcome, SameJob
  <2> QED
    BY <2>1 DEF OutcomeInv
<1>2. ASSUME NEW j \in Deliveries, StepOf(j) PROVE OutcomeInv'
  <2>1. ASSUME NEW i \in Deliveries, i # j PROVE OwnOutcome(i)'
    <3>1. SameJob(i) /\ Rule(i)' = Rule(i)
      BY <1>2, <2>1, JobFrame DEF SameJob, Rule
    <3>2. CASE pc[i] \in Owning
      <4>1. \A r \in Rules : exec'[<<i.txn, r>>] = exec[<<i.txn, r>>]
        BY <1>2, <2>1, <3>2, OthersUndisturbed DEF SameExec
      <4> QED
        BY <1>a, <3>1, <4>1 DEF OutcomeInv, OwnOutcome, SameJob
    <3>3. CASE pc[i] \notin Owning
      BY <1>b, <3>1, <3>3 DEF SameJob
    <3> QED
      BY <3>2, <3>3
  <2> SUFFICES OwnOutcome(j)'
    BY <2>1 DEF OutcomeInv
  <2>2. OwnOutcome(j) /\ OwnExecs(j)
    BY <1>a DEF OutcomeInv, ExecInv
  <2>3. pc[j] \notin Executing => \A r \in Rules : exec'[<<j.txn, r>>] = exec[<<j.txn, r>>]
    BY <1>2, OtherRules DEF SameExec
  <2>4. pc[j] \in Executing => \A r \in Rules : r # Rule(j) => exec'[<<j.txn, r>>] = exec[<<j.txn, r>>]
    BY <1>2, OtherRules DEF SameExec
  <2>5. CASE pc[j] \notin Owning /\ pc'[j] \in {"rule", "unmatched"}
    <3>1. \A r \in Rules : exec[<<j.txn, r>>] = "NONE"
      BY <1>a, <1>2, <2>5, Entering DEF OwnerInv, Owning, Executing, Untouched
    <3>2. pc[j] \notin Executing
      BY <2>5 DEF Owning
    <3> QED
      BY <2>3, <2>5, <3>1, <3>2 DEF OwnOutcome
  <2>6. ASSUME pc[j] \in Executing, pc'[j] \in {"rule", "matched", "done", "enqueue"},
               exec'[Exec(j)] \notin {"NONE", "PENDING"}
        PROVE  OwnOutcome(j)'
    <3>1. Rule(j) \in Rules /\ Exec(j) = <<j.txn, Rule(j)>>
      BY <2>6, AtRule
    <3>2. \A r \in Rules : exec'[<<j.txn, r>>] # "PENDING"
      BY <2>2, <2>4, <2>6, <3>1 DEF OwnOutcome, Owning
    <3> QED
      BY <2>6, <3>1, <3>2 DEF OwnOutcome
  <2>7. ASSUME pc[j] \in Executing, pc'[j] \in Acting, todo' = todo PROVE OwnOutcome(j)'
    <3>1. Rule(j)' = Rule(j) /\ pc[j] \in Owning
      BY <2>7 DEF Rule, Owning
    <3>2. \A r \in Rules : exec'[<<j.txn, r>>] = "PENDING" => r = Rule(j)
      BY <2>2, <2>4, <2>7, <3>1 DEF OwnOutcome
    <3> QED
      BY <2>7, <3>1, <3>2 DEF OwnOutcome, Acting
  <2> USE DEF Goto, TypeOK, Procs, execVars
  <2>11. CASE ReceiveWebhook(j) \/ DispatchEvent(j) \/ CheckDuplicate(j) \/ LookupAccount(j)
    <3>1. pc'[j] \notin Owning
      BY <1>a, <2>11
      DEF ReceiveWebhook, DispatchEvent, CheckDuplicate, LookupAccount, Gate, Owning, Executing
    <3> QED
      BY <1>b, <3>1
  <2>12. CASE pc[j] = "claim" /\ ClaimEvent(j)
    <3>1. pc[j] \notin Owning /\ pc'[j] \in {"done", "rule"}
      BY <1>a, <2>12 DEF ClaimEvent, StartRules, Owning, Executing
    <3> QED
      BY <1>b, <2>5, <3>1 DEF Owning, Executing
  <2>13. CASE WriteBegin(j) \/ WriteConflict(j) \/ FailJob(j) \/ CrashWorker(j) \/ Reconcile(j)
              \/ MarkProcessed(j)
    <3>1. pc'[j] \notin Owning
      BY <1>a, <2>13
      DEF WriteBegin, WriteConflict, FailJob, CrashWorker, Reconcile, MarkProcessed, Owning, Executing
    <3> QED
      BY <1>b, <3>1
  <2>14. CASE pc[j] = "insert" /\ WriteInflow(j)
    <3>1. pc[j] \notin Owning /\ pc'[j] \in {"done", "rule", "unmatched"}
      BY <1>a, <2>14 DEF WriteInflow, StartRules, Owning, Executing
    <3> QED
      BY <1>b, <2>5, <3>1 DEF Owning, Executing
  <2>15. CASE CreateExecution(j)
    <3>1. pc[j] = "rule" /\ pc'[j] = "act" /\ todo' = todo
      BY <1>a, <2>15 DEF CreateExecution, workVars
    <3>2. pc[j] \in Executing /\ pc'[j] \in Acting
      BY <3>1 DEF Executing, Acting
    <3> QED
      BY <2>7, <3>1, <3>2
  <2>16. CASE pc[j] = "act" /\ (ReleaseFunds(j) \/ NotifyWebhook(j))
    <3>1. pc' = [pc EXCEPT ![j] = "record"] /\ todo' = todo
      BY <2>16, Zenon DEF ReleaseFunds, NotifyWebhook
    <3> QED
      BY <1>a, <2>7, <2>16, <3>1 DEF Executing, Acting
  <2>17. CASE pc[j] = "act" /\ (ReadStatus(j) \/ FlagForReview(j))
    <3>1. pc'[j] \in {"apply", "record"} /\ todo' = todo
      BY <1>a, <2>17 DEF ReadStatus, FlagForReview
    <3> QED
      BY <2>7, <2>17, <3>1 DEF Executing, Acting
  <2>18. CASE ApplyStatus(j)
    <3>1. pc[j] = "apply" /\ pc'[j] = "record" /\ todo' = todo
      BY <1>a, <2>18 DEF ApplyStatus, workVars
    <3>2. pc[j] \in Executing /\ pc'[j] \in Acting
      BY <3>1 DEF Executing, Acting
    <3> QED
      BY <2>7, <3>1, <3>2
  <2>19. CASE pc[j] = "record" /\ RecordExecution(j)
    <3>1. StatusOf(result[j]) \notin {"NONE", "PENDING"}
      BY <1>a, <2>19 DEF JobInv, JobControl, StatusOf, Outcome
    <3>2. pc'[j] \in {"rule", "matched", "done", "enqueue"}
      BY <1>a, <2>19 DEF RecordExecution, AfterRule
    <3>3. exec'[Exec(j)] = StatusOf(result[j])
      BY <1>a, <2>19, AtRule DEF RecordExecution, Executing
    <3> QED
      BY <2>6, <2>19, <3>1, <3>2, <3>3 DEF Executing
  <2>20. CASE pc[j] = "enqueue" /\ EnqueueRetry(j)
    <3>1. pc'[j] \in {"rule", "matched", "done"} /\ exec' = exec
      BY <1>a, <2>20 DEF EnqueueRetry, AfterRule
    <3> QED
      BY <2>2, <2>6, <2>20, <3>1 DEF Executing, OwnExecs
  <2> QED
    BY <1>2, <2>11, <2>12, <2>13, <2>14, <2>15, <2>16, <2>17, <2>18, <2>19, <2>20 DEF StepOf, JobStep
<1> QED
  BY <1>1, <1>2, StepKinds

-----------------------------------------------------------------------------
\* The three ways an entry changes: it is inserted, flagged by a rule of its owner, or
\* reconciled by its owner; and when a ProcessedEvent appears.
LEMMA ReconMoves ==
  ASSUME Inv, NEW j \in Deliveries, StepOf(j)
  PROVE  /\ \/ recon' = recon
            \/ /\ recon[j.txn] = "NONE" /\ pc[j] = "insert" /\ j.kind = "inflow"
               /\ \/ recon'[j.txn] = "PENDING"
                  \/ recon'[j.txn] = "FLAGGED" /\ pc'[j] \notin Owning
            \/ /\ pc[j] \in Executing /\ j.kind = "inflow"
               /\ recon'[j.txn] = "FLAGGED" /\ ~NoRuleFlags
            \/ pc[j] = "matched" /\ pc'[j] = "mark" /\ recon'[j.txn] = "MATCHED"
            \/ pc[j] = "unmatched" /\ pc'[j] = "mark" /\ recon'[j.txn] = "UNMATCHED"
         /\ pc'[j] = "mark" => recon'[j.txn] \in {"MATCHED", "UNMATCHED"}
         /\ \/ processed' = processed
            \/ /\ processed' = processed \cup {j.event}
               /\ j.kind = "custom" \/ (pc[j] = "mark" /\ recon' = recon)
<1>a. TypeOK /\ JobInv /\ j.txn \in Txns
  BY DEF Inv, Txns
<1> USE DEF TypeOK, Goto, Procs, ledgerVars
<1>1. CASE ReceiveWebhook(j) \/ DispatchEvent(j) \/ CheckDuplicate(j) \/ LookupAccount(j)
  BY <1>a, <1>1 DEF ReceiveWebhook, DispatchEvent, CheckDuplicate, LookupAccount, Gate
<1>2. CASE pc[j] = "claim" /\ ClaimEvent(j)
  <2>1. j.kind = "custom" /\ recon' = recon /\ pc'[j] # "mark"
    BY <1>a, <1>2 DEF ClaimEvent, StartRules, JobInv, JobControl
  <2> QED
    BY <1>2, <2>1 DEF ClaimEvent
<1>3. CASE WriteBegin(j) \/ WriteConflict(j) \/ FailJob(j) \/ CrashWorker(j)
  BY <1>a, <1>3 DEF WriteBegin, WriteConflict, FailJob, CrashWorker
<1>4. CASE pc[j] = "insert" /\ WriteInflow(j)
  <2>1. /\ recon[j.txn] = "NONE" /\ recon'[j.txn] = EntryStatus(j) /\ j.kind = "inflow"
        /\ processed' = processed
    BY <1>a, <1>4 DEF WriteInflow, JobInv, JobControl
  <2>2. CASE seen[j] = "SUSPENDED"
    BY <1>a, <1>4, <2>1, <2>2 DEF WriteInflow, EntryStatus, Owning, Executing
  <2>3. CASE seen[j] # "SUSPENDED"
    BY <1>a, <1>4, <2>1, <2>3 DEF WriteInflow, StartRules, EntryStatus
  <2> QED
    BY <2>2, <2>3
<1>5. CASE CreateExecution(j) \/ ReadStatus(j) \/ ApplyStatus(j)
  BY <1>a, <1>5 DEF CreateExecution, ReadStatus, ApplyStatus
<1>6. CASE ReleaseFunds(j) \/ NotifyWebhook(j)
  <2>1. UNCHANGED <<recon, processed>> /\ pc' = [pc EXCEPT ![j] = "record"]
    BY <1>6, Zenon DEF ReleaseFunds, NotifyWebhook
  <2> QED
    BY <1>a, <2>1
<1>7. CASE FlagForReview(j)
  <2>1. pc[j] \in Executing /\ pc'[j] = "record" /\ processed' = processed
    BY <1>a, <1>7 DEF FlagForReview, Executing
  <2>2. CASE j.kind = "custom"
    BY <1>7, <2>1, <2>2 DEF FlagForReview
  <2>3. CASE j.kind # "custom"
    <3>1. j.kind = "inflow" /\ Rule(j) \in Rules /\ Rule(j).action = "FLAG_FOR_REVIEW"
      BY <1>7, <2>1, <2>3, AtRule, DeliveryAssumption DEF FlagForReview
    <3>2. todo[j] \in Seq(Rules) /\ todo[j] # <<>> /\ GoodRules(j, todo[j])
      BY <1>a, <2>1 DEF JobInv, JobControl
    <3>3. Rule(j).trigger = "INFLOW_RECEIVED"
      BY <3>1, <3>2, TailOfRules DEF GoodRules, Rule
    <3>4. recon'[j.txn] = "FLAGGED"
      BY <1>a, <1>7, <2>3 DEF FlagForReview
    <3> QED
      BY <2>1, <3>1, <3>3, <3>4 DEF NoRuleFlags
  <2> QED
    BY <2>2, <2>3
<1>8. CASE pc[j] = "record" /\ RecordExecution(j)
  BY <1>a, <1>8 DEF RecordExecution, AfterRule
<1>9. CASE pc[j] = "enqueue" /\ EnqueueRetry(j)
  BY <1>a, <1>9 DEF EnqueueRetry, AfterRule
<1>10. CASE Reconcile(j)
  BY <1>a, <1>10 DEF Reconcile
<1>11. CASE MarkProcessed(j)
  BY <1>a, <1>11 DEF MarkProcessed
<1> QED
  BY <1>1, <1>2, <1>3, <1>4, <1>5, <1>6, <1>7, <1>8, <1>9, <1>10, <1>11 DEF StepOf, JobStep

\* A settled transaction is left alone by the jobs: its entry and its executions.
LEMMA SettledIsFinal ==
  ASSUME Inv, NEW j \in Deliveries, StepOf(j), NEW k \in Deliveries, Settled(k)
  PROVE  recon'[k.txn] = recon[k.txn] /\ \A r \in Rules : SameExec(<<k.txn, r>>)
<1>1. k.txn \in Txns /\ \A r \in Rules : <<k.txn, r>> \in Execs
  BY DEF Txns, Execs
<1>2. CASE k.txn = j.txn
  <2>1. pc[j] \notin Owning /\ recon[j.txn] # "NONE"
    BY <1>2 DEF Inv, ReconInv, Settled
  <2>2. pc[j] \notin Executing /\ pc[j] # "matched" /\ pc[j] # "unmatched"
    BY <2>1 DEF Owning
  <2>3. recon' = recon
    BY <2>1, <2>2, ReconMoves
  <2> QED
    BY <1>1, <2>2, <2>3, JobFrame
<1>3. CASE k.txn # j.txn
  <2>1. \A r \in Rules : <<k.txn, r>> # Exec(j)
    BY <1>3 DEF Exec
  <2> QED
    BY <1>1, <1>3, <2>1, JobFrame
<1> QED
  BY <1>2, <1>3

\* A transaction is settled by its owner, which thereby gives it up.
LEMMA ReconInvStep == Inv /\ [Next]_vars => ReconInv'
<1> SUFFICES ASSUME Inv, [Next]_vars PROVE ReconInv'
  OBVIOUS
<1>a. TypeOK /\ OwnerInv /\ ReconInv
  BY DEF Inv
<1>b. \A i \in Deliveries : i.txn \in Txns
  BY DEF Txns
<1>1. CASE BackgroundStep
  <2>1. recon' = recon /\ \A i \in Deliveries : pc'[i] = pc[i]
    BY <1>1, BackgroundFrame DEF SameJob, ledgerVars
  <2> QED
    BY <1>a, <2>1 DEF ReconInv, Settled, NoRuleFlags
<1>2. ASSUME NEW j \in Deliveries, StepOf(j) PROVE ReconInv'
  <2>1. ASSUME NEW i \in Deliveries, pc'[i] = "mark" PROVE recon'[i.txn] \in {"MATCHED", "UNMATCHED"}
    <3>1. CASE i = j
      BY <1>2, <2>1, <3>1, ReconMoves
    <3>2. CASE i # j
      <4>1. pc[i] = "mark"
        BY <1>2, <2>1, <3>2, JobFrame DEF SameJob
      <4>2. recon[i.txn] \in {"MATCHED", "UNMATCHED"} /\ i.kind = "inflow"
        BY <1>a, <4>1 DEF ReconInv, Inv, JobInv, JobControl
      <4>3. Settled(i)
        BY <4>2 DEF Settled
      <4> QED
        BY <1>2, <4>2, <4>3, SettledIsFinal
    <3> QED
      BY <3>1, <3>2
  <2>2. ASSUME NEW i \in Deliveries, NEW k \in Deliveries, i.txn = k.txn, Settled(k)'
        PROVE  pc'[i] \notin Owning
    <3>0. k.kind = "inflow" /\ i.kind = "inflow"
      BY <2>2, SameTxn DEF Settled
    <3>1. CASE Settled(k)
      <4>1. pc[i] \notin Owning /\ recon[i.txn] # "NONE"
        BY <1>a, <2>2, <3>1 DEF ReconInv, Settled
      <4>2. Taken(i)
        BY <3>0, <4>1 DEF Taken
      <4> QED
        BY <1>2, <4>1, <4>2, Entering, JobFrame DEF SameJob
    <3>2. CASE ~Settled(k)
      <4>1. recon'[k.txn] # recon[k.txn] /\ k.txn = j.txn /\ recon'[j.txn] # recon[j.txn]
        BY <1>2, <1>b, <2>2, <3>2, JobFrame DEF Settled, NoRuleFlags
      <4>2. /\ \/ recon'[j.txn] \in {"MATCHED", "UNMATCHED"}
               \/ recon'[j.txn] = "FLAGGED" /\ NoRuleFlags
            /\ i.txn = j.txn /\ j.kind = "inflow"
        BY <2>2, <4>1, SameTxn DEF Settled, NoRuleFlags
      <4>3. CASE recon[j.txn] = "NONE" /\ recon'[j.txn] = "FLAGGED" /\ pc'[j] \notin Owning
        <5>1. ~Taken(i)
          BY <3>0, <4>2, <4>3 DEF Taken
        <5>2. pc[i] \notin Owning
          BY <1>a, <5>1 DEF OwnerInv
        <5> QED
          BY <1>2, <4>3, <5>2, JobFrame DEF SameJob
      <4>4. CASE pc[j] \in {"matched", "unmatched"} /\ pc'[j] = "mark"
        <5>1. pc[j] \in Owning /\ pc'[j] \notin Owning
          BY <4>4 DEF Owning, Executing
        <5>2. i # j => pc[i] \notin Owning
          BY <1>a, <4>2, <5>1 DEF OwnerInv
        <5> QED
          BY <1>2, <5>1, <5>2, JobFrame DEF SameJob
      <4> QED
        BY <1>2, <4>1, <4>2, <4>3, <4>4, ReconMoves
    <3> QED
      BY <3>1, <3>2
  <2> QED
    BY <2>1, <2>2 DEF ReconInv
<1> QED
  BY <1>1, <1>2, StepKinds

\* What is reconciled, flagged or processed stays true of the executions.
LEMMA ReconciledStep == Inv /\ [Next]_vars => RunsMatch' /\ SuspendedInflowsHeld'
<1> SUFFICES ASSUME Inv, [Next]_vars PROVE RunsMatch' /\ SuspendedInflowsHeld'
  OBVIOUS
<1>a. /\ TypeOK /\ JobInv /\ OwnerInv /\ OutcomeInv /\ ReconInv
      /\ RunsMatch /\ SuspendedInflowsHeld
  BY DEF Inv
<1>b. \A i \in Deliveries : i.txn \in Txns /\ \A r \in Rules : <<i.txn, r>> \in Execs
  BY DEF Txns, Execs
<1>1. CASE BackgroundStep
  <2>1. /\ UNCHANGED <<recon, processed>>
        /\ \A x \in Execs : /\ exec'[x] = "PENDING" => exec[x] = "PENDING"
                            /\ exec'[x] = "NONE" <=> exec[x] = "NONE"
    BY <1>1, BackgroundFrame DEF ledgerVars
  <2>2. RunsMatch'
    BY <1>a, <1>b, <2>1 DEF RunsMatch
  <2>3. SuspendedInflowsHeld'
    BY <1>a, <1>b, <2>1 DEF SuspendedInflowsHeld
  <2> QED
    BY <2>2, <2>3
<1>2. ASSUME NEW j \in Deliveries, StepOf(j) PROVE RunsMatch' /\ SuspendedInflowsHeld'
  <2>1. ASSUME NEW k \in Deliveries, k.kind = "inflow", recon'[k.txn] # recon[k.txn]
        PROVE  k.txn = j.txn /\ j.kind = "inflow" /\ ~Settled(k)
    <3>1. k.txn = j.txn /\ ~Settled(k)
      BY <1>2, <1>b, <2>1, JobFrame, SettledIsFinal
    <3> QED
      BY <2>1, <3>1, SameTxn
  <2>2. ASSUME NEW k \in Deliveries, k.kind = "inflow", recon'[k.txn] \in {"MATCHED", "UNMATCHED"}
        PROVE  /\ \A r \in Rules : exec'[<<k.txn, r>>] # "PENDING"
               /\ recon'[k.txn] = "MATCHED" <=> \E r \in Rules : exec'[<<k.txn, r>>] # "NONE"
    <3>1. CASE recon'[k.txn] = recon[k.txn]
      <4>0. Settled(k)
        BY <2>2, <3>1 DEF Settled
      <4>1. \A r \in Rules : exec'[<<k.txn, r>>] = exec[<<k.txn, r>>]
        BY <1>2, <4>0, SettledIsFinal DEF SameExec
      <4>2. /\ \A r \in Rules : exec[<<k.txn, r>>] # "PENDING"
            /\ recon[k.txn] = "MATCHED" <=> \E r \in Rules : exec[<<k.txn, r>>] # "NONE"
        BY <1>a, <2>2, <3>1 DEF RunsMatch
      <4> QED
        BY <3>1, <4>1, <4>2
    <3>2. CASE recon'[k.txn] # recon[k.txn]
      <4>1. k.txn = j.txn /\ recon'[j.txn] # recon[j.txn]
        BY <2>1, <2>2, <3>2
      <4>2. \/ pc[j] = "matched" /\ recon'[j.txn] = "MATCHED"
            \/ pc[j] = "unmatched" /\ recon'[j.txn] = "UNMATCHED"
        BY <1>2, <2>2, <4>1, ReconMoves
      <4>3. \A r \in Rules : exec'[<<j.txn, r>>] = exec[<<j.txn, r>>]
        BY <1>2, <4>2, OtherRules DEF SameExec, Executing
      <4>4. pc[j] \in Owning /\ pc[j] \notin Acting /\ OwnOutcome(j)
        BY <1>a, <4>2 DEF Owning, Acting, OutcomeInv
      <4> QED
        BY <4>1, <4>2, <4>3, <4>4 DEF OwnOutcome
    <3> QED
      BY <3>1, <3>2
  <2>3. ASSUME NEW k \in Deliveries, k.kind = "inflow", k.event \in processed'
        PROVE  recon'[k.txn] \in {"MATCHED", "UNMATCHED"}
    <3>1. CASE k.event \in processed
      <4>1. recon[k.txn] \in {"MATCHED", "UNMATCHED"}
        BY <1>a, <2>3, <3>1 DEF RunsMatch
      <4>2. Settled(k)
        BY <2>3, <4>1 DEF Settled
      <4> QED
        BY <1>2, <4>1, <4>2, SettledIsFinal
    <3>2. CASE k.event \notin processed
      <4>1. k.event = j.event /\ (j.kind = "custom" \/ (pc[j] = "mark" /\ recon' = recon))
        BY <1>2, <2>3, <3>2, ReconMoves
      <4>2. k.txn = j.txn /\ j.kind = "inflow"
        BY <2>3, <4>1, DeliveryAssumption, SameTxn
      <4> QED
        BY <1>a, <4>1, <4>2 DEF ReconInv
    <3> QED
      BY <3>1, <3>2
  <2>4. RunsMatch'
    BY <2>2, <2>3 DEF RunsMatch
  <2>5. ASSUME NEW k \in Deliveries, k.kind = "inflow", recon'[k.txn] = "FLAGGED", NoRuleFlags
        PROVE  \A r \in Rules : exec'[<<k.txn, r>>] = "NONE"
    <3>1. CASE recon[k.txn] = "FLAGGED"
      <4>0. Settled(k)
        BY <2>5, <3>1 DEF Settled
      <4>1. \A r \in Rules : exec'[<<k.txn, r>>] = exec[<<k.txn, r>>]
        BY <1>2, <4>0, SettledIsFinal DEF SameExec
      <4> QED
        BY <1>a, <2>5, <3>1, <4>1 DEF SuspendedInflowsHeld, NoRuleFlags
    <3>2. CASE recon[k.txn] # "FLAGGED"
      <4>1. k.txn = j.txn /\ recon'[j.txn] = "FLAGGED" /\ recon[j.txn] # "FLAGGED"
        BY <2>1, <2>5, <3>2
      <4>2. recon[j.txn] = "NONE" /\ pc[j] = "insert" /\ j.kind = "inflow"
        BY <1>2, <2>5, <4>1, ReconMoves
      <4>3. \A r \in Rules : exec[<<j.txn, r>>] = "NONE"
        BY <1>a, <4>2 DEF OwnerInv, Taken, Untouched
      <4>4. \A r \in Rules : exec'[<<j.txn, r>>] = exec[<<j.txn, r>>]
        BY <1>2, <4>2, OtherRules DEF SameExec, Executing
      <4> QED
        BY <4>1, <4>3, <4>4
    <3> QED
      BY <3>1, <3>2
  <2>6. SuspendedInflowsHeld'
    BY <2>5 DEF SuspendedInflowsHeld, NoRuleFlags
  <2> QED
    BY <2>4, <2>6
<1> QED
  BY <1>1, <1>2, StepKinds

-----------------------------------------------------------------------------
\* What the owner of an execution does to its retry job: nothing before it queues one, for
\* an execution it has recorded, and by then it has called at most once.
LEMMA OwnRetry ==
  ASSUME Inv, NEW j \in Deliveries, StepOf(j), pc[j] \in Executing
  PROVE  /\ tries'[Exec(j)] <= 1
         /\ \/ rpc'[Exec(j)] = "none"
            \/ rpc'[Exec(j)] = "queued" /\ exec'[Exec(j)] \notin {"NONE", "PENDING"}
<1> DEFINE x == Exec(j)
<1>a. TypeOK /\ JobInv /\ OwnExecs(j) /\ x \in Execs
  BY AtRule DEF Inv, ExecInv
<1>b. rpc[x] = "none" /\ tries[x] \in Nat /\ tries[x] <= 1
  BY <1>a DEF Inv, OwnExecs, RetryInv, RetryJob, TypeOK
<1> HIDE DEF x
<1>c. tries' = tries => tries'[x] <= 1
  BY <1>b
<1> USE DEF TypeOK, Goto, Procs, execVars, retryVars, Executing
<1>1. CASE ReceiveWebhook(j) \/ DispatchEvent(j) \/ CheckDuplicate(j) \/ LookupAccount(j)
  BY <1>1 DEF ReceiveWebhook, DispatchEvent, CheckDuplicate, LookupAccount
<1>2. CASE pc[j] = "claim" /\ ClaimEvent(j)
  BY <1>2
<1>3. CASE WriteBegin(j) \/ WriteConflict(j) \/ (pc[j] = "insert" /\ WriteInflow(j))
           \/ Reconcile(j) \/ MarkProcessed(j)
  BY <1>3 DEF WriteBegin, WriteConflict, Reconcile, MarkProcessed
<1>4. CASE CreateExecution(j) \/ ReadStatus(j) \/ FlagForReview(j) \/ ApplyStatus(j)
  <2>1. rpc' = rpc /\ tries' = tries
    BY <1>4 DEF CreateExecution, ReadStatus, FlagForReview, ApplyStatus
  <2> QED
    BY <1>b, <1>c, <2>1 DEF x
<1>5. CASE pc[j] = "act" /\ (ReleaseFunds(j) \/ NotifyWebhook(j))
  <2>1. rpc' = rpc
    BY <1>5, Zenon DEF ReleaseFunds, NotifyWebhook
  <2>2. tries' = tries \/ tries' = [tries EXCEPT ![x] = @ + 1]
    BY <1>5, FirstAttemptOutcome DEF x
  <2>3. tries[x] = 0
    BY <1>a, <1>5 DEF OwnExecs, x
  <2>4. tries'[x] <= 1
    BY <1>a, <2>2, <2>3
  <2> QED
    BY <1>b, <2>1, <2>4 DEF x
<1>6. CASE FailJob(j) \/ CrashWorker(j) \/ (pc[j] = "record" /\ RecordExecution(j))
  <2>1. rpc' = rpc /\ tries' = tries
    BY <1>6 DEF FailJob, CrashWorker, RecordExecution
  <2> QED
    BY <1>b, <1>c, <2>1 DEF x
<1>7. CASE pc[j] = "enqueue" /\ EnqueueRetry(j)
  <2>1. rpc' = [rpc EXCEPT ![x] = "queued"] /\ tries' = tries /\ exec' = exec
    BY <1>7 DEF EnqueueRetry, x
  <2>2. rpc'[x] = "queued" /\ exec'[x] \notin {"NONE", "PENDING"}
    BY <1>a, <1>7, <2>1 DEF OwnExecs, x
  <2> QED
    BY <1>c, <2>1, <2>2 DEF x
<1> QED
  BY <1>1, <1>2, <1>3, <1>4, <1>5, <1>6, <1>7 DEF StepOf, JobStep

\* The effects of downstream calls are never undone.
LEMMA EffectsGrow == Inv /\ [Next]_vars => effects \subseteq effects'
<1> SUFFICES ASSUME Inv, [Next]_vars PROVE effects \subseteq effects'
  OBVIOUS
<1>a. TypeOK
  BY DEF Inv
<1> USE DEF execVars
<1>0. CASE UNCHANGED vars
  BY <1>0 DEF vars
<1>1. ASSUME NEW k \in Closings, CloseResolve(k) \/ CloseStep(k) PROVE effects' = effects
  BY <1>1 DEF CloseResolve, CloseStep, CloseArchive, CloseExpire, CloseAccount
<1>2. ASSUME NEW p \in Patches, PatchRead(p) \/ PatchWrite(p) PROVE effects' = effects
  BY <1>2 DEF PatchRead, PatchWrite
<1>3. ASSUME NEW x \in Execs, RetryStep(x) \/ CrashRetry(x) PROVE effects \subseteq effects'
  <2>1. CASE RetryAct(x)
    BY <2>1, RetryOutcome
  <2> QED
    BY <1>3, <2>1 DEF RetryStep, RetryBegin, RetryRecord, RetryFinish, RetryThrow, CrashRetry
<1>4. ASSUME NEW j \in Deliveries, StepOf(j) PROVE effects \subseteq effects'
  <2>1. CASE ReleaseFunds(j) \/ NotifyWebhook(j)
    BY <2>1, FirstAttemptOutcome
  <2> QED
    BY <1>4, <2>1
    DEF StepOf, JobStep, ReceiveWebhook, DispatchEvent, CheckDuplicate, LookupAccount, ClaimEvent,
        WriteBegin, WriteInflow, WriteConflict, CreateExecution, ReadStatus, FlagForReview,
        ApplyStatus, RecordExecution, EnqueueRetry, Reconcile, MarkProcessed, FailJob, CrashWorker
<1> QED
  BY <1>0, <1>1, <1>2, <1>3, <1>4, StepKinds DEF BackgroundStep

\* A retry job keeps to its attempts, and acts only on an execution that is not resolved
\* by an earlier attempt.
LEMMA RetryInvStep == Inv /\ [Next]_vars => RetryInv'
<1> SUFFICES ASSUME Inv, [Next]_vars PROVE RetryInv'
  OBVIOUS
<1>a. TypeOK /\ RetryInv
  BY DEF Inv
<1>b. effects \subseteq effects'
  BY EffectsGrow
<1>c. ASSUME NEW x \in Execs
      PROVE  /\ tries[x] \in Nat /\ made[x] \in 0..MaxAttempts /\ rstalls[x] \in 0..MaxStalls
             /\ MaxAttempts \in Nat \ {0} /\ MaxStalls \in Nat
             /\ rpc[x] \in RetryPc /\ rresult[x] \in Outcome
             /\ RetryJob(x)
  BY <1>a, ProcessAssumption DEF TypeOK, RetryInv
<1>d. ASSUME NEW x \in Execs, UNCHANGED <<rpc[x], tries[x], made[x], rstalls[x], rresult[x]>>,
             exec'[x] = exec[x] \/ exec'[x] = "ARCHIVED"
      PROVE  RetryJob(x)'
  BY <1>b, <1>c, <1>d DEF RetryJob
<1>0. CASE UNCHANGED vars
  <2>1. ASSUME NEW x \in Execs PROVE RetryJob(x)'
    BY <1>0, <1>d DEF vars, execVars, retryVars
  <2> QED
    BY <2>1 DEF RetryInv
<1>1. ASSUME NEW k \in Closings, CloseResolve(k) \/ CloseStep(k) PROVE RetryInv'
  <2>1. ASSUME NEW x \in Execs PROVE RetryJob(x)'
    <3>1. UNCHANGED <<rpc, tries, made, rstalls, rresult>>
      BY <1>1 DEF CloseResolve, CloseStep, CloseArchive, CloseExpire, CloseAccount, execVars, retryVars
    <3>2. exec'[x] = exec[x] \/ exec'[x] = "ARCHIVED"
      BY <1>1 DEF CloseResolve, CloseStep, CloseArchive, CloseExpire, CloseAccount, execVars
    <3> QED
      BY <1>d, <3>1, <3>2
  <2> QED
    BY <2>1 DEF RetryInv
<1>2. ASSUME NEW p \in Patches, PatchRead(p) \/ PatchWrite(p) PROVE RetryInv'
  <2>1. ASSUME NEW x \in Execs PROVE RetryJob(x)'
    BY <1>2, <1>d DEF PatchRead, PatchWrite, execVars, retryVars
  <2> QED
    BY <2>1 DEF RetryInv
<1>3. ASSUME NEW y \in Execs, RetryStep(y) \/ CrashRetry(y) PROVE RetryInv'
  <2> USE DEF TypeOK, execVars
  <2>1. CASE RetryBegin(y)
    <3>1. ASSUME NEW x \in Execs PROVE RetryJob(x)'
      <4>1. CASE x # y
        BY <1>a, <1>d, <2>1, <4>1 DEF RetryBegin
      <4>2. CASE x = y
        <5>1. /\ rpc[y] = "queued" /\ UNCHANGED <<tries, made, rstalls, rresult, exec>>
              /\ rpc'[y] = IF exec[y] \in Resolved THEN "finished" ELSE "active"
          BY <1>a, <2>1 DEF RetryBegin
        <5>2. made[y] < MaxAttempts /\ tries[y] <= 1 + made[y] + rstalls[y]
              /\ exec[y] \notin {"NONE", "PENDING"}
          BY <1>c, <5>1 DEF RetryJob
        <5>3. tries[y] <= 2 + made[y] + rstalls[y]
          BY <1>c, <5>2
        <5>4. CASE exec[y] \in Resolved
          BY <4>2, <5>1, <5>2, <5>3, <5>4 DEF RetryJob, Retrying
        <5>5. CASE exec[y] \notin Resolved
          BY <4>2, <5>1, <5>2, <5>3, <5>5 DEF RetryJob, Retrying, Resolved
        <5> QED
          BY <5>4, <5>5
      <4> QED
        BY <4>1, <4>2
    <3> QED
      BY <3>1 DEF RetryInv
  <2>2. CASE RetryAct(y)
    <3>0. PICK o \in {"ok", "fail", "retry"} :
            /\ rresult' = [rresult EXCEPT ![y] = o]
            /\ tries' = tries \/ tries' = [tries EXCEPT ![y] = @ + 1]
            /\ o = "ok" => y \in effects'
      BY <2>2, RetryOutcome
    <3>1. /\ rpc[y] = "active" /\ rpc' = [rpc EXCEPT ![y] = "acted"]
          /\ UNCHANGED <<exec, made, rstalls>>
      BY <2>2, Zenon DEF RetryAct
    <3>2. ASSUME NEW x \in Execs PROVE RetryJob(x)'
      <4>1. CASE x # y
        BY <1>a, <1>d, <3>0, <3>1, <4>1
      <4>2. CASE x = y
        <5>1. /\ made[y] < MaxAttempts /\ tries[y] <= 1 + made[y] + rstalls[y]
              /\ exec[y] \notin {"NONE", "PENDING", "COMPLETED", "FAILED"}
          BY <1>c, <3>1 DEF RetryJob, Retrying
        <5>2. rpc'[y] = "acted" /\ rresult'[y] = o
          BY <1>a, <3>0, <3>1
        <5>3. tries'[y] <= 2 + made[y] + rstalls[y]
          <6>1. tries'[y] \in {tries[y], tries[y] + 1}
            BY <1>a, <3>0
          <6> QED
            BY <1>c, <5>1, <6>1
        <5> QED
          BY <3>0, <3>1, <4>2, <5>1, <5>2, <5>3 DEF RetryJob, Retrying
      <4> QED
        BY <4>1, <4>2
    <3> QED
      BY <3>2 DEF RetryInv
  <2>3. CASE RetryRecord(y)
    <3>1. ASSUME NEW x \in Execs PROVE RetryJob(x)'
      <4>1. CASE x # y
        BY <1>a, <1>d, <2>3, <4>1 DEF RetryRecord
      <4>2. CASE x = y
        <5>1. /\ rpc[y] = "acted" /\ UNCHANGED <<tries, made, rstalls>>
              /\ rpc'[y] \in {"spent", "throw", "ack"}
          BY <1>a, <2>3 DEF RetryRecord
        <5>2. made[y] < MaxAttempts /\ tries[y] <= 2 + made[y] + rstalls[y] /\ rresult[y] # "none"
          BY <1>c, <5>1 DEF RetryJob
        <5>3. StatusOf(rresult[y]) \notin {"NONE", "PENDING"}
          BY <1>c, <5>2 DEF StatusOf, Outcome
        <5>4. exec'[y] \notin {"NONE", "PENDING"}
          BY <1>a, <2>3, <5>3 DEF RetryRecord
        <5> QED
          BY <4>2, <5>1, <5>2, <5>4 DEF RetryJob, Retrying
      <4> QED
        BY <4>1, <4>2
    <3> QED
      BY <3>1 DEF RetryInv
  <2>4. CASE RetryFinish(y)
    <3>1. ASSUME NEW x \in Execs PROVE RetryJob(x)'
      <4>1. CASE x # y
        BY <1>a, <1>d, <2>4, <4>1 DEF RetryFinish
      <4>2. CASE x = y
        <5>1. /\ rpc[y] \in {"ack", "spent"} /\ UNCHANGED <<tries, made, rstalls, rresult, exec>>
              /\ rpc'[y] \in {"exhausted", "finished"}
          BY <1>a, <2>4 DEF RetryFinish
        <5>2. made[y] < MaxAttempts /\ tries[y] <= 2 + made[y] + rstalls[y]
              /\ exec[y] \notin {"NONE", "PENDING"}
          BY <1>c, <5>1 DEF RetryJob
        <5> QED
          BY <4>2, <5>1, <5>2 DEF RetryJob, Retrying
      <4> QED
        BY <4>1, <4>2
    <3> QED
      BY <3>1 DEF RetryInv
  <2>5. CASE RetryThrow(y)
    <3>1. ASSUME NEW x \in Execs PROVE RetryJob(x)'
      <4>1. CASE x # y
        BY <1>a, <1>d, <2>5, <4>1 DEF RetryThrow
      <4>2. CASE x = y
        <5>1. /\ rpc[y] \in {"throw", "queued", "active", "acted"} /\ UNCHANGED <<tries, rstalls, exec>>
              /\ made'[y] = made[y] + 1
              /\ rpc'[y] = IF made[y] + 1 < MaxAttempts THEN "queued" ELSE "dead"
          BY <1>a, <2>5 DEF RetryThrow
        <5>2. made[y] < MaxAttempts /\ exec[y] \notin {"NONE", "PENDING"}
              /\ (tries[y] <= 1 + made[y] + rstalls[y] \/ tries[y] <= 2 + made[y] + rstalls[y])
          BY <1>c, <5>1 DEF RetryJob, Retrying
        <5>3. /\ tries[y] <= 1 + (made[y] + 1) + rstalls[y]
              /\ tries[y] <= 1 + MaxAttempts + MaxStalls
          BY <1>c, <5>2
        <5> QED
          BY <4>2, <5>1, <5>2, <5>3 DEF RetryJob, Retrying
      <4> QED
        BY <4>1, <4>2
    <3> QED
      BY <3>1 DEF RetryInv
  <2>6. CASE CrashRetry(y)
    <3>1. ASSUME NEW x \in Execs PROVE RetryJob(x)'
      <4>1. CASE x # y
        BY <1>a, <1>d, <2>6, <4>1 DEF CrashRetry
      <4>2. CASE x = y
        <5>1. /\ rpc[y] \in Retrying /\ UNCHANGED <<tries, made, exec>>
              /\ rstalls'[y] = IF rstalls[y] < MaxStalls THEN rstalls[y] + 1 ELSE rstalls[y]
              /\ rpc'[y] = IF rstalls[y] < MaxStalls THEN "queued" ELSE "dead"
          BY <1>a, <2>6 DEF CrashRetry
        <5>2. made[y] < MaxAttempts /\ exec[y] \notin {"NONE", "PENDING"}
              /\ (tries[y] <= 1 + made[y] + rstalls[y] \/ tries[y] <= 2 + made[y] + rstalls[y])
          BY <1>c, <5>1 DEF RetryJob, Retrying
        <5>3. /\ tries[y] <= 1 + made[y] + (rstalls[y] + 1)
              /\ tries[y] <= 1 + MaxAttempts + MaxStalls
          BY <1>c, <5>2
        <5> QED
          BY <4>2, <5>1, <5>2, <5>3 DEF RetryJob, Retrying
      <4> QED
        BY <4>1, <4>2
    <3> QED
      BY <3>1 DEF RetryInv
  <2> QED
    BY <1>3, <2>1, <2>2, <2>3, <2>4, <2>5, <2>6 DEF RetryStep
<1>4. ASSUME NEW j \in Deliveries, StepOf(j) PROVE RetryInv'
  <2>1. ASSUME NEW x \in Execs PROVE RetryJob(x)'
    <3>1. UNCHANGED <<rresult, made, rstalls>>
      BY <1>4, JobFrame
    <3>2. CASE x # Exec(j) \/ pc[j] \notin Executing
      <4>1. SameExec(x)
        BY <1>4, <3>2, JobFrame
      <4> QED
        BY <1>d, <3>1, <4>1 DEF SameExec
    <3>3. CASE x = Exec(j) /\ pc[j] \in Executing
      <4>1. rpc[x] = "none" /\ made[x] = 0 /\ rstalls[x] = 0
        BY <1>c, <3>3 DEF Inv, ExecInv, OwnExecs, RetryJob
      <4>2. /\ tries'[x] <= 1
            /\ rpc'[x] = "none" \/ (rpc'[x] = "queued" /\ exec'[x] \notin {"NONE", "PENDING"})
        BY <1>4, <3>3, OwnRetry
      <4> QED
        BY <1>c, <3>1, <4>1, <4>2 DEF RetryJob, Retrying
    <3> QED
      BY <3>2, <3>3
  <2> QED
    BY <2>1 DEF RetryInv
<1> QED
  BY <1>0, <1>1, <1>2, <1>3, <1>4, StepKinds DEF BackgroundStep

-----------------------------------------------------------------------------
\* An execution is COMPLETED by the recording of an "ok", which its action has earned.
LEMMA EffectInvStep == Inv /\ [Next]_vars => EffectInv'
<1> SUFFICES ASSUME Inv, [Next]_vars PROVE EffectInv'
  OBVIOUS
<1>a. TypeOK /\ JobInv /\ RetryInv /\ EffectInv
  BY DEF Inv
<1>b. effects \subseteq effects'
  BY EffectsGrow
<1> DEFINE Earned(x)  == \/ x \in effects
                         \/ /\ x[2].action = "RELEASE_FUNDS"
                            /\ \E j \in Deliveries : j.txn = x[1] /\ CreditAmount(x[2], j.amount) = 0
           Closed(x)  == exec[x] = "COMPLETED" /\ x[2].action \in Effectful => Earned(x)
           Pending(i) == pc[i] = "record" /\ result[i] = "ok" /\ Rule(i).action \in Effectful =>
                           \/ Exec(i) \in effects
                           \/ Rule(i).action = "RELEASE_FUNDS" /\ CreditAmount(Rule(i), i.amount) = 0
<1>c. (\A x \in Execs : Closed(x)) /\ (\A i \in Deliveries : Pending(i))
  BY <1>a DEF EffectInv, CompletedTookEffect
<1>d. ASSUME \A x \in Execs : Closed(x)', \A i \in Deliveries : Pending(i)' PROVE EffectInv'
  BY <1>d DEF EffectInv, CompletedTookEffect
<1>e. \A x \in Execs : Earned(x) => Earned(x)'
  BY <1>b
<1>f. ASSUME NEW x \in Execs, exec'[x] = exec[x] \/ exec'[x] # "COMPLETED" PROVE Closed(x)'
  BY <1>c, <1>e, <1>f
<1>g. ASSUME NEW i \in Deliveries, SameJob(i) PROVE Pending(i)'
  <2>1. Rule(i)' = Rule(i) /\ Exec(i)' = Exec(i)
    BY <1>g DEF SameJob, Rule, Exec
  <2> QED
    BY <1>b, <1>c, <1>g, <2>1 DEF SameJob
<1> HIDE DEF Closed, Pending
<1>0. CASE BackgroundStep
  <2>1. ASSUME NEW i \in Deliveries PROVE Pending(i)'
    BY <1>0, <1>g, BackgroundFrame
  <2>2. ASSUME NEW x \in Execs PROVE Closed(x)'
    <3>0. CASE UNCHANGED vars
      BY <1>f, <3>0 DEF vars, execVars
    <3>1. ASSUME NEW k \in Closings, CloseResolve(k) \/ CloseStep(k) PROVE Closed(x)'
      BY <1>f, <3>1
      DEF CloseResolve, CloseStep, CloseArchive, CloseExpire, CloseAccount, execVars
    <3>2. ASSUME NEW p \in Patches, PatchRead(p) \/ PatchWrite(p) PROVE Closed(x)'
      BY <1>f, <3>2 DEF PatchRead, PatchWrite, execVars
    <3>3. ASSUME NEW y \in Execs, RetryStep(y) \/ CrashRetry(y) PROVE Closed(x)'
      <4>1. CASE RetryBegin(y) \/ RetryFinish(y) \/ RetryThrow(y) \/ CrashRetry(y)
        BY <1>f, <4>1 DEF RetryBegin, RetryFinish, RetryThrow, CrashRetry, execVars
      <4>2. CASE RetryAct(y)
        <5>1. exec' = exec
          BY <4>2, Zenon DEF RetryAct
        <5> QED
          BY <1>f, <5>1
      <4>3. CASE RetryRecord(y)
        <5>1. CASE x # y \/ exec'[x] # "COMPLETED"
          BY <1>a, <1>f, <4>3, <5>1 DEF RetryRecord, TypeOK
        <5>2. CASE x = y /\ exec'[x] = "COMPLETED"
          <6>1. rpc[y] = "acted" /\ rresult[y] \in Outcome \ {"none"}
            BY <1>a, <4>3 DEF RetryRecord, RetryInv, RetryJob, TypeOK
          <6>2. rresult[y] = "ok"
            BY <1>a, <4>3, <5>2, <6>1 DEF RetryRecord, StatusOf, Outcome, TypeOK
          <6>3. y \in effects'
            BY <1>a, <1>b, <6>1, <6>2 DEF RetryInv, RetryJob
          <6> QED
            BY <5>2, <6>3 DEF Closed
        <5> QED
          BY <5>1, <5>2
      <4> QED
        BY <3>3, <4>1, <4>2, <4>3 DEF RetryStep
    <3> QED
      BY <1>0, <3>0, <3>1, <3>2, <3>3 DEF BackgroundStep
  <2> QED
    BY <1>d, <2>1, <2>2
<1>1. ASSUME NEW j \in Deliveries, StepOf(j) PROVE EffectInv'
  <2>1. ASSUME NEW i \in Deliveries, i # j PROVE Pending(i)'
    BY <1>1, <1>g, <2>1, JobFrame
  <2>2. ASSUME NEW x \in Execs, x # Exec(j) \/ pc[j] \notin Executing PROVE Closed(x)'
    BY <1>1, <1>f, <2>2, JobFrame DEF SameExec
  <2>3. ASSUME Pending(j)', \A x \in Execs : x = Exec(j) /\ pc[j] \in Executing => Closed(x)'
        PROVE  EffectInv'
    BY <1>d, <2>1, <2>2, <2>3
  <2>4. ASSUME pc'[j] # "record" PROVE Pending(j)'
    BY <2>4 DEF Pending
  <2>5. ASSUME exec' = exec PROVE \A x \in Execs : Closed(x)'
    BY <1>f, <2>5
  <2>6. ASSUME exec' = exec, pc'[j] # "record" PROVE EffectInv'
    BY <2>3, <2>4, <2>5, <2>6
  <2>7. ASSUME exec' = exec, todo' = todo, Rule(j).action \notin Effectful PROVE EffectInv'
    BY <2>3, <2>5, <2>7 DEF Pending, Rule
  <2> USE DEF Goto, TypeOK, Procs, execVars
  <2>11. CASE ReceiveWebhook(j) \/ DispatchEvent(j) \/ CheckDuplicate(j) \/ LookupAccount(j)
    BY <1>a, <2>6, <2>11 DEF ReceiveWebhook, DispatchEvent, CheckDuplicate, LookupAccount, Gate
  <2>12. CASE pc[j] = "claim" /\ ClaimEvent(j)
    BY <1>a, <2>6, <2>12 DEF ClaimEvent, StartRules
  <2>13. CASE \/ WriteBegin(j) \/ WriteConflict(j) \/ FailJob(j) \/ CrashWorker(j)
              \/ Reconcile(j) \/ MarkProcessed(j)
    BY <1>a, <2>6, <2>13
    DEF WriteBegin, WriteConflict, FailJob, CrashWorker, Reconcile, MarkProcessed
  <2>14. CASE pc[j] = "insert" /\ WriteInflow(j)
    BY <1>a, <2>6, <2>14 DEF WriteInflow, StartRules
  <2>15. CASE CreateExecution(j)
    <3>1. pc'[j] = "act"
      BY <1>a, <2>15 DEF CreateExecution
    <3>2. \A x \in Execs : exec'[x] = exec[x] \/ exec'[x] = "PENDING"
      BY <1>a, <2>15 DEF CreateExecution
    <3>3. \A x \in Execs : Closed(x)'
      BY <1>f, <3>2
    <3> QED
      BY <2>3, <2>4, <3>1, <3>3
  <2>16. CASE pc[j] = "act" /\ (ReleaseFunds(j) \/ NotifyWebhook(j))
    <3>1. UNCHANGED <<todo, exec>>
      BY <2>16, Zenon DEF ReleaseFunds, NotifyWebhook
    <3>2. Rule(j)' = Rule(j) /\ Exec(j)' = Exec(j)
      BY <3>1 DEF Rule, Exec
    <3>3. PICK o \in {"ok", "fail", "retry"} :
            /\ result' = [result EXCEPT ![j] = o]
            /\ o = "ok" => \/ Exec(j) \in effects'
                           \/ /\ Rule(j).action = "RELEASE_FUNDS"
                              /\ CreditAmount(Rule(j), j.amount) = 0
      BY <2>16, FirstAttemptOutcome
    <3>4. result'[j] = o
      BY <1>a, <3>3
    <3>5. Pending(j)'
      BY <3>2, <3>3, <3>4 DEF Pending
    <3> QED
      BY <2>3, <2>5, <3>1, <3>5
  <2>17. CASE pc[j] = "act" /\ (ReadStatus(j) \/ FlagForReview(j))
    BY <2>7, <2>17 DEF ReadStatus, FlagForReview, StatusActions, Effectful
  <2>18. CASE ApplyStatus(j)
    <3>1. pc[j] = "apply" /\ UNCHANGED <<todo, exec>>
      BY <2>18 DEF ApplyStatus, workVars
    <3>2. Rule(j).action \notin Effectful
      BY <1>a, <3>1 DEF JobInv, JobControl, StatusActions, Effectful
    <3> QED
      BY <2>7, <3>1, <3>2
  <2>19. CASE pc[j] = "record" /\ RecordExecution(j)
    <3>1. pc'[j] # "record"
      BY <1>a, <2>19 DEF RecordExecution, AfterRule
    <3>2. ASSUME NEW x \in Execs, x = Exec(j) PROVE Closed(x)'
      <4>1. exec'[x] = StatusOf(result[j]) /\ result[j] \in Outcome \ {"none"}
        BY <1>a, <2>19, <3>2 DEF RecordExecution, JobInv, JobControl
      <4>2. CASE exec'[x] # "COMPLETED"
        BY <1>f, <4>2
      <4>3. CASE exec'[x] = "COMPLETED"
        <5>1. result[j] = "ok"
          BY <4>1, <4>3 DEF StatusOf, Outcome
        <5>2. x[1] = j.txn /\ x[2] = Rule(j)
          BY <3>2 DEF Exec
        <5>3. x[2].action \in Effectful => Earned(x)
          BY <1>c, <2>19, <3>2, <5>1, <5>2 DEF Pending
        <5> QED
          BY <1>e, <5>3 DEF Closed
      <4> QED
        BY <4>2, <4>3
    <3> QED
      BY <2>3, <2>4, <3>1, <3>2
  <2>20. CASE pc[j] = "enqueue" /\ EnqueueRetry(j)
    BY <1>a, <2>6, <2>20 DEF EnqueueRetry, AfterRule
  <2> QED
    BY <1>1, <2>11, <2>12, <2>13, <2>14, <2>15, <2>16, <2>17, <2>18, <2>19, <2>20 DEF StepOf, JobStep
<1> QED
  BY <1>0, <1>1, StepKinds

-----------------------------------------------------------------------------
\* The account's status and the other processes, in a step on delivery j: only a rule with
\* a status action comes to "apply", from a status that allows it, and only there is the
\* status written.
LEMMA StatusFrame ==
  ASSUME Inv, NEW j \in Deliveries, StepOf(j)
  PROVE  /\ \A q \in Procs : q # j => pc'[q] = pc[q]
         /\ \/ account' = account
            \/ pc[j] = "apply" /\ \A a \in Accounts : a # j.account => account'[a] = account[a]
         /\ pc'[j] = "apply" => account[j.account] \notin Terminal
<1>a. TypeOK
  BY DEF Inv
<1> USE DEF TypeOK, Goto, Procs
<1>1. CASE ReceiveWebhook(j) \/ DispatchEvent(j) \/ CheckDuplicate(j) \/ LookupAccount(j)
  BY <1>a, <1>1 DEF ReceiveWebhook, DispatchEvent, CheckDuplicate, LookupAccount, Gate
<1>2. CASE pc[j] = "claim" /\ ClaimEvent(j)
  BY <1>a, <1>2 DEF ClaimEvent, StartRules
<1>3. CASE \/ WriteBegin(j) \/ WriteConflict(j) \/ FailJob(j) \/ CrashWorker(j)
           \/ Reconcile(j) \/ MarkProcessed(j)
  BY <1>a, <1>3
  DEF WriteBegin, WriteConflict, FailJob, CrashWorker, Reconcile, MarkProcessed
<1>4. CASE pc[j] = "insert" /\ WriteInflow(j)
  BY <1>a, <1>4 DEF WriteInflow, StartRules
<1>5. CASE CreateExecution(j) \/ FlagForReview(j)
  BY <1>a, <1>5 DEF CreateExecution, FlagForReview
<1>6. CASE ReleaseFunds(j) \/ NotifyWebhook(j)
  <2>1. pc' = [pc EXCEPT ![j] = "record"] /\ account' = account
    BY <1>6, Zenon DEF ReleaseFunds, NotifyWebhook
  <2> QED
    BY <1>a, <2>1
<1>7. CASE ReadStatus(j)
  <2>1. \A s \in Terminal : s \notin AllowedFrom(Rule(j).action)
    BY <1>7 DEF ReadStatus, AllowedFrom, StatusActions, Terminal
  <2>2. account' = account /\ pc'[j] \in {"apply", "record"} /\ \A q \in Procs : q # j => pc'[q] = pc[q]
    BY <1>a, <1>7 DEF ReadStatus
  <2>3. pc'[j] = "apply" => account[j.account] \in AllowedFrom(Rule(j).action)
    BY <1>a, <1>7 DEF ReadStatus
  <2> QED
    BY <2>1, <2>2, <2>3
<1>8. CASE ApplyStatus(j)
  BY <1>a, <1>8 DEF ApplyStatus
<1>9. CASE pc[j] = "record" /\ RecordExecution(j)
  BY <1>a, <1>9 DEF RecordExecution, AfterRule
<1>10. CASE pc[j] = "enqueue" /\ EnqueueRetry(j)
  BY <1>a, <1>10 DEF EnqueueRetry, AfterRule
<1> QED
  BY <1>1, <1>2, <1>3, <1>4, <1>5, <1>6, <1>7, <1>8, <1>9, <1>10 DEF StepOf, JobStep

\* No step touches a CLOSED or EXPIRED account that no handler is about to write, and none
\* becomes such a handler.
LEMMA TerminalStep ==
  ASSUME Inv, [Next]_vars, NEW a \in Accounts, account[a] \in Terminal, StatusWriters(a) = {}
  PROVE  account'[a] = account[a] /\ StatusWriters(a)' = {}
<1>a. TypeOK
  BY DEF Inv
<1>b. /\ \A j \in Deliveries : j.account = a => pc[j] # "apply"
      /\ \A k \in Closings : k.account = a => pc[k] \notin {"archive", "expire", "close"}
      /\ \A p \in Patches : p.account = a => pc[p] # "write"
  BY DEF StatusWriters
<1>c. ASSUME account'[a] = account[a],
             \A j \in Deliveries : j.account = a => pc'[j] # "apply",
             \A k \in Closings : k.account = a => pc'[k] \notin {"archive", "expire", "close"},
             \A p \in Patches : p.account = a => pc'[p] # "write"
      PROVE  account'[a] = account[a] /\ StatusWriters(a)' = {}
  BY <1>c DEF StatusWriters
<1>d. ASSUME NEW q \in Closings \cup Patches, NEW to, pc' = [pc EXCEPT ![q] = to]
      PROVE  /\ \A p \in Procs : p # q => pc'[p] = pc[p]
             /\ pc'[q] = to
             /\ \A j \in Deliveries : j # q
             /\ q \in Closings => \A p \in Patches : p # q
             /\ q \in Patches => \A k \in Closings : k # q
  BY <1>a, <1>d, ProcessAssumption DEF TypeOK, Procs
<1>0. CASE UNCHANGED vars
  BY <1>0, <1>b, <1>c DEF vars
<1>1. ASSUME NEW k \in Closings, CloseResolve(k) \/ CloseStep(k)
      PROVE  account'[a] = account[a] /\ StatusWriters(a)' = {}
  <2>1. PICK to : pc' = [pc EXCEPT ![k] = to]
    BY <1>1 DEF CloseResolve, CloseStep, CloseArchive, CloseExpire, CloseAccount, Goto
  <2>2. k.account = a => CloseResolve(k)
    BY <1>1, <1>b DEF CloseStep, CloseArchive, CloseExpire, CloseAccount, Goto
  <2>3. account'[a] = account[a]
    BY <1>1, <1>a, <2>2
    DEF CloseResolve, CloseStep, CloseArchive, CloseExpire, CloseAccount, TypeOK
  <2>4. k.account = a => pc'[k] = "rejected"
    BY <1>a, <2>2 DEF CloseResolve, Goto, TypeOK, Procs
  <2> QED
    BY <1>b, <1>c, <1>d, <2>1, <2>3, <2>4 DEF Procs
<1>2. ASSUME NEW p \in Patches, PatchRead(p) \/ PatchWrite(p)
      PROVE  account'[a] = account[a] /\ StatusWriters(a)' = {}
  <2>1. PICK to : pc' = [pc EXCEPT ![p] = to]
    BY <1>2 DEF PatchRead, PatchWrite, Goto
  <2>2. p.account = a => PatchRead(p)
    BY <1>2, <1>b DEF PatchWrite, Goto
  <2>3. account'[a] = account[a]
    BY <1>2, <1>a, <2>2 DEF PatchRead, PatchWrite, TypeOK
  <2>4. p.account = a => pc'[p] = "rejected"
    BY <1>a, <2>2 DEF PatchRead, ValidTransition, Terminal, Goto, TypeOK, Procs
  <2> QED
    BY <1>b, <1>c, <1>d, <2>1, <2>3, <2>4 DEF Procs
<1>3. ASSUME NEW x \in Execs, RetryStep(x) \/ CrashRetry(x)
      PROVE  account'[a] = account[a] /\ StatusWriters(a)' = {}
  <2>1. account' = account /\ pc' = pc
    <3>1. CASE RetryAct(x)
      BY <3>1, Zenon DEF RetryAct
    <3> QED
      BY <1>3, <3>1 DEF RetryStep, RetryBegin, RetryRecord, RetryFinish, RetryThrow, CrashRetry
  <2> QED
    BY <1>b, <1>c, <2>1
<1>4. ASSUME NEW j \in Deliveries, StepOf(j)
      PROVE  account'[a] = account[a] /\ StatusWriters(a)' = {}
  <2>1. /\ \A q \in Procs : q # j => pc'[q] = pc[q]
        /\ \/ account' = account
           \/ pc[j] = "apply" /\ \A b \in Accounts : b # j.account => account'[b] = account[b]
        /\ pc'[j] = "apply" => account[j.account] \notin Terminal
    BY <1>4, StatusFrame
  <2>2. account'[a] = account[a]
    BY <1>b, <2>1
  <2>3. (\A k \in Closings : k # j) /\ (\A p \in Patches : p # j)
    BY ProcessAssumption
  <2> QED
    BY <1>b, <1>c, <2>1, <2>2, <2>3 DEF Procs
<1> QED
  BY <1>0, <1>1, <1>2, <1>3, <1>4, StepKinds DEF BackgroundStep

\* No step changes an execution that is COMPLETED or FAILED.
LEMMA ResolvedStep ==
  ASSUME Inv, [Next]_vars, NEW x \in Execs, exec[x] \in {"COMPLETED", "FAILED"}
  PROVE  exec'[x] = exec[x]
<1>a. TypeOK /\ RetryInv /\ ExecInv
  BY DEF Inv
<1> USE DEF execVars
<1>0. CASE UNCHANGED vars
  BY <1>0 DEF vars
<1>1. ASSUME NEW k \in Closings, CloseResolve(k) \/ CloseStep(k) PROVE exec'[x] = exec[x]
  BY <1>1 DEF CloseResolve, CloseStep, CloseArchive, CloseExpire, CloseAccount
<1>2. ASSUME NEW p \in Patches, PatchRead(p) \/ PatchWrite(p) PROVE exec'[x] = exec[x]
  BY <1>2 DEF PatchRead, PatchWrite
<1>3. ASSUME NEW y \in Execs, RetryStep(y) \/ CrashRetry(y) PROVE exec'[x] = exec[x]
  <2>1. CASE RetryAct(y)
    BY <2>1, Zenon DEF RetryAct
  <2>2. CASE RetryRecord(y)
    <3>1. x # y
      BY <1>a, <2>2 DEF RetryRecord, RetryInv, RetryJob
    <3> QED
      BY <1>a, <2>2, <3>1 DEF RetryRecord, TypeOK
  <2> QED
    BY <1>3, <2>1, <2>2 DEF RetryStep, RetryBegin, RetryFinish, RetryThrow, CrashRetry
<1>4. ASSUME NEW j \in Deliveries, StepOf(j) PROVE exec'[x] = exec[x]
  <2>1. CASE x # Exec(j) \/ pc[j] \notin Executing
    BY <1>4, <2>1, JobFrame DEF SameExec
  <2>2. CASE x = Exec(j) /\ pc[j] \in Executing
    <3>1. pc[j] = "enqueue"
      BY <1>a, <2>2 DEF ExecInv, OwnExecs, Untouched, Executing, Acting
    <3> QED
      BY <1>4, <3>1
      DEF StepOf, JobStep, ReceiveWebhook, DispatchEvent, CheckDuplicate, LookupAccount, Goto,
          WriteBegin, WriteConflict, CreateExecution, ApplyStatus, EnqueueRetry, Reconcile,
          MarkProcessed, FailJob, CrashWorker
  <2> QED
    BY <2>1, <2>2
<1> QED
  BY <1>0, <1>1, <1>2, <1>3, <1>4, StepKinds DEF BackgroundStep

-----------------------------------------------------------------------------
\* The bound on the calls of one execution follows from what a retry job has counted.
LEMMA InvImpliesBound == Inv => AttemptsBounded
<1> SUFFICES ASSUME Inv, NEW x \in Execs PROVE tries[x] <= 1 + MaxAttempts + MaxStalls
  BY DEF AttemptsBounded
<1>1. /\ tries[x] \in Nat /\ made[x] \in 0..MaxAttempts /\ rstalls[x] \in 0..MaxStalls
      /\ MaxAttempts \in Nat \ {0} /\ MaxStalls \in Nat
      /\ rpc[x] \in RetryPc /\ RetryJob(x)
  BY ProcessAssumption DEF Inv, TypeOK, RetryInv
<1>2. \/ tries[x] <= 1
      \/ tries[x] <= 1 + made[x] + rstalls[x] /\ made[x] < MaxAttempts
      \/ tries[x] <= 2 + made[x] + rstalls[x] /\ made[x] < MaxAttempts
      \/ tries[x] <= 1 + MaxAttempts + MaxStalls
  BY <1>1 DEF RetryJob, RetryPc, Retrying
<1> QED
  BY <1>1, <1>2

\* The invariant holds before anything was delivered.
LEMMA InitInv == Init => Inv
<1> SUFFICES ASSUME Init PROVE Inv
  OBVIOUS
<1>1. TypeOK
  <2>1. pc \in [Procs -> JobPc \cup ApiPc]
    BY DEF Init, JobPc
  <2>2. todo \in [Deliveries -> Seq(Rules)]
    BY DEF Init
  <2>3. /\ stalls \in [Deliveries -> 0..MaxStalls]
        /\ made \in [Execs -> 0..MaxAttempts]
        /\ rstalls \in [Execs -> 0..MaxStalls]
    BY ProcessAssumption DEF Init
  <2>4. /\ account \in [Accounts -> AccountStatus]
        /\ seen \in [Deliveries -> AccountStatus]
        /\ exec \in [Execs -> ExecStatus]
        /\ recon \in [Txns -> ReconStatus]
        /\ result \in [Deliveries -> Outcome] /\ rresult \in [Execs -> Outcome]
        /\ rpc \in [Execs -> RetryPc]
    BY DEF Init, AccountStatus, ExecStatus, ReconStatus, Outcome, RetryPc
  <2> QED
    BY <2>1, <2>2, <2>3, <2>4 DEF Init, TypeOK
<1>2. /\ \A j \in Deliveries : pc[j] = "idle" /\ todo[j] = <<>>
      /\ \A p \in Patches : pc[p] = "idle"
      /\ \A j \in Deliveries : recon[j.txn] = "NONE"
      /\ \A x \in Execs : Untouched(x) /\ made[x] = 0 /\ rstalls[x] = 0
      /\ \A j \in Deliveries, r \in Rules : <<j.txn, r>> \in Execs
      /\ \A b \in Accounts : lock[b] = Free
      /\ processed = {} /\ effects = {}
  BY DEF Init, Procs, Untouched, Txns, Execs
<1>3. JobInv
  BY <1>2 DEF JobInv, JobControl, GoodRules, Executing
<1>4. PatchInv /\ LockInv
  BY <1>2, ProcessAssumption DEF PatchInv, LockInv
<1>5. OwnerInv
  BY <1>2 DEF OwnerInv, Owning, Executing
<1>6. ExecInv
  BY <1>2 DEF ExecInv, RulesRunOnce, OwnExecs, Executing, Acting, Untouched
<1>7. OutcomeInv /\ ReconInv
  BY <1>2 DEF OutcomeInv, OwnOutcome, ReconInv, Owning, Executing
<1>8. RetryInv
  BY <1>2 DEF RetryInv, RetryJob, Retrying, Untouched
<1>9. EffectInv
  BY <1>2 DEF EffectInv, CompletedTookEffect, Untouched
<1>10. RunningTotal
  BY <1>2 DEF RunningTotal
<1>11. RunsMatch /\ SuspendedInflowsHeld
  BY <1>2 DEF RunsMatch, SuspendedInflowsHeld
<1> QED
  BY <1>1, <1>3, <1>4, <1>5, <1>6, <1>7, <1>8, <1>9, <1>10, <1>11 DEF Inv

\* The invariant is inductive: every step of every job, retry and request keeps it.
LEMMA InvStep == Inv /\ [Next]_vars => Inv'
BY TypeStep, JobInvStep, PatchInvStep, LockInvStep, OwnerInvStep, ExecInvStep, OutcomeInvStep,
   ReconInvStep, RetryInvStep, EffectInvStep, RunningTotalStep, ReconciledStep
DEF Inv

\* Hence it always holds.
LEMMA Invariance == Spec => []Inv
<1>1. Init => Inv
  BY InitInv
<1>2. Inv /\ [Next]_vars => Inv'
  BY InvStep
<1> QED
  BY <1>1, <1>2, PTL DEF Spec

-----------------------------------------------------------------------------
\* A custom event has no entry in the account's ledger.
CustomHasNoEntry == \A j \in Deliveries : j.kind = "custom" => recon[j.txn] = "NONE"

\* A rule runs for events of its own account only.
OwnRules == \A j \in Deliveries, r \in Rules : exec[<<j.txn, r>>] # "NONE" => r.account = j.account

\* What PENDING and RETRYING rows wait for, next to Inv.
OwnedInv == PendingIsOwned /\ RetryingHasJob /\ CustomHasNoEntry /\ OwnRules

\* A job that failed stays failed, and the deaths of its worker are not forgotten.
LEMMA InterruptedStays ==
  ASSUME Inv, [Next]_vars, NEW t, Interrupted(t)
  PROVE  Interrupted(t)'
<1>a. TypeOK /\ MaxStalls \in Nat
  BY ProcessAssumption DEF Inv
<1>b. PICK i \in Deliveries : i.txn = t /\ (pc[i] = "failed" \/ stalls[i] > 0)
  BY DEF Interrupted
<1>1. CASE BackgroundStep
  <2>1. pc'[i] = pc[i] /\ stalls'[i] = stalls[i]
    BY <1>1, BackgroundFrame DEF SameJob, workVars
  <2> QED
    BY <1>b, <2>1 DEF Interrupted
<1>2. ASSUME NEW j \in Deliveries, StepOf(j) PROVE Interrupted(t)'
  <2>1. pc[j] # "failed"
    <3> USE DEF Goto
    <3>1. CASE ReceiveWebhook(j) \/ DispatchEvent(j) \/ FailJob(j) \/ CrashWorker(j)
      BY <3>1 DEF ReceiveWebhook, DispatchEvent, FailJob, CrashWorker, Working
    <3>2. CASE CheckDuplicate(j) \/ LookupAccount(j) \/ WriteBegin(j) \/ WriteConflict(j)
               \/ CreateExecution(j) \/ ApplyStatus(j) \/ Reconcile(j) \/ MarkProcessed(j)
      BY <3>2 DEF CheckDuplicate, LookupAccount, WriteBegin, WriteConflict, CreateExecution,
                  ApplyStatus, Reconcile, MarkProcessed
    <3> QED
      BY <1>2, <3>1, <3>2 DEF StepOf, JobStep
  <2>2. stalls'[i] >= stalls[i]
    <3>1. stalls' = stalls \/ CrashWorker(j)
      <4> USE DEF workVars
      <4>1. CASE ReceiveWebhook(j) \/ DispatchEvent(j) \/ CheckDuplicate(j) \/ LookupAccount(j)
                 \/ ClaimEvent(j) \/ WriteBegin(j) \/ WriteInflow(j) \/ WriteConflict(j)
        BY <4>1 DEF ReceiveWebhook, DispatchEvent, CheckDuplicate, LookupAccount, ClaimEvent,
                    WriteBegin, WriteInflow, WriteConflict
      <4>2. CASE ReleaseFunds(j) \/ NotifyWebhook(j)
        BY <4>2, Zenon DEF ReleaseFunds, NotifyWebhook
      <4>3. CASE CreateExecution(j) \/ ReadStatus(j) \/ FlagForReview(j) \/ ApplyStatus(j)
                 \/ RecordExecution(j) \/ EnqueueRetry(j) \/ Reconcile(j) \/ MarkProcessed(j)
                 \/ FailJob(j)
        BY <4>3 DEF CreateExecution, ReadStatus, FlagForReview, ApplyStatus, RecordExecution,
                    EnqueueRetry, Reconcile, MarkProcessed, FailJob
      <4> QED
        BY <1>2, <4>1, <4>2, <4>3 DEF StepOf, JobStep
    <3>2. stalls \in [Deliveries -> 0..MaxStalls] /\ \A n \in 0..MaxStalls : n + 1 >= n /\ n >= n
      BY <1>a DEF TypeOK
    <3> QED
      BY <3>1, <3>2 DEF CrashWorker
  <2>3. stalls[i] \in Nat /\ stalls'[i] \in Int
    <3>1. TypeOK'
      BY TypeStep
    <3> QED
      BY <1>a, <3>1 DEF TypeOK
  <2>4. i # j => pc'[i] = pc[i]
    BY <1>2, JobFrame DEF SameJob
  <2> QED
    BY <1>b, <2>1, <2>2, <2>3, <2>4 DEF Interrupted
<1> QED
  BY <1>1, <1>2, StepKinds

\* The owner of a transaction goes on to the end unless its job fails or its worker dies:
\* an entry that is PENDING stays with it, a PENDING execution is the one it acts on, and
\* for an execution that it records as RETRYING it goes to queue the job.
LEMMA Proceeds ==
  ASSUME Inv, NEW j \in Deliveries, StepOf(j), pc[j] \in Owning, ~Interrupted(j.txn)'
  PROVE  /\ pc'[j] \in Owning \/ recon'[j.txn] # "PENDING" \/ j.kind = "custom"
         /\ pc[j] \in Executing /\ exec'[Exec(j)] = "PENDING" =>
              pc'[j] \in Acting /\ todo'[j] = todo[j]
         /\ pc[j] \in Executing /\ exec'[Exec(j)] = "RETRYING" /\ rpc'[Exec(j)] = "none" =>
              j.kind = "custom" \/ (pc'[j] = "enqueue" /\ todo'[j] = todo[j])
<1>a. TypeOK /\ JobControl(j) /\ OwnExecs(j) /\ j.kind \in {"inflow", "custom"}
  BY DeliveryAssumption DEF Inv, JobInv, ExecInv
<1>b. pc[j] \in Executing => Exec(j) \in Execs
  BY AtRule
<1> USE DEF TypeOK, Goto, Procs, Owning, Executing, Acting
<1>1. CASE FailJob(j) \/ CrashWorker(j)
  <2>1. pc'[j] = "failed" \/ stalls'[j] > 0
    BY <1>a, <1>1, ProcessAssumption DEF FailJob, CrashWorker
  <2> QED
    BY <2>1 DEF Interrupted
<1>2. CASE CreateExecution(j)
  <2>1. pc[j] = "rule" /\ pc'[j] = "act" /\ todo' = todo /\ exec'[Exec(j)] = "PENDING"
    BY <1>a, <1>b, <1>2 DEF CreateExecution, workVars
  <2> QED
    BY <2>1
<1>3. CASE pc[j] = "act" /\ (ReleaseFunds(j) \/ NotifyWebhook(j) \/ ReadStatus(j) \/ FlagForReview(j))
  <2>1. UNCHANGED <<todo, exec>> /\ pc'[j] \in {"apply", "record"}
    <3>1. CASE ReleaseFunds(j) \/ NotifyWebhook(j)
      <4>1. UNCHANGED <<todo, exec>> /\ pc' = [pc EXCEPT ![j] = "record"]
        BY <3>1, Zenon DEF ReleaseFunds, NotifyWebhook
      <4> QED
        BY <1>a, <4>1
    <3>2. CASE ReadStatus(j) \/ FlagForReview(j)
      BY <1>a, <3>2 DEF ReadStatus, FlagForReview, execVars
    <3> QED
      BY <1>3, <3>1, <3>2
  <2> QED
    BY <1>a, <1>3, <2>1 DEF OwnExecs
<1>4. CASE ApplyStatus(j)
  <2>1. UNCHANGED <<todo, exec>> /\ pc[j] = "apply" /\ pc'[j] = "record"
    BY <1>a, <1>4 DEF ApplyStatus, execVars, workVars
  <2> QED
    BY <1>a, <2>1 DEF OwnExecs
<1>5. CASE pc[j] = "record" /\ RecordExecution(j)
  <2>1. exec'[Exec(j)] = StatusOf(result[j]) /\ result[j] \in {"ok", "fail", "retry"}
    BY <1>a, <1>b, <1>5 DEF RecordExecution, JobControl, Outcome
  <2>2. CASE result[j] = "retry" /\ j.kind = "inflow"
    BY <1>a, <1>5, <2>1, <2>2 DEF RecordExecution, StatusOf
  <2>3. CASE ~(result[j] = "retry" /\ j.kind = "inflow")
    BY <1>a, <1>5, <2>1, <2>3 DEF RecordExecution, StatusOf, AfterRule
  <2> QED
    BY <2>2, <2>3
<1>6. CASE pc[j] = "enqueue" /\ EnqueueRetry(j)
  <2>1. exec' = exec /\ rpc'[Exec(j)] = "queued" /\ pc'[j] = AfterRule(j) /\ j.kind = "inflow"
    BY <1>a, <1>b, <1>6 DEF EnqueueRetry, execVars, JobControl
  <2> QED
    BY <1>a, <1>6, <2>1 DEF OwnExecs, AfterRule
<1>7. CASE Reconcile(j)
  BY <1>a, <1>7 DEF Reconcile, Txns
<1>8. CASE ReceiveWebhook(j) \/ DispatchEvent(j) \/ CheckDuplicate(j) \/ LookupAccount(j)
           \/ WriteBegin(j) \/ WriteConflict(j) \/ MarkProcessed(j)
  BY <1>8 DEF ReceiveWebhook, DispatchEvent, CheckDuplicate, LookupAccount, WriteBegin,
              WriteConflict, MarkProcessed
<1> QED
  BY <1>1, <1>2, <1>3, <1>4, <1>5, <1>6, <1>7, <1>8 DEF StepOf, JobStep

\* The entry of an inflow that is to be evaluated is inserted by the worker that owns it
\* from then on.
LEMMA InsertedIsOwned ==
  ASSUME Inv, NEW j \in Deliveries, StepOf(j), pc[j] = "insert", recon'[j.txn] = "PENDING",
         recon[j.txn] = "NONE"
  PROVE  pc'[j] \in Owning
<1>a. TypeOK /\ j.txn \in Txns
  BY DEF Inv, Txns
<1> USE DEF TypeOK, Goto, Procs, ledgerVars
<1>1. ASSUME recon' = recon PROVE FALSE
  BY <1>1
<1>2. CASE WriteInflow(j)
  BY <1>a, <1>2 DEF WriteInflow, EntryStatus, StartRules, Owning, Executing
<1>3. CASE ReceiveWebhook(j) \/ DispatchEvent(j) \/ CheckDuplicate(j) \/ LookupAccount(j)
           \/ WriteBegin(j) \/ CreateExecution(j) \/ ApplyStatus(j) \/ MarkProcessed(j) \/ Reconcile(j)
  BY <1>3 DEF ReceiveWebhook, DispatchEvent, CheckDuplicate, LookupAccount, WriteBegin,
              CreateExecution, ApplyStatus, MarkProcessed, Reconcile
<1>4. CASE WriteConflict(j) \/ FailJob(j) \/ CrashWorker(j)
  BY <1>1, <1>4 DEF WriteConflict, FailJob, CrashWorker
<1> QED
  BY <1>2, <1>3, <1>4 DEF StepOf, JobStep

\* A PENDING entry or execution keeps its worker.
LEMMA PendingStep ==
  ASSUME Inv, OwnedInv, [Next]_vars
  PROVE  PendingIsOwned' /\ CustomHasNoEntry'
<1>a. PendingIsOwned /\ CustomHasNoEntry
  BY DEF OwnedInv
<1>b. \A k \in Deliveries : k.txn \in Txns /\ \A r \in Rules : <<k.txn, r>> \in Execs
  BY DEF Txns, Execs
<1>1. CASE BackgroundStep
  <2>1. recon' = recon /\ \A i \in Deliveries : pc'[i] = pc[i] /\ Rule(i)' = Rule(i)
    BY <1>1, BackgroundFrame DEF SameJob, ledgerVars, Rule
  <2>2. \A x \in Execs : exec'[x] = "PENDING" => exec[x] = "PENDING"
    BY <1>1, BackgroundFrame
  <2>3. \A k \in Deliveries : Interrupted(k.txn) => Interrupted(k.txn)'
    BY InterruptedStays
  <2>4. CustomHasNoEntry'
    BY <1>a, <2>1 DEF CustomHasNoEntry
  <2> QED
    BY <1>a, <1>b, <2>1, <2>2, <2>3, <2>4 DEF PendingIsOwned
<1>2. ASSUME NEW j \in Deliveries, StepOf(j) PROVE PendingIsOwned' /\ CustomHasNoEntry'
  <2>1. ASSUME NEW k \in Deliveries, recon'[k.txn] = "PENDING", ~Interrupted(k.txn)'
        PROVE  \E i \in Deliveries : i.txn = k.txn /\ pc'[i] \in Owning
    <3>1. CASE recon[k.txn] = "PENDING"
      <4>1. ~Interrupted(k.txn)
        BY <2>1, InterruptedStays
      <4>2. PICK i \in Deliveries : i.txn = k.txn /\ pc[i] \in Owning
        BY <1>a, <3>1, <4>1 DEF PendingIsOwned
      <4>3. CASE i # j
        BY <1>2, <4>2, <4>3, JobFrame DEF SameJob
      <4>4. CASE i = j
        <5>1. j.kind # "custom"
          BY <1>a, <3>1, <4>2, <4>4 DEF CustomHasNoEntry
        <5> QED
          BY <1>2, <2>1, <4>2, <4>4, <5>1, Proceeds
      <4> QED
        BY <4>3, <4>4
    <3>2. CASE recon[k.txn] # "PENDING"
      <4>1. k.txn = j.txn
        BY <1>2, <1>b, <2>1, <3>2, JobFrame
      <4>2. pc[j] = "insert" /\ recon[j.txn] = "NONE"
        BY <1>2, <2>1, <3>2, <4>1, ReconMoves
      <4> QED
        BY <1>2, <2>1, <4>1, <4>2, InsertedIsOwned
    <3> QED
      BY <3>1, <3>2
  <2>2. ASSUME NEW k \in Deliveries, NEW r \in Rules, exec'[<<k.txn, r>>] = "PENDING",
               ~Interrupted(k.txn)'
        PROVE  \E i \in Deliveries : i.txn = k.txn /\ pc'[i] \in Acting /\ Rule(i)' = r
    <3>1. CASE k.txn = j.txn /\ pc[j] \in Executing /\ Rule(j) = r
      <4>1. Exec(j) = <<k.txn, r>> /\ pc[j] \in Owning
        BY <3>1 DEF Exec, Owning
      <4>2. pc'[j] \in Acting /\ todo'[j] = todo[j]
        BY <1>2, <2>2, <3>1, <4>1, Proceeds
      <4> QED
        BY <3>1, <4>2 DEF Rule
    <3>2. CASE ~(k.txn = j.txn /\ pc[j] \in Executing /\ Rule(j) = r)
      <4>1. <<k.txn, r>> # Exec(j) \/ pc[j] \notin Executing
        BY <3>2 DEF Exec
      <4>2. exec[<<k.txn, r>>] = "PENDING" /\ ~Interrupted(k.txn)
        BY <1>2, <1>b, <2>2, <4>1, JobFrame, InterruptedStays DEF SameExec
      <4>3. PICK i \in Deliveries : i.txn = k.txn /\ pc[i] \in Acting /\ Rule(i) = r
        BY <1>a, <4>2 DEF PendingIsOwned
      <4>4. i # j
        BY <3>2, <4>3 DEF Executing, Acting
      <4> QED
        BY <1>2, <4>3, <4>4, JobFrame DEF SameJob, Rule
    <3> QED
      BY <3>1, <3>2
  <2>3. ASSUME NEW k \in Deliveries, k.kind = "custom" PROVE recon'[k.txn] = "NONE"
    <3>1. recon[k.txn] = "NONE"
      BY <1>a, <2>3 DEF CustomHasNoEntry
    <3>2. CASE k.txn # j.txn
      BY <1>2, <1>b, <3>1, <3>2, JobFrame
    <3>3. CASE k.txn = j.txn
      <4>1. j.kind = "custom"
        BY <2>3, <3>3, SameTxn
      <4>2. pc[j] # "matched" /\ pc[j] # "unmatched"
        BY <4>1 DEF Inv, JobInv, JobControl
      <4>3. recon' = recon
        BY <1>2, <4>1, <4>2, ReconMoves
      <4> QED
        BY <3>1, <4>3
    <3> QED
      BY <3>2, <3>3
  <2>4. PendingIsOwned'
    BY <2>1, <2>2 DEF PendingIsOwned
  <2> QED
    BY <2>3, <2>4 DEF CustomHasNoEntry
<1> QED
  BY <1>1, <1>2, StepKinds

\* What keeps one execution alive that is RETRYING, as in RetryingHasJob.
Alive(j, r) ==
  LET x == <<j.txn, r>>
  IN  \/ /\ rpc[x] = "none"
         /\ \/ j.kind = "custom" \/ Interrupted(j.txn)
            \/ \E i \in Deliveries : i.txn = j.txn /\ pc[i] = "enqueue" /\ Rule(i) = r
      \/ rpc[x] \in {"queued", "active", "acted", "throw"}
      \/ rpc[x] = "dead" /\ (x \in deadLetters \/ rstalls[x] > 0)

\* The retry worker leaves its job in the queue, or a dead letter, as long as the
\* execution is RETRYING.
LEMMA RetryKeepsJob ==
  ASSUME Inv, NEW x \in Execs, RetryStep(x) \/ CrashRetry(x), exec'[x] = "RETRYING",
         exec[x] = "RETRYING" => rpc[x] \in {"queued", "active", "acted", "throw"}
  PROVE  \/ rpc'[x] \in {"queued", "active", "acted", "throw"}
         \/ rpc'[x] = "dead" /\ (x \in deadLetters' \/ rstalls'[x] > 0)
<1>a. TypeOK /\ RetryJob(x) /\ MaxStalls \in Nat /\ rstalls[x] \in Nat
  <2>1. TypeOK /\ RetryJob(x)
    BY DEF Inv, RetryInv
  <2>2. rstalls[x] \in Nat
    BY <2>1 DEF TypeOK
  <2> QED
    BY <2>1, <2>2, ProcessAssumption
<1> USE DEF TypeOK
<1>1. CASE RetryBegin(x)
  BY <1>a, <1>1 DEF RetryBegin, execVars, Resolved
<1>2. CASE RetryAct(x)
  <2>1. rpc' = [rpc EXCEPT ![x] = "acted"]
    BY <1>2, Zenon DEF RetryAct
  <2> QED
    BY <1>a, <2>1
<1>3. CASE RetryRecord(x)
  BY <1>a, <1>3 DEF RetryRecord, RetryJob, StatusOf, Outcome
<1>4. CASE RetryFinish(x)
  BY <1>a, <1>4 DEF RetryFinish, execVars
<1>5. CASE RetryThrow(x)
  BY <1>a, <1>5 DEF RetryThrow
<1>6. CASE CrashRetry(x)
  BY <1>a, <1>6 DEF CrashRetry
<1> QED
  BY <1>1, <1>2, <1>3, <1>4, <1>5, <1>6 DEF RetryStep

\* A step on one execution leaves the retry jobs of the others alone.
LEMMA RetryFrame ==
  ASSUME Inv, NEW y \in Execs, RetryStep(y) \/ CrashRetry(y), NEW x \in Execs, x # y
  PROVE  /\ rpc'[x] = rpc[x] /\ exec'[x] = exec[x] /\ rstalls'[x] = rstalls[x]
         /\ x \in deadLetters => x \in deadLetters'
<1>a. TypeOK
  BY DEF Inv
<1> USE DEF TypeOK, execVars
<1>1. CASE RetryAct(y)
  <2>1. rpc' = [rpc EXCEPT ![y] = "acted"] /\ UNCHANGED <<exec, rstalls, deadLetters>>
    BY <1>1, Zenon DEF RetryAct
  <2> QED
    BY <1>a, <2>1
<1>2. CASE RetryBegin(y) \/ RetryFinish(y)
  BY <1>a, <1>2 DEF RetryBegin, RetryFinish
<1>3. CASE RetryRecord(y)
  BY <1>a, <1>3 DEF RetryRecord
<1>4. CASE RetryThrow(y)
  BY <1>a, <1>4 DEF RetryThrow
<1>5. CASE CrashRetry(y)
  BY <1>a, <1>5 DEF CrashRetry
<1> QED
  BY <1>1, <1>2, <1>3, <1>4, <1>5 DEF RetryStep

\* An execution that is RETRYING keeps its job.
LEMMA RetryingStep ==
  ASSUME Inv, OwnedInv, [Next]_vars
  PROVE  RetryingHasJob'
<1> SUFFICES ASSUME NEW k \in Deliveries, NEW r \in Rules, exec'[<<k.txn, r>>] = "RETRYING"
             PROVE  Alive(k, r)'
  BY DEF RetryingHasJob, Alive
<1> DEFINE x == <<k.txn, r>>
<1>a. x \in Execs /\ TypeOK
  BY DEF Inv, Txns, Execs
<1>b. exec[x] = "RETRYING" => Alive(k, r)
  BY DEF OwnedInv, RetryingHasJob, Alive
<1>c. exec'[x] = "RETRYING"
  OBVIOUS
<1>d. Interrupted(k.txn) => Interrupted(k.txn)'
  BY InterruptedStays
<1> HIDE DEF x
<1>1. ASSUME exec[x] = "RETRYING", rpc'[x] = rpc[x], rstalls'[x] = rstalls[x],
             x \in deadLetters => x \in deadLetters',
             \A i \in Deliveries : SameJob(i)
      PROVE  Alive(k, r)'
  <2>1. \A i \in Deliveries : pc'[i] = pc[i] /\ Rule(i)' = Rule(i)
    BY <1>1 DEF SameJob, Rule
  <2> QED
    BY <1>b, <1>d, <1>1, <2>1 DEF Alive, x
<1>2. CASE BackgroundStep
  <2>0. \A i \in Deliveries : SameJob(i)
    BY <1>2, BackgroundFrame
  <2>1. CASE UNCHANGED vars
    BY <1>1, <1>c, <2>0, <2>1 DEF vars, execVars, retryVars
  <2>2. ASSUME NEW q \in Closings, CloseResolve(q) \/ CloseStep(q) PROVE Alive(k, r)'
    <3>1. exec[x] = "RETRYING"
      BY <1>a, <1>c, <2>2 DEF CloseResolve, CloseStep, CloseArchive, CloseExpire, CloseAccount, execVars
    <3>2. UNCHANGED <<rpc, rstalls, deadLetters>>
      BY <2>2 DEF CloseResolve, CloseStep, CloseArchive, CloseExpire, CloseAccount, retryVars
    <3> QED
      BY <1>1, <2>0, <3>1, <3>2
  <2>3. ASSUME NEW p \in Patches, PatchRead(p) \/ PatchWrite(p) PROVE Alive(k, r)'
    <3>1. UNCHANGED <<exec, rpc, rstalls, deadLetters>>
      BY <2>3 DEF PatchRead, PatchWrite, execVars, retryVars
    <3> QED
      BY <1>1, <1>c, <2>0, <3>1
  <2>4. ASSUME NEW y \in Execs, RetryStep(y) \/ CrashRetry(y) PROVE Alive(k, r)'
    <3>1. CASE y # x
      BY <1>1, <1>a, <1>c, <2>0, <2>4, <3>1, RetryFrame
    <3>2. CASE y = x
      <4>1. rpc[x] \notin {"none", "dead"}
        BY <2>4, <3>2
        DEF RetryStep, RetryBegin, RetryAct, RetryRecord, RetryFinish, RetryThrow, CrashRetry, Retrying
      <4>2. exec[x] = "RETRYING" => rpc[x] \in {"queued", "active", "acted", "throw"}
        BY <1>b, <4>1 DEF Alive, x
      <4>3. \/ rpc'[x] \in {"queued", "active", "acted", "throw"}
            \/ rpc'[x] = "dead" /\ (x \in deadLetters' \/ rstalls'[x] > 0)
        BY <1>a, <1>c, <2>4, <3>2, <4>2, RetryKeepsJob
      <4> QED
        BY <4>3 DEF Alive, x
    <3> QED
      BY <3>1, <3>2
  <2> QED
    BY <1>2, <2>1, <2>2, <2>3, <2>4 DEF BackgroundStep
<1>3. ASSUME NEW j \in Deliveries, StepOf(j) PROVE Alive(k, r)'
  <2>0. UNCHANGED <<rstalls, deadLetters>>
    BY <1>3, JobFrame
  <2>1. CASE k.txn = j.txn /\ pc[j] \in Executing /\ Rule(j) = r
    <3>1. Exec(j) = x /\ pc[j] \in Owning
      BY <2>1 DEF Exec, Owning, x
    <3>2. rpc'[x] \in {"none", "queued"}
      BY <1>3, <2>1, <3>1, OwnRetry
    <3>3. CASE rpc'[x] = "none" /\ ~Interrupted(k.txn)'
      <4>1. j.kind = "custom" \/ (pc'[j] = "enqueue" /\ todo'[j] = todo[j])
        BY <1>3, <1>c, <2>1, <3>1, <3>3, Proceeds
      <4>2. k.kind = j.kind
        BY <2>1, SameTxn
      <4> QED
        BY <2>1, <3>3, <4>1, <4>2 DEF Alive, Rule, x
    <3> QED
      BY <3>2, <3>3 DEF Alive, x
  <2>2. CASE ~(k.txn = j.txn /\ pc[j] \in Executing /\ Rule(j) = r)
    <3>1. x # Exec(j) \/ pc[j] \notin Executing
      BY <2>2 DEF Exec, x
    <3>2. exec[x] = "RETRYING" /\ rpc'[x] = rpc[x]
      BY <1>3, <1>a, <1>c, <3>1, JobFrame DEF SameExec
    <3>3. ASSUME NEW i \in Deliveries, i.txn = k.txn, pc[i] = "enqueue", Rule(i) = r
          PROVE  pc'[i] = "enqueue" /\ Rule(i)' = r
      <4>1. i # j
        BY <2>2, <3>3 DEF Executing
      <4> QED
        BY <1>3, <3>3, <4>1, JobFrame DEF SameJob, Rule
    <3> QED
      BY <1>b, <1>d, <2>0, <3>2, <3>3 DEF Alive, x
  <2> QED
    BY <2>1, <2>2
<1> QED
  BY <1>2, <1>3, StepKinds

\* Executions are begun by workers of the rule's account.
LEMMA OwnRulesStep ==
  ASSUME Inv, OwnRules, [Next]_vars
  PROVE  OwnRules'
<1> SUFFICES ASSUME NEW k \in Deliveries, NEW r \in Rules, exec'[<<k.txn, r>>] # "NONE",
                    exec[<<k.txn, r>>] = "NONE"
             PROVE  r.account = k.account
  BY DEF OwnRules
<1>a. <<k.txn, r>> \in Execs
  BY DEF Txns, Execs
<1>1. CASE BackgroundStep
  BY <1>a, <1>1, BackgroundFrame
<1>2. ASSUME NEW j \in Deliveries, StepOf(j) PROVE r.account = k.account
  <2>1. pc[j] \in Executing /\ Exec(j) = <<k.txn, r>>
    BY <1>2, <1>a, JobFrame DEF SameExec
  <2>2. j.txn = k.txn /\ Rule(j) = r
    BY <2>1 DEF Exec
  <2>3. todo[j] \in Seq(Rules) /\ todo[j] # <<>> /\ GoodRules(j, todo[j])
    BY <2>1 DEF Inv, TypeOK, JobInv, JobControl
  <2>4. Rule(j).account = j.account
    BY <2>3, TailOfRules DEF GoodRules, Rule
  <2> QED
    BY <2>2, <2>4, SameTxn
<1> QED
  BY <1>1, <1>2, StepKinds

\* Both hold from the start, and every step keeps them.
LEMMA OwnedAlways == Spec => [](Inv /\ OwnedInv)
<1>1. Init => Inv /\ OwnedInv
  <2>1. ASSUME Init PROVE OwnedInv
    <3>1. /\ \A j \in Deliveries : recon[j.txn] = "NONE"
          /\ \A j \in Deliveries, r \in Rules : exec[<<j.txn, r>>] = "NONE"
      BY <2>1 DEF Init, Txns, Execs
    <3> QED
      BY <3>1 DEF OwnedInv, PendingIsOwned, RetryingHasJob, CustomHasNoEntry, OwnRules
  <2> QED
    BY <2>1, InitInv
<1>2. Inv /\ OwnedInv /\ [Next]_vars => (Inv /\ OwnedInv)'
  BY InvStep, PendingStep, RetryingStep, OwnRulesStep DEF OwnedInv
<1> QED
  BY <1>1, <1>2, PTL DEF Spec

-----------------------------------------------------------------------------
\* Every variable of the pipeline keeps its type, for any deliveries, rules and requests.
THEOREM TypeCorrect == Spec => []TypeOK
<1>1. Inv => TypeOK
  BY DEF Inv
<1> QED
  BY <1>1, Invariance, PTL

\* EC-04: each rule runs at most once for a transaction or event, however many deliveries
\* carry it, whichever order their workers take and wherever they die.
THEOREM RulesDoRunOnce == Spec => []RulesRunOnce
<1>1. Inv => RulesRunOnce
  BY DEF Inv, ExecInv
<1> QED
  BY <1>1, Invariance, PTL

\* The lock writeInflow takes makes the entries of an account carry its running total: of
\* two inflows one has counted the other, for any number of concurrent workers.
THEOREM TotalsKeepRunning == Spec => []RunningTotal
<1>1. Inv => RunningTotal
  BY DEF Inv
<1> QED
  BY <1>1, Invariance, PTL

\* updateReconciliationStatus tells the truth about the rules that ran, unless one of
\* them flagged the inflow, and the event is marked as processed only after it.
THEOREM ReconciliationIsTrue == Spec => []ReconciledMeansRun
<1>1. Inv => ReconciledMeansRun
  BY DEF Inv, RunsMatch, ReconciledMeansRun
<1> QED
  BY <1>1, Invariance, PTL

\* An inflow whose worker found the account SUSPENDED is held: no rule runs for it, also
\* when another delivery of it finds the account ACTIVE later.
THEOREM HeldInflowsRunNothing == Spec => []SuspendedInflowsHeld
<1>1. Inv => SuspendedInflowsHeld
  BY DEF Inv
<1> QED
  BY <1>1, Invariance, PTL

\* EC-06: an execution is COMPLETED only when its downstream call took effect, over first
\* attempts, retries and deaths of either worker.
THEOREM CompletionIsEarned == Spec => []CompletedTookEffect
<1>1. Inv => CompletedTookEffect
  BY DEF Inv, EffectInv
<1> QED
  BY <1>1, Invariance, PTL

\* The downstream call of an execution is made at most once more than the retry queue
\* allows attempts and deaths, for any MaxAttempts and MaxStalls.
THEOREM AttemptsStayBounded == Spec => []AttemptsBounded
BY InvImpliesBound, Invariance, PTL

\* Once the handlers that checked the status before are through, a CLOSED or EXPIRED
\* account stays so: nothing that begins later writes it.
THEOREM TerminalStaysFinal == Spec => TerminalIsFinal
<1>1. Inv /\ [Next]_vars =>
        [\A a \in Accounts :
           account[a] \in Terminal /\ StatusWriters(a) = {} =>
             account'[a] = account[a] /\ StatusWriters(a)' = {}]_vars
  BY TerminalStep
<1> QED
  BY <1>1, Invariance, PTL DEF Spec, TerminalIsFinal

\* COMPLETED and FAILED are final: no retry, late worker or closing reopens the execution.
THEOREM ResolutionIsFinal == Spec => ResolvedIsFinal
<1>1. Inv /\ [Next]_vars =>
        [\A x \in Execs : exec[x] \in {"COMPLETED", "FAILED"} => exec'[x] = exec[x]]_vars
  BY ResolvedStep
<1> QED
  BY <1>1, Invariance, PTL DEF Spec, ResolvedIsFinal

\* No inflow is lost half-way but by a failure or a death: for any number of duplicates,
\* rules and closings, what is PENDING is in the hands of a worker.
THEOREM PendingStaysOwned == Spec => []PendingIsOwned
<1>1. Inv /\ OwnedInv => PendingIsOwned
  BY DEF OwnedInv
<1> QED
  BY <1>1, OwnedAlways, PTL

\* No retry is lost: what is RETRYING has a job, is about to get one, or left a dead
\* letter, also when closings archive executions under the workers.
THEOREM RetriesKeepTheirJob == Spec => []RetryingHasJob
<1>1. Inv /\ OwnedInv => RetryingHasJob
  BY DEF OwnedInv
<1> QED
  BY <1>1, OwnedAlways, PTL
=============================================================================
