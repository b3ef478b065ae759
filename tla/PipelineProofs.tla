--------------------------- MODULE PipelineProofs ---------------------------
(***************************************************************************)
(* Theorems about Pipeline: the joined system does what Inflow does, so    *)
(* everything InflowProofs shows holds of it, and the money that rules     *)
(* release arrives in the buckets once, for any rules, deliveries, buckets *)
(* and bounds, and any interleaving of calls, replays, retries and deaths. *)
(***************************************************************************)
EXTENDS Pipeline, InflowProofs, SumTheorems

\* The reference under which an execution is entered, by every one of its calls.
Reference(x) == <<x[1], Dest[x[2]]>>

\* The buckets: a call that came back was entered, now or before, and no reference is
\* in the ledger twice.
AllocInv ==
  /\ bpc \in [Allocations -> T!CreditPc]
  /\ credited \subseteq Allocations
  /\ \A c \in Allocations : bpc[c] \in {"done", "noop"} => c.ref \in T!Refs
  /\ T!AllocatedOnce

\* The calls: who waits for one has begun one.
CallInv ==
  /\ calls \in [Releases -> 0..MaxCalls]
  /\ calling \subseteq Releases
  /\ \A x \in calling : calls[x] >= 1

\* What Inflow takes for an effect is an entry of the ledger.
EffectsEntered == \A x \in Releases : x \in effects => Reference(x) \in T!Refs

PipelineInv == Inv /\ AllocInv /\ CallInv /\ EffectsEntered

-----------------------------------------------------------------------------
\* Every step of the joined system is a step of Inflow or leaves its variables alone: a
\* release is the downstream call that Inflow leaves open, with one of its outcomes.
LEMMA PipelineStep == [PipelineNext]_pipelineVars => [Next]_vars
<1> SUFFICES ASSUME [PipelineNext]_pipelineVars PROVE [Next]_vars
  OBVIOUS
<1>0. CASE UNCHANGED pipelineVars
  BY <1>0 DEF pipelineVars
<1>1. CASE InflowStep
  BY <1>1 DEF InflowStep, Next, RetryStep
<1>2. CASE BucketStep \/ (\E c \in Allocations : OrphanStep(c))
  BY <1>2 DEF BucketStep, OrphanStep
<1>3. ASSUME NEW x \in Releases, BeginCall(x) \/ CallStep(x) \/ RetryRelease(x) PROVE [Next]_vars
  <2>1. x \in Execs
    BY DEF Releases
  <2> QED
    BY <1>3, <2>1 DEF BeginCall, CallStep, RetryRelease, Next, RetryStep
<1>4. ASSUME NEW j \in Deliveries, WorkerRelease(j) \/ WorkerDies(j) PROVE [Next]_vars
  BY <1>4 DEF WorkerRelease, WorkerDies, Releasing, Next, JobStep
<1>5. ASSUME NEW x \in Execs, RetryDies(x) PROVE [Next]_vars
  BY <1>5 DEF RetryDies, Next
<1> QED
  BY <1>0, <1>1, <1>2, <1>3, <1>4, <1>5 DEF PipelineNext

\* The calls of an execution differ in their number only: they share amount and reference.
LEMMA AllocationFacts ==
  /\ \A c \in Allocations : /\ c.exec \in Releases
                            /\ c.amount = Share(c.exec)
                            /\ c.ref = Reference(c.exec)
  /\ \A x \in Releases, n \in 1..MaxCalls : Call(x, n) \in Allocations /\ Call(x, n).ref = Reference(x)
BY DEF Allocations, Call, Reference

\* The buckets are touched by a credit of one call, or a bucket is added.
BucketMove(c) == T!CreditBegin(c) \/ T!CreditStep(c)

\* Every step of a call keeps what is known of the buckets, and no entry disappears.
LEMMA MoveKeepsBuckets ==
  ASSUME AllocInv, NEW c \in Allocations, BucketMove(c)
  PROVE  AllocInv' /\ T!Refs \subseteq T!Refs'
<1> USE DEF T!Goto, T!ledgerVars, T!CreditPc
<1>1. CASE T!CreditBegin(c)
  <2>1. credited' = credited /\ bpc' = [bpc EXCEPT ![c] = IF c.ref \in T!Refs THEN "noop" ELSE "crediting"]
    BY <1>1 DEF T!CreditBegin
  <2>2. T!Refs' = T!Refs
    BY <2>1 DEF T!Refs
  <2>3. T!AllocatedOnce'
    BY <2>1 DEF AllocInv, T!AllocatedOnce
  <2> QED
    BY <2>1, <2>2, <2>3 DEF AllocInv
<1>2. CASE T!Credit(c)
  <2>1. /\ credited' = credited \cup {c} /\ bpc' = [bpc EXCEPT ![c] = "done"]
        /\ c.ref \notin T!Refs
    BY <1>2 DEF T!Credit
  <2>2. T!Refs' = T!Refs \cup {c.ref}
    BY <2>1 DEF T!Refs
  <2>3. T!AllocatedOnce'
    BY <2>1 DEF AllocInv, T!AllocatedOnce, T!Refs
  <2> QED
    BY <2>1, <2>2, <2>3 DEF AllocInv
<1>3. CASE T!CreditRetry(c) \/ T!CreditError(c)
  <2>1. credited' = credited /\ \E to \in {"replay", "error"} : bpc' = [bpc EXCEPT ![c] = to]
    BY <1>3 DEF T!CreditRetry, T!CreditError
  <2>2. T!Refs' = T!Refs
    BY <2>1 DEF T!Refs
  <2>3. T!AllocatedOnce'
    BY <2>1 DEF AllocInv, T!AllocatedOnce
  <2> QED
    BY <2>1, <2>2, <2>3 DEF AllocInv
<1> QED
  BY <1>1, <1>2, <1>3 DEF BucketMove, T!CreditStep

\* A bucket that is provisioned, and every step that is not one of the buckets', leave the
\* ledger as it is.
LEMMA LedgerStays ==
  ASSUME AllocInv, UNCHANGED <<bpc, credited>>
  PROVE  AllocInv' /\ T!Refs' = T!Refs
BY DEF AllocInv, T!AllocatedOnce, T!Refs

\* The current call of an execution whose caller waits is a call of Treasury.
LEMMA CurrentIsCall ==
  ASSUME CallInv, NEW x \in calling
  PROVE  Current(x) \in Allocations /\ Current(x).ref = Reference(x)
<1>1. x \in Releases /\ calls[x] \in 1..MaxCalls
  BY DEF CallInv
<1> QED
  BY <1>1, AllocationFacts DEF Current

-----------------------------------------------------------------------------
\* The ledger of the buckets, in every step.
LEMMA AllocInvStep ==
  ASSUME PipelineInv, [PipelineNext]_pipelineVars
  PROVE  AllocInv' /\ T!Refs \subseteq T!Refs'
<1>a. AllocInv /\ CallInv
  BY DEF PipelineInv
<1>b. ASSUME UNCHANGED bucketVars PROVE AllocInv' /\ T!Refs \subseteq T!Refs'
  BY <1>a, <1>b, LedgerStays DEF bucketVars
<1>0. CASE UNCHANGED pipelineVars
  BY <1>0, <1>b DEF pipelineVars
<1>1. CASE InflowStep
  BY <1>1, <1>b DEF InflowStep
<1>2. CASE BucketStep
  BY <1>2, <1>a, LedgerStays DEF BucketStep, T!ProvisionBucket, T!ledgerVars
<1>3. ASSUME NEW x \in Releases, BeginCall(x) \/ RetryRelease(x) PROVE UNCHANGED bucketVars
  BY <1>3 DEF BeginCall, RetryRelease
<1>4. ASSUME NEW x \in Releases, CallStep(x) PROVE AllocInv' /\ T!Refs \subseteq T!Refs'
  <2>1. Current(x) \in Allocations
    BY <1>a, <1>4, CurrentIsCall DEF CallStep
  <2>2. BucketMove(Current(x))
    BY <1>4 DEF CallStep, BucketMove
  <2> QED
    BY <1>a, <2>1, <2>2, MoveKeepsBuckets
<1>5. ASSUME NEW c \in Allocations, OrphanStep(c) PROVE AllocInv' /\ T!Refs \subseteq T!Refs'
  <2>1. BucketMove(c)
    BY <1>5 DEF OrphanStep, BucketMove, T!CreditStep
  <2> QED
    BY <1>a, <2>1, MoveKeepsBuckets
<1>6. ASSUME NEW j \in Deliveries, WorkerRelease(j) \/ WorkerDies(j) PROVE UNCHANGED bucketVars
  BY <1>6 DEF WorkerRelease, WorkerDies, bucketVars
<1>7. ASSUME NEW x \in Execs, RetryDies(x) PROVE UNCHANGED bucketVars
  BY <1>7 DEF RetryDies, bucketVars
<1> QED
  BY <1>0, <1>1, <1>2, <1>3, <1>4, <1>5, <1>6, <1>7, <1>b DEF PipelineNext

\* The calls and their callers, in every step: a caller that begins a call counts it, and
\* one that gets its answer or dies no longer waits.
LEMMA CallInvStep ==
  ASSUME PipelineInv, [PipelineNext]_pipelineVars
  PROVE  CallInv'
<1>a. CallInv
  BY DEF PipelineInv
<1>b. ASSUME calls' = calls, calling' \subseteq calling PROVE CallInv'
  BY <1>a, <1>b DEF CallInv
<1>0. CASE UNCHANGED pipelineVars
  BY <1>0, <1>b DEF pipelineVars, callVars
<1>1. CASE InflowStep \/ BucketStep \/ (\E c \in Allocations : OrphanStep(c))
  BY <1>1, <1>b DEF InflowStep, BucketStep, OrphanStep, callVars
<1>2. ASSUME NEW x \in Releases, BeginCall(x) PROVE CallInv'
  <2>1. MaxCalls \in Nat
    BY ProcessAssumption DEF MaxCalls
  <2>2. calls[x] \in Nat /\ calls[x] + 1 \in 0..MaxCalls
    BY <1>2, <1>a, <2>1 DEF BeginCall, CallInv
  <2> QED
    BY <1>2, <1>a, <2>2 DEF BeginCall, CallInv
<1>3. ASSUME NEW x \in Releases, CallStep(x) \/ RetryRelease(x) PROVE CallInv'
  BY <1>3, <1>b DEF CallStep, RetryRelease, Answered, Skipped, callVars
<1>4. ASSUME NEW j \in Deliveries, WorkerRelease(j) \/ WorkerDies(j) PROVE CallInv'
  BY <1>4, <1>b DEF WorkerRelease, WorkerDies, Answered, Skipped, callVars
<1>5. ASSUME NEW x \in Execs, RetryDies(x) PROVE CallInv'
  BY <1>5, <1>b DEF RetryDies
<1> QED
  BY <1>0, <1>1, <1>2, <1>3, <1>4, <1>5 DEF PipelineNext

-----------------------------------------------------------------------------
\* A worker's step that is not the release of an inflow adds no effect to a release: the
\* credit of a custom event fails, and a notification is none.
LEMMA OtherEffects ==
  ASSUME NEW j \in Deliveries, JobStep(j), ~Releasing(j)
  PROVE  \A x \in Releases : x \in effects' => x \in effects
<1> USE DEF execVars
<1>1. CASE CheckDuplicate(j) \/ LookupAccount(j) \/ WriteBegin(j) \/ WriteConflict(j) \/ CreateExecution(j)
  BY <1>1 DEF CheckDuplicate, LookupAccount, WriteBegin, WriteConflict, CreateExecution
<1>2. CASE ClaimEvent(j) \/ WriteInflow(j)
  BY <1>2 DEF ClaimEvent, WriteInflow
<1>3. CASE pc[j] = "act" /\ ReleaseFunds(j)
  <2>1. j.kind = "custom"
    BY <1>3, DeliveryAssumption DEF Releasing, ReleaseFunds
  <2>2. ASSUME NEW c \in Calls, c = <<"retry", FALSE>>, Effect(Exec(j), c[2]) PROVE effects' = effects
    <3>1. ~c[2]
      BY <2>2
    <3> QED
      BY <2>2, <3>1 DEF Effect
  <2> QED
    BY <1>3, <2>1, <2>2, Zenon DEF ReleaseFunds
<1>4. CASE NotifyWebhook(j)
  <2>1. effects' = effects \/ effects' = effects \cup {Exec(j)}
    BY <1>4, FirstAttemptOutcome
  <2>2. Exec(j)[2].action = "NOTIFY_WEBHOOK"
    BY <1>4 DEF NotifyWebhook, Exec
  <2>3. Exec(j) \notin Releases
    BY <2>2 DEF Releases
  <2> QED
    BY <2>1, <2>3
<1>5. CASE ReadStatus(j) \/ FlagForReview(j) \/ ApplyStatus(j) \/ RecordExecution(j)
  BY <1>5 DEF ReadStatus, FlagForReview, ApplyStatus, RecordExecution
<1>6. CASE EnqueueRetry(j) \/ Reconcile(j) \/ MarkProcessed(j)
  BY <1>6 DEF EnqueueRetry, Reconcile, MarkProcessed
<1> QED
  BY <1>1, <1>2, <1>3, <1>4, <1>5, <1>6 DEF JobStep

\* An answer is taken for an effect only when the current call was entered.
LEMMA AnswerIsEntered ==
  ASSUME PipelineInv, NEW x \in Execs, NEW outcome, Answered(x, outcome),
         effects' = effects \/ effects' = effects \cup {x}, T!Refs' = T!Refs
  PROVE  EffectsEntered'
<1>a. AllocInv /\ CallInv /\ EffectsEntered
  BY DEF PipelineInv
<1>1. CASE effects' = effects
  BY <1>a, <1>1 DEF EffectsEntered
<1>2. CASE bpc[Current(x)] \in {"done", "noop"}
  <2>1. x \in calling
    BY DEF Answered
  <2>2. Current(x) \in Allocations /\ Current(x).ref = Reference(x)
    BY <1>a, <2>1, CurrentIsCall
  <2>3. Reference(x) \in T!Refs
    BY <1>a, <1>2, <2>2 DEF AllocInv
  <2> QED
    BY <1>a, <2>3 DEF EffectsEntered
<1> QED
  BY <1>1, <1>2 DEF Answered, Answer

\* No step takes for an effect what is not in the ledger.
LEMMA EffectsEnteredStep ==
  ASSUME PipelineInv, [PipelineNext]_pipelineVars
  PROVE  EffectsEntered'
<1>a. AllocInv /\ CallInv /\ EffectsEntered /\ T!Refs \subseteq T!Refs'
  BY AllocInvStep DEF PipelineInv
<1>b. ASSUME \A x \in Releases : x \in effects' => x \in effects PROVE EffectsEntered'
  BY <1>a, <1>b DEF EffectsEntered
<1>c. ASSUME UNCHANGED vars PROVE effects' = effects
  BY <1>c DEF vars, execVars
<1>d. ASSUME UNCHANGED bucketVars PROVE T!Refs' = T!Refs
  BY <1>a, <1>d, LedgerStays DEF bucketVars
<1>0. CASE UNCHANGED pipelineVars
  BY <1>0, <1>b, <1>c DEF pipelineVars
<1>1. CASE InflowStep
  <2>1. CASE ApiStep
    BY <1>b, <2>1
    DEF ApiStep, ReceiveWebhook, DispatchEvent, CloseResolve, CloseStep, CloseArchive, CloseExpire,
        CloseAccount, PatchRead, PatchWrite, execVars
  <2>2. ASSUME NEW j \in Deliveries, ~Releasing(j), JobStep(j) PROVE EffectsEntered'
    BY <1>b, <2>2, OtherEffects
  <2>3. ASSUME NEW j \in Deliveries, FailJob(j) PROVE EffectsEntered'
    BY <1>b, <2>3 DEF FailJob, execVars
  <2>4. ASSUME NEW x \in Execs, RetryBegin(x) \/ RetryRecord(x) \/ RetryFinish(x) \/ RetryThrow(x)
        PROVE  EffectsEntered'
    BY <1>b, <2>4 DEF RetryBegin, RetryRecord, RetryFinish, RetryThrow, execVars
  <2>5. ASSUME NEW x \in Execs, x \notin Releases, RetryAct(x) PROVE EffectsEntered'
    <3>1. effects' = effects \/ effects' = effects \cup {x}
      BY <2>5, RetryOutcome
    <3> QED
      BY <1>b, <2>5, <3>1
  <2> QED
    BY <1>1, <2>1, <2>2, <2>3, <2>4, <2>5 DEF InflowStep
<1>2. CASE BucketStep \/ (\E c \in Allocations : OrphanStep(c))
  BY <1>2, <1>b, <1>c DEF BucketStep, OrphanStep
<1>3. ASSUME NEW x \in Releases, BeginCall(x) \/ CallStep(x) PROVE EffectsEntered'
  BY <1>3, <1>b, <1>c DEF BeginCall, CallStep
<1>4. ASSUME NEW x \in Releases, RetryRelease(x) PROVE EffectsEntered'
  <2>1. x \in Execs /\ RetryAct(x) /\ T!Refs' = T!Refs
    BY <1>4, <1>d DEF RetryRelease, Releases
  <2>2. effects' = effects \/ effects' = effects \cup {x}
    BY <2>1, RetryOutcome
  <2>3. CASE Answered(x, rresult'[x])
    BY <2>1, <2>2, <2>3, AnswerIsEntered
  <2>4. CASE effects' = effects
    BY <1>b, <2>4
  <2> QED
    BY <1>4, <2>3, <2>4 DEF RetryRelease, Skipped
<1>5. ASSUME NEW j \in Deliveries, WorkerRelease(j) PROVE EffectsEntered'
  <2>1. ReleaseFunds(j) /\ T!Refs' = T!Refs
    BY <1>5, <1>d DEF WorkerRelease
  <2>2. effects' = effects \/ effects' = effects \cup {Exec(j)}
    BY <2>1, FirstAttemptOutcome
  <2>3. CASE Answered(Exec(j), result'[j])
    <3>1. Exec(j) \in Execs
      BY <1>a, <2>3 DEF Answered, CallInv, Releases
    <3> QED
      BY <2>1, <2>2, <2>3, <3>1, AnswerIsEntered
  <2>4. CASE effects' = effects
    BY <1>b, <2>4
  <2> QED
    BY <1>5, <2>3, <2>4 DEF WorkerRelease, Skipped
<1>6. ASSUME NEW j \in Deliveries, WorkerDies(j) PROVE EffectsEntered'
  BY <1>6, <1>b DEF WorkerDies, CrashWorker, execVars
<1>7. ASSUME NEW x \in Execs, RetryDies(x) PROVE EffectsEntered'
  BY <1>7, <1>b DEF RetryDies, CrashRetry, execVars
<1> QED
  BY <1>0, <1>1, <1>2, <1>3, <1>4, <1>5, <1>6, <1>7 DEF PipelineNext

-----------------------------------------------------------------------------
\* The amount the model looks up for a transaction is the one every delivery of it carries.
LEMMA AmountOfTxn ==
  /\ \A j \in Deliveries : AmountOf(j.txn) = j.amount
  /\ \A t \in Txns : AmountOf(t) \in Nat
<1>1. ASSUME NEW j \in Deliveries PROVE AmountOf(j.txn) = j.amount
  <2> DEFINE i == CHOOSE i \in Deliveries : i.txn = j.txn
  <2>1. i \in Deliveries /\ i.txn = j.txn
    OBVIOUS
  <2>2. i.amount = j.amount
    BY <2>1, SameTxn
  <2> QED
    BY <2>2 DEF AmountOf
<1> QED
  BY <1>1, DeliveryAssumption DEF Txns

\* The share of an execution, in the terms of its rule: at least a kobo.
LEMMA ShareFacts ==
  ASSUME NEW x \in Releases
  PROVE  /\ x[1] \in Txns /\ x[2] \in Rules
         /\ x[2].value \in Nat /\ AmountOf(x[1]) \in Nat
         /\ Share(x) \in Nat \ {0}
         /\ x[2].percent => 10000 * Share(x) <= AmountOf(x[1]) * x[2].value
<1>1. x[1] \in Txns /\ x[2] \in Rules /\ Share(x) > 0
  BY DEF Releases, Execs
<1>2. x[2].value \in Nat /\ AmountOf(x[1]) \in Nat
  BY <1>1, AmountOfTxn, RuleAssumption DEF ValidRule
<1>3. ASSUME NEW v \in Nat, NEW a \in Nat
      PROVE  /\ (v * a) \div 10000 \in Nat
             /\ 10000 * ((v * a) \div 10000) <= a * v
  OBVIOUS
<1>4. Share(x) = IF x[2].percent THEN (x[2].value * AmountOf(x[1])) \div 10000 ELSE x[2].value
  BY DEF Share, CreditAmount
<1> QED
  BY <1>1, <1>2, <1>3, <1>4

\* A release that is COMPLETED and does not share its reference has one entry.
LEMMA InvImpliesCredited == PipelineInv => CompletedIsCredited
<1> SUFFICES ASSUME PipelineInv, NEW x \in Releases, exec[x] = "COMPLETED", OwnReference(x)
             PROVE  \E c \in credited : Entries(x) = {c}
  BY DEF CompletedIsCredited
<1>1. AllocInv /\ EffectsEntered /\ CompletedTookEffect
  BY DEF PipelineInv, Inv, EffectInv
<1>2. x \in Execs /\ x[2].action = "RELEASE_FUNDS" /\ Share(x) > 0
  BY DEF Releases
<1>3. x \in effects
  <2>1. ASSUME NEW j \in Deliveries, j.txn = x[1] PROVE CreditAmount(x[2], j.amount) # 0
    BY <1>2, <2>1, AmountOfTxn, ShareFacts DEF Share
  <2>2. x[2].action \in Effectful
    BY <1>2 DEF Effectful
  <2> QED
    BY <1>1, <1>2, <2>1, <2>2 DEF CompletedTookEffect
<1>4. PICK c \in credited : c.ref = Reference(x)
  BY <1>1, <1>3 DEF EffectsEntered, T!Refs
<1>5. \A d \in credited : d.ref = Reference(x) => d = c
  BY <1>1, <1>4 DEF AllocInv, T!AllocatedOnce
<1>6. \A d \in credited : d.exec \in Releases /\ d.ref = Reference(d.exec)
  BY <1>1, AllocationFacts DEF AllocInv
<1>7. c.exec = x
  BY <1>4, <1>6 DEF OwnReference, Reference
<1> QED
  BY <1>5, <1>6, <1>7 DEF Entries

\* Shares floored to whole kobo lose less than a kobo each, and add nothing.
LEMMA SumOfShares ==
  ASSUME NEW S, IsFiniteSet(S), NEW a \in Nat,
         NEW value, \A x \in S : value[x] \in Nat,
         NEW share, \A x \in S : share[x] = (value[x] * a) \div 10000
  PROVE  /\ 10000 * SumFunctionOnSet(share, S) <= a * SumFunctionOnSet(value, S)
         /\ a * SumFunctionOnSet(value, S)
              <= 10000 * SumFunctionOnSet(share, S) + 9999 * Cardinality(S)
<1>1. ASSUME NEW v \in Nat
      PROVE  /\ (v * a) \div 10000 \in Int
             /\ 10000 * ((v * a) \div 10000) <= a * v + 0
             /\ a * v <= 10000 * ((v * a) \div 10000) + 9999
  OBVIOUS
<1>2. PICK k \in Int : k = 10000
  OBVIOUS
<1>3. PICK d \in Int : d = 0
  OBVIOUS
<1>4. PICK e \in Int : e = 9999
  OBVIOUS
<1>5. a \in Int
  OBVIOUS
<1>6. \A x \in S : share[x] \in Int
  BY <1>1
<1>7. \A x \in S : value[x] \in Int
  OBVIOUS
<1>8. \A x \in S : k * share[x] <= a * value[x] + d
  BY <1>1, <1>2, <1>3
<1>9. \A x \in S : a * value[x] <= k * share[x] + e
  BY <1>1, <1>2, <1>4
<1>10. k * SumFunctionOnSet(share, S) <= a * SumFunctionOnSet(value, S) + d * Cardinality(S)
  BY ONLY IsFiniteSet(S), k \in Int, a \in Int, d \in Int, <1>5, <1>6, <1>7, <1>8, SumOfBounds
<1>11. a * SumFunctionOnSet(value, S) <= k * SumFunctionOnSet(share, S) + e * Cardinality(S)
  BY ONLY IsFiniteSet(S), k \in Int, a \in Int, e \in Int, <1>5, <1>6, <1>7, <1>9, SumOfBounds
<1>12. SumFunctionOnSet(value, S) \in Int /\ SumFunctionOnSet(share, S) \in Int
  BY <1>6, <1>7, SumOfAll
<1>13. Cardinality(S) \in Nat
  BY FS_CardinalityType
<1> QED
  BY <1>2, <1>3, <1>4, <1>5, <1>10, <1>11, <1>12, <1>13

\* An execution has at most one entry: the entries of executions that have one add up to
\* the shares of these.
LEMMA SumOfEntries ==
  ASSUME PipelineInv,
         NEW J \in SUBSET Releases, IsFiniteSet(J), \A x \in J : \E c \in credited : c.exec = x,
         NEW E, \A c \in credited : c \in E <=> c.exec \in J, E \subseteq credited,
         NEW share, \A x \in J : share[x] = Share(x),
         NEW amount, \A c \in Allocations : amount[c] = c.amount
  PROVE  SumFunctionOnSet(amount, E) = SumFunctionOnSet(share, J)
<1> DEFINE entry == [x \in J |-> CHOOSE c \in credited : c.exec = x]
<1>1. \A c \in credited : /\ c \in Allocations /\ c.exec \in Releases
                          /\ c.amount = Share(c.exec) /\ c.ref = Reference(c.exec)
  BY AllocationFacts DEF PipelineInv, AllocInv
<1>2. \A c, d \in credited : c.exec = d.exec => c = d
  BY <1>1 DEF PipelineInv, AllocInv, T!AllocatedOnce
<1>3. \A x \in J : share[x] \in Int
  BY ShareFacts
<1>4. \A x \in J : entry[x] \in credited /\ entry[x].exec = x
  OBVIOUS
<1> HIDE DEF entry
<1>5. \A x, y \in J : entry[x] = entry[y] => x = y
  BY <1>4
<1>6. \A x \in J : amount[entry[x]] = share[x]
  BY <1>1, <1>4
<1>7. \A x \in J : entry[x] \in E
  BY <1>4
<1>8. \A c \in E : \E x \in J : c = entry[x]
  BY <1>2, <1>4
<1> QED
  BY ONLY IsFiniteSet(J), <1>3, <1>5, <1>6, <1>7, <1>8, SumOfImage

\* The executions of one transaction are finitely many.
LEMMA FiniteExecs ==
  ASSUME NEW t, NEW S, S \subseteq {t} \X Rules
  PROVE  IsFiniteSet(S)
<1>1. IsFiniteSet({t})
  BY ONLY FS_Singleton
<1>2. IsFiniteSet(Rules)
  BY RuleAssumption
<1>3. IsFiniteSet({t} \X Rules)
  BY ONLY <1>1, <1>2, FS_Product
<1> QED
  BY <1>3, FS_Subset

\* The entries of a transaction add up to no more
\* than the shares of its rules, and those to no more than the inflow.
LEMMA InvImpliesWithin == PipelineInv => ReleasedWithinInflow
<1> SUFFICES ASSUME PipelineInv, NEW t \in Txns,
                    \A x \in ReleasesOf(t) : x[2].percent,
                    SumFunctionOnSet([x \in Releases |-> x[2].value], ReleasesOf(t)) <= 10000
             PROVE  SumFunctionOnSet([c \in Allocations |-> c.amount], EntriesOf(t)) <= AmountOf(t)
  BY DEF ReleasedWithinInflow
<1> DEFINE S      == ReleasesOf(t)
           J      == {x \in S : \E c \in credited : c.exec = x}
           share  == [x \in Releases |-> Share(x)]
           value  == [x \in Releases |-> x[2].value]
           amount == [c \in Allocations |-> c.amount]
<1>a. AllocInv /\ AmountOf(t) \in Nat
  BY AmountOfTxn DEF PipelineInv
<1>b. S \subseteq Releases /\ \A x \in S : x[1] = t
  BY DEF ReleasesOf
<1>c. IsFiniteSet(S)
  <2>1. S \subseteq {t} \X Rules
    BY DEF ReleasesOf, Releases, Execs
  <2> HIDE DEF S
  <2> QED
    BY ONLY <2>1, FiniteExecs
<1>d. \A c \in credited : /\ c \in Allocations /\ c.exec \in Releases
                          /\ c.amount = Share(c.exec) /\ c.ref = Reference(c.exec)
  BY <1>a, AllocationFacts DEF AllocInv
<1>1. SumFunctionOnSet(amount, EntriesOf(t)) = SumFunctionOnSet(share, J)
  <2>1. IsFiniteSet(J) /\ J \in SUBSET Releases
    BY <1>b, <1>c, FS_Subset
  <2>2. \A x \in J : share[x] = Share(x)
    BY <2>1
  <2>3. \A c \in Allocations : amount[c] = c.amount
    OBVIOUS
  <2>4. EntriesOf(t) \subseteq credited /\ \A c \in credited : c \in EntriesOf(t) <=> c.exec \in J
    BY <1>d DEF EntriesOf, ReleasesOf
  <2>5. \A x \in J : \E c \in credited : c.exec = x
    OBVIOUS
  <2> HIDE DEF J, share, amount
  <2> QED
    BY <2>1, <2>2, <2>3, <2>4, <2>5, SumOfEntries
<1>2. SumFunctionOnSet(share, J) <= SumFunctionOnSet(share, S)
  <2>1. \A x \in S : share[x] \in Nat
    BY <1>b, ShareFacts
  <2>2. J \in SUBSET S
    OBVIOUS
  <2> HIDE DEF S, J, share
  <2> QED
    BY ONLY <1>c, <2>1, <2>2, SumOfPart
<1>3. 10000 * SumFunctionOnSet(share, S) <= AmountOf(t) * SumFunctionOnSet(value, S)
  <2>1. \A x \in S : value[x] \in Nat
    BY <1>b, ShareFacts
  <2>2. \A x \in S : share[x] = (value[x] * AmountOf(t)) \div 10000
    BY <1>b DEF Share, CreditAmount
  <2>3. AmountOf(t) \in Nat
    BY <1>a
  <2> HIDE DEF S, share, value
  <2> QED
    BY ONLY <1>c, <2>1, <2>2, <2>3, SumOfShares
<1>4. /\ SumFunctionOnSet(share, S) \in Int /\ SumFunctionOnSet(share, J) \in Int
      /\ SumFunctionOnSet(value, S) \in Int
  <2>1. /\ \A x \in S : share[x] \in Int
        /\ \A x \in S : value[x] \in Int
        /\ \A x \in J : share[x] \in Int
    BY <1>b, ShareFacts
  <2>2. IsFiniteSet(J)
    BY <1>c, FS_Subset
  <2> HIDE DEF S, J, share, value
  <2> QED
    BY <1>c, <2>1, <2>2, SumOfAll
<1>5. SumFunctionOnSet(value, S) <= 10000
  OBVIOUS
<1> HIDE DEF S, J, share, value, amount
<1>6. AmountOf(t) * SumFunctionOnSet(value, S) <= AmountOf(t) * 10000
  BY <1>a, <1>4, <1>5
<1>7. SumFunctionOnSet(share, S) <= AmountOf(t)
  BY <1>a, <1>3, <1>4, <1>6
<1>8. SumFunctionOnSet(amount, EntriesOf(t)) <= AmountOf(t)
  BY <1>a, <1>1, <1>2, <1>4, <1>7
<1> QED
  BY <1>8 DEF amount

\* A percentage release that makes no call has a share of less than a kobo.
LEMMA NothingToRelease ==
  ASSUME OwnRules, NEW t \in Txns, NEW x \in Fulfilled(t), x \notin Releases
  PROVE  Share(x) = 0
<1>1. PICK j \in Deliveries : j.txn = t
  BY DEF Txns
<1>2. /\ x \in Execs /\ x[1] = j.txn /\ x[2] \in Rules /\ x = <<j.txn, x[2]>>
      /\ x[2].action = "RELEASE_FUNDS" /\ x[2].percent /\ exec[x] = "COMPLETED"
  BY <1>1 DEF Fulfilled, Execs
<1>3. x[2].account = j.account
  BY <1>2 DEF OwnRules
<1>4. AmountOf(x[1]) = j.amount /\ j.amount \in Nat /\ x[2].value \in Nat
  BY <1>2, AmountOfTxn, DeliveryAssumption, RuleAssumption DEF ValidRule
<1>5. ASSUME NEW v \in Nat, NEW a \in Nat
      PROVE  (v * a) \div 10000 \in Nat /\ (a = 0 => (v * a) \div 10000 = 0)
  OBVIOUS
<1>6. Share(x) = (x[2].value * j.amount) \div 10000
  BY <1>2, <1>4 DEF Share, CreditAmount
<1>7. Share(x) \in Nat /\ (j.amount = 0 => Share(x) = 0)
  BY <1>4, <1>5, <1>6
<1>8. CASE j.kind = "inflow"
  <2>1. ~(Share(x) > 0)
    BY <1>2, <1>3, <1>8 DEF Releases
  <2> QED
    BY <1>7, <2>1
<1>9. CASE j.kind # "inflow"
  BY <1>7, <1>9, DeliveryAssumption
<1> QED
  BY <1>8, <1>9

\* Every COMPLETED release that has something to credit has its entry, so the entries add
\* up to the floored shares of all of them.
LEMMA InvImpliesInFull == PipelineInv /\ OwnRules => FulfilledInFull
<1> SUFFICES ASSUME PipelineInv, OwnRules, NEW t \in Txns,
                    \A x \in Releases : x \in Fulfilled(t) => OwnReference(x)
             PROVE  LET owed  == AmountOf(t) * SumFunctionOnSet([x \in Execs |-> x[2].value], Fulfilled(t))
                        spent == SumFunctionOnSet([c \in Allocations |-> c.amount],
                                                  {c \in credited : c.exec \in Fulfilled(t)})
                    IN  /\ 10000 * spent <= owed
                        /\ owed <= 10000 * spent + 9999 * Cardinality(Fulfilled(t))
  BY DEF FulfilledInFull
<1> DEFINE F      == Fulfilled(t)
           J      == {x \in F : x \in Releases}
           E      == {c \in credited : c.exec \in F}
           share  == [x \in Execs |-> Share(x)]
           value  == [x \in Execs |-> x[2].value]
           amount == [c \in Allocations |-> c.amount]
<1>1. F \subseteq Execs /\ F \subseteq {t} \X Rules
  BY DEF Fulfilled, Execs
<1>2. IsFiniteSet(F) /\ IsFiniteSet(J)
  BY <1>1, FiniteExecs
<1>3. AmountOf(t) \in Nat
  BY AmountOfTxn
<1>4. ASSUME NEW x \in F
      PROVE  value[x] \in Nat /\ share[x] = (value[x] * AmountOf(t)) \div 10000
  <2>1. x \in Execs /\ x[1] = t /\ x[2] \in Rules /\ x[2].percent
    BY DEF Fulfilled, Execs
  <2>2. x[2].value \in Nat
    BY <2>1, RuleAssumption DEF ValidRule
  <2> QED
    BY <2>1, <2>2 DEF Share, CreditAmount
<1>5. ASSUME NEW x \in J PROVE \E c \in credited : c.exec = x
  <2>1. x \in Releases /\ exec[x] = "COMPLETED" /\ OwnReference(x)
    BY DEF Fulfilled
  <2>2. PICK c \in credited : Entries(x) = {c}
    BY <2>1, InvImpliesCredited DEF CompletedIsCredited
  <2> QED
    BY <2>2 DEF Entries
<1>6. \A c \in credited : c \in E <=> c.exec \in J
  BY AllocationFacts DEF PipelineInv, AllocInv
<1>7. \A x \in F \ J : share[x] = 0
  BY <1>1, NothingToRelease
<1>8. J \in SUBSET Releases /\ J \in SUBSET F /\ E \subseteq credited
  OBVIOUS
<1>9. \A x \in J : share[x] = Share(x)
  BY <1>1
<1>10. \A c \in Allocations : amount[c] = c.amount
  OBVIOUS
<1>11. \A n \in Nat, a \in Nat : (n * a) \div 10000 \in Int
  OBVIOUS
<1> HIDE DEF F, J, E, share, value, amount
<1>12. \A x \in F : value[x] \in Nat
  BY <1>4
<1>13. \A x \in F : share[x] = (value[x] * AmountOf(t)) \div 10000
  BY <1>4
<1>14. \A x \in F : share[x] \in Int
  BY <1>3, <1>11, <1>12, <1>13
<1>15. \A x \in J : \E c \in credited : c.exec = x
  BY <1>5
<1>16. SumFunctionOnSet(amount, E) = SumFunctionOnSet(share, J)
  BY <1>2, <1>6, <1>8, <1>9, <1>10, <1>15, SumOfEntries
<1>17. SumFunctionOnSet(share, F) = SumFunctionOnSet(share, J)
  BY ONLY <1>2, <1>7, <1>8, <1>14, SumOfSupport
<1>18. /\ 10000 * SumFunctionOnSet(share, F) <= AmountOf(t) * SumFunctionOnSet(value, F)
       /\ AmountOf(t) * SumFunctionOnSet(value, F)
            <= 10000 * SumFunctionOnSet(share, F) + 9999 * Cardinality(F)
  BY ONLY <1>2, <1>3, <1>12, <1>13, SumOfShares
<1>19. /\ 10000 * SumFunctionOnSet(amount, E) <= AmountOf(t) * SumFunctionOnSet(value, F)
       /\ AmountOf(t) * SumFunctionOnSet(value, F)
            <= 10000 * SumFunctionOnSet(amount, E) + 9999 * Cardinality(F)
  BY <1>16, <1>17, <1>18
<1> QED
  BY <1>19 DEF F, E, value, amount

-----------------------------------------------------------------------------
\* Before anything was delivered no call was made and no ledger has an entry.
LEMMA PipelineInitInv == PipelineInit => PipelineInv
<1> SUFFICES ASSUME PipelineInit PROVE PipelineInv
  OBVIOUS
<1>1. Inv
  BY InitInv DEF PipelineInit
<1>2. credited = {} /\ bpc = [c \in Allocations |-> "idle"]
  BY DEF PipelineInit, T!Init, T!Procs, T!Movers
<1>3. AllocInv
  BY <1>2 DEF AllocInv, T!CreditPc, T!AllocatedOnce
<1>4. MaxCalls \in Nat
  BY ProcessAssumption DEF MaxCalls
<1>5. CallInv
  BY <1>4 DEF PipelineInit, CallInv
<1>6. EffectsEntered
  BY DEF PipelineInit, Init, EffectsEntered
<1> QED
  BY <1>1, <1>3, <1>5, <1>6 DEF PipelineInv

\* The invariant of the joined system is inductive.
LEMMA PipelineInvStep == PipelineInv /\ [PipelineNext]_pipelineVars => PipelineInv'
<1> SUFFICES ASSUME PipelineInv, [PipelineNext]_pipelineVars PROVE PipelineInv'
  OBVIOUS
<1>1. Inv'
  BY PipelineStep, InvStep DEF PipelineInv
<1> QED
  BY <1>1, AllocInvStep, CallInvStep, EffectsEnteredStep DEF PipelineInv

\* Hence it always holds.
LEMMA PipelineInvariance == PipelineSpec => []PipelineInv
BY PipelineInitInv, PipelineInvStep, PTL DEF PipelineSpec

\* The joined system implements Inflow: calling credit() of the treasury, in place of a
\* call with any outcome, makes the workers do nothing they could not do before.
THEOREM PipelineImplementsInflow == PipelineSpec => Spec
<1>1. PipelineInit => Init
  BY DEF PipelineInit
<1> QED
  BY <1>1, PipelineStep, PTL DEF PipelineSpec, Spec

\* Hence what is proved of Inflow holds of the joined system: EC-04, EC-06, the bound on
\* calls, that nothing is lost but by a failure or a death, and that no retry, late answer
\* or death reopens an execution that is COMPLETED or FAILED.
THEOREM InflowResultsCarryOver ==
  PipelineSpec =>
    /\ [](TypeOK /\ RulesRunOnce /\ CompletedTookEffect /\ AttemptsBounded)
    /\ [](PendingIsOwned /\ RetryingHasJob)
    /\ ResolvedIsFinal
BY PipelineImplementsInflow, TypeCorrect, RulesDoRunOnce, CompletionIsEarned,
   AttemptsStayBounded, PendingStaysOwned, RetriesKeepTheirJob, ResolutionIsFinal, PTL

\* The joined system implements Treasury too: whoever calls credit(), and whether he waits
\* or has died, the buckets see a sequence of its transactions.
THEOREM PipelineImplementsTreasury == PipelineSpec => T!Spec
<1>1. PipelineInit => T!Init
  BY DEF PipelineInit
<1>2. ASSUME PipelineInv, [PipelineNext]_pipelineVars PROVE [T!Next]_(T!vars)
  <2>a. CallInv
    BY <1>2 DEF PipelineInv
  <2>b. UNCHANGED bucketVars => UNCHANGED T!vars
    BY DEF bucketVars, T!vars, T!ledgerVars, T!settlementVars, T!txVars
  <2>c. ASSUME NEW c \in Allocations, BucketMove(c) PROVE T!Next
    BY <2>c DEF BucketMove, T!Next
  <2>0. CASE UNCHANGED pipelineVars
    BY <2>0, <2>b DEF pipelineVars
  <2>1. CASE InflowStep
    BY <2>1, <2>b DEF InflowStep
  <2>2. CASE BucketStep
    BY <2>2 DEF BucketStep, T!Next
  <2>3. ASSUME NEW x \in Releases, BeginCall(x) \/ RetryRelease(x) PROVE UNCHANGED bucketVars
    BY <2>3 DEF BeginCall, RetryRelease
  <2>4. ASSUME NEW x \in Releases, CallStep(x) PROVE T!Next
    <3>1. Current(x) \in Allocations
      BY <2>a, <2>4, CurrentIsCall DEF CallStep
    <3> QED
      BY <2>4, <2>c, <3>1 DEF CallStep, BucketMove
  <2>5. ASSUME NEW c \in Allocations, OrphanStep(c) PROVE T!Next
    BY <2>5, <2>c DEF OrphanStep, BucketMove, T!CreditStep
  <2>6. ASSUME NEW j \in Deliveries, WorkerRelease(j) \/ WorkerDies(j) PROVE UNCHANGED bucketVars
    BY <2>6 DEF WorkerRelease, WorkerDies, bucketVars
  <2>7. ASSUME NEW x \in Execs, RetryDies(x) PROVE UNCHANGED bucketVars
    BY <2>7 DEF RetryDies, bucketVars
  <2> QED
    BY <1>2, <2>0, <2>1, <2>2, <2>3, <2>4, <2>5, <2>6, <2>7, <2>b DEF PipelineNext
<1> QED
  BY <1>1, <1>2, PipelineInvariance, PTL DEF PipelineSpec, T!Spec

\* EC-06 down to the bucket: a RELEASE_FUNDS that is COMPLETED has exactly one entry,
\* whichever of its attempts made it and wherever its workers died.
THEOREM CompletionIsCredited == PipelineSpec => []CompletedIsCredited
BY PipelineInvariance, InvImpliesCredited, PTL

\* Rules whose percentages add up to at most 100 never credit more than the inflow, for
\* any number of rules, buckets, attempts and deaths.
THEOREM InflowIsNotExceeded == PipelineSpec => []ReleasedWithinInflow
BY PipelineInvariance, InvImpliesWithin, PTL

-----------------------------------------------------------------------------
(* Balances.  A credit writes what follows from its snapshot: the snapshot *)
(* of every call that may still commit is the current sum.                 *)

LedgerInv ==
  /\ sum \in [Buckets -> Int] /\ latest \in [Buckets -> Int]
  /\ snap \in [Allocations -> Int]
  /\ bpc \in [Allocations -> T!CreditPc]
  /\ credited \subseteq Allocations /\ IsFiniteSet(credited)
  /\ overtaken \subseteq conflicted
  /\ \A c \in Allocations : bpc[c] = "crediting" /\ c \notin conflicted => snap[c] = sum[c.bucket]
  /\ BucketsAddUp

\* The calls name buckets and credit whole amounts.
LEMMA AllocationTypes == \A c \in Allocations : c.bucket \in Buckets /\ c.amount \in Int
<1> SUFFICES ASSUME NEW c \in Allocations PROVE c.bucket \in Buckets /\ c.amount \in Int
  OBVIOUS
<1>1. PICK x \in Releases, n \in 1..MaxCalls : c = Call(x, n)
  BY DEF Allocations
<1>2. c.bucket = Dest[x[2]] /\ c.amount = Share(x)
  BY <1>1 DEF Call
<1>3. x[2] \in {r \in Rules : r.action = "RELEASE_FUNDS"}
  BY ShareFacts DEF Releases
<1>4. Dest[x[2]] \in Buckets
  BY <1>3, DestAssumption
<1> QED
  BY <1>2, <1>4, ShareFacts

\* An entry adds its amount to what is entered in its bucket, and to no other.
LEMMA EntryAdds ==
  ASSUME LedgerInv, NEW c \in Allocations, c \notin credited, credited' = credited \cup {c},
         sum' = [sum EXCEPT ![c.bucket] = @ + c.amount],
         latest' = [latest EXCEPT ![c.bucket] = sum[c.bucket] + c.amount]
  PROVE  BucketsAddUp' /\ IsFiniteSet(credited')
<1> DEFINE amount == [a \in Allocations |-> a.amount]
<1>1. c.bucket \in Buckets /\ c.amount \in Int /\ \A a \in Allocations : amount[a] \in Int
  BY AllocationTypes
<1>2. IsFiniteSet(credited')
  BY FS_AddElement DEF LedgerInv
<1>3. ASSUME NEW b \in Buckets
      PROVE  latest'[b] = sum'[b] /\ sum'[b] = SumFunctionOnSet(amount, {a \in credited' : a.bucket = b})
  <2> DEFINE E == {a \in credited : a.bucket = b}
  <2>1. latest[b] = sum[b] /\ sum[b] = SumFunctionOnSet(amount, E) /\ sum[b] \in Int
    BY DEF LedgerInv, BucketsAddUp
  <2>2. CASE b = c.bucket
    <3>1. {a \in credited' : a.bucket = b} = E \cup {c}
      BY <2>2
    <3>2. c \notin E
      OBVIOUS
    <3>3. IsFiniteSet(E)
      BY FS_Subset DEF LedgerInv
    <3>4. \A a \in E \cup {c} : amount[a] \in Int
      BY <1>1 DEF LedgerInv
    <3>5. amount[c] = c.amount
      OBVIOUS
    <3> HIDE DEF E, amount
    <3>6. SumFunctionOnSet(amount, E \cup {c}) = SumFunctionOnSet(amount, E) + amount[c]
      BY ONLY <3>2, <3>3, <3>4, SumOfMore
    <3>7. sum'[b] = sum[b] + c.amount /\ latest'[b] = sum[b] + c.amount
      BY <1>1, <2>2 DEF LedgerInv
    <3> QED
      BY <2>1, <3>1, <3>5, <3>6, <3>7
  <2>3. CASE b # c.bucket
    <3>1. {a \in credited' : a.bucket = b} = E
      BY <2>3
    <3>2. sum'[b] = sum[b] /\ latest'[b] = latest[b]
      BY <2>3 DEF LedgerInv
    <3> QED
      BY <2>1, <3>1, <3>2
  <2> QED
    BY <2>2, <2>3
<1> QED
  BY <1>2, <1>3 DEF BucketsAddUp

\* Steps that write no entry leave the sums.
LEMMA SumsStay ==
  ASSUME BucketsAddUp, UNCHANGED <<sum, latest, credited>>
  PROVE  BucketsAddUp'
BY DEF BucketsAddUp

\* Every step of the buckets keeps balances and snapshots in line.
LEMMA LedgerStep == LedgerInv /\ [T!Next]_(T!vars) => LedgerInv'
<1> SUFFICES ASSUME LedgerInv, [T!Next]_(T!vars) PROVE LedgerInv'
  OBVIOUS
<1>a. BucketsAddUp
  BY DEF LedgerInv
<1> USE AllocationTypes DEF T!Goto, T!Crediting, T!CreditPc, T!ledgerVars, T!settlementVars, T!txVars
<1>1. CASE UNCHANGED T!vars
  BY <1>1, <1>a, SumsStay DEF LedgerInv, T!vars
<1>2. ASSUME NEW b \in Buckets, T!ProvisionBucket(b) PROVE LedgerInv'
  BY <1>2, <1>a, SumsStay DEF LedgerInv, T!ProvisionBucket
<1>3. ASSUME NEW c \in Allocations, T!CreditBegin(c) PROVE LedgerInv'
  <2>1. BucketsAddUp'
    BY <1>3, <1>a, SumsStay DEF T!CreditBegin
  <2> QED
    BY <1>3, <2>1 DEF LedgerInv, T!CreditBegin
<1>4. ASSUME NEW c \in Allocations, T!Credit(c) PROVE LedgerInv'
  <2>1. /\ c \notin credited /\ credited' = credited \cup {c}
        /\ sum' = [sum EXCEPT ![c.bucket] = @ + c.amount]
    BY <1>4 DEF T!Credit, T!Refs
  <2>2. latest' = [latest EXCEPT ![c.bucket] = sum[c.bucket] + c.amount]
    <3>1. snap[c] = sum[c.bucket] /\ c \notin overtaken
      BY <1>4 DEF LedgerInv, T!Credit
    <3> QED
      BY <1>4, <3>1 DEF T!Credit
  <2>3. BucketsAddUp' /\ IsFiniteSet(credited')
    BY <2>1, <2>2, EntryAdds
  <2>4. /\ sum' \in [Buckets -> Int] /\ latest' \in [Buckets -> Int]
        /\ snap' \in [Allocations -> Int] /\ bpc' \in [Allocations -> T!CreditPc]
        /\ credited' \subseteq Allocations
    BY <1>4, <2>1, <2>2 DEF LedgerInv, T!Credit
  <2>5. overtaken' \subseteq conflicted'
    BY <1>4 DEF LedgerInv, T!Credit
  <2>6. ASSUME NEW d \in Allocations, bpc'[d] = "crediting", d \notin conflicted'
        PROVE  snap'[d] = sum'[d.bucket]
    BY <1>4, <2>1, <2>6 DEF LedgerInv, T!Credit
  <2> QED
    BY <2>3, <2>4, <2>5, <2>6 DEF LedgerInv
<1>5. ASSUME NEW c \in Allocations, T!CreditRetry(c) \/ T!CreditError(c) PROVE LedgerInv'
  <2>1. BucketsAddUp'
    BY <1>5, <1>a, SumsStay DEF T!CreditRetry, T!CreditError
  <2> QED
    BY <1>5, <2>1 DEF LedgerInv, T!CreditRetry, T!CreditError
<1> QED
  BY <1>1, <1>2, <1>3, <1>4, <1>5 DEF T!Next, T!CreditStep

\* The first buckets have no entries and balance 0.
LEMMA LedgerInit == T!Init => LedgerInv
<1> SUFFICES ASSUME T!Init PROVE LedgerInv
  OBVIOUS
<1> DEFINE amount == [a \in Allocations |-> a.amount]
<1>1. /\ sum = [b \in Buckets |-> 0] /\ latest = [b \in Buckets |-> 0]
      /\ credited = {} /\ overtaken = {} /\ conflicted = {}
  BY DEF T!Init
<1>2. /\ bpc \in [Allocations -> T!CreditPc] /\ snap \in [Allocations -> Int]
      /\ \A c \in Allocations : bpc[c] = "idle"
  BY DEF T!Init, T!Procs, T!Movers, T!CreditPc
<1>3. IsFiniteSet({})
  BY FS_EmptySet
<1>4. SumFunctionOnSet(amount, {}) = 0
  <2> HIDE DEF amount
  <2> QED
    BY ONLY <1>3, SumOfAll
<1>5. \A b : {c \in credited : c.bucket = b} = {}
  BY <1>1
<1>6. BucketsAddUp
  BY <1>1, <1>4, <1>5 DEF BucketsAddUp
<1> QED
  BY <1>1, <1>2, <1>3, <1>6 DEF LedgerInv

\* Every bucket's O(1) balance is the sum of the shares that rules released to it, for any
\* number of buckets, rules and inflows, and any interleaving of the calls that credit them.
THEOREM BalancesAddUp == PipelineSpec => []BucketsAddUp
<1>1. LedgerInv => BucketsAddUp
  BY DEF LedgerInv
<1> QED
  BY <1>1, LedgerInit, LedgerStep, PipelineImplementsTreasury, PTL DEF T!Spec

\* What rules promise arrives: the entries of the COMPLETED percentage releases of an inflow
\* add up to their percentages of it, less at most the fraction of a kobo each rounds off,
\* for any number of rules and whichever attempts of which worker made them.
THEOREM PromisesAreKept == PipelineSpec => []FulfilledInFull
<1>1. PipelineSpec => []OwnRules
  BY PipelineImplementsInflow, OwnedAlways, PTL DEF OwnedInv
<1> QED
  BY <1>1, PipelineInvariance, InvImpliesInFull, PTL

\* Percentages that add up to 100 are allocated to the last kobo but one per rule: for any
\* number of rules and any amount, the floored shares handleReleaseFunds computes never
\* exceed the inflow, and fall short of it by less than a kobo per rule.
THEOREM SharesExhaust ==
  ASSUME NEW S, IsFiniteSet(S), \A r \in S : ValidRule(r) /\ r.percent,
         SumFunctionOnSet([r \in S |-> r.value], S) = 10000,
         NEW amount \in Nat
  PROVE  LET spent == SumFunctionOnSet([r \in S |-> CreditAmount(r, amount)], S)
         IN  spent <= amount /\ amount < spent + Cardinality(S)
<1> DEFINE value == [r \in S |-> r.value]
           share == [r \in S |-> CreditAmount(r, amount)]
<1>1. \A r \in S : value[r] \in Nat
  BY DEF ValidRule
<1>2. \A r \in S : share[r] = (value[r] * amount) \div 10000
  BY DEF CreditAmount
<1>3. \A r \in S : share[r] \in Int
  BY <1>1, <1>2
<1>4. SumFunctionOnSet(value, S) = 10000
  OBVIOUS
<1>5. S # {}
  BY <1>1, <1>4, SumOfAll
<1> HIDE DEF value, share
<1>6. /\ 10000 * SumFunctionOnSet(share, S) <= amount * SumFunctionOnSet(value, S)
      /\ amount * SumFunctionOnSet(value, S)
           <= 10000 * SumFunctionOnSet(share, S) + 9999 * Cardinality(S)
  BY ONLY IsFiniteSet(S), amount \in Nat, <1>1, <1>2, SumOfShares
<1>7. SumFunctionOnSet(share, S) \in Int
  BY <1>3, SumOfAll
<1>8. Cardinality(S) \in Nat \ {0}
  BY <1>5, FS_CardinalityType, FS_EmptySet
<1>9. /\ SumFunctionOnSet(share, S) <= amount
      /\ amount < SumFunctionOnSet(share, S) + Cardinality(S)
  BY <1>4, <1>6, <1>7, <1>8
<1> QED
  BY <1>9 DEF share
=============================================================================
