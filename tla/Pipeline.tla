------------------------------ MODULE Pipeline ------------------------------
(***************************************************************************)
(* The composition of Inflow and Treasury: what a RELEASE_FUNDS rule does  *)
(* to the buckets.  In Inflow the downstream call of a rule is one step    *)
(* with an arbitrary outcome; here the call of a RELEASE_FUNDS rule is an  *)
(* AllocationService.credit of Treasury, made by the worker's first        *)
(* attempt (RuleEngineService.handleReleaseFunds) or by the retry worker   *)
(* (RetryProcessorService.attemptRelease), and its outcome is what that    *)
(* transaction did.  Every other step is a step of one of the two modules. *)
(*                                                                         *)
(* A call is begun, runs as the process of Treasury, and is answered.  A   *)
(* caller that dies leaves its call behind: a COMMIT that was already sent *)
(* may still take place, but nobody replays the transaction.               *)
(***************************************************************************)
EXTENDS Inflow, Functions

CONSTANTS
  Buckets,      \* treasury buckets of the business
  Provisioned,  \* the buckets that exist when the model starts
  Dest,         \* the bucket a RELEASE_FUNDS rule names, by rule
  MaxRetries    \* runSerializable's maxRetries

ASSUME DestAssumption ==
  /\ Provisioned \subseteq Buckets
  /\ Dest \in [{r \in Rules : r.action = "RELEASE_FUNDS"} -> Buckets]
  /\ MaxRetries \in Nat

VARIABLES
  status, sum, latest, credited, snap, conflicted, overtaken, attempts,
  settlement, debits, paid,  \* as in Treasury
  bpc,      \* its pc
  rowLock,  \* its lock
  calls,    \* how many calls of credit() each execution has begun
  calling   \* executions whose caller waits for its call

bucketVars   == <<status, sum, latest, credited, snap, conflicted, overtaken, attempts,
                  settlement, debits, paid, bpc, rowLock>>
callVars     == <<calls, calling>>
pipelineVars == <<vars, bucketVars, callVars>>

-----------------------------------------------------------------------------
AmountOf(t) == (CHOOSE j \in Deliveries : j.txn = t).amount
Share(x)    == CreditAmount(x[2], AmountOf(x[1]))

\* The executions that have something to credit to a bucket.
Releases ==
  {x \in Execs :
     /\ x[2].action = "RELEASE_FUNDS"
     /\ \E j \in Deliveries : j.kind = "inflow" /\ j.txn = x[1] /\ j.account = x[2].account
     /\ Share(x) > 0}

\* Bound: one more call than an execution can begin.
MaxCalls == 2 + MaxAttempts + MaxStalls

\* Mutant: the reference has the number of the attempt in it.
CallPerAttempt(x, n) ==
  [exec |-> x, n |-> n, bucket |-> Dest[x[2]], amount |-> Share(x), ref |-> <<x[1], Dest[x[2]], n>>]

\* The n-th call for an execution.  The reference is built from the transaction and the
\* bucket only, in both workers.
Call(x, n) ==
  [exec |-> x, n |-> n, bucket |-> Dest[x[2]], amount |-> Share(x), ref |-> <<x[1], Dest[x[2]]>>]

Allocations == {Call(x, n) : x \in Releases, n \in 1..MaxCalls}

\* The buckets, without the settlements, transfers and closings Treasury also has.
T == INSTANCE Treasury WITH
  Opening <- [b \in Buckets |-> 0], Withdrawals <- {}, Transfers <- {}, Credits <- Allocations,
  Closings <- {}, Bank <- "Bank",
  MayAbandon <- FALSE, MayLoseAck <- FALSE, pc <- bpc, lock <- rowLock

PipelineInit ==
  /\ Init
  /\ T!Init
  /\ calls   = [x \in Releases |-> 0]
  /\ calling = {}

-----------------------------------------------------------------------------
(* A call, from its begin to its answer.                                   *)

\* The worker, or the retry worker, executes the action of x.
FirstAttempt(x) == \E j \in Deliveries : pc[j] = "act" /\ Exec(j) = x
RetryAttempt(x) == rpc[x] = "active"

\* The bucket is found.  The first attempt also asks that it is ACTIVE.
Usable(x) ==
  IF FirstAttempt(x) THEN status[Dest[x[2]]] = "ACTIVE" ELSE status[Dest[x[2]]] # "NONE"

\* The caller has found the bucket and computed the amount, and calls credit().
BeginCall(x) ==
  /\ FirstAttempt(x) \/ RetryAttempt(x)
  /\ x \notin calling
  /\ Usable(x)
  /\ calls[x] < MaxCalls
  /\ calls' = [calls EXCEPT ![x] = @ + 1]
  /\ calling' = calling \cup {x}
  /\ UNCHANGED <<vars, bucketVars>>

Current(x) == Call(x, calls[x])

\* credit() runs, replayed by its caller as long as that one lives.
CallStep(x) ==
  /\ x \in calling
  /\ T!CreditBegin(Current(x)) \/ T!CreditStep(Current(x))
  /\ UNCHANGED <<vars, callVars>>

\* The COMMIT of a caller that died.
OrphanStep(c) ==
  /\ c # Current(c.exec) \/ c.exec \notin calling
  /\ T!Credit(c)
  /\ UNCHANGED <<vars, callVars>>

\* Mutant: an error of credit() is taken for success.
AnswerOptimistic(x, outcome) ==
  /\ bpc[Current(x)] \in {"done", "noop", "error"}
  /\ outcome = "ok"
  /\ x \in effects'

\* What the caller makes of its call: a credit that was entered, or was entered before,
\* is "ok", unless the answer to the COMMIT or the update after it is lost.
Answer(x, outcome) ==
  \/ /\ bpc[Current(x)] \in {"done", "noop"}
     /\ outcome \in {"ok", "retry"}
     /\ x \in effects'
  \/ /\ bpc[Current(x)] = "error"
     /\ outcome = "retry"
     /\ effects' = effects

Answered(x, outcome) ==
  /\ x \in calling
  /\ Answer(x, outcome)
  /\ calling' = calling \ {x}
  /\ calls' = calls

-----------------------------------------------------------------------------
(* handleReleaseFunds and attemptRelease, joined with their call.          *)

\* No call is made: the payload has no amount, the bucket is not there or closed, or
\* the share is less than a kobo.
Skipped(x, outcome, usable) ==
  /\ effects' = effects
  /\ UNCHANGED callVars
  /\ x \notin calling
  /\ IF usable /\ (x[2].percent \/ x[2].value > 0)
     THEN Share(x) = 0 /\ outcome = "ok"
     ELSE outcome = "fail"

\* A custom event has no ledger entry: its credit fails on the foreign key.
Releasing(j) == pc[j] = "act" /\ Rule(j).action = "RELEASE_FUNDS" /\ j.kind = "inflow"

WorkerRelease(j) ==
  /\ Releasing(j)
  /\ ReleaseFunds(j)
  /\ \/ Answered(Exec(j), result'[j])
     \/ Skipped(Exec(j), result'[j], status[Dest[Rule(j)]] = "ACTIVE")
  /\ UNCHANGED bucketVars

RetryRelease(x) ==
  /\ x \in Releases
  /\ RetryAct(x)
  /\ \/ Answered(x, rresult'[x])
     \/ Skipped(x, rresult'[x], status[Dest[x[2]]] # "NONE")
  /\ UNCHANGED bucketVars

\* A caller that dies leaves its call.
WorkerDies(j) ==
  /\ CrashWorker(j)
  /\ calling' = IF Releasing(j) THEN calling \ {Exec(j)} ELSE calling
  /\ UNCHANGED <<bucketVars, calls>>

RetryDies(x) ==
  /\ CrashRetry(x)
  /\ calling' = calling \ {x}
  /\ UNCHANGED <<bucketVars, calls>>

-----------------------------------------------------------------------------
\* The steps of Inflow that make no call of credit().  An error of credit() is caught, so
\* the job does not fail while its call runs.
InflowStep ==
  /\ \/ ApiStep
     \/ \E j \in Deliveries :
          \/ ~Releasing(j) /\ JobStep(j)
          \/ ~(Releasing(j) /\ Exec(j) \in calling) /\ FailJob(j)
     \/ \E x \in Execs :
          \/ RetryBegin(x)
          \/ x \notin Releases /\ RetryAct(x)
          \/ RetryRecord(x)
          \/ RetryFinish(x)
          \/ x \notin calling /\ RetryThrow(x)
  /\ UNCHANGED <<bucketVars, callVars>>

\* The bucket a rule names may be provisioned only now.
BucketStep ==
  /\ \E b \in Buckets : T!ProvisionBucket(b)
  /\ UNCHANGED <<vars, callVars>>

PipelineNext ==
  \/ InflowStep
  \/ BucketStep
  \/ \E x \in Releases : BeginCall(x) \/ CallStep(x) \/ RetryRelease(x)
  \/ \E c \in Allocations : OrphanStep(c)
  \/ \E j \in Deliveries : WorkerRelease(j) \/ WorkerDies(j)
  \/ \E x \in Execs : RetryDies(x)

PipelineSpec == PipelineInit /\ [][PipelineNext]_pipelineVars

-----------------------------------------------------------------------------
(* Properties.                                                             *)

\* The entries an execution made in the ledger of its bucket.
Entries(x) == {c \in credited : c.exec = x}

\* An execution that shares its reference with no other one.
OwnReference(x) == \A y \in Releases : Dest[y[2]] = Dest[x[2]] /\ y[1] = x[1] => y = x

\* A RELEASE_FUNDS that is COMPLETED has exactly one entry in its bucket, whichever of
\* its attempts made it: the first, a retry, or one whose worker died after the COMMIT.
\* (Two rules that name one bucket share the reference, and only one is credited.)
CompletedIsCredited ==
  \A x \in Releases :
    exec[x] = "COMPLETED" /\ OwnReference(x) => \E c \in credited : Entries(x) = {c}

\* What a transaction may release, and the entries it has made in the buckets.
ReleasesOf(t) == {x \in Releases : x[1] = t}
EntriesOf(t)  == {c \in credited : c.exec[1] = t}

\* Rules whose percentages add up to at most 100 never credit more than the inflow,
\* over first attempts, replays, retries, lost answers and callers that die.
ReleasedWithinInflow ==
  \A t \in Txns :
    /\ \A x \in ReleasesOf(t) : x[2].percent
    /\ SumFunctionOnSet([x \in Releases |-> x[2].value], ReleasesOf(t)) <= 10000
    => SumFunctionOnSet([c \in Allocations |-> c.amount], EntriesOf(t)) <= AmountOf(t)

\* The balance of a bucket that rules release to, as credit() maintains it and as the
\* O(1) read returns it, is the sum of the shares entered there: no answer that was
\* lost, no replay and no COMMIT of a caller that died is counted twice or left out.
BucketsAddUp ==
  \A b \in Buckets :
    /\ latest[b] = sum[b]
    /\ sum[b] = SumFunctionOnSet([c \in Allocations |-> c.amount], {c \in credited : c.bucket = b})

\* The percentage releases of a transaction that are COMPLETED.
Fulfilled(t) ==
  {x \in Execs : x[1] = t /\ x[2].action = "RELEASE_FUNDS" /\ x[2].percent /\ exec[x] = "COMPLETED"}

\* The buckets receive what the rules promise: the entries of the releases that are
\* COMPLETED add up to their percentages of the inflow, never more and less by no more
\* than the fraction of a kobo each of them rounds off.  (Releases that share a reference
\* are the exception again.)
FulfilledInFull ==
  \A t \in Txns :
    (\A x \in Releases : x \in Fulfilled(t) => OwnReference(x)) =>
      LET owed  == AmountOf(t) * SumFunctionOnSet([x \in Execs |-> x[2].value], Fulfilled(t))
          spent == SumFunctionOnSet([c \in Allocations |-> c.amount],
                                    {c \in credited : c.exec \in Fulfilled(t)})
      IN  /\ 10000 * spent <= owed
          /\ owed <= 10000 * spent + 9999 * Cardinality(Fulfilled(t))
=============================================================================
