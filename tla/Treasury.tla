------------------------------ MODULE Treasury ------------------------------
(***************************************************************************)
(* The treasury layer of AccountOS: buckets (TreasuryBucket), their        *)
(* append-only ledger (BucketLedgerEntry) and the settlements that pay     *)
(* money out of them (Settlement).  The code is SettlementService,         *)
(* TreasuryService and AllocationService; the processes are the HTTP       *)
(* requests and queue jobs that call them, any number at a time.           *)
(*                                                                         *)
(* A process IS its request: a record with the bucket, the destination and *)
(* the amount the caller asked for.  Requests of the sets Withdrawals,     *)
(* Transfers, Credits and Closings run at most once and need never run.    *)
(*                                                                         *)
(* The database is PostgreSQL, and the model keeps the three things of it  *)
(* the code depends on:                                                    *)
(*  - a Serializable transaction (TX1 of a settlement, and credit()) reads *)
(*    the snapshot taken by its first statement, so it is two steps: Begin *)
(*    reads, the commit writes.  Two Serializable transactions that read   *)
(*    what the other writes cannot both commit: the second one fails       *)
(*    (conflicted);                                                        *)
(*  - the default transactions (TX2, transfers, internal settlements) are  *)
(*    Read Committed and lock the bucket row FOR UPDATE before they read.  *)
(*    Serializable transactions do not see them as conflicts.  One that    *)
(*    takes one lock is one step; one that takes two holds the first while *)
(*    it waits for the second, and the wait may end in an error (Prisma's  *)
(*    time limit for a transaction, or PostgreSQL's deadlock detection);   *)
(*  - inserting a ledger entry or a settlement share-locks its bucket row, *)
(*    so it waits for a FOR UPDATE lock on it.                             *)
(***************************************************************************)
EXTENDS Integers, FiniteSets, Functions

CONSTANTS
  Buckets,        \* treasury buckets of one business
  Provisioned,    \* the buckets that exist when the model starts
  Opening,        \* their ledger balance at that time, in kobo
  Withdrawals,    \* calls of SettlementService.initiate: [id, bucket, dest, amount]
  Transfers,      \* calls of transferBetweenBuckets: [id, bucket, dest, amount]
  Credits,        \* calls of AllocationService.credit: [id, bucket, amount, ref]
  Closings,       \* calls of closeBucket: [id, bucket]
  Bank,           \* destination: an account outside, reached through Nomba
  Free,           \* the lock value of a bucket row nobody holds
  MaxRetries,     \* runSerializable's maxRetries
  MayAbandon,     \* TRUE: a settlement's handler may die between two steps
  MayLoseAck      \* TRUE: the answer to a settlement's last COMMIT may be lost

Movers == Withdrawals \cup Transfers
Procs  == Movers \cup Credits \cup Closings

ASSUME BucketAssumption ==
  /\ Provisioned \subseteq Buckets
  /\ Opening \in [Buckets -> Nat]
  /\ \A b \in Buckets \ Provisioned : Opening[b] = 0
  /\ Bank \notin Buckets

\* @Min(1) on every amountKobo; the code rejects a transfer onto itself.
ASSUME RequestAssumption ==
  /\ \A w \in Withdrawals :
       /\ w.bucket \in Buckets
       /\ w.dest \in Buckets \cup {Bank}
       /\ w.amount \in Nat \ {0}
  /\ \A t \in Transfers :
       /\ t.bucket \in Buckets
       /\ t.dest \in Buckets
       /\ t.amount \in Nat \ {0}
  /\ \A c \in Credits : c.bucket \in Buckets /\ c.amount \in Nat \ {0}
  /\ \A k \in Closings : k.bucket \in Buckets
  /\ Withdrawals \cap Transfers = {}
  /\ Movers \cap Credits = {}
  /\ Closings \cap (Movers \cup Credits) = {}
  /\ Free \notin Movers

\* Tables and request logs are finite.
ASSUME FiniteAssumption ==
  IsFiniteSet(Buckets) /\ IsFiniteSet(Withdrawals) /\ IsFiniteSet(Credits)

ASSUME BoundAssumption ==
  /\ MaxRetries \in Nat
  /\ MayAbandon \in BOOLEAN
  /\ MayLoseAck \in BOOLEAN

VARIABLES
  status,      \* TreasuryBucket.status, "NONE" before the bucket exists
  sum,         \* SUM(CREDIT) - SUM(DEBIT) over the bucket's ledger entries
  latest,      \* cumulativeAmountKobo of the bucket's most recent entry
  credited,    \* calls of credit() whose CREDIT entry is in the ledger
  settlement,  \* Settlement.status of each withdrawal, "NONE" before TX1 commits
  debits,      \* number of DEBIT entries written for each withdrawal
  paid,        \* withdrawals whose transfer Nomba has accepted
  pc,          \* where each process is
  snap,        \* what a process read when its transaction began
  conflicted,  \* open Serializable transactions that can no longer commit
  overtaken,   \* open credits whose bucket got another entry since they began
  lock,        \* holder of the bucket row's FOR UPDATE lock
  attempts     \* serialization failures of a credit so far

ledgerVars     == <<sum, latest, credited>>
settlementVars == <<settlement, debits, paid>>
txVars         == <<snap, conflicted, overtaken, attempts>>
vars == <<status, ledgerVars, settlementVars, pc, txVars, lock>>

SettlementStatus == {"NONE", "PENDING", "PROCESSING", "COMPLETED", "FAILED"}
InFlight         == {"PENDING", "PROCESSING"}
BucketStatus     == {"NONE", "ACTIVE", "CLOSED"}

WithdrawalPc == {"idle", "resolved", "reserving", "rejected", "reserved",
                 "processing", "locked", "paid", "failing", "done", "failed",
                 "abandoned"}
TransferPc   == {"idle", "locked", "done", "rejected"}
CreditPc     == {"idle", "replay", "crediting", "done", "noop", "error"}
ClosingPc    == {"idle", "resolved", "zero", "closing", "done", "rejected"}

-----------------------------------------------------------------------------
\* What requests ask for between them.
AmountOf(requests) == SumFunctionOnSet([r \in requests |-> r.amount], requests)

\* reservedKobo: SUM(amountKobo) of a bucket's PENDING and PROCESSING settlements.
\* Nothing stores it; every reader computes it from the rows its snapshot sees.
Held(b)  == {w \in Withdrawals : w.bucket = b /\ settlement[w] \in InFlight}
reserved == [b \in Buckets |-> AmountOf(Held(b))]

Init ==
  /\ status     = [b \in Buckets |-> IF b \in Provisioned THEN "ACTIVE" ELSE "NONE"]
  /\ sum        = Opening
  /\ latest     = Opening
  /\ credited   = {}
  /\ settlement = [w \in Withdrawals |-> "NONE"]
  /\ debits     = [w \in Withdrawals |-> 0]
  /\ paid       = {}
  /\ pc         = [p \in Procs |-> "idle"]
  /\ snap       = [p \in Procs |-> 0]
  /\ conflicted = {}
  /\ overtaken  = {}
  /\ lock       = [b \in Buckets |-> Free]
  /\ attempts   = [c \in Credits |-> 0]

Goto(p, from, to) ==
  /\ pc[p] = from
  /\ pc' = [pc EXCEPT ![p] = to]

\* The open TX1s, and the open credits, on bucket b.
Reserving(b) == {w \in Withdrawals : pc[w] = "reserving" /\ w.bucket = b}
Crediting(b) == {c \in Credits : pc[c] = "crediting" /\ c.bucket = b}

\* The references in the ledger, where they are unique.
Refs == {c.ref : c \in credited}

\* Drop every FOR UPDATE lock the process holds (its transaction ended).
Unlock(p) == lock' = [b \in Buckets |-> IF lock[b] = p THEN Free ELSE lock[b]]

-----------------------------------------------------------------------------
(* TreasuryService.provisionBucket.                                        *)

ProvisionBucket(b) ==
  /\ status[b] = "NONE"
  /\ status' = [status EXCEPT ![b] = "ACTIVE"]
  /\ UNCHANGED <<ledgerVars, settlementVars, pc, txVars, lock>>

-----------------------------------------------------------------------------
(* SettlementService.initiate.                                             *)

\* resolveBucket, outside any transaction.
Initiate(w) ==
  /\ status[w.bucket] = "ACTIVE"
  /\ Goto(w, "idle", "resolved")
  /\ UNCHANGED <<status, ledgerVars, settlementVars, txVars, lock>>

\* TX1's first statement takes the snapshot, before it waits for the lock.
BeginReserve(w) ==
  /\ Goto(w, "resolved", "reserving")
  /\ snap' = [snap EXCEPT ![w] = latest[w.bucket] - reserved[w.bucket]]
  /\ conflicted' = conflicted \ {w}
  /\ UNCHANGED <<status, ledgerVars, settlementVars, overtaken, attempts, lock>>

\* Mutant: TX1 without Serializable isolation.
ReserveUnserialized(w) ==
  /\ lock[w.bucket] = Free
  /\ snap[w] >= w.amount
  /\ Goto(w, "reserving", "reserved")
  /\ settlement' = [settlement EXCEPT ![w] = "PENDING"]
  /\ UNCHANGED <<status, ledgerVars, debits, paid, txVars, lock>>

\* TX1: enough available, so the Settlement(PENDING) row is created.
Reserve(w) ==
  /\ lock[w.bucket] = Free
  /\ snap[w] >= w.amount
  /\ w \notin conflicted
  /\ Goto(w, "reserving", "reserved")
  /\ settlement' = [settlement EXCEPT ![w] = "PENDING"]
  /\ conflicted' = conflicted \cup (Reserving(w.bucket) \ {w})
  /\ UNCHANGED <<status, ledgerVars, debits, paid, snap, overtaken, attempts, lock>>

\* TX1: 422 on too little available, or the transaction fails (a serialization
\* failure, which initiate does not retry, or a transaction timeout).
RejectReserve(w) ==
  /\ Goto(w, "reserving", "rejected")
  /\ UNCHANGED <<status, ledgerVars, settlementVars, txVars, lock>>

MarkProcessing(w) ==
  /\ Goto(w, "reserved", "processing")
  /\ settlement' = [settlement EXCEPT ![w] = "PROCESSING"]
  /\ UNCHANGED <<status, ledgerVars, debits, paid, txVars, lock>>

\* bankTransfer returned: any 2xx answer counts, its status field is not read.
BankTransferOk(w) ==
  /\ w.dest = Bank
  /\ Goto(w, "processing", "paid")
  /\ paid' = paid \cup {w}
  /\ UNCHANGED <<status, ledgerVars, settlement, debits, txVars, lock>>

\* The destination details are missing from request and bucket, or bankTransfer threw:
\* Nomba refused the transfer, or made it and the answer was lost (the client gives up
\* after 15 seconds).
BankTransferError(w) ==
  /\ w.dest = Bank
  /\ Goto(w, "processing", "failing")
  /\ paid' \in {paid, paid \cup {w}}
  /\ UNCHANGED <<status, ledgerVars, settlement, debits, txVars, lock>>

\* Mutant: the DEBIT's cumulative amount follows from what TX1 read.
WriteDebitStale(w) ==
  /\ sum' = [sum EXCEPT ![w.bucket] = @ - w.amount]
  /\ latest' = [latest EXCEPT ![w.bucket] = snap[w] - w.amount]
  /\ debits' = [debits EXCEPT ![w] = @ + 1]
  /\ settlement' = [settlement EXCEPT ![w] = "COMPLETED"]
  /\ overtaken' = overtaken \cup Crediting(w.bucket)

\* The writes of TX2: one DEBIT on top of the latest balance, and COMPLETED.
WriteDebit(w) ==
  /\ sum' = [sum EXCEPT ![w.bucket] = @ - w.amount]
  /\ latest' = [latest EXCEPT ![w.bucket] = @ - w.amount]
  /\ debits' = [debits EXCEPT ![w] = @ + 1]
  /\ settlement' = [settlement EXCEPT ![w] = "COMPLETED"]
  /\ overtaken' = overtaken \cup Crediting(w.bucket)

\* Mutant: something after the commit of TX2, inside the try, throws.
CompleteThenThrow(w) ==
  /\ lock[w.bucket] = Free
  /\ Goto(w, "paid", "failing")
  /\ WriteDebit(w)
  /\ UNCHANGED <<status, credited, paid, snap, conflicted, attempts, lock>>

\* TX2, completeSettlement.
CompleteSettlement(w) ==
  /\ lock[w.bucket] = Free
  /\ Goto(w, "paid", "done")
  /\ WriteDebit(w)
  /\ UNCHANGED <<status, credited, paid, snap, conflicted, attempts, lock>>

\* TX2 committed, but its caller saw the connection fail and runs the catch.
CompleteUnacknowledged(w) ==
  /\ MayLoseAck
  /\ lock[w.bucket] = Free
  /\ Goto(w, "paid", "failing")
  /\ WriteDebit(w)
  /\ UNCHANGED <<status, credited, paid, snap, conflicted, attempts, lock>>

\* Mutant: the DEBIT and the status update are not one transaction.
CompleteHalf(w) ==
  /\ Goto(w, "paid", "failing")
  /\ sum' = [sum EXCEPT ![w.bucket] = @ - w.amount]
  /\ latest' = [latest EXCEPT ![w.bucket] = @ - w.amount]
  /\ debits' = [debits EXCEPT ![w] = @ + 1]
  /\ UNCHANGED <<status, credited, settlement, paid, txVars, lock>>

\* Mutant: completeSettlement is not awaited in the try, its error goes to the caller.
CompleteUncaught(w) ==
  /\ Goto(w, "paid", "rejected")
  /\ UNCHANGED <<status, ledgerVars, settlementVars, txVars, lock>>

\* TX2 failed and rolled back (lock wait past the transaction timeout, ...).
CompleteError(w) ==
  /\ Goto(w, "paid", "failing")
  /\ UNCHANGED <<status, ledgerVars, settlementVars, txVars, lock>>

\* settleInternal has locked the source bucket.
SettleInternalBegin(w) ==
  /\ w.dest \in Buckets
  /\ lock[w.bucket] = Free
  /\ Goto(w, "processing", "locked")
  /\ lock' = [lock EXCEPT ![w.bucket] = w]
  /\ UNCHANGED <<status, ledgerVars, settlementVars, txVars>>

\* Mutant: the DEBIT of the move is not written.
WriteMoveCreditOnly(from, to, amount) ==
  /\ sum' = [sum EXCEPT ![to] = @ + amount]
  /\ latest' = [latest EXCEPT ![to] = sum[to] + amount]
  /\ overtaken' = overtaken \cup Crediting(to)

\* The two entries of a move, each on top of the SUM read under the locks.
WriteMove(from, to, amount) ==
  /\ sum' = [sum EXCEPT ![from] = @ - amount, ![to] = @ + amount]
  /\ latest' = [latest EXCEPT ![from] = sum[from] - amount, ![to] = sum[to] + amount]
  /\ overtaken' = overtaken \cup Crediting(from) \cup Crediting(to)

\* The transaction of settleInternal, with both rows locked: DEBIT, CREDIT, COMPLETED.
WriteInternal(w) ==
  /\ w.dest \in Buckets
  /\ status[w.dest] # "NONE"
  /\ lock[w.dest] \in {Free, w}
  /\ WriteMove(w.bucket, w.dest, w.amount)
  /\ debits' = [debits EXCEPT ![w] = @ + 1]
  /\ settlement' = [settlement EXCEPT ![w] = "COMPLETED"]
  /\ Unlock(w)
  /\ UNCHANGED <<status, credited, paid, snap, conflicted, attempts>>

SettleInternal(w) ==
  /\ Goto(w, "locked", "done")
  /\ WriteInternal(w)

\* It committed, but its caller saw the connection fail and runs the catch.
SettleInternalUnacknowledged(w) ==
  /\ MayLoseAck
  /\ Goto(w, "locked", "failing")
  /\ WriteInternal(w)

\* Mutant: settleInternal is not awaited in the try, its error goes to the caller.
SettleInternalUncaught(w) ==
  /\ w.dest \in Buckets
  /\ pc[w] \in {"processing", "locked"}
  /\ pc' = [pc EXCEPT ![w] = "rejected"]
  /\ Unlock(w)
  /\ UNCHANGED <<status, ledgerVars, settlementVars, txVars>>

\* settleInternal rolled back, with one row locked or none: the destination is missing
\* or not there, the wait for a row outlasted the transaction's time limit, or it was the
\* victim of a deadlock.
SettleInternalError(w) ==
  /\ w.dest \in Buckets
  /\ pc[w] \in {"processing", "locked"}
  /\ pc' = [pc EXCEPT ![w] = "failing"]
  /\ Unlock(w)
  /\ UNCHANGED <<status, ledgerVars, settlementVars, txVars>>

\* The catch block: FAILED, whatever the row's status was.
MarkFailed(w) ==
  /\ Goto(w, "failing", "failed")
  /\ settlement' = [settlement EXCEPT ![w] = "FAILED"]
  /\ UNCHANGED <<status, ledgerVars, debits, paid, txVars, lock>>

\* The process dies, the PROCESSING update fails outside the try, or the
\* FAILED update fails and its error is swallowed: the row stays as it is.
Abandon(w) ==
  /\ MayAbandon
  /\ pc[w] \in {"reserved", "processing", "locked", "paid", "failing"}
  /\ pc' = [pc EXCEPT ![w] = "abandoned"]
  /\ Unlock(w)
  /\ UNCHANGED <<status, ledgerVars, settlementVars, txVars>>

-----------------------------------------------------------------------------
(* TreasuryService.transferBetweenBuckets.                                 *)

TransferBegin(t) ==
  /\ t.bucket # t.dest
  /\ status[t.bucket] # "NONE"
  /\ lock[t.bucket] = Free
  /\ Goto(t, "idle", "locked")
  /\ lock' = [lock EXCEPT ![t.bucket] = t]
  /\ UNCHANGED <<status, ledgerVars, settlementVars, txVars>>

\* Both rows locked: status and balance checks, then the two entries.
Transfer(t) ==
  /\ lock[t.dest] = Free
  /\ status[t.bucket] = "ACTIVE"
  /\ status[t.dest] = "ACTIVE"
  /\ sum[t.bucket] >= t.amount
  /\ Goto(t, "locked", "done")
  /\ WriteMove(t.bucket, t.dest, t.amount)
  /\ Unlock(t)
  /\ UNCHANGED <<status, credited, settlementVars, snap, conflicted, attempts>>

\* A check failed, or the wait for the second row ended in the transaction's time limit
\* or in a deadlock: no order of the two locks excludes that.
TransferError(t) ==
  /\ Goto(t, "locked", "rejected")
  /\ Unlock(t)
  /\ UNCHANGED <<status, ledgerVars, settlementVars, txVars>>

-----------------------------------------------------------------------------
(* AllocationService.credit under runSerializable.                         *)

\* The snapshot: an entry with this reference ends the call, else SUM is read.
CreditBegin(c) ==
  /\ status[c.bucket] # "NONE"
  /\ pc[c] \in {"idle", "replay"}
  /\ pc' = [pc EXCEPT ![c] = IF c.ref \in Refs THEN "noop" ELSE "crediting"]
  /\ snap' = [snap EXCEPT ![c] = sum[c.bucket]]
  /\ conflicted' = conflicted \ {c}
  /\ overtaken' = overtaken \ {c}
  /\ UNCHANGED <<status, ledgerVars, settlementVars, attempts, lock>>

\* Mutant: credit() without Serializable isolation.
CreditUnserialized(c) ==
  /\ lock[c.bucket] = Free
  /\ c.ref \notin Refs
  /\ Goto(c, "crediting", "done")
  /\ sum' = [sum EXCEPT ![c.bucket] = @ + c.amount]
  /\ latest' = [latest EXCEPT ![c.bucket] = snap[c] + c.amount]
  /\ credited' = credited \cup {c}
  /\ UNCHANGED <<status, settlementVars, txVars, lock>>

\* Mutant: BucketLedgerEntry.reference is not unique.
CreditDuplicate(c) ==
  /\ lock[c.bucket] = Free
  /\ c \notin conflicted
  /\ Goto(c, "crediting", "done")
  /\ sum' = [sum EXCEPT ![c.bucket] = @ + c.amount]
  /\ latest' = [latest EXCEPT ![c.bucket] = snap[c] + c.amount]
  /\ credited' = credited \cup {c}
  /\ conflicted' = conflicted \cup (Crediting(c.bucket) \ {c})
  /\ UNCHANGED <<status, settlementVars, snap, overtaken, attempts, lock>>

\* The entry's createdAt is set before its insert waits for the bucket row, so
\* an entry written meanwhile may stay the most recent one.
Credit(c) ==
  /\ lock[c.bucket] = Free
  /\ c \notin conflicted
  /\ c.ref \notin Refs
  /\ Goto(c, "crediting", "done")
  /\ sum' = [sum EXCEPT ![c.bucket] = @ + c.amount]
  /\ \/ latest' = [latest EXCEPT ![c.bucket] = snap[c] + c.amount]
     \/ c \in overtaken /\ latest' = latest
  /\ credited' = credited \cup {c}
  /\ conflicted' = conflicted \cup (Crediting(c.bucket) \ {c})
  /\ overtaken' = overtaken \cup (Crediting(c.bucket) \ {c})
  /\ UNCHANGED <<status, settlementVars, snap, attempts, lock>>

\* Mutant: the retry bound is checked too late.
CreditRetryOnceMore(c) ==
  /\ attempts[c] <= MaxRetries
  /\ Goto(c, "crediting", "replay")
  /\ attempts' = [attempts EXCEPT ![c] = @ + 1]
  /\ UNCHANGED <<status, ledgerVars, settlementVars, snap, conflicted, overtaken, lock>>

\* P2034: the transaction is replayed from its first statement.
CreditRetry(c) ==
  /\ attempts[c] < MaxRetries
  /\ Goto(c, "crediting", "replay")
  /\ attempts' = [attempts EXCEPT ![c] = @ + 1]
  /\ UNCHANGED <<status, ledgerVars, settlementVars, snap, conflicted, overtaken, lock>>

\* Retries exhausted, or an error that is not a serialization failure.
CreditError(c) ==
  /\ Goto(c, "crediting", "error")
  /\ UNCHANGED <<status, ledgerVars, settlementVars, txVars, lock>>

-----------------------------------------------------------------------------
(* TreasuryService.closeBucket: three reads in three transactions, then an *)
(* update that does not look at the bucket again.                          *)

CloseResolve(k) ==
  /\ status[k.bucket] = "ACTIVE"
  /\ Goto(k, "idle", "resolved")
  /\ UNCHANGED <<status, ledgerVars, settlementVars, txVars, lock>>

CloseReadBalance(k) ==
  /\ Goto(k, "resolved", IF sum[k.bucket] = 0 THEN "zero" ELSE "rejected")
  /\ UNCHANGED <<status, ledgerVars, settlementVars, txVars, lock>>

CloseReadReserved(k) ==
  /\ Goto(k, "zero", IF reserved[k.bucket] = 0 THEN "closing" ELSE "rejected")
  /\ UNCHANGED <<status, ledgerVars, settlementVars, txVars, lock>>

\* The row update waits for a lock, and fails a TX1 that began before it.
CloseBucket(k) ==
  /\ lock[k.bucket] = Free
  /\ Goto(k, "closing", "done")
  /\ status' = [status EXCEPT ![k.bucket] = "CLOSED"]
  /\ conflicted' = conflicted \cup Reserving(k.bucket)
  /\ UNCHANGED <<ledgerVars, settlementVars, snap, overtaken, attempts, lock>>

-----------------------------------------------------------------------------
WithdrawalStep(w) ==
  \/ BeginReserve(w)
  \/ Reserve(w)
  \/ RejectReserve(w)
  \/ MarkProcessing(w)
  \/ BankTransferOk(w)
  \/ BankTransferError(w)
  \/ CompleteSettlement(w)
  \/ CompleteUnacknowledged(w)
  \/ CompleteError(w)
  \/ SettleInternalBegin(w)
  \/ SettleInternal(w)
  \/ SettleInternalUnacknowledged(w)
  \/ SettleInternalError(w)
  \/ MarkFailed(w)

TransferStep(t) == Transfer(t) \/ TransferError(t)

CreditStep(c) ==
  \/ Credit(c)
  \/ CreditRetry(c)
  \/ CreditError(c)
  \/ pc[c] = "replay" /\ CreditBegin(c)

CloseStep(k) == CloseReadBalance(k) \/ CloseReadReserved(k) \/ CloseBucket(k)

Next ==
  \/ \E b \in Buckets : ProvisionBucket(b)
  \/ \E w \in Withdrawals : Initiate(w) \/ WithdrawalStep(w) \/ Abandon(w)
  \/ \E t \in Transfers : TransferBegin(t) \/ TransferStep(t)
  \/ \E c \in Credits : CreditBegin(c) \/ CreditStep(c)
  \/ \E k \in Closings : CloseResolve(k) \/ CloseStep(k)

Spec == Init /\ [][Next]_vars

(* A handler that has started goes on: a promise it awaits is settled      *)
(* (Nomba's client and Prisma's transactions have time limits).            *)
Fairness ==
  /\ \A w \in Withdrawals : WF_vars(WithdrawalStep(w))
  /\ \A t \in Transfers : WF_vars(TransferStep(t))
  /\ \A c \in Credits : WF_vars(CreditStep(c))
  /\ \A k \in Closings : WF_vars(CloseStep(k))

FairSpec == Spec /\ Fairness

-----------------------------------------------------------------------------
(* Properties.                                                             *)

\* Every variable keeps its type, across every request and failure.
TypeOK ==
  /\ status \in [Buckets -> BucketStatus]
  /\ sum \in [Buckets -> Int]
  /\ latest \in [Buckets -> Int]
  /\ credited \subseteq Credits
  /\ settlement \in [Withdrawals -> SettlementStatus]
  /\ debits \in [Withdrawals -> Nat]
  /\ paid \subseteq Withdrawals
  /\ pc \in [Procs -> WithdrawalPc \cup TransferPc \cup CreditPc \cup ClosingPc]
  /\ snap \in [Procs -> Int]
  /\ conflicted \subseteq Procs
  /\ overtaken \subseteq Credits
  /\ lock \in [Buckets -> Movers \cup {Free}]
  /\ attempts \in [Credits -> 0..MaxRetries]

\* ADR #13 over the whole lifecycle: a settlement has exactly one DEBIT when it
\* is COMPLETED and none otherwise, and a DEBIT for an external destination
\* follows the transfer Nomba accepted.
DebitOnlyOnCompletion ==
  \A w \in Withdrawals :
    /\ debits[w] = IF settlement[w] = "COMPLETED" THEN 1 ELSE 0
    /\ w.dest = Bank /\ debits[w] > 0 => w \in paid

\* COMPLETED and FAILED are final: no late step of initiate revives or flips a
\* settlement another step has resolved.
SettledIsFinal ==
  [][\A w \in Withdrawals :
       settlement[w] \in {"COMPLETED", "FAILED"} => settlement'[w] = settlement[w]]_vars

\* Which kinds of request touch a bucket.
NoCredit(b)      == \A c \in Credits : c.bucket # b
NoTransferOut(b) == \A t \in Transfers : t.bucket # b
NoSelfSettle(b)  == \A w \in Withdrawals : w.bucket = b => w.dest # b
OnlyCredits(b)   == \A m \in Movers : m.bucket # b /\ m.dest # b

\* EC-07 for a bucket that is only settled from and moved into: what the
\* in-flight settlements reserve is there, however many TX1s, completions and
\* failures overlap (TX1 works on a stale snapshot).
ReservationsCovered ==
  \A b \in Buckets :
    NoCredit(b) /\ NoTransferOut(b) /\ NoSelfSettle(b) =>
      reserved[b] <= sum[b]

\* The same for every bucket, transfers out of it included.
ReservedFundsStay == \A b \in Buckets : reserved[b] <= sum[b]

\* The balance read in O(1), the latest entry's cumulative amount, is the sum of
\* the entries, on a bucket that credit() never touches and on one that only
\* credit() touches.
CumulativeExact ==
  \A b \in Buckets :
    (NoCredit(b) /\ NoSelfSettle(b)) \/ OnlyCredits(b) => latest[b] = sum[b]

\* Idempotency on reference: however calls with one reference overlap, are
\* replayed or repeated, the ledger has one entry for it.
AllocatedOnce == \A c, d \in credited : c.ref = d.ref => c = d

External == {w \in Withdrawals : w.dest = Bank}

\* Value is conserved across overlapping transfers, internal settlements, credits
\* and settlements: the buckets together hold what they opened with, plus what
\* was allocated, minus what was debited for external transfers.
Conservation ==
  SumFunctionOnSet(sum, Buckets) =
      SumFunctionOnSet(Opening, Buckets)
    + AmountOf(credited)
    - SumFunctionOnSet([w \in External |-> debits[w] * w.amount], External)

\* Money of a transfer Nomba accepted that is not debited yet is still in the bucket.
PaidIsCovered ==
  \A b \in Buckets : AmountOf({w \in paid : w.bucket = b /\ debits[w] = 0}) <= sum[b]

\* The abstract view of a settlement: the hold that its reservation stands for.
HoldOf(w) ==
  CASE settlement[w] = "NONE"      -> "none"
    [] settlement[w] \in InFlight  -> "held"
    [] settlement[w] = "COMPLETED" -> "settled"
    [] OTHER                       -> "released"

Funds == INSTANCE BucketFunds WITH
  balance <- sum,
  held    <- reserved,
  hold    <- [w \in Withdrawals |-> HoldOf(w)],
  entered <- credited \cup {t \in Transfers : pc[t] = "done"}

\* The services implement BucketFunds: although a settlement is three transactions
\* around a call, a transfer two row locks and a credit a snapshot that is replayed,
\* callers see holds, settlements, releases, moves and deposits that are atomic,
\* happen once and never touch what is held.  It holds of requests that keep clear
\* of the exceptions: buckets settled from are not credited and not moved from.
ImplementsFunds == Funds!Spec

\* Who still works on a settlement's row: the handler between TX1 and the last
\* update of initiate, which it may only leave unfinished by dying.
Handled(w) ==
  \/ pc[w] \in {"reserved", "processing", "locked", "paid", "failing"}
  \/ MayAbandon /\ pc[w] = "abandoned"

\* No reservation is orphaned: while a row is PENDING or PROCESSING its handler is
\* still on the way to COMPLETED or FAILED, whichever of TX1, the PROCESSING
\* update, the transfer, settleInternal or TX2 has failed and however its locks
\* were lost.  Nothing else in the code would ever release the reserved amount.
ReservationsHandled ==
  \A w \in Withdrawals : settlement[w] \in InFlight => Handled(w)

\* Every reservation ends: a settlement that TX1 created is completed or failed unless
\* its handler dies, also one that is the victim of a deadlock or waits too long for a
\* row that an opposite move has locked.
SettlementsResolve ==
  \A w \in Withdrawals :
    settlement[w] = "PENDING" ~>
      settlement[w] \in {"COMPLETED", "FAILED"} \/ pc[w] = "abandoned"
=============================================================================
