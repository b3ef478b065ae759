----------------------------- MODULE FundsProofs -----------------------------
(***************************************************************************)
(* Treasury implements BucketFunds, for any buckets and requests in which  *)
(* the buckets settled from are neither credited nor moved from, when the  *)
(* answers to commits arrive.                                              *)
(***************************************************************************)
EXTENDS TreasuryProofs

\* The requests keep clear of the exceptions.
Separate == \A w \in Withdrawals : SettledOnly(w.bucket)

\* What the refinement needs beyond the invariants of TreasuryProofs: handlers are where
\* their destination leads them.
FundsInv ==
  /\ \A w \in Withdrawals : pc[w] = "paid" => w.dest = Bank
  /\ \A t \in Transfers : pc[t] = "locked" => t.bucket # t.dest

\* The steps that a caller of the treasury can see, and the rest.
Visible ==
  \/ \E w \in Withdrawals :
       Reserve(w) \/ CompleteSettlement(w) \/ SettleInternal(w) \/ MarkFailed(w)
  \/ \E t \in Transfers : Transfer(t)
  \/ \E c \in Credits : Credit(c)

Hidden ==
  /\ UNCHANGED <<sum, reserved, credited>>
  /\ \A w \in Withdrawals : HoldOf(w)' = HoldOf(w)
  /\ \A t \in Transfers : pc'[t] = "done" <=> pc[t] = "done"

\* Every step of Treasury is one of the six that a caller sees, or changes nothing
\* that BucketFunds speaks of.
LEMMA VisibleOrHidden ==
  ASSUME ~MayLoseAck, TypeOK, HoldInv, SettlementInv, [Next]_vars
  PROVE  Visible \/ Hidden
<1>a. settlement' = settlement => reserved' = reserved
  BY ReservedKept
<1> USE RequestAssumption DEF TypeOK, SettlementInv, HoldOf, InFlight, Movers, Procs, Goto,
                              ledgerVars, settlementVars, txVars, Hidden
<1>1. ASSUME NEW b \in Buckets, ProvisionBucket(b) PROVE Hidden
  BY <1>1, <1>a DEF ProvisionBucket
<1>2. ASSUME NEW w \in Withdrawals, Initiate(w) \/ Abandon(w) PROVE Hidden
  BY <1>2, <1>a DEF Initiate, Abandon
<1>3. ASSUME NEW w \in Withdrawals, WithdrawalStep(w) PROVE Visible \/ Hidden
  <2>1. CASE BeginReserve(w) \/ RejectReserve(w)
    BY <2>1, <1>a DEF BeginReserve, RejectReserve
  <2>2. CASE MarkProcessing(w)
    <3>1. UNCHANGED <<sum, reserved, credited>>
      BY <2>2, ReservedStep DEF MarkProcessing
    <3>2. settlement[w] \in InFlight /\ settlement'[w] \in InFlight
      BY <2>2 DEF MarkProcessing
    <3>3. \A v \in Withdrawals : v # w => settlement'[v] = settlement[v]
      BY <2>2 DEF MarkProcessing
    <3>4. \A t \in Transfers : pc'[t] = pc[t]
      BY <2>2 DEF MarkProcessing
    <3> QED
      BY <3>1, <3>2, <3>3, <3>4
  <2>3. CASE BankTransferOk(w) \/ BankTransferError(w) \/ CompleteError(w)
    BY <2>3, <1>a DEF BankTransferOk, BankTransferError, CompleteError
  <2>4. CASE SettleInternalBegin(w) \/ SettleInternalError(w)
    BY <2>4, <1>a DEF SettleInternalBegin, SettleInternalError
  <2>5. ~CompleteUnacknowledged(w) /\ ~SettleInternalUnacknowledged(w)
    BY DEF CompleteUnacknowledged, SettleInternalUnacknowledged
  <2> QED
    BY <1>3, <2>1, <2>2, <2>3, <2>4, <2>5 DEF WithdrawalStep, Visible
<1>4. ASSUME NEW t \in Transfers, TransferBegin(t) \/ TransferError(t) PROVE Hidden
  BY <1>4, <1>a DEF TransferBegin, TransferError
<1>5. ASSUME NEW c \in Credits, CreditBegin(c) \/ CreditRetry(c) \/ CreditError(c) PROVE Hidden
  <2>1. \A m \in Movers : pc'[m] = pc[m]
    BY <1>5, <1>a DEF CreditBegin, CreditRetry, CreditError
  <2>2. UNCHANGED <<sum, reserved, credited, settlement>>
    BY <1>5, <1>a DEF CreditBegin, CreditRetry, CreditError
  <2> QED
    BY <2>1, <2>2
<1>6. ASSUME NEW k \in Closings, CloseResolve(k) \/ CloseStep(k) PROVE Hidden
  <2>1. \A m \in Movers : pc'[m] = pc[m]
    BY <1>6, <1>a DEF CloseResolve, CloseStep, CloseReadBalance, CloseReadReserved, CloseBucket
  <2>2. UNCHANGED <<sum, reserved, credited, settlement>>
    BY <1>6, <1>a DEF CloseResolve, CloseStep, CloseReadBalance, CloseReadReserved, CloseBucket
  <2> QED
    BY <2>1, <2>2
<1>7. CASE UNCHANGED vars
  BY <1>7, <1>a DEF vars
<1> QED
  BY <1>1, <1>2, <1>3, <1>4, <1>5, <1>6, <1>7 DEF Next, TransferStep, CreditStep, Visible

\* Every step keeps FundsInv.
LEMMA FundsStep == TypeOK /\ FundsInv /\ [Next]_vars => FundsInv'
<1> SUFFICES ASSUME TypeOK, FundsInv, [Next]_vars PROVE FundsInv'
  OBVIOUS
<1> USE RequestAssumption DEF TypeOK, FundsInv, Movers, Procs, Goto, ledgerVars, settlementVars,
                              txVars
<1>1. ASSUME NEW b \in Buckets, ProvisionBucket(b) PROVE FundsInv'
  BY <1>1 DEF ProvisionBucket
<1>2. ASSUME NEW w \in Withdrawals, Initiate(w) \/ Abandon(w) PROVE FundsInv'
  BY <1>2 DEF Initiate, Abandon
<1>3. ASSUME NEW w \in Withdrawals, WithdrawalStep(w) PROVE FundsInv'
  <2>1. CASE BeginReserve(w) \/ RejectReserve(w) \/ MarkProcessing(w) \/ BankTransferOk(w)
             \/ BankTransferError(w) \/ CompleteError(w)
             \/ SettleInternalBegin(w) \/ SettleInternalError(w)
    BY <2>1 DEF BeginReserve, RejectReserve, MarkProcessing, BankTransferOk, BankTransferError,
                CompleteError, SettleInternalBegin, SettleInternalError
  <2>2. CASE Reserve(w) \/ MarkFailed(w)
    BY <2>2 DEF Reserve, MarkFailed
  <2>3. CASE CompleteSettlement(w) \/ CompleteUnacknowledged(w) \/ SettleInternal(w)
             \/ SettleInternalUnacknowledged(w)
    BY <2>3 DEF CompleteSettlement, CompleteUnacknowledged, WriteDebit, SettleInternal,
                SettleInternalUnacknowledged, WriteInternal
  <2> QED
    BY <1>3, <2>1, <2>2, <2>3 DEF WithdrawalStep
<1>4. ASSUME NEW t \in Transfers, TransferBegin(t) \/ TransferStep(t) PROVE FundsInv'
  BY <1>4 DEF TransferBegin, TransferStep, Transfer, TransferError
<1>5. ASSUME NEW c \in Credits, CreditBegin(c) \/ CreditStep(c) PROVE FundsInv'
  BY <1>5 DEF CreditBegin, CreditStep, Credit, CreditRetry, CreditError
<1>6. ASSUME NEW k \in Closings, CloseResolve(k) \/ CloseStep(k) PROVE FundsInv'
  BY <1>6 DEF CloseResolve, CloseStep, CloseReadBalance, CloseReadReserved, CloseBucket
<1>7. CASE UNCHANGED vars
  BY <1>7 DEF vars
<1> QED
  BY <1>1, <1>2, <1>3, <1>4, <1>5, <1>6, <1>7 DEF Next

-----------------------------------------------------------------------------
(* The refinement.                                                         *)

\* The variables of BucketFunds under the refinement mapping.
Holds   == [w \in Withdrawals |-> HoldOf(w)]
Entered == credited \cup {t \in Transfers : pc[t] = "done"}

\* The initial states of Treasury are initial states of BucketFunds.
LEMMA FundsInit == Init => FundsInv /\ Funds!Init
<1> SUFFICES ASSUME Init PROVE FundsInv /\ Funds!Init
  OBVIOUS
<1>1. FundsInv
  BY DEF Init, FundsInv, Procs, Movers
<1>2. Holds = [w \in Withdrawals |-> "none"]
  BY DEF Init, Holds, HoldOf, InFlight
<1>3. Entered = {}
  BY DEF Init, Entered, Procs, Movers
<1>4. sum = Opening /\ reserved = [b \in Buckets |-> 0]
  BY ReservedInit DEF Init
<1> QED
  BY <1>1, <1>2, <1>3, <1>4 DEF Funds!Init, Holds, Entered

\* A TX1 that commits is a hold of available money, although it looked at a snapshot.
LEMMA ReserveHolds ==
  ASSUME Separate, TypeOK, HoldInv, BalanceInv, SettlementInv, NEW w \in Withdrawals,
         Reserve(w)
  PROVE  Funds!Hold(w)
<1> USE RequestAssumption DEF TypeOK, Movers, Procs, Goto
<1>1. w.amount <= sum[w.bucket] - reserved[w.bucket]
  BY ReservedType
  DEF Reserve, Separate, SettledOnly, BalanceInv, SnapshotCovers, CumulativeExact
<1>2. Holds[w] = "none"
  BY DEF Reserve, SettlementInv, Holds, HoldOf, InFlight
<1>3. Entered' = Entered
  BY DEF Reserve, Entered, ledgerVars
<1>4. Holds' = [Holds EXCEPT ![w] = "held"]
  BY DEF Reserve, Holds, HoldOf, InFlight
<1>5. sum' = sum /\ reserved' = [reserved EXCEPT ![w.bucket] = @ + w.amount]
  BY ReservedStep DEF Reserve, ledgerVars
<1> QED
  BY <1>1, <1>2, <1>3, <1>4, <1>5 DEF Funds!Hold, Funds!Available, Holds, Entered

\* TX2 settles the hold of an external settlement.
LEMMA CompleteSettles ==
  ASSUME TypeOK, HoldInv, SettlementInv, FundsInv, NEW w \in Withdrawals,
         CompleteSettlement(w)
  PROVE  Funds!Settle(w)
<1> USE BucketAssumption, RequestAssumption DEF TypeOK, Movers, Procs, Goto
<1>1. settlement[w] = "PROCESSING" /\ w.dest \notin Buckets
  BY DEF CompleteSettlement, SettlementInv, FundsInv
<1>2. Entered' = Entered
  BY DEF CompleteSettlement, Entered
<1>3. Holds' = [Holds EXCEPT ![w] = "settled"]
  BY DEF CompleteSettlement, WriteDebit, Holds, HoldOf, InFlight
<1>4. sum' = Funds!Moved(w.bucket, w.dest, w.amount)
  <2>1. sum' \in [Buckets -> Int]
    BY DEF CompleteSettlement, WriteDebit
  <2>2. \A b \in Buckets : sum'[b] = Funds!Moved(w.bucket, w.dest, w.amount)[b]
    BY <1>1 DEF CompleteSettlement, WriteDebit, Funds!Moved
  <2> QED
    BY <2>1, <2>2 DEF Funds!Moved
<1>5. Holds[w] = "held"
  BY <1>1 DEF Holds, HoldOf, InFlight
<1>6. reserved' = [reserved EXCEPT ![w.bucket] = @ - w.amount]
  BY ReservedStep
<1> QED
  BY <1>2, <1>3, <1>4, <1>5, <1>6 DEF Funds!Settle, Holds, Entered

\* The one transaction of an internal settlement settles its hold.
LEMMA InternalSettles ==
  ASSUME Separate, TypeOK, HoldInv, SettlementInv, NEW w \in Withdrawals, SettleInternal(w)
  PROVE  Funds!Settle(w)
<1> USE BucketAssumption, RequestAssumption DEF TypeOK, Movers, Procs, Goto
<1>1. settlement[w] = "PROCESSING" /\ w.dest # w.bucket
  BY DEF SettleInternal, WriteInternal, SettlementInv, Separate, SettledOnly, NoSelfSettle
<1>2. Entered' = Entered
  BY DEF SettleInternal, WriteInternal, Entered
<1>3. Holds' = [Holds EXCEPT ![w] = "settled"]
  BY DEF SettleInternal, WriteInternal, Holds, HoldOf, InFlight
<1>4. sum' = Funds!Moved(w.bucket, w.dest, w.amount)
  <2>1. sum' \in [Buckets -> Int]
    BY DEF SettleInternal, WriteInternal, WriteMove
  <2>2. \A b \in Buckets : sum'[b] = Funds!Moved(w.bucket, w.dest, w.amount)[b]
    BY <1>1 DEF SettleInternal, WriteInternal, WriteMove, Funds!Moved
  <2> QED
    BY <2>1, <2>2 DEF Funds!Moved
<1>5. Holds[w] = "held"
  BY <1>1 DEF Holds, HoldOf, InFlight
<1>6. reserved' = [reserved EXCEPT ![w.bucket] = @ - w.amount]
  BY ReservedStep
<1> QED
  BY <1>2, <1>3, <1>4, <1>5, <1>6 DEF Funds!Settle, Holds, Entered

\* The catch block releases the hold.
LEMMA FailureReleases ==
  ASSUME TypeOK, HoldInv, SettlementInv, NEW w \in Withdrawals, MarkFailed(w)
  PROVE  Funds!Release(w)
<1> USE BucketAssumption, RequestAssumption DEF TypeOK, Movers, Procs, Goto
<1>1. settlement[w] = "PROCESSING"
  BY DEF MarkFailed, SettlementInv
<1>2. Entered' = Entered
  BY DEF MarkFailed, Entered, ledgerVars
<1>3. Holds' = [Holds EXCEPT ![w] = "released"]
  BY DEF MarkFailed, Holds, HoldOf, InFlight
<1>4. reserved' = [reserved EXCEPT ![w.bucket] = @ - w.amount]
  BY <1>1, ReservedStep DEF InFlight
<1> QED
  BY <1>1, <1>2, <1>3, <1>4
  DEF MarkFailed, Funds!Release, Holds, Entered, HoldOf, InFlight, ledgerVars

\* A transfer moves money that is not held, and happens once.
LEMMA TransferMoves ==
  ASSUME Separate, TypeOK, FundsInv, NEW t \in Transfers, Transfer(t)
  PROVE  Funds!Move(t)
<1> USE BucketAssumption, RequestAssumption DEF TypeOK, Movers, Procs, Goto
<1>1. reserved[t.bucket] = 0 /\ t.dest # t.bucket
  <2>1. \A w \in Withdrawals : w.bucket # t.bucket
    BY DEF Separate, SettledOnly, NoTransferOut
  <2> QED
    BY <2>1, NothingReserved DEF Transfer, FundsInv
<1>2. t \notin Entered /\ Entered' = Entered \cup {t}
  BY DEF Transfer, Entered
<1>3. Holds' = Holds
  BY DEF Transfer, Holds, HoldOf, settlementVars
<1>4. sum' = Funds!Moved(t.bucket, t.dest, t.amount)
  <2>1. sum' \in [Buckets -> Int]
    BY DEF Transfer, WriteMove
  <2>2. \A b \in Buckets : sum'[b] = Funds!Moved(t.bucket, t.dest, t.amount)[b]
    BY <1>1 DEF Transfer, WriteMove, Funds!Moved
  <2> QED
    BY <2>1, <2>2 DEF Funds!Moved
<1>5. t.amount <= sum[t.bucket] /\ reserved' = reserved
  BY ReservedKept DEF Transfer, settlementVars
<1> QED
  BY <1>1, <1>2, <1>3, <1>4, <1>5 DEF Funds!Move, Funds!Available, Holds, Entered

\* A committed credit is a deposit under a reference that is new.
LEMMA CreditDeposits ==
  ASSUME TypeOK, NEW c \in Credits, Credit(c)
  PROVE  Funds!Deposit(c)
<1> USE BucketAssumption, RequestAssumption DEF TypeOK, Movers, Procs, Goto
<1>1. \A d \in Entered \cap Credits : d.ref # c.ref
  BY DEF Credit, Entered, Refs
<1>2. Entered' = Entered \cup {c}
  BY DEF Credit, Entered
<1>3. Holds' = Holds
  BY DEF Credit, Holds, HoldOf, settlementVars
<1>4. reserved' = reserved
  BY ReservedKept DEF Credit, settlementVars
<1> QED
  BY <1>1, <1>2, <1>3, <1>4
  DEF Credit, Funds!Deposit, Holds, Entered, HoldOf, settlementVars

\* Every step of Treasury is a step of BucketFunds, or one that BucketFunds does not see.
LEMMA StepRefines ==
  ASSUME ~MayLoseAck, Separate, TypeOK, HoldInv, BalanceInv, SettlementInv, FundsInv,
         [Next]_vars
  PROVE  [Funds!Next]_Funds!vars
<1>1. CASE Visible
  BY <1>1, ReserveHolds, CompleteSettles, InternalSettles, FailureReleases, TransferMoves,
     CreditDeposits
  DEF Visible, Funds!Next
<1>2. CASE Hidden
  <2>1. Holds' = Holds /\ Entered' = Entered
    BY <1>2 DEF Hidden, Holds, Entered
  <2> QED
    BY <1>2, <2>1 DEF Hidden, Funds!vars, Holds, Entered
<1> QED
  BY <1>1, <1>2, VisibleOrHidden

\* The services implement BucketFunds: with any number of buckets, settlements,
\* transfers and credits under way at once, callers see atomic holds, settlements,
\* releases, moves and deposits, provided that buckets settled from are neither
\* credited nor moved from and the answers to commits arrive.
THEOREM TreasuryImplementsFunds ==
  ASSUME ~MayLoseAck, Separate
  PROVE  Spec => ImplementsFunds
<1> DEFINE IInv == /\ TypeOK
                   /\ HoldInv
                   /\ BalanceInv
                   /\ SettlementInv
                   /\ DebitOnlyOnCompletion
                   /\ FundsInv
<1>1. Init => IInv /\ Funds!Init
  BY TypeInit, HoldInit, BalanceInit, SettlementInit, FundsInit
<1>2. IInv /\ [Next]_vars => IInv'
  BY TypeStep, HoldStep, BalanceStep, SettlementStep, FundsStep
<1>3. IInv /\ [Next]_vars => [Funds!Next]_Funds!vars
  BY StepRefines
<1> QED
  BY <1>1, <1>2, <1>3, PTL DEF Spec, ImplementsFunds, Funds!Spec
=============================================================================
