--------------------------- MODULE TreasuryProofs ---------------------------
(***************************************************************************)
(* What Treasury guarantees for any set of buckets and requests, of any    *)
(* size: every variable keeps its type, in-flight settlements stay covered *)
(* on the buckets that are only settled from, the O(1) balance is exact on *)
(* the buckets that one discipline writes, settlements and their DEBIT     *)
(* entries agree, value is conserved, and no reservation loses its         *)
(* handler.                                                                *)
(***************************************************************************)
EXTENDS Treasury, SumTheorems

-----------------------------------------------------------------------------
(* The sums a request or a bucket stands for.                              *)

\* What requests ask for is a number, nothing for no request, and more with one more.
LEMMA AmountFacts ==
  ASSUME NEW S, IsFiniteSet(S), \A r \in S : r.amount \in Int
  PROVE  /\ AmountOf(S) \in Int
         /\ S = {} => AmountOf(S) = 0
         /\ \A y : y \notin S /\ y.amount \in Int => AmountOf(S \cup {y}) = AmountOf(S) + y.amount
<1> DEFINE g == [r \in S |-> r.amount]
<1>1. AmountOf(S) = SumFunctionOnSet(g, S)
  BY Zenon DEF AmountOf
<1>2. \A r \in S : g[r] \in Int
  OBVIOUS
<1>3. SumFunctionOnSet(g, S) \in Int /\ (S = {} => SumFunctionOnSet(g, S) = 0)
  <2> HIDE DEF g
  <2> QED
    BY ONLY IsFiniteSet(S), <1>2, SumOfAll
<1>4. ASSUME NEW y, y \notin S, y.amount \in Int
      PROVE  AmountOf(S \cup {y}) = AmountOf(S) + y.amount
  <2> DEFINE f == [r \in S \cup {y} |-> r.amount]
  <2>1. AmountOf(S \cup {y}) = SumFunctionOnSet(f, S \cup {y})
    BY Zenon DEF AmountOf
  <2>2. (\A r \in S \cup {y} : f[r] \in Int) /\ f[y] = y.amount
    BY <1>4
  <2>3. \A r \in S : f[r] \in Int /\ g[r] = f[r]
    BY <2>2
  <2> HIDE DEF f, g
  <2>4. SumFunctionOnSet(f, S \cup {y}) = SumFunctionOnSet(f, S) + f[y]
    BY ONLY IsFiniteSet(S), y \notin S, <1>4, <2>2, SumOfMore
  <2>5. SumFunctionOnSet(g, S) = SumFunctionOnSet(f, S)
    BY ONLY IsFiniteSet(S), <2>3, SumOfEqual
  <2> QED
    BY <1>1, <2>1, <2>2, <2>4, <2>5
<1> QED
  BY <1>1, <1>3, <1>4

\* The settlements reservedKobo sums over are finitely many, and ask for whole amounts.
LEMMA HeldFacts == \A b : IsFiniteSet(Held(b)) /\ \A w \in Held(b) : w.amount \in Int
<1>1. \A b : Held(b) \in SUBSET Withdrawals
  BY DEF Held
<1> QED
  BY <1>1, FiniteAssumption, RequestAssumption, FS_Subset

\* What is reserved is a whole amount for each bucket.
LEMMA ReservedType == reserved \in [Buckets -> Int]
<1>1. \A b : AmountOf(Held(b)) \in Int
  BY HeldFacts, AmountFacts
<1> QED
  BY <1>1 DEF reserved

-----------------------------------------------------------------------------
(* Type correctness.                                                       *)

\* The states the program starts in have the right types.
LEMMA TypeInit == Init => TypeOK
  BY BucketAssumption, BoundAssumption
  DEF Init, TypeOK, BucketStatus, SettlementStatus, WithdrawalPc, TransferPc, CreditPc,
      ClosingPc

\* No step of a request, a job or a failure breaks the types.
LEMMA TypeStep == TypeOK /\ [Next]_vars => TypeOK'
<1> SUFFICES ASSUME TypeOK, [Next]_vars PROVE TypeOK'
  OBVIOUS
<1> USE RequestAssumption, BoundAssumption
    DEF TypeOK, BucketStatus, SettlementStatus, WithdrawalPc, TransferPc, CreditPc,
        ClosingPc, Movers, Procs, Goto, Reserving, Crediting, ledgerVars, settlementVars,
        txVars
<1>1. ASSUME NEW b \in Buckets, ProvisionBucket(b) PROVE TypeOK'
  BY <1>1 DEF ProvisionBucket
<1>2. ASSUME NEW w \in Withdrawals, Initiate(w) PROVE TypeOK'
  BY <1>2 DEF Initiate
<1>3. ASSUME NEW w \in Withdrawals, BeginReserve(w) PROVE TypeOK'
  BY <1>3, ReservedType DEF BeginReserve
<1>4. ASSUME NEW w \in Withdrawals, Reserve(w) PROVE TypeOK'
  BY <1>4 DEF Reserve
<1>5. ASSUME NEW w \in Withdrawals, RejectReserve(w) PROVE TypeOK'
  BY <1>5 DEF RejectReserve
<1>6. ASSUME NEW w \in Withdrawals, MarkProcessing(w) PROVE TypeOK'
  BY <1>6 DEF MarkProcessing
<1>7. ASSUME NEW w \in Withdrawals, BankTransferOk(w) PROVE TypeOK'
  BY <1>7 DEF BankTransferOk
<1>8. ASSUME NEW w \in Withdrawals, BankTransferError(w) PROVE TypeOK'
  BY <1>8 DEF BankTransferError
<1>9. ASSUME NEW w \in Withdrawals, CompleteSettlement(w) PROVE TypeOK'
  BY <1>9 DEF CompleteSettlement, WriteDebit
<1>10. ASSUME NEW w \in Withdrawals, CompleteUnacknowledged(w) PROVE TypeOK'
  BY <1>10 DEF CompleteUnacknowledged, WriteDebit
<1>11. ASSUME NEW w \in Withdrawals, CompleteError(w) PROVE TypeOK'
  BY <1>11 DEF CompleteError
<1>12. ASSUME NEW w \in Withdrawals, SettleInternalBegin(w) PROVE TypeOK'
  BY <1>12 DEF SettleInternalBegin
<1>13. ASSUME NEW w \in Withdrawals, SettleInternal(w) PROVE TypeOK'
  BY <1>13 DEF SettleInternal, WriteInternal, WriteMove, Unlock
<1>14. ASSUME NEW w \in Withdrawals, SettleInternalUnacknowledged(w) PROVE TypeOK'
  BY <1>14 DEF SettleInternalUnacknowledged, WriteInternal, WriteMove, Unlock
<1>15. ASSUME NEW w \in Withdrawals, SettleInternalError(w) PROVE TypeOK'
  BY <1>15 DEF SettleInternalError, Unlock
<1>16. ASSUME NEW w \in Withdrawals, MarkFailed(w) PROVE TypeOK'
  BY <1>16 DEF MarkFailed
<1>17. ASSUME NEW w \in Withdrawals, Abandon(w) PROVE TypeOK'
  BY <1>17 DEF Abandon, Unlock
<1>18. ASSUME NEW t \in Transfers, TransferBegin(t) PROVE TypeOK'
  BY <1>18 DEF TransferBegin
<1>19. ASSUME NEW t \in Transfers, Transfer(t) PROVE TypeOK'
  BY <1>19 DEF Transfer, WriteMove, Unlock
<1>20. ASSUME NEW t \in Transfers, TransferError(t) PROVE TypeOK'
  BY <1>20 DEF TransferError, Unlock
<1>21. ASSUME NEW c \in Credits, CreditBegin(c) PROVE TypeOK'
  BY <1>21 DEF CreditBegin
<1>22. ASSUME NEW c \in Credits, Credit(c) PROVE TypeOK'
  BY <1>22 DEF Credit
<1>23. ASSUME NEW c \in Credits, CreditRetry(c) PROVE TypeOK'
  BY <1>23 DEF CreditRetry
<1>24. ASSUME NEW c \in Credits, CreditError(c) PROVE TypeOK'
  BY <1>24 DEF CreditError
<1>25. ASSUME NEW k \in Closings, CloseResolve(k) PROVE TypeOK'
  BY <1>25 DEF CloseResolve
<1>26. ASSUME NEW k \in Closings, CloseReadBalance(k) PROVE TypeOK'
  BY <1>26 DEF CloseReadBalance
<1>27. ASSUME NEW k \in Closings, CloseReadReserved(k) PROVE TypeOK'
  BY <1>27 DEF CloseReadReserved
<1>28. ASSUME NEW k \in Closings, CloseBucket(k) PROVE TypeOK'
  BY <1>28 DEF CloseBucket
<1>29. CASE UNCHANGED vars
  BY <1>29 DEF vars
<1> QED
  BY <1>1, <1>2, <1>3, <1>4, <1>5, <1>6, <1>7, <1>8, <1>9, <1>10, <1>11, <1>12, <1>13, <1>14, <1>15,
     <1>16, <1>17, <1>18, <1>19, <1>20, <1>21, <1>22, <1>23, <1>24, <1>25, <1>26, <1>27, <1>28, <1>29
  DEF Next, WithdrawalStep, TransferStep, CreditStep, CloseStep

\* Every reachable state of the treasury layer is well typed.
THEOREM TypeCorrect == Spec => []TypeOK
<1>1. Init => TypeOK
  BY TypeInit
<1>2. TypeOK /\ [Next]_vars => TypeOK'
  BY TypeStep
<1> QED
  BY <1>1, <1>2, PTL DEF Spec

-----------------------------------------------------------------------------
(* What reservedKobo sums changes with the rows of the settlements only,   *)
(* so it takes knowing which withdrawals hold a reservation: where         *)
(* initiate has got to decides it, also when the answer to a COMMIT may be *)
(* lost.                                                                   *)

HoldInv ==
  \A w \in Withdrawals :
    /\ pc[w] \in {"idle", "resolved", "reserving"} => settlement[w] = "NONE"
    /\ pc[w] \in {"reserved", "processing", "locked", "paid"} => settlement[w] \in InFlight
    /\ pc[w] = "paid" => w.dest = Bank

\* No settlement row exists in the initial states.
LEMMA HoldInit == Init => HoldInv
  BY DEF Init, HoldInv, Procs, Movers

\* Every step keeps control and row of a settlement in line.
LEMMA HoldStep == TypeOK /\ HoldInv /\ [Next]_vars => HoldInv'
<1> SUFFICES ASSUME TypeOK, HoldInv, [Next]_vars PROVE HoldInv'
  OBVIOUS
<1> USE RequestAssumption
    DEF TypeOK, HoldInv, InFlight, Movers, Procs, Goto, ledgerVars, settlementVars, txVars
<1>1. ASSUME NEW b \in Buckets, ProvisionBucket(b) PROVE HoldInv'
  BY <1>1 DEF ProvisionBucket
<1>2. ASSUME NEW w \in Withdrawals, Initiate(w) PROVE HoldInv'
  BY <1>2 DEF Initiate
<1>3. ASSUME NEW w \in Withdrawals, BeginReserve(w) PROVE HoldInv'
  BY <1>3 DEF BeginReserve
<1>4. ASSUME NEW w \in Withdrawals, Reserve(w) PROVE HoldInv'
  BY <1>4 DEF Reserve
<1>5. ASSUME NEW w \in Withdrawals, RejectReserve(w) PROVE HoldInv'
  BY <1>5 DEF RejectReserve
<1>6. ASSUME NEW w \in Withdrawals, MarkProcessing(w) PROVE HoldInv'
  BY <1>6 DEF MarkProcessing
<1>7. ASSUME NEW w \in Withdrawals, BankTransferOk(w) PROVE HoldInv'
  BY <1>7 DEF BankTransferOk
<1>8. ASSUME NEW w \in Withdrawals, BankTransferError(w) PROVE HoldInv'
  BY <1>8 DEF BankTransferError
<1>9. ASSUME NEW w \in Withdrawals, CompleteSettlement(w) PROVE HoldInv'
  BY <1>9 DEF CompleteSettlement, WriteDebit
<1>10. ASSUME NEW w \in Withdrawals, CompleteUnacknowledged(w) PROVE HoldInv'
  BY <1>10 DEF CompleteUnacknowledged, WriteDebit
<1>11. ASSUME NEW w \in Withdrawals, CompleteError(w) PROVE HoldInv'
  BY <1>11 DEF CompleteError
<1>12. ASSUME NEW w \in Withdrawals, SettleInternalBegin(w) PROVE HoldInv'
  BY <1>12 DEF SettleInternalBegin
<1>13. ASSUME NEW w \in Withdrawals, SettleInternal(w) PROVE HoldInv'
  BY <1>13 DEF SettleInternal, WriteInternal
<1>14. ASSUME NEW w \in Withdrawals, SettleInternalUnacknowledged(w) PROVE HoldInv'
  BY <1>14 DEF SettleInternalUnacknowledged, WriteInternal
<1>15. ASSUME NEW w \in Withdrawals, SettleInternalError(w) PROVE HoldInv'
  BY <1>15 DEF SettleInternalError
<1>16. ASSUME NEW w \in Withdrawals, MarkFailed(w) PROVE HoldInv'
  BY <1>16 DEF MarkFailed
<1>17. ASSUME NEW w \in Withdrawals, Abandon(w) PROVE HoldInv'
  BY <1>17 DEF Abandon
<1>18. ASSUME NEW t \in Transfers, TransferBegin(t) PROVE HoldInv'
  BY <1>18 DEF TransferBegin
<1>19. ASSUME NEW t \in Transfers, Transfer(t) PROVE HoldInv'
  BY <1>19 DEF Transfer
<1>20. ASSUME NEW t \in Transfers, TransferError(t) PROVE HoldInv'
  BY <1>20 DEF TransferError
<1>21. ASSUME NEW c \in Credits, CreditBegin(c) PROVE HoldInv'
  BY <1>21 DEF CreditBegin
<1>22. ASSUME NEW c \in Credits, Credit(c) PROVE HoldInv'
  BY <1>22 DEF Credit
<1>23. ASSUME NEW c \in Credits, CreditRetry(c) PROVE HoldInv'
  BY <1>23 DEF CreditRetry
<1>24. ASSUME NEW c \in Credits, CreditError(c) PROVE HoldInv'
  BY <1>24 DEF CreditError
<1>25. ASSUME NEW k \in Closings, CloseResolve(k) PROVE HoldInv'
  BY <1>25 DEF CloseResolve
<1>26. ASSUME NEW k \in Closings, CloseReadBalance(k) PROVE HoldInv'
  BY <1>26 DEF CloseReadBalance
<1>27. ASSUME NEW k \in Closings, CloseReadReserved(k) PROVE HoldInv'
  BY <1>27 DEF CloseReadReserved
<1>28. ASSUME NEW k \in Closings, CloseBucket(k) PROVE HoldInv'
  BY <1>28 DEF CloseBucket
<1>29. CASE UNCHANGED vars
  BY <1>29 DEF vars
<1> QED
  BY <1>1, <1>2, <1>3, <1>4, <1>5, <1>6, <1>7, <1>8, <1>9, <1>10, <1>11, <1>12, <1>13, <1>14,
     <1>15, <1>16, <1>17, <1>18, <1>19, <1>20, <1>21, <1>22, <1>23, <1>24, <1>25, <1>26, <1>27,
     <1>28, <1>29
  DEF Next, WithdrawalStep, TransferStep, CreditStep, CloseStep

\* Nothing is reserved where no settlement is in flight.
LEMMA NothingReserved ==
  ASSUME NEW b \in Buckets, \A w \in Withdrawals : w.bucket = b => settlement[w] \notin InFlight
  PROVE  reserved[b] = 0
<1>1. Held(b) = {}
  BY DEF Held
<1>2. AmountOf(Held(b)) = 0
  BY <1>1, HeldFacts, AmountFacts
<1> QED
  BY <1>2 DEF reserved

\* Nothing is reserved in the initial states.
LEMMA ReservedInit == Init => reserved = [b \in Buckets |-> 0]
<1>1. Init => \A b \in Buckets : reserved[b] = 0
  BY NothingReserved DEF Init, InFlight
<1> QED
  BY <1>1, ReservedType

\* What is reserved stays when no settlement starts or stops to hold ...
LEMMA ReservedKept ==
  ASSUME \A w \in Withdrawals : settlement'[w] \in InFlight <=> settlement[w] \in InFlight
  PROVE  reserved' = reserved
<1>1. \A b : Held(b)' = Held(b)
  BY DEF Held
<1> QED
  BY <1>1 DEF reserved

\* ... when one starts to, its amount is added to its bucket ...
LEMMA ReservedStarts ==
  ASSUME NEW w \in Withdrawals, settlement[w] \notin InFlight, settlement'[w] \in InFlight,
         \A v \in Withdrawals \ {w} : settlement'[v] = settlement[v]
  PROVE  reserved' = [reserved EXCEPT ![w.bucket] = @ + w.amount]
<1>1. w.bucket \in Buckets /\ w.amount \in Int
  BY RequestAssumption
<1>2. ASSUME NEW b \in Buckets, b # w.bucket PROVE reserved'[b] = reserved[b]
  <2>1. Held(b)' = Held(b)
    BY <1>2 DEF Held
  <2> QED
    BY <2>1 DEF reserved
<1>3. reserved'[w.bucket] = reserved[w.bucket] + w.amount
  <2>1. Held(w.bucket)' = Held(w.bucket) \cup {w} /\ w \notin Held(w.bucket)
    BY DEF Held
  <2>2. AmountOf(Held(w.bucket) \cup {w}) = AmountOf(Held(w.bucket)) + w.amount
    BY <1>1, <2>1, HeldFacts, AmountFacts
  <2>3. /\ reserved[w.bucket] = AmountOf(Held(w.bucket))
        /\ reserved'[w.bucket] = AmountOf(Held(w.bucket)')
    BY <1>1 DEF reserved
  <2>4. AmountOf(Held(w.bucket)') = AmountOf(Held(w.bucket) \cup {w})
    BY <2>1, Zenon
  <2> QED
    BY <2>2, <2>3, <2>4
<1>4. DOMAIN reserved' = Buckets /\ reserved' = [b \in Buckets |-> reserved'[b]]
  BY DEF reserved
<1> QED
  BY <1>1, <1>2, <1>3, <1>4, ReservedType

\* ... and when one stops, it is taken off.
LEMMA ReservedEnds ==
  ASSUME NEW w \in Withdrawals, settlement[w] \in InFlight, settlement'[w] \notin InFlight,
         \A v \in Withdrawals \ {w} : settlement'[v] = settlement[v]
  PROVE  reserved' = [reserved EXCEPT ![w.bucket] = @ - w.amount]
<1> DEFINE rest == Held(w.bucket) \ {w}
<1>1. w.bucket \in Buckets /\ w.amount \in Int
  BY RequestAssumption
<1>2. ASSUME NEW b \in Buckets, b # w.bucket PROVE reserved'[b] = reserved[b]
  <2>1. Held(b)' = Held(b)
    BY <1>2 DEF Held
  <2> QED
    BY <2>1 DEF reserved
<1>3. reserved'[w.bucket] = reserved[w.bucket] - w.amount
  <2>1. Held(w.bucket) = rest \cup {w} /\ w \notin rest /\ Held(w.bucket)' = rest
    BY DEF Held
  <2>2. IsFiniteSet(rest) /\ \A v \in rest : v.amount \in Int
    BY HeldFacts, FS_RemoveElement
  <2> HIDE DEF rest
  <2>3. AmountOf(rest) \in Int /\ AmountOf(rest \cup {w}) = AmountOf(rest) + w.amount
    BY <1>1, <2>1, <2>2, AmountFacts
  <2>4. /\ reserved[w.bucket] = AmountOf(Held(w.bucket))
        /\ reserved'[w.bucket] = AmountOf(Held(w.bucket)')
    BY <1>1 DEF reserved
  <2>5. /\ AmountOf(Held(w.bucket)) = AmountOf(rest \cup {w})
        /\ AmountOf(Held(w.bucket)') = AmountOf(rest)
    BY <2>1, Zenon
  <2> QED
    BY <1>1, <2>3, <2>4, <2>5
<1>4. DOMAIN reserved' = Buckets /\ reserved' = [b \in Buckets |-> reserved'[b]]
  BY DEF reserved
<1> QED
  BY <1>1, <1>2, <1>3, <1>4, ReservedType

\* What the steps of initiate make of what is reserved, also TX2 and the catch after it.
LEMMA ReservedStep ==
  ASSUME TypeOK, HoldInv, NEW w \in Withdrawals
  PROVE  /\ Reserve(w) => reserved' = [reserved EXCEPT ![w.bucket] = @ + w.amount]
         /\ MarkProcessing(w) => reserved' = reserved
         /\ \/ CompleteSettlement(w)
            \/ CompleteUnacknowledged(w)
            \/ SettleInternal(w)
            \/ SettleInternalUnacknowledged(w)
            => reserved' = [reserved EXCEPT ![w.bucket] = @ - w.amount]
         /\ MarkFailed(w) =>
              reserved' = IF settlement[w] \in InFlight
                            THEN [reserved EXCEPT ![w.bucket] = @ - w.amount]
                            ELSE reserved
<1> USE DEF Goto
<1>1. ASSUME Reserve(w) PROVE reserved' = [reserved EXCEPT ![w.bucket] = @ + w.amount]
  <2>1. settlement[w] \notin InFlight
    BY <1>1 DEF Reserve, HoldInv, InFlight
  <2>2. settlement'[w] \in InFlight /\ \A v \in Withdrawals \ {w} : settlement'[v] = settlement[v]
    BY <1>1 DEF Reserve, TypeOK, InFlight
  <2> QED
    BY <2>1, <2>2, ReservedStarts
<1>2. ASSUME MarkProcessing(w) PROVE reserved' = reserved
  <2>1. \A v \in Withdrawals : settlement'[v] \in InFlight <=> settlement[v] \in InFlight
    BY <1>2 DEF MarkProcessing, HoldInv, TypeOK, InFlight
  <2> QED
    BY <2>1, ReservedKept
<1>3. ASSUME settlement[w] \in InFlight, settlement' = [settlement EXCEPT ![w] = "COMPLETED"]
      PROVE  reserved' = [reserved EXCEPT ![w.bucket] = @ - w.amount]
  <2>1. settlement'[w] \notin InFlight /\ \A v \in Withdrawals \ {w} : settlement'[v] = settlement[v]
    BY <1>3 DEF TypeOK, InFlight
  <2> QED
    BY <1>3, <2>1, ReservedEnds
<1>4. ASSUME CompleteSettlement(w) \/ CompleteUnacknowledged(w)
      PROVE  settlement[w] \in InFlight /\ settlement' = [settlement EXCEPT ![w] = "COMPLETED"]
  BY <1>4 DEF CompleteSettlement, CompleteUnacknowledged, WriteDebit, HoldInv
<1>5. ASSUME SettleInternal(w) \/ SettleInternalUnacknowledged(w)
      PROVE  settlement[w] \in InFlight /\ settlement' = [settlement EXCEPT ![w] = "COMPLETED"]
  BY <1>5 DEF SettleInternal, SettleInternalUnacknowledged, WriteInternal, HoldInv
<1>6. ASSUME MarkFailed(w)
      PROVE  reserved' = IF settlement[w] \in InFlight
                           THEN [reserved EXCEPT ![w.bucket] = @ - w.amount]
                           ELSE reserved
  <2>1. settlement'[w] \notin InFlight /\ \A v \in Withdrawals \ {w} : settlement'[v] = settlement[v]
    BY <1>6 DEF MarkFailed, TypeOK, InFlight
  <2>2. CASE settlement[w] \in InFlight
    BY <2>1, <2>2, ReservedEnds
  <2>3. CASE settlement[w] \notin InFlight
    BY <2>1, <2>3, ReservedKept
  <2> QED
    BY <2>2, <2>3
<1> QED
  BY <1>1, <1>2, <1>3, <1>4, <1>5, <1>6

-----------------------------------------------------------------------------
(* Balances and reservations.  Neither ReservationsCovered nor             *)
(* CumulativeExact is inductive: TX1 and credit() write what follows from  *)
(* a snapshot that other transactions may have overtaken.  The missing     *)
(* part says what is still true of the snapshot of a transaction that may  *)
(* commit: for TX1 that it does not promise more than is available, for    *)
(* credit() that it is the current sum.                                    *)

\* The buckets ReservationsCovered is about.
SettledOnly(b) == NoCredit(b) /\ NoTransferOut(b) /\ NoSelfSettle(b)

SnapshotCovers ==
  \A w \in Withdrawals :
    SettledOnly(w.bucket) /\ pc[w] = "reserving" /\ w \notin conflicted =>
      snap[w] <= latest[w.bucket] - reserved[w.bucket]

CreditSnapshot ==
  \A c \in Credits :
    OnlyCredits(c.bucket) /\ pc[c] = "crediting" /\ c \notin conflicted =>
      snap[c] = sum[c.bucket] /\ c \notin overtaken

BalanceInv ==
  /\ CumulativeExact
  /\ ReservationsCovered
  /\ SnapshotCovers
  /\ CreditSnapshot

\* Nothing is reserved and no transaction is open in the initial states.
LEMMA BalanceInit == Init => BalanceInv
<1> SUFFICES ASSUME Init PROVE BalanceInv
  OBVIOUS
<1>1. \A b \in Buckets : reserved[b] = 0
  BY ReservedInit
<1> QED
  BY <1>1, BucketAssumption, RequestAssumption
  DEF Init, BalanceInv, CumulativeExact, ReservationsCovered, SnapshotCovers, CreditSnapshot,
      Procs, Movers

\* Every step keeps the balances, the reservations and the open snapshots in line.
LEMMA BalanceStep == TypeOK /\ HoldInv /\ BalanceInv /\ [Next]_vars => BalanceInv'
<1> SUFFICES ASSUME TypeOK, HoldInv, BalanceInv, [Next]_vars PROVE BalanceInv'
  OBVIOUS
<1>a. reserved \in [Buckets -> Int] /\ (settlement' = settlement => reserved' = reserved)
  BY ReservedType, ReservedKept
<1> USE RequestAssumption
    DEF TypeOK, BalanceInv, CumulativeExact, ReservationsCovered, SnapshotCovers,
        CreditSnapshot, SettledOnly, NoCredit, NoTransferOut, NoSelfSettle, OnlyCredits,
        Movers, Procs, Goto, Reserving, Crediting, ledgerVars, settlementVars, txVars
<1>1. ASSUME NEW b \in Buckets, ProvisionBucket(b) PROVE BalanceInv'
  BY <1>1, <1>a DEF ProvisionBucket
<1>2. ASSUME NEW w \in Withdrawals, Initiate(w) PROVE BalanceInv'
  BY <1>2, <1>a DEF Initiate
<1>3. ASSUME NEW w \in Withdrawals, BeginReserve(w) PROVE BalanceInv'
  <2>1. CumulativeExact'
    BY <1>3, <1>a DEF BeginReserve
  <2>2. ReservationsCovered'
    BY <1>3, <1>a DEF BeginReserve
  <2>3. SnapshotCovers'
    BY <1>3, <1>a DEF BeginReserve
  <2>4. CreditSnapshot'
    BY <1>3, <1>a DEF BeginReserve
  <2> QED
    BY <2>1, <2>2, <2>3, <2>4 DEF BalanceInv
<1>4. ASSUME NEW w \in Withdrawals, Reserve(w) PROVE BalanceInv'
  <2>a. reserved' = [reserved EXCEPT ![w.bucket] = @ + w.amount]
    BY <1>4, ReservedStep
  <2>1. CumulativeExact'
    BY <1>4 DEF Reserve
  <2>2. ReservationsCovered'
    BY <1>4, <1>a, <2>a, <2>1 DEF Reserve
  <2>3. SnapshotCovers'
    BY <1>4, <1>a, <2>a, <2>1 DEF Reserve
  <2>4. CreditSnapshot'
    BY <1>4 DEF Reserve
  <2> QED
    BY <2>1, <2>2, <2>3, <2>4 DEF BalanceInv
<1>5. ASSUME NEW w \in Withdrawals, RejectReserve(w) PROVE BalanceInv'
  BY <1>5, <1>a DEF RejectReserve
<1>6. ASSUME NEW w \in Withdrawals, MarkProcessing(w) PROVE BalanceInv'
  BY <1>6, <1>a, ReservedStep DEF MarkProcessing
<1>7. ASSUME NEW w \in Withdrawals, BankTransferOk(w) PROVE BalanceInv'
  BY <1>7, <1>a DEF BankTransferOk
<1>8. ASSUME NEW w \in Withdrawals, BankTransferError(w) PROVE BalanceInv'
  BY <1>8, <1>a DEF BankTransferError
<1>9. ASSUME NEW w \in Withdrawals, CompleteSettlement(w) PROVE BalanceInv'
  <2>a. reserved' = [reserved EXCEPT ![w.bucket] = @ - w.amount]
    BY <1>9, ReservedStep
  <2>1. CumulativeExact'
    BY <1>9 DEF CompleteSettlement, WriteDebit
  <2>2. ReservationsCovered'
    BY <1>9, <1>a, <2>a, <2>1 DEF CompleteSettlement, WriteDebit
  <2>3. SnapshotCovers'
    BY <1>9, <1>a, <2>a, <2>1 DEF CompleteSettlement, WriteDebit
  <2>4. CreditSnapshot'
    BY <1>9 DEF CompleteSettlement, WriteDebit
  <2> QED
    BY <2>1, <2>2, <2>3, <2>4 DEF BalanceInv
<1>10. ASSUME NEW w \in Withdrawals, CompleteUnacknowledged(w) PROVE BalanceInv'
  <2>a. reserved' = [reserved EXCEPT ![w.bucket] = @ - w.amount]
    BY <1>10, ReservedStep
  <2>1. CumulativeExact'
    BY <1>10 DEF CompleteUnacknowledged, WriteDebit
  <2>2. ReservationsCovered'
    BY <1>10, <1>a, <2>a, <2>1 DEF CompleteUnacknowledged, WriteDebit
  <2>3. SnapshotCovers'
    BY <1>10, <1>a, <2>a, <2>1 DEF CompleteUnacknowledged, WriteDebit
  <2>4. CreditSnapshot'
    BY <1>10 DEF CompleteUnacknowledged, WriteDebit
  <2> QED
    BY <2>1, <2>2, <2>3, <2>4 DEF BalanceInv
<1>11. ASSUME NEW w \in Withdrawals, CompleteError(w) PROVE BalanceInv'
  BY <1>11, <1>a DEF CompleteError
<1>12. ASSUME NEW w \in Withdrawals, SettleInternalBegin(w) PROVE BalanceInv'
  BY <1>12, <1>a DEF SettleInternalBegin
<1>13. ASSUME NEW w \in Withdrawals, SettleInternal(w) PROVE BalanceInv'
  <2>a. reserved' = [reserved EXCEPT ![w.bucket] = @ - w.amount]
    BY <1>13, ReservedStep
  <2>1. CumulativeExact'
    BY <1>13 DEF SettleInternal, WriteInternal, WriteMove
  <2>2. ReservationsCovered'
    BY <1>13, <1>a, <2>a, <2>1 DEF SettleInternal, WriteInternal, WriteMove
  <2>3. SnapshotCovers'
    BY <1>13, <1>a, <2>a, <2>1, SMTT(20) DEF SettleInternal, WriteInternal, WriteMove
  <2>4. CreditSnapshot'
    BY <1>13 DEF SettleInternal, WriteInternal, WriteMove
  <2> QED
    BY <2>1, <2>2, <2>3, <2>4 DEF BalanceInv
<1>14. ASSUME NEW w \in Withdrawals, SettleInternalUnacknowledged(w) PROVE BalanceInv'
  <2>a. reserved' = [reserved EXCEPT ![w.bucket] = @ - w.amount]
    BY <1>14, ReservedStep
  <2>1. CumulativeExact'
    BY <1>14 DEF SettleInternalUnacknowledged, WriteInternal, WriteMove
  <2>2. ReservationsCovered'
    BY <1>14, <1>a, <2>a, <2>1 DEF SettleInternalUnacknowledged, WriteInternal, WriteMove
  <2>3. SnapshotCovers'
    BY <1>14, <1>a, <2>a, <2>1 DEF SettleInternalUnacknowledged, WriteInternal, WriteMove
  <2>4. CreditSnapshot'
    BY <1>14 DEF SettleInternalUnacknowledged, WriteInternal, WriteMove
  <2> QED
    BY <2>1, <2>2, <2>3, <2>4 DEF BalanceInv
<1>15. ASSUME NEW w \in Withdrawals, SettleInternalError(w) PROVE BalanceInv'
  BY <1>15, <1>a DEF SettleInternalError
<1>16. ASSUME NEW w \in Withdrawals, MarkFailed(w) PROVE BalanceInv'
  <2>1. CumulativeExact'
    BY <1>16 DEF MarkFailed
  <2>2. \A b \in Buckets : reserved'[b] \in Int /\ reserved'[b] <= reserved[b]
    <3>1. \/ reserved' = [reserved EXCEPT ![w.bucket] = @ - w.amount]
          \/ reserved' = reserved
      BY <1>16, ReservedStep
    <3>2. w.amount \in Nat
      BY RequestAssumption
    <3> QED
      BY ONLY <1>a, <3>1, <3>2
  <2>3. ReservationsCovered'
    BY <1>16, <1>a, <2>2 DEF MarkFailed
  <2>4. SnapshotCovers'
    BY <1>16, <1>a, <2>2 DEF MarkFailed
  <2>5. CreditSnapshot'
    BY <1>16 DEF MarkFailed
  <2> QED
    BY <2>1, <2>3, <2>4, <2>5 DEF BalanceInv
<1>17. ASSUME NEW w \in Withdrawals, Abandon(w) PROVE BalanceInv'
  BY <1>17, <1>a DEF Abandon
<1>18. ASSUME NEW t \in Transfers, TransferBegin(t) PROVE BalanceInv'
  BY <1>18, <1>a DEF TransferBegin
<1>19. ASSUME NEW t \in Transfers, Transfer(t) PROVE BalanceInv'
  <2>a. reserved' = reserved
    BY <1>19, <1>a DEF Transfer
  <2>b. \A b \in Buckets \ {t.bucket} : sum'[b] \in Int /\ sum[b] <= sum'[b]
    BY <1>19 DEF Transfer, WriteMove
  <2>1. CumulativeExact'
    BY <1>19 DEF Transfer, WriteMove
  <2>2. ReservationsCovered'
    BY <1>a, <2>a, <2>b
  <2>3. SnapshotCovers'
    BY <1>19, <1>a, <2>a, <2>b, <2>1 DEF Transfer
  <2>4. CreditSnapshot'
    BY <1>19 DEF Transfer, WriteMove
  <2> QED
    BY <2>1, <2>2, <2>3, <2>4 DEF BalanceInv
<1>20. ASSUME NEW t \in Transfers, TransferError(t) PROVE BalanceInv'
  BY <1>20, <1>a DEF TransferError
<1>21. ASSUME NEW c \in Credits, CreditBegin(c) PROVE BalanceInv'
  BY <1>21, <1>a DEF CreditBegin
<1>22. ASSUME NEW c \in Credits, Credit(c) PROVE BalanceInv'
  <2>1. CumulativeExact'
    BY <1>22 DEF Credit
  <2>2. ReservationsCovered'
    BY <1>22, <1>a DEF Credit
  <2>3. SnapshotCovers'
    BY <1>22, <1>a DEF Credit
  <2>4. CreditSnapshot'
    BY <1>22 DEF Credit
  <2> QED
    BY <2>1, <2>2, <2>3, <2>4 DEF BalanceInv
<1>23. ASSUME NEW c \in Credits, CreditRetry(c) PROVE BalanceInv'
  BY <1>23, <1>a DEF CreditRetry
<1>24. ASSUME NEW c \in Credits, CreditError(c) PROVE BalanceInv'
  BY <1>24, <1>a DEF CreditError
<1>25. ASSUME NEW k \in Closings, CloseResolve(k) PROVE BalanceInv'
  BY <1>25, <1>a DEF CloseResolve
<1>26. ASSUME NEW k \in Closings, CloseReadBalance(k) PROVE BalanceInv'
  BY <1>26, <1>a DEF CloseReadBalance
<1>27. ASSUME NEW k \in Closings, CloseReadReserved(k) PROVE BalanceInv'
  BY <1>27, <1>a DEF CloseReadReserved
<1>28. ASSUME NEW k \in Closings, CloseBucket(k) PROVE BalanceInv'
  BY <1>28, <1>a DEF CloseBucket
<1>29. CASE UNCHANGED vars
  BY <1>29, <1>a DEF vars
<1> QED
  BY <1>1, <1>2, <1>3, <1>4, <1>5, <1>6, <1>7, <1>8, <1>9, <1>10, <1>11, <1>12, <1>13, <1>14, <1>15,
     <1>16, <1>17, <1>18, <1>19, <1>20, <1>21, <1>22, <1>23, <1>24, <1>25, <1>26, <1>27, <1>28, <1>29
  DEF Next, WithdrawalStep, TransferStep, CreditStep, CloseStep

\* Both parts of the balance argument hold in every reachable state.
LEMMA BalanceCorrect == Spec => [](TypeOK /\ HoldInv /\ BalanceInv)
<1>1. Init => TypeOK /\ HoldInv /\ BalanceInv
  BY TypeInit, HoldInit, BalanceInit
<1>2. TypeOK /\ HoldInv /\ BalanceInv /\ [Next]_vars => (TypeOK /\ HoldInv /\ BalanceInv)'
  BY TypeStep, HoldStep, BalanceStep
<1> QED
  BY <1>1, <1>2, PTL DEF Spec

\* EC-07: on a bucket that is only settled from and moved into, the settlements
\* in flight never reserve more than the bucket holds, with any number of
\* concurrent withdrawals, aborts, deaths and lost answers.
THEOREM ReservationsStayCovered == Spec => []ReservationsCovered
<1>1. TypeOK /\ HoldInv /\ BalanceInv => ReservationsCovered
  BY DEF BalanceInv
<1> QED
  BY <1>1, BalanceCorrect, PTL

\* The cumulative amount of the latest entry is the bucket's balance, on a bucket
\* credit() never touches and on one only credit() touches.
THEOREM CumulativeStaysExact == Spec => []CumulativeExact
<1>1. TypeOK /\ HoldInv /\ BalanceInv => CumulativeExact
  BY DEF BalanceInv
<1> QED
  BY <1>1, BalanceCorrect, PTL

\* Idempotency on reference, for any number of calls that share references and
\* buckets in any way: every credit in the ledger has a reference of its own.
THEOREM AllocationsAreOnce == Spec => []AllocatedOnce
<1>1. Init => AllocatedOnce
  BY DEF Init, AllocatedOnce
<1>2. AllocatedOnce /\ [Next]_vars => AllocatedOnce'
  <2> SUFFICES ASSUME AllocatedOnce, [Next]_vars PROVE AllocatedOnce'
    OBVIOUS
  <2>1. ASSUME NEW c \in Credits, Credit(c) PROVE AllocatedOnce'
    BY <2>1 DEF Credit, AllocatedOnce, Refs
  <2>2. CASE UNCHANGED credited
    BY <2>2 DEF AllocatedOnce
  <2>3. (\E c \in Credits : Credit(c)) \/ UNCHANGED credited
    BY DEF Next, WithdrawalStep, TransferStep, CreditStep, CloseStep, vars, ledgerVars,
           ProvisionBucket, Initiate, BeginReserve, Reserve, RejectReserve, MarkProcessing,
           BankTransferOk, BankTransferError, CompleteSettlement,
           CompleteUnacknowledged, CompleteError, SettleInternalBegin, SettleInternal,
           SettleInternalUnacknowledged, WriteInternal, SettleInternalError, MarkFailed, Abandon, TransferBegin, Transfer, TransferError,
           CreditBegin, CreditRetry, CreditError, CloseResolve, CloseReadBalance,
           CloseReadReserved, CloseBucket
  <2> QED
    BY <2>1, <2>2, <2>3
<1> QED
  BY <1>1, <1>2, PTL DEF Spec

-----------------------------------------------------------------------------
(* Settlements and their DEBIT entries.  Where initiate has got to decides *)
(* the status of its row, unless the answer to a COMMIT is lost.           *)

SettlementInv ==
  \A w \in Withdrawals :
    /\ pc[w] \in {"idle", "resolved", "reserving", "rejected"} => settlement[w] = "NONE"
    /\ pc[w] = "reserved" => settlement[w] = "PENDING"
    /\ pc[w] \in {"processing", "locked", "paid", "failing"} => settlement[w] = "PROCESSING"
    /\ pc[w] = "done" => settlement[w] = "COMPLETED"
    /\ pc[w] = "failed" => settlement[w] = "FAILED"
    /\ pc[w] = "abandoned" => settlement[w] \in InFlight
    /\ pc[w] = "locked" => w.dest \in Buckets
    /\ pc[w] = "paid" => w \in paid

\* No settlement row exists in the initial states.
LEMMA SettlementInit == Init => SettlementInv /\ DebitOnlyOnCompletion
  BY DEF Init, SettlementInv, DebitOnlyOnCompletion, Procs, Movers

\* Every step keeps each settlement's row, entries and control in line.
LEMMA SettlementStep ==
  ASSUME ~MayLoseAck, TypeOK, SettlementInv, DebitOnlyOnCompletion, [Next]_vars
  PROVE  SettlementInv' /\ DebitOnlyOnCompletion'
<1> USE BucketAssumption, RequestAssumption
    DEF TypeOK, SettlementInv, DebitOnlyOnCompletion, Movers, Procs, Goto, InFlight,
        ledgerVars, settlementVars, txVars
<1>1. ASSUME NEW b \in Buckets, ProvisionBucket(b) PROVE SettlementInv' /\ DebitOnlyOnCompletion'
  BY <1>1 DEF ProvisionBucket
<1>2. ASSUME NEW w \in Withdrawals, Initiate(w) PROVE SettlementInv' /\ DebitOnlyOnCompletion'
  BY <1>2 DEF Initiate
<1>3. ASSUME NEW w \in Withdrawals, BeginReserve(w) PROVE SettlementInv' /\ DebitOnlyOnCompletion'
  BY <1>3 DEF BeginReserve
<1>4. ASSUME NEW w \in Withdrawals, Reserve(w) PROVE SettlementInv' /\ DebitOnlyOnCompletion'
  BY <1>4 DEF Reserve
<1>5. ASSUME NEW w \in Withdrawals, RejectReserve(w) PROVE SettlementInv' /\ DebitOnlyOnCompletion'
  BY <1>5 DEF RejectReserve
<1>6. ASSUME NEW w \in Withdrawals, MarkProcessing(w) PROVE SettlementInv' /\ DebitOnlyOnCompletion'
  BY <1>6 DEF MarkProcessing
<1>7. ASSUME NEW w \in Withdrawals, BankTransferOk(w) PROVE SettlementInv' /\ DebitOnlyOnCompletion'
  BY <1>7 DEF BankTransferOk
<1>8. ASSUME NEW w \in Withdrawals, BankTransferError(w) PROVE SettlementInv' /\ DebitOnlyOnCompletion'
  BY <1>8 DEF BankTransferError
<1>9. ASSUME NEW w \in Withdrawals, CompleteSettlement(w) PROVE SettlementInv' /\ DebitOnlyOnCompletion'
  BY <1>9 DEF CompleteSettlement, WriteDebit
<1>10. ASSUME NEW w \in Withdrawals, CompleteUnacknowledged(w) PROVE SettlementInv' /\ DebitOnlyOnCompletion'
  BY <1>10 DEF CompleteUnacknowledged, WriteDebit
<1>11. ASSUME NEW w \in Withdrawals, CompleteError(w) PROVE SettlementInv' /\ DebitOnlyOnCompletion'
  BY <1>11 DEF CompleteError
<1>12. ASSUME NEW w \in Withdrawals, SettleInternalBegin(w) PROVE SettlementInv' /\ DebitOnlyOnCompletion'
  BY <1>12 DEF SettleInternalBegin
<1>13. ASSUME NEW w \in Withdrawals, SettleInternal(w) PROVE SettlementInv' /\ DebitOnlyOnCompletion'
  BY <1>13 DEF SettleInternal, WriteInternal, WriteMove
<1>14. ASSUME NEW w \in Withdrawals, SettleInternalUnacknowledged(w) PROVE SettlementInv' /\ DebitOnlyOnCompletion'
  BY <1>14 DEF SettleInternalUnacknowledged
<1>15. ASSUME NEW w \in Withdrawals, SettleInternalError(w) PROVE SettlementInv' /\ DebitOnlyOnCompletion'
  BY <1>15 DEF SettleInternalError
<1>16. ASSUME NEW w \in Withdrawals, MarkFailed(w) PROVE SettlementInv' /\ DebitOnlyOnCompletion'
  BY <1>16 DEF MarkFailed
<1>17. ASSUME NEW w \in Withdrawals, Abandon(w) PROVE SettlementInv' /\ DebitOnlyOnCompletion'
  BY <1>17 DEF Abandon
<1>18. ASSUME NEW t \in Transfers, TransferBegin(t) PROVE SettlementInv' /\ DebitOnlyOnCompletion'
  BY <1>18 DEF TransferBegin
<1>19. ASSUME NEW t \in Transfers, Transfer(t) PROVE SettlementInv' /\ DebitOnlyOnCompletion'
  BY <1>19 DEF Transfer, WriteMove
<1>20. ASSUME NEW t \in Transfers, TransferError(t) PROVE SettlementInv' /\ DebitOnlyOnCompletion'
  BY <1>20 DEF TransferError
<1>21. ASSUME NEW c \in Credits, CreditBegin(c) PROVE SettlementInv' /\ DebitOnlyOnCompletion'
  BY <1>21 DEF CreditBegin
<1>22. ASSUME NEW c \in Credits, Credit(c) PROVE SettlementInv' /\ DebitOnlyOnCompletion'
  BY <1>22 DEF Credit
<1>23. ASSUME NEW c \in Credits, CreditRetry(c) PROVE SettlementInv' /\ DebitOnlyOnCompletion'
  BY <1>23 DEF CreditRetry
<1>24. ASSUME NEW c \in Credits, CreditError(c) PROVE SettlementInv' /\ DebitOnlyOnCompletion'
  BY <1>24 DEF CreditError
<1>25. ASSUME NEW k \in Closings, CloseResolve(k) PROVE SettlementInv' /\ DebitOnlyOnCompletion'
  BY <1>25 DEF CloseResolve
<1>26. ASSUME NEW k \in Closings, CloseReadBalance(k) PROVE SettlementInv' /\ DebitOnlyOnCompletion'
  BY <1>26 DEF CloseReadBalance
<1>27. ASSUME NEW k \in Closings, CloseReadReserved(k) PROVE SettlementInv' /\ DebitOnlyOnCompletion'
  BY <1>27 DEF CloseReadReserved
<1>28. ASSUME NEW k \in Closings, CloseBucket(k) PROVE SettlementInv' /\ DebitOnlyOnCompletion'
  BY <1>28 DEF CloseBucket
<1>29. CASE UNCHANGED vars
  BY <1>29 DEF vars
<1> QED
  BY <1>1, <1>2, <1>3, <1>4, <1>5, <1>6, <1>7, <1>8, <1>9, <1>10, <1>11, <1>12, <1>13, <1>14, <1>15,
     <1>16, <1>17, <1>18, <1>19, <1>20, <1>21, <1>22, <1>23, <1>24, <1>25, <1>26, <1>27, <1>28, <1>29
  DEF Next, WithdrawalStep, TransferStep, CreditStep, CloseStep

\* The settlement argument holds in every reachable state.
LEMMA SettlementCorrect ==
  ASSUME ~MayLoseAck
  PROVE  Spec => [](TypeOK /\ SettlementInv /\ DebitOnlyOnCompletion)
<1>1. Init => TypeOK /\ SettlementInv /\ DebitOnlyOnCompletion
  BY TypeInit, SettlementInit
<1>2. TypeOK /\ SettlementInv /\ DebitOnlyOnCompletion /\ [Next]_vars
        => (TypeOK /\ SettlementInv /\ DebitOnlyOnCompletion)'
  BY TypeStep, SettlementStep
<1> QED
  BY <1>1, <1>2, PTL DEF Spec

\* ADR #13: a settlement has one DEBIT exactly when it is COMPLETED, and for an
\* external destination only after Nomba confirmed; whatever dies or fails, as
\* long as the database's answers to COMMIT arrive.
THEOREM DebitsMatchSettlements ==
  ASSUME ~MayLoseAck
  PROVE  Spec => []DebitOnlyOnCompletion
<1>1. TypeOK /\ SettlementInv /\ DebitOnlyOnCompletion => DebitOnlyOnCompletion
  OBVIOUS
<1> QED
  BY <1>1, SettlementCorrect, PTL

\* A COMPLETED or FAILED settlement is never written again.
THEOREM SettlementsAreFinal ==
  ASSUME ~MayLoseAck
  PROVE  Spec => SettledIsFinal
<1> DEFINE Final ==
      \A w \in Withdrawals :
        settlement[w] \in {"COMPLETED", "FAILED"} => settlement'[w] = settlement[w]
<1>1. ASSUME TypeOK, SettlementInv, [Next]_vars
      PROVE  [Final]_vars
  <2> USE <1>1 DEF TypeOK, SettlementInv, Movers, Procs, Goto, ledgerVars, settlementVars
  <2>1. ASSUME NEW b \in Buckets, ProvisionBucket(b) PROVE Final
    BY <2>1 DEF ProvisionBucket
  <2>2. ASSUME NEW w \in Withdrawals, Initiate(w) PROVE Final
    BY <2>2 DEF Initiate
  <2>3. ASSUME NEW w \in Withdrawals, BeginReserve(w) PROVE Final
    BY <2>3 DEF BeginReserve
  <2>4. ASSUME NEW w \in Withdrawals, Reserve(w) PROVE Final
    BY <2>4 DEF Reserve
  <2>5. ASSUME NEW w \in Withdrawals, RejectReserve(w) PROVE Final
    BY <2>5 DEF RejectReserve
  <2>6. ASSUME NEW w \in Withdrawals, MarkProcessing(w) PROVE Final
    BY <2>6 DEF MarkProcessing
  <2>7. ASSUME NEW w \in Withdrawals, BankTransferOk(w) PROVE Final
    BY <2>7 DEF BankTransferOk
  <2>8. ASSUME NEW w \in Withdrawals, BankTransferError(w) PROVE Final
    BY <2>8 DEF BankTransferError
  <2>9. ASSUME NEW w \in Withdrawals, CompleteSettlement(w) PROVE Final
    BY <2>9 DEF CompleteSettlement, WriteDebit
  <2>10. ASSUME NEW w \in Withdrawals, CompleteUnacknowledged(w) PROVE Final
    BY <2>10 DEF CompleteUnacknowledged, WriteDebit
  <2>11. ASSUME NEW w \in Withdrawals, CompleteError(w) PROVE Final
    BY <2>11 DEF CompleteError
  <2>12. ASSUME NEW w \in Withdrawals, SettleInternalBegin(w) PROVE Final
    BY <2>12 DEF SettleInternalBegin
  <2>13. ASSUME NEW w \in Withdrawals, SettleInternal(w) PROVE Final
    BY <2>13 DEF SettleInternal, WriteInternal
  <2>14. ASSUME NEW w \in Withdrawals, SettleInternalUnacknowledged(w) PROVE Final
    BY <2>14 DEF SettleInternalUnacknowledged
  <2>15. ASSUME NEW w \in Withdrawals, SettleInternalError(w) PROVE Final
    BY <2>15 DEF SettleInternalError
  <2>16. ASSUME NEW w \in Withdrawals, MarkFailed(w) PROVE Final
    BY <2>16 DEF MarkFailed
  <2>17. ASSUME NEW w \in Withdrawals, Abandon(w) PROVE Final
    BY <2>17 DEF Abandon
  <2>18. ASSUME NEW t \in Transfers, TransferBegin(t) PROVE Final
    BY <2>18 DEF TransferBegin
  <2>19. ASSUME NEW t \in Transfers, Transfer(t) PROVE Final
    BY <2>19 DEF Transfer
  <2>20. ASSUME NEW t \in Transfers, TransferError(t) PROVE Final
    BY <2>20 DEF TransferError
  <2>21. ASSUME NEW c \in Credits, CreditBegin(c) PROVE Final
    BY <2>21 DEF CreditBegin
  <2>22. ASSUME NEW c \in Credits, Credit(c) PROVE Final
    BY <2>22 DEF Credit
  <2>23. ASSUME NEW c \in Credits, CreditRetry(c) PROVE Final
    BY <2>23 DEF CreditRetry
  <2>24. ASSUME NEW c \in Credits, CreditError(c) PROVE Final
    BY <2>24 DEF CreditError
  <2>25. ASSUME NEW k \in Closings, CloseResolve(k) PROVE Final
    BY <2>25 DEF CloseResolve
  <2>26. ASSUME NEW k \in Closings, CloseReadBalance(k) PROVE Final
    BY <2>26 DEF CloseReadBalance
  <2>27. ASSUME NEW k \in Closings, CloseReadReserved(k) PROVE Final
    BY <2>27 DEF CloseReadReserved
  <2>28. ASSUME NEW k \in Closings, CloseBucket(k) PROVE Final
    BY <2>28 DEF CloseBucket
  <2> QED
    BY <2>1, <2>2, <2>3, <2>4, <2>5, <2>6, <2>7, <2>8, <2>9, <2>10, <2>11, <2>12, <2>13, <2>14, <2>15,
       <2>16, <2>17, <2>18, <2>19, <2>20, <2>21, <2>22, <2>23, <2>24, <2>25, <2>26, <2>27, <2>28
    DEF Next, WithdrawalStep, TransferStep, CreditStep, CloseStep
<1>2. TypeOK /\ SettlementInv /\ DebitOnlyOnCompletion /\ [Next]_vars => [Final]_vars
  BY <1>1
<1> QED
  BY <1>2, SettlementCorrect, PTL DEF Spec, SettledIsFinal
-----------------------------------------------------------------------------
(* The value of all buckets together.                                      *)

\* What was debited for each external transfer, and all of them together.
Debited == [w \in External |-> debits[w] * w.amount]

\* The sums Conservation relates are numbers.
LEMMA ValueFacts ==
  ASSUME TypeOK
  PROVE  /\ SumFunctionOnSet(sum, Buckets) \in Int
         /\ SumFunctionOnSet(Opening, Buckets) \in Int
         /\ IsFiniteSet(credited) /\ \A c \in credited : c.amount \in Int
         /\ AmountOf(credited) \in Int
         /\ IsFiniteSet(External) /\ \A w \in External : Debited[w] \in Int
         /\ SumFunctionOnSet(Debited, External) \in Int
<1>1. (\A b \in Buckets : sum[b] \in Int) /\ \A b \in Buckets : Opening[b] \in Int
  BY BucketAssumption DEF TypeOK
<1>2. SumFunctionOnSet(sum, Buckets) \in Int /\ SumFunctionOnSet(Opening, Buckets) \in Int
  BY <1>1, FiniteAssumption, SumOfAll
<1>3. IsFiniteSet(credited) /\ \A c \in credited : c.amount \in Int
  BY FiniteAssumption, RequestAssumption, FS_Subset DEF TypeOK
<1>4. AmountOf(credited) \in Int
  BY <1>3, AmountFacts
<1>5. IsFiniteSet(External) /\ \A w \in External : Debited[w] \in Int
  BY FiniteAssumption, RequestAssumption, FS_Subset DEF TypeOK, External, Debited
<1>6. SumFunctionOnSet(Debited, External) \in Int
  BY <1>5, SumOfAll
<1> QED
  BY <1>2, <1>3, <1>4, <1>5, <1>6

\* Value is conserved by a step that writes no entry of an external transfer, no credit
\* and no balance ...
LEMMA ValueStays ==
  ASSUME Conservation, SumFunctionOnSet(sum', Buckets) = SumFunctionOnSet(sum, Buckets),
         credited' = credited, \A w \in External : debits'[w] = debits[w]
  PROVE  Conservation'
<1>1. Debited' = Debited
  BY DEF Debited
<1> QED
  BY <1>1 DEF Conservation, Debited

\* ... by a DEBIT for an external transfer ...
LEMMA ValueDebited ==
  ASSUME Conservation, TypeOK, NEW w \in External, credited' = credited,
         sum' = [sum EXCEPT ![w.bucket] = @ - w.amount],
         debits' = [debits EXCEPT ![w] = @ + 1]
  PROVE  Conservation'
<1> DEFINE before == Debited
           after  == Debited'
<1>1. /\ w \in Withdrawals /\ w.bucket \in Buckets /\ w.amount \in Int /\ 0 - w.amount \in Int
      /\ sum[w.bucket] \in Int /\ debits[w] \in Int
  BY RequestAssumption DEF External, TypeOK
<1>2. SumFunctionOnSet(sum', Buckets) = SumFunctionOnSet(sum, Buckets) + (0 - w.amount)
  <2>1. sum'[w.bucket] = sum[w.bucket] + (0 - w.amount)
    BY <1>1 DEF TypeOK
  <2>2. \A b \in Buckets \ {w.bucket} : sum'[b] = sum[b]
    BY DEF TypeOK
  <2>3. \A b \in Buckets : sum[b] \in Int
    BY DEF TypeOK
  <2> QED
    BY ONLY <1>1, <2>1, <2>2, <2>3, FiniteAssumption, SumOfUpdate
<1>3. SumFunctionOnSet(after, External) = SumFunctionOnSet(before, External) + w.amount
  <2>1. after[w] = before[w] + w.amount
    <3>1. after[w] = (debits[w] + 1) * w.amount /\ before[w] = debits[w] * w.amount
      BY <1>1 DEF Debited, TypeOK
    <3>2. \A d, a \in Int : (d + 1) * a = d * a + a
      OBVIOUS
    <3> HIDE DEF after, before
    <3> QED
      BY ONLY <1>1, <3>1, <3>2
  <2>2. \A v \in External \ {w} : after[v] = before[v]
    BY DEF Debited, External, TypeOK
  <2>3. IsFiniteSet(External) /\ \A v \in External : before[v] \in Int
    BY ValueFacts
  <2> HIDE DEF after, before
  <2> QED
    BY ONLY w \in External, <1>1, <2>1, <2>2, <2>3, SumOfUpdate
<1>4. /\ SumFunctionOnSet(sum, Buckets) =
           SumFunctionOnSet(Opening, Buckets) + AmountOf(credited) - SumFunctionOnSet(before, External)
      /\ Conservation' <=> SumFunctionOnSet(sum', Buckets) =
           SumFunctionOnSet(Opening, Buckets) + AmountOf(credited) - SumFunctionOnSet(after, External)
  BY DEF Conservation, Debited
<1>5. /\ SumFunctionOnSet(sum, Buckets) \in Int /\ SumFunctionOnSet(Opening, Buckets) \in Int
      /\ AmountOf(credited) \in Int /\ SumFunctionOnSet(before, External) \in Int
  BY ValueFacts
<1> HIDE DEF after, before
<1> QED
  BY ONLY <1>1, <1>2, <1>3, <1>4, <1>5

\* ... by the two entries of a move, also onto the same bucket ...
LEMMA ValueMoved ==
  ASSUME TypeOK, NEW from \in Buckets, NEW to \in Buckets, NEW amount \in Int,
         WriteMove(from, to, amount)
  PROVE  SumFunctionOnSet(sum', Buckets) = SumFunctionOnSet(sum, Buckets)
<1> DEFINE mid == [sum EXCEPT ![from] = @ - amount]
<1>1. /\ mid[from] = sum[from] + (0 - amount) /\ \A b \in Buckets \ {from} : mid[b] = sum[b]
      /\ \A b \in Buckets : sum[b] \in Int /\ mid[b] \in Int
      /\ 0 - amount \in Int
  BY DEF TypeOK
<1>2. sum'[to] = mid[to] + amount /\ \A b \in Buckets \ {to} : sum'[b] = mid[b]
  BY DEF TypeOK, WriteMove
<1> HIDE DEF mid
<1>3. SumFunctionOnSet(mid, Buckets) = SumFunctionOnSet(sum, Buckets) + (0 - amount)
  BY ONLY from \in Buckets, <1>1, FiniteAssumption, SumOfUpdate
<1>4. SumFunctionOnSet(sum', Buckets) = SumFunctionOnSet(mid, Buckets) + amount
  BY ONLY to \in Buckets, amount \in Int, <1>1, <1>2, FiniteAssumption, SumOfUpdate
<1>5. SumFunctionOnSet(sum, Buckets) \in Int
  BY ValueFacts
<1> QED
  BY <1>3, <1>4, <1>5

\* ... and by the CREDIT of a call that has none yet.
LEMMA ValueCredited ==
  ASSUME Conservation, TypeOK, NEW c \in Credits, c \notin credited,
         sum' = [sum EXCEPT ![c.bucket] = @ + c.amount],
         credited' = credited \cup {c}, debits' = debits
  PROVE  Conservation'
<1>1. c.bucket \in Buckets /\ c.amount \in Int /\ sum[c.bucket] \in Int
  BY RequestAssumption DEF TypeOK
<1>2. SumFunctionOnSet(sum', Buckets) = SumFunctionOnSet(sum, Buckets) + c.amount
  <2>1. sum'[c.bucket] = sum[c.bucket] + c.amount
    BY <1>1 DEF TypeOK
  <2>2. \A b \in Buckets \ {c.bucket} : sum'[b] = sum[b]
    BY DEF TypeOK
  <2>3. \A b \in Buckets : sum[b] \in Int
    BY DEF TypeOK
  <2>4. c.bucket \in Buckets /\ c.amount \in Int
    BY <1>1
  <2> QED
    BY ONLY <2>1, <2>2, <2>3, <2>4, FiniteAssumption, SumOfUpdate
<1>3. AmountOf(credited \cup {c}) = AmountOf(credited) + c.amount
  BY <1>1, ValueFacts, AmountFacts
<1>4. Debited' = Debited
  BY DEF Debited
<1>5. /\ SumFunctionOnSet(sum, Buckets) =
           SumFunctionOnSet(Opening, Buckets) + AmountOf(credited) - SumFunctionOnSet(Debited, External)
      /\ Conservation' <=> SumFunctionOnSet(sum', Buckets) =
           SumFunctionOnSet(Opening, Buckets) + AmountOf(credited \cup {c})
             - SumFunctionOnSet(Debited, External)
  BY <1>4 DEF Conservation, Debited
<1>6. /\ SumFunctionOnSet(sum, Buckets) \in Int /\ SumFunctionOnSet(Opening, Buckets) \in Int
      /\ AmountOf(credited) \in Int /\ SumFunctionOnSet(Debited, External) \in Int
  BY ValueFacts
<1> QED
  BY ONLY <1>1, <1>2, <1>3, <1>5, <1>6

\* Every step is one of these.
LEMMA ConservationStep == TypeOK /\ HoldInv /\ Conservation /\ [Next]_vars => Conservation'
<1> SUFFICES ASSUME TypeOK, HoldInv, Conservation, [Next]_vars PROVE Conservation'
  OBVIOUS
<1> USE DEF Goto, ledgerVars, settlementVars
<1> DEFINE Stay == sum' = sum /\ credited' = credited /\ debits' = debits
<1> HIDE DEF Stay
<1>0. Stay => Conservation'
  BY ValueStays DEF Stay
<1>1. ASSUME NEW b \in Buckets, ProvisionBucket(b) PROVE Conservation'
  BY <1>0, <1>1 DEF Stay, ProvisionBucket
<1>2. ASSUME NEW w \in Withdrawals, Initiate(w) PROVE Conservation'
  BY <1>0, <1>2 DEF Stay, Initiate
<1>3. ASSUME NEW w \in Withdrawals, BeginReserve(w) PROVE Conservation'
  BY <1>0, <1>3 DEF Stay, BeginReserve
<1>4. ASSUME NEW w \in Withdrawals, Reserve(w) PROVE Conservation'
  BY <1>0, <1>4 DEF Stay, Reserve
<1>5. ASSUME NEW w \in Withdrawals, RejectReserve(w) PROVE Conservation'
  BY <1>0, <1>5 DEF Stay, RejectReserve
<1>6. ASSUME NEW w \in Withdrawals, MarkProcessing(w) PROVE Conservation'
  BY <1>0, <1>6 DEF Stay, MarkProcessing
<1>7. ASSUME NEW w \in Withdrawals, BankTransferOk(w) PROVE Conservation'
  BY <1>0, <1>7 DEF Stay, BankTransferOk
<1>8. ASSUME NEW w \in Withdrawals, BankTransferError(w) PROVE Conservation'
  BY <1>0, <1>8 DEF Stay, BankTransferError
<1>9. ASSUME NEW w \in Withdrawals, CompleteSettlement(w) PROVE Conservation'
  <2>1. w \in External
    BY <1>9 DEF CompleteSettlement, HoldInv, External
  <2> QED
    BY <1>9, <2>1, ValueDebited DEF CompleteSettlement, WriteDebit
<1>10. ASSUME NEW w \in Withdrawals, CompleteUnacknowledged(w) PROVE Conservation'
  <2>1. w \in External
    BY <1>10 DEF CompleteUnacknowledged, HoldInv, External
  <2> QED
    BY <1>10, <2>1, ValueDebited DEF CompleteUnacknowledged, WriteDebit
<1>11. ASSUME NEW w \in Withdrawals, CompleteError(w) PROVE Conservation'
  BY <1>0, <1>11 DEF Stay, CompleteError
<1>12. ASSUME NEW w \in Withdrawals, SettleInternalBegin(w) PROVE Conservation'
  BY <1>0, <1>12 DEF Stay, SettleInternalBegin
<1>13. ASSUME NEW w \in Withdrawals, SettleInternal(w) PROVE Conservation'
  <2>1. SumFunctionOnSet(sum', Buckets) = SumFunctionOnSet(sum, Buckets)
    BY <1>13, RequestAssumption, ValueMoved DEF SettleInternal, WriteInternal
  <2>2. credited' = credited /\ \A v \in External : debits'[v] = debits[v]
    BY <1>13, BucketAssumption DEF SettleInternal, WriteInternal, External, TypeOK
  <2> QED
    BY <2>1, <2>2, ValueStays
<1>14. ASSUME NEW w \in Withdrawals, SettleInternalUnacknowledged(w) PROVE Conservation'
  <2>1. SumFunctionOnSet(sum', Buckets) = SumFunctionOnSet(sum, Buckets)
    BY <1>14, RequestAssumption, ValueMoved DEF SettleInternalUnacknowledged, WriteInternal
  <2>2. credited' = credited /\ \A v \in External : debits'[v] = debits[v]
    BY <1>14, BucketAssumption DEF SettleInternalUnacknowledged, WriteInternal, External, TypeOK
  <2> QED
    BY <2>1, <2>2, ValueStays
<1>15. ASSUME NEW w \in Withdrawals, SettleInternalError(w) PROVE Conservation'
  BY <1>0, <1>15 DEF Stay, SettleInternalError
<1>16. ASSUME NEW w \in Withdrawals, MarkFailed(w) PROVE Conservation'
  BY <1>0, <1>16 DEF Stay, MarkFailed
<1>17. ASSUME NEW w \in Withdrawals, Abandon(w) PROVE Conservation'
  BY <1>0, <1>17 DEF Stay, Abandon
<1>18. ASSUME NEW t \in Transfers, TransferBegin(t) PROVE Conservation'
  BY <1>0, <1>18 DEF Stay, TransferBegin
<1>19. ASSUME NEW t \in Transfers, Transfer(t) PROVE Conservation'
  <2>1. SumFunctionOnSet(sum', Buckets) = SumFunctionOnSet(sum, Buckets)
    BY <1>19, RequestAssumption, ValueMoved DEF Transfer
  <2>2. credited' = credited /\ \A v \in External : debits'[v] = debits[v]
    BY <1>19, BucketAssumption DEF Transfer, External, TypeOK
  <2> QED
    BY <2>1, <2>2, ValueStays
<1>20. ASSUME NEW t \in Transfers, TransferError(t) PROVE Conservation'
  BY <1>0, <1>20 DEF Stay, TransferError
<1>21. ASSUME NEW c \in Credits, CreditBegin(c) PROVE Conservation'
  BY <1>0, <1>21 DEF Stay, CreditBegin
<1>22. ASSUME NEW c \in Credits, Credit(c) PROVE Conservation'
  <2>1. c \notin credited
    BY <1>22 DEF Credit, Refs
  <2> QED
    BY <1>22, <2>1, ValueCredited DEF Credit
<1>23. ASSUME NEW c \in Credits, CreditRetry(c) PROVE Conservation'
  BY <1>0, <1>23 DEF Stay, CreditRetry
<1>24. ASSUME NEW c \in Credits, CreditError(c) PROVE Conservation'
  BY <1>0, <1>24 DEF Stay, CreditError
<1>25. ASSUME NEW k \in Closings, CloseResolve(k) PROVE Conservation'
  BY <1>0, <1>25 DEF Stay, CloseResolve
<1>26. ASSUME NEW k \in Closings, CloseReadBalance(k) PROVE Conservation'
  BY <1>0, <1>26 DEF Stay, CloseReadBalance
<1>27. ASSUME NEW k \in Closings, CloseReadReserved(k) PROVE Conservation'
  BY <1>0, <1>27 DEF Stay, CloseReadReserved
<1>28. ASSUME NEW k \in Closings, CloseBucket(k) PROVE Conservation'
  BY <1>0, <1>28 DEF Stay, CloseBucket
<1>29. CASE UNCHANGED vars
  BY <1>0, <1>29 DEF Stay, vars
<1> QED
  BY <1>1, <1>2, <1>3, <1>4, <1>5, <1>6, <1>7, <1>8, <1>9, <1>10, <1>11, <1>12, <1>13, <1>14,
     <1>15, <1>16, <1>17, <1>18, <1>19, <1>20, <1>21, <1>22, <1>23, <1>24, <1>25, <1>26, <1>27,
     <1>28, <1>29
  DEF Next, WithdrawalStep, TransferStep, CreditStep, CloseStep

\* Nothing is credited or debited in the initial states.
LEMMA SumsInit == Init => Conservation
<1> SUFFICES ASSUME Init PROVE Conservation
  OBVIOUS
<1>1. TypeOK
  BY TypeInit
<1>2. SumFunctionOnSet(Debited, External) = 0
  <2>1. \A w \in External : Debited[w] = 0
    BY RequestAssumption DEF Init, Debited, External
  <2>2. IsFiniteSet(External)
    BY <1>1, ValueFacts
  <2> QED
    BY <2>1, <2>2, SumOfZero
<1>3. AmountOf(credited) = 0 /\ sum = Opening
  BY FS_EmptySet, AmountFacts DEF Init
<1>4. SumFunctionOnSet(Opening, Buckets) \in Int
  BY <1>1, ValueFacts
<1> QED
  BY <1>2, <1>3, <1>4 DEF Conservation, Debited

\* No interleaving of transfers, settlements and credits makes or loses money: the
\* ledger balances add up to what came in and what external settlements debited.
THEOREM ValueIsConserved == Spec => []Conservation
<1>1. Init => TypeOK /\ HoldInv /\ Conservation
  BY TypeInit, HoldInit, SumsInit
<1>2. TypeOK /\ HoldInv /\ Conservation /\ [Next]_vars => (TypeOK /\ HoldInv /\ Conservation)'
  BY TypeStep, HoldStep, ConservationStep
<1> QED
  BY <1>1, <1>2, PTL DEF Spec

-----------------------------------------------------------------------------
(* Handlers and locks: whoever holds a reservation or a row goes on.       *)

\* Every path out of a handler, the failures included, first settles the row.
LEMMA HandledStep == TypeOK /\ ReservationsHandled /\ [Next]_vars => ReservationsHandled'
<1> SUFFICES ASSUME TypeOK, ReservationsHandled, [Next]_vars PROVE ReservationsHandled'
  OBVIOUS
<1> USE RequestAssumption
    DEF TypeOK, ReservationsHandled, Handled, InFlight, Movers, Procs, Goto, ledgerVars,
        settlementVars, txVars
<1>1. ASSUME NEW b \in Buckets, ProvisionBucket(b) PROVE ReservationsHandled'
  BY <1>1 DEF ProvisionBucket
<1>2. ASSUME NEW w \in Withdrawals, Initiate(w) PROVE ReservationsHandled'
  BY <1>2 DEF Initiate
<1>3. ASSUME NEW w \in Withdrawals, BeginReserve(w) PROVE ReservationsHandled'
  BY <1>3 DEF BeginReserve
<1>4. ASSUME NEW w \in Withdrawals, Reserve(w) PROVE ReservationsHandled'
  BY <1>4 DEF Reserve
<1>5. ASSUME NEW w \in Withdrawals, RejectReserve(w) PROVE ReservationsHandled'
  BY <1>5 DEF RejectReserve
<1>6. ASSUME NEW w \in Withdrawals, MarkProcessing(w) PROVE ReservationsHandled'
  BY <1>6 DEF MarkProcessing
<1>7. ASSUME NEW w \in Withdrawals, BankTransferOk(w) PROVE ReservationsHandled'
  BY <1>7 DEF BankTransferOk
<1>8. ASSUME NEW w \in Withdrawals, BankTransferError(w) PROVE ReservationsHandled'
  BY <1>8 DEF BankTransferError
<1>9. ASSUME NEW w \in Withdrawals, CompleteSettlement(w) PROVE ReservationsHandled'
  BY <1>9 DEF CompleteSettlement, WriteDebit
<1>10. ASSUME NEW w \in Withdrawals, CompleteUnacknowledged(w) PROVE ReservationsHandled'
  BY <1>10 DEF CompleteUnacknowledged, WriteDebit
<1>11. ASSUME NEW w \in Withdrawals, CompleteError(w) PROVE ReservationsHandled'
  BY <1>11 DEF CompleteError
<1>12. ASSUME NEW w \in Withdrawals, SettleInternalBegin(w) PROVE ReservationsHandled'
  BY <1>12 DEF SettleInternalBegin
<1>13. ASSUME NEW w \in Withdrawals, SettleInternal(w) PROVE ReservationsHandled'
  BY <1>13 DEF SettleInternal, WriteInternal
<1>14. ASSUME NEW w \in Withdrawals, SettleInternalUnacknowledged(w) PROVE ReservationsHandled'
  BY <1>14 DEF SettleInternalUnacknowledged, WriteInternal
<1>15. ASSUME NEW w \in Withdrawals, SettleInternalError(w) PROVE ReservationsHandled'
  BY <1>15 DEF SettleInternalError
<1>16. ASSUME NEW w \in Withdrawals, MarkFailed(w) PROVE ReservationsHandled'
  BY <1>16 DEF MarkFailed
<1>17. ASSUME NEW w \in Withdrawals, Abandon(w) PROVE ReservationsHandled'
  BY <1>17 DEF Abandon
<1>18. ASSUME NEW t \in Transfers, TransferBegin(t) PROVE ReservationsHandled'
  BY <1>18 DEF TransferBegin
<1>19. ASSUME NEW t \in Transfers, Transfer(t) PROVE ReservationsHandled'
  BY <1>19 DEF Transfer
<1>20. ASSUME NEW t \in Transfers, TransferError(t) PROVE ReservationsHandled'
  BY <1>20 DEF TransferError
<1>21. ASSUME NEW c \in Credits, CreditBegin(c) PROVE ReservationsHandled'
  BY <1>21 DEF CreditBegin
<1>22. ASSUME NEW c \in Credits, Credit(c) PROVE ReservationsHandled'
  BY <1>22 DEF Credit
<1>23. ASSUME NEW c \in Credits, CreditRetry(c) PROVE ReservationsHandled'
  BY <1>23 DEF CreditRetry
<1>24. ASSUME NEW c \in Credits, CreditError(c) PROVE ReservationsHandled'
  BY <1>24 DEF CreditError
<1>25. ASSUME NEW k \in Closings, CloseResolve(k) PROVE ReservationsHandled'
  BY <1>25 DEF CloseResolve
<1>26. ASSUME NEW k \in Closings, CloseReadBalance(k) PROVE ReservationsHandled'
  BY <1>26 DEF CloseReadBalance
<1>27. ASSUME NEW k \in Closings, CloseReadReserved(k) PROVE ReservationsHandled'
  BY <1>27 DEF CloseReadReserved
<1>28. ASSUME NEW k \in Closings, CloseBucket(k) PROVE ReservationsHandled'
  BY <1>28 DEF CloseBucket
<1>29. CASE UNCHANGED vars
  BY <1>29 DEF vars
<1> QED
  BY <1>1, <1>2, <1>3, <1>4, <1>5, <1>6, <1>7, <1>8, <1>9, <1>10, <1>11, <1>12, <1>13, <1>14,
     <1>15, <1>16, <1>17, <1>18, <1>19, <1>20, <1>21, <1>22, <1>23, <1>24, <1>25, <1>26, <1>27,
     <1>28, <1>29
  DEF Next, WithdrawalStep, TransferStep, CreditStep, CloseStep

\* While initiate's row is PENDING or PROCESSING its handler is on the way to
\* COMPLETED or FAILED: only the death of the handler orphans a reservation.
THEOREM ReservationsStayHandled == Spec => []ReservationsHandled
<1>1. Init => ReservationsHandled
  BY DEF Init, ReservationsHandled, InFlight
<1>2. TypeOK /\ ReservationsHandled /\ [Next]_vars => ReservationsHandled'
  BY HandledStep
<1> QED
  BY <1>1, <1>2, TypeCorrect, PTL DEF Spec

=============================================================================
