----------------------------- MODULE MCTreasury -----------------------------
(***************************************************************************)
(* Small instances of Treasury for TLC.                                    *)
(***************************************************************************)
EXTENDS Treasury

CONSTANTS A, B, C

Withdraw(n, b, d, a) == [id |-> n, kind |-> "withdraw", bucket |-> b, dest |-> d, amount |-> a]
Move(n, b, d, a)     == [id |-> n, kind |-> "transfer", bucket |-> b, dest |-> d, amount |-> a]
Allocate(n, b, a, r) == [id |-> n, kind |-> "credit", bucket |-> b, amount |-> a, ref |-> r]
Close(n, b)          == [id |-> n, kind |-> "close", bucket |-> b]

None        == {}
BothBuckets == {A, B}
AllBuckets  == {A, B, C}

OpenA2   == [b \in Buckets |-> IF b = A THEN 2 ELSE 0]
OpenA1   == [b \in Buckets |-> IF b = A THEN 1 ELSE 0]

\* Settlements out of A, external and internal: together they ask for more than A
\* holds.  A credit to B and a transfer to A bring some of it back, and the transfer locks
\* the two rows in the opposite order.
SettleRequests == {Withdraw(1, A, Bank, 2), Withdraw(2, A, Bank, 1), Withdraw(3, A, B, 1)}
MoveBack       == {Move(1, B, A, 1)}
CreditB        == {Allocate(1, B, 1, "r1")}

\* Requests of most kinds: C is only credited, by two calls; A is paid and moved
\* from, credited and closed.  The credits to A and C share a reference, as those
\* of two buckets whose ids agree on the characters the reference keeps do.
MixedCredits   == {Allocate(1, C, 1, "r1"), Allocate(2, C, 2, "r2"), Allocate(3, A, 1, "r1")}
MixedRequests  == {Withdraw(1, A, Bank, 1), Withdraw(2, A, B, 1)}
OneWithdrawal  == {Withdraw(1, A, Bank, 1)}
TwoWithdrawals == {Withdraw(1, A, Bank, 1), Withdraw(2, A, Bank, 1)}
OneTransfer    == {Move(1, A, B, 1)}
CloseA         == {Close(1, A)}
=============================================================================
