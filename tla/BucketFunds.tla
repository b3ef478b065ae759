----------------------------- MODULE BucketFunds -----------------------------
(***************************************************************************)
(* What the treasury promises its callers, with every request one atomic   *)
(* step: money of a bucket can be held, a hold is settled or released      *)
(* once, only money that is not held can be held or moved, and every       *)
(* deposit and every move is entered once.  Transactions, snapshots, locks *)
(* and replays do not occur here.                                          *)
(***************************************************************************)
EXTENDS Integers

CONSTANTS
  Buckets,      \* the buckets of a business
  Opening,      \* their balances at the start
  Withdrawals,  \* payments out of a bucket: [bucket, dest, amount]
  Transfers,    \* moves between two buckets: [bucket, dest, amount]
  Credits       \* deposits: [bucket, amount, ref]

VARIABLES
  balance,  \* money in each bucket
  held,     \* the part of it set aside for payments under way
  hold,     \* what became of each payment's hold
  entered   \* deposits and moves that took place

vars == <<balance, held, hold, entered>>

HoldStatus == {"none", "held", "settled", "released"}

Available(b) == balance[b] - held[b]

Init ==
  /\ balance = Opening
  /\ held    = [b \in Buckets |-> 0]
  /\ hold    = [w \in Withdrawals |-> "none"]
  /\ entered = {}

\* The balances after amount leaves one bucket, and arrives where dest is one.
Moved(from, dest, amount) ==
  [b \in Buckets |-> balance[b] - (IF b = from THEN amount ELSE 0)
                                + (IF b = dest THEN amount ELSE 0)]

Hold(w) ==
  /\ hold[w] = "none"
  /\ w.amount <= Available(w.bucket)
  /\ hold' = [hold EXCEPT ![w] = "held"]
  /\ held' = [held EXCEPT ![w.bucket] = @ + w.amount]
  /\ UNCHANGED <<balance, entered>>

Settle(w) ==
  /\ hold[w] = "held"
  /\ hold' = [hold EXCEPT ![w] = "settled"]
  /\ held' = [held EXCEPT ![w.bucket] = @ - w.amount]
  /\ balance' = Moved(w.bucket, w.dest, w.amount)
  /\ UNCHANGED entered

Release(w) ==
  /\ hold[w] = "held"
  /\ hold' = [hold EXCEPT ![w] = "released"]
  /\ held' = [held EXCEPT ![w.bucket] = @ - w.amount]
  /\ UNCHANGED <<balance, entered>>

Move(t) ==
  /\ t \notin entered
  /\ t.amount <= Available(t.bucket)
  /\ balance' = Moved(t.bucket, t.dest, t.amount)
  /\ entered' = entered \cup {t}
  /\ UNCHANGED <<held, hold>>

Deposit(c) ==
  /\ \A d \in entered \cap Credits : d.ref # c.ref
  /\ balance' = [balance EXCEPT ![c.bucket] = @ + c.amount]
  /\ entered' = entered \cup {c}
  /\ UNCHANGED <<held, hold>>

Next ==
  \/ \E w \in Withdrawals : Hold(w) \/ Settle(w) \/ Release(w)
  \/ \E t \in Transfers : Move(t)
  \/ \E c \in Credits : Deposit(c)

Spec == Init /\ [][Next]_vars
=============================================================================
