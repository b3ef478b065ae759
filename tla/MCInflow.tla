------------------------------ MODULE MCInflow ------------------------------
(***************************************************************************)
(* Small instances of Inflow for TLC.                                      *)
(***************************************************************************)
EXTENDS Inflow, TLC

CONSTANTS A, D1, D2

Inflow(n, e, t, a, k) ==
  [id |-> n, kind |-> "inflow", event |-> e, txn |-> t, account |-> a, amount |-> k, name |-> "-"]
Custom(n, e, a, m) ==
  [id |-> n, kind |-> "custom", event |-> e, txn |-> e, account |-> a, amount |-> 0, name |-> m]
Close(n, a)    == [id |-> n, kind |-> "close", account |-> a]
Patch(n, a, s) == [id |-> n, kind |-> "patch", account |-> a, to |-> s]

NoLimit == 99

OnInflow(n, a, p, g, c, act) ==
  [id |-> n, account |-> a, priority |-> p, trigger |-> "INFLOW_RECEIVED", gte |-> g,
   lte |-> NoLimit, cumGte |-> c, event |-> "-", action |-> act, percent |-> TRUE,
   value |-> 5000]
OnEvent(n, a, p, m, act, v) ==
  [id |-> n, account |-> a, priority |-> p, trigger |-> "CUSTOM_EVENT", gte |-> 0,
   lte |-> NoLimit, cumGte |-> 0, event |-> m, action |-> act, percent |-> FALSE,
   value |-> v]

None     == {}
OneAcc   == {A}
Parallel == [a \in Accounts |-> "PARALLEL"]
Sequential == [a \in Accounts |-> "SEQUENTIAL"]

\* One transaction delivered twice, and a second one to the same account.
DuplicateAndNext == {Inflow(1, "e1", "t1", A, 2), Inflow(2, "e1", "t1", A, 2),
                     Inflow(3, "e2", "t2", A, 1)}
OneInflow  == {Inflow(1, "e1", "t1", A, 2)}
\* An inflow, and a custom event dispatched twice.
MixedJobs  == {Inflow(1, "e1", "t1", A, 2), Custom(D1, "c1", A, "reset"), Custom(D2, "c1", A, "reset")}
\* The two deliveries of the event are interchangeable.
Interchangeable == Permutations({D1, D2})

NotifyRule  == {OnInflow(1, A, 1, 0, 0, "NOTIFY_WEBHOOK")}
\* Two rules of one priority: one for inflows of 2, one for a total of 3.
Thresholds  == {OnInflow(1, A, 1, 2, 0, "FLAG_FOR_REVIEW"), OnInflow(2, A, 1, 0, 3, "SUSPEND_ACCOUNT")}
\* Rules that notify or change the status, one of two on an inflow and one of two on a
\* custom event.
StatusRules == {OnInflow(1, A, 1, 1, 0, "NOTIFY_WEBHOOK"),
                OnInflow(2, A, 1, 1, 0, "SUSPEND_ACCOUNT"),
                OnEvent(3, A, 1, "reset", "REACTIVATE_ACCOUNT", 0),
                OnEvent(4, A, 1, "reset", "EXPIRE_ACCOUNT", 0)}
\* A notification, and a share too small to credit.
NotifyAndShare == {OnInflow(1, A, 1, 1, 0, "NOTIFY_WEBHOOK"),
                   [OnInflow(2, A, 1, 1, 0, "RELEASE_FUNDS") EXCEPT !.value = 100]}

CloseA  == {Close(1, A)}
Suspend == {Patch(1, A, "SUSPENDED")}
=============================================================================
