----------------------------- MODULE MCPipeline -----------------------------
(***************************************************************************)
(* A small instance of Pipeline for TLC.                                   *)
(***************************************************************************)
EXTENDS Pipeline

CONSTANTS A, P, Q

OnInflow(n, act, v) ==
  [id |-> n, account |-> A, priority |-> 1, trigger |-> "INFLOW_RECEIVED", gte |-> 1,
   lte |-> 99, cumGte |-> 0, event |-> "-", action |-> act, percent |-> TRUE, value |-> v]

None       == {}
OneAcc     == {A}
TwoBuckets == {P, Q}
OnlyQ      == {Q}
Sequential == [a \in Accounts |-> "SEQUENTIAL"]

\* An inflow of 5, for which one of three rules runs: one releases more than half of it,
\* one a share of less than a kobo, to the bucket that is there from the start.
OneInflow     == {[id |-> 1, kind |-> "inflow", event |-> "e1", txn |-> "t1", account |-> A,
                   amount |-> 5, name |-> "-"]}
ShareOrNotify == {OnInflow(1, "RELEASE_FUNDS", 7000), OnInflow(2, "NOTIFY_WEBHOOK", 7000),
                  OnInflow(3, "RELEASE_FUNDS", 1000)}
ToPOrQ        == [r \in {s \in Rules : s.action = "RELEASE_FUNDS"} |-> IF r.id = 1 THEN P ELSE Q]
=============================================================================
