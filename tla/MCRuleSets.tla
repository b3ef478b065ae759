----------------------------- MODULE MCRuleSets -----------------------------
(***************************************************************************)
(* A small instance of RuleSets for TLC.                                   *)
(***************************************************************************)
EXTENDS RuleSets

CONSTANTS U, B

Rule(n, p)            == [n |-> n, percent |-> p]
Provision(n, a, m, s) == [id |-> n, kind |-> "provision", account |-> a, model |-> m, rules |-> s]
Replace(n, a, m, s)   == [id |-> n, kind |-> "replace", account |-> a, model |-> m, rules |-> s]
Change(n, c, to)      == [id |-> n, kind |-> "tier", customer |-> c, to |-> to]
On(n, k, x)           == [id |-> n, kind |-> k, row |-> x]

OneCustomer == {U}
OneAccount  == {B}
AllOfU      == [a \in Accounts |-> U]

\* B is provisioned by two requests at a time, by one with more than 100 percent for a
\* PARALLEL account.  Of two replacements the one that keeps B's model asks for
\* 120 percent, so it depends on the model it finds whether EC-08 allows it.
OpenB1 == Provision(1, B, "SEQUENTIAL", {Rule(1, 60)})
OpenB2 == Provision(2, B, "PARALLEL", {Rule(1, 60), Rule(2, 60)})

Opened    == {}
AllOpens  == {OpenB1, OpenB2}
Keep      == Replace(1, B, "KEEP", {Rule(1, 60), Rule(2, 60)})
Set       == Replace(2, B, "PARALLEL", {Rule(1, 60)})
KeepOrSet == {Keep, Set}
UpAndDown == {Change(1, U, 1), Change(2, U, 0)}
EnableB1  == {On(1, "enable", <<OpenB1, Rule(1, 60)>>)}
DeleteB2  == {On(1, "delete", <<OpenB2, Rule(1, 60)>>)}
\* A provisioning and a replacement that may end half-way.
Mortal    == {OpenB2, Set}
=============================================================================
