----------------------------- MODULE MCRequests -----------------------------
(***************************************************************************)
(* A small instance of Requests for TLC.                                   *)
(***************************************************************************)
EXTENDS Requests, TLC

CONSTANTS B1, B2, R1, R2

BothBusinesses == {B1, B2}

\* The key of B1 does not expire within the model, the key of B2 does.
Key1 == [id |-> 1, business |-> B1, expires |-> MaxTime]
Key2 == [id |-> 2, business |-> B2, expires |-> 1]
BothKeys == {Key1, Key2}
SecondKey == {Key2}

Post(n, k, key, body, nomba) ==
  [id |-> n, apiKey |-> k, key |-> key, body |-> body, nomba |-> nomba]

\* A withdrawal and its retry, a request with the same key and another body and one
\* of another business under the same key.
OneKey ==
  {Post(R1, Key1, "k", "x", TRUE), Post(R2, Key1, "k", "x", TRUE),
   Post("r3", Key1, "k", "y", FALSE), Post("r4", Key2, "k", "x", FALSE)}

\* The withdrawal and its retry are interchangeable.
Interchangeable == Permutations({R1, R2})
=============================================================================
