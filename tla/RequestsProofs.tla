--------------------------- MODULE RequestsProofs ---------------------------
(***************************************************************************)
(* Theorems about Requests, for any businesses, keys, requests and times   *)
(* that satisfy its assumptions.                                           *)
(***************************************************************************)
EXTENDS Requests, TLAPS

\* A request that asks Nomba for a token has the credentials for it.
TypeInv ==
  /\ TypeOK
  /\ \A r \in Requests : pc[r] = "issue" => Configured(r)

\* Each variable of Requests keeps its type at every step.
LEMMA TypeStep == TypeInv /\ [Next]_vars => TypeInv'
<1> SUFFICES ASSUME TypeInv, [Next]_vars PROVE TypeInv'
  OBVIOUS
<1> USE DEF TypeInv, TypeOK, Configured, RequestPc, Outcome
<1>a. NoToken \in Tokens
  BY DEF Tokens
<1>0. CASE UNCHANGED vars
  BY <1>0 DEF vars, rowVars, answerVars, tokenVars
<1>1. ASSUME NEW b \in Businesses, RegisterBusiness(b) \/ UpdateCredentials(b) PROVE TypeInv'
  BY <1>1, TimeAssumption DEF RegisterBusiness, UpdateCredentials, answerVars, tokenVars
<1>2. ASSUME NEW k \in ApiKeys, CreateApiKey(k) \/ RevokeApiKey(k) PROVE TypeInv'
  BY <1>2 DEF CreateApiKey, RevokeApiKey, answerVars, tokenVars
<1>3. ASSUME NEW r \in Requests, RequestStep(r) PROVE TypeInv'
  <2>1. CASE Authenticate(r)
    BY <2>1, RequestAssumption
    DEF Authenticate, Goto, Business, rowVars, answerVars, tokenVars
  <2>2. CASE Unauthorized(r)
    BY <2>2 DEF Unauthorized, End, Goto, rowVars, tokenVars
  <2>3. CASE EnterHandler(r)
    BY <2>3 DEF EnterHandler, Goto, rowVars, answerVars, tokenVars
  <2>4. CASE Replay(r)
    BY <1>a, <2>4, TimeAssumption DEF Replay, Stored, End, Goto, Forget, rowVars
  <2>5. CASE pc[r] = "lookup" /\ Conflict(r)
    BY <1>a, <2>5, TimeAssumption DEF Conflict, End, Goto, Forget, rowVars
  <2>6. CASE UseCachedToken(r)
    BY <2>6, RequestAssumption
    DEF UseCachedToken, BeginCall, Goto, Business, rowVars, answerVars
  <2>7. CASE RefreshToken(r)
    BY <2>7 DEF RefreshToken, Goto, rowVars, answerVars
  <2>8. CASE IssueToken(r)
    <3>1. [creds |-> loaded[r], expires |-> now + TokenLife] \in Tokens
      BY <2>8, TimeAssumption DEF IssueToken, Goto, Tokens
    <3> QED
      BY <2>8, <3>1 DEF IssueToken, Goto, rowVars, answerVars
  <2>9. CASE StoreToken(r)
    BY <2>9 DEF StoreToken, BeginCall, Goto, rowVars, answerVars
  <2>10. CASE HandlerOk(r)
    BY <1>a, <2>10, TimeAssumption DEF HandlerOk, Forget, rowVars
  <2>11. CASE HandlerError(r)
    BY <1>a, <2>11, TimeAssumption DEF HandlerError, End, Goto, Forget, rowVars
  <2>12. CASE pc[r] = "save" /\ StoreResponse(r)
    BY <2>12 DEF StoreResponse, Goto, rowVars, answerVars, tokenVars
  <2>13. CASE LoseResponse(r)
    BY <2>13 DEF LoseResponse, Goto, rowVars, answerVars, tokenVars
  <2> QED
    BY <1>3, <2>1, <2>2, <2>3, <2>4, <2>5, <2>6, <2>7, <2>8, <2>9, <2>10, <2>11, <2>12, <2>13
    DEF RequestStep
<1>4. CASE Restart
  <2>1. /\ pc' \in [Requests -> RequestPc]
        /\ outcome' \in [Requests -> Outcome]
        /\ \A r \in Requests : pc'[r] # "issue"
    BY <1>4 DEF Restart, InFlight
  <2>2. /\ cache' \in [Businesses -> Tokens]
        /\ token' \in [Requests -> Tokens]
        /\ loaded' \in [Requests -> 0..MaxCredentials]
        /\ since' \in [Requests -> 0..MaxTime]
    BY <1>4, <1>a, TimeAssumption DEF Restart
  <2> QED
    BY <1>4, <2>1, <2>2 DEF Restart, rowVars
<1>5. CASE Tick
  BY <1>5, TimeAssumption DEF Tick, rowVars, answerVars, tokenVars
<1> QED
  BY <1>0, <1>1, <1>2, <1>3, <1>4, <1>5 DEF Next

\* TypeOK holds of every reachable state of Requests: whatever is interleaved with
\* getToken, no token is requested with credentials that are not complete.
THEOREM TypeCorrect == Spec => []TypeOK
<1>1. Init => TypeInv
  BY RequestAssumption, TimeAssumption
  DEF Init, TypeInv, TypeOK, Tokens, NoToken, RequestPc, Outcome
<1>2. TypeInv => TypeOK
  BY DEF TypeInv
<1> QED
  BY <1>1, <1>2, TypeStep, PTL DEF Spec

-----------------------------------------------------------------------------
\* Requests that will be answered by their handler.
Open == {"idle", "lookup", "handler", "issue", "issued", "call"}

\* The rows are responses of handlers that succeeded, one per business and key, and a
\* replay refers to the row of its own key.
RowInv ==
  /\ \A r \in Requests : pc[r] \in Open => outcome[r] = "none"
  /\ \A r \in Requests : pc[r] = "save" => outcome[r] = "executed" /\ r.key # NoKey
  /\ \A s \in rows : outcome[s] = "executed" /\ s.key # NoKey
  /\ \A s, t \in rows : SameSlot(s, t) => s = t
  /\ \A r \in Requests :
       outcome[r] = "replayed" => reply[r] \in Stored(r) /\ reply[r].body = r.body

\* The rows stay what RowInv says at every step: each comes from a handler that has
\* succeeded, and a key that has a row gets no other.
LEMMA RowStep == TypeOK /\ RowInv /\ [Next]_vars => RowInv'
<1> SUFFICES ASSUME TypeOK, RowInv, [Next]_vars PROVE RowInv'
  OBVIOUS
<1> USE DEF TypeOK, RowInv, Open, SameSlot, Stored
<1>0. CASE UNCHANGED <<rows, pc, answerVars>>
  BY <1>0 DEF answerVars
<1>1. ASSUME NEW r \in Requests, RequestStep(r) PROVE RowInv'
  <2>1. CASE Authenticate(r) \/ EnterHandler(r) \/ UseCachedToken(r) \/ RefreshToken(r)
             \/ IssueToken(r) \/ StoreToken(r) \/ LoseResponse(r)
    BY <2>1 DEF Authenticate, EnterHandler, UseCachedToken, RefreshToken, IssueToken, StoreToken,
                LoseResponse, BeginCall, Goto, answerVars
  <2>2. CASE Unauthorized(r) \/ (pc[r] = "lookup" /\ Conflict(r)) \/ HandlerError(r)
    <3>1. PICK how \in {"unauthorized", "conflict", "error"} :
            /\ outcome' = [outcome EXCEPT ![r] = how]
            /\ pc[r] \in Open
            /\ pc' = [pc EXCEPT ![r] = "done"]
            /\ reply' = [reply EXCEPT ![r] = r]
            /\ rows' = rows
      BY <2>2 DEF Unauthorized, Conflict, HandlerError, End, Goto
    <3> QED
      BY <3>1
  <2>3. CASE Replay(r)
    <3>1. PICK s \in Stored(r) : s.body = r.body /\ End(r, "lookup", "replayed", s)
      BY <2>3 DEF Replay
    <3>2. rows' = rows /\ pc[r] = "lookup" /\ outcome[r] = "none"
      BY <2>3, <3>1 DEF Replay, End, Goto
    <3> QED
      BY <3>1, <3>2 DEF End, Goto
  <2>4. CASE HandlerOk(r)
    BY <2>4, RequestAssumption DEF HandlerOk
  <2>5. CASE pc[r] = "save" /\ StoreResponse(r)
    BY <2>5 DEF StoreResponse, Goto, answerVars
  <2> QED
    BY <1>1, <2>1, <2>2, <2>3, <2>4, <2>5 DEF RequestStep
<1>2. CASE Restart
  BY <1>2 DEF Restart, InFlight
<1> QED
  BY <1>0, <1>1, <1>2
  DEF Next, RegisterBusiness, UpdateCredentials, CreateApiKey, RevokeApiKey, Tick, vars

\* RowInv holds of every reachable state of the interceptor.
LEMMA RowsInvariant == Spec => []RowInv
<1>1. Init => RowInv
  BY DEF Init, RowInv, Open
<1> QED
  BY <1>1, TypeCorrect, RowStep, PTL DEF Spec

\* ReplayFaithful for any number of requests, businesses and keys: the interceptor
\* answers with the response of the same business, key and body.
THEOREM ReplaysAreFaithful == Spec => []ReplayFaithful
<1>1. RowInv => ReplayFaithful
  BY DEF RowInv, ReplayFaithful, Stored
<1> QED
  BY <1>1, RowsInvariant, PTL

\* ReplaysAgree for any number of requests with one key, executed and stored in any order.
THEOREM ReplaysDoAgree == Spec => []ReplaysAgree
<1>1. RowInv => ReplaysAgree
  BY DEF RowInv, ReplaysAgree, Stored, SameSlot
<1> QED
  BY <1>1, RowsInvariant, PTL

-----------------------------------------------------------------------------
\* No call of Nomba has lasted longer than its timeout, and the token of a call that has
\* begun lives longer than the call can last.
TokenInv ==
  \A r \in Requests :
    /\ since[r] <= now
    /\ pc[r] \in Calling => now <= since[r] + CallTime
    /\ pc[r] = "issued" => token[r].expires >= since[r] + TokenLife
    /\ pc[r] = "call" => token[r].expires > since[r] + CallTime

\* The margin of getToken, and the lifetime of a new token, cover the timeout of a call.
LEMMA TokenStep == TypeOK /\ TokenInv /\ [Next]_vars => TokenInv'
<1> SUFFICES ASSUME TypeOK, TokenInv, [Next]_vars PROVE TokenInv'
  OBVIOUS
<1> USE TimeAssumption DEF TypeOK, TokenInv, Calling
<1>0. CASE UNCHANGED <<now, pc, tokenVars>>
  BY <1>0 DEF tokenVars
<1>1. ASSUME NEW r \in Requests, RequestStep(r) PROVE TokenInv'
  <2>1. CASE Authenticate(r) \/ EnterHandler(r) \/ LoseResponse(r)
             \/ (pc[r] = "save" /\ StoreResponse(r)) \/ Unauthorized(r)
    BY <2>1 DEF Authenticate, EnterHandler, LoseResponse, StoreResponse, Unauthorized, End, Goto,
                tokenVars
  <2>2. CASE Replay(r) \/ (pc[r] = "lookup" /\ Conflict(r)) \/ HandlerError(r)
    BY <2>2 DEF Replay, Conflict, HandlerError, End, Goto, Forget
  <2>3. CASE HandlerOk(r)
    BY <2>3 DEF HandlerOk, Forget
  <2>4. CASE UseCachedToken(r)
    <3>1. /\ cache[Business(r)] \in Tokens
          /\ cache[Business(r)].expires > now + Margin
      BY <2>4, RequestAssumption DEF UseCachedToken, Fresh, Business
    <3>2. cache[Business(r)].expires \in Nat
      BY <3>1 DEF Tokens, NoToken
    <3> QED
      BY <2>4, <3>1, <3>2 DEF UseCachedToken, BeginCall, Goto
  <2>5. CASE RefreshToken(r)
    BY <2>5 DEF RefreshToken, Goto
  <2>6. CASE IssueToken(r)
    BY <2>6 DEF IssueToken, Goto
  <2>7. CASE StoreToken(r)
    <3>1. token[r].expires \in Nat
      BY DEF Tokens, NoToken
    <3> QED
      BY <2>7, <3>1 DEF StoreToken, BeginCall, Goto
  <2> QED
    BY <1>1, <2>1, <2>2, <2>3, <2>4, <2>5, <2>6, <2>7 DEF RequestStep
<1>2. CASE Restart
  BY <1>2 DEF Restart, InFlight
<1>3. CASE Tick
  BY <1>3 DEF Tick, tokenVars
<1> QED
  BY <1>0, <1>1, <1>2, <1>3
  DEF Next, RegisterBusiness, UpdateCredentials, CreateApiKey, RevokeApiKey, vars

\* TokenAlive for any lifetimes, margins and timeouts with CallTime <= Margin and
\* 2 * CallTime < TokenLife.
THEOREM TokensStayAlive == Spec => []TokenAlive
<1>1. Init => TokenInv
  BY DEF Init, TokenInv, Calling
<1>2. TypeOK /\ TokenInv => TokenAlive
  <2> SUFFICES ASSUME TypeOK, TokenInv, NEW r \in Requests, pc[r] = "call"
               PROVE now < token[r].expires
    BY DEF TokenAlive
  <2>1. token[r].expires \in Nat
    BY DEF TypeOK, Tokens, NoToken
  <2> QED
    BY <2>1, TimeAssumption DEF TypeOK, TokenInv, Calling
<1> QED
  BY <1>1, <1>2, TypeCorrect, TokenStep, PTL DEF Spec
=============================================================================
