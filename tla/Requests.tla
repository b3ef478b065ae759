------------------------------ MODULE Requests ------------------------------
(***************************************************************************)
(* What an API request passes through on its way to a service: the guard   *)
(* that validates its API key (ApiKeyGuard, AuthService), the interceptor  *)
(* that replays the response stored under its Idempotency-Key, and, for an *)
(* operation that calls Nomba, the token cache of NombaClientService.  The *)
(* operation itself is abstract: it succeeds or throws.                    *)
(*                                                                         *)
(* All of it runs in one Node.js process that may be restarted: requests   *)
(* interleave at every await, and what is in memory (the token cache, the  *)
(* requests in flight) is lost with the process.  Time advances in ticks;  *)
(* a call of Nomba takes at most CallTime, the timeout of the HTTP client. *)
(***************************************************************************)
EXTENDS Integers

CONSTANTS
  Businesses,     \* businesses
  ApiKeys,        \* API keys: [id, business, expires]
  Established,    \* API keys that exist at the start, of businesses with credentials
  Requests,       \* POST requests: [id, apiKey, key, body, nomba]
  NoKey,          \* the key of a request without an Idempotency-Key header
  TokenLife,      \* lifetime of a token of Nomba
  Margin,         \* the safety margin of getToken
  CallTime,       \* timeout of the HTTP client
  MaxCredentials, \* bound: versions of a business's Nomba credentials
  MaxTime         \* bound: ticks

ASSUME RequestAssumption ==
  /\ \A k \in ApiKeys : k.business \in Businesses /\ k.expires \in Nat
  /\ Established \subseteq ApiKeys
  /\ \A r \in Requests : r.apiKey \in ApiKeys /\ r.nomba \in BOOLEAN

ASSUME TimeAssumption ==
  /\ {TokenLife, Margin, CallTime, MaxCredentials, MaxTime} \subseteq Nat \ {0}
  /\ CallTime <= Margin
  /\ 2 * CallTime < TokenLife

VARIABLES
  now,        \* the clock
  registered, \* Business rows
  creds,      \* version of the Nomba credentials of a business, 0: not all are set
  apiKey,     \* ApiKey rows: "none", "active" or "revoked"
  rows,       \* requests whose response is an IdempotencyKey row
  cache,      \* tokenCache: a token per business
  pc,         \* where each request is
  outcome,    \* how it was answered
  reply,      \* the request whose response it was answered with
  loaded,     \* credentials of request.business, as the guard read them
  token,      \* the token getToken returned to it
  since       \* when its current call of Nomba began

rowVars     == <<registered, creds, apiKey>>
answerVars  == <<outcome, reply>>
tokenVars   == <<cache, token, since>>
vars == <<now, rowVars, rows, pc, answerVars, loaded, tokenVars>>

NoToken == [creds |-> 0, expires |-> 0]
Tokens  == {NoToken} \cup [creds : 1..MaxCredentials, expires : 1..(MaxTime + TokenLife)]

RequestPc == {"idle", "lookup", "handler", "issue", "issued", "call", "save", "done"}
Outcome   == {"none", "unauthorized", "conflict", "error", "executed", "replayed"}

\* Requests in flight, and the ones that wait for Nomba.
InFlight == {"lookup", "handler", "issue", "issued", "call", "save"}
Calling  == {"issue", "issued", "call"}

Business(r) == r.apiKey.business

\* The requests a unique row of IdempotencyKey stands for.
SameSlot(r, s) == r.key # NoKey /\ r.key = s.key /\ Business(r) = Business(s)

Init ==
  /\ now        = 0
  /\ registered = {k.business : k \in Established}
  /\ creds      = [b \in Businesses |-> IF b \in registered THEN 1 ELSE 0]
  /\ apiKey     = [k \in ApiKeys |-> IF k \in Established THEN "active" ELSE "none"]
  /\ rows       = {}
  /\ cache      = [b \in Businesses |-> NoToken]
  /\ pc         = [r \in Requests |-> "idle"]
  /\ outcome    = [r \in Requests |-> "none"]
  /\ reply      = [r \in Requests |-> r]
  /\ loaded     = [r \in Requests |-> 0]
  /\ token      = [r \in Requests |-> NoToken]
  /\ since      = [r \in Requests |-> 0]

Goto(r, from, to) ==
  /\ pc[r] = from
  /\ pc' = [pc EXCEPT ![r] = to]

\* The request is answered.
End(r, from, how, with) ==
  /\ Goto(r, from, "done")
  /\ outcome' = [outcome EXCEPT ![r] = how]
  /\ reply' = [reply EXCEPT ![r] = with]

\* What a request keeps in memory goes with it.
Forget(r) ==
  /\ loaded' = [loaded EXCEPT ![r] = 0]
  /\ token' = [token EXCEPT ![r] = NoToken]
  /\ since' = [since EXCEPT ![r] = 0]

-----------------------------------------------------------------------------
(* AuthService: the operations of the administrator and of a business.     *)

\* registerBusiness, with or without Nomba credentials; the email is unique.
RegisterBusiness(b) ==
  /\ b \notin registered
  /\ registered' = registered \cup {b}
  /\ \E c \in {0, 1} : creds' = [creds EXCEPT ![b] = c]
  /\ UNCHANGED <<now, apiKey, rows, pc, answerVars, loaded, tokenVars>>

\* updateBusinessCredentials completes or replaces them.  The token cache keeps its
\* token.
UpdateCredentials(b) ==
  /\ b \in registered
  /\ creds[b] < MaxCredentials
  /\ creds' = [creds EXCEPT ![b] = @ + 1]
  /\ UNCHANGED <<now, registered, apiKey, rows, pc, answerVars, loaded, tokenVars>>

\* createApiKey; the key refers to a business that exists.
CreateApiKey(k) ==
  /\ apiKey[k] = "none"
  /\ k.business \in registered
  /\ apiKey' = [apiKey EXCEPT ![k] = "active"]
  /\ UNCHANGED <<now, registered, creds, rows, pc, answerVars, loaded, tokenVars>>

\* validateApiKey.
Valid(k) == apiKey[k] = "active" /\ now <= k.expires

\* revokeApiKey, called with a valid key of the same business.  Requests that have
\* passed the guard go on.
RevokeApiKey(k) ==
  /\ apiKey[k] # "none"
  /\ \E own \in ApiKeys : own.business = k.business /\ Valid(own)
  /\ apiKey' = [apiKey EXCEPT ![k] = "revoked"]
  /\ UNCHANGED <<now, registered, creds, rows, pc, answerVars, loaded, tokenVars>>

-----------------------------------------------------------------------------
(* ApiKeyGuard.canActivate.                                                *)

\* The guard loads the business with the key: the request works with this copy.
Authenticate(r) ==
  /\ Valid(r.apiKey)
  /\ Goto(r, "idle", "lookup")
  /\ loaded' = [loaded EXCEPT ![r] = creds[Business(r)]]
  /\ UNCHANGED <<now, rowVars, rows, answerVars, tokenVars>>

Unauthorized(r) ==
  /\ ~Valid(r.apiKey)
  /\ End(r, "idle", "unauthorized", r)
  /\ UNCHANGED <<now, rowVars, rows, loaded, tokenVars>>

-----------------------------------------------------------------------------
(* IdempotencyInterceptor.intercept, before the handler.                   *)

\* Mutant: the row is looked up by the key alone.
StoredForAnyone(r) == {s \in rows : r.key # NoKey /\ s.key = r.key}

\* findUnique by business and key.
Stored(r) == {s \in rows : SameSlot(r, s)}

\* No Idempotency-Key, or no response stored under it.
EnterHandler(r) ==
  /\ Stored(r) = {}
  /\ Goto(r, "lookup", "handler")
  /\ UNCHANGED <<now, rowVars, rows, answerVars, loaded, tokenVars>>

\* The same body: the stored response is returned, whichever route stored it.
Replay(r) ==
  /\ \E s \in Stored(r) : s.body = r.body /\ End(r, "lookup", "replayed", s)
  /\ Forget(r)
  /\ UNCHANGED <<now, rowVars, rows, cache>>

\* Another body: 409.
Conflict(r) ==
  /\ \E s \in Stored(r) : s.body # r.body
  /\ End(r, "lookup", "conflict", r)
  /\ Forget(r)
  /\ UNCHANGED <<now, rowVars, rows, cache>>

-----------------------------------------------------------------------------
(* NombaClientService.getToken and the call it is for.                     *)

\* Mutant: a token is used until it expires.
FreshNoMargin(t) == t.expires > now

\* More than the safety margin is left.
Fresh(t) == t.expires > now + Margin

\* The operation makes its call with this token.
BeginCall(r, from, t) ==
  /\ Goto(r, from, "call")
  /\ token' = [token EXCEPT ![r] = t]
  /\ since' = [since EXCEPT ![r] = now]

UseCachedToken(r) ==
  /\ r.nomba
  /\ Fresh(cache[Business(r)])
  /\ BeginCall(r, "handler", cache[Business(r)])
  /\ UNCHANGED <<now, rowVars, rows, answerVars, loaded, cache>>

\* getDecryptedCredentials does not throw: every credential is set.
Configured(r) == loaded[r] > 0

\* Mutant: the credentials may be missing.
RefreshUnconfigured(r) ==
  /\ r.nomba
  /\ ~Fresh(cache[Business(r)])
  /\ Goto(r, "handler", "issue")
  /\ since' = [since EXCEPT ![r] = now]
  /\ UNCHANGED <<now, rowVars, rows, answerVars, loaded, cache, token>>

\* A token is requested with the credentials of request.business; when they are not
\* complete the request ends (HandlerError).
RefreshToken(r) ==
  /\ r.nomba
  /\ ~Fresh(cache[Business(r)])
  /\ Configured(r)
  /\ Goto(r, "handler", "issue")
  /\ since' = [since EXCEPT ![r] = now]
  /\ UNCHANGED <<now, rowVars, rows, answerVars, loaded, cache, token>>

\* Nomba issues the token; its answer is on the way.
IssueToken(r) ==
  /\ Goto(r, "issue", "issued")
  /\ token' = [token EXCEPT ![r] = [creds |-> loaded[r], expires |-> now + TokenLife]]
  /\ UNCHANGED <<now, rowVars, rows, answerVars, loaded, cache, since>>

\* The token replaces whatever token is cached by then.
StoreToken(r) ==
  /\ BeginCall(r, "issued", token[r])
  /\ cache' = [cache EXCEPT ![Business(r)] = token[r]]
  /\ UNCHANGED <<now, rowVars, rows, answerVars, loaded>>

-----------------------------------------------------------------------------
(* The handler, and the interceptor after it.                              *)

\* The handler returns: the response is sent, and stored afterwards.
HandlerOk(r) ==
  /\ pc[r] = IF r.nomba THEN "call" ELSE "handler"
  /\ pc' = [pc EXCEPT ![r] = IF r.key = NoKey THEN "done" ELSE "save"]
  /\ outcome' = [outcome EXCEPT ![r] = "executed"]
  /\ Forget(r)
  /\ UNCHANGED <<now, rowVars, rows, reply, cache>>

\* It throws (validation, a missing row, the token, Nomba): nothing is stored.
HandlerError(r) ==
  /\ \E from \in {"handler", "issue", "issued", "call"} : End(r, from, "error", r)
  /\ Forget(r)
  /\ UNCHANGED <<now, rowVars, rows, cache>>

\* Mutant: the latest response is kept.
UpsertResponse(r) ==
  /\ rows' = (rows \ Stored(r)) \cup {r}
  /\ Goto(r, "save", "done")
  /\ UNCHANGED <<now, rowVars, answerVars, loaded, tokenVars>>

\* idempotencyKey.create, which nobody waits for.
StoreResponse(r) ==
  /\ Stored(r) = {}
  /\ rows' = rows \cup {r}
  /\ Goto(r, "save", "done")
  /\ UNCHANGED <<now, rowVars, answerVars, loaded, tokenVars>>

\* The create fails: the key has a row (P2002), or the database refuses.  The error is
\* logged, and the response is not stored.
LoseResponse(r) ==
  /\ Goto(r, "save", "done")
  /\ UNCHANGED <<now, rowVars, rows, answerVars, loaded, tokenVars>>

-----------------------------------------------------------------------------
\* The process is restarted: requests in flight get no answer, or their answer was sent
\* and is not stored; the token cache is empty.
Restart ==
  /\ pc' = [r \in Requests |-> IF pc[r] \in InFlight THEN "done" ELSE pc[r]]
  /\ outcome' = [r \in Requests |->
                   IF pc[r] \in InFlight /\ outcome[r] = "none" THEN "error" ELSE outcome[r]]
  /\ cache' = [b \in Businesses |-> NoToken]
  /\ loaded' = [r \in Requests |-> 0]
  /\ token' = [r \in Requests |-> NoToken]
  /\ since' = [r \in Requests |-> 0]
  /\ UNCHANGED <<now, rowVars, rows, reply>>

\* Time passes, but not beyond the timeout of a call.
Tick ==
  /\ now < MaxTime
  /\ \A r \in Requests : pc[r] \in Calling => now < since[r] + CallTime
  /\ now' = now + 1
  /\ UNCHANGED <<rowVars, rows, pc, answerVars, loaded, tokenVars>>

RequestStep(r) ==
  \/ Authenticate(r)
  \/ Unauthorized(r)
  \/ EnterHandler(r)
  \/ Replay(r)
  \/ pc[r] = "lookup" /\ Conflict(r)
  \/ UseCachedToken(r)
  \/ RefreshToken(r)
  \/ IssueToken(r)
  \/ StoreToken(r)
  \/ HandlerOk(r)
  \/ HandlerError(r)
  \/ pc[r] = "save" /\ StoreResponse(r)
  \/ LoseResponse(r)

Next ==
  \/ \E b \in Businesses : RegisterBusiness(b) \/ UpdateCredentials(b)
  \/ \E k \in ApiKeys : CreateApiKey(k) \/ RevokeApiKey(k)
  \/ \E r \in Requests : RequestStep(r)
  \/ Restart
  \/ Tick

Spec == Init /\ [][Next]_vars

-----------------------------------------------------------------------------
(* Properties.                                                             *)

\* Every variable keeps its type: no token was issued with credentials that are not
\* complete.
TypeOK ==
  /\ now \in 0..MaxTime
  /\ registered \subseteq Businesses
  /\ creds \in [Businesses -> 0..MaxCredentials]
  /\ apiKey \in [ApiKeys -> {"none", "active", "revoked"}]
  /\ rows \subseteq Requests
  /\ cache \in [Businesses -> Tokens]
  /\ pc \in [Requests -> RequestPc]
  /\ outcome \in [Requests -> Outcome]
  /\ reply \in [Requests -> Requests]
  /\ loaded \in [Requests -> 0..MaxCredentials]
  /\ token \in [Requests -> Tokens]
  /\ since \in [Requests -> 0..MaxTime]

\* A replayed response is the response of a request of the same business, with the same
\* key and body, whose handler succeeded.
ReplayFaithful ==
  \A r \in Requests :
    outcome[r] = "replayed" =>
      /\ SameSlot(r, reply[r])
      /\ reply[r].body = r.body
      /\ outcome[reply[r]] = "executed"

\* All replays under one key return one response, however many requests with this key
\* were executed: the one that was stored first.
ReplaysAgree ==
  \A r \in Requests : outcome[r] = "replayed" => Stored(r) = {reply[r]}

\* A request may be retried safely: of two requests with the same key and body at most
\* one is executed.  The row is looked up before the handler and stored, by an insert
\* nobody waits for, after the answer is sent, so a retry in between is executed too.
SafeRetry ==
  \A r, s \in Requests :
    /\ r # s
    /\ SameSlot(r, s)
    /\ r.body = s.body
    => ~(outcome[r] = "executed" /\ outcome[s] = "executed")

\* A call is never made with, nor outlasts, an expired token: neither a cached one
\* near its end, nor one whose answer took its time, nor one that a slower request put
\* into the cache over a newer one.
TokenAlive == \A r \in Requests : pc[r] = "call" => now < token[r].expires
=============================================================================
