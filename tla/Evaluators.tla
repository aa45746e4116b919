----------------------------- MODULE Evaluators -----------------------------
(***************************************************************************)
(* An evaluator that keeps state between requests, of one kind: JWTs       *)
(* verified with an OpenID Connect provider (evaluators/identity/oidc.go), *)
(* an OPA policy of an external registry (evaluators/authorization/opa.go) *)
(* or a call to an HTTP service with an OAuth2 token (evaluators/metadata/ *)
(* generic_http.go, oauth2/client_credentials.go).  Requests call it at    *)
(* the same time, through the cache of its config, while a worker (workers *)
(* /worker.go) refreshes what it holds and what it is taken from changes.  *)
(***************************************************************************)
EXTENDS Naturals, FiniteSets

CONSTANTS
  EvaluatorKinds,  \* among "oidc", "opa", "http", and "forced", an http whose tokens are not kept
  Requests,
  CacheKeys,       \* what the key of the cache resolves to; Nil, to nothing
  Documents,       \* provider configurations, or policies
  Broken,          \* the policies that do not compile
  Nil,
  MaxPublished     \* bound on the changes of what is published

ASSUME NilAssumption == Nil \notin Documents /\ Nil \notin CacheKeys

VARIABLES
  kind,       \* the kind of the evaluator
  published,  \* what the issuer, the registry or the service gives out
  changed,    \* the number of changes of it so far
  held,       \* OIDC.provider, or OPA.policy by what it was compiled from
  rego,       \* OPA.Rego
  token,      \* whether ClientCredentials.token is there and valid
  cache,      \* the EvaluatorCache of the config, by what its objects were evaluated with
  call,       \* the Call that each request makes
  refresher   \* the goroutine of the worker, and whether its channel is closed

evaluatorVars == <<kind, published, changed, held, rego, token, cache, call, refresher>>
environment == <<kind, published, changed>>

CallsService == kind \in {"http", "forced"}

Refreshed == kind \in {"oidc", "opa"}

OAuth2TokenForceFetch == kind = "forced"

notCalling == [pc |-> "idle", key |-> Nil, doc |-> Nil]

(***************************************************************************)
(* NewOIDC goes on without a provider; NewOPAAuthorization needs a policy. *)
(***************************************************************************)
EvaluatorsInit ==
  /\ kind \in EvaluatorKinds
  /\ changed = 0
  /\ published \in Documents \ Broken
  /\ held \in IF kind = "oidc" THEN {Nil, published} ELSE IF kind = "opa" THEN {published} ELSE {Nil}
  /\ rego = IF kind = "opa" THEN held ELSE Nil
  /\ token = FALSE
  /\ cache = [k \in CacheKeys |-> Nil]
  /\ call = [r \in Requests |-> notCalling]
  /\ refresher = [pc |-> IF Refreshed THEN "select" ELSE "exited", fetched |-> Nil, done |-> FALSE]

Publish(d) ==
  /\ changed < MaxPublished
  /\ d # published
  /\ d \in Broken => kind = "opa"
  /\ published' = d
  /\ changed' = changed + 1
  /\ UNCHANGED <<kind, held, rego, token, cache, call, refresher>>

(***************************************************************************)
(* Time passes: the time to live of what is in the cache, of a token.      *)
(***************************************************************************)
ExpireEntry(k) ==
  /\ cache[k] # Nil
  /\ cache' = [cache EXCEPT ![k] = Nil]
  /\ UNCHANGED <<environment, held, rego, token, call, refresher>>

ExpireToken ==
  /\ token
  /\ token' = FALSE
  /\ UNCHANGED <<environment, held, rego, cache, call, refresher>>

----------------------------------------------------------------------------
(***************************************************************************)
(* Call of IdentityConfig, MetadataConfig, AuthorizationConfig: the cache  *)
(* first, then the evaluator, then the cache again.                        *)
(***************************************************************************)
at(r, pc) == call[r].pc = pc

goes(r, pc) == call' = [call EXCEPT ![r].pc = pc]

begins(r, key, pc, doc) == call' = [call EXCEPT ![r] = [pc |-> pc, key |-> key, doc |-> doc]]

evaluate == CASE kind = "oidc" -> "provider" [] kind = "opa" -> "policy" [] OTHER -> "token"

\* Mutant: an object from the cache is stored again.
CallStoringAgain(r, key) ==
  /\ at(r, "idle")
  /\ IF key # Nil /\ cache[key] # Nil
     THEN begins(r, key, "evaluated", cache[key])
     ELSE begins(r, key, evaluate, Nil)
  /\ UNCHANGED <<environment, held, rego, token, cache, refresher>>

Call(r, key) ==
  /\ at(r, "idle")
  /\ IF key # Nil /\ cache[key] # Nil
     THEN begins(r, key, "cached", cache[key])
     ELSE begins(r, key, evaluate, Nil)
  /\ UNCHANGED <<environment, held, rego, token, cache, refresher>>

Store(r) ==
  /\ at(r, "evaluated")
  /\ cache' = IF call[r].key = Nil THEN cache ELSE [cache EXCEPT ![call[r].key] = call[r].doc]
  /\ goes(r, "done")
  /\ UNCHANGED <<environment, held, rego, token, refresher>>

Return(r) ==
  /\ call[r].pc \in {"cached", "done"}
  /\ call' = [call EXCEPT ![r] = notCalling]
  /\ UNCHANGED <<environment, held, rego, token, cache, refresher>>

\* What an evaluator returns: an error, which ends the call, or an object.
fails(r) == call' = [call EXCEPT ![r] = notCalling]

returns(r, doc) == fails(r) \/ call' = [call EXCEPT ![r].pc = "evaluated", ![r].doc = doc]

----------------------------------------------------------------------------
(***************************************************************************)
(* OIDC.  The field provider is read and written without a lock, and read  *)
(* again by the return of getProvider.                                     *)
(***************************************************************************)
GetProvider(r) ==
  /\ at(r, "provider")
  /\ goes(r, IF held = Nil THEN "discover" ELSE "verify")
  /\ UNCHANGED <<environment, held, rego, token, cache, refresher>>

Discover(r) ==
  /\ at(r, "discover")
  /\ \/ call' = [call EXCEPT ![r].pc = "assign", ![r].doc = published]
     \/ goes(r, "verify")
  /\ UNCHANGED <<environment, held, rego, token, cache, refresher>>

SetProvider(r) ==
  /\ at(r, "assign")
  /\ held' = call[r].doc
  /\ goes(r, "verify")
  /\ UNCHANGED <<environment, rego, token, cache, refresher>>

VerifyToken(r) ==
  /\ at(r, "verify")
  /\ IF held = Nil THEN fails(r) ELSE returns(r, held)
  /\ UNCHANGED <<environment, held, rego, token, cache, refresher>>

\* OPA: the policy is evaluated under the lock for reading.
EvalPolicy(r) ==
  /\ at(r, "policy")
  /\ returns(r, held)
  /\ UNCHANGED <<environment, held, rego, token, cache, refresher>>

(***************************************************************************)
(* ClientCredentialsToken: the token that is kept, if it is valid, else a  *)
(* new one, which is kept in turn; then the call of the service.           *)
(***************************************************************************)
ReadToken(r) ==
  /\ at(r, "token")
  /\ goes(r, IF token /\ ~OAuth2TokenForceFetch THEN "send" ELSE "fetch")
  /\ UNCHANGED <<environment, held, rego, token, cache, refresher>>

FetchToken(r) ==
  /\ at(r, "fetch")
  /\ goes(r, "keep") \/ fails(r)
  /\ UNCHANGED <<environment, held, rego, token, cache, refresher>>

\* The token may have expired in the meantime.
KeepToken(r) ==
  /\ at(r, "keep")
  /\ token' \in BOOLEAN
  /\ goes(r, "send")
  /\ UNCHANGED <<environment, held, rego, cache, refresher>>

Send(r) ==
  /\ at(r, "send")
  /\ returns(r, published)
  /\ UNCHANGED <<environment, held, rego, token, cache, refresher>>

----------------------------------------------------------------------------
(***************************************************************************)
(* The worker: a tick of its timer may be ready each time it selects, and  *)
(* once its channel is closed select picks either.                         *)
(***************************************************************************)
Tick ==
  /\ refresher.pc = "select"
  /\ refresher' = [refresher EXCEPT !.pc = "fetch"]
  /\ UNCHANGED <<environment, held, rego, token, cache, call>>

\* Mutant: the channel is not selected.
ExitNever == FALSE /\ UNCHANGED evaluatorVars

Exit ==
  /\ refresher.pc = "select"
  /\ refresher.done
  /\ refresher' = [refresher EXCEPT !.pc = "exited"]
  /\ UNCHANGED <<environment, held, rego, token, cache, call>>

\* Clean of the evaluator, called once (see module Reconciler).
Stop ==
  /\ Refreshed
  /\ ~refresher.done
  /\ refresher' = [refresher EXCEPT !.done = TRUE]
  /\ UNCHANGED <<environment, held, rego, token, cache, call>>

Fetch ==
  /\ refresher.pc = "fetch"
  /\ refresher' = [refresher EXCEPT !.pc = "update", !.fetched = published]
  /\ UNCHANGED <<environment, held, rego, token, cache, call>>

\* Mutant: the provider that failed to load is assigned.
FetchFailsToNil ==
  /\ refresher.pc = "fetch"
  /\ refresher' = [refresher EXCEPT !.pc = "select"]
  /\ held' = IF kind = "oidc" THEN Nil ELSE held
  /\ UNCHANGED <<environment, rego, token, cache, call>>

FetchFails ==
  /\ refresher.pc = "fetch"
  /\ refresher' = [refresher EXCEPT !.pc = "select"]
  /\ UNCHANGED <<environment, held, rego, token, cache, call>>

\* Mutant: what does not compile is recorded all the same.
updateRegoFirst(d) ==
  /\ rego' = d
  /\ held' = IF d = rego \/ d \in Broken THEN held ELSE d

(***************************************************************************)
(* updateRego, under the lock: nothing when the policy is the same or does *)
(* not compile.                                                            *)
(***************************************************************************)
updateRego(d) ==
  IF d = rego \/ d \in Broken THEN UNCHANGED <<rego, held>>
  ELSE rego' = d /\ held' = d

\* Mutant: the provider that is there is kept.
UpdateMissing ==
  /\ refresher.pc = "update"
  /\ refresher' = [refresher EXCEPT !.pc = "select", !.fetched = Nil]
  /\ UNCHANGED <<environment, rego, token, cache, call>>
  /\ held' = IF held = Nil THEN refresher.fetched ELSE held

Update ==
  /\ refresher.pc = "update"
  /\ refresher' = [refresher EXCEPT !.pc = "select", !.fetched = Nil]
  /\ IF kind = "opa" THEN updateRego(refresher.fetched)
     ELSE held' = refresher.fetched /\ UNCHANGED rego
  /\ UNCHANGED <<environment, token, cache, call>>

----------------------------------------------------------------------------
Evaluation(r) ==
  \/ Store(r) \/ Return(r)
  \/ GetProvider(r) \/ Discover(r) \/ SetProvider(r) \/ VerifyToken(r)
  \/ EvalPolicy(r)
  \/ ReadToken(r) \/ FetchToken(r) \/ KeepToken(r) \/ Send(r)

EvaluatorsNext ==
  \/ \E r \in Requests : Evaluation(r) \/ \E key \in CacheKeys \cup {Nil} : Call(r, key)
  \/ Tick \/ Exit \/ Stop \/ Fetch \/ FetchFails \/ Update
  \/ \E d \in Documents : Publish(d)
  \/ ExpireToken
  \/ \E k \in CacheKeys : ExpireEntry(k)

EvaluatorsSpec == EvaluatorsInit /\ [][EvaluatorsNext]_evaluatorVars

(***************************************************************************)
(* Fairness: the worker is scheduled and its calls return, now and then    *)
(* with success; select, which picks at random among what is ready, does   *)
(* not pass over a closed channel for ever.  The calls of requests return, *)
(* and what stays in the cache expires.                                    *)
(***************************************************************************)
EvaluatorsFairness ==
  /\ \A r \in Requests : WF_evaluatorVars(Evaluation(r))
  /\ \A k \in CacheKeys : WF_evaluatorVars(ExpireEntry(k))
  /\ WF_evaluatorVars(Tick) /\ WF_evaluatorVars(Update)
  /\ SF_evaluatorVars(Fetch) /\ SF_evaluatorVars(Exit)

----------------------------------------------------------------------------
(***************************************************************************)
(* The variables have their types: a policy is held from the start, a      *)
(* provider once there is one, no token but by the calls of a service      *)
(* (OIDC, OPA, ClientCredentials).                                         *)
(***************************************************************************)
EvaluatorsTypeOK ==
  /\ published \in Documents /\ held \in Documents \cup {Nil}
  /\ CallsService => held = Nil
  /\ kind = "opa" => held # Nil
  /\ token \in BOOLEAN /\ (token => CallsService)
  /\ \A k \in CacheKeys : cache[k] \in Documents \cup {Nil}
  /\ \A r \in Requests : call[r].key \in CacheKeys \cup {Nil} /\ call[r].doc \in Documents \cup {Nil}

(***************************************************************************)
(* Whoever has an identity verified with a provider, be it from the cache, *)
(* finds the provider there: GetURL, with which user info is fetched for   *)
(* that identity, reads it without asking (OIDC.getProvider, GetURL).      *)
(***************************************************************************)
IdentityHasProvider ==
  kind = "oidc" =>
    \/ held # Nil
    \/ /\ \A k \in CacheKeys : cache[k] = Nil
       /\ \A r \in Requests : call[r].pc \notin {"cached", "evaluated", "done"}

(***************************************************************************)
(* The policy that decides is compiled from the Rego that is recorded, and *)
(* refreshes go by: a document that does not compile replaces neither      *)
(* (OPA.updateRego).                                                       *)
(***************************************************************************)
PolicyIsOfRego == kind = "opa" => held = rego /\ held \notin Broken

(***************************************************************************)
(* What is published last ends up being held while refreshes go on, unless *)
(* it does not compile, also if a request that fetched the provider        *)
(* earlier on is late to assign it (OIDC.configureProviderRefresh,         *)
(* setupRefresher).                                                        *)
(***************************************************************************)
RefreshedEventually ==
  <>[](Refreshed /\ published \notin Broken /\ ~refresher.done) => <>[](held = published)

(***************************************************************************)
(* What requests are answered ends up being evaluated with what was        *)
(* published last, while refreshes go on: an object evaluated with an      *)
(* earlier provider or policy, or by an earlier answer of the service,     *)
(* does not stay in the cache, whichever request stores it last            *)
(* (IdentityConfig.Call and the like, EvaluatorCache.Get).                 *)
(***************************************************************************)
AnswersCatchUp ==
  <>[](published \notin Broken /\ ~refresher.done) =>
    <>[](\A r \in Requests : call[r].pc \in {"cached", "evaluated", "done"} => call[r].doc = published)

(***************************************************************************)
(* A worker that is stopped, and stays so, ends, though refreshes may come *)
(* in between (worker.Start, Stop).                                        *)
(***************************************************************************)
StoppedWorkerExits == []<>(refresher.done => refresher.pc = "exited")
=============================================================================
