-------------------------- MODULE EvaluatorsProofs --------------------------
(***************************************************************************)
(* What the evaluators of an AuthConfig hold between requests is sound,    *)
(* for any number of requests, documents, Secrets and changes.             *)
(*                                                                         *)
(* The first half is about the evaluators themselves: the provider is      *)
(* never lost and the policy is the one recorded.  The second half is      *)
(* about what they know of the Secrets: for each Secret that was not       *)
(* missed and each evaluator, the cache is current or the controller of    *)
(* Secrets is still going to tell the evaluator.                           *)
(***************************************************************************)
EXTENDS Evaluators, Secrets, TLAPS

Steps ==
  {"idle", "cached", "provider", "discover", "assign", "verify", "policy", "token", "fetch", "keep", "send",
   "evaluated", "done"}

CallType == [pc : Steps, key : CacheKeys \cup {Nil}, doc : Documents \cup {Nil}]

StateTypes ==
  /\ published \in Documents
  /\ held \in Documents \cup {Nil}
  /\ cache \in [CacheKeys -> Documents \cup {Nil}]
  /\ call \in [Requests -> CallType]
  /\ refresher \in [pc : {"select", "fetch", "update", "exited"}, fetched : Documents \cup {Nil}, done : BOOLEAN]

(***************************************************************************)
(* A call goes through the steps of its kind of evaluator, and the worker  *)
(* and the requests assign only what they have fetched.                    *)
(***************************************************************************)
StepsOfKind ==
  \A r \in Requests :
    /\ call[r].pc \in {"provider", "discover", "assign", "verify"} => kind = "oidc"
    /\ call[r].pc = "policy" => kind = "opa"
    /\ call[r].pc \in {"token", "fetch", "keep", "send"} => kind \notin {"oidc", "opa"}

FetchedIsThere ==
  /\ refresher.pc = "update" => refresher.fetched \in Documents
  /\ \A r \in Requests : call[r].pc = "assign" => call[r].doc \in Documents

HeldInv ==
  /\ StateTypes /\ StepsOfKind /\ FetchedIsThere
  /\ IdentityHasProvider /\ PolicyIsOfRego

LEMMA HeldInit == EvaluatorsInit => HeldInv
<1> SUFFICES ASSUME EvaluatorsInit PROVE HeldInv
  OBVIOUS
<1>1. StateTypes
  <2>1. call \in [Requests -> CallType]
    <3>1. notCalling \in CallType
      BY DEF notCalling, CallType, Steps
    <3> QED
      BY <3>1 DEF EvaluatorsInit
  <2>2. refresher \in [pc : {"select", "fetch", "update", "exited"}, fetched : Documents \cup {Nil}, done : BOOLEAN]
    BY DEF EvaluatorsInit
  <2>3. held \in Documents \cup {Nil}
    BY DEF EvaluatorsInit
  <2> QED
    BY <2>1, <2>2, <2>3 DEF EvaluatorsInit, StateTypes
<1>2. \A r \in Requests : call[r].pc = "idle"
  BY DEF EvaluatorsInit, notCalling
<1>3. refresher.pc # "update"
  BY DEF EvaluatorsInit
<1>4. IdentityHasProvider
  BY <1>2 DEF EvaluatorsInit, IdentityHasProvider
<1>5. PolicyIsOfRego
  BY DEF EvaluatorsInit, PolicyIsOfRego
<1> QED
  BY <1>1, <1>2, <1>3, <1>4, <1>5
     DEF HeldInv, StepsOfKind, FetchedIsThere

(***************************************************************************)
(* A step of one call that changes neither what is held, nor the cache,    *)
(* nor the worker: enough to look at the call itself.                      *)
(***************************************************************************)
callOK(r) ==
  /\ call'[r] \in CallType
  /\ call'[r].pc \in {"provider", "discover", "assign", "verify"} => kind = "oidc"
  /\ call'[r].pc = "policy" => kind = "opa"
  /\ call'[r].pc \in {"token", "fetch", "keep", "send"} => kind \notin {"oidc", "opa"}
  /\ call'[r].pc = "assign" => call'[r].doc \in Documents
  /\ kind = "oidc" /\ call'[r].pc \in {"cached", "evaluated", "done"} => held # Nil

LEMMA CallStep ==
  ASSUME HeldInv, NEW r \in Requests, NEW c, call' = [call EXCEPT ![r] = c], callOK(r),
         UNCHANGED <<environment, held, rego, refresher>>,
         cache' \in [CacheKeys -> Documents \cup {Nil}],
         kind = "oidc" /\ held = Nil => cache' = cache
  PROVE  HeldInv'
<1>1. /\ call \in [Requests -> CallType]
      /\ call'[r] = c
      /\ \A q \in Requests : q # r => call'[q] = call[q]
  BY DEF HeldInv, StateTypes
<1>2. UNCHANGED <<kind, published, held, rego, refresher>>
  BY DEF environment
<1>3. StateTypes'
  <2>1. c \in CallType
    BY <1>1 DEF callOK
  <2>2. call' \in [Requests -> CallType]
    BY <1>1, <2>1
  <2> QED
    BY <1>2, <2>2 DEF HeldInv, StateTypes
<1>4. StepsOfKind'
  BY <1>1, <1>2 DEF HeldInv, StepsOfKind, callOK
<1>5. FetchedIsThere'
  BY <1>1, <1>2 DEF HeldInv, FetchedIsThere, callOK
<1>6. IdentityHasProvider'
  BY <1>1, <1>2 DEF HeldInv, IdentityHasProvider, callOK
<1>7. PolicyIsOfRego'
  BY <1>2 DEF HeldInv, PolicyIsOfRego
<1> QED
  BY <1>3, <1>4, <1>5, <1>6, <1>7 DEF HeldInv

(***************************************************************************)
(* The steps of a request.                                                 *)
(***************************************************************************)
LEMMA EvaluationStep ==
  ASSUME HeldInv, NEW r \in Requests, Evaluation(r) \/ \E key \in CacheKeys \cup {Nil} : Call(r, key)
  PROVE  HeldInv'
<1> DEFINE c == call'[r]
<1>0. /\ call[r] \in CallType
      /\ held \in Documents \cup {Nil} /\ published \in Documents /\ Nil \notin Documents
      /\ call \in [Requests -> CallType] /\ cache \in [CacheKeys -> Documents \cup {Nil}]
  BY NilAssumption DEF HeldInv, StateTypes
<1>1. ASSUME NEW key \in CacheKeys \cup {Nil}, Call(r, key) PROVE HeldInv'
  <2>1. call' = [call EXCEPT ![r] = c] /\ c \in CallType
    BY <1>0, <1>1 DEF Call, begins, evaluate, CallType, Steps
  <2>2. c.pc \in {"cached", "provider", "policy", "token"}
    BY <1>0, <1>1 DEF Call, begins, evaluate, CallType
  <2>3. c.pc = "cached" => (kind = "oidc" => held # Nil)
    BY <1>0, <1>1 DEF Call, begins, evaluate, HeldInv, IdentityHasProvider, CallType
  <2>4. /\ c.pc = "provider" => kind = "oidc"
        /\ c.pc = "policy" => kind = "opa"
        /\ c.pc = "token" => kind \notin {"oidc", "opa"}
    BY <1>0, <1>1 DEF Call, begins, evaluate, CallType
  <2>5. callOK(r)
    BY <2>1, <2>2, <2>3, <2>4 DEF callOK
  <2> QED
    BY <1>0, <1>1, <2>1, <2>5, CallStep DEF Call
<1>2. ASSUME Store(r) PROVE HeldInv'
  <2>1. call' = [call EXCEPT ![r] = c] /\ c \in CallType /\ c.pc = "done"
    BY <1>0, <1>2 DEF Store, goes, CallType, Steps
  <2>2. kind = "oidc" => held # Nil
    BY <1>2 DEF Store, at, HeldInv, IdentityHasProvider
  <2>3. callOK(r)
    BY <2>1, <2>2 DEF callOK
  <2>4. cache' \in [CacheKeys -> Documents \cup {Nil}]
    <3>1. call[r].key \in CacheKeys \cup {Nil} /\ call[r].doc \in Documents \cup {Nil}
      BY <1>0 DEF CallType
    <3> QED
      BY <1>0, <1>2, <3>1 DEF Store
  <2> QED
    BY <1>0, <1>2, <2>1, <2>2, <2>3, <2>4, CallStep DEF Store
<1>3. ASSUME call' = [call EXCEPT ![r] = notCalling],
             UNCHANGED <<environment, held, rego, token, cache, refresher>>
      PROVE HeldInv'
  <2>1. call' = [call EXCEPT ![r] = c] /\ c \in CallType /\ c.pc = "idle"
    BY <1>0, <1>3 DEF notCalling, CallType, Steps
  <2>2. callOK(r)
    BY <2>1 DEF callOK
  <2> QED
    BY <1>0, <1>3, <2>1, <2>2, CallStep
<1>4. ASSUME NEW doc \in Documents \cup {Nil}, kind = "oidc" => held # Nil,
             call' = [call EXCEPT ![r].pc = "evaluated", ![r].doc = doc],
             UNCHANGED <<environment, held, rego, token, cache, refresher>>
      PROVE HeldInv'
  <2>1. call' = [call EXCEPT ![r] = c] /\ c \in CallType /\ c.pc = "evaluated"
    BY <1>0, <1>4 DEF CallType, Steps
  <2>2. callOK(r)
    BY <1>4, <2>1 DEF callOK
  <2> QED
    BY <1>0, <1>4, <2>1, <2>2, CallStep
<1>5. ASSUME Return(r) PROVE HeldInv'
  BY <1>3, <1>5 DEF Return
<1>6. ASSUME GetProvider(r) PROVE HeldInv'
  <2>1. call' = [call EXCEPT ![r] = c] /\ c \in CallType /\ c.pc \in {"discover", "verify"}
    BY <1>0, <1>6 DEF GetProvider, goes, CallType, Steps
  <2>2. callOK(r)
    BY <1>6, <2>1 DEF callOK, GetProvider, at, HeldInv, StepsOfKind
  <2> QED
    BY <1>0, <1>6, <2>1, <2>2, CallStep DEF GetProvider
<1>7. ASSUME Discover(r) PROVE HeldInv'
  <2>1. /\ call' = [call EXCEPT ![r] = c] /\ c \in CallType /\ c.pc \in {"assign", "verify"}
        /\ c.pc = "assign" => c.doc \in Documents
    BY <1>0, <1>7 DEF Discover, goes, CallType, Steps
  <2>2. callOK(r)
    BY <1>7, <2>1 DEF callOK, Discover, at, HeldInv, StepsOfKind
  <2> QED
    BY <1>0, <1>7, <2>1, <2>2, CallStep DEF Discover
<1>8. ASSUME VerifyToken(r) PROVE HeldInv'
  BY <1>0, <1>3, <1>4, <1>8 DEF VerifyToken, returns, fails
<1>9. ASSUME EvalPolicy(r) PROVE HeldInv'
  <2>1. kind # "oidc"
    BY <1>9 DEF EvalPolicy, at, HeldInv, StepsOfKind
  <2> QED
    BY <1>0, <1>3, <1>4, <1>9, <2>1 DEF EvalPolicy, returns, fails
<1>10. ASSUME Send(r) PROVE HeldInv'
  <2>1. kind # "oidc"
    BY <1>10 DEF Send, at, HeldInv, StepsOfKind
  <2> QED
    BY <1>0, <1>3, <1>4, <1>10, <2>1 DEF Send, returns, fails
<1>11. ASSUME NEW pc \in {"fetch", "keep", "send"}, kind \notin {"oidc", "opa"}, goes(r, pc),
              UNCHANGED <<environment, held, rego, cache, refresher>>
       PROVE HeldInv'
  <2>1. call' = [call EXCEPT ![r] = c] /\ c \in CallType /\ c.pc = pc
    BY <1>0, <1>11 DEF goes, CallType, Steps
  <2>2. callOK(r)
    BY <1>11, <2>1 DEF callOK
  <2> QED
    BY <1>0, <1>11, <2>1, <2>2, CallStep
<1>12. ASSUME ReadToken(r) \/ KeepToken(r) \/ FetchToken(r) PROVE HeldInv'
  <2>1. kind \notin {"oidc", "opa"}
    BY <1>12 DEF ReadToken, KeepToken, FetchToken, at, HeldInv, StepsOfKind
  <2>2. CASE ReadToken(r)
    BY <1>11, <2>1, <2>2 DEF ReadToken
  <2>3. CASE KeepToken(r)
    BY <1>11, <2>1, <2>3 DEF KeepToken
  <2>4. CASE FetchToken(r)
    BY <1>3, <1>11, <2>1, <2>4 DEF FetchToken, fails
  <2> QED
    BY <1>12, <2>2, <2>3, <2>4
<1>13. ASSUME SetProvider(r) PROVE HeldInv'
  <2>1. kind = "oidc" /\ held' \in Documents
    BY <1>13 DEF SetProvider, at, HeldInv, StepsOfKind, FetchedIsThere
  <2>2. UNCHANGED <<kind, published, rego, cache, refresher>>
    BY <1>13 DEF SetProvider, environment
  <2>3. /\ c \in CallType /\ c.pc = "verify"
        /\ call' \in [Requests -> CallType]
        /\ \A q \in Requests : q # r => call'[q] = call[q]
    BY <1>0, <1>13 DEF SetProvider, goes, CallType, Steps
  <2>4. StateTypes'
    BY <2>1, <2>2, <2>3 DEF HeldInv, StateTypes
  <2>5. StepsOfKind' /\ FetchedIsThere'
    BY <2>1, <2>2, <2>3 DEF HeldInv, StepsOfKind, FetchedIsThere
  <2>6. IdentityHasProvider' /\ PolicyIsOfRego'
    BY <1>0, <2>1, <2>2 DEF IdentityHasProvider, PolicyIsOfRego
  <2> QED
    BY <2>4, <2>5, <2>6 DEF HeldInv
<1> QED
  BY <1>1, <1>2, <1>5, <1>6, <1>7, <1>8, <1>9, <1>10, <1>11, <1>12, <1>13 DEF Evaluation

(***************************************************************************)
(* The steps of the worker and of what is around the evaluator.            *)
(***************************************************************************)
LEMMA OtherStep ==
  ASSUME HeldInv,
         UNCHANGED <<kind, call>>,
         published' \in Documents,
         cache' \in [CacheKeys -> Documents \cup {Nil}],
         \A k \in CacheKeys : cache[k] = Nil => cache'[k] = Nil,
         refresher' \in [pc : {"select", "fetch", "update", "exited"}, fetched : Documents \cup {Nil}, done : BOOLEAN],
         refresher'.pc = "update" => refresher'.fetched \in Documents,
         held' = held \/ held' \in Documents,
         PolicyIsOfRego'
  PROVE  HeldInv'
<1>1. call \in [Requests -> CallType] /\ Nil \notin Documents
  BY NilAssumption DEF HeldInv, StateTypes
<1>2. StateTypes'
  BY DEF HeldInv, StateTypes
<1>3. StepsOfKind' /\ FetchedIsThere'
  BY DEF HeldInv, StepsOfKind, FetchedIsThere
<1>4. IdentityHasProvider'
  BY <1>1 DEF HeldInv, IdentityHasProvider
<1> QED
  BY <1>2, <1>3, <1>4 DEF HeldInv

LEMMA HeldNext == HeldInv /\ [EvaluatorsNext]_evaluatorVars => HeldInv'
<1> SUFFICES ASSUME HeldInv, [EvaluatorsNext]_evaluatorVars PROVE HeldInv'
  OBVIOUS
<1> DEFINE Worker == [pc : {"select", "fetch", "update", "exited"}, fetched : Documents \cup {Nil}, done : BOOLEAN]
<1>0. /\ refresher \in Worker /\ published \in Documents
      /\ cache \in [CacheKeys -> Documents \cup {Nil}]
      /\ refresher.pc = "update" => refresher.fetched \in Documents
      /\ PolicyIsOfRego
  BY DEF HeldInv, StateTypes, FetchedIsThere
<1>1. ASSUME NEW r \in Requests, Evaluation(r) \/ \E key \in CacheKeys \cup {Nil} : Call(r, key)
      PROVE HeldInv'
  BY <1>1, EvaluationStep
<1>2. ASSUME UNCHANGED <<environment, held, rego, cache, call>>, refresher' \in Worker,
             refresher'.pc = "update" => refresher'.fetched \in Documents
      PROVE HeldInv'
  <2>1. UNCHANGED <<kind, published, held, rego>> /\ PolicyIsOfRego'
    BY <1>0, <1>2 DEF environment, PolicyIsOfRego
  <2> QED
    BY <1>0, <1>2, <2>1, OtherStep
<1>3. CASE Tick
  BY <1>0, <1>2, <1>3 DEF Tick
<1>4. CASE Exit
  BY <1>0, <1>2, <1>4 DEF Exit
<1>5. CASE Stop
  BY <1>0, <1>2, <1>5 DEF Stop
<1>6. CASE Fetch
  BY <1>0, <1>2, <1>6 DEF Fetch
<1>7. CASE FetchFails
  BY <1>0, <1>2, <1>7 DEF FetchFails
<1>8. CASE Update
  <2>1. refresher' \in Worker /\ refresher'.pc = "select" /\ refresher.fetched \in Documents
    BY <1>0, <1>8 DEF Update
  <2>2. held' = held \/ held' \in Documents
    BY <1>8, <2>1 DEF Update, updateRego
  <2>3. UNCHANGED <<kind, published, cache, call>>
    BY <1>8 DEF Update, environment
  <2>4. PolicyIsOfRego'
    BY <1>0, <1>8, <2>3 DEF Update, updateRego, PolicyIsOfRego
  <2> QED
    BY <1>0, <1>8, <2>1, <2>2, <2>3, <2>4, OtherStep
<1>9. ASSUME NEW d \in Documents, Publish(d) PROVE HeldInv'
  <2>1. PolicyIsOfRego'
    BY <1>0, <1>9 DEF Publish, PolicyIsOfRego
  <2> QED
    BY <1>0, <1>9, <2>1, OtherStep DEF Publish
<1>10. CASE ExpireToken
  BY <1>0, <1>2, <1>10 DEF ExpireToken
<1>11. ASSUME NEW k \in CacheKeys, ExpireEntry(k) PROVE HeldInv'
  <2>1. UNCHANGED <<kind, published, held, rego, call, refresher>> /\ PolicyIsOfRego'
    BY <1>0, <1>11 DEF ExpireEntry, environment, PolicyIsOfRego
  <2> QED
    BY <1>0, <1>11, <2>1, OtherStep DEF ExpireEntry
<1>12. CASE UNCHANGED evaluatorVars
  BY <1>0, <1>2, <1>12 DEF evaluatorVars, environment
<1> QED
  BY <1>1, <1>3, <1>4, <1>5, <1>6, <1>7, <1>8, <1>9, <1>10, <1>11, <1>12 DEF EvaluatorsNext

LEMMA HeldInvariance == EvaluatorsSpec => []HeldInv
  BY HeldInit, HeldNext, PTL DEF EvaluatorsSpec

(***************************************************************************)
(* However requests, refreshes and time interleave, the provider that      *)
(* verified an identity is there for whoever has that identity             *)
(* (OIDC.getProvider, configureProviderRefresh).                           *)
(***************************************************************************)
THEOREM ProviderIsKept == EvaluatorsSpec => []IdentityHasProvider
  BY HeldInvariance, PTL DEF HeldInv

(***************************************************************************)
(* The policy that decides is always the one compiled from the Rego that   *)
(* refreshes compare with, whatever is published (OPA.updateRego).         *)
(***************************************************************************)
THEOREM PolicyIsRecorded == EvaluatorsSpec => []PolicyIsOfRego
  BY HeldInvariance, PTL DEF HeldInv

----------------------------------------------------------------------------
(***************************************************************************)
(* Secrets and the objects read of them are the ones users make, and a     *)
(* call of Reconcile that goes through evaluators has a Secret.            *)
(***************************************************************************)
ObjectsInv ==
  /\ \A n \in Names : secret[n] \in ObjectsOf[n] \cup {None}
  /\ job.name # None => job.object \in ObjectsOf[job.name] \cup {None}
  /\ job.todo # <<>> => job.name # None

(***************************************************************************)
(* The caches of a config have Secrets of the namespace only, and each one *)
(* once.                                                                   *)
(***************************************************************************)
KeysInScope(store) == \A k \in Keys : store[k] # None => store[k] \in InScope

CertsInScope(store) == \A n \in Names : store[n] # None => n \in InScope

OneKey(store) == \A j, k \in Keys : store[j] # None /\ store[j] = store[k] => j = k

SoundCaches(cfg) == KeysInScope(cfg.apiKey) /\ CertsInScope(cfg.mtls) /\ OneKey(cfg.apiKey)

CachesInv ==
  /\ indexed # None => SoundCaches(indexed)
  /\ building # None => SoundCaches(building.cfg)

(***************************************************************************)
(* What an evaluator that is up to date about a Secret has in its cache.   *)
(***************************************************************************)
KeyCurrent(store, n) ==
  /\ \A k \in Keys : store[k] = n => listed(n) /\ secret[n].key = k
  /\ listed(n) /\ secret[n].key # None /\ unshared(n, secret[n].key) => store[secret[n].key] = n

CertCurrent(store, n) ==
  /\ store[n] # None => listed(n)
  /\ listed(n) /\ secret[n].cert # None => store[n] = secret[n].cert

(***************************************************************************)
(* The evaluators that are left in a list.                                 *)
(***************************************************************************)
KeysLeft(todo) == todo = IdentityConfigs

CertsLeft(todo) == todo # <<>>

(***************************************************************************)
(* A Secret that the controller has yet to list the configs for.           *)
(***************************************************************************)
Pending(n) == n \in queue \/ (job.name = n /\ job.todo = <<>>)

JobInv == \A n \in managed : job.name = n => job.object = secret[n] \/ n \in queue

BuildingInv ==
  building # None => \A n \in managed \ missed :
    /\ KeysLeft(building.todo) \/ KeyCurrent(building.cfg.apiKey, n) \/ Pending(n)
    /\ CertsLeft(building.todo) \/ CertCurrent(building.cfg.mtls, n) \/ Pending(n)

IndexedInv ==
  building = None /\ indexed # None => \A n \in managed \ missed :
    LET told == job.name = n /\ job.listed
    IN  /\ KeyCurrent(indexed.apiKey, n) \/ Pending(n) \/ (told /\ KeysLeft(job.todo))
        /\ CertCurrent(indexed.mtls, n) \/ Pending(n) \/ (told /\ CertsLeft(job.todo))

SecretsInv ==
  /\ TypeOK
  /\ ObjectsInv
  /\ CachesInv
  /\ JobInv /\ BuildingInv /\ IndexedInv

----------------------------------------------------------------------------
(***************************************************************************)
(* Facts about the constants and the lists of evaluators.                  *)
(***************************************************************************)
LEMMA Todo ==
  /\ IdentityConfigs # <<>> /\ Head(IdentityConfigs) = "apiKey" /\ Tail(IdentityConfigs) = <<"mtls">>
  /\ <<"mtls">> # <<>> /\ Head(<<"mtls">>) = "mtls" /\ Tail(<<"mtls">>) = <<>>
  /\ <<"mtls">> # IdentityConfigs
BY DEF IdentityConfigs

LEMMA ObjectFields ==
  ASSUME NEW n \in Names, NEW object \in ObjectsOf[n]
  PROVE  /\ object \in Objects /\ object # None /\ n # None
         /\ object.key \in Keys \cup {None} /\ object.cert \in Certs \cup {None}
<1>1. object \in Objects
  BY ObjectsAssumption
<1> QED
  BY <1>1, SecretsNoneAssumption DEF Objects

LEMMA NewConfigSound == NewConfig \in Configs /\ SoundCaches(NewConfig)
BY DEF NewConfig, Configs, SoundCaches, KeysInScope, CertsInScope, OneKey

(***************************************************************************)
(* A Secret that users keep watched is watched whenever it exists.         *)
(***************************************************************************)
LEMMA ManagedIsWatched ==
  ASSUME ObjectsInv, NEW n \in managed
  PROVE  n \in Names /\ (IF Watched(n) THEN secret[n] ELSE None) = secret[n]
BY DEF ObjectsInv, managed, Watched

----------------------------------------------------------------------------
(***************************************************************************)
(* What the operations of the evaluators do to their caches, given that a  *)
(* Secret is there once at most.                                           *)
(***************************************************************************)
KeyCaches == [Keys -> Names \cup {None}]

CertCaches == [Names -> Certs \cup {None}]

LEMMA AddAPIKeyEffect ==
  ASSUME NEW store \in KeyCaches, OneKey(store),
         NEW n \in Names, NEW object \in ObjectsOf[n], n \in InScope,
         NEW new \in AddAPIKey(store, n, object)
  PROVE  new = [k \in Keys |-> IF k = object.key THEN n
                               ELSE IF store[k] = n THEN None ELSE store[k]]
<1>1. object.key \in Keys \cup {None} /\ n # None /\ None \notin Keys
  BY ObjectFields, SecretsNoneAssumption
<1>2. CASE keysOf(store, n) = {}
  <2>1. new = append(store, n, object)
    BY <1>2 DEF AddAPIKey, withinScope
  <2>2. \A k \in Keys : store[k] # n
    BY <1>2 DEF keysOf
  <2> QED
    BY <1>1, <2>1, <2>2 DEF append, KeyCaches
<1>3. CASE keysOf(store, n) # {}
  <2>1. PICK old \in keysOf(store, n) : new = update(store, n, object, old)
    BY <1>3 DEF AddAPIKey, withinScope
  <2>2. old \in Keys /\ store[old] = n /\ \A k \in Keys : store[k] = n => k = old
    BY <1>1 DEF keysOf, OneKey
  <2>3. CASE old = object.key
    BY <1>1, <2>1, <2>2, <2>3 DEF update, KeyCaches
  <2>4. CASE old # object.key
    <3>1. new = [append(store, n, object) EXCEPT ![old] = None]
      BY <2>1, <2>4 DEF update
    <3>2. CASE object.key = None
      BY <1>1, <2>2, <3>1, <3>2 DEF append, KeyCaches
    <3>3. CASE object.key # None
      BY <1>1, <2>2, <2>4, <3>1, <3>3 DEF append, KeyCaches
    <3> QED
      BY <3>2, <3>3
  <2> QED
    BY <2>3, <2>4
<1> QED
  BY <1>2, <1>3

LEMMA RevokeAPIKeyEffect ==
  ASSUME NEW store \in KeyCaches, OneKey(store), NEW n \in InScope,
         NEW new \in RevokeAPIKey(store, n)
  PROVE  new = [k \in Keys |-> IF store[k] = n THEN None ELSE store[k]]
<1>1. n # None
  BY ScopeAssumption, SecretsNoneAssumption
<1>2. CASE keysOf(store, n) = {}
  BY <1>2 DEF RevokeAPIKey, withinScope, keysOf, KeyCaches
<1>3. CASE keysOf(store, n) # {}
  <2>1. PICK old \in keysOf(store, n) : new = [store EXCEPT ![old] = None]
    BY <1>3 DEF RevokeAPIKey, withinScope
  <2>2. old \in Keys /\ store[old] = n /\ \A k \in Keys : store[k] = n => k = old
    BY <1>1 DEF keysOf, OneKey
  <2> QED
    BY <2>1, <2>2 DEF KeyCaches
<1> QED
  BY <1>2, <1>3

(***************************************************************************)
(* An evaluator of API keys that is told of a Secret is up to date about   *)
(* it, if what it is told is, and stays up to date about the others.       *)
(***************************************************************************)
LEMMA RefreshKeys ==
  ASSUME SecretsInv, job.name \in Names,
         NEW store \in KeyCaches, KeysInScope(store), OneKey(store),
         NEW new \in refresh("apiKey", store)
  PROVE  /\ new \in KeyCaches /\ KeysInScope(new) /\ OneKey(new)
         /\ \A m \in Names : m # job.name /\ KeyCurrent(store, m) => KeyCurrent(new, m)
         /\ job.object = secret[job.name] => KeyCurrent(new, job.name)
<1> DEFINE n == job.name
           object == job.object
<1>1. n \in Names /\ n # None /\ None \notin Keys /\ object \in ObjectsOf[n] \cup {None}
  BY SecretsNoneAssumption DEF SecretsInv, ObjectsInv
<1>2. CASE n \notin InScope
  <2>1. new = store
    BY <1>2 DEF refresh, AddAPIKey, RevokeAPIKey, withinScope
  <2>2. KeyCurrent(store, n)
    BY <1>1, <1>2 DEF KeyCurrent, KeysInScope, listed
  <2> QED
    BY <2>1, <2>2
<1>3. CASE n \in InScope /\ object # None /\ object.selected
  <2>1. object \in ObjectsOf[n] /\ object.key \in Keys \cup {None}
    BY <1>1, <1>3, ObjectFields
  <2>2. new \in AddAPIKey(store, n, object)
    BY <1>3 DEF refresh
  <2> HIDE DEF n, object
  <2>3. new = [k \in Keys |-> IF k = object.key THEN n
                              ELSE IF store[k] = n THEN None ELSE store[k]]
    BY <1>1, <1>3, <2>1, <2>2, AddAPIKeyEffect
  <2>4. new \in KeyCaches /\ KeysInScope(new)
    BY <1>1, <1>3, <2>3 DEF KeyCaches, KeysInScope
  <2>5. OneKey(new)
    BY <1>1, <2>3 DEF OneKey
  <2>6. ASSUME NEW m \in Names, m # n, KeyCurrent(store, m) PROVE KeyCurrent(new, m)
    <3>1. \A k \in Keys : new[k] = m => store[k] = m
      <4>1. m # None
        BY SecretsNoneAssumption
      <4> QED
        BY <1>1, <2>3, <2>6, <4>1 DEF KeyCaches
    <3>2. ASSUME listed(m), secret[m].key # None, unshared(m, secret[m].key)
          PROVE  new[secret[m].key] = m
      <4>1. secret[m].key \in Keys
        BY <2>6, <3>2, ObjectFields DEF listed, SecretsInv, ObjectsInv
      <4>2. secret[m].key # object.key
        BY <1>3, <2>1, <2>6, <3>2 DEF unshared
      <4>3. store[secret[m].key] = m
        BY <2>6, <3>2 DEF KeyCurrent
      <4> QED
        BY <2>3, <2>6, <4>1, <4>2, <4>3
    <3> QED
      BY <2>6, <3>1, <3>2 DEF KeyCurrent
  <2>7. ASSUME object = secret[n] PROVE KeyCurrent(new, n)
    <3>1. listed(n)
      BY <1>3, <2>7 DEF listed
    <3>2. \A k \in Keys : new[k] = n <=> k = object.key
      BY <1>1, <2>3 DEF KeyCaches
    <3> QED
      BY <2>1, <2>7, <3>1, <3>2 DEF KeyCurrent
  <2> QED
    BY <2>4, <2>5, <2>6, <2>7 DEF n, object
<1>4. CASE n \in InScope /\ ~(object # None /\ object.selected)
  <2>1. new \in RevokeAPIKey(store, n)
    BY <1>4 DEF refresh
  <2> HIDE DEF n, object
  <2>2. new = [k \in Keys |-> IF store[k] = n THEN None ELSE store[k]]
    BY <1>4, <2>1, RevokeAPIKeyEffect
  <2>3. new \in KeyCaches /\ KeysInScope(new)
    BY <2>2 DEF KeyCaches, KeysInScope
  <2>4. OneKey(new)
    BY <1>1, <2>2 DEF OneKey
  <2>5. ASSUME NEW m \in Names, m # n, KeyCurrent(store, m) PROVE KeyCurrent(new, m)
    <3>1. m # None
      BY SecretsNoneAssumption
    <3>2. \A k \in Keys : new[k] = m <=> store[k] = m
      BY <2>2, <2>5, <3>1 DEF KeyCaches
    <3>3. listed(m) /\ secret[m].key # None => secret[m].key \in Keys
      BY <2>5, ObjectFields DEF listed, SecretsInv, ObjectsInv
    <3> QED
      BY <2>5, <3>2, <3>3 DEF KeyCurrent
  <2>6. ASSUME object = secret[n] PROVE KeyCurrent(new, n)
    <3>1. ~listed(n)
      BY <1>4, <2>6 DEF listed
    <3>2. \A k \in Keys : new[k] # n
      BY <1>1, <2>2
    <3> QED
      BY <3>1, <3>2 DEF KeyCurrent
  <2> QED
    BY <2>3, <2>4, <2>5, <2>6 DEF n, object
<1> QED
  BY <1>2, <1>3, <1>4

(***************************************************************************)
(* The same of an evaluator of certificates.                               *)
(***************************************************************************)
LEMMA RefreshCerts ==
  ASSUME SecretsInv, job.name \in Names,
         NEW store \in CertCaches, CertsInScope(store),
         NEW new \in refresh("mtls", store)
  PROVE  /\ new \in CertCaches /\ CertsInScope(new)
         /\ \A m \in Names : m # job.name /\ CertCurrent(store, m) => CertCurrent(new, m)
         /\ job.object = secret[job.name] => CertCurrent(new, job.name)
<1> DEFINE n == job.name
           object == job.object
<1>1. n \in Names /\ object \in ObjectsOf[n] \cup {None}
  BY SecretsNoneAssumption DEF SecretsInv, ObjectsInv
<1>2. CASE n \notin InScope
  <2>1. new = store
    BY <1>2 DEF refresh, AddCert, RevokeCert, withinScope
  <2>2. CertCurrent(store, n)
    BY <1>1, <1>2 DEF CertCurrent, CertsInScope, listed
  <2> QED
    BY <2>1, <2>2
<1>3. CASE n \in InScope /\ object # None /\ object.selected
  <2>1. object \in ObjectsOf[n] /\ object.cert \in Certs \cup {None}
    BY <1>1, <1>3, ObjectFields
  <2>2. new = IF object.cert # None THEN [store EXCEPT ![n] = object.cert] ELSE store
    BY <1>3 DEF refresh, AddCert, withinScope
  <2> HIDE DEF n, object
  <2>3. new \in CertCaches /\ CertsInScope(new)
    BY <1>1, <1>3, <2>1, <2>2 DEF CertCaches, CertsInScope
  <2>4. \A m \in Names : m # n => new[m] = store[m]
    BY <1>1, <2>2 DEF CertCaches
  <2>5. object.cert # None => new[n] = object.cert
    BY <1>1, <2>2 DEF CertCaches
  <2>6. object = secret[n] => CertCurrent(new, n)
    BY <1>3, <2>5 DEF CertCurrent, listed
  <2> QED
    BY <2>3, <2>4, <2>6 DEF n, object, CertCurrent
<1>4. CASE n \in InScope /\ ~(object # None /\ object.selected)
  <2>1. new = [store EXCEPT ![n] = None]
    BY <1>4 DEF refresh, RevokeCert, withinScope
  <2> HIDE DEF n, object
  <2>2. new \in CertCaches /\ CertsInScope(new)
    BY <1>1, <2>1 DEF CertCaches, CertsInScope
  <2>3. new[n] = None /\ \A m \in Names : m # n => new[m] = store[m]
    BY <1>1, <2>1 DEF CertCaches
  <2>4. object = secret[n] => CertCurrent(new, n)
    BY <1>4, <2>3 DEF CertCurrent, listed
  <2> QED
    BY <2>2, <2>3, <2>4 DEF n, object, CertCurrent
<1> QED
  BY <1>2, <1>3, <1>4

----------------------------------------------------------------------------
LEMMA InitInv == Init => SecretsInv
<1> SUFFICES ASSUME Init PROVE SecretsInv
  OBVIOUS
<1>1. TypeOK
  BY BoundAssumption DEF Init, TypeOK, noJob
<1>2. ObjectsInv
  BY DEF Init, ObjectsInv, noJob
<1>3. CachesInv /\ BuildingInv /\ IndexedInv
  BY DEF Init, CachesInv, BuildingInv, IndexedInv
<1>4. JobInv
  BY SecretsNoneAssumption DEF Init, JobInv, noJob, managed
<1> QED
  BY <1>1, <1>2, <1>3, <1>4 DEF SecretsInv

(***************************************************************************)
(* The cluster.  A change of a Secret that users keep watched queues it.   *)
(***************************************************************************)
LEMMA ChangeInv ==
  ASSUME SecretsInv, NEW n \in Names, NEW object \in ObjectsOf[n] \cup {None}, Change(n, object)
  PROVE  SecretsInv'
<1> USE DEF SecretsInv
<1>1. /\ secret' = [secret EXCEPT ![n] = object] /\ secret[n] # object
      /\ queue' = IF Watched(n) \/ (object # None /\ object.watched) THEN queue \cup {n} ELSE queue
      /\ UNCHANGED <<job, building, indexed, missed>>
  BY DEF Change
<1>2. TypeOK'
  <2>1. changes' \in 0..MaxChanges
    BY BoundAssumption DEF Change, TypeOK
  <2>2. object \in Objects \cup {None}
    BY ObjectFields
  <2> QED
    BY <1>1, <2>1, <2>2 DEF TypeOK
<1>3. ObjectsInv'
  BY <1>1 DEF ObjectsInv, TypeOK
<1>4. CachesInv'
  BY <1>1 DEF CachesInv
<1>5. n \in managed => n \in queue'
  BY <1>1 DEF managed, Watched, ObjectsInv
<1>6. ASSUME NEW m \in Names, m # n
      PROVE  /\ secret'[m] = secret[m]
             /\ \A store : KeyCurrent(store, m)' <=> KeyCurrent(store, m)
             /\ \A store : CertCurrent(store, m)' <=> CertCurrent(store, m)
  BY <1>1, <1>6 DEF KeyCurrent, CertCurrent, listed, TypeOK
<1>7. queue \subseteq queue'
  BY <1>1
<1>8. JobInv'
  BY <1>1, <1>5, <1>6, <1>7 DEF JobInv, managed
<1>9. BuildingInv'
  BY <1>1, <1>5, <1>6, <1>7 DEF BuildingInv, Pending, managed
<1>10. IndexedInv'
  BY <1>1, <1>5, <1>6, <1>7 DEF IndexedInv, Pending, managed
<1> QED
  BY <1>2, <1>3, <1>4, <1>8, <1>9, <1>10

LEMMA ResyncInv ==
  ASSUME SecretsInv, NEW n \in Names, Resync(n)
  PROVE  SecretsInv'
<1> USE DEF SecretsInv
<1>1. /\ queue' = queue \cup {n}
      /\ UNCHANGED <<secret, changes, job, building, indexed, missed>>
  BY DEF Resync
<1>2. TypeOK' /\ ObjectsInv' /\ CachesInv'
  BY <1>1 DEF TypeOK, ObjectsInv, CachesInv
<1>3. JobInv'
  BY <1>1 DEF JobInv
<1>4. BuildingInv'
  BY <1>1 DEF BuildingInv, Pending, KeyCurrent, CertCurrent, listed
<1>5. IndexedInv'
  BY <1>1 DEF IndexedInv, Pending, KeyCurrent, CertCurrent, listed
<1> QED
  BY <1>2, <1>3, <1>4, <1>5

----------------------------------------------------------------------------
(***************************************************************************)
(* The controller of AuthConfigs.                                          *)
(***************************************************************************)
LEMMA TranslateAuthConfigInv ==
  ASSUME SecretsInv, TranslateAuthConfig
  PROVE  SecretsInv'
<1> USE DEF SecretsInv
<1>1. /\ building' = [cfg |-> NewConfig, todo |-> IdentityConfigs]
      /\ missed' = {}
      /\ UNCHANGED <<secret, changes, queue, job, indexed>>
  BY DEF TranslateAuthConfig
<1>2. TypeOK'
  BY <1>1, NewConfigSound DEF TypeOK, Buildings
<1>3. ObjectsInv' /\ JobInv'
  BY <1>1 DEF ObjectsInv, JobInv
<1>4. CachesInv'
  BY <1>1, NewConfigSound DEF CachesInv
<1>5. BuildingInv'
  BY <1>1, Todo DEF BuildingInv, KeysLeft, CertsLeft
<1>6. IndexedInv'
  <2>1. building' # None
    BY <1>1, NewConfigSound, NoneIsNoConfig DEF Buildings
  <2> QED
    BY <2>1 DEF IndexedInv
<1> QED
  BY <1>2, <1>3, <1>4, <1>5, <1>6

(***************************************************************************)
(* What an evaluator lists when it is built is current.                    *)
(***************************************************************************)
LEMMA LoadAPIKeys ==
  ASSUME SecretsInv, NEW store \in loadAPIKeys
  PROVE  /\ store \in KeyCaches /\ KeysInScope(store) /\ OneKey(store)
         /\ \A n \in Names : KeyCurrent(store, n)
<1> DEFINE having(k) == {n \in Names : listed(n) /\ secret[n].key = k}
<1>1. /\ store \in KeyCaches
      /\ \A k \in Keys : IF having(k) = {} THEN store[k] = None ELSE store[k] \in having(k)
  BY DEF loadAPIKeys, KeyCaches
<1>2. \A k \in Keys : store[k] # None => /\ store[k] \in Names /\ listed(store[k])
                                         /\ secret[store[k]].key = k
  BY <1>1
<1>3. KeysInScope(store)
  BY <1>2 DEF KeysInScope, listed
<1>4. OneKey(store)
  BY <1>2 DEF OneKey
<1>5. ASSUME NEW n \in Names PROVE KeyCurrent(store, n)
  <2>1. \A k \in Keys : store[k] = n => listed(n) /\ secret[n].key = k
    BY <1>2, SecretsNoneAssumption
  <2>2. ASSUME listed(n), secret[n].key # None, unshared(n, secret[n].key)
        PROVE  store[secret[n].key] = n
    <3>1. secret[n].key \in Keys /\ n \in having(secret[n].key)
      BY <2>2, ObjectFields DEF listed, SecretsInv, ObjectsInv
    <3>2. store[secret[n].key] \in having(secret[n].key)
      BY <1>1, <3>1
    <3>3. ASSUME NEW m \in having(secret[n].key) PROVE m = n
      <4>1. /\ m \in InScope /\ m \in Names /\ secret[m] \in ObjectsOf[m]
            /\ secret[m].key = secret[n].key
        BY <3>3 DEF listed, SecretsInv, ObjectsInv
      <4> QED
        BY <2>2, <4>1 DEF unshared
    <3> QED
      BY <3>2, <3>3
  <2> QED
    BY <2>1, <2>2 DEF KeyCurrent
<1> QED
  BY <1>1, <1>3, <1>4, <1>5

LEMMA LoadCerts ==
  ASSUME SecretsInv, NEW store \in loadCerts
  PROVE  /\ store \in CertCaches /\ CertsInScope(store)
         /\ \A n \in Names : CertCurrent(store, n)
<1>1. store = [n \in Names |-> IF listed(n) THEN secret[n].cert ELSE None]
  BY DEF loadCerts
<1>2. \A n \in Names : listed(n) => secret[n].cert \in Certs \cup {None}
  BY ObjectFields DEF listed, SecretsInv, ObjectsInv
<1>3. store \in CertCaches
  BY <1>1, <1>2 DEF CertCaches
<1>4. CertsInScope(store)
  BY <1>1 DEF CertsInScope, listed
<1>5. \A n \in Names : CertCurrent(store, n)
  BY <1>1 DEF CertCurrent
<1> QED
  BY <1>3, <1>4, <1>5

LEMMA NewIdentityInv ==
  ASSUME SecretsInv, NewIdentity
  PROVE  SecretsInv'
<1> USE DEF SecretsInv
<1>1. /\ building \in Buildings /\ building # None
      /\ building.todo \in {<<"mtls">>, IdentityConfigs}
      /\ UNCHANGED <<secret, changes, queue, job, indexed>>
  BY DEF NewIdentity, ListSecrets, ListFails, TypeOK, Buildings
<1> DEFINE e == Head(building.todo)
           rest == [building EXCEPT !.todo = Tail(@)]
<1>2. /\ rest \in Buildings /\ rest.cfg = building.cfg /\ rest.todo = Tail(building.todo)
      /\ rest.todo # IdentityConfigs
  BY <1>1, Todo DEF Buildings
<1>3. \/ \E store \in loadSecrets(e) : building' = [rest EXCEPT !.cfg[e] = store] /\ UNCHANGED missed
      \/ building' = rest /\ missed' = Names
  BY DEF NewIdentity, ListSecrets, ListFails
<1>4. ObjectsInv' /\ JobInv'
  BY <1>1 DEF ObjectsInv, JobInv
<1>5. ASSUME building' \in Buildings, missed' \subseteq Names, SoundCaches(building'.cfg)
      PROVE  TypeOK' /\ CachesInv' /\ IndexedInv'
  <2>1. TypeOK'
    BY <1>1, <1>5 DEF TypeOK
  <2>2. CachesInv'
    BY <1>1, <1>5 DEF CachesInv
  <2>3. building' # None
    BY <1>5, NoneIsNoConfig
  <2> QED
    BY <2>1, <2>2, <2>3 DEF IndexedInv
<1>6. SoundCaches(building.cfg) /\ building.cfg \in Configs
  BY <1>1 DEF CachesInv, Buildings
<1>7. CASE building' = rest /\ missed' = Names
  <2>1. TypeOK' /\ CachesInv' /\ IndexedInv'
    BY <1>2, <1>5, <1>6, <1>7
  <2>2. BuildingInv'
    BY <1>7 DEF BuildingInv, managed
  <2> QED
    BY <1>4, <2>1, <2>2
<1>8. CASE \E store \in loadSecrets(e) :
             building' = [rest EXCEPT !.cfg[e] = store] /\ UNCHANGED missed
  <2> PICK store \in loadSecrets(e) : building' = [rest EXCEPT !.cfg[e] = store] /\ UNCHANGED missed
    BY <1>8
  <2>1. CASE building.todo = IdentityConfigs
    <3>1. e = "apiKey" /\ rest.todo = <<"mtls">> /\ store \in loadAPIKeys
      BY <1>2, <2>1, Todo DEF loadSecrets
    <3>2. building' = [rest EXCEPT !.cfg["apiKey"] = store]
      BY <3>1
    <3> HIDE DEF rest, e
    <3>3. store \in KeyCaches /\ KeysInScope(store) /\ OneKey(store)
          /\ \A n \in Names : KeyCurrent(store, n)
      BY <3>1, LoadAPIKeys
    <3>4. building' \in Buildings /\ building'.todo = <<"mtls">> /\ building'.cfg.apiKey = store
          /\ building'.cfg.mtls = building.cfg.mtls
      BY <1>2, <3>1, <3>2, <3>3 DEF Buildings, Configs, KeyCaches
    <3>5. SoundCaches(building'.cfg)
      BY <1>6, <3>3, <3>4 DEF SoundCaches
    <3>6. BuildingInv'
      BY <1>1, <3>3, <3>4, Todo DEF BuildingInv, CertsLeft, managed, KeyCurrent, listed
    <3> QED
      BY <1>4, <1>5, <3>4, <3>5, <3>6 DEF TypeOK
  <2>2. CASE building.todo = <<"mtls">>
    <3>1. e = "mtls" /\ rest.todo = <<>> /\ store \in loadCerts
      BY <1>2, <2>2, Todo DEF loadSecrets
    <3>2. building' = [rest EXCEPT !.cfg["mtls"] = store]
      BY <3>1
    <3> HIDE DEF rest, e
    <3>3. store \in CertCaches /\ CertsInScope(store) /\ \A n \in Names : CertCurrent(store, n)
      BY <3>1, LoadCerts
    <3>4. building' \in Buildings /\ building'.todo = <<>> /\ building'.cfg.mtls = store
          /\ building'.cfg.apiKey = building.cfg.apiKey
      BY <1>2, <3>1, <3>2, <3>3 DEF Buildings, Configs, CertCaches
    <3>5. SoundCaches(building'.cfg)
      BY <1>6, <3>3, <3>4 DEF SoundCaches
    <3>6. ASSUME NEW n \in managed \ missed
          PROVE  KeyCurrent(building.cfg.apiKey, n)' \/ Pending(n)'
      <4>1. KeyCurrent(building.cfg.apiKey, n) \/ Pending(n)
        BY <1>1, <2>2, Todo DEF BuildingInv, KeysLeft
      <4> QED
        BY <1>1, <3>4, <4>1 DEF KeyCurrent, Pending, listed
    <3>7. ASSUME NEW n \in managed \ missed
          PROVE  CertCurrent(building.cfg.mtls, n)'
      BY <1>1, <3>3, <3>4 DEF CertCurrent, managed, listed
    <3>8. BuildingInv'
      BY <3>6, <3>7 DEF BuildingInv
    <3> QED
      BY <1>4, <1>5, <3>4, <3>5, <3>8 DEF TypeOK
  <2> QED
    BY <1>1, <2>1, <2>2
<1> QED
  BY <1>3, <1>7, <1>8

LEMMA LinkAuthConfigInv ==
  ASSUME SecretsInv, LinkAuthConfig
  PROVE  SecretsInv'
<1> USE DEF SecretsInv
<1>1. /\ building # None /\ building.todo = <<>> /\ building \in Buildings
      /\ indexed' = building.cfg /\ building' = None
      /\ UNCHANGED <<secret, changes, queue, missed>>
  BY DEF LinkAuthConfig, TypeOK
<1>2. /\ job' \in [name: Names \cup {None}, object: Objects \cup {None}, listed: BOOLEAN,
                   todo: {<<>>, <<"mtls">>, IdentityConfigs}]
      /\ job'.name = job.name /\ job'.object = job.object /\ job'.todo = job.todo
      /\ job'.listed = FALSE
  BY DEF LinkAuthConfig, TypeOK
<1>3. TypeOK'
  BY <1>1, <1>2 DEF TypeOK, Buildings
<1>4. ObjectsInv' /\ JobInv'
  BY <1>1, <1>2 DEF ObjectsInv, JobInv
<1>5. CachesInv'
  BY <1>1 DEF CachesInv
<1>6. BuildingInv'
  BY <1>1 DEF BuildingInv
<1>7. IndexedInv'
  <2> SUFFICES ASSUME NEW n \in managed \ missed
               PROVE  /\ KeyCurrent(indexed.apiKey, n)' \/ Pending(n)'
                      /\ CertCurrent(indexed.mtls, n)' \/ Pending(n)'
    BY <1>1 DEF IndexedInv
  <2>1. /\ KeyCurrent(building.cfg.apiKey, n) \/ Pending(n)
        /\ CertCurrent(building.cfg.mtls, n) \/ Pending(n)
    BY <1>1, Todo DEF BuildingInv, KeysLeft, CertsLeft
  <2> QED
    BY <1>1, <1>2, <2>1 DEF Pending, KeyCurrent, CertCurrent, listed
<1> QED
  BY <1>3, <1>4, <1>5, <1>6, <1>7

LEMMA DeleteAuthConfigInv ==
  ASSUME SecretsInv, DeleteAuthConfig
  PROVE  SecretsInv'
<1> USE DEF SecretsInv
<1>1. /\ building = None /\ indexed' = None
      /\ UNCHANGED <<secret, changes, queue, building, missed>>
  BY DEF DeleteAuthConfig
<1>2. /\ job' \in [name: Names \cup {None}, object: Objects \cup {None}, listed: BOOLEAN,
                   todo: {<<>>, <<"mtls">>, IdentityConfigs}]
      /\ job'.name = job.name /\ job'.object = job.object /\ job'.todo = job.todo
      /\ job'.listed = FALSE
  BY DEF DeleteAuthConfig, TypeOK
<1>3. TypeOK'
  BY <1>1, <1>2 DEF TypeOK
<1>4. ObjectsInv' /\ JobInv'
  BY <1>1, <1>2 DEF ObjectsInv, JobInv
<1>5. CachesInv' /\ BuildingInv' /\ IndexedInv'
  BY <1>1 DEF CachesInv, BuildingInv, IndexedInv
<1> QED
  BY <1>3, <1>4, <1>5

----------------------------------------------------------------------------
(***************************************************************************)
(* The controller of Secrets.                                              *)
(***************************************************************************)
LEMMA GetSecretInv ==
  ASSUME SecretsInv, NEW n \in Names, GetSecret(n)
  PROVE  SecretsInv'
<1> USE DEF SecretsInv
<1>1. /\ job = noJob /\ queue' = queue \ {n}
      /\ UNCHANGED <<secret, changes, building, indexed, missed>>
      /\ job' = [name |-> n, object |-> IF Watched(n) THEN secret[n] ELSE None,
                 listed |-> FALSE, todo |-> <<>>]
  BY DEF GetSecret, noJob
<1>2. job.name = None /\ None \notin Names
  BY <1>1, SecretsNoneAssumption DEF noJob
<1>3. TypeOK'
  BY <1>1 DEF TypeOK
<1>4. ObjectsInv'
  BY <1>1 DEF ObjectsInv
<1>5. CachesInv'
  BY <1>1 DEF CachesInv
<1>6. JobInv'
  BY <1>1, ManagedIsWatched DEF JobInv
<1>7. \A m \in managed : Pending(m) => Pending(m)'
  BY <1>1, <1>2 DEF Pending, managed
<1>8. BuildingInv'
  BY <1>1, <1>7 DEF BuildingInv, KeyCurrent, CertCurrent, listed
<1>9. IndexedInv'
  <2> SUFFICES ASSUME building = None, indexed # None, NEW m \in managed \ missed
               PROVE  /\ KeyCurrent(indexed.apiKey, m)' \/ Pending(m)'
                      /\ CertCurrent(indexed.mtls, m)' \/ Pending(m)'
    BY <1>1 DEF IndexedInv
  <2>1. job.name # m
    BY <1>2 DEF managed
  <2>2. /\ KeyCurrent(indexed.apiKey, m) \/ Pending(m)
        /\ CertCurrent(indexed.mtls, m) \/ Pending(m)
    BY <2>1 DEF IndexedInv
  <2> QED
    BY <1>1, <1>7, <2>2 DEF KeyCurrent, CertCurrent, listed
<1> QED
  BY <1>3, <1>4, <1>5, <1>6, <1>8, <1>9

LEMMA ListAuthConfigsInv ==
  ASSUME SecretsInv, ListAuthConfigs
  PROVE  SecretsInv'
<1> USE DEF SecretsInv
<1>1. /\ job.name # None /\ job.name \in Names /\ job.todo = <<>>
      /\ UNCHANGED <<secret, changes, queue, building, indexed>>
      /\ missed' = IF building # None THEN missed \cup {job.name} ELSE missed
  BY DEF ListAuthConfigs, TypeOK
<1>2. /\ job' \in [name: Names \cup {None}, object: Objects \cup {None}, listed: BOOLEAN,
                   todo: {<<>>, <<"mtls">>, IdentityConfigs}]
      /\ job'.name = job.name /\ job'.object = job.object /\ job'.todo = IdentityConfigs
      /\ job'.listed = (indexed # None)
  BY DEF ListAuthConfigs, TypeOK
<1>3. TypeOK'
  BY <1>1, <1>2 DEF TypeOK
<1>4. ObjectsInv' /\ JobInv' /\ CachesInv'
  BY <1>1, <1>2 DEF ObjectsInv, JobInv, CachesInv
<1>5. \A m : m # job.name => (Pending(m)' <=> Pending(m))
  BY <1>1, <1>2 DEF Pending
<1>6. BuildingInv'
  <2> SUFFICES ASSUME building # None
               PROVE  \A m \in (managed \ missed)' : m \in managed \ missed /\ m # job.name
    BY <1>1, <1>5 DEF BuildingInv, KeyCurrent, CertCurrent, listed
  <2> QED
    BY <1>1
<1>7. IndexedInv'
  <2> SUFFICES ASSUME building = None, indexed # None, NEW m \in managed \ missed
               PROVE  LET told == (job.name = m /\ job.listed)'
                      IN  /\ \/ KeyCurrent(indexed.apiKey, m)' \/ Pending(m)'
                             \/ told /\ KeysLeft(job.todo)'
                          /\ \/ CertCurrent(indexed.mtls, m)' \/ Pending(m)'
                             \/ told /\ CertsLeft(job.todo)'
    BY <1>1 DEF IndexedInv
  <2>1. CASE m = job.name
    BY <1>2, <2>1, Todo DEF KeysLeft, CertsLeft
  <2>2. CASE m # job.name
    <3>1. /\ KeyCurrent(indexed.apiKey, m) \/ Pending(m)
          /\ CertCurrent(indexed.mtls, m) \/ Pending(m)
      BY <2>2 DEF IndexedInv
    <3> QED
      BY <1>1, <1>5, <2>2, <3>1 DEF KeyCurrent, CertCurrent, listed
  <2> QED
    BY <2>1, <2>2
<1> QED
  BY <1>3, <1>4, <1>6, <1>7

(***************************************************************************)
(* What RefreshIdentity does to the job: the first evaluator of its list   *)
(* is done.                                                                *)
(***************************************************************************)
LEMMA RefreshedJob ==
  ASSUME SecretsInv, RefreshIdentity
  PROVE  /\ job.name \in Names /\ job.name # None
         /\ job.todo \in {<<"mtls">>, IdentityConfigs}
         /\ job.todo = IdentityConfigs => job' = [job EXCEPT !.todo = <<"mtls">>]
         /\ job.todo = <<"mtls">> => job' = noJob
         /\ UNCHANGED <<secret, changes, queue, building, missed>>
         /\ \A m \in Names : Pending(m)' <=> Pending(m)
<1>1. job.todo \in {<<"mtls">>, IdentityConfigs} /\ job.name \in Names /\ job.name # None
  BY DEF SecretsInv, TypeOK, ObjectsInv, RefreshIdentity
<1>2. /\ job.todo = IdentityConfigs => job' = [job EXCEPT !.todo = <<"mtls">>]
      /\ job.todo = <<"mtls">> => job' = noJob
      /\ UNCHANGED <<secret, changes, queue, building, missed>>
  BY Todo DEF RefreshIdentity
<1>3. job.todo # <<>>
  BY DEF RefreshIdentity
<1>4. job'.todo = <<>> => job'.name = None
  <2>1. CASE job.todo = IdentityConfigs
    <3>1. job'.todo = <<"mtls">>
      BY <1>2, <2>1 DEF SecretsInv, TypeOK
    <3> QED
      BY <3>1, Todo
  <2>2. CASE job.todo = <<"mtls">>
    BY <1>2, <2>2 DEF noJob
  <2> QED
    BY <1>1, <2>1, <2>2
<1>5. \A m \in Names : Pending(m)' <=> Pending(m)
  BY <1>2, <1>3, <1>4, SecretsNoneAssumption DEF Pending
<1> QED
  BY <1>1, <1>2, <1>5

LEMMA RefreshedJobInv ==
  ASSUME SecretsInv, RefreshIdentity, indexed' \in Configs \cup {None},
         indexed' # None => SoundCaches(indexed)', job.listed => indexed' # None
  PROVE  TypeOK' /\ ObjectsInv' /\ CachesInv' /\ JobInv' /\ BuildingInv'
<1> USE DEF SecretsInv
<1>1. UNCHANGED <<secret, changes, queue, building, missed>>
  BY RefreshedJob
<1>2. /\ job' \in [name: Names \cup {None}, object: Objects \cup {None}, listed: BOOLEAN,
                   todo: {<<>>, <<"mtls">>, IdentityConfigs}]
      /\ job'.listed => job.listed
      /\ \/ job'.name = None /\ job'.todo = <<>>
         \/ job'.name = job.name /\ job'.object = job.object
  <2>1. CASE job.todo = IdentityConfigs
    BY <2>1, RefreshedJob DEF TypeOK
  <2>2. CASE job.todo = <<"mtls">>
    <3>1. job' = noJob
      BY <2>2, RefreshedJob
    <3> QED
      BY <3>1 DEF noJob
  <2> QED
    BY <2>1, <2>2, RefreshedJob
<1>3. TypeOK'
  BY <1>1, <1>2 DEF TypeOK
<1>4. ObjectsInv'
  BY <1>1, <1>2, RefreshedJob DEF ObjectsInv
<1>5. CachesInv'
  BY <1>1 DEF CachesInv
<1>6. JobInv'
  BY <1>1, <1>2, SecretsNoneAssumption DEF JobInv, managed
<1>7. BuildingInv'
  BY <1>1, RefreshedJob DEF BuildingInv, KeyCurrent, CertCurrent, listed, managed
<1> QED
  BY <1>3, <1>4, <1>5, <1>6, <1>7

(***************************************************************************)
(* An evaluator that the job was to refresh and has refreshed is current,  *)
(* or the Secret has changed since it was read and is in the queue.        *)
(***************************************************************************)
LEMMA RefreshIdentityInv ==
  ASSUME SecretsInv, RefreshIdentity
  PROVE  SecretsInv'
<1> USE DEF SecretsInv
<1>1. /\ job.name \in Names /\ job.name # None /\ job.todo \in {<<"mtls">>, IdentityConfigs}
      /\ UNCHANGED <<secret, changes, queue, building, missed>>
      /\ \A m \in Names : Pending(m)' <=> Pending(m)
  BY RefreshedJob
<1>2. \A m \in managed : m \in Names
  BY DEF managed
<1>3. \A m \in managed : m = job.name /\ ~Pending(m) => job.object = secret[m]
  BY DEF JobInv, Pending
<1>4. CASE ~job.listed
  <2>1. UNCHANGED indexed
    BY <1>4 DEF RefreshIdentity
  <2>2. IndexedInv'
    BY <1>1, <1>2, <1>4, <2>1 DEF IndexedInv, KeyCurrent, CertCurrent, listed
  <2> QED
    BY <1>4, <2>1, <2>2, RefreshedJobInv DEF TypeOK, CachesInv
<1>5. CASE job.listed /\ job.todo = IdentityConfigs
  <2>1. indexed \in Configs /\ SoundCaches(indexed)
    BY <1>5 DEF TypeOK, CachesInv
  <2>2. PICK store \in refresh("apiKey", indexed.apiKey) : indexed' = [indexed EXCEPT !["apiKey"] = store]
    <3>1. PICK store \in refresh(Head(job.todo), indexed[Head(job.todo)]) :
            indexed' = [indexed EXCEPT ![Head(job.todo)] = store]
      BY <1>5 DEF RefreshIdentity
    <3>2. Head(job.todo) = "apiKey"
      BY <1>5, Todo
    <3> QED
      BY <3>1, <3>2
  <2>3. /\ store \in KeyCaches /\ KeysInScope(store) /\ OneKey(store)
        /\ \A m \in Names : m # job.name /\ KeyCurrent(indexed.apiKey, m) => KeyCurrent(store, m)
        /\ job.object = secret[job.name] => KeyCurrent(store, job.name)
    BY <1>1, <2>1, <2>2, RefreshKeys DEF Configs, KeyCaches, SoundCaches
  <2>4. indexed' \in Configs /\ indexed'.apiKey = store /\ indexed'.mtls = indexed.mtls
    BY <2>1, <2>2, <2>3 DEF Configs, KeyCaches
  <2>5. SoundCaches(indexed)' /\ indexed' # None
    BY <2>1, <2>3, <2>4, NoneIsNoConfig DEF SoundCaches
  <2>6. job'.name = job.name /\ job'.listed = job.listed /\ job'.todo = <<"mtls">>
    BY <1>5, RefreshedJob DEF TypeOK
  <2>7. ASSUME building = None, NEW m \in managed \ missed
        PROVE  /\ KeyCurrent(indexed.apiKey, m)' \/ Pending(m)'
               /\ CertCurrent(indexed.mtls, m)' \/ Pending(m)' \/ (job.name = m)'
    <3>1. KeyCurrent(store, m) \/ Pending(m)
      BY <1>2, <1>3, <1>5, <2>1, <2>3, <2>7, NoneIsNoConfig DEF IndexedInv
    <3>2. CertCurrent(indexed.mtls, m) \/ Pending(m) \/ job.name = m
      BY <2>1, <2>7, NoneIsNoConfig DEF IndexedInv
    <3> QED
      BY <1>1, <1>2, <2>4, <2>6, <3>1, <3>2 DEF KeyCurrent, CertCurrent, listed
  <2>8. IndexedInv'
    BY <1>1, <1>5, <2>6, <2>7, Todo DEF IndexedInv, CertsLeft
  <2> QED
    BY <2>4, <2>5, <2>8, RefreshedJobInv
<1>6. CASE job.listed /\ job.todo = <<"mtls">>
  <2>1. indexed \in Configs /\ SoundCaches(indexed)
    BY <1>6 DEF TypeOK, CachesInv
  <2>2. PICK store \in refresh("mtls", indexed.mtls) : indexed' = [indexed EXCEPT !["mtls"] = store]
    <3>1. PICK store \in refresh(Head(job.todo), indexed[Head(job.todo)]) :
            indexed' = [indexed EXCEPT ![Head(job.todo)] = store]
      BY <1>6 DEF RefreshIdentity
    <3>2. Head(job.todo) = "mtls"
      BY <1>6, Todo
    <3> QED
      BY <3>1, <3>2
  <2>3. /\ store \in CertCaches /\ CertsInScope(store)
        /\ \A m \in Names : m # job.name /\ CertCurrent(indexed.mtls, m) => CertCurrent(store, m)
        /\ job.object = secret[job.name] => CertCurrent(store, job.name)
    BY <1>1, <2>1, <2>2, RefreshCerts DEF Configs, CertCaches, SoundCaches
  <2>4. indexed' \in Configs /\ indexed'.mtls = store /\ indexed'.apiKey = indexed.apiKey
    BY <2>1, <2>2, <2>3 DEF Configs, CertCaches
  <2>5. SoundCaches(indexed)' /\ indexed' # None
    BY <2>1, <2>3, <2>4, NoneIsNoConfig DEF SoundCaches
  <2>6. ASSUME building = None, NEW m \in managed \ missed
        PROVE  /\ KeyCurrent(indexed.apiKey, m)' \/ Pending(m)'
               /\ CertCurrent(indexed.mtls, m)' \/ Pending(m)'
    <3>1. KeyCurrent(indexed.apiKey, m) \/ Pending(m)
      BY <1>6, <2>1, <2>6, Todo, NoneIsNoConfig DEF IndexedInv, KeysLeft
    <3>2. CertCurrent(store, m) \/ Pending(m)
      BY <1>2, <1>3, <2>1, <2>3, <2>6, NoneIsNoConfig DEF IndexedInv
    <3> QED
      BY <1>1, <1>2, <2>4, <3>1, <3>2 DEF KeyCurrent, CertCurrent, listed
  <2>7. IndexedInv'
    BY <1>1, <2>6 DEF IndexedInv
  <2> QED
    BY <2>4, <2>5, <2>7, RefreshedJobInv
<1> QED
  BY <1>1, <1>4, <1>5, <1>6

----------------------------------------------------------------------------
LEMMA NextInv ==
  ASSUME SecretsInv, [Next]_vars
  PROVE  SecretsInv'
<1>1. CASE Environment
  BY <1>1, ChangeInv, ResyncInv DEF Environment
<1>2. CASE TranslateAuthConfig
  BY <1>2, TranslateAuthConfigInv
<1>3. CASE NewIdentity
  BY <1>3, NewIdentityInv
<1>4. CASE LinkAuthConfig
  BY <1>4, LinkAuthConfigInv
<1>5. CASE DeleteAuthConfig
  BY <1>5, DeleteAuthConfigInv
<1>6. CASE \E n \in Names : GetSecret(n)
  BY <1>6, GetSecretInv
<1>7. CASE ListAuthConfigs
  BY <1>7, ListAuthConfigsInv
<1>8. CASE RefreshIdentity
  BY <1>8, RefreshIdentityInv
<1>9. CASE UNCHANGED vars
  <2>1. TypeOK' /\ ObjectsInv' /\ CachesInv' /\ JobInv'
    BY <1>9 DEF vars, SecretsInv, TypeOK, ObjectsInv, CachesInv, JobInv
  <2>2. BuildingInv' /\ IndexedInv'
    BY <1>9 DEF vars, SecretsInv, BuildingInv, IndexedInv, Pending, KeyCurrent, CertCurrent, listed
  <2> QED
    BY <2>1, <2>2 DEF SecretsInv
<1> QED
  BY <1>1, <1>2, <1>3, <1>4, <1>5, <1>6, <1>7, <1>8, <1>9
     DEF Next, ReconcileAuthConfig, ReconcileSecret

LEMMA SecretsInvariance == Spec => []SecretsInv
<1>1. SecretsInv /\ [Next]_vars => SecretsInv'
  BY NextInv
<1> QED
  BY <1>1, InitInv, PTL DEF Spec

(***************************************************************************)
(* No Secret is ever behind two API keys of an evaluator, so that the code *)
(* may stop at the first entry with the name of the Secret                 *)
(* (AddK8sSecretBasedIdentity, RevokeK8sSecretBasedIdentity).              *)
(***************************************************************************)
THEOREM OneKeyForEachSecret == Spec => []OneKeyPerSecret
<1>1. SecretsInv => OneKeyPerSecret
  BY DEF SecretsInv, CachesInv, SoundCaches, OneKey, OneKeyPerSecret
<1> QED
  BY <1>1, SecretsInvariance, PTL

(***************************************************************************)
(* When nothing is left to do, the caches are current.                     *)
(***************************************************************************)
LEMMA SettledIsCurrent ==
  ASSUME SecretsInv, Settled, NEW n \in managed \ missed
  PROVE  KeyCurrent(indexed.apiKey, n) /\ CertCurrent(indexed.mtls, n)
<1>1. ~Pending(n) /\ job.name # n
  BY SecretsNoneAssumption DEF Settled, noJob, Pending, managed
<1> QED
  BY <1>1 DEF SecretsInv, IndexedInv, Settled

(***************************************************************************)
(* Once both controllers are done, nothing of a Secret that was revoked,   *)
(* replaced or unlabelled is accepted, unless it was missed while the      *)
(* AuthConfig was being translated, whatever the order of changes, builds  *)
(* and refreshes (Reconcile of SecretReconciler).                          *)
(***************************************************************************)
THEOREM RevokedRefusedUnlessMissed == Spec => []RevokedIsRefusedUnlessMissed
<1>1. SecretsInv => RevokedIsRefusedUnlessMissed
  BY SettledIsCurrent DEF RevokedIsRefusedUnlessMissed, Current, KeyCurrent, CertCurrent
<1> QED
  BY <1>1, SecretsInvariance, PTL

(***************************************************************************)
(* Once both controllers are done, what is valid is accepted, in its       *)
(* latest version (AddK8sSecretBasedIdentity, loadSecrets).                *)
(***************************************************************************)
THEOREM ValidAccepted == Spec => []ValidIsAccepted
<1>1. SecretsInv => ValidIsAccepted
  BY SettledIsCurrent DEF ValidIsAccepted, KeyCurrent, CertCurrent
<1> QED
  BY <1>1, SecretsInvariance, PTL
=============================================================================
