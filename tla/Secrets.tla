------------------------------ MODULE Secrets ------------------------------
(***************************************************************************)
(* API keys and trusted CA certificates are kept in Kubernetes Secrets.    *)
(* An identity evaluator of an AuthConfig lists them when it is built, and *)
(* a controller of its own tells the evaluators of the configs that are in *)
(* the index of later changes (controllers/secret_controller.go,           *)
(* pkg/evaluators/identity/api_key.go and mtls.go).  The two controllers   *)
(* run side by side.                                                       *)
(*                                                                         *)
(* One AuthConfig, with an API key evaluator and an mTLS evaluator of the  *)
(* same selector and namespace: what happens to the evaluators of one      *)
(* AuthConfig does not depend on the others.                               *)
(***************************************************************************)
EXTENDS Sequences, Naturals, FiniteSets

CONSTANTS
  Names,       \* the names of the Secrets
  Keys,        \* values of API keys
  Certs,       \* valid CA certificates
  ObjectsOf,   \* the contents that users give each Secret
  InScope,     \* the Secrets in the namespace of the evaluators
  ListErrors,  \* whether listing the Secrets may fail
  MaxChanges,  \* bound on the changes of Secrets
  None

(***************************************************************************)
(* A Secret: its API key and the certificate decoded from it, None if it   *)
(* has no (valid) one, and whether its labels match the selector of the    *)
(* evaluators and the one of the Authorino instance.                       *)
(***************************************************************************)
Objects == [key: Keys \cup {None}, cert: Certs \cup {None}, selected: BOOLEAN, watched: BOOLEAN]

ASSUME ObjectsAssumption == ObjectsOf \in [Names -> SUBSET Objects]
ASSUME ScopeAssumption == InScope \subseteq Names
ASSUME SecretsNoneAssumption == None \notin Names \cup Keys \cup Certs \cup Objects
ASSUME BoundAssumption == MaxChanges \in Nat /\ ListErrors \in BOOLEAN

VARIABLES
  secret,   \* the Secrets in the cluster, as in the cache of the client
  changes,  \* the number of their changes so far
  queue,    \* the work queue of the controller of Secrets
  job,      \* its call of Reconcile that is running
  building, \* the config being translated, None if there is none
  indexed,  \* the config in the index, None if there is none
  missed    \* the Secrets reconciled, or not listed, while a config was built

vars == <<secret, changes, queue, job, building, indexed, missed>>

Watched(n) == secret[n] # None /\ secret[n].watched

(***************************************************************************)
(* The identity evaluators of the config, in the order of its list, and    *)
(* their caches: the Secret behind each API key, the certificate of each   *)
(* Secret.                                                                 *)
(***************************************************************************)
IdentityConfigs == <<"apiKey", "mtls">>

NewConfig == [apiKey |-> [k \in Keys |-> None], mtls |-> [n \in Names |-> None]]

Configs == [apiKey: [Keys -> Names \cup {None}], mtls: [Names -> Certs \cup {None}]]

Buildings == [cfg: Configs, todo: {<<>>, <<"mtls">>, IdentityConfigs}]

ASSUME NoneIsNoConfig == None \notin Configs \cup Buildings

noJob == [name |-> None, object |-> None, listed |-> FALSE, todo |-> <<>>]

Init ==
  /\ secret = [n \in Names |-> None]
  /\ changes = 0
  /\ queue = {}
  /\ job = noJob
  /\ building = None
  /\ indexed = None
  /\ missed = {}

----------------------------------------------------------------------------
(***************************************************************************)
(* The Secrets of the cluster.  LabelSelectorPredicate lets an event       *)
(* through when the Secret is watched before or after the change.          *)
(***************************************************************************)
Change(n, object) ==
  /\ changes < MaxChanges
  /\ changes' = changes + 1
  /\ secret[n] # object
  /\ secret' = [secret EXCEPT ![n] = object]
  /\ queue' = IF Watched(n) \/ (object # None /\ object.watched) THEN queue \cup {n} ELSE queue
  /\ UNCHANGED <<job, building, indexed, missed>>

Resync(n) ==
  /\ Watched(n)
  /\ n \notin queue
  /\ queue' = queue \cup {n}
  /\ UNCHANGED <<secret, changes, job, building, indexed, missed>>

----------------------------------------------------------------------------
(***************************************************************************)
(* The controller of AuthConfigs builds the evaluators one by one, each of *)
(* which lists the Secrets of its selector and namespace, and then puts    *)
(* the config in the index, in the place of the one before.                *)
(***************************************************************************)
listed(n) == n \in InScope /\ secret[n] # None /\ secret[n].selected

(***************************************************************************)
(* Mutant: the evaluators of the config that is replaced are used again.   *)
(***************************************************************************)
TranslateReusing ==
  /\ building = None
  /\ building' = IF indexed = None THEN [cfg |-> NewConfig, todo |-> IdentityConfigs]
                 ELSE [cfg |-> indexed, todo |-> <<>>]
  /\ missed' = {}
  /\ UNCHANGED <<secret, changes, queue, job, indexed>>

TranslateAuthConfig ==
  /\ building = None
  /\ building' = [cfg |-> NewConfig, todo |-> IdentityConfigs]
  /\ missed' = {}
  /\ UNCHANGED <<secret, changes, queue, job, indexed>>

(***************************************************************************)
(* What loadSecrets leaves in the caches.  Of several Secrets with the     *)
(* same API key the one listed last stays.                                 *)
(***************************************************************************)
loadAPIKeys ==
  {cache \in [Keys -> Names \cup {None}] :
     \A k \in Keys :
       LET ns == {n \in Names : listed(n) /\ secret[n].key = k}
       IN  IF ns = {} THEN cache[k] = None ELSE cache[k] \in ns}

loadCerts == {[n \in Names |-> IF listed(n) THEN secret[n].cert ELSE None]}

loadSecrets(e) == IF e = "apiKey" THEN loadAPIKeys ELSE loadCerts

(***************************************************************************)
(* NewApiKeyIdentity, NewMTLSIdentity: when the list cannot be had, this   *)
(* is logged and the evaluator goes without.                               *)
(***************************************************************************)
ListSecrets(e) ==
  /\ building # None
  /\ building.todo # <<>>
  /\ e = Head(building.todo)
  /\ \E cache \in loadSecrets(e) :
       building' = [building EXCEPT !.todo = Tail(@), !.cfg[e] = cache]
  /\ UNCHANGED <<secret, changes, queue, job, indexed, missed>>

ListFails ==
  /\ ListErrors
  /\ building # None
  /\ building.todo # <<>>
  /\ building' = [building EXCEPT !.todo = Tail(@)]
  /\ missed' = Names
  /\ UNCHANGED <<secret, changes, queue, job, indexed>>

NewIdentity == ListFails \/ \E e \in {"apiKey", "mtls"} : ListSecrets(e)

LinkAuthConfig ==
  /\ building # None
  /\ building.todo = <<>>
  /\ indexed' = building.cfg
  /\ building' = None
  /\ job' = [job EXCEPT !.listed = FALSE]
  /\ UNCHANGED <<secret, changes, queue, missed>>

DeleteAuthConfig ==
  /\ building = None
  /\ indexed # None
  /\ indexed' = None
  /\ job' = [job EXCEPT !.listed = FALSE]
  /\ UNCHANGED <<secret, changes, queue, building, missed>>

----------------------------------------------------------------------------
(***************************************************************************)
(* The controller of Secrets.  Reconcile reads the Secret, lists the       *)
(* configs of the index, and then goes through their identity evaluators;  *)
(* job.listed is whether the config listed is still the one in the index.  *)
(* A Secret that is not watched is dealt with as one that is not found.    *)
(***************************************************************************)
GetSecret(n) ==
  /\ job = noJob
  /\ n \in queue
  /\ queue' = queue \ {n}
  /\ job' = [noJob EXCEPT !.name = n, !.object = IF Watched(n) THEN secret[n] ELSE None]
  /\ UNCHANGED <<secret, changes, building, indexed, missed>>

ListAuthConfigs ==
  /\ job.name # None
  /\ job.todo = <<>>
  /\ job' = [job EXCEPT !.listed = indexed # None, !.todo = IdentityConfigs]
  /\ missed' = IF building # None THEN missed \cup {job.name} ELSE missed
  /\ UNCHANGED <<secret, changes, queue, building, indexed>>

(***************************************************************************)
(* AddK8sSecretBasedIdentity and RevokeK8sSecretBasedIdentity of the two   *)
(* kinds of evaluators.  Those of API keys stop at the first entry, in the *)
(* order of a Go map, that has the name of the Secret.                     *)
(***************************************************************************)
withinScope(n) == n \in InScope

keysOf(cache, n) == {k \in Keys : cache[k] = n}

append(cache, n, object) ==
  IF object.key = None THEN cache ELSE [cache EXCEPT ![object.key] = n]

(***************************************************************************)
(* Mutant: the API key that is replaced stays.                             *)
(***************************************************************************)
updateKeepingOld(cache, n, object, old) == append(cache, n, object)

update(cache, n, object, old) ==
  IF old = object.key THEN cache ELSE [append(cache, n, object) EXCEPT ![old] = None]

AddAPIKey(cache, n, object) ==
  IF ~withinScope(n) THEN {cache}
  ELSE IF keysOf(cache, n) = {} THEN {append(cache, n, object)}
  ELSE {update(cache, n, object, old) : old \in keysOf(cache, n)}

RevokeAPIKey(cache, n) ==
  IF ~withinScope(n) \/ keysOf(cache, n) = {} THEN {cache}
  ELSE {[cache EXCEPT ![old] = None] : old \in keysOf(cache, n)}

(***************************************************************************)
(* Mutant: a certificate that is known is not replaced.                    *)
(***************************************************************************)
AddCertOnce(cache, n, object) ==
  IF withinScope(n) /\ object.cert # None /\ cache[n] = None
  THEN {[cache EXCEPT ![n] = object.cert]} ELSE {cache}

AddCert(cache, n, object) ==
  IF withinScope(n) /\ object.cert # None THEN {[cache EXCEPT ![n] = object.cert]} ELSE {cache}

RevokeCert(cache, n) == IF withinScope(n) THEN {[cache EXCEPT ![n] = None]} ELSE {cache}

(***************************************************************************)
(* Mutant: the Secret is added whatever its labels.                        *)
(***************************************************************************)
refreshAnyLabels(e, cache) ==
  IF e = "apiKey"
  THEN IF job.object # None THEN AddAPIKey(cache, job.name, job.object)
       ELSE RevokeAPIKey(cache, job.name)
  ELSE IF job.object # None THEN AddCert(cache, job.name, job.object)
       ELSE RevokeCert(cache, job.name)

refresh(e, cache) ==
  LET add == job.object # None /\ job.object.selected
  IN  IF e = "apiKey"
      THEN IF add THEN AddAPIKey(cache, job.name, job.object) ELSE RevokeAPIKey(cache, job.name)
      ELSE IF add THEN AddCert(cache, job.name, job.object) ELSE RevokeCert(cache, job.name)

RefreshIdentity ==
  LET e == Head(job.todo)
      rest == Tail(job.todo)
  IN  /\ job.todo # <<>>
      /\ \/ /\ job.listed
            /\ \E cache \in refresh(e, indexed[e]) : indexed' = [indexed EXCEPT ![e] = cache]
         \/ /\ ~job.listed
            /\ UNCHANGED indexed
      /\ job' = IF rest = <<>> THEN noJob ELSE [job EXCEPT !.todo = rest]
      /\ UNCHANGED <<secret, changes, queue, building, missed>>

----------------------------------------------------------------------------
ReconcileAuthConfig ==
  TranslateAuthConfig \/ NewIdentity \/ LinkAuthConfig \/ DeleteAuthConfig

ReconcileSecret == (\E n \in Names : GetSecret(n)) \/ ListAuthConfigs \/ RefreshIdentity

Environment ==
  \E n \in Names : (\E object \in ObjectsOf[n] \cup {None} : Change(n, object)) \/ Resync(n)

Next == ReconcileAuthConfig \/ ReconcileSecret \/ Environment

Spec == Init /\ [][Next]_vars
----------------------------------------------------------------------------
(***************************************************************************)
(* The variables have their types, and a call of Reconcile that has listed *)
(* the config of the index still finds it there (SecretReconciler).        *)
(***************************************************************************)
TypeOK ==
  /\ secret \in [Names -> Objects \cup {None}]
  /\ changes \in 0..MaxChanges
  /\ queue \subseteq Names
  /\ job \in [name: Names \cup {None}, object: Objects \cup {None}, listed: BOOLEAN,
              todo: {<<>>, <<"mtls">>, IdentityConfigs}]
  /\ job.listed => indexed # None
  /\ building \in Buildings \cup {None}
  /\ indexed \in Configs \cup {None}
  /\ missed \subseteq Names

(***************************************************************************)
(* No Secret is behind two API keys of an evaluator: the code looks for    *)
(* the entry of a Secret and stops at the first one, so that a second one  *)
(* would outlive the Secret (AddK8sSecretBasedIdentity, loadSecrets).      *)
(***************************************************************************)
OneKeyPerSecret ==
  \A cfg \in {indexed, IF building = None THEN None ELSE building.cfg} \ {None} :
    \A j, k \in Keys : cfg.apiKey[j] # None /\ cfg.apiKey[j] = cfg.apiKey[k] => j = k

(***************************************************************************)
(* Nothing is left to do for either controller.                            *)
(***************************************************************************)
Settled == indexed # None /\ building = None /\ job = noJob /\ queue = {}

(***************************************************************************)
(* The Secrets that were watched in all that happened to them; the changes *)
(* of others are not noticed, which the documentation says.                *)
(***************************************************************************)
managed == {n \in Names : \A object \in ObjectsOf[n] : object.watched}

Current(n) ==
  /\ \A k \in Keys : indexed.apiKey[k] = n => listed(n) /\ secret[n].key = k
  /\ indexed.mtls[n] # None => listed(n)

(***************************************************************************)
(* When both controllers are done, an API key that is accepted is the one  *)
(* of an existing Secret with the right labels, and a CA that is trusted   *)
(* belongs to such a Secret: keys that were revoked, replaced or           *)
(* unlabelled are gone (Reconcile, refreshK8sSecretBasedIdentity).         *)
(***************************************************************************)
RevokedIsRefused == Settled => \A n \in managed : Current(n)

(***************************************************************************)
(* The same, of all Secrets but those that were reconciled while the       *)
(* AuthConfig was being translated: these are in neither the list of the   *)
(* evaluator nor told to it.                                               *)
(***************************************************************************)
RevokedIsRefusedUnlessMissed == Settled => \A n \in managed \ missed : Current(n)

unshared(n, k) == \A m \in InScope \ {n} : \A object \in ObjectsOf[m] : object.key # k

(***************************************************************************)
(* When both controllers are done, an API key that no other Secret ever    *)
(* has is accepted for its Secret, and a valid certificate is trusted in   *)
(* its latest version (AddK8sSecretBasedIdentity, loadSecrets).            *)
(***************************************************************************)
ValidIsAccepted ==
  Settled => \A n \in managed \ missed :
    listed(n) =>
      /\ secret[n].key # None /\ unshared(n, secret[n].key) => indexed.apiKey[secret[n].key] = n
      /\ secret[n].cert # None => indexed.mtls[n] = secret[n].cert

----------------------------------------------------------------------------
(***************************************************************************)
(* Fairness: the AuthConfig is translated anew at each resync, and listing *)
(* the Secrets does not fail for ever.                                     *)
(***************************************************************************)
FairSpec ==
  /\ Spec
  /\ WF_vars(TranslateAuthConfig) /\ WF_vars(LinkAuthConfig)
  /\ \A e \in {"apiKey", "mtls"} : SF_vars(ListSecrets(e))

KeysAreThoseOfSecrets ==
  \A k \in Keys :
    LET having == {n \in Names : listed(n) /\ secret[n].key = k}
    IN  IF having = {} THEN indexed.apiKey[k] = None ELSE indexed.apiKey[k] \in having

CertsAreThoseOfSecrets ==
  \A n \in Names : indexed.mtls[n] = IF listed(n) THEN secret[n].cert ELSE None

(***************************************************************************)
(* Whatever was missed, and however often, the evaluators in the index     *)
(* again and again have the API keys and the CAs of the Secrets that there *)
(* are, neither more nor less, once these no longer change: also a key     *)
(* that two Secrets had, a CA that became invalid, and the Secrets that    *)
(* could not be listed.  The next translation of the AuthConfig lists them *)
(* anew (NewApiKeyIdentity, NewMTLSIdentity).                              *)
(***************************************************************************)
CachesCatchUp ==
  /\ []<>(indexed = None \/ KeysAreThoseOfSecrets)
  /\ []<>(indexed = None \/ CertsAreThoseOfSecrets)
=============================================================================
