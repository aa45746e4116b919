---------------------------- MODULE Translation ----------------------------
(***************************************************************************)
(* translateAuthConfig of controllers/auth_config_controller.go: from a    *)
(* v1beta1 spec to the evaluators of an AuthConfig, or Failed.  Whatever   *)
(* is looked up or built outside (secrets, label selectors, policies, UMA  *)
(* discovery, signing keys, the client of the cluster) is there, or is     *)
(* refused.                                                                *)
(***************************************************************************)
EXTENDS Patterns

Api == INSTANCE V1beta1

CONSTANTS
  SecretData,   \* the secrets of the namespace: a map of each one's data
  ClusterWide,  \* no namespace was given to the instance
  InCluster     \* the process runs in a pod, with a service account to call the cluster

Failed == Nil

EvaluatorDefaultCacheTTL == 60

DEFAULT_WRISTBAND_DURATION == 300

secretValue(ref) ==
  IF ref.key \in DOMAIN SecretData[ref.name] THEN SecretData[ref.name][ref.key] ELSE ""

secretMissing(name) == name \notin DOMAIN SecretData

refMissing(ref) == ref # Nil /\ secretMissing(ref.name)

sharedSecret(ref) == IF ref = Nil THEN "" ELSE secretValue(ref)

getJsonFromStaticDynamic(v) ==
  IF v = Nil THEN Nil ELSE [static |-> v.value, pattern |-> v.authJSON]

jsonProperties(list) ==
  [i \in DOMAIN list |->
    [name |-> list[i].name, value |-> [static |-> list[i].value, pattern |-> list[i].authJSON]]]

NewAuthCredential(c) ==
  [keySelector |-> IF c.keySelector = "" THEN "Bearer" ELSE c.keySelector,
   in |-> IF c.in = "" THEN "authorization_header" ELSE c.in]

(***************************************************************************)
(* The cache of an evaluator: a time-to-live of 0 is the default one.      *)
(***************************************************************************)
cacheOf(c) ==
  IF c = Nil THEN Nil
  ELSE [key |-> getJsonFromStaticDynamic(c.key),
        ttl |-> IF c.ttl = 0 THEN EvaluatorDefaultCacheTTL ELSE c.ttl]

evaluatorOf(spec, config, type, args) ==
  [name |-> config.name, priority |-> config.priority, metrics |-> config.metrics,
   conditions |-> buildJSONExpression(spec.patterns, config.conditions, "all"),
   cache |-> cacheOf(config.cache), type |-> type, args |-> args]

----------------------------------------------------------------------------
(***************************************************************************)
(* Identity.                                                               *)
(***************************************************************************)
namespaceOf(c) == IF c.allNamespaces /\ ClusterWide THEN "all" ELSE "own"

identityFails(identity) ==
  LET type == Api!IdentityGetType(identity)
      config == identity.method[type]
  IN  \/ type = "unknown"
      \/ type = "oauth2" /\ secretMissing(config.credentials)
      \/ type \in {"apiKey", "mtls"} /\ config.selector \in Refused
      \/ type = "kubernetes" /\ ~InCluster

translateIdentity(spec, identity) ==
  LET type == Api!IdentityGetType(identity)
      config == identity.method[type]
      own == [extendedProperties |->
                [i \in DOMAIN identity.own.extendedProperties |->
                   [overwrite |-> identity.own.extendedProperties[i].overwrite]
                   @@ jsonProperties(identity.own.extendedProperties)[i]],
              credentials |-> NewAuthCredential(identity.own.credentials)]
  IN  evaluatorOf(spec, identity, type,
        CASE type = "oauth2" -> own @@ [config |-> config, client |-> SecretData[config.credentials]]
          [] type = "apiKey" -> own @@ [selector |-> config.selector, namespace |-> namespaceOf(config)]
          [] type = "mtls" ->
               [extendedProperties |-> own.extendedProperties, selector |-> config.selector,
                namespace |-> namespaceOf(config)]
          [] type = "plain" ->
               [extendedProperties |-> own.extendedProperties, pattern |-> config.authJSON]
          [] type \in {"oidc", "kubernetes", "anonymous"} -> own @@ [config |-> config])

anonymousIdentity ==
  [name |-> "anonymous", priority |-> 0, metrics |-> FALSE, conditions |-> <<>>, cache |-> Nil,
   own |-> [credentials |-> [in |-> "", keySelector |-> ""], extendedProperties |-> <<>>],
   method |-> [anonymous |-> Unset]]

(***************************************************************************)
(* Mutant: the default is added to whatever identities there are.          *)
(***************************************************************************)
identitiesAndAnonymous(spec) == Append(spec.identity, anonymousIdentity)

(***************************************************************************)
(* A spec without identities is one of anonymous access.                   *)
(***************************************************************************)
identitiesOf(spec) == IF spec.identity = <<>> THEN <<anonymousIdentity>> ELSE spec.identity

----------------------------------------------------------------------------
(***************************************************************************)
(* Calls to HTTP endpoints, of metadata and of callbacks.                  *)
(***************************************************************************)
httpFails(http) ==
  \/ refMissing(http.sharedSecret)
  \/ http.oauth2 # Nil /\ secretMissing(http.oauth2.clientSecret.name)

buildGenericHttpEvaluator(http) ==
  [endpoint |-> http.endpoint,
   method |-> IF http.method = Nil THEN "GET" ELSE http.method,
   body |-> getJsonFromStaticDynamic(http.body),
   parameters |-> jsonProperties(http.parameters),
   headers |-> jsonProperties(http.headers),
   contentType |-> http.contentType,
   sharedSecret |-> sharedSecret(http.sharedSecret),
   oauth2 |-> IF http.oauth2 = Nil THEN Nil
              ELSE [config |-> [http.oauth2 EXCEPT !.cache = Nil],
                    clientSecret |-> secretValue(http.oauth2.clientSecret)],
   forceFetch |-> http.oauth2 # Nil /\ http.oauth2.cache = FALSE,
   credentials |->
     IF sharedSecret(http.sharedSecret) # "" \/ http.oauth2 # Nil
     THEN NewAuthCredential(http.credentials) ELSE Nil]

----------------------------------------------------------------------------
(***************************************************************************)
(* Metadata.                                                               *)
(***************************************************************************)
findIdentityConfigByName(spec, name) ==
  SelectInSeq(identitiesOf(spec), LAMBDA i : i.name = name)

metadataFails(spec, metadata) ==
  LET type == Api!MetadataGetType(metadata)
      config == metadata.method[type]
  IN  \/ type = "unknown"
      \/ type = "uma" /\ (secretMissing(config.credentials) \/ config.endpoint \in Refused)
      \/ type = "userInfo" /\ findIdentityConfigByName(spec, config.identitySource) = 0
      \/ type = "http" /\ httpFails(config)

translateMetadata(spec, metadata) ==
  LET type == Api!MetadataGetType(metadata)
      config == metadata.method[type]
  IN  evaluatorOf(spec, metadata, type,
        CASE type = "uma" -> [endpoint |-> config.endpoint, client |-> SecretData[config.credentials]]
          [] type = "userInfo" ->
               LET source == identitiesOf(spec)[findIdentityConfigByName(spec, config.identitySource)]
               IN  [oidc |-> IF Api!IdentityGetType(source) = "oidc" THEN source.name ELSE Nil]
          [] type = "http" -> buildGenericHttpEvaluator(config))

----------------------------------------------------------------------------
(***************************************************************************)
(* Authorization.  A policy is pulled from the registry when none is given *)
(* inline, and has to compile.                                             *)
(***************************************************************************)
pullFromRegistry(opa) == opa.inlineRego = "" /\ opa.externalRegistry.endpoint # ""

NewOPAFails(opa) ==
  IF pullFromRegistry(opa) THEN opa.externalRegistry.endpoint \in Refused
  ELSE opa.inlineRego \in Refused

authorizationFails(authorization) ==
  LET type == Api!AuthorizationGetType(authorization)
      config == authorization.method[type]
  IN  \/ type = "unknown"
      \/ type = "opa" /\ (refMissing(config.externalRegistry.sharedSecret) \/ NewOPAFails(config))
      \/ type = "kubernetes" /\ ~InCluster
      \/ type = "authzed" /\ refMissing(config.sharedSecret)

authzedObjectToJsonValues(obj) ==
  IF obj = Nil THEN Nil
  ELSE [name |-> getJsonFromStaticDynamic(obj.name), kind |-> getJsonFromStaticDynamic(obj.kind)]

translateAuthorization(spec, authorization) ==
  LET type == Api!AuthorizationGetType(authorization)
      config == authorization.method[type]
  IN  evaluatorOf(spec, authorization, type,
        CASE type = "opa" ->
               [rego |-> config.inlineRego, allValues |-> config.allValues,
                source |->
                  IF pullFromRegistry(config)
                  THEN [endpoint |-> config.externalRegistry.endpoint,
                        sharedSecret |-> sharedSecret(config.externalRegistry.sharedSecret),
                        credentials |-> NewAuthCredential(config.externalRegistry.credentials),
                        ttl |-> config.externalRegistry.ttl]
                  ELSE Nil]
          [] type = "json" -> [rules |-> buildJSONExpression(spec.patterns, config.rules, "all")]
          [] type = "kubernetes" ->
               [user |-> getJsonFromStaticDynamic(config.user), groups |-> config.groups,
                resourceAttributes |->
                  IF config.resourceAttributes = Nil THEN Nil
                  ELSE [a \in ResourceAttributes |->
                          getJsonFromStaticDynamic(config.resourceAttributes[a])]]
          [] type = "authzed" ->
               [endpoint |-> config.endpoint, insecure |-> config.insecure,
                sharedSecret |-> sharedSecret(config.sharedSecret),
                subject |-> authzedObjectToJsonValues(config.subject),
                resource |-> authzedObjectToJsonValues(config.resource),
                permission |-> getJsonFromStaticDynamic(config.permission)])

----------------------------------------------------------------------------
(***************************************************************************)
(* Responses, callbacks and denials.                                       *)
(***************************************************************************)
signingKeyFails(ref) == secretMissing(ref.name) \/ ref.algorithm \in Refused

responseFails(response) ==
  LET type == Api!ResponseGetType(response)
      config == response.method[type]
  IN  \/ type = "unknown"
      \/ type = "wristband" /\ \/ config.signingKeyRefs = <<>>
                               \/ \E i \in DOMAIN config.signingKeyRefs :
                                    signingKeyFails(config.signingKeyRefs[i])

translateResponse(spec, response) ==
  LET type == Api!ResponseGetType(response)
      config == response.method[type]
      wrapping == [wrapper |-> IF response.own.wrapper = "" THEN "httpHeader" ELSE response.own.wrapper,
                   wrapperKey |-> IF response.own.wrapperKey = "" THEN response.name
                                  ELSE response.own.wrapperKey]
  IN  evaluatorOf(spec, response, type, wrapping @@
        CASE type = "wristband" ->
               [issuer |-> config.issuer, customClaims |-> jsonProperties(config.customClaims),
                tokenDuration |-> IF config.tokenDuration = Nil THEN DEFAULT_WRISTBAND_DURATION
                                  ELSE config.tokenDuration,
                signingKeys |-> config.signingKeyRefs]
          [] type = "json" -> [properties |-> jsonProperties(config.properties)]
          [] type = "plain" -> [value |-> getJsonFromStaticDynamic(config)])

callbackFails(callback) ==
  \/ Api!CallbackGetType(callback) = "unknown"
  \/ httpFails(callback.method.http)

translateCallback(spec, callback) ==
  evaluatorOf(spec, callback, "http", buildGenericHttpEvaluator(callback.method.http))

buildAuthorinoDenyWithValues(d) ==
  IF d = Nil THEN Nil
  ELSE [code |-> d.code, message |-> getJsonFromStaticDynamic(d.message),
        headers |-> jsonProperties(d.headers), body |-> getJsonFromStaticDynamic(d.body)]

denyWith(spec, which) ==
  IF spec.denyWith = Nil THEN Nil ELSE buildAuthorinoDenyWithValues(spec.denyWith[which])

anyFails(list, Fails(_)) == \E i \in DOMAIN list : Fails(list[i])

translateAuthConfig(spec) ==
  IF \/ anyFails(identitiesOf(spec), identityFails)
     \/ anyFails(spec.metadata, LAMBDA m : metadataFails(spec, m))
     \/ anyFails(spec.authorization, authorizationFails)
     \/ anyFails(spec.response, responseFails)
     \/ anyFails(spec.callbacks, callbackFails)
  THEN Failed
  ELSE LET all(list, Translate(_, _)) == [i \in DOMAIN list |-> Translate(spec, list[i])]
       IN  [conditions |-> buildJSONExpression(spec.patterns, spec.conditions, "all"),
            identity |-> all(identitiesOf(spec), translateIdentity),
            metadata |-> all(spec.metadata, translateMetadata),
            authorization |-> all(spec.authorization, translateAuthorization),
            response |-> all(spec.response, translateResponse),
            callbacks |-> all(spec.callbacks, translateCallback),
            unauthenticated |-> denyWith(spec, "unauthenticated"),
            unauthorized |-> denyWith(spec, "unauthorized")]
=============================================================================
