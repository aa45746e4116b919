----------------------------- MODULE Conversion -----------------------------
(***************************************************************************)
(* The conversion of AuthConfigs between v1beta2 and v1beta1, the hub and  *)
(* storage version (api/v1beta2/auth_config_conversion.go).  Ranging over  *)
(* a map visits its keys in any order: order is the order of one           *)
(* conversion, as a sequence of all the names.                             *)
(***************************************************************************)
EXTENDS ApiValues

V1 == INSTANCE V1beta1

V2 == INSTANCE V1beta2

mapSeq(s, Convert(_)) == [i \in DOMAIN s |-> Convert(s[i])]

orNil(x, Convert(_)) == IF x = Nil THEN Nil ELSE Convert(x)

(***************************************************************************)
(* A map appended to a list, element by element, and a list stored in a    *)
(* map, where the last element of a name is the one that stays.            *)
(***************************************************************************)
listOf(map, order, Convert(_, _)) ==
  LET names == SelectSeq(order, LAMBDA n : n \in DOMAIN map)
  IN  mapSeq(names, LAMBDA n : Convert(n, map[n]))

lastNamed(list, name) == list[Max({i \in DOMAIN list : list[i].name = name})]

mapOf(list, Convert(_)) ==
  [name \in {list[i].name : i \in DOMAIN list} |-> Convert(lastNamed(list, name))]

----------------------------------------------------------------------------
(***************************************************************************)
(* Patterns.                                                               *)
(***************************************************************************)
convertPatternExpressionTo(src) ==
  [selector |-> src.selector, operator |-> src.operator, value |-> src.value]

convertPatternExpressionFrom(src) ==
  [selector |-> src.selector, operator |-> src.operator, value |-> src.value]

RECURSIVE convertPatternExpressionOrRefTo(_)
convertPatternExpressionOrRefTo(src) ==
  [patternName |-> src.patternRef,
   all |-> [i \in DOMAIN src.all |-> convertPatternExpressionOrRefTo(src.all[i])],
   any |-> [i \in DOMAIN src.any |-> convertPatternExpressionOrRefTo(src.any[i])]]
  @@ convertPatternExpressionTo(src)

RECURSIVE convertPatternExpressionOrRefFrom(_)
convertPatternExpressionOrRefFrom(src) ==
  [patternRef |-> src.patternName,
   all |-> [i \in DOMAIN src.all |-> convertPatternExpressionOrRefFrom(src.all[i])],
   any |-> [i \in DOMAIN src.any |-> convertPatternExpressionOrRefFrom(src.any[i])]]
  @@ convertPatternExpressionFrom(src)

----------------------------------------------------------------------------
(***************************************************************************)
(* Values.  A value of v1beta2 is any JSON, one of v1beta1 a string; a     *)
(* value beside a selector stays in v1beta1 and is not read back.          *)
(***************************************************************************)
convertValueOrSelectorTo(src) ==
  [value |-> gjsonString(src.value), authJSON |-> src.selector]

convertValueOrSelectorFrom(src) ==
  [value |-> IF src.authJSON = "" THEN jsonMarshal(src.value) ELSE NoJson,
   selector |-> src.authJSON]

convertPtrValueOrSelectorTo(src) == orNil(src, convertValueOrSelectorTo)

convertPtrValueOrSelectorFrom(src) == orNil(src, convertValueOrSelectorFrom)

convertNamedValuesOrSelectorsTo(src, order) ==
  listOf(src, order, LAMBDA name, v : [name |-> name, value |-> v.value, authJSON |-> v.selector])

convertNamedValuesOrSelectorsFrom(src) ==
  mapOf(src, LAMBDA p : [value |-> IF p.authJSON = "" THEN p.value ELSE NoJson,
                         selector |-> p.authJSON])

convertEvaluatorCachingTo(src) ==
  orNil(src, LAMBDA c : [key |-> convertValueOrSelectorTo(c.key), ttl |-> c.ttl])

convertEvaluatorCachingFrom(src) ==
  orNil(src, LAMBDA c : [key |-> convertValueOrSelectorFrom(c.key), ttl |-> c.ttl])

\* Mutant: the two strings of a credential change places.
credentialsSwapped(src) ==
  IF src = Unset THEN [in |-> "", keySelector |-> ""]
  ELSE [in |-> src[V2!CredentialsGetType(src)], keySelector |-> "cookie"]

convertCredentialsTo(src) ==
  CASE V2!CredentialsGetType(src) = "authorizationHeader" ->
         [in |-> "authorization_header", keySelector |-> src.authorizationHeader]
    [] V2!CredentialsGetType(src) = "customHeader" ->
         [in |-> "custom_header", keySelector |-> src.customHeader]
    [] V2!CredentialsGetType(src) = "queryString" ->
         [in |-> "query", keySelector |-> src.queryString]
    [] V2!CredentialsGetType(src) = "cookie" ->
         [in |-> "cookie", keySelector |-> src.cookie]
    [] OTHER -> [in |-> "", keySelector |-> ""]

\* Mutant: no case for cookies.
credentialsWithoutCookies(src) ==
  CASE src.in = "authorization_header" -> [authorizationHeader |-> src.keySelector]
    [] src.in = "custom_header" -> [customHeader |-> src.keySelector]
    [] src.in = "query" -> [queryString |-> src.keySelector]
    [] OTHER -> Unset

convertCredentialsFrom(src) ==
  CASE src.in = "authorization_header" -> [authorizationHeader |-> src.keySelector]
    [] src.in = "custom_header" -> [customHeader |-> src.keySelector]
    [] src.in = "query" -> [queryString |-> src.keySelector]
    [] src.in = "cookie" -> [cookie |-> src.keySelector]
    [] OTHER -> Unset

----------------------------------------------------------------------------
(***************************************************************************)
(* Evaluators: the fields that all of them have, then each phase.          *)
(***************************************************************************)
configTo(name, src, own, method) ==
  [name |-> name, priority |-> src.priority, metrics |-> src.metrics,
   conditions |-> mapSeq(src.conditions, LAMBDA p : convertPatternExpressionOrRefTo(p)),
   cache |-> convertEvaluatorCachingTo(src.cache), own |-> own, method |-> method]

specFrom(src, own, method) ==
  [priority |-> src.priority, metrics |-> src.metrics,
   conditions |-> mapSeq(src.conditions, LAMBDA p : convertPatternExpressionOrRefFrom(p)),
   cache |-> convertEvaluatorCachingFrom(src.cache), own |-> own, method |-> method]

convertSecretKeyReferenceTo(src) == orNil(src, LAMBDA r : [name |-> r.name, key |-> r.key])

convertSecretKeyReferenceFrom(src) == orNil(src, LAMBDA r : [name |-> r.name, key |-> r.key])

convertOAuth2ClientAuthenticationTo(src) ==
  orNil(src, LAMBDA o :
    [tokenUrl |-> o.tokenUrl, clientId |-> o.clientId,
     clientSecret |-> convertSecretKeyReferenceTo(o.clientSecret),
     scopes |-> o.scopes, extraParams |-> o.extraParams, cache |-> o.cache])

convertOAuth2ClientAuthenticationFrom(src) ==
  orNil(src, LAMBDA o :
    [tokenUrl |-> o.tokenUrl, clientId |-> o.clientId,
     clientSecret |-> convertSecretKeyReferenceFrom(o.clientSecret),
     scopes |-> o.scopes, extraParams |-> o.extraParams, cache |-> o.cache])

convertHttpEndpointSpecTo(src, order) ==
  [endpoint |-> src.url, method |-> src.method, body |-> convertPtrValueOrSelectorTo(src.body),
   parameters |-> convertNamedValuesOrSelectorsTo(src.parameters, order),
   contentType |-> src.contentType,
   headers |-> convertNamedValuesOrSelectorsTo(src.headers, order),
   sharedSecret |-> convertSecretKeyReferenceTo(src.sharedSecret),
   oauth2 |-> convertOAuth2ClientAuthenticationTo(src.oauth2),
   credentials |-> convertCredentialsTo(src.credentials)]

convertHttpEndpointSpecFrom(src) ==
  [url |-> src.endpoint, method |-> src.method, body |-> convertPtrValueOrSelectorFrom(src.body),
   parameters |-> convertNamedValuesOrSelectorsFrom(src.parameters),
   contentType |-> src.contentType,
   headers |-> convertNamedValuesOrSelectorsFrom(src.headers),
   sharedSecret |-> convertSecretKeyReferenceFrom(src.sharedSecret),
   oauth2 |-> convertOAuth2ClientAuthenticationFrom(src.oauth2),
   credentials |-> convertCredentialsFrom(src.credentials)]

(***************************************************************************)
(* Authentication: the overrides come before the defaults in the list.     *)
(* Mutant: the defaults are listed as overrides.                           *)
(***************************************************************************)
propertiesOverwrite(values, overwrite, order) ==
  mapSeq(convertNamedValuesOrSelectorsTo(values, order), LAMBDA p : p @@ [overwrite |-> TRUE])

extendedPropertiesOf(values, overwrite, order) ==
  mapSeq(convertNamedValuesOrSelectorsTo(values, order), LAMBDA p : p @@ [overwrite |-> overwrite])

convertAuthenticationTo(name, src, order) ==
  LET method == V2!AuthenticationGetMethod(src)
      spec == src.method[method]
  IN  configTo(name, src,
        [credentials |-> convertCredentialsTo(src.own.credentials),
         extendedProperties |-> extendedPropertiesOf(src.own.overrides, TRUE, order)
                                \o extendedPropertiesOf(src.own.defaults, FALSE, order)],
        CASE method = "apiKey" ->
               [apiKey |-> [selector |-> spec.selector, allNamespaces |-> spec.allNamespaces]]
          [] method = "jwt" -> [oidc |-> [endpoint |-> spec.issuerUrl, ttl |-> spec.ttl]]
          [] method = "oauth2Introspection" ->
               [oauth2 |-> [tokenIntrospectionUrl |-> spec.url, credentials |-> spec.credentials,
                            tokenTypeHint |-> spec.tokenTypeHint]]
          [] method = "kubernetesTokenReview" -> [kubernetes |-> [audiences |-> spec.audiences]]
          [] method = "x509" ->
               [mtls |-> [selector |-> spec.selector, allNamespaces |-> spec.allNamespaces]]
          [] method = "plain" -> [plain |-> [authJSON |-> spec.selector]]
          [] method = "anonymous" -> [anonymous |-> Unset])

convertAuthenticationFrom(src) ==
  LET type == V1!IdentityGetType(src)
      config == src.method[type]
      properties(overwrite) ==
        convertNamedValuesOrSelectorsFrom(
          SelectSeq(src.own.extendedProperties, LAMBDA p : p.overwrite = overwrite))
  IN  specFrom(src,
        [overrides |-> properties(TRUE), defaults |-> properties(FALSE),
         credentials |-> convertCredentialsFrom(src.own.credentials)],
        CASE type = "apiKey" ->
               [apiKey |-> [selector |-> config.selector, allNamespaces |-> config.allNamespaces]]
          [] type = "oidc" -> [jwt |-> [issuerUrl |-> config.endpoint, ttl |-> config.ttl]]
          [] type = "oauth2" ->
               [oauth2Introspection |->
                  [url |-> config.tokenIntrospectionUrl, credentials |-> config.credentials,
                   tokenTypeHint |-> config.tokenTypeHint]]
          [] type = "kubernetes" -> [kubernetesTokenReview |-> [audiences |-> config.audiences]]
          [] type = "mtls" ->
               [x509 |-> [selector |-> config.selector, allNamespaces |-> config.allNamespaces]]
          [] type = "plain" -> [plain |-> [selector |-> config.authJSON]]
          [] type = "anonymous" -> [anonymous |-> Unset])

convertMetadataTo(name, src, order) ==
  LET method == V2!MetadataGetMethod(src)
      spec == src.method[method]
  IN  configTo(name, src, Unset,
        CASE method = "http" -> [http |-> convertHttpEndpointSpecTo(spec, order)]
          [] method = "userInfo" -> [userInfo |-> [identitySource |-> spec.identitySource]]
          [] method = "uma" ->
               [uma |-> [endpoint |-> spec.endpoint, credentials |-> spec.credentials]])

convertMetadataFrom(src) ==
  LET type == V1!MetadataGetType(src)
      config == src.method[type]
  IN  specFrom(src, Unset,
        CASE type = "http" -> [http |-> convertHttpEndpointSpecFrom(config)]
          [] type = "userInfo" -> [userInfo |-> [identitySource |-> config.identitySource]]
          [] type = "uma" ->
               [uma |-> [endpoint |-> config.endpoint, credentials |-> config.credentials]])

(***************************************************************************)
(* Authorization.  Of the endpoint of an external OPA policy only the URL, *)
(* the shared secret and the credentials are kept; without a URL nothing   *)
(* of it is read back.                                                     *)
(***************************************************************************)
noRegistry ==
  [endpoint |-> "", sharedSecret |-> Nil, credentials |-> convertCredentialsTo(Unset), ttl |-> 0]

convertOpaExternalRegistryTo(src) ==
  IF src = Nil THEN noRegistry
  ELSE [endpoint |-> src.endpoint.url, ttl |-> src.ttl,
        sharedSecret |-> convertSecretKeyReferenceTo(src.endpoint.sharedSecret),
        credentials |-> convertCredentialsTo(src.endpoint.credentials)]

convertOpaExternalRegistryFrom(src) ==
  IF src.endpoint = "" THEN Nil
  ELSE [ttl |-> src.ttl,
        endpoint |->
          [url |-> src.endpoint, method |-> Nil, body |-> Nil, parameters |-> Unset,
           contentType |-> "", headers |-> Unset, oauth2 |-> Nil,
           sharedSecret |-> convertSecretKeyReferenceFrom(src.sharedSecret),
           credentials |-> convertCredentialsFrom(src.credentials)]]

convertKubernetesSubjectAccessReviewResourceAttributesTo(src) ==
  orNil(src, LAMBDA attributes : [a \in ResourceAttributes |-> convertValueOrSelectorTo(attributes[a])])

convertKubernetesSubjectAccessReviewResourceAttributesFrom(src) ==
  orNil(src, LAMBDA attributes : [a \in ResourceAttributes |-> convertValueOrSelectorFrom(attributes[a])])

spiceDBObjectTo(src) ==
  orNil(src, LAMBDA o : [name |-> convertValueOrSelectorTo(o.name),
                         kind |-> convertValueOrSelectorTo(o.kind)])

spiceDBObjectFrom(src) ==
  orNil(src, LAMBDA o : [name |-> convertValueOrSelectorFrom(o.name),
                         kind |-> convertValueOrSelectorFrom(o.kind)])

convertAuthorizationTo(name, src) ==
  LET method == V2!AuthorizationGetMethod(src)
      spec == src.method[method]
  IN  configTo(name, src, Unset,
        CASE method = "patternMatching" ->
               [json |-> [rules |-> mapSeq(spec.patterns, LAMBDA p : convertPatternExpressionOrRefTo(p))]]
          [] method = "opa" ->
               [opa |-> [inlineRego |-> spec.rego, allValues |-> spec.allValues,
                         externalRegistry |-> convertOpaExternalRegistryTo(spec.external)]]
          [] method = "kubernetesSubjectAccessReview" ->
               [kubernetes |->
                 [groups |-> spec.groups,
                  user |-> IF spec.user = Nil THEN [value |-> "", authJSON |-> ""]
                           ELSE convertValueOrSelectorTo(spec.user),
                  resourceAttributes |->
                    convertKubernetesSubjectAccessReviewResourceAttributesTo(spec.resourceAttributes)]]
          [] method = "spicedb" ->
               [authzed |->
                 [endpoint |-> spec.endpoint, insecure |-> spec.insecure,
                  sharedSecret |-> convertSecretKeyReferenceTo(spec.sharedSecret),
                  subject |-> spiceDBObjectTo(spec.subject),
                  resource |-> spiceDBObjectTo(spec.resource),
                  permission |-> convertValueOrSelectorTo(spec.permission)]])

convertAuthorizationFrom(src) ==
  LET type == V1!AuthorizationGetType(src)
      config == src.method[type]
  IN  specFrom(src, Unset,
        CASE type = "json" ->
               [patternMatching |->
                 [patterns |-> mapSeq(config.rules, LAMBDA p : convertPatternExpressionOrRefFrom(p))]]
          [] type = "opa" ->
               [opa |-> [rego |-> config.inlineRego, allValues |-> config.allValues,
                         external |-> convertOpaExternalRegistryFrom(config.externalRegistry)]]
          [] type = "kubernetes" ->
               [kubernetesSubjectAccessReview |->
                 [groups |-> config.groups, user |-> convertPtrValueOrSelectorFrom(config.user),
                  resourceAttributes |->
                    convertKubernetesSubjectAccessReviewResourceAttributesFrom(config.resourceAttributes)]]
          [] type = "authzed" ->
               [spicedb |->
                 [endpoint |-> config.endpoint, insecure |-> config.insecure,
                  sharedSecret |-> convertSecretKeyReferenceFrom(config.sharedSecret),
                  subject |-> spiceDBObjectFrom(config.subject),
                  resource |-> spiceDBObjectFrom(config.resource),
                  permission |-> convertValueOrSelectorFrom(config.permission)]])

convertSuccessResponseTo(name, src, wrapper, order) ==
  LET method == V2!SuccessResponseGetMethod(src)
      spec == src.method[method]
  IN  configTo(name, src, [wrapper |-> wrapper, wrapperKey |-> src.own.key],
        CASE method = "plain" -> [plain |-> convertValueOrSelectorTo(spec)]
          [] method = "json" ->
               [json |-> [properties |-> convertNamedValuesOrSelectorsTo(spec.properties, order)]]
          [] method = "wristband" ->
               [wristband |->
                 [issuer |-> spec.issuer, tokenDuration |-> spec.tokenDuration,
                  customClaims |-> convertNamedValuesOrSelectorsTo(spec.customClaims, order),
                  signingKeyRefs |-> spec.signingKeyRefs]])

convertSuccessResponseFrom(src) ==
  LET type == V1!ResponseGetType(src)
      config == src.method[type]
  IN  specFrom(src, [key |-> src.own.wrapperKey],
        CASE type = "plain" -> [plain |-> convertValueOrSelectorFrom(config)]
          [] type = "json" ->
               [json |-> [properties |-> convertNamedValuesOrSelectorsFrom(config.properties)]]
          [] type = "wristband" ->
               [wristband |->
                 [issuer |-> config.issuer, tokenDuration |-> config.tokenDuration,
                  customClaims |-> convertNamedValuesOrSelectorsFrom(config.customClaims),
                  signingKeyRefs |-> config.signingKeyRefs]])

convertDenyWithSpecTo(src, order) ==
  orNil(src, LAMBDA d :
    [code |-> d.code, headers |-> convertNamedValuesOrSelectorsTo(d.headers, order),
     message |-> convertPtrValueOrSelectorTo(d.message),
     body |-> convertPtrValueOrSelectorTo(d.body)])

convertDenyWithSpecFrom(src) ==
  orNil(src, LAMBDA d :
    [code |-> d.code, headers |-> convertNamedValuesOrSelectorsFrom(d.headers),
     message |-> convertPtrValueOrSelectorFrom(d.message),
     body |-> convertPtrValueOrSelectorFrom(d.body)])

(***************************************************************************)
(* Callbacks: v1beta1 has no cache for them, so none is kept.              *)
(***************************************************************************)
convertCallbackTo(name, src, order) ==
  configTo(name, [src EXCEPT !.cache = Nil], Unset,
    IF V2!CallbackGetMethod(src) = "http"
    THEN [http |-> convertHttpEndpointSpecTo(src.method.http, order)] ELSE Unset)

convertCallbackFrom(src) ==
  specFrom([src EXCEPT !.cache = Nil], Unset,
    IF V1!CallbackGetType(src) = "http"
    THEN [http |-> convertHttpEndpointSpecFrom(src.method.http)] ELSE Unset)

----------------------------------------------------------------------------
(***************************************************************************)
(* Whole specs.                                                            *)
(***************************************************************************)
ConvertTo(src, order) ==
  LET response == src.response
      responses(map, wrapper) ==
        listOf(map, order, LAMBDA n, s : convertSuccessResponseTo(n, s, wrapper, order))
  IN  [hosts |-> src.hosts,
       patterns |-> [n \in DOMAIN src.namedPatterns |->
                       mapSeq(src.namedPatterns[n], convertPatternExpressionTo)],
       conditions |-> mapSeq(src.conditions, LAMBDA p : convertPatternExpressionOrRefTo(p)),
       identity |-> listOf(src.authentication, order,
                           LAMBDA n, s : convertAuthenticationTo(n, s, order)),
       metadata |-> listOf(src.metadata, order, LAMBDA n, s : convertMetadataTo(n, s, order)),
       authorization |-> listOf(src.authorization, order, convertAuthorizationTo),
       response |-> responses(response.headers, "httpHeader")
                    \o responses(response.dynamicMetadata, "envoyDynamicMetadata"),
       callbacks |-> listOf(src.callbacks, order, LAMBDA n, s : convertCallbackTo(n, s, order)),
       denyWith |->
         IF response.unauthenticated = Nil /\ response.unauthorized = Nil THEN Nil
         ELSE [unauthenticated |-> convertDenyWithSpecTo(response.unauthenticated, order),
               unauthorized |-> convertDenyWithSpecTo(response.unauthorized, order)]]

ConvertFrom(src) ==
  LET deny(which) == IF src.denyWith = Nil THEN Nil ELSE convertDenyWithSpecFrom(src.denyWith[which])
      responses(wrappers) ==
        mapOf(SelectSeq(src.response, LAMBDA r : r.own.wrapper \in wrappers),
              convertSuccessResponseFrom)
  IN  [hosts |-> src.hosts,
       namedPatterns |-> [n \in DOMAIN src.patterns |->
                            mapSeq(src.patterns[n], convertPatternExpressionFrom)],
       conditions |-> mapSeq(src.conditions, LAMBDA p : convertPatternExpressionOrRefFrom(p)),
       authentication |-> mapOf(src.identity, convertAuthenticationFrom),
       metadata |-> mapOf(src.metadata, convertMetadataFrom),
       authorization |-> mapOf(src.authorization, convertAuthorizationFrom),
       response |-> [unauthenticated |-> deny("unauthenticated"),
                     unauthorized |-> deny("unauthorized"),
                     headers |-> responses({"httpHeader", ""}),
                     dynamicMetadata |-> responses({"envoyDynamicMetadata"})],
       callbacks |-> mapOf(src.callbacks, convertCallbackFrom)]
=============================================================================
