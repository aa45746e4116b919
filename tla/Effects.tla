------------------------------ MODULE Effects ------------------------------
(***************************************************************************)
(* What the evaluators of a translated AuthConfig do with a request, as    *)
(* far as their settings decide it: the value a setting resolves to, the   *)
(* identity object, the requests sent to other services, the wristband and *)
(* the headers.  Two AuthConfigs with the same effects enforce the same.   *)
(***************************************************************************)
EXTENDS Translation

(***************************************************************************)
(* A pattern takes precedence over a static value (JSONValue.ResolveFor).  *)
(* What it selects is left as it is.                                       *)
(***************************************************************************)
ResolveFor(v) == IF v.pattern # "" THEN [selected |-> v.pattern] ELSE [static |-> v.static]

resolveOrNil(v) == IF v = Nil THEN Nil ELSE ResolveFor(v)

(***************************************************************************)
(* Properties assigned to an object one after the other.                   *)
(***************************************************************************)
assignAll(properties, object) ==
  FoldLeft(LAMBDA obj, p : (p.name :> ResolveFor(p.value)) @@ obj, object, properties)

(***************************************************************************)
(* The identity object with its extended properties, for every set of      *)
(* names the object of the identity source may already have.               *)
(***************************************************************************)
extensionResolveFor(property, object) ==
  IF property.name \in DOMAIN object /\ ~property.overwrite THEN object[property.name]
  ELSE ResolveFor(property.value)

ResolveExtendedProperties(properties) ==
  [claimed \in SUBSET Names |->
    FoldLeft(LAMBDA obj, p : (p.name :> extensionResolveFor(p, obj)) @@ obj,
             [n \in claimed |-> [claim |-> n]], properties)]

(***************************************************************************)
(* The request of an HTTP evaluator (GenericHttp.buildRequest): the body   *)
(* is Nil when there is an error in place of it, as for methods other than *)
(* GET and POST.                                                           *)
(***************************************************************************)
buildRequestBody(http) ==
  IF http.body # Nil THEN [body |-> ResolveFor(http.body)]
  ELSE IF http.contentType \notin {"form", "json"} THEN Nil
  ELSE [encoding |-> http.contentType, data |-> assignAll(http.parameters, Unset)]

credentialsOf(http) ==
  IF http.credentials = Nil THEN Nil
  ELSE [where |-> http.credentials,
        what |-> IF http.oauth2 # Nil
                 THEN [client |-> http.oauth2, forceFetch |-> http.forceFetch]
                 ELSE [secret |-> http.sharedSecret]]

buildRequest(http) ==
  [endpoint |-> http.endpoint, method |-> http.method, credentials |-> credentialsOf(http),
   headers |-> assignAll(http.headers, Unset),
   contentType |-> IF http.method = "GET" THEN "text/plain" ELSE http.contentType,
   body |-> IF http.method = "GET" THEN Unset
            ELSE IF http.method = "POST" THEN buildRequestBody(http)
            ELSE Nil]

(***************************************************************************)
(* The reviews of the Kubernetes and SpiceDB authorizations.  Without      *)
(* resource attributes the path and verb of the request are reviewed.      *)
(***************************************************************************)
subjectAccessReview(k) ==
  [user |-> ResolveFor(k.user), groups |-> k.groups,
   attributes |-> IF k.resourceAttributes = Nil THEN Nil
                  ELSE [a \in ResourceAttributes |-> ResolveFor(k.resourceAttributes[a])]]

authzedObjectFor(object) ==
  IF object = Nil THEN Nil
  ELSE [id |-> ResolveFor(object.name), type |-> ResolveFor(object.kind)]

checkPermission(a) ==
  [endpoint |-> a.endpoint, insecure |-> a.insecure, token |-> a.sharedSecret,
   resource |-> authzedObjectFor(a.resource), subject |-> authzedObjectFor(a.subject),
   permission |-> ResolveFor(a.permission)]

(***************************************************************************)
(* The token of a wristband is signed with the first of the keys; custom   *)
(* claims replace standard ones.                                           *)
(***************************************************************************)
wristbandToken(w) ==
  [signedWith |-> Head(w.signingKeys), duration |-> w.tokenDuration,
   claims |-> assignAll(w.customClaims, [iss |-> [static |-> w.issuer]])]

----------------------------------------------------------------------------
(***************************************************************************)
(* The effects of an evaluator and of a whole AuthConfig.  The evaluators  *)
(* of a phase are told apart by name, those of the response by name and    *)
(* wrapper; their order has no effect.                                     *)
(***************************************************************************)
effectOf(e) ==
  [conditions |-> e.conditions, priority |-> e.priority, metrics |-> e.metrics, type |-> e.type,
   cache |-> IF e.cache = Nil THEN Nil ELSE [ttl |-> e.cache.ttl, key |-> ResolveFor(e.cache.key)],
   does |->
     CASE e.type = "http" -> buildRequest(e.args)
       [] e.type = "kubernetes" /\ "user" \in DOMAIN e.args -> subjectAccessReview(e.args)
       [] e.type = "authzed" -> checkPermission(e.args)
       [] "customClaims" \in DOMAIN e.args -> [token |-> wristbandToken(e.args), key |-> e.args.wrapperKey]
       [] "properties" \in DOMAIN e.args ->
            [object |-> assignAll(e.args.properties, Unset), key |-> e.args.wrapperKey]
       [] "wrapperKey" \in DOMAIN e.args -> [value |-> ResolveFor(e.args.value), key |-> e.args.wrapperKey]
       [] "extendedProperties" \in DOMAIN e.args ->
            [identity |-> ResolveExtendedProperties(e.args.extendedProperties)]
            @@ [e.args EXCEPT !.extendedProperties = <<>>]
       [] OTHER -> e.args]

keyOf(e) == IF "wrapper" \in DOMAIN e.args THEN <<e.args.wrapper, e.name>> ELSE <<e.name>>

effectsOf(list) ==
  [key \in {keyOf(list[i]) : i \in DOMAIN list} |->
     {effectOf(list[i]) : i \in {j \in DOMAIN list : keyOf(list[j]) = key}}]

customizeDenyWith(d) ==
  IF d = Nil THEN Nil
  ELSE [code |-> d.code, message |-> resolveOrNil(d.message), body |-> resolveOrNil(d.body),
        headers |-> {<<d.headers[i].name, ResolveFor(d.headers[i].value)>> : i \in DOMAIN d.headers}]

effects(config) ==
  IF config = Failed THEN Failed
  ELSE [conditions |-> config.conditions,
        identity |-> effectsOf(config.identity), metadata |-> effectsOf(config.metadata),
        authorization |-> effectsOf(config.authorization), response |-> effectsOf(config.response),
        callbacks |-> effectsOf(config.callbacks),
        unauthenticated |-> customizeDenyWith(config.unauthenticated),
        unauthorized |-> customizeDenyWith(config.unauthorized)]
=============================================================================
