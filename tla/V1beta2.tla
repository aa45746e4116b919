------------------------------ MODULE V1beta2 ------------------------------
(***************************************************************************)
(* The types of api/v1beta2/auth_config_types.go.  Evaluators are kept in  *)
(* maps by name, and the choice of method is a union of pointers, of which *)
(* the CRD's oneOf lets exactly one be set.                                *)
(***************************************************************************)
EXTENDS ApiValues

PatternExpression == [selector: Text, operator: Operators, value: Text]

(***************************************************************************)
(* Patterns nest without limit; these are the ones nested twice at most.   *)
(***************************************************************************)
patternsOver(nested) ==
  [selector: Text, operator: Operators, value: Text, patternRef: Names \cup {""},
   all: Seq(nested), any: Seq(nested)]

PatternExpressionOrRef == patternsOver(patternsOver(patternsOver({})))

ValueOrSelector == [value: Json, selector: Text]

NamedValuesOrSelectors == MapOf(ValueOrSelector)

EvaluatorCaching == [key: ValueOrSelector, ttl: Nat]

(***************************************************************************)
(* Where credentials are in a request; Unset when the field is empty.      *)
(***************************************************************************)
Credentials ==
  {Unset} \cup [authorizationHeader: Text] \cup [customHeader: Text]
          \cup [queryString: Text] \cup [cookie: Text]

CredentialsGetType(c) ==
  firstSet(<<"authorizationHeader", "customHeader", "queryString", "cookie">>, c)

(***************************************************************************)
(* A spec of any phase: the fields of CommonEvaluatorSpec and its own.     *)
(***************************************************************************)
specOf(own, method) ==
  [priority: Nat, metrics: BOOLEAN, conditions: Seq(PatternExpressionOrRef),
   cache: Optional(EvaluatorCaching), own: own, method: method]

SecretKeyReference == [name: Text, key: Text]

OAuth2ClientAuthentication ==
  [tokenUrl: Text, clientId: Text, clientSecret: SecretKeyReference,
   scopes: Seq(Text), extraParams: MapOf(Text), cache: Optional(BOOLEAN)]

HttpEndpointSpec ==
  [url: Text, method: Optional({"GET", "POST", "PUT"}), body: Optional(ValueOrSelector),
   parameters: NamedValuesOrSelectors, contentType: Text, headers: NamedValuesOrSelectors,
   sharedSecret: Optional(SecretKeyReference), oauth2: Optional(OAuth2ClientAuthentication),
   credentials: Credentials]

AuthenticationMethodSpec ==
       [apiKey: [selector: Text, allNamespaces: BOOLEAN]]
  \cup [jwt: [issuerUrl: Text, ttl: Nat]]
  \cup [oauth2Introspection: [url: Text, tokenTypeHint: Text, credentials: Text]]
  \cup [kubernetesTokenReview: [audiences: Seq(Text)]]
  \cup [x509: [selector: Text, allNamespaces: BOOLEAN]]
  \cup [plain: [selector: Text]]
  \cup [anonymous: {Unset}]

AuthenticationSpec ==
  specOf([overrides: NamedValuesOrSelectors, defaults: NamedValuesOrSelectors,
          credentials: Credentials], AuthenticationMethodSpec)

AuthenticationGetMethod(s) ==
  firstSet(<<"apiKey", "jwt", "oauth2Introspection", "x509", "kubernetesTokenReview",
             "plain", "anonymous">>, s.method)

MetadataMethodSpec ==
       [http: HttpEndpointSpec]
  \cup [userInfo: [identitySource: Names]]
  \cup [uma: [endpoint: Text, credentials: Text]]

MetadataSpec == specOf({Unset}, MetadataMethodSpec)

MetadataGetMethod(s) == firstSet(<<"http", "userInfo", "uma">>, s.method)

ExternalOpaPolicy == [endpoint: HttpEndpointSpec, ttl: Nat]

ResourceAttributesSpec == [ResourceAttributes -> ValueOrSelector]

SpiceDBObject == [name: ValueOrSelector, kind: ValueOrSelector]

AuthorizationMethodSpec ==
       [patternMatching: [patterns: Seq(PatternExpressionOrRef)]]
  \cup [opa: [rego: Text, external: Optional(ExternalOpaPolicy), allValues: BOOLEAN]]
  \cup [kubernetesSubjectAccessReview:
          [user: Optional(ValueOrSelector), groups: Seq(Text),
           resourceAttributes: Optional(ResourceAttributesSpec)]]
  \cup [spicedb: [endpoint: Text, insecure: BOOLEAN, sharedSecret: Optional(SecretKeyReference),
                  subject: Optional(SpiceDBObject), resource: Optional(SpiceDBObject),
                  permission: ValueOrSelector]]

AuthorizationSpec == specOf({Unset}, AuthorizationMethodSpec)

AuthorizationGetMethod(s) ==
  firstSet(<<"patternMatching", "opa", "kubernetesSubjectAccessReview", "spicedb">>, s.method)

WristbandAuthResponseSpec ==
  [issuer: Text, customClaims: NamedValuesOrSelectors, tokenDuration: Optional(Nat),
   signingKeyRefs: Seq([name: Text, algorithm: Text])]

AuthResponseMethodSpec ==
       [plain: ValueOrSelector]
  \cup [json: [properties: NamedValuesOrSelectors]]
  \cup [wristband: WristbandAuthResponseSpec]

SuccessResponseSpec == specOf([key: Text], AuthResponseMethodSpec)

SuccessResponseGetMethod(s) == firstSet(<<"plain", "json", "wristband">>, s.method)

DenyWithSpec ==
  [code: Nat, headers: NamedValuesOrSelectors, message: Optional(ValueOrSelector),
   body: Optional(ValueOrSelector)]

(***************************************************************************)
(* An empty response reads like an absent one.                             *)
(***************************************************************************)
ResponseSpec ==
  [unauthenticated: Optional(DenyWithSpec), unauthorized: Optional(DenyWithSpec),
   headers: MapOf(SuccessResponseSpec), dynamicMetadata: MapOf(SuccessResponseSpec)]

CallbackSpec == specOf({Unset}, {Unset} \cup [http: HttpEndpointSpec])

CallbackGetMethod(s) == firstSet(<<"http">>, s.method)

AuthConfigSpec ==
  [hosts: Seq(Text), namedPatterns: MapOf(Seq(PatternExpression)),
   conditions: Seq(PatternExpressionOrRef), authentication: MapOf(AuthenticationSpec),
   metadata: MapOf(MetadataSpec), authorization: MapOf(AuthorizationSpec),
   response: ResponseSpec, callbacks: MapOf(CallbackSpec)]
=============================================================================
