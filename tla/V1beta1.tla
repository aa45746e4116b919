------------------------------ MODULE V1beta1 ------------------------------
(***************************************************************************)
(* The types of api/v1beta1/auth_config_types.go: the version that is      *)
(* stored and that the controller reconciles.  Evaluators are in lists,    *)
(* and nothing keeps two elements of a list from having the same name.     *)
(***************************************************************************)
EXTENDS ApiValues

StaticOrDynamicValue == [value: Text, authJSON: Text]

JsonProperty == [name: Names, value: Json, authJSON: Text]

EvaluatorCaching == [key: StaticOrDynamicValue, ttl: Nat]

JSONPatternExpression == [selector: Text, operator: Operators, value: Text]

patternsOver(nested) ==
  [selector: Text, operator: Operators, value: Text, patternName: Names \cup {""},
   all: Seq(nested), any: Seq(nested)]

JSONPattern == patternsOver(patternsOver(patternsOver({})))

Credentials ==
  [in: {"", "authorization_header", "custom_header", "query", "cookie"}, keySelector: Text]

ExtendedProperty == [name: Names, value: Json, authJSON: Text, overwrite: BOOLEAN]

SecretKeyReference == [name: Text, key: Text]

configOf(own, method) ==
  [name: Names, priority: Nat, metrics: BOOLEAN, conditions: Seq(JSONPattern),
   cache: Optional(EvaluatorCaching), own: own, method: method]

OAuth2ClientAuthentication ==
  [tokenUrl: Text, clientId: Text, clientSecret: SecretKeyReference,
   scopes: Seq(Text), extraParams: MapOf(Text), cache: Optional(BOOLEAN)]

Metadata_GenericHTTP ==
  [endpoint: Text, method: Optional({"GET", "POST", "PUT"}), body: Optional(StaticOrDynamicValue),
   parameters: Seq(JsonProperty), contentType: Text, headers: Seq(JsonProperty),
   sharedSecret: Optional(SecretKeyReference), oauth2: Optional(OAuth2ClientAuthentication),
   credentials: Credentials]

identityMethod ==
       [oauth2: [tokenIntrospectionUrl: Text, tokenTypeHint: Text, credentials: Text]]
  \cup [oidc: [endpoint: Text, ttl: Nat]]
  \cup [apiKey: [selector: Text, allNamespaces: BOOLEAN]]
  \cup [mtls: [selector: Text, allNamespaces: BOOLEAN]]
  \cup [kubernetes: [audiences: Seq(Text)]]
  \cup [anonymous: {Unset}]
  \cup [plain: [authJSON: Text]]

Identity ==
  configOf([credentials: Credentials, extendedProperties: Seq(ExtendedProperty)], identityMethod)

IdentityGetType(i) ==
  firstSet(<<"oauth2", "oidc", "apiKey", "mtls", "kubernetes", "anonymous", "plain">>, i.method)

Metadata ==
  configOf({Unset}, [userInfo: [identitySource: Names]]
                    \cup [uma: [endpoint: Text, credentials: Text]]
                    \cup [http: Metadata_GenericHTTP])

MetadataGetType(m) == firstSet(<<"userInfo", "uma", "http">>, m.method)

ExternalRegistry ==
  [endpoint: Text, sharedSecret: Optional(SecretKeyReference), credentials: Credentials, ttl: Nat]

Authorization_OPA == [inlineRego: Text, externalRegistry: ExternalRegistry, allValues: BOOLEAN]

Authorization_KubernetesAuthz ==
  [user: StaticOrDynamicValue, groups: Seq(Text),
   resourceAttributes: Optional([ResourceAttributes -> StaticOrDynamicValue])]

AuthzedObject == [name: StaticOrDynamicValue, kind: StaticOrDynamicValue]

Authorization_Authzed ==
  [endpoint: Text, insecure: BOOLEAN, sharedSecret: Optional(SecretKeyReference),
   subject: Optional(AuthzedObject), resource: Optional(AuthzedObject),
   permission: StaticOrDynamicValue]

Authorization ==
  configOf({Unset}, [opa: Authorization_OPA]
                    \cup [json: [rules: Seq(JSONPattern)]]
                    \cup [kubernetes: Authorization_KubernetesAuthz]
                    \cup [authzed: Authorization_Authzed])

AuthorizationGetType(a) == firstSet(<<"opa", "json", "kubernetes", "authzed">>, a.method)

Response_Wristband ==
  [issuer: Text, customClaims: Seq(JsonProperty), tokenDuration: Optional(Nat),
   signingKeyRefs: Seq([name: Text, algorithm: Text])]

Response ==
  configOf([wrapper: {"", "httpHeader", "envoyDynamicMetadata"}, wrapperKey: Text],
           [wristband: Response_Wristband]
           \cup [json: [properties: Seq(JsonProperty)]]
           \cup [plain: StaticOrDynamicValue])

ResponseGetType(r) == firstSet(<<"wristband", "json", "plain">>, r.method)

Callback ==
  {c \in configOf({Unset}, {Unset} \cup [http: Metadata_GenericHTTP]) : c.cache = Nil}

CallbackGetType(c) == firstSet(<<"http">>, c.method)

DenyWithSpec ==
  [code: Nat, message: Optional(StaticOrDynamicValue), headers: Seq(JsonProperty),
   body: Optional(StaticOrDynamicValue)]

DenyWith == [unauthenticated: Optional(DenyWithSpec), unauthorized: Optional(DenyWithSpec)]

AuthConfigSpec ==
  [hosts: Seq(Text), patterns: MapOf(Seq(JSONPatternExpression)), conditions: Seq(JSONPattern),
   identity: Seq(Identity), metadata: Seq(Metadata), authorization: Seq(Authorization),
   response: Seq(Response), callbacks: Seq(Callback), denyWith: Optional(DenyWith)]
=============================================================================
