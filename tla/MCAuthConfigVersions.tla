----------------------- MODULE MCAuthConfigVersions -----------------------
EXTENDS AuthConfigVersions

MCText == {"", "t", "u", "bad", "form", "json"}

\* One secret, with one key that has a value.
MCSecretData == "t" :> [t |-> "v"]

\* The selector t finds nothing, the text t, or an array of t and u.
MCJsons ==
  {[s \in MCText |-> IF s = "t" THEN found ELSE [array |-> FALSE, items |-> <<>>]] :
     found \in {[array |-> FALSE, items |-> <<>>], [array |-> FALSE, items |-> <<"t">>],
                [array |-> TRUE, items |-> <<"t", "u">>]}}

----------------------------------------------------------------------------
\* v1beta2.
Empty2 ==
  [hosts |-> <<"t">>, namedPatterns |-> Unset, conditions |-> <<>>, authentication |-> Unset,
   metadata |-> Unset, authorization |-> Unset, callbacks |-> Unset,
   response |-> [unauthenticated |-> Nil, unauthorized |-> Nil, headers |-> Unset,
                 dynamicMetadata |-> Unset]]

spec2(own, method) ==
  [priority |-> 1, metrics |-> TRUE, conditions |-> <<>>, cache |-> Nil, own |-> own, method |-> method]

str(t) == [kind |-> "string", text |-> t]

Values2 == [value: {NoJson, str("t"), [kind |-> "number", text |-> "u"]}, selector: {"", "u"}]

aValue2 == [value |-> str("t"), selector |-> ""]

Maps2 == UNION {[D -> {aValue2, [value |-> NoJson, selector |-> "u"]}] : D \in SUBSET Names}

ownOf(creds) == [overrides |-> Unset, defaults |-> Unset, credentials |-> creds]

Authentications ==
  {spec2(ownOf(Unset), m) : m \in
     [apiKey: [selector: {"t", "bad"}, allNamespaces: BOOLEAN]]
     \cup [x509: [selector: {"t", "bad"}, allNamespaces: BOOLEAN]]
     \cup [oauth2Introspection: [url: {"u"}, tokenTypeHint: {"", "t"}, credentials: {"t", "u"}]]
     \cup [kubernetesTokenReview: [audiences: {<<>>, <<"t">>}]]
     \cup [plain: [selector: {"t"}]] \cup [anonymous: {Unset}]}
  \cup {spec2(ownOf(c), [jwt |-> [issuerUrl |-> "u", ttl |-> 1]]) : c \in
          {Unset} \cup [authorizationHeader: {"", "t"}] \cup [customHeader: {"t"}]
          \cup [queryString: {"t"}] \cup [cookie: {"t"}]}
  \cup {spec2([overrides |-> o, defaults |-> d, credentials |-> Unset], [anonymous |-> Unset]) :
          o, d \in Maps2}
  \cup {[spec2(ownOf(Unset), [anonymous |-> Unset]) EXCEPT !.cache = [key |-> v, ttl |-> ttl]] :
          v \in Values2, ttl \in {0, 1}}

http2 ==
  [url |-> "u", method |-> Nil, body |-> Nil, parameters |-> Unset, contentType |-> "form",
   headers |-> Unset, sharedSecret |-> Nil, oauth2 |-> Nil, credentials |-> Unset]

Secrets2 == {Nil, [name |-> "t", key |-> "t"], [name |-> "t", key |-> "u"], [name |-> "u", key |-> "t"]}

oauth2s ==
  [tokenUrl: {"u"}, clientId: {"t"}, clientSecret: Secrets2 \ {Nil}, scopes: {<<"t">>},
   extraParams: {Unset}, cache: {Nil, TRUE, FALSE}]

Https2 ==
  {[http2 EXCEPT !.method = m, !.body = b, !.parameters = p, !.contentType = c] :
     m \in {Nil, "POST", "PUT"}, b \in {Nil, aValue2}, p \in Maps2, c \in {"form", "json"}}
  \cup {[http2 EXCEPT !.body = v] : v \in Values2}
  \cup {[http2 EXCEPT !.sharedSecret = s, !.oauth2 = o, !.credentials = c] :
          s \in Secrets2, o \in oauth2s \cup {Nil}, c \in {Unset, [cookie |-> "t"]}}

Metadatas ==
  {spec2(Unset, m) : m \in [http: Https2] \cup [userInfo: [identitySource: Names]]
                           \cup [uma: [endpoint: {"u", "bad"}, credentials: {"t", "u"}]]}

----------------------------------------------------------------------------
\* Patterns: ones that hold or not for t, that fail, that refer to a name.
leaf(operator, value, ref) ==
  [selector |-> "t", operator |-> operator, value |-> value, patternRef |-> ref,
   all |-> <<>>, any |-> <<>>]

Leaves ==
  {leaf("eq", "t", ""), leaf("neq", "t", ""), leaf("matches", "bad", ""), leaf("", "", "n1"),
   leaf("", "", "n2")}

lists(S) == {<<>>} \cup {<<p>> : p \in S} \cup {<<p, q>> : p, q \in S}

Nested ==
  {[leaf("", "", "") EXCEPT !.all = l] : l \in lists(Leaves) \ {<<>>}}
  \cup {[leaf("", "", "") EXCEPT !.any = l] : l \in lists(Leaves) \ {<<>>}}

Deep ==
  {[leaf("excl", "u", "") EXCEPT !.any = <<a, b>>, !.all = <<c>>] :
     a \in Nested, b \in Leaves, c \in Nested \cap {n \in Nested : Len(n.all) = 2}}

theNamed ==
  "n1" :> <<[selector |-> "t", operator |-> "incl", value |-> "u"],
            [selector |-> "t", operator |-> "", value |-> ""]>>

Conditions ==
  lists(Leaves) \cup {<<n>> : n \in Nested} \cup {<<p, n>> : p \in Leaves, n \in Nested}
  \cup {<<d>> : d \in Deep}

----------------------------------------------------------------------------
Attributes2 == {Nil} \cup {[a \in ResourceAttributes |-> IF a = "verb" THEN v ELSE aValue2] : v \in Values2}

Objects2 == {Nil} \cup {[name |-> v, kind |-> aValue2] : v \in Values2}

Authorizations ==
  {spec2(Unset, m) : m \in
     [opa: [rego: {"", "t", "bad"}, allValues: BOOLEAN,
            external: {Nil} \cup [endpoint: {http2, [http2 EXCEPT !.url = "bad"]}
                                    \cup {[http2 EXCEPT !.sharedSecret = s, !.credentials = [cookie |-> "t"]] :
                                            s \in Secrets2}, ttl: {1}]]]
     \cup [kubernetesSubjectAccessReview:
             [user: Values2 \cup {Nil}, groups: {<<"t">>}, resourceAttributes: Attributes2]]
     \cup [spicedb: [endpoint: {"u"}, insecure: {TRUE}, sharedSecret: Secrets2, subject: Objects2,
                     resource: {Nil}, permission: {aValue2}]]
     \cup [patternMatching: [patterns: lists(Leaves)]]}

Responses ==
  {spec2([key |-> k], m) : k \in {"", "t"}, m \in
     [plain: Values2] \cup [json: [properties: Maps2]]
     \cup [wristband: [issuer: {"u"}, customClaims: {Unset, "n1" :> aValue2}, tokenDuration: {Nil, 1},
                       signingKeyRefs: {<<>>, <<[name |-> "t", algorithm |-> "t"]>>,
                                        <<[name |-> "u", algorithm |-> "t"]>>}]]}

Denials ==
  {Nil} \cup {[code |-> 302, headers |-> h, message |-> m, body |-> Nil] :
                h \in {Unset, "n1" :> aValue2}, m \in {Nil} \cup Values2}

one(specs) == {"n1" :> s : s \in specs}

two(s, t) == "n1" :> s @@ "n2" :> t

anAuthentication == spec2(ownOf(Unset), [jwt |-> [issuerUrl |-> "u", ttl |-> 1]])

MCV2Specs ==
  {[Empty2 EXCEPT !.authentication = a] : a \in one(Authentications)}
  \cup {[Empty2 EXCEPT !.authentication = "n1" :> anAuthentication, !.metadata = m] : m \in one(Metadatas)}
  \cup {[Empty2 EXCEPT !.authorization = a, !.namedPatterns = theNamed] : a \in one(Authorizations)}
  \cup {[Empty2 EXCEPT !.response.headers = r] : r \in one(Responses)}
  \cup {[Empty2 EXCEPT !.response.dynamicMetadata = r, !.response.headers = r] : r \in one(Responses)}
  \cup {[Empty2 EXCEPT !.response.unauthenticated = d, !.response.unauthorized = e] : d, e \in Denials}
  \cup {[Empty2 EXCEPT !.callbacks = "n1" :> [spec2(Unset, m) EXCEPT !.cache = c]] :
          m \in {Unset, [http |-> http2]}, c \in {Nil, [key |-> aValue2, ttl |-> 1]}}
  \cup {[Empty2 EXCEPT !.namedPatterns = theNamed, !.conditions = c] : c \in Conditions}
  \cup {[Empty2 EXCEPT !.authentication = two(s, anAuthentication)] :
          s \in {a \in Authentications : DOMAIN a.method # {"anonymous"}}}

----------------------------------------------------------------------------
\* v1beta1: what v1beta2 specs convert to, and lists that they do not give.
first == <<"n1", "n2">>

property(name, t, overwrite) ==
  [name |-> name, value |-> str(t), authJSON |-> "", overwrite |-> overwrite]

ExtendedLists ==
  UNION {[1..n -> {property("n1", "t", TRUE), property("n1", "u", TRUE), property("n1", "t", FALSE),
                   property("n1", "u", FALSE), property("n2", "t", FALSE)}] : n \in 0..3}

anIdentity == convertAuthenticationTo("n1", anAuthentication, first)

Empty1 == ConvertTo(Empty2, first)

Properties1 == [name: {"n1"}, value: {str("t"), str("u")}, authJSON: {"", "u"}]

aResponse(name, wrapper, properties) ==
  [name |-> name, priority |-> 0, metrics |-> FALSE, conditions |-> <<>>, cache |-> Nil,
   own |-> [wrapper |-> wrapper, wrapperKey |-> ""], method |-> [json |-> [properties |-> properties]]]

MCV1Specs ==
  {[Empty1 EXCEPT !.identity = <<[anIdentity EXCEPT !.own.extendedProperties = l]>>] : l \in ExtendedLists}
  \cup {[Empty1 EXCEPT !.identity = <<[anIdentity EXCEPT !.own.credentials = c]>>] :
          c \in [in: {"authorization_header", "custom_header", "query", "cookie"}, keySelector: {"", "t"}]}
  \cup {[Empty1 EXCEPT !.response = <<aResponse("n1", w, l), aResponse(n, "envoyDynamicMetadata", <<>>)>>] :
          w \in {"", "httpHeader", "envoyDynamicMetadata"}, n \in Names, l \in lists(Properties1)}
  \cup {[Empty1 EXCEPT !.denyWith = [unauthenticated |-> Nil, unauthorized |-> d]] :
          d \in {Nil} \cup {[code |-> 0, message |-> m, headers |-> h, body |-> Nil] :
                  m \in {Nil} \cup [value: {"", "t"}, authJSON: {"", "u"}], h \in lists(Properties1)}}
  \cup {[Empty1 EXCEPT !.identity = <<anIdentity, [anIdentity EXCEPT !.name = n, !.priority = 0]>>] : n \in Names}
=============================================================================
