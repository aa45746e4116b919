------------------------- MODULE AuthServiceProofs -------------------------
(***************************************************************************)
(* The answers of the servers are sound for any hosts, resources and       *)
(* sequence of changes of the index between the steps of a request.  What  *)
(* the proofs know of the index is that the first key of a resource stays  *)
(* the first.                                                              *)
(***************************************************************************)
EXTENDS AuthService, TLAPS

Fields ==
  {"interface", "pc", "host", "id", "name", "key", "entry", "code", "deny", "always", "ever", "granted", "status"}

Codes == {"OK", "NOT_FOUND", "UNAUTHENTICATED", "PERMISSION_DENIED", "UNAVAILABLE"}

RequestType(r) ==
  /\ r = [f \in Fields |-> r[f]]
  /\ r.interface \in {"grpc", "http", "oidc"}
  /\ r.interface = "oidc" => r.id \in Ids
  /\ r.code \in Codes
  /\ r.deny \in {0} \cup 300..599
  /\ r.always \in BOOLEAN /\ r.ever \in BOOLEAN /\ r.granted \in BOOLEAN

(***************************************************************************)
(* Of a check: the fields always and ever are up to date, the lookups are  *)
(* over once there is an AuthConfig, and only the pipeline grants.         *)
(***************************************************************************)
CheckInv(t, ks, r) ==
  /\ r.pc \in {"received", "built", "check", "retry", "found", "checked", "done", "aborted"}
  /\ r.always => bareMatch(t, ks, r)
  /\ anyMatch(t, ks, r) => r.ever
  /\ r.entry # None => r.ever
  /\ r.pc \in {"received", "built", "check", "retry"} => r.code = "OK" /\ r.entry = None /\ ~r.granted
  /\ r.pc = "found" => r.entry # None
  /\ r.pc = "checked" /\ r.code = "OK" => r.entry # None
  /\ r.code = "NOT_FOUND" => ~r.always
  /\ r.pc = "done" => (r.granted <=> r.code = "OK" /\ r.entry # None)
  /\ r.pc = "done" /\ r.interface = "grpc" /\ ~r.granted => r.status \notin 200..299

(***************************************************************************)
(* Of a discovery: the key that was found is the first one for good.       *)
(***************************************************************************)
DiscoveryInv(t, ks, r) ==
  /\ r.pc \in {"find", "get", "issuer", "done", "aborted"}
  /\ r.always => ownsFirst(t, ks, r)
  /\ r.pc = "get" => ks[r.id] # <<>> /\ r.key = ks[r.id][1]
  /\ r.always /\ r.entry # None => r.entry.id = r.id
  /\ r.pc = "aborted" => ~r.always

RequestInv(t, ks, r) ==
  /\ RequestType(r)
  /\ r.interface # "oidc" => CheckInv(t, ks, r)
  /\ r.interface = "oidc" => DiscoveryInv(t, ks, r)

ServiceInv ==
  /\ keys \in [Ids -> Seq(Hosts)]
  /\ request # None => RequestInv(tree, keys, request)

LEMMA ServiceInitInv == ServiceInit => ServiceInv
  BY DEF ServiceInit, IndexInit, ServiceInv

(***************************************************************************)
(* Keys are only appended.                                                 *)
(***************************************************************************)
LEMMA KeysGrow ==
  ASSUME keys \in [Ids -> Seq(Hosts)], IndexNext
  PROVE  /\ keys' \in [Ids -> Seq(Hosts)]
         /\ \A id \in Ids : keys[id] # <<>> => keys'[id] # <<>> /\ keys'[id][1] = keys[id][1]
<1>1. ASSUME NEW id \in Ids, NEW key \in Hosts, NEW cfg \in Configs, NEW override \in BOOLEAN,
             Set(id, key, cfg, override)
      PROVE  /\ keys' \in [Ids -> Seq(Hosts)]
             /\ \A i \in Ids : keys[i] # <<>> => keys'[i] # <<>> /\ keys'[i][1] = keys[i][1]
  <2>1. keys[id] \in Seq(Hosts) /\ recordKey(keys[id], key) \in {keys[id], Append(keys[id], key)}
    BY DEF recordKey
  <2>2. keys' = [keys EXCEPT ![id] = recordKey(keys[id], key)]
    BY <1>1 DEF Set
  <2>3. recordKey(keys[id], key) \in Seq(Hosts)
    BY <2>1
  <2>4. keys[id] # <<>> => recordKey(keys[id], key) # <<>> /\ recordKey(keys[id], key)[1] = keys[id][1]
    BY <2>1
  <2> QED
    BY <2>2, <2>3, <2>4
<1> QED
  BY <1>1 DEF IndexNext, Delete, DeleteKey

(***************************************************************************)
(* The witnesses of a request, and nothing else, follow the index.         *)
(***************************************************************************)
LEMMA Witness ==
  ASSUME NEW t, NEW ks, NEW r, RequestType(r)
  PROVE  LET w == witness(t, ks, r)
         IN  /\ RequestType(w)
             /\ \A f \in Fields \ {"always", "ever"} : w[f] = r[f]
             /\ r.interface = "oidc" => (w.always <=> r.always /\ ownsFirst(t, ks, r))
             /\ r.interface # "oidc" => (w.always <=> r.always /\ bareMatch(t, ks, r))
             /\ r.interface # "oidc" => (w.ever <=> r.ever \/ anyMatch(t, ks, r))
<1> DEFINE w == witness(t, ks, r)
<1>1. CASE r.interface = "oidc"
  <2>1. w = [r EXCEPT !.always = r.always /\ ownsFirst(t, ks, r)]
    BY <1>1 DEF witness
  <2>2. w.always = (r.always /\ ownsFirst(t, ks, r))
    BY <2>1 DEF RequestType, Fields
  <2>3. \A f \in Fields \ {"always"} : w[f] = r[f]
    BY <2>1 DEF RequestType, Fields
  <2>4. w = [f \in Fields |-> w[f]]
    BY <2>1 DEF RequestType, Fields
  <2>5. RequestType(w)
    <3>1. /\ w.interface = r.interface /\ w.id = r.id /\ w.code = r.code /\ w.deny = r.deny
          /\ w.granted = r.granted
      BY <2>3 DEF Fields
    <3>2. w.always \in BOOLEAN /\ w.ever \in BOOLEAN
      BY <2>2, <2>3, Zenon DEF RequestType, Fields
    <3> HIDE DEF w
    <3> QED
      BY <2>4, <3>1, <3>2 DEF RequestType
  <2> HIDE DEF w
  <2> QED
    BY <1>1, <2>2, <2>3, <2>5 DEF w
<1>2. CASE r.interface # "oidc"
  <2>1. w = [r EXCEPT !.always = r.always /\ bareMatch(t, ks, r), !.ever = r.ever \/ anyMatch(t, ks, r)]
    BY <1>2 DEF witness
  <2>2. /\ w.always = (r.always /\ bareMatch(t, ks, r))
        /\ w.ever = (r.ever \/ anyMatch(t, ks, r))
    BY <2>1 DEF RequestType, Fields
  <2>3. \A f \in Fields \ {"always", "ever"} : w[f] = r[f]
    BY <2>1 DEF RequestType, Fields
  <2>4. w = [f \in Fields |-> w[f]]
    BY <2>1 DEF RequestType, Fields
  <2>5. RequestType(w)
    <3>1. /\ w.interface = r.interface /\ w.id = r.id /\ w.code = r.code /\ w.deny = r.deny
          /\ w.granted = r.granted
      BY <2>3 DEF Fields
    <3>2. w.always \in BOOLEAN /\ w.ever \in BOOLEAN
      BY <2>2, Zenon DEF RequestType
    <3> HIDE DEF w
    <3> QED
      BY <2>4, <3>1, <3>2 DEF RequestType
  <2> HIDE DEF w
  <2> QED
    BY <1>2, <2>2, <2>3, <2>5 DEF w
<1> QED
  BY <1>1, <1>2

LEMMA ChangeStep ==
  ASSUME ServiceInv, ChangeIndex
  PROVE  ServiceInv'
<1>1. /\ keys' \in [Ids -> Seq(Hosts)]
      /\ \A id \in Ids : keys[id] # <<>> => keys'[id] # <<>> /\ keys'[id][1] = keys[id][1]
  BY KeysGrow DEF ServiceInv, ChangeIndex
<1>2. ASSUME request # None PROVE RequestInv(tree', keys', request')
  <2> DEFINE r == request
             w == witness(tree', keys', r)
  <2>1. request' = w /\ RequestInv(tree, keys, r)
    BY <1>2 DEF ChangeIndex, ServiceInv
  <2>2. /\ RequestType(r) /\ RequestType(w)
        /\ \A f \in Fields \ {"always", "ever"} : w[f] = r[f]
        /\ r.interface = "oidc" => (w.always <=> r.always /\ ownsFirst(tree', keys', r))
        /\ r.interface # "oidc" => (w.always <=> r.always /\ bareMatch(tree', keys', r))
        /\ r.interface # "oidc" => (w.ever <=> r.ever \/ anyMatch(tree', keys', r))
    BY <2>1, Witness DEF RequestInv
  <2> HIDE DEF w, r
  <2>3. /\ w.interface = r.interface /\ w.pc = r.pc /\ w.host = r.host /\ w.id = r.id /\ w.key = r.key
        /\ w.entry = r.entry /\ w.code = r.code /\ w.granted = r.granted /\ w.status = r.status
    BY <2>2 DEF Fields
  <2>4. r.interface # "oidc" => CheckInv(tree', keys', w)
    <3>1. bareMatch(tree', keys', w) = bareMatch(tree', keys', r) /\ anyMatch(tree', keys', w) = anyMatch(tree', keys', r)
      BY <2>3 DEF bareMatch, anyMatch
    <3> QED
      BY <2>1, <2>2, <2>3, <3>1 DEF RequestInv, CheckInv
  <2>5. r.interface = "oidc" => DiscoveryInv(tree', keys', w)
    <3>1. ownsFirst(tree', keys', w) = ownsFirst(tree', keys', r)
      BY <2>3 DEF ownsFirst
    <3>2. r.interface = "oidc" => r.id \in Ids
      BY <2>2 DEF RequestType
    <3> QED
      BY <1>1, <2>1, <2>2, <2>3, <3>1, <3>2 DEF RequestInv, DiscoveryInv
  <2> QED
    BY <2>1, <2>2, <2>3, <2>4, <2>5 DEF RequestInv
<1>3. request = None => request' = None
  BY DEF ChangeIndex
<1> QED
  BY <1>1, <1>2, <1>3 DEF ServiceInv

(***************************************************************************)
(* The steps of a check.                                                   *)
(***************************************************************************)
CheckStep(w) ==
  /\ request' = w /\ UNCHANGED <<tree, keys>>
  /\ w = [f \in Fields |-> w[f]]
  /\ w.interface = request.interface /\ w.id = request.id /\ w.host = request.host
  /\ w.always = request.always /\ w.ever = request.ever

LEMMA CheckKept ==
  ASSUME ServiceInv, request # None, request.interface # "oidc", NEW w, CheckStep(w),
         w.code \in Codes, w.deny \in {0} \cup 300..599, w.granted \in BOOLEAN,
         w.pc \in {"received", "built", "check", "retry", "found", "checked", "done", "aborted"},
         w.entry # None => w.ever,
         w.pc \in {"received", "built", "check", "retry"} => w.code = "OK" /\ w.entry = None /\ ~w.granted,
         w.pc = "found" => w.entry # None,
         w.pc = "checked" /\ w.code = "OK" => w.entry # None,
         w.code = "NOT_FOUND" => ~w.always,
         w.pc = "done" => (w.granted <=> w.code = "OK" /\ w.entry # None),
         w.pc = "done" /\ w.interface = "grpc" /\ ~w.granted => w.status \notin 200..299
  PROVE  ServiceInv'
<1>1. RequestType(w)
  BY DEF ServiceInv, RequestInv, RequestType, CheckStep
<1>2. /\ bareMatch(tree, keys, w) = bareMatch(tree, keys, request)
      /\ anyMatch(tree, keys, w) = anyMatch(tree, keys, request)
  BY DEF bareMatch, anyMatch, CheckStep
<1>3. CheckInv(tree, keys, w)
  BY <1>2 DEF CheckStep, ServiceInv, RequestInv, CheckInv
<1> QED
  BY <1>1, <1>3 DEF ServiceInv, RequestInv, CheckStep

LEMMA CheckGoes ==
  ASSUME ServiceInv, request # None, request.interface # "oidc",
         NEW pc \in {"built", "check", "retry", "aborted"}, goes(pc),
         pc # "aborted" => request.pc \in {"received", "built", "check"}
  PROVE  ServiceInv'
<1> DEFINE w == [request EXCEPT !.pc = pc]
<1>1. RequestType(request) /\ CheckInv(tree, keys, request)
  BY DEF ServiceInv, RequestInv
<1>2. CheckStep(w) /\ w.pc = pc
  BY <1>1 DEF CheckStep, goes, becomes, indexVars, RequestType, Fields
<1>3. w.code = request.code /\ w.deny = request.deny /\ w.granted = request.granted /\ w.entry = request.entry
  BY <1>1 DEF RequestType, Fields
<1> HIDE DEF w
<1> QED
  BY <1>1, <1>2, <1>3, CheckKept DEF RequestType, CheckInv, CheckStep

LEMMA CheckAnswered ==
  ASSUME ServiceInv, request # None, request.interface # "oidc",
         NEW granted \in BOOLEAN, NEW status, answer(granted, status),
         granted <=> request.code = "OK" /\ request.entry # None,
         request.interface = "grpc" /\ ~granted => status \notin 200..299
  PROVE  ServiceInv'
<1> DEFINE w == [request EXCEPT !.pc = "done", !.granted = granted, !.status = status]
<1>1. RequestType(request) /\ CheckInv(tree, keys, request)
  BY DEF ServiceInv, RequestInv
<1>2. CheckStep(w)
  <2>1. w = [f \in Fields |-> w[f]]
    BY <1>1 DEF RequestType, Fields
  <2>2. /\ w.interface = request.interface /\ w.id = request.id /\ w.host = request.host
        /\ w.always = request.always /\ w.ever = request.ever
    BY <1>1 DEF RequestType, Fields
  <2>3. request' = w /\ UNCHANGED <<tree, keys>>
    BY DEF answer, becomes, indexVars
  <2> HIDE DEF w
  <2> QED
    BY <2>1, <2>2, <2>3 DEF CheckStep
<1>3. /\ w.pc = "done" /\ w.granted = granted /\ w.status = status
      /\ w.code = request.code /\ w.deny = request.deny /\ w.entry = request.entry
  BY <1>1 DEF RequestType, Fields
<1> HIDE DEF w
<1> QED
  BY <1>1, <1>2, <1>3, CheckKept DEF RequestType, CheckInv, CheckStep

LEMMA CheckChecked ==
  ASSUME ServiceInv, request # None, request.interface # "oidc",
         NEW code \in Codes, NEW deny \in {0} \cup 300..599, checked(code, deny),
         code = "OK" => request.entry # None,
         code = "NOT_FOUND" => ~request.always
  PROVE  ServiceInv'
<1> DEFINE w == [request EXCEPT !.pc = "checked", !.code = code, !.deny = deny]
<1>1. RequestType(request) /\ CheckInv(tree, keys, request)
  BY DEF ServiceInv, RequestInv
<1>2. CheckStep(w)
  BY <1>1 DEF CheckStep, checked, becomes, indexVars, RequestType, Fields
<1>3. /\ w.pc = "checked" /\ w.code = code /\ w.deny = deny
      /\ w.granted = request.granted /\ w.entry = request.entry
  BY <1>1 DEF RequestType, Fields
<1> HIDE DEF w
<1> QED
  BY <1>1, <1>2, <1>3, CheckKept DEF RequestType, CheckInv, CheckStep

LEMMA CheckFinds ==
  ASSUME ServiceInv, request # None, request.interface # "oidc",
         request.pc \in {"check", "retry"},
         NEW entry, entry # None, request.ever, finds(entry)
  PROVE  ServiceInv'
<1> DEFINE w == [request EXCEPT !.pc = "found", !.entry = entry]
<1>1. RequestType(request) /\ CheckInv(tree, keys, request)
  BY DEF ServiceInv, RequestInv
<1>2. CheckStep(w)
  BY <1>1 DEF CheckStep, finds, becomes, indexVars, RequestType, Fields
<1>3. /\ w.pc = "found" /\ w.entry = entry
      /\ w.granted = request.granted /\ w.code = request.code /\ w.deny = request.deny
  BY <1>1 DEF RequestType, Fields
<1>4. request.code = "OK" /\ request.deny \in {0} \cup 300..599 /\ request.granted \in BOOLEAN
  BY <1>1 DEF RequestType, CheckInv
<1>5. w.ever
  BY <1>2 DEF CheckStep
<1> HIDE DEF w
<1> QED
  BY <1>2, <1>3, <1>4, <1>5, CheckKept DEF Codes

LEMMA CheckSteps ==
  ASSUME ServiceInv,
         ServeHTTP \/ CheckHTTP \/ Lookup \/ LookupWithoutPort \/ Evaluate \/ RespondGRPC \/ RespondHTTP
  PROVE  ServiceInv'
<1>0. /\ request # None /\ request.interface # "oidc"
      /\ RequestType(request) /\ CheckInv(tree, keys, request)
  <2>1. request # None /\ request.interface \in {"grpc", "http"}
    BY DEF ServeHTTP, CheckHTTP, Lookup, LookupWithoutPort, Evaluate, RespondGRPC, RespondHTTP, at
  <2> QED
    BY <2>1 DEF ServiceInv, RequestInv
<1>1. /\ request.host \notin DOMAIN WithoutPort => bare(request.host) = request.host
      /\ request.always => Get(bare(request.host)) # None
      /\ Get(request.host) # None => request.ever
      /\ Get(bare(request.host)) # None => request.ever
  BY <1>0 DEF CheckInv, bareMatch, anyMatch, found, Get, bare, hasPort
<1>2. CASE ServeHTTP
  <2>1. request.interface = "http" /\ request.pc = "received" /\ request.entry = None
    BY <1>0, <1>2 DEF ServeHTTP, at, CheckInv
  <2>2. ASSUME NEW status, answer(FALSE, status) PROVE ServiceInv'
    BY <1>0, <2>1, <2>2, CheckAnswered
  <2>3. ASSUME goes("built") PROVE ServiceInv'
    BY <1>0, <2>1, <2>3, CheckGoes
  <2> QED
    BY <1>2, <2>2, <2>3 DEF ServeHTTP
<1>3. CASE CheckHTTP
  <2>1. request.interface = "http" /\ request.pc = "built" /\ request.entry = None
    BY <1>0, <1>3 DEF CheckHTTP, at, CheckInv
  <2>2. ASSUME answer(FALSE, 503) PROVE ServiceInv'
    BY <1>0, <2>1, <2>2, CheckAnswered
  <2>3. ASSUME goes("check") PROVE ServiceInv'
    BY <1>0, <2>1, <2>3, CheckGoes
  <2> QED
    BY <1>3, <2>2, <2>3 DEF CheckHTTP
<1>4. ASSUME ~request.always, notFound PROVE ServiceInv'
  BY <1>0, <1>4, CheckChecked DEF notFound, Codes
<1>5. CASE Lookup
  <2>1. request.pc = "check"
    BY <1>5 DEF Lookup, at
  <2>2. CASE Get(request.host) # None
    BY <1>0, <1>1, <1>5, <2>1, <2>2, CheckFinds DEF Lookup
  <2>3. CASE Get(request.host) = None /\ hasPort(request.host)
    BY <1>0, <1>5, <2>1, <2>3, CheckGoes DEF Lookup
  <2>4. CASE Get(request.host) = None /\ ~hasPort(request.host)
    BY <1>0, <1>1, <1>4, <1>5, <2>4 DEF Lookup, hasPort, RequestType
  <2> QED
    BY <2>2, <2>3, <2>4
<1>6. CASE LookupWithoutPort
  <2>1. request.pc = "retry"
    BY <1>6 DEF LookupWithoutPort, at
  <2>2. CASE Get(bare(request.host)) # None
    BY <1>0, <1>1, <1>6, <2>1, <2>2, CheckFinds DEF LookupWithoutPort
  <2>3. CASE Get(bare(request.host)) = None
    BY <1>0, <1>1, <1>4, <1>6, <2>3 DEF LookupWithoutPort, RequestType
  <2> QED
    BY <2>2, <2>3
<1>7. CASE Evaluate
  <2>1. request.entry # None
    BY <1>0, <1>7 DEF Evaluate, at, CheckInv
  <2>2. ASSUME NEW code \in {"UNAVAILABLE", "OK", "UNAUTHENTICATED", "PERMISSION_DENIED"},
               NEW deny \in {0} \cup 300..599, checked(code, deny)
        PROVE  ServiceInv'
    BY <1>0, <2>1, <2>2, CheckChecked DEF Codes
  <2> QED
    BY <1>7, <2>2, DenyStatusesAssumption DEF Evaluate
<1>8. /\ statusCodeMapping(request.code) = 200 <=> request.code = "OK"
      /\ request.code # "OK" => statusCodeMapping(request.code) \in {0, 401, 403, 404}
  <2>1. request.code \in Codes
    BY <1>0 DEF RequestType
  <2>2. /\ statusCodeMapping("OK") = 200 /\ statusCodeMapping("NOT_FOUND") = 404
        /\ statusCodeMapping("UNAUTHENTICATED") = 401 /\ statusCodeMapping("PERMISSION_DENIED") = 403
        /\ statusCodeMapping("UNAVAILABLE") = 0
    BY DEF statusCodeMapping, statuses
  <2> QED
    BY <2>1, <2>2 DEF Codes
<1>9. CASE RespondGRPC
  <2>1. request.pc = "checked" /\ (request.code = "OK" => request.entry # None)
    BY <1>0, <1>9 DEF RespondGRPC, at, CheckInv
  <2>2. CASE request.code = "OK"
    BY <1>0, <1>9, <2>1, <2>2, CheckAnswered DEF RespondGRPC, successResponse
  <2>3. CASE request.code # "OK"
    <3> DEFINE status == IF request.deny # 0 THEN request.deny ELSE statusCodeMapping(request.code)
    <3>0. request.deny \in {0} \cup 300..599
      BY <1>0 DEF RequestType
    <3>1. status \notin 200..299
      <4>1. CASE request.deny # 0
        <5>1. status \in 300..599
          BY <3>0, <4>1
        <5> HIDE DEF status
        <5>2. PICK n \in 300..599 : n = status
          BY <5>1
        <5>3. n \notin 200..299
          OBVIOUS
        <5> QED
          BY <5>2, <5>3
      <4>2. CASE request.deny = 0
        BY <1>8, <2>3, <4>2
      <4> QED
        BY <4>1, <4>2
    <3>2. answer(FALSE, status)
      BY <1>9, <2>3 DEF RespondGRPC, deniedResponse
    <3> HIDE DEF status
    <3> QED
      BY <1>0, <2>3, <3>1, <3>2, CheckAnswered
  <2> QED
    BY <2>2, <2>3
<1>10. CASE RespondHTTP
  <2>1. request.pc = "checked" /\ (request.code = "OK" => request.entry # None) /\ request.interface = "http"
    BY <1>0, <1>10 DEF RespondHTTP, at, CheckInv
  <2>2. ASSUME NEW granted \in BOOLEAN, NEW status, answer(granted, status), granted <=> request.code = "OK"
        PROVE  ServiceInv'
    BY <1>0, <2>1, <2>2, CheckAnswered
  <2>3. ASSUME abort PROVE ServiceInv'
    BY <1>0, <2>3, CheckGoes DEF abort
  <2>4. CASE request.code = "OK"
    <3>1. answer(TRUE, 200)
      <4>1. (request.code = "OK") = TRUE /\ statusCodeMapping(request.code) = 200
        BY <1>8, <2>4
      <4>2. (statusCodeMapping(request.code) = 200) = TRUE /\ statusCodeMapping(request.code) # 0
        BY <4>1
      <4> QED
        BY <1>10, <4>1, <4>2, Zenon DEF RespondHTTP
    <3> QED
      BY <2>2, <2>4, <3>1
  <2>5. CASE request.code # "OK"
    <3>1. (\E status : answer(FALSE, status)) \/ abort
      <4>1. (request.code = "OK") = FALSE /\ statusCodeMapping(request.code) # 200
        BY <1>8, <2>5
      <4>2. (statusCodeMapping(request.code) = 200) = FALSE
        BY <4>1
      <4> QED
        BY <1>10, <4>1, <4>2, Zenon DEF RespondHTTP
    <3> QED
      BY <2>2, <2>3, <2>5, <3>1
  <2> QED
    BY <2>4, <2>5
<1> QED
  BY <1>2, <1>3, <1>5, <1>6, <1>7, <1>9, <1>10

(***************************************************************************)
(* The steps of a discovery.                                               *)
(***************************************************************************)
LEMMA DiscoveryKept ==
  ASSUME ServiceInv, request # None, request.interface = "oidc", NEW w, CheckStep(w),
         w.code = request.code, w.deny = request.deny, w.granted \in BOOLEAN,
         w.pc \in {"get", "issuer", "done", "aborted"},
         w.pc = "get" => keys[w.id] # <<>> /\ w.key = keys[w.id][1],
         w.always /\ w.entry # None => w.entry.id = w.id,
         w.pc = "aborted" => ~w.always
  PROVE  ServiceInv'
<1>1. RequestType(w)
  BY DEF ServiceInv, RequestInv, RequestType, CheckStep
<1>2. ownsFirst(tree, keys, w) = ownsFirst(tree, keys, request)
  BY DEF ownsFirst, CheckStep
<1>3. DiscoveryInv(tree, keys, w)
  BY <1>2 DEF CheckStep, ServiceInv, RequestInv, DiscoveryInv
<1> QED
  BY <1>1, <1>3 DEF ServiceInv, RequestInv, CheckStep

LEMMA DiscoverySteps ==
  ASSUME ServiceInv, FindHosts \/ FindWristbandIssuer \/ ServeDiscovery
  PROVE  ServiceInv'
<1>0. /\ request # None /\ request.interface = "oidc" /\ request.granted \in BOOLEAN
      /\ RequestType(request) /\ DiscoveryInv(tree, keys, request)
  <2>1. request # None /\ request.interface = "oidc"
    BY DEF FindHosts, FindWristbandIssuer, ServeDiscovery, at
  <2> QED
    BY <2>1 DEF ServiceInv, RequestInv, RequestType
<1>1. ASSUME NEW granted \in BOOLEAN, NEW status, answer(granted, status) PROVE ServiceInv'
  <2> DEFINE w == [request EXCEPT !.pc = "done", !.granted = granted, !.status = status]
  <2>1. w = [f \in Fields |-> w[f]]
    BY <1>0 DEF RequestType, Fields
  <2>2. /\ w.interface = request.interface /\ w.id = request.id /\ w.host = request.host
        /\ w.always = request.always /\ w.ever = request.ever
    BY <1>0 DEF RequestType, Fields
  <2>3. /\ w.pc = "done" /\ w.granted = granted
        /\ w.code = request.code /\ w.deny = request.deny /\ w.entry = request.entry
    BY <1>0 DEF RequestType, Fields
  <2>4. request' = w /\ UNCHANGED <<tree, keys>>
    BY <1>1 DEF answer, becomes, indexVars
  <2> HIDE DEF w
  <2>5. CheckStep(w)
    BY <2>1, <2>2, <2>4 DEF CheckStep
  <2> QED
    BY <1>0, <2>2, <2>3, <2>5, DiscoveryKept DEF DiscoveryInv
<1>2. ASSUME FindKeys(request.id) # <<>>,
             becomes([request EXCEPT !.pc = "get", !.key = FindKeys(request.id)[1]])
      PROVE  ServiceInv'
  <2> DEFINE w == [request EXCEPT !.pc = "get", !.key = FindKeys(request.id)[1]]
  <2>1. w = [f \in Fields |-> w[f]]
    BY <1>0 DEF RequestType, Fields
  <2>2. /\ w.interface = request.interface /\ w.id = request.id /\ w.host = request.host
        /\ w.always = request.always /\ w.ever = request.ever
    BY <1>0 DEF RequestType, Fields
  <2>3. /\ w.pc = "get" /\ w.key = keys[request.id][1] /\ w.granted = request.granted
        /\ w.code = request.code /\ w.deny = request.deny /\ w.entry = request.entry
    BY <1>0 DEF RequestType, Fields, FindKeys
  <2>4. request' = w /\ UNCHANGED <<tree, keys>>
    BY <1>2 DEF becomes, indexVars
  <2> HIDE DEF w
  <2>5. CheckStep(w)
    BY <2>1, <2>2, <2>4 DEF CheckStep
  <2> QED
    BY <1>0, <1>2, <2>2, <2>3, <2>5, DiscoveryKept DEF DiscoveryInv, FindKeys
<1>3. ASSUME FindWristbandIssuer PROVE ServiceInv'
  <2>0. /\ request.key = keys[request.id][1]
        /\ request.always => Get(request.key) # None /\ Get(request.key).id = request.id
    BY <1>0, <1>3 DEF FindWristbandIssuer, at, DiscoveryInv, ownsFirst, found, Get
  <2> DEFINE entry == Get(request.key)
             a == [request EXCEPT !.pc = "aborted"]
             w == [request EXCEPT !.pc = "issuer", !.entry = entry]
  <2>1. CASE entry = None
    <3>1. /\ a = [f \in Fields |-> a[f]]
          /\ a.interface = request.interface /\ a.id = request.id /\ a.host = request.host
          /\ a.always = request.always /\ a.ever = request.ever
          /\ a.pc = "aborted" /\ a.granted = request.granted
          /\ a.code = request.code /\ a.deny = request.deny /\ a.entry = request.entry
      BY <1>0 DEF RequestType, Fields
    <3>2. request' = a /\ UNCHANGED <<tree, keys>>
      BY <1>3, <2>1 DEF FindWristbandIssuer, abort, goes, becomes, indexVars
    <3> HIDE DEF a
    <3>3. CheckStep(a)
      BY <3>1, <3>2 DEF CheckStep
    <3> QED
      BY <1>0, <2>0, <2>1, <3>1, <3>3, DiscoveryKept DEF RequestType
  <2>2. CASE entry # None
    <3>1. /\ w = [f \in Fields |-> w[f]]
          /\ w.interface = request.interface /\ w.id = request.id /\ w.host = request.host
          /\ w.always = request.always /\ w.ever = request.ever
      BY <1>0 DEF RequestType, Fields
    <3>2. /\ w.pc = "issuer" /\ w.granted = request.granted
          /\ w.code = request.code /\ w.deny = request.deny /\ w.entry = entry
      BY <1>0 DEF RequestType, Fields
    <3>3. request' = w /\ UNCHANGED <<tree, keys>>
      BY <1>3, <2>2 DEF FindWristbandIssuer, becomes, indexVars
    <3> HIDE DEF w, entry
    <3>4. CheckStep(w)
      BY <3>1, <3>3 DEF CheckStep
    <3>5. w.always => w.entry.id = w.id
      BY <2>0, <3>1, <3>2 DEF entry
    <3> QED
      BY <1>0, <3>2, <3>4, <3>5, DiscoveryKept DEF RequestType
  <2> QED
    BY <2>1, <2>2
<1>4. CASE FindHosts
  BY <1>1, <1>2, <1>4 DEF FindHosts
<1>5. CASE ServeDiscovery
  BY <1>1, <1>5 DEF ServeDiscovery
<1> QED
  BY <1>3, <1>4, <1>5

LEMMA NewRequest ==
  ASSUME ServiceInv, NEW interface \in {"grpc", "http", "oidc"}, NEW pc, NEW host, NEW id, NEW name,
         new(interface, pc, host, id, name),
         interface # "oidc" => pc \in {"received", "check"},
         interface = "oidc" => pc = "find" /\ id \in Ids
  PROVE  ServiceInv'
<1> DEFINE r == [interface |-> interface, pc |-> pc, host |-> host, id |-> id, name |-> name,
                 key |-> None, entry |-> None, code |-> "OK", deny |-> 0,
                 always |-> TRUE, ever |-> FALSE, granted |-> FALSE, status |-> 0]
           w == witness(tree, keys, r)
<1>1. request' = w /\ UNCHANGED <<tree, keys>>
  BY DEF new, becomes, indexVars
<1>2. RequestType(r)
  BY DEF RequestType, Fields, Codes
<1>3. /\ r.interface = interface /\ r.pc = pc /\ r.host = host /\ r.id = id /\ r.entry = None
      /\ r.code = "OK" /\ ~r.granted
  OBVIOUS
<1> HIDE DEF r
<1>4. /\ RequestType(w)
      /\ \A f \in Fields \ {"always", "ever"} : w[f] = r[f]
      /\ r.interface = "oidc" => (w.always <=> r.always /\ ownsFirst(tree, keys, r))
      /\ r.interface # "oidc" => (w.always <=> r.always /\ bareMatch(tree, keys, r))
      /\ r.interface # "oidc" => (w.ever <=> r.ever \/ anyMatch(tree, keys, r))
  BY <1>2, Witness
<1> HIDE DEF w
<1>5. /\ w.interface = interface /\ w.pc = pc /\ w.host = host /\ w.id = id /\ w.entry = None
      /\ w.code = "OK" /\ w.granted = r.granted
  BY <1>3, <1>4 DEF Fields
<1>6. interface # "oidc" => CheckInv(tree, keys, w)
  <2>1. bareMatch(tree, keys, w) = bareMatch(tree, keys, r) /\ anyMatch(tree, keys, w) = anyMatch(tree, keys, r)
    BY <1>3, <1>5 DEF bareMatch, anyMatch
  <2> QED
    BY <1>3, <1>4, <1>5, <2>1 DEF CheckInv
<1>7. interface = "oidc" => DiscoveryInv(tree, keys, w)
  <2>1. ownsFirst(tree, keys, w) = ownsFirst(tree, keys, r)
    BY <1>3, <1>5 DEF ownsFirst
  <2> QED
    BY <1>3, <1>4, <1>5, <2>1 DEF DiscoveryInv
<1> QED
  BY <1>1, <1>4, <1>5, <1>6, <1>7 DEF ServiceInv, RequestInv

LEMMA ServiceNextInv == ServiceInv /\ [ServiceNext]_serviceVars => ServiceInv'
<1> SUFFICES ASSUME ServiceInv, [ServiceNext]_serviceVars PROVE ServiceInv'
  OBVIOUS
<1>1. CASE ChangeIndex
  BY <1>1, ChangeStep
<1>2. CASE Call
  BY <1>2, NewRequest DEF Call, CallCheck, CallHTTP, CallDiscovery
<1>3. CASE ServeHTTP \/ CheckHTTP \/ Lookup \/ LookupWithoutPort \/ Evaluate \/ RespondGRPC \/ RespondHTTP
  BY <1>3, CheckSteps
<1>4. CASE FindHosts \/ FindWristbandIssuer \/ ServeDiscovery
  BY <1>4, DiscoverySteps
<1>5. CASE Close
  BY <1>5 DEF Close, indexVars, ServiceInv
<1>6. CASE UNCHANGED serviceVars
  BY <1>6 DEF serviceVars, ServiceInv
<1> QED
  BY <1>1, <1>2, <1>3, <1>4, <1>5, <1>6 DEF ServiceNext

LEMMA ServiceInvariance == ServiceSpec => []ServiceInv
  BY ServiceInitInv, ServiceNextInv, PTL DEF ServiceSpec

(***************************************************************************)
(* Access is granted by the decision of a pipeline alone, and by each one  *)
(* that grants, on both interfaces (AuthService.Check, ServeHTTP).         *)
(***************************************************************************)
THEOREM OnlyDecisionsGrant == ServiceSpec => []GrantsAreDecisions
<1>1. ServiceInv => GrantsAreDecisions
  <2> SUFFICES ASSUME ServiceInv, done({"grpc", "http"})
               PROVE  /\ request.granted = (request.code = "OK" /\ request.entry # None)
                      /\ request.granted => request.ever
    BY DEF GrantsAreDecisions
  <2>1. CheckInv(tree, keys, request) /\ request.pc = "done" /\ request.granted \in BOOLEAN
    BY DEF ServiceInv, RequestInv, RequestType, done, at
  <2>2. request.granted <=> request.code = "OK" /\ request.entry # None
    BY <2>1 DEF CheckInv
  <2>3. request.granted = (request.code = "OK" /\ request.entry # None)
    BY <2>1, <2>2, Zenon
  <2> QED
    BY <2>1, <2>3 DEF CheckInv
<1> QED
  BY <1>1, ServiceInvariance, PTL

(***************************************************************************)
(* No denial has a status of success (deniedResponse, statusCodeMapping).  *)
(***************************************************************************)
THEOREM DenialsStayDenials == ServiceSpec => []DenialsAreNoSuccess
<1>1. ServiceInv => DenialsAreNoSuccess
  BY DEF ServiceInv, RequestInv, CheckInv, DenialsAreNoSuccess, done, at
<1> QED
  BY <1>1, ServiceInvariance, PTL

(***************************************************************************)
(* What stays linked is served, whatever else changes in the index between *)
(* the lookups of a request (AuthService.Check, findWristbandIssuer).      *)
(***************************************************************************)
THEOREM LinkedIsServed == ServiceSpec => []ServedWhileLinked
<1>1. ServiceInv => ServedWhileLinked
  BY DEF ServiceInv, RequestInv, CheckInv, DiscoveryInv, ServedWhileLinked
<1> QED
  BY <1>1, ServiceInvariance, PTL
=============================================================================
