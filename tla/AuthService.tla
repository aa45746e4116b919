---------------------------- MODULE AuthService ----------------------------
(***************************************************************************)
(* The servers that answer from the index (pkg/service/auth.go, oidc.go):  *)
(* the authorization server, called as Envoy's gRPC service or as a plain  *)
(* HTTP endpoint, and the OpenID Connect discovery of wristband issuers.   *)
(* A request holds no lock of the index between two lookups, and the index *)
(* changes meanwhile.  Requests share nothing but the index, which they    *)
(* only read: one request at a time stands for any number of them.         *)
(*                                                                         *)
(* Every check of the context may find it expired: a request whose context *)
(* is found expired ends there, so that the expiry itself is no state.     *)
(***************************************************************************)
EXTENDS Index

CONSTANTS
  RequestHosts,     \* hosts that requests are for
  Extensions,       \* hosts of context extensions, None for no extension
  WithoutPort,      \* for those with a port, the host without it
  EvaluatorNames,   \* names of response evaluators
  Issuers,          \* Issuers[cfg], the ones that issue wristbands
  DenyStatuses,     \* status codes of denyWith, 0 for none
  Timeout           \* whether requests have a timeout

\* The API takes codes of 3xx to 5xx.
ASSUME DenyStatusesAssumption == DenyStatuses \subseteq {0} \cup 300..599

VARIABLE request    \* None, or the request that is served

serviceVars == <<tree, keys, request>>

(***************************************************************************)
(* A code that is not in the map gives the zero value.                     *)
(***************************************************************************)
statuses ==
  [OK |-> 200, FAILED_PRECONDITION |-> 400, NOT_FOUND |-> 404, UNAUTHENTICATED |-> 401,
   PERMISSION_DENIED |-> 403]

\* Mutant: OK is the default.
mappingToOK(code) == IF code \in DOMAIN statuses THEN statuses[code] ELSE 200

statusCodeMapping(code) == IF code \in DOMAIN statuses THEN statuses[code] ELSE 0

----------------------------------------------------------------------------
(***************************************************************************)
(* What a request could rely on in an index t, ks: a match for its host,   *)
(* with or without the port; a match for the host without port; the first  *)
(* key of the resource whose issuer it asks for.  The fields ever and      *)
(* always record whether it could at some or at each instant since it      *)
(* came.                                                                   *)
(***************************************************************************)
found(t, key) == get(t, revertKey(key))

hasPort(host) == host \in DOMAIN WithoutPort

bare(host) == IF hasPort(host) THEN WithoutPort[host] ELSE host

anyMatch(t, ks, r) == found(t, r.host) # None \/ found(t, bare(r.host)) # None

bareMatch(t, ks, r) == found(t, bare(r.host)) # None

ownsFirst(t, ks, r) ==
  /\ ks[r.id] # <<>>
  /\ found(t, ks[r.id][1]) # None
  /\ found(t, ks[r.id][1]).id = r.id

witness(t, ks, r) ==
  IF r.interface = "oidc"
  THEN [r EXCEPT !.always = @ /\ ownsFirst(t, ks, r)]
  ELSE [r EXCEPT !.always = @ /\ bareMatch(t, ks, r), !.ever = @ \/ anyMatch(t, ks, r)]

\* Reconciliations of any resource.
ChangeIndex ==
  /\ IndexNext
  /\ request' = IF request = None THEN None ELSE witness(tree', keys', request)

----------------------------------------------------------------------------
at(interfaces, pc) == request # None /\ request.interface \in interfaces /\ request.pc = pc

becomes(r) == request' = r /\ UNCHANGED indexVars

goes(pc) == becomes([request EXCEPT !.pc = pc])

answer(granted, status) ==
  becomes([request EXCEPT !.pc = "done", !.granted = granted, !.status = status])

\* The handler panics; net/http closes the connection without a response.
abort == goes("aborted")

(***************************************************************************)
(* A new request: of a check the host, of a discovery the resource and the *)
(* evaluator.                                                              *)
(***************************************************************************)
new(interface, pc, host, id, name) ==
  /\ request = None
  /\ becomes(witness(tree, keys,
       [interface |-> interface, pc |-> pc, host |-> host, id |-> id, name |-> name,
        key |-> None, entry |-> None, code |-> "OK", deny |-> 0,
        always |-> TRUE, ever |-> FALSE, granted |-> FALSE, status |-> 0]))

(***************************************************************************)
(* Check, called by Envoy: the host to look up may come in an extension of *)
(* the context of the request, in place of the host of the request.        *)
(***************************************************************************)
CallCheck(host, extension) ==
  new("grpc", "check", IF extension # None THEN extension ELSE host, None, None)

CallHTTP(host) == new("http", "received", host, None, None)

(***************************************************************************)
(* ServeHTTP, up to the body: the method or the path is not of the check,  *)
(* the context is expired, the body is too large or breaks off.            *)
(***************************************************************************)
ServeHTTP ==
  /\ at({"http"}, "received")
  /\ \/ answer(FALSE, 404)
     \/ Timeout /\ answer(FALSE, 503)
     \/ \E status \in {413, 400} : answer(FALSE, status)
     \/ goes("built")

CheckHTTP ==
  /\ at({"http"}, "built")
  /\ \/ Timeout /\ answer(FALSE, 503)
     \/ goes("check")

checked(code, deny) == becomes([request EXCEPT !.pc = "checked", !.code = code, !.deny = deny])

notFound == checked("NOT_FOUND", 0)

finds(entry) == becomes([request EXCEPT !.pc = "found", !.entry = entry])

\* Mutant: the port is not removed.
LookupOnce ==
  /\ at({"grpc", "http"}, "check")
  /\ LET entry == Get(request.host)
     IN  IF entry # None THEN finds(entry) ELSE notFound

(***************************************************************************)
(* Check: the lookup of the host and, when there is none and it has a      *)
(* port, the lookup of the host without it.                                *)
(***************************************************************************)
Lookup ==
  /\ at({"grpc", "http"}, "check")
  /\ LET entry == Get(request.host)
     IN  IF entry # None THEN finds(entry)
         ELSE IF hasPort(request.host) THEN goes("retry") ELSE notFound

\* Mutant: what was not found is not denied.
LookupUnguarded ==
  /\ at({"grpc", "http"}, "retry")
  /\ finds(Get(bare(request.host)))

LookupWithoutPort ==
  /\ at({"grpc", "http"}, "retry")
  /\ LET entry == Get(bare(request.host))
     IN  IF entry # None THEN finds(entry) ELSE notFound

(***************************************************************************)
(* Check: the context, then the pipeline (module AuthPipeline), whose      *)
(* denials carry the status of the AuthConfig's denyWith.                  *)
(***************************************************************************)
Evaluate ==
  /\ at({"grpc", "http"}, "found")
  /\ \/ Timeout /\ checked("UNAVAILABLE", 0)
     \/ checked("OK", 0)
     \/ \E code \in {"UNAUTHENTICATED", "PERMISSION_DENIED"}, deny \in DenyStatuses : checked(code, deny)

successResponse == answer(TRUE, 200)

deniedResponse ==
  answer(FALSE, IF request.deny # 0 THEN request.deny ELSE statusCodeMapping(request.code))

RespondGRPC ==
  /\ at({"grpc"}, "checked")
  /\ IF request.code = "OK" THEN successResponse ELSE deniedResponse

(***************************************************************************)
(* ServeHTTP, with the response of Check: an admission review is answered  *)
(* with one, that allows or not; any other request with a status, by which *)
(* it is granted or not.  net/http panics on a status that is none.        *)
(***************************************************************************)
RespondHTTP ==
  /\ at({"http"}, "checked")
  /\ LET status == statusCodeMapping(request.code)
     IN  \/ answer(request.code = "OK", 200)
         \/ status # 0 /\ answer(status = 200, status)
         \/ status = 0 /\ abort

----------------------------------------------------------------------------
(***************************************************************************)
(* OidcService.ServeHTTP: the path names a resource, an evaluator and a    *)
(* document, or it is not found.                                           *)
(***************************************************************************)
CallDiscovery(id, name) == new("oidc", "find", None, id, name)

FindHosts ==
  /\ at({"oidc"}, "find")
  /\ \/ answer(FALSE, 404)
     \/ /\ FindKeys(request.id) # <<>>
        /\ becomes([request EXCEPT !.pc = "get", !.key = FindKeys(request.id)[1]])

(***************************************************************************)
(* findWristbandIssuer reads the configuration of whatever AuthConfig the  *)
(* lookup of that host finds, and panics when there is none.               *)
(***************************************************************************)
FindWristbandIssuer ==
  /\ at({"oidc"}, "get")
  /\ LET entry == Get(request.key)
     IN  IF entry = None THEN abort
         ELSE becomes([request EXCEPT !.pc = "issuer", !.entry = entry])

(***************************************************************************)
(* The document asked for, 404 when it is none that issuers have, 500 when *)
(* it cannot be rendered.                                                  *)
(***************************************************************************)
ServeDiscovery ==
  /\ at({"oidc"}, "issuer")
  /\ \/ answer(FALSE, 404)
     \/ /\ request.name \in Issuers[request.entry.cfg]
        /\ answer(TRUE, 200) \/ answer(FALSE, 500)

Close ==
  /\ request # None /\ request.pc \in {"done", "aborted"}
  /\ request' = None
  /\ UNCHANGED indexVars

----------------------------------------------------------------------------
ServiceInit == IndexInit /\ request = None

Call ==
  \/ \E host \in RequestHosts, extension \in Extensions : CallCheck(host, extension)
  \/ \E host \in RequestHosts : CallHTTP(host)
  \/ \E id \in Ids, name \in EvaluatorNames : CallDiscovery(id, name)

ServiceNext ==
  \/ ChangeIndex \/ Call
  \/ ServeHTTP \/ CheckHTTP \/ Lookup \/ LookupWithoutPort \/ Evaluate \/ RespondGRPC \/ RespondHTTP
  \/ FindHosts \/ FindWristbandIssuer \/ ServeDiscovery \/ Close

ServiceSpec == ServiceInit /\ [][ServiceNext]_serviceVars

----------------------------------------------------------------------------
done(interfaces) == at(interfaces, "done")

(***************************************************************************)
(* Access is granted only by the decision of a pipeline, and by every one  *)
(* that grants it, whichever interface it is asked through; and only when  *)
(* the host, or the host without its port, had an AuthConfig at some time  *)
(* since the request came (AuthService.Check, ServeHTTP).                  *)
(***************************************************************************)
GrantsAreDecisions ==
  done({"grpc", "http"}) =>
    /\ request.granted = (request.code = "OK" /\ request.entry # None)
    /\ request.granted => request.ever

(***************************************************************************)
(* A denial never reaches the client of Envoy with a status of success,    *)
(* whatever the denyWith of the AuthConfig and the code of the denial, one *)
(* that has no status in the map included (deniedResponse,                 *)
(* statusCodeMapping).                                                     *)
(***************************************************************************)
DenialsAreNoSuccess ==
  done({"grpc"}) /\ ~request.granted => request.status \notin 200..299

(***************************************************************************)
(* A request is served as long as what it asks for stays linked, whatever  *)
(* else changes in the index meanwhile and between the lookups: a request  *)
(* to a host, with or without a port, when the host without the port has a *)
(* match all along (Check); one for the discovery of a resource's issuer,  *)
(* by that resource, when its first key is its own all along               *)
(* (findWristbandIssuer).                                                  *)
(***************************************************************************)
ServedWhileLinked ==
  (request # None /\ request.always) =>
    IF request.interface = "oidc"
    THEN /\ request.pc # "aborted"
         /\ request.entry # None => request.entry.id = request.id
    ELSE request.pc \in {"checked", "done"} => request.code # "NOT_FOUND"
=============================================================================
