--------------------------- MODULE MCAuthService ---------------------------
EXTENDS AuthService

CONSTANT c1

A == <<"a", "io">>
APort == <<"a", "io:1">>
Wild == <<"*", "io">>

\* A host, the same with a port, and a wildcard above the first.
MCHosts == {A, APort, Wild}

MCRequestHosts == {APort}

MCExtensions == {None, A}

MCWithoutPort == APort :> A

MCIssuers == c1 :> {"w"}

\* Only lookups read the index: changes of the index commute with all other
\* steps of a request, and are explored where a lookup is next or no request is.
LookupIsNext == request # None => request.pc \in {"check", "retry", "find", "get"}

IndexChangesBefore == LookupIsNext \/ UNCHANGED indexVars

\* After its last lookup a request goes on alike in every index, and the index
\* it leaves behind is also reached without it.
LookupsDone == request # None /\ request.pc \in {"found", "issuer", "checked", "done", "aborted"}

RequestView == IF LookupsDone THEN <<request>> ELSE serviceVars

Symmetry == Permutations(Ids)
=============================================================================
