---------------------------- MODULE MCReconciler ----------------------------
EXTENDS Reconciler

Wild == <<"*", "io">>
A == <<"a", "io">>
B == <<"b", "io">>

MCHosts == {Wild, A, B}

S(hosts, kind) == [hosts |-> hosts, kind |-> kind, watched |-> TRUE]
Unwatched(hosts) == [hosts |-> hosts, kind |-> "plain", watched |-> FALSE]

r1 == "r1"
r2 == "r2"
MCIds == {r1, r2}

\* A wildcard and the hosts below it, taken and released.
MCSpecsOf ==
  [id \in MCIds |-> IF id = r1 THEN {S(<<A>>, "plain"), S(<<Wild>>, "plain")}
                    ELSE {S(<<A, B>>, "plain"), Unwatched(<<B>>)}]

\* Subsets to supersede, workers, translations that fail, hosts that come and go.
MCFailuresSpecsOf ==
  [id \in MCIds |->
     IF id = r1 THEN {S(<<Wild>>, "async"), S(<<A, Wild>>, "plain"), S(<<A>>, "invalid")}
     ELSE {S(<<A>>, "async"), S(<<A, B>>, "plain"), S(<<B>>, "async")}]

\* A resource that moves to another host, and one that takes the host it had.
MCMovesSpecsOf ==
  [id \in MCIds |-> IF id = r1 THEN {S(<<A>>, "async"), S(<<B>>, "async")}
                    ELSE {S(<<A>>, "async")}]

MCConfigs == AuthConfig
=============================================================================
