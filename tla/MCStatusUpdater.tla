-------------------------- MODULE MCStatusUpdater --------------------------
EXTENDS StatusUpdater

S(hosts, sources, valid, watched) ==
  [hosts |-> hosts, sources |-> sources, valid |-> valid, watched |-> watched]

\* Hosts that come and go, a spec that is invalid, and labels that are removed.
MCSpecs ==
  {S({"a", "b"}, 1, TRUE, TRUE), S({"b"}, 2, TRUE, TRUE),
   S({"b"}, 1, FALSE, TRUE), S({"a", "b"}, 1, TRUE, FALSE)}
=============================================================================
