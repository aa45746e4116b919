--------------------------- MODULE MCAuthPipeline ---------------------------
EXTENDS AuthPipeline, TLC

\* The configs of each phase of the AuthConfig.
CONSTANTS Identity, Metadata, Authorization, Response, Callbacks

MCEvaluators == Identity \cup Metadata \cup Authorization \cup Response \cup Callbacks

MCPhaseOf ==
  [e \in MCEvaluators |->
     CASE e \in Identity -> "identity"
       [] e \in Metadata -> "metadata"
       [] e \in Authorization -> "authorization"
       [] e \in Response -> "response"
       [] OTHER -> "callbacks"]

\* The configs of a phase are alike: the priorities are chosen initially.
Symmetry ==
  Permutations(Identity) \cup Permutations(Metadata) \cup Permutations(Authorization)
    \cup Permutations(Response)
=============================================================================
