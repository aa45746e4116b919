---------------------------- MODULE MCEvaluators ----------------------------
(***************************************************************************)
(* The evaluators with state of their own, one in each behaviour: either   *)
(* the ones that hold Secrets (module Secrets, the kind "secrets") or one  *)
(* of module Evaluators.                                                   *)
(***************************************************************************)
EXTENDS MCSecrets, Evaluators

HoldsSecrets == kind = "secrets"

\* Documents that are not broken are alike: the first one may be any of them.
MCInit ==
  /\ Init /\ EvaluatorsInit
  /\ published = CHOOSE d \in Documents \ Broken : TRUE

MCNext ==
  \/ HoldsSecrets /\ Next /\ UNCHANGED evaluatorVars
  \/ ~HoldsSecrets /\ EvaluatorsNext /\ UNCHANGED vars

allVars == <<vars, evaluatorVars>>

Step(secretsStep, evaluatorsStep) ==
  \/ HoldsSecrets /\ secretsStep /\ UNCHANGED evaluatorVars
  \/ ~HoldsSecrets /\ evaluatorsStep /\ UNCHANGED vars

(***************************************************************************)
(* The fairness of both modules: a conjunct is about an action of each, as *)
(* no behaviour has steps of both.                                         *)
(***************************************************************************)
MCFairSpec ==
  /\ MCInit /\ [][MCNext]_allVars
  /\ WF_allVars(Step(TranslateAuthConfig, Tick)) /\ WF_allVars(Step(LinkAuthConfig, Update))
  /\ SF_allVars(Step(ListSecrets("apiKey"), Fetch)) /\ SF_allVars(Step(ListSecrets("mtls"), Exit))
  /\ \A r \in Requests : WF_allVars(Step(FALSE, Evaluation(r)))
  /\ \A k \in CacheKeys : WF_allVars(Step(FALSE, ExpireEntry(k)))
=============================================================================
