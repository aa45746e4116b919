---------------------------- MODULE AuthPipeline ----------------------------
(***************************************************************************)
(* The evaluation of one request (pkg/service/auth_pipeline.go): five      *)
(* phases, in each of which the evaluators run in blocks of one priority,  *)
(* a goroutine each, that share a context and a channel of responses.      *)
(***************************************************************************)
EXTENDS Naturals, Sequences, FiniteSets

CONSTANTS
  Evaluators,
  PhaseOf,          \* the phase of each evaluator
  Priorities,
  ExtensionErrors,  \* whether the extension of an identity may fail
  Timeouts,         \* whether the context of the request may expire
  None

Phases == {"identity", "metadata", "authorization", "response", "callbacks"}

ASSUME PhaseOfAssumption == PhaseOf \in [Evaluators -> Phases]
ASSUME PrioritiesAssumption == Priorities \subseteq Nat
ASSUME FlagsAssumption == ExtensionErrors \in BOOLEAN /\ Timeouts \in BOOLEAN
ASSUME NoneIsNoValue == None \notin Evaluators /\ None \notin Priorities

VARIABLES
  priority,   \* the priority that the AuthConfig gives each evaluator
  phase,      \* where Evaluate is
  blocks,     \* the priorities of the phase still to come
  block,      \* the one being evaluated, None between two
  stage,      \* where the goroutine of each evaluator is
  outcome,    \* what became of each evaluator
  chan,       \* for each phase the channel of its last block
  cancelled,  \* the phases in which the context of the last block is cancelled
  expired,    \* whether the context of the request has expired
  identity,   \* pipeline.Identity: for each config the one whose object is stored
  stored,     \* the configs with an object in the other maps of the pipeline
  verified,   \* the config with which the identity phase succeeded
  code        \* the code of the result

control == <<phase, blocks, block>>
goroutines == <<stage, outcome, chan, cancelled>>
results == <<identity, stored, verified, code>>
vars == <<priority, phase, blocks, block, stage, outcome, chan, cancelled, expired,
          identity, stored, verified, code>>

Of(ph) == {e \in Evaluators : PhaseOf[e] = ph}

Block(ph, p) == {e \in Of(ph) : priority[e] = p}

NewAuthPipeline ==
  /\ priority \in [Evaluators -> Priorities]
  /\ phase = "start" /\ blocks = {} /\ block = None
  /\ stage = [e \in Evaluators |-> "none"]
  /\ outcome = [e \in Evaluators |-> "none"]
  /\ chan = [ph \in Phases |-> <<>>]
  /\ cancelled = {}
  /\ expired = FALSE
  /\ identity = [e \in Of("identity") |-> None]
  /\ stored = {}
  /\ verified = None
  /\ code = "OK"

----------------------------------------------------------------------------
(***************************************************************************)
(* The goroutine of an evaluator: evaluateAuthConfig.                      *)
(***************************************************************************)
done(e) == expired \/ PhaseOf[e] \in cancelled

CheckContext(e) ==
  /\ stage[e] = "launched"
  /\ \/ /\ done(e)
        /\ stage' = [stage EXCEPT ![e] = "returned"]
        /\ outcome' = [outcome EXCEPT ![e] = "skipped"]
     \/ /\ ~done(e)
        /\ stage' = [stage EXCEPT ![e] = "active"]
        /\ UNCHANGED outcome
  /\ UNCHANGED <<priority, control, chan, cancelled, expired, results>>

(***************************************************************************)
(* Conditions are over the request and the objects stored so far.          *)
(***************************************************************************)
evaluateConditions(e) ==
  /\ stage[e] = "active"
  /\ \/ /\ stage' = [stage EXCEPT ![e] = "returned"]
        /\ outcome' = [outcome EXCEPT ![e] = "ignored"]
     \/ /\ stage' = [stage EXCEPT ![e] = "calling"]
        /\ UNCHANGED outcome
  /\ UNCHANGED <<priority, control, chan, cancelled, expired, results>>

(***************************************************************************)
(* Mutant: the channel has room for one response.                          *)
(***************************************************************************)
capacityOne(ph, p) == 1

(***************************************************************************)
(* Call returns an object or an error, which is due to the context if that *)
(* is done by then.  The channel has room for a response of each config.   *)
(***************************************************************************)
capacity(ph, p) == Cardinality(Block(ph, p))

Call(e) ==
  LET ph == PhaseOf[e]
  IN  /\ stage[e] = "calling"
      /\ Len(chan[ph]) < capacity(ph, priority[e])
      /\ \E o \in {"ok", "error"} \cup (IF done(e) THEN {"aborted"} ELSE {}) :
           outcome' = [outcome EXCEPT ![e] = o]
      /\ chan' = [chan EXCEPT ![ph] = Append(@, e)]
      /\ stage' = [stage EXCEPT ![e] = "sent"]
      /\ UNCHANGED <<priority, control, cancelled, expired, results>>

(***************************************************************************)
(* Mutants: all phases but metadata with the strategy of one of them.      *)
(***************************************************************************)
cancelsOnSuccess(e) == PhaseOf[e] \in {"identity", "authorization"} /\ outcome[e] = "ok"

cancelsOnFailure(e) ==
  PhaseOf[e] \in {"identity", "authorization", "response"} /\ outcome[e] # "ok"

(***************************************************************************)
(* The strategies: evaluateOneAuthConfig cancels on a success,             *)
(* evaluateAllAuthConfigs on a failure, evaluateAnyAuthConfig never.       *)
(***************************************************************************)
cancels(e) ==
  \/ PhaseOf[e] = "identity" /\ outcome[e] = "ok"
  \/ PhaseOf[e] \in {"authorization", "response"} /\ outcome[e] # "ok"

Return(e) ==
  /\ stage[e] = "sent"
  /\ stage' = [stage EXCEPT ![e] = "returned"]
  /\ cancelled' = IF cancels(e) THEN cancelled \cup {PhaseOf[e]} ELSE cancelled
  /\ UNCHANGED <<priority, control, outcome, chan, expired, results>>

evaluateAuthConfig(e) ==
  CheckContext(e) \/ evaluateConditions(e) \/ Call(e) \/ Return(e)

----------------------------------------------------------------------------
enterPhase(ph) ==
  /\ phase' = ph
  /\ blocks' = {priority[e] : e \in Of(ph)}
  /\ block' = None

leave == phase' = "end" /\ blocks' = {} /\ block' = None

(***************************************************************************)
(* Evaluate: the AuthConfig is skipped if its conditions do not match.     *)
(***************************************************************************)
Evaluate ==
  /\ phase = "start"
  /\ leave \/ enterPhase("identity")
  /\ UNCHANGED <<priority, goroutines, expired, results>>

(***************************************************************************)
(* The blocks go by increasing priority, each with a context and a channel *)
(* of its own (groupAuthConfigsByPriority, evaluateAuthConfigs).           *)
(***************************************************************************)
StartBlock ==
  /\ block = None
  /\ \E p \in blocks :
       /\ \A q \in blocks : p <= q
       /\ block' = p
       /\ blocks' = blocks \ {p}
       /\ stage' = [e \in Evaluators |-> IF e \in Block(phase, p) THEN "launched" ELSE stage[e]]
  /\ chan' = [chan EXCEPT ![phase] = <<>>]
  /\ cancelled' = cancelled \ {phase}
  /\ UNCHANGED <<priority, phase, outcome, expired, results>>

response == Head(chan[phase])

received ==
  /\ block # None
  /\ chan[phase] # <<>>
  /\ chan' = [chan EXCEPT ![phase] = Tail(@)]

(***************************************************************************)
(* The first identity that can be extended ends the phase, and so does a   *)
(* failure of the only config.  What is extended is what                   *)
(* GetResolvedIdentity picks, in the random order of a map, among the      *)
(* objects stored.                                                         *)
(***************************************************************************)
extendable(objs) == {objs[e] : e \in {f \in DOMAIN objs : objs[f] # None}}

identityFailed ==
  \/ /\ Of("identity") = {response}
     /\ code' = "UNAUTHENTICATED"
     /\ enterPhase("callbacks")
  \/ /\ Of("identity") # {response}
     /\ UNCHANGED <<control, code>>

ReceiveIdentity ==
  /\ phase = "identity"
  /\ received
  /\ LET set == [identity EXCEPT ![response] = response]
     IN  \/ /\ outcome[response] = "ok"
            /\ \E resolved \in extendable(set) : identity' = [set EXCEPT ![response] = resolved]
            /\ verified' = response
            /\ enterPhase("metadata")
            /\ UNCHANGED code
         \/ /\ outcome[response] = "ok"
            /\ ExtensionErrors
            /\ identity' = set
            /\ UNCHANGED verified
            /\ identityFailed
         \/ /\ outcome[response] # "ok"
            /\ UNCHANGED <<identity, verified>>
            /\ identityFailed
  /\ UNCHANGED <<priority, stage, outcome, cancelled, expired, stored>>

(***************************************************************************)
(* The other phases store the objects.  The first failure ends the phase   *)
(* of authorization; the other phases only log it.                         *)
(***************************************************************************)
ReceiveObject ==
  /\ phase # "identity"
  /\ received
  /\ \/ /\ outcome[response] = "ok"
        /\ stored' = stored \cup {response}
        /\ UNCHANGED <<control, code>>
     \/ /\ outcome[response] # "ok"
        /\ phase = "authorization"
        /\ code' = "PERMISSION_DENIED"
        /\ enterPhase("callbacks")
        /\ UNCHANGED stored
     \/ /\ outcome[response] # "ok"
        /\ phase # "authorization"
        /\ UNCHANGED <<control, stored, code>>
  /\ UNCHANGED <<priority, stage, outcome, cancelled, expired, identity, verified>>

(***************************************************************************)
(* The channel is closed when all goroutines of the block have returned.   *)
(***************************************************************************)
closed == \A e \in Block(phase, block) : stage[e] = "returned"

(***************************************************************************)
(* Mutant: the block ends when there is nothing left in the channel.       *)
(***************************************************************************)
EndBlockEarly ==
  /\ block # None
  /\ chan[phase] = <<>>
  /\ block' = None
  /\ UNCHANGED <<priority, phase, blocks, goroutines, expired, results>>

EndBlock ==
  /\ block # None
  /\ chan[phase] = <<>>
  /\ closed
  /\ block' = None
  /\ UNCHANGED <<priority, phase, blocks, goroutines, expired, results>>

(***************************************************************************)
(* Mutant: the callbacks are left out when there is no identity.           *)
(***************************************************************************)
EndPhaseNoCallbacks ==
  /\ block = None /\ blocks = {}
  /\ \/ /\ phase = "identity"
        /\ code' = "UNAUTHENTICATED"
        /\ leave
     \/ /\ phase = "metadata"
        /\ enterPhase("authorization")
        /\ UNCHANGED code
     \/ /\ phase = "authorization"
        /\ enterPhase("response")
        /\ UNCHANGED code
     \/ /\ phase = "response"
        /\ enterPhase("callbacks")
        /\ UNCHANGED code
     \/ /\ phase = "callbacks"
        /\ leave
        /\ UNCHANGED code
  /\ UNCHANGED <<priority, goroutines, expired, identity, stored, verified>>

EndPhase ==
  /\ block = None /\ blocks = {}
  /\ \/ /\ phase = "identity"
        /\ code' = "UNAUTHENTICATED"
        /\ enterPhase("callbacks")
     \/ /\ phase = "metadata"
        /\ enterPhase("authorization")
        /\ UNCHANGED code
     \/ /\ phase = "authorization"
        /\ enterPhase("response")
        /\ UNCHANGED code
     \/ /\ phase = "response"
        /\ enterPhase("callbacks")
        /\ UNCHANGED code
     \/ /\ phase = "callbacks"
        /\ leave
        /\ UNCHANGED code
  /\ UNCHANGED <<priority, goroutines, expired, identity, stored, verified>>

Main == Evaluate \/ StartBlock \/ ReceiveIdentity \/ ReceiveObject \/ EndBlock \/ EndPhase

(***************************************************************************)
(* The deadline of the server passes, or the client goes away.             *)
(***************************************************************************)
Expire ==
  /\ Timeouts
  /\ ~expired
  /\ expired' = TRUE
  /\ UNCHANGED <<priority, control, goroutines, results>>

Next == Main \/ Expire \/ \E e \in Evaluators : evaluateAuthConfig(e)

Spec == NewAuthPipeline /\ [][Next]_vars

(***************************************************************************)
(* Fairness: goroutines are scheduled, and the calls of evaluators return. *)
(***************************************************************************)
FairSpec == Spec /\ WF_vars(Main) /\ \A e \in Evaluators : WF_vars(evaluateAuthConfig(e))

----------------------------------------------------------------------------
Stages == {"none", "launched", "active", "calling", "sent", "returned"}
Outcomes == {"none", "skipped", "ignored", "ok", "error", "aborted"}

(***************************************************************************)
(* The variables have their types: the maps of the pipeline only hold the  *)
(* configs they are for, and each channel responses of its phase           *)
(* (AuthPipeline).                                                         *)
(***************************************************************************)
TypeOK ==
  /\ priority \in [Evaluators -> Priorities]
  /\ phase \in Phases \cup {"start", "end"}
  /\ blocks \subseteq Priorities
  /\ block \in Priorities \cup {None}
  /\ stage \in [Evaluators -> Stages]
  /\ outcome \in [Evaluators -> Outcomes]
  /\ chan \in [Phases -> Seq(Evaluators)]
  /\ \A ph \in Phases : \A i \in 1..Len(chan[ph]) : PhaseOf[chan[ph][i]] = ph
  /\ cancelled \subseteq Phases
  /\ expired \in BOOLEAN
  /\ identity \in [Of("identity") -> Of("identity") \cup {None}]
  /\ stored \subseteq Evaluators \ Of("identity")
  /\ verified \in Of("identity") \cup {None}
  /\ code \in {"OK", "UNAUTHENTICATED", "PERMISSION_DENIED"}

(***************************************************************************)
(* A request gets past the authorization phase only if an identity was     *)
(* verified and every policy was either evaluated and granted or excluded  *)
(* by its conditions: no policy is left out because a sibling was faster   *)
(* (Evaluate, evaluateAuthorizationConfigs, evaluateAllAuthConfigs).       *)
(***************************************************************************)
OKMeansAllGranted ==
  phase = "response" \/ (phase = "callbacks" /\ code = "OK") =>
    /\ verified # None /\ outcome[verified] = "ok"
    /\ \A e \in Of("authorization") : outcome[e] \in {"ok", "ignored"}

(***************************************************************************)
(* Whether an identity config failed by itself, was excluded by its        *)
(* conditions, or was verified, itself or one of its block that cancelled  *)
(* the others, and could then not be extended.                             *)
(***************************************************************************)
refused(e) ==
  \/ outcome[e] \in {"error", "ignored"}
  \/ \E f \in Of("identity") : priority[f] = priority[e] /\ identity[f] # None

(***************************************************************************)
(* A request is denied for a cause: as unauthenticated only if every       *)
(* identity config is refused, as unauthorized only if some policy denied  *)
(* it by itself, not because its context was cancelled                     *)
(* (evaluateIdentityConfigs, evaluateAuthConfig).                          *)
(***************************************************************************)
DeniedForCause ==
  /\ code = "UNAUTHENTICATED" => \A e \in Of("identity") : refused(e)
  /\ code = "PERMISSION_DENIED" =>
       \E e \in Of("authorization") : outcome[e] = "error"

(***************************************************************************)
(* Blocks do not overlap: when an evaluator has been launched, those of    *)
(* its phase with a lower priority number have returned, and their objects *)
(* are stored for its conditions to see (groupAuthConfigsByPriority and    *)
(* the loops over the channel of a block).                                 *)
(***************************************************************************)
BlocksInSequence ==
  \A e, f \in Evaluators :
    PhaseOf[e] = PhaseOf[f] /\ priority[f] < priority[e] /\ stage[e] # "none" =>
      /\ stage[f] = "returned"
      /\ outcome[f] = "ok" => IF PhaseOf[f] = "identity" THEN identity[f] # None ELSE f \in stored


(***************************************************************************)
(* Every callback is called, or excluded by its conditions, whatever the   *)
(* result (Evaluate, executeCallbacks).                                    *)
(***************************************************************************)
CallbacksAreCalled ==
  phase = "end" /\ (\E e \in Evaluators : stage[e] # "none") =>
    \A e \in Of("callbacks") : outcome[e] \in {"ok", "error", "ignored"}

(***************************************************************************)
(* Evaluate returns, and so does every goroutine it started, also those of *)
(* a block whose responses are no longer read: their channel has room      *)
(* (evaluateIdentityConfigs, evaluateAuthorizationConfigs).                *)
(***************************************************************************)
AllReturn == <>[](phase = "end" /\ \A e \in Evaluators : stage[e] \in {"none", "returned"})
=============================================================================
