------------------------- MODULE AuthPipelineProofs -------------------------
(***************************************************************************)
(* The result of the pipeline does not depend on how its goroutines are    *)
(* interleaved, for any AuthConfig.  The argument is about the block being *)
(* evaluated: a response that decides the phase is in the channel until it *)
(* is received, and the context is cancelled only once there is one.       *)
(***************************************************************************)
EXTENDS AuthPipeline, SequencesExt, TLAPS

Later ==
  [start |-> Phases,
   identity |-> {"metadata", "authorization", "response", "callbacks"},
   metadata |-> {"authorization", "response", "callbacks"},
   authorization |-> {"response", "callbacks"},
   response |-> {"callbacks"},
   callbacks |-> {},
   end |-> {}]

Sent == {"ok", "error", "aborted"}

Kept(e) == IF PhaseOf[e] = "identity" THEN identity[e] # None ELSE e \in stored

(***************************************************************************)
(* An evaluator has an outcome from the moment its response is sent.       *)
(***************************************************************************)
StageInv ==
  \A e \in Evaluators :
    /\ stage[e] \in {"none", "launched", "active", "calling"} => outcome[e] = "none"
    /\ stage[e] = "sent" => outcome[e] \in Sent
    /\ stage[e] = "returned" => outcome[e] # "none"

(***************************************************************************)
(* Nothing has happened in the phases to come.                             *)
(***************************************************************************)
LaterInv ==
  \A ph \in Later[phase] :
    /\ chan[ph] = <<>>
    /\ ph \notin cancelled
    /\ \A e \in Of(ph) : stage[e] = "none"

(***************************************************************************)
(* The blocks that have not been started are the last ones of the phase.   *)
(***************************************************************************)
BlocksInv ==
  phase \in Phases =>
    /\ \A e \in Of(phase) : stage[e] = "none" <=> priority[e] \in blocks
    /\ \A e \in Of(phase) : priority[e] \notin blocks => \A q \in blocks : priority[e] < q
    /\ block \notin blocks
    /\ block = None => chan[phase] = <<>>

NoBlockInv == phase \notin Phases => blocks = {} /\ block = None

(***************************************************************************)
(* What is known of an evaluator whose block has ended.                    *)
(***************************************************************************)
Settled(e) ==
  /\ stage[e] = "returned"
  /\ outcome[e] = "ok" => Kept(e)
  /\ PhaseOf[e] = "authorization" => outcome[e] \in {"ok", "ignored"}
  /\ PhaseOf[e] = "identity" => refused(e)

SettledInv ==
  phase \in Phases =>
    \A e \in Of(phase) : priority[e] \notin blocks /\ priority[e] # block => Settled(e)

(***************************************************************************)
(* What is known of the block being evaluated.                             *)
(***************************************************************************)
ChannelInv ==
  phase \in Phases /\ block # None =>
    /\ \A i \in 1..Len(chan[phase]) :
         chan[phase][i] \in Block(phase, block) /\ outcome[chan[phase][i]] \in Sent
    /\ \A e \in Block(phase, block) :
         /\ outcome[e] = "ok" => Contains(chan[phase], e) \/ Kept(e)
         /\ phase = "authorization" /\ outcome[e] \in {"error", "aborted"} =>
              Contains(chan[phase], e)

ContextInv ==
  phase \in Phases /\ block # None =>
    /\ \A e \in Block(phase, block) : outcome[e] \in {"skipped", "aborted"} => phase \in cancelled
    /\ phase = "authorization" /\ phase \in cancelled =>
         \E e \in Block(phase, block) : outcome[e] = "error"
    /\ phase = "identity" /\ phase \in cancelled =>
         \E e \in Block(phase, block) : outcome[e] = "ok"

ResultInv ==
  /\ phase = "start" => identity = [e \in Of("identity") |-> None]
  /\ verified # None => outcome[verified] = "ok"
  /\ phase \in {"metadata", "authorization", "response"} => verified # None
  /\ phase \in {"start", "identity", "metadata", "authorization", "response"} => code = "OK"
  /\ DeniedForCause

PipelineInv ==
  /\ TypeOK
  /\ ~expired
  /\ StageInv /\ LaterInv /\ BlocksInv /\ NoBlockInv
  /\ SettledInv /\ ChannelInv /\ ContextInv /\ ResultInv
  /\ OKMeansAllGranted
  /\ BlocksInSequence

----------------------------------------------------------------------------
LEMMA AppendContains ==
  ASSUME NEW S, NEW s \in Seq(S), NEW x \in S
  PROVE  /\ Append(s, x) \in Seq(S)
         /\ \A y : Contains(s, y) => Contains(Append(s, x), y)
         /\ Contains(Append(s, x), x)
         /\ \A i \in 1..Len(Append(s, x)) :
              Append(s, x)[i] = x \/ (i \in 1..Len(s) /\ Append(s, x)[i] = s[i])
<1>1. Len(Append(s, x)) = Len(s) + 1 /\ Len(s) \in Nat
  OBVIOUS
<1>2. Append(s, x)[Len(s) + 1] = x /\ \A i \in 1..Len(s) : Append(s, x)[i] = s[i]
  OBVIOUS
<1> HIDE DEF Contains
<1>3. Append(s, x) \in Seq(S)
  OBVIOUS
<1> QED
  BY <1>1, <1>2, <1>3 DEF Contains

LEMMA TailContains ==
  ASSUME NEW S, NEW s \in Seq(S), s # <<>>
  PROVE  /\ Head(s) \in S /\ Tail(s) \in Seq(S)
         /\ 1 \in 1..Len(s) /\ Head(s) = s[1]
         /\ \A y : Contains(s, y) => y = Head(s) \/ Contains(Tail(s), y)
         /\ \A i \in 1..Len(Tail(s)) : i + 1 \in 1..Len(s) /\ Tail(s)[i] = s[i + 1]
<1>1. /\ Head(s) \in S /\ Tail(s) \in Seq(S)
      /\ Len(s) \in Nat /\ Len(s) >= 1
      /\ Len(Tail(s)) = Len(s) - 1
      /\ Head(s) = s[1]
      /\ \A i \in 1..Len(s) - 1 : Tail(s)[i] = s[i + 1]
  OBVIOUS
<1>2. ASSUME NEW i \in 1..Len(s) PROVE s[i] = Head(s) \/ Contains(Tail(s), s[i])
  <2>1. CASE i = 1
    BY <1>1, <2>1
  <2>2. CASE i # 1
    <3>1. i - 1 \in 1..Len(Tail(s)) /\ Tail(s)[i - 1] = s[i]
      BY <1>1, <2>2
    <3> QED
      BY <3>1 DEF Contains
  <2> QED
    BY <2>1, <2>2
<1>3. \A y : Contains(s, y) => y = Head(s) \/ Contains(Tail(s), y)
  BY <1>2 DEF Contains
<1> QED
  BY <1>1, <1>3

LEMMA NewPipelineInv ==
  ASSUME NewAuthPipeline
  PROVE  PipelineInv
<1> USE DEF NewAuthPipeline
<1>1. TypeOK
  <2>1. expired \in BOOLEAN
    OBVIOUS
  <2>2. chan \in [Phases -> Seq(Evaluators)] /\ \A ph \in Phases : Len(chan[ph]) = 0
    OBVIOUS
  <2> QED
    BY <2>1, <2>2 DEF TypeOK, Stages, Outcomes
<1>2. StageInv /\ LaterInv
  BY DEF StageInv, LaterInv, Later, Of
<1>3. phase \notin Phases
  BY DEF Phases
<1>4. BlocksInv /\ NoBlockInv /\ SettledInv /\ ChannelInv /\ ContextInv
  BY <1>3 DEF BlocksInv, NoBlockInv, SettledInv, ChannelInv, ContextInv
<1>5. ResultInv /\ OKMeansAllGranted /\ BlocksInSequence
  BY DEF ResultInv, OKMeansAllGranted, BlocksInSequence, DeniedForCause, refused
<1> QED
  BY <1>1, <1>2, <1>4, <1>5 DEF PipelineInv

----------------------------------------------------------------------------
(***************************************************************************)
(* A goroutine that is running belongs to a phase that has been entered,   *)
(* and if that is the current one, to the block being evaluated.           *)
(***************************************************************************)
Running(e) == stage[e] \in {"launched", "active", "calling", "sent"}

LEMMA RunningEvaluator ==
  ASSUME PipelineInv, NEW e \in Evaluators, Running(e)
  PROVE  /\ PhaseOf[e] \notin Later[phase]
         /\ PhaseOf[e] = phase => priority[e] = block /\ block # None /\ e \in Block(phase, block)
<1>1. PhaseOf[e] \notin Later[phase]
  BY DEF PipelineInv, LaterInv, Of, Running
<1>2. ASSUME PhaseOf[e] = phase PROVE priority[e] = block /\ block # None /\ e \in Block(phase, block)
  <2>1. phase \in Phases /\ e \in Of(phase)
    BY <1>2, PhaseOfAssumption DEF Of
  <2>2. priority[e] \notin blocks
    BY <2>1 DEF PipelineInv, BlocksInv, Running
  <2>3. priority[e] = block
    BY <2>1, <2>2 DEF PipelineInv, SettledInv, Settled, Running
  <2>4. priority[e] \in Priorities
    BY DEF PipelineInv, TypeOK
  <2> QED
    BY <2>1, <2>3, <2>4, NoneIsNoValue DEF Block
<1> QED
  BY <1>1, <1>2

(***************************************************************************)
(* What a step of a goroutine keeps whatever it does: it only changes its  *)
(* own stage and outcome, and the channel and the context of its phase.    *)
(***************************************************************************)
GoroutineStep(e, s, o) ==
  /\ Running(e)
  /\ s \in Stages \ {"none"} /\ o \in Outcomes
  /\ outcome[e] # "none" => o = outcome[e]
  /\ stage' = [stage EXCEPT ![e] = s]
  /\ outcome' = [outcome EXCEPT ![e] = o]
  /\ \A ph \in Phases \ {PhaseOf[e]} : chan'[ph] = chan[ph] /\ (ph \in cancelled' <=> ph \in cancelled)
  /\ UNCHANGED <<priority, control, expired, results>>

LEMMA GoroutineKeeps ==
  ASSUME PipelineInv, NEW e \in Evaluators, NEW s, NEW o, GoroutineStep(e, s, o)
  PROVE  /\ LaterInv' /\ BlocksInv' /\ NoBlockInv' /\ SettledInv' /\ ResultInv'
         /\ OKMeansAllGranted' /\ BlocksInSequence'
<1>1. /\ PhaseOf[e] \notin Later[phase]
      /\ PhaseOf[e] = phase => priority[e] = block /\ block # None /\ e \in Block(phase, block)
  BY RunningEvaluator DEF GoroutineStep
<1>2. /\ stage \in [Evaluators -> Stages] /\ outcome \in [Evaluators -> Outcomes]
      /\ phase \in Phases \cup {"start", "end"} /\ verified \in Of("identity") \cup {None}
      /\ StageInv /\ LaterInv /\ BlocksInv /\ SettledInv /\ ResultInv
      /\ OKMeansAllGranted /\ BlocksInSequence
  BY DEF PipelineInv, TypeOK
<1>3. UNCHANGED <<priority, phase, blocks, block, identity, stored, verified, code>>
  BY DEF GoroutineStep, control, results
<1>4. /\ \A f \in Evaluators \ {e} : stage'[f] = stage[f] /\ outcome'[f] = outcome[f]
      /\ stage'[e] # "none" /\ stage[e] # "none" /\ stage[e] # "returned"
      /\ \A f \in Evaluators : outcome[f] # "none" => outcome'[f] = outcome[f]
  BY <1>2 DEF GoroutineStep, Running
<1>5. Of("identity") \subseteq Evaluators /\ Of("authorization") \subseteq Evaluators
  BY DEF Of
<1>6. LaterInv'
  <2>1. Later[phase] \subseteq Phases
    BY <1>2 DEF Later, Phases
  <2> QED
    BY <1>1, <1>2, <1>3, <1>4, <2>1 DEF LaterInv, GoroutineStep, Of
<1>7. BlocksInv'
  <2> SUFFICES ASSUME phase \in Phases PROVE BlocksInv'
    BY <1>3 DEF BlocksInv
  <2>1. \A f \in Of(phase) : stage'[f] = "none" <=> priority[f] \in blocks
    BY <1>2, <1>4 DEF BlocksInv, Of
  <2>2. block = None => chan'[phase] = <<>>
    BY <1>1, <1>2 DEF BlocksInv, GoroutineStep
  <2> QED
    BY <1>2, <1>3, <2>1, <2>2 DEF BlocksInv, Of
<1>8. SettledInv'
  <2> SUFFICES ASSUME phase \in Phases, NEW f \in Of(phase), priority[f] \notin blocks,
                      priority[f] # block
               PROVE  Settled(f)'
    BY <1>3 DEF SettledInv, Of
  <2>1. f \in Evaluators /\ f # e
    BY <1>1 DEF Of
  <2>2. Settled(f)
    BY <1>2 DEF SettledInv
  <2> QED
    BY <1>3, <1>4, <2>1, <2>2 DEF Settled, Kept, refused, Of
<1>9. OKMeansAllGranted'
  BY <1>2, <1>3, <1>4, <1>5 DEF OKMeansAllGranted, Of
<1>10. DeniedForCause => DeniedForCause'
  BY <1>3, <1>4, <1>5 DEF DeniedForCause, refused, Of
<1>11. ResultInv'
  BY <1>2, <1>3, <1>4, <1>5, <1>10 DEF ResultInv, Of
<1>12. BlocksInSequence'
  <2> SUFFICES ASSUME NEW g \in Evaluators, NEW f \in Evaluators, PhaseOf[g] = PhaseOf[f],
                      priority[f] < priority[g], stage'[g] # "none"
               PROVE  stage'[f] = "returned" /\ (outcome'[f] = "ok" => Kept(f)')
    BY <1>3 DEF BlocksInSequence, Kept
  <2>1. stage[g] # "none"
    BY <1>4
  <2>2. stage[f] = "returned" /\ (outcome[f] = "ok" => Kept(f))
    BY <1>2, <2>1 DEF BlocksInSequence, Kept
  <2>3. f # e
    BY <1>4, <2>2
  <2> QED
    BY <1>3, <1>4, <2>2, <2>3 DEF Kept
<1>13. NoBlockInv'
  BY <1>3 DEF PipelineInv, NoBlockInv
<1> QED
  BY <1>6, <1>7, <1>8, <1>9, <1>11, <1>12, <1>13

----------------------------------------------------------------------------
LEMMA CheckContextInv ==
  ASSUME PipelineInv, NEW e \in Evaluators, CheckContext(e)
  PROVE  PipelineInv'
<1>1. /\ stage \in [Evaluators -> Stages] /\ outcome \in [Evaluators -> Outcomes]
      /\ ~expired /\ StageInv /\ ChannelInv /\ ContextInv
  BY DEF PipelineInv, TypeOK
<1>2. stage[e] = "launched" /\ outcome[e] = "none"
  BY <1>1 DEF CheckContext, StageInv
<1>3. PICK s \in {"returned", "active"}, o \in {"skipped", "none"} :
        /\ stage' = [stage EXCEPT ![e] = s]
        /\ outcome' = [outcome EXCEPT ![e] = o]
        /\ \/ s = "returned" /\ o = "skipped" /\ PhaseOf[e] \in cancelled
           \/ s = "active" /\ o = "none"
  BY <1>1, <1>2 DEF CheckContext, done
<1>4. /\ UNCHANGED <<priority, control, chan, cancelled, expired, results>>
      /\ UNCHANGED <<phase, blocks, block, identity, stored, verified, code>>
  BY DEF CheckContext, control, results
<1>5. GoroutineStep(e, s, o)
  BY <1>2, <1>3, <1>4 DEF GoroutineStep, Running, Stages, Outcomes
<1>6. TypeOK'
  BY <1>3, <1>4 DEF PipelineInv, TypeOK, Stages, Outcomes, Of
<1>7. StageInv'
  BY <1>1, <1>3 DEF StageInv, Sent
<1>8. ChannelInv'
  BY <1>1, <1>2, <1>3, <1>4 DEF ChannelInv, Sent, Kept, Block, Of
<1>9. ContextInv'
  BY <1>1, <1>2, <1>3, <1>4 DEF ContextInv, Block, Of
<1> QED
  BY <1>1, <1>4, <1>5, <1>6, <1>7, <1>8, <1>9, GoroutineKeeps DEF PipelineInv

LEMMA EvaluateConditionsInv ==
  ASSUME PipelineInv, NEW e \in Evaluators, evaluateConditions(e)
  PROVE  PipelineInv'
<1>1. /\ stage \in [Evaluators -> Stages] /\ outcome \in [Evaluators -> Outcomes]
      /\ ~expired /\ StageInv /\ ChannelInv /\ ContextInv
  BY DEF PipelineInv, TypeOK
<1>2. stage[e] = "active" /\ outcome[e] = "none"
  BY <1>1 DEF evaluateConditions, StageInv
<1>3. PICK s \in {"returned", "calling"}, o \in {"ignored", "none"} :
        /\ stage' = [stage EXCEPT ![e] = s]
        /\ outcome' = [outcome EXCEPT ![e] = o]
        /\ \/ s = "returned" /\ o = "ignored"
           \/ s = "calling" /\ o = "none"
  BY <1>1, <1>2 DEF evaluateConditions
<1>4. /\ UNCHANGED <<priority, control, chan, cancelled, expired, results>>
      /\ UNCHANGED <<phase, blocks, block, identity, stored, verified, code>>
  BY DEF evaluateConditions, control, results
<1>5. GoroutineStep(e, s, o)
  BY <1>2, <1>3, <1>4 DEF GoroutineStep, Running, Stages, Outcomes
<1>6. TypeOK'
  BY <1>3, <1>4 DEF PipelineInv, TypeOK, Stages, Outcomes, Of
<1>7. StageInv'
  BY <1>1, <1>3 DEF StageInv, Sent
<1>8. ChannelInv'
  BY <1>1, <1>2, <1>3, <1>4 DEF ChannelInv, Sent, Kept, Block, Of
<1>9. ContextInv'
  BY <1>1, <1>2, <1>3, <1>4 DEF ContextInv, Block, Of
<1> QED
  BY <1>1, <1>4, <1>5, <1>6, <1>7, <1>8, <1>9, GoroutineKeeps DEF PipelineInv

LEMMA CallInv ==
  ASSUME PipelineInv, NEW e \in Evaluators, Call(e)
  PROVE  PipelineInv'
<1> DEFINE ph == PhaseOf[e]
<1>1. /\ stage \in [Evaluators -> Stages] /\ outcome \in [Evaluators -> Outcomes]
      /\ chan \in [Phases -> Seq(Evaluators)] /\ ph \in Phases
      /\ ~expired /\ StageInv /\ ChannelInv /\ ContextInv
  BY PhaseOfAssumption DEF PipelineInv, TypeOK
<1>2. stage[e] = "calling" /\ outcome[e] = "none"
  BY <1>1 DEF Call, StageInv
<1>3. PICK o \in Sent : outcome' = [outcome EXCEPT ![e] = o] /\ (o = "aborted" => ph \in cancelled)
  BY <1>1 DEF Call, Sent, done
<1>4. /\ chan' = [chan EXCEPT ![ph] = Append(chan[ph], e)]
      /\ stage' = [stage EXCEPT ![e] = "sent"]
      /\ UNCHANGED <<priority, control, cancelled, expired, results>>
      /\ UNCHANGED <<phase, blocks, block, identity, stored, verified, code>>
  BY DEF Call, control, results
<1>5. chan[ph] \in Seq(Evaluators)
  BY <1>1
<1>6. /\ chan'[ph] \in Seq(Evaluators)
      /\ \A f : Contains(chan[ph], f) => Contains(chan'[ph], f)
      /\ Contains(chan'[ph], e)
      /\ \A i \in 1..Len(chan'[ph]) :
           chan'[ph][i] = e \/ (i \in 1..Len(chan[ph]) /\ chan'[ph][i] = chan[ph][i])
  <2>1. chan'[ph] = Append(chan[ph], e)
    BY <1>1, <1>4
  <2> QED
    BY <1>5, <2>1, AppendContains
<1>7. GoroutineStep(e, "sent", o)
  BY <1>1, <1>2, <1>3, <1>4 DEF GoroutineStep, Running, Stages, Outcomes, Sent
<1>8. TypeOK'
  <2>1. chan' \in [Phases -> Seq(Evaluators)]
    BY <1>1, <1>4, <1>6
  <2>2. ASSUME NEW q \in Phases, NEW i \in 1..Len(chan'[q]) PROVE PhaseOf[chan'[q][i]] = q
    <3>1. CASE q = ph
      BY <1>6, <3>1 DEF PipelineInv, TypeOK
    <3>2. CASE q # ph
      BY <1>1, <1>4, <3>2 DEF PipelineInv, TypeOK
    <3> QED
      BY <3>1, <3>2
  <2> QED
    BY <1>3, <1>4, <2>1, <2>2 DEF PipelineInv, TypeOK, Stages, Outcomes, Of, Sent
<1>9. StageInv'
  BY <1>1, <1>3, <1>4 DEF StageInv
<1>10. ph = phase => e \in Block(phase, block) /\ block # None
  BY <1>2, RunningEvaluator DEF Running
<1>11. ChannelInv'
  <2> SUFFICES ASSUME phase \in Phases, block # None PROVE ChannelInv'
    BY <1>4 DEF ChannelInv
  <2>1. ASSUME NEW i \in 1..Len(chan'[phase])
        PROVE  chan'[phase][i] \in Block(phase, block) /\ outcome'[chan'[phase][i]] \in Sent
    <3>1. \/ chan'[phase][i] = e /\ ph = phase
          \/ i \in 1..Len(chan[phase]) /\ chan'[phase][i] = chan[phase][i]
      BY <1>1, <1>4, <1>6
    <3>2. CASE chan'[phase][i] = e /\ ph = phase
      BY <1>1, <1>3, <1>10, <3>2
    <3>3. CASE i \in 1..Len(chan[phase]) /\ chan'[phase][i] = chan[phase][i]
      <4>1. chan[phase][i] \in Block(phase, block) /\ outcome[chan[phase][i]] \in Sent
        BY <1>1, <3>3 DEF ChannelInv
      <4> QED
        BY <1>1, <1>3, <3>3, <4>1 DEF Block, Of
    <3> QED
      BY <3>1, <3>2, <3>3
  <2>2. ASSUME NEW f \in Block(phase, block)
        PROVE  /\ outcome'[f] = "ok" => Contains(chan'[phase], f) \/ Kept(f)'
               /\ phase = "authorization" /\ outcome'[f] \in {"error", "aborted"} =>
                    Contains(chan'[phase], f)
    <3>1. f \in Evaluators /\ PhaseOf[f] = phase
      BY DEF Block, Of
    <3>2. CASE f = e
      BY <1>6, <3>1, <3>2
    <3>3. CASE f # e
      <4>1. outcome'[f] = outcome[f] /\ (Kept(f) => Kept(f)')
        BY <1>1, <1>3, <1>4, <3>1, <3>3 DEF Kept
      <4>2. Contains(chan[phase], f) => Contains(chan'[phase], f)
        BY <1>1, <1>4, <1>6
      <4> QED
        BY <1>1, <4>1, <4>2 DEF ChannelInv
    <3> QED
      BY <3>2, <3>3
  <2> QED
    BY <1>4, <2>1, <2>2 DEF ChannelInv, Block, Of
<1>12. ContextInv'
  <2> SUFFICES ASSUME phase \in Phases, block # None PROVE ContextInv'
    BY <1>4 DEF ContextInv
  <2>1. \A f \in Block(phase, block) : outcome'[f] \in {"skipped", "aborted"} => phase \in cancelled
    BY <1>1, <1>3 DEF ContextInv, Block, Of, Sent
  <2>2. \A f \in Evaluators : outcome[f] # "none" => outcome'[f] = outcome[f]
    BY <1>1, <1>2, <1>3
  <2> QED
    BY <1>1, <1>4, <2>1, <2>2 DEF ContextInv, Block, Of
<1> QED
  BY <1>1, <1>4, <1>7, <1>8, <1>9, <1>11, <1>12, GoroutineKeeps DEF PipelineInv

LEMMA ReturnInv ==
  ASSUME PipelineInv, NEW e \in Evaluators, Return(e)
  PROVE  PipelineInv'
<1>1. /\ stage \in [Evaluators -> Stages] /\ outcome \in [Evaluators -> Outcomes]
      /\ PhaseOf[e] \in Phases
      /\ ~expired /\ StageInv /\ ChannelInv /\ ContextInv
  BY PhaseOfAssumption DEF PipelineInv, TypeOK
<1>2. stage[e] = "sent" /\ outcome[e] \in Sent
  BY <1>1 DEF Return, StageInv
<1>3. /\ stage' = [stage EXCEPT ![e] = "returned"]
      /\ cancelled' = IF cancels(e) THEN cancelled \cup {PhaseOf[e]} ELSE cancelled
      /\ UNCHANGED <<priority, control, outcome, chan, expired, results>>
      /\ UNCHANGED <<phase, blocks, block, identity, stored, verified, code>>
  BY DEF Return, control, results
<1>4. GoroutineStep(e, "returned", outcome[e])
  BY <1>1, <1>2, <1>3 DEF GoroutineStep, Running, Stages
<1>5. TypeOK'
  BY <1>1, <1>3 DEF PipelineInv, TypeOK, Stages, Of
<1>6. StageInv'
  BY <1>1, <1>2, <1>3 DEF StageInv, Sent
<1>7. ChannelInv'
  BY <1>1, <1>3 DEF ChannelInv, Kept, Block, Of
<1>8. ContextInv'
  <2> SUFFICES ASSUME phase \in Phases, block # None PROVE ContextInv'
    BY <1>3 DEF ContextInv
  <2>1. PhaseOf[e] = phase => e \in Block(phase, block)
    BY <1>2, RunningEvaluator DEF Running
  <2>2. CASE phase = PhaseOf[e] /\ cancels(e) /\ phase \notin cancelled
    <3>1. outcome[e] # "aborted"
      BY <1>1, <2>1, <2>2 DEF ContextInv
    <3>2. /\ phase = "authorization" => outcome[e] = "error"
          /\ phase = "identity" => outcome[e] = "ok"
      BY <1>2, <2>2, <3>1 DEF cancels, Sent
    <3> QED
      BY <1>1, <1>3, <2>1, <2>2, <3>2 DEF ContextInv, Block, Of
  <2>3. CASE phase \in cancelled' <=> phase \in cancelled
    BY <1>1, <1>3, <2>3 DEF ContextInv, Block, Of
  <2> QED
    BY <1>3, <2>2, <2>3
<1> QED
  BY <1>1, <1>3, <1>4, <1>5, <1>6, <1>7, <1>8, GoroutineKeeps DEF PipelineInv

----------------------------------------------------------------------------
(***************************************************************************)
(* What holds on entering a phase, or on leaving the last one.             *)
(***************************************************************************)
LEMMA EnterPhase ==
  ASSUME PipelineInv, NEW ph \in Later[phase], enterPhase(ph),
         UNCHANGED <<priority, stage, outcome, cancelled>>,
         \A q \in Later[phase] : chan'[q] = chan[q],
         \A e \in Evaluators : Kept(e) => Kept(e)'
  PROVE  /\ phase' = ph /\ ph \in Phases /\ blocks' \subseteq Priorities /\ block' = None
         /\ StageInv' /\ LaterInv' /\ BlocksInv' /\ NoBlockInv'
         /\ SettledInv' /\ ChannelInv' /\ ContextInv' /\ BlocksInSequence'
<1>1. /\ priority \in [Evaluators -> Priorities] /\ phase \in Phases \cup {"start", "end"}
      /\ StageInv /\ LaterInv /\ BlocksInSequence
  BY DEF PipelineInv, TypeOK
<1>2. phase' = ph /\ blocks' = {priority[e] : e \in Of(ph)} /\ block' = None
  BY DEF enterPhase
<1>3. ph \in Phases /\ Later[ph] \subseteq Later[phase]
  BY <1>1 DEF Later, Phases
<1>4. blocks' \subseteq Priorities /\ None \notin blocks'
  BY <1>1, <1>2, NoneIsNoValue DEF Of
<1>5. StageInv'
  BY <1>1 DEF StageInv
<1>6. LaterInv'
  BY <1>1, <1>2, <1>3 DEF LaterInv, Of
<1>7. BlocksInv'
  <2>1. \A e \in Of(ph) : stage[e] = "none" /\ priority[e] \in blocks'
    BY <1>1, <1>2 DEF LaterInv
  <2>2. chan'[ph] = <<>>
    BY <1>1 DEF LaterInv
  <2> QED
    BY <1>2, <1>4, <2>1, <2>2 DEF BlocksInv, Of
<1>8. SettledInv'
  BY <1>2 DEF SettledInv, Of
<1>9. NoBlockInv' /\ ChannelInv' /\ ContextInv'
  BY <1>2, <1>3 DEF NoBlockInv, ChannelInv, ContextInv
<1>10. BlocksInSequence'
  BY <1>1 DEF BlocksInSequence, Kept
<1> QED
  BY <1>2, <1>3, <1>4, <1>5, <1>6, <1>7, <1>8, <1>9, <1>10

LEMMA Leave ==
  ASSUME PipelineInv, leave, UNCHANGED <<priority, goroutines, expired, results>>
  PROVE  PipelineInv'
<1>1. /\ phase' = "end" /\ blocks' = {} /\ block' = None
      /\ UNCHANGED <<stage, outcome, chan, cancelled, identity, stored, verified, code>>
  BY DEF leave, goroutines, results
<1>2. phase' \notin Phases /\ Later[phase'] = {}
  BY <1>1 DEF Phases, Later
<1>3. TypeOK'
  BY <1>1 DEF PipelineInv, TypeOK, Of
<1>4. StageInv' /\ LaterInv' /\ BlocksInSequence'
  BY <1>1, <1>2 DEF PipelineInv, StageInv, LaterInv, BlocksInSequence, Of
<1>5. BlocksInv' /\ NoBlockInv' /\ SettledInv' /\ ChannelInv' /\ ContextInv'
  BY <1>1, <1>2 DEF BlocksInv, NoBlockInv, SettledInv, ChannelInv, ContextInv
<1>6. ResultInv' /\ OKMeansAllGranted'
  BY <1>1 DEF PipelineInv, ResultInv, OKMeansAllGranted, DeniedForCause, refused, Of
<1> QED
  BY <1>3, <1>4, <1>5, <1>6 DEF PipelineInv

LEMMA EvaluateInv ==
  ASSUME PipelineInv, Evaluate
  PROVE  PipelineInv'
<1>1. CASE leave
  BY <1>1, Leave DEF Evaluate
<1>2. CASE enterPhase("identity")
  <2>1. /\ phase = "start"
        /\ UNCHANGED <<priority, expired>>
        /\ UNCHANGED <<stage, outcome, chan, cancelled, identity, stored, verified, code>>
    BY DEF Evaluate, goroutines, results
  <2>2. "identity" \in Later[phase] /\ \A e \in Evaluators : Kept(e) => Kept(e)'
    BY <2>1 DEF Later, Phases, Kept
  <2>3. /\ phase' = "identity" /\ blocks' \subseteq Priorities /\ block' = None
        /\ StageInv' /\ LaterInv' /\ BlocksInv' /\ NoBlockInv'
        /\ SettledInv' /\ ChannelInv' /\ ContextInv' /\ BlocksInSequence'
    BY <1>2, <2>1, <2>2, EnterPhase
  <2>4. TypeOK'
    BY <2>1, <2>3 DEF PipelineInv, TypeOK, Phases, Of
  <2>5. identity = [e \in Of("identity") |-> None]
    BY <2>1 DEF PipelineInv, ResultInv
  <2>6. ResultInv' /\ OKMeansAllGranted'
    BY <2>1, <2>3, <2>5 DEF PipelineInv, ResultInv, OKMeansAllGranted, DeniedForCause, refused, Of
  <2> QED
    BY <2>1, <2>3, <2>4, <2>6 DEF PipelineInv
<1> QED
  BY <1>1, <1>2 DEF Evaluate

LEMMA EndPhaseInv ==
  ASSUME PipelineInv, EndPhase
  PROVE  PipelineInv'
<1>1. /\ block = None /\ blocks = {}
      /\ UNCHANGED <<priority, expired>>
      /\ UNCHANGED <<stage, outcome, chan, cancelled, identity, stored, verified>>
  BY DEF EndPhase, goroutines
<1>2. \A e \in Evaluators : Kept(e) => Kept(e)'
  BY <1>1 DEF Kept
<1>3. ASSUME phase \in Phases, NEW e \in Of(phase) PROVE Settled(e)
  <2>1. priority[e] \in Priorities
    BY DEF PipelineInv, TypeOK, Of
  <2> QED
    BY <1>1, <1>3, <2>1, NoneIsNoValue DEF PipelineInv, SettledInv
<1>4. ASSUME NEW ph \in Later[phase], enterPhase(ph), phase \in Phases,
             code' \in {"OK", "UNAUTHENTICATED"}, ResultInv', OKMeansAllGranted'
      PROVE  PipelineInv'
  <2>1. /\ phase' = ph /\ ph \in Phases /\ blocks' \subseteq Priorities /\ block' = None
        /\ StageInv' /\ LaterInv' /\ BlocksInv' /\ NoBlockInv'
        /\ SettledInv' /\ ChannelInv' /\ ContextInv' /\ BlocksInSequence'
    BY <1>1, <1>2, <1>4, EnterPhase
  <2>2. TypeOK'
    BY <1>1, <1>4, <2>1 DEF PipelineInv, TypeOK, Of
  <2> QED
    BY <1>1, <1>4, <2>1, <2>2 DEF PipelineInv
<1>5. CASE phase = "identity" /\ code' = "UNAUTHENTICATED" /\ enterPhase("callbacks")
  <2>1. \A e \in Of("identity") : refused(e)
    BY <1>3, <1>5 DEF Settled, Of, Phases
  <2>2. ResultInv' /\ OKMeansAllGranted'
    BY <1>1, <1>5, <2>1
       DEF enterPhase, PipelineInv, ResultInv, OKMeansAllGranted, DeniedForCause, refused, Of
  <2> QED
    BY <1>4, <1>5, <2>2 DEF Later, Phases
<1>6. CASE phase = "metadata" /\ enterPhase("authorization") /\ UNCHANGED code
  <2>1. ResultInv' /\ OKMeansAllGranted'
    BY <1>1, <1>6 DEF enterPhase, PipelineInv, ResultInv, OKMeansAllGranted, DeniedForCause, refused, Of
  <2>2. code' \in {"OK", "UNAUTHENTICATED"}
    BY <1>6 DEF PipelineInv, ResultInv
  <2> QED
    BY <1>4, <1>6, <2>1, <2>2 DEF Later, Phases
<1>7. CASE phase = "authorization" /\ enterPhase("response") /\ UNCHANGED code
  <2>1. \A e \in Of("authorization") : outcome[e] \in {"ok", "ignored"}
    BY <1>3, <1>7 DEF Settled, Of, Phases
  <2>2. ResultInv' /\ OKMeansAllGranted'
    BY <1>1, <1>7, <2>1
       DEF enterPhase, PipelineInv, ResultInv, OKMeansAllGranted, DeniedForCause, refused, Of
  <2>3. code' \in {"OK", "UNAUTHENTICATED"}
    BY <1>7 DEF PipelineInv, ResultInv
  <2> QED
    BY <1>4, <1>7, <2>2, <2>3 DEF Later, Phases
<1>8. CASE phase = "response" /\ enterPhase("callbacks") /\ UNCHANGED code
  <2>1. ResultInv' /\ OKMeansAllGranted'
    BY <1>1, <1>8 DEF enterPhase, PipelineInv, ResultInv, OKMeansAllGranted, DeniedForCause, refused, Of
  <2>2. code' \in {"OK", "UNAUTHENTICATED"}
    BY <1>8 DEF PipelineInv, ResultInv
  <2> QED
    BY <1>4, <1>8, <2>1, <2>2 DEF Later, Phases
<1>9. CASE leave /\ UNCHANGED code
  BY <1>1, <1>9, Leave DEF goroutines, results
<1> QED
  BY <1>5, <1>6, <1>7, <1>8, <1>9 DEF EndPhase

LEMMA LaterPhases ==
  ASSUME NEW q \in Phases
  PROVE  q \notin Later[q] /\ Later[q] \subseteq Phases
<1>1. CASE q = "identity"
  BY <1>1 DEF Later, Phases
<1>2. CASE q = "metadata"
  BY <1>2 DEF Later, Phases
<1>3. CASE q = "authorization"
  BY <1>3 DEF Later, Phases
<1>4. CASE q = "response"
  BY <1>4 DEF Later, Phases
<1>5. CASE q = "callbacks"
  BY <1>5 DEF Later, Phases
<1> QED
  BY <1>1, <1>2, <1>3, <1>4, <1>5 DEF Phases

LEMMA StartBlockInv ==
  ASSUME PipelineInv, StartBlock
  PROVE  PipelineInv'
<1>1. PICK p \in blocks :
        /\ block = None
        /\ \A q \in blocks : p <= q
        /\ block' = p
        /\ blocks' = blocks \ {p}
        /\ stage' = [e \in Evaluators |-> IF e \in Block(phase, p) THEN "launched" ELSE stage[e]]
        /\ chan' = [chan EXCEPT ![phase] = <<>>]
        /\ cancelled' = cancelled \ {phase}
  BY DEF StartBlock
<1>2. /\ UNCHANGED <<priority, phase, outcome, expired>>
      /\ UNCHANGED <<identity, stored, verified, code>>
  BY DEF StartBlock, results
<1>3. /\ priority \in [Evaluators -> Priorities] /\ blocks \subseteq Priorities
      /\ stage \in [Evaluators -> Stages] /\ outcome \in [Evaluators -> Outcomes]
      /\ chan \in [Phases -> Seq(Evaluators)] /\ cancelled \subseteq Phases
      /\ phase \in Phases
      /\ StageInv /\ LaterInv /\ BlocksInv /\ SettledInv /\ ResultInv
      /\ OKMeansAllGranted /\ BlocksInSequence
  BY <1>1 DEF PipelineInv, TypeOK, NoBlockInv
<1>4. p \in Nat /\ p # None /\ \A q \in blocks : q \in Nat /\ (q # p => p < q)
  BY <1>1, <1>3, PrioritiesAssumption, NoneIsNoValue
<1>5. /\ Block(phase, p) \subseteq Of(phase) /\ Of(phase) \subseteq Evaluators
      /\ \A e \in Block(phase, p) : stage[e] = "none" /\ outcome[e] = "none"
  BY <1>3 DEF Block, Of, BlocksInv, StageInv
<1>6. phase \notin Later[phase] /\ Later[phase] \subseteq Phases
  BY <1>3, LaterPhases
<1>7. TypeOK'
  <2>1. stage' \in [Evaluators -> Stages]
    BY <1>1, <1>3 DEF Stages
  <2>2. chan' \in [Phases -> Seq(Evaluators)] /\ chan'[phase] = <<>>
        /\ \A q \in Phases \ {phase} : chan'[q] = chan[q]
    BY <1>1, <1>3
  <2>3. ASSUME NEW q \in Phases, NEW i \in 1..Len(chan'[q]) PROVE PhaseOf[chan'[q][i]] = q
    <3>1. q # phase
      BY <2>2
    <3> QED
      BY <2>2, <3>1 DEF PipelineInv, TypeOK
  <2> QED
    BY <1>1, <1>2, <1>3, <2>1, <2>2, <2>3 DEF PipelineInv, TypeOK, Of
<1>8. StageInv'
  BY <1>1, <1>2, <1>3, <1>5 DEF StageInv
<1>9. LaterInv'
  <2>1. \A q \in Later[phase] : \A e \in Of(q) : e \in Evaluators /\ e \notin Block(phase, p)
    BY <1>6 DEF Of, Block
  <2> QED
    BY <1>1, <1>2, <1>3, <1>6, <2>1 DEF LaterInv, Of
<1>10. BlocksInv'
  <2>1. ASSUME NEW e \in Of(phase)
        PROVE  stage'[e] = "none" <=> priority[e] \in blocks'
    <3>1. e \in Block(phase, p) <=> priority[e] = p
      BY DEF Block
    <3> QED
      BY <1>1, <1>3, <1>5, <2>1, <3>1 DEF BlocksInv, Of
  <2>2. ASSUME NEW e \in Of(phase), priority[e] \notin blocks', NEW q \in blocks'
        PROVE  priority[e] < q
    BY <1>1, <1>3, <1>4, <2>2 DEF BlocksInv
  <2> QED
    BY <1>1, <1>2, <1>4, <2>1, <2>2 DEF BlocksInv, Of
<1>11. ASSUME NEW f \in Of(phase), priority[f] \notin blocks
       PROVE  Settled(f) /\ f \notin Block(phase, p)
  <2>1. priority[f] # None
    BY <1>3, NoneIsNoValue DEF Of
  <2> QED
    BY <1>1, <1>3, <1>11, <2>1 DEF SettledInv, Block
<1>12. SettledInv'
  <2> SUFFICES ASSUME NEW f \in Of(phase), priority[f] \notin blocks', priority[f] # p
               PROVE  Settled(f)'
    BY <1>1, <1>2 DEF SettledInv, Of
  <2>1. Settled(f) /\ f \notin Block(phase, p) /\ f \in Evaluators
    BY <1>1, <1>5, <1>11
  <2> QED
    BY <1>1, <1>2, <2>1 DEF Settled, Kept, refused, Of
<1>13. ChannelInv'
  <2>1. chan'[phase] = <<>>
    BY <1>1, <1>3
  <2> QED
    BY <1>1, <1>2, <1>5, <2>1 DEF ChannelInv, Block, Of
<1>14. ContextInv'
  BY <1>1, <1>2, <1>5 DEF ContextInv, Block, Of
<1>15. NoBlockInv' /\ ResultInv' /\ OKMeansAllGranted'
  BY <1>2, <1>3 DEF NoBlockInv, ResultInv, OKMeansAllGranted, DeniedForCause, refused, Of
<1>16. BlocksInSequence'
  <2> SUFFICES ASSUME NEW g \in Evaluators, NEW f \in Evaluators, PhaseOf[g] = PhaseOf[f],
                      priority[f] < priority[g], stage'[g] # "none"
               PROVE  stage'[f] = "returned" /\ (outcome[f] = "ok" => Kept(f))
    BY <1>2 DEF BlocksInSequence, Kept
  <2>1. stage[f] = "returned" /\ (outcome[f] = "ok" => Kept(f))
    <3>1. CASE g \in Block(phase, p)
      <4>1. f \in Of(phase) /\ priority[g] = p /\ priority[f] \in Nat
        BY <1>3, <3>1, PrioritiesAssumption DEF Block, Of
      <4>2. priority[f] \notin blocks
        BY <1>1, <1>4, <4>1
      <4> QED
        BY <1>11, <4>1, <4>2 DEF Settled
    <3>2. CASE g \notin Block(phase, p)
      <4>1. stage[g] # "none"
        BY <1>1, <3>2
      <4> QED
        BY <1>3, <4>1 DEF BlocksInSequence, Kept
    <3> QED
      BY <3>1, <3>2
  <2> QED
    BY <1>1, <1>5, <2>1
<1> QED
  BY <1>2, <1>7, <1>8, <1>9, <1>10, <1>12, <1>13, <1>14, <1>15, <1>16 DEF PipelineInv

LEMMA EndBlockInv ==
  ASSUME PipelineInv, EndBlock
  PROVE  PipelineInv'
<1>1. /\ block # None /\ chan[phase] = <<>> /\ closed /\ block' = None
      /\ UNCHANGED <<priority, phase, blocks, expired>>
      /\ UNCHANGED <<stage, outcome, chan, cancelled, identity, stored, verified, code>>
  BY DEF EndBlock, goroutines, results
<1>2. /\ phase \in Phases /\ outcome \in [Evaluators -> Outcomes]
      /\ blocks \subseteq Priorities
      /\ StageInv /\ LaterInv /\ BlocksInv /\ SettledInv /\ ChannelInv /\ ContextInv /\ ResultInv
      /\ OKMeansAllGranted /\ BlocksInSequence
  BY <1>1 DEF PipelineInv, TypeOK, NoBlockInv
<1>3. TypeOK'
  BY <1>1 DEF PipelineInv, TypeOK, Of
<1>4. StageInv' /\ LaterInv' /\ BlocksInSequence' /\ ResultInv' /\ OKMeansAllGranted'
  <2>1. StageInv' /\ LaterInv'
    BY <1>1, <1>2 DEF StageInv, LaterInv, Of
  <2>2. BlocksInSequence'
    BY <1>1, <1>2 DEF BlocksInSequence
  <2>3. OKMeansAllGranted'
    BY <1>1, <1>2 DEF OKMeansAllGranted, Of
  <2>4. DeniedForCause' <=> DeniedForCause
    BY <1>1 DEF DeniedForCause, refused, Of
  <2>5. ResultInv'
    BY <1>1, <1>2, <2>4 DEF ResultInv, Of
  <2> QED
    BY <2>1, <2>2, <2>3, <2>5
<1>5. NoBlockInv' /\ ChannelInv' /\ ContextInv'
  BY <1>1, <1>2 DEF NoBlockInv, ChannelInv, ContextInv
<1>6. BlocksInv'
  BY <1>1, <1>2, NoneIsNoValue DEF BlocksInv, Of
<1>7. ASSUME NEW e \in Block(phase, block) PROVE Settled(e)
  <2>1. e \in Evaluators /\ PhaseOf[e] = phase /\ outcome[e] \in Outcomes /\ outcome[e] # "none"
        /\ stage[e] = "returned"
    BY <1>1, <1>2 DEF Block, Of, closed, StageInv
  <2>2. \A f : ~Contains(chan[phase], f)
    BY <1>1 DEF Contains
  <2>3. outcome[e] = "ok" => Kept(e)
    BY <1>1, <1>2, <2>2 DEF ChannelInv
  <2>4. phase = "authorization" => outcome[e] \in {"ok", "ignored"}
    BY <1>1, <1>2, <2>1, <2>2 DEF ChannelInv, ContextInv, Outcomes
  <2>5. ASSUME phase = "identity" PROVE refused(e)
    <3>1. ASSUME NEW f \in Block(phase, block), outcome[f] = "ok" PROVE refused(e)
      BY <1>1, <1>2, <2>1, <2>2, <2>5, <3>1 DEF ChannelInv, Kept, refused, Block, Of
    <3>2. CASE phase \in cancelled
      BY <1>1, <1>2, <2>5, <3>1, <3>2 DEF ContextInv
    <3>3. CASE phase \notin cancelled
      BY <1>1, <1>2, <2>1, <3>1, <3>3 DEF ContextInv, Outcomes, refused
    <3> QED
      BY <3>2, <3>3
  <2> QED
    BY <2>1, <2>3, <2>4, <2>5 DEF Settled
<1>8. SettledInv'
  <2>1. ASSUME NEW e \in Of(phase), priority[e] \notin blocks PROVE Settled(e)
    BY <1>2, <1>7, <2>1 DEF SettledInv, Block
  <2> QED
    BY <1>1, <2>1 DEF SettledInv, Settled, Kept, refused, Of
<1> QED
  BY <1>1, <1>3, <1>4, <1>5, <1>6, <1>8 DEF PipelineInv

(***************************************************************************)
(* A response that does not end the phase leaves the channel, its object   *)
(* kept if there is one.                                                   *)
(***************************************************************************)
LEMMA ReceivedInBlock ==
  ASSUME PipelineInv, received, UNCHANGED <<priority, control, stage, outcome, cancelled, expired>>,
         \A e \in Evaluators : Kept(e) => Kept(e)',
         NEW r, r = response, outcome[r] = "ok" => Kept(r)',
         phase = "authorization" => outcome[r] = "ok"
  PROVE  /\ chan' \in [Phases -> Seq(Evaluators)]
         /\ \A q \in Phases : \A i \in 1..Len(chan'[q]) : PhaseOf[chan'[q][i]] = q
         /\ StageInv' /\ LaterInv' /\ BlocksInv' /\ NoBlockInv'
         /\ SettledInv' /\ ChannelInv' /\ ContextInv' /\ BlocksInSequence'
<1>1. /\ block # None /\ chan[phase] # <<>>
      /\ chan' = [chan EXCEPT ![phase] = Tail(chan[phase])]
      /\ UNCHANGED <<phase, blocks, block>>
  BY DEF received, control
<1>2. /\ phase \in Phases /\ chan \in [Phases -> Seq(Evaluators)]
      /\ StageInv /\ LaterInv /\ BlocksInv /\ SettledInv /\ ChannelInv /\ ContextInv
      /\ BlocksInSequence
      /\ \A q \in Phases : \A i \in 1..Len(chan[q]) : PhaseOf[chan[q][i]] = q
  BY <1>1 DEF PipelineInv, TypeOK, NoBlockInv
<1>3. chan[phase] \in Seq(Evaluators)
  BY <1>2
<1>4. chan'[phase] = Tail(chan[phase]) /\ \A q \in Phases \ {phase} : chan'[q] = chan[q]
  BY <1>1, <1>2
<1>5. /\ response \in Evaluators /\ chan'[phase] \in Seq(Evaluators)
      /\ \A y : Contains(chan[phase], y) => y = response \/ Contains(chan'[phase], y)
      /\ \A i \in 1..Len(chan'[phase]) :
           i + 1 \in 1..Len(chan[phase]) /\ chan'[phase][i] = chan[phase][i + 1]
  <2> DEFINE s == chan[phase]
  <2>1. s \in Seq(Evaluators) /\ s # <<>> /\ response = Head(s) /\ chan'[phase] = Tail(s)
    BY <1>1, <1>3, <1>4 DEF response
  <2> HIDE DEF s
  <2>2. /\ Head(s) \in Evaluators /\ Tail(s) \in Seq(Evaluators)
        /\ \A i \in 1..Len(Tail(s)) : i + 1 \in 1..Len(s) /\ Tail(s)[i] = s[i + 1]
    BY <2>1, TailContains
  <2>3. \A y : Contains(s, y) => y = Head(s) \/ Contains(Tail(s), y)
    BY <2>1, TailContains, Zenon
  <2>4. s = chan[phase]
    BY DEF s
  <2>5. \A y : Contains(chan[phase], y) => y = response \/ Contains(chan'[phase], y)
    BY <2>1, <2>3, <2>4, Zenon
  <2> QED
    BY <2>1, <2>2, <2>4, <2>5
<1>6. chan' \in [Phases -> Seq(Evaluators)]
  BY <1>1, <1>2, <1>4, <1>5
<1>7. ASSUME NEW q \in Phases, NEW i \in 1..Len(chan'[q]) PROVE PhaseOf[chan'[q][i]] = q
  <2>1. CASE q = phase
    BY <1>2, <1>5, <2>1
  <2>2. CASE q # phase
    BY <1>2, <1>4, <2>2
  <2> QED
    BY <2>1, <2>2
<1>8. StageInv' /\ NoBlockInv' /\ ContextInv'
  BY <1>1, <1>2 DEF StageInv, NoBlockInv, ContextInv, Block, Of
<1>9. LaterInv'
  <2>1. phase \notin Later[phase] /\ Later[phase] \subseteq Phases
    BY <1>2, LaterPhases
  <2> QED
    BY <1>1, <1>2, <1>4, <2>1 DEF LaterInv, Of
<1>10. BlocksInv'
  BY <1>1, <1>2 DEF BlocksInv, Of
<1>11. SettledInv'
  BY <1>1, <1>2 DEF SettledInv, Settled, Kept, refused, Of
<1>12. ChannelInv'
  <2>1. ASSUME NEW i \in 1..Len(chan'[phase])
        PROVE  chan'[phase][i] \in Block(phase, block) /\ outcome[chan'[phase][i]] \in Sent
    BY <1>1, <1>2, <1>5 DEF ChannelInv
  <2>2. ASSUME NEW e \in Block(phase, block)
        PROVE  /\ outcome[e] = "ok" => Contains(chan'[phase], e) \/ Kept(e)'
               /\ phase = "authorization" /\ outcome[e] \in {"error", "aborted"} =>
                    Contains(chan'[phase], e)
    <3>1. e \in Evaluators
      BY DEF Block, Of
    <3>2. Contains(chan[phase], e) => e = response \/ Contains(chan'[phase], e)
      BY <1>5, Zenon
    <3>3. outcome[e] = "ok" => Contains(chan[phase], e) \/ Kept(e)
      BY <1>1, <1>2 DEF ChannelInv
    <3>4. phase = "authorization" /\ outcome[e] \in {"error", "aborted"} =>
            Contains(chan[phase], e)
      BY <1>1, <1>2 DEF ChannelInv
    <3>5. outcome[e] = "ok" => Contains(chan'[phase], e) \/ Kept(e)'
      <4>1. CASE e = response
        BY <4>1
      <4>2. CASE e # response
        BY <3>1, <3>2, <3>3, <4>2
      <4> QED
        BY <4>1, <4>2
    <3> QED
      BY <3>2, <3>4, <3>5
  <2> QED
    BY <1>1, <2>1, <2>2 DEF ChannelInv, Block, Of
<1>13. BlocksInSequence'
  BY <1>2 DEF BlocksInSequence, Kept
<1> QED
  BY <1>6, <1>7, <1>8, <1>9, <1>10, <1>11, <1>12, <1>13

LEMMA Received ==
  ASSUME PipelineInv, received
  PROVE  /\ phase \in Phases
         /\ response \in Block(phase, block) /\ outcome[response] \in Sent
         /\ response \in Evaluators /\ PhaseOf[response] = phase
         /\ chan' \in [Phases -> Seq(Evaluators)]
         /\ \A q \in Phases : \A i \in 1..Len(chan'[q]) : PhaseOf[chan'[q][i]] = q
         /\ \A q \in Phases \ {phase} : chan'[q] = chan[q]
<1> DEFINE s == chan[phase]
<1>1. block # None /\ s # <<>> /\ chan' = [chan EXCEPT ![phase] = Tail(s)] /\ response = Head(s)
  BY DEF received, response
<1>2. /\ phase \in Phases /\ chan \in [Phases -> Seq(Evaluators)] /\ ChannelInv
      /\ \A q \in Phases : \A i \in 1..Len(chan[q]) : PhaseOf[chan[q][i]] = q
  BY <1>1 DEF PipelineInv, TypeOK, NoBlockInv
<1>3. s \in Seq(Evaluators)
  BY <1>2
<1>4. /\ \A i \in 1..Len(s) : s[i] \in Block(phase, block) /\ outcome[s[i]] \in Sent
      /\ \A i \in 1..Len(s) : PhaseOf[s[i]] = phase
  BY <1>1, <1>2 DEF ChannelInv
<1>5. chan' \in [Phases -> Seq(Evaluators)] /\ chan'[phase] = Tail(s)
      /\ \A q \in Phases \ {phase} : chan'[q] = chan[q]
  <2>1. Tail(s) \in Seq(Evaluators)
    BY <1>1, <1>3
  <2> HIDE DEF s
  <2> QED
    BY <1>1, <1>2, <2>1
<1>6. ASSUME NEW q \in Phases, NEW i \in 1..Len(chan'[q]) PROVE PhaseOf[chan'[q][i]] = q
  <2>1. CASE q = phase
    <3> HIDE DEF s
    <3>1. i \in 1..Len(Tail(s)) /\ chan'[q][i] = Tail(s)[i]
      BY <1>5, <2>1
    <3>2. i + 1 \in 1..Len(s) /\ Tail(s)[i] = s[i + 1]
      BY <1>1, <1>3, <3>1, TailContains
    <3> QED
      BY <1>4, <2>1, <3>1, <3>2
  <2>2. CASE q # phase
    BY <1>2, <1>5, <2>2
  <2> QED
    BY <2>1, <2>2
<1> HIDE DEF s
<1>7. Head(s) \in Evaluators /\ 1 \in 1..Len(s) /\ Head(s) = s[1]
  BY <1>1, <1>3, TailContains
<1>8. response \in Block(phase, block) /\ outcome[response] \in Sent /\ PhaseOf[response] = phase
  BY <1>1, <1>4, <1>7
<1>9. response \in Evaluators
  BY <1>1, <1>7
<1> QED
  BY <1>2, <1>5, <1>6, <1>8, <1>9

LEMMA ReceiveIdentityInv ==
  ASSUME PipelineInv, ReceiveIdentity
  PROVE  PipelineInv'
<1>1. PICK r : r = response
  OBVIOUS
<1> DEFINE set == [identity EXCEPT ![r] = r]
<1>2. /\ phase = "identity" /\ received
      /\ UNCHANGED <<priority, stage, outcome, cancelled, expired, stored>>
  BY DEF ReceiveIdentity
<1>3. \/ /\ outcome[r] = "ok"
         /\ \E resolved \in extendable(set) : identity' = [set EXCEPT ![r] = resolved]
         /\ verified' = r
         /\ enterPhase("metadata") /\ UNCHANGED code
      \/ /\ outcome[r] = "ok" /\ ExtensionErrors /\ identity' = set
         /\ UNCHANGED control /\ UNCHANGED verified /\ UNCHANGED code
      \/ /\ outcome[r] # "ok"
         /\ UNCHANGED control /\ UNCHANGED identity /\ UNCHANGED verified /\ UNCHANGED code
      \/ /\ outcome[r] = "ok" => identity' = set
         /\ identity' = set \/ UNCHANGED identity
         /\ Of("identity") = {r} /\ code' = "UNAUTHENTICATED" /\ enterPhase("callbacks")
         /\ UNCHANGED verified
  BY <1>1 DEF ReceiveIdentity, identityFailed
<1>4. /\ phase \in Phases /\ r \in Evaluators /\ r \in Of("identity")
      /\ chan' \in [Phases -> Seq(Evaluators)]
      /\ \A q \in Phases : \A i \in 1..Len(chan'[q]) : PhaseOf[chan'[q][i]] = q
      /\ \A q \in Phases \ {phase} : chan'[q] = chan[q]
  BY <1>2, <1>1, Received DEF Of
<1>5. \A q \in Later[phase] : chan'[q] = chan[q]
  BY <1>4, LaterPhases
<1>6. /\ identity \in [Of("identity") -> Of("identity") \cup {None}]
      /\ verified \in Of("identity") \cup {None}
      /\ r # None /\ ResultInv
  BY <1>4, NoneIsNoValue DEF PipelineInv, TypeOK
<1>7. /\ set \in [Of("identity") -> Of("identity") \cup {None}]
      /\ set[r] = r /\ \A e \in Of("identity") : e # r => set[e] = identity[e]
  BY <1>4, <1>6
<1> HIDE DEF set
<1>8. CASE /\ outcome[r] = "ok"
           /\ \E resolved \in extendable(set) : identity' = [set EXCEPT ![r] = resolved]
           /\ verified' = r
           /\ enterPhase("metadata") /\ UNCHANGED code
  <2>1. PICK resolved \in extendable(set) : identity' = [set EXCEPT ![r] = resolved]
    BY <1>8
  <2>2. PICK x \in Of("identity") : set[x] # None /\ resolved = set[x]
    BY <1>7 DEF extendable
  <2>3. resolved \in Of("identity") /\ resolved # None
    BY <1>7, <2>2
  <2>4. /\ identity' \in [Of("identity") -> Of("identity") \cup {None}]
        /\ identity'[r] = resolved
        /\ \A e \in Of("identity") : e # r => identity'[e] = identity[e]
    BY <1>4, <1>7, <2>1, <2>3
  <2>5. \A e \in Evaluators : Kept(e) => Kept(e)'
    BY <1>2, <2>3, <2>4 DEF Kept, Of
  <2>6. "metadata" \in Later[phase]
    BY <1>2 DEF Later
  <2>7. /\ phase' = "metadata" /\ blocks' \subseteq Priorities /\ block' = None
        /\ StageInv' /\ LaterInv' /\ BlocksInv' /\ NoBlockInv'
        /\ SettledInv' /\ ChannelInv' /\ ContextInv' /\ BlocksInSequence'
    BY <1>2, <1>5, <1>8, <2>5, <2>6, EnterPhase
  <2>8. TypeOK'
    BY <1>2, <1>4, <1>8, <2>4, <2>7 DEF PipelineInv, TypeOK, Of, Phases
  <2>9. ResultInv' /\ OKMeansAllGranted'
    BY <1>2, <1>6, <1>8, <2>7 DEF ResultInv, OKMeansAllGranted, DeniedForCause, refused, Of
  <2> QED
    BY <1>2, <2>7, <2>8, <2>9 DEF PipelineInv
<1>9. CASE /\ outcome[r] = "ok" /\ ExtensionErrors /\ identity' = set
           /\ UNCHANGED control /\ UNCHANGED verified /\ UNCHANGED code
  <2>1. \A e \in Evaluators : Kept(e) => Kept(e)'
    BY <1>2, <1>6, <1>7, <1>9 DEF Kept, Of
  <2>2. outcome[r] = "ok" => Kept(r)'
    BY <1>6, <1>4, <1>7, <1>9 DEF Kept, Of
  <2>3. /\ StageInv' /\ LaterInv' /\ BlocksInv' /\ NoBlockInv'
        /\ SettledInv' /\ ChannelInv' /\ ContextInv' /\ BlocksInSequence'
    BY <1>2, <1>1, <1>9, <2>1, <2>2, ReceivedInBlock
  <2>4. TypeOK'
    BY <1>2, <1>4, <1>7, <1>9 DEF PipelineInv, TypeOK, Of, control
  <2>5. ResultInv' /\ OKMeansAllGranted'
    BY <1>2, <1>6, <1>9 DEF ResultInv, OKMeansAllGranted, DeniedForCause, refused, Of, control
  <2> QED
    BY <1>2, <2>3, <2>4, <2>5 DEF PipelineInv
<1>10. CASE /\ outcome[r] # "ok"
            /\ UNCHANGED control /\ UNCHANGED identity /\ UNCHANGED verified /\ UNCHANGED code
  <2>1. \A e \in Evaluators : Kept(e) => Kept(e)'
    BY <1>2, <1>10 DEF Kept
  <2>2. /\ StageInv' /\ LaterInv' /\ BlocksInv' /\ NoBlockInv'
        /\ SettledInv' /\ ChannelInv' /\ ContextInv' /\ BlocksInSequence'
    BY <1>2, <1>1, <1>10, <2>1, ReceivedInBlock
  <2>3. TypeOK'
    BY <1>2, <1>4, <1>10 DEF PipelineInv, TypeOK, Of, control
  <2>4. ResultInv' /\ OKMeansAllGranted'
    BY <1>2, <1>6, <1>10 DEF ResultInv, OKMeansAllGranted, DeniedForCause, refused, Of, control
  <2> QED
    BY <1>2, <2>2, <2>3, <2>4 DEF PipelineInv
<1>11. CASE /\ outcome[r] = "ok" => identity' = set
            /\ identity' = set \/ UNCHANGED identity
            /\ Of("identity") = {r} /\ code' = "UNAUTHENTICATED" /\ enterPhase("callbacks")
            /\ UNCHANGED verified
  <2>1. \A e \in Evaluators : Kept(e) => Kept(e)'
    BY <1>2, <1>6, <1>7, <1>11 DEF Kept, Of
  <2>2. "callbacks" \in Later[phase]
    BY <1>2 DEF Later
  <2>3. /\ phase' = "callbacks" /\ blocks' \subseteq Priorities /\ block' = None
        /\ StageInv' /\ LaterInv' /\ BlocksInv' /\ NoBlockInv'
        /\ SettledInv' /\ ChannelInv' /\ ContextInv' /\ BlocksInSequence'
    BY <1>2, <1>5, <1>11, <2>1, <2>2, EnterPhase
  <2>4. TypeOK'
    <3>1. identity' \in [Of("identity") -> Of("identity") \cup {None}]
      BY <1>6, <1>7, <1>11
    <3>2. code' \in {"OK", "UNAUTHENTICATED", "PERMISSION_DENIED"} /\ verified' = verified
      BY <1>11
    <3> QED
      BY <1>2, <1>4, <2>3, <3>1, <3>2 DEF PipelineInv, TypeOK, Of, Phases
  <2>5. refused(r)'
    <3>1. CASE outcome[r] = "ok"
      BY <1>2, <1>4, <1>6, <1>7, <1>11, <3>1 DEF refused, Of
    <3>2. CASE outcome[r] # "ok"
      <4>1. outcome[r] \in {"error", "aborted"} /\ r \in Block(phase, block) /\ block # None
        BY <1>1, <1>2, <3>2, Received DEF Sent, received
      <4>2. \A e \in Block(phase, block) : e = r
        BY <1>2, <1>11 DEF Block
      <4> QED
        BY <1>2, <1>4, <3>2, <4>1, <4>2 DEF PipelineInv, ContextInv, refused
    <3> QED
      BY <3>1, <3>2
  <2>6. ResultInv' /\ OKMeansAllGranted'
    BY <1>2, <1>6, <1>11, <2>3, <2>5 DEF ResultInv, OKMeansAllGranted, DeniedForCause, refused, Of
  <2> QED
    BY <1>2, <2>3, <2>4, <2>6 DEF PipelineInv
<1> QED
  BY <1>3, <1>8, <1>9, <1>10, <1>11

LEMMA ReceiveObjectInv ==
  ASSUME PipelineInv, ReceiveObject
  PROVE  PipelineInv'
<1>1. PICK r : r = response
  OBVIOUS
<1>2. /\ phase # "identity" /\ received
      /\ UNCHANGED <<priority, stage, outcome, cancelled, expired, identity, verified>>
      /\ \/ /\ outcome[r] = "ok" /\ stored' = stored \cup {r}
            /\ UNCHANGED control /\ UNCHANGED code
         \/ /\ outcome[r] # "ok" /\ phase = "authorization"
            /\ code' = "PERMISSION_DENIED" /\ enterPhase("callbacks") /\ UNCHANGED stored
         \/ /\ outcome[r] # "ok" /\ phase # "authorization"
            /\ UNCHANGED control /\ UNCHANGED stored /\ UNCHANGED code
  BY <1>1 DEF ReceiveObject
<1>3. /\ phase \in Phases /\ r \in Block(phase, block) /\ outcome[r] \in Sent
      /\ r \in Evaluators /\ PhaseOf[r] = phase
      /\ chan' \in [Phases -> Seq(Evaluators)]
      /\ \A q \in Phases : \A i \in 1..Len(chan'[q]) : PhaseOf[chan'[q][i]] = q
      /\ \A q \in Phases \ {phase} : chan'[q] = chan[q]
  BY <1>2, <1>1, Received
<1>4. \A q \in Later[phase] : chan'[q] = chan[q]
  BY <1>3, LaterPhases
<1>5. \A e \in Evaluators : Kept(e) => Kept(e)'
  BY <1>2 DEF Kept
<1>6. CASE UNCHANGED control /\ UNCHANGED code /\ (phase = "authorization" => outcome[r] = "ok")
           /\ (outcome[r] = "ok" => r \in stored') /\ stored' \subseteq stored \cup {r}
  <2>1. outcome[r] = "ok" => Kept(r)'
    BY <1>2, <1>3, <1>6 DEF Kept
  <2>2. /\ StageInv' /\ LaterInv' /\ BlocksInv' /\ NoBlockInv'
        /\ SettledInv' /\ ChannelInv' /\ ContextInv' /\ BlocksInSequence'
    BY <1>2, <1>1, <1>5, <1>6, <2>1, ReceivedInBlock
  <2>3. TypeOK'
    <3>1. stored' \subseteq Evaluators \ Of("identity")
      BY <1>2, <1>3, <1>6 DEF PipelineInv, TypeOK, Of
    <3>2. UNCHANGED <<phase, blocks, block, code>>
      BY <1>6 DEF control
    <3> QED
      BY <1>2, <1>3, <3>1, <3>2 DEF PipelineInv, TypeOK, Of
  <2>4. ResultInv' /\ OKMeansAllGranted'
    BY <1>2, <1>6 DEF PipelineInv, ResultInv, OKMeansAllGranted, DeniedForCause, refused, Of, control
  <2> QED
    BY <1>2, <2>2, <2>3, <2>4 DEF PipelineInv
<1>7. CASE /\ outcome[r] # "ok" /\ phase = "authorization"
           /\ code' = "PERMISSION_DENIED" /\ enterPhase("callbacks") /\ UNCHANGED stored
  <2>1. \E e \in Of("authorization") : outcome[e] = "error"
    <3>1. block # None
      BY <1>2 DEF received
    <3>2. outcome[r] \in {"error", "aborted"} /\ r \in Of("authorization")
      BY <1>3, <1>7 DEF Sent, Of
    <3>3. outcome[r] = "aborted" => \E e \in Block(phase, block) : outcome[e] = "error"
      BY <1>3, <1>7, <3>1 DEF PipelineInv, ContextInv
    <3> QED
      BY <1>7, <3>2, <3>3 DEF Block
  <2>2. "callbacks" \in Later[phase]
    BY <1>7 DEF Later
  <2>3. /\ phase' = "callbacks" /\ blocks' \subseteq Priorities /\ block' = None
        /\ StageInv' /\ LaterInv' /\ BlocksInv' /\ NoBlockInv'
        /\ SettledInv' /\ ChannelInv' /\ ContextInv' /\ BlocksInSequence'
    BY <1>2, <1>4, <1>5, <1>7, <2>2, EnterPhase
  <2>4. TypeOK'
    BY <1>2, <1>3, <1>7, <2>3 DEF PipelineInv, TypeOK, Of, Phases
  <2>5. ResultInv' /\ OKMeansAllGranted'
    BY <1>2, <1>7, <2>1, <2>3 DEF PipelineInv, ResultInv, OKMeansAllGranted, DeniedForCause, refused, Of
  <2> QED
    BY <1>2, <2>3, <2>4, <2>5 DEF PipelineInv
<1> QED
  BY <1>2, <1>6, <1>7

LEMMA PipelineInvariance ==
  ASSUME ~Timeouts
  PROVE  Spec => []PipelineInv
<1>1. NewAuthPipeline => PipelineInv
  BY NewPipelineInv
<1>2. PipelineInv /\ [Next]_vars => PipelineInv'
  <2> SUFFICES ASSUME PipelineInv, [Next]_vars PROVE PipelineInv'
    OBVIOUS
  <2>1. ASSUME NEW e \in Evaluators, evaluateAuthConfig(e) PROVE PipelineInv'
    BY <2>1, CheckContextInv, EvaluateConditionsInv, CallInv, ReturnInv DEF evaluateAuthConfig
  <2>2. CASE Main
    BY <2>2, EvaluateInv, StartBlockInv, ReceiveIdentityInv, ReceiveObjectInv, EndBlockInv,
       EndPhaseInv DEF Main
  <2>3. CASE UNCHANGED vars
    <3>1. TypeOK' /\ ~expired'
      BY <2>3 DEF vars, PipelineInv, TypeOK, Of
    <3>2. StageInv' /\ LaterInv' /\ BlocksInv' /\ NoBlockInv'
      BY <2>3 DEF vars, PipelineInv, StageInv, LaterInv, BlocksInv, NoBlockInv, Of
    <3>3. SettledInv' /\ ChannelInv' /\ ContextInv'
      BY <2>3 DEF vars, PipelineInv, SettledInv, Settled, ChannelInv, ContextInv, Kept, refused, Block, Of
    <3>4. DeniedForCause' <=> DeniedForCause
      BY <2>3 DEF vars, DeniedForCause, refused, Of
    <3>5. ResultInv'
      BY <2>3, <3>4 DEF vars, PipelineInv, ResultInv, Of
    <3>6. OKMeansAllGranted'
      BY <2>3 DEF vars, PipelineInv, OKMeansAllGranted, Of
    <3>7. BlocksInSequence'
      BY <2>3 DEF vars, PipelineInv, BlocksInSequence
    <3> QED
      BY <3>1, <3>2, <3>3, <3>5, <3>6, <3>7 DEF PipelineInv
  <2> QED
    BY <2>1, <2>2, <2>3 DEF Next, Expire
<1> QED
  BY <1>1, <1>2, PTL DEF Spec

(***************************************************************************)
(* Without a deadline, no interleaving of the goroutines of any AuthConfig *)
(* lets a request past the authorization phase with a policy not granted   *)
(* (Evaluate, evaluateAuthorizationConfigs).                               *)
(***************************************************************************)
THEOREM OKIsGranted ==
  ASSUME ~Timeouts
  PROVE  Spec => []OKMeansAllGranted
BY PipelineInvariance, PTL DEF PipelineInv

(***************************************************************************)
(* Without a deadline, the blocks of a phase do not overlap, whatever the  *)
(* priorities (groupAuthConfigsByPriority, evaluateAuthConfigs).           *)
(***************************************************************************)
THEOREM PriorityBlocks ==
  ASSUME ~Timeouts
  PROVE  Spec => []BlocksInSequence
BY PipelineInvariance, PTL DEF PipelineInv

(***************************************************************************)
(* Without a deadline, a request is denied only for a cause of its own,    *)
(* whoever is the first to cancel the others and whichever identities      *)
(* cannot be extended (evaluateIdentityConfigs, evaluateAllAuthConfigs).   *)
(***************************************************************************)
THEOREM DenialHasCause ==
  ASSUME ~Timeouts
  PROVE  Spec => []DeniedForCause
<1>1. PipelineInv => DeniedForCause
  BY DEF PipelineInv, ResultInv
<1> QED
  BY <1>1, PipelineInvariance, PTL

----------------------------------------------------------------------------
(***************************************************************************)
(* No strategy cancels the context of the callbacks, and Evaluate ends     *)
(* when they have returned, unless it skipped the AuthConfig.              *)
(***************************************************************************)
CallbacksInv ==
  /\ "callbacks" \notin cancelled
  /\ \A e \in Of("callbacks") : outcome[e] \in {"none", "ok", "error", "ignored"}
  /\ phase = "end" => \/ \A e \in Evaluators : stage[e] = "none"
                      \/ \A e \in Of("callbacks") : stage[e] = "returned"

LEMMA CallbacksInit == NewAuthPipeline => CallbacksInv
BY DEF NewAuthPipeline, CallbacksInv, Of

LEMMA GoroutineCallbacks ==
  ASSUME PipelineInv, CallbacksInv, NEW e \in Evaluators, evaluateAuthConfig(e)
  PROVE  CallbacksInv'
<1>1. /\ stage \in [Evaluators -> Stages] /\ outcome \in [Evaluators -> Outcomes]
      /\ PhaseOf[e] \in Phases /\ ~expired
  BY PhaseOfAssumption DEF PipelineInv, TypeOK
<1>2. /\ stage[e] \notin {"none", "returned"} /\ UNCHANGED phase
      /\ \A f \in Evaluators : f # e => stage'[f] = stage[f] /\ outcome'[f] = outcome[f]
  BY <1>1 DEF evaluateAuthConfig, CheckContext, evaluateConditions, Call, Return, control
<1>3. PhaseOf[e] = "callbacks" => ~done(e)
  BY <1>1 DEF CallbacksInv, done
<1>4. PhaseOf[e] = "callbacks" => outcome'[e] = outcome[e] \/ outcome'[e] \in {"ok", "error", "ignored"}
  BY <1>1, <1>3 DEF evaluateAuthConfig, CheckContext, evaluateConditions, Call, Return
<1>5. "callbacks" \notin cancelled'
  <2>1. PhaseOf[e] = "callbacks" => ~cancels(e)
    BY DEF cancels
  <2> QED
    BY <2>1 DEF CallbacksInv, evaluateAuthConfig, CheckContext, evaluateConditions, Call, Return
<1>6. \A f \in Of("callbacks") : outcome'[f] \in {"none", "ok", "error", "ignored"}
  BY <1>2, <1>4 DEF CallbacksInv, Of
<1>7. phase = "end" => \A f \in Of("callbacks") : stage[f] = "returned" /\ f # e
  BY <1>2 DEF CallbacksInv, Of
<1> QED
  BY <1>2, <1>5, <1>6, <1>7 DEF CallbacksInv, Of

LEMMA MainCallbacks ==
  ASSUME PipelineInv, CallbacksInv, Main
  PROVE  CallbacksInv'
<1>1. CASE Evaluate
  <2>1. \A e \in Evaluators : stage[e] = "none"
    BY <1>1, PhaseOfAssumption DEF Evaluate, PipelineInv, LaterInv, Later, Of
  <2> QED
    BY <1>1, <2>1 DEF Evaluate, goroutines, CallbacksInv, Of
<1>2. CASE StartBlock
  <2>1. phase # "end"
    BY <1>2 DEF StartBlock, PipelineInv, NoBlockInv, Phases
  <2> QED
    BY <1>2, <2>1 DEF StartBlock, CallbacksInv, Of
<1>3. CASE EndPhase
  <2>1. UNCHANGED <<stage, outcome, cancelled>> /\ block = None /\ blocks = {}
        /\ (phase' = "end" => phase = "callbacks")
    BY <1>3 DEF EndPhase, enterPhase, goroutines
  <2>2. ASSUME phase = "callbacks", NEW e \in Of("callbacks") PROVE stage[e] = "returned"
    <3>1. priority[e] \in Priorities
      BY <2>2 DEF PipelineInv, TypeOK, Of
    <3>2. Settled(e)
      BY <2>1, <2>2, <3>1, NoneIsNoValue DEF PipelineInv, SettledInv, Phases
    <3> QED
      BY <3>2 DEF Settled
  <2> QED
    BY <2>1, <2>2 DEF CallbacksInv, Of
<1>4. CASE ReceiveIdentity \/ ReceiveObject \/ EndBlock
  <2>1. UNCHANGED <<stage, outcome, cancelled>>
    BY <1>4 DEF ReceiveIdentity, ReceiveObject, EndBlock, goroutines
  <2>2. phase' # "end"
    <3>1. block # None
      BY <1>4 DEF ReceiveIdentity, ReceiveObject, EndBlock, received
    <3>2. phase # "end"
      BY <3>1 DEF PipelineInv, NoBlockInv, Phases
    <3> QED
      BY <1>4, <3>2
         DEF ReceiveIdentity, ReceiveObject, EndBlock, identityFailed, enterPhase, control
  <2> QED
    BY <2>1, <2>2 DEF CallbacksInv, Of
<1> QED
  BY <1>1, <1>2, <1>3, <1>4 DEF Main

(***************************************************************************)
(* Without a deadline, an evaluation that is not skipped ends only after   *)
(* every callback was called or excluded by its conditions, with whatever  *)
(* result it ends (Evaluate, executeCallbacks).                            *)
(***************************************************************************)
THEOREM CallbacksCalled ==
  ASSUME ~Timeouts
  PROVE  Spec => []CallbacksAreCalled
<1>1. NewAuthPipeline => CallbacksInv
  BY CallbacksInit
<1>2. PipelineInv /\ CallbacksInv /\ [Next]_vars => CallbacksInv'
  <2>1. UNCHANGED vars /\ CallbacksInv => CallbacksInv'
    BY DEF vars, CallbacksInv, Of
  <2> QED
    BY <2>1, MainCallbacks, GoroutineCallbacks DEF Next, Expire
<1>3. PipelineInv /\ CallbacksInv => CallbacksAreCalled
  <2> SUFFICES ASSUME PipelineInv, CallbacksInv, phase = "end", \E e \in Evaluators : stage[e] # "none",
                      NEW e \in Of("callbacks")
               PROVE  outcome[e] \in {"ok", "error", "ignored"}
    BY DEF CallbacksAreCalled
  <2>1. stage[e] = "returned"
    BY DEF CallbacksInv
  <2>2. outcome[e] # "none"
    BY <2>1 DEF PipelineInv, StageInv, Of
  <2> QED
    BY <2>2 DEF CallbacksInv
<1>4. Spec => []PipelineInv
  BY PipelineInvariance
<1> QED
  BY <1>1, <1>2, <1>3, <1>4, PTL DEF Spec
=============================================================================
