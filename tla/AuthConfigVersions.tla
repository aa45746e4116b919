------------------------ MODULE AuthConfigVersions ------------------------
(***************************************************************************)
(* An AuthConfig resource, written and read in either version of the API,  *)
(* stored as v1beta1 and reconciled from there.  The API server calls the  *)
(* conversion webhook for every read and write at v1beta2; a client that   *)
(* edits another part of the resource at v1beta2 (its labels, say) writes  *)
(* back the spec as it read it.                                            *)
(***************************************************************************)
EXTENDS Conversion, Effects

CONSTANTS
  V1Specs,  \* the specs that clients create at v1beta1
  V2Specs,  \* the specs that clients create at v1beta2
  Jsons     \* authorization JSONs to evaluate conditions with

VARIABLES
  written,  \* the spec as its author wrote it, and the version it is in
  stored,   \* the spec in the cluster, v1beta1
  enforced  \* <<>>, or what the last reconciliation translated the spec to

versionsVars == <<written, stored, enforced>>

Orders == {order \in [1..Cardinality(Names) -> Names] : IsInjective(order)}

VersionsInit ==
  /\ written = Nil
  /\ stored = Nil
  /\ enforced = <<>>

CreateV1beta1(spec) ==
  /\ stored = Nil
  /\ written' = [version |-> "v1beta1", spec |-> spec]
  /\ stored' = spec
  /\ UNCHANGED enforced

CreateV1beta2(spec, order) ==
  /\ stored = Nil
  /\ written' = [version |-> "v1beta2", spec |-> spec]
  /\ stored' = ConvertTo(spec, order)
  /\ UNCHANGED enforced

EditV1beta2(order) ==
  /\ stored # Nil
  /\ stored' = ConvertTo(ConvertFrom(stored), order)
  /\ UNCHANGED <<written, enforced>>

Reconcile ==
  /\ stored # Nil
  /\ enforced' = <<translateAuthConfig(stored)>>
  /\ UNCHANGED <<written, stored>>

VersionsNext ==
  \/ \E spec \in V1Specs : CreateV1beta1(spec)
  \/ \E spec \in V2Specs, order \in Orders : CreateV1beta2(spec, order)
  \/ \E order \in Orders : EditV1beta2(order)
  \/ Reconcile

VersionsSpec == VersionsInit /\ [][VersionsNext]_versionsVars

----------------------------------------------------------------------------
(***************************************************************************)
(* What is stored is a spec of v1beta1, and what is read of it at v1beta2  *)
(* a spec of v1beta2 (ConvertTo and ConvertFrom).                          *)
(***************************************************************************)
VersionsTypeOK ==
  stored # Nil => /\ stored \in V1!AuthConfigSpec
                  /\ ConvertFrom(stored) \in V2!AuthConfigSpec

(***************************************************************************)
(* v1beta1 can say what v1beta2 cannot: evaluators of the same name, more  *)
(* than one default for a property of the identity (the first one counts,  *)
(* and the last one would stay), a denial header given twice.              *)
(***************************************************************************)
unique(list, Key(_)) == \A i, j \in DOMAIN list : Key(list[i]) = Key(list[j]) => i = j

named(list) == unique(list, LAMBDA x : x.name)

Unambiguous(w) ==
  w.version = "v1beta1" =>
    /\ named(w.spec.identity) /\ named(w.spec.metadata)
    /\ named(w.spec.authorization) /\ named(w.spec.callbacks)
    /\ unique(w.spec.response, LAMBDA r : <<r.name, r.own.wrapper = "envoyDynamicMetadata">>)
    /\ \A i \in DOMAIN w.spec.identity :
         named(SelectSeq(w.spec.identity[i].own.extendedProperties, LAMBDA p : ~p.overwrite))
    /\ w.spec.denyWith # Nil =>
         \A d \in {w.spec.denyWith.unauthenticated, w.spec.denyWith.unauthorized} \ {Nil} :
           named(d.headers)

(***************************************************************************)
(* Editing a resource at the other version never changes what is enforced: *)
(* a later reconciliation translates the spec to the same effects as an    *)
(* earlier one, however often it went through ConvertFrom and ConvertTo    *)
(* meanwhile and in whatever order the maps were visited.                  *)
(***************************************************************************)
EditsChangeNoEffect ==
  [][(enforced # <<>> /\ Unambiguous(written)) => effects(enforced'[1]) = effects(enforced[1])]_enforced

(***************************************************************************)
(* A client that reads the resource at v1beta2 and writes it back reads    *)
(* the same again: the losses of a conversion, if any, are in the first    *)
(* one (ConvertFrom after ConvertTo).                                      *)
(***************************************************************************)
ReadsAreStable ==
  [][stored # Nil => ConvertFrom(stored') = ConvertFrom(stored)]_stored

----------------------------------------------------------------------------
evaluatorTypes ==
  [apiKey |-> "apiKey", jwt |-> "oidc", oauth2Introspection |-> "oauth2", x509 |-> "mtls",
   kubernetesTokenReview |-> "kubernetes", plain |-> "plain", anonymous |-> "anonymous",
   http |-> "http", userInfo |-> "userInfo", uma |-> "uma", patternMatching |-> "json",
   opa |-> "opa", kubernetesSubjectAccessReview |-> "kubernetes", spicedb |-> "authzed",
   json |-> "json", wristband |-> "wristband"]

(***************************************************************************)
(* Each spec of a map is enforced by one evaluator, of its name, method    *)
(* and priority, and no other evaluator is there.                          *)
(***************************************************************************)
enforcesEach(list, specs) ==
  /\ Len(list) = Cardinality(DOMAIN specs)
  /\ \A n \in DOMAIN specs : \E i \in DOMAIN list :
       /\ list[i].name = n
       /\ {list[i].type} = {evaluatorTypes[m] : m \in DOMAIN specs[n].method}
       /\ list[i].priority = specs[n].priority

(***************************************************************************)
(* A v1beta2 spec that is enforced is enforced as written: no evaluator is *)
(* lost, doubled or made up on the way through ConvertTo and               *)
(* translateAuthConfig, but for the anonymous access of a spec that has no *)
(* authentication; responses stay in their wrapper, denials in their case. *)
(***************************************************************************)
EnforcedAsWritten ==
  (enforced # <<>> /\ enforced # <<Failed>> /\ written.version = "v1beta2") =>
    LET spec == written.spec
        config == enforced[1]
        wrapped(w) == SelectSeq(config.response, LAMBDA r : r.args.wrapper = w)
    IN  /\ IF spec.authentication = Unset
           THEN Len(config.identity) = 1 /\ config.identity[1].type = "anonymous"
           ELSE enforcesEach(config.identity, spec.authentication)
        /\ enforcesEach(config.metadata, spec.metadata)
        /\ enforcesEach(config.authorization, spec.authorization)
        /\ enforcesEach(wrapped("httpHeader"), spec.response.headers)
        /\ enforcesEach(wrapped("envoyDynamicMetadata"), spec.response.dynamicMetadata)
        /\ enforcesEach(config.callbacks, spec.callbacks)
        /\ (config.unauthenticated = Nil) = (spec.response.unauthenticated = Nil)
        /\ (config.unauthorized = Nil) = (spec.response.unauthorized = Nil)

(***************************************************************************)
(* The reading of a list of patterns as they are written: of its parts, in *)
(* the order they are in, the first that decides gives the outcome.        *)
(***************************************************************************)
RECURSIVE reading(_, _, _, _)
reading(namedPatterns, patterns, how, json) ==
  LET own(p) == IF p.patternRef \in DOMAIN namedPatterns THEN namedPatterns[p.patternRef]
                ELSE IF p.operator # "" THEN <<p>> ELSE <<>>
      nested(list, h) == IF list = <<>> THEN <<>> ELSE <<reading(namedPatterns, list, h, json)>>
      outcomes == FlattenSeq([i \in DOMAIN patterns |->
                    mapSeq(own(patterns[i]), LAMBDA e : patternMatches(e, json))
                    \o nested(patterns[i].all, "all") \o nested(patterns[i].any, "any")])
      neutral == IF how = "all" THEN "true" ELSE "false"
      decides == {i \in DOMAIN outcomes : outcomes[i] # neutral}
  IN  IF decides = {} THEN neutral ELSE outcomes[Min(decides)]

(***************************************************************************)
(* The conditions of an AuthConfig and the rules of its pattern-matching   *)
(* policies evaluate to the reading of what is written at v1beta2, errors  *)
(* included (convertPatternExpressionOrRefTo, buildJSONExpression, All,    *)
(* Any and the Matches functions).                                         *)
(***************************************************************************)
ConditionsAsWritten ==
  (enforced # <<>> /\ enforced # <<Failed>> /\ written.version = "v1beta2") =>
    LET spec == written.spec
        config == enforced[1]
        reads(expression, patterns) ==
          \A json \in Jsons :
            Matches(expression, json) = reading(spec.namedPatterns, patterns, "all", json)
    IN  /\ reads(config.conditions, spec.conditions)
        /\ \A i \in DOMAIN config.authorization :
             config.authorization[i].type = "json" =>
               reads(config.authorization[i].args.rules,
                     spec.authorization[config.authorization[i].name].method.patternMatching.patterns)
=============================================================================
