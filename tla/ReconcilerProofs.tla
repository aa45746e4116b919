-------------------------- MODULE ReconcilerProofs --------------------------
(***************************************************************************)
(* The controller keeps the invariant of the index, and with it never      *)
(* takes a host from the resource that has it, for any hosts, resources    *)
(* and specs and whatever happens between its steps.                       *)
(***************************************************************************)
EXTENDS Reconciler, IndexProofs

(***************************************************************************)
(* The hosts that Reconcile unlinks are keys of the resource.              *)
(***************************************************************************)
UnlinksOwnKeys == rec.pc = "unlink" => rec.unused \subseteq ToSet(keys[rec.id])

ReconcilerInv == TypeOK /\ IndexInv /\ UnlinksOwnKeys

LEMMA SpecFields ==
  ASSUME NEW s \in AllSpecs
  PROVE  s.hosts \in Seq(Hosts) /\ s.watched \in BOOLEAN /\ s # None
<1>1. PICK id \in Ids : s \in SpecsOf[id]
  BY DEF AllSpecs
<1>2. s \in [hosts: Seq(Hosts), kind: Kinds, watched: BOOLEAN]
  BY <1>1, SpecsAssumption
<1> QED
  BY <1>2, NoneIsNoSpec

LEMMA IdleRec == idle \in Recs /\ idle.pc = "idle" /\ idle.todo = <<>>
<1>1. denyAll \in AuthConfig
  BY DEF denyAll, AuthConfig
<1>2. <<>> \in Seq(Hosts)
  OBVIOUS
<1> QED
  BY <1>1, <1>2 DEF idle, Recs

LEMMA IdleTypeOK == rec = idle => RecTypeOK
BY IdleRec DEF RecTypeOK

LEMMA InitInv == Init => ReconcilerInv
<1> SUFFICES ASSUME Init PROVE ReconcilerInv
  OBVIOUS
<1>1. IndexInv
  BY IndexInitInv DEF Init
<1>2. ControllerTypeOK
  BY MaxChangesAssumption DEF Init, ControllerTypeOK
<1>3. RecTypeOK
  BY IdleTypeOK DEF Init
<1>4. UnlinksOwnKeys
  BY IdleRec DEF Init, UnlinksOwnKeys
<1> QED
  BY <1>1, <1>2, <1>3, <1>4 DEF ReconcilerInv, TypeOK, IndexInv

(***************************************************************************)
(* The steps that leave the index alone keep its invariant.                *)
(***************************************************************************)
LEMMA UnchangedIndexInv ==
  ASSUME IndexInv, UNCHANGED <<tree, keys>>
  PROVE  IndexInv'
BY DEF IndexInv, IndexTypeOK, PrefixClosed, KeysHaveNodes, EntriesHaveKeys

LEMMA RestartInv ==
  ASSUME restart, ReconcilerInv, changes' \in 0..MaxChanges
  PROVE  ReconcilerInv'
<1>1. IndexInv'
  <2>1. IndexInit'
    BY DEF restart, IndexInit
  <2> QED
    BY <2>1, IndexInitInv, PTL
<1>2. ControllerTypeOK'
  BY DEF restart, clusterVars, ReconcilerInv, TypeOK, ControllerTypeOK
<1>3. RecTypeOK'
  BY IdleRec DEF restart, RecTypeOK
<1>4. UnlinksOwnKeys'
  BY IdleRec DEF restart, UnlinksOwnKeys
<1> QED
  BY <1>1, <1>2, <1>3, <1>4 DEF ReconcilerInv, TypeOK, IndexInv

LEMMA UnchangedInv ==
  ASSUME ReconcilerInv, UNCHANGED <<tree, keys>>, ControllerTypeOK', RecTypeOK',
         rec'.pc = "unlink" => rec'.unused \subseteq ToSet(keys[rec'.id])
  PROVE  ReconcilerInv'
<1>1. IndexInv'
  BY UnchangedIndexInv DEF ReconcilerInv
<1> QED
  BY <1>1 DEF ReconcilerInv, TypeOK, IndexInv, UnlinksOwnKeys

----------------------------------------------------------------------------
(***************************************************************************)
(* The events of the cluster leave the index and Reconcile's locals alone. *)
(***************************************************************************)
LEMMA EventInv ==
  ASSUME ReconcilerInv, UNCHANGED <<tree, keys, rec>>, ControllerTypeOK'
  PROVE  ReconcilerInv'
<1>1. RecTypeOK'
  BY DEF ReconcilerInv, TypeOK, RecTypeOK
<1> QED
  BY <1>1, UnchangedInv DEF ReconcilerInv, UnlinksOwnKeys

LEMMA EnvironmentInv ==
  ASSUME ReconcilerInv, Environment
  PROVE  ReconcilerInv'
<1> PICK id \in Ids : \/ \E spec \in SpecsOf[id] : Apply(id, spec)
                      \/ DeleteResource(id)
                      \/ UpdateStatus(id)
                      \/ Resync(id)
  BY DEF Environment
<1> USE DEF ReconcilerInv, TypeOK, ControllerTypeOK, enqueueIf
<1>1. CASE \E spec \in SpecsOf[id] : Apply(id, spec)
  <2> PICK spec \in SpecsOf[id] : Apply(id, spec)
    BY <1>1
  <2>1. spec \in AllSpecs
    BY DEF AllSpecs
  <2>2. changes' \in 0..MaxChanges
    BY MaxChangesAssumption DEF Apply
  <2>3. older' \subseteq Ids \X Ids
    BY DEF Apply
  <2>4. /\ resource' \in [Ids -> AllSpecs \cup {None}]
        /\ queue' \subseteq Ids
    BY <2>1 DEF Apply
  <2>5. UNCHANGED <<tree, keys, ready, rec, report, worker, unclean, astray>>
    BY DEF Apply
  <2> QED
    BY <2>2, <2>3, <2>4, <2>5, EventInv
<1>2. CASE DeleteResource(id)
  <2>1. changes' \in 0..MaxChanges
    BY <1>2, MaxChangesAssumption DEF DeleteResource
  <2>2. /\ resource' \in [Ids -> AllSpecs \cup {None}]
        /\ older' \subseteq Ids \X Ids
        /\ ready' \subseteq Ids
        /\ queue' \subseteq Ids
    BY <1>2 DEF DeleteResource
  <2>3. UNCHANGED <<tree, keys, rec, report, worker, unclean, astray>>
    BY <1>2 DEF DeleteResource
  <2> QED
    BY <2>1, <2>2, <2>3, EventInv
<1>3. CASE UpdateStatus(id) \/ Resync(id)
  <2>1. ready' \subseteq Ids /\ queue' \subseteq Ids
    BY <1>3 DEF UpdateStatus, Resync
  <2>2. UNCHANGED <<tree, keys, resource, older, changes, rec, report, worker, unclean, astray>>
    BY <1>3 DEF UpdateStatus, Resync
  <2> QED
    BY <2>1, <2>2, EventInv
<1> QED
  BY <1>1, <1>2, <1>3

LEMMA CrashInv ==
  ASSUME ReconcilerInv, Crash
  PROVE  ReconcilerInv'
<1>1. changes' \in 0..MaxChanges
  BY MaxChangesAssumption DEF Crash, ReconcilerInv, TypeOK, ControllerTypeOK
<1> QED
  BY <1>1, RestartInv DEF Crash

----------------------------------------------------------------------------
(***************************************************************************)
(* What addToIndex does to the index: nothing, or a Set of a host that is  *)
(* not taken for the resource being linked.                                *)
(***************************************************************************)
LEMMA AddToIndexStep ==
  ASSUME ReconcilerInv, addToIndex
  PROVE  /\ rec.target \in Ids /\ Head(rec.todo) \in Hosts /\ rec.cfg \in Configs
         /\ \/ UNCHANGED <<tree, keys>>
            \/ /\ ~hostTaken(Head(rec.todo), rec.target)
               /\ Set(rec.target, Head(rec.todo), rec.cfg, TRUE)
         /\ rec' \in Recs
         /\ rec'.pc = rec.pc /\ rec'.id = rec.id /\ rec'.target = rec.target
         /\ rec'.spec = rec.spec
<1>1. rec \in Recs /\ rec.target \in Ids
  BY DEF addToIndex, ReconcilerInv, TypeOK, RecTypeOK
<1>2. rec.todo \in Seq(Hosts) /\ rec.todo # <<>>
  BY <1>1 DEF Recs, addToIndex
<1>3. Head(rec.todo) \in Hosts /\ Tail(rec.todo) \in Seq(Hosts)
  BY <1>2
<1>4. rec.cfg \in Configs
  BY <1>1, ConfigsAssumption DEF Recs
<1>5. \/ UNCHANGED <<tree, keys>>
      \/ /\ ~hostTaken(Head(rec.todo), rec.target)
         /\ Set(rec.target, Head(rec.todo), rec.cfg, TRUE)
  BY DEF addToIndex, indexVars
<1>6. \/ rec' = [[rec EXCEPT !.todo = Tail(@)] EXCEPT !.loose = @ \cup {Head(rec.todo)}]
      \/ rec' = [[rec EXCEPT !.todo = Tail(@)] EXCEPT !.linked = @ \cup {Head(rec.todo)}]
  BY DEF addToIndex
<1>7. /\ rec' \in Recs
      /\ rec'.pc = rec.pc /\ rec'.id = rec.id /\ rec'.target = rec.target
      /\ rec'.spec = rec.spec
  <2> DEFINE rest == [rec EXCEPT !.todo = Tail(@)]
  <2>1. rest \in Recs /\ rest.pc = rec.pc /\ rest.id = rec.id /\ rest.target = rec.target
        /\ rest.spec = rec.spec
    BY <1>1, <1>3 DEF Recs
  <2>2. \/ rec' = [rest EXCEPT !.loose = @ \cup {Head(rec.todo)}]
        \/ rec' = [rest EXCEPT !.linked = @ \cup {Head(rec.todo)}]
    BY <1>6
  <2> HIDE DEF rest
  <2>3. CASE rec' = [rest EXCEPT !.loose = @ \cup {Head(rec.todo)}]
    BY <1>3, <2>1, <2>3 DEF Recs
  <2>4. CASE rec' = [rest EXCEPT !.linked = @ \cup {Head(rec.todo)}]
    BY <1>3, <2>1, <2>4 DEF Recs
  <2> QED
    BY <2>2, <2>3, <2>4
<1> QED
  BY <1>1, <1>3, <1>4, <1>5, <1>7

LEMMA AddToIndexInv ==
  ASSUME NoEmptyLabels, ReconcilerInv, rec.pc \in {"bootstrap", "link"}, addToIndex,
         UNCHANGED <<clusterVars, changes, queue, report, worker, unclean, astray>>
  PROVE  ReconcilerInv'
<1>1. IndexInv'
  BY AddToIndexStep, SetInv, UnchangedIndexInv DEF ReconcilerInv
<1>2. ControllerTypeOK'
  BY DEF ReconcilerInv, TypeOK, ControllerTypeOK, clusterVars
<1>3. RecTypeOK'
  BY AddToIndexStep DEF ReconcilerInv, TypeOK, RecTypeOK
<1>4. UnlinksOwnKeys'
  BY AddToIndexStep DEF UnlinksOwnKeys
<1> QED
  BY <1>1, <1>2, <1>3, <1>4 DEF ReconcilerInv, TypeOK, IndexInv

LEMMA BeginInv ==
  ASSUME ReconcilerInv, NEW id \in Ids, Begin(id)
  PROVE  ReconcilerInv'
<1>1. ControllerTypeOK'
  BY DEF Begin, ReconcilerInv, TypeOK, ControllerTypeOK, clusterVars
<1>2. PICK boot \in {bootstrapItems, {}} :
        rec' = [idle EXCEPT !.pc = "bootstrap", !.id = id, !.boot = boot]
  BY DEF Begin
<1>3. boot \in SUBSET [id: Ids, hosts: Seq(Hosts), after: SUBSET Ids]
  <2>1. ASSUME NEW item \in bootstrapItems
        PROVE  item \in [id: Ids, hosts: Seq(Hosts), after: SUBSET Ids]
    <3>1. PICK i \in ready :
            /\ Watched(i)
            /\ item = [id |-> i, hosts |-> resource[i].hosts,
                       after |-> {j \in Ids : <<j, i>> \in older}]
      BY DEF bootstrapItems
    <3>2. i \in Ids /\ resource[i] \in AllSpecs
      BY <3>1 DEF Watched, ReconcilerInv, TypeOK, ControllerTypeOK
    <3>3. resource[i].hosts \in Seq(Hosts)
      BY <3>2, SpecFields
    <3> QED
      BY <3>1, <3>2, <3>3
  <2> QED
    BY <2>1
<1>4. rec' \in Recs /\ rec'.pc = "bootstrap" /\ rec'.id = id /\ rec'.todo = <<>>
  BY <1>2, <1>3, IdleRec DEF Recs
<1>5. RecTypeOK'
  BY <1>4 DEF RecTypeOK
<1> QED
  BY <1>1, <1>4, <1>5, UnchangedInv DEF Begin

LEMMA BootstrapResourceInv ==
  ASSUME ReconcilerInv, BootstrapResource
  PROVE  ReconcilerInv'
<1>1. ControllerTypeOK'
  BY DEF BootstrapResource, ReconcilerInv, TypeOK, ControllerTypeOK, clusterVars
<1>2. PICK item \in rec.boot :
        rec' = [rec EXCEPT !.boot = @ \ {item}, !.target = item.id, !.todo = item.hosts]
  BY DEF BootstrapResource
<1>3. rec \in Recs /\ rec.pc = "bootstrap" /\ rec.id \in Ids
  BY DEF BootstrapResource, ReconcilerInv, TypeOK, RecTypeOK
<1>4. item.id \in Ids /\ item.hosts \in Seq(Hosts)
  BY <1>3 DEF Recs
<1>5. rec' \in Recs /\ rec'.pc = "bootstrap" /\ rec'.id = rec.id /\ rec'.target \in Ids
  BY <1>2, <1>3, <1>4 DEF Recs
<1>6. RecTypeOK'
  BY <1>3, <1>5 DEF RecTypeOK
<1> QED
  BY <1>1, <1>5, <1>6, UnchangedInv DEF BootstrapResource

LEMMA GetResourceInv ==
  ASSUME ReconcilerInv, GetResource
  PROVE  ReconcilerInv'
<1>1. rec.id \in Ids
  BY DEF GetResource, ReconcilerInv, TypeOK, RecTypeOK
<1>2. ControllerTypeOK'
  BY <1>1 DEF GetResource, ReconcilerInv, TypeOK, ControllerTypeOK, clusterVars, Reports, Reasons
<1>3. \/ rec' = idle
      \/ rec' = [idle EXCEPT !.pc = "clean", !.id = rec.id,
                             !.spec = IF Watched(rec.id) THEN resource[rec.id] ELSE None]
  BY DEF GetResource
<1>4. resource[rec.id] \in AllSpecs \cup {None}
  BY <1>1 DEF ReconcilerInv, TypeOK, ControllerTypeOK
<1>5. /\ rec' \in Recs /\ rec'.todo = <<>> /\ rec'.pc \in {"idle", "clean"}
      /\ rec'.pc = "clean" => rec'.id \in Ids
  BY <1>1, <1>3, <1>4, IdleRec DEF Recs
<1>6. RecTypeOK'
  BY <1>5 DEF RecTypeOK
<1> QED
  BY <1>2, <1>5, <1>6, UnchangedInv DEF GetResource

LEMMA WorkersOfType ==
  ASSUME IndexInv, NEW id
  PROVE  workersOf(id) \subseteq Workers
<1> SUFFICES ASSUME NEW h \in LinkedTo(id)
             PROVE  linkAt(tree, h).cfg.worker \in Workers \cup {None}
  BY DEF workersOf
<1>1. linkAt(tree, h) \in [id: Ids, cfg: AuthConfig]
  BY ConfigsAssumption DEF LinkedTo, linkAt, IndexInv, IndexTypeOK, indexEntry
<1> QED
  BY <1>1 DEF AuthConfig

LEMMA CleanConfigsInv ==
  ASSUME ReconcilerInv, CleanConfigs
  PROVE  ReconcilerInv'
<1>1. CASE restart /\ UNCHANGED changes
  <2>1. changes' \in 0..MaxChanges
    BY <1>1 DEF ReconcilerInv, TypeOK, ControllerTypeOK
  <2> QED
    BY <1>1, <2>1, RestartInv
<1>2. CASE /\ \E w : worker' = IF w = None THEN worker ELSE [worker EXCEPT ![w] = "stopped"]
           /\ rec' = [rec EXCEPT !.pc = IF rec.spec = None THEN "delete" ELSE "translate"]
           /\ \E w : unclean' = unclean \cup {id \in Ids \ {rec.id} : w \in workersOf(id)}
           /\ astray' \in {astray, astray \cup workersOf(rec.id)}
           /\ UNCHANGED <<tree, keys, clusterVars, changes, queue, report>>
  <2>1. ControllerTypeOK'
    BY <1>2, WorkersOfType DEF ReconcilerInv, TypeOK, ControllerTypeOK, clusterVars
  <2>2. rec \in Recs /\ rec.id \in Ids /\ (rec.todo # <<>> => rec.target \in Ids)
    BY DEF CleanConfigs, ReconcilerInv, TypeOK, RecTypeOK
  <2>3. /\ rec' \in Recs /\ rec'.id \in Ids /\ rec'.todo = rec.todo /\ rec'.target = rec.target
        /\ rec'.pc \in {"delete", "translate"}
        /\ rec'.pc = "translate" => rec'.spec \in AllSpecs
    BY <1>2, <2>2 DEF Recs
  <2>4. RecTypeOK'
    BY <2>2, <2>3 DEF RecTypeOK
  <2> QED
    BY <1>2, <2>1, <2>3, <2>4, UnchangedInv
<1> QED
  BY <1>1, <1>2 DEF CleanConfigs

LEMMA DeleteFromIndexInv ==
  ASSUME ReconcilerInv, DeleteFromIndex
  PROVE  ReconcilerInv'
<1>1. rec.id \in Ids
  BY DEF DeleteFromIndex, ReconcilerInv, TypeOK, RecTypeOK
<1>2. IndexInv'
  BY <1>1, DeleteKeysInv DEF DeleteFromIndex, Delete, ReconcilerInv
<1>3. ControllerTypeOK'
  BY <1>1 DEF DeleteFromIndex, ReconcilerInv, TypeOK, ControllerTypeOK, clusterVars
<1>4. RecTypeOK'
  BY IdleRec DEF DeleteFromIndex, RecTypeOK
<1>5. UnlinksOwnKeys'
  BY IdleRec DEF DeleteFromIndex, UnlinksOwnKeys
<1> QED
  BY <1>2, <1>3, <1>4, <1>5 DEF ReconcilerInv, TypeOK, IndexInv

LEMMA TranslateAuthConfigInv ==
  ASSUME ReconcilerInv, TranslateAuthConfig
  PROVE  ReconcilerInv'
<1>1. rec \in Recs /\ rec.id \in Ids /\ rec.spec \in AllSpecs
  BY DEF TranslateAuthConfig, ReconcilerInv, TypeOK, RecTypeOK
<1>2. \/ \E w \in Workers \cup {None} : translated([spec |-> rec.spec, worker |-> w])
         /\ UNCHANGED <<queue, report>>
      \/ invalidResource
  BY DEF TranslateAuthConfig, freeWorkers
<1>3. worker' \in [Workers -> {"none", "running", "stopped"}]
  BY DEF TranslateAuthConfig, ReconcilerInv, TypeOK, ControllerTypeOK
<1>4. UNCHANGED <<tree, keys, clusterVars, changes>>
  BY DEF TranslateAuthConfig
<1>5. unclean' \subseteq Ids /\ astray' \subseteq Workers
  <2>1. unclean' \in {unclean, unclean \cup {rec.id}}
    BY DEF TranslateAuthConfig, invalidResource
  <2>2. \/ astray' \subseteq astray
        \/ freeWorkers # {} /\ astray' = astray \cup {CHOOSE f \in freeWorkers : TRUE}
    BY DEF TranslateAuthConfig
  <2> QED
    BY <1>1, <2>1, <2>2 DEF freeWorkers, ReconcilerInv, TypeOK, ControllerTypeOK
<1>6. CASE invalidResource
  <2>1. ControllerTypeOK'
    BY <1>1, <1>3, <1>4, <1>6, <1>5
       DEF invalidResource, ReconcilerInv, TypeOK, ControllerTypeOK, clusterVars, Reports, Reasons
  <2>2. RecTypeOK' /\ rec'.pc = "idle"
    BY <1>6, IdleRec DEF invalidResource, RecTypeOK
  <2> QED
    BY <1>4, <2>1, <2>2, UnchangedInv
<1>7. CASE \E w \in Workers \cup {None} : translated([spec |-> rec.spec, worker |-> w])
           /\ UNCHANGED <<queue, report>>
  <2> PICK w \in Workers \cup {None} : translated([spec |-> rec.spec, worker |-> w])
      /\ UNCHANGED <<queue, report>>
    BY <1>7
  <2> DEFINE cfg == [spec |-> rec.spec, worker |-> w]
             unused == ToSet(FindKeys(rec.id)) \ ToSet(rec.spec.hosts)
  <2>1. ControllerTypeOK'
    BY <1>3, <1>4, <1>5 DEF ReconcilerInv, TypeOK, ControllerTypeOK, clusterVars
  <2>2. cfg \in AuthConfig
    BY <1>1 DEF AuthConfig
  <2>3. unused \subseteq ToSet(keys[rec.id]) /\ unused \subseteq Hosts
    BY <1>1 DEF FindKeys, ToSet, ReconcilerInv, TypeOK, IndexTypeOK
  <2>4. rec' = [rec EXCEPT !.pc = "unlink", !.cfg = cfg, !.unused = unused]
    BY DEF translated
  <2> HIDE DEF cfg, unused
  <2>5. /\ rec' \in Recs /\ rec'.pc = "unlink" /\ rec'.id = rec.id /\ rec'.spec = rec.spec
        /\ rec'.unused = unused /\ rec'.todo = rec.todo /\ rec'.target = rec.target
    BY <1>1, <2>2, <2>3, <2>4 DEF Recs
  <2>6. RecTypeOK'
    BY <1>1, <2>5 DEF ReconcilerInv, TypeOK, RecTypeOK
  <2> QED
    BY <1>4, <2>1, <2>3, <2>5, <2>6, UnchangedInv
<1> QED
  BY <1>2, <1>6, <1>7

LEMMA UnlinkUnusedHostInv ==
  ASSUME ReconcilerInv, UnlinkUnusedHost
  PROVE  ReconcilerInv'
<1>1. /\ rec \in Recs /\ rec.pc = "unlink" /\ rec.id \in Ids
      /\ rec.unused \subseteq ToSet(keys[rec.id])
  BY DEF UnlinkUnusedHost, ReconcilerInv, TypeOK, RecTypeOK, UnlinksOwnKeys
<1>2. PICK host \in rec.unused : /\ DeleteKey(rec.id, host)
                                 /\ rec' = [rec EXCEPT !.unused = @ \ {host}]
  BY DEF UnlinkUnusedHost
<1>3. IndexInv' /\ UNCHANGED keys
  <2>1. {host} \in SUBSET ToSet(keys[rec.id])
    BY <1>1
  <2> QED
    BY <1>1, <1>2, <2>1, DeleteKeysInv DEF DeleteKey, ReconcilerInv
<1>4. ControllerTypeOK'
  BY DEF UnlinkUnusedHost, ReconcilerInv, TypeOK, ControllerTypeOK, clusterVars
<1>5. /\ rec' \in Recs /\ rec'.pc = rec.pc /\ rec'.id = rec.id /\ rec'.spec = rec.spec
      /\ rec'.unused \subseteq rec.unused /\ rec'.todo = rec.todo /\ rec'.target = rec.target
  BY <1>1, <1>2 DEF Recs
<1>6. RecTypeOK' /\ UnlinksOwnKeys'
  BY <1>1, <1>3, <1>5 DEF ReconcilerInv, TypeOK, RecTypeOK, UnlinksOwnKeys
<1> QED
  BY <1>3, <1>4, <1>6 DEF ReconcilerInv, TypeOK, IndexInv

LEMMA UnusedHostsUnlinkedInv ==
  ASSUME ReconcilerInv, UnusedHostsUnlinked
  PROVE  ReconcilerInv'
<1>1. rec \in Recs /\ rec.id \in Ids /\ rec.spec \in AllSpecs
  BY DEF UnusedHostsUnlinked, ReconcilerInv, TypeOK, RecTypeOK
<1>2. rec.spec.hosts \in Seq(Hosts)
  BY <1>1, SpecFields
<1>3. ControllerTypeOK'
  BY DEF UnusedHostsUnlinked, ReconcilerInv, TypeOK, ControllerTypeOK, clusterVars
<1>4. /\ rec' \in Recs /\ rec'.pc = "link" /\ rec'.id = rec.id /\ rec'.spec = rec.spec
      /\ rec'.target = rec.id
  BY <1>1, <1>2 DEF UnusedHostsUnlinked, Recs
<1>5. RecTypeOK'
  BY <1>1, <1>4 DEF RecTypeOK
<1> QED
  BY <1>3, <1>4, <1>5, UnchangedInv DEF UnusedHostsUnlinked

LEMMA ReconciledInv ==
  ASSUME ReconcilerInv, Reconciled
  PROVE  ReconcilerInv'
<1>1. rec \in Recs /\ rec.id \in Ids
  BY DEF Reconciled, ReconcilerInv, TypeOK, RecTypeOK
<1>2. ControllerTypeOK'
  <2>1. rec.cfg.worker \in Workers \cup {None}
    BY <1>1 DEF Recs, AuthConfig
  <2>2. unclean' \subseteq Ids /\ astray' \subseteq Workers
    BY <2>1 DEF Reconciled, ReconcilerInv, TypeOK, ControllerTypeOK
  <2> QED
    BY <1>1, <2>2
       DEF Reconciled, ReconcilerInv, TypeOK, ControllerTypeOK, clusterVars, Reports, Reasons, Recs
<1>3. RecTypeOK' /\ rec'.pc = "idle"
  BY IdleRec DEF Reconciled, RecTypeOK
<1> QED
  BY <1>2, <1>3, UnchangedInv DEF Reconciled

LEMMA NextInv ==
  ASSUME NoEmptyLabels, ReconcilerInv, [Next]_vars
  PROVE  ReconcilerInv'
<1>1. CASE Environment
  BY <1>1, EnvironmentInv
<1>2. CASE Crash
  BY <1>2, CrashInv
<1>3. CASE \E id \in Ids : Begin(id)
  BY <1>3, BeginInv
<1>4. CASE BootstrapResource
  BY <1>4, BootstrapResourceInv
<1>5. CASE BootstrapHost \/ LinkHost
  BY <1>5, AddToIndexInv DEF BootstrapHost, LinkHost
<1>6. CASE GetResource
  BY <1>6, GetResourceInv
<1>7. CASE CleanConfigs
  BY <1>7, CleanConfigsInv
<1>8. CASE DeleteFromIndex
  BY <1>8, DeleteFromIndexInv
<1>9. CASE TranslateAuthConfig
  BY <1>9, TranslateAuthConfigInv
<1>10. CASE UnlinkUnusedHost
  BY <1>10, UnlinkUnusedHostInv
<1>11. CASE UnusedHostsUnlinked
  BY <1>11, UnusedHostsUnlinkedInv
<1>12. CASE Reconciled
  BY <1>12, ReconciledInv
<1>13. CASE UNCHANGED vars
  <2>1. ControllerTypeOK' /\ UNCHANGED <<tree, keys, rec>>
    BY <1>13 DEF vars, ReconcilerInv, TypeOK, ControllerTypeOK
  <2> QED
    BY <2>1, EventInv
<1> QED
  BY <1>1, <1>2, <1>3, <1>4, <1>5, <1>6, <1>7, <1>8, <1>9, <1>10, <1>11, <1>12, <1>13
     DEF Next, Reconcile

LEMMA ReconcilerInvariance ==
  ASSUME NoEmptyLabels
  PROVE  Spec => []ReconcilerInv
<1>1. Init => ReconcilerInv
  BY InitInv
<1>2. ReconcilerInv /\ [Next]_vars => ReconcilerInv'
  BY NextInv
<1> QED
  BY <1>1, <1>2, PTL DEF Spec

(***************************************************************************)
(* The variables of the controller and of the index it fills keep their    *)
(* types through reconciliations, changes of resources, failures and       *)
(* restarts (AuthConfigReconciler, Reconcile).                             *)
(***************************************************************************)
THEOREM ReconcilerTypes ==
  ASSUME NoEmptyLabels
  PROVE  Spec => []TypeOK
<1>1. ReconcilerInv => TypeOK
  BY DEF ReconcilerInv
<1> QED
  BY <1>1, ReconcilerInvariance, PTL

(***************************************************************************)
(* The lookup is correct in every state that the controller brings the     *)
(* index into (treeNode.get, Reconcile, bootstrapIndex).                   *)
(***************************************************************************)
THEOREM ReconciledLookupCorrect ==
  ASSUME NoEmptyLabels
  PROVE  Spec => []GetFindsClosestMatch
<1>1. ReconcilerInv => GetFindsClosestMatch
  BY InvGetFindsClosestMatch DEF ReconcilerInv
<1> QED
  BY <1>1, ReconcilerInvariance, PTL

----------------------------------------------------------------------------
(***************************************************************************)
(* A lookup of a host that has a link of its own finds that link.          *)
(***************************************************************************)
LEMMA GetExact ==
  ASSUME NoEmptyLabels, IndexInv, NEW h \in Hosts, linkAt(tree, h) # None
  PROVE  Get(h) = linkAt(tree, h)
<1>1. Get(h) = ClosestMatch(revertKey(h))
  BY InvGetFindsClosestMatch DEF GetFindsClosestMatch
<1> QED
  BY <1>1 DEF linkAt, ClosestMatch, Linked

(***************************************************************************)
(* A host that is not taken is free or linked to the resource already: the *)
(* owner of a link has its host among its keys, so it is not superseded.   *)
(***************************************************************************)
LEMMA NotTakenIsOwn ==
  ASSUME NoEmptyLabels, IndexInv, NEW h \in Hosts, NEW id \in Ids,
         linkAt(tree, h) # None, ~hostTaken(h, id)
  PROVE  linkAt(tree, h).id = id
<1> SUFFICES ASSUME linkAt(tree, h).id # id
             PROVE  Contains(keys[linkAt(tree, h).id], h)
  BY GetExact DEF hostTaken, supersedeHostSubset, FindKeys
<1> DEFINE owner == linkAt(tree, h).id
<1>1. revertKey(h) \in DOMAIN tree /\ tree[revertKey(h)] # None /\ owner = tree[revertKey(h)].id
  BY DEF linkAt
<1>2. owner \in Ids /\ keys[owner] \in Seq(Hosts)
  BY <1>1 DEF IndexInv, IndexTypeOK, indexEntry
<1>3. PICK i \in DOMAIN keys[owner] : revertKey(keys[owner][i]) = revertKey(h)
  BY <1>1 DEF IndexInv, EntriesHaveKeys
<1> HIDE DEF owner
<1>4. keys[owner][i] \in Hosts
  BY <1>2, <1>3
<1>5. keys[owner][i] = h
  BY <1>3, <1>4, RevertKeyInjective
<1>6. Contains(keys[owner], h)
  BY <1>2, <1>3, <1>5 DEF Contains
<1> QED
  BY <1>6 DEF owner

LEMMA AddToIndexKeeps ==
  ASSUME NoEmptyLabels, ReconcilerInv, addToIndex,
         NEW h \in Hosts, linkAt(tree, h) # None, linkAt(tree', h) # None
  PROVE  linkAt(tree', h).id = linkAt(tree, h).id
<1> DEFINE host == Head(rec.todo)
<1>1. rec.target \in Ids /\ host \in Hosts /\ rec.cfg \in Configs
  BY AddToIndexStep
<1>2. CASE UNCHANGED <<tree, keys>>
  BY <1>2
<1>3. CASE ~hostTaken(host, rec.target) /\ Set(rec.target, host, rec.cfg, TRUE)
  <2> HIDE DEF host
  <2>1. tree' = [q \in DOMAIN tree \cup Prefixes(revertKey(host)) |->
                   IF q = revertKey(host) THEN [id |-> rec.target, cfg |-> rec.cfg]
                   ELSE IF q \in DOMAIN tree THEN tree[q]
                   ELSE None]
    BY <1>1, <1>3, SetEffect DEF ReconcilerInv
  <2>2. CASE h = host
    <3>1. linkAt(tree, h).id = rec.target
      BY <1>1, <1>3, <2>2, NotTakenIsOwn DEF ReconcilerInv
    <3> QED
      BY <2>1, <2>2, <3>1 DEF linkAt
  <2>3. CASE h # host
    <3>1. revertKey(h) # revertKey(host)
      BY <1>1, <2>3, RevertKeyInjective
    <3> QED
      BY <2>1, <3>1 DEF linkAt
  <2> QED
    BY <2>2, <2>3
<1> QED
  BY <1>2, <1>3, AddToIndexStep

(***************************************************************************)
(* The steps that unlink, and those of a restart, leave a link or take it. *)
(***************************************************************************)
LEMMA DeleteKeysKeeps ==
  ASSUME IndexInv, NEW id \in Ids, NEW ks \in SUBSET ToSet(keys[id]),
         tree' = deleteKeys(tree, id, ks), UNCHANGED keys,
         NEW h \in Hosts, linkAt(tree', h) # None
  PROVE  linkAt(tree', h) = linkAt(tree, h)
<1>1. tree' = [q \in DOMAIN tree |->
                 IF tree[q] # None /\ tree[q].id = id /\ \E key \in ks : revertKey(key) = q
                 THEN None ELSE tree[q]]
  BY DeleteKeysInv
<1> QED
  BY <1>1 DEF linkAt

LEMMA RestartUnlinks ==
  ASSUME restart, NEW h \in Hosts
  PROVE  linkAt(tree', h) = None
BY DEF restart, linkAt, newAuthConfigTree

LEMMA TreeChanges ==
  ASSUME [Next]_vars
  PROVE  \/ UNCHANGED tree
         \/ BootstrapHost \/ LinkHost
         \/ restart
         \/ DeleteFromIndex
         \/ UnlinkUnusedHost
BY DEF Next, Reconcile, Environment, vars, Begin, BootstrapResource, GetResource, CleanConfigs,
       TranslateAuthConfig, UnusedHostsUnlinked, Reconciled, Apply, DeleteResource,
       UpdateStatus, Resync, Crash

LEMMA NextKeeps ==
  ASSUME NoEmptyLabels, ReconcilerInv, [Next]_vars,
         NEW h \in Hosts, linkAt(tree, h) # None, linkAt(tree', h) # None
  PROVE  linkAt(tree', h).id = linkAt(tree, h).id
<1>1. CASE UNCHANGED tree
  BY <1>1
<1>2. CASE BootstrapHost \/ LinkHost
  BY <1>2, AddToIndexKeeps DEF BootstrapHost, LinkHost
<1>3. CASE restart
  BY <1>3, RestartUnlinks
<1>4. CASE DeleteFromIndex
  <2>1. rec.id \in Ids
    BY <1>4 DEF DeleteFromIndex, ReconcilerInv, TypeOK, RecTypeOK
  <2> QED
    BY <1>4, <2>1, DeleteKeysKeeps DEF DeleteFromIndex, Delete, ReconcilerInv
<1>5. CASE UnlinkUnusedHost
  <2>1. rec.id \in Ids /\ rec.unused \subseteq ToSet(keys[rec.id])
    BY <1>5 DEF UnlinkUnusedHost, ReconcilerInv, TypeOK, RecTypeOK, UnlinksOwnKeys
  <2>2. PICK host \in rec.unused : DeleteKey(rec.id, host)
    BY <1>5 DEF UnlinkUnusedHost
  <2>3. {host} \in SUBSET ToSet(keys[rec.id])
    BY <2>1
  <2> QED
    BY <2>1, <2>2, <2>3, DeleteKeysKeeps DEF DeleteKey, ReconcilerInv
<1> QED
  BY <1>1, <1>2, <1>3, <1>4, <1>5, TreeChanges

(***************************************************************************)
(* A host that is linked to a resource is never linked to another one in   *)
(* its place: whatever the resources ask for, with or without superseding  *)
(* of subsets, and also by a bootstrap or after a crash (hostTaken,        *)
(* supersedeHostSubset, addToIndex).                                       *)
(***************************************************************************)
THEOREM HostsNotStolen ==
  ASSUME NoEmptyLabels
  PROVE  Spec => HostNotStolen
<1>1. ReconcilerInv /\ [Next]_vars =>
        [\A h \in Hosts :
           LET old == linkAt(tree, h)
               new == linkAt(tree', h)
           IN  old # None /\ new # None => new.id = old.id]_vars
  BY NextKeeps
<1> QED
  BY <1>1, ReconcilerInvariance, PTL DEF Spec, HostNotStolen

----------------------------------------------------------------------------
(***************************************************************************)
(* A wildcard is the first label of a host, or none.  A host with two in a *)
(* row would be found in place of the wildcard above it.                   *)
(***************************************************************************)
WildcardsLead == \A h \in Hosts : \A i \in 2..Len(h) : h[i] # wildcard

(***************************************************************************)
(* The link that serves a path: the path itself, or its closest wildcard.  *)
(***************************************************************************)
Serves(path, q) ==
  /\ q \in Linked
  /\ \/ q = path
     \/ /\ path \notin Linked
        /\ \E n \in 0..Len(path) :
             /\ q = wildcardAt(path, n)
             /\ \A m \in 0..Len(path) : wildcardAt(path, m) \in Linked => m <= n

LEMMA ServesGet ==
  ASSUME NoEmptyLabels, IndexInv, NEW h \in Hosts, NEW q, Serves(revertKey(h), q)
  PROVE  get(tree, revertKey(h)) = tree[q]
<1> DEFINE path == revertKey(h)
           wilds == {n \in 0..Len(path) : wildcardAt(path, n) \in Linked}
<1>1. get(tree, path) = ClosestMatch(path)
  BY InvGetFindsClosestMatch DEF GetFindsClosestMatch, Get
<1>2. Len(path) \in Nat
  BY RevertKey
<1>3. CASE q = path
  BY <1>1, <1>3 DEF ClosestMatch, Serves
<1>4. CASE q # path
  <2>1. PICK n \in 0..Len(path) :
          /\ q = wildcardAt(path, n)
          /\ \A m \in 0..Len(path) : wildcardAt(path, m) \in Linked => m <= n
    BY <1>4 DEF Serves
  <2>2. n \in wilds /\ path \notin Linked
    BY <1>4, <2>1 DEF Serves
  <2>3. Max(wilds) \in wilds /\ \A a \in wilds : a <= Max(wilds)
    BY <1>2, <2>2, MaxIsLargest
  <2>4. Max(wilds) = n
    BY <1>2, <2>1, <2>2, <2>3
  <2> QED
    BY <1>1, <2>1, <2>2, <2>4 DEF ClosestMatch
<1> QED
  BY <1>3, <1>4

LEMMA ServesGetNext ==
  ASSUME NoEmptyLabels
  PROVE  (IndexInv => \A h \in Hosts : \A q :
            Serves(revertKey(h), q) => get(tree, revertKey(h)) = tree[q])'
<1>1. IndexInv => \A h \in Hosts : \A q :
        Serves(revertKey(h), q) => get(tree, revertKey(h)) = tree[q]
  BY ServesGet
<1> QED
  BY <1>1, PTL

LEMMA ServingLinkServes ==
  ASSUME NoEmptyLabels, IndexInv, NEW h \in Hosts, get(tree, revertKey(h)) # None
  PROVE  Serves(revertKey(h), servingLink(revertKey(h)))
<1> DEFINE path == revertKey(h)
           wilds == {n \in 0..Len(path) : wildcardAt(path, n) \in Linked}
<1>1. get(tree, path) = ClosestMatch(path)
  BY InvGetFindsClosestMatch DEF GetFindsClosestMatch, Get
<1>2. Len(path) \in Nat
  BY RevertKey
<1>3. CASE path \in Linked
  BY <1>3 DEF servingLink, Serves
<1>4. CASE path \notin Linked
  <2>1. wilds # {}
    BY <1>1, <1>4 DEF ClosestMatch
  <2>2. Max(wilds) \in wilds /\ \A a \in wilds : a <= Max(wilds)
    BY <1>2, <2>1, MaxIsLargest
  <2>3. servingLink(path) = wildcardAt(path, Max(wilds))
    BY <1>4 DEF servingLink
  <2> QED
    BY <1>4, <2>2, <2>3 DEF Serves
<1> QED
  BY <1>3, <1>4

(***************************************************************************)
(* The wildcards above a wildcard of a path are those of the path.         *)
(***************************************************************************)
LEMMA WildcardsAbove ==
  ASSUME NEW h \in Hosts, NEW n \in 0..Len(revertKey(h))
  PROVE  LET k == wildcardAt(revertKey(h), n)
         IN  /\ Len(k) = n + 1 /\ k[n + 1] = wildcard
             /\ \A m \in 0..n : wildcardAt(k, m) = wildcardAt(revertKey(h), m)
             /\ wildcardAt(k, n + 1) = Append(k, wildcard)
<1> DEFINE Label == STRING \cup {wildcard}
           path == revertKey(h)
           s == SubSeq(path, 1, n)
           k == wildcardAt(path, n)
<1>1. path \in Seq(Label) /\ Len(path) \in Nat /\ n \in Nat /\ n <= Len(path)
  <2>1. path \in Seq(STRING) /\ STRING \subseteq Label /\ n \in 0..Len(path)
    BY RevertKey
  <2> HIDE DEF path
  <2> QED
    BY <2>1
<1>2. wildcard \in Label
  OBVIOUS
<1> HIDE DEF path, Label
<1>3. s \in Seq(Label) /\ Len(s) = n /\ \A i \in 1..n : s[i] = path[i]
  BY <1>1, PrefixOfPrefix
<1>4. /\ k = Append(s, wildcard) /\ k \in Seq(Label) /\ Len(k) = n + 1
      /\ k[n + 1] = wildcard /\ \A i \in 1..n : k[i] = path[i]
  <2> HIDE DEF s
  <2>1. k = Append(s, wildcard)
    BY DEF wildcardAt, s
  <2> HIDE DEF k
  <2> QED
    BY <1>1, <1>2, <1>3, <2>1, AppendProperties
<1> HIDE DEF s, k
<1>5. ASSUME NEW m \in 0..n PROVE SubSeq(k, 1, m) = SubSeq(path, 1, m)
  <2>1. /\ m \in Nat /\ m <= Len(k) /\ m <= Len(path)
    BY <1>1, <1>4
  <2>2. /\ SubSeq(k, 1, m) \in Seq(Label) /\ Len(SubSeq(k, 1, m)) = m
        /\ SubSeq(path, 1, m) \in Seq(Label) /\ Len(SubSeq(path, 1, m)) = m
    BY <1>1, <1>4, <2>1, PrefixOfPrefix
  <2>3. \A i \in 1..m : SubSeq(k, 1, m)[i] = SubSeq(path, 1, m)[i]
    BY <1>1, <1>4, <2>1
  <2> QED
    BY <2>2, <2>3, SeqEqual
<1>6. SubSeq(k, 1, n + 1) = k
  BY <1>1, <1>4
<1> QED
  BY <1>4, <1>5, <1>6 DEF wildcardAt, k, path

(***************************************************************************)
(* A step that only takes links away leaves to a path the link that serves *)
(* it, or takes that one away.                                             *)
(***************************************************************************)
LEMMA UnlinkedKeepsServing ==
  ASSUME NoEmptyLabels, IndexInv, IndexInv', NEW h \in Hosts, get(tree, revertKey(h)) # None,
         Linked' \subseteq Linked, \A q \in Linked' : tree'[q] = tree[q],
         DOMAIN tree' = DOMAIN tree,
         tree'[servingLink(revertKey(h))] # None
  PROVE  get(tree', revertKey(h)) = get(tree, revertKey(h))
<1>1. PICK q : q = servingLink(revertKey(h))
  OBVIOUS
<1>2. Serves(revertKey(h), q)
  BY <1>1, ServingLinkServes
<1>3. q \in Linked'
  BY <1>1, <1>2 DEF Serves, Linked
<1>4. Serves(revertKey(h), q)'
  BY <1>2, <1>3 DEF Serves
<1>5. get(tree', revertKey(h)) = tree'[q]
  BY <1>4, ServesGetNext
<1> QED
  BY <1>2, <1>3, <1>5, ServesGet

(***************************************************************************)
(* A path that is linked is that of a host: with a wildcard before its     *)
(* last label it would be that of one with a wildcard that does not lead.  *)
(***************************************************************************)
LEMMA NoDoubleWildcard ==
  ASSUME IndexInv, WildcardsLead, NEW path \in Linked, NEW i \in 1..(Len(path) - 1)
  PROVE  path[i] # wildcard
<1>1. tree[path].id \in Ids /\ keys[tree[path].id] \in Seq(Hosts)
  BY DEF Linked, IndexInv, IndexTypeOK, indexEntry
<1>2. PICK j \in DOMAIN keys[tree[path].id] : revertKey(keys[tree[path].id][j]) = path
  BY <1>1 DEF Linked, IndexInv, EntriesHaveKeys
<1>3. PICK g \in Hosts : revertKey(g) = path
  BY <1>1, <1>2
<1>4. g \in Seq(STRING) /\ Len(path) = Len(g) /\ Len(g) \in Nat
  BY <1>3, RevertKey, HostsAreLabels
<1>5. path[i] = g[(Len(g) - i) + 1] /\ (Len(g) - i) + 1 \in 2..Len(g)
  BY <1>3, <1>4 DEF revertKey, Reverse
<1> QED
  BY <1>5 DEF WildcardsLead

(***************************************************************************)
(* A link that is added serves only what nobody or its own resource served *)
(* before: the link that it comes below would have its host taken.         *)
(***************************************************************************)
LEMMA LinkedKeepsServing ==
  ASSUME NoEmptyLabels, WildcardsLead, IndexInv, IndexInv', ~AllowSupersedingHostSubsets,
         NEW id \in Ids, NEW host \in Hosts, ~hostTaken(host, id),
         Linked' = Linked \cup {revertKey(host)},
         \A q \in Linked : q # revertKey(host) => tree'[q] = tree[q],
         tree'[revertKey(host)].id = id,
         NEW h \in Hosts, get(tree, revertKey(h)) # None
  PROVE  get(tree', revertKey(h)).id = get(tree, revertKey(h)).id
<1> DEFINE path == revertKey(h)
           k == revertKey(host)
<1>1. PICK q : q = servingLink(path)
  OBVIOUS
<1>2. Serves(path, q) /\ get(tree, path) = tree[q] /\ q \in Linked
  BY <1>1, ServingLinkServes, ServesGet DEF Serves
<1>3. \A x : Serves(path, x)' => get(tree', path) = tree'[x]
  BY ServesGetNext
<1>4. get(tree, k) # None => get(tree, k).id = id
  BY DEF hostTaken, supersedeHostSubset, Get
<1>5. Len(path) \in Nat
  BY RevertKey
<1>6. CASE Serves(path, q)'
  <2>1. CASE q = k
    <3>1. Serves(k, k)
      BY <1>2, <2>1 DEF Serves
    <3>2. get(tree, k) = tree[k] /\ tree[k] # None
      BY <1>2, <2>1, <3>1, ServesGet DEF Linked
    <3> QED
      BY <1>2, <1>3, <1>4, <1>6, <2>1, <3>2
  <2>2. CASE q # k
    BY <1>2, <1>3, <1>6, <2>2
  <2> QED
    BY <2>1, <2>2
<1>7. CASE ~Serves(path, q)'
  <2>1. q # path /\ path \notin Linked
    BY <1>2, <1>7 DEF Serves
  <2>2. PICK m \in 0..Len(path) :
          /\ q = wildcardAt(path, m)
          /\ \A j \in 0..Len(path) : wildcardAt(path, j) \in Linked => j <= m
    BY <1>2, <2>1 DEF Serves
  <2>3. CASE path = k
    <3>1. Serves(path, path)'
      BY <2>3 DEF Serves
    <3> QED
      BY <1>3, <1>4, <2>3, <3>1
  <2>4. CASE path # k
    <3>1. PICK n \in 0..Len(path) : wildcardAt(path, n) \in Linked' /\ ~(n <= m)
      BY <1>2, <1>7, <2>1, <2>2, <2>4 DEF Serves
    <3>2. k = wildcardAt(path, n) /\ k \notin Linked
      BY <2>2, <3>1
    <3> HIDE DEF k
    <3>3. /\ Len(k) = n + 1 /\ k[n + 1] = wildcard
          /\ \A j \in 0..n : wildcardAt(k, j) = wildcardAt(path, j)
          /\ wildcardAt(k, n + 1) = Append(k, wildcard)
      BY <3>2, WildcardsAbove
    <3>4. \A j \in 0..Len(path) : wildcardAt(path, j) = k => j = n
      <4> SUFFICES ASSUME NEW j \in 0..Len(path), wildcardAt(path, j) = k PROVE j = n
        OBVIOUS
      <4>1. Len(wildcardAt(path, j)) = j + 1
        BY WildcardsAbove
      <4> QED
        BY <1>5, <3>3, <4>1
    <3>5. Serves(path, k)'
      <4>1. k \in Linked' /\ path \notin Linked'
        BY <2>1, <2>4 DEF k
      <4>2. ASSUME NEW j \in 0..Len(path), wildcardAt(path, j) \in Linked' PROVE j <= n
        <5>1. wildcardAt(path, j) \in Linked \/ wildcardAt(path, j) = k
          BY <4>2 DEF k
        <5> QED
          BY <1>5, <2>2, <3>1, <3>4, <5>1
      <4> QED
        BY <3>2, <4>1, <4>2 DEF Serves
    <3>6. wildcardAt(k, n + 1) \notin Linked
      <4> SUFFICES ASSUME Append(k, wildcard) \in Linked PROVE FALSE
        BY <3>3
      <4>1. k \in Seq(STRING) /\ Len(k) \in Nat
        BY RevertKey DEF k
      <4>2. PICK x \in Linked : x = Append(k, wildcard)
        OBVIOUS
      <4>3. Len(x) = n + 2 /\ x[n + 1] = wildcard
        BY <3>3, <4>1, <4>2
      <4>4. n + 1 \in 1..(Len(x) - 1)
        BY <1>5, <4>3
      <4> QED
        BY <4>3, <4>4, NoDoubleWildcard
    <3>7. Serves(k, q)
      <4>1. m \in 0..n /\ n \in Nat
        BY <1>5, <3>1
      <4>2. q = wildcardAt(k, m) /\ m \in 0..Len(k)
        BY <2>2, <3>3, <4>1
      <4>3. ASSUME NEW j \in 0..Len(k), wildcardAt(k, j) \in Linked PROVE j <= m
        <5>1. j # n + 1
          BY <3>6, <4>3
        <5>2. j \in 0..n /\ j \in 0..Len(path)
          BY <1>5, <3>3, <4>1, <5>1
        <5> QED
          BY <2>2, <3>3, <4>3, <5>2
      <4> QED
        BY <1>2, <3>2, <4>2, <4>3 DEF Serves
    <3>8. get(tree, k) = tree[q]
      BY <3>7, ServesGet DEF k
    <3> QED
      BY <1>2, <1>3, <1>4, <3>5, <3>8 DEF k
  <2> QED
    BY <2>3, <2>4
<1> QED
  BY <1>6, <1>7

LEMMA ClosestMatchNext ==
  ASSUME NoEmptyLabels
  PROVE  (IndexInv => \A h \in Hosts : get(tree, revertKey(h)) = ClosestMatch(revertKey(h)))'
<1>1. IndexInv => \A h \in Hosts : get(tree, revertKey(h)) = ClosestMatch(revertKey(h))
  BY InvGetFindsClosestMatch DEF GetFindsClosestMatch, Get
<1> QED
  BY <1>1, PTL

(***************************************************************************)
(* One step: the links go, come in where the host is not taken, or are     *)
(* lost together.                                                          *)
(***************************************************************************)
LEMMA NextTakesNothingOver ==
  ASSUME NoEmptyLabels, WildcardsLead, ~AllowSupersedingHostSubsets,
         ReconcilerInv, [Next]_vars, NEW h \in Hosts,
         get(tree, revertKey(h)) # None, get(tree', revertKey(h)) # None,
         tree'[servingLink(revertKey(h))] # None
  PROVE  get(tree', revertKey(h)).id = get(tree, revertKey(h)).id
<1>1. IndexInv /\ IndexInv'
  BY NextInv DEF ReconcilerInv
<1>2. CASE UNCHANGED tree
  BY <1>2
<1>3. CASE restart
  <2>1. Linked' = {}
    BY <1>3 DEF restart, newAuthConfigTree, Linked
  <2>2. get(tree', revertKey(h)) = ClosestMatch(revertKey(h))'
    BY <1>1, ClosestMatchNext
  <2> QED
    BY <2>1, <2>2 DEF ClosestMatch
<1>4. ASSUME NEW id \in Ids, NEW ks \in SUBSET ToSet(keys[id]),
             tree' = deleteKeys(tree, id, ks), UNCHANGED keys
      PROVE  get(tree', revertKey(h)) = get(tree, revertKey(h))
  <2>1. tree' = [q \in DOMAIN tree |->
                   IF tree[q] # None /\ tree[q].id = id /\ \E key \in ks : revertKey(key) = q
                   THEN None ELSE tree[q]]
    BY <1>1, <1>4, DeleteKeysInv
  <2>2. Linked' \subseteq Linked /\ (\A q \in Linked' : tree'[q] = tree[q]) /\ DOMAIN tree' = DOMAIN tree
    BY <2>1 DEF Linked
  <2> QED
    BY <1>1, <2>2, UnlinkedKeepsServing
<1>5. CASE DeleteFromIndex
  <2>1. PICK id \in Ids : id = rec.id
    BY <1>5 DEF DeleteFromIndex, ReconcilerInv, TypeOK, RecTypeOK
  <2> QED
    BY <1>4, <1>5, <2>1 DEF DeleteFromIndex, Delete
<1>6. CASE UnlinkUnusedHost
  <2>1. PICK id \in Ids : id = rec.id /\ rec.unused \subseteq ToSet(keys[id])
    BY <1>6 DEF UnlinkUnusedHost, ReconcilerInv, TypeOK, RecTypeOK, UnlinksOwnKeys
  <2>2. PICK host \in rec.unused : DeleteKey(rec.id, host)
    BY <1>6 DEF UnlinkUnusedHost
  <2>3. {host} \in SUBSET ToSet(keys[id]) /\ tree' = deleteKeys(tree, id, {host}) /\ UNCHANGED keys
    BY <2>1, <2>2 DEF DeleteKey
  <2> QED
    BY <1>4, <2>3
<1>7. CASE addToIndex
  <2>1. PICK id \in Ids, host \in Hosts, cfg \in Configs :
          id = rec.target /\ host = Head(rec.todo) /\ cfg = rec.cfg
    BY <1>7, AddToIndexStep
  <2>2. CASE ~hostTaken(host, id) /\ Set(id, host, cfg, TRUE)
    <3>1. /\ tree' = [q \in DOMAIN tree \cup Prefixes(revertKey(host)) |->
                     IF q = revertKey(host) THEN [id |-> id, cfg |-> cfg]
                     ELSE IF q \in DOMAIN tree THEN tree[q]
                     ELSE None]
          /\ revertKey(host) \in Prefixes(revertKey(host))
      BY <1>1, <2>2, SetEffect
    <3>2. [id |-> id, cfg |-> cfg] # None
      BY NoneIsNoEntry
    <3>3. /\ Linked' = Linked \cup {revertKey(host)}
          /\ \A q \in Linked : q # revertKey(host) => tree'[q] = tree[q]
          /\ tree'[revertKey(host)].id = id
      BY <3>1, <3>2 DEF Linked
    <3> QED
      BY <1>1, <2>2, <3>3, LinkedKeepsServing
  <2> QED
    BY <1>2, <1>7, <2>1, <2>2, AddToIndexStep
<1> QED
  BY <1>2, <1>3, <1>5, <1>6, <1>7, TreeChanges DEF BootstrapHost, LinkHost

(***************************************************************************)
(* Unless subsets may be superseded, requests for a host pass from the     *)
(* AuthConfig of a resource to that of another only when the link that     *)
(* served them is taken away, for any hosts in which a wildcard is the     *)
(* first label (hostTaken, addToIndex, treeNode.get).                      *)
(***************************************************************************)
THEOREM RequestsStay ==
  ASSUME NoEmptyLabels, WildcardsLead
  PROVE  Spec => RequestsNotTakenOver
<1>1. ReconcilerInv /\ [Next]_vars =>
        [\A h \in Hosts :
           \/ AllowSupersedingHostSubsets
           \/ LET old == get(tree, revertKey(h))
                  new == get(tree', revertKey(h))
              IN  old = None \/ new = None \/ new.id = old.id
           \/ tree'[servingLink(revertKey(h))] = None]_vars
  BY NextTakesNothingOver
<1> QED
  BY <1>1, ReconcilerInvariance, PTL DEF Spec, RequestsNotTakenOver
=============================================================================
