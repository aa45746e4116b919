----------------------------- MODULE Reconciler -----------------------------
(***************************************************************************)
(* The controller that keeps the index in step with the AuthConfigs of the *)
(* cluster (controllers/auth_config_controller.go).  One goroutine takes   *)
(* resources from a work queue and reconciles them; between its steps the  *)
(* resources change, the status updater writes their status, requests are  *)
(* looked up in the index, and the process may die and start again.        *)
(***************************************************************************)
EXTENDS Index

CONSTANTS
  SpecsOf,                      \* the specs that users give each resource
  Workers,                      \* background workers of evaluators; a bound on those alive
  TranslateErrors,              \* how a translation with workers may fail
  ApiErrors,                    \* whether calls to the Kubernetes API may fail
  AllowSupersedingHostSubsets,
  MaxChanges                    \* bound on the changes of resources and the crashes

Kinds == {"plain", "async", "invalid"}

(***************************************************************************)
(* A resource: its hosts, whether its labels match the selector, and what  *)
(* its translation does: succeed, start a worker (a refresher of an OIDC   *)
(* provider or of an external OPA policy), or fail.                        *)
(***************************************************************************)
ASSUME SpecsAssumption ==
  SpecsOf \in [Ids -> SUBSET [hosts: Seq(Hosts), kind: Kinds, watched: BOOLEAN]]
ASSUME FlagsAssumption == AllowSupersedingHostSubsets \in BOOLEAN /\ ApiErrors \in BOOLEAN
ASSUME ErrorsAssumption == TranslateErrors \subseteq {"none", "started"}
ASSUME MaxChangesAssumption == MaxChanges \in Nat

AllSpecs == UNION {SpecsOf[id] : id \in Ids}

ASSUME NoneIsNoSpec == None \notin AllSpecs /\ None \notin Workers

(***************************************************************************)
(* A translated AuthConfig keeps the spec it comes from and its worker.    *)
(* denyAll, the placeholder of the bootstrap, has neither.                 *)
(***************************************************************************)
denyAll == [spec |-> None, worker |-> None]

AuthConfig == [spec: AllSpecs \cup {None}, worker: Workers \cup {None}]

ASSUME ConfigsAssumption == Configs = AuthConfig

VARIABLES
  resource,  \* the resources in the cluster, None where there is none
  older,     \* the pairs of those resources of which the first was created first
  ready,     \* those with hosts in their Status.Summary.HostsReady
  changes,   \* the number of changes and crashes so far
  queue,     \* the work queue of the controller
  rec,       \* the call of Reconcile that is running
  report,    \* the StatusReportMap, None where there is no report
  worker,    \* the state of each background worker
  unclean,   \* history: the resources whose links may hold a config with stopped workers
  astray     \* history: the workers that were lost sight of while they ran

clusterVars == <<resource, older, ready>>
vars == <<tree, keys, resource, older, ready, changes, queue, rec, report, worker, unclean, astray>>

Watched(id) == resource[id] # None /\ resource[id].watched

(***************************************************************************)
(* The locals of Reconcile: the resource reconciled and what was read of   *)
(* it, the resources left to bootstrap, the hosts left to unlink, and      *)
(* those of addToIndex: the config, the resource it links and the hosts    *)
(* left, linked and not linked.                                            *)
(***************************************************************************)
idle == [pc |-> "idle", id |-> None, spec |-> None, boot |-> {}, unused |-> {},
         cfg |-> denyAll, target |-> None, todo |-> <<>>, linked |-> {}, loose |-> {}]

Init ==
  /\ IndexInit
  /\ resource = [id \in Ids |-> None]
  /\ older = {}
  /\ ready = {}
  /\ changes = 0
  /\ queue = {}
  /\ rec = idle
  /\ report = [id \in Ids |-> None]
  /\ worker = [w \in Workers |-> "none"]
  /\ unclean = {}
  /\ astray = {}

----------------------------------------------------------------------------
(***************************************************************************)
(* The cluster.  LabelSelectorPredicate lets an event through when the     *)
(* resource is watched before or after the change.                         *)
(***************************************************************************)
enqueueIf(condition, id) == queue' = IF condition THEN queue \cup {id} ELSE queue

(***************************************************************************)
(* Mutant: the event goes by the labels after the change alone.            *)
(***************************************************************************)
ApplyWatchedAfter(id, spec) ==
  /\ changes < MaxChanges
  /\ changes' = changes + 1
  /\ resource[id] # spec
  /\ resource' = [resource EXCEPT ![id] = spec]
  /\ older' = older
  /\ enqueueIf(spec.watched, id)
  /\ UNCHANGED <<tree, keys, ready, rec, report, worker, unclean, astray>>

Apply(id, spec) ==
  /\ changes < MaxChanges
  /\ changes' = changes + 1
  /\ resource[id] # spec
  /\ resource' = [resource EXCEPT ![id] = spec]
  /\ older' = IF resource[id] # None THEN older
              ELSE older \cup {<<j, id>> : j \in {i \in Ids : resource[i] # None}}
  /\ enqueueIf(Watched(id) \/ spec.watched, id)
  /\ UNCHANGED <<tree, keys, ready, rec, report, worker, unclean, astray>>

DeleteResource(id) ==
  /\ changes < MaxChanges
  /\ changes' = changes + 1
  /\ resource[id] # None
  /\ resource' = [resource EXCEPT ![id] = None]
  /\ older' = {pair \in older : id \notin {pair[1], pair[2]}}
  /\ ready' = ready \ {id}
  /\ enqueueIf(Watched(id), id)
  /\ UNCHANGED <<tree, keys, rec, report, worker, unclean, astray>>

(***************************************************************************)
(* The status updater writes the hosts of the report, and the write is an  *)
(* update event of the resource.  Only whether there are hosts matters     *)
(* here; the status itself is the subject of module StatusUpdater.         *)
(***************************************************************************)
UpdateStatus(id) ==
  LET linked == report[id] # None /\ report[id].linked # {}
  IN  /\ Watched(id)
      /\ (id \in ready) # linked
      /\ ready' = IF linked THEN ready \cup {id} ELSE ready \ {id}
      /\ enqueueIf(TRUE, id)
      /\ UNCHANGED <<tree, keys, resource, older, changes, rec, report, worker, unclean, astray>>

(***************************************************************************)
(* The periodic resync of the informer sends an update event for each      *)
(* resource.                                                               *)
(***************************************************************************)
Resync(id) ==
  /\ Watched(id)
  /\ id \notin queue
  /\ enqueueIf(TRUE, id)
  /\ UNCHANGED <<tree, keys, resource, older, ready, changes, rec, report, worker, unclean, astray>>

(***************************************************************************)
(* The process dies and starts again: what it had in memory is gone, and   *)
(* the first list of the informer queues every resource watched.           *)
(***************************************************************************)
restart ==
  /\ tree' = newAuthConfigTree
  /\ keys' = [id \in Ids |-> <<>>]
  /\ queue' = {id \in Ids : Watched(id)}
  /\ rec' = idle
  /\ report' = [id \in Ids |-> None]
  /\ worker' = [w \in Workers |-> "none"]
  /\ unclean' = {}
  /\ astray' = {}
  /\ UNCHANGED clusterVars

Crash ==
  /\ changes < MaxChanges
  /\ changes' = changes + 1
  /\ restart

----------------------------------------------------------------------------
(***************************************************************************)
(* Mutant: any host may be superseded, the very host of the other resource *)
(* too.                                                                    *)
(***************************************************************************)
supersedeAnyHost(host, supersetId) == AllowSupersedingHostSubsets

(***************************************************************************)
(* The name by which a host is looked up gives the resource it is taken    *)
(* by, unless that resource only has it through a wildcard and subsets may *)
(* be superseded.                                                          *)
(***************************************************************************)
supersedeHostSubset(host, supersetId) ==
  AllowSupersedingHostSubsets /\ ~Contains(FindKeys(supersetId), host)

(***************************************************************************)
(* Mutant: only the very host is taken, not those below a wildcard.        *)
(***************************************************************************)
hostTakenExactly(host, id) ==
  linkAt(tree, host) # None /\ linkAt(tree, host).id # id

hostTaken(host, id) ==
  /\ Get(host) # None
  /\ Get(host).id # id
  /\ ~supersedeHostSubset(host, Get(host).id)

(***************************************************************************)
(* Mutant: a host that has a config already keeps it.                      *)
(***************************************************************************)
addToIndexKeeping ==
  LET host == Head(rec.todo)
  IN  /\ rec.todo # <<>>
      /\ rec' = [rec EXCEPT !.todo = Tail(@), !.linked = @ \cup {host}]
      /\ \/ Get(host) # None /\ UNCHANGED indexVars
         \/ Get(host) = None /\ Set(rec.target, host, rec.cfg, TRUE)

(***************************************************************************)
(* One turn of the loop of addToIndex.                                     *)
(***************************************************************************)
addToIndex ==
  LET host == Head(rec.todo)
      rest == [rec EXCEPT !.todo = Tail(@)]
  IN  /\ rec.todo # <<>>
      /\ \/ /\ hostTaken(host, rec.target)
            /\ rec' = [rest EXCEPT !.loose = @ \cup {host}]
            /\ UNCHANGED indexVars
         \/ /\ ~hostTaken(host, rec.target)
            /\ Set(rec.target, host, rec.cfg, TRUE)
            /\ rec' = [rest EXCEPT !.linked = @ \cup {host}]

(***************************************************************************)
(* Reconcile begins with the bootstrap, which does something only if the   *)
(* index is empty and the resources can be listed: it links denyAll to the *)
(* hosts of the watched resources that had some ready, oldest resource     *)
(* first.                                                                  *)
(***************************************************************************)
bootstrapItems ==
  {[id |-> id, hosts |-> resource[id].hosts, after |-> {j \in Ids : <<j, id>> \in older}] :
     id \in {i \in ready : Watched(i)}}

Begin(id) ==
  /\ rec.pc = "idle"
  /\ id \in queue
  /\ queue' = queue \ {id}
  /\ \E boot \in (IF Empty THEN {bootstrapItems} ELSE {{}}) \cup (IF ApiErrors THEN {{}} ELSE {}) :
       rec' = [idle EXCEPT !.pc = "bootstrap", !.id = id, !.boot = boot]
  /\ UNCHANGED <<tree, keys, clusterVars, changes, report, worker, unclean, astray>>

BootstrapResource ==
  /\ rec.pc = "bootstrap"
  /\ rec.todo = <<>>
  /\ \E item \in rec.boot :
       /\ \A other \in rec.boot : other.id \notin item.after
       /\ rec' = [rec EXCEPT !.boot = @ \ {item}, !.target = item.id, !.todo = item.hosts]
  /\ UNCHANGED <<tree, keys, clusterVars, changes, queue, report, worker, unclean, astray>>

BootstrapHost ==
  /\ rec.pc = "bootstrap"
  /\ addToIndex
  /\ UNCHANGED <<clusterVars, changes, queue, report, worker, unclean, astray>>

(***************************************************************************)
(* The resource is read, after its report is set to reconciling.  A        *)
(* resource that is not watched is dealt with as one that is not found.    *)
(***************************************************************************)
GetResource ==
  /\ rec.pc = "bootstrap"
  /\ rec.boot = {} /\ rec.todo = <<>>
  /\ report' = [report EXCEPT ![rec.id] = [reason |-> "Reconciling", linked |-> {}]]
  /\ \/ /\ rec' = [idle EXCEPT !.pc = "clean", !.id = rec.id,
                               !.spec = IF Watched(rec.id) THEN resource[rec.id] ELSE None]
        /\ UNCHANGED queue
     \/ /\ ApiErrors
        /\ rec' = idle
        /\ queue' = queue \cup {rec.id}
  /\ UNCHANGED <<tree, keys, clusterVars, changes, worker, unclean, astray>>

LinkedTo(id) == {h \in Hosts : linkAt(tree, h) # None /\ linkAt(tree, h).id = id}

workersOf(id) == {linkAt(tree, h).cfg.worker : h \in LinkedTo(id)} \ {None}

(***************************************************************************)
(* cleanConfigs stops the workers of the config that the first key of the  *)
(* resource is linked to now.  To stop a worker is to close its channel,   *)
(* and to close it again panics in a goroutine that nothing recovers.      *)
(***************************************************************************)
cleanedConfig(id) == IF FindKeys(id) = <<>> THEN None ELSE Get(FindKeys(id)[1])

(***************************************************************************)
(* Mutant: the config is cleaned only if the resource is still there.      *)
(***************************************************************************)
CleanConfigsOfUpdated ==
  LET entry == cleanedConfig(rec.id)
      w     == IF entry = None \/ rec.spec = None THEN None ELSE entry.cfg.worker
  IN  /\ rec.pc = "clean"
      /\ w # None => worker[w] = "running"
      /\ worker' = IF w = None THEN worker ELSE [worker EXCEPT ![w] = "stopped"]
      /\ rec' = [rec EXCEPT !.pc = IF rec.spec = None THEN "delete" ELSE "translate"]
      /\ UNCHANGED <<tree, keys, clusterVars, changes, queue, report, unclean, astray>>

(***************************************************************************)
(* The first key may lead to no config or to that of another resource, by  *)
(* a link or by a wildcard.  The workers of the resource itself then go    *)
(* astray, and the other one is left with a config that was cleaned.       *)
(***************************************************************************)
CleanConfigs ==
  LET entry == cleanedConfig(rec.id)
      w     == IF entry = None THEN None ELSE entry.cfg.worker
      own   == entry # None /\ entry.id = rec.id
  IN  /\ rec.pc = "clean"
      /\ \/ /\ w # None
            /\ worker[w] = "stopped"
            /\ restart
            /\ UNCHANGED changes
         \/ /\ w # None => worker[w] # "stopped"
            /\ worker' = IF w = None THEN worker ELSE [worker EXCEPT ![w] = "stopped"]
            /\ rec' = [rec EXCEPT !.pc = IF rec.spec = None THEN "delete" ELSE "translate"]
            /\ unclean' = unclean \cup {id \in Ids \ {rec.id} : w \in workersOf(id)}
            /\ astray' = IF own THEN astray ELSE astray \cup workersOf(rec.id)
            /\ UNCHANGED <<tree, keys, clusterVars, changes, queue, report>>

(***************************************************************************)
(* Mutant: the first key alone is deleted.                                 *)
(***************************************************************************)
DeleteFirstKey ==
  /\ rec.pc = "delete"
  /\ IF FindKeys(rec.id) = <<>> THEN UNCHANGED indexVars
     ELSE DeleteKey(rec.id, FindKeys(rec.id)[1])
  /\ report' = [report EXCEPT ![rec.id] = None]
  /\ rec' = idle
  /\ UNCHANGED <<clusterVars, changes, queue, worker, unclean, astray>>

DeleteFromIndex ==
  /\ rec.pc = "delete"
  /\ Delete(rec.id)
  /\ report' = [report EXCEPT ![rec.id] = None]
  /\ rec' = idle
  /\ unclean' = unclean \ {rec.id}
  /\ UNCHANGED <<clusterVars, changes, queue, worker, astray>>

(***************************************************************************)
(* A worker that is not running and that no config of the index holds is   *)
(* garbage, and stands for a new one.                                      *)
(***************************************************************************)
heldWorkers == {entry.cfg.worker : entry \in list(tree)}

freeWorkers == {w \in Workers : worker[w] # "running" /\ w \notin heldWorkers}

(***************************************************************************)
(* Mutant: the hosts that the spec no longer has stay.                     *)
(***************************************************************************)
translatedKeepingHosts(cfg) ==
  rec' = [rec EXCEPT !.pc = "unlink", !.cfg = cfg, !.unused = {}]

translated(cfg) ==
  rec' = [rec EXCEPT !.pc = "unlink", !.cfg = cfg,
                     !.unused = ToSet(FindKeys(rec.id)) \ ToSet(rec.spec.hosts)]

(***************************************************************************)
(* A translation that fails leaves the config in the index that was        *)
(* cleaned before it, and what it started itself goes astray.              *)
(***************************************************************************)
invalidResource ==
  /\ report' = [report EXCEPT ![rec.id] = [reason |-> "Invalid", linked |-> {}]]
  /\ queue' = queue \cup {rec.id}
  /\ rec' = idle
  /\ unclean' = unclean \cup {rec.id}

TranslateAuthConfig ==
  /\ rec.pc = "translate"
  /\ \/ /\ rec.spec.kind = "plain"
        /\ translated([spec |-> rec.spec, worker |-> None])
        /\ UNCHANGED <<queue, report, worker, unclean, astray>>
     \/ /\ rec.spec.kind = "invalid"
        /\ invalidResource
        /\ UNCHANGED <<worker, astray>>
     \/ /\ rec.spec.kind = "async"
        /\ freeWorkers # {}
        /\ LET w == CHOOSE f \in freeWorkers : TRUE
               started == [v \in Workers |-> IF v = w THEN "running"
                                             ELSE IF v \in freeWorkers THEN "none"
                                             ELSE worker[v]]
           IN  \/ /\ translated([spec |-> rec.spec, worker |-> w])
                  /\ worker' = started
                  /\ astray' = astray \ {w}
                  /\ UNCHANGED <<queue, report, unclean>>
               \/ /\ "none" \in TranslateErrors
                  /\ invalidResource
                  /\ UNCHANGED <<worker, astray>>
               \/ /\ "started" \in TranslateErrors
                  /\ invalidResource
                  /\ worker' = started
                  /\ astray' = astray \cup {w}
  /\ UNCHANGED <<tree, keys, clusterVars, changes>>

UnlinkUnusedHost ==
  /\ rec.pc = "unlink"
  /\ \E host \in rec.unused :
       /\ DeleteKey(rec.id, host)
       /\ rec' = [rec EXCEPT !.unused = @ \ {host}]
  /\ UNCHANGED <<clusterVars, changes, queue, report, worker, unclean, astray>>

UnusedHostsUnlinked ==
  /\ rec.pc = "unlink"
  /\ rec.unused = {}
  /\ rec' = [rec EXCEPT !.pc = "link", !.target = rec.id, !.todo = rec.spec.hosts]
  /\ UNCHANGED <<tree, keys, clusterVars, changes, queue, report, worker, unclean, astray>>

LinkHost ==
  /\ rec.pc = "link"
  /\ addToIndex
  /\ UNCHANGED <<clusterVars, changes, queue, report, worker, unclean, astray>>

(***************************************************************************)
(* The workers of a config that was linked to no host go astray.           *)
(***************************************************************************)
Reconciled ==
  /\ rec.pc = "link"
  /\ rec.todo = <<>>
  /\ report' = [report EXCEPT ![rec.id] =
                  [reason |-> IF rec.loose # {} THEN "HostsNotLinked" ELSE "Reconciled",
                   linked |-> rec.linked]]
  /\ rec' = idle
  /\ unclean' = unclean \ {rec.id}
  /\ astray' = IF rec.linked = {} THEN astray \cup ({rec.cfg.worker} \ {None}) ELSE astray
  /\ UNCHANGED <<tree, keys, clusterVars, changes, queue, worker>>

----------------------------------------------------------------------------
Reconcile ==
  \/ \E id \in Ids : Begin(id)
  \/ BootstrapResource \/ BootstrapHost \/ GetResource \/ CleanConfigs \/ DeleteFromIndex
  \/ TranslateAuthConfig \/ UnlinkUnusedHost \/ UnusedHostsUnlinked
  \/ LinkHost \/ Reconciled

Environment ==
  \E id \in Ids :
    \/ \E spec \in SpecsOf[id] : Apply(id, spec)
    \/ DeleteResource(id)
    \/ UpdateStatus(id)
    \/ Resync(id)

Next == Reconcile \/ Environment \/ Crash

Spec == Init /\ [][Next]_vars

----------------------------------------------------------------------------
Reasons == {"Reconciling", "Invalid", "HostsNotLinked", "Reconciled"}

Reports == [reason: Reasons, linked: SUBSET Hosts]

ASSUME NoneIsNoReport == None \notin Reports

Recs == [pc: {"idle", "bootstrap", "clean", "delete", "translate", "unlink", "link"},
         id: Ids \cup {None}, spec: AllSpecs \cup {None},
         boot: SUBSET [id: Ids, hosts: Seq(Hosts), after: SUBSET Ids], unused: SUBSET Hosts,
         cfg: AuthConfig, target: Ids \cup {None}, todo: Seq(Hosts),
         linked: SUBSET Hosts, loose: SUBSET Hosts]

RecTypeOK ==
  /\ rec \in Recs
  /\ rec.pc # "idle" => rec.id \in Ids
  /\ rec.todo # <<>> => rec.target \in Ids
  /\ rec.pc \in {"translate", "unlink", "link"} => rec.spec \in AllSpecs

ControllerTypeOK ==
  /\ resource \in [Ids -> AllSpecs \cup {None}]
  /\ older \subseteq Ids \X Ids
  /\ ready \subseteq Ids
  /\ changes \in 0..MaxChanges
  /\ queue \subseteq Ids
  /\ report \in [Ids -> Reports \cup {None}]
  /\ worker \in [Workers -> {"none", "running", "stopped"}]
  /\ unclean \subseteq Ids
  /\ astray \subseteq Workers

(***************************************************************************)
(* The variables of the controller have their types, and its locals those  *)
(* of the step it is at (AuthConfigReconciler, Reconcile).                 *)
(***************************************************************************)
TypeOK == IndexTypeOK /\ ControllerTypeOK /\ RecTypeOK

(***************************************************************************)
(* A resource that the controller has nothing left to do about.            *)
(***************************************************************************)
Settled(id) == id \notin queue /\ rec.id # id

(***************************************************************************)
(* A host that is linked to a resource is never linked to another one in   *)
(* its place, with or without superseding of subsets: it has to be         *)
(* unlinked first (hostTaken, supersedeHostSubset).                        *)
(***************************************************************************)
HostNotStolen ==
  [][\A h \in Hosts :
       LET old == linkAt(tree, h)
           new == linkAt(tree', h)
       IN  old # None /\ new # None => new.id = old.id]_vars

(***************************************************************************)
(* The link that a lookup of a path ends in.                               *)
(***************************************************************************)
servingLink(path) ==
  IF path \in Linked THEN path
  ELSE wildcardAt(path, Max({n \in 0..Len(path) : wildcardAt(path, n) \in Linked}))

(***************************************************************************)
(* Unless subsets may be superseded, requests for a host go from the       *)
(* AuthConfig of a resource to that of another only when the link that     *)
(* served them is taken away: no resource comes in between, not even with  *)
(* a host that the other one only has through a wildcard (hostTaken).      *)
(***************************************************************************)
RequestsNotTakenOver ==
  [][\A h \in Hosts :
       \/ AllowSupersedingHostSubsets
       \/ LET old == get(tree, revertKey(h))
              new == get(tree', revertKey(h))
          IN  old = None \/ new = None \/ new.id = old.id
       \/ tree'[servingLink(revertKey(h))] = None]_vars

(***************************************************************************)
(* Once the controller is done with a resource that was deleted or is no   *)
(* longer watched, no host is linked to it and no report is left of it,    *)
(* also if it was deleted during the bootstrap or its reconciliation       *)
(* (Reconcile).                                                            *)
(***************************************************************************)
DeletedIsUnlinked ==
  \A id \in Ids : Settled(id) /\ ~Watched(id) => LinkedTo(id) = {} /\ report[id] = None

(***************************************************************************)
(* Once the controller is done with a resource and does not report it as   *)
(* invalid, the hosts it reports are the ones linked to it, all of them    *)
(* serve the current spec, none serves the placeholder, and they are all   *)
(* the hosts of the resource if it is reported as reconciled (Reconcile).  *)
(***************************************************************************)
ReportIsTrue ==
  \A id \in Ids :
    LET r == report[id]
    IN  Settled(id) /\ r # None /\ r.reason \in {"HostsNotLinked", "Reconciled"} =>
          /\ Watched(id)
          /\ LinkedTo(id) = r.linked
          /\ \A h \in LinkedTo(id) : linkAt(tree, h).cfg.spec = resource[id]
          /\ r.reason = "Reconciled" => LinkedTo(id) = ToSet(resource[id].hosts)

----------------------------------------------------------------------------
(***************************************************************************)
(* A worker that runs belongs to a config that is linked to a host, or to  *)
(* the one being linked: it is stopped before its config goes.  The only   *)
(* ones that go astray are those of a translation that failed after it     *)
(* had started them, of a config that no host was free for, and of a       *)
(* resource whose first key led to no config or to that of another         *)
(* resource when it was cleaned (cleanConfigs, Reconcile).                 *)
(***************************************************************************)
NoLeakedWorker ==
  \A w \in Workers : worker[w] = "running" => w \in heldWorkers \cup {rec.cfg.worker} \cup astray

(***************************************************************************)
(* The worker that cleanConfigs stops is running, unless the config is     *)
(* that of a resource whose last translation failed after it was cleaned,  *)
(* or one that the reconciliation of another resource cleaned: stopping a  *)
(* worker twice closes its channel twice (cleanConfigs, worker.Stop).      *)
(***************************************************************************)
StoppedOnce ==
  LET entry == cleanedConfig(rec.id)
  IN  rec.pc = "clean" /\ entry # None /\ entry.cfg.worker # None =>
        worker[entry.cfg.worker] = "running" \/ entry.id \in unclean

(***************************************************************************)
(* "No need to clean for all the hosts as the config should be the same":  *)
(* when a resource is cleaned, the hosts linked to it all hold the same    *)
(* config, whatever its reconciliations before came to (cleanConfigs).     *)
(***************************************************************************)
OneConfigToClean ==
  rec.pc = "clean" =>
    \A g, h \in LinkedTo(rec.id) : linkAt(tree, g).cfg = linkAt(tree, h).cfg

(***************************************************************************)
(* The config that cleanConfigs is about to clean is the one of the        *)
(* resource being reconciled.                                              *)
(***************************************************************************)
CleansOwnConfig ==
  rec.pc = "clean" /\ cleanedConfig(rec.id) # None => cleanedConfig(rec.id).id = rec.id

(***************************************************************************)
(* Mutant: resources with hosts that are not linked pass.                  *)
(***************************************************************************)
ReadyUnlessInvalid == \A id \in Ids : report[id] # None => report[id].reason # "Invalid"

Ready == \A id \in Ids : report[id] # None => report[id].reason = "Reconciled"

(***************************************************************************)
(* When the controller has gone through its queue, the readiness check     *)
(* passes exactly if every watched resource is linked to all its hosts in  *)
(* its current version (AuthConfigReconciler.Ready).                       *)
(***************************************************************************)
ReadyOnceReconciled ==
  rec.pc = "idle" /\ queue = {} =>
    Ready = \A id \in Ids : Watched(id) =>
              \A h \in ToSet(resource[id].hosts) :
                h \in LinkedTo(id) /\ linkAt(tree, h).cfg.spec = resource[id]

----------------------------------------------------------------------------
(***************************************************************************)
(* Fairness: the controller goes on working, its queue is first in first   *)
(* out, and every resource is resynced time and again.                     *)
(***************************************************************************)
FairSpec ==
  /\ Spec
  /\ WF_vars(Reconcile)
  /\ \A id \in Ids : SF_vars(Begin(id)) /\ WF_vars(Resync(id))

(***************************************************************************)
(* A resource that is deleted or no longer watched is unlinked in the end  *)
(* (Reconcile, LabelSelectorPredicate).                                    *)
(***************************************************************************)
EventuallyUnlinked ==
  \A id \in Ids : ~Watched(id) ~> (LinkedTo(id) = {} \/ Watched(id))

covers(g, h) == g = h \/ (g[1] = wildcard /\ IsSuffix(Tail(g), h))

onlyWantedBy(id, h) ==
  /\ Watched(id) /\ resource[id].kind = "plain" /\ Contains(resource[id].hosts, h)
  /\ \A j \in Ids \ {id} :
       Watched(j) => /\ resource[j].kind = "plain"
                     /\ \A g \in ToSet(resource[j].hosts) : ~covers(g, h)

(***************************************************************************)
(* A host that a valid resource wants and no other resource has a claim to *)
(* is linked to it in the end and stays so, also if it was taken when the  *)
(* resource was reconciled (Reconcile; the resync is what brings it back). *)
(***************************************************************************)
FreeHostEventuallyLinked ==
  \A id \in Ids : \A h \in Hosts : <>[]onlyWantedBy(id, h) => <>[](h \in LinkedTo(id))
=============================================================================
