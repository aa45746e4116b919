---------------------------- MODULE WorkerProofs ----------------------------
(***************************************************************************)
(* What becomes of the workers of the configs, for any hosts, resources,   *)
(* specs and workers, with translations that fail and resources that lose  *)
(* the host by which their config is looked up: which workers run once     *)
(* their config is gone, and which are stopped twice.                      *)
(***************************************************************************)
EXTENDS ReportProofs

(***************************************************************************)
(* The links whose config was cleaned: those of the resource at hand, but  *)
(* for the ones made since.                                                *)
(***************************************************************************)
Cleaned(h) ==
  /\ rec.pc \in {"delete", "translate", "unlink", "link"}
  /\ linkAt(tree, h).id = rec.id
  /\ h \notin rec.linked

workerAt(h) == linkAt(tree, h).cfg.worker

ConfigInv ==
  /\ rec.pc \notin {"unlink", "link"} => rec.cfg = denyAll
  /\ rec.cfg.worker # None => worker[rec.cfg.worker] = "running"
  /\ rec.pc = "link" => \A h \in rec.linked : linkAt(tree, h).cfg = rec.cfg
  /\ rec.pc = "bootstrap" /\ (rec.boot # {} \/ rec.todo # <<>>) =>
       \A h \in Hosts : linkAt(tree, h) # None => linkAt(tree, h).cfg = denyAll

(***************************************************************************)
(* The workers of the links run, unless they were cleaned.  The links of a *)
(* resource share their config, those of two resources have no worker in   *)
(* common.                                                                 *)
(***************************************************************************)
RunningInv ==
  \A h \in Hosts : linkAt(tree, h) # None /\ workerAt(h) # None =>
    worker[workerAt(h)] = "running" \/ Cleaned(h) \/ linkAt(tree, h).id \in unclean

SharedInv ==
  \A g, h \in Hosts :
    /\ linkAt(tree, g) # None /\ linkAt(tree, h) # None
    /\ linkAt(tree, g).id = linkAt(tree, h).id
    /\ Cleaned(g) <=> Cleaned(h)
    => linkAt(tree, g).cfg = linkAt(tree, h).cfg

OwnerInv ==
  \A h \in Hosts : linkAt(tree, h) # None /\ workerAt(h) # None =>
    /\ \A g \in Hosts : linkAt(tree, g) # None /\ workerAt(g) = workerAt(h) =>
         linkAt(tree, g).id = linkAt(tree, h).id
    /\ rec.cfg.worker = workerAt(h) => linkAt(tree, h).id = rec.id

(***************************************************************************)
(* A worker that runs is not only that of links that were cleaned.         *)
(***************************************************************************)
HeldInv ==
  \A w \in Workers : worker[w] = "running" =>
    \/ w = rec.cfg.worker
    \/ w \in astray
    \/ \E h \in Hosts : linkAt(tree, h) # None /\ workerAt(h) = w /\ ~Cleaned(h)

WorkersInv == ConfigInv /\ RunningInv /\ SharedInv /\ OwnerInv /\ HeldInv

LEMMA LinkTypes ==
  ASSUME ReconcilerInv, NEW h \in Hosts, linkAt(tree, h) # None
  PROVE  linkAt(tree, h).id \in Ids /\ workerAt(h) \in Workers \cup {None}
<1>1. linkAt(tree, h) \in [id: Ids, cfg: AuthConfig]
  BY ConfigsAssumption DEF linkAt, ReconcilerInv, IndexInv, IndexTypeOK, indexEntry
<1> QED
  BY <1>1 DEF workerAt, AuthConfig

LEMMA LinkIsHeld ==
  ASSUME NEW h \in Hosts, linkAt(tree, h) # None
  PROVE  workerAt(h) \in heldWorkers
<1>1. linkAt(tree, h) \in list(tree)
  BY DEF linkAt, list
<1> QED
  BY <1>1 DEF workerAt, heldWorkers

(***************************************************************************)
(* The config that cleanConfigs finds is that of a link.                   *)
(***************************************************************************)
LEMMA CleanedIsLink ==
  ASSUME NoEmptyLabels, ReconcilerInv, NEW id \in Ids, cleanedConfig(id) # None
  PROVE  \E g \in Hosts : linkAt(tree, g) # None /\ linkAt(tree, g) = cleanedConfig(id)
<1>1. IndexInv /\ keys[id] \in Seq(Hosts)
  BY DEF ReconcilerInv, IndexInv, IndexTypeOK
<1>2. PICK h \in Hosts : cleanedConfig(id) = Get(h)
  BY <1>1 DEF cleanedConfig, FindKeys
<1>3. PICK q : q \in Linked /\ Get(h) = tree[q]
  <2>1. get(tree, revertKey(h)) # None
    BY <1>2 DEF Get
  <2>2. Serves(revertKey(h), servingLink(revertKey(h)))
    BY <1>1, <2>1, ServingLinkServes
  <2> QED
    BY <1>1, <2>2, ServesGet DEF Serves, Get
<1>4. q \in DOMAIN tree /\ tree[q] # None /\ tree[q].id \in Ids
  BY <1>1, <1>3 DEF Linked, IndexInv, IndexTypeOK, indexEntry
<1>5. PICK i \in DOMAIN keys[tree[q].id] : revertKey(keys[tree[q].id][i]) = q
  BY <1>1, <1>4 DEF IndexInv, EntriesHaveKeys
<1>6. PICK g \in Hosts : revertKey(g) = q
  BY <1>1, <1>4, <1>5 DEF IndexInv, IndexTypeOK
<1> QED
  BY <1>2, <1>3, <1>4, <1>6 DEF linkAt

(***************************************************************************)
(* The steps that leave the workers alone and take away no links but those *)
(* that were cleaned.                                                      *)
(***************************************************************************)
LEMMA KeptWorkers ==
  ASSUME ReconcilerInv, WorkersInv, UNCHANGED worker, ConfigInv', astray \subseteq astray',
         \A h \in Hosts : \/ linkAt(tree', h) = linkAt(tree, h)
                          \/ linkAt(tree', h) = None /\ Cleaned(h),
         \A h \in Hosts : linkAt(tree', h) # None =>
           /\ Cleaned(h)' <=> Cleaned(h)
           /\ linkAt(tree, h).id \in unclean =>
                linkAt(tree, h).id \in unclean' \/ workerAt(h) = rec.cfg.worker,
         \/ rec'.cfg = rec.cfg /\ rec'.id = rec.id
         \/ /\ rec'.cfg = denyAll
            /\ \/ rec.cfg.worker \in astray' \cup {None}
               \/ \E h \in Hosts : /\ linkAt(tree', h) # None /\ workerAt(h) = rec.cfg.worker
                                   /\ ~Cleaned(h)
  PROVE  WorkersInv'
<1> USE DEF WorkersInv
<1>1. \A h \in Hosts : linkAt(tree', h) # None =>
        /\ linkAt(tree', h) = linkAt(tree, h) /\ linkAt(tree, h) # None
        /\ workerAt(h)' = workerAt(h)
  BY DEF workerAt
<1>2. rec'.cfg = denyAll => rec'.cfg.worker = None
  BY DEF denyAll
<1>3. RunningInv'
  BY <1>1 DEF RunningInv, ConfigInv
<1>4. SharedInv'
  BY <1>1 DEF SharedInv
<1>5. OwnerInv'
  BY <1>1, <1>2 DEF OwnerInv
<1>6. HeldInv'
  <2> SUFFICES ASSUME NEW w \in Workers, worker'[w] = "running",
                      w # rec'.cfg.worker, w \notin astray'
               PROVE  \E h \in Hosts : linkAt(tree', h) # None /\ workerAt(h)' = w /\ ~Cleaned(h)'
    BY DEF HeldInv
  <2>1. worker[w] = "running" /\ w # None /\ w \notin astray
    BY NoneIsNoSpec
  <2>2. CASE w = rec.cfg.worker
    BY <1>1, <2>1, <2>2
  <2>3. CASE w # rec.cfg.worker
    <3>1. PICK h \in Hosts : linkAt(tree, h) # None /\ workerAt(h) = w /\ ~Cleaned(h)
      BY <2>1, <2>3 DEF HeldInv
    <3>2. linkAt(tree', h) # None
      BY <3>1
    <3> QED
      BY <1>1, <3>1, <3>2
  <2> QED
    BY <2>2, <2>3
<1> QED
  BY <1>3, <1>4, <1>5, <1>6

(***************************************************************************)
(* A process that starts again has no workers.                             *)
(***************************************************************************)
LEMMA RestartWorkers ==
  ASSUME restart
  PROVE  WorkersInv'
<1>1. /\ \A w \in Workers : worker'[w] = "none"
      /\ rec'.pc = "idle" /\ rec'.cfg = denyAll /\ rec'.cfg.worker = None
  BY DEF restart, idle, denyAll
<1>2. \A h \in Hosts : linkAt(tree', h) = None
  BY RestartUnlinks
<1>3. ConfigInv'
  BY <1>1 DEF ConfigInv
<1> QED
  BY <1>1, <1>2, <1>3 DEF WorkersInv, RunningInv, SharedInv, OwnerInv, HeldInv

LEMMA EnvironmentWorkers ==
  ASSUME WorkersInv, UNCHANGED <<tree, rec, worker, unclean, astray>>
  PROVE  WorkersInv'
BY DEF WorkersInv, ConfigInv, RunningInv, SharedInv, OwnerInv, HeldInv, Cleaned, workerAt

LEMMA BeginWorkers ==
  ASSUME ReconcilerInv, WorkersInv, NEW id \in Ids, Begin(id)
  PROVE  WorkersInv'
<1>1. rec.pc = "idle" /\ UNCHANGED <<tree, keys, worker, unclean, astray>>
  BY DEF Begin
<1>2. PICK boot \in (IF Empty THEN {bootstrapItems} ELSE {{}}) \cup (IF ApiErrors THEN {{}} ELSE {}) :
        rec' = [idle EXCEPT !.pc = "bootstrap", !.id = id, !.boot = boot]
  BY Zenon DEF Begin
<1>3. /\ rec'.pc = "bootstrap" /\ rec'.boot = boot /\ rec'.todo = <<>>
      /\ rec'.cfg = denyAll /\ rec'.cfg.worker = None
  BY <1>2 DEF idle, denyAll
<1>4. boot # {} => \A h \in Hosts : linkAt(tree', h) = None
  <2>1. boot # {} => Empty
    BY <1>2
  <2> QED
    BY <1>1, <2>1, EmptyHasNoLinks DEF ReconcilerInv, linkAt, Linked
<1>5. ConfigInv'
  BY <1>3, <1>4 DEF ConfigInv
<1>6. rec.cfg.worker = None
  BY <1>1 DEF WorkersInv, ConfigInv, denyAll
<1>7. \A h \in Hosts : ~Cleaned(h)' /\ ~Cleaned(h)
  BY <1>1, <1>3 DEF Cleaned
<1> QED
  BY <1>1, <1>3, <1>5, <1>6, <1>7, KeptWorkers

LEMMA BootstrapResourceWorkers ==
  ASSUME ReconcilerInv, WorkersInv, BootstrapResource
  PROVE  WorkersInv'
<1>1. rec.pc = "bootstrap" /\ rec \in Recs /\ UNCHANGED <<tree, worker, unclean, astray>>
  BY DEF BootstrapResource, ReconcilerInv, TypeOK, RecTypeOK
<1>2. PICK item \in rec.boot :
        /\ \A other \in rec.boot : other.id \notin item.after
        /\ rec' = [rec EXCEPT !.boot = @ \ {item}, !.target = item.id, !.todo = item.hosts]
  BY Zenon DEF BootstrapResource
<1>3. rec'.pc = "bootstrap" /\ rec'.id = rec.id /\ rec'.cfg = rec.cfg
  BY <1>1, <1>2 DEF Recs
<1>4. ConfigInv'
  BY <1>1, <1>2, <1>3 DEF WorkersInv, ConfigInv
<1>5. \A h \in Hosts : ~Cleaned(h)' /\ ~Cleaned(h)
  BY <1>1, <1>3 DEF Cleaned
<1> QED
  BY <1>1, <1>3, <1>4, <1>5, KeptWorkers

LEMMA GetResourceWorkers ==
  ASSUME ReconcilerInv, WorkersInv, GetResource
  PROVE  WorkersInv'
<1>1. rec.pc = "bootstrap" /\ UNCHANGED <<tree, worker, unclean, astray>>
  BY DEF GetResource
<1> DEFINE read == IF Watched(rec.id) THEN resource[rec.id] ELSE None
<1>2. rec' = idle \/ rec' = [idle EXCEPT !.pc = "clean", !.id = rec.id, !.spec = read]
  BY DEF GetResource
<1> HIDE DEF read
<1>3. rec'.pc \in {"idle", "clean"} /\ rec'.cfg = denyAll /\ rec'.cfg.worker = None
  <2>1. CASE rec' = idle
    BY <2>1 DEF idle, denyAll
  <2>2. CASE rec' = [idle EXCEPT !.pc = "clean", !.id = rec.id, !.spec = read]
    <3>1. rec'.pc = "clean" /\ rec'.cfg = denyAll
      BY <2>2 DEF idle
    <3> QED
      BY <3>1 DEF denyAll
  <2> QED
    BY <1>2, <2>1, <2>2
<1>4. ConfigInv'
  BY <1>3 DEF ConfigInv
<1>5. rec.cfg.worker = None
  BY <1>1 DEF WorkersInv, ConfigInv, denyAll
<1>6. \A h \in Hosts : ~Cleaned(h)' /\ ~Cleaned(h)
  BY <1>1, <1>3 DEF Cleaned
<1> QED
  BY <1>1, <1>3, <1>4, <1>5, <1>6, KeptWorkers

(***************************************************************************)
(* cleanConfigs stops the worker of a config, for all the links that hold  *)
(* it.  They are all of the resource at hand, or all of another one.       *)
(***************************************************************************)
LEMMA CleanConfigsWorkers ==
  ASSUME NoEmptyLabels, ReconcilerInv, LocalsInv, WorkersInv, CleanConfigs
  PROVE  WorkersInv'
<1>1. PICK id \in Ids : id = rec.id /\ rec.pc = "clean" /\ rec \in Recs /\ rec.linked = {}
  BY DEF CleanConfigs, ReconcilerInv, TypeOK, RecTypeOK, LocalsInv, StageInv
<1>2. CASE restart
  BY <1>2, RestartWorkers
<1> DEFINE entry == cleanedConfig(id)
           w == IF entry = None THEN None ELSE entry.cfg.worker
           own == entry # None /\ entry.id = id
<1>3. CASE /\ worker' = IF w = None THEN worker ELSE [worker EXCEPT ![w] = "stopped"]
           /\ rec' = [rec EXCEPT !.pc = IF rec.spec = None THEN "delete" ELSE "translate"]
           /\ unclean' = unclean \cup {j \in Ids \ {id} : w \in workersOf(j)}
           /\ astray' = IF own THEN astray ELSE astray \cup workersOf(id)
           /\ UNCHANGED tree
  <2>1. /\ rec'.pc \in {"delete", "translate"} /\ rec'.id = id /\ rec'.linked = {} /\ rec'.cfg = rec.cfg
        /\ rec.cfg = denyAll /\ rec.cfg.worker = None
    BY <1>1, <1>3 DEF Recs, WorkersInv, ConfigInv, denyAll
  <2>2. \A h \in Hosts : /\ ~Cleaned(h) /\ (Cleaned(h)' <=> linkAt(tree, h).id = id)
                         /\ workerAt(h)' = workerAt(h)
    BY <1>1, <1>3, <2>1 DEF Cleaned, workerAt
  <2>3. \A v \in Workers : worker'[v] = IF v = w THEN "stopped" ELSE worker[v]
    BY <1>3, NoneIsNoSpec DEF ReconcilerInv, TypeOK, ControllerTypeOK
  <2>4. \A h \in Hosts : linkAt(tree, h) # None /\ workerAt(h) # None =>
          workerAt(h) \in workersOf(linkAt(tree, h).id)
    BY DEF workersOf, LinkedTo, workerAt
  <2>5. own => \A h \in LinkedTo(id) : workerAt(h) = w
    <3> SUFFICES ASSUME own, NEW h \in LinkedTo(id) PROVE workerAt(h) = w
      OBVIOUS
    <3>1. PICK g \in Hosts : linkAt(tree, g) # None /\ linkAt(tree, g) = entry
      BY CleanedIsLink
    <3>2. linkAt(tree, g).cfg = linkAt(tree, h).cfg
      BY <2>2, <3>1 DEF LinkedTo, WorkersInv, SharedInv
    <3> QED
      BY <3>1, <3>2 DEF workerAt
  <2> HIDE DEF w, own
  <2>6. RunningInv'
    <3> SUFFICES ASSUME NEW h \in Hosts, linkAt(tree, h) # None, workerAt(h) # None,
                        linkAt(tree, h).id # id, linkAt(tree, h).id \notin unclean'
                 PROVE  worker'[workerAt(h)] = "running"
      BY <1>3, <2>2 DEF RunningInv
    <3>1. linkAt(tree, h).id \in Ids /\ workerAt(h) \in Workers
      BY LinkTypes
    <3>2. workerAt(h) # w
      BY <1>3, <2>4, <3>1
    <3>3. worker[workerAt(h)] = "running"
      BY <1>3, <2>2 DEF WorkersInv, RunningInv
    <3> QED
      BY <2>3, <3>1, <3>2, <3>3
  <2>7. HeldInv'
    <3> SUFFICES ASSUME NEW v \in Workers, worker'[v] = "running", v \notin astray'
                 PROVE  \E h \in Hosts : linkAt(tree, h) # None /\ workerAt(h) = v /\ ~Cleaned(h)'
      BY <1>3, <2>2 DEF HeldInv
    <3>1. worker[v] = "running" /\ v # w /\ v \notin astray /\ v # None
      BY <1>3, <2>3, NoneIsNoSpec
    <3>2. PICK h \in Hosts : linkAt(tree, h) # None /\ workerAt(h) = v
      BY <2>1, <3>1 DEF WorkersInv, HeldInv
    <3>3. linkAt(tree, h).id # id
      BY <1>3, <2>4, <2>5, <3>1, <3>2 DEF LinkedTo
    <3> QED
      BY <2>2, <3>2, <3>3
  <2>8. ConfigInv'
    BY <1>3, <2>1 DEF ConfigInv
  <2>9. SharedInv' /\ OwnerInv'
    BY <1>3, <2>1, <2>2 DEF WorkersInv, SharedInv, OwnerInv
  <2> QED
    BY <2>6, <2>7, <2>8, <2>9 DEF WorkersInv
<1> QED
  BY <1>1, <1>2, <1>3 DEF CleanConfigs

LEMMA DeleteFromIndexWorkers ==
  ASSUME ReconcilerInv, LocalsInv, WorkersInv, DeleteFromIndex
  PROVE  WorkersInv'
<1>1. PICK id \in Ids : id = rec.id /\ rec.pc = "delete" /\ rec.linked = {}
  BY DEF DeleteFromIndex, ReconcilerInv, TypeOK, RecTypeOK, LocalsInv, StageInv
<1>2. Delete(id) /\ rec' = idle /\ unclean' = unclean \ {id} /\ UNCHANGED <<worker, astray>>
  BY <1>1 DEF DeleteFromIndex
<1>3. rec'.pc = "idle" /\ rec'.cfg = denyAll /\ rec'.cfg.worker = None
  BY <1>2 DEF idle, denyAll
<1>4. ConfigInv'
  BY <1>3 DEF ConfigInv
<1>5. rec.cfg.worker = None
  BY <1>1 DEF WorkersInv, ConfigInv, denyAll
<1>6. \A h \in Hosts : linkAt(tree', h) = IF h \in LinkedTo(id) THEN None ELSE linkAt(tree, h)
  BY <1>2, DeleteLinks DEF ReconcilerInv
<1>7. \A h \in LinkedTo(id) : Cleaned(h)
  BY <1>1 DEF Cleaned, LinkedTo
<1>8. \A h \in Hosts : linkAt(tree', h) # None =>
        ~Cleaned(h)' /\ ~Cleaned(h) /\ linkAt(tree, h).id # id
  BY <1>1, <1>3, <1>6 DEF Cleaned, LinkedTo
<1> QED
  BY <1>2, <1>3, <1>4, <1>5, <1>6, <1>7, <1>8, KeptWorkers

(***************************************************************************)
(* The worker of a translation is none that a link holds.  A translation   *)
(* that fails leaves the links as they were cleaned.                       *)
(***************************************************************************)
LEMMA TranslateAuthConfigWorkers ==
  ASSUME ReconcilerInv, LocalsInv, WorkersInv, TranslateAuthConfig
  PROVE  WorkersInv'
<1>1. /\ rec.pc = "translate" /\ rec \in Recs /\ rec.id \in Ids /\ rec.linked = {} /\ UNCHANGED tree
      /\ worker \in [Workers -> {"none", "running", "stopped"}]
  BY DEF TranslateAuthConfig, ReconcilerInv, TypeOK, RecTypeOK, ControllerTypeOK, LocalsInv, StageInv
<1>2. rec.cfg.worker = None
  BY <1>1 DEF WorkersInv, ConfigInv, denyAll
<1>3. \A h \in Hosts : workerAt(h)' = workerAt(h) /\ (Cleaned(h) <=> linkAt(tree, h).id = rec.id)
  BY <1>1 DEF workerAt, Cleaned
<1> DEFINE Started(w) == \A v \in Workers :
             /\ v = w => worker'[v] = "running"
             /\ v # w /\ v \in heldWorkers => worker'[v] = worker[v]
             /\ v # w /\ worker'[v] = "running" => worker[v] = "running"
<1>4. ASSUME NEW w \in (Workers \ heldWorkers) \cup {None}, Started(w)
      PROVE  /\ \A h \in Hosts : linkAt(tree, h) # None /\ workerAt(h) # None =>
                  workerAt(h) # w /\ worker'[workerAt(h)] = worker[workerAt(h)]
             /\ \A v \in Workers : worker'[v] = "running" /\ v # w /\ v \notin astray =>
                  \E h \in Hosts : linkAt(tree, h) # None /\ workerAt(h) = v /\ ~Cleaned(h)
  <2>1. \A h \in Hosts : linkAt(tree, h) # None /\ workerAt(h) # None =>
          workerAt(h) # w /\ worker'[workerAt(h)] = worker[workerAt(h)]
    BY <1>4, LinkIsHeld, LinkTypes
  <2>2. ASSUME NEW v \in Workers, worker'[v] = "running", v # w, v \notin astray
        PROVE  \E h \in Hosts : linkAt(tree, h) # None /\ workerAt(h) = v /\ ~Cleaned(h)
    <3>1. worker[v] = "running" /\ v # rec.cfg.worker
      BY <1>2, <1>4, <2>2, NoneIsNoSpec
    <3> QED
      BY <2>2, <3>1 DEF WorkersInv, HeldInv
  <2> QED
    BY <2>1, <2>2
<1>5. ASSUME NEW w \in (Workers \ heldWorkers) \cup {None}, Started(w),
             translated([spec |-> rec.spec, worker |-> w]),
             unclean' = unclean, astray \ {w} \subseteq astray'
      PROVE  WorkersInv'
  <2> DEFINE cfg == [spec |-> rec.spec, worker |-> w]
  <2>1. rec'.pc = "unlink" /\ rec'.cfg = cfg /\ rec'.id = rec.id /\ rec'.linked = {}
    BY <1>1, <1>5 DEF translated, Recs
  <2>2. rec'.cfg.worker = w /\ \A h \in Hosts : Cleaned(h)' <=> Cleaned(h)
    BY <1>1, <2>1 DEF Cleaned
  <2> HIDE DEF cfg
  <2>3. ConfigInv'
    BY <1>5, <2>1, <2>2 DEF ConfigInv
  <2>4. RunningInv'
    BY <1>1, <1>3, <1>4, <1>5, <2>2 DEF WorkersInv, RunningInv
  <2>5. SharedInv'
    BY <1>1, <1>5, <2>2 DEF WorkersInv, SharedInv
  <2>6. OwnerInv'
    BY <1>1, <1>3, <1>4, <1>5, <2>2 DEF WorkersInv, OwnerInv
  <2>7. HeldInv'
    BY <1>1, <1>3, <1>4, <1>5, <2>2 DEF HeldInv
  <2> QED
    BY <2>3, <2>4, <2>5, <2>6, <2>7 DEF WorkersInv
<1>6. ASSUME NEW w \in (Workers \ heldWorkers) \cup {None}, Started(w), invalidResource,
             astray \subseteq astray', w \in astray' \cup {None}
      PROVE  WorkersInv'
  <2>1. rec'.pc = "idle" /\ rec'.cfg = denyAll /\ rec'.cfg.worker = None
    BY <1>6 DEF invalidResource, idle, denyAll
  <2>2. unclean' = unclean \cup {rec.id} /\ \A h \in Hosts : ~Cleaned(h)'
    BY <1>6, <2>1 DEF invalidResource, Cleaned
  <2>3. ConfigInv'
    BY <2>1 DEF ConfigInv
  <2>4. RunningInv'
    BY <1>1, <1>3, <1>4, <1>6, <2>2 DEF WorkersInv, RunningInv
  <2>5. SharedInv'
    BY <1>1, <1>3, <2>2 DEF WorkersInv, SharedInv
  <2>6. OwnerInv'
    BY <1>1, <1>3, <2>1 DEF WorkersInv, OwnerInv
  <2>7. HeldInv'
    BY <1>1, <1>3, <1>4, <1>6, <2>2, NoneIsNoSpec DEF HeldInv
  <2> QED
    BY <2>3, <2>4, <2>5, <2>6, <2>7 DEF WorkersInv
<1>7. UNCHANGED worker => Started(None)
  BY NoneIsNoSpec
<1>8. ASSUME NEW w \in freeWorkers,
             worker' = [v \in Workers |-> IF v = w THEN "running"
                                          ELSE IF v \in freeWorkers THEN "none"
                                          ELSE worker[v]]
      PROVE  w \in Workers \ heldWorkers /\ Started(w)
  BY <1>8 DEF freeWorkers
<1>9. \/ /\ translated([spec |-> rec.spec, worker |-> None])
         /\ UNCHANGED <<worker, unclean, astray>>
      \/ invalidResource /\ UNCHANGED <<worker, astray>>
      \/ \E w \in freeWorkers :
           /\ worker' = [v \in Workers |-> IF v = w THEN "running"
                                           ELSE IF v \in freeWorkers THEN "none"
                                           ELSE worker[v]]
           /\ \/ /\ translated([spec |-> rec.spec, worker |-> w])
                 /\ unclean' = unclean /\ astray' = astray \ {w}
              \/ invalidResource /\ astray' = astray \cup {w}
  BY Zenon DEF TranslateAuthConfig
<1> HIDE DEF Started
<1>10. CASE translated([spec |-> rec.spec, worker |-> None]) /\ UNCHANGED <<worker, unclean, astray>>
  BY <1>5, <1>7, <1>10
<1>11. CASE invalidResource /\ UNCHANGED <<worker, astray>>
  BY <1>6, <1>7, <1>11
<1>12. ASSUME NEW w \in freeWorkers,
              worker' = [v \in Workers |-> IF v = w THEN "running"
                                           ELSE IF v \in freeWorkers THEN "none"
                                           ELSE worker[v]],
              \/ /\ translated([spec |-> rec.spec, worker |-> w])
                 /\ unclean' = unclean /\ astray' = astray \ {w}
              \/ invalidResource /\ astray' = astray \cup {w}
       PROVE  WorkersInv'
  <2>1. w \in (Workers \ heldWorkers) \cup {None} /\ Started(w)
    BY <1>8, <1>12
  <2>2. CASE /\ translated([spec |-> rec.spec, worker |-> w])
             /\ unclean' = unclean /\ astray' = astray \ {w}
    BY <1>5, <2>1, <2>2
  <2>3. CASE invalidResource /\ astray' = astray \cup {w}
    BY <1>6, <2>1, <2>3
  <2> QED
    BY <1>12, <2>2, <2>3
<1> QED
  BY <1>9, <1>10, <1>11, <1>12, Zenon

LEMMA UnlinkUnusedHostWorkers ==
  ASSUME ReconcilerInv, LocalsInv, WorkersInv, UnlinkUnusedHost
  PROVE  WorkersInv'
<1>1. PICK id \in Ids : id = rec.id /\ rec.pc = "unlink" /\ rec \in Recs /\ rec.linked = {}
  BY DEF UnlinkUnusedHost, ReconcilerInv, TypeOK, RecTypeOK, LocalsInv, StageInv
<1>2. PICK host \in rec.unused : /\ DeleteKey(rec.id, host)
                                 /\ rec' = [rec EXCEPT !.unused = @ \ {host}]
  BY Zenon DEF UnlinkUnusedHost
<1>3. rec'.pc = "unlink" /\ rec'.id = rec.id /\ rec'.cfg = rec.cfg /\ rec'.linked = rec.linked
  BY <1>1, <1>2 DEF Recs
<1>4. host \in ToSet(keys[id]) /\ UNCHANGED <<worker, unclean, astray>>
  BY <1>1 DEF ReconcilerInv, UnlinksOwnKeys, UnlinkUnusedHost
<1>5. \A h \in Hosts :
        linkAt(tree', h) = IF h \in LinkedTo(id) /\ h = host THEN None ELSE linkAt(tree, h)
  BY <1>1, <1>2, <1>4, DeleteKeyLinks DEF ReconcilerInv
<1>6. \A h \in LinkedTo(id) : Cleaned(h)
  BY <1>1 DEF Cleaned, LinkedTo
<1>7. \A h \in Hosts : linkAt(tree', h) # None => (Cleaned(h)' <=> Cleaned(h))
  BY <1>1, <1>3, <1>5 DEF Cleaned
<1>8. ConfigInv'
  BY <1>1, <1>3, <1>4 DEF WorkersInv, ConfigInv
<1> QED
  BY <1>3, <1>4, <1>5, <1>6, <1>7, <1>8, KeptWorkers

LEMMA UnusedHostsUnlinkedWorkers ==
  ASSUME ReconcilerInv, LocalsInv, WorkersInv, UnusedHostsUnlinked
  PROVE  WorkersInv'
<1>1. rec.pc = "unlink" /\ rec \in Recs /\ rec.linked = {} /\ UNCHANGED <<tree, worker, unclean, astray>>
  BY DEF UnusedHostsUnlinked, ReconcilerInv, TypeOK, RecTypeOK, LocalsInv, StageInv
<1>2. rec'.pc = "link" /\ rec'.id = rec.id /\ rec'.cfg = rec.cfg /\ rec'.linked = rec.linked
  BY <1>1 DEF UnusedHostsUnlinked, Recs
<1>3. ConfigInv'
  BY <1>1, <1>2 DEF WorkersInv, ConfigInv
<1>4. \A h \in Hosts : Cleaned(h)' <=> Cleaned(h)
  BY <1>1, <1>2 DEF Cleaned
<1> QED
  BY <1>1, <1>2, <1>3, <1>4, KeptWorkers

(***************************************************************************)
(* A host that is linked was free or linked to the same resource; its link *)
(* now holds the worker of the new config, as those linked before it do.   *)
(***************************************************************************)
LEMMA LinkHostWorkers ==
  ASSUME NoEmptyLabels, ReconcilerInv, LocalsInv, WorkersInv, LinkHost
  PROVE  WorkersInv'
<1>1. PICK id \in Ids, host \in Hosts, cfg \in Configs :
        /\ id = rec.id /\ id = rec.target /\ host = Head(rec.todo) /\ cfg = rec.cfg
        /\ rec.pc = "link" /\ rec \in Recs /\ IndexInv /\ addToIndex /\ UNCHANGED <<worker, unclean, astray>>
        /\ rec'.pc = rec.pc /\ rec'.id = rec.id
  BY AddToIndexStep, Zenon DEF LinkHost, ReconcilerInv, TypeOK, RecTypeOK, LocalsInv, StageInv
<1>2. CASE /\ rec' = [[rec EXCEPT !.todo = Tail(@)] EXCEPT !.loose = @ \cup {host}]
           /\ UNCHANGED tree
  <2>1. rec'.cfg = rec.cfg /\ rec'.linked = rec.linked
    BY <1>1, <1>2 DEF Recs
  <2>2. ConfigInv'
    BY <1>1, <1>2, <2>1 DEF WorkersInv, ConfigInv
  <2>3. \A h \in Hosts : Cleaned(h)' <=> Cleaned(h)
    BY <1>1, <1>2, <2>1 DEF Cleaned
  <2> QED
    BY <1>1, <1>2, <2>1, <2>2, <2>3, KeptWorkers
<1>3. CASE /\ ~hostTaken(host, id) /\ Set(id, host, cfg, TRUE)
           /\ rec' = [[rec EXCEPT !.todo = Tail(@)] EXCEPT !.linked = @ \cup {host}]
  <2>1. rec'.cfg = rec.cfg /\ rec'.linked = rec.linked \cup {host} /\ rec.linked \subseteq Hosts
    BY <1>1, <1>3 DEF Recs
  <2>2. /\ linkAt(tree', host) = [id |-> id, cfg |-> cfg] /\ linkAt(tree', host) # None
        /\ \A h \in Hosts : h # host => linkAt(tree', h) = linkAt(tree, h)
    BY <1>1, <1>3, SetLinks, Zenon
  <2>3. linkAt(tree, host) # None => linkAt(tree, host).id = id
    BY <1>1, <1>3, NotTakenIsOwn
  <2>4. linkAt(tree', host).id = rec.id /\ linkAt(tree', host).cfg = rec.cfg
    BY <1>1, <2>2
  <2>5. workerAt(host)' = rec.cfg.worker /\ ~Cleaned(host)'
    BY <2>1, <2>4 DEF workerAt, Cleaned
  <2>6. \A h \in Hosts : h # host => workerAt(h)' = workerAt(h) /\ (Cleaned(h)' <=> Cleaned(h))
    BY <1>1, <2>1, <2>2, Zenon DEF workerAt, Cleaned
  <2>7. \A h \in rec.linked : linkAt(tree, h).cfg = rec.cfg /\ workerAt(h) = rec.cfg.worker
    BY <1>1 DEF WorkersInv, ConfigInv, workerAt
  <2>8. ConfigInv'
    BY <1>1, <2>1, <2>2, <2>4, <2>7 DEF WorkersInv, ConfigInv
  <2>9. RunningInv'
    BY <1>1, <2>1, <2>2, <2>5, <2>6, <2>8 DEF WorkersInv, RunningInv, ConfigInv
  <2>10. \A h \in Hosts : linkAt(tree', h) # None /\ linkAt(tree', h).id = rec.id /\ ~Cleaned(h)' =>
           linkAt(tree', h).cfg = rec.cfg
    BY <1>1, <2>1, <2>2, <2>4, <2>6, <2>7 DEF Cleaned
  <2>11. SharedInv'
    BY <2>2, <2>4, <2>5, <2>6, <2>10 DEF WorkersInv, SharedInv
  <2>12. OwnerInv'
    <3>1. \A h \in Hosts : linkAt(tree', h) # None /\ workerAt(h)' = rec.cfg.worker
                             /\ workerAt(h)' # None => linkAt(tree', h).id = rec.id
      BY <2>2, <2>4, <2>6 DEF WorkersInv, OwnerInv
    <3>2. ASSUME NEW h \in Hosts, linkAt(tree', h) # None, workerAt(h)' # None,
                 NEW g \in Hosts, linkAt(tree', g) # None, workerAt(g)' = workerAt(h)'
          PROVE  linkAt(tree', g).id = linkAt(tree', h).id
      <4>1. CASE g = host \/ h = host
        BY <2>5, <3>1, <3>2, <4>1
      <4>2. CASE g # host /\ h # host
        BY <2>2, <2>6, <3>2, <4>2 DEF WorkersInv, OwnerInv
      <4> QED
        BY <4>1, <4>2
    <3> QED
      BY <1>1, <2>1, <3>1, <3>2, Zenon DEF OwnerInv
  <2>13. HeldInv'
    <3> SUFFICES ASSUME NEW w \in Workers, worker'[w] = "running", w # rec'.cfg.worker, w \notin astray'
                 PROVE  \E h \in Hosts : linkAt(tree', h) # None /\ workerAt(h)' = w /\ ~Cleaned(h)'
      BY DEF HeldInv
    <3>1. worker[w] = "running" /\ w # rec.cfg.worker /\ w \notin astray
      BY <1>1, <2>1
    <3>2. PICK h \in Hosts : linkAt(tree, h) # None /\ workerAt(h) = w /\ ~Cleaned(h)
      BY <3>1 DEF WorkersInv, HeldInv
    <3>3. h # host
      BY <1>1, <2>3, <2>7, <3>1, <3>2 DEF Cleaned
    <3> QED
      BY <2>2, <2>6, <3>2, <3>3
  <2> QED
    BY <1>1, <2>8, <2>9, <2>11, <2>12, <2>13 DEF WorkersInv
<1> QED
  BY <1>1, <1>2, <1>3, Zenon DEF addToIndex, indexVars

(***************************************************************************)
(* The bootstrap links denyAll, which has no worker, to an index that has  *)
(* no other links.                                                         *)
(***************************************************************************)
LEMMA BootstrapHostWorkers ==
  ASSUME NoEmptyLabels, ReconcilerInv, WorkersInv, BootstrapHost
  PROVE  WorkersInv'
<1>1. PICK id \in Ids, host \in Hosts :
        /\ id = rec.target /\ host = Head(rec.todo) /\ rec.cfg \in Configs
        /\ rec.pc = "bootstrap" /\ rec \in Recs /\ rec.todo # <<>> /\ IndexInv /\ addToIndex
        /\ UNCHANGED <<worker, unclean, astray>> /\ rec'.pc = rec.pc
  BY AddToIndexStep, Zenon DEF BootstrapHost, addToIndex, ReconcilerInv, TypeOK, RecTypeOK
<1>2. rec.cfg = denyAll /\ rec'.cfg = rec.cfg
  <2>1. \/ rec' = [[rec EXCEPT !.todo = Tail(@)] EXCEPT !.loose = @ \cup {host}]
        \/ rec' = [[rec EXCEPT !.todo = Tail(@)] EXCEPT !.linked = @ \cup {host}]
    BY <1>1, Zenon DEF addToIndex
  <2>2. rec'.cfg = rec.cfg
    BY <1>1, <2>1, Zenon DEF Recs
  <2> QED
    BY <1>1, <2>2 DEF WorkersInv, ConfigInv
<1>3. \A h \in Hosts : linkAt(tree, h) # None => linkAt(tree, h).cfg = denyAll
  BY <1>1 DEF WorkersInv, ConfigInv
<1>4. \A h \in Hosts : linkAt(tree', h) # None => linkAt(tree', h).cfg = denyAll
  <2>1. CASE UNCHANGED tree
    BY <1>3, <2>1
  <2>2. CASE Set(id, host, rec.cfg, TRUE)
    <3>1. /\ linkAt(tree', host) = [id |-> id, cfg |-> rec.cfg]
          /\ \A h \in Hosts : h # host => linkAt(tree', h) = linkAt(tree, h)
      BY <1>1, <2>2, SetLinks, Zenon
    <3>2. linkAt(tree', host).cfg = denyAll
      BY <1>2, <3>1
    <3> QED
      BY <1>3, <3>1, <3>2
  <2> QED
    BY <1>1, <2>1, <2>2, AddToIndexStep, Zenon
<1>5. denyAll.worker = None
  BY DEF denyAll
<1>6. \A h \in Hosts : /\ linkAt(tree, h) # None => workerAt(h) = None
                       /\ linkAt(tree', h) # None => workerAt(h)' = None
  BY <1>3, <1>4, <1>5 DEF workerAt
<1>7. \A w \in Workers : worker'[w] = "running" => w \in astray'
  BY <1>1, <1>2, <1>5, <1>6, NoneIsNoSpec DEF WorkersInv, HeldInv
<1>8. ConfigInv'
  BY <1>1, <1>2, <1>4, <1>5 DEF ConfigInv
<1> QED
  BY <1>1, <1>2, <1>4, <1>5, <1>6, <1>7, <1>8 DEF WorkersInv, RunningInv, SharedInv, OwnerInv, HeldInv

(***************************************************************************)
(* When Reconcile is done all the links of the resource hold its config.   *)
(***************************************************************************)
LEMMA ReconciledWorkers ==
  ASSUME ReconcilerInv, LocalsInv, WorkersInv, Reconciled
  PROVE  WorkersInv'
<1>1. /\ rec.pc = "link" /\ rec.id \in Ids /\ rec.todo = <<>> /\ rec' = idle /\ rec \in Recs
      /\ UNCHANGED <<tree, worker>> /\ unclean' = unclean \ {rec.id}
      /\ astray' = IF rec.linked = {} THEN astray \cup ({rec.cfg.worker} \ {None}) ELSE astray
  BY DEF Reconciled, ReconcilerInv, TypeOK, RecTypeOK
<1>2. rec'.pc = "idle" /\ rec'.cfg = denyAll /\ rec'.cfg.worker = None
  BY <1>1 DEF idle, denyAll
<1>3. ConfigInv'
  BY <1>2 DEF ConfigInv
<1>4. LinkedTo(rec.id) = rec.linked
  BY <1>1, EmptyToSet DEF LocalsInv, LinkInv
<1>5. \A h \in Hosts : linkAt(tree, h) # None =>
        /\ ~Cleaned(h) /\ ~Cleaned(h)'
        /\ linkAt(tree, h).id = rec.id => workerAt(h) = rec.cfg.worker
  BY <1>1, <1>2, <1>4 DEF Cleaned, LinkedTo, WorkersInv, ConfigInv, workerAt
<1>6. \/ rec.cfg.worker \in astray' \cup {None}
      \/ \E h \in Hosts : /\ linkAt(tree', h) # None /\ workerAt(h) = rec.cfg.worker
                          /\ ~Cleaned(h)
  <2>1. CASE rec.linked = {}
    BY <1>1, <2>1
  <2>2. ASSUME NEW h \in rec.linked
        PROVE  h \in Hosts /\ linkAt(tree', h) # None /\ workerAt(h) = rec.cfg.worker /\ ~Cleaned(h)
    BY <1>1, <1>4, <1>5 DEF LinkedTo
  <2> QED
    BY <2>1, <2>2
<1> QED
  BY <1>1, <1>2, <1>3, <1>5, <1>6, KeptWorkers

LEMMA NextWorkers ==
  ASSUME NoEmptyLabels, ReconcilerInv, LocalsInv, WorkersInv, [Next]_vars
  PROVE  WorkersInv'
<1>1. CASE Crash
  BY <1>1, RestartWorkers DEF Crash
<1>2. CASE UNCHANGED vars
  BY <1>2, EnvironmentWorkers DEF vars, indexVars
<1>3. CASE Environment
  BY <1>3, EnvironmentWorkers, Zenon
     DEF Environment, Apply, DeleteResource, UpdateStatus, Resync, indexVars
<1>4. CASE \E id \in Ids : Begin(id)
  BY <1>4, BeginWorkers
<1>5. CASE CleanConfigs
  BY <1>5, CleanConfigsWorkers
<1>6. CASE Reconciled
  BY <1>6, ReconciledWorkers
<1> QED
  BY <1>1, <1>2, <1>3, <1>4, <1>5, <1>6, BootstrapResourceWorkers, BootstrapHostWorkers,
     GetResourceWorkers, DeleteFromIndexWorkers, TranslateAuthConfigWorkers,
     UnlinkUnusedHostWorkers, UnusedHostsUnlinkedWorkers, LinkHostWorkers DEF Next, Reconcile

LEMMA InitWorkers ==
  ASSUME Init
  PROVE  WorkersInv
<1>1. rec.pc = "idle" /\ rec.cfg = denyAll /\ rec.cfg.worker = None
  BY DEF Init, idle, denyAll
<1>2. \A w \in Workers : worker[w] = "none"
  BY DEF Init
<1>3. Empty
  BY DEF Init, IndexInit, Empty
<1>4. \A h \in Hosts : linkAt(tree, h) = None
  BY <1>3, InitInv, EmptyHasNoLinks DEF ReconcilerInv, linkAt, Linked
<1>5. ConfigInv
  BY <1>1 DEF ConfigInv
<1> QED
  BY <1>2, <1>4, <1>5 DEF WorkersInv, RunningInv, SharedInv, OwnerInv, HeldInv

LEMMA WorkersInvariance ==
  ASSUME NoEmptyLabels
  PROVE  Spec => []WorkersInv
<1>1. Init => WorkersInv
  BY InitWorkers
<1>2. ReconcilerInv /\ ReportsInv /\ WorkersInv /\ [Next]_vars => WorkersInv'
  BY NextWorkers DEF ReportsInv
<1> QED
  BY <1>1, <1>2, ReportsInvariance, PTL DEF Spec

(***************************************************************************)
(* A worker that runs belongs to a config that is linked to a host or is   *)
(* being linked, or it is one of those that went astray: started by a      *)
(* translation that then failed, of a config that got no host, or of a     *)
(* resource whose first key led to no config or to that of another one     *)
(* (cleanConfigs, Reconcile).                                              *)
(***************************************************************************)
THEOREM WorkersNotLeaked ==
  ASSUME NoEmptyLabels
  PROVE  Spec => []NoLeakedWorker
<1>1. WorkersInv => NoLeakedWorker
  BY LinkIsHeld DEF WorkersInv, HeldInv, NoLeakedWorker
<1> QED
  BY <1>1, WorkersInvariance, PTL

(***************************************************************************)
(* A worker that cleanConfigs stops is running, unless its resource was    *)
(* cleaned by a reconciliation that failed, or by that of another          *)
(* resource, and not linked anew since: stopping it again would close its  *)
(* channel again and panic (cleanConfigs, worker.Stop).                    *)
(***************************************************************************)
THEOREM WorkersStoppedOnce ==
  ASSUME NoEmptyLabels
  PROVE  Spec => []StoppedOnce
<1>1. ASSUME ReconcilerInv, WorkersInv PROVE StoppedOnce
  <2> SUFFICES ASSUME rec.pc = "clean", cleanedConfig(rec.id) # None,
                      cleanedConfig(rec.id).cfg.worker # None
               PROVE  \/ worker[cleanedConfig(rec.id).cfg.worker] = "running"
                      \/ cleanedConfig(rec.id).id \in unclean
    BY DEF StoppedOnce
  <2>1. rec.id \in Ids
    BY <1>1 DEF ReconcilerInv, TypeOK, RecTypeOK
  <2>2. PICK g \in Hosts : linkAt(tree, g) # None /\ linkAt(tree, g) = cleanedConfig(rec.id)
    BY <1>1, <2>1, CleanedIsLink
  <2> QED
    BY <1>1, <2>2 DEF WorkersInv, RunningInv, Cleaned, workerAt
<1> QED
  BY <1>1, WorkersInvariance, ReconcilerInvariance, PTL

(***************************************************************************)
(* The hosts linked to a resource that is about to be cleaned hold one and *)
(* the same config, which is why cleaning that of one of them is enough    *)
(* (cleanConfigs).                                                         *)
(***************************************************************************)
THEOREM ConfigsShared ==
  ASSUME NoEmptyLabels
  PROVE  Spec => []OneConfigToClean
<1>1. WorkersInv => OneConfigToClean
  BY DEF WorkersInv, SharedInv, OneConfigToClean, Cleaned, LinkedTo
<1> QED
  BY <1>1, WorkersInvariance, PTL
=============================================================================
