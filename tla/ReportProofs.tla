---------------------------- MODULE ReportProofs ----------------------------
(***************************************************************************)
(* What the controller reports about a resource it is done with is true of *)
(* the index, for any hosts, resources and specs.  A resource that changes *)
(* is queued, one that is reconciled is worked on as it was read, and only *)
(* its own links are touched meanwhile: so what the report says when the   *)
(* reconciliation ends stays true until the resource is queued again.      *)
(***************************************************************************)
EXTENDS ReconcilerProofs

Distinct(s) == \A i, j \in DOMAIN s : s[i] = s[j] => i = j

(***************************************************************************)
(* A spec names each of its hosts once.  A host that is named again may be *)
(* linked the second time if subsets may be superseded, and the report     *)
(* would still have it as not linked.                                      *)
(***************************************************************************)
NoRepeatedHosts == \A s \in AllSpecs : Distinct(s.hosts)

Busy(id) == rec.pc # "idle" /\ rec.id = id

Done(id) == id \notin queue /\ ~Busy(id)

(***************************************************************************)
(* What is known of the locals of Reconcile at its steps.                  *)
(***************************************************************************)
StageInv ==
  /\ rec.pc = "delete" => rec.spec = None
  /\ rec.pc \in {"idle", "clean", "delete", "translate", "unlink"} =>
       rec.linked = {} /\ rec.loose = {}
  /\ rec.pc \in {"unlink", "link"} => rec.cfg.spec = rec.spec
  /\ rec.pc = "link" => rec.target = rec.id

(***************************************************************************)
(* The resource is as it was read, or it is queued.                        *)
(***************************************************************************)
SpecRead == {"clean", "delete", "translate", "unlink", "link"}

ReadInv ==
  rec.pc \in SpecRead /\ rec.id \notin queue =>
    rec.spec = IF Watched(rec.id) THEN resource[rec.id] ELSE None

(***************************************************************************)
(* The index and the report of a resource that the controller is done with.*)
(***************************************************************************)
Truthful(id) ==
  LET r == report[id]
  IN  /\ ~Watched(id) => LinkedTo(id) = {} /\ r = None
      /\ Watched(id) =>
           /\ r # None
           /\ r.reason \in {"HostsNotLinked", "Reconciled"}
           /\ LinkedTo(id) = r.linked
           /\ \A h \in LinkedTo(id) : linkAt(tree, h).cfg.spec = resource[id]
           /\ r.reason = "Reconciled" => LinkedTo(id) = ToSet(resource[id].hosts)
           /\ r.reason = "HostsNotLinked" /\ NoRepeatedHosts =>
                \E h \in ToSet(resource[id].hosts) : h \notin LinkedTo(id)

TruthInv == \A id \in Ids : Done(id) => Truthful(id)

(***************************************************************************)
(* The bootstrap only links resources that are still to be reconciled.  It *)
(* needs an empty index, and a resource that is done and has hosts either  *)
(* is linked or found a host taken: then the index is not empty.           *)
(***************************************************************************)
BootInv ==
  rec.pc = "bootstrap" =>
    /\ \A item \in rec.boot : item.hosts # <<>> => item.id \in queue \cup {rec.id}
    /\ rec.todo # <<>> => rec.target \in queue \cup {rec.id}

TakenInv ==
  Empty =>
    /\ rec.loose = {}
    /\ \A id \in Ids : report[id] # None => report[id].reason # "HostsNotLinked"

(***************************************************************************)
(* The links of the resource while its hosts are unlinked and linked.      *)
(***************************************************************************)
UnlinkInv == rec.pc = "unlink" => LinkedTo(rec.id) \subseteq rec.unused \cup ToSet(rec.spec.hosts)

LinkInv ==
  rec.pc = "link" =>
    /\ rec.linked \subseteq LinkedTo(rec.id)
    /\ LinkedTo(rec.id) \subseteq rec.linked \cup ToSet(rec.todo)
    /\ \A h \in rec.linked : linkAt(tree, h).cfg.spec = rec.spec
    /\ ToSet(rec.spec.hosts) = rec.linked \cup rec.loose \cup ToSet(rec.todo)
    /\ NoRepeatedHosts =>
         /\ Distinct(rec.todo)
         /\ (rec.linked \cup rec.loose) \cap ToSet(rec.todo) = {}
         /\ rec.linked \cap rec.loose = {}

LocalsInv == StageInv /\ UnlinkInv /\ LinkInv

ReportsInv == LocalsInv /\ ReadInv /\ TruthInv /\ BootInv /\ TakenInv

----------------------------------------------------------------------------
(***************************************************************************)
(* The elements of a sequence, of its head and of its tail.                *)
(***************************************************************************)
LEMMA EmptyToSet == ToSet(<<>>) = {} /\ Distinct(<<>>)
BY DEF ToSet, Distinct

LEMMA NonEmptyToSet ==
  ASSUME NEW S, NEW s \in Seq(S), s # <<>>
  PROVE  ToSet(s) # {}
<1>1. 1 \in DOMAIN s
  OBVIOUS
<1> QED
  BY <1>1 DEF ToSet

LEMMA HeadAndTail ==
  ASSUME NEW S, NEW s \in Seq(S), s # <<>>
  PROVE  /\ Head(s) \in S /\ Tail(s) \in Seq(S)
         /\ ToSet(s) = {Head(s)} \cup ToSet(Tail(s))
         /\ Distinct(s) => Distinct(Tail(s)) /\ Head(s) \notin ToSet(Tail(s))
<1>1. /\ Head(s) \in S /\ Tail(s) \in Seq(S) /\ Head(s) = s[1]
      /\ Len(s) \in Nat /\ Len(s) >= 1 /\ DOMAIN s = 1..Len(s)
      /\ DOMAIN Tail(s) = 1..(Len(s) - 1)
      /\ \A i \in 1..(Len(s) - 1) : Tail(s)[i] = s[i + 1]
  OBVIOUS
<1>2. ASSUME NEW i \in DOMAIN s PROVE s[i] = Head(s) \/ s[i] \in ToSet(Tail(s))
  <2>1. CASE i = 1
    BY <1>1, <2>1
  <2>2. CASE i # 1
    <3>1. i - 1 \in DOMAIN Tail(s) /\ Tail(s)[i - 1] = s[i]
      BY <1>1, <2>2
    <3> QED
      BY <3>1 DEF ToSet
  <2> QED
    BY <2>1, <2>2
<1>3. \A i \in DOMAIN Tail(s) : i + 1 \in DOMAIN s /\ Tail(s)[i] = s[i + 1]
  BY <1>1
<1>4. ToSet(s) = {Head(s)} \cup ToSet(Tail(s))
  <2>1. \A x \in ToSet(s) : x \in {Head(s)} \cup ToSet(Tail(s))
    BY <1>2 DEF ToSet
  <2>2. \A x \in ToSet(Tail(s)) : x \in ToSet(s)
    BY <1>3 DEF ToSet
  <2>3. Head(s) \in ToSet(s)
    BY <1>1 DEF ToSet
  <2> QED
    BY <2>1, <2>2, <2>3
<1>5. ASSUME Distinct(s) PROVE Distinct(Tail(s)) /\ Head(s) \notin ToSet(Tail(s))
  <2>1. ASSUME NEW i \in DOMAIN Tail(s), NEW j \in DOMAIN Tail(s), Tail(s)[i] = Tail(s)[j]
        PROVE  i = j
    <3>1. i + 1 = j + 1
      BY <1>3, <1>5, <2>1 DEF Distinct
    <3>2. i \in Nat /\ j \in Nat
      BY <1>1
    <3> QED
      BY <3>1, <3>2
  <2>2. ASSUME NEW i \in DOMAIN Tail(s), Tail(s)[i] = Head(s) PROVE FALSE
    <3>1. i + 1 = 1
      BY <1>1, <1>3, <1>5, <2>2 DEF Distinct
    <3> QED
      BY <1>1, <3>1
  <2> QED
    BY <2>1, <2>2 DEF Distinct, ToSet
<1> QED
  BY <1>1, <1>4, <1>5

----------------------------------------------------------------------------
(***************************************************************************)
(* What the operations of the index do to the links of the resources.      *)
(***************************************************************************)
LEMMA LinkedIsEntry ==
  ASSUME IndexInv, NEW h \in Hosts, linkAt(tree, h) # None
  PROVE  linkAt(tree, h).id \in Ids /\ h \in ToSet(keys[linkAt(tree, h).id])
<1> DEFINE owner == linkAt(tree, h).id
<1>1. revertKey(h) \in DOMAIN tree /\ tree[revertKey(h)] # None /\ owner = tree[revertKey(h)].id
  BY DEF linkAt
<1>2. owner \in Ids /\ keys[owner] \in Seq(Hosts)
  BY <1>1 DEF IndexInv, IndexTypeOK, indexEntry
<1>3. PICK i \in DOMAIN keys[owner] : revertKey(keys[owner][i]) = revertKey(h)
  BY <1>1 DEF IndexInv, EntriesHaveKeys
<1> HIDE DEF owner
<1>4. keys[owner][i] = h
  BY <1>2, <1>3, RevertKeyInjective
<1> QED
  BY <1>2, <1>3, <1>4 DEF ToSet, owner

LEMMA SetLinks ==
  ASSUME NoEmptyLabels, IndexInv,
         NEW id \in Ids, NEW key \in Hosts, NEW cfg \in Configs, Set(id, key, cfg, TRUE)
  PROVE  /\ linkAt(tree', key) = [id |-> id, cfg |-> cfg] /\ linkAt(tree', key) # None
         /\ \A h \in Hosts : h # key => linkAt(tree', h) = linkAt(tree, h)
         /\ ~Empty'
<1>1. HM!Link(id, key, cfg)
  BY SetRefines, Zenon
<1>2. \A h \in Hosts : linkAt(tree', h) = IF h = key THEN [id |-> id, cfg |-> cfg] ELSE linkAt(tree, h)
  BY <1>1, Zenon DEF HM!Link, LinkOf, linkAt
<1>3. [id |-> id, cfg |-> cfg] # None
  BY NoneIsNoEntry
<1>4. keys'[id] # <<>>
  <2>1. keys'[id] = recordKey(keys[id], key) /\ keys[id] \in Seq(Hosts)
    BY DEF Set, IndexInv, IndexTypeOK
  <2>2. CASE Contains(keys[id], key)
    <3>1. keys[id] # <<>>
      BY <2>2 DEF Contains
    <3> QED
      BY <2>1, <2>2, <3>1 DEF recordKey
  <2>3. CASE ~Contains(keys[id], key)
    <3>1. Append(keys[id], key) # <<>>
      BY <2>1
    <3> QED
      BY <2>1, <2>3, <3>1 DEF recordKey
  <2> QED
    BY <2>2, <2>3
<1> QED
  BY <1>2, <1>3, <1>4 DEF Empty

LEMMA DeleteLinks ==
  ASSUME IndexInv, NEW id \in Ids, Delete(id), NEW h \in Hosts
  PROVE  linkAt(tree', h) = IF h \in LinkedTo(id) THEN None ELSE linkAt(tree, h)
<1>1. HM!UnlinkAll(id)
  BY DeleteRefines
<1> QED
  BY <1>1 DEF HM!UnlinkAll, HM!OwnedBy, LinkOf, LinkedTo

LEMMA DeleteKeyLinks ==
  ASSUME IndexInv, NEW id \in Ids, NEW key \in ToSet(keys[id]), DeleteKey(id, key), NEW h \in Hosts
  PROVE  linkAt(tree', h) = IF h \in LinkedTo(id) /\ h = key THEN None ELSE linkAt(tree, h)
<1>1. HM!Unlink(id, key)
  BY DeleteKeyRefines
<1> QED
  BY <1>1 DEF HM!Unlink, HM!OwnedBy, LinkOf, LinkedTo

(***************************************************************************)
(* An index that is empty has no links, and no host is taken in it.        *)
(***************************************************************************)
LEMMA EmptyHasNoLinks ==
  ASSUME IndexInv, Empty
  PROVE  Linked = {}
<1> SUFFICES ASSUME NEW p \in Linked PROVE FALSE
  OBVIOUS
<1>1. p \in DOMAIN tree /\ tree[p] # None /\ tree[p].id \in Ids
  BY DEF Linked, IndexInv, IndexTypeOK, indexEntry
<1>2. PICK i \in DOMAIN keys[tree[p].id] : TRUE
  BY <1>1 DEF IndexInv, EntriesHaveKeys
<1> QED
  BY <1>1, <1>2 DEF Empty

LEMMA TakenIsNotEmpty ==
  ASSUME NoEmptyLabels, IndexInv, NEW h \in Hosts, NEW id \in Ids, hostTaken(h, id)
  PROVE  ~Empty
<1> SUFFICES ASSUME Empty PROVE FALSE
  OBVIOUS
<1>1. Get(h) = ClosestMatch(revertKey(h))
  BY InvGetFindsClosestMatch DEF GetFindsClosestMatch
<1>2. Get(h) = None
  BY <1>1, EmptyHasNoLinks DEF ClosestMatch
<1> QED
  BY <1>2 DEF hostTaken

(***************************************************************************)
(* One turn of the loop of addToIndex: the host is taken by another        *)
(* resource, or it becomes a link of the target.  The links of the other   *)
(* resources stay.                                                         *)
(***************************************************************************)
LEMMA AddToIndexLinks ==
  ASSUME NoEmptyLabels, ReconcilerInv, addToIndex
  PROVE  LET host == Head(rec.todo)
         IN  /\ rec.todo \in Seq(Hosts) /\ rec.todo # <<>> /\ rec.target \in Ids
             /\ rec'.todo = Tail(rec.todo)
             /\ rec'.pc = rec.pc /\ rec'.id = rec.id /\ rec'.spec = rec.spec
             /\ rec'.boot = rec.boot /\ rec'.cfg = rec.cfg /\ rec'.target = rec.target
             /\ ~Empty'
             /\ \A j \in Ids : j # rec.target =>
                  /\ LinkedTo(j)' = LinkedTo(j)
                  /\ \A h \in LinkedTo(j) : linkAt(tree', h) = linkAt(tree, h)
             /\ \/ /\ rec'.loose = rec.loose \cup {host} /\ rec'.linked = rec.linked
                   /\ host \notin LinkedTo(rec.target)
                   /\ UNCHANGED tree
                \/ /\ rec'.linked = rec.linked \cup {host} /\ rec'.loose = rec.loose
                   /\ LinkedTo(rec.target)' = LinkedTo(rec.target) \cup {host}
                   /\ linkAt(tree', host).cfg = rec.cfg
                   /\ \A h \in Hosts : h # host => linkAt(tree', h) = linkAt(tree, h)
<1> DEFINE host == Head(rec.todo)
<1>1. /\ rec \in Recs /\ rec.todo \in Seq(Hosts) /\ rec.todo # <<>> /\ rec.target \in Ids
      /\ host \in Hosts /\ rec.cfg \in Configs /\ IndexInv
  BY AddToIndexStep, Zenon DEF addToIndex, ReconcilerInv, TypeOK, RecTypeOK, Recs
<1>2. CASE /\ hostTaken(host, rec.target) /\ UNCHANGED indexVars
           /\ rec' = [[rec EXCEPT !.todo = Tail(@)] EXCEPT !.loose = @ \cup {host}]
  <2>1. /\ rec'.todo = Tail(rec.todo) /\ rec'.loose = rec.loose \cup {host}
        /\ rec'.linked = rec.linked
        /\ rec'.pc = rec.pc /\ rec'.id = rec.id /\ rec'.spec = rec.spec
        /\ rec'.boot = rec.boot /\ rec'.cfg = rec.cfg /\ rec'.target = rec.target
    BY <1>1, <1>2 DEF Recs
  <2>2. UNCHANGED <<tree, keys>>
    BY <1>2 DEF indexVars
  <2>3. ~Empty'
    BY <1>1, <1>2, <2>2, TakenIsNotEmpty DEF Empty
  <2>4. host \notin LinkedTo(rec.target)
    BY <1>1, <1>2, GetExact DEF LinkedTo, hostTaken
  <2>5. \A j \in Ids : LinkedTo(j)' = LinkedTo(j)
    BY <2>2 DEF LinkedTo
  <2> QED
    BY <1>1, <2>1, <2>2, <2>3, <2>4, <2>5
<1>3. CASE /\ ~hostTaken(host, rec.target) /\ Set(rec.target, host, rec.cfg, TRUE)
           /\ rec' = [[rec EXCEPT !.todo = Tail(@)] EXCEPT !.linked = @ \cup {host}]
  <2>1. /\ rec'.todo = Tail(rec.todo) /\ rec'.loose = rec.loose
        /\ rec'.linked = rec.linked \cup {host}
        /\ rec'.pc = rec.pc /\ rec'.id = rec.id /\ rec'.spec = rec.spec
        /\ rec'.boot = rec.boot /\ rec'.cfg = rec.cfg /\ rec'.target = rec.target
    BY <1>1, <1>3 DEF Recs
  <2>2. /\ linkAt(tree', host) = [id |-> rec.target, cfg |-> rec.cfg] /\ linkAt(tree', host) # None
        /\ \A h \in Hosts : h # host => linkAt(tree', h) = linkAt(tree, h)
        /\ ~Empty'
    BY <1>1, <1>3, SetLinks, Zenon
  <2>3. linkAt(tree, host) # None => linkAt(tree, host).id = rec.target
    BY <1>1, <1>3, NotTakenIsOwn
  <2> HIDE DEF host
  <2>4. LinkedTo(rec.target)' = LinkedTo(rec.target) \cup {host}
    BY <1>1, <2>1, <2>2 DEF LinkedTo
  <2>5. \A j \in Ids : j # rec.target =>
          /\ LinkedTo(j)' = LinkedTo(j)
          /\ \A h \in LinkedTo(j) : linkAt(tree', h) = linkAt(tree, h)
    BY <1>1, <2>2, <2>3 DEF LinkedTo
  <2> QED
    BY <1>1, <2>1, <2>2, <2>4, <2>5 DEF host
<1> QED
  BY <1>2, <1>3, Zenon DEF addToIndex

----------------------------------------------------------------------------
(***************************************************************************)
(* What is true of a resource stays so as long as its links, its report    *)
(* and the resource do.                                                    *)
(***************************************************************************)
LEMMA StillTruthful ==
  ASSUME NEW id \in Ids, Truthful(id), report'[id] = report[id],
         resource'[id] = resource[id] \/ (~Watched(id) /\ ~Watched(id)'),
         LinkedTo(id)' = LinkedTo(id),
         \A h \in LinkedTo(id) : linkAt(tree', h) = linkAt(tree, h)
  PROVE  Truthful(id)'
<1>1. CASE resource'[id] = resource[id]
  <2>1. Watched(id)' <=> Watched(id)
    BY <1>1 DEF Watched
  <2> QED
    BY <1>1, <2>1 DEF Truthful
<1>2. CASE ~Watched(id) /\ ~Watched(id)'
  BY <1>2 DEF Truthful
<1> QED
  BY <1>1, <1>2

LEMMA SameLinks ==
  ASSUME UNCHANGED tree
  PROVE  \A id \in Ids : /\ LinkedTo(id)' = LinkedTo(id)
                         /\ \A h \in LinkedTo(id) : linkAt(tree', h) = linkAt(tree, h)
BY DEF LinkedTo

LEMMA SameLocals ==
  ASSUME LocalsInv, UNCHANGED <<tree, rec>>
  PROVE  LocalsInv'
BY DEF LocalsInv, StageInv, UnlinkInv, LinkInv, LinkedTo

(***************************************************************************)
(* The cluster: a resource that changes is queued, unless it was not       *)
(* watched and is not.                                                     *)
(***************************************************************************)
LEMMA EventReports ==
  ASSUME ReportsInv, UNCHANGED <<tree, keys, rec, report>>, queue \subseteq queue',
         \A id \in Ids : \/ resource'[id] = resource[id]
                         \/ id \in queue'
                         \/ ~Watched(id) /\ ~Watched(id)',
         rec.pc # "idle" => rec.id \in Ids
  PROVE  ReportsInv'
<1> USE DEF ReportsInv
<1>1. LocalsInv'
  BY SameLocals
<1>2. ReadInv'
  BY DEF ReadInv, SpecRead, Watched
<1>3. TruthInv'
  BY SameLinks, StillTruthful DEF TruthInv, Done, Busy
<1>4. BootInv' /\ TakenInv'
  BY DEF BootInv, TakenInv, Empty
<1> QED
  BY <1>1, <1>2, <1>3, <1>4

LEMMA EnvironmentReports ==
  ASSUME ReconcilerInv, ReportsInv, Environment
  PROVE  ReportsInv'
<1> PICK id \in Ids : \/ \E spec \in SpecsOf[id] : Apply(id, spec)
                      \/ DeleteResource(id)
                      \/ UpdateStatus(id)
                      \/ Resync(id)
  BY DEF Environment
<1>1. /\ resource \in [Ids -> AllSpecs \cup {None}]
      /\ rec.pc # "idle" => rec.id \in Ids
  BY DEF ReconcilerInv, TypeOK, ControllerTypeOK, RecTypeOK
<1>2. UNCHANGED <<tree, keys, rec, report>> /\ queue \subseteq queue'
  BY DEF Apply, DeleteResource, UpdateStatus, Resync, enqueueIf
<1>3. ASSUME NEW spec \in SpecsOf[id], Apply(id, spec)
      PROVE  \A j \in Ids : \/ resource'[j] = resource[j] \/ j \in queue'
                            \/ ~Watched(j) /\ ~Watched(j)'
  BY <1>1, <1>3 DEF Apply, enqueueIf, Watched
<1>4. ASSUME DeleteResource(id)
      PROVE  \A j \in Ids : \/ resource'[j] = resource[j] \/ j \in queue'
                            \/ ~Watched(j) /\ ~Watched(j)'
  BY <1>1, <1>4 DEF DeleteResource, enqueueIf, Watched
<1>5. UpdateStatus(id) \/ Resync(id) => UNCHANGED resource
  BY Zenon DEF UpdateStatus, Resync
<1> QED
  BY <1>1, <1>2, <1>3, <1>4, <1>5, EventReports

LEMMA IdleLocals == rec = idle => LocalsInv
BY DEF idle, LocalsInv, StageInv, UnlinkInv, LinkInv

LEMMA RestartReports ==
  ASSUME restart, ReconcilerInv
  PROVE  ReportsInv'
<1>1. rec' = idle /\ rec'.pc = "idle" /\ rec'.loose = {}
  BY DEF restart, idle
<1>2. LocalsInv'
  BY <1>1 DEF idle, LocalsInv, StageInv, UnlinkInv, LinkInv
<1>3. ReadInv' /\ BootInv'
  BY <1>1 DEF ReadInv, SpecRead, BootInv
<1>4. \A id \in Ids : report'[id] = None
  BY DEF restart
<1>5. TakenInv'
  BY <1>1, <1>4 DEF TakenInv
<1>6. TruthInv'
  <2> SUFFICES ASSUME NEW id \in Ids, id \notin queue' PROVE Truthful(id)'
    BY DEF TruthInv, Done
  <2>1. ~Watched(id)'
    BY DEF restart, clusterVars, Watched
  <2>2. LinkedTo(id)' = {}
    BY RestartUnlinks DEF LinkedTo
  <2> QED
    BY <1>4, <2>1, <2>2 DEF Truthful
<1> QED
  BY <1>2, <1>3, <1>5, <1>6 DEF ReportsInv

LEMMA BeginReports ==
  ASSUME ReconcilerInv, ReportsInv, NEW id \in Ids, Begin(id)
  PROVE  ReportsInv'
<1> USE DEF ReportsInv
<1>1. /\ rec.pc = "idle" /\ queue' = queue \ {id}
      /\ UNCHANGED <<tree, keys, resource, report>>
  BY DEF Begin, clusterVars
<1>2. PICK boot \in (IF Empty THEN {bootstrapItems} ELSE {{}}) \cup (IF ApiErrors THEN {{}} ELSE {}) :
        rec' = [idle EXCEPT !.pc = "bootstrap", !.id = id, !.boot = boot]
  BY Zenon DEF Begin
<1>3. /\ rec'.pc = "bootstrap" /\ rec'.id = id /\ rec'.boot = boot
      /\ rec'.todo = <<>> /\ rec'.loose = {}
  BY <1>2 DEF idle
<1>4. LocalsInv' /\ ReadInv'
  BY <1>3 DEF LocalsInv, StageInv, UnlinkInv, LinkInv, ReadInv, SpecRead
<1>5. TruthInv'
  BY <1>1, <1>3, SameLinks, StillTruthful DEF TruthInv, Done, Busy
<1>6. TakenInv'
  BY <1>1, <1>3 DEF TakenInv, Empty
<1>7. BootInv'
  <2> SUFFICES ASSUME NEW item \in boot, item.hosts # <<>>, item.id \notin queue \cup {id}
               PROVE  FALSE
    BY <1>1, <1>3 DEF BootInv
  <2>1. Empty /\ item \in bootstrapItems
    OBVIOUS
  <2>2. PICK i \in ready : Watched(i) /\ item.id = i /\ item.hosts = resource[i].hosts
    BY <2>1 DEF bootstrapItems
  <2>3. i \in Ids /\ resource[i] \in AllSpecs
    BY <2>2 DEF ReconcilerInv, TypeOK, ControllerTypeOK, Watched
  <2>4. ToSet(resource[i].hosts) # {}
    BY <2>2, <2>3, SpecFields, NonEmptyToSet
  <2>5. Truthful(i)
    BY <1>1, <2>2, <2>3 DEF TruthInv, Done, Busy
  <2>6. LinkedTo(i) = {}
    BY <2>1, EmptyHasNoLinks DEF ReconcilerInv, LinkedTo, linkAt, Linked
  <2>7. report[i] # None /\ report[i].reason = "HostsNotLinked"
    BY <2>2, <2>4, <2>5, <2>6 DEF Truthful
  <2> QED
    BY <2>1, <2>3, <2>7 DEF TakenInv
<1> QED
  BY <1>4, <1>5, <1>6, <1>7

LEMMA BootstrapResourceReports ==
  ASSUME ReconcilerInv, ReportsInv, BootstrapResource
  PROVE  ReportsInv'
<1> USE DEF ReportsInv
<1>1. /\ rec.pc = "bootstrap" /\ rec \in Recs
      /\ UNCHANGED <<tree, keys, resource, queue, report>>
  BY DEF BootstrapResource, clusterVars, ReconcilerInv, TypeOK, RecTypeOK
<1>2. PICK item \in rec.boot :
        /\ \A other \in rec.boot : other.id \notin item.after
        /\ rec' = [rec EXCEPT !.boot = @ \ {item}, !.target = item.id, !.todo = item.hosts]
  BY Zenon DEF BootstrapResource
<1>3. /\ rec'.pc = rec.pc /\ rec'.id = rec.id /\ rec'.loose = rec.loose
      /\ rec'.boot \subseteq rec.boot /\ rec'.target = item.id /\ rec'.todo = item.hosts
  BY <1>1, <1>2 DEF Recs
<1>4. LocalsInv' /\ ReadInv'
  BY <1>1, <1>3 DEF LocalsInv, StageInv, UnlinkInv, LinkInv, ReadInv, SpecRead
<1>5. TruthInv'
  BY <1>1, <1>3, SameLinks, StillTruthful DEF TruthInv, Done, Busy
<1>6. TakenInv'
  BY <1>1, <1>3 DEF TakenInv, Empty
<1>7. BootInv'
  BY <1>1, <1>2, <1>3 DEF BootInv
<1> QED
  BY <1>4, <1>5, <1>6, <1>7

(***************************************************************************)
(* A turn of addToIndex only concerns a resource that is not done.         *)
(***************************************************************************)
LEMMA AddToIndexTruth ==
  ASSUME NoEmptyLabels, ReconcilerInv, ReportsInv, addToIndex,
         UNCHANGED <<resource, queue, report>>,
         rec.pc # "idle", rec.target \in queue \cup {rec.id}
  PROVE  TruthInv' /\ TakenInv'
<1>1. /\ rec'.pc = rec.pc /\ rec'.id = rec.id /\ ~Empty'
      /\ \A j \in Ids : j # rec.target =>
           /\ LinkedTo(j)' = LinkedTo(j)
           /\ \A h \in LinkedTo(j) : linkAt(tree', h) = linkAt(tree, h)
  BY AddToIndexLinks
<1>2. TakenInv'
  BY <1>1 DEF TakenInv
<1>3. ASSUME NEW id \in Ids, Done(id)' PROVE Truthful(id)'
  <2>1. Done(id) /\ id # rec.target
    BY <1>1, <1>3 DEF Done, Busy
  <2> QED
    BY <1>1, <2>1, StillTruthful DEF ReportsInv, TruthInv
<1> QED
  BY <1>2, <1>3 DEF TruthInv

LEMMA BootstrapHostReports ==
  ASSUME NoEmptyLabels, ReconcilerInv, ReportsInv, BootstrapHost
  PROVE  ReportsInv'
<1> USE DEF ReportsInv
<1>1. /\ rec.pc = "bootstrap" /\ addToIndex
      /\ UNCHANGED <<resource, queue, report>>
  BY DEF BootstrapHost, clusterVars
<1>2. /\ rec.todo # <<>>
      /\ rec'.pc = rec.pc /\ rec'.id = rec.id /\ rec'.boot = rec.boot /\ rec'.target = rec.target
  BY <1>1, AddToIndexLinks
<1>3. LocalsInv' /\ ReadInv'
  BY <1>1, <1>2 DEF LocalsInv, StageInv, UnlinkInv, LinkInv, ReadInv, SpecRead
<1>4. TruthInv' /\ TakenInv'
  BY <1>1, <1>2, AddToIndexTruth DEF BootInv
<1>5. BootInv'
  BY <1>1, <1>2 DEF BootInv
<1> QED
  BY <1>3, <1>4, <1>5

LEMMA GetResourceReports ==
  ASSUME ReconcilerInv, ReportsInv, GetResource
  PROVE  ReportsInv'
<1> USE DEF ReportsInv
<1>1. /\ rec.pc = "bootstrap" /\ rec.id \in Ids
      /\ UNCHANGED <<tree, keys, resource>>
      /\ report' = [report EXCEPT ![rec.id] = [reason |-> "Reconciling", linked |-> {}]]
      /\ report \in [Ids -> Reports \cup {None}]
  BY DEF GetResource, clusterVars, ReconcilerInv, TypeOK, RecTypeOK, ControllerTypeOK
<1>2. \/ /\ rec' = [idle EXCEPT !.pc = "clean", !.id = rec.id,
                                !.spec = IF Watched(rec.id) THEN resource[rec.id] ELSE None]
         /\ UNCHANGED queue
      \/ rec' = idle /\ queue' = queue \cup {rec.id}
  BY DEF GetResource
<1>3. /\ rec'.linked = {} /\ rec'.loose = {}
      /\ \/ /\ rec'.pc = "clean" /\ rec'.id = rec.id /\ UNCHANGED queue
            /\ rec'.spec = IF Watched(rec.id) THEN resource[rec.id] ELSE None
         \/ rec'.pc = "idle" /\ queue' = queue \cup {rec.id}
  <2> DEFINE read == IF Watched(rec.id) THEN resource[rec.id] ELSE None
  <2> HIDE DEF read
  <2>1. CASE /\ rec' = [idle EXCEPT !.pc = "clean", !.id = rec.id, !.spec = read]
             /\ UNCHANGED queue
    <3>1. /\ rec'.linked = {} /\ rec'.loose = {}
          /\ rec'.pc = "clean" /\ rec'.id = rec.id /\ rec'.spec = read
      BY <2>1 DEF idle
    <3> QED
      BY <2>1, <3>1 DEF read
  <2>2. CASE rec' = idle /\ queue' = queue \cup {rec.id}
    BY <2>2 DEF idle
  <2> QED
    BY <1>2, <2>1, <2>2 DEF read
<1>4. LocalsInv' /\ BootInv'
  BY <1>3 DEF LocalsInv, StageInv, UnlinkInv, LinkInv, BootInv
<1>5. ReadInv'
  BY <1>1, <1>3 DEF ReadInv, SpecRead, Watched
<1>6. TakenInv'
  BY <1>1, <1>3 DEF TakenInv, Empty
<1>7. ASSUME NEW id \in Ids, Done(id)' PROVE Truthful(id)'
  <2>1. id # rec.id /\ Done(id)
    BY <1>1, <1>3, <1>7 DEF Done, Busy
  <2>2. report'[id] = report[id]
    BY <1>1, <2>1
  <2> QED
    BY <1>1, <2>1, <2>2, SameLinks, StillTruthful DEF TruthInv
<1> QED
  BY <1>4, <1>5, <1>6, <1>7 DEF TruthInv

LEMMA CleanConfigsReports ==
  ASSUME ReconcilerInv, ReportsInv, CleanConfigs
  PROVE  ReportsInv'
<1> USE DEF ReportsInv
<1>1. CASE restart
  BY <1>1, RestartReports
<1>2. CASE /\ rec' = [rec EXCEPT !.pc = IF rec.spec = None THEN "delete" ELSE "translate"]
           /\ UNCHANGED <<tree, keys, resource, queue, report>>
  <2>1. rec \in Recs /\ rec.pc = "clean"
    BY DEF CleanConfigs, ReconcilerInv, TypeOK, RecTypeOK
  <2>2. /\ rec'.pc \in {"delete", "translate"} /\ rec'.id = rec.id /\ rec'.spec = rec.spec
        /\ rec'.linked = rec.linked /\ rec'.loose = rec.loose
        /\ rec'.pc = "delete" => rec.spec = None
    BY <1>2, <2>1 DEF Recs
  <2>3. LocalsInv' /\ BootInv'
    BY <2>1, <2>2 DEF LocalsInv, StageInv, UnlinkInv, LinkInv, BootInv
  <2>4. ReadInv'
    BY <1>2, <2>1, <2>2 DEF ReadInv, SpecRead, Watched
  <2>5. TruthInv'
    BY <1>2, <2>1, <2>2, SameLinks, StillTruthful DEF TruthInv, Done, Busy
  <2>6. TakenInv'
    BY <1>2, <2>2 DEF TakenInv, Empty
  <2> QED
    BY <2>3, <2>4, <2>5, <2>6
<1> QED
  BY <1>1, <1>2 DEF CleanConfigs, clusterVars

(***************************************************************************)
(* The end of a reconciliation: the links of the other resources and their *)
(* reports stay.                                                           *)
(***************************************************************************)
LEMMA EndReports ==
  ASSUME ReconcilerInv, ReportsInv, NEW done \in Ids, rec.id = done,
         rec.pc # "idle", rec' = idle, UNCHANGED <<keys, resource>>, queue \subseteq queue',
         NEW r \in Reports \cup {None}, report' = [report EXCEPT ![done] = r],
         r # None /\ r.reason = "HostsNotLinked" => ~Empty,
         \A j \in Ids : j # done =>
           /\ LinkedTo(j)' = LinkedTo(j)
           /\ \A h \in LinkedTo(j) : linkAt(tree', h) = linkAt(tree, h),
         done \in queue' \/ Truthful(done)'
  PROVE  ReportsInv'
<1>1. rec'.pc = "idle" /\ rec'.loose = {} /\ rec'.linked = {}
  BY DEF idle
<1>2. report \in [Ids -> Reports \cup {None}]
  BY DEF ReconcilerInv, TypeOK, ControllerTypeOK
<1>3. LocalsInv' /\ ReadInv' /\ BootInv'
  BY <1>1 DEF LocalsInv, StageInv, UnlinkInv, LinkInv, ReadInv, SpecRead, BootInv
<1>4. TakenInv'
  BY <1>1, <1>2 DEF ReportsInv, TakenInv, Empty
<1>5. ASSUME NEW id \in Ids, Done(id)' PROVE Truthful(id)'
  <2>1. CASE id = done
    BY <1>5, <2>1 DEF Done
  <2>2. CASE id # done
    <3>1. Done(id) /\ report'[id] = report[id]
      BY <1>2, <1>5, <2>2 DEF Done, Busy
    <3> QED
      BY <2>2, <3>1, StillTruthful DEF ReportsInv, TruthInv
  <2> QED
    BY <2>1, <2>2
<1> QED
  BY <1>3, <1>4, <1>5 DEF ReportsInv, TruthInv

LEMMA DeleteFromIndexReports ==
  ASSUME ReconcilerInv, ReportsInv, DeleteFromIndex
  PROVE  ReportsInv'
<1>1. /\ rec.pc = "delete" /\ rec.id \in Ids /\ IndexInv
      /\ UNCHANGED <<keys, resource, queue>> /\ rec' = idle
  BY DEF DeleteFromIndex, Delete, clusterVars, ReconcilerInv, TypeOK, RecTypeOK
<1>2. PICK done \in Ids : done = rec.id
  BY <1>1
<1>3. Delete(done) /\ report' = [report EXCEPT ![done] = None]
  BY <1>2 DEF DeleteFromIndex
<1>4. \A h \in Hosts : linkAt(tree', h) = IF h \in LinkedTo(done) THEN None ELSE linkAt(tree, h)
  BY <1>1, <1>3, DeleteLinks
<1>5. \A j \in Ids : j # done =>
        /\ LinkedTo(j)' = LinkedTo(j)
        /\ \A h \in LinkedTo(j) : linkAt(tree', h) = linkAt(tree, h)
  BY <1>4 DEF LinkedTo
<1>6. ASSUME done \notin queue' PROVE Truthful(done)'
  <2>1. ~Watched(done)
    <3>1. resource[done] # None => resource[done] \in AllSpecs
      BY DEF ReconcilerInv, TypeOK, ControllerTypeOK
    <3>2. rec.spec = None /\ rec.spec = IF Watched(done) THEN resource[done] ELSE None
      BY <1>1, <1>2, <1>6 DEF ReportsInv, LocalsInv, StageInv, ReadInv, SpecRead
    <3> QED
      BY <3>1, <3>2, SpecFields DEF Watched
  <2>2. ~Watched(done)'
    BY <1>1, <2>1 DEF Watched
  <2>3. LinkedTo(done)' = {}
    BY <1>4 DEF LinkedTo
  <2>4. report'[done] = None
    BY <1>3 DEF ReconcilerInv, TypeOK, ControllerTypeOK
  <2> QED
    BY <2>2, <2>3, <2>4 DEF Truthful
<1> QED
  BY <1>1, <1>2, <1>3, <1>5, <1>6, EndReports, Zenon

LEMMA TranslateAuthConfigReports ==
  ASSUME ReconcilerInv, ReportsInv, TranslateAuthConfig
  PROVE  ReportsInv'
<1>1. /\ rec \in Recs /\ rec.pc = "translate" /\ rec.id \in Ids /\ rec.spec \in AllSpecs /\ IndexInv
      /\ UNCHANGED <<tree, keys, resource>>
  BY DEF TranslateAuthConfig, clusterVars, ReconcilerInv, TypeOK, RecTypeOK
<1>2. \/ \E w \in Workers \cup {None} : translated([spec |-> rec.spec, worker |-> w])
         /\ UNCHANGED <<queue, report>>
      \/ invalidResource
  BY DEF TranslateAuthConfig, freeWorkers
<1>3. CASE invalidResource
  <2>1. PICK done \in Ids : done = rec.id
    BY <1>1
  <2>2. PICK r \in Reports : r = [reason |-> "Invalid", linked |-> {}]
    BY Zenon DEF Reports, Reasons
  <2>3. /\ report' = [report EXCEPT ![done] = r] /\ r.reason = "Invalid"
        /\ queue' = queue \cup {done} /\ rec' = idle
    BY <1>3, <2>1, <2>2 DEF invalidResource
  <2> QED
    BY <1>1, <2>1, <2>3, SameLinks, EndReports, Zenon
<1>4. CASE \E w \in Workers \cup {None} : translated([spec |-> rec.spec, worker |-> w])
           /\ UNCHANGED <<queue, report>>
  <2> USE DEF ReportsInv
  <2> PICK w \in Workers \cup {None} : translated([spec |-> rec.spec, worker |-> w])
      /\ UNCHANGED <<queue, report>>
    BY <1>4
  <2> DEFINE cfg == [spec |-> rec.spec, worker |-> w]
             unused == ToSet(FindKeys(rec.id)) \ ToSet(rec.spec.hosts)
  <2>1. rec' = [rec EXCEPT !.pc = "unlink", !.cfg = cfg, !.unused = unused]
    BY DEF translated
  <2>2. cfg.spec = rec.spec
    OBVIOUS
  <2>3. LinkedTo(rec.id) \subseteq unused \cup ToSet(rec.spec.hosts)
    BY <1>1, LinkedIsEntry DEF LinkedTo, FindKeys
  <2> HIDE DEF cfg, unused
  <2>4. /\ rec'.pc = "unlink" /\ rec'.cfg = cfg /\ rec'.unused = unused
        /\ rec'.id = rec.id /\ rec'.spec = rec.spec
        /\ rec'.linked = rec.linked /\ rec'.loose = rec.loose
    BY <1>1, <2>1 DEF Recs
  <2>5. StageInv' /\ LinkInv' /\ BootInv'
    BY <1>1, <2>2, <2>4 DEF LocalsInv, StageInv, LinkInv, BootInv
  <2>6. UnlinkInv'
    BY <1>1, <2>3, <2>4 DEF UnlinkInv, LinkedTo
  <2>7. ReadInv'
    BY <1>1, <2>4 DEF ReadInv, SpecRead, Watched
  <2>8. TruthInv'
    BY <1>1, <2>4, SameLinks, StillTruthful DEF TruthInv, Done, Busy
  <2>9. TakenInv'
    BY <1>1, <2>4 DEF TakenInv, Empty
  <2> QED
    BY <2>5, <2>6, <2>7, <2>8, <2>9 DEF LocalsInv
<1> QED
  BY <1>2, <1>3, <1>4, Zenon

LEMMA UnlinkUnusedHostReports ==
  ASSUME ReconcilerInv, ReportsInv, UnlinkUnusedHost
  PROVE  ReportsInv'
<1> USE DEF ReportsInv
<1>1. /\ rec \in Recs /\ rec.pc = "unlink" /\ rec.id \in Ids /\ IndexInv
      /\ rec.unused \subseteq ToSet(keys[rec.id])
      /\ UNCHANGED <<resource, queue, report>>
  BY DEF UnlinkUnusedHost, clusterVars, ReconcilerInv, TypeOK, RecTypeOK, UnlinksOwnKeys
<1>2. PICK host \in rec.unused : /\ DeleteKey(rec.id, host)
                                 /\ rec' = [rec EXCEPT !.unused = @ \ {host}]
  BY DEF UnlinkUnusedHost
<1>3. /\ rec'.pc = rec.pc /\ rec'.id = rec.id /\ rec'.spec = rec.spec /\ rec'.cfg = rec.cfg
      /\ rec'.linked = rec.linked /\ rec'.loose = rec.loose /\ rec'.unused = rec.unused \ {host}
  BY <1>1, <1>2 DEF Recs
<1>4. UNCHANGED keys
  BY <1>2 DEF DeleteKey
<1>5. PICK done \in Ids : done = rec.id
  BY <1>1
<1>6. \A h \in Hosts :
        linkAt(tree', h) = IF h \in LinkedTo(done) /\ h = host THEN None ELSE linkAt(tree, h)
  <2>1. host \in ToSet(keys[done]) /\ DeleteKey(done, host)
    BY <1>1, <1>2, <1>5
  <2> QED
    BY <1>1, <2>1, DeleteKeyLinks
<1>7. LinkedTo(done)' = LinkedTo(done) \ {host}
  BY <1>6 DEF LinkedTo
<1>8. \A j \in Ids : j # done =>
        /\ LinkedTo(j)' = LinkedTo(j)
        /\ \A h \in LinkedTo(j) : linkAt(tree', h) = linkAt(tree, h)
  BY <1>6 DEF LinkedTo
<1>9. StageInv' /\ LinkInv' /\ BootInv'
  BY <1>1, <1>3 DEF LocalsInv, StageInv, LinkInv, BootInv
<1>10. UnlinkInv'
  <2>1. LinkedTo(rec.id)' = LinkedTo(done)'
    BY <1>3, <1>5 DEF LinkedTo
  <2> QED
    BY <1>1, <1>3, <1>5, <1>7, <2>1 DEF LocalsInv, UnlinkInv
<1>11. ReadInv' /\ TakenInv'
  BY <1>1, <1>3, <1>4 DEF ReadInv, SpecRead, Watched, TakenInv, Empty
<1>12. ASSUME NEW id \in Ids, Done(id)' PROVE Truthful(id)'
  <2>1. Done(id) /\ id # done
    BY <1>1, <1>3, <1>5, <1>12 DEF Done, Busy
  <2> QED
    BY <1>1, <1>8, <2>1, StillTruthful DEF TruthInv
<1> QED
  BY <1>9, <1>10, <1>11, <1>12 DEF LocalsInv, TruthInv

LEMMA UnusedHostsUnlinkedReports ==
  ASSUME ReconcilerInv, ReportsInv, UnusedHostsUnlinked
  PROVE  ReportsInv'
<1> USE DEF ReportsInv
<1>1. /\ rec \in Recs /\ rec.pc = "unlink" /\ rec.unused = {} /\ rec.id \in Ids /\ rec.spec \in AllSpecs
      /\ UNCHANGED <<tree, keys, resource, queue, report>>
  BY DEF UnusedHostsUnlinked, clusterVars, ReconcilerInv, TypeOK, RecTypeOK
<1>2. /\ rec'.pc = "link" /\ rec'.target = rec.id /\ rec'.todo = rec.spec.hosts
      /\ rec'.id = rec.id /\ rec'.spec = rec.spec /\ rec'.cfg = rec.cfg
      /\ rec'.linked = rec.linked /\ rec'.loose = rec.loose
  BY <1>1 DEF UnusedHostsUnlinked, Recs
<1>3. StageInv' /\ UnlinkInv' /\ BootInv'
  BY <1>1, <1>2 DEF LocalsInv, StageInv, UnlinkInv, BootInv
<1>4. LinkInv'
  <2>1. /\ rec'.linked = {} /\ rec'.loose = {}
        /\ LinkedTo(rec.id) \subseteq ToSet(rec.spec.hosts)
    BY <1>1, <1>2 DEF LocalsInv, StageInv, UnlinkInv
  <2>2. LinkedTo(rec.id)' = LinkedTo(rec.id)
    BY <1>1, <1>2 DEF LinkedTo
  <2>3. NoRepeatedHosts => Distinct(rec.spec.hosts)
    BY <1>1 DEF NoRepeatedHosts
  <2> QED
    BY <1>2, <2>1, <2>2, <2>3 DEF LinkInv
<1>5. ReadInv'
  BY <1>1, <1>2 DEF ReadInv, SpecRead, Watched
<1>6. TruthInv'
  BY <1>1, <1>2, SameLinks, StillTruthful DEF TruthInv, Done, Busy
<1>7. TakenInv'
  BY <1>1, <1>2 DEF TakenInv, Empty
<1> QED
  BY <1>3, <1>4, <1>5, <1>6, <1>7 DEF LocalsInv

LEMMA LinkHostReports ==
  ASSUME NoEmptyLabels, ReconcilerInv, ReportsInv, LinkHost
  PROVE  ReportsInv'
<1> DEFINE host == Head(rec.todo)
<1>1. /\ rec.pc = "link" /\ addToIndex /\ rec.id \in Ids
      /\ UNCHANGED <<resource, queue, report>>
  BY DEF LinkHost, clusterVars, ReconcilerInv, TypeOK, RecTypeOK
<1>2. PICK done \in Ids : done = rec.id
  BY <1>1
<1>3. rec.target = done /\ rec.cfg.spec = rec.spec
  BY <1>1, <1>2 DEF ReportsInv, LocalsInv, StageInv
<1>4. /\ rec.todo \in Seq(Hosts) /\ rec.todo # <<>> /\ rec'.todo = Tail(rec.todo)
      /\ rec'.pc = rec.pc /\ rec'.id = rec.id /\ rec'.spec = rec.spec
      /\ rec'.cfg = rec.cfg /\ rec'.target = rec.target
  BY <1>1, AddToIndexLinks
<1>5. \/ /\ rec'.loose = rec.loose \cup {host} /\ rec'.linked = rec.linked
         /\ host \notin LinkedTo(done) /\ LinkedTo(done)' = LinkedTo(done)
         /\ UNCHANGED tree
      \/ /\ rec'.linked = rec.linked \cup {host} /\ rec'.loose = rec.loose
         /\ LinkedTo(done)' = LinkedTo(done) \cup {host}
         /\ linkAt(tree', host).cfg = rec.cfg
         /\ \A h \in Hosts : h # host => linkAt(tree', h) = linkAt(tree, h)
  <2>1. \/ /\ rec'.loose = rec.loose \cup {host} /\ rec'.linked = rec.linked
           /\ host \notin LinkedTo(rec.target)
           /\ UNCHANGED tree
        \/ /\ rec'.linked = rec.linked \cup {host} /\ rec'.loose = rec.loose
           /\ LinkedTo(rec.target)' = LinkedTo(rec.target) \cup {host}
           /\ linkAt(tree', host).cfg = rec.cfg
           /\ \A h \in Hosts : h # host => linkAt(tree', h) = linkAt(tree, h)
    BY <1>1, AddToIndexLinks
  <2>2. LinkedTo(rec.target)' = LinkedTo(done)'
    BY <1>3, <1>4 DEF LinkedTo
  <2>3. UNCHANGED tree => LinkedTo(done)' = LinkedTo(done)
    BY SameLinks
  <2> HIDE DEF host
  <2> QED
    BY <1>3, <2>1, <2>2, <2>3
<1>6. /\ ToSet(rec.todo) = {host} \cup ToSet(Tail(rec.todo))
      /\ Distinct(rec.todo) => Distinct(Tail(rec.todo)) /\ host \notin ToSet(Tail(rec.todo))
  BY <1>4, HeadAndTail
<1> HIDE DEF host
<1>7. StageInv' /\ UnlinkInv' /\ BootInv'
  BY <1>1, <1>4 DEF ReportsInv, LocalsInv, StageInv, UnlinkInv, BootInv
<1>8. /\ rec.linked \subseteq LinkedTo(done)
      /\ LinkedTo(done) \subseteq rec.linked \cup ToSet(rec.todo)
      /\ \A h \in rec.linked : linkAt(tree, h).cfg.spec = rec.spec
      /\ ToSet(rec.spec.hosts) = rec.linked \cup rec.loose \cup ToSet(rec.todo)
      /\ NoRepeatedHosts =>
           /\ Distinct(rec.todo)
           /\ (rec.linked \cup rec.loose) \cap ToSet(rec.todo) = {}
           /\ rec.linked \cap rec.loose = {}
  BY <1>1, <1>2 DEF ReportsInv, LocalsInv, LinkInv
<1>9. /\ rec'.linked \subseteq LinkedTo(done)'
      /\ LinkedTo(done)' \subseteq rec'.linked \cup ToSet(rec'.todo)
  BY <1>4, <1>5, <1>6, <1>8
<1>10. \A h \in rec'.linked : linkAt(tree', h).cfg.spec = rec.spec
  <2>1. rec.linked \subseteq Hosts
    BY <1>8 DEF LinkedTo
  <2> QED
    BY <1>3, <1>5, <1>8, <2>1
<1>11. ToSet(rec.spec.hosts) = rec'.linked \cup rec'.loose \cup ToSet(rec'.todo)
  BY <1>4, <1>5, <1>6, <1>8
<1>12. ASSUME NoRepeatedHosts
       PROVE  /\ Distinct(rec'.todo)
              /\ (rec'.linked \cup rec'.loose) \cap ToSet(rec'.todo) = {}
              /\ rec'.linked \cap rec'.loose = {}
  BY <1>4, <1>5, <1>6, <1>8, <1>12
<1>13. LinkInv'
  <2>1. LinkedTo(rec.id)' = LinkedTo(done)'
    BY <1>2, <1>4 DEF LinkedTo
  <2> QED
    BY <1>4, <1>9, <1>10, <1>11, <1>12, <2>1 DEF LinkInv
<1>14. ReadInv'
  BY <1>1, <1>4 DEF ReportsInv, ReadInv, SpecRead, Watched
<1>15. TruthInv' /\ TakenInv'
  BY <1>1, <1>2, <1>3, AddToIndexTruth
<1> QED
  BY <1>7, <1>13, <1>14, <1>15 DEF ReportsInv, LocalsInv

LEMMA ReconciledReports ==
  ASSUME ReconcilerInv, ReportsInv, Reconciled
  PROVE  ReportsInv'
<1>1. /\ rec \in Recs /\ rec.pc = "link" /\ rec.id \in Ids /\ rec.spec \in AllSpecs /\ rec.todo = <<>>
      /\ UNCHANGED <<tree, keys, resource, queue>> /\ rec' = idle
      /\ report \in [Ids -> Reports \cup {None}]
  BY DEF Reconciled, clusterVars, ReconcilerInv, TypeOK, RecTypeOK, ControllerTypeOK
<1>2. PICK done \in Ids : done = rec.id
  BY <1>1
<1>3. PICK r \in Reports : r = [reason |-> IF rec.loose # {} THEN "HostsNotLinked" ELSE "Reconciled",
                                linked |-> rec.linked]
  <2> DEFINE reason == IF rec.loose # {} THEN "HostsNotLinked" ELSE "Reconciled"
  <2>1. reason \in Reasons /\ rec.linked \subseteq Hosts
    BY <1>1 DEF Reasons, Recs
  <2> HIDE DEF reason
  <2>2. [reason |-> reason, linked |-> rec.linked] \in Reports
    BY <2>1 DEF Reports
  <2> QED
    BY <2>2 DEF reason
<1>4. /\ r.linked = rec.linked /\ r.reason \in {"HostsNotLinked", "Reconciled"}
      /\ r.reason = "HostsNotLinked" <=> rec.loose # {}
  BY <1>3
<1>5. report' = [report EXCEPT ![done] = r]
  BY <1>2, <1>3 DEF Reconciled
<1>6. r.reason = "HostsNotLinked" => ~Empty
  BY <1>4 DEF ReportsInv, TakenInv
<1>7. ASSUME done \notin queue' PROVE Truthful(done)'
  <2>1. Watched(done) /\ resource[done] = rec.spec
    <3>1. rec.spec = IF Watched(done) THEN resource[done] ELSE None
      BY <1>1, <1>2, <1>7 DEF ReportsInv, ReadInv, SpecRead
    <3> QED
      BY <1>1, <3>1, NoneIsNoSpec
  <2>2. Watched(done)' /\ resource'[done] = rec.spec
    BY <1>1, <2>1 DEF Watched
  <2>3. report'[done] = r /\ r # None
    BY <1>1, <1>5, NoneIsNoReport
  <2>4. /\ LinkedTo(done) = rec.linked
        /\ \A h \in rec.linked : linkAt(tree, h).cfg.spec = rec.spec
        /\ ToSet(rec.spec.hosts) = rec.linked \cup rec.loose
        /\ NoRepeatedHosts => rec.linked \cap rec.loose = {}
    BY <1>1, <1>2, EmptyToSet, Zenon DEF ReportsInv, LocalsInv, LinkInv
  <2>5. LinkedTo(done)' = LinkedTo(done)
    BY <1>1, SameLinks
  <2>6. r.reason = "Reconciled" => LinkedTo(done) = ToSet(rec.spec.hosts)
    BY <1>4, <2>4
  <2>7. r.reason = "HostsNotLinked" /\ NoRepeatedHosts =>
          \E h \in ToSet(rec.spec.hosts) : h \notin LinkedTo(done)
    BY <1>4, <2>4
  <2>8. \A h \in LinkedTo(done)' : linkAt(tree', h).cfg.spec = rec.spec
    BY <1>1, <2>4, <2>5
  <2> QED
    BY <1>4, <2>2, <2>3, <2>4, <2>5, <2>6, <2>7, <2>8 DEF Truthful
<1> QED
  BY <1>1, <1>2, <1>5, <1>6, <1>7, SameLinks, EndReports, Zenon

----------------------------------------------------------------------------
LEMMA InitReports == Init => ReportsInv
<1> SUFFICES ASSUME Init PROVE ReportsInv
  OBVIOUS
<1>1. rec = idle /\ rec.pc = "idle" /\ rec.loose = {} /\ \A id \in Ids : report[id] = None
  BY DEF Init, idle
<1>2. LocalsInv /\ ReadInv /\ BootInv /\ TakenInv
  BY <1>1, IdleLocals DEF ReadInv, SpecRead, BootInv, TakenInv
<1>3. ASSUME NEW id \in Ids PROVE Truthful(id)
  <2>1. ~Watched(id)
    BY DEF Init, Watched
  <2>2. Empty
    BY DEF Init, IndexInit, Empty
  <2>3. LinkedTo(id) = {}
    BY <2>2, InitInv, EmptyHasNoLinks DEF ReconcilerInv, LinkedTo, linkAt, Linked
  <2> QED
    BY <1>1, <2>1, <2>3 DEF Truthful
<1> QED
  BY <1>2, <1>3 DEF ReportsInv, TruthInv

LEMMA NextReports ==
  ASSUME NoEmptyLabels, ReconcilerInv, ReportsInv, [Next]_vars
  PROVE  ReportsInv'
<1>1. CASE Environment
  BY <1>1, EnvironmentReports
<1>2. CASE Crash
  BY <1>2, RestartReports DEF Crash
<1>3. CASE \E id \in Ids : Begin(id)
  BY <1>3, BeginReports
<1>4. CASE BootstrapResource
  BY <1>4, BootstrapResourceReports
<1>5. CASE BootstrapHost
  BY <1>5, BootstrapHostReports
<1>6. CASE GetResource
  BY <1>6, GetResourceReports
<1>7. CASE CleanConfigs
  BY <1>7, CleanConfigsReports
<1>8. CASE DeleteFromIndex
  BY <1>8, DeleteFromIndexReports
<1>9. CASE TranslateAuthConfig
  BY <1>9, TranslateAuthConfigReports
<1>10. CASE UnlinkUnusedHost
  BY <1>10, UnlinkUnusedHostReports
<1>11. CASE UnusedHostsUnlinked
  BY <1>11, UnusedHostsUnlinkedReports
<1>12. CASE LinkHost
  BY <1>12, LinkHostReports
<1>13. CASE Reconciled
  BY <1>13, ReconciledReports
<1>14. CASE UNCHANGED vars
  <2>1. UNCHANGED <<tree, keys, rec, report, queue, resource>>
    BY <1>14 DEF vars, clusterVars, indexVars
  <2>2. rec.pc # "idle" => rec.id \in Ids
    BY DEF ReconcilerInv, TypeOK, RecTypeOK
  <2> QED
    BY <2>1, <2>2, EventReports
<1> QED
  BY <1>1, <1>2, <1>3, <1>4, <1>5, <1>6, <1>7, <1>8, <1>9, <1>10, <1>11, <1>12, <1>13, <1>14
     DEF Next, Reconcile

LEMMA ReportsInvariance ==
  ASSUME NoEmptyLabels
  PROVE  Spec => [](ReconcilerInv /\ ReportsInv)
<1>1. Init => ReconcilerInv /\ ReportsInv
  BY InitInv, InitReports
<1>2. ReconcilerInv /\ ReportsInv /\ [Next]_vars => (ReconcilerInv /\ ReportsInv)'
  BY NextInv, NextReports
<1> QED
  BY <1>1, <1>2, PTL DEF Spec

LEMMA SettledIsTruthful ==
  ASSUME ReportsInv, NEW id \in Ids, Settled(id)
  PROVE  Truthful(id)
BY DEF ReportsInv, TruthInv, Done, Busy, Settled

(***************************************************************************)
(* A resource that was deleted or is no longer watched has no link and no  *)
(* report left once the controller is done with it, whatever was changed,  *)
(* failed or restarted meanwhile (Reconcile, Index.Delete).                *)
(***************************************************************************)
THEOREM DeletedUnlinked ==
  ASSUME NoEmptyLabels
  PROVE  Spec => []DeletedIsUnlinked
<1>1. ReportsInv => DeletedIsUnlinked
  BY SettledIsTruthful DEF DeletedIsUnlinked, Truthful
<1> QED
  BY <1>1, ReportsInvariance, PTL

(***************************************************************************)
(* The hosts that the controller reports of a resource it is done with are *)
(* its links, they serve the spec that the cluster has, and they are all   *)
(* its hosts if it is reported as reconciled (Reconcile, addToIndex).      *)
(***************************************************************************)
THEOREM ReportsTrue ==
  ASSUME NoEmptyLabels
  PROVE  Spec => []ReportIsTrue
<1>1. ASSUME ReconcilerInv, ReportsInv PROVE ReportIsTrue
  <2> SUFFICES ASSUME NEW id \in Ids, Settled(id), report[id] # None,
                      report[id].reason \in {"HostsNotLinked", "Reconciled"}
               PROVE  /\ Watched(id)
                      /\ LinkedTo(id) = report[id].linked
                      /\ \A h \in LinkedTo(id) : linkAt(tree, h).cfg.spec = resource[id]
                      /\ report[id].reason = "Reconciled" =>
                           LinkedTo(id) = ToSet(resource[id].hosts)
    BY DEF ReportIsTrue
  <2> QED
    BY <1>1, SettledIsTruthful DEF Truthful
<1> QED
  BY <1>1, ReportsInvariance, PTL

(***************************************************************************)
(* When the controller has nothing left to do, the readiness check passes  *)
(* exactly if every watched resource is linked to all its hosts in its     *)
(* current version, provided that no spec names a host twice               *)
(* (AuthConfigReconciler.Ready).                                           *)
(***************************************************************************)
THEOREM ReadyWhenReconciled ==
  ASSUME NoEmptyLabels, NoRepeatedHosts
  PROVE  Spec => []ReadyOnceReconciled
<1>1. ASSUME ReconcilerInv, ReportsInv PROVE ReadyOnceReconciled
  <2> SUFFICES ASSUME rec.pc = "idle", queue = {}
               PROVE  Ready = \A id \in Ids : Watched(id) =>
                                \A h \in ToSet(resource[id].hosts) :
                                  h \in LinkedTo(id) /\ linkAt(tree, h).cfg.spec = resource[id]
    BY DEF ReadyOnceReconciled
  <2>1. \A id \in Ids : Truthful(id)
    BY <1>1 DEF ReportsInv, TruthInv, Done, Busy
  <2>2. ASSUME NEW id \in Ids
        PROVE  (report[id] # None => report[id].reason = "Reconciled") <=>
                 (Watched(id) => \A h \in ToSet(resource[id].hosts) :
                    h \in LinkedTo(id) /\ linkAt(tree, h).cfg.spec = resource[id])
    <3>1. CASE ~Watched(id)
      BY <2>1, <3>1 DEF Truthful
    <3>2. CASE Watched(id)
      BY <2>1, <3>2 DEF Truthful
    <3> QED
      BY <3>1, <3>2
  <2>3. Ready <=> \A id \in Ids : Watched(id) =>
                    \A h \in ToSet(resource[id].hosts) :
                      h \in LinkedTo(id) /\ linkAt(tree, h).cfg.spec = resource[id]
    BY <2>2 DEF Ready
  <2> QED
    BY <2>3 DEF Ready
<1> QED
  BY <1>1, ReportsInvariance, PTL
=============================================================================
