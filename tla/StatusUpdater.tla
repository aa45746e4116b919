--------------------------- MODULE StatusUpdater ---------------------------
(***************************************************************************)
(* The controller that writes the status of the AuthConfigs                *)
(* (controllers/auth_config_status_updater.go) from the reports that the   *)
(* controller of the index leaves in memory (controllers/status_report.go).*)
(* Both get the same events of a resource, in work queues of their own,    *)
(* and a write of the status is such an event too.                         *)
(*                                                                         *)
(* One resource: the status of a resource depends on others only through   *)
(* the hosts that these have taken.                                        *)
(***************************************************************************)
EXTENDS FiniteSets, Naturals

CONSTANTS
  Hosts,
  Specs,       \* the specs that users give the resource
  MaxChanges,  \* bound on the changes, the crashes and the resyncs in between
  None

(***************************************************************************)
(* Of a spec, the hosts, the number of evaluators that the summary counts, *)
(* whether it can be translated, and whether its labels are watched.       *)
(***************************************************************************)
ASSUME SpecsAssumption ==
  Specs \subseteq [hosts: SUBSET Hosts, sources: Nat, valid: BOOLEAN, watched: BOOLEAN]
ASSUME MaxChangesAssumption == MaxChanges \in Nat
ASSUME NoneAssumption == None \notin Specs
ASSUME HostListsAssumption == \A s \in Specs : IsFiniteSet(s.hosts)

VARIABLES
  spec,     \* the resource in the cluster, None if there is none
  status,   \* its status
  linked,   \* the hosts that are linked to the resource in the index
  taken,    \* those that are linked to other resources
  changes,  \* the number of those so far
  queue,    \* the controllers that have the resource in their work queue
  rec,      \* the spec that the controller of the index works on
  report,   \* the StatusReport of the resource, None if there is none
  upd,      \* the call of Reconcile of the status updater that is running
  early     \* whether the report last used was read before it was due

vars == <<spec, status, linked, taken, changes, queue, rec, report, upd, early>>

Controllers == {"reconciler", "updater"}

Watched == spec # None /\ spec.watched

(***************************************************************************)
(* The status of a new resource has no conditions and an empty summary.    *)
(***************************************************************************)
newStatus ==
  [available |-> None, ready |-> None,
   summary |-> [ready |-> FALSE, hosts |-> {}, total |-> 0, sources |-> 0]]

noReconcile == [pc |-> "idle", spec |-> None]

noUpdate == [pc |-> "idle", spec |-> None, status |-> newStatus, stale |-> FALSE]

Init ==
  /\ spec = None
  /\ status = newStatus
  /\ linked = {}
  /\ taken = {}
  /\ changes = 0
  /\ queue = {}
  /\ rec = noReconcile
  /\ report = None
  /\ upd = noUpdate
  /\ early = FALSE

----------------------------------------------------------------------------
(***************************************************************************)
(* The cluster.                                                            *)
(***************************************************************************)
Change(new) ==
  /\ changes < MaxChanges
  /\ changes' = changes + 1
  /\ spec # new
  /\ spec' = new
  /\ status' = IF new = None THEN newStatus ELSE status
  /\ queue' = IF Watched \/ (new # None /\ new.watched) THEN Controllers ELSE queue
  /\ upd' = [upd EXCEPT !.stale = upd.pc # "idle"]
  /\ UNCHANGED <<linked, taken, rec, report, early>>

OthersTakeOrRelease(hosts) ==
  /\ changes < MaxChanges
  /\ changes' = changes + 1
  /\ taken # hosts
  /\ hosts \cap linked = {}
  /\ taken' = hosts
  /\ UNCHANGED <<spec, status, linked, queue, rec, report, upd, early>>

(***************************************************************************)
(* Resyncs are hours apart: any number of them find the controllers idle,  *)
(* and those that do not are bounded like the changes.                     *)
(***************************************************************************)
idle == queue = {} /\ rec.pc = "idle" /\ upd.pc = "idle"

Resync ==
  /\ \/ idle /\ UNCHANGED changes
     \/ ~idle /\ changes < MaxChanges /\ changes' = changes + 1
  /\ Watched
  /\ queue # Controllers
  /\ queue' = Controllers
  /\ UNCHANGED <<spec, status, linked, taken, rec, report, upd, early>>

(***************************************************************************)
(* The process dies and starts again; the status is in the cluster.        *)
(***************************************************************************)
Crash ==
  /\ changes < MaxChanges
  /\ changes' = changes + 1
  /\ queue' = IF Watched THEN Controllers ELSE {}
  /\ rec' = noReconcile
  /\ linked' = {}
  /\ report' = None
  /\ upd' = noUpdate
  /\ early' = FALSE
  /\ UNCHANGED <<spec, status, taken>>

----------------------------------------------------------------------------
(***************************************************************************)
(* What the controller of the index does to the report: it is reset when a *)
(* reconciliation begins, and set to its outcome, or cleared, at its end.  *)
(***************************************************************************)
StatusReport(reason, hosts) == [reason |-> reason, linked |-> hosts]

StartReconcile ==
  /\ rec.pc = "idle"
  /\ "reconciler" \in queue
  /\ queue' = queue \ {"reconciler"}
  /\ report' = StatusReport("Reconciling", {})
  /\ rec' = [pc |-> "reconciling", spec |-> IF Watched THEN spec ELSE None]
  /\ UNCHANGED <<spec, status, linked, taken, changes, upd, early>>

(***************************************************************************)
(* Mutant: the report is not set at the end.                               *)
(***************************************************************************)
FinishNotReporting ==
  /\ rec.pc = "reconciling"
  /\ rec' = noReconcile
  /\ \/ /\ rec.spec = None
        /\ linked' = {}
        /\ report' = None
        /\ UNCHANGED queue
     \/ /\ rec.spec # None /\ ~rec.spec.valid
        /\ report' = StatusReport("Invalid", {})
        /\ queue' = queue \cup {"reconciler"}
        /\ UNCHANGED linked
     \/ /\ rec.spec # None /\ rec.spec.valid
        /\ linked' = rec.spec.hosts \ taken
        /\ UNCHANGED <<queue, report>>
  /\ UNCHANGED <<spec, status, taken, changes, upd, early>>

FinishReconcile ==
  /\ rec.pc = "reconciling"
  /\ rec' = noReconcile
  /\ \/ /\ rec.spec = None
        /\ linked' = {}
        /\ report' = None
        /\ UNCHANGED queue
     \/ /\ rec.spec # None /\ ~rec.spec.valid
        /\ report' = StatusReport("Invalid", {})
        /\ queue' = queue \cup {"reconciler"}
        /\ UNCHANGED linked
     \/ /\ rec.spec # None /\ rec.spec.valid
        /\ linked' = rec.spec.hosts \ taken
        /\ report' = StatusReport(IF linked' = rec.spec.hosts THEN "Reconciled" ELSE "HostsNotLinked", linked')
        /\ UNCHANGED queue
  /\ UNCHANGED <<spec, status, taken, changes, upd, early>>

----------------------------------------------------------------------------
(***************************************************************************)
(* The status updater.  It reads the resource, and skips one that is not   *)
(* found or not watched; upd.stale is whether the resource has changed     *)
(* since.                                                                  *)
(***************************************************************************)
GetResource ==
  /\ upd.pc = "idle"
  /\ "updater" \in queue
  /\ queue' = queue \ {"updater"}
  /\ upd' = IF Watched THEN [noUpdate EXCEPT !.pc = "report", !.spec = spec, !.status = status]
            ELSE noUpdate
  /\ UNCHANGED <<spec, status, linked, taken, changes, rec, report, early>>

(***************************************************************************)
(* The status that follows from the spec and the report.  The summary is   *)
(* made last, from the condition just set.                                 *)
(***************************************************************************)
updateStatusReady(hosts, linkedHosts, reason) ==
  LET ready == hosts \subseteq linkedHosts /\ reason = "Reconciled"
  IN  [status |-> ready, reason |-> reason]

(***************************************************************************)
(* Mutant: the summary says ready when there are hosts.                    *)
(***************************************************************************)
summaryOfHosts(condition, s, linkedHosts) ==
  [ready |-> linkedHosts # {}, hosts |-> linkedHosts,
   total |-> Cardinality(s.hosts), sources |-> s.sources]

updateStatusSummary(condition, s, linkedHosts) ==
  [ready |-> condition.status, hosts |-> linkedHosts,
   total |-> Cardinality(s.hosts), sources |-> s.sources]

statusOf(s) ==
  LET linkedHosts == IF report = None THEN {} ELSE report.linked
      reason      == IF report = None THEN "Unknown" ELSE report.reason
      condition   == updateStatusReady(s.hosts, linkedHosts, reason)
  IN  [available |-> linkedHosts # {}, ready |-> condition,
       summary |-> updateStatusSummary(condition, s, linkedHosts)]

(***************************************************************************)
(* Mutant: the resource is not queued again.                               *)
(***************************************************************************)
requeueNever(condition) == UNCHANGED queue

(***************************************************************************)
(* A resource that is not ready is queued again.                           *)
(***************************************************************************)
requeueUnless(condition) == queue' = IF condition THEN queue ELSE queue \cup {"updater"}

(***************************************************************************)
(* Mutant: the status is written only if its conditions change.            *)
(***************************************************************************)
ReadReportConditions ==
  LET new == statusOf(upd.spec)
  IN  /\ upd.pc = "report"
      /\ early' = ("reconciler" \in queue \/ rec.pc # "idle")
      /\ \/ /\ <<new.available, new.ready>> = <<upd.status.available, upd.status.ready>>
            /\ upd' = noUpdate
            /\ requeueUnless(new.ready.status)
         \/ /\ <<new.available, new.ready>> # <<upd.status.available, upd.status.ready>>
            /\ upd' = [upd EXCEPT !.pc = "write", !.status = new]
            /\ UNCHANGED queue
      /\ UNCHANGED <<spec, status, linked, taken, changes, rec, report>>

ReadReport ==
  LET new == statusOf(upd.spec)
  IN  /\ upd.pc = "report"
      /\ early' = ("reconciler" \in queue \/ rec.pc # "idle")
      /\ \/ /\ new = upd.status
            /\ upd' = noUpdate
            /\ requeueUnless(new.ready.status)
         \/ /\ new # upd.status
            /\ upd' = [upd EXCEPT !.pc = "write", !.status = new]
            /\ UNCHANGED queue
      /\ UNCHANGED <<spec, status, linked, taken, changes, rec, report>>

(***************************************************************************)
(* The write is refused if the resource has changed since it was read, and *)
(* is an event for both controllers otherwise.                             *)
(***************************************************************************)
WriteStatus ==
  /\ upd.pc = "write"
  /\ upd' = noUpdate
  /\ \/ /\ upd.stale
        /\ requeueUnless(FALSE)
        /\ UNCHANGED status
     \/ /\ ~upd.stale
        /\ status' = upd.status
        /\ queue' = Controllers
  /\ UNCHANGED <<spec, linked, taken, changes, rec, report, early>>

----------------------------------------------------------------------------
Reconciler == StartReconcile \/ FinishReconcile

Updater == GetResource \/ ReadReport \/ WriteStatus

Environment ==
  \/ \E new \in Specs \cup {None} : Change(new)
  \/ \E hosts \in SUBSET Hosts : OthersTakeOrRelease(hosts)
  \/ Resync
  \/ Crash

Next == Reconciler \/ Updater \/ Environment

Spec == Init /\ [][Next]_vars

----------------------------------------------------------------------------
Reports == [reason: {"Reconciling", "Invalid", "HostsNotLinked", "Reconciled"}, linked: SUBSET Hosts]

Statuses ==
  [available: BOOLEAN \cup {None},
   ready: [status: BOOLEAN, reason: {"Unknown", "Reconciling", "Invalid", "HostsNotLinked", "Reconciled"}] \cup {None},
   summary: [ready: BOOLEAN, hosts: SUBSET Hosts, total: Nat, sources: Nat]]

(***************************************************************************)
(* The variables have their types, and the hosts of the resource are not   *)
(* those of others (AuthConfigStatusUpdater, StatusReport).                *)
(***************************************************************************)
TypeOK ==
  /\ spec \in Specs \cup {None}
  /\ status \in Statuses
  /\ linked \subseteq Hosts /\ taken \subseteq Hosts /\ linked \cap taken = {}
  /\ changes \in 0..MaxChanges
  /\ queue \subseteq Controllers
  /\ rec \in [pc: {"idle", "reconciling"}, spec: Specs \cup {None}]
  /\ report \in Reports \cup {None}
  /\ upd \in [pc: {"idle", "report", "write"}, spec: Specs \cup {None}, status: Statuses, stale: BOOLEAN]
  /\ early \in BOOLEAN

(***************************************************************************)
(* The parts of a status agree, whichever reports and specs it went        *)
(* through: the summary says ready when the condition does, and hosts are  *)
(* listed when the resource is available, all of them if it is ready       *)
(* (updateAuthConfigStatus).                                               *)
(***************************************************************************)
StatusAgrees ==
  status # newStatus =>
    /\ status.summary.ready = status.ready.status
    /\ status.available = (status.summary.hosts # {})
    /\ status.ready.status => Cardinality(status.summary.hosts) >= status.summary.total

(***************************************************************************)
(* As long as a resource is shown as not ready, the updater has it in its  *)
(* queue or in its hands: no report, conflict, crash or change of labels   *)
(* makes it forget the resource (Reconcile, which requeues).               *)
(***************************************************************************)
NotReadyIsRevisited ==
  Watched /\ ~status.summary.ready => "updater" \in queue \/ upd.pc # "idle"

(***************************************************************************)
(* When both controllers are done, the status says that the resource is    *)
(* ready, its hosts are the ones linked in the index, and the summary is   *)
(* the one of the current spec, unless the updater last ran before the     *)
(* reconciliation that was due (Reconcile, updateAuthConfigStatus).        *)
(***************************************************************************)
StatusIsCurrent ==
  Watched /\ idle /\ ~early =>
    /\ status.summary =
         [ready |-> TRUE, hosts |-> linked, total |-> Cardinality(spec.hosts), sources |-> spec.sources]
    /\ linked = spec.hosts

----------------------------------------------------------------------------
(***************************************************************************)
(* Fairness: both controllers go on working, and the resource is resynced  *)
(* from time to time.                                                      *)
(***************************************************************************)
FairSpec == Spec /\ WF_vars(Reconciler) /\ WF_vars(Updater) /\ WF_vars(Resync)

(***************************************************************************)
(* A resource that is watched and has all its hosts linked is shown in the *)
(* end as ready with the hosts and the evaluators of its current spec,     *)
(* also if the updater was early and wrote a report of the previous spec   *)
(* as the status of this one, and again whenever a write of its status has *)
(* sent it through another reconciliation (Reconcile).                     *)
(***************************************************************************)
StatusCatchesUp ==
  <>[](Watched /\ spec.valid /\ linked = spec.hosts) =>
    []<>(/\ Watched
         /\ status.summary = [ready |-> TRUE, hosts |-> spec.hosts,
                              total |-> Cardinality(spec.hosts), sources |-> spec.sources])
=============================================================================
