------------------------ MODULE StatusUpdaterProofs ------------------------
(***************************************************************************)
(* What the status of an AuthConfig says, for any hosts, specs and number  *)
(* of changes.  The two controllers work on the same resource side by      *)
(* side: the invariant says what each knows about it while it works.       *)
(***************************************************************************)
EXTENDS StatusUpdater, FiniteSetTheorems, TLAPS

(***************************************************************************)
(* The reports list finitely many hosts.                                   *)
(***************************************************************************)
FiniteReport == report # None => IsFiniteSet(report.linked)

(***************************************************************************)
(* What StatusAgrees says of a status.                                     *)
(***************************************************************************)
Agrees(s) ==
  s # newStatus =>
    /\ s.summary.ready = s.ready.status
    /\ s.available = (s.summary.hosts # {})
    /\ s.ready.status => Cardinality(s.summary.hosts) >= s.summary.total

(***************************************************************************)
(* A call of the updater works on the current resource, or the resource    *)
(* has changed and is in the queue.                                        *)
(***************************************************************************)
UpdateInv ==
  upd.pc # "idle" =>
    /\ upd.spec # None
    /\ upd.pc = "write" => Agrees(upd.status)
    /\ ~upd.stale => /\ Watched /\ upd.spec = spec
                     /\ upd.pc = "report" => upd.status = status
    /\ upd.stale /\ Watched => "updater" \in queue

(***************************************************************************)
(* A reconciliation works on the current resource, or the resource is in   *)
(* the queue.  When one has ended, the report is the one of the index.     *)
(***************************************************************************)
Due == "reconciler" \in queue \/ rec.pc # "idle"

ReconcileInv ==
  Watched /\ "reconciler" \notin queue =>
    /\ rec.pc = "reconciling" => rec.spec = spec
    /\ rec.pc = "idle" /\ report # None =>
         /\ report.linked = linked
         /\ report.reason = "Reconciled" => linked = spec.hosts

(***************************************************************************)
(* When the updater is done and was not early, so is the reconciler.       *)
(***************************************************************************)
DoneInv ==
  Watched /\ "updater" \notin queue /\ upd.pc = "idle" /\ ~early =>
    /\ ~Due
    /\ status.summary =
         [ready |-> TRUE, hosts |-> linked, total |-> Cardinality(spec.hosts), sources |-> spec.sources]
    /\ linked = spec.hosts

StatusInv ==
  /\ TypeOK
  /\ FiniteReport
  /\ StatusAgrees
  /\ UpdateInv
  /\ NotReadyIsRevisited
  /\ ReconcileInv
  /\ DoneInv

----------------------------------------------------------------------------
(***************************************************************************)
(* The status that the updater computes is of its type, and its parts      *)
(* agree.                                                                  *)
(***************************************************************************)
LEMMA SpecFields ==
  ASSUME NEW s \in Specs
  PROVE  /\ s # None /\ s.hosts \subseteq Hosts /\ s.sources \in Nat
         /\ s.valid \in BOOLEAN /\ s.watched \in BOOLEAN
         /\ IsFiniteSet(s.hosts) /\ Cardinality(s.hosts) \in Nat
<1>1. IsFiniteSet(s.hosts)
  BY HostListsAssumption
<1>2. Cardinality(s.hosts) \in Nat
  BY <1>1, FS_CardinalityType
<1>3. s \in [hosts: SUBSET Hosts, sources: Nat, valid: BOOLEAN, watched: BOOLEAN] /\ s # None
  BY SpecsAssumption, NoneAssumption
<1> QED
  BY <1>1, <1>2, <1>3

LEMMA StatusOf ==
  ASSUME StatusInv, NEW s \in Specs
  PROVE  /\ statusOf(s) \in Statuses
         /\ Agrees(statusOf(s))
         /\ statusOf(s).summary.ready = statusOf(s).ready.status
         /\ statusOf(s).ready.status =>
              /\ report # None /\ report.reason = "Reconciled"
              /\ statusOf(s).summary =
                   [ready |-> TRUE, hosts |-> report.linked,
                    total |-> Cardinality(s.hosts), sources |-> s.sources]
<1> DEFINE linkedHosts == IF report = None THEN {} ELSE report.linked
           reason      == IF report = None THEN "Unknown" ELSE report.reason
           ready       == s.hosts \subseteq linkedHosts /\ reason = "Reconciled"
<1>1. statusOf(s) =
        [available |-> linkedHosts # {}, ready |-> [status |-> ready, reason |-> reason],
         summary |-> [ready |-> ready, hosts |-> linkedHosts,
                      total |-> Cardinality(s.hosts), sources |-> s.sources]]
  BY DEF statusOf, updateStatusReady, updateStatusSummary
<1>2. /\ linkedHosts \subseteq Hosts
      /\ reason \in {"Unknown", "Reconciling", "Invalid", "HostsNotLinked", "Reconciled"}
  BY DEF StatusInv, TypeOK, Reports
<1>3. IsFiniteSet(linkedHosts)
  BY FS_EmptySet DEF StatusInv, FiniteReport
<1>4. ready => report # None /\ report.reason = "Reconciled" /\ linkedHosts = report.linked
  OBVIOUS
<1>5. ready => Cardinality(linkedHosts) >= Cardinality(s.hosts)
  <2> SUFFICES ASSUME ready PROVE Cardinality(linkedHosts) >= Cardinality(s.hosts)
    OBVIOUS
  <2>1. s.hosts \subseteq linkedHosts
    OBVIOUS
  <2> HIDE DEF linkedHosts, ready
  <2>2. Cardinality(s.hosts) <= Cardinality(linkedHosts)
    BY <1>3, <2>1, FS_Subset
  <2>3. Cardinality(s.hosts) \in Nat /\ Cardinality(linkedHosts) \in Nat
    BY <1>3, SpecFields, FS_CardinalityType
  <2> QED
    BY <2>2, <2>3
<1>6. ready \in BOOLEAN
  OBVIOUS
<1> HIDE DEF linkedHosts, reason, ready
<1>7. statusOf(s) \in Statuses
  BY <1>1, <1>2, <1>6, SpecFields DEF Statuses
<1>8. Agrees(statusOf(s))
  BY <1>1, <1>5 DEF Agrees
<1>9. statusOf(s).summary.ready = ready /\ statusOf(s).ready.status = ready
  BY <1>1
<1>10. ASSUME ready
       PROVE  statusOf(s).summary =
                [ready |-> TRUE, hosts |-> report.linked,
                 total |-> Cardinality(s.hosts), sources |-> s.sources]
  <2>1. ready = TRUE
    BY <1>6, <1>10
  <2>2. statusOf(s).summary = [ready |-> ready, hosts |-> linkedHosts,
                               total |-> Cardinality(s.hosts), sources |-> s.sources]
    BY <1>1
  <2>3. linkedHosts = report.linked
    BY <1>4, <1>10
  <2> QED
    BY <2>1, <2>2, <2>3
<1> QED
  BY <1>4, <1>7, <1>8, <1>9, <1>10

LEMMA NewStatus == newStatus \in Statuses /\ Agrees(newStatus)
BY DEF newStatus, Statuses, Agrees

LEMMA NoUpdate == noUpdate.pc = "idle" /\ noUpdate \in
  [pc: {"idle", "report", "write"}, spec: Specs \cup {None}, status: Statuses, stale: BOOLEAN]
BY NewStatus DEF noUpdate

LEMMA InitInv == Init => StatusInv
<1> SUFFICES ASSUME Init PROVE StatusInv
  OBVIOUS
<1>1. TypeOK
  <2>1. changes \in 0..MaxChanges
    BY MaxChangesAssumption DEF Init
  <2> QED
    BY <2>1, NewStatus, NoUpdate DEF Init, TypeOK, noReconcile
<1>2. FiniteReport /\ StatusAgrees
  BY DEF Init, FiniteReport, StatusAgrees
<1>3. UpdateInv /\ NotReadyIsRevisited /\ ReconcileInv /\ DoneInv
  BY NoUpdate DEF Init, UpdateInv, NotReadyIsRevisited, ReconcileInv, DoneInv, Watched
<1> QED
  BY <1>1, <1>2, <1>3 DEF StatusInv

----------------------------------------------------------------------------
(***************************************************************************)
(* The cluster.  A change that concerns the controllers queues the         *)
(* resource for both.                                                      *)
(***************************************************************************)
LEMMA ChangeInv ==
  ASSUME StatusInv, NEW new \in Specs \cup {None}, Change(new)
  PROVE  StatusInv'
<1> USE DEF StatusInv
<1>1. /\ upd' \in [pc: {"idle", "report", "write"}, spec: Specs \cup {None},
                   status: Statuses, stale: BOOLEAN]
      /\ upd'.pc = upd.pc /\ upd'.spec = upd.spec /\ upd'.status = upd.status
      /\ upd'.stale = (upd.pc # "idle")
  BY DEF Change, TypeOK
<1>2. TypeOK'
  <2>1. changes' \in 0..MaxChanges
    BY MaxChangesAssumption DEF Change, TypeOK
  <2> QED
    BY <1>1, <2>1, NewStatus DEF Change, TypeOK, Controllers
<1>3. FiniteReport' /\ StatusAgrees'
  BY DEF Change, FiniteReport, StatusAgrees
<1>4. Watched' => queue' = Controllers
  BY DEF Change, Watched
<1>5. UpdateInv'
  BY <1>1, <1>4 DEF UpdateInv, Controllers
<1>6. NotReadyIsRevisited' /\ ReconcileInv' /\ DoneInv'
  BY <1>4 DEF NotReadyIsRevisited, ReconcileInv, DoneInv, Controllers
<1> QED
  BY <1>2, <1>3, <1>5, <1>6

LEMMA OthersInv ==
  ASSUME StatusInv, NEW hosts \in SUBSET Hosts, OthersTakeOrRelease(hosts)
  PROVE  StatusInv'
<1> USE DEF StatusInv
<1>1. TypeOK'
  <2>1. changes' \in 0..MaxChanges
    BY MaxChangesAssumption DEF OthersTakeOrRelease, TypeOK
  <2> QED
    BY <2>1 DEF OthersTakeOrRelease, TypeOK
<1>2. UNCHANGED <<spec, status, linked, queue, rec, report, upd, early>>
  BY DEF OthersTakeOrRelease
<1>3. FiniteReport' /\ StatusAgrees' /\ UpdateInv'
  BY <1>2 DEF FiniteReport, StatusAgrees, UpdateInv, Agrees, Watched
<1>4. NotReadyIsRevisited' /\ ReconcileInv' /\ DoneInv'
  BY <1>2 DEF NotReadyIsRevisited, ReconcileInv, DoneInv, Due, Watched
<1> QED
  BY <1>1, <1>3, <1>4

LEMMA ResyncInv ==
  ASSUME StatusInv, Resync
  PROVE  StatusInv'
<1> USE DEF StatusInv
<1>1. TypeOK'
  <2>1. changes' \in 0..MaxChanges
    BY MaxChangesAssumption DEF Resync, TypeOK
  <2> QED
    BY <2>1 DEF Resync, TypeOK
<1>2. queue' = Controllers /\ UNCHANGED <<spec, status, linked, rec, report, upd, early>>
  BY DEF Resync
<1>3. FiniteReport' /\ StatusAgrees' /\ UpdateInv'
  BY <1>2 DEF FiniteReport, StatusAgrees, UpdateInv, Agrees, Watched, Controllers
<1>4. NotReadyIsRevisited' /\ ReconcileInv' /\ DoneInv'
  BY <1>2 DEF NotReadyIsRevisited, ReconcileInv, DoneInv, Controllers
<1> QED
  BY <1>1, <1>3, <1>4

LEMMA CrashInv ==
  ASSUME StatusInv, Crash
  PROVE  StatusInv'
<1> USE DEF StatusInv
<1>1. TypeOK'
  <2>1. changes' \in 0..MaxChanges
    BY MaxChangesAssumption DEF Crash, TypeOK
  <2> QED
    BY <2>1, NoUpdate DEF Crash, TypeOK, noReconcile, Controllers
<1>2. FiniteReport' /\ StatusAgrees'
  BY DEF Crash, FiniteReport, StatusAgrees
<1>3. Watched' => queue' = Controllers
  BY DEF Crash, Watched
<1>4. UpdateInv'
  BY NoUpdate DEF Crash, UpdateInv
<1>5. NotReadyIsRevisited' /\ ReconcileInv' /\ DoneInv'
  BY <1>3 DEF NotReadyIsRevisited, ReconcileInv, DoneInv, Controllers
<1> QED
  BY <1>1, <1>2, <1>4, <1>5

----------------------------------------------------------------------------
(***************************************************************************)
(* The controller of the index.                                            *)
(***************************************************************************)
LEMMA StartReconcileInv ==
  ASSUME StatusInv, StartReconcile
  PROVE  StatusInv'
<1> USE DEF StatusInv
<1>1. TypeOK'
  BY DEF StartReconcile, TypeOK, StatusReport, Reports, Watched
<1>2. /\ queue' = queue \ {"reconciler"} /\ "reconciler" \in queue
      /\ UNCHANGED <<spec, status, linked, upd, early>>
  BY DEF StartReconcile
<1>3. FiniteReport'
  BY FS_EmptySet DEF StartReconcile, StatusReport, FiniteReport
<1>4. StatusAgrees' /\ UpdateInv' /\ NotReadyIsRevisited'
  BY <1>2 DEF StatusAgrees, UpdateInv, Agrees, Watched, NotReadyIsRevisited
<1>5. rec'.pc = "reconciling" /\ (Watched => rec'.spec = spec)
  BY DEF StartReconcile
<1>6. ReconcileInv'
  BY <1>2, <1>5 DEF ReconcileInv, Watched
<1>7. DoneInv'
  BY <1>2 DEF DoneInv, Due, Watched
<1> QED
  BY <1>1, <1>3, <1>4, <1>6, <1>7

LEMMA FinishReconcileInv ==
  ASSUME StatusInv, FinishReconcile
  PROVE  StatusInv'
<1> USE DEF StatusInv
<1>1. /\ rec.pc = "reconciling" /\ rec' = noReconcile /\ rec.spec \in Specs \cup {None}
      /\ UNCHANGED <<spec, status, taken, changes, upd, early>>
      /\ queue \subseteq queue' /\ queue' \ {"reconciler"} = queue \ {"reconciler"}
      /\ queue' \subseteq Controllers
  BY DEF FinishReconcile, TypeOK, Controllers
<1>2. \/ report' = None /\ linked' = {} /\ rec.spec = None
      \/ report' = StatusReport("Invalid", {}) /\ UNCHANGED linked /\ "reconciler" \in queue'
      \/ /\ rec.spec \in Specs
         /\ linked' = rec.spec.hosts \ taken
         /\ report' = StatusReport(IF linked' = rec.spec.hosts THEN "Reconciled" ELSE "HostsNotLinked",
                                   linked')
  BY <1>1 DEF FinishReconcile
<1>3. linked' \subseteq Hosts /\ linked' \cap taken = {} /\ report' \in Reports \cup {None}
  BY <1>2, SpecFields DEF StatusReport, Reports, TypeOK
<1>4. TypeOK'
  BY <1>1, <1>3 DEF TypeOK, noReconcile
<1>5. FiniteReport'
  <2>1. rec.spec \in Specs => IsFiniteSet(rec.spec.hosts \ taken)
    BY SpecFields, FS_Difference
  <2> QED
    BY <1>2, <2>1, FS_EmptySet DEF StatusReport, FiniteReport
<1>6. StatusAgrees' /\ UpdateInv' /\ NotReadyIsRevisited'
  BY <1>1 DEF StatusAgrees, UpdateInv, Agrees, Watched, NotReadyIsRevisited
<1>7. ReconcileInv'
  <2> SUFFICES ASSUME Watched', "reconciler" \notin queue', report' # None
               PROVE  /\ report'.linked = linked'
                      /\ report'.reason = "Reconciled" => linked' = spec.hosts
    BY <1>1 DEF ReconcileInv, noReconcile
  <2>1. rec.spec = spec
    BY <1>1 DEF ReconcileInv, Watched
  <2> QED
    BY <1>2, <2>1 DEF StatusReport
<1>8. DoneInv'
  BY <1>1 DEF DoneInv, Due, Watched
<1> QED
  BY <1>4, <1>5, <1>6, <1>7, <1>8

----------------------------------------------------------------------------
(***************************************************************************)
(* The status updater.                                                     *)
(***************************************************************************)
LEMMA GetResourceInv ==
  ASSUME StatusInv, GetResource
  PROVE  StatusInv'
<1> USE DEF StatusInv
<1>1. /\ upd' \in [pc: {"idle", "report", "write"}, spec: Specs \cup {None},
                   status: Statuses, stale: BOOLEAN]
      /\ IF Watched THEN upd'.pc = "report" /\ upd'.spec = spec /\ upd'.status = status
                         /\ upd'.stale = FALSE
         ELSE upd'.pc = "idle"
  BY NoUpdate DEF GetResource, TypeOK, noUpdate
<1>2. /\ queue' = queue \ {"updater"}
      /\ UNCHANGED <<spec, status, linked, taken, changes, rec, report, early>>
  BY DEF GetResource
<1>3. TypeOK'
  BY <1>1, <1>2 DEF TypeOK
<1>4. FiniteReport' /\ StatusAgrees'
  BY <1>2 DEF FiniteReport, StatusAgrees
<1>5. UpdateInv' /\ NotReadyIsRevisited'
  BY <1>1, <1>2 DEF UpdateInv, NotReadyIsRevisited, Watched
<1>6. ReconcileInv'
  BY <1>2 DEF ReconcileInv, Watched
<1>7. DoneInv'
  BY <1>1, <1>2 DEF DoneInv, Watched
<1> QED
  BY <1>3, <1>4, <1>5, <1>6, <1>7

LEMMA ReadReportInv ==
  ASSUME StatusInv, ReadReport
  PROVE  StatusInv'
<1> USE DEF StatusInv
<1> DEFINE new == statusOf(upd.spec)
<1>1. /\ upd.pc = "report" /\ upd.spec \in Specs
      /\ UNCHANGED <<spec, status, linked, taken, changes, rec, report>>
      /\ early' = Due
  BY DEF ReadReport, TypeOK, UpdateInv, Due
<1>2. /\ new \in Statuses /\ Agrees(new) /\ new.summary.ready = new.ready.status
      /\ new.ready.status => /\ report # None /\ report.reason = "Reconciled"
                             /\ new.summary = [ready |-> TRUE, hosts |-> report.linked,
                                               total |-> Cardinality(upd.spec.hosts),
                                               sources |-> upd.spec.sources]
  BY <1>1, StatusOf
<1>3. \/ /\ new = upd.status /\ upd' = noUpdate
         /\ queue' = IF new.ready.status THEN queue ELSE queue \cup {"updater"}
      \/ upd' = [upd EXCEPT !.pc = "write", !.status = new] /\ UNCHANGED queue
  BY DEF ReadReport, requeueUnless
<1> HIDE DEF new
<1>4. FiniteReport' /\ StatusAgrees'
  BY <1>1 DEF FiniteReport, StatusAgrees
<1>5. queue \subseteq queue' /\ queue' \subseteq queue \cup {"updater"}
  BY <1>3
<1>6. ReconcileInv'
  BY <1>1, <1>5 DEF ReconcileInv, Watched
<1>7. CASE upd' = [upd EXCEPT !.pc = "write", !.status = new] /\ UNCHANGED queue
  <2>1. /\ upd' \in [pc: {"idle", "report", "write"}, spec: Specs \cup {None},
                     status: Statuses, stale: BOOLEAN]
        /\ upd'.pc = "write" /\ upd'.spec = upd.spec /\ upd'.status = new
        /\ upd'.stale = upd.stale
    BY <1>2, <1>7 DEF TypeOK
  <2>2. TypeOK'
    BY <1>1, <1>7, <2>1 DEF TypeOK, Due
  <2>3. UpdateInv'
    BY <1>1, <1>2, <1>7, <2>1 DEF UpdateInv, Watched, Agrees
  <2>4. NotReadyIsRevisited' /\ DoneInv'
    BY <2>1 DEF NotReadyIsRevisited, DoneInv
  <2> QED
    BY <1>4, <1>6, <2>2, <2>3, <2>4
<1>8. CASE /\ new = upd.status /\ upd' = noUpdate
           /\ queue' = IF new.ready.status THEN queue ELSE queue \cup {"updater"}
  <2>1. TypeOK'
    BY <1>1, <1>8, NoUpdate DEF TypeOK, Due, Controllers
  <2>2. UpdateInv'
    BY <1>8, NoUpdate DEF UpdateInv
  <2>3. Watched /\ "updater" \notin queue' => new.ready.status /\ upd.spec = spec /\ status = new
    <3> SUFFICES ASSUME Watched, "updater" \notin queue' PROVE upd.spec = spec /\ status = new
      BY <1>8
    <3>1. "updater" \notin queue
      BY <1>5
    <3>2. ~upd.stale
      BY <1>1, <3>1 DEF UpdateInv
    <3> QED
      BY <1>1, <1>8, <3>2 DEF UpdateInv
  <2>4. NotReadyIsRevisited'
    BY <1>1, <1>2, <2>3 DEF NotReadyIsRevisited, Watched
  <2>5. DoneInv'
    <3> SUFFICES ASSUME Watched', "updater" \notin queue', ~early'
                 PROVE  /\ ~Due'
                        /\ status' = new /\ new.ready.status /\ upd.spec = spec
                        /\ report.linked = linked /\ linked = spec.hosts
      BY <1>1, <1>2 DEF DoneInv
    <3>1. ~Due
      BY <1>1
    <3>2. ~Due'
      BY <1>1, <1>5, <3>1 DEF Due
    <3>3. Watched /\ new.ready.status /\ upd.spec = spec /\ status = new
      BY <1>1, <2>3 DEF Watched
    <3>4. rec.pc = "idle" /\ "reconciler" \notin queue
      BY <3>1 DEF Due
    <3> QED
      BY <1>1, <1>2, <3>2, <3>3, <3>4 DEF ReconcileInv
  <2> QED
    BY <1>4, <1>6, <2>1, <2>2, <2>4, <2>5
<1> QED
  BY <1>3, <1>7, <1>8

LEMMA WriteStatusInv ==
  ASSUME StatusInv, WriteStatus
  PROVE  StatusInv'
<1> USE DEF StatusInv
<1>1. /\ upd.pc = "write" /\ upd' = noUpdate
      /\ UNCHANGED <<spec, linked, taken, changes, rec, report, early>>
      /\ queue \subseteq queue' /\ queue' \subseteq Controllers /\ "updater" \in queue'
      /\ status' = status \/ status' = upd.status
  BY DEF WriteStatus, requeueUnless, TypeOK, Controllers
<1>2. TypeOK'
  BY <1>1, NoUpdate DEF TypeOK
<1>3. FiniteReport'
  BY <1>1 DEF FiniteReport
<1>4. StatusAgrees'
  BY <1>1 DEF StatusAgrees, UpdateInv, Agrees
<1>5. UpdateInv'
  BY <1>1, NoUpdate DEF UpdateInv
<1>6. NotReadyIsRevisited' /\ DoneInv'
  BY <1>1 DEF NotReadyIsRevisited, DoneInv
<1>7. ReconcileInv'
  BY <1>1 DEF ReconcileInv, Watched
<1> QED
  BY <1>2, <1>3, <1>4, <1>5, <1>6, <1>7

----------------------------------------------------------------------------
LEMMA NextInv ==
  ASSUME StatusInv, [Next]_vars
  PROVE  StatusInv'
<1>1. CASE \E new \in Specs \cup {None} : Change(new)
  BY <1>1, ChangeInv
<1>2. CASE \E hosts \in SUBSET Hosts : OthersTakeOrRelease(hosts)
  BY <1>2, OthersInv
<1>3. CASE Resync
  BY <1>3, ResyncInv
<1>4. CASE Crash
  BY <1>4, CrashInv
<1>5. CASE StartReconcile
  BY <1>5, StartReconcileInv
<1>6. CASE FinishReconcile
  BY <1>6, FinishReconcileInv
<1>7. CASE GetResource
  BY <1>7, GetResourceInv
<1>8. CASE ReadReport
  BY <1>8, ReadReportInv
<1>9. CASE WriteStatus
  BY <1>9, WriteStatusInv
<1>10. CASE UNCHANGED vars
  <2>1. TypeOK' /\ FiniteReport' /\ StatusAgrees' /\ NotReadyIsRevisited'
    BY <1>10 DEF vars, StatusInv, TypeOK, FiniteReport, StatusAgrees, NotReadyIsRevisited, Watched
  <2>2. UpdateInv' /\ ReconcileInv' /\ DoneInv'
    BY <1>10 DEF vars, StatusInv, UpdateInv, Agrees, ReconcileInv, DoneInv, Due, Watched
  <2> QED
    BY <2>1, <2>2 DEF StatusInv
<1> QED
  BY <1>1, <1>2, <1>3, <1>4, <1>5, <1>6, <1>7, <1>8, <1>9, <1>10
     DEF Next, Reconciler, Updater, Environment

LEMMA StatusInvariance == Spec => []StatusInv
<1>1. StatusInv /\ [Next]_vars => StatusInv'
  BY NextInv
<1> QED
  BY <1>1, InitInv, PTL DEF Spec

(***************************************************************************)
(* The conditions and the summary of a status agree, whichever sequence of *)
(* specs, reports, conflicts and crashes they come from                    *)
(* (updateAuthConfigStatus).                                               *)
(***************************************************************************)
THEOREM StatusesAgree == Spec => []StatusAgrees
<1>1. StatusInv => StatusAgrees
  BY DEF StatusInv
<1> QED
  BY <1>1, StatusInvariance, PTL

(***************************************************************************)
(* The updater never loses sight of a resource that is shown as not ready  *)
(* (Reconcile of AuthConfigStatusUpdater, which requeues).                 *)
(***************************************************************************)
THEOREM NotReadyAlwaysRevisited == Spec => []NotReadyIsRevisited
<1>1. StatusInv => NotReadyIsRevisited
  BY DEF StatusInv
<1> QED
  BY <1>1, StatusInvariance, PTL

(***************************************************************************)
(* Once both controllers are done, and unless the updater was early, the   *)
(* status shows what is in the index for the current spec (Reconcile of    *)
(* both controllers, updateAuthConfigStatus).                              *)
(***************************************************************************)
THEOREM StatusCurrentWhenDone == Spec => []StatusIsCurrent
<1>1. StatusInv => StatusIsCurrent
  BY DEF StatusInv, DoneInv, StatusIsCurrent, idle
<1> QED
  BY <1>1, StatusInvariance, PTL
=============================================================================
