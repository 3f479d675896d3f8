-------------------------- MODULE MonitoringProofs --------------------------
(***************************************************************************)
(* Proofs about Monitoring, for any number of scans, findings, follow-up   *)
(* jobs and faults: follow-up jobs of several scans, cycles, new scans,    *)
(* crashes and deliveries interleave as they like.                         *)
(*                                                                         *)
(* From the types of what a step reads, and what a draft tells: an alert   *)
(* tells a transition of its scan, and what is marked sent was delivered.  *)
(* DetectionInv adds what a detection that committed has told, and what    *)
(* its draft rests on: which transitions can be missed, which can be told  *)
(* twice, and that two deliveries have seen a score drop.  CadenceInv      *)
(* counts the scheduled scans against the time and the write-backs.        *)
(***************************************************************************)
EXTENDS Monitoring, FiniteSetTheorems, TLAPS

Times == 0 .. MaxTime + 1

ScanRows == [job : JobIds, failed : SUBSET Fingerprints, score : Scores, major : Majors]

Events1 == [type : EventTypes, fingerprint : Fingerprints]

Reports == [events : SUBSET Events1, scoreDrop : BOOLEAN, pending : BOOLEAN]

TaskStates == Settled \union {"queued", "loaded", "record", "notify", "mark"}

-----------------------------------------------------------------------------
(* What detect_regression computes.                                        *)

\* An event is about a finding that failed now and not then, and its type
\* fits the history it was given.
LEMMA DiffTells ==
  ASSUME NEW previous \in ScanRows, NEW current \in ScanRows,
         NEW ever, NEW hadPending \in BOOLEAN, NEW suppr,
         NEW e \in DetectRegression(previous, current, ever, hadPending, suppr).events
  PROVE  /\ e \in Events1
         /\ e.fingerprint \in current.failed \ previous.failed
         /\ e.type \in {"new_critical", "new_high"} => e.fingerprint \notin ever
         /\ e.type = "regressed" => e.fingerprint \in ever
<1>1. e \in Events(previous, current, ever, suppr)
  BY DEF DetectRegression
<1>2. PICK f \in Alertable(previous, current, ever, suppr) :
        e = [type |-> EventType(f, ever), fingerprint |-> f]
  BY <1>1 DEF Events
<1>3. f \in current.failed \ previous.failed /\ f \in Fingerprints
  BY <1>2 DEF Alertable, NewlyFailed, ScanRows
<1>4. /\ EventType(f, ever) \in EventTypes
      /\ EventType(f, ever) \in {"new_critical", "new_high"} => f \notin ever
      /\ EventType(f, ever) = "regressed" => f \in ever
  BY DEF EventType, EventTypes
<1> QED  BY <1>2, <1>3, <1>4 DEF Events1

\* Its report is a report.
LEMMA DiffTypes ==
  ASSUME NEW previous \in ScanRows, NEW current \in ScanRows,
         NEW ever, NEW hadPending \in BOOLEAN, NEW suppr
  PROVE  DetectRegression(previous, current, ever, hadPending, suppr) \in Reports
<1> DEFINE report == DetectRegression(previous, current, ever, hadPending, suppr)
<1>1. report.events \subseteq Events1
  BY DiffTells
<1>2. Dropped(previous, current) \in BOOLEAN
  BY DEF Dropped
<1>3. \A events : Confirmed(events, hadPending) \in BOOLEAN
  BY DEF Confirmed
<1>4. report = [events |-> report.events, scoreDrop |-> report.scoreDrop,
                pending |-> report.pending]
  BY DEF DetectRegression
<1>5. report.scoreDrop \in BOOLEAN /\ report.pending \in BOOLEAN
  BY <1>2, <1>3 DEF DetectRegression
<1> QED  BY <1>1, <1>4, <1>5 DEF Reports

-----------------------------------------------------------------------------
(* The invariant.                                                          *)

LoadedDrafts == [monitor : Monitors]
FilledDrafts ==
  [scan : Nat, nextRun : Times, hidden : SUBSET Fingerprints, report : Reports]

RunCycles     == [at : {"run"}, now : 0 .. MaxTime, monitor : Monitors]
EnqueueCycles == [at : {"enqueue"}, job : JobIds]

\* What a follow-up job has read is of the kind its next step needs.
DraftFits(j) ==
  /\ task[j] = "loaded" => monitor # NoMonitor /\ draft[j] \in LoadedDrafts
  /\ task[j] = "record" => monitor # NoMonitor /\ draft[j] \in FilledDrafts
  /\ task[j] \notin {"loaded", "record"} => draft[j] = NoDraft

\* A job has a follow-up job only once it has an outcome.
TaskFits(j) == job[j] \notin {"published", "dead"} => task[j] = "none"

\* Likewise the scheduler.
CycleFits ==
  \/ cycle = Idle
  \/ monitor # NoMonitor /\ cycle \in RunCycles
  \/ cycle \in EnqueueCycles /\ job[cycle.job] = "accepted"

Types ==
  /\ now \in 0 .. MaxTime
  /\ monitor \in Monitors \union {NoMonitor}
  /\ suppressed \subseteq Fingerprints
  /\ job \in [JobIds -> {"none", "accepted", "queued", "published", "dead", "stuck"}]
  /\ scheduled \subseteq JobIds
  /\ scans \in Seq(ScanRows)
  /\ CycleFits
  /\ task \in [JobIds -> TaskStates]
  /\ tries \in [JobIds -> Nat]
  /\ draft \in [JobIds -> {NoDraft} \union LoadedDrafts \union FilledDrafts]
  /\ \A j \in JobIds : DraftFits(j) /\ TaskFits(j)
  /\ alerts \subseteq Alerts
  /\ sent \subseteq Alerts /\ outbox \subseteq Alerts
  /\ reports \subseteq Committed /\ undone \in Nat
  /\ faults \in 0 .. MaxFaults

\* An event of this type about f is a transition that scan n shows.
Tells(n, type, f) ==
  /\ n \in 2 .. Len(scans)
  /\ f \in scans[n].failed \ scans[n - 1].failed
  /\ type \in {"new_critical", "new_high"} => f \notin EverFailedBefore(n)
  /\ type = "regressed" => f \in EverFailedBefore(n - 1)

AlertTells(a) == \A f \in a.fingerprint : Tells(a.scan, a.type, f)

Telling ==
  /\ \A a \in alerts : AlertTells(a)
  /\ \A j \in JobIds : task[j] = "record" =>
       \A e \in draft[j].report.events : Tells(draft[j].scan, e.type, e.fingerprint)

\* Between the e-mail and the mark the alerts of the delivery are the ones
\* the e-mail was about.
Mailing ==
  /\ SentMeansDelivered
  /\ \A j \in JobIds : task[j] = "mark" => Recorded(j) \subseteq outbox

-----------------------------------------------------------------------------
(* Types.                                                                  *)

LEMMA InitTypes == Init => Types
<1> SUFFICES ASSUME Init PROVE Types
  OBVIOUS
<1>1. scans \in Seq(ScanRows)
  BY DEF Init
<1>2. CycleFits
  BY DEF Init, CycleFits
<1>3. task \in [JobIds -> TaskStates] /\ tries \in [JobIds -> Nat]
  BY DEF Init, TaskStates, Settled
<1>4. \A j \in JobIds : DraftFits(j) /\ TaskFits(j)
  BY DEF Init, DraftFits, TaskFits
<1> QED
  BY <1>1, <1>2, <1>3, <1>4, MonitoringAssumption DEF Init, Types

\* The alerts a delivery records are alerts.
LEMMA AlertsOfTypes ==
  ASSUME NEW j \in JobIds, tries[j] \in Nat, NEW n \in Nat, NEW report \in Reports
  PROVE  AlertsOf(j, n, report) \subseteq Alerts
BY DEF AlertsOf, Reports, Events1, Alerts

LEMMA TypeStep == Types /\ [Next]_vars => Types'
<1> SUFFICES ASSUME Types, [Next]_vars PROVE Types'
  OBVIOUS
<1> USE MonitoringAssumption, NoMonitorAssumption DEF toldVars
<1>m. monitor # NoMonitor => monitor \in Monitors
  BY DEF Types
<1>1. CASE TimePasses
  <2>1. now' \in 0 .. MaxTime
    BY <1>1 DEF TimePasses, Types
  <2> QED
    BY <1>1, <2>1 DEF TimePasses, Types, scanVars, taskVars, alertVars,
        CycleFits, DraftFits, TaskFits
<1>2. CASE CreateMonitor
  <2>1. monitor' \in Monitors
    <3>1. CASE monitor = NoMonitor
      BY <1>2, <3>1 DEF CreateMonitor, Types, Monitors
    <3>2. CASE monitor # NoMonitor
      BY <1>2, <3>2, <1>m DEF CreateMonitor, Monitors
    <3> QED  BY <3>1, <3>2
  <2> QED
    BY <1>2, <2>1 DEF CreateMonitor, Types, scanVars, taskVars, alertVars,
        CycleFits, DraftFits, TaskFits
<1>3. CASE DisableMonitor \/ RunDenied
  <2>1. monitor # NoMonitor
    BY <1>3 DEF DisableMonitor, RunDenied, Types, CycleFits, Idle, EnqueueCycles
  <2>2. monitor' \in Monitors
    BY <1>3, <1>m, <2>1 DEF DisableMonitor, RunDenied, Monitors
  <2>3. CycleFits'
    BY <1>3, <2>2 DEF DisableMonitor, RunDenied, Types, CycleFits, scanVars
  <2> QED
    BY <1>3, <2>2, <2>3 DEF DisableMonitor, RunDenied, Types, scanVars, taskVars,
        alertVars, DraftFits, TaskFits
<1>4. ASSUME NEW f \in Fingerprints, Suppress(f) \/ EndSuppression(f) PROVE Types'
  BY <1>4 DEF Suppress, EndSuppression, Types, scanVars, taskVars, alertVars,
      CycleFits, DraftFits, TaskFits
<1>5. CASE BeginCycle
  <2>1. cycle' \in RunCycles /\ monitor' # NoMonitor
    BY <1>5, <1>m DEF BeginCycle, Types, RunCycles
  <2> QED
    BY <1>5, <2>1 DEF BeginCycle, Types, scanVars, taskVars, alertVars,
        CycleFits, DraftFits, TaskFits
<1>6. ASSUME NEW j \in JobIds, RunDue(j) PROVE Types'
  <2>1. monitor # NoMonitor /\ cycle \in RunCycles
    BY <1>6 DEF RunDue, RunDueAs, Types, CycleFits, Idle, EnqueueCycles
  <2>2. monitor' \in Monitors
    <3>1. cycle.now + 1 \in 0 .. MaxTime + 1 /\ cycle.monitor.pending \in BOOLEAN
      BY <2>1 DEF RunCycles, Monitors
    <3>2. monitor' = [monitor EXCEPT !.nextRun = cycle.now + 1,
                                     !.pending = cycle.monitor.pending]
      BY <1>6 DEF RunDue, RunDueAs
    <3> QED  BY <1>m, <2>1, <3>1, <3>2 DEF Monitors
  <2>3. cycle' \in EnqueueCycles /\ job'[cycle'.job] = "accepted"
    BY <1>6 DEF RunDue, RunDueAs, EnqueueCycles, Types
  <2>4. job' \in [JobIds -> {"none", "accepted", "queued", "published", "dead", "stuck"}]
    BY <1>6 DEF RunDue, RunDueAs, Types
  <2>5. ASSUME NEW k \in JobIds PROVE DraftFits(k)' /\ TaskFits(k)'
    BY <1>6, <2>1, <2>2 DEF RunDue, RunDueAs, Fresh, Types, taskVars, DraftFits, TaskFits
  <2> QED
    BY <1>6, <2>2, <2>3, <2>4, <2>5 DEF RunDue, RunDueAs, Types, taskVars, alertVars,
        CycleFits
<1>7. CASE EnqueueScan
  <2>1. job' \in [JobIds -> {"none", "accepted", "queued", "published", "dead", "stuck"}]
    BY <1>7 DEF EnqueueScan, Types
  <2>2. ASSUME NEW k \in JobIds PROVE DraftFits(k)' /\ TaskFits(k)'
    BY <1>7 DEF EnqueueScan, Types, taskVars, CycleFits, Idle, RunCycles, DraftFits,
        TaskFits
  <2> QED
    BY <1>7, <2>1, <2>2 DEF EnqueueScan, Types, taskVars, alertVars, CycleFits
<1>8. CASE CycleLost
  <2>1. faults' \in 0 .. MaxFaults
    BY <1>8 DEF CycleLost, Fault, Types
  <2> QED
    BY <1>8, <2>1 DEF CycleLost, Types, scanVars, taskVars, alertVars, CycleFits,
        DraftFits, TaskFits
<1>9. ASSUME NEW j \in JobIds, SubmitScan(j) PROVE Types'
  BY <1>9 DEF SubmitScan, Fresh, Types, taskVars, alertVars, CycleFits, DraftFits,
      TaskFits, EnqueueCycles
<1>10. ASSUME NEW j \in JobIds, PublishScan(j) PROVE Types'
  <2>1. PICK failed \in SUBSET Fingerprints, score \in Scores, major \in Majors :
          scans' = Append(scans, [job |-> j, failed |-> failed,
                                  score |-> score, major |-> major])
    BY <1>10 DEF PublishScan
  <2>2. [job |-> j, failed |-> failed, score |-> score, major |-> major] \in ScanRows
    BY DEF ScanRows
  <2>3. scans' \in Seq(ScanRows)
    BY <2>1, <2>2 DEF Types
  <2>4. job' \in [JobIds -> {"none", "accepted", "queued", "published", "dead", "stuck"}]
    BY <1>10 DEF PublishScan, Types
  <2>5. task' \in [JobIds -> TaskStates]
    BY <1>10 DEF PublishScan, Types, TaskStates
  <2>6. task[j] \notin {"loaded", "record"}
    BY <1>10 DEF PublishScan, Types, TaskFits
  <2>7. ASSUME NEW k \in JobIds PROVE DraftFits(k)' /\ TaskFits(k)'
    BY <1>10, <2>6 DEF PublishScan, Types, DraftFits, TaskFits
  <2> QED
    BY <1>10, <2>3, <2>4, <2>5, <2>7 DEF PublishScan, Types, alertVars, CycleFits,
        EnqueueCycles
<1>11. ASSUME NEW j \in JobIds, ScanDies(j) PROVE Types'
  <2>1. /\ job' \in [JobIds -> {"none", "accepted", "queued", "published", "dead", "stuck"}]
        /\ task' \in [JobIds -> TaskStates]
    BY <1>11 DEF ScanDies, Types, TaskStates
  <2>2. ASSUME NEW k \in JobIds PROVE DraftFits(k)' /\ TaskFits(k)'
    BY <1>11 DEF ScanDies, Types, DraftFits, TaskFits
  <2> QED
    BY <1>11, <2>1, <2>2 DEF ScanDies, Types, alertVars, CycleFits, EnqueueCycles
<1>11a. ASSUME NEW j \in JobIds, ScanLost(j) PROVE Types'
  <2>1. job' \in [JobIds -> {"none", "accepted", "queued", "published", "dead", "stuck"}]
    BY <1>11a DEF ScanLost, Types
  <2>2. task' \in [JobIds -> TaskStates] /\ faults' \in 0 .. MaxFaults
    BY <1>11a DEF ScanLost, Fault, Types, TaskStates, Settled
  <2>3. ASSUME NEW k \in JobIds PROVE DraftFits(k)' /\ TaskFits(k)'
    BY <1>11a DEF ScanLost, Types, DraftFits, TaskFits
  <2> QED
    BY <1>11a, <2>1, <2>2, <2>3 DEF ScanLost, Types, alertVars, CycleFits, EnqueueCycles
<1>12. ASSUME NEW j \in JobIds, LoadMonitor(j) PROVE Types'
  <2>a. task' \in [JobIds -> TaskStates]
    BY <1>12 DEF LoadMonitor, Types, TaskStates, Settled
  <2>b. tries' \in [JobIds -> Nat]
    BY <1>12 DEF LoadMonitor, Types
  <2>1. task' \in [JobIds -> TaskStates] /\ tries' \in [JobIds -> Nat]
    BY <2>a, <2>b
  <2>2. CASE task[j] = "queued" /\ MonitorIsActive /\ task' = [task EXCEPT ![j] = "loaded"]
             /\ draft' = [draft EXCEPT ![j] = [monitor |-> monitor]]
    <3>1. [monitor |-> monitor] \in LoadedDrafts /\ monitor # NoMonitor
      BY <2>2, <1>m DEF MonitorIsActive, LoadedDrafts
    <3>2. draft' \in [JobIds -> {NoDraft} \union LoadedDrafts \union FilledDrafts]
      BY <2>2, <3>1 DEF Types
    <3>3. ASSUME NEW k \in JobIds PROVE DraftFits(k)' /\ TaskFits(k)'
      BY <1>12, <2>2, <3>1 DEF LoadMonitor, Types, DraftFits, TaskFits, scanVars
    <3> QED
      BY <1>12, <2>1, <3>2, <3>3 DEF LoadMonitor, Types, scanVars, alertVars, CycleFits
  <2>3. CASE task[j] = "queued" /\ task' = [task EXCEPT ![j] = "skipped"] /\ UNCHANGED draft
    <3>1. ASSUME NEW k \in JobIds PROVE DraftFits(k)' /\ TaskFits(k)'
      BY <1>12, <2>3 DEF LoadMonitor, Types, DraftFits, TaskFits, scanVars
    <3> QED
      BY <1>12, <2>1, <2>3, <3>1 DEF LoadMonitor, Types, scanVars, alertVars, CycleFits
  <2> QED  BY <1>12, <2>2, <2>3 DEF LoadMonitor
<1>13. ASSUME NEW j \in JobIds, Compare(j) PROVE Types'
  <2> DEFINE n == Len(scans)
  <2>1. task' \in [JobIds -> TaskStates]
    BY <1>13 DEF Compare, Types, TaskStates, Settled
  <2>2. task[j] = "loaded" /\ monitor # NoMonitor /\ draft[j] \in LoadedDrafts
    BY <1>13 DEF Compare, Types, DraftFits, TaskFits, scanVars
  <2>3. CASE task' = [task EXCEPT ![j] = "skipped"] /\ draft' = [draft EXCEPT ![j] = NoDraft]
    <3>1. ASSUME NEW k \in JobIds PROVE DraftFits(k)' /\ TaskFits(k)'
      BY <1>13, <2>3 DEF Compare, Types, DraftFits, TaskFits, scanVars
    <3> QED
      BY <1>13, <2>1, <2>3, <3>1 DEF Compare, Types, scanVars, alertVars, CycleFits
  <2>4. CASE n >= 2 /\ task' = [task EXCEPT ![j] = "record"]
             /\ draft' = [draft EXCEPT ![j] =
                  [scan   |-> n, nextRun |-> draft[j].monitor.nextRun,
                   hidden |-> suppressed,
                   report |-> DetectRegression(scans[n - 1], scans[n],
                                EverFailedBefore(n - 1), draft[j].monitor.pending,
                                suppressed)]]
    <3>1. n \in Nat /\ scans[n - 1] \in ScanRows /\ scans[n] \in ScanRows
      BY <2>4 DEF Types
    <3>2. draft[j].monitor.nextRun \in Times /\ draft[j].monitor.pending \in BOOLEAN
      BY <2>2 DEF LoadedDrafts, Monitors, Times
    <3>3. DetectRegression(scans[n - 1], scans[n], EverFailedBefore(n - 1),
                           draft[j].monitor.pending, suppressed) \in Reports
      BY <3>1, <3>2, DiffTypes
    <3>4. draft'[j] \in FilledDrafts
      <4> DEFINE m == draft[j].monitor
                 r == DetectRegression(scans[n - 1], scans[n], EverFailedBefore(n - 1),
                                       m.pending, suppressed)
      <4>1. draft'[j] = [scan |-> n, nextRun |-> m.nextRun, hidden |-> suppressed,
                         report |-> r]
        BY <2>4 DEF Types
      <4>2. n \in Nat /\ m.nextRun \in Times /\ suppressed \in SUBSET Fingerprints
            /\ r \in Reports
        BY <3>1, <3>2, <3>3 DEF Types
      <4> HIDE DEF n, m, r
      <4> QED  BY <4>1, <4>2 DEF FilledDrafts
    <3>5. draft' \in [JobIds -> {NoDraft} \union LoadedDrafts \union FilledDrafts]
      BY <2>4, <3>4 DEF Types
    <3>6. ASSUME NEW k \in JobIds PROVE DraftFits(k)' /\ TaskFits(k)'
      <4>1. CASE k = j
        BY <1>13, <2>2, <2>4, <3>4, <4>1 DEF Compare, Types, DraftFits, TaskFits, scanVars
      <4>2. CASE k # j
        BY <1>13, <2>4, <4>2 DEF Compare, Types, DraftFits, TaskFits, scanVars
      <4> QED  BY <4>1, <4>2
    <3> QED
      BY <1>13, <2>1, <3>5, <3>6 DEF Compare, Types, scanVars, alertVars, CycleFits
  <2> QED  BY <1>13, <2>3, <2>4 DEF Compare
<1>14. ASSUME NEW j \in JobIds, DetectRecord(j) PROVE Types'
  <2> DEFINE new == AlertsOf(j, draft[j].scan, draft[j].report)
  <2>1. task[j] = "record" /\ monitor # NoMonitor /\ draft[j] \in FilledDrafts
    BY <1>14 DEF DetectRecord, RecordAs, Types, DraftFits, TaskFits, scanVars
  <2>2. new \subseteq Alerts
    <3>1. draft[j].scan \in Nat /\ draft[j].report \in Reports /\ tries[j] \in Nat
      BY <2>1 DEF FilledDrafts, Types
    <3> QED  BY <3>1, AlertsOfTypes
  <2>3. alerts' \subseteq Alerts
    BY <1>14, <2>2 DEF DetectRecord, RecordAs, Types
  <2>4. task' \in [JobIds -> TaskStates]
    BY <1>14 DEF DetectRecord, RecordAs, Types, TaskStates, Settled
  <2>5. monitor' \in Monitors
    BY <1>14, <1>m, <2>1 DEF DetectRecord, RecordAs, FilledDrafts, Reports, Monitors, Times
  <2>6. draft' \in [JobIds -> {NoDraft} \union LoadedDrafts \union FilledDrafts]
    BY <1>14 DEF DetectRecord, RecordAs, Types
  <2>7. ASSUME NEW k \in JobIds PROVE DraftFits(k)' /\ TaskFits(k)'
    <3>1. task'[j] \in {"done", "notify"} /\ draft'[j] = NoDraft
      BY <1>14 DEF DetectRecord, RecordAs, Types
    <3>2. /\ job' = job /\ monitor' # NoMonitor
          /\ k # j => task'[k] = task[k] /\ draft'[k] = draft[k]
      BY <1>14, <2>5 DEF DetectRecord, RecordAs, Types, scanVars
    <3>3. DraftFits(k) /\ TaskFits(k) /\ TaskFits(j)
      BY DEF Types
    <3>4. TaskFits(k)'
      BY <2>1, <3>1, <3>2, <3>3 DEF TaskFits
    <3>5. DraftFits(k)'
      BY <3>1, <3>2, <3>3, <2>1 DEF DraftFits
    <3> QED  BY <3>4, <3>5
  <2>8. CycleFits'
    BY <1>14, <2>5 DEF DetectRecord, RecordAs, Types, CycleFits, scanVars
  <2>9. reports' \subseteq Committed /\ undone' \in Nat
    <3>1. ReportOf(j) \in Committed
      BY <2>1 DEF ReportOf, Committed, FilledDrafts, Reports, Types
    <3> QED
      BY <1>14, <3>1 DEF DetectRecord, RecordAs, Types
  <2> QED
    BY <1>14, <2>3, <2>4, <2>5, <2>6, <2>7, <2>8, <2>9 DEF DetectRecord, RecordAs, Types,
        scanVars
<1>15. ASSUME NEW j \in JobIds, FailedAlertRecord(j) PROVE Types'
  <2>0. task' \in [JobIds -> TaskStates]
    BY <1>15 DEF FailedAlertRecord, Types, TaskStates, Settled
  <2>1. tries' \in [JobIds -> Nat]
    BY <1>15 DEF FailedAlertRecord, Types
  <2>2. [job |-> j, try |-> tries[j] + 1, scan |-> 0, type |-> "scan_failed",
         fingerprint |-> {}] \in Alerts
    BY DEF Alerts, Types
  <2>3. alerts' \subseteq Alerts
    BY <1>15, <2>2 DEF FailedAlertRecord, Types
  <2>4. ASSUME NEW k \in JobIds PROVE DraftFits(k)' /\ TaskFits(k)'
    BY <1>15 DEF FailedAlertRecord, Types, DraftFits, TaskFits, scanVars
  <2> QED
    BY <1>15, <2>0, <2>1, <2>3, <2>4 DEF FailedAlertRecord, Types, scanVars, CycleFits
<1>16. ASSUME NEW j \in JobIds, Notify(j) \/ MarkSent(j) PROVE Types'
  <2>1. task' \in [JobIds -> TaskStates]
    BY <1>16 DEF Notify, MarkSent, Types, TaskStates, Settled
  <2>2. Recorded(j) \subseteq Alerts
    BY DEF Recorded, Types
  <2>3. sent' \subseteq Alerts /\ outbox' \subseteq Alerts
    BY <1>16, <2>2 DEF Notify, MarkSent, Types
  <2>4. ASSUME NEW k \in JobIds PROVE DraftFits(k)' /\ TaskFits(k)'
    BY <1>16 DEF Notify, MarkSent, Types, DraftFits, TaskFits, scanVars
  <2> QED
    BY <1>16, <2>1, <2>3, <2>4 DEF Notify, MarkSent, Types, scanVars, CycleFits
<1>17. ASSUME NEW j \in JobIds, TaskFaults(j) PROVE Types'
  <2>0. task' \in [JobIds -> TaskStates]
    BY <1>17 DEF TaskFaults, Types, TaskStates, Settled
  <2>1. faults' \in 0 .. MaxFaults
    BY <1>17 DEF TaskFaults, Fault, Types
  <2>2. draft' \in [JobIds -> {NoDraft} \union LoadedDrafts \union FilledDrafts]
    BY <1>17 DEF TaskFaults, Types
  <2>3. ASSUME NEW k \in JobIds PROVE DraftFits(k)' /\ TaskFits(k)'
    BY <1>17 DEF TaskFaults, Types, DraftFits, TaskFits, scanVars
  <2> QED
    BY <1>17, <2>0, <2>1, <2>2, <2>3 DEF TaskFaults, Types, scanVars, alertVars, CycleFits
<1>18. CASE UNCHANGED vars
  BY <1>18 DEF vars, scanVars, taskVars, alertVars, Types, CycleFits, DraftFits, TaskFits, scanVars
<1> QED
  BY <1>1, <1>2, <1>3, <1>4, <1>5, <1>6, <1>7, <1>8, <1>9, <1>10, <1>11, <1>11a, <1>12,
     <1>13, <1>14, <1>15, <1>16, <1>17, <1>18
  DEF Next, CycleStep, ScanStep, TaskStep

LEMMA TypesImplyTypeOK == Types => TypeOK
<1> SUFFICES ASSUME Types PROVE TypeOK
  OBVIOUS
<1>1. cycle.at \in {"idle", "run", "enqueue"}
  BY DEF Types, CycleFits, Idle, RunCycles, EnqueueCycles
<1>2. \A j \in JobIds : task[j] \notin {"loaded", "record"} => draft[j] = NoDraft
  BY DEF Types, DraftFits
<1> QED  BY <1>1, <1>2 DEF Types, TypeOK, ScanRows, TaskStates

\* The state of the monitoring of a target is of its declared kind, and a
\* follow-up job holds a draft exactly between its reads and its writes.
THEOREM MonitoringTypes == Spec => []TypeOK
<1>1. Init => Types
  BY InitTypes
<1>2. Types /\ [Next]_vars => Types'
  BY TypeStep
<1>3. Types => TypeOK
  BY TypesImplyTypeOK
<1> QED  BY <1>1, <1>2, <1>3, PTL DEF Spec

-----------------------------------------------------------------------------
(* Alerts tell transitions.                                                *)

\* The rows of scans are only ever added to.
LEMMA ScansGrow ==
  Types /\ [Next]_vars => scans' = scans \/ \E row \in ScanRows : scans' = Append(scans, row)
<1> SUFFICES ASSUME Types, [Next]_vars
    PROVE scans' = scans \/ \E row \in ScanRows : scans' = Append(scans, row)
  OBVIOUS
<1>1. ASSUME NEW j \in JobIds, PublishScan(j)
      PROVE  \E row \in ScanRows : scans' = Append(scans, row)
  <2>1. PICK failed \in SUBSET Fingerprints, score \in Scores, major \in Majors :
          scans' = Append(scans, [job |-> j, failed |-> failed,
                                  score |-> score, major |-> major])
    BY <1>1 DEF PublishScan
  <2>2. [job |-> j, failed |-> failed, score |-> score, major |-> major] \in ScanRows
    BY DEF ScanRows
  <2> QED  BY <2>1, <2>2
<1>2. CASE TimePasses \/ CreateMonitor \/ DisableMonitor \/ BeginCycle \/ RunDenied
           \/ EnqueueScan \/ CycleLost \/ UNCHANGED vars
           \/ \E f \in Fingerprints : Suppress(f) \/ EndSuppression(f)
  BY <1>2 DEF TimePasses, CreateMonitor, DisableMonitor, BeginCycle, RunDenied, EnqueueScan,
      CycleLost, Suppress, EndSuppression, vars, scanVars
<1>3. ASSUME NEW j \in JobIds,
             RunDue(j) \/ SubmitScan(j) \/ ScanDies(j) \/ ScanLost(j) \/ TaskStep(j)
               \/ TaskFaults(j)
      PROVE  scans' = scans
  BY <1>3 DEF RunDue, RunDueAs, SubmitScan, ScanDies, ScanLost, TaskStep, LoadMonitor,
      Compare, DetectRecord, RecordAs, FailedAlertRecord, Notify, MarkSent, TaskFaults,
      scanVars
<1> QED  BY <1>1, <1>2, <1>3 DEF Next, CycleStep, ScanStep

\* What a scan shows stays so as later scans are recorded.
LEMMA TellsStays ==
  ASSUME Types, [Next]_vars, NEW n, NEW type, NEW f, Tells(n, type, f)
  PROVE  Tells(n, type, f)'
<1>1. Len(scans) \in Nat /\ Len(scans') \in Nat /\ Len(scans) <= Len(scans')
  BY ScansGrow DEF Types
<1>2. \A i \in 1 .. Len(scans) : scans'[i] = scans[i]
  <2>1. ASSUME NEW row \in ScanRows, scans' = Append(scans, row)
        PROVE  \A i \in 1 .. Len(scans) : scans'[i] = scans[i]
    BY <2>1 DEF Types
  <2> QED
    BY <2>1, ScansGrow
<1>3. n \in 2 .. Len(scans)
  BY DEF Tells
<1>4. EverFailedBefore(n)' = EverFailedBefore(n)
  BY <1>1, <1>2, <1>3 DEF EverFailedBefore
<1>5. EverFailedBefore(n - 1)' = EverFailedBefore(n - 1)
  BY <1>1, <1>2, <1>3 DEF EverFailedBefore
<1>6. scans'[n] = scans[n] /\ scans'[n - 1] = scans[n - 1]
  BY <1>1, <1>2, <1>3
<1> QED  BY <1>1, <1>3, <1>4, <1>5, <1>6 DEF Tells

\* The report of the comparison of the two latest scans.
LEMMA CompareTells ==
  ASSUME Types, NEW n \in 2 .. Len(scans), NEW pending \in BOOLEAN, NEW suppr,
         NEW e \in DetectRegression(scans[n - 1], scans[n], EverFailedBefore(n - 1),
                                    pending, suppr).events
  PROVE  Tells(n, e.type, e.fingerprint)
<1>1. scans[n - 1] \in ScanRows /\ scans[n] \in ScanRows
  BY DEF Types
<1>2. /\ e.fingerprint \in scans[n].failed \ scans[n - 1].failed
      /\ e.type \in {"new_critical", "new_high"} => e.fingerprint \notin EverFailedBefore(n - 1)
      /\ e.type = "regressed" => e.fingerprint \in EverFailedBefore(n - 1)
  BY <1>1, DiffTells
<1>3. EverFailedBefore(n) = EverFailedBefore(n - 1) \union scans[n - 1].failed
  <2>1. 1 .. n - 1 = (1 .. (n - 1) - 1) \union {n - 1}
    OBVIOUS
  <2> QED  BY <2>1 DEF EverFailedBefore
<1> QED  BY <1>2, <1>3 DEF Tells

\* The alerts that a step adds tell what the draft before it told.
LEMMA AlertsTell ==
  ASSUME Types, Telling, [Next]_vars, NEW a \in alerts' \ alerts
  PROVE  AlertTells(a)
<1>1. ASSUME NEW j \in JobIds, DetectRecord(j) PROVE AlertTells(a)
  <2>1. a \in AlertsOf(j, draft[j].scan, draft[j].report) /\ task[j] = "record"
    BY <1>1 DEF DetectRecord, RecordAs
  <2>2. CASE a.fingerprint = {}
    BY <2>2 DEF AlertTells
  <2>3. CASE \E e \in draft[j].report.events :
               a = [job |-> j, try |-> tries[j], scan |-> draft[j].scan,
                    type |-> e.type, fingerprint |-> {e.fingerprint}]
    BY <2>1, <2>3 DEF AlertTells, Telling
  <2> QED  BY <2>1, <2>2, <2>3 DEF AlertsOf
<1>2. ASSUME NEW j \in JobIds, FailedAlertRecord(j) PROVE AlertTells(a)
  BY <1>2 DEF FailedAlertRecord, AlertTells
<1>3. CASE TimePasses \/ CreateMonitor \/ DisableMonitor \/ BeginCycle \/ RunDenied
           \/ EnqueueScan \/ CycleLost \/ UNCHANGED vars
           \/ \E f \in Fingerprints : Suppress(f) \/ EndSuppression(f)
  BY <1>3 DEF TimePasses, CreateMonitor, DisableMonitor, BeginCycle, RunDenied, EnqueueScan,
      CycleLost, Suppress, EndSuppression, vars, alertVars
<1>4. ASSUME NEW j \in JobIds,
             RunDue(j) \/ SubmitScan(j) \/ ScanStep(j) \/ ScanLost(j) \/ LoadMonitor(j)
               \/ Compare(j) \/ Notify(j) \/ MarkSent(j) \/ TaskFaults(j)
      PROVE  alerts' = alerts
  BY <1>4 DEF RunDue, RunDueAs, SubmitScan, ScanStep, PublishScan, ScanDies, ScanLost,
      LoadMonitor, Compare, Notify, MarkSent, TaskFaults, alertVars
<1> QED  BY <1>1, <1>2, <1>3, <1>4 DEF Next, CycleStep, TaskStep

\* A draft to be recorded is as it was, or has just been compared.
LEMMA RecordsTell ==
  ASSUME Types, Telling, [Next]_vars, NEW k \in JobIds, task'[k] = "record",
         NEW e \in draft'[k].report.events
  PROVE  Tells(draft'[k].scan, e.type, e.fingerprint)
<1> DEFINE Kept == task[k] = "record" /\ draft'[k] = draft[k]
<1>k. Kept => Tells(draft'[k].scan, e.type, e.fingerprint)
  BY DEF Telling
<1>1. CASE Compare(k)
  <2> DEFINE n == Len(scans)
             r == DetectRegression(scans[n - 1], scans[n], EverFailedBefore(n - 1),
                                   draft[k].monitor.pending, suppressed)
  <2>1. n \in 2 .. Len(scans) /\ draft'[k].scan = n /\ draft'[k].report = r
    BY <1>1 DEF Compare, Types
  <2>2. draft[k].monitor.pending \in BOOLEAN
    BY <1>1 DEF Compare, Types, DraftFits, LoadedDrafts, Monitors
  <2> QED  BY <2>1, <2>2, CompareTells
<1>2. CASE TimePasses \/ CreateMonitor \/ DisableMonitor \/ BeginCycle \/ RunDenied
           \/ EnqueueScan \/ CycleLost \/ UNCHANGED vars
           \/ \E f \in Fingerprints : Suppress(f) \/ EndSuppression(f)
  BY <1>k, <1>2 DEF TimePasses, CreateMonitor, DisableMonitor, BeginCycle, RunDenied,
      EnqueueScan, CycleLost, Suppress, EndSuppression, vars, taskVars
<1>3. ASSUME NEW j \in JobIds, RunDue(j) \/ SubmitScan(j) PROVE Kept
  BY <1>3 DEF RunDue, RunDueAs, SubmitScan, taskVars
<1>4. ASSUME NEW j \in JobIds, ScanStep(j) \/ ScanLost(j) PROVE Kept
  BY <1>4 DEF ScanStep, PublishScan, ScanDies, ScanLost, Types
<1>5. ASSUME NEW j \in JobIds, LoadMonitor(j) \/ FailedAlertRecord(j) PROVE Kept
  BY <1>5 DEF LoadMonitor, FailedAlertRecord, Types
<1>6. ASSUME NEW j \in JobIds, Compare(j), j # k PROVE Kept
  BY <1>6 DEF Compare, Types
<1>7. ASSUME NEW j \in JobIds, DetectRecord(j) \/ TaskFaults(j) PROVE Kept
  BY <1>7 DEF DetectRecord, RecordAs, TaskFaults, Types
<1>8. ASSUME NEW j \in JobIds, Notify(j) \/ MarkSent(j) PROVE Kept
  BY <1>8 DEF Notify, MarkSent, Types
<1> QED  BY <1>k, <1>1, <1>2, <1>3, <1>4, <1>5, <1>6, <1>7, <1>8
         DEF Next, CycleStep, TaskStep

LEMMA TellingStep == Types /\ Telling /\ [Next]_vars => Telling'
<1> SUFFICES ASSUME Types, Telling, [Next]_vars PROVE Telling'
  OBVIOUS
<1>1. ASSUME NEW a \in alerts' PROVE AlertTells(a)'
  <2>1. AlertTells(a)
    BY AlertsTell DEF Telling
  <2>2. ASSUME NEW f \in a.fingerprint PROVE Tells(a.scan, a.type, f)'
    BY <2>1, TellsStays DEF AlertTells
  <2> QED  BY <2>2 DEF AlertTells
<1>2. ASSUME NEW k \in JobIds, task'[k] = "record", NEW e \in draft'[k].report.events,
             NEW n, n = draft'[k].scan
      PROVE  Tells(n, e.type, e.fingerprint)'
  <2>1. Tells(n, e.type, e.fingerprint)
    BY <1>2, RecordsTell
  <2> QED  BY <2>1, TellsStays
<1>3. ASSUME NEW k \in JobIds, task'[k] = "record", NEW e \in draft'[k].report.events
      PROVE  Tells(draft[k].scan, e.type, e.fingerprint)'
  BY <1>2, <1>3 DEF Tells, EverFailedBefore
<1> QED  BY <1>1, <1>3 DEF Telling

\* Whatever the follow-up jobs of any number of scans read, and however their
\* reads, their writes, new scans, crashes and deliveries interleave, an
\* alert about a finding is about a transition that its scan shows against
\* the scan before, and its type fits the history of the target.
THEOREM AlertsTellTransitionsAlways == Spec => []AlertsTellTransitions
<1>1. Init => Types /\ Telling
  BY InitTypes DEF Init, Telling
<1>2. Types /\ Telling /\ [Next]_vars => Types' /\ Telling'
  BY TypeStep, TellingStep
<1>3. Types /\ Telling => AlertsTellTransitions
  BY DEF Types, Telling, AlertTells, Tells, AlertsTellTransitions
<1> QED  BY <1>1, <1>2, <1>3, PTL DEF Spec

-----------------------------------------------------------------------------
(* What is marked sent was delivered.                                      *)

LEMMA MailingStep == Types /\ Mailing /\ [Next]_vars => Mailing'
<1> SUFFICES ASSUME Types, Mailing, [Next]_vars PROVE Mailing'
  OBVIOUS
<1> USE DEF Mailing, SentMeansDelivered
<1>1. CASE TimePasses \/ CreateMonitor \/ DisableMonitor \/ BeginCycle \/ RunDenied
           \/ EnqueueScan \/ CycleLost \/ UNCHANGED vars
           \/ \E f \in Fingerprints : Suppress(f) \/ EndSuppression(f)
  BY <1>1 DEF TimePasses, CreateMonitor, DisableMonitor, BeginCycle, RunDenied, EnqueueScan,
      CycleLost, Suppress, EndSuppression, vars, taskVars, alertVars, Recorded
<1>2. ASSUME NEW j \in JobIds, RunDue(j) \/ SubmitScan(j) PROVE Mailing'
  BY <1>2 DEF RunDue, RunDueAs, SubmitScan, taskVars, alertVars, Recorded
<1>3. ASSUME NEW j \in JobIds,
             ScanStep(j) \/ ScanLost(j) \/ Compare(j) \/ TaskFaults(j)
      PROVE  Mailing'
  <2>1. alerts' = alerts /\ sent' = sent /\ outbox' = outbox /\ tries' = tries
    BY <1>3 DEF ScanStep, PublishScan, ScanDies, ScanLost, Compare, TaskFaults, alertVars
  <2>2. ASSUME NEW k \in JobIds, task'[k] = "mark" PROVE task[k] = "mark"
    BY <1>3, <2>2 DEF ScanStep, PublishScan, ScanDies, ScanLost, Compare, TaskFaults, Types
  <2> QED  BY <2>1, <2>2 DEF Recorded
<1>4. ASSUME NEW j \in JobIds, LoadMonitor(j) PROVE Mailing'
  <2>1. alerts' = alerts /\ sent' = sent /\ outbox' = outbox
    BY <1>4 DEF LoadMonitor, alertVars
  <2>2. ASSUME NEW k \in JobIds, task'[k] = "mark"
        PROVE  task[k] = "mark" /\ tries'[k] = tries[k]
    BY <1>4, <2>2 DEF LoadMonitor, Types
  <2> QED  BY <2>1, <2>2 DEF Recorded
<1>5. ASSUME NEW j \in JobIds, DetectRecord(j) PROVE Mailing'
  <2>1. sent' = sent /\ outbox' = outbox /\ tries' = tries /\ alerts \subseteq alerts'
    BY <1>5 DEF DetectRecord, RecordAs
  <2>2. \A a \in alerts' \ alerts : a.job = j
    BY <1>5 DEF DetectRecord, RecordAs, AlertsOf
  <2>3. ASSUME NEW k \in JobIds, task'[k] = "mark" PROVE task[k] = "mark" /\ k # j
    BY <1>5, <2>3 DEF DetectRecord, RecordAs, Types
  <2> QED  BY <2>1, <2>2, <2>3 DEF Recorded
<1>6. ASSUME NEW j \in JobIds, FailedAlertRecord(j) PROVE Mailing'
  <2>1. sent' = sent /\ outbox' = outbox /\ alerts \subseteq alerts'
    BY <1>6 DEF FailedAlertRecord
  <2>2. \A a \in alerts' \ alerts : a.job = j
    BY <1>6 DEF FailedAlertRecord
  <2>3. ASSUME NEW k \in JobIds, task'[k] = "mark"
        PROVE  task[k] = "mark" /\ k # j /\ tries'[k] = tries[k]
    BY <1>6, <2>3 DEF FailedAlertRecord, Types
  <2> QED  BY <2>1, <2>2, <2>3 DEF Recorded
<1>7. ASSUME NEW j \in JobIds, Notify(j) PROVE Mailing'
  <2>1. alerts' = alerts /\ sent' = sent /\ tries' = tries
        /\ outbox \subseteq outbox' /\ outbox' \subseteq outbox \union Recorded(j)
    BY <1>7 DEF Notify
  <2>2. Recorded(j) \subseteq alerts
    BY DEF Recorded
  <2>3. ASSUME NEW k \in JobIds, task'[k] = "mark" PROVE Recorded(k) \subseteq outbox'
    <3>1. CASE k # j
      BY <1>7, <2>1, <2>3, <3>1 DEF Notify, Types
    <3>2. CASE k = j
      BY <1>7, <2>3, <3>2 DEF Notify, Types
    <3> QED  BY <3>1, <3>2
  <2> QED  BY <2>1, <2>2, <2>3 DEF Recorded
<1>8. ASSUME NEW j \in JobIds, MarkSent(j) PROVE Mailing'
  <2>1. alerts' = alerts /\ outbox' = outbox /\ tries' = tries
        /\ sent' = sent \union Recorded(j) /\ Recorded(j) \subseteq outbox
    BY <1>8 DEF MarkSent
  <2>2. ASSUME NEW k \in JobIds, task'[k] = "mark" PROVE task[k] = "mark"
    BY <1>8, <2>2 DEF MarkSent, Types
  <2> QED  BY <2>1, <2>2 DEF Recorded
<1> QED
  BY <1>1, <1>2, <1>3, <1>4, <1>5, <1>6, <1>7, <1>8 DEF Next, CycleStep, TaskStep

\* sent_at is only set on alerts whose e-mail was delivered, and an e-mail
\* only tells of alerts that are committed, however often a job is delivered
\* again, killed between the e-mail and the mark, or refused by the mailer.
THEOREM SentMeansDeliveredAlways == Spec => []SentMeansDelivered
<1>1. Init => Types /\ Mailing
  BY InitTypes DEF Init, Mailing, SentMeansDelivered
<1>2. Types /\ Mailing /\ [Next]_vars => Types' /\ Mailing'
  BY TypeStep, MailingStep
<1>3. Mailing => SentMeansDelivered
  BY DEF Mailing
<1> QED  BY <1>1, <1>2, <1>3, PTL DEF Spec

-----------------------------------------------------------------------------
(* The kinds of steps, and what they leave alone.                          *)

\* Every row of scans is of a published job of its own.
ScansFit ==
  /\ \A n \in 1 .. Len(scans) : job[scans[n].job] = "published"
  /\ \A m, n \in 1 .. Len(scans) : scans[m].job = scans[n].job => m = n

\* The steps that are neither of a follow-up job nor publish a scan.
BackgroundStep ==
  \/ TimePasses \/ CreateMonitor \/ DisableMonitor
  \/ \E f \in Fingerprints : Suppress(f) \/ EndSuppression(f)
  \/ BeginCycle \/ CycleStep \/ CycleLost
  \/ \E j \in JobIds : SubmitScan(j) \/ ScanDies(j) \/ ScanLost(j)
  \/ UNCHANGED vars

\* Those of the follow-up job of j.
FollowUpStep(j) == TaskStep(j) \/ TaskFaults(j)

LEMMA StepKinds ==
  ASSUME [Next]_vars
  PROVE  \/ BackgroundStep
         \/ \E j \in JobIds : PublishScan(j)
         \/ \E j \in JobIds : FollowUpStep(j)
  BY DEF Next, ScanStep, BackgroundStep, FollowUpStep

\* What a background step leaves alone: the scans, what follow-up jobs have
\* read and written, and which jobs are published.
LEMMA BackgroundKeeps ==
  ASSUME Types, BackgroundStep
  PROVE  /\ UNCHANGED <<scans, tries, draft, alerts, toldVars>>
         /\ \A j \in JobIds :
              /\ job'[j] = "published" <=> job[j] = "published"
              /\ \/ task'[j] = task[j]
                 \/ task[j] = "none" /\ task'[j] = "queued" /\ job'[j] = "dead"
                 \/ task[j] = "queued" /\ task'[j] = "none"
<1> DEFINE Goal ==
      /\ UNCHANGED <<scans, tries, draft, alerts, toldVars>>
      /\ \A j \in JobIds :
           /\ job'[j] = "published" <=> job[j] = "published"
           /\ \/ task'[j] = task[j]
              \/ task[j] = "none" /\ task'[j] = "queued" /\ job'[j] = "dead"
              \/ task[j] = "queued" /\ task'[j] = "none"
<1> USE DEF scanVars, taskVars, alertVars, toldVars
<1>1. CASE TimePasses \/ CreateMonitor \/ DisableMonitor \/ BeginCycle \/ RunDenied
           \/ CycleLost \/ UNCHANGED vars
           \/ \E f \in Fingerprints : Suppress(f) \/ EndSuppression(f)
  BY <1>1 DEF TimePasses, CreateMonitor, DisableMonitor, BeginCycle, RunDenied,
      CycleLost, Suppress, EndSuppression, vars
<1>2. ASSUME NEW j \in JobIds, RunDue(j) \/ SubmitScan(j) PROVE Goal
  BY <1>2 DEF RunDue, RunDueAs, SubmitScan, Fresh, Types
<1>3. CASE EnqueueScan
  BY <1>3 DEF EnqueueScan, Types, CycleFits, Idle, RunCycles, EnqueueCycles
<1>4. ASSUME NEW j \in JobIds, ScanDies(j) PROVE Goal
  BY <1>4 DEF ScanDies, Types, TaskFits
<1>5. ASSUME NEW j \in JobIds, ScanLost(j) PROVE Goal
  BY <1>5 DEF ScanLost, Types
<1> QED
  BY <1>1, <1>2, <1>3, <1>4, <1>5 DEF BackgroundStep, CycleStep

\* What a step of a follow-up job leaves alone.
LEMMA FollowUpKeeps ==
  ASSUME Types, NEW j \in JobIds, FollowUpStep(j)
  PROVE  /\ UNCHANGED <<now, suppressed, job, scheduled, scans, cycle>>
         /\ task[j] \notin Settled
         /\ \A k \in JobIds \ {j} : task'[k] = task[k] /\ draft'[k] = draft[k]
                                      /\ tries'[k] = tries[k]
<1> USE DEF Types, scanVars, Settled
<1>1. CASE LoadMonitor(j)
  BY <1>1 DEF LoadMonitor
<1>2. CASE Compare(j)
  BY <1>2 DEF Compare
<1>3. CASE DetectRecord(j)
  BY <1>3 DEF DetectRecord, RecordAs
<1>4. CASE FailedAlertRecord(j)
  BY <1>4 DEF FailedAlertRecord
<1>5. CASE Notify(j) \/ MarkSent(j) \/ TaskFaults(j)
  BY <1>5 DEF Notify, MarkSent, TaskFaults
<1> QED
  BY <1>1, <1>2, <1>3, <1>4, <1>5 DEF FollowUpStep, TaskStep

\* What publishing changes.
LEMMA PublishKeeps ==
  ASSUME Types, NEW j \in JobIds, PublishScan(j)
  PROVE  /\ UNCHANGED <<now, monitor, suppressed, scheduled, cycle, tries, draft, alerts,
                       toldVars>>
         /\ job[j] = "queued" /\ job'[j] = "published" /\ task'[j] = "queued"
         /\ \A k \in JobIds \ {j} : job'[k] = job[k] /\ task'[k] = task[k]
         /\ \E row \in ScanRows : row.job = j /\ scans' = Append(scans, row)
<1>1. PICK failed \in SUBSET Fingerprints, score \in Scores, major \in Majors :
        scans' = Append(scans, [job |-> j, failed |-> failed,
                                score |-> score, major |-> major])
  BY DEF PublishScan
<1>2. [job |-> j, failed |-> failed, score |-> score, major |-> major] \in ScanRows
  BY DEF ScanRows
<1>3. \E row \in ScanRows : row.job = j /\ scans' = Append(scans, row)
  BY <1>1, <1>2
<1> QED
  BY <1>3 DEF PublishScan, Types, alertVars

\* Rows of scans are added for jobs that had none.
LEMMA ScansFitStep ==
  ASSUME Types, ScansFit, [Next]_vars
  PROVE  ScansFit'
<1>1. \A n \in 1 .. Len(scans) : scans[n].job \in JobIds
  <2>1. \A n \in 1 .. Len(scans) : scans[n] \in ScanRows
    BY DEF Types
  <2> QED
    BY <2>1 DEF ScanRows
<1>2. CASE BackgroundStep
  BY <1>1, <1>2, BackgroundKeeps DEF ScansFit
<1>3. ASSUME NEW j \in JobIds, PublishScan(j) PROVE ScansFit'
  <2>1. PICK row \in ScanRows : row.job = j /\ scans' = Append(scans, row)
    BY <1>3, PublishKeeps
  <2>2. /\ Len(scans) \in Nat /\ Len(scans') = Len(scans) + 1
        /\ \A n \in 1 .. Len(scans) : scans'[n] = scans[n]
        /\ scans'[Len(scans) + 1] = row
    BY <2>1 DEF Types
  <2>3. \A n \in 1 .. Len(scans) : scans[n].job # j
    BY <1>3, PublishKeeps DEF ScansFit
  <2>4. ASSUME NEW n \in 1 .. Len(scans') PROVE job'[scans'[n].job] = "published"
    BY <1>1, <1>3, <2>1, <2>2, <2>3, PublishKeeps DEF ScansFit
  <2>5. ASSUME NEW m \in 1 .. Len(scans'), NEW n \in 1 .. Len(scans'),
               scans'[m].job = scans'[n].job
        PROVE  m = n
    BY <2>1, <2>2, <2>3, <2>5 DEF ScansFit
  <2> QED
    BY <2>4, <2>5 DEF ScansFit
<1>4. ASSUME NEW j \in JobIds, FollowUpStep(j) PROVE ScansFit'
  BY <1>4, FollowUpKeeps DEF ScansFit
<1> QED
  BY <1>2, <1>3, <1>4, StepKinds
\* Alerts are added by the jobs that record, and by no other step.
LEMMA NewAlerts ==
  ASSUME Types, [Next]_vars
  PROVE  /\ alerts \subseteq alerts'
         /\ \A a \in alerts' \ alerts :
              \/ \E j \in JobIds : DetectRecord(j)
              \/ \E j \in JobIds : /\ FailedAlertRecord(j)
                                   /\ a.job = j /\ a.type = "scan_failed"
                                   /\ a.fingerprint = {}
<1>1. CASE BackgroundStep
  BY <1>1, BackgroundKeeps
<1>2. CASE \E j \in JobIds : PublishScan(j)
  BY <1>2, PublishKeeps
<1>3. ASSUME NEW j \in JobIds, DetectRecord(j) PROVE alerts \subseteq alerts'
  BY <1>3 DEF DetectRecord, RecordAs
<1>4. ASSUME NEW j \in JobIds, FailedAlertRecord(j)
      PROVE  /\ alerts \subseteq alerts'
             /\ \A a \in alerts' \ alerts :
                  a.job = j /\ a.type = "scan_failed" /\ a.fingerprint = {}
  BY <1>4 DEF FailedAlertRecord
<1>5. ASSUME NEW j \in JobIds,
             LoadMonitor(j) \/ Compare(j) \/ Notify(j) \/ MarkSent(j) \/ TaskFaults(j)
      PROVE  alerts' = alerts
  BY <1>5 DEF LoadMonitor, Compare, Notify, MarkSent, TaskFaults, alertVars
<1>6. ASSUME NEW j \in JobIds, FollowUpStep(j)
      PROVE  DetectRecord(j) \/ FailedAlertRecord(j) \/ alerts' = alerts
  BY <1>5, <1>6 DEF FollowUpStep, TaskStep
<1>7. CASE \E j \in JobIds : FollowUpStep(j)
  <2>1. PICK j \in JobIds : FollowUpStep(j)
    BY <1>7
  <2>2. CASE DetectRecord(j)
    BY <1>3, <2>2
  <2>3. CASE FailedAlertRecord(j)
    BY <1>4, <2>3
  <2>4. CASE alerts' = alerts
    BY <2>4
  <2> QED
    BY <1>6, <2>1, <2>2, <2>3, <2>4
<1> QED
  BY <1>1, <1>2, <1>7, StepKinds
\* What has been recorded of scans stays as it is.
LEMMA ScansStay ==
  ASSUME Types, [Next]_vars
  PROVE  /\ Len(scans) \in Nat /\ Len(scans') \in Nat /\ Len(scans) <= Len(scans')
         /\ \A n \in 1 .. Len(scans) :
              /\ scans'[n] = scans[n] /\ scans[n].job \in JobIds
              /\ EverFailedBefore(n)' = EverFailedBefore(n)
<1>1. Len(scans) \in Nat /\ Len(scans') \in Nat /\ Len(scans) <= Len(scans')
  BY ScansGrow DEF Types
<1>2. \A n \in 1 .. Len(scans) : scans'[n] = scans[n]
  <2>1. CASE scans' = scans
    BY <2>1
  <2>2. ASSUME NEW row \in ScanRows, scans' = Append(scans, row)
        PROVE  \A n \in 1 .. Len(scans) : scans'[n] = scans[n]
    BY <2>2 DEF Types
  <2> QED
    BY <2>1, <2>2, ScansGrow
<1>3. \A n \in 1 .. Len(scans) : scans[n] \in ScanRows
  BY DEF Types
<1>4. ASSUME NEW n \in 1 .. Len(scans) PROVE EverFailedBefore(n)' = EverFailedBefore(n)
  BY <1>1, <1>2 DEF EverFailedBefore
<1> QED
  BY <1>1, <1>2, <1>3, <1>4 DEF ScanRows

LEMMA EverFailedGrows ==
  ASSUME NEW n \in Nat, n >= 2
  PROVE  EverFailedBefore(n) = EverFailedBefore(n - 1) \union scans[n - 1].failed
<1>1. 1 .. n - 1 = (1 .. (n - 1) - 1) \union {n - 1}
  OBVIOUS
<1> QED
  BY <1>1 DEF EverFailedBefore

\* An event of a report is the only one about its finding.
LEMMA OneEventPerFinding ==
  ASSUME NEW previous, NEW current, NEW ever, NEW pending, NEW suppr,
         NEW d \in DetectRegression(previous, current, ever, pending, suppr).events,
         NEW e \in DetectRegression(previous, current, ever, pending, suppr).events,
         d.fingerprint = e.fingerprint
  PROVE  d = e
<1>1. d \in Events(previous, current, ever, suppr) /\ e \in Events(previous, current, ever, suppr)
  BY DEF DetectRegression
<1> QED
  BY <1>1 DEF Events
\* A scan that showed what deserves an alert shows it still.
LEMMA DeservingStays ==
  ASSUME Types, [Next]_vars, NEW n \in 2 .. Len(scans)
  PROVE  Deserving(n)' = Deserving(n)
<1>1. /\ scans'[n] = scans[n] /\ scans'[n - 1] = scans[n - 1]
      /\ EverFailedBefore(n)' = EverFailedBefore(n)
  BY ScansStay
<1> QED
  BY <1>1 DEF Deserving

\* A report has an event for all that deserves one and is not suppressed.
LEMMA ReportTellsDeserving ==
  ASSUME Types, NEW n \in 2 .. Len(scans), NEW pending, NEW suppr,
         NEW f \in Deserving(n) \ suppr
  PROVE  \E e \in DetectRegression(scans[n - 1], scans[n], EverFailedBefore(n - 1),
                                   pending, suppr).events : e.fingerprint = f
<1> DEFINE ever == EverFailedBefore(n - 1)
<1>1. /\ f \in scans[n].failed /\ f \notin scans[n - 1].failed
      /\ scans[n - 1].major = scans[n].major
      /\ f \in CertExpiry \union Critical \union High \union EverFailedBefore(n)
  BY DEF Deserving
<1>2. f \in CertExpiry \union ever \union Critical \union High
  BY <1>1, EverFailedGrows
<1> HIDE DEF ever
<1>3. f \in Alertable(scans[n - 1], scans[n], ever, suppr)
  BY <1>1, <1>2 DEF Alertable, NewlyFailed
<1>4. [type |-> EventType(f, ever), fingerprint |-> f]
        \in Events(scans[n - 1], scans[n], ever, suppr)
  BY <1>3 DEF Events
<1>5. DetectRegression(scans[n - 1], scans[n], ever, pending, suppr).events
        = Events(scans[n - 1], scans[n], ever, suppr)
  BY <1>1 DEF DetectRegression
<1> QED
  BY <1>4, <1>5 DEF ever
\* A report tells of a drop, or remembers it, if the scans show it, and tells
\* of it if one is remembered or a critical event is beside it.
LEMMA DiffDrops ==
  ASSUME NEW previous, NEW current, NEW ever, NEW hadPending, NEW suppr,
         NEW report, report = DetectRegression(previous, current, ever, hadPending, suppr)
  PROVE  /\ report.pending => Dropped(previous, current)
         /\ report.scoreDrop =>
              /\ Dropped(previous, current)
              /\ \/ hadPending
                 \/ \E e \in report.events : e.type \in {"new_critical", "cert_expiry"}
<1> DEFINE events == Events(previous, current, ever, suppr)
           drop == Dropped(previous, current)
           conf == Confirmed(events, hadPending)
<1>1. drop \in BOOLEAN /\ conf \in BOOLEAN
  BY DEF Dropped, Confirmed
<1>2. CASE previous.major # current.major
  <2>1. report.pending = FALSE /\ report.scoreDrop = FALSE
    BY <1>2 DEF DetectRegression
  <2> QED
    BY <2>1
<1>3. CASE previous.major = current.major
  <2>1. report = [events |-> events, scoreDrop |-> drop /\ conf, pending |-> drop /\ ~conf]
    BY <1>3 DEF DetectRegression
  <2>2. conf => hadPending \/ \E e \in events : e.type \in {"new_critical", "cert_expiry"}
    BY DEF Confirmed
  <2> HIDE DEF events, drop, conf
  <2>3. /\ report.events = events
        /\ report.scoreDrop = (drop /\ conf) /\ report.pending = (drop /\ ~conf)
    BY ONLY <2>1, Zenon
  <2>4. report.pending => drop
    BY ONLY <1>1, <2>3
  <2>5. report.scoreDrop => drop /\ conf
    BY ONLY <1>1, <2>3
  <2> QED
    BY <2>2, <2>3, <2>4, <2>5 DEF drop
<1> QED
  BY <1>2, <1>3

-----------------------------------------------------------------------------
(* What a detection has told, and what its draft rests on.                 *)

HasScan(j, n) == \E i \in 1 .. n : scans[i].job = j

\* A delivery that committed by scan n remembered a drop.
Seen(n) == \E r \in reports : r.pending /\ r.scan <= n

\* A published scan has its row.
RowFits(j) == job[j] = "published" => HasScan(j, Len(scans))

\* The draft's report is of a scan that is not before the job's own; if it
\* counts on a drop before, a delivery that committed remembered one.
DraftRests(j) ==
  LET n == draft[j].scan IN
  /\ n \in 2 .. Len(scans) /\ HasScan(j, n)
  /\ \E pending \in BOOLEAN :
       /\ pending => Seen(n)
       /\ draft[j].report = DetectRegression(scans[n - 1], scans[n],
                              EverFailedBefore(n - 1), pending, draft[j].hidden)

Drafted(j) ==
  /\ task[j] \in {"loaded", "record"} => job[j] = "published"
  /\ task[j] = "loaded" /\ draft[j].monitor.pending => Seen(Len(scans))
  /\ task[j] = "record" => DraftRests(j)

\* What a delivery has committed it told completely.
ReportHolds(r) ==
  /\ r.scan \in 2 .. Len(scans) /\ HasScan(r.job, r.scan)
  /\ r.pending => Dropped(scans[r.scan - 1], scans[r.scan])
  /\ \A f \in Deserving(r.scan) \ r.hidden : IsTold(r.scan, f)

\* Why a score drop was told.
DropSeen(a) ==
  /\ a.scan \in 2 .. Len(scans)
  /\ Dropped(scans[a.scan - 1], scans[a.scan])
  /\ \/ \E b \in alerts : /\ b.job = a.job /\ b.try = a.try
                          /\ b.type \in {"new_critical", "cert_expiry"}
     \/ \E r \in reports :
          /\ <<r.job, r.try>> # <<a.job, a.try>> /\ r.scan <= a.scan
          /\ Dropped(scans[r.scan - 1], scans[r.scan])

AlertHolds(a) ==
  /\ a.fingerprint # {} => a.scan \in 1 .. Len(scans) /\ HasScan(a.job, a.scan)
  /\ a.type = "score_drop" => DropSeen(a)

\* What a delivery writes it writes at its end.
TryFits(x) ==
  /\ x.try <= tries[x.job]
  /\ task[x.job] \in {"loaded", "record"} => x.try < tries[x.job]

\* The bit that remembers a drop is nowhere set without a delivery that saw
\* one: not in the row, and not in the row as the cycle has read it.
PendingWasSeen ==
  /\ monitor # NoMonitor /\ monitor.pending => Seen(Len(scans))
  /\ cycle.at = "run" /\ cycle.monitor.pending => Seen(Len(scans))

\* One delivery tells a finding once.
ToldOnce ==
  \A a, b \in alerts : \A f \in a.fingerprint \intersect b.fingerprint :
    a.job = b.job /\ a.try = b.try => a = b

DetectionInv ==
  /\ Types /\ ScansFit
  /\ \A j \in JobIds : RowFits(j) /\ Drafted(j)
  /\ \A r \in reports : ReportHolds(r) /\ TryFits(r)
  /\ \A a \in alerts : AlertHolds(a) /\ TryFits(a)
  /\ PendingWasSeen
  /\ ToldOnce

-----------------------------------------------------------------------------
(* What is recorded stays.                                                 *)

\* Reports are added by the jobs that record, and by no other step.
LEMMA NewReports ==
  ASSUME Types, [Next]_vars
  PROVE  /\ reports \subseteq reports'
         /\ (\A j \in JobIds : ~ DetectRecord(j)) => UNCHANGED toldVars
<1>1. CASE BackgroundStep
  BY <1>1, BackgroundKeeps DEF toldVars
<1>2. CASE \E j \in JobIds : PublishScan(j)
  BY <1>2, PublishKeeps DEF toldVars
<1>3. ASSUME NEW j \in JobIds, DetectRecord(j) PROVE reports \subseteq reports'
  BY <1>3 DEF DetectRecord, RecordAs
<1>4. ASSUME NEW j \in JobIds, FollowUpStep(j), ~ DetectRecord(j)
      PROVE  UNCHANGED toldVars
  BY <1>4 DEF FollowUpStep, TaskStep, LoadMonitor, Compare, FailedAlertRecord, Notify,
      MarkSent, TaskFaults, toldVars
<1> QED
  BY <1>1, <1>2, <1>3, <1>4, StepKinds DEF toldVars

LEMMA HasScanStays ==
  ASSUME Types, [Next]_vars, NEW j, NEW n \in 1 .. Len(scans), HasScan(j, n)
  PROVE  HasScan(j, n)'
BY ScansStay DEF HasScan

LEMMA SeenStays ==
  ASSUME Types, [Next]_vars, NEW n \in Nat, NEW m \in Nat, n <= m, Seen(n)
  PROVE  Seen(m)'
<1>1. PICK r \in reports : r.pending /\ r.scan <= n
  BY DEF Seen
<1>2. r \in reports' /\ r.scan \in Nat
  BY NewReports DEF Types, Committed
<1> QED
  BY <1>1, <1>2 DEF Seen

LEMMA RowFitsStep ==
  ASSUME Types, [Next]_vars, NEW j \in JobIds, RowFits(j)
  PROVE  RowFits(j)'
<1>0. job[j] = "published" => RowFits(j)'
  BY ScansStay DEF RowFits, HasScan
<1>1. CASE BackgroundStep
  BY <1>0, <1>1, BackgroundKeeps DEF RowFits
<1>2. ASSUME NEW k \in JobIds, PublishScan(k) PROVE RowFits(j)'
  <2>1. CASE j # k
    BY <1>0, <1>2, <2>1, PublishKeeps DEF RowFits
  <2>2. CASE j = k
    <3>1. PICK row \in ScanRows : row.job = j /\ scans' = Append(scans, row)
      BY <1>2, <2>2, PublishKeeps
    <3>2. Len(scans') \in 1 .. Len(scans') /\ scans'[Len(scans')] = row
      BY <3>1 DEF Types
    <3> QED
      BY <3>1, <3>2 DEF RowFits, HasScan
  <2> QED
    BY <2>1, <2>2
<1>3. ASSUME NEW k \in JobIds, FollowUpStep(k) PROVE RowFits(j)'
  BY <1>0, <1>3, FollowUpKeeps DEF RowFits
<1> QED
  BY <1>1, <1>2, <1>3, StepKinds

\* A draft that a step leaves alone rests on what it did.
LEMMA DraftRestsStays ==
  ASSUME Types, [Next]_vars, NEW j \in JobIds, DraftRests(j), draft'[j] = draft[j]
  PROVE  DraftRests(j)'
<1> DEFINE n == draft[j].scan
<1>1. n \in 2 .. Len(scans) /\ HasScan(j, n)
  BY DEF DraftRests
<1>2. n \in 2 .. Len(scans') /\ HasScan(j, n)'
  BY <1>1, ScansStay, HasScanStays
<1>3. PICK pending \in BOOLEAN :
        /\ pending => Seen(n)
        /\ draft[j].report = DetectRegression(scans[n - 1], scans[n],
                               EverFailedBefore(n - 1), pending, draft[j].hidden)
  BY DEF DraftRests
<1>4. pending => Seen(n)'
  BY <1>1, <1>3, SeenStays, ScansStay
<1>5. scans'[n] = scans[n] /\ scans'[n - 1] = scans[n - 1]
      /\ EverFailedBefore(n - 1)' = EverFailedBefore(n - 1)
  BY <1>1, ScansStay
<1>6. draft'[j].report = DetectRegression(scans'[n - 1], scans'[n],
                           EverFailedBefore(n - 1)', pending, draft'[j].hidden)
  BY <1>3, <1>5
<1> QED
  BY <1>2, <1>4, <1>6 DEF DraftRests, HasScan, Seen, EverFailedBefore

LEMMA ToldStays ==
  ASSUME Types, [Next]_vars, NEW n, NEW f, IsTold(n, f)
  PROVE  IsTold(n, f)'
BY NewAlerts DEF IsTold

LEMMA ReportStays ==
  ASSUME Types, [Next]_vars, NEW r, ReportHolds(r)
  PROVE  ReportHolds(r)'
<1>1. r.scan \in 2 .. Len(scans) /\ HasScan(r.job, r.scan)
  BY DEF ReportHolds
<1>2. r.scan \in 2 .. Len(scans') /\ HasScan(r.job, r.scan)'
  BY <1>1, ScansStay, HasScanStays
<1>3. /\ scans'[r.scan] = scans[r.scan] /\ scans'[r.scan - 1] = scans[r.scan - 1]
      /\ Deserving(r.scan)' = Deserving(r.scan)
  BY <1>1, ScansStay, DeservingStays
<1>4. \A f \in Deserving(r.scan) \ r.hidden : IsTold(r.scan, f)'
  BY ToldStays DEF ReportHolds
<1> QED
  BY <1>2, <1>3, <1>4 DEF ReportHolds, HasScan, IsTold

LEMMA AlertStays ==
  ASSUME Types, [Next]_vars, \A r \in reports : ReportHolds(r), NEW a, AlertHolds(a)
  PROVE  AlertHolds(a)'
<1>1. a.fingerprint # {} => a.scan \in 1 .. Len(scans') /\ HasScan(a.job, a.scan)'
  BY ScansStay, HasScanStays DEF AlertHolds
<1>2. ASSUME DropSeen(a) PROVE DropSeen(a)'
  <2>1. a.scan \in 2 .. Len(scans') /\ Dropped(scans'[a.scan - 1], scans'[a.scan])
    BY <1>2, ScansStay DEF DropSeen
  <2>2. ASSUME NEW b \in alerts PROVE b \in alerts'
    BY NewAlerts
  <2>3. ASSUME NEW r \in reports, Dropped(scans[r.scan - 1], scans[r.scan])
        PROVE  r \in reports' /\ Dropped(scans'[r.scan - 1], scans'[r.scan])
    <3>1. r.scan \in 2 .. Len(scans)
      BY DEF ReportHolds
    <3> QED
      BY <2>3, <3>1, NewReports, ScansStay
  <2> QED
    BY <1>2, <2>1, <2>2, <2>3 DEF DropSeen
<1> QED
  BY <1>1, <1>2 DEF AlertHolds, HasScan

\* No step takes a delivery back.
LEMMA TryStays ==
  ASSUME Types, [Next]_vars, NEW x, x.job \in JobIds, x.try \in Nat, TryFits(x)
  PROVE  TryFits(x)'
<1> DEFINE j == x.job
<1>0. tries[j] \in Nat /\ task \in [JobIds -> TaskStates] /\ tries \in [JobIds -> Nat]
  BY DEF Types
<1>1. CASE BackgroundStep
  BY <1>1, BackgroundKeeps DEF TryFits
<1>2. ASSUME NEW k \in JobIds, PublishScan(k) PROVE TryFits(x)'
  BY <1>2, PublishKeeps DEF TryFits
<1>3. ASSUME NEW k \in JobIds, FollowUpStep(k) PROVE TryFits(x)'
  <2>1. CASE k # j
    BY <1>3, <2>1, FollowUpKeeps DEF TryFits
  <2>2. CASE LoadMonitor(j) \/ FailedAlertRecord(j)
    BY <1>0, <2>2 DEF LoadMonitor, FailedAlertRecord, TryFits
  <2>3. CASE Compare(j)
    BY <1>0, <2>3 DEF Compare, TryFits
  <2>4. CASE DetectRecord(j) \/ Notify(j) \/ MarkSent(j) \/ TaskFaults(j)
    BY <1>0, <2>4 DEF DetectRecord, RecordAs, Notify, MarkSent, TaskFaults, TryFits
  <2> QED
    BY <1>3, <2>1, <2>2, <2>3, <2>4 DEF FollowUpStep, TaskStep
<1> QED
  BY <1>1, <1>2, <1>3, StepKinds

-----------------------------------------------------------------------------
(* What a step of a detection adds.                                        *)

LEMMA DraftedStep ==
  ASSUME DetectionInv, [Next]_vars, NEW j \in JobIds
  PROVE  Drafted(j)'
<1> USE DEF DetectionInv
<1>0. Len(scans) \in Nat /\ Len(scans') \in Nat /\ Len(scans) <= Len(scans')
  BY ScansStay
<1>1. ASSUME task'[j] = task[j], draft'[j] = draft[j],
             job[j] = "published" => job'[j] = "published"
      PROVE  Drafted(j)'
  <2>1. Seen(Len(scans)) => Seen(Len(scans))'
    BY <1>0, SeenStays DEF Seen
  <2>2. task[j] = "record" => DraftRests(j)'
    BY <1>1, DraftRestsStays DEF Drafted
  <2> QED
    BY <1>1, <2>1, <2>2 DEF Drafted
<1>2. ASSUME task'[j] \notin {"loaded", "record"} PROVE Drafted(j)'
  BY <1>2 DEF Drafted
<1>3. CASE BackgroundStep
  BY <1>1, <1>2, <1>3, BackgroundKeeps
<1>4. ASSUME NEW k \in JobIds, PublishScan(k) PROVE Drafted(j)'
  BY <1>1, <1>2, <1>4, PublishKeeps
<1>5. ASSUME NEW k \in JobIds, FollowUpStep(k), k # j PROVE Drafted(j)'
  BY <1>1, <1>5, FollowUpKeeps
<1>6. CASE LoadMonitor(j)
  <2>1. /\ task'[j] \in {"loaded", "skipped"} /\ job'[j] = "published"
        /\ scans' = scans /\ reports' = reports
    BY <1>6 DEF LoadMonitor, Types, scanVars, toldVars
  <2>2. task'[j] = "loaded" => draft'[j] = [monitor |-> monitor] /\ monitor # NoMonitor
    BY <1>6 DEF LoadMonitor, MonitorIsActive, Types
  <2> QED
    BY <2>1, <2>2 DEF Drafted, PendingWasSeen, Seen
<1>7. CASE Compare(j)
  <2>0. PICK n, m : n = Len(scans) /\ m = draft[j].monitor
    OBVIOUS
  <2> DEFINE r == DetectRegression(scans[n - 1], scans[n], EverFailedBefore(n - 1),
                                   m.pending, suppressed)
  <2>1. /\ job[j] = "published" /\ job'[j] = "published"
        /\ scans' = scans /\ reports' = reports
        /\ m.pending \in BOOLEAN /\ (m.pending => Seen(n))
    BY <1>7, <2>0 DEF Compare, Drafted, Types, DraftFits, LoadedDrafts, Monitors,
        scanVars, toldVars
  <2>2. CASE task'[j] = "record"
    <3>1. n >= 2 /\ draft'[j] = [scan |-> n, nextRun |-> m.nextRun,
                                 hidden |-> suppressed, report |-> r]
      BY <1>7, <2>0, <2>2 DEF Compare, Types
    <3> HIDE DEF r
    <3>2. draft'[j].scan = n /\ draft'[j].hidden = suppressed /\ draft'[j].report = r
      BY <3>1
    <3>3. n \in 2 .. Len(scans') /\ HasScan(j, n)' /\ (m.pending => Seen(n)')
      BY <1>0, <2>0, <2>1, <3>1 DEF RowFits, HasScan, Seen
    <3>4. r = DetectRegression(scans'[n - 1], scans'[n], EverFailedBefore(n - 1)',
                               m.pending, suppressed)
      BY <2>1 DEF EverFailedBefore, r
    <3>5. DraftRests(j)'
      BY <2>1, <3>2, <3>3, <3>4 DEF DraftRests, HasScan, Seen, EverFailedBefore
    <3> QED
      BY <2>1, <2>2, <3>5 DEF Drafted
  <2>3. CASE task'[j] # "record"
    BY <1>2, <1>7, <2>3 DEF Compare, Types
  <2> QED
    BY <2>2, <2>3
<1>8. CASE DetectRecord(j) \/ FailedAlertRecord(j) \/ Notify(j) \/ MarkSent(j)
           \/ TaskFaults(j)
  <2>1. task'[j] \notin {"loaded", "record"}
    BY <1>8 DEF DetectRecord, RecordAs, FailedAlertRecord, Notify, MarkSent, TaskFaults,
        Types
  <2> QED
    BY <1>2, <2>1
<1> QED
  BY <1>3, <1>4, <1>5, <1>6, <1>7, <1>8, StepKinds DEF FollowUpStep, TaskStep

\* What a job that records has read and writes.
LEMMA RecordFacts ==
  ASSUME DetectionInv, NEW j \in JobIds, DetectRecord(j)
  PROVE  /\ task[j] = "record" /\ draft[j] \in FilledDrafts /\ DraftRests(j)
         /\ monitor \in Monitors /\ monitor' \in Monitors
         /\ monitor'.nextRun = draft[j].nextRun
         /\ monitor'.pending = draft[j].report.pending
         /\ alerts' = alerts \union AlertsOf(j, draft[j].scan, draft[j].report)
         /\ reports' = reports \union {ReportOf(j)}
         /\ UNCHANGED <<now, job, scans, scheduled, cycle, tries>>
<1>1. task[j] = "record" /\ draft[j] \in FilledDrafts /\ monitor \in Monitors
  BY DEF DetectRecord, RecordAs, DetectionInv, Types, DraftFits
<1>2. DraftRests(j)
  BY <1>1 DEF DetectionInv, Drafted
<1>3. draft[j].nextRun \in 0 .. MaxTime + 1 /\ draft[j].report.pending \in BOOLEAN
  BY <1>1 DEF FilledDrafts, Reports, Times
<1>4. monitor' = [monitor EXCEPT !.nextRun = draft[j].nextRun,
                                 !.pending = draft[j].report.pending]
  BY DEF DetectRecord, RecordAs
<1>5. /\ monitor' \in Monitors /\ monitor'.nextRun = draft[j].nextRun
      /\ monitor'.pending = draft[j].report.pending
  <2> DEFINE t == draft[j].nextRun
             p == draft[j].report.pending
  <2>1. monitor' = [monitor EXCEPT !.nextRun = t, !.pending = p]
        /\ t \in 0 .. MaxTime + 1 /\ p \in BOOLEAN
    BY <1>3, <1>4
  <2> HIDE DEF t, p
  <2>2. /\ monitor' \in Monitors /\ monitor'.nextRun = t /\ monitor'.pending = p
    BY <1>1, <2>1 DEF Monitors
  <2> QED
    BY <2>2 DEF t, p
<1> QED
  BY <1>1, <1>2, <1>5 DEF DetectRecord, RecordAs, scanVars

\* The report of a delivery that commits: all that its scan shows is told.
LEMMA RecordReports ==
  ASSUME DetectionInv, [Next]_vars, NEW j \in JobIds, DetectRecord(j),
         NEW r, r = ReportOf(j)
  PROVE  ReportHolds(r)' /\ TryFits(r)'
<1>n. PICK n, hid, d :
        n = draft[j].scan /\ hid = draft[j].hidden /\ d = draft[j].report
  OBVIOUS
<1>0. r = [job |-> j, try |-> tries[j], scan |-> n, hidden |-> hid,
           pending |-> d.pending]
  BY <1>n DEF ReportOf
<1>1. /\ n \in 2 .. Len(scans) /\ HasScan(j, n) /\ scans' = scans /\ tries' = tries
      /\ alerts' = alerts \union AlertsOf(j, n, d) /\ Types
  BY <1>n, RecordFacts DEF DraftRests, DetectionInv
<1>2. PICK pending \in BOOLEAN :
        d = DetectRegression(scans[n - 1], scans[n], EverFailedBefore(n - 1), pending, hid)
  BY <1>n, RecordFacts DEF DraftRests
<1>3. d.pending => Dropped(scans[n - 1], scans[n])
  BY <1>2, DiffDrops
<1>4. ASSUME NEW f \in Deserving(n) \ hid PROVE IsTold(n, f)'
  <2>0. \E e \in DetectRegression(scans[n - 1], scans[n], EverFailedBefore(n - 1),
                               pending, hid).events : e.fingerprint = f
    <3>1. Types /\ n \in 2 .. Len(scans)
      BY <1>1
    <3> HIDE DEF DetectionInv
    <3> QED
      BY ONLY <1>4, <3>1, ReportTellsDeserving
  <2>1. PICK e \in d.events : e.fingerprint = f
    BY <1>2, <2>0
  <2>2. [job |-> j, try |-> tries[j], scan |-> n, type |-> e.type,
         fingerprint |-> {e.fingerprint}] \in AlertsOf(j, n, d)
    BY DEF AlertsOf
  <2> QED
    BY <1>1, <2>1, <2>2 DEF IsTold
<1>5. Deserving(n)' = Deserving(n)
  BY <1>1, DeservingStays
<1>6. task'[j] \notin {"loaded", "record"} /\ tries[j] \in Nat
  BY <1>1 DEF DetectRecord, RecordAs, Types
<1> QED
  BY <1>0, <1>1, <1>3, <1>4, <1>5, <1>6 DEF ReportHolds, HasScan, TryFits

\* The alerts of a delivery that commits.
LEMMA RecordAlerts ==
  ASSUME DetectionInv, [Next]_vars, NEW j \in JobIds, DetectRecord(j),
         NEW a \in alerts' \ alerts
  PROVE  /\ AlertHolds(a)' /\ TryFits(a)'
         /\ \A b \in alerts' : \A f \in a.fingerprint \intersect b.fingerprint :
              a.job = b.job /\ a.try = b.try => a = b
<1> DEFINE n == draft[j].scan
           d == draft[j].report
<1>1. /\ n \in 2 .. Len(scans) /\ HasScan(j, n) /\ scans' = scans /\ tries' = tries
      /\ alerts' = alerts \union AlertsOf(j, n, d) /\ Types /\ task[j] = "record"
      /\ d \in Reports /\ reports \subseteq reports'
  BY RecordFacts, NewReports DEF DraftRests, DetectionInv, FilledDrafts
<1>2. PICK pending \in BOOLEAN :
        /\ pending => Seen(n)
        /\ d = DetectRegression(scans[n - 1], scans[n], EverFailedBefore(n - 1), pending,
                                draft[j].hidden)
  BY RecordFacts DEF DraftRests
<1>3. \A c, e \in d.events : c.fingerprint = e.fingerprint => c = e
  BY <1>2, OneEventPerFinding
<1>4. d.scoreDrop =>
        /\ Dropped(scans[n - 1], scans[n])
        /\ \/ pending
           \/ \E e \in d.events : e.type \in {"new_critical", "cert_expiry"}
  BY <1>2, DiffDrops
<1>5. \A x \in alerts \union reports : x.job = j => x.try < tries[j]
  BY <1>1 DEF DetectionInv, TryFits
<1>6. task'[j] \notin {"loaded", "record"} /\ tries[j] \in Nat
  BY <1>1 DEF DetectRecord, RecordAs, Types
<1> HIDE DEF d, n
<1>7. a \in AlertsOf(j, n, d)
  BY <1>1
<1>8. \A b \in AlertsOf(j, n, d) :
        /\ b.job = j /\ b.try = tries[j] /\ b.scan = n
        /\ b.fingerprint # {} => \E e \in d.events :
             b = [job |-> j, try |-> tries[j], scan |-> n, type |-> e.type,
                  fingerprint |-> {e.fingerprint}]
        /\ b.type = "score_drop" => d.scoreDrop
  <2>1. \A e \in d.events : e.type # "score_drop"
    BY <1>1 DEF Reports, Events1, EventTypes
  <2> QED
    BY <2>1 DEF AlertsOf
<1>9. TryFits(a)'
  BY <1>1, <1>6, <1>7, <1>8 DEF TryFits
<1>10. ASSUME NEW b \in alerts', NEW f \in a.fingerprint \intersect b.fingerprint,
              a.job = b.job, a.try = b.try
       PROVE  a = b
  <2>1. b \in AlertsOf(j, n, d)
    BY <1>1, <1>5, <1>6, <1>7, <1>8, <1>10
  <2>2. PICK c \in d.events :
          a = [job |-> j, try |-> tries[j], scan |-> n, type |-> c.type,
               fingerprint |-> {c.fingerprint}]
    BY <1>7, <1>8, <1>10
  <2>3. PICK e \in d.events :
          b = [job |-> j, try |-> tries[j], scan |-> n, type |-> e.type,
               fingerprint |-> {e.fingerprint}]
    BY <2>1, <1>8, <1>10
  <2>4. c.fingerprint = e.fingerprint
    BY <1>10, <2>2, <2>3
  <2> QED
    BY <1>3, <2>2, <2>3, <2>4
<1>11. a.scan \in 1 .. Len(scans') /\ HasScan(a.job, a.scan)'
  BY <1>1, <1>7, <1>8 DEF HasScan
<1>12. ASSUME a.type = "score_drop" PROVE DropSeen(a)'
  <2>1. /\ a.job = j /\ a.try = tries[j] /\ a.scan = n
        /\ Dropped(scans'[a.scan - 1], scans'[a.scan]) /\ a.scan \in 2 .. Len(scans')
    BY <1>1, <1>4, <1>7, <1>8, <1>12
  <2>2. CASE \E e \in d.events : e.type \in {"new_critical", "cert_expiry"}
    <3>1. PICK e \in d.events : e.type \in {"new_critical", "cert_expiry"}
      BY <2>2
    <3>2. [job |-> j, try |-> tries[j], scan |-> n, type |-> e.type,
           fingerprint |-> {e.fingerprint}] \in alerts'
      BY <1>1 DEF AlertsOf
    <3>3. \E b \in alerts' : /\ b.job = a.job /\ b.try = a.try
                             /\ b.type \in {"new_critical", "cert_expiry"}
      BY <2>1, <3>1, <3>2
    <3> QED
      BY <2>1, <3>3 DEF DropSeen
  <2>3. CASE pending
    <3>1. PICK r \in reports : r.pending /\ r.scan <= n
      BY <1>2, <2>3 DEF Seen
    <3>2. r \in reports' /\ <<r.job, r.try>> # <<a.job, a.try>>
          /\ Dropped(scans'[r.scan - 1], scans'[r.scan])
      <4>1. r.job = j => r.try < tries[j]
        BY <1>5
      <4>2. r.pending => Dropped(scans[r.scan - 1], scans[r.scan])
        BY DEF DetectionInv, ReportHolds
      <4> QED
        BY <1>1, <1>6, <2>1, <3>1, <4>1, <4>2
    <3> QED
      BY <2>1, <3>1, <3>2 DEF DropSeen
  <2> QED
    BY <1>4, <1>7, <1>8, <1>12, <2>2, <2>3
<1> QED
  BY <1>9, <1>10, <1>11, <1>12 DEF AlertHolds, HasScan

\* The bit is written by a detection, which saw a drop if it sets it, and by
\* the cycle, as it read it.
LEMMA PendingStep ==
  ASSUME DetectionInv, [Next]_vars
  PROVE  PendingWasSeen'
<1> USE DEF DetectionInv, PendingWasSeen
<1> DEFINE InRow   == monitor # NoMonitor /\ monitor.pending
           InCycle == cycle.at = "run" /\ cycle.monitor.pending
<1>0. Seen(Len(scans)) => Seen(Len(scans))'
  <2>1. Len(scans) \in Nat /\ Len(scans') \in Nat /\ Len(scans) <= Len(scans')
    BY ScansStay
  <2> QED
    BY <2>1, SeenStays DEF Seen
<1>1. SUFFICES ASSUME ~ (\E j \in JobIds : DetectRecord(j))
               PROVE  InRow' \/ InCycle' => InRow \/ InCycle
  <2>1. ASSUME NEW j \in JobIds, DetectRecord(j) PROVE PendingWasSeen'
    <3> DEFINE r == ReportOf(j)
    <3>1. /\ monitor'.pending = draft[j].report.pending /\ cycle' = cycle
          /\ reports' = reports \union {r} /\ scans' = scans
      BY <2>1, RecordFacts
    <3>2. r.pending = draft[j].report.pending /\ r.scan <= Len(scans)
      BY <2>1, RecordFacts, ScansStay DEF ReportOf, DraftRests
    <3> HIDE DEF r
    <3>3. monitor'.pending => Seen(Len(scans))'
      BY <3>1, <3>2 DEF Seen
    <3> QED
      BY <1>0, <3>1, <3>3
  <2> QED
    BY <1>0, <2>1
<1>2. monitor # NoMonitor => monitor \in Monitors
  BY DEF Types
<1>3. CASE CreateMonitor \/ DisableMonitor
  BY <1>2, <1>3 DEF CreateMonitor, DisableMonitor, Monitors
<1>4. CASE RunDenied
  BY <1>2, <1>4 DEF RunDenied, Types, CycleFits, Idle, EnqueueCycles, Monitors
<1>5. ASSUME NEW j \in JobIds, RunDue(j) PROVE InRow' \/ InCycle' => InRow \/ InCycle
  <2>1. monitor # NoMonitor /\ cycle.at = "run" /\ cycle'.at = "enqueue"
    BY <1>5 DEF RunDue, RunDueAs, Types, CycleFits, Idle, EnqueueCycles
  <2>2. monitor'.pending = cycle.monitor.pending
    BY <1>2, <1>5, <2>1 DEF RunDue, RunDueAs, Monitors
  <2> QED
    BY <2>1, <2>2
<1>6. CASE TimePasses \/ EnqueueScan \/ CycleLost \/ UNCHANGED vars
  BY <1>6 DEF TimePasses, EnqueueScan, CycleLost, Idle, vars
<1>7. CASE BeginCycle
  BY <1>7 DEF BeginCycle
<1>8. ASSUME NEW f \in Fingerprints, Suppress(f) \/ EndSuppression(f)
      PROVE  UNCHANGED <<monitor, cycle>>
  BY <1>8 DEF Suppress, EndSuppression
<1>9. ASSUME NEW j \in JobIds, SubmitScan(j) \/ ScanDies(j) \/ ScanLost(j) \/ PublishScan(j)
      PROVE  UNCHANGED <<monitor, cycle>>
  BY <1>9 DEF SubmitScan, ScanDies, ScanLost, PublishScan
<1>10. ASSUME NEW j \in JobIds, FollowUpStep(j) PROVE UNCHANGED <<monitor, cycle>>
  BY <1>1, <1>10 DEF FollowUpStep, TaskStep, LoadMonitor, Compare, FailedAlertRecord,
      Notify, MarkSent, TaskFaults
<1>11. CASE BackgroundStep
  BY <1>3, <1>4, <1>5, <1>6, <1>7, <1>8, <1>9, <1>11 DEF BackgroundStep, CycleStep
<1> QED
  BY <1>9, <1>10, <1>11, StepKinds

\* What holds of every alert, whichever job recorded it.
LEMMA AlertsStep ==
  ASSUME DetectionInv, [Next]_vars
  PROVE  /\ \A a \in alerts' : AlertHolds(a)' /\ TryFits(a)'
         /\ ToldOnce'
<1>1. Types /\ Types' /\ \A a \in alerts : a.job \in JobIds /\ a.try \in Nat
  BY TypeStep DEF DetectionInv, Types, Alerts
<1>2. ASSUME NEW a \in alerts PROVE AlertHolds(a)' /\ TryFits(a)'
  BY <1>1, <1>2, AlertStays, TryStays DEF DetectionInv
<1>3. ASSUME NEW j \in JobIds, FailedAlertRecord(j), NEW a \in alerts' \ alerts
      PROVE  AlertHolds(a)' /\ TryFits(a)' /\ a.fingerprint = {}
  <2>1. a = [job |-> j, try |-> tries[j] + 1, scan |-> 0, type |-> "scan_failed",
             fingerprint |-> {}]
    BY <1>3 DEF FailedAlertRecord
  <2>2. tries'[j] = tries[j] + 1 /\ tries[j] \in Nat /\ task'[j] \in {"skipped", "notify"}
    BY <1>1, <1>3 DEF FailedAlertRecord, Types
  <2> QED
    BY <2>1, <2>2 DEF AlertHolds, TryFits
<1>4. ASSUME NEW a \in alerts' \ alerts
      PROVE  /\ AlertHolds(a)' /\ TryFits(a)'
             /\ \A b \in alerts' : \A f \in a.fingerprint \intersect b.fingerprint :
                  a.job = b.job /\ a.try = b.try => a = b /\ b = a
  <2>1. CASE \E j \in JobIds : DetectRecord(j)
    BY <1>4, <2>1, RecordAlerts
  <2>2. CASE \E j \in JobIds : FailedAlertRecord(j)
    BY <1>3, <1>4, <2>2
  <2> QED
    BY <1>1, <1>4, <2>1, <2>2, NewAlerts
<1>5. ASSUME NEW a \in alerts', NEW b \in alerts',
             NEW f \in a.fingerprint \intersect b.fingerprint,
             a.job = b.job, a.try = b.try
      PROVE  a = b
  <2>1. CASE a \in alerts /\ b \in alerts
    BY <1>5, <2>1 DEF DetectionInv, ToldOnce
  <2>2. CASE a \notin alerts \/ b \notin alerts
    BY <1>4, <1>5, <2>2
  <2> QED
    BY <2>1, <2>2
<1> QED
  BY <1>2, <1>4, <1>5 DEF ToldOnce

LEMMA DetectionStep == DetectionInv /\ [Next]_vars => DetectionInv'
<1> SUFFICES ASSUME DetectionInv, [Next]_vars PROVE DetectionInv'
  OBVIOUS
<1>1. Types' /\ ScansFit'
  BY TypeStep, ScansFitStep DEF DetectionInv
<1>2. ASSUME NEW j \in JobIds PROVE RowFits(j)' /\ Drafted(j)'
  BY RowFitsStep, DraftedStep DEF DetectionInv
<1>3. ASSUME NEW r \in reports' PROVE ReportHolds(r)' /\ TryFits(r)'
  <2>1. CASE r \in reports
    <3>1. r.job \in JobIds /\ r.try \in Nat
      BY <2>1 DEF DetectionInv, Types, Committed
    <3> QED
      BY <2>1, <3>1, ReportStays, TryStays DEF DetectionInv
  <2>2. CASE r \notin reports
    <3>1. PICK j \in JobIds : DetectRecord(j)
      BY <1>3, <2>2, NewReports DEF DetectionInv, toldVars
    <3>2. r = ReportOf(j)
      BY <1>3, <2>2, <3>1, RecordFacts
    <3> QED
      BY <3>1, <3>2, RecordReports
  <2> QED
    BY <2>1, <2>2
<1>4. PendingWasSeen'
  BY PendingStep
<1> QED
  BY <1>1, <1>2, <1>3, <1>4, AlertsStep DEF DetectionInv

LEMMA DetectionInvariant == Spec => []DetectionInv
<1>1. Init => DetectionInv
  BY InitTypes, NoMonitorAssumption
  DEF Init, DetectionInv, ScansFit, RowFits, Drafted, PendingWasSeen, ToldOnce, Idle
<1> QED
  BY <1>1, DetectionStep, PTL DEF Spec

-----------------------------------------------------------------------------
(* What the owner is told.                                                 *)

\* A detection that commits has told every transition of the scan it has
\* compared, and that is its own or a later one; whatever crashes, whatever
\* is delivered again and whoever else writes meanwhile.  So a transition is
\* missed only where its scan was overtaken before it was looked at.
THEOREM OnlyOvertakenIsMissedAlways == Spec => []OnlyOvertakenIsMissed
<1>1. DetectionInv => OnlyOvertakenIsMissed
  BY DEF DetectionInv, ReportHolds, HasScan, OnlyOvertakenIsMissed
<1> QED
  BY <1>1, DetectionInvariant, PTL

\* The owner is told twice of a finding that stays open only by alerts of one
\* scan, and that one was compared twice: by a job that was delivered again,
\* or by the job of an earlier scan as well.
THEOREM OnlyRecomparedIsResentAlways == Spec => []OnlyRecomparedIsResent
<1>1. Init => Telling
  BY DEF Init, Telling
<1>2. DetectionInv /\ Telling /\ [Next]_vars => Telling'
  BY TellingStep DEF DetectionInv
<1>3. DetectionInv /\ Telling => OnlyRecomparedIsResent
  <2> SUFFICES ASSUME DetectionInv, Telling, NEW a \in alerts, NEW b \in alerts,
                      NEW f \in a.fingerprint \intersect b.fingerprint,
                      a # b, a.scan <= b.scan,
                      \A i \in a.scan + 1 .. b.scan - 1 : f \in scans[i].failed
               PROVE  /\ a.scan = b.scan
                      /\ \/ a.job = b.job /\ a.try # b.try
                         \/ \E c \in {a, b} : \E i \in 1 .. c.scan - 1 : scans[i].job = c.job
    BY DEF OnlyRecomparedIsResent
  <2>1. Tells(a.scan, a.type, f) /\ Tells(b.scan, b.type, f)
    BY DEF Telling, AlertTells
  <2>2. Len(scans) \in Nat
    BY DEF DetectionInv, Types
  <2>3. /\ a.scan \in Int /\ b.scan \in Int
        /\ f \in scans[a.scan].failed /\ f \notin scans[b.scan - 1].failed
    BY <2>1, <2>2 DEF Tells
  <2>4. a.scan = b.scan
    BY <2>3
  <2>5. a.job = b.job => a.try # b.try
    BY DEF DetectionInv, ToldOnce
  <2>6. CASE a.job # b.job
    <3>1. PICK i \in 1 .. a.scan : scans[i].job = a.job
      BY DEF DetectionInv, AlertHolds, HasScan
    <3>2. PICK k \in 1 .. b.scan : scans[k].job = b.job
      BY DEF DetectionInv, AlertHolds, HasScan
    <3>3. i # k
      BY <2>6, <3>1, <3>2
    <3>4. CASE i \in 1 .. a.scan - 1
      BY <2>4, <3>1, <3>4
    <3>5. CASE k \in 1 .. b.scan - 1
      BY <2>4, <3>2, <3>5
    <3> QED
      BY <2>3, <2>4, <3>1, <3>2, <3>3, <3>4, <3>5
  <2> QED
    BY <2>4, <2>5, <2>6
<1> QED
  BY <1>1, <1>2, <1>3, DetectionInvariant, PTL DEF Spec

\* A score drop is told beside a critical event of the same delivery, or
\* after another delivery has seen one: however the detections and the cron
\* job write the remembered bit back over one another, none is confirmed by
\* a drop that nobody saw.
THEOREM ScoreDropWasSeenTwiceAlways == Spec => []ScoreDropWasSeenTwice
<1>1. DetectionInv => ScoreDropWasSeenTwice
  BY DEF DetectionInv, AlertHolds, DropSeen, ScoreDropWasSeenTwice
<1> QED
  BY <1>1, DetectionInvariant, PTL

-----------------------------------------------------------------------------
(* The cadence.                                                            *)

\* There have been no more scheduled scans than cadences and write-backs;
\* where the row or a cycle has one more due, there has been one less.
CadenceInv ==
  /\ monitor = NoMonitor => scheduled = {}
  /\ Cardinality(scheduled) <= now + 1 + undone
  /\ monitor # NoMonitor /\ monitor.nextRun <= now =>
       Cardinality(scheduled) <= now + undone
  /\ cycle.at = "run" => /\ cycle.now <= now
                         /\ Cardinality(scheduled) <= cycle.now + undone

LEMMA JobsAreFinite ==
  ASSUME NEW S, S \subseteq JobIds
  PROVE  IsFiniteSet(S) /\ Cardinality(S) \in Nat
<1>1. IsFiniteSet(JobIds)
  BY FS_Interval, MonitoringAssumption DEF JobIds
<1>2. IsFiniteSet(S)
  BY <1>1, FS_Subset
<1> QED
  BY <1>2, FS_CardinalityType
LEMMA CadenceStep ==
  ASSUME DetectionInv, CadenceInv, [Next]_vars
  PROVE  CadenceInv'
<1> DEFINE c == Cardinality(scheduled)
<1>0. Types /\ Types'
  BY TypeStep DEF DetectionInv
<1>1. /\ now \in Nat /\ now' \in Nat /\ undone \in Nat /\ undone' \in Nat
      /\ c \in Nat /\ c' \in Nat
  <2>1. scheduled \subseteq JobIds /\ scheduled' \subseteq JobIds
    BY <1>0 DEF Types
  <2>2. c \in Nat /\ c' \in Nat
    BY <2>1, JobsAreFinite
  <2> HIDE DEF c
  <2> QED
    BY <1>0, <2>2, MonitoringAssumption DEF Types
<1>2. /\ monitor # NoMonitor => monitor \in Monitors /\ monitor.nextRun \in Nat
      /\ monitor' # NoMonitor => monitor' \in Monitors /\ monitor'.nextRun \in Nat
      /\ cycle.at = "run" => monitor # NoMonitor /\ cycle.now \in Nat
  BY <1>0 DEF Types, Monitors, CycleFits, Idle, RunCycles, EnqueueCycles
\* A step that schedules nothing, and makes no monitor due earlier.
<1>3. ASSUME scheduled' = scheduled, now' >= now, undone' = undone,
             monitor = NoMonitor <=> monitor' = NoMonitor,
             monitor # NoMonitor => monitor'.nextRun = monitor.nextRun,
             cycle'.at = "run" => cycle' = cycle
      PROVE  CadenceInv'
  <2>1. c' = c
    BY <1>3
  <2>2. CASE now' = now
    BY <1>1, <1>2, <1>3, <2>1, <2>2 DEF CadenceInv
  <2>3. CASE now' > now
    BY <1>1, <1>2, <1>3, <2>1, <2>3 DEF CadenceInv
  <2> QED
    BY <1>1, <1>3, <2>2, <2>3
<1>4. CASE TimePasses \/ UNCHANGED vars
  BY <1>1, <1>3, <1>4 DEF TimePasses, vars, scanVars, toldVars
<1>5. ASSUME NEW f \in Fingerprints, Suppress(f) \/ EndSuppression(f) PROVE CadenceInv'
  BY <1>1, <1>3, <1>5 DEF Suppress, EndSuppression, scanVars, toldVars
<1>6. ASSUME NEW j \in JobIds, SubmitScan(j) \/ ScanDies(j) \/ ScanLost(j)
      PROVE  CadenceInv'
  BY <1>1, <1>3, <1>6 DEF SubmitScan, ScanDies, ScanLost, toldVars
<1>7. CASE EnqueueScan \/ CycleLost
  BY <1>1, <1>3, <1>7 DEF EnqueueScan, CycleLost, Idle, scanVars, toldVars
<1>8. CASE CreateMonitor
  <2>0. /\ scheduled' = scheduled /\ now' = now /\ undone' = undone /\ cycle' = cycle
        /\ monitor' # NoMonitor
    <3>1. now \in 0 .. MaxTime + 1
      BY <1>0, MonitoringAssumption DEF Types
    <3>2. monitor' \in Monitors
      <4>1. CASE monitor = NoMonitor
        <5>1. monitor' = [enabled |-> TRUE, nextRun |-> now, pending |-> FALSE]
          BY <1>8, <4>1 DEF CreateMonitor
        <5> QED
          BY <3>1, <5>1 DEF Monitors
      <4>2. CASE monitor # NoMonitor
        <5>1. monitor' = [monitor EXCEPT !.enabled = TRUE]
          BY <1>8, <4>2 DEF CreateMonitor
        <5> QED
          BY <1>2, <4>2, <5>1 DEF Monitors
      <4> QED
        BY <4>1, <4>2
    <3> QED
      BY <1>8, <3>2, NoMonitorAssumption DEF CreateMonitor, scanVars, toldVars
  <2>1. CASE monitor = NoMonitor
    <3>1. c' = 0 /\ cycle.at # "run"
      BY <1>2, <2>0, <2>1, FS_EmptySet DEF CadenceInv
    <3> QED
      BY <1>1, <2>0, <3>1 DEF CadenceInv
  <2>2. CASE monitor # NoMonitor
    <3>1. monitor'.nextRun = monitor.nextRun
      BY <1>2, <1>8, <2>2 DEF CreateMonitor, Monitors
    <3> QED
      BY <1>1, <1>3, <2>0, <2>2, <3>1
  <2> QED
    BY <2>1, <2>2
<1>9. CASE DisableMonitor \/ RunDenied
  <2>1. monitor # NoMonitor /\ monitor' = [monitor EXCEPT !.enabled = FALSE]
        /\ scheduled' = scheduled /\ now' = now /\ undone' = undone
        /\ (cycle'.at = "run" => cycle' = cycle)
    BY <1>2, <1>9 DEF DisableMonitor, RunDenied, Idle, scanVars, toldVars
  <2>2. monitor' \in Monitors /\ monitor'.nextRun = monitor.nextRun
    BY <1>2, <2>1 DEF Monitors
  <2>3. monitor' # NoMonitor
    BY <2>2, NoMonitorAssumption
  <2> QED
    BY <1>1, <1>3, <2>1, <2>2, <2>3
<1>10. CASE BeginCycle
  <2>1. /\ scheduled' = scheduled /\ now' = now /\ undone' = undone /\ monitor' = monitor
        /\ monitor # NoMonitor /\ monitor.nextRun <= now /\ cycle'.now = now
    BY <1>10 DEF BeginCycle, scanVars, toldVars
  <2>2. c' = c
    BY <2>1
  <2> QED
    BY <1>1, <2>1, <2>2 DEF CadenceInv
<1>11. ASSUME NEW j \in JobIds, RunDue(j) PROVE CadenceInv'
  <2>1. /\ cycle.at = "run" /\ monitor # NoMonitor /\ cycle \in RunCycles
        /\ scheduled' = scheduled \union {j} /\ now' = now /\ undone' = undone
        /\ cycle'.at = "enqueue"
        /\ monitor' = [monitor EXCEPT !.nextRun = cycle.now + 1,
                                      !.pending = cycle.monitor.pending]
    BY <1>0, <1>11
    DEF RunDue, RunDueAs, Types, CycleFits, Idle, EnqueueCycles, toldVars
  <2>2. monitor' # NoMonitor /\ monitor'.nextRun = cycle.now + 1
    <3> DEFINE t == cycle.now + 1
               p == cycle.monitor.pending
    <3>1. t \in 0 .. MaxTime + 1 /\ p \in BOOLEAN
      BY <2>1, MonitoringAssumption DEF RunCycles, Monitors
    <3>2. monitor' = [monitor EXCEPT !.nextRun = t, !.pending = p]
      BY <2>1
    <3> HIDE DEF t, p
    <3>3. monitor' \in Monitors /\ monitor'.nextRun = t
      BY <1>2, <2>1, <3>1, <3>2 DEF Monitors
    <3> QED
      BY <3>3, NoMonitorAssumption DEF t
  <2>3. c' <= c + 1
    <3>1. IsFiniteSet(scheduled)
      BY <1>0, JobsAreFinite DEF Types
    <3>2. Cardinality(scheduled \union {j}) = IF j \in scheduled THEN c ELSE c + 1
      BY <3>1, FS_AddElement
    <3>3. c' = Cardinality(scheduled \union {j})
      BY <2>1
    <3> HIDE DEF c
    <3> QED
      BY ONLY <1>1, <3>2, <3>3
  <2>4. cycle.now <= now /\ c <= cycle.now + undone
    BY <2>1 DEF CadenceInv
  <2> HIDE DEF c
  <2>5. /\ c' <= now' + 1 + undone'
        /\ monitor'.nextRun <= now' => c' <= now' + undone'
    BY <1>1, <1>2, <2>1, <2>2, <2>3, <2>4
  <2> QED
    BY <2>1, <2>2, <2>5 DEF CadenceInv, c
<1>12. ASSUME NEW j \in JobIds, PublishScan(j) PROVE CadenceInv'
  BY <1>0, <1>1, <1>3, <1>12, PublishKeeps DEF toldVars
<1>13. ASSUME NEW j \in JobIds, DetectRecord(j) PROVE CadenceInv'
  <2>1. /\ scheduled' = scheduled /\ now' = now /\ cycle' = cycle
        /\ monitor # NoMonitor /\ monitor' # NoMonitor
        /\ undone' = IF monitor'.nextRun < monitor.nextRun THEN undone + 1 ELSE undone
    BY <1>13, RecordFacts, NoMonitorAssumption DEF DetectRecord, RecordAs
  <2>2. c' = c
    BY <2>1
  <2> HIDE DEF c
  <2>3. CASE monitor'.nextRun < monitor.nextRun
    BY <1>1, <1>2, <2>1, <2>2, <2>3 DEF CadenceInv, c
  <2>4. CASE ~ (monitor'.nextRun < monitor.nextRun)
    BY <1>1, <1>2, <2>1, <2>2, <2>4 DEF CadenceInv, c
  <2> QED
    BY <2>3, <2>4
<1>14. ASSUME NEW j \in JobIds, FollowUpStep(j), ~ DetectRecord(j) PROVE CadenceInv'
  <2>1. UNCHANGED <<now, scheduled, cycle, monitor, undone>>
    BY <1>14
    DEF FollowUpStep, TaskStep, LoadMonitor, Compare, FailedAlertRecord, Notify,
        MarkSent, TaskFaults, scanVars, toldVars
  <2> QED
    BY <1>1, <1>3, <2>1
<1>15. CASE BackgroundStep
  BY <1>4, <1>5, <1>6, <1>7, <1>8, <1>9, <1>10, <1>11, <1>15 DEF BackgroundStep, CycleStep
<1> QED
  BY <1>12, <1>13, <1>14, <1>15, StepKinds

\* Each scheduled scan beyond one a cadence is paid for by a detection that
\* wrote back a next_run_at from before: however late a write-back is and
\* whatever crashes, each starts one scan at most, and nothing else any.
THEOREM ExtraScansWereUndoneAlways == Spec => []ExtraScansWereUndone
<1>1. Init => CadenceInv
  BY FS_EmptySet DEF Init, CadenceInv, Idle
<1>2. DetectionInv /\ CadenceInv /\ [Next]_vars => CadenceInv'
  BY CadenceStep
<1>3. CadenceInv => ExtraScansWereUndone
  BY DEF CadenceInv, ExtraScansWereUndone
<1> QED
  BY <1>1, <1>2, <1>3, DetectionInvariant, PTL DEF Spec
=============================================================================
