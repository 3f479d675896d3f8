----------------------------- MODULE Monitoring -----------------------------
(***************************************************************************)
(* The monitoring of one target: the monitor row and its owner, the cron   *)
(* job that starts due scans, the scans themselves (as ScanJobContract     *)
(* has them), and the two jobs that turn their outcome into alerts.        *)
(*                                                                         *)
(*   packages/monitoring .../repository.py  the rows of monitors, alerts   *)
(*   apps/scanner .../jobs.py   check_due_monitors_job, _run_due_monitor,  *)
(*       detect_regression_job, record_scan_failed_alert_job               *)
(*                                                                         *)
(* Those jobs read the monitor early and write it back late: the scheduler *)
(* reads a list in one transaction and writes in another, the detection    *)
(* reads and writes in one READ COMMITTED transaction with many statements *)
(* between.  So the reads and the writes are steps of their own.  Scans    *)
(* are ordered by their commit (created_at is the start of the same short  *)
(* transaction).  Time is counted in units of the monitor's cadence;       *)
(* jitter and quiet hours are left out.                                    *)
(***************************************************************************)
EXTENDS RegressionDiff, Sequences, FiniteSets

CONSTANTS
  MaxJobs,     \* bound of the model: scan jobs of the target
  MaxTime,     \* bound of the model: cadences that pass
  Scores,      \* the scores a scan may have
  Majors,      \* the registry's major versions, in the order of deployment
  Owner,       \* what the owner may do, beside creating the monitor
  Faults,      \* the kinds of fault the environment may inject
  MaxFaults,   \* bound of the model: how many faults happen in all
  NoMonitor    \* the target has no monitor

OwnerActions == {"scan", "disable", "suppress"}
FaultKinds == {"crash", "abort", "lost"}

ASSUME MonitoringAssumption ==
  /\ MaxJobs \in Nat /\ MaxTime \in Nat /\ MaxFaults \in Nat
  /\ Scores \subseteq 0 .. 100 /\ Majors \subseteq Nat
  /\ Owner \subseteq OwnerActions /\ Faults \subseteq FaultKinds

JobIds == 1 .. MaxJobs

Monitors == [enabled : BOOLEAN, nextRun : 0 .. MaxTime + 1, pending : BOOLEAN]

ASSUME NoMonitorAssumption == NoMonitor \notin Monitors

VARIABLES
  now,         \* cadences passed so far
  monitor,     \* the target's row of monitors, or NoMonitor
  suppressed,  \* fingerprints with a suppression in force
  job,         \* phase of every scan job of the target
  scheduled,   \* history: the scan jobs that the scheduler has started
  scans,       \* the rows of scans, by created_at
  cycle,       \* where check_due_monitors_job is
  task,        \* where the follow-up job of each scan job is
  tries,       \* deliveries of that job
  draft,       \* what its transaction has read and is about to write
  alerts,      \* the rows of alerts
  sent,        \* those with sent_at
  outbox,      \* the alerts whose e-mail was delivered
  reports,     \* history: what each delivery of a detection has committed
  undone,      \* history: how often one wrote an earlier next_run_at back
  faults       \* faults injected so far

scanVars  == <<job, scheduled, scans>>
taskVars  == <<task, tries, draft>>
alertVars == <<alerts, sent, outbox>>
toldVars  == <<reports, undone>>
vars == <<now, monitor, suppressed, scanVars, cycle, taskVars, alertVars, toldVars,
          faults>>

Idle == [at |-> "idle"]
NoDraft == [at |-> "none"]

Init ==
  /\ now = 0
  /\ monitor = NoMonitor
  /\ suppressed = {}
  /\ job = [j \in JobIds |-> "none"]
  /\ scheduled = {}
  /\ scans = <<>>
  /\ cycle = Idle
  /\ task = [j \in JobIds |-> "none"]
  /\ tries = [j \in JobIds |-> 0]
  /\ draft = [j \in JobIds |-> NoDraft]
  /\ alerts = {}
  /\ sent = {}
  /\ outbox = {}
  /\ reports = {}
  /\ undone = 0
  /\ faults = 0

\* The jobs are started in the order of their ids.
Fresh(j) == job[j] = "none" /\ \A i \in 1 .. j - 1 : job[i] # "none"

Settled == {"none", "done", "skipped"}

Fault(kind) ==
  /\ kind \in Faults
  /\ faults < MaxFaults
  /\ faults' = faults + 1

-----------------------------------------------------------------------------
(* Time, and the owner.                                                    *)

TimePasses ==
  /\ now < MaxTime
  /\ now' = now + 1
  /\ UNCHANGED <<monitor, suppressed, scanVars, cycle, taskVars, alertVars, toldVars,
                 faults>>

\* create_monitor: a new row is due at once; an existing one is enabled and
\* keeps its next_run_at and its pending_score_drop.
CreateMonitor ==
  /\ monitor' = IF monitor = NoMonitor
                THEN [enabled |-> TRUE, nextRun |-> now, pending |-> FALSE]
                ELSE [monitor EXCEPT !.enabled = TRUE]
  /\ UNCHANGED <<now, suppressed, scanVars, cycle, taskVars, alertVars, toldVars,
                 faults>>

\* disable_monitor.
DisableMonitor ==
  /\ "disable" \in Owner
  /\ monitor # NoMonitor
  /\ monitor' = [monitor EXCEPT !.enabled = FALSE]
  /\ UNCHANGED <<now, suppressed, scanVars, cycle, taskVars, alertVars, toldVars,
                 faults>>

\* A suppression is created.
Suppress(f) ==
  /\ "suppress" \in Owner
  /\ suppressed' = suppressed \union {f}
  /\ UNCHANGED <<now, monitor, scanVars, cycle, taskVars, alertVars, toldVars,
                 faults>>

\* A suppression is deleted, or its expires_at has come.
EndSuppression(f) ==
  /\ f \in suppressed
  /\ suppressed' = suppressed \ {f}
  /\ UNCHANGED <<now, monitor, scanVars, cycle, taskVars, alertVars, toldVars,
                 faults>>

\* The owner submits a scan of the target.
SubmitScan(j) ==
  /\ "scan" \in Owner
  /\ Fresh(j)
  /\ job' = [job EXCEPT ![j] = "queued"]
  /\ UNCHANGED <<now, monitor, suppressed, scheduled, scans, cycle, taskVars,
                 alertVars, toldVars, faults>>

-----------------------------------------------------------------------------
(* check_due_monitors_job.                                                 *)

\* Mutant: the cycle moves the due monitors on as it reads them.
BeginCycleClaims ==
  /\ cycle = Idle
  /\ monitor # NoMonitor
  /\ monitor.enabled
  /\ monitor.nextRun <= now
  /\ cycle' = [at |-> "run", now |-> now, monitor |-> monitor]
  /\ monitor' = [monitor EXCEPT !.nextRun = now + 1]
  /\ UNCHANGED <<now, suppressed, scanVars, taskVars, alertVars, toldVars, faults>>

\* due_monitors.
BeginCycle ==
  /\ cycle = Idle
  /\ monitor # NoMonitor
  /\ monitor.enabled
  /\ monitor.nextRun <= now
  /\ cycle' = [at |-> "run", now |-> now, monitor |-> monitor]
  /\ UNCHANGED <<now, monitor, suppressed, scanVars, taskVars, alertVars, toldVars,
                 faults>>

\* _run_due_monitor when resolve_authorization denies: it gives up the
\* monitor.
RunDenied ==
  /\ cycle.at = "run"
  /\ monitor' = [monitor EXCEPT !.enabled = FALSE]
  /\ cycle' = Idle
  /\ UNCHANGED <<now, suppressed, scanVars, taskVars, alertVars, toldVars, faults>>

RunDueAs(j, nextRun) ==
  /\ cycle.at = "run"
  /\ Fresh(j)
  /\ job' = [job EXCEPT ![j] = "accepted"]
  /\ scheduled' = scheduled \union {j}
  /\ monitor' = [monitor EXCEPT !.nextRun = nextRun,
                                !.pending = cycle.monitor.pending]
  /\ cycle' = [at |-> "enqueue", job |-> j]
  /\ UNCHANGED <<now, suppressed, scans, taskVars, alertVars, toldVars, faults>>

\* Mutants: it writes next_run_at back as read, as the detection does; it
\* adds the cadence twice.
RunDueKeepsSchedule(j) == RunDueAs(j, cycle.monitor.nextRun)
RunDueSkipsOne(j) == RunDueAs(j, cycle.now + 2)

\* _run_due_monitor when it allows: the job and the new schedule are one
\* transaction; pending_score_drop is written as the cycle has read it.
RunDue(j) == RunDueAs(j, cycle.now + 1)

EnqueueScan ==
  /\ cycle.at = "enqueue"
  /\ job' = [job EXCEPT ![cycle.job] = "queued"]
  /\ cycle' = Idle
  /\ UNCHANGED <<now, monitor, suppressed, scheduled, scans, taskVars, alertVars,
                 toldVars, faults>>

\* The cron job's worker dies, its timeout comes or it raises: cron jobs are not
\* retried, what was left of the list waits for the next quarter of an hour.
CycleLost ==
  /\ Fault("crash")
  /\ cycle # Idle
  /\ cycle' = Idle
  /\ UNCHANGED <<now, monitor, suppressed, scanVars, taskVars, alertVars, toldVars>>

-----------------------------------------------------------------------------
(* run_scan_job, as far as monitoring sees it.                             *)

\* The result is committed, detect_regression_job enqueued.
PublishScan(j) ==
  /\ job[j] = "queued"
  /\ job' = [job EXCEPT ![j] = "published"]
  /\ \E failed \in SUBSET Fingerprints, score \in Scores, major \in Majors :
       /\ scans # <<>> => major >= scans[Len(scans)].major
       /\ scans' = Append(scans, [job |-> j, failed |-> failed,
                                  score |-> score, major |-> major])
  /\ task' = [task EXCEPT ![j] = "queued"]
  /\ UNCHANGED <<now, monitor, suppressed, scheduled, cycle, tries, draft, alertVars,
                 toldVars, faults>>

\* The job failed or the target was unreachable:
\* record_scan_failed_alert_job is enqueued.
ScanDies(j) ==
  /\ job[j] = "queued"
  /\ job' = [job EXCEPT ![j] = "dead"]
  /\ task' = [task EXCEPT ![j] = "queued"]
  /\ UNCHANGED <<now, monitor, suppressed, scheduled, scans, cycle, tries, draft,
                 alertVars, toldVars, faults>>

\* The scan's worker dies at a point from which no run recovers: in the
\* middle of the scan, or after the commit and before it has enqueued the
\* follow-up job.
ScanLost(j) ==
  /\ Fault("lost")
  /\ \/ /\ job[j] = "queued"
        /\ job' = [job EXCEPT ![j] = "stuck"]
        /\ UNCHANGED task
     \/ /\ task[j] = "queued" /\ tries[j] = 0
        /\ task' = [task EXCEPT ![j] = "none"]
        /\ UNCHANGED job
  /\ UNCHANGED <<now, monitor, suppressed, scheduled, scans, cycle, tries, draft,
                 alertVars, toldVars>>

-----------------------------------------------------------------------------
(* detect_regression_job.                                                  *)

MonitorIsActive == monitor # NoMonitor /\ monitor.enabled

\* list_ever_failed_fingerprints_before the n-th scan.
EverFailedBefore(n) == UNION {scans[i].failed : i \in 1 .. n - 1}

\* get_monitor_by_target: no active monitor, nothing to do.
LoadMonitor(j) ==
  /\ task[j] = "queued"
  /\ job[j] = "published"
  /\ tries' = [tries EXCEPT ![j] = @ + 1]
  /\ \/ /\ MonitorIsActive
        /\ task' = [task EXCEPT ![j] = "loaded"]
        /\ draft' = [draft EXCEPT ![j] = [monitor |-> monitor]]
     \/ /\ ~MonitorIsActive
        /\ task' = [task EXCEPT ![j] = "skipped"]
        /\ UNCHANGED draft
  /\ UNCHANGED <<now, monitor, suppressed, scanVars, cycle, alertVars, toldVars,
                 faults>>

\* list_scans_for_target and the rest: the two latest scans of the target,
\* whichever scan the job is about, its history and its suppressions.
Compare(j) ==
  /\ task[j] = "loaded"
  /\ LET n == Len(scans)
         m == draft[j].monitor IN
       \/ /\ n < 2
          /\ task' = [task EXCEPT ![j] = "skipped"]
          /\ draft' = [draft EXCEPT ![j] = NoDraft]
       \/ /\ n >= 2
          /\ task' = [task EXCEPT ![j] = "record"]
          /\ draft' = [draft EXCEPT ![j] =
               [scan   |-> n, nextRun |-> m.nextRun, hidden |-> suppressed,
                report |-> DetectRegression(scans[n - 1], scans[n],
                             EverFailedBefore(n - 1), m.pending, suppressed)]]
  /\ UNCHANGED <<now, monitor, suppressed, scanVars, cycle, tries, alertVars,
                 toldVars, faults>>

\* The alerts of a report, as this delivery of the job records them.
AlertsOf(j, scan, report) ==
  {[job |-> j, try |-> tries[j], scan |-> scan, type |-> e.type,
    fingerprint |-> {e.fingerprint}] : e \in report.events}
  \union
  (IF report.scoreDrop
   THEN {[job |-> j, try |-> tries[j], scan |-> scan, type |-> "score_drop",
          fingerprint |-> {}]}
   ELSE {})

\* What is said of a delivery that commits (history).
ReportOf(j) ==
  [job |-> j, try |-> tries[j], scan |-> draft[j].scan,
   hidden |-> draft[j].hidden, pending |-> draft[j].report.pending]

RecordAs(j, scan) ==
  /\ task[j] = "record"
  /\ LET new == AlertsOf(j, scan, draft[j].report) IN
       /\ alerts' = alerts \union new
       /\ task' = [task EXCEPT ![j] = IF new = {} THEN "done" ELSE "notify"]
  /\ monitor' = [monitor EXCEPT !.nextRun = draft[j].nextRun,
                                !.pending = draft[j].report.pending]
  /\ reports' = reports \union {ReportOf(j)}
  /\ undone' = IF draft[j].nextRun < monitor.nextRun THEN undone + 1 ELSE undone
  /\ draft' = [draft EXCEPT ![j] = NoDraft]
  /\ UNCHANGED <<now, suppressed, scanVars, cycle, tries, sent, outbox, faults>>

\* Mutant: the alerts name the scan that is the latest one by now.
DetectRecordLatest(j) == RecordAs(j, Len(scans))

\* The writes: the alerts, the monitor's next_run_at as it was read and its
\* new pending_score_drop.
DetectRecord(j) == RecordAs(j, draft[j].scan)

(* record_scan_failed_alert_job.                                           *)
FailedAlertRecord(j) ==
  /\ task[j] = "queued"
  /\ job[j] = "dead"
  /\ tries' = [tries EXCEPT ![j] = @ + 1]
  /\ \/ /\ ~MonitorIsActive
        /\ task' = [task EXCEPT ![j] = "skipped"]
        /\ UNCHANGED alerts
     \/ /\ MonitorIsActive
        /\ task' = [task EXCEPT ![j] = "notify"]
        /\ alerts' = alerts \union
             {[job |-> j, try |-> tries[j] + 1, scan |-> 0,
               type |-> "scan_failed", fingerprint |-> {}]}
  /\ UNCHANGED <<now, monitor, suppressed, scanVars, cycle, draft, sent, outbox,
                 toldVars, faults>>

(* What both jobs end with.                                                *)

Recorded(j) == {a \in alerts : a.job = j /\ a.try = tries[j]}

\* Mutant: the answer of notify is not looked at.
NotifyUnchecked(j) ==
  /\ task[j] = "notify"
  /\ task' = [task EXCEPT ![j] = "mark"]
  /\ \/ outbox' = outbox \union Recorded(j)
     \/ UNCHANGED outbox
  /\ UNCHANGED <<now, monitor, suppressed, scanVars, cycle, tries, draft, alerts,
                 sent, toldVars, faults>>

\* notify: one e-mail about all of them, delivered or not.
Notify(j) ==
  /\ task[j] = "notify"
  /\ \/ /\ outbox' = outbox \union Recorded(j)
        /\ task' = [task EXCEPT ![j] = "mark"]
     \/ /\ task' = [task EXCEPT ![j] = "done"]
        /\ UNCHANGED outbox
  /\ UNCHANGED <<now, monitor, suppressed, scanVars, cycle, tries, draft, alerts,
                 sent, toldVars, faults>>

\* mark_alert_sent.
MarkSent(j) ==
  /\ task[j] = "mark"
  /\ sent' = sent \union Recorded(j)
  /\ task' = [task EXCEPT ![j] = "done"]
  /\ UNCHANGED <<now, monitor, suppressed, scanVars, cycle, tries, draft, alerts,
                 outbox, toldVars, faults>>

\* The worker dies or shuts down, and arq delivers the job again; or it
\* raises or times out, and arq is done with it.
TaskFaults(j) ==
  /\ task[j] \in {"loaded", "record", "notify", "mark"}
  /\ \/ /\ Fault("crash")
        /\ task' = [task EXCEPT ![j] = "queued"]
     \/ /\ Fault("abort")
        /\ task' = [task EXCEPT ![j] = "done"]
  /\ draft' = [draft EXCEPT ![j] = NoDraft]
  /\ UNCHANGED <<now, monitor, suppressed, scanVars, cycle, tries, alertVars,
                 toldVars>>

-----------------------------------------------------------------------------
CycleStep == (\E j \in JobIds : RunDue(j)) \/ RunDenied \/ EnqueueScan

ScanStep(j) == PublishScan(j) \/ ScanDies(j)

TaskStep(j) ==
  \/ LoadMonitor(j) \/ Compare(j) \/ DetectRecord(j)
  \/ FailedAlertRecord(j)
  \/ Notify(j) \/ MarkSent(j)

Next ==
  \/ TimePasses
  \/ CreateMonitor
  \/ DisableMonitor
  \/ \E f \in Fingerprints : Suppress(f) \/ EndSuppression(f)
  \/ BeginCycle
  \/ CycleStep
  \/ CycleLost
  \/ \E j \in JobIds :
       SubmitScan(j) \/ ScanStep(j) \/ ScanLost(j) \/ TaskStep(j) \/ TaskFaults(j)

Spec == Init /\ [][Next]_vars

\* The cron job runs every quarter of an hour, jobs that were begun go on.
FairSpec ==
  /\ Spec
  /\ WF_vars(BeginCycle)
  /\ WF_vars(CycleStep)
  /\ \A j \in JobIds : WF_vars(TaskStep(j))

-----------------------------------------------------------------------------
Alerts ==
  [job : JobIds, try : Nat, scan : Nat,
   type : EventTypes \union {"score_drop", "scan_failed"},
   fingerprint : {{}} \union {{f} : f \in Fingerprints}]

Committed ==
  [job : JobIds, try : Nat, scan : Nat, hidden : SUBSET Fingerprints, pending : BOOLEAN]

\* The types of the variables.
TypeOK ==
  /\ now \in 0 .. MaxTime
  /\ monitor \in Monitors \union {NoMonitor}
  /\ suppressed \subseteq Fingerprints
  /\ job \in [JobIds -> {"none", "accepted", "queued", "published", "dead", "stuck"}]
  /\ scheduled \subseteq JobIds
  /\ scans \in Seq([job : JobIds, failed : SUBSET Fingerprints,
                    score : Scores, major : Majors])
  /\ cycle.at \in {"idle", "run", "enqueue"}
  /\ task \in [JobIds -> Settled \union {"queued", "loaded", "record", "notify", "mark"}]
  /\ tries \in [JobIds -> Nat]
  /\ \A j \in JobIds : task[j] \notin {"loaded", "record"} => draft[j] = NoDraft
  /\ \A a \in alerts : a \in Alerts
  /\ sent \subseteq Alerts /\ outbox \subseteq Alerts
  /\ reports \subseteq Committed /\ undone \in Nat
  /\ faults \in 0 .. MaxFaults

\* Whatever the jobs read and whenever they run, an alert about a finding is
\* about a transition that its scan shows against the scan before, and its
\* type fits the target's history.
AlertsTellTransitions ==
  \A a \in alerts : \A f \in a.fingerprint :
    /\ a.scan >= 2
    /\ f \in scans[a.scan].failed \ scans[a.scan - 1].failed
    /\ a.type \in {"new_critical", "new_high"} => f \notin EverFailedBefore(a.scan)
    /\ a.type = "regressed" => f \in EverFailedBefore(a.scan - 1)

\* sent_at is only set when the e-mail went out, and an e-mail only tells of
\* alerts that are committed: neither a crash nor a failed delivery makes
\* the alert history claim more than the owner was told.
SentMeansDelivered == sent \subseteq outbox /\ outbox \subseteq alerts

\* A monitor that is due gets one more scan, or is given up, also when the
\* cron job dies in the middle of its cycle: the next one finds it due again.
\* (n is short of the bound on jobs; only the scheduler starts scans here; a
\* detection in progress may still write back the next_run_at it has read.)
DueMonitorIsScanned ==
  \A n \in 0 .. MaxJobs - 1 :
    (/\ MonitorIsActive /\ monitor.nextRun <= now
     /\ Cardinality(scheduled) = n
     /\ \A j \in DOMAIN task : draft[j] = NoDraft)
      ~> ~MonitorIsActive \/ Cardinality(scheduled) > n

\* docs/data-model.md, monitors: next_run_at is "Recomputed by
\* `compute_next_run_at()` every cycle -- cadence plus jitter": no cadence
\* sees more than one scheduled scan.
CadenceIsKept == Cardinality(scheduled) <= now + 1

\* What is true of it: each scheduled scan beyond the cadence is paid for by a
\* detection that wrote back a next_run_at from before the cron job's (jobs.py
\* reschedule_monitor, called by both), and by one of its own: a write-back,
\* however late, starts one scan at most.
ExtraScansWereUndone == Cardinality(scheduled) <= now + 1 + undone

\* What scan n shows against the scan before that the owner is to be told,
\* by the table of section 10.2.
Deserving(n) ==
  {f \in scans[n].failed \ scans[n - 1].failed :
     /\ scans[n].major = scans[n - 1].major
     /\ f \in CertExpiry \union Critical \union High \union EverFailedBefore(n)}

IsTold(n, f) == \E a \in alerts : a.scan = n /\ f \in a.fingerprint

\* docs/prooflight-vision-and-architecture.md section 10.2: "Compare scan `N`
\* against scan `N-1`", "Absent -> present, severity >= high", "Resolved ->
\* present": once the regression job of scan N has done its work, each of its
\* transitions has its alert (suppressed ones aside).
NoTransitionMissed ==
  \A n \in 2 .. Len(scans) :
    task[scans[n].job] \in {"notify", "mark", "done"} =>
      \A f \in Deserving(n) \ suppressed : IsTold(n, f)

\* What is true of it: a detection that commits has told every transition of
\* its own scan, or of a later one that was there before it compared.  So
\* neither a crash, a redelivery nor another job at the same time loses one,
\* and one is missed only where a scan has overtaken the detection before.
OnlyOvertakenIsMissed ==
  \A r \in reports :
    /\ \E n \in 1 .. r.scan : scans[n].job = r.job
    /\ \A f \in Deserving(r.scan) \ r.hidden : IsTold(r.scan, f)

\* Section 10.3: "Same alert is not re-sent while the finding stays open";
\* docs/data-model.md, alerts: "dedup is structural".  Where no scan between
\* two alerts about a finding is without it, both are of one scan, compared
\* twice: by one job delivered again, or by the job of an earlier scan too.
OnlyRecomparedIsResent ==
  \A a, b \in alerts : \A f \in a.fingerprint \intersect b.fingerprint :
    (/\ a # b /\ a.scan <= b.scan
     /\ \A i \in a.scan + 1 .. b.scan - 1 : f \in scans[i].failed)
    => /\ a.scan = b.scan
       /\ \/ a.job = b.job /\ a.try # b.try
          \/ \E c \in {a, b} : \E i \in 1 .. c.scan - 1 : scans[i].job = c.job

\* docs/modules.md section 9: score_drop is "confirmed only on a second
\* consecutive drop, or immediately alongside a `new_critical`/`cert_expiry`
\* event".  Two deliveries have seen one, then, or it is told beside such an
\* event: no stale write of pending_score_drop, by a detection or by the cron
\* job, confirms a drop that nobody saw.  (Which two is another matter: of one
\* pair compared twice, or with a scan in between that did not drop.)
ScoreDropWasSeenTwice ==
  \A a \in alerts :
    a.type = "score_drop" =>
      /\ Dropped(scans[a.scan - 1], scans[a.scan])
      /\ \/ \E b \in alerts : /\ b.job = a.job /\ b.try = a.try
                              /\ b.type \in {"new_critical", "cert_expiry"}
         \/ \E r \in reports :
              /\ <<r.job, r.try>> # <<a.job, a.try>> /\ r.scan <= a.scan
              /\ Dropped(scans[r.scan - 1], scans[r.scan])
=============================================================================
