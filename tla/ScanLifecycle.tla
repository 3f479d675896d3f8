--------------------------- MODULE ScanLifecycle ---------------------------
(***************************************************************************)
(* The life of a scan job, from the request handler that creates it to the *)
(* worker that runs it:                                                    *)
(*                                                                         *)
(*   apps/api .../routers/scans.py        submit_scan: one transaction     *)
(*       creates the job "authorized" and audits the decision; after the   *)
(*       commit the handler enqueues run_scan_job.                         *)
(*   packages/orchestrator .../service.py the state machine (advance) and  *)
(*       record_scan_result.                                               *)
(*   packages/orchestrator .../jobs.py    run_scan_job: a coroutine of     *)
(*       several transactions with awaits between them.                    *)
(*                                                                         *)
(* A transaction (session_scope) is one step: it commits whole or not at   *)
(* all.  What is between two transactions (network I/O, the object store,  *)
(* the mail provider, Redis) is where a run can be lost, so every await    *)
(* that has an effect is a step of its own.                                *)
(*                                                                         *)
(* The queue is arq, external: an entry is delivered to one worker at a    *)
(* time (its in-progress key), comes back when the worker process dies or  *)
(* shuts down, is given up after MaxTries deliveries, and is finished, not *)
(* retried, when the job function raises or exceeds the job timeout.       *)
(***************************************************************************)
EXTENDS Naturals, FiniteSets

CONSTANTS
  Jobs,       \* scan job ids
  Workers,    \* scanner worker processes
  MaxTries,   \* arq's max_tries
  Faults,     \* the kinds of fault the environment may inject
  MaxFaults,  \* bound of the model: how many faults happen in all
  NoWorker,   \* no worker holds the entry
  NoScan      \* no Scan row exists for the job

FaultKinds == {"crash", "abort", "lost"}

ASSUME LifecycleAssumption ==
  /\ MaxTries \in Nat \ {0}
  /\ MaxFaults \in Nat
  /\ Faults \subseteq FaultKinds
  /\ NoWorker \notin Workers
  /\ NoScan \notin [bundle : {"stored", "none"}]

VARIABLES
  status,     \* scan_jobs.status, "none" while the row does not exist
  stamps,     \* which of started_at / finished_at are set
  scanRow,    \* the row of scans with this job_id, or NoScan
  bundles,    \* jobs whose evidence bundle the object store holds
  audited,    \* audit_events written about the job
  submit,     \* where the submitting request handler is
  entry,      \* arq's run_scan_job entry of the job
  tries,      \* deliveries of that entry so far
  holder,     \* the worker that runs it
  loc,        \* where the run of the job is
  bundleId,   \* the run's local bundle_id
  issued,     \* how often each outside effect happened, per job
  probes,     \* how often the target was probed for the job
  faults      \* faults injected so far

dbVars    == <<status, stamps, scanRow, audited>>
queueVars == <<entry, tries, holder>>
vars == <<status, stamps, scanRow, bundles, audited, submit, entry, tries,
          holder, loc, bundleId, issued, probes, faults>>

-----------------------------------------------------------------------------
(* The state machine of service.py.                                        *)

Statuses == {"queued", "authorized", "probing", "evaluating", "scoring",
             "reporting", "complete", "unreachable", "failed", "rejected"}

TerminalStatuses == {"complete", "unreachable", "failed", "rejected"}

\* _ALLOWED_TRANSITIONS, as a set of <<from, to>>.
AllowedTransitions ==
  {<<"queued", "authorized">>, <<"queued", "rejected">>,
   <<"authorized", "probing">>,
   <<"probing", "evaluating">>, <<"probing", "unreachable">>,
   <<"probing", "failed">>,
   <<"evaluating", "scoring">>, <<"evaluating", "failed">>,
   <<"scoring", "reporting">>, <<"reporting", "complete">>}

\* advance(): one transition of the job's row, with its timestamps.
Advance(j, new) ==
  /\ <<status[j], new>> \in AllowedTransitions
  /\ status' = [status EXCEPT ![j] = new]
  /\ stamps' = [stamps EXCEPT ![j] =
       @ \union (IF new = "probing" THEN {"started"} ELSE {})
         \union (IF new \in TerminalStatuses THEN {"finished"} ELSE {})]

Effects == {"report_email", "generate_remediations_job",
            "detect_regression_job", "record_scan_failed_alert_job"}

ResultEffects == Effects \ {"record_scan_failed_alert_job"}

Locations == {"idle", "load", "probe", "evaluate", "record", "email",
              "remediate", "detect", "complete", "alert"}

-----------------------------------------------------------------------------
Init ==
  /\ status   = [j \in Jobs |-> "none"]
  /\ stamps   = [j \in Jobs |-> {}]
  /\ scanRow  = [j \in Jobs |-> NoScan]
  /\ bundles  = {}
  /\ audited  = [j \in Jobs |-> {}]
  /\ submit   = [j \in Jobs |-> "new"]
  /\ entry    = [j \in Jobs |-> "none"]
  /\ tries    = [j \in Jobs |-> 0]
  /\ holder   = [j \in Jobs |-> NoWorker]
  /\ loc      = [j \in Jobs |-> "idle"]
  /\ bundleId = [j \in Jobs |-> "none"]
  /\ issued   = [j \in Jobs |-> [e \in Effects |-> 0]]
  /\ probes   = [j \in Jobs |-> 0]
  /\ faults   = 0

-----------------------------------------------------------------------------
(* The submitting handler: create_scan_job ("queued"), advance to          *)
(* "authorized" and the audit event are one transaction; enqueue_job comes *)
(* after the commit.  The monitor scheduler submits the same way.          *)

SubmitCommit(j) ==
  /\ submit[j] = "new"
  /\ <<"queued", "authorized">> \in AllowedTransitions
  /\ status'  = [status EXCEPT ![j] = "authorized"]
  /\ audited' = [audited EXCEPT ![j] = @ \union {"scan_authorized"}]
  /\ submit'  = [submit EXCEPT ![j] = "committed"]
  /\ UNCHANGED <<stamps, scanRow, bundles, queueVars, loc, bundleId, issued,
                 probes, faults>>

\* Mutant: the handler enqueues before its transaction commits.
SubmitEnqueueEarly(j) ==
  /\ submit[j] \in {"new", "committed"}
  /\ entry[j] = "none" /\ tries[j] = 0
  /\ submit' = [submit EXCEPT ![j] = IF @ = "new" THEN @ ELSE "answered"]
  /\ entry'  = [entry EXCEPT ![j] = "ready"]
  /\ UNCHANGED <<dbVars, bundles, tries, holder, loc, bundleId, issued,
                 probes, faults>>

SubmitEnqueue(j) ==
  /\ submit[j] = "committed"
  /\ submit' = [submit EXCEPT ![j] = "answered"]
  /\ entry'  = [entry EXCEPT ![j] = "ready"]
  /\ UNCHANGED <<dbVars, bundles, tries, holder, loc, bundleId, issued,
                 probes, faults>>

-----------------------------------------------------------------------------
(* arq: delivery and the ways a delivery ends.                             *)

Deliver(w, j) ==
  /\ entry[j] = "ready"
  /\ tries[j] < MaxTries
  /\ entry'  = [entry EXCEPT ![j] = "held"]
  /\ tries'  = [tries EXCEPT ![j] = @ + 1]
  /\ holder' = [holder EXCEPT ![j] = w]
  /\ loc'    = [loc EXCEPT ![j] = "load"]
  /\ UNCHANGED <<dbVars, bundles, submit, bundleId, issued, probes, faults>>

GiveUp(j) ==
  /\ entry[j] = "ready"
  /\ tries[j] = MaxTries
  /\ entry' = [entry EXCEPT ![j] = "failed"]
  /\ UNCHANGED <<dbVars, bundles, submit, tries, holder, loc, bundleId,
                 issued, probes, faults>>

\* The job function returned or raised: arq removes the entry.
EndRun(j) ==
  /\ loc'      = [loc EXCEPT ![j] = "idle"]
  /\ entry'    = [entry EXCEPT ![j] = "none"]
  /\ holder'   = [holder EXCEPT ![j] = NoWorker]
  /\ bundleId' = [bundleId EXCEPT ![j] = "none"]
  /\ UNCHANGED tries

\* The run goes on at the location next.
Continue(j, next) ==
  /\ loc' = [loc EXCEPT ![j] = next]
  /\ UNCHANGED queueVars

Issue(j, e) == issued' = [issued EXCEPT ![j][e] = @ + 1]

-----------------------------------------------------------------------------
(* run_scan_job.                                                           *)

\* Mutant: the guard only refuses jobs that are already settled.
LoadUnlessSettled(j) ==
  /\ loc[j] = "load"
  /\ \/ /\ status[j] \in TerminalStatuses
        /\ EndRun(j)
        /\ UNCHANGED <<status, stamps, probes>>
     \/ /\ status[j] \notin TerminalStatuses
        /\ status' = [status EXCEPT ![j] = "probing"]
        /\ stamps' = [stamps EXCEPT ![j] = @ \union {"started"}]
        /\ probes' = [probes EXCEPT ![j] = @ + 1]
        /\ Continue(j, "probe")
        /\ UNCHANGED bundleId
  /\ UNCHANGED <<scanRow, audited, bundles, submit, issued, faults>>

\* Mutant: no guard at all, every delivery starts the scan afresh.
LoadUnguarded(j) ==
  /\ loc[j] = "load"
  /\ status' = [status EXCEPT ![j] = "probing"]
  /\ stamps' = [stamps EXCEPT ![j] = @ \union {"started"}]
  /\ probes' = [probes EXCEPT ![j] = @ + 1]
  /\ Continue(j, "probe")
  /\ UNCHANGED <<scanRow, audited, bundles, submit, bundleId, issued, faults>>

\* Mutant: a second delivery is refused whatever the first one did.
LoadFirstTryOnly(j) ==
  /\ loc[j] = "load"
  /\ \/ /\ status[j] # "authorized" \/ tries[j] > 1
        /\ EndRun(j)
        /\ UNCHANGED <<status, stamps, probes>>
     \/ /\ status[j] = "authorized" /\ tries[j] = 1
        /\ Advance(j, "probing")
        /\ probes' = [probes EXCEPT ![j] = @ + 1]
        /\ Continue(j, "probe")
        /\ UNCHANGED bundleId
  /\ UNCHANGED <<scanRow, audited, bundles, submit, issued, faults>>

\* The first transaction: return unless the job is "authorized", else claim
\* it ("probing") and start run_probes.
LoadJob(j) ==
  /\ loc[j] = "load"
  /\ \/ /\ status[j] # "authorized"
        /\ EndRun(j)
        /\ UNCHANGED <<status, stamps, probes>>
     \/ /\ status[j] = "authorized"
        /\ Advance(j, "probing")
        /\ probes' = [probes EXCEPT ![j] = @ + 1]
        /\ Continue(j, "probe")
        /\ UNCHANGED bundleId
  /\ UNCHANGED <<scanRow, audited, bundles, submit, issued, faults>>

\* run_probes returned a bundle.
ProbesSucceed(j) ==
  /\ loc[j] = "probe"
  /\ Advance(j, "evaluating")
  /\ Continue(j, "evaluate")
  /\ UNCHANGED <<scanRow, audited, bundles, submit, bundleId, issued, probes,
                 faults>>

\* run_probes raised EgressDenied or ValidationError.
ProbesDenied(j) ==
  /\ loc[j] = "probe"
  /\ Advance(j, "unreachable")
  /\ audited' = [audited EXCEPT ![j] = @ \union {"scan_execution_denied"}]
  /\ Continue(j, "alert")
  /\ UNCHANGED <<scanRow, bundles, submit, bundleId, issued, probes, faults>>

\* run_probes raised anything else.
ProbesFail(j) ==
  /\ loc[j] = "probe"
  /\ Advance(j, "failed")
  /\ Continue(j, "alert")
  /\ UNCHANGED <<scanRow, audited, bundles, submit, bundleId, issued, probes,
                 faults>>

\* Mutant: a failed evaluation is noticed only after the result is written.
EvaluationFailsLate(j) ==
  /\ loc[j] = "email"
  /\ status' = [status EXCEPT ![j] = "failed"]
  /\ stamps' = [stamps EXCEPT ![j] = @ \union {"finished"}]
  /\ Continue(j, "alert")
  /\ UNCHANGED <<scanRow, audited, bundles, submit, bundleId, issued, probes,
                 faults>>

\* The checks or the scoring raised.
EvaluationFails(j) ==
  /\ loc[j] = "evaluate"
  /\ Advance(j, "failed")
  /\ Continue(j, "alert")
  /\ UNCHANGED <<scanRow, audited, bundles, submit, bundleId, issued, probes,
                 faults>>

\* Mutant: bundle_id is assigned before the upload is known to have worked.
StoreBundleOptimistic(j) ==
  /\ loc[j] = "evaluate"
  /\ \E stored \in BOOLEAN :
       /\ bundles'  = IF stored THEN bundles \union {j} ELSE bundles
       /\ bundleId' = [bundleId EXCEPT ![j] = "stored"]
  /\ Continue(j, "record")
  /\ UNCHANGED <<dbVars, submit, issued, probes, faults>>

\* The evaluation succeeded; put_evidence_bundle is acknowledged, or raises
\* ObjectStoreError, in which case the object may be there all the same.
StoreBundle(j) ==
  /\ loc[j] = "evaluate"
  /\ \E stored, acknowledged \in BOOLEAN :
       /\ acknowledged => stored
       /\ bundles'  = IF stored THEN bundles \union {j} ELSE bundles
       /\ bundleId' = [bundleId EXCEPT ![j] =
                         IF acknowledged THEN "stored" ELSE "none"]
  /\ Continue(j, "record")
  /\ UNCHANGED <<dbVars, submit, issued, probes, faults>>

\* Mutant: the result is written in a transaction before the two advances.
RecordResultAlone(j) ==
  /\ loc[j] = "record"
  /\ \/ /\ scanRow[j] = NoScan
        /\ scanRow' = [scanRow EXCEPT ![j] = [bundle |-> bundleId[j]]]
        /\ Continue(j, "record")
        /\ UNCHANGED status
     \/ /\ scanRow[j] # NoScan
        /\ status' = [status EXCEPT ![j] = "reporting"]
        /\ Continue(j, "email")
        /\ UNCHANGED scanRow
  /\ UNCHANGED <<stamps, audited, bundles, submit, bundleId, issued, probes,
                 faults>>

\* One transaction: "scoring", record_scan_result, "reporting".  The unique
\* job_id would refuse a second row.
RecordResult(j) ==
  /\ loc[j] = "record"
  /\ scanRow[j] = NoScan
  /\ <<status[j], "scoring">> \in AllowedTransitions
  /\ <<"scoring", "reporting">> \in AllowedTransitions
  /\ scanRow' = [scanRow EXCEPT ![j] = [bundle |-> bundleId[j]]]
  /\ status'  = [status EXCEPT ![j] = "reporting"]
  /\ Continue(j, "email")
  /\ UNCHANGED <<stamps, audited, bundles, submit, bundleId, issued, probes,
                 faults>>

\* Mutant: MailDeliveryFailed is not caught.
SendReportEmailRaises(j) ==
  /\ loc[j] = "email"
  /\ \/ Issue(j, "report_email") /\ Continue(j, "remediate") /\ UNCHANGED bundleId
     \/ EndRun(j) /\ UNCHANGED issued
  /\ UNCHANGED <<dbVars, bundles, submit, probes, faults>>

\* send_transactional_email; MailDeliveryFailed is logged and dropped.
SendReportEmail(j) ==
  /\ loc[j] = "email"
  /\ \/ Issue(j, "report_email")
     \/ UNCHANGED issued
  /\ Continue(j, "remediate")
  /\ UNCHANGED <<dbVars, bundles, submit, bundleId, probes, faults>>

EnqueueRemediations(j) ==
  /\ loc[j] = "remediate"
  /\ Issue(j, "generate_remediations_job")
  /\ Continue(j, "detect")
  /\ UNCHANGED <<dbVars, bundles, submit, bundleId, probes, faults>>

EnqueueDetectRegression(j) ==
  /\ loc[j] = "detect"
  /\ Issue(j, "detect_regression_job")
  /\ Continue(j, "complete")
  /\ UNCHANGED <<dbVars, bundles, submit, bundleId, probes, faults>>

CompleteJob(j) ==
  /\ loc[j] = "complete"
  /\ Advance(j, "complete")
  /\ EndRun(j)
  /\ UNCHANGED <<scanRow, audited, bundles, submit, issued, probes, faults>>

\* The last step of each failure branch.
EnqueueFailedAlert(j) ==
  /\ loc[j] = "alert"
  /\ Issue(j, "record_scan_failed_alert_job")
  /\ EndRun(j)
  /\ UNCHANGED <<dbVars, bundles, submit, probes, faults>>

-----------------------------------------------------------------------------
(* Faults, bounded by MaxFaults.                                           *)

Fault(kind) ==
  /\ kind \in Faults
  /\ faults < MaxFaults
  /\ faults' = faults + 1

\* The worker process dies, or shuts down and cancels its runs
\* (CancelledError passes run_scan_job's "except Exception"): every entry it
\* held returns to the queue.
Crash(w) ==
  LET lost == {j \in Jobs : holder[j] = w}
  IN
  /\ Fault("crash")
  /\ lost # {}
  /\ entry'    = [j \in Jobs |-> IF j \in lost THEN "ready" ELSE entry[j]]
  /\ holder'   = [j \in Jobs |-> IF j \in lost THEN NoWorker ELSE holder[j]]
  /\ loc'      = [j \in Jobs |-> IF j \in lost THEN "idle" ELSE loc[j]]
  /\ bundleId' = [j \in Jobs |-> IF j \in lost THEN "none" ELSE bundleId[j]]
  /\ UNCHANGED <<dbVars, bundles, submit, tries, issued, probes>>

\* The run exceeds arq's job timeout, or raises what run_scan_job does not
\* catch (a lost database or Redis connection): no retry.
Abort(j) ==
  /\ Fault("abort")
  /\ loc[j] # "idle"
  /\ loc'      = [loc EXCEPT ![j] = "idle"]
  /\ entry'    = [entry EXCEPT ![j] = "failed"]
  /\ holder'   = [holder EXCEPT ![j] = NoWorker]
  /\ bundleId' = [bundleId EXCEPT ![j] = "none"]
  /\ UNCHANGED <<dbVars, bundles, submit, tries, issued, probes>>

\* The request handler dies between its commit and its enqueue.
SubmitLost(j) ==
  /\ Fault("lost")
  /\ submit[j] = "committed"
  /\ submit' = [submit EXCEPT ![j] = "dead"]
  /\ UNCHANGED <<dbVars, bundles, queueVars, loc, bundleId, issued, probes>>

-----------------------------------------------------------------------------
\* A step of the coroutine run_scan_job.
RunStep(j) ==
  \/ LoadJob(j)
  \/ ProbesSucceed(j)
  \/ ProbesDenied(j)
  \/ ProbesFail(j)
  \/ EvaluationFails(j)
  \/ StoreBundle(j)
  \/ RecordResult(j)
  \/ SendReportEmail(j)
  \/ EnqueueRemediations(j)
  \/ EnqueueDetectRegression(j)
  \/ CompleteJob(j)
  \/ EnqueueFailedAlert(j)

DeliverToSome(j) == \E w \in Workers : Deliver(w, j)

Next ==
  \/ \E j \in Jobs :
       \/ SubmitCommit(j)
       \/ SubmitEnqueue(j)
       \/ SubmitLost(j)
       \/ DeliverToSome(j)
       \/ GiveUp(j)
       \/ RunStep(j)
       \/ Abort(j)
  \/ \E w \in Workers : Crash(w)

Spec == Init /\ [][Next]_vars

\* A handler that committed goes on to enqueue; arq polls its queue; a run
\* goes on because every await in it is bounded by a timeout.  Nobody is
\* obliged to submit, and no fault is obliged to happen.
Fairness ==
  \A j \in Jobs :
    /\ WF_vars(SubmitEnqueue(j))
    /\ WF_vars(DeliverToSome(j))
    /\ WF_vars(GiveUp(j))
    /\ WF_vars(RunStep(j))

FairSpec == Spec /\ Fairness

-----------------------------------------------------------------------------
\* The types of the variables.
TypeOK ==
  /\ status   \in [Jobs -> Statuses \union {"none"}]
  /\ stamps   \in [Jobs -> SUBSET {"started", "finished"}]
  /\ scanRow  \in [Jobs -> [bundle : {"stored", "none"}] \union {NoScan}]
  /\ bundles  \subseteq Jobs
  /\ audited  \in [Jobs -> SUBSET {"scan_authorized", "scan_execution_denied"}]
  /\ submit   \in [Jobs -> {"new", "committed", "answered", "dead"}]
  /\ entry    \in [Jobs -> {"none", "ready", "held", "failed"}]
  /\ tries    \in [Jobs -> 0 .. MaxTries]
  /\ holder   \in [Jobs -> Workers \union {NoWorker}]
  /\ loc      \in [Jobs -> Locations]
  /\ bundleId \in [Jobs -> {"stored", "none"}]
  /\ issued   \in [Jobs -> [Effects -> Nat]]
  /\ probes   \in [Jobs -> Nat]
  /\ faults   \in 0 .. MaxFaults

\* A result exists exactly for the jobs whose status says so, whatever
\* happens to the worker: record_scan_result and the advance to "reporting"
\* commit together, and no failure branch comes after them.
ResultIffReported ==
  \A j \in Jobs : scanRow[j] # NoScan <=> status[j] \in {"reporting", "complete"}

\* A job is probed at most once and each outside effect of it happens at
\* most once, although the queue delivers at least once: only the delivery
\* that finds the job "authorized" goes past the guard of run_scan_job.
EffectsAtMostOnce ==
  \A j \in Jobs :
    /\ probes[j] <= 1
    /\ \A e \in Effects : issued[j][e] <= 1

\* What a follow-up job or a reader of the e-mail relies on: the failure
\* alert is only sent for a job that failed and has no result
\* (record_scan_failed_alert_job: "No Scan row exists for a failed job"), the
\* others only when the result is committed.
EffectsAreJustified ==
  \A j \in Jobs :
    /\ issued[j]["record_scan_failed_alert_job"] > 0 =>
         status[j] \in {"unreachable", "failed"} /\ scanRow[j] = NoScan
    /\ \A e \in ResultEffects : issued[j][e] > 0 => scanRow[j] # NoScan

\* A scan never points at an evidence bundle that the object store lacks.
NoDanglingBundle ==
  \A j \in Jobs :
    scanRow[j] # NoScan /\ scanRow[j].bundle = "stored" => j \in bundles

\* The queue never holds a job whose row and authorization audit are not yet
\* committed: the worker that loads it always finds it (ADR-0003, "written to
\* the audit trail before the scan is queued, not after").
QueuedMeansAuthorized ==
  \A j \in Jobs :
    entry[j] # "none" => status[j] # "none" /\ "scan_authorized" \in audited[j]

\* The statuses a run can find its job in at each of its locations: what it
\* claimed is still its own, so advance() never raises InvalidScanTransition
\* in the middle of a run.
StatusAt ==
  [idle      |-> Statuses \union {"none"},
   load      |-> Statuses,
   probe     |-> {"probing"},
   evaluate  |-> {"evaluating"},
   record    |-> {"evaluating"},
   email     |-> {"reporting"},
   remediate |-> {"reporting"},
   detect    |-> {"reporting"},
   complete  |-> {"reporting"},
   alert     |-> {"unreachable", "failed"}]

\* The effects that are still ahead of a run at each location.
Ahead ==
  [idle      |-> {},
   load      |-> {},
   probe     |-> Effects,
   evaluate  |-> Effects,
   record    |-> Effects,
   email     |-> ResultEffects,
   remediate |-> {"generate_remediations_job", "detect_regression_job"},
   detect    |-> {"detect_regression_job"},
   complete  |-> {},
   alert     |-> {"record_scan_failed_alert_job"}]

\* The strengthening that makes the invariants above inductive, for one job.
JobInv(j) ==
  /\ status[j] \in {"none", "authorized", "probing", "evaluating", "reporting",
                    "complete", "unreachable", "failed"}
  /\ status[j] = "none" <=> submit[j] = "new"
  /\ submit[j] # "new" => "scan_authorized" \in audited[j]
  /\ entry[j] # "none" => submit[j] = "answered"
  /\ entry[j] = "held" <=> loc[j] # "idle"
  /\ entry[j] = "held" <=> holder[j] # NoWorker
  /\ status[j] \in StatusAt[loc[j]]
  /\ scanRow[j] # NoScan <=> status[j] \in {"reporting", "complete"}
  /\ probes[j] = IF status[j] \in {"none", "authorized"} THEN 0 ELSE 1
  /\ \A e \in Effects : issued[j][e] <= 1
  /\ \A e \in Ahead[loc[j]] : issued[j][e] = 0
  /\ status[j] \notin {"reporting", "complete"} =>
       \A e \in ResultEffects : issued[j][e] = 0
  /\ status[j] \notin {"unreachable", "failed"} =>
       issued[j]["record_scan_failed_alert_job"] = 0
  /\ bundleId[j] = "stored" => j \in bundles
  /\ scanRow[j] # NoScan /\ scanRow[j].bundle = "stored" => j \in bundles

\* A run and the row it works on agree, at every location and after every
\* crash: the inductive invariant of the specification.
LifecycleInv == TypeOK /\ \A j \in Jobs : JobInv(j)

\* A settled job is never touched again: its status, timestamps and result
\* are those its last transaction wrote.
SettledIsFinal ==
  [][\A j \in Jobs :
       status[j] \in TerminalStatuses =>
         /\ status'[j] = status[j]
         /\ stamps'[j] = stamps[j]
         /\ scanRow'[j] = scanRow[j]]_vars

\* The contract with the outside, through this mapping.
PhaseOf(s) ==
  CASE s = "none"       -> "absent"
    [] s = "authorized" -> "accepted"
    [] s \in {"probing", "evaluating"}   -> "working"
    [] s = "reporting"  -> "published"
    [] s = "complete"   -> "done"
    [] s \in {"unreachable", "failed"}   -> "dead"
    [] OTHER -> "never"

Contract == INSTANCE ScanJobContract WITH
  phase          <- [j \in Jobs |-> PhaseOf(status[j])],
  told           <- issued,
  FailureEffects <- {"record_scan_failed_alert_job"}

\* Every step of the code, faults included, is a step of the contract.
ImplementsContract == Contract!Spec

\* Every accepted job is settled, unless a fault happens.
EveryJobSettles ==
  \A j \in Jobs :
    status[j] = "authorized" ~> status[j] \in TerminalStatuses \/ faults > 0

\* A worker that dies before its first commit costs nothing: the job is
\* delivered again, until a run claims it or the queue records that it gave
\* up on it.  No job leaves the queue unclaimed and unrecorded.
PickupSurvivesCrash ==
  \A j \in Jobs :
    (entry[j] = "ready" /\ status[j] = "authorized") ~>
      status[j] # "authorized" \/ entry[j] = "failed"

\* docs/architecture.md section 10: "Worker crash | Job returns to queue; scan is
\* idempotent by scan_id", that is, a crash does not keep a scan that has been
\* started from coming to an end.
CrashedScanIsRetried ==
  \A j \in Jobs : status[j] = "probing" ~> status[j] \in TerminalStatuses
=============================================================================
