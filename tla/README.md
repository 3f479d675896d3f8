# Vigilo: a TLA+ verification project

Vigilo scans web origins for security weaknesses, scores them, and watches them
over time. This directory holds TLA+ models of the parts of it that are hard to
test because they depend on the order in which handlers, jobs and crashes
happen, the TLC configurations that check them on small instances, and proofs,
checked by TLAPS, of what matters most for every instance. `src/` below is the
root of the repository.

## 1. The system

| Part | State it keeps | Operations | Talks to |
|---|---|---|---|
| API (`apps/api`) | none of its own; one database session per request (`session_scope`: commit or roll back) | submit a scan, read its status, stream it, ask for a report or a PDF, targets, ownership, monitors, suppressions, share links, API keys, billing webhook | PostgreSQL, arq's queue in Redis |
| Scan lifecycle (`packages/orchestrator` `service.py`, `jobs.py`) | `scan_jobs` (status machine), `scans`, `findings` | `create_scan_job`, `advance`, `record_scan_result`, `run_scan_job` | probes, object store, mail, queue |
| PDF reports (`orchestrator/reports.py`, `routers/reports.py`, the web's `ExportPdfButton.tsx`) | `reports` (one `pdf` row per scan) | find or create, mark complete, mark failed, render job | object store, queue, browser |
| Monitoring (`packages/monitoring`, `apps/scanner/.../jobs.py`) | `monitors`, `alerts` | create, disable, due, reschedule; cron cycle; regression detection; scan-failed alert | scans, suppressions, authorization, mail |
| Authorization and quotas (`packages/security`, `packages/billing`) | none: recomputed from counts | `resolve_authorization`, `consume`, `entitlements` | every handler that creates something |
| Ownership (`security/ownership.py`, `packages/project`) | `targets.verification_status`, `ownership_proofs` | issue, check in a job, expire | DNS, HTTP, queue |
| Accounts, API keys, subscriptions (`packages/identity`) | `accounts`, `subscriptions`, `api_keys`, `branding_profiles` | find or create, upsert by webhook, create, revoke | billing provider |
| Rate limit (`security/rate_limit.py`) | a counter with a TTL in Redis | `check_rate` | Redis |
| Share links (`orchestrator/reports.py`, `routers/share_links.py`) | `share_links`, the `html` row of `reports` | create, list, revoke, resolve, count a view | - |
| Remediation cache (`orchestrator/remediation.py`, `jobs.py`) | `remediation_cache` | bulk read, then per finding: ask the provider, select, insert or update | LLM provider |
| Suppressions | a table | upsert, revoke, expire | - |
| Probes (`packages/probes`), egress guard (`security/egress_guard.py`) | the evidence of one run | `run_probes`: http, then tls, wellknown, bundle side by side, then backends, then paths; `validate_and_pin` before every request | DNS, the target |
| Checks, scoring, SARIF, CLI threshold | none: functions of the evidence | 64 checks, `plan_registry`, `score`, levels, `--fail-on` | - |
| Worker (`apps/scanner/worker.py`) | arq's queue: entry, in-progress key, delivery count | deliver, finish, give up | Redis |

How the parts interact: a handler commits its transaction and then enqueues a
job; a worker runs the job as several transactions with network I/O, e-mails and
further enqueues between them; the pages and clients poll what was committed.
Nothing is locked: all coordination is by a status column that is read and
written in READ COMMITTED transactions, by unique constraints, and by arq's rule
that an entry is with one worker at a time.

So the hard behaviour is of four kinds: *what is between two transactions of one
run* (a worker can die there, and arq delivers the entry again; an exception or
the job timeout ends it for good), *two transactions that read the same row
before either writes* (reports, monitors, quotas), *several jobs about one
target whose order nobody fixed* (detections), and *clients that poll across a
commit*. `PROJECT.json` lists each place under `hazards`.

What makes each part correct, in a sentence each:

- Scan lifecycle: the status, the result row, the stored bundle and the outside
  effects never contradict each other, whatever dies when; nothing is done
  twice; a terminal status is final; accepted jobs settle.
- Status readers: an answer that calls a job settled is whole; a stream tells the
  history in order, to the end, and ends.
- PDF reports: what is offered for download is stored; one render per need; a
  page that waits is told.
- Monitoring: every transition between successive scans is told once; what is
  marked sent was delivered; a due monitor is scanned, once per cadence. The code
  keeps the first and the last of these up to exceptions, which the properties
  state (section 3).
- Quotas and authorization: no more than the plan allows; the active tier only
  with a valid proof.
- Probes: every connection ends at a public host; a run ends; a passive run asks
  for nothing active; a failed request is neither a defect nor a clean bill.
- Checks and outputs: one defect does not hide another; score, grade, SARIF level
  and the CLI's threshold tell the same story.
- Share links, keys, rate limit: what is revoked stays revoked; a window lets
  through its limit and ends; a counted view was served.
- Remediation cache: concurrent jobs end, at least one keeps its work.
- Scheduling: a monitor runs at the earliest time its cadence and its quiet hours
  allow, and is put off only by a run.

## 2. Modules

| Module | Models | State and actions against the code |
|---|---|---|
| `ScanJobContract` | what a scan job promises: its status machine and that a result appears exactly once, at a known point | abstract; phases `none, accepted, running, scored, done, dead` |
| `ScanLifecycle` | `submit_scan`'s commit and enqueue, arq, and `run_scan_job` | one action per transaction or effectful await; `loc` is the program counter of the run; `Deliver`, `Crash`, `GiveUp`, `Abort` are arq |
| `ScanLifecycleProofs` | the proofs about it and about `ScanObservers` | |
| `ScanObservers` | extends `ScanLifecycle` by a status request (two reads) and an event stream (poll, emit, end) | |
| `ReportPdf` | the `pdf` row, the two routes, the export button's loop, the render job | handlers are read, write, enqueue; the marking transactions are read, then write of the changed columns only, as the ORM does |
| `ReportPdfProofs` | the proofs about it | |
| `RegressionDiff` | `detect_regression`, pure | operators |
| `Monitoring` | a monitor, its owner, the cron job, the detection and scan-failed jobs | what a job reads early and writes late are two steps; `draft` and `cycle` hold what it has read; nothing keeps two jobs apart |
| `MonitoringProofs` | the proofs about it | |
| `Admission` | the requests of one account: `submit_scan`, `public_submit_scan`, `create_target_endpoint`, `_run_due_monitor`, with `resolve_authorization` and `consume` inside them | one action per statement that reads; the inserts take effect at `Commit`; sign-in, verification, lapse, subscription events and time are actions of the environment |
| `AdmissionProofs` | the proofs about it: the tier first, then the quotas | |
| `Checks` | the registry, the score, SARIF levels, the CLI threshold | one operator per check, over an evidence record; a text is the set of the patterns the checks would find in it |
| `ScannedSite` | the environment: a site that is well kept but for a set of *deviations* | one deviation per thing some check reports, and six shapes that change what the probes see |
| `ProbeRun` | extends both by one run of `run_probes` | one action per resolution and per request; `conn` is the pinned address of each probe, `todo` what it has still to ask, `evidence` what it has collected |
| `ChecksProofs` | the proofs about the registry, the score and the grade | |
| `ProbeRunProofs` | the proofs about the run, and about what its checks make of a site | |
| `Access` | share links, API keys and the rate limit of one account, in concurrent requests | `request[r].at` is the next statement of the handler; a request reads in one step and writes in a later one |
| `AccessProofs` | the proofs about it | |
| `Remediation` | `generate_remediations_job` of several scans | the open transaction is `inserted`, `updated`; row locks, the unique violation and deadlocks are actions |
| `Scheduling` | `compute_next_run_at` inside `check_due_monitors_job`, in quarters of an hour, beside the owner and the other writer of `next_run_at`, `detect_regression_job` | `cycle.listed` holds the rows as the cycle read them, `held` what detections have read; a monitor of the list is run, denied (and disabled), missing, or ends the loop with an exception before or after its commit |
| `BackOfficeProofs` | the proofs about `Remediation` and `Scheduling` | |
| `MCAdmission`, `MCMonitoring`, `MCProbeRun`, `MCBackOffice` | the limits, sites and resolvers of the instances; `MCMonitoring` takes `Monitoring` in three stories; `MCBackOffice` puts `Access`, `Remediation` and `Scheduling` in one run | |

Composition: `ScanObservers` extends `ScanLifecycle` and adds readers to its
next-state relation. `Monitoring` takes scan jobs at the level of
`ScanJobContract` (accepted, then published once or dead, or stuck), which
`ScanLifecycle` is proved to implement, and not their inner steps. `ReportPdf`
is independent of the scan once it is scored. `Admission` ends where
`ScanLifecycle` begins: its `Commit` of a scan is the accepted job. `ProbeRun` is
what `ScanLifecycle` takes as one step with three outcomes (denied, failed, a
bundle); it extends `Checks` and `ScannedSite`, so that its properties relate
what the run sealed to what the site is. `Scheduling` gives the detail of what `Monitoring`
calls one cadence, for several monitors in one list; of a run and of a detection
it keeps what they do to `next_run_at` and leaves the rest to `Monitoring`.
`MCMonitoring`'s variable `story`, chosen by the initial state, says which
values the scans of a behaviour differ in: a story restricts the states, and no
step waits for another in any of them. `MCBackOffice` extends three modules that share no state; its variable `part`, chosen by the
initial state, says which of them moves.

In `Admission` a request walks through the statements its handler executes:

| `at` | Statement | `submit_scan` | `public_submit_scan` | `create_target` | scheduler |
|---|---|---|---|---|---|
| `account` | account by email, or with the key | 1 | 1 | 1 | 2 |
| `project` | `get_or_create_default_project` | 2 | 2 | 2 | - |
| `target` | target by origin, its status | 3 | 3 | 3 | 1 |
| `proof` | unexpired proof, 24-hour count, the decision | 4 | 4 | - | 3 |
| `targets` | TARGETS count, if there is no row | 4 | 4 | 4 | - |
| `scans` | SCANS_MONTHLY count | 5 | 5 | - | - |
| `rows`, `insert` | what is still missing | 6 | 6 | 5 | - |
| `commit` | the inserts become visible, or a unique constraint fails | 7 | 7 | 6 | 4 |

`owned`, `paid` and `earned` are history variables in the request: what was true
at some point since it began. They do not guard anything.

The transactions are steps because `session_scope` commits whole or rolls back.
Where a transaction reads and writes with statements between that another
transaction can commit into, it is split: at READ COMMITTED every statement has
its own snapshot. `SELECT ... ; UPDATE` on one row directly after each other in
`reschedule_monitor` is one step.

## 3. Runs

| Run | Instance | Result |
|---|---|---|
| `ScanObservers_safety` | 1 job, 2 workers, 3 deliveries, 2 faults of any kind (crash, abort, lost enqueue), a status request, a stream with 4 polls, fair | holds: the pipeline's `ResultIffReported`, `EffectsAtMostOnce`, `EffectsAreJustified`, `NoDanglingBundle`, `QueuedMeansAuthorized`, the inductive invariant, `SettledIsFinal`, `ImplementsContract`; without a fault every accepted job settles, and one that no run has claimed survives crashes; settled answers are whole, streams tell the history in order and to the end, and end |
| `ScanLifecycle_crash` | 1 job, 1 crash, fair | **violated** `CrashedScanIsRetried` (finding) |
| `ReportPdf_safety` | 2 browsers with 2 clicks, another client, 1 fault of any kind, fair | holds: `PublishedIsStored`, `FirstRenderIsUnique`, `CrashedRenderIsRetried` |
| `ReportPdf_waiting` | 1 browser, a failing render, fair | **violated** `WaitingPageIsTold` (finding) |
| `Monitoring_safety` | 3 scans of one target, follow-up jobs interleave; scans of the cron job over 2 cadences with suppressions, disabling and a fault of any kind, fair; or 2 findings and 2 registry majors; or 3 scores | holds: `TypeOK`, `AlertsTellTransitions`, `SentMeansDelivered`, `ExtraScansWereUndone`, `OnlyOvertakenIsMissed`, `OnlyRecomparedIsResent`, `ScoreDropWasSeenTwice`, `DueMonitorGetsScan` |
| `Monitoring_cadence` | 3 scans, of the cron job and of the owner, no fault | **violated** `CadenceIsKept` (finding) |
| `Monitoring_missed` | 3 scans by their owner, no fault, follow-up jobs interleave | **violated** `NoTransitionMissed` (finding) |
| `Admission_safety` | 2 requests of any kind, 1 origin, limits of one scan and one target, ceiling 0, 3 jobs | holds: `TypeOK`, `ActiveIsEarned`, `ScansAreBounded`, `RecentScansAreBounded` |
| `Admission_projects` | the same | **violated** `OneProjectPerAccount` (finding) |
| `ProbeRun_safety` | 73 sites (each of 66 deviations alone, none, some together, all), 2 tiers, 4 answers of a resolver, 2 faults, fair | holds: `OnlyPublicAddresses`, `TheTwoGatesAgree`, `FaultsAccuseOnlyConnectivity`, `NoDeviationHidesAnother`, `OutputsAgree`, `RunEnds` |
| `ProbeRun_unreached` | one site with a leaked key | **violated** `UnreachedIsNotPassed` (finding) |
| `BackOffice_safety` | 3 requests, 1 link, 1 key, limits 1 and 2; 2 jobs over 3 findings, 1 fault, fair; 2 monitors, 5 kinds of quiet hours, 3 times of day, one change by the owner, one error | holds: `RevocationHolds`, `CountersHold`, `RemediationSparesOne`, `EarliestOutsideQuietHours`, `NoDueMonitorIsLost` |

Bounds and why they are enough. Jobs share only workers, so two show every
interference; a third delivery repeats the second. Faults are bounded by
`MaxFaults`: two let a fault meet the recovery from another. For reports the
races are between two requests of one row. For monitoring three scans are the
least for "failed, fixed, failed again" and for two consecutive drops; the
scores give a drop of exactly the threshold, a larger one and none. Its three
stories share the interleavings and differ in what scans can be: with everything
at once there are too many states. Faults and the owner's changes are in the
first, where write-backs can undo a reschedule; the theorems of section 5 have no
such division. A scan more than the cadence takes three as well: two, for a
detection to have something to compare, and the one too many. For
admission two requests show every race between a count and an insert; the
bounds proved and checked come to two jobs, so three jobs could exceed them.
A probe run needs two
faults for a failed request to meet a denied one; the sites change in one thing
each because the checks are independent, and in several for those that are not.
Of three requests two race and the third comes after them, in the same window or
the next. Two remediation jobs give the conflict and the circle of waits; the
quiet hours are half set, around midnight, within a day, empty, and one that is
no hour. Of the two monitors one is free; the other is created first, has the
hour that makes a cycle raise, and is not changed, which puts it before or after
the first in a list. Time is at two quarters in a row and at the same two a day
later.
`MaxTime`, `MaxJobs`, `MaxPolls`, `MaxClicks`, `LastTime`, `MaxChanges` and `MaxErrors` are bounds of the
models, not of the code; a property that mentions one says so.

The runs marked violated check one property each, which states what a doc, a
comment or a message of the program says. `PROJECT.json` quotes it under
`findings` with what the code does. `CHECK_DEADLOCK FALSE` is set where the
system may come to rest: all jobs finished, nobody clicks, or a bound reached.

Further disagreements met while modelling, which have no run of their own:

- `POST /v1/scans/{id}/report`, twice while the row is failed: both requests read
  the failed row before either resets it, and both enqueue a render
  (`orchestrator/reports.py:98`; docs/api.md:272-274 describes one retry).
- The POST answer for a report that is complete already has no `download_url`
  (`routers/reports.py:83`), and `ExportPdfButton.tsx:27-32` takes "complete
  without a URL" for a failure. The next click behaves the same.
- Two overlapping renders, one reset between them: the second marking can leave
  the row complete without `artefact_uri` (`orchestrator/reports.py:117`,
  docs/api.md:280-281).
- A status answer can carry a score with a status from before it: it reads
  `scan_jobs` and `scans` one after the other and the worker can commit in
  between (`routers/scans.py:194`, docs/api.md:93). It is the next poll that is
  consistent; an answer that says *settled* is always whole, which
  `SettledAnswerIsWhole` checks.
- Two detections can compare the same pair: two jobs, of which the earlier scan's
  reads after the later scan is published, or one job that arq delivers again
  after its worker died (`apps/scanner/.../jobs.py:160`). Its alerts are then a
  second time in the e-mail, although docs/prooflight-vision-and-architecture.md,
  10.3, says "Same alert is not re-sent while the finding stays open".
  `OnlyRecomparedIsResent` says that there is no other way to it.
- A first score drop confirms itself by the same two ways, because the first
  delivery has committed `pending_score_drop` (`jobs.py:183`). The bit also
  outlives that the monitor is turned off and on, and scans published in between
  are skipped; and the cron job writes it back as it was when the list was read
  (`jobs.py:128`), which restores one that a detection has cleared since, or
  clears a new one. So the "second consecutive drop" of docs/modules.md:718 need
  be neither second nor consecutive. `ScoreDropWasSeenTwice` is what holds: two
  deliveries have seen a drop, and no write-back confirms one that nobody saw.
- The cadence is not kept (`Monitoring_cadence`). `ExtraScansWereUndone` bounds
  the damage: each scan beyond the cadence is paid for by one write-back of a
  detection that undid a reschedule, and a write-back pays for one only.
- A monitor that its owner disables between the moment a cycle lists it and its
  turn is still run, and rescheduled (`jobs.py:66-133`: the row is not read
  again).
- An exception of the cycle ends its loop: a database error, an hour that is
  none, or `enqueue_job` failing behind the commit (`jobs.py:143`), which also
  leaves a scan job that nothing will ever run. The rest of the list stays due
  (`NoDueMonitorIsLost`) and is listed again; that it is run some day is not
  said by any property, and a monitor whose run always raises can keep others
  from it for ever.
- `billing/plans.py:7-8` says that monitored scans are not counted by
  `scans_per_month_limit`; the count that `submit_scan` passes
  (`routers/scans.py:145-148`) is of all `scan_jobs`, monitored ones included.
  `ScansAreBounded` speaks of the scans somebody asked for.
- `_run_due_monitor` disables a monitor on every denial, the 24-hour ceiling
  included, where its comment names the opt-out and the denylist only
  (`apps/scanner/.../jobs.py:103`).
- Each ownership check enqueues a job, and nothing keeps two of them from
  calling `mark_proof_verified` for the same proof, which renews it.
- The views of a link are counted by reading and writing (`reports.py:192`), so
  concurrent views are lost; docs/data-model.md:286 says "on every successful
  GET". `ViewsWereServed` is the half that holds: never more than were served.
- A process that dies between INCR and EXPIRE (`rate_limit.py:61-63`) leaves a
  counter without an end, and its account is refused for ever, with a
  `Retry-After` of one second. `WindowEnds` names this as its one exception.
- docs/security.md:300 says that the free plan has no keys and so needs no limit;
  keys outlive a downgrade, and their requests are then not limited at all.
- docs/api.md:400 gives quiet hours as "hour 0-23"; nothing validates them
  (`schemas.py:200-203`). An end of 24 makes `replace` raise in the cycle, which
  leaves every monitor later in its list for the next cycle, where it raises
  again. New quiet hours leave the `next_run_at` that the old ones gave.
- A unique violation in `cache_remediation` takes the whole transaction of its
  job, with the answers the provider gave for other findings
  (`orchestrator/remediation.py:80-92`).
- `run_http` requests the host a redirect names and drops its path (`http_probe.py:91-93`);
  the well-known and hidden paths do not follow redirects, so a site that
  redirects them looks as if it had none.
- `VG-TLS-003` cannot fail for an expired certificate, whose handshake is not
  verified, and it reads the clock at evaluation time, not the evidence.
- `core/evidence.py:158-161` says that two scans that observe identical content
  have the same `bundle_id`; the hash includes `elapsed_ms` and
  `days_until_expiry`, so they do not.
- A late cancellation of an old subscription resets the plan of a new one
  (`identity/repository.py:134-141`).

## 4. Fairness

Weak fairness, and only on what the deployment keeps running: a ready queue
entry is delivered to an idle worker, a begun run or handler goes on to its next
step, the cron job fires (every quarter of an hour), a stream's poll loop and
the page's poll loop tick, a probe run goes on (every request has a timeout), a
remediation job goes on and the database ends deadlocks. `Access` and
`Scheduling` assume nothing. Nothing is assumed of clients (submitting, clicking,
disabling) or of faults, and none of network calls beyond that they end: they
are bounded by timeouts in the code.

## 5. Proofs

`ScanLifecycleProofs`. The invariants the runs check are not inductive: what
`ResultIffReported` says of the rows is kept only because the location of a run
determines the status it will find. `LifecycleInv` is the conjunction of what
each location implies (per job: status, stamps, row, bundle, issued effects,
audit events) and what the entry and its holder imply. Each action is one step
of `JobStep`, jobs do not disturb each other, so the proof is per job. From it
follow the invariants, `SettledIsFinal` (an action property), and
`ContractImplemented`: initial states map to initial states, and every step
changes the phase of at most one job, and that as the contract allows, or
stutters. The assumption is `LifecycleAssumption` (a positive number of tries,
`NoWorker` and `NoScan` are not values).

The same module proves the invariants of `ScanObservers`. The readers only add
steps that leave the pipeline's variables alone (`ObserversKeepLifecycle`), so
`LifecycleInv` holds beside them. A request that has read a settled status has
read the job's last one, for settled is final; one that has read "reporting" or
"complete" finds the scan row at its second read, for a row never goes away
(`AnswerInv`). What a stream has emitted ascends in the order of the statuses
(`Later`) and ends in the one it saw last, which is the job's status or an
earlier one (`StreamInv`).

`ReportPdfProofs`. `TypeOK` of `ReportPdf`, which no run checks besides.
`PdfInv` adds to `PublishedIsStored` that a render past its
upload has its PDF stored, and that what a marking transaction is about to
write was stored when it was read; objects are never deleted, so it stays so.
`UniqueInv`, for `FirstRenderIsUnique`: before the first failure nobody sees or
has seen a failed report; at most one handler is about to enqueue, and then no
render is; at most one render ever was.

`MonitoringProofs`. For any number of scans, findings, follow-up jobs, owner's
changes and faults, in any interleaving: the theorems have no hypothesis but the
module's assumptions on its constants.

- `Types` gives each reader what it needs: a draft is there exactly between the
  reads and the writes of a job, a cycle holds a row of the table.
- `AlertsTellTransitions` needs that a draft already tells a transition of a scan
  that is recorded (`Telling`), and that scans are only appended;
  `SentMeansDelivered` that the alerts of the delivery at hand do not change
  between the e-mail and the mark (`Mailing`).
- `DetectionInv` is what the other three share. A published scan has its row
  (`RowFits`). What a delivery is about to write is the comparison of its own
  scan or a later one with the one before it (`Drafted`), so that a delivery that
  commits has told every transition of the scan it compared (`ReportHolds`,
  from which `OnlyOvertakenIsMissed`). A delivery writes at its end and once
  (`TryFits`, `ToldOnce`), and an alert is of its job's scan or a later one
  (`AlertHolds`), from which `OnlyRecomparedIsResent`: alerts of two scans about
  a finding have one without it in between, since each tells a transition, and
  two of one scan are of two deliveries. Wherever the bit of a pending drop is
  set, in the row or in what a cycle or a detection has read, some delivery that
  committed has seen a drop (`PendingWasSeen`, `Drafted`); stale write-backs move
  the bit about, and the fact does not go away. `ScoreDropWasSeenTwice` follows.
- `CadenceInv` counts: the scans the cron job has started are at most the
  cadences so far and the write-backs that undid a reschedule, and one less where
  the row is due, or was when a cycle read it. A detection that writes an earlier
  time makes the row due and adds one to the right side; a reschedule adds one to
  the left and takes the row's being due away. `ExtraScansWereUndone` is its
  second part.

`AdmissionProofs`. Types, and `ActiveIsEarned`, for any number of requests and
origins and any limits. The property speaks of the moment of the decision; the
invariant `AdmissionInv` says of every request before its decision that what is
true of the origin and the plan *now*, and what the request has read of the
plan, is in its history, so that the history is enough when the tier is granted.

The quotas, in the same module. The counts are read without a lock, so no quota
is exact. The argument for how far it can be exceeded: a request that has passed a check and
not committed yet is *charged*. When it passes, the count is below the limit;
each commit adds one job and frees one charged request. So at all times the
count is at most the limit, less one, plus the requests that are not charged
(`QuotaBound`; `CeilingBound` likewise for the ceiling). A request of a visitor
without an account is charged although it counted nothing: there is no job yet
of an account that does not exist, and a second visitor's insert of the account
fails, or makes the first one's fail; `FlowInv` says so. The assumption is
`AdmissionAssumption`: finitely many requests, limits of at least
one.

`ChecksProofs`. The registry by tier: on any evidence seven checks are active,
those over the hidden paths, and each of the others is passive
(`RegistryByTier`, check by check). Then the score, which is a sum over the set
of failed checks. `MapThenSumSet` computes it by a recursive function on subsets,
and induction over data is not to be had; what replaces it is a minimal
counterexample. A finite set of sets that is not empty has a member that is
minimal by inclusion (`MinimalSubset`), so a claim about the totals of all
subsets that fails somewhere fails at a smallest subset, and is refuted by taking
one element out of it. That gives the existence and uniqueness of the sum
(`SumExists`, `SumsAgree`) and of it what the score needs: it does not depend on
the order (`TotalTakes`), it grows with the set and with the weights
(`TotalMonotone`, `TotalLess`), and it is 0 only if every weight is
(`TotalZero`). `PerfectScore` follows because a check above informational has a
weight that is not 0. `LesserChecksKeepB` adds up group by group what the checks
of medium severity or less can deduct, 287 of 2000 twentieths at most, which
leaves more than the 1500 of a B. The proof of the grade found that the arms of
the model's `GradeFor` overlapped (`CASE` may take any arm that is true, the
code's `if` chain takes the first); they are disjoint intervals now.

`ProbeRunProofs`, in four parts, for any sites, resolvers, candidate lists and
bounds.

1. *Addresses.* `PinnedInv`: what a probe has pinned is allowed, the HTTP probe
   asks only when it has pinned, and so every request went to an allowed address;
   `OnlyPublicAddresses` follows because the guard's class of an address is that
   of its endpoint. `TierInv`: the paths stage is reached by active runs only.
   `TheTwoGatesAgree` joins `RegistryByTier` to the run: the paths probe has no
   address before its stage, has a set of kinds from the moment it pins one, and
   an active run is sealed with that set (`PathsInv`).
2. *Outputs.* `OutputsAgree`: the thresholds and the SARIF levels because every
   severity is one that the tables know, the score and the grade by
   `ChecksProofs`.
3. *Faults.* `FaultsAccuseOnlyConnectivity` needs to know what each probe has
   seen at every moment. `SeenInv` says it, a conjunct for each: the handshake is
   the site's or failed (`TlsSeen`); of the files, the scripts, the backends and
   the paths, what is observed is the site's or a failure's, and together with
   what is still to be asked it is the whole of the site as long as no fault was
   met (`FilesSeen`, `BundleSeen`, `BackendsSeen`, `PathsSeen`). `BaseInv` keeps
   what they share: that the page is the site's and that each probe writes its own part
   only, so that a step of one leaves the conjuncts of the others alone (`Own`,
   `Elsewhere`). A script probe that raises leaves its part unfinished, and the run
   is never sealed (`Going`). Then each group of checks fails on part of the evidence only if
   it fails on the whole (`TlsJustified`, `ExpJustified`, `CliJustified`,
   `DatJustified`); the console calls of `CLI-009` are a sum and use
   `ChecksProofs`.
4. *Deviations.* `NoDeviationHidesAnother` is about two sites, D and D with d
   added. What is wrong with a part of the evidence stays wrong
   (`HeadersWorsen`, `CookiesWorsen`, `BodyWorsens`, `TagsWorsen`,
   `CertificateWorsens`, `TextOfScripts`, `PointersGrow`), so that each group of
   checks fails still (`HdrStays` to `DatStays`) unless d takes the part away, and
   each such d is an arm of `CanHide` (`WhatHides`). The run has 73 sites; the
   theorem is about every set of deviations that has no endless redirect.

Assumed are that a resolver's answer is a sequence, that the candidates are hidden
kinds, that the two limits are numbers, and that `None` is none of the values
that an observation can have (`AnswersAssumption`, `CandidatesAssumption`,
`BoundsAssumption`, `NoneAssumption`, `ObservedAssumption`; the last speaks of the
scanned sites and those with one deviation more, `Worsened`). TLC evaluates
them on the instances.

`BackOfficeProofs`. `CacheInv`: every failed finding of a job at work is still
ahead of it, answered from a template, or has its row in the cache or in the
open transaction; commits add rows and nothing removes one, so a committed job
leaves its findings in the cache (`CommittedIsCached`). `SparedInv`, for
`OneIsSpared`: what is in the cache and was not there before was committed by
some job, and a job about to insert found no row before; so a unique violation
that takes a job has a job that committed behind it, and a deadlock leaves
another of its circle at work. Assumed is that there is a job. This is the
invariant half of `RemediationSparesOne`; that they all end is liveness.
Of `Scheduling`, `NextRunIsEarliest` is the arithmetic: for any two hours of a
day the set of hours that `_in_quiet_hours` accepts is the walk from start to
end around the day (`HoursFrom`), and of the times outside it the pushed one is
the first. In the behaviour the time of a run is
computed from the row as the cycle listed it, whatever the owner does in between,
and so is the property stated (`EarliestOutsideQuietHoursAlways`).
`NoDueMonitorIsLostAlways` is about the two writers of `next_run_at`. Until a
listed monitor has run, its row is due and what any detection holds is what the
row says, for nothing else writes it (`WaitingInv`); after the run has committed,
the row and the detections hold the time of that run, or one that has come
already (`RanInv`). So a write-back can make a monitor due again and cannot put
it off. The argument rests on a detection ending within the quarter of an hour
in which it has read: arq's timeout of a job is its default of five minutes,
and `TimePasses` clears `held`.

`AccessProofs`. `RevocationHolds` needs that no step writes `revoked_at` back,
which is why the writes of the handlers are of single columns. For
`RateIsBounded` the counts that requests of one window got are distinct numbers
from 1 to the counter (`CountsInv`), so that those at most the limit are no more
than the limit. `WindowEnds` needs that a counter without a time to live has its
first request still before the EXPIRE, or lost there (`ExpiryInv`).
`ViewsWereServed`: the counter, and what any handler has read of it, is at most
the number of viewers, by induction over the writes (`ViewsInv`). For any
finite set of requests and any limits.

Only model-checked:

- liveness (`EveryJobSettles`, `StreamEnds`, `CrashedRenderIsRetried`,
  `DueMonitorGetsScan`, `RunEnds`, the ending of `RemediationSparesOne` and the
  like): fairness and ENABLED are out of the prover's reach;
- the properties of the *violated* runs, which are false.

## 6. Not modelled, and why

The builders of HTML and JSON reports, templates and badges are formatting. Of
the probes the fingerprint of the stack and the store of bundles are left out,
and of a body everything but the patterns that checks look for: whether a
regular expression finds what it is meant to find is for unit tests. The mail,
LLM, DNS and billing providers are I/O; the models take their outcomes as
choices. Branding, accounts' profile and the lists of the API are single queries.
The order of scans is the order of their commits;
in the database it is `created_at`, the start of the same short transaction.
The rows of `findings` are part of `record_scan_result`'s transaction and not
separate state. Jitter and quiet hours are in `Scheduling`, not in `Monitoring`; the
unit of time there is a quarter of an hour, so that a cycle and the detections
beside it begin and end in one, and two cycles do not overlap. In `Monitoring`
the unit is the cadence, and jobs take any time.

In `ProbeRun` an exception that a probe does not catch (`urljoin` and `httpx` on
what is no URL, `bundle_probe.py:40` and `:73`, `backend_probe.py:143`) is a fault
that may happen at any request that has a URL from the page, whatever the site;
the sites themselves have none of these URLs.

In `Admission`: plans without a limit (`scans_per_month_limit` None) always pass
and are left out; where two reads with nothing between them
concern different rows they are one step (an unexpired proof and the 24-hour
count; the ids of the project's targets and the count of their jobs, which for
one origin is exact: of no target there is nothing to count); the denylist is empty in the code and the opt-out and the
validation of the origin refuse before anything is read; a job older than 30
days is in no window and is dropped. API keys and monitors outlive the plan that
allowed them, so both kinds of request may come on a free plan. The TARGETS
quota is counted, but no bound of it is stated: one origin is not enough to
exceed it. The meters of monitors and API keys are counted and inserted in the
same way and are not modelled. Issuing and checking an ownership proof is
I/O with one write; e-mail proofs are not implemented in the code. The rows of
`subscriptions` are left out: the plan may change to anything at any time, which
includes whatever order the provider's events arrive in.

## 7. What could follow

Of the first plan, `Ownership`, `Subscriptions` and two of the meters are left
(items 2 and 3). In the order of importance:

1. `ProbeRun` in place of the probe outcomes of `ScanLifecycle`, and `Scheduling`
   in place of the cadence of `Monitoring`.
2. `Ownership` (issue, check job, lapse) in place of `Admission`'s
   `VerifyOwnership` and `ProofLapses`; `Subscriptions` in place of its plan
   changes.
3. The meters of monitors and API keys, and the TARGETS bound with two origins.
4. Proofs: every safety property of the passing runs is stated by a theorem, the
   ending of `RemediationSparesOne` aside. The new modules above would bring
   their own.
