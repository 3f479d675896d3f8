----------------------------- MODULE Admission -----------------------------
(***************************************************************************)
(* Who may scan what: the requests of one account that look up its rows,   *)
(* decide, count, and insert.                                              *)
(*                                                                         *)
(*   apps/api .../routers/scans.py       submit_scan               "scan"  *)
(*   apps/api .../routers/public_api.py  public_submit_scan        "api"   *)
(*   apps/api .../routers/targets.py     create_target_endpoint    "target"*)
(*   apps/scanner .../jobs.py            _run_due_monitor       "monitor"  *)
(*   packages/security .../authorization.py, packages/billing .../quota.py *)
(*   packages/project .../repository.py  projects, targets, proofs         *)
(*                                                                         *)
(* A request is one READ COMMITTED transaction of many statements: each    *)
(* sees what is committed when it runs and the request's own inserts, so   *)
(* every read is a step, and the inserts take effect together at the       *)
(* commit.  Unique constraints settle two inserts of one row: the second   *)
(* transaction fails (account by email, target by project and origin).     *)
(* projects has no such constraint.                                        *)
(***************************************************************************)
EXTENDS Integers, Sequences, FiniteSets

CONSTANTS
  Requests,       \* what handles requests at the same time
  Origins,        \* origins that may become targets
  ScanLimit,      \* scans_per_month_limit of a plan
  TargetLimit,    \* targets_limit of a plan
  RecentCeiling,  \* _RECENT_SCAN_CEILING (20)
  MaxJobs,        \* bound of the model: scan jobs of the account
  NoProject       \* no project found yet

Plans == {"free", "paid"}

ScanKinds == {"scan", "api", "monitor"}

Kinds == ScanKinds \union {"target"}

ASSUME AdmissionAssumption ==
  /\ IsFiniteSet(Requests)
  /\ ScanLimit \in [Plans -> Nat \ {0}]
  /\ TargetLimit \in [Plans -> Nat \ {0}]
  /\ RecentCeiling \in Nat
  /\ MaxJobs \in Nat
  /\ NoProject \notin Requests

VARIABLES
  plan,      \* the account's plan_id; "none" while there is no account row
  projects,  \* its rows of projects, named after the request that made them
  targets,   \* rows of targets: <<project, origin>>
  verified,  \* those with verification_status active
  valid,     \* those with a verified proof that has not expired
  jobs,      \* rows of scan_jobs of the last 30 days, by queued_at
  day,       \* jobs from here on were queued in the last 24 hours
  request    \* where each request is, and what it has read

rowVars    == <<plan, projects, targets>>
proofVars  == <<verified, valid>>
vars == <<rowVars, proofVars, jobs, day, request>>

Idle == [at |-> "idle"]

Init ==
  /\ plan = "none"
  /\ projects = {}
  /\ targets = {}
  /\ verified = {}
  /\ valid = {}
  /\ jobs = <<>>
  /\ day = 1
  /\ request = [r \in Requests |-> Idle]

\* list_target_ids_for_project and count_scan_jobs_for_targets: the jobs of a
\* project in the last 30 days.
MonthlyScans(p) == Cardinality({i \in 1 .. Len(jobs) : jobs[i].project = p})

\* count_scan_jobs_for_target_since.
RecentScans(p, o) ==
  Cardinality({i \in day .. Len(jobs) : jobs[i].project = p /\ jobs[i].origin = o})

\* Mutant: the one asked for is not counted in.
WithinQuotaOffByOne(usage, limit) == usage <= limit

\* consume with amount 1, for a plan with a limit.
WithinQuota(usage, limit) == usage + 1 <= limit

\* The request goes on, remembering some more.
Goes(r, next) == request' = [request EXCEPT ![r] = next]

\* A read: nothing is committed.
Reads(r, next) == Goes(r, next) /\ UNCHANGED <<rowVars, proofVars, jobs, day>>

\* Denied or over quota: nothing is inserted but the audit event, with which
\* the scan routes commit a project made on the way (the scheduler disables
\* the monitor, see Monitoring).
Refused(r) ==
  /\ projects' = projects \union
       (IF request[r].newProject /\ request[r].kind # "target" THEN {r} ELSE {})
  /\ Goes(r, Idle)
  /\ UNCHANGED <<plan, targets, proofVars, jobs, day>>

-----------------------------------------------------------------------------
(* A request begins.  owned and paid are history: whether at some point    *)
(* since then the origin had an unexpired proof, and the account a paid    *)
(* plan; earned is both, when the tier is decided.                         *)

Arrives(r, kind, at, project, o) ==
  /\ request[r].at = "idle"
  /\ Reads(r, [at |-> at, kind |-> kind, project |-> project, origin |-> o,
               newProject |-> FALSE, newAccount |-> FALSE, newTarget |-> FALSE,
               plan |-> "free", status |-> FALSE, tier |-> "passive", earned |-> FALSE,
               owned  |-> kind \in ScanKinds /\ \E t \in valid : t[2] = o,
               paid   |-> kind \in ScanKinds /\ plan = "paid"])

\* By a user, or by a client with an API key, so with an account.  Keys and
\* monitors outlive the plan that allowed them.
Submit(r, o) ==
  \E kind \in {"scan", "api", "target"} :
    /\ kind = "api" => plan # "none"
    /\ Arrives(r, kind, "account", NoProject, o)

\* The scheduler finds the monitor of a target due.
MonitorDue(r, t) == t \in targets /\ Arrives(r, "monitor", "target", t[1], t[2])

\* get_account_by_email, or the row that came with the session or the key.
\* Without one, submit_scan looks nothing up and counts nothing.
ReadAccount(r) ==
  LET q == request[r] IN
  /\ q.at = "account"
  /\ \/ /\ plan # "none"
        /\ Reads(r, [q EXCEPT !.plan = plan,
                              !.at = IF q.kind = "monitor" THEN "proof" ELSE "project"])
     \/ /\ plan = "none" /\ q.kind = "scan"
        /\ Reads(r, [q EXCEPT !.at = "rows"])
     \/ /\ plan = "none" /\ q.kind = "target"
        /\ Reads(r, [q EXCEPT !.newAccount = TRUE, !.at = "project"])

\* The account's projects as a request sees them, its own included; one of
\* its own when there is none.
ProjectsSeen(r) ==
  LET seen == projects \union (IF request[r].newProject THEN {r} ELSE {})
  IN  IF seen = {} THEN {r} ELSE seen

\* get_or_create_default_project; with two rows scalar_one_or_none raises.
FindProject(r, next) ==
  \/ \E p \in ProjectsSeen(r) :
       /\ ProjectsSeen(r) = {p}
       /\ Reads(r, [next EXCEPT !.project = p, !.newProject = p \notin projects])
  \/ /\ \A p \in ProjectsSeen(r) : ProjectsSeen(r) # {p}
     /\ Reads(r, Idle)

ReadProject(r) ==
  /\ request[r].at = "project"
  /\ FindProject(r, [request[r] EXCEPT !.at = "target"])

\* get_target_by_origin, or get_target: the row and its verification_status.
ReadTarget(r) ==
  LET q == request[r]
      t == <<q.project, q.origin>> IN
  /\ q.at = "target"
  /\ \/ /\ t \in targets
        /\ Reads(r, [q EXCEPT !.status = t \in verified,
                              !.at = CASE q.kind = "monitor" -> "account"
                                       [] q.kind = "target"  -> "commit"
                                       [] OTHER              -> "proof"])
     \/ /\ t \notin targets
        /\ Reads(r, [q EXCEPT !.at = "targets"])

\* Mutant: verification_status is enough.
ActivePermittedByStatus(q, t) == q.status /\ q.plan = "paid"

\* resolve_authorization: what the active tier takes.
ActivePermitted(q, t) == q.status /\ t \in valid /\ q.plan = "paid"

\* Mutant: the ceiling is not looked at.
CeilingIgnored(n) == FALSE

ExceedsCeiling(n) == n > RecentCeiling

\* has_valid_ownership_proof, count_scan_jobs_for_target_since, and the
\* decision.  Who asks for passive gets it, the scheduler asks for active.
\* What it was decided on is not looked at again.
Decide(r) ==
  LET q == request[r]
      t == <<q.project, q.origin>>
      asked == IF q.kind = "monitor" THEN {"active"} ELSE {"active", "passive"}
      next  == IF q.kind = "monitor" THEN "commit" ELSE "scans" IN
  /\ q.at = "proof"
  /\ \/ /\ ExceedsCeiling(RecentScans(q.project, q.origin))
        /\ Refused(r)
     \/ /\ ~ExceedsCeiling(RecentScans(q.project, q.origin))
        /\ \E tier \in asked :
             LET granted == IF ActivePermitted(q, t) THEN tier ELSE "passive" IN
             Reads(r, [q EXCEPT !.tier = granted,
                                !.earned = q.owned /\ q.paid /\ granted = "active",
                                !.status = FALSE, !.owned = FALSE, !.paid = FALSE,
                                !.at = next])

\* The TARGETS quota, for an origin that has no row.
CountTargets(r) ==
  LET q == request[r] IN
  /\ q.at = "targets"
  /\ \/ /\ WithinQuota(Cardinality({t \in targets : t[1] = q.project}), TargetLimit[q.plan])
        /\ Reads(r, [q EXCEPT !.at = IF q.kind = "target" THEN "rows" ELSE "scans"])
     \/ /\ ~WithinQuota(Cardinality({t \in targets : t[1] = q.project}), TargetLimit[q.plan])
        /\ Refused(r)

\* The SCANS_MONTHLY quota; monitored scans do not come here but count.
CountScans(r) ==
  LET q == request[r] IN
  /\ q.at = "scans"
  /\ \/ /\ WithinQuota(MonthlyScans(q.project), ScanLimit[q.plan])
        /\ Reads(r, [q EXCEPT !.plan = "free", !.at = "rows"])
     \/ /\ ~WithinQuota(MonthlyScans(q.project), ScanLimit[q.plan])
        /\ Refused(r)

\* get_or_create_account and get_or_create_default_project again (submit_scan
\* only), then create_target: what is still missing will be inserted.
SelectRows(r) ==
  LET q == request[r] IN
  /\ q.at = "rows"
  /\ \/ /\ q.kind = "scan"
        /\ FindProject(r, [q EXCEPT !.newAccount = plan = "none", !.at = "insert"])
     \/ /\ q.kind # "scan"
        /\ Reads(r, [q EXCEPT !.newTarget = <<q.project, q.origin>> \notin targets,
                              !.at = "commit"])

SelectTarget(r) ==
  LET q == request[r] IN
  /\ q.at = "insert"
  /\ Reads(r, [q EXCEPT !.newTarget = <<q.project, q.origin>> \notin targets,
                        !.at = "commit"])

\* Another transaction has inserted the same row by now: IntegrityError.
Conflicts(r) ==
  \/ request[r].newAccount /\ plan # "none"
  \/ request[r].newTarget /\ <<request[r].project, request[r].origin>> \in targets

JobOf(q) == [project |-> q.project, origin |-> q.origin, monitored |-> q.kind = "monitor"]

\* What is committed: the rows that were missing, and the job.
Commit(r) ==
  LET q == request[r] IN
  /\ q.at = "commit"
  /\ ~Conflicts(r)
  /\ plan'     = IF q.newAccount THEN "free" ELSE plan
  /\ projects' = projects \union (IF q.newProject THEN {r} ELSE {})
  /\ targets'  = targets \union (IF q.newTarget THEN {<<q.project, q.origin>>} ELSE {})
  /\ \/ /\ q.kind \in ScanKinds
        /\ Len(jobs) < MaxJobs
        /\ jobs' = Append(jobs, JobOf(q))
     \/ /\ q.kind = "target"
        /\ UNCHANGED jobs
  /\ Goes(r, Idle)
  /\ UNCHANGED <<proofVars, day>>

\* The request fails, at a constraint or for any other reason: rolled back.
RollBack(r) ==
  /\ request[r].at # "idle"
  /\ Reads(r, Idle)

-----------------------------------------------------------------------------
(* What else changes the rows that a request reads.                        *)

\* GET /v1/me and the like: require_account makes the row, and no project.
SignIn ==
  /\ plan = "none"
  /\ plan' = "free"
  /\ UNCHANGED <<projects, targets, proofVars, jobs, day, request>>

\* Requests whose history counts.
Undecided(r) ==
  /\ request[r].at \in {"account", "project", "target", "proof"}
  /\ request[r].kind \in ScanKinds

\* Mutant: the target's verification_status is not set.
VerifyOwnershipNoCascade(t) ==
  /\ t \in targets
  /\ valid' = valid \union {t}
  /\ UNCHANGED <<rowVars, verified, jobs, day, request>>

\* verify_ownership_job has found the nonce: mark_proof_verified.
VerifyOwnership(t) ==
  /\ t \in targets
  /\ verified' = verified \union {t}
  /\ valid'    = valid \union {t}
  /\ request'  = [r \in Requests |->
                    IF Undecided(r) /\ request[r].origin = t[2]
                    THEN [request[r] EXCEPT !.owned = TRUE] ELSE request[r]]
  /\ UNCHANGED <<rowVars, jobs, day>>

\* 90 days later: expires_at has passed, verification_status stays.
ProofLapses(t) ==
  /\ t \in valid
  /\ valid' = valid \ {t}
  /\ UNCHANGED <<rowVars, verified, jobs, day, request>>

\* upsert_subscription: the account's plan follows the event.
SubscriptionEvent(p) ==
  /\ plan \in Plans \ {p}
  /\ plan' = p
  /\ request' = [r \in Requests |->
                   IF Undecided(r) /\ p = "paid"
                   THEN [request[r] EXCEPT !.paid = TRUE] ELSE request[r]]
  /\ UNCHANGED <<projects, targets, proofVars, jobs, day>>

\* The oldest scan job gets older than 24 hours, or than 30 days.
TimePasses ==
  /\ \/ day <= Len(jobs) /\ day' = day + 1 /\ UNCHANGED jobs
     \/ day > 1 /\ day' = day - 1 /\ jobs' = Tail(jobs)
  /\ UNCHANGED <<rowVars, proofVars, request>>

-----------------------------------------------------------------------------
Step(r) ==
  \/ ReadAccount(r) \/ ReadProject(r) \/ ReadTarget(r) \/ Decide(r)
  \/ CountTargets(r) \/ CountScans(r)
  \/ SelectRows(r) \/ SelectTarget(r) \/ Commit(r) \/ RollBack(r)

Next ==
  \/ \E r \in Requests :
       (\E o \in Origins : Submit(r, o)) \/ (\E t \in targets : MonitorDue(r, t)) \/ Step(r)
  \/ SignIn
  \/ \E t \in targets : VerifyOwnership(t) \/ ProofLapses(t)
  \/ \E p \in Plans : SubscriptionEvent(p)
  \/ TimePasses

Spec == Init /\ [][Next]_vars

-----------------------------------------------------------------------------
Jobs == [project : Requests, origin : Origins, monitored : BOOLEAN]

AtWork ==
  [at : {"account", "project", "target", "proof", "targets", "scans", "rows", "insert",
         "commit"},
   kind : Kinds, project : Requests \union {NoProject}, origin : Origins,
   newProject : BOOLEAN, newAccount : BOOLEAN, newTarget : BOOLEAN, plan : Plans,
   status : BOOLEAN, tier : {"passive", "active"}, earned : BOOLEAN,
   owned : BOOLEAN, paid : BOOLEAN]

\* The types of the variables.
TypeOK ==
  /\ plan \in Plans \union {"none"}
  /\ projects \subseteq Requests
  /\ targets \subseteq projects \X Origins
  /\ verified \subseteq targets /\ valid \subseteq verified
  /\ jobs \in Seq(Jobs)
  /\ day \in 1 .. Len(jobs) + 1
  /\ request \in [Requests -> {Idle} \union AtWork]

\* ADR-0003, a lapsed proof downgrades future scans to passive: however the
\* reads of a request interleave with verifications, lapses and subscription
\* events, the active tier is only granted to a request during which the
\* origin had an unexpired proof and the account a paid plan.
ActiveIsEarned ==
  \A r \in Requests :
    request[r].at # "idle" /\ request[r].tier = "active" => request[r].earned

HigherScanLimit ==
  IF ScanLimit["free"] > ScanLimit["paid"] THEN ScanLimit["free"] ELSE ScanLimit["paid"]

\* Quotas are counted without a lock: a race may exceed the plan, but only by
\* what is being handled at the same time.
ScansAreBounded ==
  \A p \in projects :
    Cardinality({i \in 1 .. Len(jobs) : jobs[i].project = p /\ ~jobs[i].monitored})
      <= HigherScanLimit - 1 + Cardinality(Requests)

\* The abuse ceiling likewise, monitored scans included.
RecentScansAreBounded ==
  \A t \in targets : RecentScans(t[1], t[2]) <= RecentCeiling + Cardinality(Requests)

\* docs/data-model.md, projects: "one project per account".
OneProjectPerAccount == Cardinality(projects) <= 1
=============================================================================
