------------------------------ MODULE Scheduling ------------------------------
(***************************************************************************)
(* When monitors run: compute_next_run_at with its jitter and quiet hours, *)
(* the cycle of the scheduler around it, which lists the due monitors once *)
(* and runs them one after the other, and the other writer of next_run_at, *)
(* detect_regression_job.  Monitoring models what a run does and what a    *)
(* detection tells; here only their time counts.  Time is in quarters of   *)
(* an hour, the period of the cron job and the size of the jitter: a job   *)
(* ends, or is stopped by arq's timeout of five minutes, within one.       *)
(***************************************************************************)
EXTENDS Integers, FiniteSets

CONSTANTS
  Monitors,
  QuietHours,    \* pairs of quiet_start_utc and quiet_end_utc
  CadenceHours,  \* the cadences the owner may choose
  StartTimes,    \* quarters of the first day at which the story starts
  LastTime,      \* no cycle begins after it
  MaxChanges,    \* how often the owner changes or disables a monitor
  MaxErrors,     \* how often a database or Redis fails the cycle
  Unset          \* a column without a value, a row that is not there

Hour == 4
Day == 24 * Hour
Jitter == -1 .. 1

\* A row of monitors, and what a run of it started from.
Settings ==
  [enabled : BOOLEAN, quiet : QuietHours, hours : CadenceHours, next : Nat]
Runs == [quiet : QuietHours, from : Nat, next : Nat]

\* The hours are not validated (schemas.py MonitorCreate), the cadence is
\* (routers/monitors.py _validate_cadence).
ASSUME SchedulingAssumption ==
  /\ CadenceHours \subseteq 1 .. 168
  /\ \A q \in QuietHours : {q[1], q[2]} \subseteq Int \cup {Unset}
  /\ StartTimes \subseteq 0 .. Day - 1
  /\ MaxChanges \in Nat /\ MaxErrors \in Nat
  /\ Unset \notin Settings \cup Runs

VARIABLES
  now,
  monitor,  \* the monitors rows: enabled, quiet hours, cadence, next_run_at
  cycle,    \* check_due_monitors_job: its list, who is left, who has run
  held,     \* the next_run_at that detections of a monitor have read
  run,      \* history: what every monitor's last run started from
  changes,  \* changes so far
  errors    \* errors so far

schedulingVars == <<now, monitor, cycle, held, run, changes, errors>>

NoCycle == [at |-> "idle", listed |-> [m \in {} |-> Unset], left |-> {}, ran |-> {}]

SchedulingInit ==
  /\ now \in StartTimes
  /\ monitor = [m \in Monitors |-> Unset]
  /\ cycle = NoCycle
  /\ held = [m \in Monitors |-> {}]
  /\ run = [m \in Monitors |-> Unset]
  /\ changes = 0
  /\ errors = 0

-----------------------------------------------------------------------------
(* scheduling.py                                                           *)

HourOf(t) == (t \div Hour) % 24

\* Mutant: quiet hours never wrap past midnight.
InQuietHoursUnwrapped(hour, start, end) == start <= hour /\ hour < end

InQuietHours(hour, start, end) ==
  \/ start < end /\ start <= hour /\ hour < end
  \/ end < start /\ (hour >= start \/ hour < end)

Quiet(q, t) ==
  q[1] # Unset /\ q[2] # Unset /\ InQuietHours(HourOf(t), q[1], q[2])

\* candidate.replace(hour=...) raises for what is no hour of a day.
Raises(q, candidate) == Quiet(q, candidate) /\ q[2] \notin 0 .. 23

\* The end of the quiet hours on the candidate's day, or a day later when
\* that is not ahead of it.
Pushed(q, candidate) ==
  LET sameDay == candidate - (candidate % Day) + q[2] * Hour IN
    IF sameDay <= candidate THEN sameDay + Day ELSE sameDay

NextRunAt(q, candidate) ==
  IF Quiet(q, candidate) THEN Pushed(q, candidate) ELSE candidate

-----------------------------------------------------------------------------
(* The owner.                                                              *)

\* create_monitor for a target without one: due at once.
CreateMonitor(m, q, hours) ==
  /\ monitor[m] = Unset
  /\ monitor' = [monitor EXCEPT
       ![m] = [enabled |-> TRUE, quiet |-> q, hours |-> hours, next |-> now]]
  /\ UNCHANGED <<now, cycle, held, run, changes, errors>>

\* The owner changes the row of a monitor.
Change(m, row) ==
  /\ changes < MaxChanges
  /\ changes' = changes + 1
  /\ monitor' = [monitor EXCEPT ![m] = row]
  /\ UNCHANGED <<now, cycle, held, run, errors>>

\* create_monitor for a target that has one: it is enabled, and next_run_at
\* stays.
ChangeMonitor(m, q, hours) ==
  /\ monitor[m] # Unset
  /\ Change(m, [monitor[m] EXCEPT !.enabled = TRUE, !.quiet = q, !.hours = hours])

\* disable_monitor.
OwnerDisables(m) ==
  /\ monitor[m] # Unset
  /\ Change(m, [monitor[m] EXCEPT !.enabled = FALSE])

-----------------------------------------------------------------------------
(* detect_regression_job, as far as next_run_at sees it.                   *)

\* get_monitor_by_target, if the monitor is enabled; any number of jobs.
DetectionReads(m) ==
  /\ monitor[m] # Unset /\ monitor[m].enabled
  /\ held' = [held EXCEPT ![m] = @ \cup {monitor[m].next}]
  /\ UNCHANGED <<now, monitor, cycle, run, changes, errors>>

\* reschedule_monitor writes it back as read; other jobs may hold the same.
DetectionWrites(m) ==
  /\ \E next \in held[m] :
       /\ monitor' = [monitor EXCEPT ![m].next = next]
       /\ held' \in {held, [held EXCEPT ![m] = @ \ {next}]}
  /\ UNCHANGED <<now, cycle, run, changes, errors>>

-----------------------------------------------------------------------------
(* check_due_monitors_job.                                                 *)

Due == {m \in Monitors : /\ monitor[m] # Unset
                         /\ monitor[m].enabled /\ monitor[m].next <= now}

CycleOver(list) ==
  [at |-> "running", listed |-> list, left |-> DOMAIN list, ran |-> {}]

\* Mutant: the cycle moves the due monitors on as it lists them.
BeginCycleClaims ==
  /\ cycle.at = "idle" /\ Due # {}
  /\ cycle' = CycleOver([m \in Due |-> monitor[m]])
  /\ monitor' = [m \in Monitors |->
       IF m \in Due THEN [monitor[m] EXCEPT !.next = now + Day]
                    ELSE monitor[m]]
  /\ UNCHANGED <<now, held, run, changes, errors>>

\* due_monitors: the rows as they are now go with the list.
BeginCycle ==
  /\ cycle.at = "idle" /\ Due # {}
  /\ cycle' = CycleOver([m \in Due |-> monitor[m]])
  /\ UNCHANGED <<now, monitor, held, run, changes, errors>>

\* The list is taken in its order, which is any.
Running(m) == cycle.at = "running" /\ m \in cycle.left

Error == errors < MaxErrors /\ errors' = errors + 1

Candidates(m) == {now + cycle.listed[m].hours * Hour + j : j \in Jitter}

\* The transaction of _run_due_monitor when it allows: a job, and the next
\* run by the settings of the list.  A row disabled since is not looked at.
Commit(m) ==
  \E candidate \in Candidates(m) :
    LET q == cycle.listed[m].quiet IN
      /\ ~Raises(q, candidate)
      /\ monitor' = [monitor EXCEPT ![m].next = NextRunAt(q, candidate)]
      /\ run' = [run EXCEPT ![m] = [quiet |-> q, from |-> candidate,
                                    next |-> monitor'[m].next]]

RunMonitor(m) ==
  /\ Running(m) /\ Commit(m)
  /\ cycle' = [cycle EXCEPT !.left = @ \ {m}, !.ran = @ \cup {m}]
  /\ UNCHANGED <<now, held, changes, errors>>

\* enqueue_job fails behind the commit: the exception leaves the loop, the
\* scan job stays where it is.
EnqueueFails(m) ==
  /\ Running(m) /\ Error /\ Commit(m)
  /\ cycle' = [cycle EXCEPT !.at = "raised", !.left = @ \ {m}, !.ran = @ \cup {m}]
  /\ UNCHANGED <<now, held, changes>>

\* resolve_authorization denies: the monitor is disabled, and neither run nor
\* rescheduled.
RunDenied(m) ==
  /\ Running(m)
  /\ monitor' = [monitor EXCEPT ![m].enabled = FALSE]
  /\ cycle' = [cycle EXCEPT !.left = @ \ {m}]
  /\ UNCHANGED <<now, held, run, changes, errors>>

\* No target or no account: return.  (No code deletes one.)
RunMissing(m) ==
  /\ Running(m) /\ Error
  /\ cycle' = [cycle EXCEPT !.left = @ \ {m}]
  /\ UNCHANGED <<now, monitor, held, run, changes>>

\* replace raises, or the database does: the exception leaves the transaction
\* and the loop, the rest of the list is not run in this cycle.
RunRaises(m) ==
  /\ Running(m)
  /\ \/ /\ \E candidate \in Candidates(m) : Raises(cycle.listed[m].quiet, candidate)
        /\ UNCHANGED errors
     \/ Error
  /\ cycle' = [cycle EXCEPT !.at = "raised"]
  /\ UNCHANGED <<now, monitor, held, run, changes>>

EndCycle ==
  /\ cycle.at = "running" /\ cycle.left = {}
  /\ cycle' = [cycle EXCEPT !.at = "ended"]
  /\ UNCHANGED <<now, monitor, held, run, changes, errors>>

\* A quarter goes by, or as many as it takes for a monitor to be due: not
\* without the cycle when one is already.  The jobs of this one are over.
TimePasses ==
  /\ cycle.at # "running" /\ (Due # {} => cycle.at # "idle")
  /\ \/ now' = now + 1 /\ Due # {}
     \/ \E m \in Monitors : /\ monitor[m] # Unset
                             /\ now < monitor[m].next /\ now' = monitor[m].next
  /\ now' <= LastTime
  /\ cycle' = NoCycle
  /\ held' = [m \in Monitors |-> {}]
  /\ UNCHANGED <<monitor, run, changes, errors>>

SchedulingNext ==
  \/ \E m \in Monitors, q \in QuietHours, h \in CadenceHours :
       CreateMonitor(m, q, h) \/ ChangeMonitor(m, q, h)
  \/ BeginCycle \/ EndCycle \/ TimePasses
  \/ \E m \in Monitors :
       \/ OwnerDisables(m) \/ DetectionReads(m) \/ DetectionWrites(m)
       \/ RunMonitor(m) \/ RunDenied(m) \/ RunMissing(m)
       \/ EnqueueFails(m) \/ RunRaises(m)

SchedulingSpec == SchedulingInit /\ [][SchedulingNext]_schedulingVars

-----------------------------------------------------------------------------
\* The hours from start up to end, around midnight when end comes first.
HoursFrom(start, end) ==
  {(start + i) % 24 : i \in 0 .. ((end - start) % 24) - 1}

Forbidden(q) == IF Unset \in {q[1], q[2]} THEN {} ELSE HoursFrom(q[1], q[2])

Earliest(S) == CHOOSE t \in S : \A u \in S : t <= u

ValidHours(q) == Unset \in {q[1], q[2]} \/ {q[1], q[2]} \subseteq 0 .. 23

\* The time a monitor is given is the first at or after its cadence and
\* jitter that is outside its quiet hours, as they were when the cycle read
\* them (scheduling.py compute_next_run_at).
EarliestOutsideQuietHours ==
  \A m \in Monitors : (run[m] # Unset /\ ValidHours(run[m].quiet)) =>
    run[m].next = Earliest({t \in run[m].from .. run[m].from + Day :
                              HourOf(t) \notin Forbidden(run[m].quiet)})

\* No due monitor is lost between the two writers, the owner and whatever
\* ends the loop early: once a cycle has begun, a monitor of its list is due
\* still, so that the next cycle finds it if it is enabled, or this cycle
\* has committed its run and next_run_at is of that run.  A transaction that
\* failed, a denial and a stale write-back (jobs.py reschedule_monitor) put
\* off no run that did not happen.
NoDueMonitorIsLost ==
  \A m \in DOMAIN cycle.listed :
    \/ monitor[m].next <= now
    \/ m \in cycle.ran /\ monitor[m].next = run[m].next

=============================================================================
