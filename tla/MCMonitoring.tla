---------------------------- MODULE MCMonitoring ----------------------------
(***************************************************************************)
(* Monitoring in one of three stories, which the initial state chooses;    *)
(* each keeps small what another is about.                                 *)
(*                                                                         *)
(*   "schedule"  scans that the cron job starts, over two cadences, with   *)
(*               every fault, suppressions and disabling; they differ in   *)
(*               one finding                                               *)
(*   "findings"  scans with any findings and majors that their owner       *)
(*               submits, within one cadence, without cron job and faults; *)
(*               the monitor stays enabled and no e-mail is delivered      *)
(*   "scores"    scans with any score that either starts, likewise         *)
(***************************************************************************)
EXTENDS Monitoring

CONSTANTS f1, f2

VARIABLE story

mcVars == <<story, vars>>

MCInit == Init /\ story \in {"schedule", "findings", "scores"}

\* What a story is limited to, as a condition on the states it reaches.
Within ==
  /\ story = "schedule" =>
       /\ suppressed \subseteq {f1}
       /\ \A j \in JobIds : job[j] # "none" => j \in scheduled
       /\ \A n \in DOMAIN scans :
            scans[n].failed \subseteq {f1} /\ scans[n].score = 72 /\ scans[n].major = 0
  /\ story # "schedule" =>
       /\ now = 0 /\ suppressed = {} /\ faults = 0 /\ outbox = {}
       /\ monitor # NoMonitor /\ monitor.enabled
  /\ story = "findings" =>
       /\ cycle = Idle
       /\ \A n \in DOMAIN scans : scans[n].score = 72
       /\ scans # <<>> => scans[1].major = 0
  /\ story = "scores" =>
       /\ \A n \in DOMAIN scans : scans[n].failed = {} /\ scans[n].major = 0
       /\ scans # <<>> => scans[1].score # 62

InStory(A) == UNCHANGED story /\ A /\ Within'

\* FairSpec, of a story.
MCSpec ==
  /\ MCInit
  /\ [][InStory(Next)]_mcVars
  /\ WF_mcVars(InStory(BeginCycle))
  /\ WF_mcVars(InStory(CycleStep))
  /\ \A j \in JobIds : WF_mcVars(InStory(TaskStep(j)))

\* DueMonitorIsScanned of Monitoring, of the story that is about it: a monitor
\* that is due gets one more scan, or is given up, also when the cron job dies
\* in its cycle (jobs.py check_due_monitors_job).
DueMonitorGetsScan == story = "schedule" => DueMonitorIsScanned
=============================================================================
