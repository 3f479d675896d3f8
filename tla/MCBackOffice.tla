---------------------------- MODULE MCBackOffice ----------------------------
(***************************************************************************)
(* One instance of each of Access, Remediation and Scheduling.  They share *)
(* no state, so the run takes one part at a time: the initial state chooses*)
(* which part moves.                                                       *)
(***************************************************************************)
EXTENDS Access, Remediation, Scheduling

CONSTANTS f1, f2, f3, j1, j2, m1, m2

VARIABLE part

backOfficeVars ==
  <<part, accessVars, remediationVars, schedulingVars>>

\* Two paid plans whose limits two of three requests tell apart.
MCRateLimit == [p \in {"builder", "studio"} |-> IF p = "builder" THEN 1 ELSE 2]

\* Two scans of one origin, one of them with a finding more, and a row that
\* an older registry left.
MCFailed == [j \in {j1, j2} |-> IF j = j1 THEN {f1, f2} ELSE {f1, f2, f3}]
MCVersion == [j \in {j1, j2} |-> "0.1"]
MCBefore == {<<f3, "0.0">>}

\* Half set, around midnight, within a day, empty, and no hour of a day.
MCQuietHours == {<<Unset, 7>>, <<22, 7>>, <<7, 12>>, <<7, 7>>, <<22, 24>>}

\* A day later, give or take the jitter, is the end and the start of quiet
\* hours at seven, the start of those at ten in the evening, and within them.
MCStartTimes == {27, 87, 94}

BackOfficeInit ==
  /\ part \in {"access", "remediation", "scheduling"}
  /\ AccessInit /\ RemediationInit /\ SchedulingInit
  /\ part # "access" => plan = "free"
  /\ part # "scheduling" => now = 27

AccessPart ==
  part = "access" /\ AccessNext
    /\ UNCHANGED <<part, remediationVars, schedulingVars>>

RemediationPart(j) ==
  part = "remediation" /\ RunTask(j)
    /\ UNCHANGED <<part, accessVars, schedulingVars>>

RemediationCut(j) ==
  part = "remediation" /\ RunCut(j)
    /\ UNCHANGED <<part, accessVars, schedulingVars>>

\* The second monitor is there before the first, with the hour that ends the
\* loop, and nobody changes it: a bound of the instance.
Neighbour ==
  /\ monitor'[m2] # Unset => monitor'[m2].quiet = <<22, 24>>
  /\ monitor[m2] = Unset /\ monitor'[m2] # Unset => monitor[m1] = Unset
  /\ changes' # changes => monitor'[m1] # monitor[m1]
  /\ held'[m2] = {}

\* Two quarters in a row at the start, and two a day later.
Quarters == UNION {{t, t + 1, t + Day, t + Day + 1} : t \in MCStartTimes}

SchedulingPart ==
  part = "scheduling" /\ SchedulingNext /\ Neighbour /\ now' \in Quarters
    /\ UNCHANGED <<part, accessVars, remediationVars>>

BackOfficeNext ==
  \/ AccessPart
  \/ \E j \in Jobs : RemediationPart(j) \/ RemediationCut(j)
  \/ SchedulingPart

\* Fairness is assumed of the workers of Remediation only.
BackOfficeSpec ==
  /\ BackOfficeInit
  /\ [][BackOfficeNext]_backOfficeVars
  /\ \A j \in Jobs : WF_backOfficeVars(RemediationPart(j))

\* ConflictSparesOne of Remediation, of the part that is about it: jobs over
\* the same findings all end, one of them commits, and one that commits
\* leaves its findings cached (remediation.py cache_remediation).
RemediationSparesOne == part = "remediation" => ConflictSparesOne
=============================================================================
