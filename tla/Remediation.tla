----------------------------- MODULE Remediation -----------------------------
(***************************************************************************)
(* The remediation cache: generate_remediations_job of several scans at    *)
(* the same time.  A job reads the cache once, then asks the provider for  *)
(* every failed finding that was not there and writes each answer in one   *)
(* transaction that stays open meanwhile.  (fingerprint, registry_version) *)
(* is unique, and a fingerprint names a check and an origin, so the jobs   *)
(* of two scans of one origin write the same rows.                         *)
(***************************************************************************)
EXTENDS Naturals, FiniteSets

CONSTANTS
  Jobs,         \* the generate_remediations_job of the scans
  Fingerprints,
  Failed,       \* [job |-> the fingerprints of its scan's failed findings]
  Version,      \* [job |-> the registry_version of its scan]
  Before,       \* the rows of the cache at the start
  MaxFaults,    \* workers that die, runs that are cut off
  NoFinding

Rows == Fingerprints \X {Version[j] : j \in Jobs}

ASSUME RemediationAssumption ==
  /\ \A j \in Jobs : Failed[j] \subseteq Fingerprints
  /\ MaxFaults \in Nat

VARIABLES
  cache,    \* the committed rows of remediation_cache
  task,     \* the state of every job
  cuts      \* faults so far

remediationVars == <<cache, task, cuts>>

\* "todo" are the findings the loop has yet to visit, "at" what it does with
\* "finding"; "inserted" and "updated" the rows of the open transaction;
\* "templated" the findings the provider gave no answer for.
Queued == [at |-> "queued", todo |-> {}, finding |-> NoFinding,
           inserted |-> {}, updated |-> {}, templated |-> {}]

RemediationInit ==
  /\ cache = Before
  /\ task = [j \in Jobs |-> Queued]
  /\ cuts = 0

RowOf(j, f) == <<f, Version[j]>>

\* Mutant: the version is left out of the query.
CachedAnyVersion(j) == {f \in Failed[j] : \E row \in cache : row[1] = f}

\* get_remediations_for_findings: the failed findings that are cached.
Cached(j) == {f \in Failed[j] : RowOf(j, f) \in cache}

Ended(j) == task[j].at \in {"committed", "failed"}

-----------------------------------------------------------------------------
BulkRead(j) ==
  /\ task[j].at = "queued"
  /\ task' = [task EXCEPT ![j].at = "loop", ![j].todo = Failed[j] \ Cached(j)]
  /\ UNCHANGED <<cache, cuts>>

\* generate_remediation never raises: an answer, or the template.  Only an
\* answer goes to the cache.
Answer(j, f) ==
  /\ task[j].at = "loop" /\ f \in task[j].todo
  /\ task' = [task EXCEPT ![j].at = "select", ![j].finding = f,
                          ![j].todo = @ \ {f}]
  /\ UNCHANGED <<cache, cuts>>

Template(j, f) ==
  /\ task[j].at = "loop" /\ f \in task[j].todo
  /\ task' = [task EXCEPT ![j].todo = @ \ {f}, ![j].templated = @ \cup {f}]
  /\ UNCHANGED <<cache, cuts>>

\* cache_remediation: a row another job committed since the bulk read is
\* updated, a missing one inserted.
SelectRow(j) ==
  /\ task[j].at = "select"
  /\ task' = [task EXCEPT ![j].at =
       IF RowOf(j, task[j].finding) \in cache THEN "update" ELSE "insert"]
  /\ UNCHANGED <<cache, cuts>>

Mine(j) == RowOf(j, task[j].finding)

\* Another transaction that wrote this row and is still open: the statement
\* waits for its end.
Blocks(i, j) ==
  /\ i # j
  /\ task[j].at \in {"insert", "update"}
  /\ Mine(j) \in task[i].inserted \cup task[i].updated

Waits(j) == \E i \in Jobs : Blocks(i, j)

InsertRow(j) ==
  /\ task[j].at = "insert" /\ ~Waits(j) /\ Mine(j) \notin cache
  /\ task' = [task EXCEPT ![j].at = "loop", ![j].inserted = @ \cup {Mine(j)}]
  /\ UNCHANGED <<cache, cuts>>

UpdateRow(j) ==
  /\ task[j].at = "update" /\ ~Waits(j)
  /\ task' = [task EXCEPT ![j].at = "loop", ![j].updated = @ \cup {Mine(j)}]
  /\ UNCHANGED <<cache, cuts>>

RollBackTo(j, at) == task' = [task EXCEPT ![j] = [Queued EXCEPT !.at = at]]

\* The unique constraint: the job raises, everything it wrote is rolled back
\* and arq does not run it again.
InsertConflicts(j) ==
  /\ task[j].at = "insert" /\ ~Waits(j) /\ Mine(j) \in cache
  /\ RollBackTo(j, "failed")
  /\ UNCHANGED <<cache, cuts>>

\* The database ends one of the transactions that wait in a circle.
Deadlocked(circle) ==
  \A i \in circle : /\ \E j \in circle : Blocks(i, j)
                    /\ \E j \in circle : Blocks(j, i)

EndDeadlock(j) ==
  /\ \E circle \in SUBSET Jobs : j \in circle /\ Deadlocked(circle)
  /\ RollBackTo(j, "failed")
  /\ UNCHANGED <<cache, cuts>>

CommitRows(j) ==
  /\ task[j].at = "loop" /\ task[j].todo = {}
  /\ cache' = cache \cup task[j].inserted
  /\ task' = [task EXCEPT ![j].at = "committed", ![j].inserted = {},
                          ![j].updated = {}]
  /\ UNCHANGED cuts

\* The worker dies and the entry is delivered again, or the run is cut off
\* by arq's job timeout and the job failed.
RunCut(j) ==
  /\ cuts < MaxFaults
  /\ ~Ended(j) /\ task[j].at # "queued"
  /\ \E at \in {"queued", "failed"} : RollBackTo(j, at)
  /\ cuts' = cuts + 1
  /\ UNCHANGED cache

-----------------------------------------------------------------------------
RunTask(j) ==
  \/ BulkRead(j)
  \/ \E f \in Fingerprints : Answer(j, f) \/ Template(j, f)
  \/ SelectRow(j) \/ InsertRow(j) \/ UpdateRow(j) \/ InsertConflicts(j)
  \/ EndDeadlock(j) \/ CommitRows(j)

RemediationNext == \E j \in Jobs : RunTask(j) \/ RunCut(j)

\* Every worker goes on with its job, and the database ends deadlocks.
RemediationFairness == \A j \in Jobs : WF_remediationVars(RunTask(j))

RemediationSpec ==
  RemediationInit /\ [][RemediationNext]_remediationVars /\ RemediationFairness

-----------------------------------------------------------------------------
\* A job that committed left every failed finding of its scan in the cache
\* for its registry version, but for those the provider did not answer.
CommittedIsCached ==
  \A j \in Jobs : task[j].at = "committed" =>
    \A f \in Failed[j] \ task[j].templated : RowOf(j, f) \in cache

\* A conflict or a deadlock takes one job and spares another: without faults
\* some job commits.
OneIsSpared ==
  (cuts = 0 /\ \A j \in Jobs : Ended(j)) =>
    \E j \in Jobs : task[j].at = "committed"

\* Concurrent jobs over the same findings all end, however they wait for
\* each other, one of them commits, and one that commits leaves its findings
\* cached (remediation.py cache_remediation, jobs.py
\* generate_remediations_job).
ConflictSparesOne ==
  /\ [](CommittedIsCached /\ OneIsSpared)
  /\ <>(\A j \in Jobs : Ended(j))
=============================================================================
