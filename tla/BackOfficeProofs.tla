-------------------------- MODULE BackOfficeProofs --------------------------
(***************************************************************************)
(* Proofs about the two back-office components that MCBackOffice checks    *)
(* beside Access.                                                          *)
(*                                                                         *)
(* Remediation, for any number of jobs, findings, registry versions and    *)
(* faults: a job that commits leaves its findings cached, and conflicts    *)
(* and deadlocks never take every job.                                     *)
(*                                                                         *)
(* Scheduling: whatever the quiet hours, the time and the jitter, a run    *)
(* gives its monitor the earliest time outside the quiet hours; and        *)
(* whatever the owner, the detections and the errors do, no cycle leaves a *)
(* monitor of its list put off without the run that goes with it.          *)
(***************************************************************************)
EXTENDS Remediation, Scheduling, TLAPS

-----------------------------------------------------------------------------
(* Remediation.                                                            *)

Working == {"loop", "select", "insert", "update"}

Tasks ==
  [at : {"queued", "committed", "failed"} \cup Working, todo : SUBSET Fingerprints,
   finding : Fingerprints \cup {NoFinding}, inserted : SUBSET Rows,
   updated : SUBSET Rows, templated : SUBSET Fingerprints]

\* The loop has the finding still before it, or has it in hand.
Ahead(t, f) == f \in t.todo \/ (t.at # "loop" /\ f = t.finding)

\* Every failed finding of a job is ahead of it, templated, or has its row
\* in the cache or in the open transaction; a row to be updated is cached.
JobInv(j) ==
  /\ task[j].at \in Working =>
       \A f \in Failed[j] \ task[j].templated :
         Ahead(task[j], f) \/ RowOf(j, f) \in cache \cup task[j].inserted
  /\ task[j].at \in {"select", "insert", "update"} => task[j].finding \in Fingerprints
  /\ task[j].at = "update" => Mine(j) \in cache

Committed == {j \in Jobs : task[j].at = "committed"}

CacheInv ==
  /\ task \in [Jobs -> Tasks]
  /\ cuts \in Nat
  /\ \A j \in Jobs : JobInv(j)
  /\ CommittedIsCached

\* What is in the cache that was not there before was committed by a job,
\* and a job that inserts found no row before.
SparedInv ==
  /\ Before \subseteq cache
  /\ cache # Before => Committed # {}
  /\ \A j \in Jobs : task[j].at = "insert" => Mine(j) \notin Before
  /\ cuts = 0 => \E j \in Jobs : ~ Ended(j) \/ j \in Committed

-----------------------------------------------------------------------------
(* What a step does to the job that takes it.                              *)

\* The steps of a job, as changes of its own record t to u.
Moves(j, t, u) ==
  \/ /\ BulkRead(j)
     /\ u = [t EXCEPT !.at = "loop", !.todo = Failed[j] \ Cached(j)]
  \/ \E f \in t.todo : /\ t.at = "loop" /\ cache' = cache /\ cuts' = cuts
                       /\ u = [t EXCEPT !.at = "select", !.finding = f, !.todo = @ \ {f}]
  \/ \E f \in t.todo : /\ t.at = "loop" /\ cache' = cache /\ cuts' = cuts
                       /\ u = [t EXCEPT !.todo = @ \ {f}, !.templated = @ \cup {f}]
  \/ /\ SelectRow(j)
     /\ u = [t EXCEPT !.at = IF Mine(j) \in cache THEN "update" ELSE "insert"]
  \/ InsertRow(j) /\ u = [t EXCEPT !.at = "loop", !.inserted = @ \cup {Mine(j)}]
  \/ UpdateRow(j) /\ u = [t EXCEPT !.at = "loop", !.updated = @ \cup {Mine(j)}]
  \/ CommitRows(j) /\ u = [t EXCEPT !.at = "committed", !.inserted = {}, !.updated = {}]
  \/ /\ InsertConflicts(j) \/ EndDeadlock(j) \/ RunCut(j)
     /\ \E at \in {"queued", "failed"} : u = [Queued EXCEPT !.at = at]

LEMMA StepMoves ==
  ASSUME task \in [Jobs -> Tasks], NEW j \in Jobs, RunTask(j) \/ RunCut(j)
  PROVE  /\ \A i \in Jobs \ {j} : task'[i] = task[i]
         /\ Moves(j, task[j], task'[j])
<1>1. CASE BulkRead(j)
  BY <1>1 DEF BulkRead, Moves
<1>2. ASSUME NEW f \in Fingerprints, Answer(j, f)
      PROVE  (\A i \in Jobs \ {j} : task'[i] = task[i]) /\ Moves(j, task[j], task'[j])
  BY <1>2 DEF Answer, Moves
<1>3. ASSUME NEW f \in Fingerprints, Template(j, f)
      PROVE  (\A i \in Jobs \ {j} : task'[i] = task[i]) /\ Moves(j, task[j], task'[j])
  BY <1>3 DEF Template, Moves
<1>4. CASE SelectRow(j)
  BY <1>4 DEF SelectRow, Moves, Mine
<1>5. CASE InsertRow(j)
  BY <1>5 DEF InsertRow, Moves
<1>6. CASE UpdateRow(j)
  BY <1>6 DEF UpdateRow, Moves
<1>7. CASE InsertConflicts(j) \/ EndDeadlock(j) \/ RunCut(j)
  BY <1>7 DEF InsertConflicts, EndDeadlock, RunCut, RollBackTo, Moves
<1>8. CASE CommitRows(j)
  BY <1>8 DEF CommitRows, Moves
<1> QED
  BY <1>1, <1>2, <1>3, <1>4, <1>5, <1>6, <1>7, <1>8 DEF RunTask

-----------------------------------------------------------------------------
(* A job that commits leaves its findings cached.                          *)

LEMMA CacheGrows ==
  ASSUME NEW j \in Jobs, RunTask(j) \/ RunCut(j)
  PROVE  /\ \/ cache' = cache
            \/ CommitRows(j) /\ cache' = cache \cup task[j].inserted
         /\ cuts' \in {cuts, cuts + 1}
         /\ RunCut(j) => cuts' = cuts + 1
<1>1. ASSUME CommitRows(j) PROVE cache' = cache \cup task[j].inserted /\ cuts' = cuts
  BY <1>1 DEF CommitRows
<1>2. ASSUME RunCut(j) PROVE cache' = cache /\ cuts' = cuts + 1
  BY <1>2 DEF RunCut
<1>3. ASSUME InsertConflicts(j) \/ EndDeadlock(j) PROVE cache' = cache /\ cuts' = cuts
  BY <1>3 DEF InsertConflicts, EndDeadlock
<1>4. ASSUME BulkRead(j) \/ SelectRow(j) \/ InsertRow(j) \/ UpdateRow(j)
      PROVE  cache' = cache /\ cuts' = cuts
  BY <1>4 DEF BulkRead, SelectRow, InsertRow, UpdateRow
<1>5. ASSUME NEW f \in Fingerprints, Answer(j, f) \/ Template(j, f)
      PROVE  cache' = cache /\ cuts' = cuts
  BY <1>5 DEF Answer, Template
<1> QED
  BY <1>1, <1>2, <1>3, <1>4, <1>5 DEF RunTask

\* The invariant of a job only needs more of the cache to stay.
LEMMA JobKept ==
  ASSUME NEW i \in Jobs, JobInv(i), task'[i] = task[i], cache \subseteq cache'
  PROVE  JobInv(i)'
  BY DEF JobInv, Mine, RowOf, Ahead

\* What the job that takes a step is left with.
LEMMA OwnStep ==
  ASSUME CacheInv, NEW j \in Jobs, RunTask(j) \/ RunCut(j)
  PROVE  /\ task'[j] \in Tasks /\ JobInv(j)'
         /\ task'[j].at = "committed" =>
              \A f \in Failed[j] \ task'[j].templated : RowOf(j, f) \in cache'
<1> DEFINE t == task[j]
           u == task'[j]
           Goal == /\ u \in Tasks /\ JobInv(j)'
                   /\ u.at = "committed" =>
                        \A f \in Failed[j] \ u.templated : RowOf(j, f) \in cache'
<1>1. t \in Tasks /\ JobInv(j) /\ Failed[j] \subseteq Fingerprints /\ Moves(j, t, u)
  BY StepMoves, RemediationAssumption DEF CacheInv
<1>2. cache \subseteq cache'
  BY CacheGrows
<1>3. \A f \in Fingerprints : RowOf(j, f) \in Rows
  BY DEF RowOf, Rows
<1>4. t.at \in Working => \A f \in Failed[j] \ t.templated :
        Ahead(t, f) \/ RowOf(j, f) \in cache \cup t.inserted
  BY <1>1 DEF JobInv
<1>5. JobInv(j)' <=>
        /\ u.at \in Working => \A f \in Failed[j] \ u.templated :
             Ahead(u, f) \/ RowOf(j, f) \in cache' \cup u.inserted
        /\ u.at \in {"select", "insert", "update"} => u.finding \in Fingerprints
        /\ u.at = "update" => RowOf(j, u.finding) \in cache'
  BY DEF JobInv, Mine, RowOf, Ahead
<1> SUFFICES Goal
  OBVIOUS
<1> HIDE DEF u
<1>6. CASE BulkRead(j) /\ u = [t EXCEPT !.at = "loop", !.todo = Failed[j] \ Cached(j)]
  <2>1. /\ u \in Tasks /\ u.at = "loop" /\ u.todo = Failed[j] \ Cached(j)
    BY <1>1, <1>6 DEF Tasks, Working
  <2>2. ASSUME NEW f \in Failed[j] PROVE Ahead(u, f) \/ RowOf(j, f) \in cache
    BY <2>1 DEF Cached, Ahead
  <2> QED
    BY <1>2, <1>5, <2>1, <2>2
<1>7. ASSUME NEW f \in t.todo, t.at = "loop",
             u = [t EXCEPT !.at = "select", !.finding = f, !.todo = @ \ {f}]
      PROVE  Goal
  <2>1. /\ u \in Tasks /\ u.at = "select" /\ u.finding = f /\ u.todo = t.todo \ {f}
        /\ u.inserted = t.inserted /\ u.templated = t.templated /\ f \in Fingerprints
    BY <1>1, <1>7 DEF Tasks, Working
  <2>2. ASSUME NEW g \in Failed[j], Ahead(t, g) PROVE Ahead(u, g)
    BY <1>7, <2>1, <2>2 DEF Ahead
  <2> QED
    BY <1>2, <1>4, <1>5, <1>7, <2>1, <2>2 DEF Working
<1>8. ASSUME NEW f \in t.todo, t.at = "loop",
             u = [t EXCEPT !.todo = @ \ {f}, !.templated = @ \cup {f}]
      PROVE  Goal
  <2>1. /\ u \in Tasks /\ u.at = "loop" /\ u.todo = t.todo \ {f}
        /\ u.inserted = t.inserted /\ u.templated = t.templated \cup {f}
    BY <1>1, <1>8 DEF Tasks, Working
  <2> QED
    BY <1>2, <1>4, <1>5, <1>8, <2>1 DEF Working, Ahead
<1>9. CASE SelectRow(j)
           /\ u = [t EXCEPT !.at = IF Mine(j) \in cache THEN "update" ELSE "insert"]
  <2> DEFINE to == IF Mine(j) \in cache THEN "update" ELSE "insert"
  <2>1. /\ to \in {"insert", "update"} /\ t.at = "select"
        /\ to = "update" => RowOf(j, t.finding) \in cache
    BY <1>9 DEF SelectRow, Mine
  <2>2. u = [t EXCEPT !.at = to]
    BY <1>9
  <2> HIDE DEF to
  <2>3. /\ u \in Tasks /\ u.at = to /\ u.finding = t.finding /\ u.todo = t.todo
        /\ u.inserted = t.inserted /\ u.templated = t.templated
    BY <1>1, <2>1, <2>2 DEF Tasks, Working
  <2>4. t.finding \in Fingerprints
    BY <1>1, <2>1 DEF JobInv
  <2> QED
    BY <1>2, <1>4, <1>5, <2>1, <2>3, <2>4 DEF Working, Ahead
<1>10. CASE InsertRow(j) /\ u = [t EXCEPT !.at = "loop", !.inserted = @ \cup {Mine(j)}]
  <2>1. t.at = "insert" /\ t.finding \in Fingerprints /\ Mine(j) = RowOf(j, t.finding)
    BY <1>1, <1>10 DEF InsertRow, JobInv, Mine
  <2>2. /\ u \in Tasks /\ u.at = "loop" /\ u.todo = t.todo
        /\ u.inserted = t.inserted \cup {RowOf(j, t.finding)} /\ u.templated = t.templated
    BY <1>1, <1>3, <1>10, <2>1 DEF Tasks, Working
  <2> QED
    BY <1>2, <1>4, <1>5, <2>1, <2>2 DEF Working, Ahead
<1>11. CASE UpdateRow(j) /\ u = [t EXCEPT !.at = "loop", !.updated = @ \cup {Mine(j)}]
  <2>1. t.at = "update" /\ t.finding \in Fingerprints /\ Mine(j) = RowOf(j, t.finding)
        /\ RowOf(j, t.finding) \in cache
    BY <1>1, <1>11 DEF UpdateRow, JobInv, Mine
  <2>2. /\ u \in Tasks /\ u.at = "loop" /\ u.todo = t.todo
        /\ u.inserted = t.inserted /\ u.templated = t.templated
    BY <1>1, <1>3, <1>11, <2>1 DEF Tasks, Working
  <2> QED
    BY <1>2, <1>4, <1>5, <2>1, <2>2 DEF Working, Ahead
<1>12. CASE CommitRows(j)
            /\ u = [t EXCEPT !.at = "committed", !.inserted = {}, !.updated = {}]
  <2>1. t.at = "loop" /\ t.todo = {} /\ cache' = cache \cup t.inserted
    BY <1>12 DEF CommitRows
  <2>2. u \in Tasks /\ u.at = "committed" /\ u.templated = t.templated
    BY <1>1, <1>12 DEF Tasks, Working
  <2> QED
    BY <1>4, <1>5, <2>1, <2>2 DEF Working, Ahead
<1>13. ASSUME NEW at \in {"queued", "failed"}, u = [Queued EXCEPT !.at = at]
       PROVE  Goal
  <2>1. u \in Tasks /\ u.at = at
    BY <1>13 DEF Queued, Tasks, Working
  <2> QED
    BY <1>5, <2>1 DEF Working
<1> QED
  BY <1>1, <1>6, <1>7, <1>8, <1>9, <1>10, <1>11, <1>12, <1>13 DEF Moves

LEMMA CacheInvStep == CacheInv /\ [RemediationNext]_remediationVars => CacheInv'
<1> SUFFICES ASSUME CacheInv, [RemediationNext]_remediationVars PROVE CacheInv'
  OBVIOUS
<1>1. CASE UNCHANGED remediationVars
  BY <1>1 DEF remediationVars, CacheInv, CommittedIsCached, JobInv, Mine, RowOf, Ahead
<1>2. ASSUME NEW j \in Jobs, RunTask(j) \/ RunCut(j) PROVE CacheInv'
  <2>1. /\ task \in [Jobs -> Tasks] /\ cuts \in Nat
        /\ \A i \in Jobs \ {j} : task'[i] = task[i]
    BY <1>2, StepMoves DEF CacheInv
  <2>2. /\ task'[j] \in Tasks /\ JobInv(j)'
        /\ task'[j].at = "committed" =>
             \A f \in Failed[j] \ task'[j].templated : RowOf(j, f) \in cache'
    BY <1>2, OwnStep
  <2>3. DOMAIN task' = Jobs /\ task' = [i \in Jobs |-> task'[i]]
    BY <1>2, <2>1 DEF RunTask, RunCut, BulkRead, Answer, Template, SelectRow, InsertRow,
        UpdateRow, InsertConflicts, EndDeadlock, CommitRows, RollBackTo
  <2>4. task' \in [Jobs -> Tasks]
    BY <2>1, <2>2, <2>3
  <2>5. cache \subseteq cache'
    BY <1>2, CacheGrows
  <2>6. \A i \in Jobs : JobInv(i)'
    BY <2>1, <2>2, <2>5, JobKept DEF CacheInv
  <2>7. cuts' \in Nat
    BY <1>2, <2>1, CacheGrows
  <2>8. ASSUME NEW i \in Jobs, task'[i].at = "committed",
               NEW f \in Failed[i] \ task'[i].templated
        PROVE  RowOf(i, f) \in cache'
    <3>1. CASE i = j
      BY <2>2, <2>8, <3>1
    <3>2. CASE i # j
      BY <2>1, <2>5, <2>8, <3>2 DEF CacheInv, CommittedIsCached
    <3> QED
      BY <3>1, <3>2
  <2>9. CommittedIsCached'
    BY <2>8 DEF CommittedIsCached, RowOf
  <2> QED
    BY <2>4, <2>6, <2>7, <2>9 DEF CacheInv
<1> QED
  BY <1>1, <1>2 DEF RemediationNext

LEMMA CacheInvInit == RemediationInit => CacheInv
<1> SUFFICES ASSUME RemediationInit PROVE CacheInv
  OBVIOUS
<1>1. Queued \in Tasks /\ Queued.at = "queued"
  BY DEF Queued, Tasks
<1> QED
  BY <1>1 DEF RemediationInit, CacheInv, JobInv, Working, CommittedIsCached

LEMMA CacheInvariant == RemediationSpec => []CacheInv
  BY CacheInvInit, CacheInvStep, PTL DEF RemediationSpec

\* A job that committed left every failed finding of its scan in the cache
\* for its registry version, but for those the provider did not answer,
\* whatever the other jobs read, wrote and rolled back meanwhile.
THEOREM CommittedIsCachedAlways == RemediationSpec => []CommittedIsCached
<1>1. CacheInv => CommittedIsCached
  BY DEF CacheInv
<1> QED
  BY <1>1, CacheInvariant, PTL

-----------------------------------------------------------------------------
(* One job is spared.                                                      *)

LEMMA SparedStep ==
  ASSUME CacheInv, SparedInv, NEW j \in Jobs, RunTask(j) \/ RunCut(j)
  PROVE  SparedInv'
<1> DEFINE t == task[j]
           u == task'[j]
<1>1. /\ \A i \in Jobs \ {j} : task'[i] = task[i]
      /\ Moves(j, t, u) /\ t \in Tasks /\ cuts \in Nat
  BY StepMoves DEF CacheInv
<1>2. t.at # "committed"
  BY DEF RunTask, RunCut, BulkRead, Answer, Template, SelectRow, InsertRow, UpdateRow,
      InsertConflicts, EndDeadlock, Deadlocked, Blocks, CommitRows, Ended
<1>3. Committed \subseteq Committed'
  BY <1>1, <1>2 DEF Committed
<1>4. /\ CommitRows(j) => u.at = "committed"
      /\ u.at = "insert" =>
           /\ t.at = "select" /\ u.finding = t.finding /\ Mine(j) \notin cache
           /\ cache' = cache
      /\ u.at = "failed" => InsertConflicts(j) \/ EndDeadlock(j) \/ RunCut(j)
  <2>1. ASSUME CommitRows(j) PROVE u.at = "committed"
    BY <1>1, <2>1 DEF CommitRows, CacheInv, Tasks
  <2>2. ASSUME SelectRow(j)
        PROVE  /\ u.at \in {"insert", "update"} /\ u.finding = t.finding /\ cache' = cache
               /\ u.at = "insert" => Mine(j) \notin cache
    BY <1>1, <2>2 DEF SelectRow, CacheInv, Tasks, Mine
  <2>3. ASSUME BulkRead(j) \/ InsertRow(j) \/ UpdateRow(j) PROVE u.at = "loop"
    BY <1>1, <2>3 DEF BulkRead, InsertRow, UpdateRow, CacheInv, Tasks
  <2>4. ASSUME NEW f \in Fingerprints, Answer(j, f) \/ Template(j, f)
        PROVE  u.at \in {"loop", "select"}
    BY <1>1, <2>4 DEF Answer, Template, CacheInv, Tasks
  <2>5. ASSUME InsertConflicts(j) \/ EndDeadlock(j) \/ RunCut(j)
        PROVE  u.at \in {"queued", "failed"}
    BY <1>1, <2>5 DEF InsertConflicts, EndDeadlock, RunCut, RollBackTo, CacheInv, Queued
  <2>6. SelectRow(j) => t.at = "select"
    BY DEF SelectRow
  <2> HIDE DEF t, u
  <2> QED
    BY <2>1, <2>2, <2>3, <2>4, <2>5, <2>6 DEF RunTask
<1>5. Before \subseteq cache'
  BY CacheGrows DEF SparedInv
<1>6. cache' # Before => Committed' # {}
  <2>1. CASE CommitRows(j)
    BY <1>4, <2>1 DEF Committed
  <2>2. CASE cache' = cache
    BY <1>3, <2>2 DEF SparedInv
  <2> QED
    BY <2>1, <2>2, CacheGrows
<1>7. ASSUME NEW i \in Jobs, task'[i].at = "insert" PROVE Mine(i)' \notin Before
  <2>1. CASE i = j
    BY <1>4, <1>7, <2>1 DEF Mine, RowOf, SparedInv
  <2>2. CASE i # j
    BY <1>1, <1>7, <2>2 DEF Mine, RowOf, SparedInv
  <2> QED
    BY <2>1, <2>2
<1>8. ASSUME cuts' = 0 PROVE \E i \in Jobs : ~ Ended(i)' \/ i \in Committed'
  <2>1. cuts = 0 /\ ~ RunCut(j)
    BY <1>1, <1>8, CacheGrows
  <2>2. CASE u.at # "failed"
    BY <2>2 DEF Ended, Committed
  <2>3. CASE InsertConflicts(j)
    <3>1. Committed # {}
      BY <2>3 DEF InsertConflicts, SparedInv
    <3> QED
      BY <1>3, <3>1 DEF Committed
  <2>4. CASE EndDeadlock(j)
    <3>1. PICK circle \in SUBSET Jobs : j \in circle /\ Deadlocked(circle)
      BY <2>4 DEF EndDeadlock
    <3>2. PICK i \in circle : Blocks(i, j)
      BY <3>1 DEF Deadlocked
    <3>3. PICK k \in circle : Blocks(k, i)
      BY <3>1, <3>2 DEF Deadlocked
    <3>4. i \in Jobs \ {j} /\ task[i].at \in {"insert", "update"}
      BY <3>2, <3>3 DEF Blocks
    <3> QED
      BY <1>1, <3>4 DEF Ended
  <2> QED
    BY <1>4, <2>1, <2>2, <2>3, <2>4
<1> QED
  BY <1>5, <1>6, <1>7, <1>8 DEF SparedInv

\* Without faults some job commits, or is still at it: a conflict needs a job
\* that has committed, and a deadlock leaves the others of its circle at work.
THEOREM OneIsSparedAlways ==
  ASSUME Jobs # {}
  PROVE  RemediationSpec => []OneIsSpared
<1>1. RemediationInit => SparedInv
  BY DEF RemediationInit, SparedInv, Queued, Ended, Committed
<1>2. CacheInv /\ SparedInv /\ [RemediationNext]_remediationVars => SparedInv'
  <2> SUFFICES ASSUME CacheInv, SparedInv, [RemediationNext]_remediationVars
               PROVE  SparedInv'
    OBVIOUS
  <2>1. CASE UNCHANGED remediationVars
    BY <2>1 DEF remediationVars, SparedInv, Committed, Ended, Mine, RowOf
  <2> QED
    BY <2>1, SparedStep DEF RemediationNext
<1>3. SparedInv => OneIsSpared
  BY DEF SparedInv, OneIsSpared, Committed
<1> QED
  BY <1>1, <1>2, <1>3, CacheInvariant, PTL DEF RemediationSpec

-----------------------------------------------------------------------------
(* Scheduling.                                                             *)
\* The hours of a day, as scheduling.py tests them and as a set.
LEMMA HourType ==
  ASSUME NEW t \in Nat
  PROVE  HourOf(t) \in 0 .. 23
  BY DEF HourOf, Hour

LEMMA HoursAgree ==
  ASSUME NEW s \in 0 .. 23, NEW e \in 0 .. 23, NEW h \in 0 .. 23
  PROVE  h \in HoursFrom(s, e) <=> InQuietHours(h, s, e)
<1>1. CASE s = e
  BY <1>1 DEF HoursFrom, InQuietHours
<1>2. CASE s < e
  <2>1. (e - s) % 24 = e - s
    BY <1>2
  <2>2. \A i \in 0 .. e - s - 1 : (s + i) % 24 = s + i
    BY <1>2
  <2>3. h \in HoursFrom(s, e) <=> \E i \in 0 .. e - s - 1 : h = s + i
    BY <2>1, <2>2 DEF HoursFrom
  <2>4. (s <= h /\ h < e) => h - s \in 0 .. e - s - 1 /\ h = s + (h - s)
    BY <1>2
  <2> QED
    BY <1>2, <2>3, <2>4 DEF InQuietHours
<1>3. CASE e < s
  <2>1. (e - s) % 24 = e - s + 24
    BY <1>3
  <2>2. h \in HoursFrom(s, e) <=>
          \E i \in 0 .. e - s + 23 : h = (s + i) % 24
    BY <2>1 DEF HoursFrom
  <2>3. \A i \in 0 .. e - s + 23 :
          (s + i) % 24 = IF s + i < 24 THEN s + i ELSE s + i - 24
    BY <1>3
  <2>4. ASSUME h >= s PROVE h \in HoursFrom(s, e)
    <3>1. h - s \in 0 .. e - s + 23 /\ (s + (h - s)) % 24 = h
      BY <1>3, <2>4
    <3> QED
      BY <2>2, <3>1
  <2>5. ASSUME h < e PROVE h \in HoursFrom(s, e)
    <3>1. h + 24 - s \in 0 .. e - s + 23 /\ (s + (h + 24 - s)) % 24 = h
      BY <1>3, <2>5
    <3> QED
      BY <2>2, <3>1
  <2>6. h \in HoursFrom(s, e) => (h >= s \/ h < e)
    BY <2>2, <2>3, <1>3
  <2> QED
    BY <1>3, <2>4, <2>5, <2>6 DEF InQuietHours
<1> QED
  BY <1>1, <1>2, <1>3

\* Pushing a candidate out of its quiet hours passes over quiet hours only
\* and by a day at most.
LEMMA PushedIsEarliest ==
  ASSUME NEW s \in 0 .. 23, NEW e \in 0 .. 23, NEW q, q[1] = s, q[2] = e,
         NEW t \in Nat, InQuietHours(HourOf(t), s, e)
  PROVE  /\ Pushed(q, t) \in t .. t + Day
         /\ HourOf(Pushed(q, t)) = e
         /\ \A u \in t .. Pushed(q, t) - 1 : InQuietHours(HourOf(u), s, e)
<1> DEFINE d == t \div 96
           r == t % 96
<1>1. d \in Nat /\ r \in 0 .. 95 /\ t = 96 * d + r
  OBVIOUS
<1>2. HourOf(t) = r \div 4
  BY DEF HourOf, Hour
<1>3. Pushed(q, t) = IF 4 * e <= r THEN 96 * d + 96 + 4 * e
                     ELSE 96 * d + 4 * e
  BY <1>1 DEF Pushed, Day, Hour
<1>4. Pushed(q, t) \in t .. t + Day
  BY <1>1, <1>3 DEF Day, Hour
<1>5. HourOf(Pushed(q, t)) = e
  BY <1>1, <1>3 DEF HourOf, Hour
<1>6. ASSUME NEW u \in t .. Pushed(q, t) - 1
      PROVE  InQuietHours(HourOf(u), s, e)
  <2>1. u \in Nat
    BY <1>1, <1>4
  <2>2. HourOf(u) \in Nat /\ u >= t
    BY <2>1, HourType
  <2>3. CASE 4 * e <= r
    <3>1. ~(r \div 4 < e)
      BY <1>1, <2>3
    <3>2. e < s /\ r \div 4 >= s
      BY <1>2, <3>1 DEF InQuietHours
    <3>3. HourOf(u) >= r \div 4 \/ HourOf(u) < e
      BY <1>1, <1>3, <2>1, <2>2, <2>3 DEF HourOf, Hour
    <3> QED
      BY <1>1, <2>2, <3>2, <3>3 DEF InQuietHours
  <2>4. CASE r < 4 * e
    <3>1. HourOf(u) >= r \div 4 /\ HourOf(u) < e
      BY <1>1, <1>3, <2>1, <2>2, <2>4 DEF HourOf, Hour
    <3> QED
      BY <1>1, <1>2, <2>2, <3>1 DEF InQuietHours
  <2> QED
    BY <1>1, <2>3, <2>4
<1> QED
  BY <1>4, <1>5, <1>6

\* CHOOSE finds the least number of a set that has one.
LEMMA EarliestIs ==
  ASSUME NEW S \in SUBSET Int, NEW n \in S, \A u \in S : n <= u
  PROVE  Earliest(S) = n
<1>1. Earliest(S) \in S /\ \A u \in S : Earliest(S) <= u
  BY DEF Earliest
<1>2. Earliest(S) <= n /\ n <= Earliest(S)
  BY <1>1
<1>3. Earliest(S) \in Int /\ n \in Int
  BY <1>1
<1> QED
  BY <1>2, <1>3

\* compute_next_run_at, for every candidate and all hours of a day: it gives
\* the earliest time at or after the candidate outside the quiet hours.
THEOREM NextRunIsEarliest ==
  ASSUME NEW q \in QuietHours, ValidHours(q), NEW t \in Nat
  PROVE  NextRunAt(q, t) = Earliest({u \in t .. t + Day :
                                       HourOf(u) \notin Forbidden(q)})
<1> DEFINE S == {u \in t .. t + Day : HourOf(u) \notin Forbidden(q)}
<1>1. S \in SUBSET Int /\ \A u \in S : u \in Nat /\ t <= u
  OBVIOUS
<1>2. ASSUME ~Quiet(q, t) PROVE NextRunAt(q, t) = Earliest(S)
  <2>1. HourOf(t) \notin Forbidden(q)
    BY <1>2, HourType, HoursAgree DEF ValidHours, Forbidden, Quiet
  <2>2. t \in S
    BY <2>1 DEF Day, Hour
  <2> QED
    BY <1>1, <1>2, <2>2, EarliestIs DEF NextRunAt
<1>3. ASSUME Quiet(q, t) PROVE NextRunAt(q, t) = Earliest(S)
  <2> DEFINE n == Pushed(q, t)
  <2>1. /\ q[1] \in 0 .. 23 /\ q[2] \in 0 .. 23
        /\ InQuietHours(HourOf(t), q[1], q[2])
        /\ Forbidden(q) = HoursFrom(q[1], q[2])
    BY <1>3 DEF ValidHours, Quiet, Forbidden
  <2>2. /\ n \in t .. t + Day
        /\ HourOf(n) = q[2]
        /\ \A u \in t .. n - 1 : InQuietHours(HourOf(u), q[1], q[2])
    BY <2>1, PushedIsEarliest
  <2>3. ~InQuietHours(q[2], q[1], q[2])
    BY <2>1 DEF InQuietHours
  <2>4. n \in S
    BY <2>1, <2>2, <2>3, HoursAgree
  <2>5. ASSUME NEW u \in S PROVE n <= u
    <3>1. u \in Nat /\ t <= u /\ HourOf(u) \in 0 .. 23
      BY <1>1, HourType
    <3>2. ~InQuietHours(HourOf(u), q[1], q[2])
      BY <2>1, <3>1, HoursAgree
    <3> QED
      BY <2>2, <3>1, <3>2
  <2> QED
    BY <1>1, <1>3, <2>4, <2>5, EarliestIs DEF NextRunAt
<1> QED
  BY <1>2, <1>3
-----------------------------------------------------------------------------
\* Types of the tables and of the cycle in them.
Cycles ==
  [at : {"idle", "running", "ended", "raised"},
   listed : UNION {[S -> Settings] : S \in SUBSET Monitors},
   left : SUBSET Monitors, ran : SUBSET Monitors]

SchedulingTypes ==
  /\ now \in Nat
  /\ monitor \in [Monitors -> Settings \cup {Unset}]
  /\ run \in [Monitors -> Runs \cup {Unset}]
  /\ held \in [Monitors -> SUBSET Nat]
  /\ cycle \in Cycles

\* A listed monitor stays, and is left to run or has run, not both.
CycleInv ==
  /\ \A m \in DOMAIN cycle.listed : monitor[m] # Unset
  /\ cycle.left \cup cycle.ran \subseteq DOMAIN cycle.listed
  /\ cycle.left \cap cycle.ran = {}
  /\ cycle.at = "idle" => cycle = NoCycle

\* Until its run commits, a listed monitor is due, and what a detection
\* holds is what its row says.
WaitingInv(m) ==
  m \notin cycle.ran =>
    /\ monitor[m] = Unset => held[m] = {}
    /\ \A t \in held[m] : t = monitor[m].next
    /\ m \in DOMAIN cycle.listed => monitor[m].next <= now

\* After it, the row and the detections hold the time of the run, or one that
\* has come.
RanInv(m) ==
  m \in cycle.ran =>
    /\ run[m] # Unset
    /\ \A t \in held[m] \cup {monitor[m].next} : t <= now \/ t = run[m].next

SchedulingInv ==
  /\ SchedulingTypes
  /\ CycleInv
  /\ \A m \in Monitors : WaitingInv(m) /\ RanInv(m)
  /\ EarliestOutsideQuietHours

LEMMA NoCycleType == NoCycle \in Cycles /\ DOMAIN NoCycle.listed = {}
<1>1. [m \in {} |-> Unset] \in [{} -> Settings]
  OBVIOUS
<1>2. [m \in {} |-> Unset] \in UNION {[S -> Settings] : S \in SUBSET Monitors}
  BY <1>1
<1> QED
  BY <1>2 DEF NoCycle, Cycles

LEMMA SchedulingInitial == SchedulingInit => SchedulingInv
<1> SUFFICES ASSUME SchedulingInit PROVE SchedulingInv
  OBVIOUS
<1>1. SchedulingTypes
  BY SchedulingAssumption, NoCycleType
     DEF SchedulingInit, SchedulingTypes, Day, Hour
<1>2. CycleInv
  BY NoCycleType DEF SchedulingInit, CycleInv, NoCycle
<1>3. \A m \in Monitors : WaitingInv(m) /\ RanInv(m)
  BY NoCycleType DEF SchedulingInit, WaitingInv, RanInv, NoCycle
<1>4. EarliestOutsideQuietHours
  BY DEF SchedulingInit, EarliestOutsideQuietHours
<1> QED
  BY <1>1, <1>2, <1>3, <1>4 DEF SchedulingInv

\* A monitor that runs is listed, and its candidate is a time.
LEMMA CandidateType ==
  ASSUME SchedulingInv, NEW m \in cycle.left
  PROVE  /\ m \in Monitors
         /\ m \in DOMAIN cycle.listed
         /\ monitor[m] \in Settings
         /\ cycle.listed[m].quiet \in QuietHours
         /\ Candidates(m) \subseteq Nat
<1>1. /\ m \in Monitors /\ m \in DOMAIN cycle.listed
      /\ cycle.listed[m] \in Settings
  BY DEF SchedulingInv, SchedulingTypes, Cycles, CycleInv
<1>2. monitor[m] \in Settings
  BY <1>1 DEF SchedulingInv, SchedulingTypes, CycleInv
<1>3. cycle.listed[m].hours \in 1 .. 168 /\ now \in Nat
  BY <1>1, SchedulingAssumption DEF Settings, SchedulingInv, SchedulingTypes
<1>4. Candidates(m) \subseteq Nat
  BY <1>3 DEF Candidates, Jitter, Hour
<1> QED
  BY <1>1, <1>2, <1>4 DEF Settings

LEMMA NextRunType ==
  ASSUME NEW q \in QuietHours, NEW t \in Nat, ~Raises(q, t)
  PROVE  NextRunAt(q, t) \in Nat
<1>1. ASSUME Quiet(q, t) PROVE Pushed(q, t) \in Nat
  <2>1. q[2] \in 0 .. 23
    BY <1>1 DEF Raises
  <2>2. t % 96 \in 0 .. 95 /\ t - (t % 96) \in Nat
    OBVIOUS
  <2> QED
    BY <2>1, <2>2 DEF Pushed, Day, Hour
<1> QED
  BY <1>1 DEF NextRunAt

\* The owner, a denial and whatever ends the loop leave every time as it is.
LEMMA SameTimesKeepInv ==
  ASSUME SchedulingInv, UNCHANGED <<now, held, run>>,
         monitor' \in [Monitors -> Settings \cup {Unset}],
         \A m \in Monitors : \/ monitor'[m] = monitor[m]
                              \/ /\ monitor[m] # Unset /\ monitor'[m] # Unset
                                 /\ monitor'[m].next = monitor[m].next,
         cycle' \in Cycles, cycle' = cycle \/ cycle'.at # "idle",
         cycle'.listed = cycle.listed, cycle'.ran = cycle.ran,
         cycle'.left \subseteq cycle.left
  PROVE  SchedulingInv'
<1>1. SchedulingTypes'
  BY DEF SchedulingInv, SchedulingTypes
<1>2. DOMAIN cycle.listed \subseteq Monitors
  BY DEF SchedulingInv, SchedulingTypes, Cycles
<1>3. CycleInv'
  <2>1. cycle'.at = "idle" => cycle' = NoCycle
    BY DEF SchedulingInv, CycleInv
  <2>2. \A m \in DOMAIN cycle.listed : monitor'[m] # Unset
    BY <1>2 DEF SchedulingInv, CycleInv
  <2> QED
    BY <2>1, <2>2 DEF SchedulingInv, CycleInv, NoCycle
<1>4. ASSUME NEW m \in Monitors PROVE WaitingInv(m)' /\ RanInv(m)'
  <2>1. WaitingInv(m) /\ RanInv(m)
    BY DEF SchedulingInv
  <2>2. m \in DOMAIN cycle.listed => monitor'[m].next = monitor[m].next
    BY DEF SchedulingInv, CycleInv
  <2>3. WaitingInv(m)'
    BY <2>1, <2>2 DEF WaitingInv
  <2>4. RanInv(m)'
    BY <2>1, <2>2 DEF RanInv, SchedulingInv, CycleInv
  <2> QED
    BY <2>3, <2>4
<1>5. EarliestOutsideQuietHours'
  BY DEF SchedulingInv, EarliestOutsideQuietHours
<1> QED
  BY <1>1, <1>3, <1>4, <1>5 DEF SchedulingInv

LEMMA ChangeKeepsInv ==
  ASSUME SchedulingInv, NEW m \in Monitors,
         \/ OwnerDisables(m)
         \/ \E q \in QuietHours, h \in CadenceHours : ChangeMonitor(m, q, h)
  PROVE  SchedulingInv'
<1>1. PICK row :
        /\ row \in Settings /\ row.next = monitor[m].next
        /\ monitor[m] # Unset
        /\ monitor' = [monitor EXCEPT ![m] = row]
  <2>1. ASSUME monitor[m] # Unset PROVE monitor[m] \in Settings
    BY <2>1 DEF SchedulingInv, SchedulingTypes
  <2>2. CASE OwnerDisables(m)
    BY <2>1, <2>2 DEF OwnerDisables, Change, Settings
  <2>3. ASSUME NEW q \in QuietHours, NEW h \in CadenceHours,
               ChangeMonitor(m, q, h)
        PROVE  \E row : /\ row \in Settings /\ row.next = monitor[m].next
                        /\ monitor[m] # Unset
                        /\ monitor' = [monitor EXCEPT ![m] = row]
    BY <2>1, <2>3 DEF ChangeMonitor, Change, Settings
  <2> QED
    BY <2>2, <2>3
<1>2. UNCHANGED <<now, cycle, held, run>>
  BY DEF OwnerDisables, ChangeMonitor, Change
<1>3. monitor \in [Monitors -> Settings \cup {Unset}] /\ cycle \in Cycles
  BY DEF SchedulingInv, SchedulingTypes
<1>4. row # Unset
  BY <1>1, SchedulingAssumption
<1>5. /\ monitor' \in [Monitors -> Settings \cup {Unset}]
      /\ monitor'[m] = row
      /\ \A o \in Monitors \ {m} : monitor'[o] = monitor[o]
  BY <1>1, <1>3
<1> QED
  BY <1>1, <1>2, <1>3, <1>4, <1>5, SameTimesKeepInv

LEMMA NotRunKeepsInv ==
  ASSUME SchedulingInv, NEW m \in Monitors,
         RunDenied(m) \/ RunMissing(m) \/ RunRaises(m)
  PROVE  SchedulingInv'
<1>1. cycle \in Cycles /\ monitor \in [Monitors -> Settings \cup {Unset}]
  BY DEF SchedulingInv, SchedulingTypes
<1>2. /\ UNCHANGED <<now, held, run>>
      /\ cycle.at # "idle"
  BY DEF RunDenied, RunMissing, RunRaises, Running
<1>3. /\ cycle' \in Cycles /\ cycle'.at # "idle"
      /\ cycle'.listed = cycle.listed /\ cycle'.ran = cycle.ran
      /\ cycle'.left \subseteq cycle.left
  <2>1. CASE RunDenied(m) \/ RunMissing(m)
    <3>1. cycle' = [cycle EXCEPT !.left = @ \ {m}] /\ cycle.at = "running"
      BY <2>1 DEF RunDenied, RunMissing, Running
    <3> QED
      BY <1>1, <3>1 DEF Cycles
  <2>2. CASE RunRaises(m)
    <3>1. cycle' = [cycle EXCEPT !.at = "raised"]
      BY <2>2 DEF RunRaises
    <3> QED
      BY <1>1, <3>1 DEF Cycles
  <2> QED
    BY <2>1, <2>2
<1>4. /\ monitor' \in [Monitors -> Settings \cup {Unset}]
      /\ \A o \in Monitors : \/ monitor'[o] = monitor[o]
                              \/ /\ monitor[o] # Unset /\ monitor'[o] # Unset
                                 /\ monitor'[o].next = monitor[o].next
  <2>1. CASE RunDenied(m)
    <3>1. m \in cycle.left /\ monitor' = [monitor EXCEPT ![m].enabled = FALSE]
      BY <2>1 DEF RunDenied, Running
    <3>2. monitor[m] \in Settings
      BY <3>1, CandidateType
    <3>3. /\ monitor'[m] \in Settings /\ monitor'[m].next = monitor[m].next
          /\ \A o \in Monitors \ {m} : monitor'[o] = monitor[o]
      BY <1>1, <3>1, <3>2 DEF Settings
    <3>4. monitor' \in [Monitors -> Settings \cup {Unset}]
      BY <1>1, <3>1, <3>3
    <3> QED
      BY <3>2, <3>3, <3>4, SchedulingAssumption
  <2>2. CASE RunMissing(m) \/ RunRaises(m)
    BY <1>1, <2>2 DEF RunMissing, RunRaises
  <2> QED
    BY <2>1, <2>2
<1> QED
  BY <1>2, <1>3, <1>4, SameTimesKeepInv

\* A new monitor is on no list and nobody holds a time of it.
LEMMA CreateKeepsInv ==
  ASSUME SchedulingInv, NEW m \in Monitors, NEW q \in QuietHours,
         NEW h \in CadenceHours, CreateMonitor(m, q, h)
  PROVE  SchedulingInv'
<1> DEFINE row == [enabled |-> TRUE, quiet |-> q, hours |-> h, next |-> now]
<1>1. /\ monitor \in [Monitors -> Settings \cup {Unset}] /\ now \in Nat
      /\ monitor[m] = Unset /\ monitor' = [monitor EXCEPT ![m] = row]
      /\ UNCHANGED <<now, cycle, held, run>>
  BY DEF SchedulingInv, SchedulingTypes, CreateMonitor
<1>2. row \in Settings
  BY <1>1 DEF Settings
<1>3. /\ monitor' \in [Monitors -> Settings \cup {Unset}]
      /\ \A o \in Monitors \ {m} : monitor'[o] = monitor[o]
  BY <1>1, <1>2
<1>4. /\ m \notin DOMAIN cycle.listed /\ m \notin cycle.ran
      /\ DOMAIN cycle.listed \subseteq Monitors
  BY <1>1 DEF SchedulingInv, CycleInv, SchedulingTypes, Cycles
<1>5. SchedulingTypes' /\ CycleInv'
  BY <1>1, <1>3, <1>4 DEF SchedulingInv, SchedulingTypes, CycleInv, NoCycle
<1>6. ASSUME NEW o \in Monitors PROVE WaitingInv(o)' /\ RanInv(o)'
  <2>1. WaitingInv(o) /\ RanInv(o)
    BY DEF SchedulingInv
  <2>2. CASE o = m
    BY <1>1, <1>4, <2>1, <2>2 DEF WaitingInv, RanInv
  <2>3. CASE o # m
    BY <1>1, <1>3, <2>1, <2>3 DEF WaitingInv, RanInv
  <2> QED
    BY <2>2, <2>3
<1> QED
  BY <1>1, <1>5, <1>6 DEF SchedulingInv, EarliestOutsideQuietHours

\* A detection reads what the row says, and writes what it or another has
\* read.
LEMMA DetectionKeepsInv ==
  ASSUME SchedulingInv, NEW m \in Monitors,
         DetectionReads(m) \/ DetectionWrites(m)
  PROVE  SchedulingInv'
<1>1. /\ monitor \in [Monitors -> Settings \cup {Unset}]
      /\ held \in [Monitors -> SUBSET Nat]
      /\ DOMAIN cycle.listed \subseteq Monitors
      /\ WaitingInv(m) /\ RanInv(m)
      /\ UNCHANGED <<now, cycle, run>>
  BY DEF SchedulingInv, SchedulingTypes, Cycles, DetectionReads, DetectionWrites
<1>2. /\ monitor[m] \in Settings
      /\ monitor' \in [Monitors -> Settings \cup {Unset}]
      /\ monitor'[m] \in Settings
      /\ monitor'[m].next \in held[m] \cup {monitor[m].next}
      /\ \A o \in Monitors \ {m} : monitor'[o] = monitor[o]
      /\ held' \in [Monitors -> SUBSET Nat]
      /\ held'[m] \subseteq held[m] \cup {monitor[m].next}
      /\ \A o \in Monitors \ {m} : held'[o] = held[o]
  <2>1. CASE DetectionReads(m)
    <3>1. /\ monitor[m] \in Settings /\ monitor' = monitor
          /\ held' = [held EXCEPT ![m] = @ \cup {monitor[m].next}]
      BY <1>1, <2>1 DEF DetectionReads
    <3>2. monitor[m].next \in Nat
      BY <3>1 DEF Settings
    <3> QED
      BY <1>1, <3>1, <3>2
  <2>2. CASE DetectionWrites(m)
    <3>1. PICK next \in held[m] :
            /\ monitor' = [monitor EXCEPT ![m].next = next]
            /\ held' \in {held, [held EXCEPT ![m] = @ \ {next}]}
      BY <2>2 DEF DetectionWrites
    <3>2. next \in Nat
      BY <1>1
    <3>3. monitor[m] \in Settings
      <4>1. monitor[m] # Unset
        <5>1. CASE m \in cycle.ran
          BY <5>1 DEF SchedulingInv, CycleInv
        <5>2. CASE m \notin cycle.ran
          BY <1>1, <5>2 DEF WaitingInv
        <5> QED
          BY <5>1, <5>2
      <4> QED
        BY <1>1, <4>1
    <3>4. /\ monitor'[m] = [monitor[m] EXCEPT !.next = next]
          /\ \A o \in Monitors \ {m} : monitor'[o] = monitor[o]
      BY <1>1, <3>1
    <3>5. monitor'[m] \in Settings /\ monitor'[m].next = next
      BY <3>2, <3>3, <3>4 DEF Settings
    <3>6. monitor' \in [Monitors -> Settings \cup {Unset}]
      BY <1>1, <3>1, <3>5
    <3>7. /\ held' \in [Monitors -> SUBSET Nat]
          /\ held'[m] \subseteq held[m]
          /\ \A o \in Monitors \ {m} : held'[o] = held[o]
      BY <1>1, <3>1
    <3> QED
      BY <3>3, <3>4, <3>5, <3>6, <3>7
  <2> QED
    BY <2>1, <2>2
<1>3. monitor[m] # Unset /\ monitor'[m] # Unset
  BY <1>2, SchedulingAssumption
<1>4. SchedulingTypes' /\ CycleInv'
  BY <1>1, <1>2, <1>3 DEF SchedulingInv, SchedulingTypes, CycleInv, NoCycle
<1>5. ASSUME NEW o \in Monitors PROVE WaitingInv(o)' /\ RanInv(o)'
  <2>1. WaitingInv(o) /\ RanInv(o)
    BY DEF SchedulingInv
  <2>2. CASE o = m
    <3>1. WaitingInv(m)'
      BY <1>1, <1>2, <1>3 DEF WaitingInv
    <3>2. RanInv(m)'
      BY <1>1, <1>2 DEF RanInv
    <3> QED
      BY <2>2, <3>1, <3>2
  <2>3. CASE o # m
    BY <1>1, <1>2, <2>1, <2>3 DEF WaitingInv, RanInv
  <2> QED
    BY <2>2, <2>3
<1> QED
  BY <1>1, <1>4, <1>5 DEF SchedulingInv, EarliestOutsideQuietHours

\* The list is of rows that are due, and nobody on it has run.
LEMMA BeginKeepsInv ==
  ASSUME SchedulingInv, BeginCycle
  PROVE  SchedulingInv'
<1> DEFINE list == [m \in Due |-> monitor[m]]
<1>1. /\ monitor \in [Monitors -> Settings \cup {Unset}]
      /\ UNCHANGED <<now, monitor, held, run>>
      /\ cycle.ran = {}
      /\ cycle' = [at |-> "running", listed |-> list, left |-> Due, ran |-> {}]
  BY DEF SchedulingInv, SchedulingTypes, CycleInv, NoCycle, BeginCycle, CycleOver
<1>2. /\ Due \subseteq Monitors
      /\ \A m \in Due : monitor[m] # Unset /\ monitor[m].next <= now
  BY DEF Due
<1>3. list \in [Due -> Settings]
  BY <1>1, <1>2
<1>4. cycle' \in Cycles
  <2>1. list \in UNION {[S -> Settings] : S \in SUBSET Monitors}
    BY <1>2, <1>3
  <2> QED
    BY <1>1, <1>2, <2>1 DEF Cycles
<1>5. SchedulingTypes' /\ CycleInv'
  BY <1>1, <1>2, <1>4 DEF SchedulingInv, SchedulingTypes, CycleInv
<1>6. ASSUME NEW m \in Monitors PROVE WaitingInv(m)' /\ RanInv(m)'
  BY <1>1, <1>2 DEF SchedulingInv, WaitingInv, RanInv
<1> QED
  BY <1>1, <1>5, <1>6 DEF SchedulingInv, EarliestOutsideQuietHours

\* Time only moves forward, and takes the cycle and the jobs with it.
LEMMA TimeKeepsInv ==
  ASSUME SchedulingInv, TimePasses
  PROVE  SchedulingInv'
<1>1. /\ now' \in Nat /\ UNCHANGED <<monitor, run>>
      /\ cycle' = NoCycle /\ held' = [m \in Monitors |-> {}]
  BY DEF SchedulingInv, SchedulingTypes, TimePasses, Settings
<1>2. SchedulingTypes' /\ CycleInv'
  BY <1>1, NoCycleType DEF SchedulingInv, SchedulingTypes, CycleInv, NoCycle
<1>3. ASSUME NEW m \in Monitors PROVE WaitingInv(m)' /\ RanInv(m)'
  BY <1>1, NoCycleType DEF WaitingInv, RanInv, NoCycle
<1> QED
  BY <1>1, <1>2, <1>3 DEF SchedulingInv, EarliestOutsideQuietHours

\* The transaction that schedules: what a detection held until then has come.
LEMMA CommitKeepsInv ==
  ASSUME SchedulingInv, NEW m \in Monitors, RunMonitor(m) \/ EnqueueFails(m)
  PROVE  SchedulingInv'
<1>1. Running(m) /\ Commit(m) /\ UNCHANGED <<now, held>>
  BY DEF RunMonitor, EnqueueFails
<1>2. PICK candidate \in Candidates(m) :
        /\ ~Raises(cycle.listed[m].quiet, candidate)
        /\ monitor' = [monitor EXCEPT
             ![m].next = NextRunAt(cycle.listed[m].quiet, candidate)]
        /\ run' = [run EXCEPT
             ![m] = [quiet |-> cycle.listed[m].quiet, from |-> candidate,
                     next |-> monitor'[m].next]]
  BY <1>1 DEF Commit
<1> DEFINE q == cycle.listed[m].quiet
           n == NextRunAt(q, candidate)
<1>3. /\ m \in cycle.left /\ m \in DOMAIN cycle.listed /\ q \in QuietHours
      /\ monitor[m] \in Settings /\ candidate \in Nat /\ n \in Nat
  BY <1>1, <1>2, CandidateType, NextRunType DEF Running
<1>4. /\ monitor \in [Monitors -> Settings \cup {Unset}]
      /\ run \in [Monitors -> Runs \cup {Unset}]
      /\ cycle \in Cycles /\ DOMAIN cycle.listed \subseteq Monitors
  BY DEF SchedulingInv, SchedulingTypes, Cycles
<1>5. /\ monitor'[m] = [monitor[m] EXCEPT !.next = n]
      /\ \A o \in Monitors \ {m} : monitor'[o] = monitor[o]
  BY <1>2, <1>4
<1>6. monitor'[m] \in Settings /\ monitor'[m].next = n
  BY <1>3, <1>5 DEF Settings
<1>7. monitor' \in [Monitors -> Settings \cup {Unset}]
  BY <1>2, <1>4, <1>6
<1>8. /\ run'[m] = [quiet |-> q, from |-> candidate, next |-> n]
      /\ \A o \in Monitors \ {m} : run'[o] = run[o]
  BY <1>2, <1>4, <1>6
<1>9. run'[m] \in Runs
  BY <1>3, <1>8 DEF Runs
<1>10. run' \in [Monitors -> Runs \cup {Unset}]
  BY <1>2, <1>4, <1>9
<1>11. /\ cycle' \in Cycles /\ cycle'.at # "idle"
       /\ cycle'.listed = cycle.listed
       /\ cycle'.left = cycle.left \ {m} /\ cycle'.ran = cycle.ran \cup {m}
  <2>1. \/ cycle' = [cycle EXCEPT !.left = @ \ {m}, !.ran = @ \cup {m}]
        \/ cycle' = [cycle EXCEPT !.at = "raised", !.left = @ \ {m},
                                  !.ran = @ \cup {m}]
    BY DEF RunMonitor, EnqueueFails
  <2>2. /\ cycle.at = "running"
        /\ cycle.left \ {m} \in SUBSET Monitors
        /\ cycle.ran \cup {m} \in SUBSET Monitors
    BY <1>1, <1>4 DEF Running, Cycles
  <2>3. cycle = [at |-> cycle.at, listed |-> cycle.listed, left |-> cycle.left,
                 ran |-> cycle.ran]
    BY <1>4 DEF Cycles
  <2>4. CASE cycle' = [cycle EXCEPT !.left = @ \ {m}, !.ran = @ \cup {m}]
    BY <1>4, <2>2, <2>3, <2>4 DEF Cycles
  <2>5. CASE cycle' = [cycle EXCEPT !.at = "raised", !.left = @ \ {m},
                                    !.ran = @ \cup {m}]
    BY <1>4, <2>2, <2>3, <2>5 DEF Cycles
  <2> QED
    BY <2>1, <2>4, <2>5
<1>12. SchedulingTypes'
  BY <1>1, <1>7, <1>10, <1>11 DEF SchedulingInv, SchedulingTypes
<1>13. CycleInv'
  BY <1>3, <1>4, <1>5, <1>6, <1>11, SchedulingAssumption
     DEF SchedulingInv, CycleInv
<1>14. ASSUME NEW o \in Monitors PROVE WaitingInv(o)' /\ RanInv(o)'
  <2>1. WaitingInv(o) /\ RanInv(o)
    BY DEF SchedulingInv
  <2>2. CASE o = m
    <3>1. \A t \in held[m] : t <= now
      BY <1>3, <2>1, <2>2 DEF WaitingInv, SchedulingInv, CycleInv
    <3>2. run'[m] # Unset /\ run'[m].next = n
      BY <1>8, <1>9, SchedulingAssumption
    <3> QED
      BY <1>1, <1>6, <1>11, <2>2, <3>1, <3>2 DEF WaitingInv, RanInv
  <2>3. CASE o # m
    BY <1>1, <1>5, <1>8, <1>11, <2>1, <2>3 DEF WaitingInv, RanInv
  <2> QED
    BY <2>2, <2>3
<1>15. EarliestOutsideQuietHours'
  <2> SUFFICES ASSUME NEW o \in Monitors, run'[o] # Unset,
                      ValidHours(run'[o].quiet)
               PROVE  run'[o].next =
                        Earliest({t \in run'[o].from .. run'[o].from + Day :
                                    HourOf(t) \notin Forbidden(run'[o].quiet)})
    BY DEF EarliestOutsideQuietHours
  <2>1. CASE o = m
    BY <1>3, <1>8, <2>1, NextRunIsEarliest
  <2>2. CASE o # m
    BY <1>8, <2>2 DEF SchedulingInv, EarliestOutsideQuietHours
  <2> QED
    BY <2>1, <2>2
<1> QED
  BY <1>12, <1>13, <1>14, <1>15 DEF SchedulingInv

LEMMA SchedulingStep ==
  SchedulingInv /\ [SchedulingNext]_schedulingVars => SchedulingInv'
<1> SUFFICES ASSUME SchedulingInv, [SchedulingNext]_schedulingVars
             PROVE  SchedulingInv'
  OBVIOUS
<1>1. ASSUME NEW m \in Monitors, NEW q \in QuietHours, NEW h \in CadenceHours,
             CreateMonitor(m, q, h)
      PROVE  SchedulingInv'
  BY <1>1, CreateKeepsInv
<1>2. ASSUME NEW m \in Monitors,
             \/ OwnerDisables(m)
             \/ \E q \in QuietHours, h \in CadenceHours : ChangeMonitor(m, q, h)
      PROVE  SchedulingInv'
  BY <1>2, ChangeKeepsInv
<1>3. ASSUME NEW m \in Monitors, DetectionReads(m) \/ DetectionWrites(m)
      PROVE  SchedulingInv'
  BY <1>3, DetectionKeepsInv
<1>4. CASE BeginCycle
  BY <1>4, BeginKeepsInv
<1>5. ASSUME NEW m \in Monitors, RunMonitor(m) \/ EnqueueFails(m)
      PROVE  SchedulingInv'
  BY <1>5, CommitKeepsInv
<1>6. ASSUME NEW m \in Monitors, RunDenied(m) \/ RunMissing(m) \/ RunRaises(m)
      PROVE  SchedulingInv'
  BY <1>6, NotRunKeepsInv
<1>7. CASE EndCycle
  <2>1. cycle.left = {} /\ cycle' = [cycle EXCEPT !.at = "ended"]
        /\ UNCHANGED <<now, monitor, held, run>>
    BY <1>7 DEF EndCycle
  <2>2. cycle \in Cycles /\ monitor \in [Monitors -> Settings \cup {Unset}]
    BY DEF SchedulingInv, SchedulingTypes
  <2>3. /\ cycle' \in Cycles /\ cycle'.at # "idle"
        /\ cycle'.listed = cycle.listed /\ cycle'.ran = cycle.ran
        /\ cycle'.left = cycle.left
    BY <2>1, <2>2 DEF Cycles
  <2> QED
    BY <2>1, <2>2, <2>3, SameTimesKeepInv
<1>8. CASE TimePasses
  BY <1>8, TimeKeepsInv
<1>9. CASE UNCHANGED schedulingVars
  <2>1. UNCHANGED <<now, monitor, cycle, held, run>>
    BY <1>9 DEF schedulingVars
  <2>2. cycle \in Cycles /\ monitor \in [Monitors -> Settings \cup {Unset}]
    BY DEF SchedulingInv, SchedulingTypes
  <2> QED
    BY <2>1, <2>2, SameTimesKeepInv
<1> QED
  BY <1>1, <1>2, <1>3, <1>4, <1>5, <1>6, <1>7, <1>8, <1>9 DEF SchedulingNext

LEMMA SchedulingAlways == SchedulingSpec => []SchedulingInv
  BY SchedulingInitial, SchedulingStep, PTL DEF SchedulingSpec

\* In every behaviour a monitor that runs gets the earliest time outside the
\* quiet hours its cycle read (scheduling.py compute_next_run_at).
THEOREM EarliestOutsideQuietHoursAlways ==
  SchedulingSpec => []EarliestOutsideQuietHours
<1>1. SchedulingInv => EarliestOutsideQuietHours
  BY DEF SchedulingInv
<1> QED
  BY <1>1, SchedulingAlways, PTL

\* In every behaviour, whatever the owner, the detections and the errors do,
\* a monitor of the list is due still or this cycle has committed the run its
\* next_run_at goes with (jobs.py check_due_monitors_job, reschedule_monitor).
THEOREM NoDueMonitorIsLostAlways == SchedulingSpec => []NoDueMonitorIsLost
<1>1. ASSUME SchedulingInv, NEW m \in DOMAIN cycle.listed
      PROVE  \/ monitor[m].next <= now
             \/ m \in cycle.ran /\ monitor[m].next = run[m].next
  <2>1. m \in Monitors
    BY <1>1 DEF SchedulingInv, SchedulingTypes, Cycles
  <2>2. WaitingInv(m) /\ RanInv(m)
    BY <1>1, <2>1 DEF SchedulingInv
  <2> QED
    BY <2>2 DEF WaitingInv, RanInv
<1>2. SchedulingInv => NoDueMonitorIsLost
  BY <1>1 DEF NoDueMonitorIsLost
<1> QED
  BY <1>2, SchedulingAlways, PTL
=============================================================================
