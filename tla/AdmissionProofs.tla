-------------------------- MODULE AdmissionProofs --------------------------
(***************************************************************************)
(* Proofs about Admission, for any number of requests, origins and jobs    *)
(* and any limits: the types, that the active tier is earned, and how far  *)
(* the quota of scans and the 24-hour ceiling can be exceeded.             *)
(***************************************************************************)
EXTENDS Admission, FiniteSetTheorems, TLAPS

Before == {"account", "project", "target", "proof"}

\* Where a request has found its project.
HasProject(q) ==
  \/ q.at \in {"target", "proof", "targets", "scans", "insert", "commit"}
  \/ q.at = "rows" /\ q.kind # "scan"
  \/ q.kind = "monitor"

\* What is known of request r while it is at work.
RequestInv(r, q) ==
  /\ HasProject(q) => q.project \in projects \union (IF q.newProject THEN {r} ELSE {})
  /\ q.at = "proof" => q.kind \in ScanKinds
  /\ q.at \in Before /\ q.kind \in ScanKinds =>
       /\ (\E t \in valid : t[2] = q.origin) => q.owned
       /\ plan = "paid" \/ q.plan = "paid" => q.paid
  /\ q.tier = "active" => q.earned

\* The inductive invariant.
AdmissionInv ==
  /\ TypeOK
  /\ \A r \in Requests : request[r].at # "idle" => RequestInv(r, request[r])

-----------------------------------------------------------------------------
\* The rows stay and request r goes on, as it should: nothing is disturbed.
LEMMA ReadsKeep ==
  ASSUME AdmissionInv, NEW r \in Requests, NEW next,
         Reads(r, next),
         next = Idle \/ (next \in AtWork /\ RequestInv(r, next))
  PROVE  AdmissionInv'
<1>1. /\ request' = [request EXCEPT ![r] = next]
      /\ UNCHANGED <<plan, projects, targets, verified, valid, jobs, day>>
  BY DEF Reads, Goes, rowVars, proofVars
<1>2. TypeOK'
  BY <1>1 DEF AdmissionInv, TypeOK
<1>3. ASSUME NEW s \in Requests, request'[s].at # "idle"
      PROVE  RequestInv(s, request[s])'
  <2>1. CASE s = r
    <3>1. request'[s] = next
      BY <1>1, <2>1 DEF AdmissionInv, TypeOK
    <3>2. RequestInv(r, next)
      BY <1>3, <3>1 DEF Idle
    <3> QED  BY <1>1, <2>1, <3>1, <3>2 DEF RequestInv, HasProject
  <2>2. CASE s # r
    <3>1. request'[s] = request[s]
      BY <1>1, <2>2 DEF AdmissionInv, TypeOK
    <3> QED  BY <1>1, <1>3, <3>1 DEF AdmissionInv, RequestInv, HasProject
  <2> QED  BY <2>1, <2>2
<1> QED  BY <1>2, <1>3 DEF AdmissionInv

\* A request that is not idle is at work.
LEMMA AtWorkFacts ==
  ASSUME AdmissionInv, NEW r \in Requests, request[r].at # "idle"
  PROVE  request[r] \in AtWork /\ RequestInv(r, request[r])
BY DEF AdmissionInv, TypeOK, Idle

\* A request that looks for its project finds one, or fails.
LEMMA FindProjectKeeps ==
  ASSUME AdmissionInv, NEW r \in Requests, NEW next \in AtWork,
         \A p \in projects \union {r} :
           RequestInv(r, [next EXCEPT !.project = p, !.newProject = p \notin projects]),
         FindProject(r, next)
  PROVE  AdmissionInv'
<1>1. CASE \E p \in ProjectsSeen(r) :
        Reads(r, [next EXCEPT !.project = p, !.newProject = p \notin projects])
  <2>1. PICK p \in ProjectsSeen(r) :
          Reads(r, [next EXCEPT !.project = p, !.newProject = p \notin projects])
    BY <1>1
  <2>2. p \in projects \union {r}
    BY <2>1 DEF ProjectsSeen
  <2>3. p \in Requests
    BY <2>2 DEF AdmissionInv, TypeOK
  <2>4. [next EXCEPT !.project = p, !.newProject = p \notin projects] \in AtWork
    BY <2>3 DEF AtWork
  <2> QED  BY <2>1, <2>2, <2>4, ReadsKeep
<1>2. CASE Reads(r, Idle)
  BY <1>2, ReadsKeep
<1> QED  BY <1>1, <1>2 DEF FindProject

-----------------------------------------------------------------------------
(* The steps of a request.                                                 *)

LEMMA ArrivesKeeps ==
  ASSUME AdmissionInv, NEW r \in Requests, NEW kind \in Kinds,
         NEW at \in {"account", "target"}, NEW project \in Requests \union {NoProject},
         NEW o \in Origins,
         kind = "monitor" \/ at = "target" => project \in projects,
         Arrives(r, kind, at, project, o)
  PROVE  AdmissionInv'
<1> DEFINE next == [at |-> at, kind |-> kind, project |-> project, origin |-> o,
               newProject |-> FALSE, newAccount |-> FALSE, newTarget |-> FALSE,
               plan |-> "free", status |-> FALSE, tier |-> "passive", earned |-> FALSE,
               owned  |-> kind \in ScanKinds /\ \E t \in valid : t[2] = o,
               paid   |-> kind \in ScanKinds /\ plan = "paid"]
<1>1. Reads(r, next)
  BY DEF Arrives
<1>2. next \in AtWork
  BY DEF AtWork, Plans
<1>3. RequestInv(r, next)
  BY DEF RequestInv, HasProject, Before, Plans
<1> QED  BY <1>1, <1>2, <1>3, ReadsKeep

LEMMA SubmitKeeps ==
  ASSUME AdmissionInv, NEW r \in Requests, NEW o \in Origins, Submit(r, o)
  PROVE  AdmissionInv'
<1>1. PICK kind \in {"scan", "api", "target"} : Arrives(r, kind, "account", NoProject, o)
  BY DEF Submit
<1>2. kind \in Kinds /\ kind # "monitor"
  BY DEF Kinds, ScanKinds
<1> QED  BY <1>1, <1>2, ArrivesKeeps

LEMMA MonitorDueKeeps ==
  ASSUME AdmissionInv, NEW r \in Requests, NEW t \in targets, MonitorDue(r, t)
  PROVE  AdmissionInv'
<1>1. t[1] \in projects /\ t[1] \in Requests /\ t[2] \in Origins
  BY DEF AdmissionInv, TypeOK
<1>2. "monitor" \in Kinds
  BY DEF Kinds, ScanKinds
<1>3. Arrives(r, "monitor", "target", t[1], t[2])
  BY DEF MonitorDue
<1> QED  BY <1>1, <1>2, <1>3, ArrivesKeeps

LEMMA ReadAccountKeeps ==
  ASSUME AdmissionInv, NEW r \in Requests, ReadAccount(r)
  PROVE  AdmissionInv'
<1> DEFINE q == request[r]
<1>1. q.at = "account"
  BY DEF ReadAccount
<1>2. q \in AtWork /\ RequestInv(r, q)
  BY <1>1, AtWorkFacts
<1>3. CASE /\ plan # "none"
           /\ Reads(r, [q EXCEPT !.plan = plan,
                                 !.at = IF q.kind = "monitor" THEN "proof" ELSE "project"])
  <2> DEFINE next == [q EXCEPT !.plan = plan,
                               !.at = IF q.kind = "monitor" THEN "proof" ELSE "project"]
  <2>1. plan \in Plans
    BY <1>3 DEF AdmissionInv, TypeOK
  <2>2. next \in AtWork
    BY <1>2, <2>1 DEF AtWork
  <2>3. RequestInv(r, next)
    BY <1>1, <1>2, <2>2 DEF RequestInv, HasProject, Before, AtWork, ScanKinds
  <2> QED  BY <1>3, <2>2, <2>3, ReadsKeep
<1>4. CASE q.kind = "scan" /\ Reads(r, [q EXCEPT !.at = "rows"])
  <2>1. [q EXCEPT !.at = "rows"] \in AtWork
    BY <1>2 DEF AtWork
  <2>2. RequestInv(r, [q EXCEPT !.at = "rows"])
    BY <1>1, <1>2, <1>4 DEF RequestInv, HasProject, Before, AtWork
  <2> QED  BY <1>4, <2>1, <2>2, ReadsKeep
<1>5. CASE q.kind = "target" /\ Reads(r, [q EXCEPT !.newAccount = TRUE, !.at = "project"])
  <2>1. [q EXCEPT !.newAccount = TRUE, !.at = "project"] \in AtWork
    BY <1>2 DEF AtWork
  <2>2. RequestInv(r, [q EXCEPT !.newAccount = TRUE, !.at = "project"])
    BY <1>1, <1>2, <1>5 DEF RequestInv, HasProject, Before, AtWork, ScanKinds
  <2> QED  BY <1>5, <2>1, <2>2, ReadsKeep
<1> QED  BY <1>3, <1>4, <1>5 DEF ReadAccount

LEMMA ReadProjectKeeps ==
  ASSUME AdmissionInv, NEW r \in Requests, ReadProject(r)
  PROVE  AdmissionInv'
<1> DEFINE q == request[r]
           next == [q EXCEPT !.at = "target"]
<1>1. q.at = "project" /\ FindProject(r, next)
  BY DEF ReadProject
<1>2. q \in AtWork /\ RequestInv(r, q)
  BY <1>1, AtWorkFacts
<1>3. next \in AtWork
  BY <1>2 DEF AtWork
<1>4. ASSUME NEW p \in projects \union {r}
      PROVE  RequestInv(r, [next EXCEPT !.project = p, !.newProject = p \notin projects])
  BY <1>1, <1>2, <1>3 DEF RequestInv, HasProject, Before, AtWork
<1> QED  BY <1>1, <1>3, <1>4, FindProjectKeeps

LEMMA ReadTargetKeeps ==
  ASSUME AdmissionInv, NEW r \in Requests, ReadTarget(r)
  PROVE  AdmissionInv'
<1> DEFINE q == request[r]
           t == <<q.project, q.origin>>
<1>1. q.at = "target"
  BY DEF ReadTarget
<1>2. q \in AtWork /\ RequestInv(r, q)
  BY <1>1, AtWorkFacts
<1>3. CASE Reads(r, [q EXCEPT !.status = t \in verified,
                              !.at = CASE q.kind = "monitor" -> "account"
                                       [] q.kind = "target"  -> "commit"
                                       [] OTHER              -> "proof"])
  <2> DEFINE at == CASE q.kind = "monitor" -> "account"
                     [] q.kind = "target"  -> "commit"
                     [] OTHER              -> "proof"
             status == t \in verified
             next == [q EXCEPT !.status = status, !.at = at]
  <2>1. /\ status \in BOOLEAN
        /\ at \in {"account", "commit", "proof"}
        /\ at = "proof" => q.kind \in ScanKinds
    BY <1>2 DEF AtWork, Kinds
  <2> HIDE DEF at, status
  <2>2. next \in AtWork
    BY <1>2, <2>1 DEF AtWork
  <2>3. RequestInv(r, next)
    BY <1>1, <1>2, <2>1, <2>2 DEF RequestInv, HasProject, Before, AtWork
  <2>4. Reads(r, next)
    BY <1>3 DEF at, status
  <2> QED  BY <2>2, <2>3, <2>4, ReadsKeep
<1>4. CASE Reads(r, [q EXCEPT !.at = "targets"])
  <2>1. [q EXCEPT !.at = "targets"] \in AtWork
    BY <1>2 DEF AtWork
  <2>2. RequestInv(r, [q EXCEPT !.at = "targets"])
    BY <1>1, <1>2 DEF RequestInv, HasProject, Before, AtWork
  <2> QED  BY <1>4, <2>1, <2>2, ReadsKeep
<1> QED  BY <1>3, <1>4 DEF ReadTarget

\* Where the tier is granted: active only when it was earned, from what the
\* request has read and what RequestInv says those reads mean.
LEMMA GrantIsEarned ==
  ASSUME NEW r \in Requests, RequestInv(r, request[r]),
         request[r].at = "proof",
         ActivePermitted(request[r], <<request[r].project, request[r].origin>>)
  PROVE  request[r].owned /\ request[r].paid
<1> DEFINE t == <<request[r].project, request[r].origin>>
<1>1. t \in valid /\ t[2] = request[r].origin /\ request[r].plan = "paid"
  BY DEF ActivePermitted
<1>2. request[r].at \in Before /\ request[r].kind \in ScanKinds
  BY DEF RequestInv, Before
<1> QED  BY <1>1, <1>2 DEF RequestInv

LEMMA DecideKeeps ==
  ASSUME AdmissionInv, NEW r \in Requests, Decide(r)
  PROVE  AdmissionInv' \/ Refused(r)
<1> DEFINE q == request[r]
           t == <<q.project, q.origin>>
           asked == IF q.kind = "monitor" THEN {"active"} ELSE {"active", "passive"}
           after == IF q.kind = "monitor" THEN "commit" ELSE "scans"
           granted(tier) == IF ActivePermitted(q, t) THEN tier ELSE "passive"
           earned(tier) == q.owned /\ q.paid /\ granted(tier) = "active"
           next(tier) == [q EXCEPT !.tier = granted(tier), !.earned = earned(tier),
                                   !.status = FALSE, !.owned = FALSE, !.paid = FALSE,
                                   !.at = after]
<1>1. q.at = "proof"
  BY DEF Decide
<1>2. q \in AtWork /\ RequestInv(r, q)
  BY <1>1, AtWorkFacts
<1>3. ASSUME NEW tier \in asked, Reads(r, next(tier))
      PROVE  AdmissionInv'
  <2>1. /\ granted(tier) \in {"passive", "active"}
        /\ earned(tier) \in BOOLEAN
        /\ after \in {"commit", "scans"}
    OBVIOUS
  <2>2. granted(tier) = "active" => earned(tier)
    BY <1>1, <1>2, GrantIsEarned
  <2>3. Reads(r, next(tier))
    BY <1>3
  <2> HIDE DEF granted, earned, after
  <2>4. next(tier) \in AtWork
    BY <1>2, <2>1 DEF AtWork
  <2>5. RequestInv(r, next(tier))
    BY <1>1, <1>2, <2>1, <2>2, <2>4 DEF RequestInv, HasProject, Before, AtWork
  <2> QED  BY <2>3, <2>4, <2>5, ReadsKeep
<1> QED  BY <1>3 DEF Decide

\* Refused, for a request that has found its project.
LEMMA RefusedKeeps ==
  ASSUME AdmissionInv, NEW r \in Requests, Refused(r)
  PROVE  AdmissionInv'
<1>1. /\ projects \subseteq projects' /\ projects' \subseteq Requests
      /\ request' = [request EXCEPT ![r] = Idle]
      /\ UNCHANGED <<plan, targets, verified, valid, jobs, day>>
  BY DEF Refused, Goes, proofVars, AdmissionInv, TypeOK
<1>2. TypeOK'
  BY <1>1 DEF AdmissionInv, TypeOK
<1>3. ASSUME NEW s \in Requests, request'[s].at # "idle"
      PROVE  RequestInv(s, request[s])'
  <2>1. request'[s] = request[s]
    BY <1>1, <1>3 DEF AdmissionInv, TypeOK, Idle
  <2>2. RequestInv(s, request[s])
    BY <1>3, <2>1 DEF AdmissionInv
  <2> QED  BY <1>1, <2>1, <2>2 DEF RequestInv, HasProject
<1> QED  BY <1>2, <1>3 DEF AdmissionInv

LEMMA CountTargetsKeeps ==
  ASSUME AdmissionInv, NEW r \in Requests, CountTargets(r)
  PROVE  AdmissionInv'
<1> DEFINE q == request[r]
           at == IF q.kind = "target" THEN "rows" ELSE "scans"
           next == [q EXCEPT !.at = at]
<1>1. q.at = "targets"
  BY DEF CountTargets
<1>2. q \in AtWork /\ RequestInv(r, q)
  BY <1>1, AtWorkFacts
<1>3. CASE Reads(r, next)
  <2>1. next \in AtWork
    BY <1>2 DEF AtWork
  <2>2. RequestInv(r, next)
    BY <1>1, <1>2, <2>1 DEF RequestInv, HasProject, Before, AtWork
  <2> QED  BY <1>3, <2>1, <2>2, ReadsKeep
<1> QED  BY <1>3, RefusedKeeps DEF CountTargets

LEMMA CountScansKeeps ==
  ASSUME AdmissionInv, NEW r \in Requests, CountScans(r)
  PROVE  AdmissionInv'
<1> DEFINE q == request[r]
           next == [q EXCEPT !.plan = "free", !.at = "rows"]
<1>1. q.at = "scans"
  BY DEF CountScans
<1>2. q \in AtWork /\ RequestInv(r, q)
  BY <1>1, AtWorkFacts
<1>3. CASE Reads(r, next)
  <2>1. next \in AtWork
    BY <1>2 DEF AtWork, Plans
  <2>2. RequestInv(r, next)
    BY <1>1, <1>2, <2>1 DEF RequestInv, HasProject, Before, AtWork
  <2> QED  BY <1>3, <2>1, <2>2, ReadsKeep
<1> QED  BY <1>3, RefusedKeeps DEF CountScans

LEMMA SelectRowsKeeps ==
  ASSUME AdmissionInv, NEW r \in Requests, SelectRows(r)
  PROVE  AdmissionInv'
<1> DEFINE q == request[r]
<1>1. q.at = "rows"
  BY DEF SelectRows
<1>2. q \in AtWork /\ RequestInv(r, q)
  BY <1>1, AtWorkFacts
<1>3. CASE FindProject(r, [q EXCEPT !.newAccount = plan = "none", !.at = "insert"])
  <2> DEFINE new == plan = "none"
             next == [q EXCEPT !.newAccount = new, !.at = "insert"]
  <2>1. new \in BOOLEAN /\ FindProject(r, next)
    BY <1>3
  <2> HIDE DEF new
  <2>2. next \in AtWork
    BY <1>2, <2>1 DEF AtWork
  <2>3. ASSUME NEW p \in projects \union {r}
        PROVE  RequestInv(r, [next EXCEPT !.project = p, !.newProject = p \notin projects])
    BY <1>1, <1>2, <2>2 DEF RequestInv, HasProject, Before, AtWork
  <2> QED  BY <2>1, <2>2, <2>3, FindProjectKeeps
<1>4. CASE /\ q.kind # "scan"
           /\ Reads(r, [q EXCEPT !.newTarget = <<q.project, q.origin>> \notin targets,
                                 !.at = "commit"])
  <2> DEFINE new == <<q.project, q.origin>> \notin targets
             next == [q EXCEPT !.newTarget = new, !.at = "commit"]
  <2>1. new \in BOOLEAN /\ Reads(r, next)
    BY <1>4
  <2> HIDE DEF new
  <2>2. next \in AtWork
    BY <1>2, <2>1 DEF AtWork
  <2>3. RequestInv(r, next)
    BY <1>1, <1>2, <1>4, <2>2 DEF RequestInv, HasProject, Before, AtWork
  <2> QED  BY <2>1, <2>2, <2>3, ReadsKeep
<1> QED  BY <1>3, <1>4 DEF SelectRows

LEMMA SelectTargetKeeps ==
  ASSUME AdmissionInv, NEW r \in Requests, SelectTarget(r)
  PROVE  AdmissionInv'
<1> DEFINE q == request[r]
           new == <<q.project, q.origin>> \notin targets
           next == [q EXCEPT !.newTarget = new, !.at = "commit"]
<1>1. q.at = "insert" /\ new \in BOOLEAN /\ Reads(r, next)
  BY DEF SelectTarget
<1>2. q \in AtWork /\ RequestInv(r, q)
  BY <1>1, AtWorkFacts
<1> HIDE DEF new
<1>3. next \in AtWork
  BY <1>1, <1>2 DEF AtWork
<1>4. RequestInv(r, next)
  BY <1>1, <1>2, <1>3 DEF RequestInv, HasProject, Before, AtWork
<1> QED  BY <1>1, <1>3, <1>4, ReadsKeep

\* What is committed only adds rows, so what the others know stays true,
\* except that there may be an account now: a free one.
LEMMA CommitKeeps ==
  ASSUME AdmissionInv, NEW r \in Requests, Commit(r)
  PROVE  AdmissionInv'
<1> DEFINE q == request[r]
<1>1. q.at = "commit"
  BY DEF Commit
<1>2. q \in AtWork /\ RequestInv(r, q)
  BY <1>1, AtWorkFacts
<1>3. /\ q.project \in projects' /\ q.project \in Requests /\ q.origin \in Origins
      /\ projects \subseteq projects' /\ projects' \subseteq Requests
  BY <1>1, <1>2 DEF Commit, RequestInv, HasProject, AdmissionInv, TypeOK, AtWork
<1>4. /\ plan' \in Plans \union {"none"}
      /\ plan' = "paid" => plan = "paid"
  BY DEF Commit, AdmissionInv, TypeOK, Plans
<1>5. targets \subseteq targets' /\ targets' \subseteq projects' \X Origins
  BY <1>3 DEF Commit, AdmissionInv, TypeOK
<1>6. /\ request' = [request EXCEPT ![r] = Idle]
      /\ UNCHANGED <<verified, valid, day>>
  BY DEF Commit, Goes, proofVars
<1>7. jobs' \in Seq(Jobs) /\ Len(jobs') \in {Len(jobs), Len(jobs) + 1}
  <2>1. JobOf(q) \in Jobs
    <3> DEFINE monitored == q.kind = "monitor"
    <3>1. monitored \in BOOLEAN
      OBVIOUS
    <3>2. JobOf(q) = [project |-> q.project, origin |-> q.origin, monitored |-> monitored]
      BY DEF JobOf
    <3> HIDE DEF monitored
    <3> QED  BY <1>3, <3>1, <3>2 DEF Jobs
  <2>2. jobs' = jobs \/ jobs' = Append(jobs, JobOf(q))
    BY DEF Commit
  <2>3. jobs \in Seq(Jobs)
    BY DEF AdmissionInv, TypeOK
  <2> QED  BY <2>1, <2>2, <2>3
<1>8. TypeOK'
  <2>1. day' \in 1 .. Len(jobs') + 1
    BY <1>6, <1>7 DEF AdmissionInv, TypeOK
  <2>2. verified' \subseteq targets' /\ valid' \subseteq verified'
    BY <1>5, <1>6 DEF AdmissionInv, TypeOK
  <2>3. request' \in [Requests -> {Idle} \union AtWork]
    BY <1>6 DEF AdmissionInv, TypeOK
  <2> QED  BY <1>3, <1>4, <1>5, <1>7, <2>1, <2>2, <2>3 DEF TypeOK
<1>9. ASSUME NEW s \in Requests, request'[s].at # "idle"
      PROVE  RequestInv(s, request[s])'
  <2>1. request'[s] = request[s]
    BY <1>6, <1>9 DEF AdmissionInv, TypeOK, Idle
  <2>2. RequestInv(s, request[s])
    BY <1>9, <2>1 DEF AdmissionInv
  <2> QED  BY <1>3, <1>4, <1>6, <2>1, <2>2 DEF RequestInv, HasProject
<1> QED  BY <1>8, <1>9 DEF AdmissionInv

LEMMA StepKeeps ==
  ASSUME AdmissionInv, NEW r \in Requests, Step(r)
  PROVE  AdmissionInv'
<1>1. CASE RollBack(r)
  BY <1>1, ReadsKeep DEF RollBack
<1>2. CASE Decide(r)
  BY <1>2, DecideKeeps, RefusedKeeps
<1> QED
  BY <1>1, <1>2, ReadAccountKeeps, ReadProjectKeeps, ReadTargetKeeps, CountTargetsKeeps,
     CountScansKeeps, SelectRowsKeeps, SelectTargetKeeps, CommitKeeps DEF Step

-----------------------------------------------------------------------------
(* The steps of the environment.                                           *)

LEMMA SignInKeeps ==
  ASSUME AdmissionInv, SignIn
  PROVE  AdmissionInv'
<1>1. TypeOK'
  BY DEF AdmissionInv, TypeOK, SignIn, proofVars, Plans
<1> QED
  BY <1>1 DEF AdmissionInv, SignIn, proofVars, RequestInv, HasProject

\* The history of a request is told of the verification.
LEMMA VerifyOwnershipKeeps ==
  ASSUME AdmissionInv, NEW t \in targets, VerifyOwnership(t)
  PROVE  AdmissionInv'
<1> DEFINE told(r) == [request[r] EXCEPT !.owned = TRUE]
<1>1. /\ UNCHANGED <<plan, projects, targets, jobs, day>>
      /\ valid' = valid \union {t} /\ verified' = verified \union {t}
      /\ \A r \in Requests :
           request'[r] = IF Undecided(r) /\ request[r].origin = t[2] THEN told(r)
                         ELSE request[r]
  BY DEF VerifyOwnership, rowVars
<1>2. ASSUME NEW r \in Requests, Undecided(r)
      PROVE  request[r] \in AtWork /\ told(r) \in AtWork /\ RequestInv(r, request[r])
  <2>1. request[r].at # "idle"
    BY <1>2 DEF Undecided
  <2>2. request[r] \in AtWork /\ RequestInv(r, request[r])
    BY <2>1, AtWorkFacts
  <2> QED  BY <2>2 DEF AtWork
<1>3. TypeOK'
  <2>1. request' \in [Requests -> {Idle} \union AtWork]
    <3>1. \A r \in Requests : request'[r] \in {Idle} \union AtWork
      BY <1>1, <1>2 DEF AdmissionInv, TypeOK
    <3>2. request' = [r \in Requests |-> request'[r]]
      BY DEF VerifyOwnership
    <3> QED  BY <3>1, <3>2
  <2> QED  BY <1>1, <2>1 DEF AdmissionInv, TypeOK
<1>4. ASSUME NEW r \in Requests, request'[r].at # "idle"
      PROVE  RequestInv(r, request[r])'
  <2>1. CASE Undecided(r) /\ request[r].origin = t[2]
    <3>1. request'[r] = told(r)
      BY <1>1, <2>1
    <3>2. request[r] \in AtWork /\ RequestInv(r, request[r])
      BY <1>2, <2>1
    <3>3. /\ told(r).owned
          /\ told(r).at = request[r].at /\ told(r).kind = request[r].kind
          /\ told(r).project = request[r].project
          /\ told(r).newProject = request[r].newProject
          /\ told(r).plan = request[r].plan /\ told(r).paid = request[r].paid
          /\ told(r).tier = request[r].tier /\ told(r).earned = request[r].earned
      BY <3>2 DEF AtWork
    <3> QED  BY <1>1, <3>1, <3>2, <3>3 DEF RequestInv, HasProject
  <2>2. CASE ~(Undecided(r) /\ request[r].origin = t[2])
    <3>1. request'[r] = request[r]
      BY <1>1, <2>2
    <3>2. RequestInv(r, request[r])
      BY <1>4, <3>1 DEF AdmissionInv
    <3>3. request[r].at \in Before /\ request[r].kind \in ScanKinds =>
            request[r].origin # t[2]
      BY <2>2 DEF Undecided, Before
    <3> QED  BY <1>1, <3>1, <3>2, <3>3 DEF RequestInv, HasProject
  <2> QED  BY <2>1, <2>2
<1> QED  BY <1>3, <1>4 DEF AdmissionInv

LEMMA ProofLapsesKeeps ==
  ASSUME AdmissionInv, NEW t \in targets, ProofLapses(t)
  PROVE  AdmissionInv'
<1>1. /\ UNCHANGED <<plan, projects, targets, verified, jobs, day, request>>
      /\ valid' = valid \ {t}
  BY DEF ProofLapses, rowVars
<1>2. TypeOK'
  BY <1>1 DEF AdmissionInv, TypeOK
<1> QED  BY <1>1, <1>2 DEF AdmissionInv, RequestInv, HasProject

\* The history of a request is told of the purchase.
LEMMA SubscriptionEventKeeps ==
  ASSUME AdmissionInv, NEW p \in Plans, SubscriptionEvent(p)
  PROVE  AdmissionInv'
<1> DEFINE told(r) == [request[r] EXCEPT !.paid = TRUE]
<1>1. /\ UNCHANGED <<projects, targets, verified, valid, jobs, day>>
      /\ plan' = p
      /\ \A r \in Requests :
           request'[r] = IF Undecided(r) /\ p = "paid" THEN told(r) ELSE request[r]
  BY DEF SubscriptionEvent, proofVars
<1>2. ASSUME NEW r \in Requests, Undecided(r)
      PROVE  request[r] \in AtWork /\ told(r) \in AtWork /\ RequestInv(r, request[r])
  <2>1. request[r].at # "idle"
    BY <1>2 DEF Undecided
  <2>2. request[r] \in AtWork /\ RequestInv(r, request[r])
    BY <2>1, AtWorkFacts
  <2> QED  BY <2>2 DEF AtWork
<1>3. TypeOK'
  <2>1. request' \in [Requests -> {Idle} \union AtWork]
    <3>1. \A r \in Requests : request'[r] \in {Idle} \union AtWork
      BY <1>1, <1>2 DEF AdmissionInv, TypeOK
    <3>2. request' = [r \in Requests |-> request'[r]]
      BY DEF SubscriptionEvent
    <3> QED  BY <3>1, <3>2
  <2> QED  BY <1>1, <2>1 DEF AdmissionInv, TypeOK
<1>4. ASSUME NEW r \in Requests, request'[r].at # "idle"
      PROVE  RequestInv(r, request[r])'
  <2>1. CASE Undecided(r) /\ p = "paid"
    <3>1. request'[r] = told(r)
      BY <1>1, <2>1
    <3>2. request[r] \in AtWork /\ RequestInv(r, request[r])
      BY <1>2, <2>1
    <3>3. /\ told(r).paid
          /\ told(r).at = request[r].at /\ told(r).kind = request[r].kind
          /\ told(r).project = request[r].project /\ told(r).origin = request[r].origin
          /\ told(r).newProject = request[r].newProject
          /\ told(r).owned = request[r].owned
          /\ told(r).tier = request[r].tier /\ told(r).earned = request[r].earned
      BY <3>2 DEF AtWork
    <3> QED  BY <1>1, <3>1, <3>2, <3>3 DEF RequestInv, HasProject
  <2>2. CASE ~(Undecided(r) /\ p = "paid")
    <3>1. request'[r] = request[r]
      BY <1>1, <2>2
    <3>2. RequestInv(r, request[r])
      BY <1>4, <3>1 DEF AdmissionInv
    <3>3. request[r].at \in Before /\ request[r].kind \in ScanKinds => p # "paid"
      BY <2>2 DEF Undecided, Before
    <3> QED  BY <1>1, <3>1, <3>2, <3>3 DEF RequestInv, HasProject
  <2> QED  BY <2>1, <2>2
<1> QED  BY <1>3, <1>4 DEF AdmissionInv

LEMMA TimePassesKeeps ==
  ASSUME AdmissionInv, TimePasses
  PROVE  AdmissionInv'
<1>1. UNCHANGED <<plan, projects, targets, verified, valid, request>>
  BY DEF TimePasses, rowVars, proofVars
<1>2. jobs \in Seq(Jobs) /\ day \in 1 .. Len(jobs) + 1
  BY DEF AdmissionInv, TypeOK
<1>3. jobs' \in Seq(Jobs) /\ day' \in 1 .. Len(jobs') + 1
  <2>1. CASE day <= Len(jobs) /\ day' = day + 1 /\ UNCHANGED jobs
    BY <1>2, <2>1
  <2>2. CASE day > 1 /\ day' = day - 1 /\ jobs' = Tail(jobs)
    <3>1. jobs # << >>
      BY <1>2, <2>2
    <3>2. Tail(jobs) \in Seq(Jobs) /\ Len(Tail(jobs)) = Len(jobs) - 1
      BY <1>2, <3>1
    <3> QED  BY <1>2, <2>2, <3>2
  <2> QED  BY <2>1, <2>2 DEF TimePasses
<1>4. TypeOK'
  BY <1>1, <1>3 DEF AdmissionInv, TypeOK
<1> QED  BY <1>1, <1>4 DEF AdmissionInv, RequestInv, HasProject

-----------------------------------------------------------------------------
LEMMA InitAdmission == Init => AdmissionInv
<1> SUFFICES ASSUME Init PROVE AdmissionInv
  OBVIOUS
<1>1. TypeOK
  BY DEF Init, TypeOK, Plans
<1> QED  BY <1>1 DEF Init, AdmissionInv, Idle

LEMMA NextAdmission == AdmissionInv /\ [Next]_vars => AdmissionInv'
<1> SUFFICES ASSUME AdmissionInv, [Next]_vars PROVE AdmissionInv'
  OBVIOUS
<1>1. CASE UNCHANGED vars
  BY <1>1 DEF vars, rowVars, proofVars, AdmissionInv, TypeOK, RequestInv, HasProject
<1>2. CASE Next
  BY <1>2, SubmitKeeps, MonitorDueKeeps, StepKeeps, SignInKeeps, VerifyOwnershipKeeps,
     ProofLapsesKeeps, SubscriptionEventKeeps, TimePassesKeeps DEF Next
<1> QED  BY <1>1, <1>2

\* The inductive invariant: a request has found the project it will use, and
\* what it has read or will read before the decision is in its history.
THEOREM AdmissionInvariant == Spec => []AdmissionInv
BY InitAdmission, NextAdmission, PTL DEF Spec

\* The types of the account's rows and of the requests, for any number of
\* concurrent requests.
THEOREM AdmissionTypes == Spec => []TypeOK
<1>1. AdmissionInv => TypeOK
  BY DEF AdmissionInv
<1> QED  BY <1>1, AdmissionInvariant, PTL

\* submit_scan, public_submit_scan and the scheduler grant the active tier
\* only to a request during which the origin had a valid proof and the
\* account a paid plan, however stale what they have read is when they commit.
THEOREM ActiveIsEarnedAlways == Spec => []ActiveIsEarned
<1>1. AdmissionInv => ActiveIsEarned
  BY DEF AdmissionInv, ActiveIsEarned, RequestInv
<1> QED  BY <1>1, AdmissionInvariant, PTL

-----------------------------------------------------------------------------
(***************************************************************************)
(* The quota of scans and the 24-hour ceiling are exceeded at most by what *)
(* is handled at the same time.                                            *)
(*                                                                         *)
(* The argument.  A request that has passed a check and has not committed  *)
(* yet is charged.  When it passes, the count is below the limit; while it *)
(* is charged, each other request can commit one job past the limit, once: *)
(* the count stays below the limit plus the requests that are not charged. *)
(***************************************************************************)

(* Counting jobs.                                                          *)

Counted(js, from, kinds) == {i \in from .. Len(js) : js[i] \in kinds}

Count(js, from, kinds) == Cardinality(Counted(js, from, kinds))

LEMMA CountedIsFinite ==
  ASSUME NEW js \in Seq(Jobs), NEW from \in Nat \ {0}, NEW kinds
  PROVE  /\ IsFiniteSet(Counted(js, from, kinds))
         /\ Count(js, from, kinds) \in Nat
<1>1. Len(js) \in Nat
  OBVIOUS
<1>2. IsFiniteSet(from .. Len(js))
  BY <1>1, FS_Interval
<1>3. Counted(js, from, kinds) \subseteq from .. Len(js)
  BY DEF Counted
<1>4. IsFiniteSet(Counted(js, from, kinds))
  BY <1>2, <1>3, FS_Subset
<1> QED  BY <1>4, FS_CardinalityType DEF Count

\* Fewer are counted when it is counted from later, or fewer kinds are.
LEMMA CountsLess ==
  ASSUME NEW js \in Seq(Jobs), NEW from \in Nat \ {0}, NEW later \in Nat \ {0},
         from <= later, NEW kinds, NEW fewer, fewer \subseteq kinds
  PROVE  Count(js, later, fewer) <= Count(js, from, kinds)
<1>1. Counted(js, later, fewer) \subseteq Counted(js, from, kinds)
  BY DEF Counted
<1> QED  BY <1>1, CountedIsFinite, FS_Subset DEF Count

\* A new job counts for one at most, and for none if it is of another kind.
LEMMA CountAppended ==
  ASSUME NEW js \in Seq(Jobs), NEW from \in Nat \ {0}, NEW kinds, NEW job \in Jobs
  PROVE  /\ Count(Append(js, job), from, kinds) <= Count(js, from, kinds) + 1
         /\ job \notin kinds => Count(Append(js, job), from, kinds) <= Count(js, from, kinds)
<1> DEFINE longer == Append(js, job)
           new == Len(js) + 1
           old == Counted(js, from, kinds)
<1>1. /\ longer \in Seq(Jobs) /\ Len(longer) = new /\ new \in Nat
      /\ \A i \in 1 .. Len(js) : longer[i] = js[i]
      /\ longer[new] = job
  OBVIOUS
<1> HIDE DEF longer, new
<1>2. \A i \in Counted(longer, from, kinds) :
        i \in old \/ (i = new /\ job \in kinds)
  BY <1>1 DEF Counted, new
<1>3. IsFiniteSet(old) /\ Cardinality(old) \in Nat
  BY CountedIsFinite DEF Count
<1>4. /\ IsFiniteSet(old \union {new})
      /\ Cardinality(old \union {new}) \in Nat
      /\ Cardinality(old \union {new}) <= Cardinality(old) + 1
  <2> HIDE DEF old
  <2>1. /\ IsFiniteSet(old \union {new})
        /\ Cardinality(old \union {new}) =
             IF new \in old THEN Cardinality(old) ELSE Cardinality(old) + 1
    BY <1>3, FS_AddElement
  <2> QED  BY <1>3, <2>1
<1>5. Count(longer, from, kinds) \in Nat
  BY <1>1, CountedIsFinite
<1>6. Count(longer, from, kinds) <= Cardinality(old \union {new})
  BY <1>2, <1>4, FS_Subset DEF Count
<1>7. job \notin kinds => Count(longer, from, kinds) <= Cardinality(old)
  BY <1>2, <1>3, FS_Subset DEF Count
<1> QED  BY <1>3, <1>4, <1>5, <1>6, <1>7 DEF Count, longer

\* Dropping the oldest job adds nothing to what is counted.
LEMMA CountTail ==
  ASSUME NEW js \in Seq(Jobs), js # << >>, NEW from \in Nat \ {0}, NEW later \in Nat \ {0},
         from <= later + 1, NEW kinds
  PROVE  Count(Tail(js), later, kinds) <= Count(js, from, kinds)
<1> DEFINE rest == Tail(js)
           f == [i \in Counted(rest, later, kinds) |-> i + 1]
<1>1. /\ rest \in Seq(Jobs) /\ Len(rest) = Len(js) - 1
      /\ \A i \in 1 .. Len(rest) : rest[i] = js[i + 1]
  OBVIOUS
<1> HIDE DEF rest
<1>2. ASSUME NEW i \in Counted(rest, later, kinds)
      PROVE  i \in Nat /\ i + 1 \in Counted(js, from, kinds)
  BY <1>1 DEF Counted
<1>3. f \in Injection(Counted(rest, later, kinds), Counted(js, from, kinds))
  BY <1>2 DEF Injection, IsInjective
<1>4. IsFiniteSet(Counted(js, from, kinds))
  BY CountedIsFinite
<1> QED  BY <1>3, <1>4, FS_Injection DEF Count, rest

-----------------------------------------------------------------------------
(* Counting requests.                                                      *)

LEMMA SlackIsNat ==
  ASSUME NEW charged
  PROVE  IsFiniteSet(Requests \ charged) /\ Cardinality(Requests \ charged) \in Nat
BY AdmissionAssumption, FS_Difference, FS_CardinalityType

\* The fewer requests are charged, the more others are there.
LEMMA SlackGrows ==
  ASSUME NEW charged, NEW fewer, fewer \subseteq charged
  PROVE  Cardinality(Requests \ charged) <= Cardinality(Requests \ fewer)
<1>1. Requests \ charged \subseteq Requests \ fewer
  OBVIOUS
<1> QED  BY <1>1, SlackIsNat, FS_Subset

\* When a charged request has committed, there is one more.
LEMMA SlackAdds ==
  ASSUME NEW r \in Requests, NEW charged, r \in charged,
         NEW fewer, fewer \subseteq charged \ {r}
  PROVE  Cardinality(Requests \ charged) + 1 <= Cardinality(Requests \ fewer)
<1> DEFINE others == Requests \ charged
<1>1. IsFiniteSet(others \union {r}) /\ Cardinality(others \union {r}) = Cardinality(others) + 1
  BY SlackIsNat, FS_AddElement
<1>2. others \union {r} \subseteq Requests \ fewer
  OBVIOUS
<1>3. Cardinality(others \union {r}) <= Cardinality(Requests \ fewer)
  BY <1>2, SlackIsNat, FS_Subset
<1> QED  BY <1>1, <1>3

-----------------------------------------------------------------------------
(* The invariant.                                                          *)

\* What is known of request r at work, beyond RequestInv.
FlowOf(r, q) ==
  /\ q.project = NoProject =>
       q.at \in {"account", "project"} \/ (q.at = "rows" /\ q.kind = "scan")
  /\ q.at \in {"account", "rows"} /\ q.project # NoProject =>
       q.project \in projects \union (IF q.newProject THEN {r} ELSE {})
  /\ (q.at = "commit" /\ ~q.newTarget) \/ q.kind = "monitor" =>
       <<q.project, q.origin>> \in targets
  /\ plan = "none" =>
       /\ q.kind \in {"scan", "target"}
       /\ q.newAccount \/ q.at = "account" \/ (q.kind = "scan" /\ q.at = "rows")

FlowInv ==
  /\ AdmissionInv
  /\ plan = "none" => jobs = << >> /\ targets = {}
  /\ \A i \in 1 .. Len(jobs) : <<jobs[i].project, jobs[i].origin>> \in targets
  /\ \A r \in Requests : request[r].at # "idle" => FlowOf(r, request[r])

\* A request that has passed the quota of scans of project p, and one that
\* has passed the ceiling of a target; one without an account yet has passed
\* them all.
ChargedAs(q, p) ==
  /\ q.at \in {"rows", "insert", "commit"}
  /\ q.kind \in {"scan", "api"}
  /\ q.project \in {p, NoProject}

AdmittedAs(q, p, o) ==
  /\ q.at \in {"targets", "scans", "rows", "insert", "commit"}
  /\ q.kind \in ScanKinds
  /\ q.project \in {p, NoProject}
  /\ q.origin = o

Charged(p) == {r \in Requests : ChargedAs(request[r], p)}

Admitted(p, o) == {r \in Requests : AdmittedAs(request[r], p, o)}

QuotaJobs(p) == {job \in Jobs : job.project = p /\ ~job.monitored}

RecentJobs(p, o) == {job \in Jobs : job.project = p /\ job.origin = o}

QuotaScans(p) == Count(jobs, 1, QuotaJobs(p))

QuotaBound ==
  \A p \in Requests :
    QuotaScans(p) <= HigherScanLimit - 1 + Cardinality(Requests \ Charged(p))

CeilingBound ==
  \A p \in Requests, o \in Origins :
    RecentScans(p, o) <= RecentCeiling + Cardinality(Requests \ Admitted(p, o))

\* The inductive invariant.
BoundInv == FlowInv /\ QuotaBound /\ CeilingBound

-----------------------------------------------------------------------------
(* What is counted.                                                        *)

LEMMA Typed ==
  ASSUME AdmissionInv
  PROVE  jobs \in Seq(Jobs) /\ day \in Nat \ {0} /\ day \in 1 .. Len(jobs) + 1
BY DEF AdmissionInv, TypeOK

LEMMA JobAt ==
  ASSUME AdmissionInv, NEW i \in 1 .. Len(jobs)
  PROVE  jobs[i] \in Jobs
BY Typed

LEMMA RecentIsCount ==
  ASSUME AdmissionInv, NEW p, NEW o
  PROVE  RecentScans(p, o) = Count(jobs, day, RecentJobs(p, o))
<1>1. {i \in day .. Len(jobs) : jobs[i].project = p /\ jobs[i].origin = o}
        = Counted(jobs, day, RecentJobs(p, o))
  BY Typed, JobAt DEF Counted, RecentJobs
<1> QED  BY <1>1 DEF RecentScans, Count

LEMMA MonthlyIsMore ==
  ASSUME AdmissionInv, NEW p
  PROVE  QuotaScans(p) <= MonthlyScans(p)
<1> DEFINE all == {job \in Jobs : job.project = p}
<1>1. {i \in 1 .. Len(jobs) : jobs[i].project = p} = Counted(jobs, 1, all)
  BY JobAt DEF Counted
<1>2. Count(jobs, 1, QuotaJobs(p)) <= Count(jobs, 1, all)
  BY Typed, CountsLess DEF QuotaJobs
<1> QED  BY <1>1, <1>2 DEF QuotaScans, MonthlyScans, Count

LEMMA ScansIsCount ==
  ASSUME AdmissionInv, NEW p
  PROVE  QuotaScans(p) =
           Cardinality({i \in 1 .. Len(jobs) : jobs[i].project = p /\ ~jobs[i].monitored})
<1>1. {i \in 1 .. Len(jobs) : jobs[i].project = p /\ ~jobs[i].monitored}
        = Counted(jobs, 1, QuotaJobs(p))
  BY JobAt DEF Counted, QuotaJobs
<1> QED  BY <1>1 DEF QuotaScans, Count

LEMMA CountsAreNat ==
  ASSUME AdmissionInv, NEW p, NEW o
  PROVE  QuotaScans(p) \in Nat /\ RecentScans(p, o) \in Nat
BY Typed, RecentIsCount, CountedIsFinite DEF QuotaScans

\* Nothing is counted of what is not there.
LEMMA NothingCounted ==
  ASSUME FlowInv, NEW p, NEW o
  PROVE  /\ jobs = << >> => QuotaScans(p) = 0
         /\ <<p, o>> \notin targets => RecentScans(p, o) = 0
<1>1. ASSUME jobs = << >> PROVE QuotaScans(p) = 0
  <2>1. Counted(jobs, 1, QuotaJobs(p)) = {}
    BY <1>1 DEF Counted
  <2> QED  BY <2>1, FS_EmptySet DEF QuotaScans, Count
<1>2. ASSUME <<p, o>> \notin targets PROVE RecentScans(p, o) = 0
  <2>1. {i \in day .. Len(jobs) : jobs[i].project = p /\ jobs[i].origin = o} = {}
    BY <1>2, Typed DEF FlowInv
  <2> QED  BY <2>1, FS_EmptySet DEF RecentScans
<1> QED  BY <1>1, <1>2

LEMMA LimitIsNat ==
  /\ HigherScanLimit \in Nat \ {0}
  /\ \A p \in Plans : ScanLimit[p] \in Nat /\ ScanLimit[p] <= HigherScanLimit
BY AdmissionAssumption DEF HigherScanLimit, Plans

-----------------------------------------------------------------------------
(* The steps of a request.                                                 *)

\* A request goes on, and no job is committed: the bounds are kept if it was
\* charged already, or the count is below the limit.
LEMMA GoesKeeps ==
  ASSUME BoundInv, AdmissionInv', NEW r \in Requests, NEW next,
         request' = [request EXCEPT ![r] = next],
         projects \subseteq projects',
         UNCHANGED <<plan, targets, jobs, day>>,
         next = Idle \/ FlowOf(r, next),
         \A p \in Requests : ChargedAs(next, p) =>
           ChargedAs(request[r], p) \/ QuotaScans(p) <= HigherScanLimit - 1,
         \A p \in Requests, o \in Origins : AdmittedAs(next, p, o) =>
           AdmittedAs(request[r], p, o) \/ RecentScans(p, o) <= RecentCeiling
  PROVE  BoundInv'
<1>1. request'[r] = next /\ \A s \in Requests \ {r} : request'[s] = request[s]
  BY DEF BoundInv, FlowInv, AdmissionInv, TypeOK
<1>2. FlowInv'
  <2>1. ASSUME NEW s \in Requests, request'[s].at # "idle"
        PROVE  FlowOf(s, request[s])'
    <3>1. CASE s = r
      <4>1. FlowOf(r, next)
        BY <1>1, <2>1, <3>1 DEF Idle
      <4> QED  BY <1>1, <3>1, <4>1 DEF FlowOf
    <3>2. CASE s # r
      <4>1. FlowOf(s, request[s]) /\ request'[s] = request[s]
        BY <1>1, <2>1, <3>2 DEF BoundInv, FlowInv
      <4> QED  BY <4>1 DEF FlowOf
    <3> QED  BY <3>1, <3>2
  <2> QED  BY <2>1 DEF BoundInv, FlowInv
<1>3. QuotaBound'
  <2>1. ASSUME NEW p \in Requests
        PROVE  QuotaScans(p) <= HigherScanLimit - 1 + Cardinality(Requests \ Charged(p)')
    <3>1. QuotaScans(p) \in Nat /\ HigherScanLimit \in Nat
          /\ Cardinality(Requests \ Charged(p)) \in Nat
          /\ Cardinality(Requests \ Charged(p)') \in Nat
      BY CountsAreNat, LimitIsNat, SlackIsNat DEF BoundInv, FlowInv
    <3>2. CASE QuotaScans(p) <= HigherScanLimit - 1
      BY <3>1, <3>2
    <3>3. CASE ~ (QuotaScans(p) <= HigherScanLimit - 1)
      <4>1. Charged(p)' \subseteq Charged(p)
        BY <1>1, <3>3 DEF Charged, ChargedAs
      <4>2. Cardinality(Requests \ Charged(p)) <= Cardinality(Requests \ Charged(p)')
        BY <4>1, SlackGrows
      <4>3. QuotaScans(p) <= HigherScanLimit - 1 + Cardinality(Requests \ Charged(p))
        BY DEF BoundInv, QuotaBound
      <4> QED  BY <3>1, <4>2, <4>3
    <3> QED  BY <3>2, <3>3
  <2>2. \A p \in Requests : QuotaScans(p)' = QuotaScans(p)
    BY DEF QuotaScans
  <2> QED  BY <2>1, <2>2 DEF QuotaBound
<1>4. CeilingBound'
  <2>1. ASSUME NEW p \in Requests, NEW o \in Origins
        PROVE  RecentScans(p, o) <= RecentCeiling + Cardinality(Requests \ Admitted(p, o)')
    <3>1. RecentScans(p, o) \in Nat /\ RecentCeiling \in Nat
          /\ Cardinality(Requests \ Admitted(p, o)) \in Nat
          /\ Cardinality(Requests \ Admitted(p, o)') \in Nat
      BY CountsAreNat, AdmissionAssumption, SlackIsNat DEF BoundInv, FlowInv
    <3>2. CASE RecentScans(p, o) <= RecentCeiling
      BY <3>1, <3>2
    <3>3. CASE ~ (RecentScans(p, o) <= RecentCeiling)
      <4>1. Admitted(p, o)' \subseteq Admitted(p, o)
        BY <1>1, <3>3 DEF Admitted, AdmittedAs
      <4>2. Cardinality(Requests \ Admitted(p, o)) <= Cardinality(Requests \ Admitted(p, o)')
        BY <4>1, SlackGrows
      <4>3. RecentScans(p, o) <= RecentCeiling + Cardinality(Requests \ Admitted(p, o))
        BY DEF BoundInv, CeilingBound
      <4> QED  BY <3>1, <4>2, <4>3
    <3> QED  BY <3>2, <3>3
  <2>2. \A p \in Requests, o \in Origins : RecentScans(p, o)' = RecentScans(p, o)
    BY DEF RecentScans
  <2> QED  BY <2>1, <2>2 DEF CeilingBound
<1> QED  BY <1>2, <1>3, <1>4 DEF BoundInv

LEMMA ReadsBounds ==
  ASSUME BoundInv, AdmissionInv', NEW r \in Requests, NEW next,
         Reads(r, next),
         next = Idle \/ FlowOf(r, next),
         \A p \in Requests : ChargedAs(next, p) =>
           ChargedAs(request[r], p) \/ QuotaScans(p) <= HigherScanLimit - 1,
         \A p \in Requests, o \in Origins : AdmittedAs(next, p, o) =>
           AdmittedAs(request[r], p, o) \/ RecentScans(p, o) <= RecentCeiling
  PROVE  BoundInv'
<1>1. /\ request' = [request EXCEPT ![r] = next]
      /\ projects \subseteq projects'
      /\ UNCHANGED <<plan, targets, jobs, day>>
  BY DEF Reads, Goes, rowVars, proofVars
<1> QED  BY <1>1, GoesKeeps

LEMMA IdleBounds ==
  ASSUME NEW p, NEW o
  PROVE  ~ChargedAs(Idle, p) /\ ~AdmittedAs(Idle, p, o)
BY DEF ChargedAs, AdmittedAs, Idle

LEMMA RefusedBounds ==
  ASSUME BoundInv, NEW r \in Requests, Refused(r)
  PROVE  BoundInv'
<1>1. AdmissionInv'
  BY RefusedKeeps DEF BoundInv, FlowInv
<1>2. /\ request' = [request EXCEPT ![r] = Idle]
      /\ projects \subseteq projects'
      /\ UNCHANGED <<plan, targets, jobs, day>>
  BY DEF Refused, Goes
<1> QED  BY <1>1, <1>2, IdleBounds, GoesKeeps

LEMMA RollBackBounds ==
  ASSUME BoundInv, NEW r \in Requests, Reads(r, Idle)
  PROVE  BoundInv'
<1>1. AdmissionInv'
  BY ReadsKeep DEF BoundInv, FlowInv
<1> QED  BY <1>1, IdleBounds, ReadsBounds

\* A request that is not idle, and all that is known of it.
LEMMA RequestFacts ==
  ASSUME BoundInv, NEW r \in Requests, request[r].at # "idle"
  PROVE  /\ request[r] \in AtWork /\ RequestInv(r, request[r]) /\ FlowOf(r, request[r])
         /\ NoProject \notin Requests /\ projects \subseteq Requests
BY AtWorkFacts, AdmissionAssumption DEF BoundInv, FlowInv, AdmissionInv, TypeOK

LEMMA ArrivesBounds ==
  ASSUME BoundInv, AdmissionInv', NEW r \in Requests, NEW kind \in Kinds,
         NEW at \in {"account", "target"}, NEW project \in Requests \union {NoProject},
         NEW o \in Origins,
         project = NoProject <=> at = "account",
         kind = "monitor" => <<project, o>> \in targets,
         plan = "none" => kind \in {"scan", "target"} /\ at = "account",
         Arrives(r, kind, at, project, o)
  PROVE  BoundInv'
<1> DEFINE next == [at |-> at, kind |-> kind, project |-> project, origin |-> o,
               newProject |-> FALSE, newAccount |-> FALSE, newTarget |-> FALSE,
               plan |-> "free", status |-> FALSE, tier |-> "passive", earned |-> FALSE,
               owned  |-> kind \in ScanKinds /\ \E t \in valid : t[2] = o,
               paid   |-> kind \in ScanKinds /\ plan = "paid"]
<1>1. Reads(r, next)
  BY DEF Arrives
<1>2. next.at = at /\ next.kind = kind /\ next.project = project /\ next.origin = o
      /\ next.newTarget = FALSE
  OBVIOUS
<1> HIDE DEF next
<1>3. FlowOf(r, next)
  BY <1>2, AdmissionAssumption DEF FlowOf
<1>4. \A p, u : ~ChargedAs(next, p) /\ ~AdmittedAs(next, p, u)
  BY <1>2 DEF ChargedAs, AdmittedAs
<1> QED  BY <1>1, <1>3, <1>4, ReadsBounds

LEMMA SubmitBounds ==
  ASSUME BoundInv, NEW r \in Requests, NEW o \in Origins, Submit(r, o)
  PROVE  BoundInv'
<1>1. AdmissionInv'
  BY SubmitKeeps DEF BoundInv, FlowInv
<1>2. PICK kind \in {"scan", "api", "target"} :
        (kind = "api" => plan # "none") /\ Arrives(r, kind, "account", NoProject, o)
  BY DEF Submit
<1>3. kind \in Kinds
  BY DEF Kinds, ScanKinds
<1> QED  BY <1>1, <1>2, <1>3, ArrivesBounds

LEMMA MonitorDueBounds ==
  ASSUME BoundInv, NEW r \in Requests, NEW t \in targets, MonitorDue(r, t)
  PROVE  BoundInv'
<1>1. AdmissionInv'
  BY MonitorDueKeeps DEF BoundInv, FlowInv
<1>2. /\ t[1] \in Requests /\ t[2] \in Origins /\ t = <<t[1], t[2]>>
      /\ t[1] # NoProject
  BY AdmissionAssumption DEF BoundInv, FlowInv, AdmissionInv, TypeOK
<1>3. plan # "none"
  BY DEF BoundInv, FlowInv
<1>4. "monitor" \in Kinds
  BY DEF Kinds, ScanKinds
<1>5. Arrives(r, "monitor", "target", t[1], t[2])
  BY DEF MonitorDue
<1> QED  BY <1>1, <1>2, <1>3, <1>4, <1>5, ArrivesBounds

\* Without an account there is no job yet: the limits are not reached.
LEMMA ReadAccountBounds ==
  ASSUME BoundInv, NEW r \in Requests, ReadAccount(r)
  PROVE  BoundInv'
<1> DEFINE q == request[r]
<1>1. AdmissionInv' /\ FlowInv
  BY ReadAccountKeeps DEF BoundInv, FlowInv
<1>2. q.at = "account"
  BY DEF ReadAccount
<1>3. /\ q \in AtWork /\ RequestInv(r, q) /\ FlowOf(r, q)
      /\ NoProject \notin Requests /\ projects \subseteq Requests
  BY <1>2, RequestFacts
<1>4. CASE /\ plan # "none"
           /\ Reads(r, [q EXCEPT !.plan = plan,
                                 !.at = IF q.kind = "monitor" THEN "proof" ELSE "project"])
  <2> DEFINE next == [q EXCEPT !.plan = plan,
                               !.at = IF q.kind = "monitor" THEN "proof" ELSE "project"]
  <2>1. /\ next.at = IF q.kind = "monitor" THEN "proof" ELSE "project"
        /\ next.kind = q.kind /\ next.project = q.project /\ next.origin = q.origin
    BY <1>3 DEF AtWork
  <2>2. q.kind = "monitor" => q.project # NoProject
    BY <1>3 DEF RequestInv, HasProject
  <2>3. FlowOf(r, next)
    BY <1>3, <1>4, <2>1, <2>2 DEF FlowOf
  <2>4. \A p, u : ~ChargedAs(next, p) /\ ~AdmittedAs(next, p, u)
    BY <2>1 DEF ChargedAs, AdmittedAs
  <2> HIDE DEF next
  <2> QED  BY <1>1, <1>4, <2>3, <2>4, ReadsBounds DEF next
<1>5. CASE plan = "none" /\ q.kind = "scan" /\ Reads(r, [q EXCEPT !.at = "rows"])
  <2> DEFINE next == [q EXCEPT !.at = "rows"]
  <2>1. /\ next.at = "rows" /\ next.newTarget = q.newTarget /\ next.newProject = q.newProject
        /\ next.kind = q.kind /\ next.project = q.project /\ next.origin = q.origin
        /\ next.newAccount = q.newAccount
    BY <1>3 DEF AtWork
  <2>2. jobs = << >> /\ targets = {}
    BY <1>1, <1>5 DEF FlowInv
  <2>3. FlowOf(r, next)
    BY <1>2, <1>3, <1>5, <2>1 DEF FlowOf
  <2>4. ASSUME NEW p \in Requests, NEW u \in Origins
        PROVE  RecentScans(p, u) <= RecentCeiling
    <3>1. RecentScans(p, u) = 0
      BY <1>1, <2>2, NothingCounted
    <3> QED  BY <3>1, AdmissionAssumption
  <2>5. \A p \in Requests : QuotaScans(p) <= HigherScanLimit - 1
    BY <1>1, <2>2, NothingCounted, LimitIsNat
  <2> HIDE DEF next
  <2> QED  BY <1>1, <1>5, <2>3, <2>4, <2>5, ReadsBounds DEF next
<1>6. CASE q.kind = "target" /\ Reads(r, [q EXCEPT !.newAccount = TRUE, !.at = "project"])
  <2> DEFINE next == [q EXCEPT !.newAccount = TRUE, !.at = "project"]
  <2>1. /\ next.at = "project" /\ next.newAccount
        /\ next.kind = q.kind /\ next.project = q.project /\ next.origin = q.origin
    BY <1>3 DEF AtWork
  <2>2. FlowOf(r, next)
    BY <1>3, <1>6, <2>1 DEF FlowOf
  <2>3. \A p, u : ~ChargedAs(next, p) /\ ~AdmittedAs(next, p, u)
    BY <2>1 DEF ChargedAs, AdmittedAs
  <2> HIDE DEF next
  <2> QED  BY <1>1, <1>6, <2>2, <2>3, ReadsBounds DEF next
<1> QED  BY <1>4, <1>5, <1>6 DEF ReadAccount

\* The project that is found, or that will be made.
LEMMA FindProjectBounds ==
  ASSUME BoundInv, AdmissionInv', NEW r \in Requests, NEW next, FindProject(r, next),
         \A p \in ProjectsSeen(r) :
           ProjectsSeen(r) = {p} =>
             LET n == [next EXCEPT !.project = p, !.newProject = p \notin projects] IN
             /\ FlowOf(r, n)
             /\ \A s \in Requests : ChargedAs(n, s) =>
                  ChargedAs(request[r], s) \/ QuotaScans(s) <= HigherScanLimit - 1
             /\ \A s \in Requests, o \in Origins : AdmittedAs(n, s, o) =>
                  AdmittedAs(request[r], s, o) \/ RecentScans(s, o) <= RecentCeiling
  PROVE  BoundInv'
<1>1. CASE \E p \in ProjectsSeen(r) :
        /\ ProjectsSeen(r) = {p}
        /\ Reads(r, [next EXCEPT !.project = p, !.newProject = p \notin projects])
  <2>1. PICK p \in ProjectsSeen(r) :
          /\ ProjectsSeen(r) = {p}
          /\ Reads(r, [next EXCEPT !.project = p, !.newProject = p \notin projects])
    BY <1>1
  <2> DEFINE n == [next EXCEPT !.project = p, !.newProject = p \notin projects]
  <2>2. /\ FlowOf(r, n)
        /\ \A s \in Requests : ChargedAs(n, s) =>
             ChargedAs(request[r], s) \/ QuotaScans(s) <= HigherScanLimit - 1
        /\ \A s \in Requests, o \in Origins : AdmittedAs(n, s, o) =>
             AdmittedAs(request[r], s, o) \/ RecentScans(s, o) <= RecentCeiling
    BY <2>1
  <2>3. Reads(r, n)
    BY <2>1
  <2> HIDE DEF n
  <2> QED  BY <2>2, <2>3, ReadsBounds
<1>2. CASE Reads(r, Idle)
  BY <1>2, RollBackBounds
<1> QED  BY <1>1, <1>2 DEF FindProject

LEMMA ReadProjectBounds ==
  ASSUME BoundInv, NEW r \in Requests, ReadProject(r)
  PROVE  BoundInv'
<1> DEFINE q == request[r]
           next == [q EXCEPT !.at = "target"]
<1>1. AdmissionInv' /\ q.at = "project" /\ FindProject(r, next)
  BY ReadProjectKeeps DEF BoundInv, FlowInv, ReadProject
<1>2. /\ q \in AtWork /\ RequestInv(r, q) /\ FlowOf(r, q)
      /\ NoProject \notin Requests /\ projects \subseteq Requests
  BY <1>1, RequestFacts
<1>3. ASSUME NEW p \in ProjectsSeen(r), ProjectsSeen(r) = {p}
      PROVE  LET n == [next EXCEPT !.project = p, !.newProject = p \notin projects] IN
             FlowOf(r, n) /\ \A s, u : ~ChargedAs(n, s) /\ ~AdmittedAs(n, s, u)
  <2> DEFINE n == [next EXCEPT !.project = p, !.newProject = p \notin projects]
  <2>1. /\ n.at = "target" /\ n.kind = q.kind /\ n.project = p /\ n.origin = q.origin
        /\ n.newAccount = q.newAccount
    BY <1>2 DEF AtWork
  <2>2. p \in Requests
    BY <1>2 DEF ProjectsSeen
  <2>3. q.kind = "monitor" => <<p, q.origin>> \in targets
    <3>1. q.kind = "monitor" => q.project \in ProjectsSeen(r) /\ <<q.project, q.origin>> \in targets
      BY <1>2 DEF RequestInv, HasProject, FlowOf, ProjectsSeen
    <3> QED  BY <1>3, <3>1
  <2>4. FlowOf(r, n)
    BY <1>1, <1>2, <2>1, <2>2, <2>3 DEF FlowOf
  <2>5. \A s, u : ~ChargedAs(n, s) /\ ~AdmittedAs(n, s, u)
    BY <2>1 DEF ChargedAs, AdmittedAs
  <2> HIDE DEF n
  <2> QED  BY <2>4, <2>5 DEF n
<1> HIDE DEF next
<1> QED  BY <1>1, <1>3, FindProjectBounds

\* A target that is not there has no jobs: its ceiling is not reached.
LEMMA ReadTargetBounds ==
  ASSUME BoundInv, NEW r \in Requests, ReadTarget(r)
  PROVE  BoundInv'
<1> DEFINE q == request[r]
           t == <<q.project, q.origin>>
<1>1. AdmissionInv' /\ FlowInv /\ q.at = "target"
  BY ReadTargetKeeps DEF BoundInv, FlowInv, ReadTarget
<1>2. /\ q \in AtWork /\ RequestInv(r, q) /\ FlowOf(r, q)
      /\ NoProject \notin Requests /\ projects \subseteq Requests
  BY <1>1, RequestFacts
<1>3. q.project \in projects \union (IF q.newProject THEN {r} ELSE {}) /\ q.project # NoProject
  BY <1>1, <1>2 DEF RequestInv, HasProject
<1>4. CASE t \in targets /\ Reads(r, [q EXCEPT !.status = t \in verified,
                              !.at = CASE q.kind = "monitor" -> "account"
                                       [] q.kind = "target"  -> "commit"
                                       [] OTHER              -> "proof"])
  <2> DEFINE at == CASE q.kind = "monitor" -> "account"
                     [] q.kind = "target"  -> "commit"
                     [] OTHER              -> "proof"
             status == t \in verified
             next == [q EXCEPT !.status = status, !.at = at]
  <2>1. at \in {"account", "commit", "proof"} /\ (at = "commit" => q.kind = "target")
    OBVIOUS
  <2> HIDE DEF at, status
  <2>2. /\ next.at = at /\ next.kind = q.kind /\ next.project = q.project
        /\ next.origin = q.origin /\ next.newAccount = q.newAccount
        /\ next.newProject = q.newProject /\ next.newTarget = q.newTarget
    BY <1>2 DEF AtWork
  <2>3. Reads(r, next)
    BY <1>4 DEF at, status
  <2>4. FlowOf(r, next)
    BY <1>1, <1>2, <1>3, <1>4, <2>1, <2>2 DEF FlowOf
  <2>5. \A p, u : ~ChargedAs(next, p) /\ ~AdmittedAs(next, p, u)
    BY <2>1, <2>2 DEF ChargedAs, AdmittedAs, ScanKinds
  <2> HIDE DEF next
  <2> QED  BY <1>1, <2>3, <2>4, <2>5, ReadsBounds
<1>5. CASE t \notin targets /\ Reads(r, [q EXCEPT !.at = "targets"])
  <2> DEFINE next == [q EXCEPT !.at = "targets"]
  <2>1. /\ next.at = "targets" /\ next.kind = q.kind /\ next.project = q.project
        /\ next.origin = q.origin /\ next.newAccount = q.newAccount
    BY <1>2 DEF AtWork
  <2>2. FlowOf(r, next)
    BY <1>1, <1>2, <1>3, <2>1 DEF FlowOf
  <2>3. \A p : ~ChargedAs(next, p)
    BY <2>1 DEF ChargedAs
  <2>4. ASSUME NEW p \in Requests, NEW u \in Origins, AdmittedAs(next, p, u)
        PROVE  RecentScans(p, u) <= RecentCeiling
    <3>1. <<p, u>> \notin targets
      BY <1>3, <1>5, <2>1, <2>4 DEF AdmittedAs
    <3>2. RecentScans(p, u) = 0
      BY <1>1, <3>1, NothingCounted
    <3> QED  BY <3>2, AdmissionAssumption
  <2> HIDE DEF next
  <2> QED  BY <1>1, <1>5, <2>2, <2>3, <2>4, ReadsBounds DEF next
<1> QED  BY <1>4, <1>5 DEF ReadTarget

\* The ceiling is checked.
LEMMA DecideBounds ==
  ASSUME BoundInv, NEW r \in Requests, Decide(r)
  PROVE  BoundInv'
<1> DEFINE q == request[r]
           t == <<q.project, q.origin>>
           asked == IF q.kind = "monitor" THEN {"active"} ELSE {"active", "passive"}
           after == IF q.kind = "monitor" THEN "commit" ELSE "scans"
           granted(tier) == IF ActivePermitted(q, t) THEN tier ELSE "passive"
           earned(tier) == q.owned /\ q.paid /\ granted(tier) = "active"
           next(tier) == [q EXCEPT !.tier = granted(tier), !.earned = earned(tier),
                                   !.status = FALSE, !.owned = FALSE, !.paid = FALSE,
                                   !.at = after]
<1>1. FlowInv /\ q.at = "proof"
  BY DEF BoundInv, Decide
<1>2. /\ q \in AtWork /\ RequestInv(r, q) /\ FlowOf(r, q)
      /\ NoProject \notin Requests /\ projects \subseteq Requests
  BY <1>1, RequestFacts
<1>3. q.project # NoProject /\ q.kind \in ScanKinds
  BY <1>1, <1>2 DEF RequestInv, HasProject
<1>4. ASSUME NEW tier \in asked, Reads(r, next(tier)),
             ~ExceedsCeiling(RecentScans(q.project, q.origin))
      PROVE  BoundInv'
  <2>1. AdmissionInv' \/ Refused(r)
    BY DecideKeeps, <1>1 DEF FlowInv
  <2>2. Reads(r, next(tier)) /\ after = IF q.kind = "monitor" THEN "commit" ELSE "scans"
    BY <1>4
  <2> HIDE DEF granted, earned, after
  <2>3. /\ next(tier).at = after /\ next(tier).kind = q.kind
        /\ next(tier).project = q.project /\ next(tier).origin = q.origin
        /\ next(tier).newAccount = q.newAccount
    BY <1>2 DEF AtWork
  <2>4. FlowOf(r, next(tier))
    BY <1>1, <1>2, <1>3, <2>2, <2>3 DEF FlowOf
  <2>5. \A p : ~ChargedAs(next(tier), p)
    BY <2>2, <2>3 DEF ChargedAs
  <2>6. ASSUME NEW p \in Requests, NEW u \in Origins, AdmittedAs(next(tier), p, u)
        PROVE  RecentScans(p, u) <= RecentCeiling
    <3>1. p = q.project /\ u = q.origin
      BY <1>3, <2>3, <2>6 DEF AdmittedAs
    <3>2. RecentScans(p, u) \in Nat
      BY <1>1, CountsAreNat DEF FlowInv
    <3> QED  BY <1>4, <3>1, <3>2, AdmissionAssumption DEF ExceedsCeiling
  <2> HIDE DEF next
  <2> QED  BY <2>1, <2>2, <2>4, <2>5, <2>6, ReadsBounds, RefusedBounds
<1> QED  BY <1>4, RefusedBounds DEF Decide

LEMMA CountTargetsBounds ==
  ASSUME BoundInv, NEW r \in Requests, CountTargets(r)
  PROVE  BoundInv'
<1> DEFINE q == request[r]
           at == IF q.kind = "target" THEN "rows" ELSE "scans"
           next == [q EXCEPT !.at = at]
<1>1. AdmissionInv' /\ q.at = "targets"
  BY CountTargetsKeeps DEF BoundInv, FlowInv, CountTargets
<1>2. /\ q \in AtWork /\ RequestInv(r, q) /\ FlowOf(r, q)
      /\ NoProject \notin Requests /\ projects \subseteq Requests
  BY <1>1, RequestFacts
<1>3. q.project \in projects \union (IF q.newProject THEN {r} ELSE {}) /\ q.project # NoProject
  BY <1>1, <1>2 DEF RequestInv, HasProject
<1>4. CASE Reads(r, next)
  <2>1. /\ next.at = at /\ next.kind = q.kind /\ next.project = q.project
        /\ next.origin = q.origin /\ next.newAccount = q.newAccount
        /\ next.newProject = q.newProject /\ next.newTarget = q.newTarget
    BY <1>2 DEF AtWork
  <2>2. FlowOf(r, next)
    BY <1>1, <1>2, <1>3, <2>1 DEF FlowOf
  <2>3. \A p : ~ChargedAs(next, p)
    BY <2>1 DEF ChargedAs
  <2>4. \A p, u : AdmittedAs(next, p, u) => AdmittedAs(q, p, u)
    BY <1>1, <2>1 DEF AdmittedAs
  <2> HIDE DEF next
  <2> QED  BY <1>1, <1>4, <2>2, <2>3, <2>4, ReadsBounds
<1> QED  BY <1>4, RefusedBounds DEF CountTargets

\* The quota is checked.
LEMMA CountScansBounds ==
  ASSUME BoundInv, NEW r \in Requests, CountScans(r)
  PROVE  BoundInv'
<1> DEFINE q == request[r]
           next == [q EXCEPT !.plan = "free", !.at = "rows"]
<1>1. AdmissionInv' /\ FlowInv /\ q.at = "scans"
  BY CountScansKeeps DEF BoundInv, FlowInv, CountScans
<1>2. /\ q \in AtWork /\ RequestInv(r, q) /\ FlowOf(r, q)
      /\ NoProject \notin Requests /\ projects \subseteq Requests
  BY <1>1, RequestFacts
<1>3. /\ q.project \in projects \union (IF q.newProject THEN {r} ELSE {})
      /\ q.project # NoProject /\ q.project \in Requests
  BY <1>1, <1>2 DEF RequestInv, HasProject
<1>4. CASE Reads(r, next) /\ WithinQuota(MonthlyScans(q.project), ScanLimit[q.plan])
  <2>1. /\ next.at = "rows" /\ next.kind = q.kind /\ next.project = q.project
        /\ next.origin = q.origin /\ next.newAccount = q.newAccount
        /\ next.newProject = q.newProject /\ next.newTarget = q.newTarget
    BY <1>2 DEF AtWork
  <2>2. FlowOf(r, next)
    BY <1>1, <1>2, <1>3, <2>1 DEF FlowOf
  <2>3. ASSUME NEW p \in Requests, ChargedAs(next, p)
        PROVE  QuotaScans(p) <= HigherScanLimit - 1
    <3>1. p = q.project /\ q.plan \in Plans
      BY <1>2, <1>3, <2>1, <2>3 DEF ChargedAs, AtWork
    <3>2. QuotaScans(p) \in Nat /\ QuotaScans(p) <= MonthlyScans(p)
      BY <1>1, CountsAreNat, MonthlyIsMore DEF FlowInv
    <3>3. MonthlyScans(p) \in Nat
      <4>1. {i \in 1 .. Len(jobs) : jobs[i].project = p} \subseteq 1 .. Len(jobs)
        OBVIOUS
      <4>2. IsFiniteSet(1 .. Len(jobs))
        BY <1>1, Typed, FS_Interval DEF FlowInv
      <4> QED  BY <4>1, <4>2, FS_Subset, FS_CardinalityType DEF MonthlyScans
    <3>4. MonthlyScans(p) + 1 <= ScanLimit[q.plan]
      BY <1>4, <3>1 DEF WithinQuota
    <3>5. ScanLimit[q.plan] \in Nat /\ ScanLimit[q.plan] <= HigherScanLimit
          /\ HigherScanLimit \in Nat
      BY <3>1, LimitIsNat
    <3> QED  BY <3>2, <3>3, <3>4, <3>5
  <2>4. \A p, u : AdmittedAs(next, p, u) => AdmittedAs(q, p, u)
    BY <1>1, <2>1 DEF AdmittedAs
  <2> HIDE DEF next
  <2> QED  BY <1>1, <1>4, <2>2, <2>3, <2>4, ReadsBounds
<1> QED  BY <1>4, RefusedBounds DEF CountScans

\* The project that is found again is the one that was charged.
LEMMA SelectRowsBounds ==
  ASSUME BoundInv, NEW r \in Requests, SelectRows(r)
  PROVE  BoundInv'
<1> DEFINE q == request[r]
<1>1. AdmissionInv' /\ q.at = "rows"
  BY SelectRowsKeeps DEF BoundInv, FlowInv, SelectRows
<1>2. /\ q \in AtWork /\ RequestInv(r, q) /\ FlowOf(r, q)
      /\ NoProject \notin Requests /\ projects \subseteq Requests
  BY <1>1, RequestFacts
<1>3. CASE /\ q.kind = "scan"
           /\ FindProject(r, [q EXCEPT !.newAccount = plan = "none", !.at = "insert"])
  <2> DEFINE new == plan = "none"
             next == [q EXCEPT !.newAccount = new, !.at = "insert"]
  <2>1. FindProject(r, next) /\ (plan = "none" => new)
    BY <1>3
  <2> HIDE DEF new
  <2>2. ASSUME NEW p \in ProjectsSeen(r), ProjectsSeen(r) = {p}
        PROVE  LET n == [next EXCEPT !.project = p, !.newProject = p \notin projects] IN
               /\ FlowOf(r, n)
               /\ \A s : ChargedAs(n, s) => ChargedAs(q, s)
               /\ \A s, u : AdmittedAs(n, s, u) => AdmittedAs(q, s, u)
    <3> DEFINE n == [next EXCEPT !.project = p, !.newProject = p \notin projects]
    <3>1. /\ n.at = "insert" /\ n.kind = q.kind /\ n.project = p /\ n.origin = q.origin
          /\ n.newAccount = new
      BY <1>2 DEF AtWork
    <3>2. p \in Requests
      BY <1>2 DEF ProjectsSeen
    <3>3. q.project \in {p, NoProject}
      <4>1. q.project # NoProject => q.project \in ProjectsSeen(r)
        BY <1>1, <1>2 DEF FlowOf, ProjectsSeen
      <4> QED  BY <2>2, <4>1
    <3>4. FlowOf(r, n)
      BY <1>2, <1>3, <2>1, <3>1, <3>2 DEF FlowOf
    <3>5. \A s : ChargedAs(n, s) => ChargedAs(q, s)
      BY <1>1, <1>2, <3>1, <3>2, <3>3 DEF ChargedAs
    <3>6. \A s, u : AdmittedAs(n, s, u) => AdmittedAs(q, s, u)
      BY <1>1, <1>2, <3>1, <3>2, <3>3 DEF AdmittedAs
    <3> HIDE DEF n
    <3> QED  BY <3>4, <3>5, <3>6 DEF n
  <2> HIDE DEF next
  <2> QED  BY <1>1, <2>1, <2>2, FindProjectBounds
<1>4. CASE /\ q.kind # "scan"
           /\ Reads(r, [q EXCEPT !.newTarget = <<q.project, q.origin>> \notin targets,
                                 !.at = "commit"])
  <2> DEFINE new == <<q.project, q.origin>> \notin targets
             next == [q EXCEPT !.newTarget = new, !.at = "commit"]
  <2>1. Reads(r, next) /\ (~new => <<q.project, q.origin>> \in targets) /\ new \in BOOLEAN
    BY <1>4
  <2> HIDE DEF new
  <2>2. /\ next.at = "commit" /\ next.kind = q.kind /\ next.project = q.project
        /\ next.origin = q.origin /\ next.newAccount = q.newAccount
        /\ next.newTarget = new
    BY <1>2 DEF AtWork
  <2>3. FlowOf(r, next)
    BY <1>1, <1>2, <1>4, <2>1, <2>2 DEF FlowOf
  <2>4. /\ \A p : ChargedAs(next, p) => ChargedAs(q, p)
        /\ \A p, u : AdmittedAs(next, p, u) => AdmittedAs(q, p, u)
    BY <1>1, <2>2 DEF ChargedAs, AdmittedAs
  <2> HIDE DEF next
  <2> QED  BY <1>1, <2>1, <2>3, <2>4, ReadsBounds
<1> QED  BY <1>3, <1>4 DEF SelectRows

LEMMA SelectTargetBounds ==
  ASSUME BoundInv, NEW r \in Requests, SelectTarget(r)
  PROVE  BoundInv'
<1> DEFINE q == request[r]
           new == <<q.project, q.origin>> \notin targets
           next == [q EXCEPT !.newTarget = new, !.at = "commit"]
<1>1. AdmissionInv' /\ q.at = "insert" /\ Reads(r, next)
  BY SelectTargetKeeps DEF BoundInv, FlowInv, SelectTarget
<1>2. /\ q \in AtWork /\ RequestInv(r, q) /\ FlowOf(r, q)
      /\ NoProject \notin Requests /\ projects \subseteq Requests
  BY <1>1, RequestFacts
<1>3. (~new => <<q.project, q.origin>> \in targets) /\ new \in BOOLEAN
  OBVIOUS
<1> HIDE DEF new
<1>4. /\ next.at = "commit" /\ next.kind = q.kind /\ next.project = q.project
      /\ next.origin = q.origin /\ next.newAccount = q.newAccount
      /\ next.newTarget = new
  BY <1>2 DEF AtWork
<1>5. FlowOf(r, next)
  BY <1>1, <1>2, <1>3, <1>4 DEF FlowOf
<1>6. /\ \A p : ChargedAs(next, p) => ChargedAs(q, p)
      /\ \A p, u : AdmittedAs(next, p, u) => AdmittedAs(q, p, u)
  BY <1>1, <1>4 DEF ChargedAs, AdmittedAs
<1> HIDE DEF next
<1> QED  BY <1>1, <1>5, <1>6, ReadsBounds

\* A charged request commits its job: one more is counted, and it is charged
\* no longer.
LEMMA CommitBounds ==
  ASSUME BoundInv, NEW r \in Requests, Commit(r)
  PROVE  BoundInv'
<1> DEFINE q == request[r]
           job == JobOf(q)
<1>1. AdmissionInv' /\ AdmissionInv /\ FlowInv /\ q.at = "commit"
  BY CommitKeeps DEF BoundInv, FlowInv, Commit
<1>2. /\ q \in AtWork /\ RequestInv(r, q) /\ FlowOf(r, q)
      /\ NoProject \notin Requests /\ projects \subseteq Requests
  BY <1>1, RequestFacts DEF BoundInv
<1>3. /\ request'[r] = Idle
      /\ \A s \in Requests \ {r} : request'[s] = request[s]
      /\ projects \subseteq projects' /\ targets \subseteq targets' /\ day' = day
  BY <1>1 DEF Commit, Goes, AdmissionInv, TypeOK
<1>4. q.kind \in {"scan", "target"} \/ plan # "none"
  BY <1>2 DEF FlowOf
<1>5. plan' # "none"
  <2>1. plan = "none" => q.newAccount
    BY <1>1, <1>2 DEF FlowOf
  <2> QED  BY <2>1 DEF Commit
<1>6. <<q.project, q.origin>> \in targets'
  <2>1. q.newTarget \/ <<q.project, q.origin>> \in targets
    BY <1>1, <1>2 DEF FlowOf
  <2> QED  BY <2>1 DEF Commit
<1>7. \/ /\ q.kind \in ScanKinds
         /\ jobs' = Append(jobs, job)
      \/ jobs' = jobs
  BY DEF Commit
<1>8. q.project \in Requests /\ q.origin \in Origins /\ job \in Jobs
  <2>1. q.project \in Requests /\ q.origin \in Origins
    BY <1>1, <1>2 DEF RequestInv, HasProject, AtWork
  <2> DEFINE monitored == q.kind = "monitor"
  <2>2. job = [project |-> q.project, origin |-> q.origin, monitored |-> monitored]
        /\ monitored \in BOOLEAN
    BY DEF JobOf
  <2> HIDE DEF monitored, job
  <2>3. job \in Jobs
    BY <2>1, <2>2 DEF Jobs
  <2> QED  BY <2>1, <2>3
<1>9. job.project = q.project /\ job.origin = q.origin /\ (job.monitored <=> q.kind = "monitor")
  BY DEF JobOf
<1>10. jobs \in Seq(Jobs) /\ day \in Nat \ {0}
  BY <1>1, Typed
<1> HIDE DEF job
<1>11. FlowInv'
  <2>1. ASSUME NEW i \in 1 .. Len(jobs')
        PROVE  <<jobs'[i].project, jobs'[i].origin>> \in targets'
    <3>1. CASE i \in 1 .. Len(jobs)
      <4>1. jobs'[i] = jobs[i]
        BY <1>7, <1>8, <1>10, <3>1
      <4> QED  BY <1>1, <1>3, <3>1, <4>1 DEF FlowInv
    <3>2. CASE i \notin 1 .. Len(jobs)
      <4>1. jobs'[i] = job
        BY <1>7, <1>8, <1>10, <2>1, <3>2
      <4> QED  BY <1>6, <1>9, <4>1
    <3> QED  BY <3>1, <3>2
  <2>2. ASSUME NEW s \in Requests, request'[s].at # "idle"
        PROVE  FlowOf(s, request[s])'
    <3>1. request'[s] = request[s]
      BY <1>3, <2>2 DEF Idle
    <3>2. FlowOf(s, request[s])
      BY <1>1, <2>2, <3>1 DEF FlowInv
    <3> QED  BY <1>3, <1>5, <3>1, <3>2 DEF FlowOf
  <2> QED  BY <1>1, <1>5, <2>1, <2>2 DEF FlowInv
<1>12. QuotaBound'
  <2>1. ASSUME NEW p \in Requests
        PROVE  QuotaScans(p)' <= HigherScanLimit - 1 + Cardinality(Requests \ Charged(p)')
    <3>1. /\ QuotaScans(p) \in Nat /\ QuotaScans(p)' \in Nat /\ HigherScanLimit \in Nat
          /\ Cardinality(Requests \ Charged(p)) \in Nat
          /\ Cardinality(Requests \ Charged(p)') \in Nat
      <4>1. jobs' \in Seq(Jobs)
        BY <1>1 DEF AdmissionInv, TypeOK
      <4>2. QuotaScans(p) \in Nat /\ QuotaScans(p)' \in Nat
        BY <1>10, <4>1, CountedIsFinite DEF QuotaScans
      <4> QED  BY <4>2, LimitIsNat, SlackIsNat
    <3>2. QuotaScans(p) <= HigherScanLimit - 1 + Cardinality(Requests \ Charged(p))
      BY DEF BoundInv, QuotaBound
    <3>3. Charged(p)' \subseteq Charged(p) \ {r}
      BY <1>3, IdleBounds DEF Charged, ChargedAs
    <3>4. CASE jobs' = Append(jobs, job) /\ job \in QuotaJobs(p) /\ q.kind \in ScanKinds
      <4>1. r \in Charged(p)
        BY <1>1, <1>9, <3>4 DEF Charged, ChargedAs, QuotaJobs, ScanKinds
      <4>2. Cardinality(Requests \ Charged(p)) + 1 <= Cardinality(Requests \ Charged(p)')
        BY <3>3, <4>1, SlackAdds
      <4>3. QuotaScans(p)' <= QuotaScans(p) + 1
        BY <1>8, <1>10, <3>4, CountAppended DEF QuotaScans
      <4> QED  BY <3>1, <3>2, <4>2, <4>3
    <3>5. CASE jobs' = jobs \/ (jobs' = Append(jobs, job) /\ job \notin QuotaJobs(p))
      <4>1. Cardinality(Requests \ Charged(p)) <= Cardinality(Requests \ Charged(p)')
        BY <3>3, SlackGrows
      <4>2. QuotaScans(p)' <= QuotaScans(p)
        <5>1. CASE jobs' = jobs
          BY <3>1, <5>1 DEF QuotaScans
        <5>2. CASE jobs' = Append(jobs, job) /\ job \notin QuotaJobs(p)
          BY <1>8, <1>10, <5>2, CountAppended DEF QuotaScans
        <5> QED  BY <3>5, <5>1, <5>2
      <4> QED  BY <3>1, <3>2, <4>1, <4>2
    <3> QED  BY <1>7, <3>4, <3>5
  <2> QED  BY <2>1 DEF QuotaBound
<1>13. CeilingBound'
  <2>1. ASSUME NEW p \in Requests, NEW o \in Origins
        PROVE  RecentScans(p, o)' <= RecentCeiling + Cardinality(Requests \ Admitted(p, o)')
    <3>1. /\ RecentScans(p, o) = Count(jobs, day, RecentJobs(p, o))
          /\ RecentScans(p, o)' = Count(jobs', day, RecentJobs(p, o))
      <4>1. RecentScans(p, o) = Count(jobs, day, RecentJobs(p, o))
        BY <1>1, RecentIsCount
      <4>2. {i \in day' .. Len(jobs') : jobs'[i].project = p /\ jobs'[i].origin = o}
              = Counted(jobs', day', RecentJobs(p, o))
        <5>1. jobs' \in Seq(Jobs) /\ day' \in Nat \ {0}
          BY <1>1, <1>3, <1>10 DEF AdmissionInv, TypeOK
        <5> QED  BY <5>1 DEF Counted, RecentJobs
      <4> QED  BY <1>3, <4>1, <4>2 DEF RecentScans, Count
    <3>2. /\ RecentScans(p, o) \in Nat /\ RecentScans(p, o)' \in Nat /\ RecentCeiling \in Nat
          /\ Cardinality(Requests \ Admitted(p, o)) \in Nat
          /\ Cardinality(Requests \ Admitted(p, o)') \in Nat
      <4>1. jobs' \in Seq(Jobs)
        BY <1>1 DEF AdmissionInv, TypeOK
      <4> QED  BY <1>10, <3>1, <4>1, CountedIsFinite, AdmissionAssumption, SlackIsNat
    <3>3. RecentScans(p, o) <= RecentCeiling + Cardinality(Requests \ Admitted(p, o))
      BY DEF BoundInv, CeilingBound
    <3>4. Admitted(p, o)' \subseteq Admitted(p, o) \ {r}
      BY <1>3, IdleBounds DEF Admitted, AdmittedAs
    <3>5. CASE jobs' = Append(jobs, job) /\ job \in RecentJobs(p, o) /\ q.kind \in ScanKinds
      <4>1. r \in Admitted(p, o)
        BY <1>1, <1>9, <3>5 DEF Admitted, AdmittedAs, RecentJobs
      <4>2. Cardinality(Requests \ Admitted(p, o)) + 1 <= Cardinality(Requests \ Admitted(p, o)')
        BY <3>4, <4>1, SlackAdds
      <4>3. RecentScans(p, o)' <= RecentScans(p, o) + 1
        BY <1>8, <1>10, <3>1, <3>5, CountAppended
      <4> QED  BY <3>2, <3>3, <4>2, <4>3
    <3>6. CASE jobs' = jobs \/ (jobs' = Append(jobs, job) /\ job \notin RecentJobs(p, o))
      <4>1. Cardinality(Requests \ Admitted(p, o)) <= Cardinality(Requests \ Admitted(p, o)')
        BY <3>4, SlackGrows
      <4>2. RecentScans(p, o)' <= RecentScans(p, o)
        <5>1. CASE jobs' = jobs
          BY <3>1, <3>2, <5>1
        <5>2. CASE jobs' = Append(jobs, job) /\ job \notin RecentJobs(p, o)
          BY <1>8, <1>10, <3>1, <5>2, CountAppended
        <5> QED  BY <3>6, <5>1, <5>2
      <4> QED  BY <3>2, <3>3, <4>1, <4>2
    <3> QED  BY <1>7, <3>5, <3>6
  <2> QED  BY <2>1 DEF CeilingBound
<1> QED  BY <1>11, <1>12, <1>13 DEF BoundInv

LEMMA StepBounds ==
  ASSUME BoundInv, NEW r \in Requests, Step(r)
  PROVE  BoundInv'
BY ReadAccountBounds, ReadProjectBounds, ReadTargetBounds, DecideBounds, CountTargetsBounds,
   CountScansBounds, SelectRowsBounds, SelectTargetBounds, CommitBounds, RollBackBounds
   DEF Step, RollBack

-----------------------------------------------------------------------------
(* The steps of the environment.                                           *)

\* What the invariant speaks of stays as it is.
LEMMA NothingRelevant ==
  ASSUME BoundInv, AdmissionInv',
         UNCHANGED <<projects, targets, jobs, day>>,
         plan' = "none" => plan = "none",
         \A r \in Requests :
           /\ request'[r].at = request[r].at
           /\ request[r].at # "idle" =>
                /\ request'[r].kind = request[r].kind
                /\ request'[r].project = request[r].project
                /\ request'[r].origin = request[r].origin
                /\ request'[r].newProject = request[r].newProject
                /\ request'[r].newAccount = request[r].newAccount
                /\ request'[r].newTarget = request[r].newTarget
  PROVE  BoundInv'
<1>1. FlowInv'
  <2>1. ASSUME NEW r \in Requests, request'[r].at # "idle"
        PROVE  FlowOf(r, request[r])'
    <3>1. FlowOf(r, request[r])
      BY <2>1 DEF BoundInv, FlowInv
    <3> QED  BY <2>1, <3>1 DEF FlowOf
  <2> QED  BY <2>1 DEF BoundInv, FlowInv
<1>2. \A p : Charged(p)' = Charged(p)
  BY DEF Charged, ChargedAs
<1>3. \A p, o : Admitted(p, o)' = Admitted(p, o)
  BY DEF Admitted, AdmittedAs
<1>4. QuotaBound'
  <2>1. \A p : QuotaScans(p)' = QuotaScans(p)
    BY DEF QuotaScans
  <2> QED  BY <1>2, <2>1 DEF BoundInv, QuotaBound
<1>5. CeilingBound'
  <2>1. \A p, o : RecentScans(p, o)' = RecentScans(p, o)
    BY DEF RecentScans
  <2> QED  BY <1>3, <2>1 DEF BoundInv, CeilingBound
<1> QED  BY <1>1, <1>4, <1>5 DEF BoundInv

LEMMA SignInBounds ==
  ASSUME BoundInv, SignIn
  PROVE  BoundInv'
<1>1. AdmissionInv'
  BY SignInKeeps DEF BoundInv, FlowInv
<1> QED  BY <1>1, NothingRelevant DEF SignIn

LEMMA UndecidedFacts ==
  ASSUME AdmissionInv, NEW r \in Requests, Undecided(r)
  PROVE  request[r] \in AtWork
BY AtWorkFacts DEF Undecided

LEMMA VerifyOwnershipBounds ==
  ASSUME BoundInv, NEW t \in targets, VerifyOwnership(t)
  PROVE  BoundInv'
<1>1. AdmissionInv' /\ AdmissionInv
  BY VerifyOwnershipKeeps DEF BoundInv, FlowInv
<1>2. ASSUME NEW r \in Requests
      PROVE  request'[r] = request[r]
             \/ (request[r] \in AtWork /\ request'[r] = [request[r] EXCEPT !.owned = TRUE])
  BY <1>1, UndecidedFacts DEF VerifyOwnership
<1>3. UNCHANGED <<plan, projects, targets, jobs, day>>
  BY DEF VerifyOwnership, rowVars
<1>4. ASSUME NEW r \in Requests
      PROVE  /\ request'[r].at = request[r].at
             /\ request'[r].kind = request[r].kind
             /\ request'[r].project = request[r].project
             /\ request'[r].origin = request[r].origin
             /\ request'[r].newProject = request[r].newProject
             /\ request'[r].newAccount = request[r].newAccount
             /\ request'[r].newTarget = request[r].newTarget
  BY <1>2 DEF AtWork
<1> QED  BY <1>1, <1>3, <1>4, NothingRelevant

LEMMA ProofLapsesBounds ==
  ASSUME BoundInv, NEW t \in targets, ProofLapses(t)
  PROVE  BoundInv'
<1>1. AdmissionInv'
  BY ProofLapsesKeeps DEF BoundInv, FlowInv
<1> QED  BY <1>1, NothingRelevant DEF ProofLapses, rowVars

LEMMA SubscriptionEventBounds ==
  ASSUME BoundInv, NEW p \in Plans, SubscriptionEvent(p)
  PROVE  BoundInv'
<1>1. AdmissionInv' /\ AdmissionInv
  BY SubscriptionEventKeeps DEF BoundInv, FlowInv
<1>2. ASSUME NEW r \in Requests
      PROVE  request'[r] = request[r]
             \/ (request[r] \in AtWork /\ request'[r] = [request[r] EXCEPT !.paid = TRUE])
  BY <1>1, UndecidedFacts DEF SubscriptionEvent
<1>3. UNCHANGED <<projects, targets, jobs, day>> /\ plan' # "none"
  BY DEF SubscriptionEvent, Plans
<1>4. ASSUME NEW r \in Requests
      PROVE  /\ request'[r].at = request[r].at
             /\ request'[r].kind = request[r].kind
             /\ request'[r].project = request[r].project
             /\ request'[r].origin = request[r].origin
             /\ request'[r].newProject = request[r].newProject
             /\ request'[r].newAccount = request[r].newAccount
             /\ request'[r].newTarget = request[r].newTarget
  BY <1>2 DEF AtWork
<1> QED  BY <1>1, <1>3, <1>4, NothingRelevant

\* Jobs leave the windows: less is counted.
LEMMA TimePassesBounds ==
  ASSUME BoundInv, TimePasses
  PROVE  BoundInv'
<1>1. /\ AdmissionInv' /\ AdmissionInv /\ FlowInv
      /\ UNCHANGED <<plan, projects, targets, request>>
  BY TimePassesKeeps DEF BoundInv, FlowInv, TimePasses, rowVars
<1>2. /\ jobs \in Seq(Jobs) /\ day \in Nat \ {0} /\ day \in 1 .. Len(jobs) + 1
      /\ jobs' \in Seq(Jobs) /\ day' \in Nat \ {0}
  BY <1>1, Typed DEF AdmissionInv, TypeOK
<1>3. \/ day' = day + 1 /\ jobs' = jobs
      \/ day > 1 /\ day' = day - 1 /\ jobs # << >> /\ jobs' = Tail(jobs)
  BY <1>2 DEF TimePasses
<1>4. FlowInv'
  <2>1. ASSUME NEW i \in 1 .. Len(jobs')
        PROVE  <<jobs'[i].project, jobs'[i].origin>> \in targets
    <3>1. \E k \in 1 .. Len(jobs) : jobs'[i] = jobs[k]
      <4>1. CASE jobs' = jobs
        BY <2>1, <4>1
      <4>2. CASE jobs # << >> /\ jobs' = Tail(jobs)
        <5>1. i + 1 \in 1 .. Len(jobs) /\ jobs'[i] = jobs[i + 1]
          BY <1>2, <2>1, <4>2
        <5> QED  BY <5>1
      <4> QED  BY <1>3, <4>1, <4>2
    <3> QED  BY <1>1, <3>1 DEF FlowInv
  <2>2. jobs = << >> => jobs' = << >>
    BY <1>3
  <2>3. \A r \in Requests : request[r].at # "idle" => FlowOf(r, request[r])'
    BY <1>1 DEF FlowInv, FlowOf
  <2> QED  BY <1>1, <2>1, <2>2, <2>3 DEF FlowInv
<1>5. QuotaBound'
  <2>1. ASSUME NEW p \in Requests
        PROVE  QuotaScans(p)' <= HigherScanLimit - 1 + Cardinality(Requests \ Charged(p)')
    <3>1. QuotaScans(p)' <= QuotaScans(p)
      <4>1. CASE jobs' = jobs
        <5>1. QuotaScans(p) \in Nat
          BY <1>2, CountedIsFinite DEF QuotaScans
        <5> QED  BY <4>1, <5>1 DEF QuotaScans
      <4>2. CASE jobs # << >> /\ jobs' = Tail(jobs)
        BY <1>2, <4>2, CountTail DEF QuotaScans
      <4> QED  BY <1>3, <4>1, <4>2
    <3>2. QuotaScans(p) \in Nat /\ QuotaScans(p)' \in Nat /\ HigherScanLimit \in Nat
          /\ Cardinality(Requests \ Charged(p)) \in Nat
      <4>1. QuotaScans(p) \in Nat /\ QuotaScans(p)' \in Nat
        BY <1>2, CountedIsFinite DEF QuotaScans
      <4> QED  BY <4>1, LimitIsNat, SlackIsNat
    <3>3. QuotaScans(p) <= HigherScanLimit - 1 + Cardinality(Requests \ Charged(p))
      BY DEF BoundInv, QuotaBound
    <3>4. Charged(p)' = Charged(p)
      BY <1>1 DEF Charged, ChargedAs
    <3> QED  BY <3>1, <3>2, <3>3, <3>4
  <2> QED  BY <2>1 DEF QuotaBound
<1>6. CeilingBound'
  <2>1. ASSUME NEW p \in Requests, NEW o \in Origins
        PROVE  RecentScans(p, o)' <= RecentCeiling + Cardinality(Requests \ Admitted(p, o)')
    <3> DEFINE kinds == RecentJobs(p, o)
    <3>1. /\ RecentScans(p, o) = Count(jobs, day, kinds)
          /\ RecentScans(p, o)' = Count(jobs', day', kinds)
      <4>1. RecentScans(p, o) = Count(jobs, day, kinds)
        BY <1>1, RecentIsCount
      <4>2. {i \in day' .. Len(jobs') : jobs'[i].project = p /\ jobs'[i].origin = o}
              = Counted(jobs', day', kinds)
        <5>1. jobs' \in Seq(Jobs) /\ day' \in Nat \ {0}
          BY <1>2
        <5> QED  BY <5>1 DEF Counted, RecentJobs
      <4> QED  BY <4>1, <4>2 DEF RecentScans, Count
    <3> HIDE DEF kinds
    <3>2. Count(jobs', day', kinds) <= Count(jobs, day, kinds)
      <4>1. CASE day' = day + 1 /\ jobs' = jobs
        <5>1. day \in Nat \ {0} /\ day + 1 \in Nat \ {0} /\ day <= day + 1 /\ kinds \subseteq kinds
          BY <1>2
        <5> QED  BY <1>2, <4>1, <5>1, CountsLess
      <4>2. CASE day > 1 /\ day' = day - 1 /\ jobs # << >> /\ jobs' = Tail(jobs)
        <5>1. day <= day' + 1
          BY <1>2, <4>2
        <5> QED  BY <1>2, <4>2, <5>1, CountTail
      <4> QED  BY <1>3, <4>1, <4>2
    <3>3. /\ Count(jobs, day, kinds) \in Nat /\ Count(jobs', day', kinds) \in Nat
          /\ RecentCeiling \in Nat /\ Cardinality(Requests \ Admitted(p, o)) \in Nat
      BY <1>2, CountedIsFinite, AdmissionAssumption, SlackIsNat
    <3>4. RecentScans(p, o) <= RecentCeiling + Cardinality(Requests \ Admitted(p, o))
      BY DEF BoundInv, CeilingBound
    <3>5. Admitted(p, o)' = Admitted(p, o)
      BY <1>1 DEF Admitted, AdmittedAs
    <3> QED  BY <3>1, <3>2, <3>3, <3>4, <3>5
  <2> QED  BY <2>1 DEF CeilingBound
<1> QED  BY <1>4, <1>5, <1>6 DEF BoundInv

-----------------------------------------------------------------------------
LEMMA InitBounds == Init => BoundInv
<1> SUFFICES ASSUME Init PROVE BoundInv
  OBVIOUS
<1>1. /\ jobs = << >> /\ targets = {}
      /\ \A r \in Requests : request[r].at = "idle"
  BY DEF Init, Idle
<1>2. FlowInv
  BY <1>1, InitAdmission DEF FlowInv
<1>3. QuotaBound
  <2>1. ASSUME NEW p \in Requests
        PROVE  QuotaScans(p) <= HigherScanLimit - 1 + Cardinality(Requests \ Charged(p))
    <3>1. QuotaScans(p) = 0
      BY <1>1, <1>2, NothingCounted
    <3>2. Cardinality(Requests \ Charged(p)) \in Nat
      BY SlackIsNat
    <3> QED  BY <3>1, <3>2, LimitIsNat
  <2> QED  BY <2>1 DEF QuotaBound
<1>4. CeilingBound
  <2>1. ASSUME NEW p \in Requests, NEW o \in Origins
        PROVE  RecentScans(p, o) <= RecentCeiling + Cardinality(Requests \ Admitted(p, o))
    <3>1. RecentScans(p, o) = 0
      BY <1>1, <1>2, NothingCounted
    <3>2. Cardinality(Requests \ Admitted(p, o)) \in Nat
      BY SlackIsNat
    <3> QED  BY <3>1, <3>2, AdmissionAssumption
  <2> QED  BY <2>1 DEF CeilingBound
<1> QED  BY <1>2, <1>3, <1>4 DEF BoundInv

LEMMA NextBounds == BoundInv /\ [Next]_vars => BoundInv'
<1> SUFFICES ASSUME BoundInv, [Next]_vars PROVE BoundInv'
  OBVIOUS
<1>1. CASE UNCHANGED vars
  <2>1. AdmissionInv'
    BY NextAdmission DEF BoundInv, FlowInv
  <2>2. UNCHANGED <<plan, projects, targets, jobs, day, request>>
    BY <1>1 DEF vars, rowVars
  <2> QED  BY <2>1, <2>2, NothingRelevant
<1>2. CASE Next
  BY <1>2, SubmitBounds, MonitorDueBounds, StepBounds, SignInBounds, VerifyOwnershipBounds,
     ProofLapsesBounds, SubscriptionEventBounds, TimePassesBounds DEF Next
<1> QED  BY <1>1, <1>2

\* The inductive invariant: the counts, and the requests charged against them.
THEOREM BoundInvariant == Spec => []BoundInv
BY InitBounds, NextBounds, PTL DEF Spec

\* submit_scan and public_submit_scan count the scans of a project and insert
\* another without a lock: at most as many as are handled at once get past
\* the SCANS_MONTHLY quota together.
THEOREM ScansAreBoundedAlways == Spec => []ScansAreBounded
<1>1. BoundInv => ScansAreBounded
  <2> SUFFICES ASSUME BoundInv PROVE ScansAreBounded
    OBVIOUS
  <2>1. AdmissionInv /\ projects \subseteq Requests
    BY DEF BoundInv, FlowInv, AdmissionInv, TypeOK
  <2>2. ASSUME NEW p \in projects
        PROVE  QuotaScans(p) <= HigherScanLimit - 1 + Cardinality(Requests)
    <3>1. p \in Requests
      BY <2>1
    <3>2. QuotaScans(p) <= HigherScanLimit - 1 + Cardinality(Requests \ Charged(p))
      BY <3>1 DEF BoundInv, QuotaBound
    <3>3. /\ Cardinality(Requests \ Charged(p)) <= Cardinality(Requests)
          /\ Cardinality(Requests \ Charged(p)) \in Nat /\ Cardinality(Requests) \in Nat
      BY AdmissionAssumption, FS_Subset, FS_CardinalityType, SlackIsNat
    <3> QED  BY <2>1, <3>2, <3>3, LimitIsNat, Typed, CountedIsFinite DEF QuotaScans
  <2> QED  BY <2>1, <2>2, ScansIsCount DEF ScansAreBounded
<1> QED  BY <1>1, BoundInvariant, PTL

\* resolve_authorization counts the scans of a target in the last 24 hours
\* and the job is inserted statements later: at most as many as are handled
\* at once exceed the ceiling, monitored scans included.
THEOREM RecentScansAreBoundedAlways == Spec => []RecentScansAreBounded
<1>1. BoundInv => RecentScansAreBounded
  <2> SUFFICES ASSUME BoundInv PROVE RecentScansAreBounded
    OBVIOUS
  <2>1. AdmissionInv /\ targets \subseteq Requests \X Origins
    BY DEF BoundInv, FlowInv, AdmissionInv, TypeOK
  <2>2. ASSUME NEW t \in targets
        PROVE  RecentScans(t[1], t[2]) <= RecentCeiling + Cardinality(Requests)
    <3>1. t[1] \in Requests /\ t[2] \in Origins
      BY <2>1
    <3>2. RecentScans(t[1], t[2])
            <= RecentCeiling + Cardinality(Requests \ Admitted(t[1], t[2]))
      BY <3>1 DEF BoundInv, CeilingBound
    <3>3. /\ Cardinality(Requests \ Admitted(t[1], t[2])) <= Cardinality(Requests)
          /\ Cardinality(Requests \ Admitted(t[1], t[2])) \in Nat
          /\ Cardinality(Requests) \in Nat
      BY AdmissionAssumption, FS_Subset, FS_CardinalityType, SlackIsNat
    <3>4. RecentScans(t[1], t[2]) \in Nat
      BY <2>1, CountsAreNat
    <3> QED  BY <3>2, <3>3, <3>4, AdmissionAssumption
  <2> QED  BY <2>2 DEF RecentScansAreBounded
<1> QED  BY <1>1, BoundInvariant, PTL
=============================================================================
