------------------------ MODULE ScanLifecycleProofs ------------------------
(***************************************************************************)
(* Proofs about ScanLifecycle and about the clients that watch a scan      *)
(* (ScanObservers), for any jobs, workers, deliveries, faults and clients. *)
(***************************************************************************)
EXTENDS ScanObservers, TLAPS

\* The initial state satisfies the inductive invariant.
LEMMA InitInv == Init => LifecycleInv
  BY LifecycleAssumption DEF Init, LifecycleInv, TypeOK, JobInv, Statuses, Effects,
     ResultEffects, Locations, StatusAt, Ahead

\* Every step keeps the types.
LEMMA TypeStep == TypeOK /\ [Next]_vars => TypeOK'
<1> SUFFICES ASSUME TypeOK, [Next]_vars PROVE TypeOK'
  OBVIOUS
<1> USE LifecycleAssumption DEF TypeOK, Statuses, Effects, Locations, Continue,
      EndRun, Issue, Fault, queueVars, dbVars
<1>1. ASSUME NEW j \in Jobs, SubmitCommit(j) PROVE TypeOK'
  BY <1>1 DEF SubmitCommit
<1>2. ASSUME NEW j \in Jobs, SubmitEnqueue(j) PROVE TypeOK'
  BY <1>2 DEF SubmitEnqueue
<1>3. ASSUME NEW j \in Jobs, SubmitLost(j) PROVE TypeOK'
  BY <1>3 DEF SubmitLost, FaultKinds
<1>4. ASSUME NEW j \in Jobs, NEW w \in Workers, Deliver(w, j) PROVE TypeOK'
  BY <1>4 DEF Deliver
<1>5. ASSUME NEW j \in Jobs, GiveUp(j) PROVE TypeOK'
  BY <1>5 DEF GiveUp
<1>6. ASSUME NEW j \in Jobs, Abort(j) PROVE TypeOK'
  BY <1>6 DEF Abort
<1>7. ASSUME NEW w \in Workers, Crash(w) PROVE TypeOK'
  BY <1>7 DEF Crash
<1>8. ASSUME NEW j \in Jobs, LoadJob(j) PROVE TypeOK'
  <2>1. CASE status[j] # "authorized"
    BY <1>8, <2>1 DEF LoadJob
  <2>2. CASE status[j] = "authorized"
    <3>1. Advance(j, "probing")
      BY <1>8, <2>2 DEF LoadJob
    <3>2. /\ stamps' \in [Jobs -> SUBSET {"started", "finished"}]
          /\ status' \in [Jobs -> Statuses \union {"none"}]
      BY <3>1 DEF Advance
    <3>3. /\ probes' = [probes EXCEPT ![j] = @ + 1]
          /\ loc' = [loc EXCEPT ![j] = "probe"]
          /\ UNCHANGED <<bundleId, entry, tries, holder, scanRow, audited,
                         bundles, submit, issued, faults>>
      BY <1>8, <2>2 DEF LoadJob
    <3>4. QED
      BY <3>2, <3>3
  <2>3. QED
    BY <2>1, <2>2
<1>9. ASSUME NEW j \in Jobs, ProbesSucceed(j) PROVE TypeOK'
  BY <1>9 DEF ProbesSucceed, Advance
<1>10. ASSUME NEW j \in Jobs, ProbesDenied(j) PROVE TypeOK'
  BY <1>10 DEF ProbesDenied, Advance
<1>11. ASSUME NEW j \in Jobs, ProbesFail(j) PROVE TypeOK'
  BY <1>11 DEF ProbesFail, Advance
<1>12. ASSUME NEW j \in Jobs, EvaluationFails(j) PROVE TypeOK'
  BY <1>12 DEF EvaluationFails, Advance
<1>13. ASSUME NEW j \in Jobs, StoreBundle(j) PROVE TypeOK'
  BY <1>13 DEF StoreBundle
<1>14. ASSUME NEW j \in Jobs, RecordResult(j) PROVE TypeOK'
  BY <1>14 DEF RecordResult
<1>15. ASSUME NEW j \in Jobs, SendReportEmail(j) PROVE TypeOK'
  <2>1. issued' \in [Jobs -> [Effects -> Nat]]
    <3>1. CASE Issue(j, "report_email")
      BY ONLY <3>1, issued \in [Jobs -> [Effects -> Nat]], j \in Jobs
         DEF Issue
    <3>2. CASE UNCHANGED issued
      BY <3>2
    <3> QED
      BY <1>15, <3>1, <3>2 DEF SendReportEmail
  <2>2. /\ UNCHANGED <<status, stamps, scanRow, bundles, audited, submit, entry,
                       tries, holder, bundleId, probes, faults>>
        /\ loc' = [loc EXCEPT ![j] = "remediate"]
    BY <1>15 DEF SendReportEmail
  <2> QED
    BY <2>1, <2>2
<1>16. ASSUME NEW j \in Jobs, EnqueueRemediations(j) PROVE TypeOK'
  BY <1>16 DEF EnqueueRemediations
<1>17. ASSUME NEW j \in Jobs, EnqueueDetectRegression(j) PROVE TypeOK'
  BY <1>17 DEF EnqueueDetectRegression
<1>18. ASSUME NEW j \in Jobs, CompleteJob(j) PROVE TypeOK'
  BY <1>18 DEF CompleteJob, Advance
<1>19. ASSUME NEW j \in Jobs, EnqueueFailedAlert(j) PROVE TypeOK'
  BY <1>19 DEF EnqueueFailedAlert
<1>20. CASE UNCHANGED vars
  BY <1>20 DEF vars
<1> QED
  BY <1>1, <1>2, <1>3, <1>4, <1>5, <1>6, <1>7, <1>8, <1>9, <1>10, <1>11, <1>12,
     <1>13, <1>14, <1>15, <1>16, <1>17, <1>18, <1>19, <1>20
     DEF Next, RunStep, DeliverToSome

\* The inductive invariant gives what the runs check.
LEMMA InvImplies ==
  LifecycleInv => /\ ResultIffReported
                  /\ EffectsAtMostOnce
                  /\ EffectsAreJustified
                  /\ NoDanglingBundle
                  /\ QueuedMeansAuthorized
<1> SUFFICES ASSUME LifecycleInv
             PROVE  /\ ResultIffReported
                    /\ EffectsAtMostOnce
                    /\ EffectsAreJustified
                    /\ NoDanglingBundle
                    /\ QueuedMeansAuthorized
  OBVIOUS
<1> USE DEF LifecycleInv, JobInv
<1>1. ResultIffReported
  BY DEF ResultIffReported
<1>2. EffectsAtMostOnce
  BY DEF EffectsAtMostOnce
<1>3. EffectsAreJustified
  <2> SUFFICES ASSUME NEW j \in Jobs
               PROVE  /\ issued[j]["record_scan_failed_alert_job"] > 0 =>
                           status[j] \in {"unreachable", "failed"} /\ scanRow[j] = NoScan
                      /\ \A e \in ResultEffects : issued[j][e] > 0 => scanRow[j] # NoScan
    BY DEF EffectsAreJustified
  <2>1. JobInv(j)
    OBVIOUS
  <2>2. issued[j]["record_scan_failed_alert_job"] > 0 =>
          status[j] \in {"unreachable", "failed"} /\ scanRow[j] = NoScan
    BY <2>1
  <2>3. ASSUME NEW e \in ResultEffects, issued[j][e] > 0
        PROVE  scanRow[j] # NoScan
    BY <2>1, <2>3
  <2>4. QED
    BY <2>2, <2>3
<1>4. NoDanglingBundle
  BY DEF NoDanglingBundle
<1>5. QueuedMeansAuthorized
  BY DEF QueuedMeansAuthorized
<1>6. QED
  BY <1>1, <1>2, <1>3, <1>4, <1>5

\* Every step keeps a run and its row in agreement.
LEMMA JobStep ==
  ASSUME LifecycleInv, [Next]_vars, NEW k \in Jobs
  PROVE  JobInv(k)'
<1> USE DEF LifecycleInv, TypeOK, JobInv, Statuses, Effects, ResultEffects,
      Locations, StatusAt, Ahead, Continue, EndRun, Issue, Fault, queueVars, dbVars
<1>1. ASSUME NEW j \in Jobs, SubmitCommit(j) PROVE JobInv(k)'
  BY <1>1 DEF SubmitCommit
<1>2. ASSUME NEW j \in Jobs, SubmitEnqueue(j) PROVE JobInv(k)'
  BY <1>2 DEF SubmitEnqueue
<1>3. ASSUME NEW j \in Jobs, SubmitLost(j) PROVE JobInv(k)'
  BY <1>3 DEF SubmitLost
<1>4. ASSUME NEW j \in Jobs, NEW w \in Workers, Deliver(w, j) PROVE JobInv(k)'
  BY LifecycleAssumption, <1>4 DEF Deliver
<1>5. ASSUME NEW j \in Jobs, GiveUp(j) PROVE JobInv(k)'
  BY <1>5 DEF GiveUp
<1>6. ASSUME NEW j \in Jobs, Abort(j) PROVE JobInv(k)'
  BY <1>6 DEF Abort
<1>7. ASSUME NEW w \in Workers, Crash(w) PROVE JobInv(k)'
  BY LifecycleAssumption, <1>7 DEF Crash
<1>8. ASSUME NEW j \in Jobs, LoadJob(j) PROVE JobInv(k)'
  <2>1. CASE status[j] # "authorized"
    BY <1>8, <2>1 DEF LoadJob
  <2>2. CASE status[j] = "authorized"
    <3>1. /\ status' = [status EXCEPT ![j] = "probing"]
          /\ probes' = [probes EXCEPT ![j] = @ + 1]
          /\ loc' = [loc EXCEPT ![j] = "probe"]
          /\ loc[j] = "load"
          /\ UNCHANGED <<bundleId, entry, tries, holder, scanRow, audited,
                         bundles, submit, issued, faults>>
      BY <1>8, <2>2 DEF LoadJob, Advance
    <3>2. CASE k # j
      BY <3>1, <3>2
    <3>3. CASE k = j
      <4>1. \A e \in Effects : issued'[k][e] = 0
        BY <2>2, <3>1, <3>3
      <4>2. status'[k] = "probing" /\ loc'[k] = "probe" /\ probes'[k] = 1
        BY <2>2, <3>1, <3>3
      <4>3. entry[k] = "held" /\ holder[k] # NoWorker /\ submit[k] = "answered"
        BY <3>1, <3>3
      <4>4. QED
        BY <2>2, <3>1, <3>3, <4>1, <4>2, <4>3
    <3>4. QED
      BY <3>2, <3>3
  <2>3. QED
    BY <2>1, <2>2
<1>9. ASSUME NEW j \in Jobs, ProbesSucceed(j) PROVE JobInv(k)'
  BY <1>9 DEF ProbesSucceed, Advance
<1>10. ASSUME NEW j \in Jobs, ProbesDenied(j) PROVE JobInv(k)'
  BY <1>10 DEF ProbesDenied, Advance
<1>11. ASSUME NEW j \in Jobs, ProbesFail(j) PROVE JobInv(k)'
  BY <1>11 DEF ProbesFail, Advance
<1>12. ASSUME NEW j \in Jobs, EvaluationFails(j) PROVE JobInv(k)'
  BY <1>12 DEF EvaluationFails, Advance
<1>13. ASSUME NEW j \in Jobs, StoreBundle(j) PROVE JobInv(k)'
  BY <1>13 DEF StoreBundle
<1>14. ASSUME NEW j \in Jobs, RecordResult(j) PROVE JobInv(k)'
  <2>1. [bundle |-> bundleId[j]] # NoScan
    BY LifecycleAssumption
  <2>2. QED
    BY <1>14, <2>1 DEF RecordResult
<1>15. ASSUME NEW j \in Jobs, SendReportEmail(j) PROVE JobInv(k)'
  <2>1. /\ loc[j] = "email"
        /\ loc' = [loc EXCEPT ![j] = "remediate"]
        /\ UNCHANGED <<status, stamps, scanRow, audited, bundles, submit, entry,
                       tries, holder, bundleId, probes, faults>>
    BY <1>15 DEF SendReportEmail
  <2>2. CASE UNCHANGED issued
    BY <2>1, <2>2
  <2>3. CASE Issue(j, "report_email")
    BY <2>1, <2>3
  <2>4. QED
    BY <1>15, <2>2, <2>3 DEF SendReportEmail
<1>16. ASSUME NEW j \in Jobs, EnqueueRemediations(j) PROVE JobInv(k)'
  BY <1>16 DEF EnqueueRemediations
<1>17. ASSUME NEW j \in Jobs, EnqueueDetectRegression(j) PROVE JobInv(k)'
  BY <1>17 DEF EnqueueDetectRegression
<1>18. ASSUME NEW j \in Jobs, CompleteJob(j) PROVE JobInv(k)'
  BY <1>18 DEF CompleteJob, Advance
<1>19. ASSUME NEW j \in Jobs, EnqueueFailedAlert(j) PROVE JobInv(k)'
  BY <1>19 DEF EnqueueFailedAlert
<1>20. CASE UNCHANGED vars
  BY <1>20 DEF vars
<1> QED
  BY <1>1, <1>2, <1>3, <1>4, <1>5, <1>6, <1>7, <1>8, <1>9, <1>10, <1>11, <1>12, <1>13, <1>14, <1>15, <1>16, <1>17, <1>18, <1>19, <1>20
     DEF Next, RunStep, DeliverToSome

\* Every step keeps the inductive invariant.
LEMMA LifecycleStep == LifecycleInv /\ [Next]_vars => LifecycleInv'
<1> SUFFICES ASSUME LifecycleInv, [Next]_vars PROVE LifecycleInv'
  OBVIOUS
<1>1. TypeOK'
  BY TypeStep DEF LifecycleInv
<1>2. \A k \in Jobs : JobInv(k)'
  BY JobStep
<1> QED
  BY <1>1, <1>2 DEF LifecycleInv

\* The types, and the agreement of every run with its row, hold in every
\* reachable state.
THEOREM LifecycleInvariant == Spec => []LifecycleInv
  BY InitInv, LifecycleStep, PTL DEF Spec

\* A result exists exactly for the jobs whose status says so, for any number
\* of jobs, workers and faults.
THEOREM ResultIffReportedAlways == Spec => []ResultIffReported
  BY LifecycleInvariant, InvImplies, PTL

\* A job is probed, and each of its effects happens, at most once, whatever
\* arq redelivers.
THEOREM EffectsAtMostOnceAlways == Spec => []EffectsAtMostOnce
  BY LifecycleInvariant, InvImplies, PTL

\* Follow-up jobs and e-mails are justified by what is committed.
THEOREM EffectsAreJustifiedAlways == Spec => []EffectsAreJustified
  BY LifecycleInvariant, InvImplies, PTL

\* A committed bundle_id points at a stored evidence bundle.
THEOREM NoDanglingBundleAlways == Spec => []NoDanglingBundle
  BY LifecycleInvariant, InvImplies, PTL

\* The queue only holds committed and audited jobs.
THEOREM QueuedMeansAuthorizedAlways == Spec => []QueuedMeansAuthorized
  BY LifecycleInvariant, InvImplies, PTL

-----------------------------------------------------------------------------
(* Steps as the rows and the outside see them.                             *)

\* The status of j goes from one value to another, nothing is issued.
Moves(j, from, to) ==
  /\ status[j] = from
  /\ status' = [status EXCEPT ![j] = to]
  /\ UNCHANGED issued

\* Every step is one of: invisible, a move of one job's status, an effect.
LEMMA VisibleStep ==
  ASSUME LifecycleInv, [Next]_vars
  PROVE  \/ UNCHANGED <<status, issued>>
         \/ \E j \in Jobs :
              \/ Moves(j, "none", "authorized")
              \/ Moves(j, "authorized", "probing")
              \/ Moves(j, "probing", "evaluating")
              \/ Moves(j, "probing", "unreachable")
              \/ Moves(j, "probing", "failed")
              \/ Moves(j, "evaluating", "failed")
              \/ Moves(j, "evaluating", "reporting")
              \/ Moves(j, "reporting", "complete")
         \/ \E j \in Jobs, e \in Effects :
              /\ issued[j][e] = 0
              /\ e \in ResultEffects => status[j] = "reporting"
              /\ e \notin ResultEffects => status[j] \in {"unreachable", "failed"}
              /\ Issue(j, e)
              /\ UNCHANGED status
<1> DEFINE Goal ==
      \/ UNCHANGED <<status, issued>>
      \/ \E j \in Jobs :
           \/ Moves(j, "none", "authorized")
           \/ Moves(j, "authorized", "probing")
           \/ Moves(j, "probing", "evaluating")
           \/ Moves(j, "probing", "unreachable")
           \/ Moves(j, "probing", "failed")
           \/ Moves(j, "evaluating", "failed")
           \/ Moves(j, "evaluating", "reporting")
           \/ Moves(j, "reporting", "complete")
      \/ \E j \in Jobs, e \in Effects :
           /\ issued[j][e] = 0
           /\ e \in ResultEffects => status[j] = "reporting"
           /\ e \notin ResultEffects => status[j] \in {"unreachable", "failed"}
           /\ Issue(j, e)
           /\ UNCHANGED status
<1> USE DEF dbVars
<1>1. ASSUME NEW j \in Jobs, SubmitCommit(j) PROVE Goal
  <2>1. status[j] = "none"
    BY <1>1 DEF SubmitCommit, LifecycleInv, JobInv
  <2>2. Moves(j, "none", "authorized")
    BY <1>1, <2>1 DEF SubmitCommit, Moves
  <2>3. QED
    BY <2>2
<1>2. ASSUME NEW j \in Jobs,
             \/ SubmitEnqueue(j) \/ SubmitLost(j) \/ GiveUp(j) \/ Abort(j)
             \/ StoreBundle(j) \/ DeliverToSome(j)
      PROVE  Goal
  BY <1>2 DEF SubmitEnqueue, SubmitLost, GiveUp, Abort, StoreBundle,
              DeliverToSome, Deliver
<1>3. ASSUME NEW w \in Workers, Crash(w) PROVE Goal
  BY <1>3 DEF Crash
<1>4. ASSUME NEW j \in Jobs, LoadJob(j) PROVE Goal
  <2>1. CASE status[j] # "authorized"
    BY <1>4, <2>1 DEF LoadJob
  <2>2. CASE status[j] = "authorized"
    <3>1. Moves(j, "authorized", "probing")
      BY <1>4, <2>2 DEF LoadJob, Advance, Moves
    <3>2. QED
      BY <3>1
  <2>3. QED
    BY <2>1, <2>2
<1>5. ASSUME NEW j \in Jobs,
             ProbesSucceed(j) \/ ProbesDenied(j) \/ ProbesFail(j)
      PROVE  Goal
  <2>1. status[j] = "probing"
    BY <1>5 DEF ProbesSucceed, ProbesDenied, ProbesFail, LifecycleInv, JobInv, StatusAt
  <2>2. \/ Moves(j, "probing", "evaluating")
        \/ Moves(j, "probing", "unreachable")
        \/ Moves(j, "probing", "failed")
    BY <1>5, <2>1 DEF ProbesSucceed, ProbesDenied, ProbesFail, Advance, Moves
  <2>3. QED
    BY <2>2
<1>6. ASSUME NEW j \in Jobs, EvaluationFails(j) \/ RecordResult(j) PROVE Goal
  <2>1. status[j] = "evaluating"
    BY <1>6 DEF EvaluationFails, RecordResult, LifecycleInv, JobInv, StatusAt
  <2>2. Moves(j, "evaluating", "failed") \/ Moves(j, "evaluating", "reporting")
    BY <1>6, <2>1 DEF EvaluationFails, RecordResult, Advance, Moves
  <2>3. QED
    BY <2>2
<1>7. ASSUME NEW j \in Jobs, CompleteJob(j) PROVE Goal
  <2>1. status[j] = "reporting"
    BY <1>7 DEF CompleteJob, LifecycleInv, JobInv, StatusAt
  <2>2. Moves(j, "reporting", "complete")
    BY <1>7, <2>1 DEF CompleteJob, Advance, Moves
  <2>3. QED
    BY <2>2
<1>8. ASSUME NEW j \in Jobs,
             SendReportEmail(j) \/ EnqueueRemediations(j) \/ EnqueueDetectRegression(j)
      PROVE  Goal
  <2>1. /\ status[j] = "reporting"
        /\ UNCHANGED status
    BY <1>8 DEF SendReportEmail, EnqueueRemediations, EnqueueDetectRegression,
                LifecycleInv, JobInv, StatusAt
  <2>2. CASE UNCHANGED issued
    BY <2>1, <2>2
  <2>3. CASE ~ UNCHANGED issued
    <3>1. PICK e \in ResultEffects : issued[j][e] = 0 /\ Issue(j, e)
      BY <1>8, <2>3 DEF SendReportEmail, EnqueueRemediations, EnqueueDetectRegression,
                        LifecycleInv, JobInv, Ahead, ResultEffects, Effects
    <3>2. e \in Effects
      BY DEF ResultEffects
    <3>3. QED
      BY <2>1, <3>1, <3>2
  <2>4. QED
    BY <2>2, <2>3
<1>9. ASSUME NEW j \in Jobs, EnqueueFailedAlert(j) PROVE Goal
  <2> DEFINE e == "record_scan_failed_alert_job"
  <2>1. /\ e \in Effects
        /\ e \notin ResultEffects
        /\ issued[j][e] = 0
        /\ status[j] \in {"unreachable", "failed"}
        /\ Issue(j, e)
        /\ UNCHANGED status
    BY <1>9 DEF EnqueueFailedAlert, LifecycleInv, JobInv, StatusAt, Ahead,
                Effects, ResultEffects
  <2>2. QED
    BY <2>1
<1>10. CASE UNCHANGED vars
  BY <1>10 DEF vars
<1>11. QED
  BY <1>1, <1>2, <1>3, <1>4, <1>5, <1>6, <1>7, <1>8, <1>9, <1>10
     DEF Next, RunStep

-----------------------------------------------------------------------------
(* Settled jobs.                                                           *)

\* What the rows of k say once its status is terminal.
Final(k) ==
  status[k] \in TerminalStatuses =>
    /\ status'[k] = status[k]
    /\ stamps'[k] = stamps[k]
    /\ scanRow'[k] = scanRow[k]

\* No step touches the rows of a settled job: a run that is still going has a
\* job that is not settled, or has only its alert left.
LEMMA FinalStep ==
  ASSUME LifecycleInv, [Next]_vars, NEW k \in Jobs
  PROVE  Final(k)
<1> USE DEF Final, TerminalStatuses, LifecycleInv, TypeOK, JobInv, StatusAt, dbVars
<1>1. ASSUME NEW j \in Jobs, SubmitCommit(j) PROVE Final(k)
  BY <1>1 DEF SubmitCommit
<1>2. ASSUME NEW j \in Jobs,
             \/ SubmitEnqueue(j) \/ SubmitLost(j) \/ GiveUp(j) \/ Abort(j)
             \/ StoreBundle(j) \/ DeliverToSome(j)
      PROVE  Final(k)
  BY <1>2 DEF SubmitEnqueue, SubmitLost, GiveUp, Abort, StoreBundle,
              DeliverToSome, Deliver
<1>3. ASSUME NEW w \in Workers, Crash(w) PROVE Final(k)
  BY <1>3 DEF Crash
<1>4. ASSUME NEW j \in Jobs, LoadJob(j) PROVE Final(k)
  BY <1>4 DEF LoadJob, Advance
<1>5. ASSUME NEW j \in Jobs,
             ProbesSucceed(j) \/ ProbesDenied(j) \/ ProbesFail(j)
      PROVE  Final(k)
  BY <1>5 DEF ProbesSucceed, ProbesDenied, ProbesFail, Advance
<1>6. ASSUME NEW j \in Jobs, EvaluationFails(j) \/ CompleteJob(j) PROVE Final(k)
  BY <1>6 DEF EvaluationFails, CompleteJob, Advance
<1>7. ASSUME NEW j \in Jobs, RecordResult(j) PROVE Final(k)
  BY <1>7 DEF RecordResult
<1>8. ASSUME NEW j \in Jobs,
             \/ SendReportEmail(j) \/ EnqueueRemediations(j)
             \/ EnqueueDetectRegression(j) \/ EnqueueFailedAlert(j)
      PROVE  Final(k)
  BY <1>8 DEF SendReportEmail, EnqueueRemediations, EnqueueDetectRegression,
              EnqueueFailedAlert
<1>9. CASE UNCHANGED vars
  BY <1>9 DEF vars
<1>10. QED
  BY <1>1, <1>2, <1>3, <1>4, <1>5, <1>6, <1>7, <1>8, <1>9 DEF Next, RunStep

\* A settled job keeps its status, its timestamps and its result for ever.
THEOREM SettledIsFinalAlways == Spec => SettledIsFinal
<1>1. LifecycleInv /\ [Next]_vars => [\A j \in Jobs : Final(j)]_vars
  BY FinalStep
<1>2. Spec => [][\A j \in Jobs : Final(j)]_vars
  BY <1>1, LifecycleInvariant, PTL DEF Spec
<1>3. QED
  BY <1>2 DEF SettledIsFinal, Final

-----------------------------------------------------------------------------
(* Refinement.                                                             *)

\* The initial state of the code is the initial state of the contract.
LEMMA ContractInit == Init => Contract!Init
  BY DEF Init, Contract!Init, PhaseOf, Effects, ResultEffects, Contract!Effects

\* A move of the status is the move of the phase it maps to.
LEMMA PhaseMoves ==
  ASSUME TypeOK, NEW j \in Jobs, NEW from, NEW to, Moves(j, from, to)
  PROVE  Contract!Move(j, PhaseOf(from), PhaseOf(to))
<1>1. status \in [Jobs -> Statuses \union {"none"}]
  BY DEF TypeOK
<1>2. \A k \in Jobs : status'[k] = IF k = j THEN to ELSE status[k]
  BY <1>1 DEF Moves
<1> DEFINE phase == [k \in Jobs |-> PhaseOf(status[k])]
<1>3. [k \in Jobs |-> PhaseOf(status'[k])] = [phase EXCEPT ![j] = PhaseOf(to)]
  BY <1>2
<1>4. phase[j] = PhaseOf(from)
  BY DEF Moves
<1>5. QED
  BY <1>3, <1>4 DEF Moves, Contract!Move

\* Every step of the code is a step of the contract or leaves it alone.
LEMMA ContractStep ==
  ASSUME LifecycleInv, [Next]_vars
  PROVE  [Contract!Next]_(Contract!contractVars)
<1> USE DEF LifecycleInv
<1>1. CASE UNCHANGED <<status, issued>>
  BY <1>1 DEF Contract!contractVars
<1>2. ASSUME NEW j \in Jobs, Moves(j, "none", "authorized")
      PROVE  Contract!Next
  BY <1>2, PhaseMoves DEF PhaseOf, Contract!Next, Contract!Accept
<1>3. ASSUME NEW j \in Jobs, Moves(j, "authorized", "probing")
      PROVE  Contract!Next
  BY <1>3, PhaseMoves DEF PhaseOf, Contract!Next, Contract!Claim
<1>4. ASSUME NEW j \in Jobs, Moves(j, "probing", "evaluating")
      PROVE  UNCHANGED Contract!contractVars
  <2>1. Contract!Move(j, "working", "working")
    BY <1>4, PhaseMoves DEF PhaseOf
  <2>2. QED
    BY <2>1 DEF Contract!Move, Contract!contractVars
<1>5. ASSUME NEW j \in Jobs,
             \/ Moves(j, "probing", "unreachable")
             \/ Moves(j, "probing", "failed")
             \/ Moves(j, "evaluating", "failed")
      PROVE  Contract!Next
  <2>1. Contract!Move(j, "working", "dead")
    BY <1>5, PhaseMoves DEF PhaseOf
  <2>2. QED
    BY <2>1 DEF Contract!Next, Contract!Die
<1>6. ASSUME NEW j \in Jobs, Moves(j, "evaluating", "reporting")
      PROVE  Contract!Next
  BY <1>6, PhaseMoves DEF PhaseOf, Contract!Next, Contract!Publish
<1>7. ASSUME NEW j \in Jobs, Moves(j, "reporting", "complete")
      PROVE  Contract!Next
  BY <1>7, PhaseMoves DEF PhaseOf, Contract!Next, Contract!Close
<1>8. ASSUME NEW j \in Jobs, NEW e \in Effects,
             issued[j][e] = 0,
             e \in ResultEffects => status[j] = "reporting",
             e \notin ResultEffects => status[j] \in {"unreachable", "failed"},
             Issue(j, e), UNCHANGED status
      PROVE  Contract!Next
  <2>1. issued' = [issued EXCEPT ![j][e] = 1]
    BY <1>8 DEF Issue, TypeOK
  <2>2. e \in ResultEffects => PhaseOf(status[j]) = "published"
    BY <1>8 DEF PhaseOf
  <2>3. e \in {"record_scan_failed_alert_job"} => PhaseOf(status[j]) = "dead"
    BY <1>8 DEF PhaseOf, ResultEffects
  <2>4. Contract!Tell(j, e)
    BY <1>8, <2>1, <2>2, <2>3 DEF Contract!Tell
  <2>5. e \in Contract!Effects
    BY DEF Effects, ResultEffects, Contract!Effects
  <2>6. QED
    BY <2>4, <2>5 DEF Contract!Next
<1>9. QED
  BY VisibleStep, <1>1, <1>2, <1>3, <1>4, <1>5, <1>6, <1>7, <1>8

\* The scan pipeline implements the contract, for any jobs, workers,
\* deliveries and faults.
THEOREM ContractImplemented == Spec => ImplementsContract
<1>1. Init => Contract!Init
  BY ContractInit
<1>2. LifecycleInv /\ [Next]_vars => [Contract!Next]_(Contract!contractVars)
  BY ContractStep
<1>3. QED
  BY <1>1, <1>2, LifecycleInvariant, PTL DEF Spec, ImplementsContract, Contract!Spec

-----------------------------------------------------------------------------
(* The clients that watch: ScanObservers.                                  *)

\* The composition only adds steps that leave the scan alone.
THEOREM ObserversKeepLifecycle == ObserversSpec => Spec
<1>1. ObserversInit => Init
  BY DEF ObserversInit
<1>2. [ObserversNext]_allVars => [Next]_vars
  BY DEF ObserversNext, allVars, vars
<1>3. QED
  BY <1>1, <1>2, PTL DEF ObserversSpec, Spec

\* The states of a status request and of an event stream.
RequestStates ==
  {NoRequest}
    \union [at : {"scan"}, job : Jobs, status : Statuses, finished : BOOLEAN]
    \union [at : {"answered"}, job : Jobs, status : Statuses, finished : BOOLEAN,
            scored : BOOLEAN]

OpenedStreams ==
  [at : {"open", "closed", "timed out"}, job : Jobs,
   last : Statuses \union {"none"}, polls : Nat, events : Seq(Statuses)]

StreamStates == {NoStream} \union OpenedStreams

ObserversTypeOK ==
  /\ request \in [Readers -> RequestStates]
  /\ stream \in [Streams -> StreamStates]

\* A transition to a terminal status sets finished_at.
SettledIsStamped ==
  \A j \in Jobs : status[j] \in TerminalStatuses => "finished" \in stamps[j]

\* What a request has read of the job stays true of the rows while it goes on
\* to read the result: the job may have moved, but only from there.
AnswerInv(r) ==
  LET a == request[r] IN
  a.at \in {"scan", "answered"} =>
    /\ a.status \in {"reporting", "complete"} => scanRow[a.job] # NoScan
    /\ a.status \in {"failed", "unreachable"} =>
         status[a.job] = a.status /\ scanRow[a.job] = NoScan /\ a.finished
    /\ a.at = "answered" /\ a.status \in {"reporting", "complete"} => a.scored
    /\ a.at = "answered" /\ a.status \in {"failed", "unreachable"} => ~a.scored

\* What a stream has told is a part of the job's history, in order, that ends
\* on the status it saw last; a stream that closed saw a terminal one.
StreamInv(s) ==
  LET x == stream[s] IN
  x.at # "idle" =>
    /\ status[x.job] # "none"
    /\ x.events = <<>> => x.last = "none"
    /\ x.events # <<>> =>
         /\ x.last = x.events[Len(x.events)]
         /\ x.last = status[x.job]
              \/ (x.last \in DOMAIN Later /\ status[x.job] \in Later[x.last])
    /\ \A i, k \in DOMAIN x.events :
         i < k => x.events[i] \in DOMAIN Later /\ x.events[k] \in Later[x.events[i]]
    /\ x.at = "closed" =>
         x.events # <<>> /\ x.last = status[x.job] /\ x.last \in TerminalStatuses

ObserversInv ==
  /\ LifecycleInv
  /\ SettledIsStamped
  /\ ObserversTypeOK
  /\ \A r \in Readers : AnswerInv(r)
  /\ \A s \in Streams : StreamInv(s)

\* What a request or a stream holds when it is not idle.
LEMMA RequestTypes ==
  ASSUME NEW a \in RequestStates, a.at \in {"scan", "answered"}
  PROVE  a.job \in Jobs /\ a.status \in Statuses /\ a.finished \in BOOLEAN
  BY DEF RequestStates, NoRequest

LEMMA StreamTypes ==
  ASSUME NEW x \in StreamStates, x.at # "idle"
  PROVE  x \in OpenedStreams
  BY DEF StreamStates, NoStream

\* The initial state satisfies the inductive invariant.
LEMMA ObserversInitInv == ObserversInit => ObserversInv
<1> SUFFICES ASSUME ObserversInit PROVE ObserversInv
  OBVIOUS
<1>1. LifecycleInv
  BY InitInv DEF ObserversInit
<1>2. SettledIsStamped
  BY DEF ObserversInit, Init, SettledIsStamped, TerminalStatuses
<1>3. /\ \A r \in Readers : request[r] = NoRequest
      /\ \A s \in Streams : stream[s] = NoStream
  BY DEF ObserversInit
<1>4. ObserversTypeOK
  BY DEF ObserversInit, ObserversTypeOK, RequestStates, StreamStates
<1>5. \A r \in Readers : AnswerInv(r)
  BY <1>3 DEF AnswerInv, NoRequest
<1>6. \A s \in Streams : StreamInv(s)
  BY <1>3 DEF StreamInv, NoStream
<1> QED
  BY <1>1, <1>2, <1>4, <1>5, <1>6 DEF ObserversInv

\* The table of later statuses, row by row.
LEMMA LaterRows ==
  /\ DOMAIN Later = {"authorized", "probing", "evaluating", "reporting"}
  /\ Later["authorized"] = {"probing", "evaluating", "reporting", "complete",
                            "unreachable", "failed"}
  /\ Later["probing"] = {"evaluating", "reporting", "complete", "unreachable", "failed"}
  /\ Later["evaluating"] = {"reporting", "complete", "failed"}
  /\ Later["reporting"] = {"complete"}
  BY DEF Later

\* Later is transitive: a status later than a later one is later.
LEMMA LaterTransitive ==
  ASSUME NEW a \in DOMAIN Later, NEW b \in DOMAIN Later, NEW c,
         b \in Later[a], c \in Later[b]
  PROVE  c \in Later[a]
  BY LaterRows

\* A step leaves a job's status alone, creates it, or takes it to a later one.
LEMMA StatusMovesOn ==
  ASSUME LifecycleInv, [Next]_vars, NEW k \in Jobs
  PROVE  \/ status'[k] = status[k]
         \/ status[k] = "none" /\ status'[k] = "authorized"
         \/ status[k] \in DOMAIN Later /\ status'[k] \in Later[status[k]]
<1> DEFINE Goal == \/ status'[k] = status[k]
                   \/ status[k] = "none" /\ status'[k] = "authorized"
                   \/ status[k] \in DOMAIN Later /\ status'[k] \in Later[status[k]]
<1>1. status \in [Jobs -> Statuses \union {"none"}]
  BY DEF LifecycleInv, TypeOK
<1>2. ASSUME NEW j \in Jobs, NEW from, NEW to, Moves(j, from, to),
             \/ from = "none" /\ to = "authorized"
             \/ from \in DOMAIN Later /\ to \in Later[from]
      PROVE  Goal
  BY <1>1, <1>2 DEF Moves
<1>3. CASE UNCHANGED status
  BY <1>3
<1>4. ASSUME NEW j \in Jobs,
             \/ Moves(j, "none", "authorized")
             \/ Moves(j, "authorized", "probing")
             \/ Moves(j, "probing", "evaluating")
             \/ Moves(j, "probing", "unreachable")
             \/ Moves(j, "probing", "failed")
             \/ Moves(j, "evaluating", "failed")
             \/ Moves(j, "evaluating", "reporting")
             \/ Moves(j, "reporting", "complete")
      PROVE  Goal
  BY <1>2, <1>4, LaterRows
<1> QED
  BY <1>3, <1>4, VisibleStep

\* Every step that settles a job stamps it.
LEMMA StampStep ==
  ASSUME LifecycleInv, SettledIsStamped, [Next]_vars
  PROVE  SettledIsStamped'
<1> SUFFICES ASSUME NEW k \in Jobs, status'[k] \in TerminalStatuses
             PROVE  "finished" \in stamps'[k]
  BY DEF SettledIsStamped
<1>1. CASE status[k] \in TerminalStatuses
  BY <1>1, FinalStep DEF Final, SettledIsStamped
<1>2. CASE status[k] \notin TerminalStatuses
  <2> USE <1>2 DEF TerminalStatuses, LifecycleInv, TypeOK, dbVars
  <2>1. ASSUME NEW j \in Jobs, SubmitCommit(j) PROVE "finished" \in stamps'[k]
    BY <2>1 DEF SubmitCommit
  <2>2. ASSUME NEW j \in Jobs,
               \/ SubmitEnqueue(j) \/ SubmitLost(j) \/ GiveUp(j) \/ Abort(j)
               \/ StoreBundle(j) \/ DeliverToSome(j)
        PROVE  "finished" \in stamps'[k]
    BY <2>2 DEF SubmitEnqueue, SubmitLost, GiveUp, Abort, StoreBundle,
                DeliverToSome, Deliver
  <2>3. ASSUME NEW w \in Workers, Crash(w) PROVE "finished" \in stamps'[k]
    BY <2>3 DEF Crash
  <2>4. ASSUME NEW j \in Jobs, NEW to, Advance(j, to) PROVE "finished" \in stamps'[k]
    BY <2>4 DEF Advance
  <2>5. ASSUME NEW j \in Jobs, LoadJob(j) PROVE "finished" \in stamps'[k]
    BY <2>4, <2>5 DEF LoadJob
  <2>6. ASSUME NEW j \in Jobs,
               \/ ProbesSucceed(j) \/ ProbesDenied(j) \/ ProbesFail(j)
               \/ EvaluationFails(j) \/ CompleteJob(j)
        PROVE  "finished" \in stamps'[k]
    BY <2>4, <2>6 DEF ProbesSucceed, ProbesDenied, ProbesFail, EvaluationFails,
                      CompleteJob
  <2>7. ASSUME NEW j \in Jobs, RecordResult(j) PROVE "finished" \in stamps'[k]
    BY <2>7 DEF RecordResult
  <2>8. ASSUME NEW j \in Jobs,
               \/ SendReportEmail(j) \/ EnqueueRemediations(j)
               \/ EnqueueDetectRegression(j) \/ EnqueueFailedAlert(j)
        PROVE  "finished" \in stamps'[k]
    BY <2>8 DEF SendReportEmail, EnqueueRemediations, EnqueueDetectRegression,
                EnqueueFailedAlert
  <2>9. CASE UNCHANGED vars
    BY <2>9 DEF vars
  <2> QED
    BY <2>1, <2>2, <2>3, <2>5, <2>6, <2>7, <2>8, <2>9 DEF Next, RunStep
<1> QED
  BY <1>1, <1>2

\* A step of the scan leaves what the requests and the streams know true.
LEMMA ScanStepKeepsObservers ==
  ASSUME ObserversInv, Next, UNCHANGED observerVars
  PROVE  ObserversInv'
<1>1. LifecycleInv /\ LifecycleInv'
  BY LifecycleStep DEF ObserversInv
<1>2. SettledIsStamped'
  BY StampStep DEF ObserversInv
<1>3. request' = request /\ stream' = stream
  BY DEF observerVars
<1>4. ObserversTypeOK /\ ObserversTypeOK'
  BY <1>3 DEF ObserversInv, ObserversTypeOK
<1>5. ASSUME NEW r \in Readers PROVE AnswerInv(r)'
  <2> DEFINE a == request[r]
  <2> SUFFICES ASSUME a.at \in {"scan", "answered"} PROVE AnswerInv(r)'
    BY <1>3 DEF AnswerInv
  <2>1. a.job \in Jobs
    BY RequestTypes, <1>4 DEF ObserversTypeOK
  <2>2. scanRow[a.job] # NoScan => scanRow'[a.job] # NoScan
    <3>1. scanRow[a.job] # NoScan <=> status[a.job] \in {"reporting", "complete"}
      BY <1>1, <2>1 DEF LifecycleInv, JobInv
    <3>2. scanRow'[a.job] # NoScan <=> status'[a.job] \in {"reporting", "complete"}
      BY <1>1, <2>1 DEF LifecycleInv, JobInv
    <3> QED
      BY <1>1, <2>1, <3>1, <3>2, StatusMovesOn, LaterRows
  <2>3. status[a.job] \in {"failed", "unreachable"} =>
          status'[a.job] = status[a.job] /\ scanRow'[a.job] = scanRow[a.job]
    BY <1>1, <2>1, FinalStep DEF Final, TerminalStatuses
  <2>4. AnswerInv(r)
    BY DEF ObserversInv
  <2> QED
    BY <1>3, <2>2, <2>3, <2>4 DEF AnswerInv
<1>6. ASSUME NEW s \in Streams PROVE StreamInv(s)'
  <2> DEFINE x == stream[s]
  <2> SUFFICES ASSUME x.at # "idle" PROVE StreamInv(s)'
    BY <1>3 DEF StreamInv
  <2>1. x.job \in Jobs
    <3>1. x \in OpenedStreams
      BY StreamTypes, <1>4 DEF ObserversTypeOK
    <3> QED
      BY <3>1 DEF OpenedStreams
  <2>2. StreamInv(s)
    BY DEF ObserversInv
  <2>3. \/ status'[x.job] = status[x.job]
        \/ status[x.job] \in DOMAIN Later /\ status'[x.job] \in Later[status[x.job]]
    BY <1>1, <2>1, <2>2, StatusMovesOn DEF StreamInv
  <2>4. status'[x.job] # "none"
    BY <2>2, <2>3, LaterRows DEF StreamInv
  <2>5. ASSUME x.last = status[x.job]
                 \/ (x.last \in DOMAIN Later /\ status[x.job] \in Later[x.last])
        PROVE  x.last = status'[x.job]
                 \/ (x.last \in DOMAIN Later /\ status'[x.job] \in Later[x.last])
    BY <2>3, <2>5, LaterTransitive
  <2>6. status[x.job] \in TerminalStatuses => status'[x.job] = status[x.job]
    BY <1>1, <2>1, FinalStep DEF Final
  <2> QED
    BY <1>3, <2>2, <2>4, <2>5, <2>6 DEF StreamInv
<1> QED
  BY <1>1, <1>2, <1>4, <1>3, <1>5, <1>6 DEF ObserversInv

\* get_scan_job reads the row of a job.
LEMMA ReadJobStep ==
  ASSUME ObserversInv, NEW r \in Readers, NEW j \in Jobs, ReadJob(r, j), UNCHANGED vars
  PROVE  ObserversInv'
<1> DEFINE a == [at |-> "scan", job |-> j, status |-> status[j],
                 finished |-> "finished" \in stamps[j]]
<1>1. LifecycleInv /\ LifecycleInv'
  BY LifecycleStep DEF ObserversInv
<1>2. /\ request' = [request EXCEPT ![r] = a]
      /\ stream' = stream /\ status' = status /\ stamps' = stamps /\ scanRow' = scanRow
      /\ status[j] \in Statuses
  BY <1>1 DEF ReadJob, vars, LifecycleInv, TypeOK
<1>3. a \in RequestStates
  BY <1>2 DEF RequestStates
<1>4. ObserversTypeOK'
  BY <1>2, <1>3 DEF ObserversInv, ObserversTypeOK
<1>5. request'[r] = a /\ \A q \in Readers \ {r} : request'[q] = request[q]
  BY <1>2 DEF ObserversInv, ObserversTypeOK
<1>6. AnswerInv(r)'
  <2>1. status[j] \in {"reporting", "complete"} <=> scanRow[j] # NoScan
    BY <1>1 DEF LifecycleInv, JobInv
  <2>2. status[j] \in {"failed", "unreachable"} => a.finished
    BY DEF ObserversInv, SettledIsStamped, TerminalStatuses
  <2>3. a.at = "scan" /\ a.job = j /\ a.status = status[j]
    OBVIOUS
  <2> HIDE DEF a
  <2> QED
    BY <1>2, <1>5, <2>1, <2>2, <2>3 DEF AnswerInv
<1>7. \A q \in Readers : AnswerInv(q)'
  <2> HIDE DEF a
  <2> QED
    BY <1>2, <1>5, <1>6 DEF ObserversInv, AnswerInv
<1>8. SettledIsStamped' /\ \A s \in Streams : StreamInv(s)'
  BY <1>2 DEF ObserversInv, SettledIsStamped, StreamInv
<1> QED
  BY <1>1, <1>4, <1>7, <1>8 DEF ObserversInv

\* get_scan_by_job_id finds the row exactly when the status that was read says
\* that there is one, or when the job has come so far since.
LEMMA ReadScanStep ==
  ASSUME ObserversInv, NEW r \in Readers, ReadScan(r), UNCHANGED vars
  PROVE  ObserversInv'
<1> DEFINE a == request[r]
           b == [at |-> "answered", job |-> a.job, status |-> a.status,
                 finished |-> a.finished, scored |-> scanRow[a.job] # NoScan]
<1>1. LifecycleInv'
  BY LifecycleStep DEF ObserversInv
<1>2. /\ request' = [request EXCEPT ![r] = b]
      /\ a.at = "scan"
      /\ stream' = stream /\ status' = status /\ stamps' = stamps /\ scanRow' = scanRow
  BY DEF ReadScan, vars
<1>3. a \in RequestStates
  BY DEF ObserversInv, ObserversTypeOK
<1>4. b \in RequestStates
  BY <1>2, <1>3, RequestTypes DEF RequestStates
<1>5. ObserversTypeOK'
  BY <1>2, <1>4 DEF ObserversInv, ObserversTypeOK
<1>6. request'[r] = b /\ \A q \in Readers \ {r} : request'[q] = request[q]
  BY <1>2 DEF ObserversInv, ObserversTypeOK
<1>7. AnswerInv(r)
  BY DEF ObserversInv
<1>8. /\ b.at = "answered" /\ b.job = a.job /\ b.status = a.status
      /\ b.finished = a.finished
      /\ b.scored <=> scanRow[a.job] # NoScan
  OBVIOUS
<1> HIDE DEF a, b
<1>9. AnswerInv(r)'
  BY <1>2, <1>6, <1>7, <1>8 DEF AnswerInv, a
<1>10. \A q \in Readers : AnswerInv(q)'
  BY <1>2, <1>6, <1>9 DEF ObserversInv, AnswerInv
<1>11. SettledIsStamped' /\ \A s \in Streams : StreamInv(s)'
  BY <1>2 DEF ObserversInv, SettledIsStamped, StreamInv
<1> QED
  BY <1>1, <1>5, <1>10, <1>11 DEF ObserversInv

\* The client forgets its answer.
LEMMA ForgetStep ==
  ASSUME ObserversInv, NEW r \in Readers, Forget(r), UNCHANGED vars
  PROVE  ObserversInv'
<1>1. LifecycleInv'
  BY LifecycleStep DEF ObserversInv
<1>2. /\ request' = [request EXCEPT ![r] = NoRequest]
      /\ stream' = stream /\ status' = status /\ stamps' = stamps /\ scanRow' = scanRow
  BY DEF Forget, vars
<1>3. ObserversTypeOK'
  BY <1>2 DEF ObserversInv, ObserversTypeOK, RequestStates
<1>4. request'[r] = NoRequest /\ \A q \in Readers \ {r} : request'[q] = request[q]
  BY <1>2 DEF ObserversInv, ObserversTypeOK
<1>5. \A q \in Readers : AnswerInv(q)'
  BY <1>2, <1>4 DEF ObserversInv, AnswerInv, NoRequest
<1>6. SettledIsStamped' /\ \A s \in Streams : StreamInv(s)'
  BY <1>2 DEF ObserversInv, SettledIsStamped, StreamInv
<1> QED
  BY <1>1, <1>3, <1>5, <1>6 DEF ObserversInv

\* The state of one stream becomes x, which keeps to the invariant.
LEMMA StreamBecomes ==
  ASSUME ObserversInv, NEW s \in Streams, NEW x \in StreamStates,
         stream' = [stream EXCEPT ![s] = x],
         request' = request, UNCHANGED vars,
         StreamInv(s)'
  PROVE  ObserversInv'
<1>1. LifecycleInv'
  BY LifecycleStep DEF ObserversInv
<1>2. status' = status /\ stamps' = stamps /\ scanRow' = scanRow
  BY DEF vars
<1>3. ObserversTypeOK'
  BY DEF ObserversInv, ObserversTypeOK
<1>4. \A z \in Streams \ {s} : stream'[z] = stream[z]
  BY DEF ObserversInv, ObserversTypeOK
<1>5. \A z \in Streams : StreamInv(z)'
  BY <1>2, <1>4 DEF ObserversInv, StreamInv
<1>6. SettledIsStamped' /\ \A r \in Readers : AnswerInv(r)'
  BY <1>2 DEF ObserversInv, SettledIsStamped, AnswerInv
<1> QED
  BY <1>1, <1>3, <1>5, <1>6 DEF ObserversInv

\* A new stream has told nothing.
LEMMA OpenStreamStep ==
  ASSUME ObserversInv, NEW s \in Streams, NEW j \in Jobs, OpenStream(s, j), UNCHANGED vars
  PROVE  ObserversInv'
<1> DEFINE x == [at |-> "open", job |-> j, last |-> "none", polls |-> 0, events |-> <<>>]
<1>1. /\ stream' = [stream EXCEPT ![s] = x]
      /\ request' = request /\ status' = status /\ status[j] # "none"
  BY DEF OpenStream, vars
<1>2. x \in StreamStates
  <2>1. <<>> \in Seq(Statuses)
    OBVIOUS
  <2> QED
    BY <2>1 DEF StreamStates, OpenedStreams
<1>3. stream'[s] = x
  BY <1>1 DEF ObserversInv, ObserversTypeOK
<1>4. StreamInv(s)'
  BY <1>1, <1>3 DEF StreamInv
<1> QED
  BY <1>1, <1>2, <1>4, StreamBecomes

\* A poll that sees a new status tells it after those it came later than.
LEMMA PollStep ==
  ASSUME ObserversInv, NEW s \in Streams, Poll(s), UNCHANGED vars
  PROVE  ObserversInv'
<1> DEFINE x   == stream[s]
           now == status[x.job]
           evs == IF now = x.last THEN x.events ELSE Append(x.events, now)
           y   == [at |-> IF now \in TerminalStatuses THEN "closed" ELSE "open",
                   job |-> x.job, last |-> now, polls |-> x.polls + 1, events |-> evs]
<1>1. x.at = "open" /\ StreamInv(s) /\ ObserversTypeOK
  BY DEF ObserversInv, Poll
<1>2. x \in OpenedStreams
  BY <1>1, StreamTypes DEF ObserversTypeOK
<1>3. /\ x.job \in Jobs /\ x.last \in Statuses \union {"none"}
      /\ x.polls \in Nat /\ x.events \in Seq(Statuses)
  BY <1>2 DEF OpenedStreams
<1>4. now # "none" /\ now \in Statuses
  BY <1>1, <1>3 DEF StreamInv, ObserversInv, LifecycleInv, TypeOK
<1>5. stream' = [stream EXCEPT ![s] = y]
  <2> DEFINE at == IF now \in TerminalStatuses THEN "closed" ELSE "open"
             p  == x.polls + 1
             f1 == [stream EXCEPT ![s].events = evs]
             f2 == [f1 EXCEPT ![s].last = now]
             f3 == [f2 EXCEPT ![s].polls = p]
             f4 == [f3 EXCEPT ![s].at = at]
             x1 == [x EXCEPT !.events = evs]
             x2 == [x1 EXCEPT !.last = now]
             x3 == [x2 EXCEPT !.polls = p]
             x4 == [x3 EXCEPT !.at = at]
  <2>1. stream' = f4
    BY DEF Poll
  <2>2. /\ stream = [q \in Streams |-> stream[q]]
        /\ x = [at |-> x.at, job |-> x.job, last |-> x.last, polls |-> x.polls,
                events |-> x.events]
    BY <1>1, <1>2 DEF ObserversTypeOK, OpenedStreams
  <2>3. y = [at |-> at, job |-> x.job, last |-> now, polls |-> p, events |-> evs]
    OBVIOUS
  <2> HIDE DEF evs, now, at, y, p
  <2>4. /\ f1 = [stream EXCEPT ![s] = x1]
        /\ x1 = [at |-> x.at, job |-> x.job, last |-> x.last, polls |-> x.polls,
                 events |-> evs]
    BY <2>2
  <2>5. /\ f2 = [stream EXCEPT ![s] = x2]
        /\ x2 = [at |-> x.at, job |-> x.job, last |-> now, polls |-> x.polls,
                 events |-> evs]
    <3> HIDE DEF x1, f1
    <3>1. f2 = [stream EXCEPT ![s] = x2]
      BY <2>2, <2>4
    <3> HIDE DEF x, f2
    <3>2. x2 = [at |-> x.at, job |-> x.job, last |-> now, polls |-> x.polls, events |-> evs]
      BY <2>4
    <3> QED
      BY <3>1, <3>2
  <2>6. /\ f3 = [stream EXCEPT ![s] = x3]
        /\ x3 = [at |-> x.at, job |-> x.job, last |-> now, polls |-> p, events |-> evs]
    <3> HIDE DEF x2, f2
    <3>1. f3 = [stream EXCEPT ![s] = x3]
      BY <2>2, <2>5
    <3> HIDE DEF x, f3
    <3>2. x3 = [at |-> x.at, job |-> x.job, last |-> now, polls |-> p, events |-> evs]
      BY <2>5
    <3> QED
      BY <3>1, <3>2
  <2>7. /\ f4 = [stream EXCEPT ![s] = x4]
        /\ x4 = [at |-> at, job |-> x.job, last |-> now, polls |-> p, events |-> evs]
    <3> HIDE DEF x3, f3
    <3>1. f4 = [stream EXCEPT ![s] = x4]
      BY <2>2, <2>6
    <3> HIDE DEF x, f4
    <3>2. x4 = [at |-> at, job |-> x.job, last |-> now, polls |-> p, events |-> evs]
      BY <2>6
    <3> QED
      BY <3>1, <3>2
  <2> HIDE DEF f4, x4
  <2> QED
    BY <2>1, <2>3, <2>7
<1>6. request' = request /\ status' = status
  BY DEF Poll, vars
<1>7. evs \in Seq(Statuses) /\ evs # <<>>
  BY <1>1, <1>3, <1>4 DEF StreamInv
<1>8. y \in StreamStates
  BY <1>3, <1>4, <1>7 DEF StreamStates, OpenedStreams
<1>9. evs[Len(evs)] = now
  BY <1>1, <1>3, <1>4 DEF StreamInv
<1>10. \A i, k \in DOMAIN evs :
         i < k => evs[i] \in DOMAIN Later /\ evs[k] \in Later[evs[i]]
  <2>1. CASE now = x.last
    BY <1>1, <2>1 DEF StreamInv
  <2>2. CASE now # x.last
    <3>1. \A i, k \in DOMAIN x.events :
            i < k => x.events[i] \in DOMAIN Later /\ x.events[k] \in Later[x.events[i]]
      BY <1>1 DEF StreamInv
    <3>2. ASSUME NEW i \in DOMAIN x.events
          PROVE  x.events[i] \in DOMAIN Later /\ now \in Later[x.events[i]]
      <4>1. x.events # <<>>
        BY <3>2
      <4>2. /\ x.last = x.events[Len(x.events)]
            /\ x.last \in DOMAIN Later /\ now \in Later[x.last]
        BY <1>1, <2>2, <4>1 DEF StreamInv
      <4>3. CASE i = Len(x.events)
        BY <4>2, <4>3
      <4>4. CASE i # Len(x.events)
        <5>1. i < Len(x.events) /\ Len(x.events) \in DOMAIN x.events
          BY <1>3, <4>4
        <5>2. x.events[i] \in DOMAIN Later /\ x.last \in Later[x.events[i]]
          BY <3>1, <4>2, <5>1
        <5> QED
          BY <4>2, <5>2, LaterTransitive
      <4> QED
        BY <4>3, <4>4
    <3>3. /\ evs = Append(x.events, now)
          /\ DOMAIN evs = 1 .. (Len(x.events) + 1)
          /\ DOMAIN x.events = 1 .. Len(x.events)
          /\ \A i \in DOMAIN x.events : evs[i] = x.events[i]
          /\ evs[Len(x.events) + 1] = now
          /\ Len(x.events) \in Nat
      BY <1>3, <1>4, <2>2
    <3> HIDE DEF evs, x, now
    <3> QED
      BY <3>1, <3>2, <3>3
  <2> QED
    BY <2>1, <2>2
<1>11. stream'[s] = y
  BY <1>5 DEF ObserversInv, ObserversTypeOK
<1>12. /\ y.job = x.job /\ y.last = now /\ y.events = evs
       /\ y.at = "closed" => now \in TerminalStatuses
  OBVIOUS
<1>13. StreamInv(s)'
  <2> HIDE DEF y, evs
  <2> QED
    BY <1>4, <1>6, <1>7, <1>9, <1>10, <1>11, <1>12 DEF StreamInv
<1> QED
  BY <1>5, <1>6, <1>8, <1>13, StreamBecomes

\* A stream whose time is up stops with what it has told.
LEMMA TimeOutStep ==
  ASSUME ObserversInv, NEW s \in Streams, TimeOut(s), UNCHANGED vars
  PROVE  ObserversInv'
<1> DEFINE x == stream[s]
           y == [x EXCEPT !.at = "timed out"]
<1>1. /\ stream' = [stream EXCEPT ![s] = y]
      /\ x.at = "open"
      /\ request' = request /\ status' = status
  BY DEF TimeOut, vars
<1>2. x \in StreamStates /\ StreamInv(s)
  BY DEF ObserversInv, ObserversTypeOK
<1>3. x \in OpenedStreams
  BY <1>1, <1>2, StreamTypes
<1>4. y \in StreamStates
  BY <1>3 DEF StreamStates, OpenedStreams
<1>5. y.at = "timed out" /\ y.job = x.job /\ y.last = x.last /\ y.events = x.events
  BY <1>3 DEF OpenedStreams
<1>6. stream'[s] = y
  BY <1>1 DEF ObserversInv, ObserversTypeOK
<1>7. StreamInv(s)'
  <2> HIDE DEF y
  <2> QED
    BY <1>1, <1>2, <1>5, <1>6 DEF StreamInv
<1> QED
  BY <1>1, <1>4, <1>7, StreamBecomes

\* The inductive invariant holds in every reachable state of the composition.
THEOREM ObserversInvariant == ObserversSpec => []ObserversInv
<1>1. ObserversInit => ObserversInv
  BY ObserversInitInv
<1>2. ObserversInv /\ [ObserversNext]_allVars => ObserversInv'
  <2> SUFFICES ASSUME ObserversInv, [ObserversNext]_allVars PROVE ObserversInv'
    OBVIOUS
  <2>1. CASE Next /\ UNCHANGED observerVars
    BY <2>1, ScanStepKeepsObservers
  <2>2. CASE ObserverStep /\ UNCHANGED vars
    BY <2>2, ReadJobStep, ReadScanStep, ForgetStep, OpenStreamStep, PollStep,
       TimeOutStep DEF ObserverStep
  <2>3. CASE UNCHANGED allVars
    <3>1. LifecycleInv'
      BY <2>3, LifecycleStep DEF ObserversInv, allVars
    <3>2. /\ status' = status /\ stamps' = stamps /\ scanRow' = scanRow
          /\ request' = request /\ stream' = stream
      BY <2>3 DEF allVars, vars, observerVars
    <3> QED
      BY <3>1, <3>2 DEF ObserversInv, SettledIsStamped, ObserversTypeOK, AnswerInv,
                        StreamInv
  <2> QED
    BY <2>1, <2>2, <2>3 DEF ObserversNext
<1>3. QED
  BY <1>1, <1>2, PTL DEF ObserversSpec

\* However its two reads interleave with the worker, an answer that says the
\* scan has come to its end is whole, for any number of requests and jobs.
THEOREM SettledAnswerIsWholeAlways == ObserversSpec => []SettledAnswerIsWhole
<1>1. ObserversInv => SettledAnswerIsWhole
  BY DEF ObserversInv, AnswerInv, SettledAnswerIsWhole
<1> QED
  BY <1>1, ObserversInvariant, PTL

\* Every stream tells a job's history in order, each status once.
THEOREM StreamTellsHistoryInOrderAlways == ObserversSpec => []StreamTellsHistoryInOrder
<1>1. ObserversInv => StreamTellsHistoryInOrder
  BY DEF ObserversInv, StreamInv, StreamTellsHistoryInOrder
<1> QED
  BY <1>1, ObserversInvariant, PTL

\* A stream that closed by itself ended on the status the job ended on.
THEOREM ClosedStreamToldTheEndAlways == ObserversSpec => []ClosedStreamToldTheEnd
<1>1. ObserversInv => ClosedStreamToldTheEnd
  BY DEF ObserversInv, StreamInv, ClosedStreamToldTheEnd
<1> QED
  BY <1>1, ObserversInvariant, PTL
=============================================================================
