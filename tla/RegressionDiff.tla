--------------------------- MODULE RegressionDiff ---------------------------
(***************************************************************************)
(* detect_regression (packages/monitoring .../diff.py): what two scans of  *)
(* a target say when they are compared by finding fingerprint.             *)
(*                                                                         *)
(* A finding is its fingerprint; the check and the severity behind it are  *)
(* the sets below.  A scan is a record with failed (the fingerprints whose *)
(* verdict is FAILED), score and major (of its registry version).          *)
(***************************************************************************)
EXTENDS Integers

CONSTANTS
  Fingerprints,
  CertExpiry,   \* fingerprints of VG-TLS-004
  Critical,     \* fingerprints of critical severity
  High          \* fingerprints of high severity

ASSUME FingerprintsAssumption ==
  /\ CertExpiry \subseteq Fingerprints
  /\ Critical \subseteq Fingerprints
  /\ High \subseteq Fingerprints
  /\ Critical \intersect High = {}

EventTypes == {"cert_expiry", "regressed", "new_critical", "new_high"}

\* Mutant: every open finding counts.
NewlyFailedOrOpen(previous, current, suppressed) == current.failed \ suppressed

\* Failed now, not failed then, and not an accepted risk.
NewlyFailed(previous, current, suppressed) ==
  current.failed \ (previous.failed \union suppressed)

\* Mutant: what was told once is never told again.
AlertableOnce(previous, current, ever, suppressed) ==
  (NewlyFailed(previous, current, suppressed) \ ever)
    \intersect (CertExpiry \union Critical \union High)

\* Those of them that are worth an event, by what has ever failed before.
Alertable(previous, current, ever, suppressed) ==
  NewlyFailed(previous, current, suppressed)
    \intersect (CertExpiry \union ever \union Critical \union High)

EventType(f, ever) ==
  IF f \in CertExpiry    THEN "cert_expiry"
  ELSE IF f \in ever     THEN "regressed"
  ELSE IF f \in Critical THEN "new_critical"
  ELSE "new_high"

ScoreDropThreshold == 10

Dropped(previous, current) ==
  previous.score - current.score >= ScoreDropThreshold

Events(previous, current, ever, suppressed) ==
  {[type |-> EventType(f, ever), fingerprint |-> f] :
     f \in Alertable(previous, current, ever, suppressed)}

\* A score drop is reported when the drop before is remembered, or beside a
\* critical event; else it is remembered.
Confirmed(events, hadPending) ==
  hadPending \/ \E e \in events : e.type \in {"new_critical", "cert_expiry"}

\* Mutant: whatever is not confirmed is remembered, a drop or not.
DetectRegressionRemembersAll(previous, current, ever, hadPending, suppressed) ==
  LET events    == Events(previous, current, ever, suppressed)
      confirmed == Confirmed(events, hadPending)
  IN
  IF previous.major # current.major
  THEN [events |-> {}, scoreDrop |-> FALSE, pending |-> FALSE]
  ELSE [events    |-> events,
        scoreDrop |-> Dropped(previous, current) /\ confirmed,
        pending   |-> ~confirmed]

\* The RegressionReport.
DetectRegression(previous, current, ever, hadPending, suppressed) ==
  LET events    == Events(previous, current, ever, suppressed)
      confirmed == Confirmed(events, hadPending)
      dropped   == Dropped(previous, current)
  IN
  IF previous.major # current.major
  THEN [events |-> {}, scoreDrop |-> FALSE, pending |-> FALSE]
  ELSE [events    |-> events,
        scoreDrop |-> dropped /\ confirmed,
        pending   |-> dropped /\ ~confirmed]
=============================================================================
