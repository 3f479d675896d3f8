--------------------------- MODULE ProbeRunProofs ---------------------------
(***************************************************************************)
(* For every set of sites, every resolver, every candidate list and every  *)
(* bound: a probe run's connections end at public hosts only, a passive    *)
(* run asks for no hidden path, what is probed and what is evaluated agree *)
(* on the tier, and the CLI's threshold, the SARIF report, the score and   *)
(* the grade agree on the findings.  Whatever denials and failed requests  *)
(* a run met, what it has seen is the site's or a failure's, and it        *)
(* accuses the site of nothing but what the site fails, of not being       *)
(* reached, or of what a lost service-role key hid.  And on a site that    *)
(* its probes reach, no deviation hides another.                           *)
(***************************************************************************)
EXTENDS ProbeRun, ChecksProofs, TLAPS

\* What a probe has pinned is allowed; the HTTP probe asks only when it has
\* pinned; the paths stage is reached by active runs only.
PinnedInv ==
    /\ conn = [p \in Probes |-> conn[p]]
    /\ \A p \in Probes : conn[p] = None \/ Allowed(conn[p])
    /\ stage = "get" => Allowed(conn["http"])
    /\ \A r \in requests : Allowed(r.address)

TierInv ==
    /\ stage = "paths" => tier = "active"
    /\ \A r \in requests : r.probe = "paths" => tier = "active"

\* An answer the guard does not deny has an allowed first address.
LEMMA PinnedIsAllowed ==
    ASSUME NEW answer \in Answers, ~Denied(answer)
    PROVE  Allowed(answer[1])
BY AnswersAssumption DEF Denied

\* Pinning keeps what is pinned allowed.
LEMMA PinKeeps ==
    ASSUME PinnedInv, NEW p \in Probes, Pin(p)
    PROVE  /\ conn' = [q \in Probes |-> conn'[q]]
           /\ \A q \in Probes : conn'[q] = None \/ Allowed(conn'[q])
           /\ Allowed(conn'[p])
           /\ faults' = faults
<1>1. PICK answer \in Answers : ~Denied(answer) /\ conn' = [conn EXCEPT ![p] = answer[1]] /\ UNCHANGED faults
  BY DEF Pin
<1>2. Allowed(answer[1])
  BY <1>1, PinnedIsAllowed
<1> QED  BY <1>1, <1>2 DEF PinnedInv

\* Forgetting a pinned address keeps the others allowed.
LEMMA ForgetKeeps ==
    ASSUME PinnedInv, NEW p \in Probes, conn' = [conn EXCEPT ![p] = None]
    PROVE  /\ conn' = [q \in Probes |-> conn'[q]]
           /\ \A q \in Probes : conn'[q] = None \/ Allowed(conn'[q])
BY DEF PinnedInv

\* A request to an allowed address keeps every request allowed.
LEMMA AskKeeps ==
    ASSUME PinnedInv, NEW p \in Probes, Ask(p), Allowed(conn[p])
    PROVE  \A r \in requests' : Allowed(r.address)
BY DEF PinnedInv, Ask

\* A step that leaves connections and requests alone keeps the invariant,
\* unless it starts an HTTP request.
LEMMA QuietKeeps ==
    ASSUME PinnedInv, UNCHANGED <<conn, requests>>, stage' = stage \/ stage' # "get"
    PROVE  PinnedInv'
BY DEF PinnedInv, Allowed, Classify

LEMMA PinnedInit == Init => PinnedInv
BY DEF Init, PinnedInv

LEMMA ProbesExist ==
    /\ "http" \in Probes /\ "tls" \in Probes /\ "wellknown" \in Probes
    /\ "bundle" \in Probes /\ "backends" \in Probes /\ "paths" \in Probes
    /\ \A p \in SubProbes : p \in Probes
BY DEF Probes, SubProbes

LEMMA PinnedNext == PinnedInv /\ [Next]_vars => PinnedInv'
<1> SUFFICES ASSUME PinnedInv, [Next]_vars PROVE PinnedInv'  OBVIOUS
<1> USE ProbesExist
<1>a. ASSUME NEW p \in Probes, Pin(p), UNCHANGED requests, stage' # "get" \/ p = "http"
      PROVE  PinnedInv'
  BY <1>a, PinKeeps DEF PinnedInv
<1>b. ASSUME NEW p \in Probes, Ask(p), Allowed(conn[p]), stage' # "get",
             UNCHANGED conn \/ conn' = [conn EXCEPT ![p] = None]
      PROVE  PinnedInv'
  <2>1. \A r \in requests' : Allowed(r.address)
    BY <1>b, AskKeeps
  <2>2. conn' = [q \in Probes |-> conn'[q]] /\ \A q \in Probes : conn'[q] = None \/ Allowed(conn'[q])
    BY <1>b, ForgetKeeps DEF PinnedInv
  <2> QED  BY <1>b, <2>1, <2>2 DEF PinnedInv
<1>c. ASSUME NEW p \in Probes, UNCHANGED requests, conn' = [conn EXCEPT ![p] = None], stage' # "get"
      PROVE  PinnedInv'
  BY <1>c, ForgetKeeps DEF PinnedInv
<1>d. ASSUME NEW p \in Probes, conn[p] # None PROVE Allowed(conn[p])
  BY <1>d DEF PinnedInv
<1>1. CASE HttpResolve
  BY <1>1, <1>a DEF HttpResolve
<1>2. CASE HttpDenied
  BY <1>2, QuietKeeps DEF HttpDenied, Abandon
<1>3. CASE HttpFails
  BY <1>3, <1>b DEF HttpFails, Abandon, PinnedInv
<1>4. CASE HttpRedirected
  <2>1. Allowed(conn["http"]) /\ Ask("http")
    BY <1>4 DEF HttpRedirected, PinnedInv
  <2>2. stage' # "get" /\ (UNCHANGED conn \/ conn' = [conn EXCEPT !["http"] = None])
    BY <1>4 DEF HttpRedirected, Abandon
  <2> QED  BY <2>1, <2>2, <1>b
<1>5. CASE HttpAnswered
  BY <1>5, <1>b DEF HttpAnswered, PinnedInv
<1>6. ASSUME NEW p \in SubProbes, SubDenied(p) PROVE PinnedInv'
  BY <1>6, QuietKeeps DEF SubDenied, SubStep
<1>7. ASSUME NEW p \in SubProbes, SubResolve(p) PROVE PinnedInv'
  BY <1>7, <1>a DEF SubResolve, SubStep
<1>8. CASE TlsSkipped
  BY <1>8, QuietKeeps DEF TlsSkipped, SubStep
<1>9. CASE TlsHandshake \/ TlsFails
  BY <1>9, <1>b, <1>d DEF TlsHandshake, TlsFails, Handshake, SubStep
<1>10. CASE WellKnownAnswered \/ WellKnownFails
  BY <1>10, <1>b, <1>d DEF WellKnownAnswered, WellKnownFails, WellKnownNext, SubStep
<1>11. CASE BundleDenied
  BY <1>11, <1>c DEF BundleDenied, BundleNext, SubStep
<1>12. CASE BundleAnswered \/ BundleFails
  BY <1>12, <1>b, <1>d DEF BundleAnswered, BundleFails, BundleNext, SubStep
<1>13. CASE BundleRaises \/ BundleEnds
  BY <1>13, QuietKeeps DEF BundleRaises, BundleEnds, SubStep
<1>14. CASE Gathered
  BY <1>14, QuietKeeps DEF Gathered
<1>15. CASE BackendSkipped \/ BackendDenied
  BY <1>15, <1>c DEF BackendSkipped, BackendDenied, BackendNext, AtBackend
<1>16. CASE BackendResolve
  BY <1>16, <1>a DEF BackendResolve, AtBackend
<1>17. CASE BackendAnswered \/ BackendFails
  BY <1>17, <1>b, <1>d DEF BackendAnswered, BackendFails, BackendNext, AtBackend
<1>18. CASE BackendRaises \/ BackendsEnd
  BY <1>18, QuietKeeps DEF BackendRaises, BackendsEnd, Abandon
<1>19. CASE PathsResolve
  BY <1>19, <1>a DEF PathsResolve
<1>20. CASE PathsDenied
  BY <1>20, QuietKeeps DEF PathsDenied, Abandon
<1>21. CASE PathAnswered \/ PathFails
  BY <1>21, <1>b, <1>d DEF PathAnswered, PathFails, PathNext
<1>22. CASE PathsEnd \/ Seal
  BY <1>22, QuietKeeps DEF PathsEnd, Seal, Abandon
<1>23. CASE UNCHANGED vars
  BY <1>23, QuietKeeps DEF vars
<1> QED
  BY <1>1, <1>2, <1>3, <1>4, <1>5, <1>6, <1>7, <1>8, <1>9, <1>10, <1>11, <1>12, <1>13, <1>14, <1>15,
     <1>16, <1>17, <1>18, <1>19, <1>20, <1>21, <1>22, <1>23
     DEF Next, HttpStep, GatherStep, BackendStep, PathStep

\* Every request of a probe run ends at a public host, whatever DNS answers.
THEOREM PublicAddresses == Spec => []OnlyPublicAddresses
<1>1. PinnedInv => OnlyPublicAddresses
  BY DEF PinnedInv, OnlyPublicAddresses, Allowed, Classify, Endpoint
<1> QED  BY PinnedInit, PinnedNext, <1>1, PTL DEF Spec

LEMMA TierNext == TierInv /\ [Next]_vars => TierInv'
<1> SUFFICES ASSUME TierInv, [Next]_vars PROVE TierInv'  OBVIOUS
<1> USE DEF TierInv
<1>a. ASSUME NEW p \in Probes, p # "paths" \/ tier = "active", Ask(p), tier' = tier,
             stage' = "paths" => tier' = "active"
      PROVE  TierInv'
  BY <1>a DEF Ask
<1>b. ASSUME UNCHANGED requests, tier' = tier, stage' = "paths" => tier' = "active"
      PROVE  TierInv'
  BY <1>b
<1>1. CASE HttpStep
  BY <1>1, <1>a, <1>b, ProbesExist
     DEF HttpStep, HttpResolve, HttpDenied, HttpFails, HttpRedirected, HttpAnswered, Abandon, scan
<1>2. ASSUME NEW p \in SubProbes, SubDenied(p) \/ SubResolve(p) PROVE TierInv'
  BY <1>2, <1>b DEF SubDenied, SubResolve, SubStep, scan
<1>3. CASE TlsSkipped \/ TlsHandshake \/ TlsFails
  BY <1>3, <1>a, <1>b, ProbesExist DEF TlsSkipped, TlsHandshake, TlsFails, Handshake, SubStep, scan
<1>4. CASE WellKnownAnswered \/ WellKnownFails
  BY <1>4, <1>a, ProbesExist DEF WellKnownAnswered, WellKnownFails, WellKnownNext, SubStep, scan
<1>5. CASE BundleDenied \/ BundleRaises \/ BundleEnds
  BY <1>5, <1>b DEF BundleDenied, BundleRaises, BundleEnds, BundleNext, SubStep, scan
<1>6. CASE BundleAnswered \/ BundleFails
  BY <1>6, <1>a, ProbesExist DEF BundleAnswered, BundleFails, BundleNext, SubStep, scan
<1>7. CASE Gathered
  BY <1>7, <1>b DEF Gathered, scan
<1>8. CASE BackendSkipped \/ BackendResolve \/ BackendDenied \/ BackendRaises \/ BackendsEnd
  BY <1>8, <1>b
     DEF BackendSkipped, BackendResolve, BackendDenied, BackendRaises, BackendsEnd, AtBackend, Abandon, scan
<1>9. CASE BackendAnswered \/ BackendFails
  BY <1>9, <1>a, ProbesExist DEF BackendAnswered, BackendFails, AtBackend, scan
<1>10. CASE PathsResolve \/ PathsDenied \/ PathsEnd \/ Seal
  BY <1>10, <1>b DEF PathsResolve, PathsDenied, PathsEnd, Seal, Abandon, scan
<1>11. CASE PathAnswered \/ PathFails
  BY <1>11, <1>a, ProbesExist DEF PathAnswered, PathFails, PathNext, scan
<1>12. CASE UNCHANGED vars
  BY <1>12, <1>b DEF vars
<1> QED
  BY <1>1, <1>2, <1>3, <1>4, <1>5, <1>6, <1>7, <1>8, <1>9, <1>10, <1>11, <1>12
     DEF Next, GatherStep, BackendStep, PathStep

\* A scan granted the passive tier sends no request of the paths probe.
THEOREM PassiveStaysPassive == Spec => []PassiveAsksNoHiddenPath
<1>1. Init => TierInv
  BY DEF Init, TierInv
<1>2. TierInv => PassiveAsksNoHiddenPath
  BY DEF TierInv, PassiveAsksNoHiddenPath
<1> QED  BY TierNext, <1>1, <1>2, PTL DEF Spec

-----------------------------------------------------------------------------
(***************************************************************************)
(* The two gates.  A run reaches the paths stage without a pinned address  *)
(* for the paths probe; from the moment it pins one it holds a set of the  *)
(* kinds that answered, and an active run is sealed with that set.         *)
(***************************************************************************)
Looked == evidence.paths \in SUBSET HiddenKinds

PathsInv ==
    /\ deviations \in Scenarios
    /\ "paths" \in DOMAIN evidence
    /\ conn["paths"] # None => stage \in {"paths", "seal", "over"}
    /\ stage = "paths" /\ conn["paths"] # None => Looked
    /\ tier = "active" /\ (stage = "seal" \/ outcome = "sealed") => Looked
    /\ outcome = "sealed" => stage = "over"

LEMMA PathsInit == Init => PathsInv
BY ProbesExist DEF Init, PathsInv, NoEvidence

\* Which hidden paths a site serves.
LEMMA ServedIsHidden ==
    ASSUME deviations \in Scenarios, NEW kind, HiddenServed(site, kind)
    PROVE  kind \in HiddenKinds
<1>1. site.hidden = deviations \cap HiddenKinds
  BY DEF site, Sites, Site
<1> QED  BY <1>1 DEF HiddenServed

\* A step before the paths stage that neither pins for the paths probe nor
\* touches what it observed.
LEMMA EarlyKeeps ==
    ASSUME PathsInv, stage \notin {"paths", "seal", "over"}, UNCHANGED <<deviations, tier>>,
           conn'["paths"] = conn["paths"], "paths" \in DOMAIN evidence',
           stage' # "seal" \/ tier # "active", outcome' # "sealed"
    PROVE  PathsInv'
BY DEF PathsInv, Looked

LEMMA PathsNext == PinnedInv /\ PathsInv /\ [Next]_vars => PathsInv'
<1> SUFFICES ASSUME PinnedInv, PathsInv, [Next]_vars PROVE PathsInv'  OBVIOUS
<1> USE ProbesExist
<1>a. "paths" \in DOMAIN conn
  BY DEF PinnedInv
<1>b. outcome = "sealed" => stage = "over"
  BY DEF PathsInv
<1>c. ASSUME NEW p \in Probes, p # "paths", Pin(p) PROVE conn'["paths"] = conn["paths"]
  BY <1>c, <1>a DEF Pin
<1>d. ASSUME NEW p \in Probes, p # "paths", conn' = [conn EXCEPT ![p] = None]
      PROVE  conn'["paths"] = conn["paths"]
  BY <1>d, <1>a
<1>e. "paths" \in DOMAIN evidence
  BY DEF PathsInv
<1>1. CASE HttpStep
  <2>1. CASE HttpResolve
    BY <2>1, <1>b, <1>c, <1>e, EarlyKeeps DEF HttpResolve, scan
  <2>2. CASE HttpDenied \/ HttpFails
    BY <2>2, <1>b, <1>e, EarlyKeeps DEF HttpDenied, HttpFails, Abandon, scan
  <2>3. CASE HttpRedirected
    BY <2>3, <1>b, <1>d, <1>e, EarlyKeeps DEF HttpRedirected, Abandon, scan
  <2>4. CASE HttpAnswered
    <3>1. "paths" \in DOMAIN evidence'
      BY <2>4, <1>e DEF HttpAnswered
    <3> QED  BY <2>4, <3>1, <1>b, EarlyKeeps DEF HttpAnswered, scan
  <2> QED  BY <1>1, <2>1, <2>2, <2>3, <2>4 DEF HttpStep
<1>2. ASSUME NEW p \in SubProbes, SubDenied(p) PROVE PathsInv'
  BY <1>2, <1>b, <1>e, EarlyKeeps DEF SubDenied, SubStep, scan
<1>3. ASSUME NEW p \in SubProbes, SubResolve(p) PROVE PathsInv'
  BY <1>3, <1>b, <1>c, <1>e, EarlyKeeps DEF SubResolve, SubStep, scan, SubProbes
<1>4. CASE TlsSkipped \/ BundleRaises
  BY <1>4, <1>b, <1>e, EarlyKeeps DEF TlsSkipped, BundleRaises, SubStep, scan
<1>5. CASE TlsHandshake \/ TlsFails
  <2>1. "paths" \in DOMAIN evidence'
    BY <1>5, <1>e DEF TlsHandshake, TlsFails, Handshake
  <2> QED  BY <1>5, <2>1, <1>b, EarlyKeeps DEF TlsHandshake, TlsFails, Handshake, SubStep, scan
<1>6. CASE WellKnownAnswered \/ WellKnownFails
  <2>1. "paths" \in DOMAIN evidence'
    BY <1>6, <1>e DEF WellKnownAnswered, WellKnownFails, WellKnownNext
  <2> QED
    BY <1>6, <2>1, <1>b, EarlyKeeps DEF WellKnownAnswered, WellKnownFails, WellKnownNext, SubStep, scan
<1>7. CASE BundleDenied \/ BundleAnswered \/ BundleFails
  <2>1. PICK script : BundleNext(script)
    BY <1>7 DEF BundleDenied, BundleAnswered, BundleFails
  <2>2. "paths" \in DOMAIN evidence'
    BY <2>1, <1>e DEF BundleNext
  <2> QED  BY <2>1, <2>2, <1>b, <1>d, EarlyKeeps DEF BundleNext, SubStep, scan
<1>8. CASE BundleEnds
  <2>1. "paths" \in DOMAIN evidence'
    BY <1>8, <1>e DEF BundleEnds
  <2> QED  BY <1>8, <2>1, <1>b, EarlyKeeps DEF BundleEnds, SubStep, scan
<1>9. CASE Gathered
  <2>1. "paths" \in DOMAIN evidence'
    BY <1>9, <1>e DEF Gathered
  <2> QED  BY <1>9, <2>1, <1>b, EarlyKeeps DEF Gathered, scan
<1>10. CASE BackendSkipped \/ BackendDenied \/ BackendAnswered \/ BackendFails
  <2>1. PICK backend : BackendNext(backend)
    BY <1>10 DEF BackendSkipped, BackendDenied, BackendAnswered, BackendFails
  <2>2. "paths" \in DOMAIN evidence'
    BY <2>1, <1>e DEF BackendNext
  <2>3. conn'["paths"] = conn["paths"]
    BY <2>1, <1>d DEF BackendNext
  <2>4. AtBackend
    BY <1>10 DEF BackendSkipped, BackendDenied, BackendAnswered, BackendFails
  <2> QED  BY <2>2, <2>3, <2>4, <1>b, EarlyKeeps DEF AtBackend, scan
<1>11. CASE BackendResolve
  BY <1>11, <1>b, <1>c, <1>e, EarlyKeeps DEF BackendResolve, AtBackend, scan
<1>12. CASE BackendRaises \/ BackendsEnd
  BY <1>12, <1>b, <1>e, EarlyKeeps DEF BackendRaises, BackendsEnd, Abandon, scan
<1>13. CASE PathsResolve
  <2>1. evidence'.paths = {} /\ "paths" \in DOMAIN evidence'
    BY <1>13, <1>e DEF PathsResolve
  <2> QED  BY <1>13, <2>1, <1>b DEF PathsResolve, PathsInv, Looked, scan
<1>14. CASE PathsDenied
  BY <1>14 DEF PathsDenied, Abandon, PathsInv, scan
<1>15. ASSUME NEW found \in SUBSET HiddenKinds, PathNext(found) PROVE PathsInv'
  <2>1. Looked
    BY <1>15 DEF PathNext, PathsInv
  <2>2. evidence'.paths = evidence.paths \cup found /\ "paths" \in DOMAIN evidence'
    BY <1>15, <1>e DEF PathNext
  <2> QED  BY <1>15, <2>1, <2>2, <1>b DEF PathNext, PathsInv, Looked, scan
<1>16. CASE PathAnswered
  <2>1. {k \in {Head(todo["paths"])} : HiddenServed(site, k)} \in SUBSET HiddenKinds
    BY ServedIsHidden DEF PathsInv
  <2> QED  BY <1>16, <2>1, <1>15 DEF PathAnswered
<1>17. CASE PathFails
  BY <1>17, <1>15 DEF PathFails, PathLost
<1>18. CASE PathsEnd
  BY <1>18, <1>b DEF PathsEnd, PathsInv, Looked, scan
<1>19. CASE Seal
  BY <1>19 DEF Seal, Abandon, PathsInv, Looked, scan
<1>20. CASE UNCHANGED vars
  BY <1>20 DEF vars, PathsInv, Looked
<1> QED
  BY <1>1, <1>2, <1>3, <1>4, <1>5, <1>6, <1>7, <1>8, <1>9, <1>10, <1>11, <1>12, <1>13, <1>14,
     <1>16, <1>17, <1>18, <1>19, <1>20
     DEF Next, GatherStep, BackendStep, PathStep

LEMMA PassivePlan == tier # "active" => active = {}
<1> SUFFICES ASSUME tier # "active", NEW f \in active PROVE FALSE  OBVIOUS
<1>1. f.tier = "active" /\ f \in findings
  BY DEF active
<1> QED  BY <1>1 DEF findings, Findings, PlanRegistry

LEMMA ActivePlan == tier = "active" => active = HiddenChecks(evidence)
<1> SUFFICES ASSUME tier = "active" PROVE active = HiddenChecks(evidence)  OBVIOUS
<1>1. findings = Registry(evidence)
  BY DEF findings, Findings, PlanRegistry
<1>2. ASSUME NEW f \in active PROVE f \in HiddenChecks(evidence)
  BY <1>1, <1>2, RegistryByTier DEF active, Passive
<1>3. ASSUME NEW f \in HiddenChecks(evidence) PROVE f \in active
  BY <1>1, <1>3, HiddenIsActive DEF active
<1> QED  BY <1>2, <1>3

\* What is probed and what is evaluated agree for every site, resolver and
\* fault: a passive run asks for no hidden path and has no active finding, and
\* a sealed active run has all seven, none of them without its evidence.
THEOREM TheTwoGatesAgreeAlways == Spec => []TheTwoGatesAgree
<1>1. Init => PinnedInv /\ TierInv /\ PathsInv
  BY PinnedInit, PathsInit DEF Init, TierInv
<1>2. PinnedInv /\ TierInv /\ PathsInv /\ [Next]_vars => (PinnedInv /\ TierInv /\ PathsInv)'
  BY PinnedNext, TierNext, PathsNext
<1>3. TierInv /\ PathsInv => TheTwoGatesAgree
  <2> SUFFICES ASSUME TierInv, PathsInv PROVE TheTwoGatesAgree  OBVIOUS
  <2>1. PassiveAsksNoHiddenPath
    BY DEF TierInv, PassiveAsksNoHiddenPath
  <2>2. tier = "passive" => active = {}
    BY PassivePlan
  <2>3. ASSUME sealed, tier = "active"
        PROVE  Cardinality(active) = 7 /\ With(active, "inconclusive") = {}
    <3>1. evidence.paths # None
      BY <2>3, NoneAssumption DEF PathsInv, Looked, sealed
    <3>2. active = HiddenChecks(evidence)
      BY <2>3, ActivePlan
    <3>3. Cardinality(active) = 7
      BY <3>2, SevenHidden
    <3>4. With(active, "inconclusive") = {}
      BY <3>1, <3>2, HiddenIsActive DEF With
    <3> QED  BY <3>3, <3>4
  <2> QED  BY <2>1, <2>2, <2>3 DEF TheTwoGatesAgree
<1> QED  BY <1>1, <1>2, <1>3, PTL DEF Spec

-----------------------------------------------------------------------------
(***************************************************************************)
(* The outputs.                                                            *)
(***************************************************************************)
\* --fail-on high and medium break a build exactly when the SARIF report of the
\* same evidence carries an error, an error or a warning, for any evidence.
LEMMA ThresholdsMatch == ThresholdsMatchLevels
<1> DEFINE levels == {r.level : r \in SarifReport(findings, {})}
<1>1. \A f \in With(findings, "failed") : f.severity \in DOMAIN SeverityOrder
  BY SeverityKnown DEF With, findings
<1>2. BreachesThreshold(findings, "high")
        <=> \E f \in With(findings, "failed") : FailedLevel[f.severity] = "error"
  BY <1>1, LevelOfSeverity DEF BreachesThreshold
<1>3. BreachesThreshold(findings, "medium")
        <=> \E f \in With(findings, "failed") : FailedLevel[f.severity] \in {"error", "warning"}
  BY <1>1, LevelOfSeverity DEF BreachesThreshold
<1>4. /\ "error" \in levels <=> \E f \in With(findings, "failed") : FailedLevel[f.severity] = "error"
      /\ "warning" \in levels <=> \E f \in With(findings, "failed") : FailedLevel[f.severity] = "warning"
  BY LevelsOfReport
<1>5. levels \cap {"error", "warning"} # {} <=> "error" \in levels \/ "warning" \in levels
  OBVIOUS
<1> HIDE DEF levels
<1>6. /\ BreachesThreshold(findings, "high") <=> "error" \in levels
      /\ BreachesThreshold(findings, "medium") <=> levels \cap {"error", "warning"} # {}
  BY <1>2, <1>3, <1>4, <1>5
<1> QED  BY <1>6 DEF ThresholdsMatchLevels, levels

\* --fail-on breaks a build exactly when the SARIF report has a level to match,
\* in every sealed run: the threshold half of OutputsAgree.
THEOREM ThresholdsMatchLevelsAlways == Spec => []ThresholdsMatchLevels
BY ThresholdsMatch, PTL

\* The three outputs agree on any evidence: the thresholds and the levels, a
\* perfect score and the absence of a finding worth a threshold, a grade below
\* B and a finding of high severity or more.
THEOREM OutputsAgreeAlways == Spec => []OutputsAgree
<1>1. OutputsAgree
  <2>1. findings \in SUBSET Registry(evidence)
    BY DEF findings, Findings, PlanRegistry
  <2>2. Score(findings) = 2000 <=> ~BreachesThreshold(findings, "low")
    BY <2>1, PerfectScore
  <2>3. GradeFor(Score(findings)) \notin {"A", "B"} => BreachesThreshold(findings, "high")
    BY <2>1, LesserChecksKeepB
  <2> QED  BY <2>2, <2>3, ThresholdsMatch DEF OutputsAgree
<1> QED  BY <1>1, PTL

-----------------------------------------------------------------------------
(***************************************************************************)
(* What a run sees of a site.  Each probe owns one field of the evidence,  *)
(* one list of what it has still to ask for and one pinned address, and    *)
(* its steps leave those of the others alone.  For each probe an invariant *)
(* relates what it has seen to what the site gives: every part of it is    *)
(* the site's own or a failure's, and while the run has met no fault, what *)
(* was seen and what is still to be asked for are the whole of it.         *)
(***************************************************************************)
\* The evidence of a run that meets no fault.
truth == EvidenceOf(site, tier)

\* The page was answered; the gather ended; the backends were all asked.
Started == stage \in {"gather", "backends", "paths", "seal"} \/ outcome = "sealed"
Late == stage \in {"backends", "paths", "seal"} \/ outcome = "sealed"
BackendsDone == stage \in {"paths", "seal"} \/ outcome = "sealed"

Shape ==
    /\ evidence = [x \in Probes \cup {"age"} |-> evidence[x]]
    /\ todo = [p \in Probes |-> todo[p]]
    /\ conn = [p \in Probes |-> conn[p]]

\* What holds of every stage: the page that was seen is the site's.
BaseInv ==
    /\ deviations \in Scenarios
    /\ tier \in Tiers
    /\ faults \in Nat
    /\ Shape
    /\ evidence.age = 0
    /\ stage \in {"resolve", "get"} => evidence = NoEvidence
    /\ Started => evidence.http = PageObservation(site)
    /\ Late => subs = {}
    /\ outcome = "sealed" => stage = "over"

\* A step leaves what probe p owns alone.
Untouched(p) ==
    /\ conn'[p] = conn[p]
    /\ todo'[p] = todo[p]
    /\ evidence'[p] = evidence[p]
    /\ p \in subs' <=> p \in subs

\* The steps of Next, by the probe that takes them.
HttpSteps == HttpResolve \/ HttpDenied \/ HttpFails \/ HttpRedirected
TlsSteps == SubDenied("tls") \/ SubResolve("tls") \/ TlsSkipped \/ TlsHandshake \/ TlsFails
FileSteps == SubDenied("wellknown") \/ SubResolve("wellknown") \/ WellKnownAnswered \/ WellKnownFails
BundleSteps ==
    SubResolve("bundle") \/ BundleDenied \/ BundleAnswered \/ BundleFails \/ BundleRaises \/ BundleEnds
BackendSteps == BackendSkipped \/ BackendResolve \/ BackendDenied \/ BackendAnswered \/ BackendFails
PathSteps == PathsResolve \/ PathsDenied \/ PathAnswered \/ PathFails
\* Those that write nothing of any probe.
Rest == BackendRaises \/ PathsEnd \/ Seal \/ UNCHANGED vars

LEMMA StepsByProbe ==
    ASSUME [Next]_vars
    PROVE  \/ HttpSteps \/ HttpAnswered \/ TlsSteps \/ FileSteps \/ BundleSteps \/ Gathered
           \/ BackendSteps \/ BackendsEnd \/ PathSteps \/ Rest
<1>1. ASSUME NEW p \in SubProbes, SubDenied(p) PROVE TlsSteps \/ FileSteps
  BY <1>1 DEF SubDenied, TlsSteps, FileSteps
<1>2. ASSUME NEW p \in SubProbes, SubResolve(p) PROVE TlsSteps \/ FileSteps \/ BundleSteps
  BY <1>2 DEF SubProbes, TlsSteps, FileSteps, BundleSteps
<1> QED
  BY <1>1, <1>2 DEF Next, HttpStep, GatherStep, BackendStep, PathStep, HttpSteps, TlsSteps, FileSteps,
     BundleSteps, BackendSteps, PathSteps, Rest

\* Setting one field of the evidence, one list, one address.
LEMMA EvidencePut ==
    ASSUME Shape, NEW p \in Probes, NEW v, evidence' = [evidence EXCEPT ![p] = v]
    PROVE  /\ evidence' = [x \in Probes \cup {"age"} |-> evidence'[x]]
           /\ evidence'[p] = v
           /\ evidence'["age"] = evidence["age"]
           /\ \A q \in Probes \ {p} : evidence'[q] = evidence[q]
BY DEF Shape, Probes, SubProbes

LEMMA TodoPut ==
    ASSUME Shape, NEW p \in Probes, NEW v, todo' = [todo EXCEPT ![p] = v]
    PROVE  /\ todo' = [x \in Probes |-> todo'[x]]
           /\ todo'[p] = v
           /\ \A q \in Probes \ {p} : todo'[q] = todo[q]
BY DEF Shape

LEMMA ConnPut ==
    ASSUME Shape, NEW p \in Probes, NEW v, conn' = [conn EXCEPT ![p] = v]
    PROVE  /\ conn' = [x \in Probes |-> conn'[x]]
           /\ conn'[p] = v
           /\ \A q \in Probes \ {p} : conn'[q] = conn[q]
BY DEF Shape

\* A step of a probe q touches nothing of the others; every step keeps the site
\* and the tier, and adds one to the faults at most.
Frame(q) ==
    /\ UNCHANGED <<deviations, tier>>
    /\ Shape'
    /\ evidence'["age"] = evidence["age"]
    /\ faults' = faults \/ faults' = faults + 1
    /\ \A p \in Probes \ {q} : Untouched(p)

\* What a step of one probe may do to the lists, the addresses and the
\* evidence: nothing, or set its own.
Own(q) ==
    /\ UNCHANGED <<deviations, tier>>
    /\ UNCHANGED evidence \/ \E v : evidence' = [evidence EXCEPT ![q] = v]
    /\ UNCHANGED todo \/ \E v : todo' = [todo EXCEPT ![q] = v]
    /\ UNCHANGED conn \/ \E v : conn' = [conn EXCEPT ![q] = v]
    /\ faults' = faults \/ faults' = faults + 1
    /\ subs' = subs \/ subs' = subs \ {q}

LEMMA OwnIsFrame == ASSUME Shape, NEW q \in Probes, Own(q) PROVE Frame(q)
<1>1. /\ evidence' = [x \in Probes \cup {"age"} |-> evidence'[x]]
      /\ evidence'["age"] = evidence["age"]
      /\ \A p \in Probes \ {q} : evidence'[p] = evidence[p]
  <2>1. CASE UNCHANGED evidence
    BY <2>1 DEF Shape
  <2>2. CASE \E v : evidence' = [evidence EXCEPT ![q] = v]
    BY <2>2, EvidencePut
  <2> QED  BY <2>1, <2>2 DEF Own
<1>2. todo' = [x \in Probes |-> todo'[x]] /\ \A p \in Probes \ {q} : todo'[p] = todo[p]
  <2>1. CASE UNCHANGED todo
    BY <2>1 DEF Shape
  <2>2. CASE \E v : todo' = [todo EXCEPT ![q] = v]
    BY <2>2, TodoPut
  <2> QED  BY <2>1, <2>2 DEF Own
<1>3. conn' = [x \in Probes |-> conn'[x]] /\ \A p \in Probes \ {q} : conn'[p] = conn[p]
  <2>1. CASE UNCHANGED conn
    BY <2>1 DEF Shape
  <2>2. CASE \E v : conn' = [conn EXCEPT ![q] = v]
    BY <2>2, ConnPut
  <2> QED  BY <2>1, <2>2 DEF Own
<1> QED  BY <1>1, <1>2, <1>3 DEF Own, Frame, Shape, Untouched

LEMMA PinOwn == ASSUME NEW q, Pin(q) PROVE (\E v : conn' = [conn EXCEPT ![q] = v]) /\ faults' = faults
BY DEF Pin

LEMMA HttpOwn == HttpSteps => Own("http")
<1>1. CASE HttpResolve
  BY <1>1, PinOwn DEF HttpResolve, Own, scan
<1>2. CASE HttpDenied
  BY <1>2 DEF HttpDenied, Own, scan, Deny, Fault, Abandon
<1>3. CASE HttpFails
  BY <1>3 DEF HttpFails, Own, scan, Fault, Abandon
<1>4. CASE HttpRedirected
  BY <1>4 DEF HttpRedirected, Own, scan
<1> QED  BY <1>1, <1>2, <1>3, <1>4 DEF HttpSteps

LEMMA TlsOwn == TlsSteps => Own("tls")
<1>1. CASE SubDenied("tls")
  BY <1>1 DEF SubDenied, SubStep, Own, scan, Deny, Fault
<1>2. CASE SubResolve("tls")
  BY <1>2, PinOwn DEF SubResolve, SubStep, Own, scan
<1>3. CASE TlsSkipped
  BY <1>3 DEF TlsSkipped, SubStep, Own, scan
<1>4. CASE TlsHandshake \/ TlsFails
  BY <1>4 DEF TlsHandshake, TlsFails, Handshake, SubStep, Own, scan, Fault
<1> QED  BY <1>1, <1>2, <1>3, <1>4 DEF TlsSteps

LEMMA FileOwn == FileSteps => Own("wellknown")
<1>1. CASE SubDenied("wellknown")
  BY <1>1 DEF SubDenied, SubStep, Own, scan, Deny, Fault
<1>2. CASE SubResolve("wellknown")
  BY <1>2, PinOwn DEF SubResolve, SubStep, Own, scan
<1>3. CASE WellKnownAnswered \/ WellKnownFails
  BY <1>3 DEF WellKnownAnswered, WellKnownFails, WellKnownNext, SubStep, Own, scan, Fault
<1> QED  BY <1>1, <1>2, <1>3 DEF FileSteps

LEMMA BundleOwn == BundleSteps => Own("bundle")
<1>1. CASE SubResolve("bundle")
  BY <1>1, PinOwn DEF SubResolve, SubStep, Own, scan
<1>2. CASE BundleDenied \/ BundleAnswered \/ BundleFails
  BY <1>2 DEF BundleDenied, BundleAnswered, BundleFails, BundleNext, SubStep, Own, scan, Deny, Fault
<1>3. CASE BundleRaises \/ BundleEnds
  BY <1>3 DEF BundleRaises, BundleEnds, SubStep, Own, scan, Fault
<1> QED  BY <1>1, <1>2, <1>3 DEF BundleSteps

LEMMA BackendOwn == BackendSteps => Own("backends")
<1>1. CASE BackendResolve
  BY <1>1, PinOwn DEF BackendResolve, AtBackend, Own, scan
<1>2. CASE BackendSkipped \/ BackendDenied \/ BackendAnswered \/ BackendFails
  BY <1>2 DEF BackendSkipped, BackendDenied, BackendAnswered, BackendFails, BackendNext, AtBackend,
     Own, scan, Deny, Fault
<1> QED  BY <1>1, <1>2 DEF BackendSteps

LEMMA PathOwn == PathSteps => Own("paths")
<1>1. CASE PathsResolve
  BY <1>1, PinOwn DEF PathsResolve, Own, scan
<1>2. CASE PathsDenied
  BY <1>2 DEF PathsDenied, Own, scan, Deny, Fault, Abandon
<1>3. CASE PathAnswered \/ PathFails
  BY <1>3 DEF PathAnswered, PathFails, PathNext, Own, scan, Fault
<1> QED  BY <1>1, <1>2, <1>3 DEF PathSteps

\* The two steps between the probes prepare a list for the next one.
LEMMA GatheredOwn == Gathered => Own("backends")
BY DEF Gathered, Own, scan

LEMMA BackendsEndOwn == BackendsEnd => Own("paths")
BY DEF BackendsEnd, Own, scan

LEMMA RestOwn == ASSUME Rest, NEW q PROVE Own(q)
BY DEF Rest, BackendRaises, PathsEnd, Seal, Abandon, Own, Fault, vars, scan

\* Where the steps of each probe are taken, and where they lead.
LEMMA HttpStages ==
    HttpSteps => /\ stage \in {"resolve", "get"} /\ UNCHANGED <<evidence, subs, todo>>
                 /\ \/ stage' \in {"resolve", "get"} /\ outcome' = outcome
                    \/ stage' = "over" /\ outcome' \in {"denied", "failed"}
BY DEF HttpSteps, HttpResolve, HttpDenied, HttpFails, HttpRedirected, Abandon

LEMMA GatherStages ==
    TlsSteps \/ FileSteps \/ BundleSteps =>
        stage = "gather" /\ stage' = "gather" /\ outcome' \in {outcome, "denied", "failed"}
BY DEF TlsSteps, FileSteps, BundleSteps, SubDenied, SubResolve, SubStep, TlsSkipped, TlsHandshake, TlsFails,
   Handshake, WellKnownAnswered, WellKnownFails, WellKnownNext, BundleDenied, BundleAnswered,
   BundleFails, BundleNext, BundleRaises, BundleEnds

LEMMA BackendStages ==
    BackendSteps => stage = "backends" /\ stage' = "backends" /\ UNCHANGED <<outcome, subs>>
BY DEF BackendSteps, BackendSkipped, BackendResolve, BackendDenied, BackendAnswered, BackendFails, AtBackend

LEMMA PathStages ==
    PathSteps => /\ stage = "paths" /\ UNCHANGED subs
                 /\ \/ stage' = "paths" /\ outcome' = outcome
                    \/ stage' = "over" /\ outcome' = "denied"
BY DEF PathSteps, PathsResolve, PathsDenied, PathAnswered, PathFails, PathNext, Abandon

LEMMA SiteKept == ASSUME deviations' = deviations PROVE site' = site
BY DEF site, Sites

\* The page arrives: the HTTP probe's observation and the lists of two others.
LEMMA AnsweredFrame ==
    ASSUME BaseInv, HttpAnswered
    PROVE  /\ UNCHANGED <<deviations, tier, faults, outcome, conn>>
           /\ stage = "get" /\ stage' = "gather" /\ subs' = SubProbes
           /\ Shape'
           /\ evidence'["http"] = PageObservation(site)
           /\ \A x \in (Probes \ {"http"}) \cup {"age"} : evidence'[x] = NoEvidence[x]
           /\ todo'["wellknown"] = WellKnownFiles
           /\ todo'["bundle"] = ScriptUrls(site)
<1>1. evidence' = [evidence EXCEPT !["http"] = PageObservation(site)] /\ evidence = NoEvidence
  BY DEF HttpAnswered, BaseInv
<1>2. /\ evidence' = [x \in Probes \cup {"age"} |-> evidence'[x]]
      /\ evidence'["http"] = PageObservation(site)
      /\ \A x \in (Probes \ {"http"}) \cup {"age"} : evidence'[x] = evidence[x]
  BY <1>1, EvidencePut, ProbesExist DEF BaseInv
<1>3. todo' = [todo EXCEPT !["wellknown"] = WellKnownFiles, !["bundle"] = ScriptUrls(site)]
  BY DEF HttpAnswered
<1>4. /\ todo' = [x \in Probes |-> todo'[x]]
      /\ todo'["wellknown"] = WellKnownFiles
      /\ todo'["bundle"] = ScriptUrls(site)
  BY <1>3, ProbesExist DEF BaseInv, Shape
<1> QED  BY <1>1, <1>2, <1>4 DEF HttpAnswered, BaseInv, Shape, scan

LEMMA BaseInit == Init => BaseInv
BY DEF Init, BaseInv, Shape, Started, Late, NoEvidence, Probes, SubProbes

\* A framed step of a probe other than the HTTP one, or one that leaves the
\* evidence alone, keeps the page that was seen.
LEMMA BaseNext == BaseInv /\ [Next]_vars => BaseInv'
<1> SUFFICES ASSUME BaseInv, [Next]_vars PROVE BaseInv'  OBVIOUS
<1> USE ProbesExist
<1>a. Shape /\ faults \in Nat /\ (outcome = "sealed" => stage = "over")
  BY DEF BaseInv
<1>b. ASSUME NEW q \in Probes, Own(q), q # "http" \/ UNCHANGED evidence,
             stage' \in {"resolve", "get"} => UNCHANGED evidence /\ stage \in {"resolve", "get"},
             Started' => Started, Late' => subs' = {}, outcome' = "sealed" => stage' = "over"
      PROVE  BaseInv'
  <2>1. Frame(q)
    BY <1>a, <1>b, OwnIsFrame
  <2>2. UNCHANGED <<deviations, tier>> /\ site' = site
    BY <2>1, SiteKept DEF Frame
  <2>3. Shape' /\ evidence'.age = 0 /\ faults' \in Nat
    BY <2>1 DEF Frame, BaseInv
  <2>4. evidence'["http"] = evidence["http"]
    BY <1>b, <2>1 DEF Frame, Untouched
  <2>5. Started' => evidence'.http = PageObservation(site)'
    BY <1>b, <2>2, <2>4 DEF BaseInv, PageObservation
  <2>6. stage' \in {"resolve", "get"} => evidence' = NoEvidence'
    BY <1>b DEF BaseInv, NoEvidence
  <2> QED  BY <1>b, <2>2, <2>3, <2>5, <2>6 DEF BaseInv
<1>1. CASE HttpSteps
  BY <1>1, <1>a, <1>b, HttpOwn, HttpStages DEF Started, Late
<1>2. CASE HttpAnswered
  <2>1. site' = site
    BY <1>2, AnsweredFrame, SiteKept
  <2>2. evidence'.age = 0 /\ PageObservation(site)' = PageObservation(site)
    BY <1>2, <2>1, AnsweredFrame DEF NoEvidence, PageObservation
  <2> QED  BY <1>2, <1>a, <2>2, AnsweredFrame DEF BaseInv, Late
<1>3. CASE TlsSteps \/ FileSteps \/ BundleSteps
  BY <1>3, <1>a, <1>b, TlsOwn, FileOwn, BundleOwn, GatherStages DEF Started, Late
<1>4. CASE Gathered
  BY <1>4, <1>a, <1>b, GatheredOwn DEF Gathered, Started, Late
<1>5. CASE BackendSteps
  BY <1>5, <1>a, <1>b, BackendOwn, BackendStages DEF Started, Late, BaseInv
<1>6. CASE BackendsEnd
  BY <1>6, <1>a, <1>b, BackendsEndOwn DEF BackendsEnd, Started, Late, BaseInv
<1>7. CASE PathSteps
  BY <1>7, <1>a, <1>b, PathOwn, PathStages DEF Started, Late, BaseInv
<1>8. CASE BackendRaises \/ PathsEnd
  BY <1>8, <1>a, <1>b, RestOwn DEF BackendRaises, PathsEnd, Abandon, Rest, Started, Late, BaseInv
<1>9. CASE Seal
  BY <1>9, <1>a, <1>b, RestOwn DEF Seal, Abandon, Rest, Started, Late, BaseInv
<1>10. CASE UNCHANGED vars
  BY <1>10, <1>a, <1>b, RestOwn DEF vars, Rest, Started, Late, BaseInv
<1> QED
  BY <1>1, <1>2, <1>3, <1>4, <1>5, <1>6, <1>7, <1>8, <1>9, <1>10, StepsByProbe DEF Rest

-----------------------------------------------------------------------------
\* Where a step is none of the steps of a probe, or of those that prepare it,
\* it leaves what the probe has alone.
Framed(p) ==
    /\ UNCHANGED <<deviations, tier, site, truth>>
    /\ Untouched(p)
    /\ faults' = 0 => faults = 0

LEMMA FrameIsFramed ==
    ASSUME BaseInv, NEW q \in Probes, NEW p \in Probes \ {q}, Own(q)
    PROVE  Framed(p)
<1>1. Frame(q) /\ faults \in Nat
  BY OwnIsFrame DEF BaseInv
<1>2. UNCHANGED <<deviations, tier>> /\ site' = site
  BY <1>1, SiteKept DEF Frame
<1>3. truth' = truth
  BY <1>2 DEF truth, EvidenceOf
<1> QED  BY <1>1, <1>2, <1>3 DEF Frame, Framed

\* A step of p's own keeps the site and leaves the page alone.
Ours(p) ==
    /\ UNCHANGED <<deviations, tier, site, truth>>
    /\ Shape /\ Shape'
    /\ evidence'["http"] = evidence["http"]

LEMMA OwnIsOurs == ASSUME BaseInv, NEW q \in Probes \ {"http"}, Own(q) PROVE Ours(q)
<1>1. Shape
  BY DEF BaseInv
<1>2. Frame(q)
  BY <1>1, OwnIsFrame
<1>3. UNCHANGED <<deviations, tier>> /\ site' = site
  BY <1>2, SiteKept DEF Frame
<1>4. truth' = truth
  BY <1>3 DEF truth, EvidenceOf
<1>5. evidence'["http"] = evidence["http"]
  BY <1>2, ProbesExist DEF Frame, Untouched
<1> QED  BY <1>1, <1>2, <1>3, <1>4, <1>5 DEF Frame, Ours

LEMMA Elsewhere ==
    ASSUME BaseInv, [Next]_vars, NEW p \in Probes \ {"http"}
    PROVE  \/ HttpAnswered
           \/ p = "tls" /\ TlsSteps
           \/ p = "wellknown" /\ FileSteps
           \/ p = "bundle" /\ BundleSteps
           \/ p = "backends" /\ (Gathered \/ BackendSteps)
           \/ p = "paths" /\ (BackendsEnd \/ PathSteps)
           \/ Framed(p)
<1> USE ProbesExist
<1>1. ASSUME NEW q \in Probes, q # p, Own(q) PROVE Framed(p)
  BY <1>1, FrameIsFramed
<1>2. CASE HttpSteps
  BY <1>1, <1>2, HttpOwn
<1>3. CASE TlsSteps
  BY <1>1, <1>3, TlsOwn
<1>4. CASE FileSteps
  BY <1>1, <1>4, FileOwn
<1>5. CASE BundleSteps
  BY <1>1, <1>5, BundleOwn
<1>6. CASE Gathered
  BY <1>1, <1>6, GatheredOwn
<1>7. CASE BackendSteps
  BY <1>1, <1>7, BackendOwn
<1>8. CASE BackendsEnd
  BY <1>1, <1>8, BackendsEndOwn
<1>9. CASE PathSteps
  BY <1>1, <1>9, PathOwn
<1>10. CASE Rest
  BY <1>1, <1>10, RestOwn
<1> QED
  BY <1>2, <1>3, <1>4, <1>5, <1>6, <1>7, <1>8, <1>9, <1>10, StepsByProbe

\* The stages only go forward.
LEMMA Forward ==
    ASSUME BaseInv, [Next]_vars
    PROVE  /\ Started' => Started \/ HttpAnswered
           /\ Late' => Late \/ Gathered
           /\ BackendsDone' => BackendsDone \/ BackendsEnd
<1>1. outcome = "sealed" => stage = "over"
  BY DEF BaseInv
<1>2. CASE HttpSteps
  BY <1>1, <1>2, HttpStages DEF Started, Late, BackendsDone
<1>3. CASE TlsSteps \/ FileSteps \/ BundleSteps
  BY <1>1, <1>3, GatherStages DEF Started, Late, BackendsDone
<1>4. CASE BackendSteps
  BY <1>1, <1>4, BackendStages DEF Started, Late, BackendsDone
<1>5. CASE PathSteps
  BY <1>1, <1>5, PathStages DEF Started, Late, BackendsDone
<1>6. CASE HttpAnswered
  BY <1>1, <1>6 DEF HttpAnswered, Started, Late, BackendsDone
<1>7. CASE Gathered
  BY <1>1, <1>7 DEF Gathered, Started, Late, BackendsDone
<1>8. CASE BackendsEnd
  BY <1>1, <1>8 DEF BackendsEnd, Started, Late, BackendsDone
<1>9. CASE Rest
  BY <1>1, <1>9 DEF Rest, BackendRaises, PathsEnd, Seal, Abandon, vars, Started, Late, BackendsDone
<1> QED
  BY <1>2, <1>3, <1>4, <1>5, <1>6, <1>7, <1>8, <1>9, StepsByProbe

\* A run that goes on to a seal has met no exception.
Going == outcome = "running" \/ Late

LEMMA GoingForward == ASSUME BaseInv, [Next]_vars PROVE Going' => Going
<1>1. outcome = "sealed" => stage = "over"
  BY DEF BaseInv
<1>2. CASE HttpSteps
  BY <1>1, <1>2, HttpStages DEF Going, Late
<1>3. CASE TlsSteps \/ FileSteps \/ BundleSteps
  BY <1>1, <1>3, GatherStages DEF Going, Late
<1>4. CASE BackendSteps
  BY <1>4, BackendStages DEF Going, Late
<1>5. CASE PathSteps
  BY <1>5, PathStages DEF Going, Late
<1>6. CASE HttpAnswered
  BY <1>1, <1>6 DEF HttpAnswered, Going, Late
<1>7. CASE Gathered
  BY <1>1, <1>7 DEF Gathered, Going, Late
<1>8. CASE BackendsEnd
  BY <1>8 DEF BackendsEnd, Going, Late
<1>9. CASE Rest
  BY <1>1, <1>9 DEF Rest, BackendRaises, PathsEnd, Seal, Abandon, vars, Going, Late
<1> QED
  BY <1>2, <1>3, <1>4, <1>5, <1>6, <1>7, <1>8, <1>9, StepsByProbe

\* What of the page the TLS probe and the checks' evaluators look at.
LEMMA PageOfSite ==
    ASSUME NEW s
    PROVE  /\ PageObservation(s).https = s.https
           /\ PageObservation(s).body = IF s.location THEN s.excerpt ELSE {}
           /\ PageObservation(s).csp = s.page.csp
BY DEF PageObservation

LEMMA PageOfThis ==
    ASSUME BaseInv, Started
    PROVE  evidence.http.https = site.https
BY PageOfSite DEF BaseInv

(***************************************************************************)
(* The handshake.                                                          *)
(***************************************************************************)
\* A handshake was not made, not verified, or is the site's own.
TlsSeen ==
    /\ conn["tls"] # None => site.https
    /\ Started => evidence["tls"] \in {None, [verified |-> FALSE], truth.tls}
    /\ ~site.https => evidence["tls"] = None
    /\ "tls" \in subs => evidence["tls"] = None
    /\ Started /\ "tls" \notin subs /\ faults = 0 => evidence["tls"] = truth.tls

LEMMA TlsTruth == truth.tls = IF site.https THEN Certificate(site) ELSE None
BY DEF truth, EvidenceOf

LEMMA TlsInit == Init => TlsSeen
BY ProbesExist DEF Init, TlsSeen, Started, NoEvidence

LEMMA TlsNext == BaseInv /\ TlsSeen /\ [Next]_vars => TlsSeen'
<1> SUFFICES ASSUME BaseInv, TlsSeen, [Next]_vars PROVE TlsSeen'  OBVIOUS
<1> USE ProbesExist
<1>1. CASE HttpAnswered
  <2>1. site' = site
    BY <1>1, AnsweredFrame, SiteKept
  <2>2. evidence'["tls"] = None /\ "tls" \in subs' /\ conn' = conn
    BY <1>1, AnsweredFrame DEF NoEvidence, SubProbes
  <2> QED  BY <2>1, <2>2 DEF TlsSeen
<1>2. CASE Framed("tls")
  <2>1. Started' => Started \/ HttpAnswered
    BY Forward
  <2>2. /\ conn'["tls"] = conn["tls"] /\ evidence'["tls"] = evidence["tls"]
        /\ "tls" \in subs' <=> "tls" \in subs
        /\ UNCHANGED <<site, truth>> /\ (faults' = 0 => faults = 0)
    BY <1>2 DEF Framed, Untouched
  <2> QED  BY <1>1, <2>1, <2>2 DEF TlsSeen
<1>3. CASE TlsSteps
  <2>1. /\ UNCHANGED <<site, truth>> /\ Shape /\ Shape' /\ faults \in Nat
        /\ stage = "gather" /\ Started
    BY <1>3, TlsOwn, OwnIsOurs, GatherStages DEF Ours, BaseInv, Started
  <2>2. CASE SubDenied("tls")
    BY <2>1, <2>2 DEF SubDenied, SubStep, Deny, Fault, TlsSeen
  <2>3. CASE SubResolve("tls")
    <3>1. site.https
      BY <2>1, <2>3, PageOfThis DEF SubResolve
    <3>2. UNCHANGED <<evidence, subs, faults>> /\ "tls" \in subs
      BY <2>3 DEF SubResolve, SubStep, Pin
    <3> QED  BY <2>1, <3>1, <3>2 DEF TlsSeen
  <2>4. CASE TlsSkipped
    <3>1. ~site.https
      BY <2>1, <2>4, PageOfThis DEF TlsSkipped
    <3>2. UNCHANGED <<evidence, conn>>
      BY <2>4 DEF TlsSkipped
    <3> QED  BY <2>1, <3>1, <3>2, TlsTruth DEF TlsSeen
  <2>5. CASE TlsHandshake
    <3>1. evidence' = [evidence EXCEPT !["tls"] = Certificate(site)] /\ conn' = conn /\ conn["tls"] # None
          /\ "tls" \notin subs'
      BY <2>5 DEF TlsHandshake, Handshake
    <3>2. evidence'["tls"] = Certificate(site)
      BY <2>1, <3>1, EvidencePut
    <3>3. site.https
      BY <3>1 DEF TlsSeen
    <3> QED  BY <2>1, <3>1, <3>2, <3>3, TlsTruth DEF TlsSeen
  <2>6. CASE TlsFails
    <3>1. evidence' = [evidence EXCEPT !["tls"] = [verified |-> FALSE]] /\ conn' = conn /\ conn["tls"] # None
          /\ "tls" \notin subs' /\ faults' = faults + 1
      BY <2>6 DEF TlsFails, Handshake, Fault
    <3>2. evidence'["tls"] = [verified |-> FALSE]
      BY <2>1, <3>1, EvidencePut
    <3>3. site.https
      BY <3>1 DEF TlsSeen
    <3> QED  BY <2>1, <3>1, <3>2, <3>3 DEF TlsSeen
  <2> QED  BY <1>3, <2>2, <2>3, <2>4, <2>5, <2>6 DEF TlsSteps
<1> QED  BY <1>1, <1>2, <1>3, Elsewhere

-----------------------------------------------------------------------------
\* A list to be worked off from its head.
LEMMA ListTakes ==
    ASSUME NEW S, NEW q \in Seq(S), q # <<>>
    PROVE  /\ Tail(q) \in Seq(S)
           /\ Range(q) = {Head(q)} \cup Range(Tail(q))
           /\ Head(q) \in S
           /\ Len(q) = 1 => Range(Tail(q)) = {}
<1>1. /\ Tail(q) \in Seq(S) /\ Len(Tail(q)) = Len(q) - 1 /\ Len(q) \in Nat \ {0}
      /\ DOMAIN q = 1 .. Len(q) /\ Head(q) = q[1] /\ Head(q) \in S
      /\ \A i \in 1 .. Len(Tail(q)) : Tail(q)[i] = q[i + 1]
  OBVIOUS
<1>2. DOMAIN Tail(q) = 1 .. Len(Tail(q))
  BY <1>1
<1>3. ASSUME NEW x \in Range(q) PROVE x = Head(q) \/ x \in Range(Tail(q))
  <2>1. PICK i \in 1 .. Len(q) : x = q[i]
    BY <1>1 DEF Range
  <2>2. CASE i = 1
    BY <1>1, <2>1, <2>2
  <2>3. CASE i # 1
    <3>1. i - 1 \in 1 .. Len(Tail(q)) /\ (i - 1) + 1 = i
      BY <1>1, <2>1, <2>3
    <3>2. Tail(q)[i - 1] = x
      BY <1>1, <2>1, <3>1
    <3> QED  BY <1>2, <3>1, <3>2 DEF Range
  <2> QED  BY <2>2, <2>3
<1>4. ASSUME NEW x \in Range(Tail(q)) PROVE x \in Range(q)
  <2>1. PICK i \in 1 .. Len(Tail(q)) : x = Tail(q)[i]
    BY <1>2 DEF Range
  <2>2. i + 1 \in 1 .. Len(q) /\ x = q[i + 1]
    BY <1>1, <2>1
  <2> QED  BY <1>1, <2>2 DEF Range
<1>5. Head(q) \in Range(q)
  BY <1>1 DEF Range
<1>6. ASSUME Len(q) = 1 PROVE Range(Tail(q)) = {}
  <2>1. Len(Tail(q)) = 0
    BY <1>1, <1>6
  <2>2. DOMAIN Tail(q) = 1 .. 0
    BY <1>2, <2>1
  <2>3. 1 .. 0 = {}
    OBVIOUS
  <2> QED  BY <2>2, <2>3 DEF Range
<1> QED  BY <1>1, <1>3, <1>4, <1>5, <1>6

LEMMA ListIsOfItsRange == ASSUME NEW S, NEW q \in Seq(S) PROVE q \in Seq(Range(q))
<1>1. DOMAIN q = 1 .. Len(q) /\ Len(q) \in Nat /\ q = [i \in 1 .. Len(q) |-> q[i]]
  OBVIOUS
<1>2. \A i \in 1 .. Len(q) : q[i] \in Range(q)
  BY <1>1 DEF Range
<1> QED  BY <1>1, <1>2

(***************************************************************************)
(* The conventional files.                                                 *)
(***************************************************************************)
\* What a probe that works off a list has observed so far.
Partial(observed) == IF observed = None THEN {} ELSE observed

\* The files that were found are files of the site; with those still to be asked
\* for they are all of them while no request failed.
FilesSeen ==
    Started =>
        /\ todo["wellknown"] \in Seq(Range(WellKnownFiles))
        /\ Partial(evidence["wellknown"]) \subseteq truth.wellknown
        /\ faults = 0 =>
               Partial(evidence["wellknown"]) \cup {f \in Range(todo["wellknown"]) : FileServed(site, f)}
                   = truth.wellknown
        /\ faults = 0 /\ "wellknown" \notin subs => evidence["wellknown"] = truth.wellknown

LEMMA FilesTruth == truth.wellknown = {f \in Range(WellKnownFiles) : FileServed(site, f)}
BY DEF truth, EvidenceOf

LEMMA FilesInit == Init => FilesSeen
BY DEF Init, FilesSeen, Started

LEMMA FilesNext == BaseInv /\ FilesSeen /\ [Next]_vars => FilesSeen'
<1> SUFFICES ASSUME BaseInv, FilesSeen, [Next]_vars PROVE FilesSeen'  OBVIOUS
<1> USE ProbesExist
<1>1. CASE HttpAnswered
  <2>1. site' = site /\ truth' = truth
    BY <1>1, AnsweredFrame, SiteKept DEF truth, EvidenceOf
  <2>2. /\ evidence'["wellknown"] = None /\ "wellknown" \in subs'
        /\ todo'["wellknown"] = WellKnownFiles
    BY <1>1, AnsweredFrame DEF NoEvidence, SubProbes
  <2>3. Partial(evidence["wellknown"])' = {}
    BY <2>2 DEF Partial
  <2>4. WellKnownFiles \in Seq(Range(WellKnownFiles))
    <3>1. WellKnownFiles \in Seq({"security_txt", "robots_txt", "sitemap", "manifest"})
      BY DEF WellKnownFiles
    <3> QED  BY <3>1, ListIsOfItsRange
  <2> HIDE DEF FilesSeen
  <2>6. {f \in Range(todo["wellknown"]) : FileServed(site, f)}' = truth.wellknown
    BY <2>1, <2>2, FilesTruth DEF FileServed
  <2> QED  BY <2>1, <2>2, <2>3, <2>4, <2>6 DEF FilesSeen
<1>2. CASE Framed("wellknown")
  <2>1. Started' => Started \/ HttpAnswered
    BY Forward
  <2>2. /\ todo'["wellknown"] = todo["wellknown"] /\ evidence'["wellknown"] = evidence["wellknown"]
        /\ "wellknown" \in subs' <=> "wellknown" \in subs
        /\ UNCHANGED <<site, truth>> /\ (faults' = 0 => faults = 0)
    BY <1>2 DEF Framed, Untouched
  <2> QED  BY <1>1, <2>1, <2>2 DEF FilesSeen, Partial, FileServed
<1>3. CASE FileSteps
  <2>1. /\ UNCHANGED <<site, truth>> /\ Shape /\ Shape' /\ faults \in Nat
        /\ Started
    BY <1>3, FileOwn, OwnIsOurs, GatherStages DEF Ours, BaseInv, Started
  <2>2. CASE SubDenied("wellknown")
    <3>1. UNCHANGED <<todo, evidence>> /\ faults' # 0
      BY <2>1, <2>2 DEF SubDenied, Deny, Fault
    <3> QED  BY <2>1, <3>1 DEF FilesSeen, Partial
  <2>3. CASE SubResolve("wellknown")
    <3>1. UNCHANGED <<todo, evidence, subs, faults>>
      BY <2>3 DEF SubResolve, Pin
    <3> QED  BY <2>1, <3>1 DEF FilesSeen, Partial, FileServed
  <2> DEFINE q == todo["wellknown"]
             seen == Partial(evidence["wellknown"])
  <2>4. ASSUME NEW found, WellKnownNext(found), q # <<>>, found \subseteq {f \in {Head(q)} : FileServed(site, f)},
               faults' # 0 \/ (faults' = faults /\ found = {f \in {Head(q)} : FileServed(site, f)})
        PROVE  FilesSeen'
    <3>1. /\ evidence' = [evidence EXCEPT !["wellknown"] = seen \cup found]
          /\ todo' = [todo EXCEPT !["wellknown"] = Tail(q)]
          /\ "wellknown" \notin subs' => Len(q) = 1
      BY <2>4 DEF WellKnownNext, SubStep, Partial
    <3>2. evidence'["wellknown"] = seen \cup found /\ todo'["wellknown"] = Tail(q)
      BY <2>1, <3>1, EvidencePut, TodoPut
    <3>3. /\ Tail(q) \in Seq(Range(WellKnownFiles))
          /\ Range(q) = {Head(q)} \cup Range(Tail(q))
          /\ Head(q) \in Range(WellKnownFiles)
          /\ Len(q) = 1 => Range(Tail(q)) = {}
      BY <2>1, <2>4, ListTakes DEF FilesSeen
    <3>4. seen \subseteq truth.wellknown
      BY <2>1 DEF FilesSeen
    <3>5. seen \cup found \subseteq truth.wellknown
      BY <2>4, <3>3, <3>4, FilesTruth
    <3>6. Partial(evidence'["wellknown"]) = seen \cup found
      BY <3>2, <3>5, FilesTruth, ObservedAssumption DEF Partial
    <3>7. faults' = 0 => seen \cup found \cup {f \in Range(Tail(q)) : FileServed(site, f)} = truth.wellknown
      <4> SUFFICES ASSUME faults' = 0
                   PROVE  seen \cup found \cup {f \in Range(Tail(q)) : FileServed(site, f)} = truth.wellknown
        OBVIOUS
      <4>1. faults = 0 /\ found = {f \in {Head(q)} : FileServed(site, f)}
        BY <2>4
      <4>2. seen \cup {f \in Range(q) : FileServed(site, f)} = truth.wellknown
        BY <2>1, <4>1 DEF FilesSeen
      <4>3. {f \in Range(q) : FileServed(site, f)}
              = {f \in {Head(q)} : FileServed(site, f)} \cup {f \in Range(Tail(q)) : FileServed(site, f)}
        BY <3>3
      <4> HIDE DEF q, seen
      <4> QED  BY <4>1, <4>2, <4>3
    <3>8. faults' = 0 /\ "wellknown" \notin subs' => seen \cup found = truth.wellknown
      BY <3>1, <3>3, <3>7
    <3> HIDE DEF q, seen
    <3>9. {f \in Range(todo["wellknown"]) : FileServed(site, f)}' = {f \in Range(Tail(q)) : FileServed(site, f)}
      BY <2>1, <3>2 DEF FileServed
    <3>10. Partial(evidence["wellknown"])' = seen \cup found
      BY <3>6 DEF Partial
    <3> QED  BY <2>1, <3>2, <3>3, <3>5, <3>7, <3>8, <3>9, <3>10 DEF FilesSeen
  <2>5. CASE WellKnownAnswered
    BY <2>4, <2>5 DEF WellKnownAnswered
  <2>6. CASE WellKnownFails
    BY <2>1, <2>4, <2>6 DEF WellKnownFails, Fault
  <2> QED  BY <1>3, <2>2, <2>3, <2>5, <2>6 DEF FileSteps
<1> QED  BY <1>1, <1>2, <1>3, Elsewhere

(***************************************************************************)
(* The scripts.                                                            *)
(***************************************************************************)
\* The addresses of the scripts that a run fetches.
Urls == Range(ScriptUrls(site))

\* A site's script tags are a list, and the first MaxScripts of them are its
\* own: each has a text and a count of console calls.
LEMMA TagsOfSite ==
    ASSUME NEW D
    PROVE  /\ Site(D).scripts = ScriptTags(D)
           /\ Len(ScriptTags(D)) \in Nat
           /\ DOMAIN ScriptTags(D) = 1 .. Len(ScriptTags(D))
           /\ \A i \in DOMAIN ScriptTags(D) : ScriptTags(D)[i].url \in Nat
<1> DEFINE urls == IF "many_scripts" \in D THEN [i \in 1..8 |-> 10 + i] \o <<Widget, App>> ELSE <<Widget, App>>
<1>1. urls \in Seq(Nat)
  <2>1. [i \in 1..8 |-> 10 + i] \in Seq(Nat) /\ <<Widget, App>> \in Seq(Nat)
    BY DEF Widget, App
  <2> QED  BY <2>1
<1>2. ScriptTags(D) = [i \in DOMAIN urls |-> Tag(D, urls[i])]
  BY DEF ScriptTags
<1> HIDE DEF urls
<1>3. DOMAIN urls = 1 .. Len(urls) /\ Len(urls) \in Nat /\ \A i \in DOMAIN urls : urls[i] \in Nat
  BY <1>1
<1>4. Len(ScriptTags(D)) = Len(urls)
  BY <1>2, <1>3
<1>5. \A i \in DOMAIN urls : ScriptTags(D)[i].url = urls[i]
  BY <1>2 DEF Tag
<1> QED  BY <1>2, <1>3, <1>4, <1>5 DEF Site

LEMMA UrlsOfSite ==
    ASSUME NEW D
    PROVE  /\ ScriptUrls(Site(D)) \in Seq(Nat)
           /\ \A u \in Range(ScriptUrls(Site(D))) :
                  Site(D).text[u] = ScriptText(D, u) /\ Site(D).console[u] = ConsoleCalls(D, u)
<1> DEFINE tags == ScriptTags(D)
           urls == [i \in DOMAIN tags |-> tags[i].url]
           n    == Min({MaxScripts, Len(tags)})
<1>1. /\ Site(D).scripts = tags /\ Len(tags) \in Nat /\ DOMAIN tags = 1 .. Len(tags)
      /\ \A i \in DOMAIN tags : tags[i].url \in Nat
  BY TagsOfSite
<1>2. n \in Nat /\ n <= Len(tags)
  <2>1. \E x \in {MaxScripts, Len(tags)} : \A y \in {MaxScripts, Len(tags)} : x <= y
    BY <1>1, BoundsAssumption
  <2> HIDE DEF tags
  <2>2. n \in {MaxScripts, Len(tags)} /\ \A y \in {MaxScripts, Len(tags)} : n <= y
    BY <2>1 DEF Min
  <2> QED  BY <1>1, <2>2, BoundsAssumption
<1>3. urls \in Seq(Nat) /\ Len(urls) = Len(tags)
  BY <1>1
<1>4. /\ SubSeq(urls, 1, n) \in Seq(Nat)
      /\ \A i \in DOMAIN SubSeq(urls, 1, n) : i \in DOMAIN tags /\ SubSeq(urls, 1, n)[i] = tags[i].url
  <2> HIDE DEF n
  <2> DEFINE part == SubSeq(urls, 1, n)
  <2>1. part = [i \in 1 .. n |-> urls[i]]
    BY <1>2, <1>3
  <2>2. \A i \in 1 .. n : i \in DOMAIN tags /\ urls[i] = tags[i].url /\ urls[i] \in Nat
    BY <1>1, <1>2
  <2> HIDE DEF part, urls
  <2>3. DOMAIN part = 1 .. n /\ \A i \in 1 .. n : part[i] = urls[i]
    BY <2>1
  <2>4. part \in Seq(Nat)
    BY <1>2, <2>1, <2>2
  <2> QED  BY <2>2, <2>3, <2>4 DEF part
<1>5. ScriptUrls(Site(D)) = IF Site(D).location THEN SubSeq(urls, 1, n) ELSE <<>>
  BY <1>1 DEF ScriptUrls
<1> DEFINE own == {t.url : t \in {tags[i] : i \in DOMAIN tags}}
<1>6. Range(ScriptUrls(Site(D))) \subseteq own
  <2> HIDE DEF n, tags, urls
  <2>1. CASE Site(D).location
    BY <1>4, <1>5, <2>1 DEF Range
  <2>2. CASE ~Site(D).location
    BY <1>5, <2>2 DEF Range
  <2> QED  BY <2>1, <2>2
<1>7. \A u \in own : Site(D).text[u] = ScriptText(D, u) /\ Site(D).console[u] = ConsoleCalls(D, u)
  BY DEF Site
<1> HIDE DEF n, tags, urls, own
<1> QED  BY <1>4, <1>5, <1>6, <1>7

\* A script of the site, fetched or not.
ScriptSeen(x) == \E u \in Urls : x \in {Fetched(site, u), NotFetched(u)}

\* Every script that was seen is one; with those still to be fetched they are
\* the site's bundle while no request failed.
BundleSeen ==
    Started =>
        /\ todo["bundle"] \in Seq(Urls)
        /\ \A x \in Partial(evidence["bundle"]) : ScriptSeen(x)
        /\ Going /\ "bundle" \notin subs => \A x \in evidence["bundle"] : ScriptSeen(x)
        /\ faults = 0 =>
               Partial(evidence["bundle"]) \cup {Fetched(site, u) : u \in Range(todo["bundle"])} = truth.bundle
        /\ faults = 0 /\ "bundle" \notin subs => evidence["bundle"] = truth.bundle

LEMMA BundleTruth == truth.bundle = {Fetched(site, u) : u \in Urls}
BY DEF truth, EvidenceOf, Urls

LEMMA BundleIsSomething ==
    ASSUME BaseInv, NEW scripts \in SUBSET truth.bundle
    PROVE  scripts # None
<1>1. site = Site(deviations) /\ deviations \in Scenarios
  BY DEF BaseInv, site, Sites
<1>2. EvidenceOf(Site(deviations), "passive").bundle = truth.bundle
  BY <1>1 DEF truth, EvidenceOf
<1> QED  BY <1>1, <1>2, ObservedAssumption

LEMMA BundleInit == Init => BundleSeen
BY DEF Init, BundleSeen, Started

LEMMA BundleNextStep == BaseInv /\ BundleSeen /\ [Next]_vars => BundleSeen'
<1> SUFFICES ASSUME BaseInv, BundleSeen, [Next]_vars PROVE BundleSeen'  OBVIOUS
<1> USE ProbesExist
<1>1. CASE HttpAnswered
  <2>1. site' = site /\ truth' = truth
    BY <1>1, AnsweredFrame, SiteKept DEF truth, EvidenceOf
  <2>2. /\ evidence'["bundle"] = None /\ "bundle" \in subs'
        /\ todo'["bundle"] = ScriptUrls(site)
    BY <1>1, AnsweredFrame DEF NoEvidence, SubProbes
  <2>3. Partial(evidence["bundle"])' = {}
    BY <2>2 DEF Partial
  <2>4. ScriptUrls(site) \in Seq(Urls)
    <3>1. site = Site(deviations)
      BY DEF BaseInv, site, Sites
    <3> QED  BY <3>1, UrlsOfSite, ListIsOfItsRange DEF Urls
  <2>5. Urls' = Urls
    BY <2>1 DEF Urls, ScriptUrls
  <2>6. {Fetched(site, u) : u \in Range(todo["bundle"])}' = truth.bundle
    BY <2>1, <2>2, BundleTruth DEF Fetched, Urls
  <2> QED  BY <2>1, <2>2, <2>3, <2>4, <2>5, <2>6 DEF BundleSeen
<1>2. CASE Framed("bundle")
  <2>1. Started' => Started \/ HttpAnswered
    BY Forward
  <2>2. /\ todo'["bundle"] = todo["bundle"] /\ evidence'["bundle"] = evidence["bundle"]
        /\ "bundle" \in subs' <=> "bundle" \in subs
        /\ UNCHANGED <<site, truth>> /\ (faults' = 0 => faults = 0)
    BY <1>2 DEF Framed, Untouched
  <2> QED
    BY <1>1, <2>1, <2>2, GoingForward
       DEF BundleSeen, Partial, Fetched, NotFetched, ScriptSeen, Urls, ScriptUrls
<1>3. CASE BundleSteps
  <2>1. /\ UNCHANGED <<site, truth>> /\ Shape /\ Shape' /\ faults \in Nat
        /\ Started
    BY <1>3, BundleOwn, OwnIsOurs, GatherStages DEF Ours, BaseInv, Started
  <2>2. Urls' = Urls /\ \A x : ScriptSeen(x)' <=> ScriptSeen(x)
    BY <2>1 DEF Urls, ScriptSeen, ScriptUrls, Fetched, NotFetched
  <2>3. CASE SubResolve("bundle")
    <3>1. UNCHANGED <<todo, evidence, subs, faults>>
      BY <2>3 DEF SubResolve, Pin
    <3> QED  BY <2>1, <2>2, <3>1, GoingForward DEF BundleSeen, Partial, Fetched
  <2> DEFINE q == todo["bundle"]
             seen == Partial(evidence["bundle"])
  <2>4. ASSUME NEW script, BundleNext(script), q # <<>>, ScriptSeen(script),
               faults' # 0 \/ (faults' = faults /\ script = Fetched(site, Head(q)))
        PROVE  BundleSeen'
    <3>1. /\ evidence' = [evidence EXCEPT !["bundle"] = seen \cup {script}]
          /\ todo' = [todo EXCEPT !["bundle"] = Tail(q)]
          /\ "bundle" \in subs'
      BY <2>4 DEF BundleNext, SubStep, Partial
    <3>2. evidence'["bundle"] = seen \cup {script} /\ todo'["bundle"] = Tail(q)
      BY <2>1, <3>1, EvidencePut, TodoPut
    <3>3. /\ Tail(q) \in Seq(Urls)
          /\ Range(q) = {Head(q)} \cup Range(Tail(q))
      BY <2>1, <2>4, ListTakes DEF BundleSeen
    <3>4. \A x \in seen \cup {script} : ScriptSeen(x)
      BY <2>1, <2>4 DEF BundleSeen
    <3>5. \A x \in Partial(evidence["bundle"])' : ScriptSeen(x)
      BY <3>2, <3>4 DEF Partial
    <3>6. faults' = 0 => /\ seen \cup {script} \cup {Fetched(site, u) : u \in Range(Tail(q))} = truth.bundle
                         /\ Partial(evidence["bundle"])' = seen \cup {script}
      <4> SUFFICES ASSUME faults' = 0
                   PROVE  /\ seen \cup {script} \cup {Fetched(site, u) : u \in Range(Tail(q))} = truth.bundle
                          /\ Partial(evidence["bundle"])' = seen \cup {script}
        OBVIOUS
      <4>1. faults = 0 /\ script = Fetched(site, Head(q))
        BY <2>4
      <4>2. seen \cup {Fetched(site, u) : u \in Range(q)} = truth.bundle
        BY <2>1, <4>1 DEF BundleSeen
      <4> HIDE DEF q, seen
      <4>3. {Fetched(site, u) : u \in Range(q)}
              = {Fetched(site, Head(q))} \cup {Fetched(site, u) : u \in Range(Tail(q))}
        BY <3>3
      <4>4. seen \cup {script} \cup {Fetched(site, u) : u \in Range(Tail(q))} = truth.bundle
        BY <4>1, <4>2, <4>3
      <4>5. seen \cup {script} # None
        BY <4>4, BundleIsSomething
      <4> QED  BY <3>2, <4>4, <4>5 DEF Partial
    <3> HIDE DEF q, seen
    <3>7. {Fetched(site, u) : u \in Range(todo["bundle"])}' = {Fetched(site, u) : u \in Range(Tail(q))}
      BY <2>1, <3>2 DEF Fetched
    <3> QED  BY <2>1, <2>2, <3>1, <3>2, <3>3, <3>5, <3>6, <3>7 DEF BundleSeen
  <2>5. q # <<>> => Head(q) \in Urls
    BY <2>1, ListTakes DEF BundleSeen
  <2>6. CASE BundleDenied
    BY <2>1, <2>4, <2>5, <2>6 DEF BundleDenied, Deny, Fault, ScriptSeen
  <2>7. CASE BundleAnswered
    BY <2>4, <2>5, <2>7 DEF BundleAnswered, ScriptSeen
  <2>8. CASE BundleFails
    BY <2>1, <2>4, <2>5, <2>8 DEF BundleFails, Fault, ScriptSeen
  <2>9. CASE BundleEnds
    <3>1. /\ evidence' = [evidence EXCEPT !["bundle"] = IF evidence["bundle"] = None THEN {} ELSE evidence["bundle"]]
          /\ UNCHANGED <<todo, faults>> /\ q = <<>>
      BY <2>9 DEF BundleEnds
    <3>2. evidence'["bundle"] = seen
      BY <2>1, <3>1, EvidencePut DEF Partial
    <3>3. Partial(evidence["bundle"])' \subseteq seen /\ \A x \in seen : ScriptSeen(x)
      BY <2>1, <3>2 DEF Partial, BundleSeen
    <3>4. Range(q) = {}
      BY <3>1 DEF Range
    <3>5. faults = 0 => seen = truth.bundle
      BY <2>1, <3>4 DEF BundleSeen
    <3>6. faults = 0 => Partial(evidence["bundle"])' = truth.bundle
      BY <3>2, <3>5, BundleIsSomething DEF Partial
    <3>7. {Fetched(site, u) : u \in Range(todo["bundle"])}' = {}
      BY <3>1, <3>4
    <3> HIDE DEF seen
    <3> QED  BY <2>1, <2>2, <3>1, <3>2, <3>3, <3>5, <3>6, <3>7 DEF BundleSeen
  <2>10. CASE BundleRaises
    <3>1. UNCHANGED <<todo, evidence>> /\ faults' # 0 /\ ~Going'
      <4>1. stage' = "gather" /\ outcome' # "running" /\ (outcome' = outcome \/ outcome' = "failed")
        BY <2>10 DEF BundleRaises, SubStep
      <4>2. outcome = "sealed" => stage = "over"
        BY DEF BaseInv
      <4>3. ~Going'
        BY <2>10, <4>1, <4>2 DEF BundleRaises, SubStep, Going, Late
      <4> QED  BY <2>1, <2>10, <4>3 DEF BundleRaises, Fault
    <3> QED  BY <2>1, <2>2, <3>1 DEF BundleSeen, Partial
  <2> QED  BY <1>3, <2>3, <2>6, <2>7, <2>8, <2>9, <2>10 DEF BundleSteps
<1> QED  BY <1>1, <1>2, <1>3, Elsewhere

(***************************************************************************)
(* The backends.                                                           *)
(***************************************************************************)
LEMMA RangeOfBoth ==
    ASSUME NEW S, NEW a \in Seq(S), NEW b \in Seq(S)
    PROVE  a \o b \in Seq(S) /\ Range(a \o b) = Range(a) \cup Range(b)
<1> DEFINE c == a \o b
<1>1. /\ c \in Seq(S) /\ Len(c) = Len(a) + Len(b) /\ Len(a) \in Nat /\ Len(b) \in Nat
      /\ DOMAIN a = 1 .. Len(a) /\ DOMAIN b = 1 .. Len(b) /\ DOMAIN c = 1 .. Len(c)
      /\ \A i \in 1 .. Len(c) : c[i] = IF i <= Len(a) THEN a[i] ELSE b[i - Len(a)]
  OBVIOUS
<1> HIDE DEF c
<1>2. ASSUME NEW x \in Range(c) PROVE x \in Range(a) \cup Range(b)
  <2>1. PICK i \in 1 .. Len(c) : x = c[i]
    BY <1>1 DEF Range
  <2>2. CASE i <= Len(a)
    <3>1. i \in 1 .. Len(a) /\ x = a[i]
      BY <1>1, <2>1, <2>2
    <3> QED  BY <1>1, <3>1 DEF Range
  <2>3. CASE i > Len(a)
    <3>1. i - Len(a) \in 1 .. Len(b) /\ x = b[i - Len(a)]
      BY <1>1, <2>1, <2>3
    <3> QED  BY <1>1, <3>1 DEF Range
  <2> QED  BY <1>1, <2>1, <2>2, <2>3
<1>3. ASSUME NEW x \in Range(a) PROVE x \in Range(c)
  <2>1. PICK i \in 1 .. Len(a) : x = a[i]
    BY <1>1, <1>3 DEF Range
  <2>2. i \in 1 .. Len(c) /\ c[i] = x
    BY <1>1, <2>1
  <2> QED  BY <1>1, <2>2 DEF Range
<1>4. ASSUME NEW x \in Range(b) PROVE x \in Range(c)
  <2>1. PICK i \in 1 .. Len(b) : x = b[i]
    BY <1>1, <1>4 DEF Range
  <2>2. i + Len(a) \in 1 .. Len(c) /\ c[i + Len(a)] = x
    BY <1>1, <2>1
  <2> QED  BY <1>1, <2>2 DEF Range
<1> QED  BY <1>1, <1>2, <1>3, <1>4 DEF c

\* A list of one provider's backend, when its address is in the text.
FoundIn(text, provider, url, role) ==
    IF url \in text THEN <<[provider |-> provider, role |-> role]>> ELSE <<>>

\* The same as a set, and the backends that a text points at.
Pointed(text, provider, url, role) == {b \in {[provider |-> provider, role |-> role]} : url \in text}

Detected(text) ==
    Pointed(text, "supabase", "supabase_url", SupabaseRole(text)) \cup Pointed(text, "firebase", "firebase_url", "")
        \cup Pointed(text, "s3", "s3_url", "") \cup Pointed(text, "gcs", "gcs_url", "")

LEMMA OneFound ==
    ASSUME NEW text, NEW provider, NEW url, NEW role, NEW S, [provider |-> provider, role |-> role] \in S
    PROVE  /\ FoundIn(text, provider, url, role) \in Seq(S)
           /\ Range(FoundIn(text, provider, url, role)) = Pointed(text, provider, url, role)
<1> DEFINE b == [provider |-> provider, role |-> role]
<1>1. b \in S
  OBVIOUS
<1> HIDE DEF b
<1>2. <<b>> \in Seq(S) /\ <<>> \in Seq(S) /\ DOMAIN <<b>> = {1} /\ <<b>>[1] = b /\ DOMAIN <<>> = {}
  BY <1>1
<1>3. Range(<<b>>) = {b} /\ Range(<<>>) = {}
  BY <1>2 DEF Range
<1> QED  BY <1>2, <1>3 DEF FoundIn, Pointed, b

LEMMA RangeOfFour ==
    ASSUME NEW S, NEW a \in Seq(S), NEW b \in Seq(S), NEW c \in Seq(S), NEW d \in Seq(S)
    PROVE  /\ a \o b \o c \o d \in Seq(S)
           /\ Range(a \o b \o c \o d) = Range(a) \cup Range(b) \cup Range(c) \cup Range(d)
<1> DEFINE ab == a \o b
           abc == ab \o c
<1>1. a \o b \o c \o d = abc \o d
  OBVIOUS
<1>2. ab \in Seq(S) /\ Range(ab) = Range(a) \cup Range(b)
  BY RangeOfBoth
<1> HIDE DEF ab
<1>3. abc \in Seq(S) /\ Range(abc) = Range(ab) \cup Range(c)
  BY <1>2, RangeOfBoth
<1> HIDE DEF abc
<1>4. abc \o d \in Seq(S) /\ Range(abc \o d) = Range(abc) \cup Range(d)
  BY <1>3, RangeOfBoth
<1> QED  BY <1>1, <1>2, <1>3, <1>4

LEMMA DetectedIs ==
    ASSUME NEW text
    PROVE  /\ DetectBackends(text) \in Seq(Detected(text))
           /\ Range(DetectBackends(text)) = Detected(text)
<1>1. PICK a : a = FoundIn(text, "supabase", "supabase_url", SupabaseRole(text))  OBVIOUS
<1>2. PICK b : b = FoundIn(text, "firebase", "firebase_url", "")  OBVIOUS
<1>3. PICK c : c = FoundIn(text, "s3", "s3_url", "")  OBVIOUS
<1>4. PICK d : d = FoundIn(text, "gcs", "gcs_url", "")  OBVIOUS
<1>5. DetectBackends(text) = a \o b \o c \o d
  BY <1>1, <1>2, <1>3, <1>4 DEF DetectBackends, FoundIn
<1>7. PICK S :
            /\ [provider |-> "supabase", role |-> SupabaseRole(text)] \in S
            /\ [provider |-> "firebase", role |-> ""] \in S
            /\ [provider |-> "s3", role |-> ""] \in S
            /\ [provider |-> "gcs", role |-> ""] \in S
  <2> DEFINE T == {[provider |-> p, role |-> r] : p \in {"supabase", "firebase", "s3", "gcs"},
                                                   r \in {SupabaseRole(text), ""}}
  <2>1. /\ [provider |-> "supabase", role |-> SupabaseRole(text)] \in T
        /\ [provider |-> "firebase", role |-> ""] \in T
        /\ [provider |-> "s3", role |-> ""] \in T
        /\ [provider |-> "gcs", role |-> ""] \in T
    OBVIOUS
  <2> HIDE DEF T
  <2> QED  BY <2>1
<1>8. a \in Seq(S) /\ Range(a) = Pointed(text, "supabase", "supabase_url", SupabaseRole(text))
  BY <1>1, <1>7, OneFound
<1>9. b \in Seq(S) /\ Range(b) = Pointed(text, "firebase", "firebase_url", "")
  BY <1>2, <1>7, OneFound
<1>10. c \in Seq(S) /\ Range(c) = Pointed(text, "s3", "s3_url", "")
  BY <1>3, <1>7, OneFound
<1>11. d \in Seq(S) /\ Range(d) = Pointed(text, "gcs", "gcs_url", "")
  BY <1>4, <1>7, OneFound
<1>12. /\ a \o b \o c \o d \in Seq(S)
       /\ Range(a \o b \o c \o d) = Range(a) \cup Range(b) \cup Range(c) \cup Range(d)
  <2>1. a \in Seq(S) /\ b \in Seq(S) /\ c \in Seq(S) /\ d \in Seq(S)
    BY <1>8, <1>9, <1>10, <1>11
  <2> QED  BY ONLY <2>1, RangeOfFour
<1> DEFINE q == DetectBackends(text)
<1>13. q \in Seq(S) /\ Range(q) = Detected(text)
  BY <1>5, <1>8, <1>9, <1>10, <1>11, <1>12 DEF Detected
<1> HIDE DEF q
<1>14. q \in Seq(Range(q))
  BY <1>13, ListIsOfItsRange
<1> QED  BY <1>13, <1>14 DEF q

\* What the text that was seen points at.
Found == Detected(AllText(evidence))

\* A backend that the text points at, with its own answer or a failure's.
BackendSeen(x) == \E b \in Found : x \in {BackendServed(site, b), Answered(b, FALSE, TRUE)}

\* Every backend that was asked is one; with those still to be asked they are
\* all that the text points at while no request failed.
BackendsSeen ==
    /\ Late =>
        /\ todo["backends"] \in Seq(Found)
        /\ \A x \in evidence["backends"] : BackendSeen(x)
        /\ faults = 0 =>
               evidence["backends"] \cup {BackendServed(site, b) : b \in Range(todo["backends"])}
                   = {BackendServed(site, b) : b \in Found}
    /\ BackendsDone => todo["backends"] = <<>>

LEMMA FoundKept ==
    ASSUME evidence'["http"] = evidence["http"], evidence'["bundle"] = evidence["bundle"], site' = site
    PROVE  Found' = Found /\ \A x : BackendSeen(x)' <=> BackendSeen(x)
<1>1. AllText(evidence)' = AllText(evidence)
  BY DEF AllText, AllScriptText
<1>2. Found' = Found
  BY <1>1 DEF Found, Detected, Pointed, SupabaseRole
<1> QED  BY <1>2 DEF BackendSeen, BackendServed, Answered, Unprobed

LEMMA BackendsInit == Init => BackendsSeen
BY DEF Init, BackendsSeen, Late, BackendsDone

LEMMA BackendsNext == BaseInv /\ BackendsSeen /\ [Next]_vars => BackendsSeen'
<1> SUFFICES ASSUME BaseInv, BackendsSeen, [Next]_vars PROVE BackendsSeen'  OBVIOUS
<1> USE ProbesExist
<1>a. /\ Late' => Late \/ Gathered
      /\ BackendsDone' => BackendsDone \/ BackendsEnd
  BY Forward
<1>1. CASE HttpAnswered
  <2>1. stage = "get" /\ stage' = "gather" /\ outcome' = outcome /\ (outcome = "sealed" => stage = "over")
    BY <1>1, AnsweredFrame DEF BaseInv
  <2> QED  BY <2>1 DEF BackendsSeen, Late, BackendsDone
<1>2. CASE Gathered
  <2>1. UNCHANGED <<site, truth>> /\ Shape /\ Shape' /\ outcome' = outcome /\ (outcome = "sealed" => stage = "over")
    BY <1>2, GatheredOwn, OwnIsOurs DEF Ours, BaseInv, Gathered
  <2>2. stage = "gather" /\ stage' \in {"backends", "over"} /\ faults' = faults
    BY <1>2 DEF Gathered
  <2>3. CASE outcome = "running"
    <3>1. /\ evidence' = [evidence EXCEPT !["backends"] = {}]
          /\ todo' = [todo EXCEPT !["backends"] = DetectBackends(AllText(evidence))]
      BY <1>2, <2>3 DEF Gathered
    <3>2. /\ evidence'["backends"] = {} /\ evidence'["http"] = evidence["http"]
          /\ evidence'["bundle"] = evidence["bundle"]
          /\ todo'["backends"] = DetectBackends(AllText(evidence))
      BY <2>1, <3>1, EvidencePut, TodoPut
    <3>3. Found' = Found
      BY <2>1, <3>2, FoundKept
    <3>4. todo'["backends"] \in Seq(Found) /\ Range(todo'["backends"]) = Found
      BY <3>2, DetectedIs DEF Found
    <3>5. {BackendServed(site, b) : b \in Range(todo["backends"])}' = {BackendServed(site, b) : b \in Found}
      BY <2>1, <3>4 DEF BackendServed, Answered, Unprobed
    <3>6. {BackendServed(site, b) : b \in Found}' = {BackendServed(site, b) : b \in Found}
      BY <2>1, <3>3 DEF BackendServed, Answered, Unprobed
    <3>7. ~BackendsDone'
      BY <2>1, <2>2, <2>3 DEF BackendsDone
    <3> QED  BY <3>2, <3>3, <3>4, <3>5, <3>6, <3>7 DEF BackendsSeen
  <2>4. CASE outcome # "running"
    <3>1. ~Late' /\ ~BackendsDone'
      BY <1>2, <2>1, <2>2, <2>4 DEF Gathered, Late, BackendsDone
    <3> QED  BY <3>1 DEF BackendsSeen
  <2> QED  BY <2>3, <2>4
<1>3. CASE ~HttpAnswered /\ ~Gathered /\ ~BackendSteps
  <2>1. Framed("backends")
    BY <1>3, Elsewhere
  <2>2. /\ todo'["backends"] = todo["backends"] /\ evidence'["backends"] = evidence["backends"]
        /\ UNCHANGED <<site, truth>> /\ (faults' = 0 => faults = 0)
    BY <2>1 DEF Framed, Untouched
  <2>3. BackendsDone' => todo'["backends"] = <<>>
    BY <1>a, <2>2 DEF BackendsSeen, BackendsEnd
  <2>4. ASSUME Late' PROVE evidence'["http"] = evidence["http"] /\ evidence'["bundle"] = evidence["bundle"]
    <3>1. Late
      BY <1>3, <1>a, <2>4
    <3>2. ~HttpSteps /\ ~TlsSteps /\ ~FileSteps /\ ~BundleSteps
      BY <3>1, HttpStages, GatherStages DEF Late, BaseInv
    <3>3. Framed("http") \/ UNCHANGED evidence
      <4>1. CASE BackendsEnd
        BY <4>1, BackendsEndOwn, FrameIsFramed
      <4>2. CASE PathSteps
        BY <4>2, PathOwn, FrameIsFramed
      <4>3. CASE Rest
        BY <4>3 DEF Rest, BackendRaises, PathsEnd, Seal, vars
      <4> QED  BY <1>3, <3>2, <4>1, <4>2, <4>3, StepsByProbe
    <3>4. Framed("bundle")
      BY <1>3, <3>2, Elsewhere
    <3> QED  BY <3>3, <3>4 DEF Framed, Untouched
  <2>5. Late' => Late /\ Found' = Found /\ \A x : BackendSeen(x)' <=> BackendSeen(x)
    BY <1>3, <1>a, <2>2, <2>4, FoundKept
  <2> QED  BY <2>2, <2>3, <2>5 DEF BackendsSeen, BackendServed, Answered, Unprobed
<1>4. CASE BackendSteps
  <2>1. /\ UNCHANGED <<site, truth>> /\ Shape /\ Shape' /\ faults \in Nat
        /\ stage = "backends" /\ stage' = "backends" /\ outcome' = outcome /\ (outcome = "sealed" => stage = "over")
    BY <1>4, BackendOwn, OwnIsOurs, BackendStages DEF Ours, BaseInv
  <2>2. Late /\ ~BackendsDone'
    BY <2>1 DEF Late, BackendsDone
  <2>3. CASE BackendResolve
    <3>1. UNCHANGED <<todo, evidence, faults>>
      BY <2>3 DEF BackendResolve, Pin
    <3>2. Found' = Found /\ \A x : BackendSeen(x)' <=> BackendSeen(x)
      BY <2>1, <3>1, FoundKept
    <3> QED  BY <2>1, <2>2, <3>1, <3>2 DEF BackendsSeen, BackendServed, Answered, Unprobed
  <2> DEFINE q == todo["backends"]
             seen == evidence["backends"]
  <2>4. ASSUME NEW backend, BackendNext(backend), q # <<>>, BackendSeen(backend),
               faults' # 0 \/ (faults' = faults /\ backend = BackendServed(site, Head(q)))
        PROVE  BackendsSeen'
    <3>1. /\ evidence' = [evidence EXCEPT !["backends"] = seen \cup {backend}]
          /\ todo' = [todo EXCEPT !["backends"] = Tail(q)]
      BY <2>4 DEF BackendNext
    <3>2. /\ evidence'["backends"] = seen \cup {backend} /\ todo'["backends"] = Tail(q)
          /\ evidence'["http"] = evidence["http"] /\ evidence'["bundle"] = evidence["bundle"]
      BY <2>1, <3>1, EvidencePut, TodoPut
    <3>3. Tail(q) \in Seq(Found) /\ Range(q) = {Head(q)} \cup Range(Tail(q))
      BY <2>2, <2>4, ListTakes DEF BackendsSeen
    <3>4. Found' = Found /\ \A x : BackendSeen(x)' <=> BackendSeen(x)
      BY <2>1, <3>2, FoundKept
    <3>5. \A x \in seen \cup {backend} : BackendSeen(x)
      BY <2>2, <2>4 DEF BackendsSeen
    <3>6. faults' = 0 => seen \cup {backend} \cup {BackendServed(site, b) : b \in Range(Tail(q))}
                           = {BackendServed(site, b) : b \in Found}
      <4> SUFFICES ASSUME faults' = 0
                   PROVE  seen \cup {backend} \cup {BackendServed(site, b) : b \in Range(Tail(q))}
                            = {BackendServed(site, b) : b \in Found}
        OBVIOUS
      <4>1. faults = 0 /\ backend = BackendServed(site, Head(q))
        BY <2>4
      <4>2. seen \cup {BackendServed(site, b) : b \in Range(q)} = {BackendServed(site, b) : b \in Found}
        BY <2>2, <4>1 DEF BackendsSeen
      <4> HIDE DEF q, seen
      <4>3. {BackendServed(site, b) : b \in Range(q)}
              = {BackendServed(site, Head(q))} \cup {BackendServed(site, b) : b \in Range(Tail(q))}
        BY <3>3
      <4> QED  BY <4>1, <4>2, <4>3
    <3> HIDE DEF q, seen
    <3>7. {BackendServed(site, b) : b \in Range(todo["backends"])}' = {BackendServed(site, b) : b \in Range(Tail(q))}
      BY <2>1, <3>2 DEF BackendServed, Answered, Unprobed
    <3>8. {BackendServed(site, b) : b \in Found}' = {BackendServed(site, b) : b \in Found}
      BY <2>1, <3>4 DEF BackendServed, Answered, Unprobed
    <3> QED  BY <2>2, <3>2, <3>3, <3>4, <3>5, <3>6, <3>7, <3>8 DEF BackendsSeen
  <2>5. q # <<>> => Head(q) \in Found
    BY <2>2, ListTakes DEF BackendsSeen
  <2>6. CASE BackendSkipped
    <3>1. q # <<>> /\ Unprobed(Head(q)) /\ BackendNext(Answered(Head(q), FALSE, FALSE)) /\ faults' = faults
      BY <2>6 DEF BackendSkipped, AtBackend, Backend
    <3>2. Answered(Head(q), FALSE, FALSE) = BackendServed(site, Head(q))
      BY <3>1 DEF BackendServed, Answered
    <3>3. BackendSeen(BackendServed(site, Head(q)))
      BY <2>5, <3>1 DEF BackendSeen
    <3> HIDE DEF q
    <3> QED  BY <2>4, <3>1, <3>2, <3>3
  <2>7. CASE BackendDenied \/ BackendFails
    <3>1. q # <<>> /\ BackendNext(Answered(Head(q), FALSE, TRUE)) /\ faults' # 0
      <4>1. q # <<>> /\ BackendNext(Answered(Head(q), FALSE, TRUE)) /\ Fault
        BY <2>7 DEF BackendDenied, BackendFails, AtBackend, Backend, Deny
      <4>2. faults \in Nat /\ faults' = faults + 1
        BY <2>1, <4>1 DEF Fault
      <4>3. faults' # 0
        BY ONLY <4>2
      <4> HIDE DEF q
      <4> QED  BY <4>1, <4>3
    <3>2. BackendSeen(Answered(Head(q), FALSE, TRUE))
      BY <2>5, <3>1 DEF BackendSeen
    <3> HIDE DEF q
    <3> QED  BY <2>4, <3>1, <3>2
  <2>8. CASE BackendAnswered
    <3>1. q # <<>> /\ BackendNext(BackendServed(site, Head(q))) /\ faults' = faults
      BY <2>8 DEF BackendAnswered, AtBackend, Backend
    <3>2. BackendSeen(BackendServed(site, Head(q)))
      BY <2>5, <3>1 DEF BackendSeen
    <3> HIDE DEF q
    <3> QED  BY <2>4, <3>1, <3>2
  <2> QED  BY <1>4, <2>3, <2>6, <2>7, <2>8 DEF BackendSteps
<1> QED  BY <1>1, <1>2, <1>3, <1>4

(***************************************************************************)
(* The hidden paths.                                                       *)
(***************************************************************************)
\* The candidates that the site serves.
Served == {k \in Range(Candidates) : HiddenServed(site, k)}

\* Before the stage of the paths; an active run's paths were all asked for.
BeforePaths == {"resolve", "get", "gather", "backends"}
PathsDone == tier = "active" /\ (stage = "seal" \/ outcome = "sealed")

\* The hidden paths that were found are served; with those still to be asked for
\* they are all of them while no request failed.
PathsSeen ==
    /\ stage \in BeforePaths => conn["paths"] = None /\ evidence["paths"] = None
    /\ tier = "passive" => evidence["paths"] = None
    /\ stage = "paths" => tier = "active"
    /\ stage = "paths" /\ conn["paths"] = None => todo["paths"] = Candidates
    /\ stage = "paths" /\ conn["paths"] # None =>
        /\ todo["paths"] \in Seq(Range(Candidates))
        /\ evidence["paths"] \subseteq Served
        /\ faults = 0 =>
               evidence["paths"] \cup {k \in Range(todo["paths"]) : HiddenServed(site, k)} = Served
    /\ PathsDone => /\ evidence["paths"] \subseteq Served
                    /\ faults = 0 => evidence["paths"] = Served

LEMMA PathsSeenInit == Init => PathsSeen
BY ProbesExist DEF Init, PathsSeen, NoEvidence, PathsDone

LEMMA PathsForward ==
    ASSUME BaseInv, [Next]_vars
    PROVE  /\ stage' \in BeforePaths => stage \in BeforePaths
           /\ stage' = "paths" => stage = "paths" \/ BackendsEnd
           /\ PathsDone' => PathsDone \/ PathsEnd
<1>1. (outcome = "sealed" => stage = "over") /\ tier' = tier
  <2>1. ASSUME NEW q, Own(q) PROVE tier' = tier
    BY <2>1 DEF Own
  <2> QED  BY <2>1, StepsByProbe, HttpOwn, TlsOwn, FileOwn, BundleOwn, GatheredOwn, BackendOwn,
              BackendsEndOwn, PathOwn, RestOwn, AnsweredFrame DEF BaseInv
<1>2. CASE HttpSteps
  BY <1>1, <1>2, HttpStages DEF BeforePaths, PathsDone
<1>3. CASE TlsSteps \/ FileSteps \/ BundleSteps
  BY <1>1, <1>3, GatherStages DEF BeforePaths, PathsDone
<1>4. CASE BackendSteps
  BY <1>1, <1>4, BackendStages DEF BeforePaths, PathsDone
<1>5. CASE PathSteps
  BY <1>1, <1>5, PathStages DEF BeforePaths, PathsDone
<1>6. CASE HttpAnswered
  BY <1>1, <1>6 DEF HttpAnswered, BeforePaths, PathsDone
<1>7. CASE Gathered
  BY <1>1, <1>7 DEF Gathered, BeforePaths, PathsDone
<1>8. CASE BackendsEnd
  BY <1>1, <1>8 DEF BackendsEnd, BeforePaths, PathsDone
<1>9. CASE Rest
  BY <1>1, <1>9 DEF Rest, BackendRaises, PathsEnd, Seal, Abandon, vars, BeforePaths, PathsDone
<1> QED
  BY <1>2, <1>3, <1>4, <1>5, <1>6, <1>7, <1>8, <1>9, StepsByProbe

LEMMA PathsSeenNext == BaseInv /\ PathsSeen /\ [Next]_vars => PathsSeen'
<1> SUFFICES ASSUME BaseInv, PathsSeen, [Next]_vars PROVE PathsSeen'  OBVIOUS
<1> USE ProbesExist
<1>a. /\ stage' \in BeforePaths => stage \in BeforePaths
      /\ stage' = "paths" => stage = "paths" \/ BackendsEnd
      /\ PathsDone' => PathsDone \/ PathsEnd
  BY PathsForward
<1>b. (outcome = "sealed" => stage = "over") /\ Shape /\ faults \in Nat /\ tier \in Tiers
  BY DEF BaseInv
<1>1. CASE HttpAnswered
  <2>1. /\ stage = "get" /\ stage' = "gather" /\ outcome' = outcome /\ tier' = tier /\ conn' = conn
        /\ evidence'["paths"] = None
    BY <1>1, AnsweredFrame DEF NoEvidence
  <2>2. conn'["paths"] = None
    BY <2>1 DEF PathsSeen, BeforePaths
  <2> QED  BY <1>b, <2>1, <2>2 DEF PathsSeen, BeforePaths, PathsDone
<1>2. CASE BackendsEnd
  <2>1. /\ stage = "backends" /\ UNCHANGED <<tier, conn, evidence, outcome>>
        /\ stage' = "paths" => tier = "active" /\ todo' = [todo EXCEPT !["paths"] = Candidates]
        /\ stage' = "seal" => tier # "active"
        /\ stage' \in {"paths", "seal"}
    BY <1>2 DEF BackendsEnd, scan
  <2>2. conn["paths"] = None /\ evidence["paths"] = None
    BY <2>1 DEF PathsSeen, BeforePaths
  <2>3. stage' = "paths" => todo'["paths"] = Candidates
    BY <1>b, <2>1, TodoPut
  <2> QED  BY <1>b, <2>1, <2>2, <2>3 DEF PathsSeen, BeforePaths, PathsDone
<1>3. CASE PathSteps
  <2>1. /\ UNCHANGED <<site, truth, tier>> /\ stage = "paths"
        /\ \/ stage' = "paths" /\ outcome' = outcome
           \/ stage' = "over" /\ outcome' = "denied"
    BY <1>3, PathOwn, OwnIsOurs, PathStages DEF Ours
  <2>2. Served' = Served /\ tier = "active"
    BY <2>1 DEF Served, HiddenServed, PathsSeen
  <2>3. stage' \notin BeforePaths /\ ~PathsDone' /\ tier' # "passive"
    BY <1>b, <2>1, <2>2 DEF BeforePaths, PathsDone
  <2>4. CASE PathsResolve
    <3>1. /\ evidence' = [evidence EXCEPT !["paths"] = {}] /\ conn["paths"] = None
          /\ UNCHANGED <<todo, faults>> /\ stage' = "paths"
      BY <2>4 DEF PathsResolve, Pin
    <3>2. evidence'["paths"] = {} /\ todo'["paths"] = Candidates
      BY <1>b, <2>1, <3>1, EvidencePut DEF PathsSeen
    <3>3. Candidates \in Seq(Range(Candidates))
      BY CandidatesAssumption, ListIsOfItsRange
    <3>4. {k \in Range(todo["paths"]) : HiddenServed(site, k)}' = Served
      BY <2>1, <3>2 DEF Served, HiddenServed
    <3> QED  BY <2>1, <2>2, <2>3, <3>1, <3>2, <3>3, <3>4 DEF PathsSeen
  <2>5. CASE PathsDenied
    BY <2>1, <2>3, <2>5 DEF PathsDenied, Abandon, PathsSeen
  <2> DEFINE q == todo["paths"]
             seen == evidence["paths"]
  <2>6. ASSUME NEW found, PathNext(found), q # <<>>, found \subseteq {k \in {Head(q)} : HiddenServed(site, k)},
               faults' # 0 \/ (faults' = faults /\ found = {k \in {Head(q)} : HiddenServed(site, k)})
        PROVE  PathsSeen'
    <3>1. /\ evidence' = [evidence EXCEPT !["paths"] = seen \cup found]
          /\ todo' = [todo EXCEPT !["paths"] = Tail(q)]
          /\ conn["paths"] # None /\ conn' = conn /\ stage' = "paths"
      BY <2>6 DEF PathNext
    <3>2. evidence'["paths"] = seen \cup found /\ todo'["paths"] = Tail(q)
      BY <1>b, <3>1, EvidencePut, TodoPut
    <3>3. /\ Tail(q) \in Seq(Range(Candidates))
          /\ Range(q) = {Head(q)} \cup Range(Tail(q))
          /\ Head(q) \in Range(Candidates)
      BY <2>1, <2>6, <3>1, ListTakes DEF PathsSeen
    <3>4. seen \subseteq Served
      BY <2>1, <3>1 DEF PathsSeen
    <3>5. seen \cup found \subseteq Served
      BY <2>6, <3>3, <3>4 DEF Served
    <3>6. faults' = 0 => seen \cup found \cup {k \in Range(Tail(q)) : HiddenServed(site, k)} = Served
      <4> SUFFICES ASSUME faults' = 0
                   PROVE  seen \cup found \cup {k \in Range(Tail(q)) : HiddenServed(site, k)} = Served
        OBVIOUS
      <4>1. faults = 0 /\ found = {k \in {Head(q)} : HiddenServed(site, k)}
        BY <2>6
      <4>2. seen \cup {k \in Range(q) : HiddenServed(site, k)} = Served
        BY <2>1, <3>1, <4>1 DEF PathsSeen
      <4>3. {k \in Range(q) : HiddenServed(site, k)}
              = {k \in {Head(q)} : HiddenServed(site, k)} \cup {k \in Range(Tail(q)) : HiddenServed(site, k)}
        BY <3>3
      <4> HIDE DEF q, seen
      <4> QED  BY <4>1, <4>2, <4>3
    <3> HIDE DEF q, seen
    <3>7. {k \in Range(todo["paths"]) : HiddenServed(site, k)}' = {k \in Range(Tail(q)) : HiddenServed(site, k)}
      BY <2>1, <3>2 DEF HiddenServed
    <3> QED  BY <2>1, <2>2, <2>3, <3>1, <3>2, <3>3, <3>5, <3>6, <3>7 DEF PathsSeen
  <2>7. CASE PathAnswered
    BY <2>6, <2>7 DEF PathAnswered
  <2>8. CASE PathFails
    BY <1>b, <2>6, <2>8 DEF PathFails, PathLost, Fault
  <2> QED  BY <1>3, <2>4, <2>5, <2>7, <2>8 DEF PathSteps
<1>4. CASE ~HttpAnswered /\ ~BackendsEnd /\ ~PathSteps
  <2>1. Framed("paths")
    BY <1>4, Elsewhere
  <2>2. /\ todo'["paths"] = todo["paths"] /\ evidence'["paths"] = evidence["paths"]
        /\ conn'["paths"] = conn["paths"]
        /\ UNCHANGED <<site, truth, tier>> /\ (faults' = 0 => faults = 0)
    BY <2>1 DEF Framed, Untouched
  <2>3. Served' = Served
    BY <2>2 DEF Served, HiddenServed
  <2>4. ASSUME PathsDone'
        PROVE  evidence["paths"] \subseteq Served /\ (faults = 0 => evidence["paths"] = Served)
    <3>1. CASE PathsDone
      BY <3>1 DEF PathsSeen
    <3>2. CASE PathsEnd
      <4>1. stage = "paths" /\ conn["paths"] # None /\ todo["paths"] = <<>>
        BY <3>2 DEF PathsEnd
      <4>2. Range(todo["paths"]) = {}
        BY <4>1 DEF Range
      <4> QED  BY <4>1, <4>2 DEF PathsSeen
    <3> QED  BY <1>a, <2>4, <3>1, <3>2
  <2>5. {k \in Range(todo["paths"]) : HiddenServed(site, k)}' = {k \in Range(todo["paths"]) : HiddenServed(site, k)}
    BY <2>2 DEF HiddenServed
  <2> QED  BY <1>a, <1>4, <2>2, <2>3, <2>4, <2>5 DEF PathsSeen
<1> QED  BY <1>1, <1>2, <1>3, <1>4

-----------------------------------------------------------------------------
(***************************************************************************)
(* What was seen and what the checks say of it.                            *)
(***************************************************************************)
\* A check over the page says the same of two bundles with the same page.
LEMMA SamePage ==
    ASSUME NEW e, NEW t, e.http = t.http
    PROVE  /\ HdrChecks(e) = HdrChecks(t)
           /\ SesChecks(e) = SesChecks(t)
           /\ LegChecks(e) = LegChecks(t)
           /\ CmpChecks(e) = CmpChecks(t)
           /\ DepChecks(e) = DepChecks(t)
           /\ HttpsEnforced(e) = HttpsEnforced(t)
           /\ NoMixedContent(e) = NoMixedContent(t)
           /\ NoVerboseErrorPage(e) = NoVerboseErrorPage(t)
<1>1. HdrChecks(e) = HdrChecks(t)
  BY DEF HdrChecks, HstsPresent, HstsMaxAge, HstsIncludeSubdomains, CspPresent, CspNoUnsafeInline,
     XContentTypeOptions, ClickjackingProtection, ReferrerPolicy, PermissionsPolicy,
     ServerHeaderNoVersion, XPoweredByAbsent, ContentTypePresent, WithHsts, HasCsp
<1>2. SesChecks(e) = SesChecks(t)
  BY DEF SesChecks, CookiesSecure, CookiesHttpOnly, CookiesSamesiteSet, CookiesSamesiteNoneRequiresSecure,
     NoSessionIdInUrl, CookieLifetimeSane, NoCookie
<1>3. LegChecks(e) = LegChecks(t)
  BY DEF LegChecks, PrivacyPolicyLinked, TermsLinked, CookiePolicyLinked, ContactInfoPresent, HasLink
<1>4. CmpChecks(e) = CmpChecks(t)
  BY DEF CmpChecks, TrackerWithoutConsentLibrary, GaUsesConsentMode, NoPrecheckedMarketingCheckbox,
     ConsentNoticeReferencesPrivacyPolicy, Concerning, Holds
<1>5. DepChecks(e) = DepChecks(t)
  BY DEF DepChecks, SriPresentOnThirdPartyScripts, NoKnownOldLibrary, BoundedThirdPartyOrigins,
     NoUnpinnedCdnVersion, NoScript, CrossOrigin
<1>6. /\ HttpsEnforced(e) = HttpsEnforced(t)
      /\ NoMixedContent(e) = NoMixedContent(t)
      /\ NoVerboseErrorPage(e) = NoVerboseErrorPage(t)
  BY DEF HttpsEnforced, NoMixedContent, NoVerboseErrorPage
<1> QED  BY <1>1, <1>2, <1>3, <1>4, <1>5, <1>6

\* A certificate is found wanting only when it was verified, and then it is the
\* site's own.
LEMMA TlsJustified ==
    ASSUME NEW e, NEW t, e.http = t.http, e.age = t.age, e.tls \in {None, [verified |-> FALSE], t.tls},
           NEW c \in TlsChecks(e), c.verdict = "failed", c.id # "TLS-002"
    PROVE  c \in TlsChecks(t)
<1>1. CASE c = HttpsEnforced(e) \/ c = NoMixedContent(e)
  BY <1>1, SamePage DEF TlsChecks
<1>2. CASE c = HandshakeVerifies(e)
  BY <1>2 DEF HandshakeVerifies, Confirmed, CheckOf
<1>3. CASE c \in {CertNotExpired(e), CertNotExpiringSoon(e), ProtocolVersionModern(e), CertValidityWindow(e),
                  NoWeakCipher(e)}
  <2>1. WithCertificate(e, "failed") = "failed" \/ c.verdict # "failed"
    BY <1>3 DEF CertNotExpired, CertNotExpiringSoon, ProtocolVersionModern, CertValidityWindow, NoWeakCipher,
       Confirmed, CheckOf, WithCertificate, Requires
  <2>2. e.tls # None /\ e.tls.verified
    BY <2>1 DEF WithCertificate, Requires
  <2>3. e.tls = t.tls
    BY <2>2
  <2>4. /\ CertNotExpired(e) = CertNotExpired(t)
        /\ CertNotExpiringSoon(e) = CertNotExpiringSoon(t)
        /\ ProtocolVersionModern(e) = ProtocolVersionModern(t)
        /\ CertValidityWindow(e) = CertValidityWindow(t)
        /\ NoWeakCipher(e) = NoWeakCipher(t)
    BY <2>3 DEF CertNotExpired, CertNotExpiringSoon, ProtocolVersionModern, CertValidityWindow, NoWeakCipher,
       WithCertificate
  <2> QED  BY <1>3, <2>4 DEF TlsChecks
<1> QED  BY <1>1, <1>2, <1>3 DEF TlsChecks

\* A check over the hidden paths fails only on what was found.
LEMMA HiddenJustified ==
    ASSUME NEW e, NEW t, e.paths # None => t.paths # None /\ e.paths \subseteq t.paths,
           NEW c \in HiddenChecks(e), c.verdict = "failed"
    PROVE  c \in HiddenChecks(t)
<1>1. ASSUME NEW id, NEW severity, NEW confidence, NEW weight, NEW kind,
             c = Hidden(e, id, severity, confidence, weight, kind)
      PROVE  c = Hidden(t, id, severity, confidence, weight, kind)
  <2>1. Requires(e.paths, FailIf(kind \in e.paths)) = "failed"
    BY <1>1 DEF Hidden, CheckOf
  <2>2. e.paths # None /\ kind \in e.paths
    BY <2>1 DEF Requires, FailIf
  <2>3. Requires(t.paths, FailIf(kind \in t.paths)) = "failed"
    BY <2>2 DEF Requires, FailIf
  <2> QED  BY <1>1, <2>1, <2>3 DEF Hidden
<1>2. CASE c \in {NoRepoMetadataExposed(e), NoBackupArtefactsExposed(e), NoExposedConfigFiles(e)}
  BY <1>1, <1>2 DEF NoRepoMetadataExposed, NoBackupArtefactsExposed, NoExposedConfigFiles, HiddenChecks
<1>3. CASE c \in {NoDebugRoutesExposed(e), NoTestRoutesExposed(e)}
  BY <1>1, <1>3 DEF NoDebugRoutesExposed, NoTestRoutesExposed, HiddenChecks
<1>4. CASE c \in {NoDirectoryListingEnabled(e), NoDefaultAdminPanelExposed(e)}
  BY <1>1, <1>4 DEF NoDirectoryListingEnabled, NoDefaultAdminPanelExposed, HiddenChecks
<1> QED  BY <1>2, <1>3, <1>4 DEF HiddenChecks

\* A check over the files and the hidden paths fails, but for the first, only on
\* what was found.
LEMMA ExpJustified ==
    ASSUME NEW e, NEW t, e.http = t.http, e.paths # None => t.paths # None /\ e.paths \subseteq t.paths,
           NEW c \in ExpChecks(e), c.verdict = "failed", c.id # "EXP-001"
    PROVE  c \in ExpChecks(t)
<1>1. CASE c = SecurityTxtPresent(e)
  BY <1>1 DEF SecurityTxtPresent, Confirmed, CheckOf
<1>2. CASE c \in {RobotsTxtPresent(e), SitemapPresent(e), ManifestPresent(e)}
  BY <1>2 DEF RobotsTxtPresent, SitemapPresent, ManifestPresent, Informational, Requires, Confirmed, CheckOf
<1>3. CASE c = NoVerboseErrorPage(e)
  BY <1>3, SamePage DEF ExpChecks
<1>4. CASE c \in HiddenChecks(e)
  BY <1>4, HiddenJustified DEF ExpChecks, HiddenChecks
<1> QED  BY <1>1, <1>2, <1>3, <1>4 DEF ExpChecks, HiddenChecks

\* The calls of a set of scripts, as a sum.
Consoles(scripts) == MapThenSumSet(LAMBDA s : s.console, scripts)

LEMMA ConsolesAreATotal ==
    ASSUME NEW F, IsFiniteSet(F)
    PROVE  Consoles(F) = Total([f \in F |-> f.console], F)
<1> DEFINE w == [f \in F |-> f.console]
           D(g) == g = [s \in SUBSET F |->
                          IF s = {} THEN 0
                          ELSE (CHOOSE x \in s : TRUE).console + g[s \ {CHOOSE x \in s : TRUE}]]
           it == CHOOSE g : D(g)
<1>1. Consoles(F) = it[F]
  BY DEF Consoles, MapThenSumSet, MapThenFoldSet
<1>2. ASSUME NEW g PROVE D(g) <=> IsSum(w, F, g)
  <2>1. ASSUME NEW s \in SUBSET F, s # {} PROVE w[AnyOf(s)] = (CHOOSE x \in s : TRUE).console
    BY <2>1, AnyOfIn DEF AnyOf
  <2> QED BY <2>1 DEF IsSum, AnyOf
<1> HIDE DEF D, w
<1>3. \E g : D(g)
  BY <1>2, SumExists
<1>4. D(it)
  BY <1>3
<1>5. IsSum(w, F, it)
  BY <1>2, <1>4
<1> HIDE DEF it
<1>6. it[F] = Total(w, F)
  BY <1>5, TotalOfSum
<1> QED  BY <1>1, <1>6 DEF w

\* A set of scripts, some fetched and some not, makes no more console calls than
\* the site's own.
LEMMA FewerCalls ==
    ASSUME NEW all, IsFiniteSet(all), \A x \in all : x.console \in Nat,
           NEW seen \in SUBSET all, NEW own \in SUBSET all, \A x \in seen \ own : x.console = 0
    PROVE  Consoles(seen) \in Nat /\ Consoles(own) \in Nat /\ Consoles(seen) <= Consoles(own)
<1> DEFINE w == [x \in all |-> x.console]
           both == seen \cap own
<1>1. w \in [all -> Nat] /\ \A x \in all : w[x] = x.console
  OBVIOUS
<1>2. IsFiniteSet(seen) /\ IsFiniteSet(own)
  BY FS_Subset
<1> HIDE DEF w
<1>3. ASSUME NEW S \in SUBSET all, IsFiniteSet(S) PROVE Consoles(S) = Total(w, S)
  <2> DEFINE v == [x \in S |-> x.console]
  <2>1. \A x \in S : v[x] = w[x]
    BY <1>1
  <2>2. Consoles(S) = Total(v, S)
    BY <1>3, ConsolesAreATotal
  <2> HIDE DEF v
  <2>3. Total(v, S) = Total(w, S)
    BY <1>3, <2>1, TotalSame
  <2> QED  BY <2>2, <2>3
<1>4. both \in SUBSET seen /\ both \in SUBSET own /\ \A x \in seen \ both : w[x] = 0
  BY <1>1
<1> HIDE DEF both
<1>5. Total(w, seen) = Total(w, both)
  BY <1>1, <1>2, <1>4, TotalOfNonzero
<1>6. Total(w, both) <= Total(w, own)
  BY <1>1, <1>2, <1>4, TotalMonotone
<1>7. Total(w, seen) \in Nat /\ Total(w, own) \in Nat
  BY <1>1, <1>2, TotalType
<1> QED  BY <1>2, <1>3, <1>5, <1>6, <1>7

\* A check over the scripts fails only on text or calls that are the site's.
LEMMA CliJustified ==
    ASSUME NEW e, NEW t, t.bundle # None, AllScriptText(e.bundle) \subseteq AllScriptText(t.bundle),
           Consoles(e.bundle) \in Nat, Consoles(t.bundle) \in Nat, Consoles(e.bundle) <= Consoles(t.bundle),
           NEW c \in CliChecks(e), c.verdict = "failed"
    PROVE  c \in CliChecks(t)
<1>1. ASSUME NEW needle, NotInScripts(e, needle) = "failed" PROVE NotInScripts(t, needle) = "failed"
  BY <1>1 DEF NotInScripts, Requires, FailIf
<1>2. CASE c \in {NoAwsKey(e), NoStripeSecret(e), NoSlackToken(e)}
  BY <1>1, <1>2 DEF NoAwsKey, NoStripeSecret, NoSlackToken, Confirmed, CheckOf, CliChecks
<1>3. CASE c \in {NoGithubGitlabToken(e), NoPrivateKeyBlock(e), NoGenericSecret(e)}
  BY <1>1, <1>3 DEF NoGithubGitlabToken, NoPrivateKeyBlock, NoGenericSecret, Confirmed, Indicated, CheckOf, CliChecks
<1>4. CASE c \in {NoSourceMapComment(e), NoDevBuildMarker(e), NoHardcodedInternalHostname(e)}
  BY <1>1, <1>4 DEF NoSourceMapComment, NoDevBuildMarker, NoHardcodedInternalHostname, Confirmed, Indicated, CheckOf,
     CliChecks
<1>5. CASE c = BoundedConsoleCalls(e)
  <2>1. ASSUME NEW x
        PROVE  BoundedConsoleCalls(x) =
                   Indicated("CLI-009", "info", 1, Requires(x.bundle, PassIf(Consoles(x.bundle) <= 10)))
    BY DEF BoundedConsoleCalls, Consoles
  <2>2. Requires(e.bundle, PassIf(Consoles(e.bundle) <= 10)) = "failed"
    BY <1>5, <2>1 DEF Indicated, CheckOf
  <2>3. Requires(t.bundle, PassIf(Consoles(t.bundle) <= 10)) = "failed"
    BY <2>2 DEF Requires, PassIf
  <2> QED  BY <1>5, <2>1, <2>2, <2>3 DEF CliChecks
<1> QED  BY <1>2, <1>3, <1>4, <1>5 DEF CliChecks

LEMMA AnswersOf ==
    ASSUME NEW s, NEW b, NEW x, x = BackendServed(s, b) \/ x = Answered(b, FALSE, TRUE)
    PROVE  /\ x.provider = b.provider
           /\ x.role = b.role
           /\ x.open => b.provider \in s.open
           /\ x.open => ~Unprobed(b)
<1>1. CASE x = BackendServed(s, b)
  <2>1. x = [provider |-> b.provider, role |-> b.role, open |-> ~Unprobed(b) /\ b.provider \in s.open, error |-> FALSE]
    BY <1>1 DEF BackendServed, Answered
  <2> QED  BY <2>1
<1>2. CASE x = Answered(b, FALSE, TRUE)
  BY <1>2 DEF Answered
<1> QED  BY <1>1, <1>2

LEMMA ServedAnswer ==
    ASSUME NEW s, NEW b, ~Unprobed(b), b.provider \in s.open
    PROVE  BackendServed(s, b).open
BY DEF BackendServed, Answered

LEMMA DetectedInText ==
    ASSUME NEW text, NEW all, text \subseteq all, NEW b \in Detected(text)
    PROVE  /\ b.provider \in {"supabase", "firebase", "s3", "gcs"}
           /\ b.provider = "supabase" => b.role = SupabaseRole(text) /\ "supabase_url" \in text
           /\ b.provider # "supabase" => b.role = "" /\ b \in Detected(all)
<1>1. CASE b \in Pointed(text, "supabase", "supabase_url", SupabaseRole(text))
  <2>1. PICK r : r = SupabaseRole(text)
    OBVIOUS
  <2>2. b = [provider |-> "supabase", role |-> r] /\ "supabase_url" \in text
    BY <1>1, <2>1 DEF Pointed
  <2>3. b.provider = "supabase" /\ b.role = r
    BY ONLY <2>2
  <2> QED  BY ONLY <2>1, <2>2, <2>3
<1>2. CASE b \in Pointed(text, "firebase", "firebase_url", "")
  <2>1. b = [provider |-> "firebase", role |-> ""] /\ "firebase_url" \in text
    BY <1>2 DEF Pointed
  <2>2. b.provider = "firebase" /\ b.role = ""
    BY ONLY <2>1
  <2>3. b \in Pointed(all, "firebase", "firebase_url", "")
    BY <2>1 DEF Pointed
  <2>4. b \in Detected(all)
    BY <2>3 DEF Detected
  <2> QED  BY ONLY <2>2, <2>4
<1>3. CASE b \in Pointed(text, "s3", "s3_url", "")
  <2>1. b = [provider |-> "s3", role |-> ""] /\ "s3_url" \in text
    BY <1>3 DEF Pointed
  <2>2. b.provider = "s3" /\ b.role = ""
    BY ONLY <2>1
  <2>3. b \in Pointed(all, "s3", "s3_url", "")
    BY <2>1 DEF Pointed
  <2>4. b \in Detected(all)
    BY <2>3 DEF Detected
  <2> QED  BY ONLY <2>2, <2>4
<1>4. CASE b \in Pointed(text, "gcs", "gcs_url", "")
  <2>1. b = [provider |-> "gcs", role |-> ""] /\ "gcs_url" \in text
    BY <1>4 DEF Pointed
  <2>2. b.provider = "gcs" /\ b.role = ""
    BY ONLY <2>1
  <2>3. b \in Pointed(all, "gcs", "gcs_url", "")
    BY <2>1 DEF Pointed
  <2>4. b \in Detected(all)
    BY <2>3 DEF Detected
  <2> QED  BY ONLY <2>2, <2>4
<1> QED  BY <1>1, <1>2, <1>3, <1>4 DEF Detected

LEMMA SupabaseInText ==
    ASSUME NEW text, "supabase_url" \in text
    PROVE  \E b \in Detected(text) : b.provider = "supabase" /\ b.role = SupabaseRole(text)
<1>1. PICK r : r = SupabaseRole(text)
  OBVIOUS
<1>2. PICK b : b = [provider |-> "supabase", role |-> r]
  OBVIOUS
<1>3. b.provider = "supabase" /\ b.role = r
  BY ONLY <1>2
<1>4. b \in Pointed(text, "supabase", "supabase_url", SupabaseRole(text))
  BY <1>1, <1>2 DEF Pointed
<1> QED  BY <1>1, <1>3, <1>4 DEF Detected

\* A detected backend that was asked, with its answer or its failure: a check
\* over the backends fails only on one of the site's own, unless it is the
\* anon key's and the site has a service-role key besides.
LEMMA DatJustified ==
    ASSUME NEW s, NEW r, s.open \subseteq r.open, NEW e, NEW t, NEW text, NEW all, text \subseteq all,
           t.backends # None,
           \A b \in Detected(all) : BackendServed(r, b) \in t.backends,
           \A x \in e.backends : \E b \in Detected(text) : x \in {BackendServed(s, b), Answered(b, FALSE, TRUE)},
           NEW c \in DatChecks(e), c.verdict = "failed"
    PROVE  \/ c \in DatChecks(t)
           \/ /\ c.id = "DAT-002"
              /\ NoServiceRoleKeyExposed(t).verdict = "failed"
<1>1. ASSUME NEW x \in e.backends
      PROVE  \E b \in Detected(text) :
                 /\ x.provider = b.provider /\ x.role = b.role
                 /\ x.open => b.provider \in r.open /\ ~Unprobed(b)
  <2>1. PICK b \in Detected(text) : x = BackendServed(s, b) \/ x = Answered(b, FALSE, TRUE)
    OBVIOUS
  <2>2. /\ x.provider = b.provider
        /\ x.role = b.role
        /\ x.open => b.provider \in s.open
        /\ x.open => ~Unprobed(b)
    BY ONLY <2>1, AnswersOf
  <2> QED  BY <2>1, <2>2
<1>2. ASSUME NEW b \in Detected(all)
      PROVE  \E y \in t.backends :
                 /\ y.provider = b.provider /\ y.role = b.role
                 /\ b.provider \in r.open /\ ~Unprobed(b) => y.open
  <2>1. BackendServed(r, b) \in t.backends
    OBVIOUS
  <2> QED  BY <2>1 DEF BackendServed, Answered
<1>3. ASSUME NEW b \in Detected(text)
      PROVE  /\ b.provider \in {"supabase", "firebase", "s3", "gcs"}
             /\ b.provider = "supabase" => b.role = SupabaseRole(text) /\ "supabase_url" \in text
             /\ b.provider # "supabase" => b.role = "" /\ b \in Detected(all)
  BY DetectedInText
<1>4. ASSUME "supabase_url" \in all
      PROVE  \E b \in Detected(all) : b.provider = "supabase" /\ b.role = SupabaseRole(all)
  BY <1>4, SupabaseInText
<1>5. ASSUME SupabaseRole(text) = "service_role" PROVE SupabaseRole(all) = "service_role"
  BY <1>5 DEF SupabaseRole
<1>6. ASSUME SupabaseRole(text) = "anon" PROVE SupabaseRole(all) \in {"anon", "service_role"}
  BY <1>6 DEF SupabaseRole
<1>7. CASE c = NoServiceRoleKeyExposed(e)
  <2>1. PICK x \in e.backends : x.role = "service_role"
    BY <1>7 DEF NoServiceRoleKeyExposed, NoBackend, Requires, FailIf, Confirmed, CheckOf
  <2>2. "supabase_url" \in all /\ SupabaseRole(all) = "service_role"
    BY <1>1, <1>3, <1>5, <2>1
  <2>3. \E y \in t.backends : y.role = "service_role"
    BY <1>2, <1>4, <2>2
  <2>4. c = NoServiceRoleKeyExposed(t)
    BY <1>7, <2>1, <2>3 DEF NoServiceRoleKeyExposed, NoBackend, Requires, FailIf, Confirmed, CheckOf
  <2> QED  BY <2>4 DEF DatChecks
<1>8. CASE c = SupabaseSchemaNotIntrospectable(e)
  <2>1. PICK x \in e.backends : x.provider = "supabase" /\ x.role = "anon" /\ x.open
    BY <1>8 DEF SupabaseSchemaNotIntrospectable, NoBackend, Requires, FailIf, Indicated, CheckOf
  <2>2. /\ "supabase_url" \in all /\ SupabaseRole(all) \in {"anon", "service_role"}
        /\ "supabase" \in r.open
    <3>1. PICK b \in Detected(text) : /\ b.provider = "supabase" /\ b.role = "anon"
                                      /\ b.provider \in r.open
      BY <1>1, <2>1
    <3>2. SupabaseRole(text) = "anon" /\ "supabase_url" \in text
      BY <1>3, <3>1
    <3> QED  BY <1>6, <3>1, <3>2
  <2>3. PICK b \in Detected(all) : b.provider = "supabase" /\ b.role = SupabaseRole(all)
    BY <1>4, <2>2
  <2>4. CASE SupabaseRole(all) = "service_role"
    <3>1. \E y \in t.backends : y.role = "service_role"
      BY <1>2, <2>3, <2>4
    <3>2. NoServiceRoleKeyExposed(t).verdict = "failed"
      BY <3>1 DEF NoServiceRoleKeyExposed, NoBackend, Requires, FailIf, Confirmed, CheckOf
    <3>3. c.id = "DAT-002"
      BY <1>8 DEF SupabaseSchemaNotIntrospectable, Indicated, CheckOf
    <3> QED  BY <3>2, <3>3
  <2>5. CASE SupabaseRole(all) = "anon"
    <3>1. \E y \in t.backends : y.provider = "supabase" /\ y.role = "anon" /\ y.open
      BY <1>2, <2>2, <2>3, <2>5 DEF Unprobed
    <3>2. c = SupabaseSchemaNotIntrospectable(t)
      BY <1>8, <2>1, <3>1 DEF SupabaseSchemaNotIntrospectable, NoBackend, Requires, FailIf, Indicated, CheckOf
    <3> QED  BY <3>2 DEF DatChecks
  <2> QED  BY <2>2, <2>4, <2>5
<1>9. CASE c = FirebaseNotPubliclyReadable(e)
  <2>1. PICK x \in e.backends : x.provider = "firebase" /\ x.open
    BY <1>9 DEF FirebaseNotPubliclyReadable, NoBackend, Requires, FailIf, Confirmed, CheckOf
  <2>2. \E b \in Detected(all) : b.provider = "firebase" /\ b.provider \in r.open /\ ~Unprobed(b)
    BY <1>1, <1>3, <2>1
  <2>3. \E y \in t.backends : y.provider = "firebase" /\ y.open
    BY <1>2, <2>2
  <2>4. c = FirebaseNotPubliclyReadable(t)
    BY <1>9, <2>1, <2>3 DEF FirebaseNotPubliclyReadable, NoBackend, Requires, FailIf, Confirmed, CheckOf
  <2> QED  BY <2>4 DEF DatChecks
<1>10. CASE c = NoPublicBucketListing(e)
  <2>1. PICK x \in e.backends : x.provider \in {"s3", "gcs"} /\ x.open
    BY <1>10 DEF NoPublicBucketListing, NoBackend, Requires, FailIf, Confirmed, CheckOf
  <2>2. \E b \in Detected(all) : b.provider \in {"s3", "gcs"} /\ b.provider \in r.open /\ ~Unprobed(b)
    BY <1>1, <1>3, <2>1
  <2>3. \E y \in t.backends : y.provider \in {"s3", "gcs"} /\ y.open
    BY <1>2, <2>2
  <2>4. c = NoPublicBucketListing(t)
    BY <1>10, <2>1, <2>3 DEF NoPublicBucketListing, NoBackend, Requires, FailIf, Confirmed, CheckOf
  <2> QED  BY <2>4 DEF DatChecks
<1> QED  BY <1>7, <1>8, <1>9, <1>10 DEF DatChecks

-----------------------------------------------------------------------------
(***************************************************************************)
(* A sealed run.                                                           *)
(***************************************************************************)
\* The inductive invariant of FaultsAccuseOnlyConnectivity.
SeenInv == BaseInv /\ TlsSeen /\ FilesSeen /\ BundleSeen /\ BackendsSeen /\ PathsSeen

\* A function on a finite set takes finitely many values.
LEMMA ImageFinite ==
    ASSUME NEW S, IsFiniteSet(S), NEW T, NEW f \in [S -> T], \A y \in T : \E x \in S : f[x] = y
    PROVE  IsFiniteSet(T)
<1>1. f \in Surjection(S, T)
  BY DEF Surjection
<1> QED  BY <1>1, FS_Surjection

\* What the checks are given of the scripts is the site's own or nothing.
LEMMA ScriptsSealed ==
    ASSUME SeenInv, sealed
    PROVE  /\ truth.bundle # None
           /\ AllScriptText(evidence.bundle) \subseteq AllScriptText(truth.bundle)
           /\ Consoles(evidence.bundle) \in Nat /\ Consoles(truth.bundle) \in Nat
           /\ Consoles(evidence.bundle) <= Consoles(truth.bundle)
<1> USE ProbesExist
<1>1. Started /\ Going /\ "bundle" \notin subs /\ site = Site(deviations)
  BY DEF SeenInv, BaseInv, sealed, Started, Going, Late, site, Sites
<1>2. \A x \in evidence.bundle : ScriptSeen(x)
  BY <1>1 DEF SeenInv, BundleSeen
<1>3. truth.bundle = {Fetched(site, u) : u \in Urls}
  BY BundleTruth
<1>4. truth.bundle # None
  BY BundleIsSomething DEF SeenInv
<1>5. AllScriptText(evidence.bundle) \subseteq AllScriptText(truth.bundle)
  BY <1>2, <1>3 DEF AllScriptText, ScriptSeen, Fetched, NotFetched
<1> DEFINE lost == {NotFetched(u) : u \in Urls}
           all == truth.bundle \cup lost
<1>6. IsFiniteSet(all)
  <2>1. ScriptUrls(site) \in Seq(Nat)
    BY <1>1, UrlsOfSite
  <2>2. DOMAIN ScriptUrls(site) = 1 .. Len(ScriptUrls(site)) /\ Len(ScriptUrls(site)) \in Nat
    BY <2>1
  <2>3. IsFiniteSet(DOMAIN ScriptUrls(site))
    BY <2>2, FS_Interval
  <2>4. IsFiniteSet(Urls)
    <3>1. ScriptUrls(site) \in [DOMAIN ScriptUrls(site) -> Urls]
      BY <2>1, <2>2, ListIsOfItsRange DEF Urls
    <3>2. \A y \in Urls : \E i \in DOMAIN ScriptUrls(site) : ScriptUrls(site)[i] = y
      BY DEF Urls, Range
    <3> QED  BY <2>3, <3>1, <3>2, ImageFinite
  <2>5. IsFiniteSet(truth.bundle)
    <3> DEFINE f == [u \in Urls |-> Fetched(site, u)]
    <3>1. f \in [Urls -> truth.bundle] /\ \A y \in truth.bundle : \E u \in Urls : f[u] = y
      BY <1>3
    <3> HIDE DEF f
    <3> QED  BY <2>4, <3>1, ImageFinite
  <2>6. IsFiniteSet(lost)
    <3> DEFINE f == [u \in Urls |-> NotFetched(u)]
    <3>1. f \in [Urls -> lost] /\ \A y \in lost : \E u \in Urls : f[u] = y
      OBVIOUS
    <3> HIDE DEF f, lost
    <3> QED  BY <2>4, <3>1, ImageFinite
  <2> QED  BY <2>5, <2>6, FS_Union
<1>7. \A x \in all : x.console \in Nat
  BY <1>1, <1>3, UrlsOfSite DEF Fetched, NotFetched, Urls, ConsoleCalls
<1>8. \A x \in evidence.bundle : x \in truth.bundle \/ x \in lost
  BY <1>2, <1>3 DEF ScriptSeen
<1>9. \A x \in lost : x.console = 0
  BY DEF NotFetched
<1> HIDE DEF lost
<1>10. /\ evidence.bundle \in SUBSET all /\ truth.bundle \in SUBSET all
       /\ \A x \in evidence.bundle \ truth.bundle : x.console = 0
  BY <1>8, <1>9
<1> HIDE DEF all
<1>11. /\ Consoles(evidence.bundle) \in Nat /\ Consoles(truth.bundle) \in Nat
       /\ Consoles(evidence.bundle) <= Consoles(truth.bundle)
  BY <1>6, <1>7, <1>10, FewerCalls
<1> QED  BY <1>4, <1>5, <1>11

\* The text that the site's page and all its scripts hold.
AllOfSite == truth.http.body \cup AllScriptText(truth.bundle)

LEMMA BackendsTruth ==
    ASSUME BaseInv
    PROVE  truth.backends = {BackendServed(site, b) : b \in Detected(AllOfSite)} /\ truth.backends # None
<1>1. truth.backends = {BackendServed(site, b) : b \in Range(DetectBackends(AllOfSite))}
  BY DEF truth, EvidenceOf, AllOfSite
<1>2. site = Site(deviations) /\ deviations \in Scenarios
  BY DEF BaseInv, site, Sites
<1>3. EvidenceOf(Site(deviations), "passive").backends = truth.backends
  BY <1>2 DEF truth, EvidenceOf
<1>4. truth.backends # None
  BY <1>2, <1>3, ObservedAssumption
<1> QED  BY <1>1, <1>4, DetectedIs

LEMMA OtherTruth ==
    /\ truth.http = PageObservation(site) /\ truth.age = 0
    /\ truth.paths = IF tier = "active" THEN Served ELSE None
    /\ truth = [x \in Probes \cup {"age"} |-> truth[x]]
<1>1. truth.http = PageObservation(site) /\ truth.age = 0
  BY DEF truth, EvidenceOf
<1>2. truth.paths = IF tier = "active" THEN Served ELSE None
  BY DEF truth, EvidenceOf, Served
<1>3. truth = [x \in Probes \cup {"age"} |-> truth[x]]
  BY DEF truth, EvidenceOf, Probes, SubProbes
<1> QED  BY <1>1, <1>2, <1>3

LEMMA ServedIsSomething == Served # None
<1>1. Range(Candidates) \subseteq HiddenKinds
  BY CandidatesAssumption DEF Range
<1> QED  BY <1>1, NoneAssumption DEF Served

\* Without a fault the evidence is the site's.
LEMMA FaultlessIsTruth ==
    ASSUME SeenInv, sealed, faults = 0
    PROVE  evidence = truth
<1> USE ProbesExist
<1>1. Started /\ Late /\ BackendsDone /\ subs = {} /\ tier \in Tiers
  BY DEF SeenInv, BaseInv, sealed, Started, Late, BackendsDone
<1>2. evidence["http"] = truth["http"] /\ evidence["age"] = truth["age"]
  BY <1>1, OtherTruth DEF SeenInv, BaseInv
<1>3. evidence["tls"] = truth["tls"]
  BY <1>1 DEF SeenInv, TlsSeen
<1>4. evidence["wellknown"] = truth["wellknown"]
  BY <1>1 DEF SeenInv, FilesSeen
<1>5. evidence["bundle"] = truth["bundle"]
  BY <1>1 DEF SeenInv, BundleSeen
<1>6. evidence["backends"] = truth["backends"]
  <2>1. todo["backends"] = <<>> /\ BaseInv
    BY <1>1 DEF SeenInv, BackendsSeen
  <2>2. {BackendServed(site, b) : b \in Range(todo["backends"])} = {}
    BY <2>1 DEF Range
  <2>3. evidence["backends"] = {BackendServed(site, b) : b \in Found}
    BY <1>1, <2>2 DEF SeenInv, BackendsSeen
  <2>4. Found = Detected(AllOfSite)
    BY <1>2, <1>5 DEF Found, AllText, AllOfSite
  <2> QED  BY <2>1, <2>3, <2>4, BackendsTruth
<1>7. evidence["paths"] = truth["paths"]
  BY <1>1, OtherTruth DEF SeenInv, PathsSeen, PathsDone, sealed, Tiers
<1>8. \A x \in Probes \cup {"age"} : evidence[x] = truth[x]
  BY <1>2, <1>3, <1>4, <1>5, <1>6, <1>7 DEF Probes, SubProbes
<1>9. evidence = [x \in Probes \cup {"age"} |-> evidence[x]]
  BY DEF SeenInv, BaseInv, Shape
<1> QED  BY <1>8, <1>9, OtherTruth

\* Whatever faults there were, a failed check is one that the site fails, or one
\* of those that report on reachability or were hidden.
LEMMA AccusationsJustified ==
    ASSUME SeenInv, sealed, NEW c \in Registry(evidence), c.verdict = "failed"
    PROVE  \/ c \in Registry(truth)
           \/ c.id \in {"TLS-002", "EXP-001"}
           \/ c.id = "DAT-002" /\ NoServiceRoleKeyExposed(truth).verdict = "failed"
<1> USE ProbesExist
<1>1. Started /\ Late /\ BackendsDone /\ tier \in Tiers /\ BaseInv
  BY DEF SeenInv, BaseInv, sealed, Started, Late, BackendsDone
<1>2. evidence.http = truth.http /\ evidence.age = truth.age
  BY <1>1, OtherTruth DEF BaseInv
<1>3. CASE c \in HdrChecks(evidence) \cup SesChecks(evidence) \cup LegChecks(evidence)
  BY <1>2, <1>3, SamePage DEF Registry
<1>4. CASE c \in CmpChecks(evidence) \cup DepChecks(evidence)
  BY <1>2, <1>4, SamePage DEF Registry
<1>5. CASE c \in TlsChecks(evidence)
  <2>1. evidence.tls \in {None, [verified |-> FALSE], truth.tls}
    BY <1>1 DEF SeenInv, TlsSeen
  <2> QED  BY <1>2, <1>5, <2>1, TlsJustified DEF Registry
<1>6. CASE c \in CliChecks(evidence)
  BY <1>6, ScriptsSealed, CliJustified DEF Registry
<1>7. CASE c \in ExpChecks(evidence)
  <2>1. evidence.paths # None => truth.paths # None /\ evidence.paths \subseteq truth.paths
    BY <1>1, OtherTruth, ServedIsSomething DEF SeenInv, PathsSeen, PathsDone, sealed, Tiers
  <2> QED  BY <1>2, <1>7, <2>1, ExpJustified DEF Registry
<1>8. CASE c \in DatChecks(evidence)
  <2>1. AllText(evidence) \subseteq AllOfSite
    BY <1>2, ScriptsSealed DEF AllText, AllOfSite
  <2>2. PICK s : s = site
    OBVIOUS
  <2>3. \A x \in evidence.backends : \E b \in Detected(AllText(evidence)) :
            x \in {BackendServed(s, b), Answered(b, FALSE, TRUE)}
    BY <1>1, <2>2 DEF SeenInv, BackendsSeen, BackendSeen, Found
  <2>4. (\A b \in Detected(AllOfSite) : BackendServed(s, b) \in truth.backends) /\ truth.backends # None
    BY <1>1, <2>2, BackendsTruth
  <2>5. \/ c \in DatChecks(truth)
        \/ c.id = "DAT-002" /\ NoServiceRoleKeyExposed(truth).verdict = "failed"
    <3>1. s.open \subseteq s.open
      OBVIOUS
    <3> QED  BY ONLY <1>8, c.verdict = "failed", <2>1, <2>3, <2>4, <3>1, DatJustified
  <2> QED  BY <2>5 DEF Registry
<1> QED  BY <1>3, <1>4, <1>5, <1>6, <1>7, <1>8 DEF Registry

LEMMA OnlyConnectivityAccused == ASSUME SeenInv PROVE FaultsAccuseOnlyConnectivity
<1> SUFFICES ASSUME sealed PROVE FaultsAccuseOnlyConnectivity
  BY DEF FaultsAccuseOnlyConnectivity
<1> DEFINE hiddenBy == IF "DAT-001" \in Failures(truth, tier) THEN {"DAT-002"} ELSE {}
<1>1. faults = 0 => evidence = truth
  BY FaultlessIsTruth
<1>2. NoServiceRoleKeyExposed(truth).verdict = "failed" => "DAT-001" \in Failures(truth, tier)
  <2> DEFINE d == NoServiceRoleKeyExposed(truth)
  <2>1. d \in Registry(truth) /\ d.tier = "passive" /\ d.id = "DAT-001"
    BY DEF Registry, DatChecks, NoServiceRoleKeyExposed, Confirmed, CheckOf
  <2> HIDE DEF d
  <2>2. d.verdict = "failed" => d \in With(Findings(truth, tier), "failed")
    BY <2>1 DEF With, Findings, PlanRegistry
  <2>3. d.verdict = "failed" => d.id \in Failures(truth, tier)
    BY <2>2 DEF Failures, Ids
  <2> QED  BY <2>1, <2>3 DEF d
<1>3. ASSUME NEW id \in Failures(evidence, tier)
      PROVE  id \in Failures(truth, tier) \cup {"TLS-002", "EXP-001"} \cup hiddenBy
  <2>1. PICK c \in Registry(evidence) : /\ c.id = id /\ c.verdict = "failed"
                                        /\ c.tier = "passive" \/ tier = "active"
    BY <1>3 DEF Failures, Ids, With, Findings, PlanRegistry
  <2>2. CASE c \in Registry(truth)
    BY <2>1, <2>2 DEF Failures, Ids, With, Findings, PlanRegistry
  <2> QED  BY <1>2, <2>1, <2>2, AccusationsJustified
<1> HIDE DEF hiddenBy
<1>4. Failures(evidence, tier) \subseteq Failures(truth, tier) \cup {"TLS-002", "EXP-001"} \cup hiddenBy
  BY <1>3
<1> QED  BY <1>1, <1>4 DEF FaultsAccuseOnlyConnectivity, truth, hiddenBy

\* A run that meets no fault sees the site as it is, and whatever denials and
\* failed requests a sealed run met, it accuses the site of nothing but what it
\* fails, of not being reached, or of what a lost service-role key hid.
THEOREM FaultsAccuseOnlyConnectivityAlways == Spec => []FaultsAccuseOnlyConnectivity
<1>1. Init => SeenInv
  BY BaseInit, TlsInit, FilesInit, BundleInit, BackendsInit, PathsSeenInit DEF SeenInv
<1>2. SeenInv /\ [Next]_vars => SeenInv'
  BY BaseNext, TlsNext, FilesNext, BundleNextStep, BackendsNext, PathsSeenNext DEF SeenInv
<1>3. SeenInv => FaultsAccuseOnlyConnectivity
  BY OnlyConnectivityAccused
<1> QED  BY <1>1, <1>2, <1>3, PTL DEF Spec

-----------------------------------------------------------------------------
(***************************************************************************)
(* A site with one deviation more.  Each check looks at a part of the      *)
(* evidence, and what is wrong with that part stays wrong when a deviation *)
(* d is added, unless d takes the part away.                               *)
(***************************************************************************)
\* The page of the site with deviations D.
PageOf(h, D) ==
    /\ h.hsts = Hsts(D) /\ h.csp = Csp(D) /\ h.cookies = Cookies(D)
    /\ h.nosniff = IF "sniffing" \in D THEN "" ELSE "nosniff"
    /\ h.xfo = IF "frames" \in D THEN "" ELSE "deny"
    /\ h.referrer = IF "referrer_none" \in D THEN ""
                           ELSE IF "referrer_unsafe" \in D THEN "unsafe-url" ELSE "no-referrer"
    /\ h.permissions = ("no_permissions" \notin D)
    /\ h.server = IF "server_version" \in D THEN "versioned" ELSE "plain"
    /\ h.poweredBy = ("powered_by" \in D)
    /\ h.https = ("http" \notin D)
    /\ h.contentType = ("no_location" \notin D /\ "no_type" \notin D)
    /\ h.body = IF "no_location" \in D THEN {} ELSE TopOfPage(D) \cup Unless(D, "long_page", Foot(D))
    /\ h.scripts = IF "no_location" \in D THEN {} ELSE Range(ScriptTags(D))

LEMMA PageIs == ASSUME NEW D, NEW h, h = PageObservation(Site(D)) PROVE PageOf(h, D)
<1>1. PICK s : s = Site(D)
  OBVIOUS
<1>2. /\ s.page.hsts = Hsts(D) /\ s.page.csp = Csp(D) /\ s.page.cookies = Cookies(D)
      /\ s.page.nosniff = IF "sniffing" \in D THEN "" ELSE "nosniff"
      /\ s.page.xfo = IF "frames" \in D THEN "" ELSE "deny"
      /\ s.page.referrer = IF "referrer_none" \in D THEN ""
                           ELSE IF "referrer_unsafe" \in D THEN "unsafe-url" ELSE "no-referrer"
      /\ s.page.permissions = ("no_permissions" \notin D)
      /\ s.page.server = IF "server_version" \in D THEN "versioned" ELSE "plain"
      /\ s.page.poweredBy = ("powered_by" \in D)
      /\ s.https = ("http" \notin D)
      /\ s.location = ("no_location" \notin D)
      /\ s.typed = ("no_type" \notin D)
      /\ s.excerpt = TopOfPage(D) \cup Unless(D, "long_page", Foot(D))
      /\ s.scripts = ScriptTags(D)
  BY <1>1 DEF Site
<1>3. /\ h.hsts = s.page.hsts /\ h.csp = s.page.csp /\ h.cookies = s.page.cookies
      /\ h.nosniff = s.page.nosniff /\ h.xfo = s.page.xfo /\ h.referrer = s.page.referrer
      /\ h.permissions = s.page.permissions /\ h.server = s.page.server /\ h.poweredBy = s.page.poweredBy
      /\ h.https = s.https /\ h.contentType = (s.location /\ s.typed)
      /\ h.body = IF s.location THEN s.excerpt ELSE {}
      /\ h.scripts = IF s.location THEN Range(s.scripts) ELSE {}
  BY <1>1 DEF PageObservation
<1> QED  BY ONLY <1>2, <1>3 DEF PageOf

\* Headers.
HeadersWorse(h, k, d) ==
    /\ h.hsts = {} => k.hsts = {}
    /\ h.hsts # {} => k.hsts # {} \/ d = "hsts_none"
    /\ "max-age-long" \notin h.hsts => "max-age-long" \notin k.hsts
    /\ "includesubdomains" \notin h.hsts => "includesubdomains" \notin k.hsts
    /\ DOMAIN h.csp = {} => DOMAIN k.csp = {}
    /\ DOMAIN h.csp # {} => DOMAIN k.csp # {} \/ d = "csp_none"
    /\ "frame-ancestors" \notin DOMAIN k.csp
    /\ DOMAIN k.csp # {} /\ "unsafe-inline" \in ScriptSources(h.csp) => "unsafe-inline" \in ScriptSources(k.csp)
    /\ h.nosniff # "nosniff" => k.nosniff # "nosniff"
    /\ h.xfo \notin {"deny", "sameorigin"} => k.xfo \notin {"deny", "sameorigin"}
    /\ h.referrer \in {"", "unsafe-url"} => k.referrer \in {"", "unsafe-url"}
    /\ ~h.permissions => ~k.permissions
    /\ h.server = "versioned" => k.server = "versioned"
    /\ h.poweredBy => k.poweredBy
    /\ ~h.contentType => ~k.contentType
    /\ ~h.https => ~k.https
    /\ h.https => k.https \/ d = "http"

LEMMA HeadersWorsen ==
    ASSUME NEW D, NEW d, NEW W, W = D \cup {d}, NEW h, PageOf(h, D), NEW k, PageOf(k, W)
    PROVE  HeadersWorse(h, k, d)
<1>1. \A x \in D : x \in W
  OBVIOUS
<1>2. /\ h.hsts = {} => k.hsts = {}
      /\ h.hsts # {} => k.hsts # {} \/ d = "hsts_none"
      /\ "max-age-long" \notin h.hsts => "max-age-long" \notin k.hsts
      /\ "includesubdomains" \notin h.hsts => "includesubdomains" \notin k.hsts
  <2>1. h.hsts = Hsts(D) /\ k.hsts = Hsts(W)
    BY DEF PageOf
  <2> QED  BY <1>1, <2>1 DEF Hsts, Unless
<1>3. /\ DOMAIN h.csp = {} => DOMAIN k.csp = {}
      /\ DOMAIN h.csp # {} => DOMAIN k.csp # {} \/ d = "csp_none"
      /\ "frame-ancestors" \notin DOMAIN k.csp
      /\ DOMAIN k.csp # {} /\ "unsafe-inline" \in ScriptSources(h.csp) => "unsafe-inline" \in ScriptSources(k.csp)
  <2>1. h.csp = Csp(D) /\ k.csp = Csp(W)
    BY DEF PageOf
  <2>2. ASSUME NEW S
        PROVE  /\ DOMAIN Csp(S) = IF "csp_none" \in S THEN {} ELSE {"default-src"}
               /\ DOMAIN Csp(S) # {} => ScriptSources(Csp(S)) = {"self"} \cup Given(S, "csp_inline", {"unsafe-inline"})
               /\ DOMAIN Csp(S) = {} => ScriptSources(Csp(S)) = {}
    <3>1. DOMAIN Csp(S) = IF "csp_none" \in S THEN {} ELSE {"default-src"}
      BY DEF Csp, Unless
    <3>2. "csp_none" \notin S => Csp(S)["default-src"] = {"self"} \cup Given(S, "csp_inline", {"unsafe-inline"})
      BY DEF Csp, Unless
    <3> QED  BY <3>1, <3>2 DEF ScriptSources
  <2>3. /\ "csp_none" \in D => "csp_none" \in W
        /\ "csp_none" \in W => "csp_none" \in D \/ d = "csp_none"
        /\ "csp_inline" \in D => "csp_inline" \in W
    OBVIOUS
  <2>4. ASSUME NEW S, DOMAIN Csp(S) # {}
        PROVE  "unsafe-inline" \in ScriptSources(Csp(S)) <=> "csp_inline" \in S
    BY <2>2, <2>4 DEF Given
  <2> QED  BY <2>1, <2>2, <2>3, <2>4
<1>4. /\ h.nosniff # "nosniff" => k.nosniff # "nosniff"
      /\ h.xfo \notin {"deny", "sameorigin"} => k.xfo \notin {"deny", "sameorigin"}
      /\ h.referrer \in {"", "unsafe-url"} => k.referrer \in {"", "unsafe-url"}
  BY DEF PageOf
<1>5. /\ ~h.permissions => ~k.permissions
      /\ h.server = "versioned" => k.server = "versioned"
      /\ h.poweredBy => k.poweredBy
      /\ ~h.contentType => ~k.contentType
      /\ ~h.https => ~k.https
      /\ h.https => k.https \/ d = "http"
  BY DEF PageOf
<1> QED  BY <1>2, <1>3, <1>4, <1>5 DEF HeadersWorse

\* Cookies.
SessionCookie(S) ==
    [name |-> "session", secure |-> "cookie_insecure" \notin S, httpOnly |-> "cookie_script" \notin S,
     sameSite |-> IF "cookie_none" \in S THEN "none" ELSE "lax", sessionNamed |-> TRUE,
     maxAgeDays |-> IF "cookie_long" \in S THEN 365 ELSE 1]
ThemeCookie(S) ==
    [name |-> "theme", secure |-> TRUE, httpOnly |-> TRUE,
     sameSite |-> IF "cookie_plain" \in S THEN "" ELSE "lax", sessionNamed |-> FALSE,
     maxAgeDays |-> 365]

CookiesWorse(h, k) ==
    /\ (\E c \in h.cookies : ~c.secure) => \E c \in k.cookies : ~c.secure
    /\ (\E c \in h.cookies : ~c.httpOnly) => \E c \in k.cookies : ~c.httpOnly
    /\ (\E c \in h.cookies : c.sameSite = "") => \E c \in k.cookies : c.sameSite = ""
    /\ (\E c \in h.cookies : c.sameSite = "none" /\ ~c.secure)
          => \E c \in k.cookies : c.sameSite = "none" /\ ~c.secure
    /\ (\E c \in h.cookies : c.sessionNamed /\ c.maxAgeDays > 30)
          => \E c \in k.cookies : c.sessionNamed /\ c.maxAgeDays > 30

LEMMA CookiesWorsen ==
    ASSUME NEW D, NEW d, NEW W, W = D \cup {d}, NEW h, PageOf(h, D), NEW k, PageOf(k, W)
    PROVE  CookiesWorse(h, k)
<1>1. \A x \in D : x \in W
  OBVIOUS
<1>2. h.cookies = {SessionCookie(D), ThemeCookie(D)} /\ k.cookies = {SessionCookie(W), ThemeCookie(W)}
  BY DEF PageOf, Cookies, SessionCookie, ThemeCookie
<1>3. PICK a : a = SessionCookie(D)
  OBVIOUS
<1>4. PICK b : b = ThemeCookie(D)
  OBVIOUS
<1>5. PICK x : x = SessionCookie(W)
  OBVIOUS
<1>6. PICK y : y = ThemeCookie(W)
  OBVIOUS
<1>7. h.cookies = {a, b} /\ k.cookies = {x, y}
  BY <1>2, <1>3, <1>4, <1>5, <1>6
<1>8. /\ ~a.secure => ~x.secure
      /\ ~a.httpOnly => ~x.httpOnly
      /\ a.sameSite # ""
      /\ a.sameSite = "none" => x.sameSite = "none"
      /\ a.maxAgeDays > 30 => x.maxAgeDays > 30
      /\ x.sessionNamed = TRUE
  <2>1. /\ (a.secure <=> "cookie_insecure" \notin D) /\ (a.httpOnly <=> "cookie_script" \notin D)
        /\ a.sameSite = IF "cookie_none" \in D THEN "none" ELSE "lax"
        /\ a.maxAgeDays = IF "cookie_long" \in D THEN 365 ELSE 1
    BY <1>3 DEF SessionCookie
  <2>2. /\ (x.secure <=> "cookie_insecure" \notin W) /\ (x.httpOnly <=> "cookie_script" \notin W)
        /\ x.sameSite = IF "cookie_none" \in W THEN "none" ELSE "lax"
        /\ x.sessionNamed = TRUE
        /\ x.maxAgeDays = IF "cookie_long" \in W THEN 365 ELSE 1
    BY ONLY <1>5 DEF SessionCookie
  <2> QED  BY ONLY <1>1, <2>1, <2>2
<1>9. b.secure = TRUE /\ b.httpOnly = TRUE /\ b.sessionNamed = FALSE /\ (b.sameSite = "" => y.sameSite = "")
  <2>1. /\ b.secure = TRUE /\ b.httpOnly = TRUE /\ b.sessionNamed = FALSE
        /\ b.sameSite = IF "cookie_plain" \in D THEN "" ELSE "lax"
    BY <1>4 DEF ThemeCookie
  <2>2. y.sameSite = IF "cookie_plain" \in W THEN "" ELSE "lax"
    BY <1>6 DEF ThemeCookie
  <2> QED  BY ONLY <1>1, <2>1, <2>2
<1> QED  BY ONLY <1>7, <1>8, <1>9 DEF CookiesWorse

\* The needles of the body of the site with deviations S.
Needles(b, S) ==
    /\ "ga" \in b <=> "no_location" \notin S
    /\ "consent_library" \in b <=> "no_location" \notin S /\ "no_consent" \notin S
    /\ "consent_mode" \in b <=> "no_location" \notin S /\ "no_mode" \notin S
    /\ \A x \in Intrusions : x \in b <=> "no_location" \notin S /\ x \in S
    /\ "pixel" \notin b
    /\ "cookie_word" \in b <=> "no_location" \notin S /\ "long_page" \notin S
    /\ "privacy_near_cookie" \in b <=> "no_location" \notin S /\ "long_page" \notin S /\ "bare_notice" \notin S
    /\ "privacy_link" \in b <=> "no_location" \notin S /\ "long_page" \notin S /\ "no_privacy" \notin S
    /\ "terms_link" \in b <=> "no_location" \notin S /\ "long_page" \notin S /\ "no_terms" \notin S
    /\ "cookie_link" \in b <=> "no_location" \notin S /\ "long_page" \notin S /\ "no_cookies" \notin S
    /\ "contact_link" \in b <=> "no_location" \notin S /\ "long_page" \notin S /\ "no_contact" \notin S

BodyWorse(h, k, d) ==
    /\ \A x \in {"privacy_link", "terms_link", "cookie_link", "contact_link", "consent_library",
                 "consent_mode", "privacy_near_cookie"} : x \in k.body => x \in h.body
    /\ \A x \in {"ga", "mixed_content", "session_in_url", "prechecked_marketing", "stack_trace"} :
           x \in h.body => x \in k.body \/ d = "no_location"
    /\ "cookie_word" \in h.body => "cookie_word" \in k.body \/ d \in {"no_location", "long_page"}
    /\ "pixel" \notin h.body

LEMMA BodyWorsens ==
    ASSUME NEW D, NEW d, NEW W, W = D \cup {d}, NEW h, PageOf(h, D), NEW k, PageOf(k, W)
    PROVE  BodyWorse(h, k, d)
<1>1. /\ \A x \in D : x \in W
      /\ \A x \in W : x \in D \/ x = d
  OBVIOUS
<1>2. ASSUME NEW S, NEW b, b = IF "no_location" \in S THEN {} ELSE TopOfPage(S) \cup Unless(S, "long_page", Foot(S))
      PROVE  Needles(b, S)
  BY <1>2 DEF Needles, TopOfPage, Foot, Unless, Intrusions
<1>3. /\ h.body = IF "no_location" \in D THEN {} ELSE TopOfPage(D) \cup Unless(D, "long_page", Foot(D))
      /\ k.body = IF "no_location" \in W THEN {} ELSE TopOfPage(W) \cup Unless(W, "long_page", Foot(W))
  BY DEF PageOf
<1>4. Needles(h.body, D) /\ Needles(k.body, W)
  BY <1>2, <1>3
<1>5. ASSUME NEW x \in {"privacy_link", "terms_link", "cookie_link", "contact_link", "consent_library",
                        "consent_mode", "privacy_near_cookie"}, x \in k.body
      PROVE  x \in h.body
  BY ONLY <1>1, <1>4, <1>5 DEF Needles
<1>6. ASSUME NEW x \in {"ga", "mixed_content", "session_in_url", "prechecked_marketing", "stack_trace"}, x \in h.body
      PROVE  x \in k.body \/ d = "no_location"
  BY ONLY <1>1, <1>4, <1>6 DEF Needles, Intrusions
<1>7. /\ "cookie_word" \in h.body => "cookie_word" \in k.body \/ d \in {"no_location", "long_page"}
      /\ "pixel" \notin h.body
  BY ONLY <1>1, <1>4 DEF Needles
<1> QED  BY <1>5, <1>6, <1>7 DEF BodyWorse

\* The page's script tags.
TagUrls(S) == IF "many_scripts" \in S THEN [i \in 1..8 |-> 10 + i] \o <<Widget, App>> ELSE <<Widget, App>>

LEMMA TagsAre ==
    ASSUME NEW S
    PROVE  /\ TagUrls(S) \in Seq(Nat)
           /\ ScriptTags(S) = [i \in DOMAIN TagUrls(S) |-> Tag(S, TagUrls(S)[i])]
           /\ Range(ScriptTags(S)) = {Tag(S, u) : u \in Range(TagUrls(S))}
<1>1. TagUrls(S) \in Seq(Nat)
  <2>1. [i \in 1..8 |-> 10 + i] \in Seq(Nat) /\ <<Widget, App>> \in Seq(Nat)
    BY DEF Widget, App
  <2> QED  BY <2>1 DEF TagUrls
<1>2. ScriptTags(S) = [i \in DOMAIN TagUrls(S) |-> Tag(S, TagUrls(S)[i])]
  BY DEF ScriptTags, TagUrls
<1>3. PICK q : q = TagUrls(S)
  OBVIOUS
<1>4. PICK tags : tags = ScriptTags(S)
  OBVIOUS
<1>5. tags = [i \in DOMAIN q |-> Tag(S, q[i])]
  BY <1>2, <1>3, <1>4
<1>6. Range(tags) = {Tag(S, u) : u \in Range(q)}
  BY ONLY <1>5 DEF Range
<1> QED  BY <1>1, <1>2, <1>3, <1>4, <1>6

LEMMA TagUrlsHold ==
    ASSUME NEW S
    PROVE  /\ "many_scripts" \notin S => Range(TagUrls(S)) = {Widget, App}
           /\ Widget \in Range(TagUrls(S))
<1>1. Range(<<Widget, App>>) = {Widget, App}
  BY DEF Range
<1>2. [i \in 1..8 |-> 10 + i] \in Seq(Nat) /\ <<Widget, App>> \in Seq(Nat)
  BY DEF Widget, App
<1>3. Range([i \in 1..8 |-> 10 + i] \o <<Widget, App>>) = Range([i \in 1..8 |-> 10 + i]) \cup Range(<<Widget, App>>)
  BY <1>2, RangeOfBoth
<1> QED  BY <1>1, <1>3 DEF TagUrls

\* The origins that DEP-003 counts.
Origins(scripts) == {s.origin : s \in {s \in scripts : s.crossOrigin}}

TagsWorse(h, k) ==
    /\ (\E s \in h.scripts : s.crossOrigin /\ ~s.integrity) => \E s \in k.scripts : s.crossOrigin /\ ~s.integrity
    /\ (\E s \in h.scripts : s.old) => \E s \in k.scripts : s.old
    /\ (\E s \in h.scripts : s.unpinned) => \E s \in k.scripts : s.unpinned
    /\ Origins(k.scripts) = Origins(h.scripts) \/ Cardinality(Origins(h.scripts)) <= 8

LEMMA TagsWorsen ==
    ASSUME NEW D, NEW d, NEW W, W = D \cup {d}, NEW h, PageOf(h, D), NEW k, PageOf(k, W), d # "no_location"
    PROVE  TagsWorse(h, k)
<1>1. /\ \A x \in D : x \in W
      /\ \A x \in W : x \in D \/ x = d
  OBVIOUS
<1>2. PICK U : U = Range(TagUrls(D))
  OBVIOUS
<1>3. PICK V : V = Range(TagUrls(W))
  OBVIOUS
<1>4. /\ h.scripts = IF "no_location" \in D THEN {} ELSE {Tag(D, u) : u \in U}
      /\ k.scripts = IF "no_location" \in W THEN {} ELSE {Tag(W, u) : u \in V}
  <2>1. PICK tags : tags = ScriptTags(D)
    OBVIOUS
  <2>2. PICK more : more = ScriptTags(W)
    OBVIOUS
  <2>3. Range(tags) = {Tag(D, u) : u \in U}
    BY <1>2, <2>1, TagsAre
  <2>4. Range(more) = {Tag(W, u) : u \in V}
    BY ONLY <1>3, <2>2, TagsAre
  <2>5. /\ h.scripts = IF "no_location" \in D THEN {} ELSE Range(tags)
        /\ k.scripts = IF "no_location" \in W THEN {} ELSE Range(more)
    BY <2>1, <2>2 DEF PageOf
  <2> QED  BY ONLY <2>3, <2>4, <2>5
<1>5. Widget \in V
  BY <1>3, TagUrlsHold
<1>6. "no_location" \in D <=> "no_location" \in W
  BY <1>1
<1>7. ASSUME NEW S, NEW u
      PROVE  /\ Tag(S, u).crossOrigin <=> u # App
             /\ Tag(S, u).origin = u
             /\ ~Tag(S, u).integrity <=> u = Widget /\ "sri_none" \in S
             /\ Tag(S, u).old <=> u = Widget /\ "old_library" \in S
             /\ Tag(S, u).unpinned <=> u = Widget /\ "unpinned" \in S
  BY DEF Tag
<1>8. PICK tag : tag = Tag(W, Widget)
  OBVIOUS
<1>9. /\ tag.crossOrigin
      /\ "sri_none" \in W => ~tag.integrity
      /\ "old_library" \in W => tag.old
      /\ "unpinned" \in W => tag.unpinned
  BY <1>7, <1>8 DEF Widget, App
<1>10. "no_location" \notin D => tag \in k.scripts
  BY <1>4, <1>5, <1>6, <1>8
<1>11. ASSUME NEW s \in h.scripts
       PROVE  /\ "no_location" \notin D
              /\ ~s.integrity => "sri_none" \in W
              /\ s.old => "old_library" \in W
              /\ s.unpinned => "unpinned" \in W
  <2>1. PICK u \in U : s = Tag(D, u) /\ "no_location" \notin D
    BY <1>4
  <2> QED  BY <1>1, <1>7, <2>1
<1>12. Origins(k.scripts) = Origins(h.scripts) \/ Cardinality(Origins(h.scripts)) <= 8
  <2>1. CASE "no_location" \in D
    BY <1>4, <1>6, <2>1
  <2>2. CASE "no_location" \notin D
    <3>1. h.scripts = {Tag(D, u) : u \in U} /\ k.scripts = {Tag(W, u) : u \in V}
      BY <1>4, <1>6, <2>2
    <3>2. ASSUME NEW S, NEW T, NEW X, X = {Tag(S, u) : u \in T}
          PROVE  Origins(X) = T \ {App}
      BY <3>2, <1>7 DEF Origins
    <3>3. Origins(h.scripts) = U \ {App}
      BY <3>1, <3>2
    <3>4. Origins(k.scripts) = V \ {App}
      BY <3>1, <3>2
    <3>5. CASE "many_scripts" \in D
      <4>1. TagUrls(W) = TagUrls(D)
        BY <1>1, <3>5 DEF TagUrls
      <4> QED  BY <1>2, <1>3, <3>3, <3>4, <4>1
    <3>6. CASE "many_scripts" \notin D
      <4>1. U \ {App} = {Widget}
        BY <1>2, <3>6, TagUrlsHold DEF Widget, App
      <4>2. Cardinality({Widget}) = 1
        BY FS_Singleton
      <4>3. Cardinality(Origins(h.scripts)) = 1
        BY <3>3, <4>1, <4>2
      <4> QED  BY <4>3
    <3> QED  BY <3>5, <3>6
  <2> QED  BY <2>1, <2>2
<1> QED  BY <1>9, <1>10, <1>11, <1>12 DEF TagsWorse

\* A header that is missing or weak stays so.
LEMMA HdrStays ==
    ASSUME NEW D, NEW d, NEW W, W = D \cup {d}, NEW e, PageOf(e.http, D), NEW f, PageOf(f.http, W), f.http # None,
           NEW c \in HdrChecks(e), c.verdict = "failed"
    PROVE  \/ c \in HdrChecks(f)
           \/ d = "hsts_none" /\ c.id \in {"HDR-002", "HDR-003"}
           \/ d = "csp_none" /\ c.id = "HDR-005"
<1>1. PICK h : h = e.http
  OBVIOUS
<1>2. PICK k : k = f.http
  OBVIOUS
<1>3. PageOf(h, D) /\ PageOf(k, W) /\ k # None
  BY <1>1, <1>2
<1>4. HeadersWorse(h, k, d)
  BY ONLY W = D \cup {d}, <1>3, HeadersWorsen
<1>5. CASE c = HstsPresent(e)
  <2>1. h.hsts = {} => k.hsts = {}
    BY ONLY <1>4 DEF HeadersWorse
  <2>2. c = HstsPresent(f)
    BY ONLY c.verdict = "failed", <1>1, <1>2, <1>3, <1>5, <2>1
    DEF HstsPresent, Confirmed, PassIf, Requires, CheckOf
  <2> QED  BY <2>2 DEF HdrChecks
<1>6. CASE c = HstsMaxAge(e)
  <2>1. /\ h.hsts # {} => k.hsts # {} \/ d = "hsts_none"
        /\ "max-age-long" \notin h.hsts => "max-age-long" \notin k.hsts
    BY ONLY <1>4 DEF HeadersWorse
  <2>2. c = HstsMaxAge(f) \/ (d = "hsts_none" /\ c.id \in {"HDR-002", "HDR-003"})
    BY ONLY c.verdict = "failed", <1>1, <1>2, <1>3, <1>6, <2>1
    DEF HstsMaxAge, Confirmed, PassIf, WithHsts, Requires, CheckOf
  <2> QED  BY <2>2 DEF HdrChecks
<1>7. CASE c = HstsIncludeSubdomains(e)
  <2>1. /\ h.hsts # {} => k.hsts # {} \/ d = "hsts_none"
        /\ "includesubdomains" \notin h.hsts => "includesubdomains" \notin k.hsts
    BY ONLY <1>4 DEF HeadersWorse
  <2>2. c = HstsIncludeSubdomains(f) \/ (d = "hsts_none" /\ c.id \in {"HDR-002", "HDR-003"})
    BY ONLY c.verdict = "failed", <1>1, <1>2, <1>3, <1>7, <2>1
    DEF HstsIncludeSubdomains, Confirmed, PassIf, WithHsts, Requires, CheckOf
  <2> QED  BY <2>2 DEF HdrChecks
<1>8. CASE c = CspPresent(e)
  <2>1. DOMAIN h.csp = {} => DOMAIN k.csp = {}
    BY ONLY <1>4 DEF HeadersWorse
  <2>2. c = CspPresent(f)
    BY ONLY c.verdict = "failed", <1>1, <1>2, <1>3, <1>8, <2>1
    DEF CspPresent, Confirmed, PassIf, HasCsp, Requires, CheckOf
  <2> QED  BY <2>2 DEF HdrChecks
<1>9. CASE c = CspNoUnsafeInline(e)
  <2>1. /\ DOMAIN h.csp # {} => DOMAIN k.csp # {} \/ d = "csp_none"
        /\ DOMAIN k.csp # {} /\ "unsafe-inline" \in ScriptSources(h.csp) => "unsafe-inline" \in ScriptSources(k.csp)
    BY ONLY <1>4 DEF HeadersWorse
  <2>2. c = CspNoUnsafeInline(f) \/ (d = "csp_none" /\ c.id = "HDR-005")
    BY ONLY c.verdict = "failed", <1>1, <1>2, <1>3, <1>9, <2>1
    DEF CspNoUnsafeInline, Indicated, FailIf, HasCsp, Requires, CheckOf
  <2> QED  BY <2>2 DEF HdrChecks
<1>10. CASE c = XContentTypeOptions(e)
  <2>1. h.nosniff # "nosniff" => k.nosniff # "nosniff"
    BY ONLY <1>4 DEF HeadersWorse
  <2>2. c = XContentTypeOptions(f)
    BY ONLY c.verdict = "failed", <1>1, <1>2, <1>3, <1>10, <2>1
    DEF XContentTypeOptions, Confirmed, PassIf, Requires, CheckOf
  <2> QED  BY <2>2 DEF HdrChecks
<1>11. CASE c = ClickjackingProtection(e)
  <2>1. /\ h.xfo \notin {"deny", "sameorigin"} => k.xfo \notin {"deny", "sameorigin"}
        /\ "frame-ancestors" \notin DOMAIN k.csp
    BY ONLY <1>4 DEF HeadersWorse
  <2>2. c = ClickjackingProtection(f)
    BY ONLY c.verdict = "failed", <1>1, <1>2, <1>3, <1>11, <2>1
    DEF ClickjackingProtection, Confirmed, PassIf, Requires, CheckOf
  <2> QED  BY <2>2 DEF HdrChecks
<1>12. CASE c = ReferrerPolicy(e)
  <2>1. h.referrer \in {"", "unsafe-url"} => k.referrer \in {"", "unsafe-url"}
    BY ONLY <1>4 DEF HeadersWorse
  <2>2. c = ReferrerPolicy(f)
    BY ONLY c.verdict = "failed", <1>1, <1>2, <1>3, <1>12, <2>1
    DEF ReferrerPolicy, Confirmed, FailIf, Requires, CheckOf
  <2> QED  BY <2>2 DEF HdrChecks
<1>13. CASE c = PermissionsPolicy(e)
  <2>1. ~h.permissions => ~k.permissions
    BY ONLY <1>4 DEF HeadersWorse
  <2>2. c = PermissionsPolicy(f)
    BY ONLY c.verdict = "failed", <1>1, <1>2, <1>3, <1>13, <2>1
    DEF PermissionsPolicy, Confirmed, PassIf, Requires, CheckOf
  <2> QED  BY <2>2 DEF HdrChecks
<1>14. CASE c = ServerHeaderNoVersion(e)
  <2>1. h.server = "versioned" => k.server = "versioned"
    BY ONLY <1>4 DEF HeadersWorse
  <2>2. c = ServerHeaderNoVersion(f)
    BY ONLY c.verdict = "failed", <1>1, <1>2, <1>3, <1>14, <2>1
    DEF ServerHeaderNoVersion, Indicated, FailIf, Requires, CheckOf
  <2> QED  BY <2>2 DEF HdrChecks
<1>15. CASE c = XPoweredByAbsent(e)
  <2>1. h.poweredBy => k.poweredBy
    BY ONLY <1>4 DEF HeadersWorse
  <2>2. c = XPoweredByAbsent(f)
    BY ONLY c.verdict = "failed", <1>1, <1>2, <1>3, <1>15, <2>1
    DEF XPoweredByAbsent, Confirmed, FailIf, Requires, CheckOf
  <2> QED  BY <2>2 DEF HdrChecks
<1>16. CASE c = ContentTypePresent(e)
  <2>1. ~h.contentType => ~k.contentType
    BY ONLY <1>4 DEF HeadersWorse
  <2>2. c = ContentTypePresent(f)
    BY ONLY c.verdict = "failed", <1>1, <1>2, <1>3, <1>16, <2>1
    DEF ContentTypePresent, Confirmed, PassIf, Requires, CheckOf
  <2> QED  BY <2>2 DEF HdrChecks
<1> QED  BY ONLY c \in HdrChecks(e), <1>5, <1>6, <1>7, <1>8, <1>9, <1>10, <1>11, <1>12, <1>13, <1>14, <1>15,
                 <1>16 DEF HdrChecks

\* A page without a link stays so.
LEMMA LegStays ==
    ASSUME NEW D, NEW d, NEW W, W = D \cup {d}, NEW e, PageOf(e.http, D), NEW f, PageOf(f.http, W), f.http # None,
           NEW c \in LegChecks(e), c.verdict = "failed"
    PROVE  c \in LegChecks(f)
<1>1. PICK h : h = e.http
  OBVIOUS
<1>2. PICK k : k = f.http
  OBVIOUS
<1>3. PageOf(h, D) /\ PageOf(k, W) /\ k # None
  BY <1>1, <1>2
<1>4. BodyWorse(h, k, d)
  BY ONLY W = D \cup {d}, <1>3, BodyWorsens
<1>5. CASE c = PrivacyPolicyLinked(e)
  <2>1. "privacy_link" \in k.body => "privacy_link" \in h.body
    BY ONLY <1>4 DEF BodyWorse
  <2>2. c = PrivacyPolicyLinked(f)
    BY ONLY c.verdict = "failed", <1>1, <1>2, <1>3, <1>5, <2>1
    DEF PrivacyPolicyLinked, Indicated, HasLink, PassIf, Requires, CheckOf
  <2> QED  BY <2>2 DEF LegChecks
<1>6. CASE c = TermsLinked(e)
  <2>1. "terms_link" \in k.body => "terms_link" \in h.body
    BY ONLY <1>4 DEF BodyWorse
  <2>2. c = TermsLinked(f)
    BY ONLY c.verdict = "failed", <1>1, <1>2, <1>3, <1>6, <2>1
    DEF TermsLinked, Indicated, HasLink, PassIf, Requires, CheckOf
  <2> QED  BY <2>2 DEF LegChecks
<1>7. CASE c = CookiePolicyLinked(e)
  <2>1. "cookie_link" \in k.body => "cookie_link" \in h.body
    BY ONLY <1>4 DEF BodyWorse
  <2>2. c = CookiePolicyLinked(f)
    BY ONLY c.verdict = "failed", <1>1, <1>2, <1>3, <1>7, <2>1
    DEF CookiePolicyLinked, Indicated, HasLink, PassIf, Requires, CheckOf
  <2> QED  BY <2>2 DEF LegChecks
<1>8. CASE c = ContactInfoPresent(e)
  <2>1. "contact_link" \in k.body => "contact_link" \in h.body
    BY ONLY <1>4 DEF BodyWorse
  <2>2. c = ContactInfoPresent(f)
    BY ONLY c.verdict = "failed", <1>1, <1>2, <1>3, <1>8, <2>1
    DEF ContactInfoPresent, Indicated, HasLink, PassIf, Requires, CheckOf
  <2> QED  BY <2>2 DEF LegChecks
<1> QED  BY ONLY c \in LegChecks(e), <1>5, <1>6, <1>7, <1>8 DEF LegChecks

\* A tracker, a checkbox or a notice without what it needs stays so.
LEMMA CmpStays ==
    ASSUME NEW D, NEW d, NEW W, W = D \cup {d}, NEW e, PageOf(e.http, D), NEW f, PageOf(f.http, W), f.http # None,
           d # "no_location",
           NEW c \in CmpChecks(e), c.verdict = "failed", d # "long_page" \/ c.id # "CMP-004"
    PROVE  c \in CmpChecks(f)
<1>1. PICK h : h = e.http
  OBVIOUS
<1>2. PICK k : k = f.http
  OBVIOUS
<1>3. PageOf(h, D) /\ PageOf(k, W) /\ k # None
  BY <1>1, <1>2
<1>4. BodyWorse(h, k, d)
  BY ONLY W = D \cup {d}, <1>3, BodyWorsens
<1>5. CASE c = TrackerWithoutConsentLibrary(e)
  <2>1. /\ "ga" \in h.body => "ga" \in k.body
        /\ "pixel" \notin h.body
        /\ "consent_library" \in k.body => "consent_library" \in h.body
    BY ONLY <1>4, d # "no_location" DEF BodyWorse
  <2>2. c = TrackerWithoutConsentLibrary(f)
    BY ONLY c.verdict = "failed", <1>1, <1>2, <1>3, <1>5, <2>1
    DEF TrackerWithoutConsentLibrary, Indicated, Holds, Concerning, PassIf, Requires, CheckOf
  <2> QED  BY <2>2 DEF CmpChecks
<1>6. CASE c = GaUsesConsentMode(e)
  <2>1. /\ "ga" \in h.body => "ga" \in k.body
        /\ "consent_mode" \in k.body => "consent_mode" \in h.body
    BY ONLY <1>4, d # "no_location" DEF BodyWorse
  <2>2. c = GaUsesConsentMode(f)
    BY ONLY c.verdict = "failed", <1>1, <1>2, <1>3, <1>6, <2>1
    DEF GaUsesConsentMode, Indicated, Holds, Concerning, PassIf, Requires, CheckOf
  <2> QED  BY <2>2 DEF CmpChecks
<1>7. CASE c = NoPrecheckedMarketingCheckbox(e)
  <2>1. "prechecked_marketing" \in h.body => "prechecked_marketing" \in k.body
    BY ONLY <1>4, d # "no_location" DEF BodyWorse
  <2>2. c = NoPrecheckedMarketingCheckbox(f)
    BY ONLY c.verdict = "failed", <1>1, <1>2, <1>3, <1>7, <2>1
    DEF NoPrecheckedMarketingCheckbox, Indicated, Holds, FailIf, Requires, CheckOf
  <2> QED  BY <2>2 DEF CmpChecks
<1>8. CASE c = ConsentNoticeReferencesPrivacyPolicy(e)
  <2>1. /\ "cookie_word" \in h.body => "cookie_word" \in k.body \/ d = "long_page"
        /\ "privacy_near_cookie" \in k.body => "privacy_near_cookie" \in h.body
    BY ONLY <1>4, d # "no_location" DEF BodyWorse
  <2>2. c = ConsentNoticeReferencesPrivacyPolicy(f) \/ (d = "long_page" /\ c.id = "CMP-004")
    BY ONLY c.verdict = "failed", <1>1, <1>2, <1>3, <1>8, <2>1
    DEF ConsentNoticeReferencesPrivacyPolicy, Indicated, Holds, Concerning, PassIf, Requires, CheckOf
  <2>3. c = ConsentNoticeReferencesPrivacyPolicy(f)
    BY <2>2, d # "long_page" \/ c.id # "CMP-004"
  <2> QED  BY <2>3 DEF CmpChecks
<1> QED  BY ONLY c \in CmpChecks(e), <1>5, <1>6, <1>7, <1>8 DEF CmpChecks

\* A cookie set carelessly stays so.
LEMMA SesStays ==
    ASSUME NEW D, NEW d, NEW W, W = D \cup {d}, NEW e, PageOf(e.http, D), NEW f, PageOf(f.http, W), f.http # None,
           d # "no_location",
           NEW c \in SesChecks(e), c.verdict = "failed"
    PROVE  c \in SesChecks(f)
<1>1. PICK h : h = e.http
  OBVIOUS
<1>2. PICK k : k = f.http
  OBVIOUS
<1>3. PageOf(h, D) /\ PageOf(k, W) /\ k # None
  BY <1>1, <1>2
<1>4. CookiesWorse(h, k)
  BY ONLY W = D \cup {d}, <1>3, CookiesWorsen
<1>5. BodyWorse(h, k, d)
  BY ONLY W = D \cup {d}, <1>3, BodyWorsens
<1>6. CASE c = CookiesSecure(e)
  <2>1. (\E x \in h.cookies : ~x.secure) => \E x \in k.cookies : ~x.secure
    BY ONLY <1>4, <1>5, d # "no_location" DEF CookiesWorse, BodyWorse
  <2>2. c = CookiesSecure(f)
    BY ONLY c.verdict = "failed", <1>1, <1>2, <1>3, <1>6, <2>1
    DEF CookiesSecure, Confirmed, NoCookie, FailIf, Requires, CheckOf
  <2> QED  BY <2>2 DEF SesChecks
<1>7. CASE c = CookiesHttpOnly(e)
  <2>1. (\E x \in h.cookies : ~x.httpOnly) => \E x \in k.cookies : ~x.httpOnly
    BY ONLY <1>4, <1>5, d # "no_location" DEF CookiesWorse, BodyWorse
  <2>2. c = CookiesHttpOnly(f)
    BY ONLY c.verdict = "failed", <1>1, <1>2, <1>3, <1>7, <2>1
    DEF CookiesHttpOnly, Confirmed, NoCookie, FailIf, Requires, CheckOf
  <2> QED  BY <2>2 DEF SesChecks
<1>8. CASE c = CookiesSamesiteSet(e)
  <2>1. (\E x \in h.cookies : x.sameSite = "") => \E x \in k.cookies : x.sameSite = ""
    BY ONLY <1>4, <1>5, d # "no_location" DEF CookiesWorse, BodyWorse
  <2>2. c = CookiesSamesiteSet(f)
    BY ONLY c.verdict = "failed", <1>1, <1>2, <1>3, <1>8, <2>1
    DEF CookiesSamesiteSet, Confirmed, NoCookie, FailIf, Requires, CheckOf
  <2> QED  BY <2>2 DEF SesChecks
<1>9. CASE c = CookiesSamesiteNoneRequiresSecure(e)
  <2>1. (\E x \in h.cookies : x.sameSite = "none" /\ ~x.secure)
            => \E x \in k.cookies : x.sameSite = "none" /\ ~x.secure
    BY ONLY <1>4, <1>5, d # "no_location" DEF CookiesWorse, BodyWorse
  <2>2. c = CookiesSamesiteNoneRequiresSecure(f)
    BY ONLY c.verdict = "failed", <1>1, <1>2, <1>3, <1>9, <2>1
    DEF CookiesSamesiteNoneRequiresSecure, Confirmed, NoCookie, FailIf, Requires, CheckOf
  <2> QED  BY <2>2 DEF SesChecks
<1>10. CASE c = NoSessionIdInUrl(e)
  <2>1. "session_in_url" \in h.body => "session_in_url" \in k.body
    BY ONLY <1>4, <1>5, d # "no_location" DEF CookiesWorse, BodyWorse
  <2>2. c = NoSessionIdInUrl(f)
    BY ONLY c.verdict = "failed", <1>1, <1>2, <1>3, <1>10, <2>1
    DEF NoSessionIdInUrl, Indicated, FailIf, Requires, CheckOf
  <2> QED  BY <2>2 DEF SesChecks
<1>11. CASE c = CookieLifetimeSane(e)
  <2>1. (\E x \in h.cookies : x.sessionNamed /\ x.maxAgeDays > 30)
            => \E x \in k.cookies : x.sessionNamed /\ x.maxAgeDays > 30
    BY ONLY <1>4, <1>5, d # "no_location" DEF CookiesWorse, BodyWorse
  <2>2. c = CookieLifetimeSane(f)
    BY ONLY c.verdict = "failed", <1>1, <1>2, <1>3, <1>11, <2>1
    DEF CookieLifetimeSane, Indicated, NoCookie, FailIf, Requires, CheckOf
  <2> QED  BY <2>2 DEF SesChecks
<1> QED  BY ONLY c \in SesChecks(e), <1>6, <1>7, <1>8, <1>9, <1>10, <1>11 DEF SesChecks

\* A script tag that is unsafe stays so.
LEMMA DepStays ==
    ASSUME NEW D, NEW d, NEW W, W = D \cup {d}, NEW e, PageOf(e.http, D), NEW f, PageOf(f.http, W), f.http # None,
           d # "no_location",
           NEW c \in DepChecks(e), c.verdict = "failed"
    PROVE  c \in DepChecks(f)
<1>1. PICK h : h = e.http
  OBVIOUS
<1>2. PICK k : k = f.http
  OBVIOUS
<1>3. PageOf(h, D) /\ PageOf(k, W) /\ k # None
  BY <1>1, <1>2
<1>4. TagsWorse(h, k)
  BY ONLY W = D \cup {d}, <1>3, TagsWorsen, d # "no_location"
<1>5. CASE c = SriPresentOnThirdPartyScripts(e)
  <2>1. (\E s \in h.scripts : s.crossOrigin /\ ~s.integrity) => \E s \in k.scripts : s.crossOrigin /\ ~s.integrity
    BY ONLY <1>4, d # "no_location" DEF TagsWorse
  <2>2. c = SriPresentOnThirdPartyScripts(f)
    BY ONLY c.verdict = "failed", <1>1, <1>2, <1>3, <1>5, <2>1
    DEF SriPresentOnThirdPartyScripts, Confirmed, NoScript, FailIf, Requires, CheckOf
  <2> QED  BY <2>2 DEF DepChecks
<1>6. CASE c = NoKnownOldLibrary(e)
  <2>1. (\E s \in h.scripts : s.old) => \E s \in k.scripts : s.old
    BY ONLY <1>4, d # "no_location" DEF TagsWorse
  <2>2. c = NoKnownOldLibrary(f)
    BY ONLY c.verdict = "failed", <1>1, <1>2, <1>3, <1>6, <2>1
    DEF NoKnownOldLibrary, Indicated, NoScript, FailIf, Requires, CheckOf
  <2> QED  BY <2>2 DEF DepChecks
<1>7. CASE c = BoundedThirdPartyOrigins(e)
  <2>1. Origins(k.scripts) = Origins(h.scripts) \/ Cardinality(Origins(h.scripts)) <= 8
    BY ONLY <1>4, d # "no_location" DEF TagsWorse
  <2>2. c = BoundedThirdPartyOrigins(f)
    BY ONLY c.verdict = "failed", <1>1, <1>2, <1>3, <1>7, <2>1
    DEF BoundedThirdPartyOrigins, Indicated, CrossOrigin, Origins, PassIf, Requires, CheckOf
  <2> QED  BY <2>2 DEF DepChecks
<1>8. CASE c = NoUnpinnedCdnVersion(e)
  <2>1. (\E s \in h.scripts : s.unpinned) => \E s \in k.scripts : s.unpinned
    BY ONLY <1>4, d # "no_location" DEF TagsWorse
  <2>2. c = NoUnpinnedCdnVersion(f)
    BY ONLY c.verdict = "failed", <1>1, <1>2, <1>3, <1>8, <2>1
    DEF NoUnpinnedCdnVersion, Indicated, NoScript, FailIf, Requires, CheckOf
  <2> QED  BY <2>2 DEF DepChecks
<1> QED  BY ONLY c \in DepChecks(e), <1>5, <1>6, <1>7, <1>8 DEF DepChecks

\* The handshake with the site with deviations D.
TlsOf(D) == IF "http" \in D THEN None ELSE Certificate(Site(D))

LEMMA CertificateIs ==
    ASSUME NEW D, NEW x, x = Certificate(Site(D))
    PROVE  /\ x.verified <=> "cert_bad" \notin D
           /\ "cert_bad" \notin D =>
                  /\ x.hoursLeft = 24 * (IF "cert_soon" \in D THEN 10 ELSE 90)
                  /\ x.validity = IF "cert_long" \in D THEN 825 ELSE 90
                  /\ x.protocol = IF "protocol_weak" \in D THEN "weak" ELSE "modern"
                  /\ x.cipher = IF "cipher_weak" \in D THEN "weak" ELSE "strong"
<1>1. PICK y : y = Site(D).cert
  OBVIOUS
<1>2. y = [verified |-> "cert_bad" \notin D,
           hoursLeft |-> 24 * (IF "cert_soon" \in D THEN 10 ELSE 90),
           validity |-> IF "cert_long" \in D THEN 825 ELSE 90,
           protocol |-> IF "protocol_weak" \in D THEN "weak" ELSE "modern",
           cipher |-> IF "cipher_weak" \in D THEN "weak" ELSE "strong"]
  BY <1>1 DEF Site
<1>3. x = IF y.verified THEN y ELSE [verified |-> FALSE]
  BY <1>1 DEF Certificate
<1>4. CASE "cert_bad" \in D
  <2>1. y.verified = FALSE
    BY <1>2, <1>4
  <2>2. x = [verified |-> FALSE]
    BY <1>3, <2>1
  <2>3. x.verified = FALSE
    BY ONLY <2>2
  <2> QED  BY ONLY <1>4, <2>3
<1>5. CASE "cert_bad" \notin D
  <2>1. y.verified = TRUE
    BY <1>2, <1>5
  <2>2. x = y
    BY <1>3, <2>1
  <2> QED  BY ONLY <1>2, <1>5, <2>2
<1> QED  BY <1>4, <1>5

\* What was wrong with a certificate stays so, unless no certificate is seen.
CertificateWorse(h, k, d) ==
    /\ ~h.verified => ~k.verified
    /\ h.verified => k.verified \/ d = "cert_bad"
    /\ h.verified => h.hoursLeft > 0
    /\ h.verified /\ k.verified =>
           /\ h.hoursLeft \div 24 <= 14 => k.hoursLeft \div 24 <= 14
           /\ ~(h.validity <= 398) => ~(k.validity <= 398)
           /\ h.protocol = "weak" => k.protocol = "weak"
           /\ h.cipher = "weak" => k.cipher = "weak"

LEMMA CertificateWorsens ==
    ASSUME NEW D, NEW d, NEW W, W = D \cup {d}, NEW h, h = Certificate(Site(D)), NEW k, k = Certificate(Site(W))
    PROVE  CertificateWorse(h, k, d)
<1>1. /\ \A x \in D : x \in W
      /\ \A x \in W : x \in D \/ x = d
  OBVIOUS
<1>2. /\ h.verified <=> "cert_bad" \notin D
      /\ "cert_bad" \notin D =>
             /\ h.hoursLeft = 24 * (IF "cert_soon" \in D THEN 10 ELSE 90)
             /\ h.validity = IF "cert_long" \in D THEN 825 ELSE 90
             /\ h.protocol = IF "protocol_weak" \in D THEN "weak" ELSE "modern"
             /\ h.cipher = IF "cipher_weak" \in D THEN "weak" ELSE "strong"
  BY ONLY h = Certificate(Site(D)), CertificateIs
<1>3. /\ k.verified <=> "cert_bad" \notin W
      /\ "cert_bad" \notin W =>
             /\ k.hoursLeft = 24 * (IF "cert_soon" \in W THEN 10 ELSE 90)
             /\ k.validity = IF "cert_long" \in W THEN 825 ELSE 90
             /\ k.protocol = IF "protocol_weak" \in W THEN "weak" ELSE "modern"
             /\ k.cipher = IF "cipher_weak" \in W THEN "weak" ELSE "strong"
  BY ONLY k = Certificate(Site(W)), CertificateIs
<1>4. /\ ~h.verified => ~k.verified
      /\ h.verified => k.verified \/ d = "cert_bad"
  BY ONLY <1>1, <1>2, <1>3
<1>5. h.verified => h.hoursLeft = 240 \/ h.hoursLeft = 2160
  BY ONLY <1>2
<1>6. ASSUME h.verified, k.verified
      PROVE  /\ h.hoursLeft \div 24 <= 14 => k.hoursLeft \div 24 <= 14
             /\ ~(h.validity <= 398) => ~(k.validity <= 398)
             /\ h.protocol = "weak" => k.protocol = "weak"
             /\ h.cipher = "weak" => k.cipher = "weak"
  <2>1. /\ h.hoursLeft = (IF "cert_soon" \in D THEN 240 ELSE 2160)
        /\ k.hoursLeft = (IF "cert_soon" \in W THEN 240 ELSE 2160)
    BY ONLY <1>2, <1>3, <1>6
  <2>2. 240 \div 24 = 10 /\ 2160 \div 24 = 90
    OBVIOUS
  <2>3. h.hoursLeft \div 24 <= 14 => k.hoursLeft \div 24 <= 14
    BY ONLY <1>1, <2>1, <2>2
  <2>4. ~(h.validity <= 398) => ~(k.validity <= 398)
    BY ONLY <1>1, <1>2, <1>3, <1>6
  <2>5. /\ h.protocol = "weak" => k.protocol = "weak"
        /\ h.cipher = "weak" => k.cipher = "weak"
    BY ONLY <1>1, <1>2, <1>3, <1>6
  <2> QED  BY <2>3, <2>4, <2>5
<1> QED  BY <1>4, <1>5, <1>6 DEF CertificateWorse

\* A plain-http site has no handshake to judge, and an unverified one has no
\* certificate; a page without a body has no mixed content.
LEMMA TlsStays ==
    ASSUME NEW D, NEW d, NEW W, W = D \cup {d}, NEW e, PageOf(e.http, D), NEW f, PageOf(f.http, W), f.http # None,
           e.tls = TlsOf(D), f.tls = TlsOf(W), Certificate(Site(W)) # None, e.age = 0,
           NEW c \in TlsChecks(e), c.verdict = "failed"
    PROVE  \/ c \in TlsChecks(f)
           \/ d = "http" /\ c.id \in CertificateChecks \cup {"TLS-002", "TLS-006"}
           \/ d = "cert_bad" /\ c.id \in CertificateChecks
           \/ d = "no_location" /\ c.id = "TLS-006"
<1>1. PICK h : h = e.http
  OBVIOUS
<1>2. PICK k : k = f.http
  OBVIOUS
<1>3. PageOf(h, D) /\ PageOf(k, W) /\ k # None
  BY <1>1, <1>2
<1>4. HeadersWorse(h, k, d)
  BY ONLY W = D \cup {d}, <1>3, HeadersWorsen
<1>5. BodyWorse(h, k, d)
  BY ONLY W = D \cup {d}, <1>3, BodyWorsens
<1>6. PICK x : x = Certificate(Site(D))
  OBVIOUS
<1>7. PICK y : y = Certificate(Site(W))
  OBVIOUS
<1>8. CertificateWorse(x, y, d)
  BY ONLY W = D \cup {d}, <1>6, <1>7, CertificateWorsens
<1>9. CASE c = HttpsEnforced(e)
  <2>1. ~h.https => ~k.https
    BY ONLY <1>4 DEF HeadersWorse
  <2>2. c = HttpsEnforced(f)
    BY ONLY c.verdict = "failed", <1>1, <1>2, <1>3, <1>9, <2>1
    DEF HttpsEnforced, Confirmed, PassIf, Requires, CheckOf
  <2> QED  BY <2>2 DEF TlsChecks
<1>10. CASE c = NoMixedContent(e)
  <2>1. h.https => k.https \/ d = "http"
    BY ONLY <1>4 DEF HeadersWorse
  <2>2. "mixed_content" \in h.body => "mixed_content" \in k.body \/ d = "no_location"
    BY ONLY <1>5 DEF BodyWorse
  <2>3. c = NoMixedContent(f) \/ (d \in {"http", "no_location"} /\ c.id = "TLS-006")
    BY ONLY c.verdict = "failed", <1>1, <1>2, <1>3, <1>10, <2>1, <2>2
    DEF NoMixedContent, Indicated, FailIf, Requires, CheckOf
  <2> QED  BY <2>3 DEF TlsChecks
<1>11. ASSUME e.tls # None
       PROVE  /\ e.tls = x
              /\ (f.tls = y /\ y # None) \/ d = "http"
  BY <1>6, <1>7, <1>11 DEF TlsOf
<1>12. CASE c = HandshakeVerifies(e)
  <2>1. e.tls # None /\ ~e.tls.verified
    BY <1>12 DEF HandshakeVerifies, Confirmed, PassIf, Requires, CheckOf
  <2>2. ~x.verified /\ ~y.verified
    BY <1>8, <1>11, <2>1 DEF CertificateWorse
  <2>3. c = HandshakeVerifies(f) \/ (d = "http" /\ c.id = "TLS-002")
    BY ONLY c.verdict = "failed", <1>11, <1>12, <2>1, <2>2 DEF HandshakeVerifies, Confirmed, PassIf, Requires, CheckOf
  <2> QED  BY <2>3 DEF TlsChecks
<1>13. CASE c = CertNotExpired(e)
  <2>1. e.tls # None /\ e.tls.verified /\ ~(e.tls.hoursLeft > 0)
    BY <1>13 DEF CertNotExpired, Confirmed, PassIf, WithCertificate, Requires, CheckOf
  <2> QED  BY <1>8, <1>11, <2>1 DEF CertificateWorse
<1>14. CASE c = CertNotExpiringSoon(e)
  <2>1. e.tls # None /\ e.tls.verified /\ e.tls.hoursLeft \div 24 <= 14
    BY <1>14 DEF CertNotExpiringSoon, Confirmed, FailIf, WithCertificate, Requires, CheckOf
  <2>2. (y.verified /\ y.hoursLeft \div 24 <= 14) \/ d = "cert_bad"
    BY <1>8, <1>11, <2>1 DEF CertificateWorse
  <2>3. c.id \in CertificateChecks
    BY <1>14 DEF CertNotExpiringSoon, Confirmed, CheckOf, CertificateChecks
  <2>4. c = CertNotExpiringSoon(f) \/ (d \in {"http", "cert_bad"})
    BY ONLY c.verdict = "failed", <1>11, <1>14, <2>1, <2>2
    DEF CertNotExpiringSoon, Confirmed, FailIf, WithCertificate, Requires, CheckOf
  <2> QED  BY <2>3, <2>4 DEF TlsChecks
<1>15. CASE c = ProtocolVersionModern(e)
  <2>1. e.tls # None /\ e.tls.verified /\ e.tls.protocol = "weak"
    BY <1>15 DEF ProtocolVersionModern, Confirmed, FailIf, WithCertificate, Requires, CheckOf
  <2>2. (y.verified /\ y.protocol = "weak") \/ d = "cert_bad"
    BY <1>8, <1>11, <2>1 DEF CertificateWorse
  <2>3. c.id \in CertificateChecks
    BY <1>15 DEF ProtocolVersionModern, Confirmed, CheckOf, CertificateChecks
  <2>4. c = ProtocolVersionModern(f) \/ (d \in {"http", "cert_bad"})
    BY ONLY c.verdict = "failed", <1>11, <1>15, <2>1, <2>2
    DEF ProtocolVersionModern, Confirmed, FailIf, WithCertificate, Requires, CheckOf
  <2> QED  BY <2>3, <2>4 DEF TlsChecks
<1>16. CASE c = CertValidityWindow(e)
  <2>1. e.tls # None /\ e.tls.verified /\ ~(e.tls.validity <= 398)
    BY <1>16 DEF CertValidityWindow, Confirmed, PassIf, WithCertificate, Requires, CheckOf
  <2>2. (y.verified /\ ~(y.validity <= 398)) \/ d = "cert_bad"
    BY <1>8, <1>11, <2>1 DEF CertificateWorse
  <2>3. c.id \in CertificateChecks
    BY <1>16 DEF CertValidityWindow, Confirmed, CheckOf, CertificateChecks
  <2>4. c = CertValidityWindow(f) \/ (d \in {"http", "cert_bad"})
    BY ONLY c.verdict = "failed", <1>11, <1>16, <2>1, <2>2
    DEF CertValidityWindow, Confirmed, PassIf, WithCertificate, Requires, CheckOf
  <2> QED  BY <2>3, <2>4 DEF TlsChecks
<1>17. CASE c = NoWeakCipher(e)
  <2>1. e.tls # None /\ e.tls.verified /\ e.tls.cipher = "weak"
    BY <1>17 DEF NoWeakCipher, Confirmed, FailIf, WithCertificate, Requires, CheckOf
  <2>2. (y.verified /\ y.cipher = "weak") \/ d = "cert_bad"
    BY <1>8, <1>11, <2>1 DEF CertificateWorse
  <2>3. c.id \in CertificateChecks
    BY <1>17 DEF NoWeakCipher, Confirmed, CheckOf, CertificateChecks
  <2>4. c = NoWeakCipher(f) \/ (d \in {"http", "cert_bad"})
    BY ONLY c.verdict = "failed", <1>11, <1>17, <2>1, <2>2
    DEF NoWeakCipher, Confirmed, FailIf, WithCertificate, Requires, CheckOf
  <2> QED  BY <2>3, <2>4 DEF TlsChecks
<1> QED  BY ONLY c \in TlsChecks(e), <1>9, <1>10, <1>12, <1>13, <1>14, <1>15, <1>16, <1>17 DEF TlsChecks

\* The files and the hidden paths that the site with deviations D serves.
FilesOf(D) == {f \in Range(WellKnownFiles) : FileServed(Site(D), f)}
HiddenOf(D) == {k \in Range(Candidates) : HiddenServed(Site(D), k)}

LEMMA ServedOf ==
    ASSUME NEW D
    PROVE  /\ "security_txt" \in FilesOf(D) <=>
                  "path_redirect" \notin D /\ "redirected" \notin D /\ "no_security_txt" \notin D
           /\ \A x : x \in HiddenOf(D) <=>
                  /\ "path_redirect" \notin D /\ "redirected" \notin D
                  /\ x \in Range(Candidates) /\ x \in D /\ x \in HiddenKinds
<1>1. PICK s : s = Site(D)
  OBVIOUS
<1>2. /\ s.hops = IF "path_redirect" \in D THEN Endless ELSE IF "redirected" \in D THEN 1 ELSE 0
      /\ s.files = {"robots_txt"} \cup Unless(D, "no_security_txt", {"security_txt"})
      /\ s.hidden = D \cap HiddenKinds
  BY <1>1 DEF Site
<1>3. s.hops = 0 <=> "path_redirect" \notin D /\ "redirected" \notin D
  BY ONLY <1>2 DEF Endless
<1>4. "security_txt" \in s.files <=> "no_security_txt" \notin D
  BY ONLY <1>2 DEF Unless
<1>5. "security_txt" \in Range(WellKnownFiles)
  <2>1. WellKnownFiles[1] = "security_txt" /\ 1 \in DOMAIN WellKnownFiles
    BY DEF WellKnownFiles
  <2> QED  BY <2>1 DEF Range
<1>6. FilesOf(D) = {f \in Range(WellKnownFiles) : s.hops = 0 /\ f \in s.files}
  BY <1>1 DEF FilesOf, FileServed
<1>7. HiddenOf(D) = {k \in Range(Candidates) : s.hops = 0 /\ k \in s.hidden}
  BY <1>1 DEF HiddenOf, HiddenServed
<1>8. "security_txt" \in FilesOf(D) <=> s.hops = 0 /\ "security_txt" \in s.files
  BY ONLY <1>5, <1>6
<1>9. ASSUME NEW x
      PROVE  x \in HiddenOf(D) <=> x \in Range(Candidates) /\ s.hops = 0 /\ x \in D /\ x \in HiddenKinds
  BY ONLY <1>2, <1>7
<1> QED  BY ONLY <1>3, <1>4, <1>8, <1>9

\* A missing file stays missing, and a hidden path that is served stays so,
\* unless the site redirects.
LEMMA ExpStays ==
    ASSUME NEW D, NEW d, NEW W, W = D \cup {d}, NEW e, PageOf(e.http, D), NEW f, PageOf(f.http, W), f.http # None,
           d # "no_location", d # "path_redirect", "path_redirect" \notin D,
           e.wellknown = FilesOf(D), f.wellknown = FilesOf(W), f.wellknown # None,
           e.paths # None => e.paths = HiddenOf(D) /\ f.paths = HiddenOf(W) /\ f.paths # None,
           NEW c \in ExpChecks(e), c.verdict = "failed"
    PROVE  \/ c \in ExpChecks(f)
           \/ d = "redirected" /\ c \in HiddenChecks(e)
<1>1. PICK h : h = e.http
  OBVIOUS
<1>2. PICK k : k = f.http
  OBVIOUS
<1>3. PageOf(h, D) /\ PageOf(k, W) /\ k # None
  BY <1>1, <1>2
<1>4. BodyWorse(h, k, d)
  BY ONLY W = D \cup {d}, <1>3, BodyWorsens
<1>5. CASE c = SecurityTxtPresent(e)
  <2>1. "security_txt" \notin e.wellknown
    BY <1>5 DEF SecurityTxtPresent, Confirmed, PassIf, Requires, CheckOf
  <2>2. "path_redirect" \in D \/ "redirected" \in D \/ "no_security_txt" \in D
    BY <2>1, ServedOf
  <2>3. "path_redirect" \in W \/ "redirected" \in W \/ "no_security_txt" \in W
    BY <2>2
  <2>4. "security_txt" \notin FilesOf(W)
    BY ONLY <2>3, ServedOf
  <2>5. c = SecurityTxtPresent(f)
    BY <1>5, <2>4 DEF SecurityTxtPresent, Confirmed, PassIf, Requires, CheckOf
  <2> QED  BY <2>5 DEF ExpChecks
<1>6. CASE c \in {RobotsTxtPresent(e), SitemapPresent(e), ManifestPresent(e)}
  BY <1>6 DEF RobotsTxtPresent, SitemapPresent, ManifestPresent, Informational, Requires, Confirmed, CheckOf
<1>7. CASE c = NoVerboseErrorPage(e)
  <2>1. "stack_trace" \in h.body => "stack_trace" \in k.body
    BY ONLY <1>4, d # "no_location" DEF BodyWorse
  <2>2. c = NoVerboseErrorPage(f)
    BY ONLY c.verdict = "failed", <1>1, <1>2, <1>3, <1>7, <2>1
    DEF NoVerboseErrorPage, Confirmed, FailIf, Requires, CheckOf
  <2> QED  BY <2>2 DEF ExpChecks
<1>8. CASE c \in HiddenChecks(e)
  <2>1. CASE d = "redirected"
    BY <1>8, <2>1
  <2>2. CASE d # "redirected"
    <3>1. HiddenOf(D) \subseteq HiddenOf(W)
      <4>1. ASSUME NEW x \in HiddenOf(D) PROVE x \in HiddenOf(W)
        <5>1. /\ "redirected" \notin D /\ x \in Range(Candidates) /\ x \in D /\ x \in HiddenKinds
          BY ONLY <4>1, ServedOf
        <5>2. "path_redirect" \notin W /\ "redirected" \notin W /\ x \in W
          BY <2>2, <5>1
        <5> QED  BY ONLY <5>1, <5>2, ServedOf
      <4> QED  BY <4>1
    <3>2. e.paths # None => f.paths # None /\ e.paths \subseteq f.paths
      BY <3>1
    <3>3. c \in HiddenChecks(f)
      BY ONLY <1>8, <3>2, c.verdict = "failed", HiddenJustified
    <3> QED  BY <3>3 DEF ExpChecks, HiddenChecks
  <2> QED  BY <2>1, <2>2
<1> QED  BY ONLY c \in ExpChecks(e), <1>5, <1>6, <1>7, <1>8 DEF ExpChecks, HiddenChecks

\* The scripts fetched from the site with deviations D.
UrlsOf(D) == Range(ScriptUrls(Site(D)))
BundleOf(D) == {Fetched(Site(D), u) : u \in UrlsOf(D)}

LEMMA FetchedOf ==
    ASSUME NEW D, NEW u \in UrlsOf(D), NEW x, x = Fetched(Site(D), u)
    PROVE  /\ x.url = u
           /\ x.excerpt = ScriptText(D, u)
           /\ x.console = ConsoleCalls(D, u)
<1>1. Site(D).text[u] = ScriptText(D, u) /\ Site(D).console[u] = ConsoleCalls(D, u)
  BY UrlsOfSite DEF UrlsOf
<1> QED  BY <1>1 DEF Fetched

\* The same scripts are fetched of two sites that differ in neither the number
\* of tags nor the page's presence.
LEMMA SameUrls ==
    ASSUME NEW D, NEW W, "many_scripts" \in D <=> "many_scripts" \in W, "no_location" \in D <=> "no_location" \in W
    PROVE  UrlsOf(D) = UrlsOf(W)
<1>1. TagUrls(D) = TagUrls(W)
  BY DEF TagUrls
<1>2. ASSUME NEW S
      PROVE  ScriptUrls(Site(S)) = IF "no_location" \in S THEN <<>>
                                   ELSE SubSeq(TagUrls(S), 1, Min({MaxScripts, Len(TagUrls(S))}))
  <2>1. PICK s : s = Site(S)
    OBVIOUS
  <2>2. s.location = ("no_location" \notin S) /\ s.scripts = ScriptTags(S)
    BY <2>1 DEF Site
  <2>3. PICK q : q = TagUrls(S)
    OBVIOUS
  <2>4. PICK tags : tags = ScriptTags(S)
    OBVIOUS
  <2>5. q \in Seq(Nat) /\ tags = [i \in DOMAIN q |-> Tag(S, q[i])]
    BY <2>3, <2>4, TagsAre
  <2>6. [i \in DOMAIN tags |-> tags[i].url] = q
    <3>1. DOMAIN tags = DOMAIN q /\ \A i \in DOMAIN q : tags[i].url = q[i]
      BY <2>5 DEF Tag
    <3>2. q = [i \in DOMAIN q |-> q[i]]
      BY <2>5
    <3> QED  BY ONLY <3>1, <3>2
  <2>7. Len(tags) = Len(q)
    <3>1. DOMAIN tags = 1 .. Len(q) /\ Len(q) \in Nat
      BY <2>5
    <3> QED  BY <2>5, <3>1
  <2>8. ScriptUrls(s) = IF "no_location" \in S THEN <<>> ELSE SubSeq(q, 1, Min({MaxScripts, Len(q)}))
    BY <2>2, <2>4, <2>6, <2>7 DEF ScriptUrls
  <2> QED  BY <2>1, <2>3, <2>8
<1> QED  BY <1>1, <1>2 DEF UrlsOf

LEMMA UrlsFinite == ASSUME NEW D PROVE IsFiniteSet(UrlsOf(D))
<1>1. PICK q : q = ScriptUrls(Site(D))
  OBVIOUS
<1>2. q \in Seq(Nat)
  BY <1>1, UrlsOfSite
<1>3. DOMAIN q = 1 .. Len(q) /\ Len(q) \in Nat
  BY <1>2
<1>4. IsFiniteSet(DOMAIN q)
  BY <1>3, FS_Interval
<1>5. q \in [DOMAIN q -> Range(q)]
  BY <1>2, <1>3, ListIsOfItsRange
<1>6. \A y \in Range(q) : \E i \in DOMAIN q : q[i] = y
  BY DEF Range
<1>7. IsFiniteSet(Range(q))
  BY <1>4, <1>5, <1>6, ImageFinite
<1> QED  BY <1>1, <1>7 DEF UrlsOf

\* What is found in the fetched scripts.
LEMMA TextOfScripts ==
    ASSUME NEW D, NEW x
    PROVE  x \in AllScriptText(BundleOf(D)) <=> \E u \in UrlsOf(D) : x \in ScriptText(D, u)
<1>1. x \in AllScriptText(BundleOf(D)) <=> \E u \in UrlsOf(D) : x \in Fetched(Site(D), u).excerpt
  BY DEF AllScriptText, BundleOf
<1>2. ASSUME NEW u \in UrlsOf(D) PROVE Fetched(Site(D), u).excerpt = ScriptText(D, u)
  BY FetchedOf
<1> QED  BY <1>1, <1>2

LEMMA ScriptTextGrows ==
    ASSUME NEW D, NEW W, D \subseteq W, NEW u
    PROVE  ScriptText(D, u) \subseteq ScriptText(W, u)
BY DEF ScriptText, Given, Widget, App

\* The console calls of the fetched scripts, as a sum over their URLs.
CallsOf(D) == [u \in UrlsOf(D) |-> ConsoleCalls(D, u)]

LEMMA ConsolesOf ==
    ASSUME NEW D
    PROVE  /\ Consoles(BundleOf(D)) = Total(CallsOf(D), UrlsOf(D))
           /\ CallsOf(D) \in [UrlsOf(D) -> Nat]
           /\ IsFiniteSet(UrlsOf(D))
<1>0. PICK U : U = UrlsOf(D)
  OBVIOUS
<1>w. PICK w : w = CallsOf(D)
  OBVIOUS
<1> DEFINE F == [u \in U |-> Fetched(Site(D), u)]
           B == {F[u] : u \in U}
           v == [f \in B |-> f.console]
<1>1. IsFiniteSet(U)
  BY <1>0, UrlsFinite
<1>2. BundleOf(D) = B
  BY <1>0 DEF BundleOf
<1>3. F \in [U -> B] /\ \A y \in B : \E u \in U : F[u] = y
  OBVIOUS
<1>4. ASSUME NEW u \in U PROVE F[u].url = u /\ F[u].console = ConsoleCalls(D, u)
  BY <1>0, FetchedOf
<1>5. w = [u \in U |-> ConsoleCalls(D, u)] /\ w \in [U -> Nat]
  BY <1>0, <1>w DEF CallsOf, ConsoleCalls
<1>6. \A u \in U : w[u] = ConsoleCalls(D, u)
  BY <1>5
<1> HIDE DEF F
<1>7. v \in [B -> Nat]
  BY <1>4, <1>5, <1>6
<1>8. \A u \in U : v[F[u]] = w[u]
  BY <1>4, <1>6
<1>9. \A u \in U, y \in U : F[u] = F[y] => u = y
  BY <1>4
<1>10. Consoles(B) = Total(v, B) /\ IsFiniteSet(B)
  <2>1. IsFiniteSet(B)
    <3> HIDE DEF B
    <3> QED  BY <1>1, <1>3, ImageFinite
  <2> HIDE DEF B
  <2> QED  BY <2>1, ConsolesAreATotal
<1>11. Total(v, B) = Total(w, U)
  <2>1. PICK x : x = v
    OBVIOUS
  <2>2. PICK T : T = B
    OBVIOUS
  <2>3. PICK G : G = F
    OBVIOUS
  <2>4. /\ x \in [T -> Nat] /\ IsFiniteSet(T) /\ IsFiniteSet(U) /\ G \in [U -> T]
        /\ \A u \in U, y \in U : G[u] = G[y] => u = y
    BY ONLY <1>1, <1>3, <1>7, <1>9, <1>10, <2>1, <2>2, <2>3
  <2>5. Total(x, {G[u] : u \in U}) = Total([u \in U |-> x[G[u]]], U)
    BY ONLY <2>4, TotalOfImage
  <2>6. {G[u] : u \in U} = T
    BY <2>2, <2>3
  <2>7. [u \in U |-> x[G[u]]] = w
    <3>1. \A u \in U : x[G[u]] = w[u]
      BY <1>8, <2>1, <2>3
    <3> QED  BY ONLY <1>5, <3>1
  <2> QED  BY ONLY <2>1, <2>2, <2>5, <2>6, <2>7
<1> QED  BY <1>0, <1>w, <1>1, <1>2, <1>5, <1>10, <1>11

LEMMA ConsolesGrow ==
    ASSUME NEW D, NEW W, D \subseteq W, UrlsOf(D) = UrlsOf(W)
    PROVE  /\ Consoles(BundleOf(D)) \in Nat /\ Consoles(BundleOf(W)) \in Nat
           /\ Consoles(BundleOf(D)) <= Consoles(BundleOf(W))
<1>1. PICK U : U = UrlsOf(D)
  OBVIOUS
<1>2. PICK v : v = CallsOf(D)
  OBVIOUS
<1>3. PICK w : w = CallsOf(W)
  OBVIOUS
<1>4. Consoles(BundleOf(D)) = Total(v, U) /\ v \in [U -> Nat] /\ IsFiniteSet(U)
  BY ONLY <1>1, <1>2, ConsolesOf
<1>5. Consoles(BundleOf(W)) = Total(w, U) /\ w \in [U -> Nat]
  BY ONLY <1>1, <1>3, UrlsOf(D) = UrlsOf(W), ConsolesOf
<1>6. \A u \in U : v[u] <= w[u]
  BY <1>1, <1>2, <1>3 DEF CallsOf, ConsoleCalls
<1>7. Total(v, U) <= Total(w, U)
  BY ONLY <1>4, <1>5, <1>6, TotalLess
<1>8. Total(v, U) \in Nat /\ Total(w, U) \in Nat
  BY ONLY <1>4, <1>5, TotalType
<1> QED  BY <1>4, <1>5, <1>7, <1>8

\* A secret stays in the scripts, unless the first of many others are fetched
\* in their place.
LEMMA CliStays ==
    ASSUME NEW D, NEW d, NEW W, W = D \cup {d}, d \notin {"no_location", "many_scripts"},
           NEW e, e.bundle = BundleOf(D), NEW f, f.bundle = BundleOf(W), f.bundle # None,
           NEW c \in CliChecks(e), c.verdict = "failed"
    PROVE  c \in CliChecks(f)
<1>1. D \subseteq W /\ ("many_scripts" \in D <=> "many_scripts" \in W) /\ ("no_location" \in D <=> "no_location" \in W)
  OBVIOUS
<1>2. UrlsOf(D) = UrlsOf(W)
  BY ONLY <1>1, SameUrls
<1>3. AllScriptText(BundleOf(D)) \subseteq AllScriptText(BundleOf(W))
  <2>1. ASSUME NEW x \in AllScriptText(BundleOf(D)) PROVE x \in AllScriptText(BundleOf(W))
    <3>1. PICK u \in UrlsOf(D) : x \in ScriptText(D, u)
      BY ONLY <2>1, TextOfScripts
    <3>2. u \in UrlsOf(W) /\ x \in ScriptText(W, u)
      BY ONLY <1>1, <1>2, <3>1, ScriptTextGrows
    <3> QED  BY ONLY <3>2, TextOfScripts
  <2> QED  BY <2>1
<1>4. /\ Consoles(BundleOf(D)) \in Nat /\ Consoles(BundleOf(W)) \in Nat
      /\ Consoles(BundleOf(D)) <= Consoles(BundleOf(W))
  BY ONLY <1>1, <1>2, ConsolesGrow
<1>5. /\ AllScriptText(e.bundle) \subseteq AllScriptText(f.bundle)
      /\ Consoles(e.bundle) \in Nat /\ Consoles(f.bundle) \in Nat
      /\ Consoles(e.bundle) <= Consoles(f.bundle)
  BY <1>3, <1>4
<1> QED  BY ONLY <1>5, f.bundle # None, c \in CliChecks(e), c.verdict = "failed", CliJustified

\* What points at a backend.
Pointers == {"supabase_url", "firebase_url", "s3_url", "gcs_url", "jwt_service", "jwt_anon"}

LEMMA DetectedByPointers == ASSUME NEW text PROVE Detected(text) = Detected(text \cap Pointers)
<1>1. PICK t : t = text \cap Pointers
  OBVIOUS
<1>2. \A x \in Pointers : x \in t <=> x \in text
  BY <1>1
<1>3. /\ "supabase_url" \in t <=> "supabase_url" \in text
      /\ "firebase_url" \in t <=> "firebase_url" \in text
      /\ "s3_url" \in t <=> "s3_url" \in text
      /\ "gcs_url" \in t <=> "gcs_url" \in text
      /\ "jwt_service" \in t <=> "jwt_service" \in text
      /\ "jwt_anon" \in t <=> "jwt_anon" \in text
  BY ONLY <1>2 DEF Pointers
<1>4. SupabaseRole(t) = SupabaseRole(text)
  BY ONLY <1>3 DEF SupabaseRole
<1>5. /\ Pointed(t, "supabase", "supabase_url", SupabaseRole(t))
             = Pointed(text, "supabase", "supabase_url", SupabaseRole(text))
      /\ Pointed(t, "firebase", "firebase_url", "") = Pointed(text, "firebase", "firebase_url", "")
      /\ Pointed(t, "s3", "s3_url", "") = Pointed(text, "s3", "s3_url", "")
      /\ Pointed(t, "gcs", "gcs_url", "") = Pointed(text, "gcs", "gcs_url", "")
  BY ONLY <1>3, <1>4 DEF Pointed
<1>6. Detected(t) = Detected(text)
  BY ONLY <1>5 DEF Detected
<1> QED  BY ONLY <1>1, <1>6

LEMMA NoPointerOnPage == ASSUME NEW D, NEW h, PageOf(h, D), NEW x \in Pointers PROVE x \notin h.body
<1>1. h.body = IF "no_location" \in D THEN {} ELSE TopOfPage(D) \cup Unless(D, "long_page", Foot(D))
  BY DEF PageOf
<1>2. x \notin TopOfPage(D)
  BY DEF TopOfPage, Pointers, Unless, Intrusions
<1>3. x \notin Foot(D)
  BY DEF Foot, Pointers, Unless
<1> QED  BY ONLY <1>1, <1>2, <1>3 DEF Unless

LEMMA ServiceKeyText ==
    ASSUME NEW D, NEW u
    PROVE  "jwt_service" \in ScriptText(D, u) <=> u = Widget /\ "service_key" \in D
BY DEF ScriptText, Given, Widget, App, Secrets

\* The text that is searched for backends.
TextOf(h, D) == h.body \cup AllScriptText(BundleOf(D))

\* The pointers in the text grow with the deviations, and only a deviation
\* adds the service-role key.
LEMMA PointersGrow ==
    ASSUME NEW D, NEW d, NEW W, W = D \cup {d}, d \notin {"no_location", "many_scripts"},
           NEW h, PageOf(h, D), NEW k, PageOf(k, W),
           NEW text, text = TextOf(h, D), NEW more, more = TextOf(k, W)
    PROVE  /\ (text \cap Pointers) \subseteq (more \cap Pointers)
           /\ "jwt_service" \in more => "jwt_service" \in text \/ d = "service_key"
<1>1. /\ D \subseteq W
      /\ ("many_scripts" \in D <=> "many_scripts" \in W) /\ ("no_location" \in D <=> "no_location" \in W)
      /\ "service_key" \in W => "service_key" \in D \/ d = "service_key"
  OBVIOUS
<1>2. UrlsOf(D) = UrlsOf(W)
  BY ONLY <1>1, SameUrls
<1>3. ASSUME NEW x \in Pointers
      PROVE  /\ x \in text <=> \E u \in UrlsOf(D) : x \in ScriptText(D, u)
             /\ x \in more <=> \E u \in UrlsOf(D) : x \in ScriptText(W, u)
  <2>1. x \notin h.body /\ x \notin k.body
    BY ONLY <1>3, PageOf(h, D), PageOf(k, W), NoPointerOnPage
  <2>2. x \in AllScriptText(BundleOf(D)) <=> \E u \in UrlsOf(D) : x \in ScriptText(D, u)
    BY ONLY TextOfScripts
  <2>3. x \in AllScriptText(BundleOf(W)) <=> \E u \in UrlsOf(W) : x \in ScriptText(W, u)
    BY ONLY TextOfScripts
  <2>4. x \in text <=> x \in AllScriptText(BundleOf(D))
    BY <2>1 DEF TextOf
  <2>5. x \in more <=> x \in AllScriptText(BundleOf(W))
    BY <2>1 DEF TextOf
  <2> QED  BY ONLY <1>2, <2>2, <2>3, <2>4, <2>5
<1>4. \A u : ScriptText(D, u) \subseteq ScriptText(W, u)
  BY ONLY <1>1, ScriptTextGrows
<1>5. "jwt_service" \in Pointers
  BY DEF Pointers
<1>6. (text \cap Pointers) \subseteq (more \cap Pointers)
  BY ONLY <1>3, <1>4
<1>7. "jwt_service" \in more => "jwt_service" \in text \/ d = "service_key"
  <2>1. ASSUME NEW u \in UrlsOf(D), "jwt_service" \in ScriptText(W, u), d # "service_key"
        PROVE  "jwt_service" \in ScriptText(D, u)
    BY ONLY <1>1, <2>1, ServiceKeyText
  <2> QED  BY ONLY <1>3, <1>5, <2>1
<1> QED  BY <1>6, <1>7

LEMMA OpenGrows == ASSUME NEW D, NEW W, D \subseteq W PROVE Site(D).open \subseteq Site(W).open
<1>1. ASSUME NEW S PROVE Site(S).open = OpenBackends(S)
  BY DEF Site
<1>2. OpenBackends(D) \subseteq OpenBackends(W)
  BY DEF OpenBackends, Given
<1> QED  BY <1>1, <1>2

LEMMA RoleOfDetected ==
    ASSUME NEW text, NEW s, NEW b \in Detected(text), NEW x, x = BackendServed(s, b), x.role # ""
    PROVE  x.role = SupabaseRole(text)
<1>1. x.role = b.role
  BY DEF BackendServed, Answered
<1>2. b.provider = "supabase" => b.role = SupabaseRole(text)
  BY ONLY b \in Detected(text), DetectedInText
<1>3. b.provider # "supabase" => b.role = ""
  BY ONLY b \in Detected(text), DetectedInText
<1> QED  BY <1>1, <1>2, <1>3

\* What the backends that the text points at answer.
AnswersTo(s, text) == {BackendServed(s, b) : b \in Detected(text)}
AnsweredBy(D, e) == e.backends = AnswersTo(Site(D), TextOf(e.http, D))

\* An open backend stays so, unless a service-role key hides the anon key.
LEMMA DatStays ==
    ASSUME NEW D, NEW d, NEW W, W = D \cup {d}, d \notin {"no_location", "many_scripts"},
           NEW e, PageOf(e.http, D), NEW f, PageOf(f.http, W), f.backends # None,
           AnsweredBy(D, e), AnsweredBy(W, f),
           NEW c \in DatChecks(e), c.verdict = "failed"
    PROVE  \/ c \in DatChecks(f)
           \/ d = "service_key" /\ c.id = "DAT-002"
<1>1. PICK text : text = TextOf(e.http, D)
  OBVIOUS
<1>2. PICK more : more = TextOf(f.http, W)
  OBVIOUS
<1>3. PICK h : h = e.http
  OBVIOUS
<1>4. PICK k : k = f.http
  OBVIOUS
<1>5. /\ (text \cap Pointers) \subseteq (more \cap Pointers)
      /\ "jwt_service" \in more => "jwt_service" \in text \/ d = "service_key"
  <2>1. /\ PageOf(h, D) /\ PageOf(k, W)
        /\ text = TextOf(h, D) /\ more = TextOf(k, W)
    BY <1>1, <1>2, <1>3, <1>4
  <2> QED  BY ONLY W = D \cup {d}, d \notin {"no_location", "many_scripts"}, <2>1, PointersGrow
<1>6. PICK s : s = Site(D)
  OBVIOUS
<1>7. PICK r : r = Site(W)
  OBVIOUS
<1>8. s.open \subseteq r.open
  BY <1>6, <1>7, OpenGrows
<1>9. e.backends = AnswersTo(s, text) /\ f.backends = AnswersTo(r, more)
  BY <1>1, <1>2, <1>6, <1>7 DEF AnsweredBy
<1>10. PICK t : t = text \cap Pointers
  OBVIOUS
<1>11. PICK m : m = more \cap Pointers
  OBVIOUS
<1>12. Detected(t) = Detected(text) /\ Detected(m) = Detected(more)
  BY ONLY <1>10, <1>11, DetectedByPointers
<1>13. \A x \in e.backends : \E b \in Detected(t) : x \in {BackendServed(s, b), Answered(b, FALSE, TRUE)}
  BY ONLY <1>9, <1>12 DEF AnswersTo
<1>14. \A b \in Detected(m) : BackendServed(r, b) \in f.backends
  BY ONLY <1>9, <1>12 DEF AnswersTo
<1>15. t \subseteq m
  BY ONLY <1>5, <1>10, <1>11
<1>16. \/ c \in DatChecks(f)
       \/ c.id = "DAT-002" /\ NoServiceRoleKeyExposed(f).verdict = "failed"
  BY ONLY <1>8, <1>13, <1>14, <1>15, f.backends # None, c \in DatChecks(e), c.verdict = "failed", DatJustified
<1>17. ASSUME c.id = "DAT-002", NoServiceRoleKeyExposed(f).verdict = "failed"
       PROVE  d = "service_key"
  <2>1. c = SupabaseSchemaNotIntrospectable(e)
    BY <1>17 DEF DatChecks, NoServiceRoleKeyExposed, SupabaseSchemaNotIntrospectable, FirebaseNotPubliclyReadable,
       NoPublicBucketListing, Confirmed, Indicated, CheckOf
  <2>2. PICK x \in e.backends : x.role = "anon"
    BY <2>1, c.verdict = "failed" DEF SupabaseSchemaNotIntrospectable, NoBackend, Requires, FailIf, Indicated, CheckOf
  <2>3. SupabaseRole(text) = "anon"
    <3>1. PICK b \in Detected(text) : x = BackendServed(s, b)
      BY ONLY <1>9, <2>2 DEF AnswersTo
    <3> QED  BY ONLY <2>2, <3>1, RoleOfDetected
  <2>4. PICK y \in f.backends : y.role = "service_role"
    BY <1>17 DEF NoServiceRoleKeyExposed, NoBackend, Requires, FailIf, Confirmed, CheckOf
  <2>5. SupabaseRole(more) = "service_role"
    <3>1. PICK b \in Detected(more) : y = BackendServed(r, b)
      BY ONLY <1>9, <2>4 DEF AnswersTo
    <3> QED  BY ONLY <2>4, <3>1, RoleOfDetected
  <2>6. "jwt_service" \notin text /\ "jwt_service" \in more
    BY ONLY <2>3, <2>5 DEF SupabaseRole
  <2> QED  BY ONLY <1>5, <2>6
<1> QED  BY <1>16, <1>17

(***************************************************************************)
(* The checks of a group have the same ids on any evidence.                *)
(***************************************************************************)
\* The checks over the conventional files and the error page.
FileChecks(e) ==
    {SecurityTxtPresent(e), RobotsTxtPresent(e), SitemapPresent(e), ManifestPresent(e), NoVerboseErrorPage(e)}

CmpIds == {"CMP-001", "CMP-002", "CMP-003", "CMP-004"}

LEMMA CmpChecksHaveIds ==
    ASSUME NEW e
    PROVE  /\ \A c \in CmpChecks(e) : c.id \in CmpIds
           /\ \A id \in CmpIds : \E c \in CmpChecks(e) : c.id = id
<1>1. /\ TrackerWithoutConsentLibrary(e).id = "CMP-001"
      /\ GaUsesConsentMode(e).id = "CMP-002"
      /\ NoPrecheckedMarketingCheckbox(e).id = "CMP-003"
      /\ ConsentNoticeReferencesPrivacyPolicy(e).id = "CMP-004"
  BY DEF Confirmed, Indicated, CheckOf, TrackerWithoutConsentLibrary, GaUsesConsentMode,
     NoPrecheckedMarketingCheckbox, ConsentNoticeReferencesPrivacyPolicy
<1> QED  BY <1>1 DEF CmpChecks, CmpIds

SesIds == {"SES-001", "SES-002", "SES-003", "SES-004", "SES-005", "SES-006"}

LEMMA SesChecksHaveIds ==
    ASSUME NEW e
    PROVE  /\ \A c \in SesChecks(e) : c.id \in SesIds
           /\ \A id \in SesIds : \E c \in SesChecks(e) : c.id = id
<1>1. /\ CookiesSecure(e).id = "SES-001"
      /\ CookiesHttpOnly(e).id = "SES-002"
      /\ CookiesSamesiteSet(e).id = "SES-003"
      /\ CookiesSamesiteNoneRequiresSecure(e).id = "SES-004"
      /\ NoSessionIdInUrl(e).id = "SES-005"
      /\ CookieLifetimeSane(e).id = "SES-006"
  BY DEF Confirmed, Indicated, CheckOf, CookiesSecure, CookiesHttpOnly, CookiesSamesiteSet,
     CookiesSamesiteNoneRequiresSecure, NoSessionIdInUrl, CookieLifetimeSane
<1> QED  BY <1>1 DEF SesChecks, SesIds

DepIds == {"DEP-001", "DEP-002", "DEP-003", "DEP-004"}

LEMMA DepChecksHaveIds ==
    ASSUME NEW e
    PROVE  /\ \A c \in DepChecks(e) : c.id \in DepIds
           /\ \A id \in DepIds : \E c \in DepChecks(e) : c.id = id
<1>1. /\ SriPresentOnThirdPartyScripts(e).id = "DEP-001"
      /\ NoKnownOldLibrary(e).id = "DEP-002"
      /\ BoundedThirdPartyOrigins(e).id = "DEP-003"
      /\ NoUnpinnedCdnVersion(e).id = "DEP-004"
  BY DEF Confirmed, Indicated, CheckOf, SriPresentOnThirdPartyScripts, NoKnownOldLibrary,
     BoundedThirdPartyOrigins, NoUnpinnedCdnVersion
<1> QED  BY <1>1 DEF DepChecks, DepIds

CliIds == {"CLI-001", "CLI-002", "CLI-003", "CLI-004", "CLI-005", "CLI-006", "CLI-007", "CLI-008", "CLI-009", "CLI-010"}

LEMMA CliChecksHaveIds ==
    ASSUME NEW e
    PROVE  /\ \A c \in CliChecks(e) : c.id \in CliIds
           /\ \A id \in CliIds : \E c \in CliChecks(e) : c.id = id
<1>1. /\ NoAwsKey(e).id = "CLI-001"
      /\ NoStripeSecret(e).id = "CLI-002"
      /\ NoSlackToken(e).id = "CLI-003"
      /\ NoGithubGitlabToken(e).id = "CLI-004"
      /\ NoPrivateKeyBlock(e).id = "CLI-005"
      /\ NoGenericSecret(e).id = "CLI-006"
      /\ NoSourceMapComment(e).id = "CLI-007"
      /\ NoDevBuildMarker(e).id = "CLI-008"
      /\ BoundedConsoleCalls(e).id = "CLI-009"
      /\ NoHardcodedInternalHostname(e).id = "CLI-010"
  BY DEF Confirmed, Indicated, CheckOf, NoAwsKey, NoStripeSecret, NoSlackToken, NoGithubGitlabToken,
     NoPrivateKeyBlock, NoGenericSecret, NoSourceMapComment, NoDevBuildMarker, BoundedConsoleCalls,
     NoHardcodedInternalHostname
<1> QED  BY <1>1 DEF CliChecks, CliIds

DatIds == {"DAT-001", "DAT-002", "DAT-003", "DAT-004"}

LEMMA DatChecksHaveIds ==
    ASSUME NEW e
    PROVE  /\ \A c \in DatChecks(e) : c.id \in DatIds
           /\ \A id \in DatIds : \E c \in DatChecks(e) : c.id = id
<1>1. /\ NoServiceRoleKeyExposed(e).id = "DAT-001"
      /\ SupabaseSchemaNotIntrospectable(e).id = "DAT-002"
      /\ FirebaseNotPubliclyReadable(e).id = "DAT-003"
      /\ NoPublicBucketListing(e).id = "DAT-004"
  BY DEF Confirmed, Indicated, CheckOf, NoServiceRoleKeyExposed, SupabaseSchemaNotIntrospectable,
     FirebaseNotPubliclyReadable, NoPublicBucketListing
<1> QED  BY <1>1 DEF DatChecks, DatIds

FileIds == {"EXP-001", "EXP-002", "EXP-003", "EXP-004", "EXP-005"}

LEMMA FileChecksHaveIds ==
    ASSUME NEW e
    PROVE  /\ \A c \in FileChecks(e) : c.id \in FileIds
           /\ \A id \in FileIds : \E c \in FileChecks(e) : c.id = id
<1>1. /\ SecurityTxtPresent(e).id = "EXP-001"
      /\ RobotsTxtPresent(e).id = "EXP-002"
      /\ SitemapPresent(e).id = "EXP-003"
      /\ ManifestPresent(e).id = "EXP-004"
      /\ NoVerboseErrorPage(e).id = "EXP-005"
  BY DEF Confirmed, Indicated, CheckOf, SecurityTxtPresent, RobotsTxtPresent, SitemapPresent, ManifestPresent,
     NoVerboseErrorPage
<1> QED  BY <1>1 DEF FileChecks, FileIds

LEMMA HiddenHaveIds ==
    ASSUME NEW e, NEW f, NEW c \in HiddenChecks(e)
    PROVE  \E k \in HiddenChecks(f) : k.id = c.id
BY HiddenIds DEF HiddenChecks

LEMMA HiddenNames ==
    ASSUME NEW e, NEW c \in HiddenChecks(e)
    PROVE  c.id \notin CertificateChecks
BY HiddenIds DEF HiddenChecks, CertificateChecks

\* A check that concerns the certificate in no way.
LEMMA OtherNames ==
    ASSUME NEW id \in CmpIds \cup SesIds \cup DepIds \cup CliIds \cup DatIds \cup FileIds
    PROVE  id \notin CertificateChecks
BY DEF CmpIds, SesIds, DepIds, CliIds, DatIds, FileIds, CertificateChecks

\* A planned check has a counterpart in the plan that has seen nothing.
LEMMA Counterpart ==
    ASSUME NEW t, NEW e, NEW c \in Findings(e, t), NEW k \in Registry(NoEvidence), k.id = c.id, k.tier = c.tier,
           c.id \notin CertificateChecks
    PROVE  c.id \in PageChecks(t)
<1>1. k \in Findings(NoEvidence, t)
  BY DEF Findings, PlanRegistry
<1> QED  BY <1>1 DEF PageChecks, Ids

\* A page without a body may hide the checks that read it, its scripts and the
\* paths of its host.
LEMMA PageHides ==
    ASSUME NEW t, NEW e, NEW c \in Findings(e, t),
           c \in CmpChecks(e) \cup SesChecks(e) \cup DepChecks(e) \cup CliChecks(e) \cup DatChecks(e) \cup ExpChecks(e)
    PROVE  c.id \in PageChecks(t)
<1>1. PICK n : n = NoEvidence
  OBVIOUS
<1>2. Registry(n) = Registry(NoEvidence)
  BY <1>1
<1>3. CASE c \in CmpChecks(e)
  <2>1. c.id \in CmpIds /\ c.tier = "passive"
    BY ONLY <1>3, CmpChecksHaveIds, CmpPassive DEF Passive
  <2>2. PICK k \in CmpChecks(n) : k.id = c.id
    BY ONLY <2>1, CmpChecksHaveIds
  <2>3. k \in Registry(NoEvidence) /\ k.tier = "passive"
    BY <1>2, CmpPassive DEF Passive, Registry
  <2> QED  BY <2>1, <2>2, <2>3, OtherNames, Counterpart
<1>4. CASE c \in SesChecks(e)
  <2>1. c.id \in SesIds /\ c.tier = "passive"
    BY ONLY <1>4, SesChecksHaveIds, SesPassive DEF Passive
  <2>2. PICK k \in SesChecks(n) : k.id = c.id
    BY ONLY <2>1, SesChecksHaveIds
  <2>3. k \in Registry(NoEvidence) /\ k.tier = "passive"
    BY <1>2, SesPassive DEF Passive, Registry
  <2> QED  BY <2>1, <2>2, <2>3, OtherNames, Counterpart
<1>5. CASE c \in DepChecks(e)
  <2>1. c.id \in DepIds /\ c.tier = "passive"
    BY ONLY <1>5, DepChecksHaveIds, DepPassive DEF Passive
  <2>2. PICK k \in DepChecks(n) : k.id = c.id
    BY ONLY <2>1, DepChecksHaveIds
  <2>3. k \in Registry(NoEvidence) /\ k.tier = "passive"
    BY <1>2, DepPassive DEF Passive, Registry
  <2> QED  BY <2>1, <2>2, <2>3, OtherNames, Counterpart
<1>6. CASE c \in CliChecks(e)
  <2>1. c.id \in CliIds /\ c.tier = "passive"
    BY ONLY <1>6, CliChecksHaveIds, CliPassive DEF Passive
  <2>2. PICK k \in CliChecks(n) : k.id = c.id
    BY ONLY <2>1, CliChecksHaveIds
  <2>3. k \in Registry(NoEvidence) /\ k.tier = "passive"
    BY <1>2, CliPassive DEF Passive, Registry
  <2> QED  BY <2>1, <2>2, <2>3, OtherNames, Counterpart
<1>7. CASE c \in DatChecks(e)
  <2>1. c.id \in DatIds /\ c.tier = "passive"
    BY ONLY <1>7, DatChecksHaveIds, DatPassive DEF Passive
  <2>2. PICK k \in DatChecks(n) : k.id = c.id
    BY ONLY <2>1, DatChecksHaveIds
  <2>3. k \in Registry(NoEvidence) /\ k.tier = "passive"
    BY <1>2, DatPassive DEF Passive, Registry
  <2> QED  BY <2>1, <2>2, <2>3, OtherNames, Counterpart
<1>8. CASE c \in ExpChecks(e) \ HiddenChecks(e)
  <2>1. c.id \in FileIds /\ c.tier = "passive"
    <3>1. c \in FileChecks(e)
      BY <1>8 DEF ExpChecks, HiddenChecks, FileChecks
    <3> QED  BY ONLY <1>8, <3>1, FileChecksHaveIds, ExpPassive DEF Passive
  <2>2. PICK k \in FileChecks(n) : k.id = c.id
    BY ONLY <2>1, FileChecksHaveIds
  <2>3. k \in Registry(NoEvidence) /\ k.tier = "passive"
    <3>1. k \in ExpChecks(n)
      BY DEF FileChecks, ExpChecks
    <3>2. k.tier = "passive"
      BY DEF FileChecks, SecurityTxtPresent, RobotsTxtPresent, SitemapPresent, ManifestPresent, NoVerboseErrorPage,
         Confirmed, CheckOf
    <3> QED  BY <1>2, <3>1, <3>2 DEF Registry
  <2> QED  BY <2>1, <2>2, <2>3, OtherNames, Counterpart
<1>9. CASE c \in HiddenChecks(e)
  <2>1. PICK k \in HiddenChecks(n) : k.id = c.id
    BY ONLY <1>9, HiddenHaveIds
  <2>2. k \in Registry(NoEvidence) /\ k.tier = "active" /\ c.tier = "active"
    BY <1>2, <1>9, HiddenIsActive
  <2>3. c.id \notin CertificateChecks
    BY <1>9, HiddenNames
  <2> QED  BY <2>1, <2>2, <2>3, Counterpart
<1> QED  BY <1>3, <1>4, <1>5, <1>6, <1>7, <1>8, <1>9

LEMMA PageHidesMixedContent ==
    ASSUME NEW t, NEW e, NEW c, c.id = "TLS-006" PROVE c.id \in PageChecks(t)
<1> DEFINE k == NoMixedContent(NoEvidence)
<1>1. k \in Registry(NoEvidence) /\ k.tier = "passive" /\ k.id = "TLS-006"
  BY DEF Registry, TlsChecks, NoMixedContent, Indicated, CheckOf
<1>2. "TLS-006" \notin CertificateChecks
  BY DEF CertificateChecks
<1> HIDE DEF k
<1> QED  BY <1>1, <1>2 DEF PageChecks, Ids, Findings, PlanRegistry

LEMMA ScriptsHide ==
    ASSUME NEW e, NEW c \in CliChecks(e) \cup DatChecks(e)
    PROVE  c.id \in Ids(CliChecks(NoEvidence) \cup DatChecks(NoEvidence))
<1>1. PICK n : n = NoEvidence
  OBVIOUS
<1>2. \E k \in CliChecks(n) \cup DatChecks(n) : k.id = c.id
  BY ONLY c \in CliChecks(e) \cup DatChecks(e), CliChecksHaveIds, DatChecksHaveIds
<1>3. c.id \in Ids(CliChecks(n) \cup DatChecks(n))
  BY ONLY <1>2 DEF Ids
<1> QED  BY <1>1, <1>3

ActiveNames(t) == Ids({f \in Findings(NoEvidence, t) : f.tier = "active"})

LEMMA RedirectHides ==
    ASSUME NEW t, NEW e, NEW c \in HiddenChecks(e), c \in Findings(e, t)
    PROVE  c.id \in ActiveNames(t)
<1>1. PICK n : n = NoEvidence
  OBVIOUS
<1>2. PICK k \in HiddenChecks(n) : k.id = c.id
  BY HiddenHaveIds
<1>3. k \in Registry(n) /\ k.tier = "active" /\ c.tier = "active"
  BY HiddenIsActive
<1>4. t = "active"
  BY <1>3 DEF Findings, PlanRegistry
<1>5. k \in Findings(n, t)
  BY <1>3, <1>4 DEF Findings, PlanRegistry
<1>6. c.id \in Ids({x \in Findings(n, t) : x.tier = "active"})
  BY <1>2, <1>3, <1>5 DEF Ids
<1> QED  BY <1>1, <1>6 DEF ActiveNames

-----------------------------------------------------------------------------
\* What a run that meets no fault observes of the site with deviations D.
SeenOf(e, D, t) ==
    /\ PageOf(e.http, D)
    /\ e.age = 0
    /\ e.tls = TlsOf(D)
    /\ e.wellknown = FilesOf(D)
    /\ e.bundle = BundleOf(D)
    /\ AnsweredBy(D, e)
    /\ e.paths = IF t = "active" THEN HiddenOf(D) ELSE None

\* Each of its parts is something.
IsSomething(e, D) ==
    /\ e.http # None /\ Certificate(Site(D)) # None /\ e.wellknown # None /\ e.bundle # None
    /\ e.backends # None /\ HiddenOf(D) # None

LEMMA SeenIs == ASSUME NEW D, NEW t, NEW e, e = EvidenceOf(Site(D), t) PROVE SeenOf(e, D, t)
<1>1. PICK s : s = Site(D)
  OBVIOUS
<1>2. e = EvidenceOf(s, t)
  BY <1>1
<1>3. PICK text : text = e.http.body \cup AllScriptText(e.bundle)
  OBVIOUS
<1>4. /\ e.http = PageObservation(s)
      /\ e.age = 0
      /\ e.tls = IF s.https THEN Certificate(s) ELSE None
      /\ e.wellknown = {x \in Range(WellKnownFiles) : FileServed(s, x)}
      /\ e.bundle = {Fetched(s, u) : u \in Range(ScriptUrls(s))}
      /\ e.paths = IF t = "active" THEN {k \in Range(Candidates) : HiddenServed(s, k)} ELSE None
  <2>1. e.http = PageObservation(s) /\ e.age = 0 /\ e.tls = IF s.https THEN Certificate(s) ELSE None
    BY ONLY <1>2 DEF EvidenceOf
  <2>2. e.wellknown = {x \in Range(WellKnownFiles) : FileServed(s, x)}
    BY ONLY <1>2 DEF EvidenceOf
  <2>3. e.bundle = {Fetched(s, u) : u \in Range(ScriptUrls(s))}
    BY ONLY <1>2 DEF EvidenceOf
  <2>4. e.paths = IF t = "active" THEN {k \in Range(Candidates) : HiddenServed(s, k)} ELSE None
    BY ONLY <1>2 DEF EvidenceOf
  <2> QED  BY <2>1, <2>2, <2>3, <2>4
<1>5. e.backends = {BackendServed(s, b) : b \in Range(DetectBackends(text))}
  BY ONLY <1>2, <1>3 DEF EvidenceOf
<1>6. PageOf(e.http, D)
  BY <1>1, <1>4, PageIs
<1>7. s.https <=> "http" \notin D
  BY <1>1 DEF Site
<1>8. e.tls = TlsOf(D)
  BY <1>1, <1>4, <1>7 DEF TlsOf
<1>9. e.wellknown = FilesOf(D) /\ e.paths = IF t = "active" THEN HiddenOf(D) ELSE None
  BY <1>1, <1>4 DEF FilesOf, HiddenOf
<1>10. e.bundle = BundleOf(D)
  BY <1>1, <1>4 DEF BundleOf, UrlsOf
<1>11. text = TextOf(e.http, D)
  BY <1>3, <1>4, <1>10 DEF TextOf
<1>12. AnsweredBy(D, e)
  <2>1. e.backends = AnswersTo(s, text)
    BY ONLY <1>5, DetectedIs DEF AnswersTo
  <2> QED  BY ONLY <1>1, <1>11, <2>1 DEF AnsweredBy
<1> QED  BY <1>1, <1>4, <1>6, <1>8, <1>9, <1>10, <1>11, <1>12 DEF SeenOf

LEMMA EvidenceIsSomething ==
    ASSUME NEW D \in Scenarios \cup Worsened, NEW t, NEW e, e = EvidenceOf(Site(D), t)
    PROVE  IsSomething(e, D)
<1>1. PICK a : a = EvidenceOf(Site(D), "passive")
  OBVIOUS
<1>2. a.http = e.http /\ a.bundle = e.bundle /\ a.backends = e.backends
  BY <1>1 DEF EvidenceOf
<1>3. /\ \A scripts \in SUBSET a.bundle : None # scripts
      /\ None \notin {a.http, Certificate(Site(D)), a.backends}
  BY <1>1, ObservedAssumption
<1>4. e.http # None /\ e.bundle # None /\ e.backends # None /\ Certificate(Site(D)) # None
  BY <1>2, <1>3
<1>5. FilesOf(D) # None
  BY ObservedAssumption DEF FilesOf
<1>6. e.wellknown = FilesOf(D)
  BY SeenIs DEF SeenOf
<1>7. HiddenOf(D) # None
  <2>1. Range(Candidates) \subseteq HiddenKinds
    BY CandidatesAssumption DEF Range
  <2> QED  BY <2>1, NoneAssumption DEF HiddenOf
<1> QED  BY <1>4, <1>5, <1>6, <1>7 DEF IsSomething

LEMMA WhatHides ==
    ASSUME NEW t
    PROVE  /\ CanHide("http", t) = CertificateChecks \cup {"TLS-002", "TLS-006"}
           /\ CanHide("cert_bad", t) = CertificateChecks
           /\ CanHide("redirected", t) = ActiveNames(t)
           /\ CanHide("no_location", t) = PageChecks(t)
           /\ CanHide("long_page", t) = {"CMP-004"}
           /\ CanHide("many_scripts", t) = Ids(CliChecks(NoEvidence) \cup DatChecks(NoEvidence))
           /\ CanHide("service_key", t) = {"DAT-002"}
           /\ CanHide("hsts_none", t) = {"HDR-002", "HDR-003"}
           /\ CanHide("csp_none", t) = {"HDR-005"}
BY DEF CanHide, ActiveNames

\* A failed check stays failed when a deviation is added that cannot hide it.
LEMMA FailedStays ==
    ASSUME NEW D, NEW d, NEW W, W = D \cup {d}, d # "path_redirect", "path_redirect" \notin D,
           NEW t, NEW e, SeenOf(e, D, t), NEW f, SeenOf(f, W, t), IsSomething(f, W),
           NEW c \in Findings(e, t), c.verdict = "failed"
    PROVE  c \in Findings(f, t) \/ c.id \in CanHide(d, t)
<1>1. /\ PageOf(e.http, D) /\ PageOf(f.http, W) /\ f.http # None /\ e.age = 0
      /\ e.tls = TlsOf(D) /\ f.tls = TlsOf(W) /\ Certificate(Site(W)) # None
  BY DEF SeenOf, IsSomething
<1>2. c \in Registry(e) /\ (c \in Registry(f) => c \in Findings(f, t))
  BY DEF Findings, PlanRegistry
<1>3. CASE c \in HdrChecks(e)
  <2>1. \/ c \in HdrChecks(f)
        \/ d = "hsts_none" /\ c.id \in {"HDR-002", "HDR-003"}
        \/ d = "csp_none" /\ c.id = "HDR-005"
    BY ONLY W = D \cup {d}, <1>1, <1>3, c.verdict = "failed", HdrStays
  <2> QED  BY <1>2, <2>1, WhatHides DEF Registry
<1>4. CASE c \in TlsChecks(e)
  <2>1. \/ c \in TlsChecks(f)
        \/ d = "http" /\ c.id \in CertificateChecks \cup {"TLS-002", "TLS-006"}
        \/ d = "cert_bad" /\ c.id \in CertificateChecks
        \/ d = "no_location" /\ c.id = "TLS-006"
    BY ONLY W = D \cup {d}, <1>1, <1>4, c.verdict = "failed", TlsStays
  <2>2. c \in TlsChecks(f) => c \in Registry(f)
    BY DEF Registry
  <2>3. c.id = "TLS-006" => c.id \in PageChecks(t)
    BY ONLY PageHidesMixedContent
  <2> QED  BY ONLY <1>2, <2>1, <2>2, <2>3, WhatHides
<1>5. CASE c \in LegChecks(e)
  <2>1. c \in LegChecks(f)
    BY ONLY W = D \cup {d}, <1>1, <1>5, c.verdict = "failed", LegStays
  <2> QED  BY <1>2, <2>1 DEF Registry
<1>6. CASE d = "no_location" /\ c \notin HdrChecks(e) \cup TlsChecks(e) \cup LegChecks(e)
  <2>1. c \in CmpChecks(e) \cup SesChecks(e) \cup DepChecks(e) \cup CliChecks(e) \cup DatChecks(e) \cup ExpChecks(e)
    BY ONLY <1>2, <1>6 DEF Registry
  <2>2. c.id \in PageChecks(t)
    BY ONLY <2>1, c \in Findings(e, t), PageHides
  <2> QED  BY ONLY <1>6, <2>2, WhatHides
<1>7. ASSUME d # "no_location", c \in CmpChecks(e)
      PROVE  c \in CmpChecks(f) \/ c.id \in CanHide(d, t)
  <2>1. PageOf(e.http, D) /\ PageOf(f.http, W) /\ f.http # None
    BY <1>1
  <2>2. ASSUME d # "long_page" \/ c.id # "CMP-004" PROVE c \in CmpChecks(f)
    BY ONLY W = D \cup {d}, <1>7, <2>1, <2>2, c.verdict = "failed", CmpStays
  <2> QED  BY <2>2, WhatHides
<1>8. ASSUME d # "no_location", c \in SesChecks(e)
      PROVE  c \in SesChecks(f)
  BY ONLY W = D \cup {d}, <1>1, <1>8, c.verdict = "failed", SesStays
<1>9. ASSUME d # "no_location", c \in DepChecks(e)
      PROVE  c \in DepChecks(f)
  BY ONLY W = D \cup {d}, <1>1, <1>9, c.verdict = "failed", DepStays
<1>10. ASSUME d # "no_location", c \in CliChecks(e)
       PROVE  c \in CliChecks(f) \/ c.id \in CanHide(d, t)
  <2>1. CASE d = "many_scripts"
    BY <1>10, <2>1, ScriptsHide, WhatHides
  <2>2. CASE d # "many_scripts"
    <3>1. e.bundle = BundleOf(D) /\ f.bundle = BundleOf(W) /\ f.bundle # None
      BY DEF SeenOf, IsSomething
    <3>2. d \notin {"no_location", "many_scripts"}
      BY <1>10, <2>2
    <3> QED  BY ONLY W = D \cup {d}, <1>10, <3>1, <3>2, c.verdict = "failed", CliStays
  <2> QED  BY <2>1, <2>2
<1>11. ASSUME d # "no_location", c \in ExpChecks(e)
       PROVE  c \in ExpChecks(f) \/ c.id \in CanHide(d, t)
  <2>0. PageOf(e.http, D) /\ PageOf(f.http, W) /\ f.http # None
    BY <1>1
  <2>1. e.wellknown = FilesOf(D) /\ f.wellknown = FilesOf(W) /\ f.wellknown # None
    BY DEF SeenOf, IsSomething
  <2>2. e.paths # None => e.paths = HiddenOf(D) /\ f.paths = HiddenOf(W) /\ f.paths # None
    BY DEF SeenOf, IsSomething
  <2>3. c \in ExpChecks(f) \/ (d = "redirected" /\ c \in HiddenChecks(e))
    BY ONLY W = D \cup {d}, d # "path_redirect", "path_redirect" \notin D, <2>0, <1>11, <2>1, <2>2,
            c.verdict = "failed",
            ExpStays
  <2> QED  BY <2>3, RedirectHides, WhatHides
<1>12. ASSUME d # "no_location", c \in DatChecks(e)
       PROVE  c \in DatChecks(f) \/ c.id \in CanHide(d, t)
  <2>1. CASE d = "many_scripts"
    BY <1>12, <2>1, ScriptsHide, WhatHides
  <2>2. CASE d # "many_scripts"
    <3>0. PageOf(e.http, D) /\ PageOf(f.http, W)
      BY <1>1
    <3>1. AnsweredBy(D, e) /\ AnsweredBy(W, f) /\ f.backends # None
      BY DEF SeenOf, IsSomething
    <3>2. d \notin {"no_location", "many_scripts"}
      BY <1>12, <2>2
    <3>3. c \in DatChecks(f) \/ (d = "service_key" /\ c.id = "DAT-002")
      BY ONLY W = D \cup {d}, <3>0, <1>12, <3>1, <3>2, c.verdict = "failed", DatStays
    <3> QED  BY <3>3, WhatHides
  <2> QED  BY <2>1, <2>2
<1> QED  BY <1>2, <1>3, <1>4, <1>5, <1>6, <1>7, <1>8, <1>9, <1>10, <1>11, <1>12 DEF Registry

\* A site without an endless redirect has no redirect to a path of its own.
LEMMA EndsSomewhere == ASSUME NEW D, Site(D).hops # Endless PROVE "path_redirect" \notin D
BY DEF Site

LEMMA WorseIsTold == ASSUME BaseInv PROVE NoDeviationHidesAnother
<1> SUFFICES ASSUME site.hops # Endless, NEW d \in Deviations \ {"path_redirect"}
             PROVE  Failures(EvidenceOf(site, tier), tier)
                        \subseteq Failures(EvidenceOf(Site(deviations \cup {d}), tier), tier) \cup CanHide(d, tier)
  BY DEF NoDeviationHidesAnother
<1>1. PICK D : D = deviations
  OBVIOUS
<1>2. PICK t : t = tier
  OBVIOUS
<1>3. PICK W : W = D \cup {d}
  OBVIOUS
<1>4. D \in Scenarios /\ site = Site(D)
  BY <1>1 DEF BaseInv, site, Sites
<1>5. W \in Scenarios \cup Worsened
  BY <1>3, <1>4 DEF Worsened
<1>6. "path_redirect" \notin D /\ d # "path_redirect"
  BY <1>4, EndsSomewhere
<1>7. PICK e : e = EvidenceOf(Site(D), t)
  OBVIOUS
<1>8. PICK f : f = EvidenceOf(Site(W), t)
  OBVIOUS
<1>9. SeenOf(e, D, t) /\ SeenOf(f, W, t)
  BY ONLY <1>7, <1>8, SeenIs
<1>10. IsSomething(f, W)
  BY ONLY <1>5, <1>8, EvidenceIsSomething
<1>11. ASSUME NEW c \in Findings(e, t), c.verdict = "failed"
       PROVE  c \in Findings(f, t) \/ c.id \in CanHide(d, t)
  BY ONLY <1>3, <1>6, <1>9, <1>10, <1>11, FailedStays
<1>12. Failures(e, t) \subseteq Failures(f, t) \cup CanHide(d, t)
  BY ONLY <1>11 DEF Failures, With, Ids
<1> QED  BY <1>1, <1>2, <1>3, <1>4, <1>7, <1>8, <1>12

\* A site with two things wrong is told of both: for any set of deviations and
\* either tier, a check that the registry's evaluators fail on what a faultless
\* scan observes, they fail still when the site has one deviation more, but for
\* the checks whose evidence that deviation takes away (CanHide).
THEOREM NoDeviationHidesAnotherAlways == Spec => []NoDeviationHidesAnother
<1>1. BaseInv => NoDeviationHidesAnother
  BY WorseIsTold
<1> QED  BY BaseInit, BaseNext, <1>1, PTL DEF Spec

=============================================================================
