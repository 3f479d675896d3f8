------------------------------ MODULE ProbeRun ------------------------------
(***************************************************************************)
(* One run of run_probes (packages/probes): the HTTP probe follows the     *)
(* redirects of the target; the TLS, well-known and bundle probes then run *)
(* concurrently on one event loop; the backend probe asks what the fetched *)
(* text pointed at; the paths probe runs for an active scan only; the      *)
(* evidence is sealed and the registry evaluated on it.                    *)
(*                                                                         *)
(* Every probe resolves its host anew (validate_and_pin) and connects to   *)
(* the address it pinned.  What DNS answers, and whether a request fails,  *)
(* is the environment's choice; answers with a denied or no address, and   *)
(* failed requests, count as faults and are bounded by MaxFaults.          *)
(***************************************************************************)
EXTENDS Checks, ScannedSite, Functions, TLC

CONSTANTS
    Scenarios,      \* sets of deviations: the sites scanned
    Answers,        \* what a resolver may answer: sequences of addresses
    Candidates,     \* the paths probe's candidate list: a sequence of kinds
    MaxRedirects,   \* _MAX_REDIRECTS
    MaxScripts,     \* _MAX_SCRIPTS
    MaxFaults       \* bound: faults in a run

ASSUME BoundsAssumption == MaxRedirects \in Nat /\ MaxScripts \in Nat
ASSUME CandidatesAssumption == Candidates \in Seq(HiddenKinds)
\* An observation that was not made is none of the sets of paths it could find.
ASSUME NoneAssumption == \A kinds \in SUBSET HiddenKinds : None # kinds
ASSUME AnswersAssumption == \A a \in Answers : a # <<>> => 1 \in DOMAIN a

Tiers == {"passive", "active"}
SubProbes == {"tls", "wellknown", "bundle"}
Probes == SubProbes \cup {"http", "backends", "paths"}
WellKnownFiles == <<"security_txt", "robots_txt", "sitemap", "manifest">>

VARIABLES
    deviations,     \* the scanned site, one of Scenarios
    tier,           \* the tier the scan was granted
    stage,          \* where run_probes is
    hop,            \* redirects followed so far
    conn,           \* the address each probe has pinned, None before it resolves
    todo,           \* what each probe has still to ask for
    subs,           \* the sub-probes of the gather still running
    evidence,       \* the observations made so far
    outcome,        \* "running", "sealed", "denied" (EgressDenied) or "failed"
    requests,       \* the requests sent: which probe, to which address
    faults

vars == <<deviations, tier, stage, hop, conn, todo, subs, evidence, outcome, requests, faults>>
scan == <<deviations, tier>>

Sites == [D \in Scenarios |-> Site(D)]
site == Sites[deviations]

(***************************************************************************)
(* The egress guard.  An address has the class of its range; an IPv6       *)
(* address that maps an IPv4 one is judged by the address it maps.         *)
(***************************************************************************)
\* Where a connection ends: a fact of the network, whatever the guard thinks.
Endpoint(address) == IF address.mapped = None THEN address.class ELSE address.mapped

\* Mutant: the range of the IPv6 address itself decides.
ClassifyUnmapped(address) == address.class

Classify(address) == IF address.mapped = None THEN address.class ELSE address.mapped

Allowed(address) == Classify(address) = "public"

Denied(answer) == answer = <<>> \/ \E i \in DOMAIN answer : ~Allowed(answer[i])

(***************************************************************************)
(* The observations the site gives.                                        *)
(***************************************************************************)
PageObservation(s) ==
    [hsts |-> s.page.hsts, csp |-> s.page.csp, cookies |-> s.page.cookies, nosniff |-> s.page.nosniff,
     xfo |-> s.page.xfo, referrer |-> s.page.referrer, permissions |-> s.page.permissions,
     server |-> s.page.server, poweredBy |-> s.page.poweredBy,
     https |-> s.https, contentType |-> s.location /\ s.typed,
     body |-> IF s.location THEN s.excerpt ELSE {},
     scripts |-> IF s.location THEN Range(s.scripts) ELSE {}]

ScriptUrls(s) ==
    IF s.location THEN SubSeq([i \in DOMAIN s.scripts |-> s.scripts[i].url], 1,
                              Min({MaxScripts, Len(s.scripts)}))
                  ELSE <<>>

Fetched(s, url) == [url |-> url, excerpt |-> s.text[url], console |-> s.console[url], error |-> FALSE]
NotFetched(url) == [url |-> url, excerpt |-> {}, console |-> 0, error |-> TRUE]

\* A redirecting site answers every path of the scanned host with a redirect.
FileServed(s, file) == s.hops = 0 /\ file \in s.files
HiddenServed(s, kind) == s.hops = 0 /\ kind \in s.hidden

AllText(e) == e.http.body \cup AllScriptText(e.bundle)

\* One candidate key for all Supabase projects, a service-role key first.
SupabaseRole(text) ==
    IF "jwt_service" \in text THEN "service_role" ELSE IF "jwt_anon" \in text THEN "anon" ELSE ""

DetectBackends(text) ==
    LET found(provider, url, role) ==
            IF url \in text THEN <<[provider |-> provider, role |-> role]>> ELSE <<>>
    IN  found("supabase", "supabase_url", SupabaseRole(text)) \o found("firebase", "firebase_url", "")
            \o found("s3", "s3_url", "") \o found("gcs", "gcs_url", "")

Answered(b, open, error) == [provider |-> b.provider, role |-> b.role, open |-> open, error |-> error]

\* A leaked service-role key is recorded without a request.
Unprobed(b) == b.role = "service_role"

BackendServed(s, b) == Answered(b, ~Unprobed(b) /\ b.provider \in s.open, FALSE)

Certificate(s) ==
    IF s.cert.verified THEN s.cert ELSE [verified |-> FALSE]

\* What a run that meets no fault observes.
EvidenceOf(s, t) ==
    LET http   == PageObservation(s)
        bundle == {Fetched(s, u) : u \in Range(ScriptUrls(s))}
        text   == http.body \cup AllScriptText(bundle)
    IN  [http |-> http, bundle |-> bundle, age |-> 0,
         tls |-> IF s.https THEN Certificate(s) ELSE None,
         wellknown |-> {f \in Range(WellKnownFiles) : FileServed(s, f)},
         backends |-> {BackendServed(s, b) : b \in Range(DetectBackends(text))},
         paths |-> IF t = "active" THEN {k \in Range(Candidates) : HiddenServed(s, k)} ELSE None]

\* The sites scanned, and those with one deviation more.
Worsened == {D \cup {d} : D \in Scenarios, d \in Deviations}

\* An observation that was made, in part or whole, is something.
ASSUME ObservedAssumption ==
    /\ \A files \in SUBSET Range(WellKnownFiles) : None # files
    /\ \A D \in Scenarios \cup Worsened :
           LET truth == EvidenceOf(Site(D), "passive")
           IN  /\ \A scripts \in SUBSET truth.bundle : None # scripts
               /\ None \notin {truth.http, Certificate(Site(D)), truth.backends}

NoEvidence ==
    [http |-> None, tls |-> None, wellknown |-> None, bundle |-> None, backends |-> None,
     paths |-> None, age |-> 0]

Init ==
    /\ deviations \in Scenarios
    /\ tier \in Tiers
    /\ stage = "resolve"
    /\ hop = 0
    /\ conn = [p \in Probes |-> None]
    /\ todo = [p \in Probes |-> <<>>]
    /\ subs = {}
    /\ evidence = NoEvidence
    /\ outcome = "running"
    /\ requests = {}
    /\ faults = 0

(***************************************************************************)
(* Resolving and asking.                                                   *)
(***************************************************************************)
Fault == faults < MaxFaults /\ faults' = faults + 1

\* validate_and_pin: every address must be allowed; the first one is pinned.
Pin(p) ==
    \E answer \in Answers :
        /\ ~Denied(answer)
        /\ conn' = [conn EXCEPT ![p] = answer[1]]
        /\ UNCHANGED faults

Deny == Fault /\ \E answer \in Answers : Denied(answer)

\* A request goes to the pinned address, whatever DNS says by now.
Ask(p) == requests' = requests \cup {[probe |-> p, address |-> conn[p]]}

Abandon(result) == outcome' = result /\ stage' = "over"

(***************************************************************************)
(* The HTTP probe.                                                         *)
(***************************************************************************)
HttpResolve ==
    /\ stage = "resolve"
    /\ Pin("http")
    /\ stage' = "get"
    /\ UNCHANGED <<scan, hop, todo, subs, evidence, outcome, requests>>

HttpDenied ==
    /\ stage = "resolve"
    /\ Deny
    /\ Abandon("denied")
    /\ UNCHANGED <<scan, hop, conn, todo, subs, evidence, requests>>

HttpFails ==
    /\ stage = "get"
    /\ Ask("http")
    /\ Fault
    /\ Abandon("failed")
    /\ UNCHANGED <<scan, hop, conn, todo, subs, evidence>>

\* A redirect is revalidated before it is followed; the one after MaxRedirects
\* is an error.  Mutant: the loop counts no hop.
HopNotCounted == hop
NextHop == hop + 1

LastHop == MaxRedirects

HttpRedirected ==
    /\ stage = "get"
    /\ hop < site.hops
    /\ Ask("http")
    /\ IF hop = LastHop
       THEN Abandon("failed") /\ UNCHANGED <<hop, conn>>
       ELSE /\ hop' = NextHop
            /\ conn' = [conn EXCEPT !["http"] = None]
            /\ stage' = "resolve"
            /\ UNCHANGED outcome
    /\ UNCHANGED <<scan, todo, subs, evidence, faults>>

\* The page arrives and the gather starts its three sub-probes.
HttpAnswered ==
    /\ stage = "get"
    /\ hop >= site.hops
    /\ Ask("http")
    /\ evidence' = [evidence EXCEPT !.http = PageObservation(site)]
    /\ stage' = "gather"
    /\ subs' = SubProbes
    /\ todo' = [todo EXCEPT !["wellknown"] = WellKnownFiles, !["bundle"] = ScriptUrls(site)]
    /\ UNCHANGED <<scan, hop, conn, outcome, faults>>

(***************************************************************************)
(* The gather.  A sub-probe that raises ends the run at once, and the      *)
(* others go on to their end: gather does not cancel them.                 *)
(***************************************************************************)
SubStep(p) == stage = "gather" /\ p \in subs /\ UNCHANGED <<scan, stage, hop>>

SubDenied(p) ==
    /\ p \in {"tls", "wellknown"}
    /\ SubStep(p)
    /\ conn[p] = None
    /\ p = "tls" => evidence.http.https
    /\ Deny
    /\ subs' = subs \ {p}
    /\ outcome' = IF outcome = "running" THEN "denied" ELSE outcome
    /\ UNCHANGED <<conn, todo, evidence, requests>>

\* The bundle probe asks for a host only while a script is left to fetch.
SubResolve(p) ==
    /\ SubStep(p)
    /\ conn[p] = None
    /\ p = "tls" => evidence.http.https
    /\ p = "bundle" => todo[p] # <<>>
    /\ Pin(p)
    /\ UNCHANGED <<todo, subs, evidence, outcome, requests>>

TlsSkipped ==
    /\ SubStep("tls")
    /\ ~evidence.http.https
    /\ subs' = subs \ {"tls"}
    /\ UNCHANGED <<conn, todo, evidence, outcome, requests, faults>>

\* A handshake never raises: a refused or failed one is an observation.
Handshake(observed) ==
    /\ SubStep("tls")
    /\ conn["tls"] # None
    /\ Ask("tls")
    /\ evidence' = [evidence EXCEPT !.tls = observed]
    /\ subs' = subs \ {"tls"}
    /\ UNCHANGED <<conn, todo, outcome>>

TlsHandshake == Handshake(Certificate(site)) /\ UNCHANGED faults
TlsFails == Handshake([verified |-> FALSE]) /\ Fault

\* One file after another; the observation is made when the last has answered.
WellKnownNext(found) ==
    /\ SubStep("wellknown")
    /\ conn["wellknown"] # None
    /\ Ask("wellknown")
    /\ LET files == (IF evidence.wellknown = None THEN {} ELSE evidence.wellknown) \cup found
       IN  evidence' = [evidence EXCEPT !.wellknown = files]
    /\ todo' = [todo EXCEPT !["wellknown"] = Tail(@)]
    /\ subs' = IF Len(todo["wellknown"]) = 1 THEN subs \ {"wellknown"} ELSE subs
    /\ UNCHANGED <<conn, outcome>>

WellKnownAnswered ==
    /\ todo["wellknown"] # <<>>
    /\ WellKnownNext({f \in {Head(todo["wellknown"])} : FileServed(site, f)})
    /\ UNCHANGED faults

WellKnownFails ==
    /\ todo["wellknown"] # <<>>
    /\ WellKnownNext({})
    /\ Fault

\* A script that is denied or fails is recorded with its error and no text.
BundleNext(script) ==
    /\ SubStep("bundle")
    /\ LET scripts == (IF evidence.bundle = None THEN {} ELSE evidence.bundle) \cup {script}
       IN  evidence' = [evidence EXCEPT !.bundle = scripts]
    /\ todo' = [todo EXCEPT !["bundle"] = Tail(@)]
    /\ conn' = [conn EXCEPT !["bundle"] = None]
    /\ UNCHANGED <<subs, outcome>>

BundleDenied ==
    /\ todo["bundle"] # <<>>
    /\ conn["bundle"] = None
    /\ BundleNext(NotFetched(Head(todo["bundle"])))
    /\ Deny
    /\ UNCHANGED requests

BundleAnswered ==
    /\ todo["bundle"] # <<>>
    /\ conn["bundle"] # None
    /\ Ask("bundle")
    /\ BundleNext(Fetched(site, Head(todo["bundle"])))
    /\ UNCHANGED faults

BundleFails ==
    /\ todo["bundle"] # <<>>
    /\ conn["bundle"] # None
    /\ Ask("bundle")
    /\ BundleNext(NotFetched(Head(todo["bundle"])))
    /\ Fault

\* A source that urljoin, before the first request, or httpx, before its own,
\* does not take for a URL raises what the probe does not catch.
BundleRaises ==
    /\ SubStep("bundle")
    /\ todo["bundle"] # <<>>
    /\ evidence.bundle = None \/ conn["bundle"] # None
    /\ Fault
    /\ subs' = subs \ {"bundle"}
    /\ outcome' = IF outcome = "running" THEN "failed" ELSE outcome
    /\ UNCHANGED <<conn, todo, evidence, requests>>

BundleEnds ==
    /\ SubStep("bundle")
    /\ todo["bundle"] = <<>>
    /\ evidence' = [evidence EXCEPT !.bundle = IF @ = None THEN {} ELSE @]
    /\ subs' = subs \ {"bundle"}
    /\ UNCHANGED <<conn, todo, outcome, requests, faults>>

Gathered ==
    /\ stage = "gather"
    /\ subs = {}
    /\ IF outcome = "running"
       THEN /\ stage' = "backends"
            /\ todo' = [todo EXCEPT !["backends"] = DetectBackends(AllText(evidence))]
            /\ evidence' = [evidence EXCEPT !.backends = {}]
       ELSE stage' = "over" /\ UNCHANGED <<todo, evidence>>
    /\ UNCHANGED <<scan, hop, conn, subs, outcome, requests, faults>>

(***************************************************************************)
(* The backend probe: one request for each detected backend.               *)
(***************************************************************************)
AtBackend ==
    /\ stage = "backends"
    /\ todo["backends"] # <<>>
    /\ UNCHANGED <<scan, stage, hop, subs, outcome>>

Backend == Head(todo["backends"])

BackendNext(backend) ==
    /\ evidence' = [evidence EXCEPT !.backends = @ \cup {backend}]
    /\ todo' = [todo EXCEPT !["backends"] = Tail(@)]
    /\ conn' = [conn EXCEPT !["backends"] = None]

BackendSkipped ==
    /\ AtBackend
    /\ Unprobed(Backend)
    /\ BackendNext(Answered(Backend, FALSE, FALSE))
    /\ UNCHANGED <<requests, faults>>

BackendResolve ==
    /\ AtBackend
    /\ ~Unprobed(Backend)
    /\ conn["backends"] = None
    /\ Pin("backends")
    /\ UNCHANGED <<todo, evidence, requests>>

BackendDenied ==
    /\ AtBackend
    /\ ~Unprobed(Backend)
    /\ conn["backends"] = None
    /\ BackendNext(Answered(Backend, FALSE, TRUE))
    /\ Deny
    /\ UNCHANGED requests

BackendAnswered ==
    /\ AtBackend
    /\ conn["backends"] # None
    /\ Ask("backends")
    /\ BackendNext(BackendServed(site, Backend))
    /\ UNCHANGED faults

BackendFails ==
    /\ AtBackend
    /\ conn["backends"] # None
    /\ Ask("backends")
    /\ BackendNext(Answered(Backend, FALSE, TRUE))
    /\ Fault

\* httpx does not take the backend for a URL, which is not an HTTPError.
BackendRaises ==
    /\ stage = "backends"
    /\ todo["backends"] # <<>>
    /\ conn["backends"] # None
    /\ Fault
    /\ Abandon("failed")
    /\ UNCHANGED <<scan, hop, conn, todo, subs, evidence, requests>>

(***************************************************************************)
(* The paths probe, for an active scan, and the seal.                      *)
(***************************************************************************)
BackendsEnd ==
    /\ stage = "backends"
    /\ todo["backends"] = <<>>
    /\ IF tier = "active"
       THEN /\ stage' = "paths"
            /\ todo' = [todo EXCEPT !["paths"] = Candidates]
       ELSE stage' = "seal" /\ UNCHANGED todo
    /\ UNCHANGED <<scan, hop, conn, subs, evidence, outcome, requests, faults>>

PathsResolve ==
    /\ stage = "paths"
    /\ conn["paths"] = None
    /\ Pin("paths")
    /\ evidence' = [evidence EXCEPT !.paths = {}]
    /\ UNCHANGED <<scan, stage, hop, todo, subs, outcome, requests>>

PathsDenied ==
    /\ stage = "paths"
    /\ conn["paths"] = None
    /\ Deny
    /\ Abandon("denied")
    /\ UNCHANGED <<scan, hop, conn, todo, subs, evidence, requests>>

PathNext(found) ==
    /\ stage = "paths"
    /\ conn["paths"] # None
    /\ Ask("paths")
    /\ evidence' = [evidence EXCEPT !.paths = @ \cup found]
    /\ todo' = [todo EXCEPT !["paths"] = Tail(@)]
    /\ UNCHANGED <<scan, stage, hop, conn, subs, outcome>>

PathAnswered ==
    /\ todo["paths"] # <<>>
    /\ PathNext({k \in {Head(todo["paths"])} : HiddenServed(site, k)})
    /\ UNCHANGED faults

\* A candidate that could not be asked for is not a hit.  Mutant: it is one.
LostIsHit(kind) == {kind}
PathLost(kind) == {}

PathFails ==
    /\ todo["paths"] # <<>>
    /\ PathNext(PathLost(Head(todo["paths"])))
    /\ Fault

PathsEnd ==
    /\ stage = "paths"
    /\ conn["paths"] # None
    /\ todo["paths"] = <<>>
    /\ stage' = "seal"
    /\ UNCHANGED <<scan, hop, conn, todo, subs, evidence, outcome, requests, faults>>

Seal ==
    /\ stage = "seal"
    /\ Abandon("sealed")
    /\ UNCHANGED <<scan, hop, conn, todo, subs, evidence, requests, faults>>

HttpStep == HttpResolve \/ HttpDenied \/ HttpFails \/ HttpRedirected \/ HttpAnswered
GatherStep ==
    \/ \E p \in SubProbes : SubDenied(p) \/ SubResolve(p)
    \/ TlsSkipped \/ TlsHandshake \/ TlsFails
    \/ WellKnownAnswered \/ WellKnownFails
    \/ BundleDenied \/ BundleAnswered \/ BundleFails \/ BundleRaises \/ BundleEnds
    \/ Gathered
BackendStep ==
    \/ BackendSkipped \/ BackendResolve \/ BackendDenied \/ BackendAnswered \/ BackendFails
    \/ BackendRaises \/ BackendsEnd
PathStep == PathsResolve \/ PathsDenied \/ PathAnswered \/ PathFails \/ PathsEnd

Next == HttpStep \/ GatherStep \/ BackendStep \/ PathStep \/ Seal

\* One event loop runs the probes and every request has a timeout.
Spec == Init /\ [][Next]_vars /\ WF_vars(Next)

(***************************************************************************)
(* Properties.                                                             *)
(***************************************************************************)
\* Whatever DNS answers and whenever it changes its answer, every request of
\* every probe ends at a public host (the egress guard's promise, for redirects,
\* scripts and discovered backends alike).
OnlyPublicAddresses == \A r \in requests : Endpoint(r.address) = "public"

sealed == outcome = "sealed"
findings == Findings(evidence, tier)

\* The two tier gates agree: a passive run never sends a request of the paths
\* probe and has no active finding; an active run that is sealed has one for
\* each active check, and none of them lacks its evidence.
active == {f \in findings : f.tier = "active"}

PassiveAsksNoHiddenPath == tier = "passive" => \A r \in requests : r.probe # "paths"

TheTwoGatesAgree ==
    /\ PassiveAsksNoHiddenPath
    /\ sealed /\ tier = "passive" => active = {}
    /\ sealed /\ tier = "active" => Cardinality(active) = 7 /\ With(active, "inconclusive") = {}

\* A run that meets no fault sees the site as it is.  Whatever denials and
\* failed requests a sealed run met, it fails only checks that the site fails,
\* but for the two that report on reachability itself (the handshake, the
\* security.txt file) and for the anon key that a lost service-role key hid.
FaultsAccuseOnlyConnectivity ==
    sealed =>
        LET truth    == EvidenceOf(site, tier)
            hiddenBy == IF "DAT-001" \in Failures(truth, tier) THEN {"DAT-002"} ELSE {}
        IN  /\ faults = 0 => evidence = truth
            /\ Failures(evidence, tier) \subseteq
                   Failures(truth, tier) \cup {"TLS-002", "EXP-001"} \cup hiddenBy

\* What a deviation can hide: a plain-http or unverified site its certificate,
\* a redirect what is on the scanned host, a missing body what is on the page,
\* many scripts the site's own ones, a service-role key the anon key's schema.
CertificateChecks == {"TLS-004", "TLS-005", "TLS-007", "TLS-008"}
PageChecks(t) == Ids({f \in Findings(NoEvidence, t) : f.id \notin CertificateChecks})

CanHide(d, t) ==
    CASE d = "http" -> CertificateChecks \cup {"TLS-002", "TLS-006"}
      [] d = "cert_bad" -> CertificateChecks
      [] d = "redirected" -> Ids({f \in Findings(NoEvidence, t) : f.tier = "active"})
      [] d = "no_location" -> PageChecks(t)
      [] d = "long_page" -> {"CMP-004"}
      [] d = "many_scripts" -> Ids(CliChecks(NoEvidence) \cup DatChecks(NoEvidence))
      [] d = "service_key" -> {"DAT-002"}
      [] d = "hsts_none" -> {"HDR-002", "HDR-003"}
      [] d = "csp_none" -> {"HDR-005"}
      [] OTHER -> {}

\* A site with two things wrong is told of both: adding a deviation d to a site
\* never takes a check out of the failed ones, but for what CanHide lists.
NoDeviationHidesAnother ==
    stage = "resolve" /\ hop = 0 /\ faults = 0 /\ site.hops # Endless =>
        LET before == Failures(EvidenceOf(site, tier), tier)
            after(d) == Failures(EvidenceOf(Site(deviations \cup {d}), tier), tier)
        IN  \A d \in Deviations \ {"path_redirect"} : before \subseteq after(d) \cup CanHide(d, tier)

\* The outputs a pipeline gates on agree: --fail-on high breaks the build
\* exactly when the SARIF report carries an error, --fail-on medium when it
\* carries an error or a warning, a perfect score means that nothing but
\* informational checks failed, and no site is graded below B for checks of
\* medium severity or less alone.
ThresholdsMatchLevels ==
    sealed =>
        LET levels == {r.level : r \in SarifReport(findings, {})} IN
        /\ BreachesThreshold(findings, "high") <=> "error" \in levels
        /\ BreachesThreshold(findings, "medium") <=> levels \cap {"error", "warning"} # {}

OutputsAgree ==
    /\ ThresholdsMatchLevels
    /\ sealed =>
        /\ Score(findings) = 2000 <=> ~BreachesThreshold(findings, "low")
        /\ GradeFor(Score(findings)) \notin {"A", "B"} => BreachesThreshold(findings, "high")

\* Every run ends, with no sub-probe left behind.
RunEnds == <>(stage = "over" /\ outcome # "running" /\ subs = {})

\* docs/architecture.md:290 and :296: what could not be reached is never passed.
UnreachedIsNotPassed ==
    sealed =>
        /\ (\E s \in evidence.bundle : s.error) => With(findings, "passed") \cap CliChecks(evidence) = {}
        /\ (\E b \in evidence.backends : b.error) => With(findings, "passed") \cap DatChecks(evidence) = {}

=============================================================================
