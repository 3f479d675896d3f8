------------------------------- MODULE Checks -------------------------------
(***************************************************************************)
(* The check registry of packages/checks, the score of packages/scoring    *)
(* and the two outputs a pipeline gates on (SARIF levels, --fail-on).      *)
(* Everything here is a function of one sealed evidence bundle.            *)
(*                                                                         *)
(* A bundle is a record; an observation that was not made is None:         *)
(*   http      [https, hsts, csp, nosniff, xfo, referrer, permissions,     *)
(*              server, poweredBy, contentType, cookies, body, scripts]    *)
(*   tls       [verified, hoursLeft, validity, protocol, cipher]           *)
(*   wellknown the set of conventional files found                         *)
(*   bundle    the fetched scripts, each [excerpt, console, error]         *)
(*   backends  the detected backends, each [provider, role, open, error]   *)
(*   paths     the kinds of hidden paths that answered                     *)
(*   age       hours between the handshake and the evaluation              *)
(* A header value is the set of its directives (hsts), a function from     *)
(* directive to sources (csp) or a word, empty when the header is absent.  *)
(* A text (page body, script excerpt) is the set of the patterns that the  *)
(* checks would find in it.                                                *)
(***************************************************************************)
EXTENDS Integers, FiniteSets, FiniteSetsExt

CONSTANT None       \* an observation that was not made

(***************************************************************************)
(* Checks: a manifest and the verdict its evaluator returns.               *)
(***************************************************************************)
CheckOf(tier, id, severity, confidence, weight, verdict) ==
    [tier |-> tier, id |-> id, severity |-> severity, confidence |-> confidence,
     weight |-> weight, verdict |-> verdict]

Confirmed(id, severity, weight, verdict) ==
    CheckOf("passive", id, severity, "confirmed", weight, verdict)
Indicated(id, severity, weight, verdict) ==
    CheckOf("passive", id, severity, "indicated", weight, verdict)

Requires(observation, verdict) ==
    IF observation = None THEN "inconclusive" ELSE verdict

PassIf(good) == IF good THEN "passed" ELSE "failed"
FailIf(bad)  == IF bad THEN "failed" ELSE "passed"

(***************************************************************************)
(* HDR: response headers.                                                  *)
(***************************************************************************)
WithHsts(e, verdict) ==
    Requires(e.http, IF e.http.hsts = {} THEN "inconclusive" ELSE verdict)
HasCsp(e) == DOMAIN e.http.csp # {}

HstsPresent(e) == Confirmed("HDR-001", "high", 8, Requires(e.http, PassIf(e.http.hsts # {})))
HstsMaxAge(e) == Confirmed("HDR-002", "medium", 4, WithHsts(e, PassIf("max-age-long" \in e.http.hsts)))
HstsIncludeSubdomains(e) ==
    Confirmed("HDR-003", "low", 2, WithHsts(e, PassIf("includesubdomains" \in e.http.hsts)))
CspPresent(e) == Confirmed("HDR-004", "high", 7, Requires(e.http, PassIf(HasCsp(e))))

\* An empty script-src falls back to default-src, as a missing one does.
ScriptSources(csp) ==
    LET sources(d) == IF d \in DOMAIN csp THEN csp[d] ELSE {}
    IN  IF sources("script-src") # {} THEN sources("script-src") ELSE sources("default-src")

CspNoUnsafeInline(e) ==
    Indicated("HDR-005", "medium", 4,
        Requires(e.http, IF HasCsp(e) THEN FailIf("unsafe-inline" \in ScriptSources(e.http.csp))
                                      ELSE "inconclusive"))
XContentTypeOptions(e) == Confirmed("HDR-006", "low", 2, Requires(e.http, PassIf(e.http.nosniff = "nosniff")))
ClickjackingProtection(e) ==
    Confirmed("HDR-007", "medium", 4,
        Requires(e.http, PassIf(\/ e.http.xfo \in {"deny", "sameorigin"}
                                \/ "frame-ancestors" \in DOMAIN e.http.csp)))
ReferrerPolicy(e) ==
    Confirmed("HDR-008", "low", 2, Requires(e.http, FailIf(e.http.referrer \in {"", "unsafe-url"})))
PermissionsPolicy(e) == Confirmed("HDR-009", "low", 1, Requires(e.http, PassIf(e.http.permissions)))
ServerHeaderNoVersion(e) ==
    Indicated("HDR-010", "info", 1, Requires(e.http, FailIf(e.http.server = "versioned")))
XPoweredByAbsent(e) == Confirmed("HDR-011", "info", 1, Requires(e.http, FailIf(e.http.poweredBy)))
ContentTypePresent(e) == Confirmed("HDR-012", "low", 1, Requires(e.http, PassIf(e.http.contentType)))

HdrChecks(e) ==
    {HstsPresent(e), HstsMaxAge(e), HstsIncludeSubdomains(e), CspPresent(e), CspNoUnsafeInline(e),
     XContentTypeOptions(e), ClickjackingProtection(e), ReferrerPolicy(e), PermissionsPolicy(e),
     ServerHeaderNoVersion(e), XPoweredByAbsent(e), ContentTypePresent(e)}

(***************************************************************************)
(* TLS: the handshake.  A certificate's fields are known only when the     *)
(* handshake verified; TLS-003 alone compares with the evaluation's clock. *)
(***************************************************************************)
WithCertificate(e, verdict) ==
    Requires(e.tls, IF e.tls.verified THEN verdict ELSE "inconclusive")

HttpsEnforced(e) == Confirmed("TLS-001", "critical", 10, Requires(e.http, PassIf(e.http.https)))
HandshakeVerifies(e) == Confirmed("TLS-002", "critical", 10, Requires(e.tls, PassIf(e.tls.verified)))
CertNotExpired(e) == Confirmed("TLS-003", "critical", 10, WithCertificate(e, PassIf(e.tls.hoursLeft > e.age)))
CertNotExpiringSoon(e) ==
    Confirmed("TLS-004", "medium", 3, WithCertificate(e, FailIf(e.tls.hoursLeft \div 24 <= 14)))
ProtocolVersionModern(e) ==
    Confirmed("TLS-005", "high", 6, WithCertificate(e, FailIf(e.tls.protocol = "weak")))
NoMixedContent(e) ==
    Indicated("TLS-006", "medium", 3,
        Requires(e.http, IF e.http.https THEN FailIf("mixed_content" \in e.http.body)
                                         ELSE "not_applicable"))
CertValidityWindow(e) ==
    Confirmed("TLS-007", "low", 2, WithCertificate(e, PassIf(e.tls.validity <= 398)))
NoWeakCipher(e) == Confirmed("TLS-008", "high", 5, WithCertificate(e, FailIf(e.tls.cipher = "weak")))

TlsChecks(e) ==
    {HttpsEnforced(e), HandshakeVerifies(e), CertNotExpired(e), CertNotExpiringSoon(e),
     ProtocolVersionModern(e), NoMixedContent(e), CertValidityWindow(e), NoWeakCipher(e)}

(***************************************************************************)
(* SES: cookies and session identifiers.                                   *)
(***************************************************************************)
NoCookie(e, Bad(_)) == Requires(e.http, FailIf(\E c \in e.http.cookies : Bad(c)))

CookiesSecure(e) == Confirmed("SES-001", "high", 6, NoCookie(e, LAMBDA c : ~c.secure))
CookiesHttpOnly(e) == Confirmed("SES-002", "high", 6, NoCookie(e, LAMBDA c : ~c.httpOnly))
CookiesSamesiteSet(e) == Confirmed("SES-003", "low", 2, NoCookie(e, LAMBDA c : c.sameSite = ""))
CookiesSamesiteNoneRequiresSecure(e) ==
    Confirmed("SES-004", "medium", 3, NoCookie(e, LAMBDA c : c.sameSite = "none" /\ ~c.secure))
NoSessionIdInUrl(e) ==
    Indicated("SES-005", "medium", 3, Requires(e.http, FailIf("session_in_url" \in e.http.body)))
CookieLifetimeSane(e) ==
    Indicated("SES-006", "low", 2, NoCookie(e, LAMBDA c : c.sessionNamed /\ c.maxAgeDays > 30))

SesChecks(e) ==
    {CookiesSecure(e), CookiesHttpOnly(e), CookiesSamesiteSet(e),
     CookiesSamesiteNoneRequiresSecure(e), NoSessionIdInUrl(e), CookieLifetimeSane(e)}

(***************************************************************************)
(* LEG and CMP: legal pages and consent, read from the page body.          *)
(***************************************************************************)
HasLink(e, link) == Requires(e.http, PassIf(link \in e.http.body))
Holds(e, needles) == e.http.body \cap needles # {}

PrivacyPolicyLinked(e) == Indicated("LEG-001", "medium", 3, HasLink(e, "privacy_link"))
TermsLinked(e) == Indicated("LEG-002", "low", 2, HasLink(e, "terms_link"))
CookiePolicyLinked(e) == Indicated("LEG-003", "low", 2, HasLink(e, "cookie_link"))
ContactInfoPresent(e) == Indicated("LEG-004", "low", 1, HasLink(e, "contact_link"))

LegChecks(e) == {PrivacyPolicyLinked(e), TermsLinked(e), CookiePolicyLinked(e), ContactInfoPresent(e)}

\* A rule that concerns a page only when it holds one of the subjects.
Concerning(e, subjects, verdict) ==
    Requires(e.http, IF Holds(e, subjects) THEN verdict ELSE "not_applicable")

TrackerWithoutConsentLibrary(e) ==
    Indicated("CMP-001", "medium", 3, Concerning(e, {"ga", "pixel"}, PassIf(Holds(e, {"consent_library"}))))

\* Mutant: consent mode is looked for beside a consent library only.
GaModeBesideLibrary(e) ==
    Indicated("CMP-002", "low", 2, Concerning(e, {"consent_library"}, PassIf(Holds(e, {"consent_mode"}))))

GaUsesConsentMode(e) ==
    Indicated("CMP-002", "low", 2, Concerning(e, {"ga"}, PassIf(Holds(e, {"consent_mode"}))))

NoPrecheckedMarketingCheckbox(e) ==
    Indicated("CMP-003", "medium", 2, Requires(e.http, FailIf(Holds(e, {"prechecked_marketing"}))))
ConsentNoticeReferencesPrivacyPolicy(e) ==
    Indicated("CMP-004", "low", 1, Concerning(e, {"cookie_word"}, PassIf(Holds(e, {"privacy_near_cookie"}))))

CmpChecks(e) ==
    {TrackerWithoutConsentLibrary(e), GaUsesConsentMode(e), NoPrecheckedMarketingCheckbox(e),
     ConsentNoticeReferencesPrivacyPolicy(e)}

(***************************************************************************)
(* DEP: the page's script tags, each [crossOrigin, origin, integrity, old, *)
(* unpinned].                                                              *)
(***************************************************************************)
NoScript(e, Bad(_)) == Requires(e.http, FailIf(\E s \in e.http.scripts : Bad(s)))
CrossOrigin(e) == {s \in e.http.scripts : s.crossOrigin}

SriPresentOnThirdPartyScripts(e) ==
    Confirmed("DEP-001", "medium", 4, NoScript(e, LAMBDA s : s.crossOrigin /\ ~s.integrity))
NoKnownOldLibrary(e) == Indicated("DEP-002", "medium", 3, NoScript(e, LAMBDA s : s.old))
BoundedThirdPartyOrigins(e) ==
    Indicated("DEP-003", "low", 1,
        Requires(e.http, PassIf(Cardinality({s.origin : s \in CrossOrigin(e)}) <= 8)))
NoUnpinnedCdnVersion(e) == Indicated("DEP-004", "medium", 3, NoScript(e, LAMBDA s : s.unpinned))

DepChecks(e) ==
    {SriPresentOnThirdPartyScripts(e), NoKnownOldLibrary(e), BoundedThirdPartyOrigins(e),
     NoUnpinnedCdnVersion(e)}

(***************************************************************************)
(* CLI: the text of the fetched scripts.  A script that was not fetched    *)
(* has an empty excerpt.                                                   *)
(***************************************************************************)
AllScriptText(bundle) == UNION {s.excerpt : s \in bundle}
NotInScripts(e, needle) == Requires(e.bundle, FailIf(needle \in AllScriptText(e.bundle)))

NoAwsKey(e) == Confirmed("CLI-001", "critical", 9, NotInScripts(e, "aws_key"))
NoStripeSecret(e) == Confirmed("CLI-002", "critical", 10, NotInScripts(e, "stripe_key"))
NoSlackToken(e) == Confirmed("CLI-003", "high", 7, NotInScripts(e, "slack_token"))
NoGithubGitlabToken(e) == Confirmed("CLI-004", "critical", 9, NotInScripts(e, "vcs_token"))
NoPrivateKeyBlock(e) == Confirmed("CLI-005", "critical", 10, NotInScripts(e, "private_key"))
NoGenericSecret(e) == Indicated("CLI-006", "medium", 4, NotInScripts(e, "generic_secret"))
NoSourceMapComment(e) == Confirmed("CLI-007", "low", 2, NotInScripts(e, "source_map"))
NoDevBuildMarker(e) == Indicated("CLI-008", "low", 2, NotInScripts(e, "dev_marker"))
BoundedConsoleCalls(e) ==
    Indicated("CLI-009", "info", 1,
        Requires(e.bundle, PassIf(MapThenSumSet(LAMBDA s : s.console, e.bundle) <= 10)))
NoHardcodedInternalHostname(e) == Indicated("CLI-010", "low", 2, NotInScripts(e, "internal_host"))

CliChecks(e) ==
    {NoAwsKey(e), NoStripeSecret(e), NoSlackToken(e), NoGithubGitlabToken(e), NoPrivateKeyBlock(e),
     NoGenericSecret(e), NoSourceMapComment(e), NoDevBuildMarker(e), BoundedConsoleCalls(e),
     NoHardcodedInternalHostname(e)}

(***************************************************************************)
(* EXP: conventional files (passive) and hidden paths (active).            *)
(***************************************************************************)
Informational(e) == Requires(e.wellknown, "passed")
Hidden(e, id, severity, confidence, weight, kind) ==
    CheckOf("active", id, severity, confidence, weight, Requires(e.paths, FailIf(kind \in e.paths)))

SecurityTxtPresent(e) ==
    Confirmed("EXP-001", "low", 1, Requires(e.wellknown, PassIf("security_txt" \in e.wellknown)))
RobotsTxtPresent(e) == Confirmed("EXP-002", "info", 0, Informational(e))
SitemapPresent(e) == Confirmed("EXP-003", "info", 0, Informational(e))
ManifestPresent(e) == Confirmed("EXP-004", "info", 0, Informational(e))
NoVerboseErrorPage(e) ==
    Confirmed("EXP-005", "high", 6, Requires(e.http, FailIf("stack_trace" \in e.http.body)))
NoRepoMetadataExposed(e) == Hidden(e, "EXP-006", "critical", "confirmed", 9, "repo_metadata")
NoBackupArtefactsExposed(e) == Hidden(e, "EXP-007", "critical", "confirmed", 9, "backup_artefact")
NoExposedConfigFiles(e) == Hidden(e, "EXP-008", "critical", "confirmed", 9, "exposed_config")
NoDebugRoutesExposed(e) == Hidden(e, "EXP-009", "medium", "confirmed", 5, "debug_route")
NoTestRoutesExposed(e) == Hidden(e, "EXP-010", "low", "indicated", 3, "test_route")
NoDirectoryListingEnabled(e) == Hidden(e, "EXP-011", "medium", "indicated", 5, "directory_listing")
NoDefaultAdminPanelExposed(e) == Hidden(e, "EXP-012", "low", "indicated", 2, "admin_panel")

ExpChecks(e) ==
    {SecurityTxtPresent(e), RobotsTxtPresent(e), SitemapPresent(e), ManifestPresent(e),
     NoVerboseErrorPage(e), NoRepoMetadataExposed(e), NoBackupArtefactsExposed(e),
     NoExposedConfigFiles(e), NoDebugRoutesExposed(e), NoTestRoutesExposed(e),
     NoDirectoryListingEnabled(e), NoDefaultAdminPanelExposed(e)}

(***************************************************************************)
(* DAT: the detected backends.                                             *)
(***************************************************************************)
NoBackend(e, Bad(_)) == Requires(e.backends, FailIf(\E b \in e.backends : Bad(b)))

NoServiceRoleKeyExposed(e) ==
    Confirmed("DAT-001", "critical", 10, NoBackend(e, LAMBDA b : b.role = "service_role"))
SupabaseSchemaNotIntrospectable(e) ==
    Indicated("DAT-002", "high", 7,
        NoBackend(e, LAMBDA b : b.provider = "supabase" /\ b.role = "anon" /\ b.open))
FirebaseNotPubliclyReadable(e) ==
    Confirmed("DAT-003", "critical", 10, NoBackend(e, LAMBDA b : b.provider = "firebase" /\ b.open))
NoPublicBucketListing(e) ==
    Confirmed("DAT-004", "high", 7, NoBackend(e, LAMBDA b : b.provider \in {"s3", "gcs"} /\ b.open))

DatChecks(e) ==
    {NoServiceRoleKeyExposed(e), SupabaseSchemaNotIntrospectable(e), FirebaseNotPubliclyReadable(e),
     NoPublicBucketListing(e)}

(***************************************************************************)
(* The registry, the plan for a tier, and the findings of a bundle: one    *)
(* finding for each planned check.                                         *)
(***************************************************************************)
Registry(e) ==
    HdrChecks(e) \cup TlsChecks(e) \cup SesChecks(e) \cup LegChecks(e) \cup DepChecks(e)
        \cup CmpChecks(e) \cup CliChecks(e) \cup ExpChecks(e) \cup DatChecks(e)

\* Mutant: every check is planned and lacks its evidence when passive.
WholeRegistry(registry, tier) == registry

PlanRegistry(registry, tier) == {c \in registry : c.tier = "passive" \/ tier = "active"}

Findings(e, tier) == PlanRegistry(Registry(e), tier)

With(findings, verdict) == {f \in findings : f.verdict = verdict}
Ids(findings) == {f.id : f \in findings}
Failures(e, tier) == Ids(With(Findings(e, tier), "failed"))

(***************************************************************************)
(* The score, in twentieths of a point: severity multiplier (1, 0.6, 0.3,  *)
(* 0.1, 0) times confidence factor (1, 0.5).                               *)
(***************************************************************************)
SeverityMultiplier == [critical |-> 10, high |-> 6, medium |-> 3, low |-> 1, info |-> 0]
ConfidenceFactor == [confirmed |-> 2, indicated |-> 1]

Deduction(f) == f.weight * SeverityMultiplier[f.severity] * ConfidenceFactor[f.confidence]

Score(findings) ==
    Max({0, 2000 - MapThenSumSet(Deduction, With(findings, "failed"))})

GradeFor(value) ==
    CASE value >= 1800 -> "A" [] value \in 1500 .. 1799 -> "B" [] value \in 1200 .. 1499 -> "C"
      [] value \in 800 .. 1199 -> "D" [] OTHER -> "F"

(***************************************************************************)
(* The outputs a pipeline gates on.                                        *)
(***************************************************************************)
\* Mutant: high findings are reported as warnings.
HighIsWarning ==
    [critical |-> "error", high |-> "warning", medium |-> "warning", low |-> "note", info |-> "note"]

FailedLevel ==
    [critical |-> "error", high |-> "error", medium |-> "warning", low |-> "note", info |-> "note"]

SarifResult(f) ==
    [rule |-> f.id, level |-> IF f.verdict = "inconclusive" THEN "note" ELSE FailedLevel[f.severity]]

SarifReport(findings, suppressed) ==
    {SarifResult(f) : f \in {g \in findings : /\ g.verdict \in {"failed", "inconclusive"}
                                              /\ g.id \notin suppressed}}

SeverityOrder == [critical |-> 0, high |-> 1, medium |-> 2, low |-> 3, info |-> 4]

BreachesThreshold(findings, failOn) ==
    \E f \in With(findings, "failed") : SeverityOrder[f.severity] <= SeverityOrder[failOn]

=============================================================================
