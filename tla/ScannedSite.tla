----------------------------- MODULE ScannedSite -----------------------------
(***************************************************************************)
(* The environment of a probe run: what the scanned site serves.  A site   *)
(* is a well-kept one but for a set D of deviations, each a thing that     *)
(* some check of the registry is there to report, or a shape of the site   *)
(* that changes what the probes get to see: "redirected" (one redirect to  *)
(* another host), "path_redirect" (the root redirects to a path of the     *)
(* same origin), "no_location" (a 3xx without Location), "long_page" (the  *)
(* foot of the page lies past the body excerpt) and "many_scripts".        *)
(***************************************************************************)
EXTENDS Integers, Sequences, FiniteSets

Secrets == {"aws_key", "stripe_key", "slack_token", "vcs_token", "private_key", "generic_secret",
            "source_map", "dev_marker", "internal_host"}
HiddenKinds == {"repo_metadata", "backup_artefact", "exposed_config", "debug_route", "test_route",
                "directory_listing", "admin_panel"}
Intrusions == {"mixed_content", "session_in_url", "prechecked_marketing", "stack_trace"}
Shapes == {"http", "redirected", "path_redirect", "no_location", "long_page", "many_scripts"}
Deviations ==
    Secrets \cup HiddenKinds \cup Intrusions \cup Shapes \cup
    {"hsts_none", "hsts_short", "hsts_narrow", "csp_none", "csp_inline", "frames", "sniffing",
     "referrer_none", "referrer_unsafe", "no_permissions", "server_version", "powered_by", "no_type",
     "cert_bad", "cert_soon", "cert_long", "protocol_weak", "cipher_weak",
     "cookie_insecure", "cookie_script", "cookie_none", "cookie_plain", "cookie_long",
     "no_privacy", "no_terms", "no_cookies", "no_contact", "no_consent", "no_mode", "bare_notice",
     "sri_none", "old_library", "unpinned", "console", "no_security_txt",
     "service_key", "supabase_open", "firebase_open", "s3_open", "gcs_open"}

Unless(D, deviation, things) == IF deviation \in D THEN {} ELSE things
Given(D, deviation, things) == IF deviation \in D THEN things ELSE {}

(***************************************************************************)
(* The page: headers, cookies, the needles of its head and of its foot.    *)
(***************************************************************************)
Cookies(D) ==
    {[name |-> "session", secure |-> "cookie_insecure" \notin D, httpOnly |-> "cookie_script" \notin D,
      sameSite |-> IF "cookie_none" \in D THEN "none" ELSE "lax", sessionNamed |-> TRUE,
      maxAgeDays |-> IF "cookie_long" \in D THEN 365 ELSE 1],
     [name |-> "theme", secure |-> TRUE, httpOnly |-> TRUE,
      sameSite |-> IF "cookie_plain" \in D THEN "" ELSE "lax", sessionNamed |-> FALSE,
      maxAgeDays |-> 365]}

Hsts(D) ==
    Unless(D, "hsts_none", {IF "hsts_short" \in D THEN "max-age-short" ELSE "max-age-long"}
                              \cup Unless(D, "hsts_narrow", {"includesubdomains"}))

Csp(D) ==
    [d \in Unless(D, "csp_none", {"default-src"}) |-> {"self"} \cup Given(D, "csp_inline", {"unsafe-inline"})]

TopOfPage(D) ==
    {"ga"} \cup Unless(D, "no_consent", {"consent_library"}) \cup Unless(D, "no_mode", {"consent_mode"})
        \cup (D \cap Intrusions)

Foot(D) ==
    {"cookie_word"} \cup Unless(D, "bare_notice", {"privacy_near_cookie"})
        \cup Unless(D, "no_privacy", {"privacy_link"}) \cup Unless(D, "no_terms", {"terms_link"})
        \cup Unless(D, "no_cookies", {"cookie_link"}) \cup Unless(D, "no_contact", {"contact_link"})

(***************************************************************************)
(* Its scripts: a third-party widget (1) and its own application (2); a    *)
(* page of many scripts loads eight others (11 to 18) before them.         *)
(***************************************************************************)
Widget == 1
App == 2

Tag(D, url) ==
    [url |-> url, crossOrigin |-> url # App, origin |-> url,
     integrity |-> ~(url = Widget /\ "sri_none" \in D),
     old       |-> url = Widget /\ "old_library" \in D,
     unpinned  |-> url = Widget /\ "unpinned" \in D]

ScriptTags(D) ==
    LET urls == IF "many_scripts" \in D THEN [i \in 1..8 |-> 10 + i] \o <<Widget, App>> ELSE <<Widget, App>>
    IN  [i \in DOMAIN urls |-> Tag(D, urls[i])]

ScriptText(D, url) ==
    CASE url = Widget -> Given(D, "service_key", {"jwt_service"})
      [] url = App -> (D \cap Secrets) \cup {"supabase_url", "jwt_anon"}
                        \cup Given(D, "firebase_open", {"firebase_url"})
                        \cup Given(D, "s3_open", {"s3_url"}) \cup Given(D, "gcs_open", {"gcs_url"})
      [] OTHER -> {}

ConsoleCalls(D, url) == IF url = App /\ "console" \in D THEN 12 ELSE 1

OpenBackends(D) ==
    Given(D, "supabase_open", {"supabase"}) \cup Given(D, "firebase_open", {"firebase"})
        \cup Given(D, "s3_open", {"s3"}) \cup Given(D, "gcs_open", {"gcs"})

(***************************************************************************)
(* The whole site.  A site that redirects answers every path of the        *)
(* scanned host with the redirect.  "hops" is the number of redirects the  *)
(* probe meets: it asks each origin for "/" and never for the redirect's   *)
(* path, so a redirect to a path of the same origin has no end.            *)
(***************************************************************************)
Endless == 100

Site(D) ==
    [https    |-> "http" \notin D,
     hops     |-> IF "path_redirect" \in D THEN Endless ELSE IF "redirected" \in D THEN 1 ELSE 0,
     location |-> "no_location" \notin D,
     page     |-> [hsts |-> Hsts(D), csp |-> Csp(D), cookies |-> Cookies(D),
                   nosniff |-> IF "sniffing" \in D THEN "" ELSE "nosniff",
                   xfo |-> IF "frames" \in D THEN "" ELSE "deny",
                   referrer |-> IF "referrer_none" \in D THEN ""
                                ELSE IF "referrer_unsafe" \in D THEN "unsafe-url" ELSE "no-referrer",
                   permissions |-> "no_permissions" \notin D,
                   server |-> IF "server_version" \in D THEN "versioned" ELSE "plain",
                   poweredBy |-> "powered_by" \in D],
     typed    |-> "no_type" \notin D,
     excerpt  |-> TopOfPage(D) \cup Unless(D, "long_page", Foot(D)),
     scripts  |-> ScriptTags(D),
     text     |-> [u \in {t.url : t \in {ScriptTags(D)[i] : i \in DOMAIN ScriptTags(D)}} |-> ScriptText(D, u)],
     console  |-> [u \in {t.url : t \in {ScriptTags(D)[i] : i \in DOMAIN ScriptTags(D)}} |-> ConsoleCalls(D, u)],
     cert     |-> [verified |-> "cert_bad" \notin D,
                   hoursLeft |-> 24 * (IF "cert_soon" \in D THEN 10 ELSE 90),
                   validity |-> IF "cert_long" \in D THEN 825 ELSE 90,
                   protocol |-> IF "protocol_weak" \in D THEN "weak" ELSE "modern",
                   cipher |-> IF "cipher_weak" \in D THEN "weak" ELSE "strong"],
     files    |-> {"robots_txt"} \cup Unless(D, "no_security_txt", {"security_txt"}),
     hidden   |-> D \cap HiddenKinds,
     open     |-> OpenBackends(D)]

=============================================================================
