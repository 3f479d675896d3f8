----------------------------- MODULE MCProbeRun -----------------------------
(***************************************************************************)
(* Instances of ProbeRun: every site with one deviation and a few with     *)
(* several; a resolver that answers with one or two addresses, one of them *)
(* denied, one denied only through the IPv4 address it maps, or with none. *)
(***************************************************************************)
EXTENDS ProbeRun

Public  == [class |-> "public", mapped |-> None]
Private == [class |-> "private", mapped |-> None]
Mapped  == [class |-> "public", mapped |-> "loopback"]

MCAnswers == {<<>>, <<Public>>, <<Public, Private>>, <<Mapped, Public>>}

MCCandidates ==
    <<"repo_metadata", "backup_artefact", "exposed_config", "debug_route", "test_route",
      "directory_listing", "admin_panel">>

Single == {{d} : d \in Deviations}
Several ==
    {{}, {"supabase_open", "service_key", "aws_key"}, {"cookie_none", "cookie_insecure"},
     {"redirected", "repo_metadata", "cert_bad"}, {"http", "cert_bad", "mixed_content"}}

\* Everything of medium severity or less is wrong at once; everything is.
Sloppy ==
    {"hsts_short", "hsts_narrow", "csp_inline", "frames", "sniffing", "referrer_none", "no_permissions",
     "server_version", "powered_by", "no_type", "cert_soon", "cert_long", "mixed_content",
     "cookie_plain", "cookie_long", "session_in_url", "no_privacy", "no_terms", "no_cookies",
     "no_contact", "no_consent", "no_mode", "bare_notice", "prechecked_marketing", "sri_none",
     "old_library", "unpinned", "generic_secret", "source_map", "dev_marker", "internal_host",
     "console", "no_security_txt", "debug_route", "test_route", "directory_listing", "admin_panel"}
Worst == Deviations \ Shapes

MCScenarios == Single \cup Several \cup {Sloppy, Worst}
FewScenarios == {{"aws_key"}}

=============================================================================
