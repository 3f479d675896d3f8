------------------------------- MODULE Access -------------------------------
(***************************************************************************)
(* What an account lends to others and can take back: share links to a     *)
(* report, API keys, and the per-minute rate limit of the public API.      *)
(*                                                                         *)
(* A request is one HTTP request, handled statement by statement in a      *)
(* READ COMMITTED transaction beside all the others; session.get reads the *)
(* row again (nothing keeps the object of an earlier read alive) and an    *)
(* UPDATE writes the columns that changed.  The counter of the rate limit  *)
(* is a Redis key: INCR and EXPIRE are two commands.                       *)
(***************************************************************************)
EXTENDS Naturals, FiniteSets

CONSTANTS
  Requests,   \* HTTP requests, each handled at most once
  Links,      \* the share links that may be made
  Keys,       \* the API keys of the account
  RateLimit,  \* [plan |-> requests per minute], for the paid plans
  Window,     \* the time to live of a counter, in ticks
  None        \* no value: no limit, no time to live

ASSUME AccessAssumption ==
  /\ \A p \in DOMAIN RateLimit : RateLimit[p] \in Nat \ {0}
  /\ "free" \notin DOMAIN RateLimit
  /\ Window \in Nat \ {0}
  /\ IsFiniteSet(Requests)
  /\ Links \cap Keys = {}
  /\ None \notin Nat \cup Links \cup Keys

VARIABLES
  plan,     \* accounts.plan_id
  html,     \* TRUE when the scan's "html" row of reports exists
  link,     \* share_links
  revoked,  \* the keys whose api_keys.revoked_at is set
  used,     \* the keys whose api_keys.last_used_at is set
  bucket,   \* the counter ratelimit:<account>, and the windows before it
  request,  \* the state of every request's handler
  taken     \* history: what the owner revoked

accessVars == <<plan, html, link, revoked, used, bucket, request, taken>>

Plans == DOMAIN RateLimit \cup {"free"}

ShareLinksAllowed(p) == p # "free"

\* PLANS: the free plan has no api_rate_limit_per_minute.
LimitOf(p) == IF p = "free" THEN None ELSE RateLimit[p]

\* INCR of a key that does not exist makes it.  "n" numbers the windows.
NoCounter(n) == [count |-> 0, ttl |-> None, age |-> 0, n |-> n]

Idle == [at |-> "idle", of |-> None, read |-> None, late |-> FALSE,
         limit |-> None, window |-> None, count |-> None]

AccessInit ==
  /\ plan \in Plans
  /\ html = FALSE
  /\ link = [l \in Links |-> [made |-> FALSE, revoked |-> FALSE,
                              expired |-> FALSE, views |-> 0]]
  /\ revoked = {}
  /\ used = {}
  /\ bucket = NoCounter(0)
  /\ request = [r \in Requests |-> Idle]
  /\ taken = {}

\* The handler of r answers or goes on; nothing else of its state changes.
Answers(r, answer) == request' = [request EXCEPT ![r].at = answer]

-----------------------------------------------------------------------------
(* POST and GET /v1/scans/{id}/share-links                                 *)

\* The entitlement of the account and whether the report has its row.
BeginCreateLink(r, l) ==
  /\ request[r].at = "idle"
  /\ ~link[l].made
  /\ \A q \in Requests : request[q].of # l
  /\ ShareLinksAllowed(plan)
  /\ request' = [request EXCEPT ![r].at = "insert", ![r].of = l,
                                ![r].read = html]
  /\ UNCHANGED <<plan, html, link, revoked, used, bucket, taken>>

\* The list route makes the row as well.
BeginListLinks(r) ==
  /\ request[r].at = "idle"
  /\ request' = [request EXCEPT ![r].at = "insert", ![r].read = html]
  /\ UNCHANGED <<plan, html, link, revoked, used, bucket, taken>>

\* The row is inserted when it was not there; a second insert of it breaks
\* the unique constraint and takes the link with it.
ReportConflicts(r) == html /\ ~request[r].read

FinishShare(r) ==
  /\ request[r].at = "insert"
  /\ ~ReportConflicts(r)
  /\ html' = TRUE
  /\ link' = IF request[r].of = None THEN link
             ELSE [link EXCEPT ![request[r].of].made = TRUE]
  /\ Answers(r, "done")
  /\ UNCHANGED <<plan, revoked, used, bucket, taken>>

ShareFails(r) ==
  /\ request[r].at = "insert"
  /\ ReportConflicts(r)
  /\ Answers(r, "failed")
  /\ UNCHANGED <<plan, html, link, revoked, used, bucket, taken>>

-----------------------------------------------------------------------------
(* Taking back, and time.                                                  *)

RevokeLink(l) ==
  /\ link[l].made
  /\ link' = [link EXCEPT ![l].revoked = TRUE]
  /\ taken' = taken \cup {l}
  /\ UNCHANGED <<plan, html, revoked, used, bucket, request>>

RevokeKey(k) ==
  /\ revoked' = revoked \cup {k}
  /\ taken' = taken \cup {k}
  /\ UNCHANGED <<plan, html, link, used, bucket, request>>

LinkExpires(l) ==
  /\ link[l].made /\ ~link[l].expired
  /\ link' = [link EXCEPT ![l].expired = TRUE]
  /\ UNCHANGED <<plan, html, revoked, used, bucket, request, taken>>

\* A subscription event; the account keeps its keys and links.
PlanChanges(p) ==
  /\ p # plan
  /\ plan' = p
  /\ UNCHANGED <<html, link, revoked, used, bucket, request, taken>>

-----------------------------------------------------------------------------
(* GET /v1/share/{token}                                                   *)

ReadLink(r, l) ==
  /\ request[r].at = "idle"
  /\ link[l].made
  /\ request' = [request EXCEPT
       ![r].at   = IF link[l].revoked \/ link[l].expired THEN "refused"
                   ELSE "render",
       ![r].of   = l,
       ![r].late = l \in taken]
  /\ UNCHANGED <<plan, html, link, revoked, used, bucket, taken>>

\* The report is rendered, then record_share_link_view reads the row again.
ReadViews(r) ==
  /\ request[r].at = "render"
  /\ request' = [request EXCEPT ![r].at = "count",
                                ![r].read = link[request[r].of].views]
  /\ UNCHANGED <<plan, html, link, revoked, used, bucket, taken>>

\* Mutant: the whole row is written back, as it was when it was resolved.
RecordViewWholeRow(r) ==
  /\ request[r].at = "count"
  /\ link' = [link EXCEPT ![request[r].of].views = request[r].read + 1,
                          ![request[r].of].revoked = FALSE]
  /\ Answers(r, "viewed")
  /\ UNCHANGED <<plan, html, revoked, used, bucket, taken>>

RecordView(r) ==
  /\ request[r].at = "count"
  /\ link' = [link EXCEPT ![request[r].of].views = request[r].read + 1]
  /\ Answers(r, "viewed")
  /\ UNCHANGED <<plan, html, revoked, used, bucket, taken>>

-----------------------------------------------------------------------------
(* require_api_key, require_scope and check_rate                           *)

ReadKey(r, k) ==
  /\ request[r].at = "idle"
  /\ request' = [request EXCEPT
       ![r].at    = IF k \in revoked THEN "refused" ELSE "stamp",
       ![r].of    = k,
       ![r].late  = k \in taken,
       ![r].limit = LimitOf(plan)]
  /\ UNCHANGED <<plan, html, link, revoked, used, bucket, taken>>

\* mark_api_key_used writes its column and is committed by itself.
StampKey(r) ==
  /\ request[r].at = "stamp"
  /\ used' = used \cup {request[r].of}
  /\ Answers(r, "scope")
  /\ UNCHANGED <<plan, html, link, revoked, bucket, taken>>

ScopeMissing(r) ==
  /\ request[r].at = "scope"
  /\ Answers(r, "refused")
  /\ UNCHANGED <<plan, html, link, revoked, used, bucket, taken>>

Unlimited(r) ==
  /\ request[r].at = "scope"
  /\ request[r].limit = None
  /\ Answers(r, "admitted")
  /\ UNCHANGED <<plan, html, link, revoked, used, bucket, taken>>

\* Mutant: the time to live is set on every increment.
IncrAlwaysExpires(r) ==
  /\ request[r].at = "scope"
  /\ request[r].limit # None
  /\ bucket' = [bucket EXCEPT !.count = @ + 1]
  /\ request' = [request EXCEPT
       ![r].at     = "expire",
       ![r].window = bucket.n,
       ![r].count  = bucket.count + 1]
  /\ UNCHANGED <<plan, html, link, revoked, used, taken>>

Incr(r) ==
  /\ request[r].at = "scope"
  /\ request[r].limit # None
  /\ bucket' = [bucket EXCEPT !.count = @ + 1]
  /\ request' = [request EXCEPT
       ![r].at     = IF bucket.count = 0 THEN "expire" ELSE "decide",
       ![r].window = bucket.n,
       ![r].count  = bucket.count + 1]
  /\ UNCHANGED <<plan, html, link, revoked, used, taken>>

\* EXPIRE of a key that is gone does nothing.
SetExpiry(r) ==
  /\ request[r].at = "expire"
  /\ bucket' = IF bucket.count = 0 THEN bucket
               ELSE [bucket EXCEPT !.ttl = Window]
  /\ Answers(r, "decide")
  /\ UNCHANGED <<plan, html, link, revoked, used, taken>>

Decide(r) ==
  /\ request[r].at = "decide"
  /\ Answers(r, IF request[r].count <= request[r].limit THEN "admitted"
                ELSE "refused")
  /\ UNCHANGED <<plan, html, link, revoked, used, bucket, taken>>

\* Redis counts the time to live down and drops the key at its end.
Tick ==
  /\ bucket.ttl # None
  /\ bucket' = IF bucket.ttl = 1 THEN NoCounter(bucket.n + 1)
               ELSE [bucket EXCEPT !.ttl = @ - 1, !.age = @ + 1]
  /\ UNCHANGED <<plan, html, link, revoked, used, request, taken>>

\* The process dies, or a command of the handler fails.
HandlerLost(r) ==
  /\ request[r].at \in {"insert", "render", "count", "stamp", "scope",
                        "expire", "decide"}
  /\ Answers(r, IF request[r].at = "expire" THEN "orphaned" ELSE "lost")
  /\ UNCHANGED <<plan, html, link, revoked, used, bucket, taken>>

-----------------------------------------------------------------------------
Handle(r) ==
  \/ \E l \in Links : BeginCreateLink(r, l) \/ ReadLink(r, l)
  \/ BeginListLinks(r) \/ FinishShare(r) \/ ShareFails(r)
  \/ ReadViews(r) \/ RecordView(r)
  \/ \E k \in Keys : ReadKey(r, k)
  \/ StampKey(r) \/ ScopeMissing(r) \/ Unlimited(r)
  \/ Incr(r) \/ SetExpiry(r) \/ Decide(r)
  \/ HandlerLost(r)

Owner ==
  \/ \E l \in Links : RevokeLink(l) \/ LinkExpires(l)
  \/ \E k \in Keys : RevokeKey(k)
  \/ \E p \in Plans : PlanChanges(p)

AccessNext == (\E r \in Requests : Handle(r)) \/ Owner \/ Tick

AccessSpec == AccessInit /\ [][AccessNext]_accessVars

-----------------------------------------------------------------------------
\* What the owner took back stays taken back, whatever requests were under
\* way and write their counters afterwards, and no request that presents it
\* from then on is served (routers/share_links.py resolve_share,
\* api_key_auth.py require_api_key).
RevocationHolds ==
  /\ \A l \in Links \cap taken : link[l].revoked
  /\ Keys \cap taken \subseteq revoked
  /\ \A r \in Requests : request[r].late =>
       request[r].at = "refused"

\* The requests of window n that check_rate let through.
Admitted(n) == {r \in Requests : /\ request[r].at = "admitted"
                                 /\ request[r].window = n}

\* However the increments interleave with each other, with the end of a
\* window and with changes of the plan, no window lets through more than the
\* largest limit that was read for one of its requests.
RateIsBounded ==
  \A n \in 0 .. bucket.n : \A ceiling \in {LimitOf(p) : p \in Plans} \ {None} :
    (\A r \in Requests : request[r].window = n => request[r].limit <= ceiling)
      => Cardinality(Admitted(n)) <= ceiling

\* A window ends: its counter has a time to live that later requests do not
\* extend, unless the handler that was to set it has yet to, or died first
\* (rate_limit.py:52-53, "a burst of requests doesn't keep extending it").
WindowEnds ==
  bucket.count > 0 =>
    \/ bucket.ttl # None /\ bucket.age < Window
    \/ \E r \in Requests : /\ request[r].window = bucket.n
                           /\ request[r].at \in {"expire", "orphaned"}

\* The view counter of a link never tells of more views than were served.
ViewsWereServed ==
  \A l \in Links : link[l].views <=
    Cardinality({r \in Requests : /\ request[r].at = "viewed"
                                  /\ request[r].of = l})

\* The counters under concurrent requests: the rate limit lets through what
\* it should and its window ends, and the views were served.
CountersHold == RateIsBounded /\ WindowEnds /\ ViewsWereServed
=============================================================================
