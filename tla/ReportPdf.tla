----------------------------- MODULE ReportPdf -----------------------------
(***************************************************************************)
(* The PDF export of one scan's report, end to end:                        *)
(*                                                                         *)
(*   apps/web .../ExportPdfButton.tsx  a click POSTs, then polls with GET  *)
(*       every two seconds while the answer is "pending";                  *)
(*   apps/api .../routers/reports.py   both routes call                    *)
(*       get_or_create_pdf_report; only POST looks at should_render;       *)
(*   packages/orchestrator .../reports.py   the row of reports;            *)
(*   packages/orchestrator .../jobs.py      render_report_pdf_job.         *)
(*                                                                         *)
(* A request reads the row in one statement and writes it in a later one,  *)
(* with nothing locked between them (READ COMMITTED); the unique           *)
(* (scan_id, format) refuses a second insert.  The worker's marking         *)
(* transactions do the same.  A flush writes only the columns whose value  *)
(* differs from what the transaction has read (SQLAlchemy's unit of work). *)
(***************************************************************************)
EXTENDS Naturals, FiniteSets

CONSTANTS
  Browsers,   \* pages with an Export PDF button
  Pollers,    \* other clients of the unauthenticated GET route
  MaxClicks,  \* bound of the model: clicks per browser
  Faults,     \* the kinds of fault the environment may inject
  MaxFaults,  \* bound of the model: how many faults happen in all
  NoReport    \* the row does not exist

FaultKinds == {"render", "crash", "abort", "lost"}

ASSUME ReportAssumption ==
  /\ MaxClicks \in Nat
  /\ MaxFaults \in Nat
  /\ Faults \subseteq FaultKinds
  /\ Browsers \intersect Pollers = {}

Clients == Browsers \union Pollers

\* The render job a browser's n-th POST may enqueue.
Renders == Browsers \X (1 .. MaxClicks)

Rows == [status : {"pending", "complete", "failed"}, uri : BOOLEAN]

ASSUME NoReportAssumption == NoReport \notin Rows

VARIABLES
  report,   \* the row with format "pdf", or NoReport
  stored,   \* the object store holds a PDF under the report's id
  render,   \* the state of every render job
  seen,     \* the row as its marking transaction has read it
  request,  \* the request each client has in flight
  button,   \* what each browser's button shows
  clicks,   \* clicks on it so far
  failures, \* renders that failed so far
  faults    \* faults injected so far

vars == <<report, stored, render, seen, request, button, clicks, failures, faults>>

NoRequest == [at |-> "none"]

Fault(kind) ==
  /\ kind \in Faults
  /\ faults < MaxFaults
  /\ faults' = faults + 1

Init ==
  /\ report   = NoReport
  /\ stored   = FALSE
  /\ render   = [k \in Renders |-> "none"]
  /\ seen     = [k \in Renders |-> NoReport]
  /\ request  = [c \in Clients |-> NoRequest]
  /\ button   = [b \in Browsers |-> "idle"]
  /\ clicks   = [b \in Browsers |-> 0]
  /\ failures = 0
  /\ faults   = 0

-----------------------------------------------------------------------------
(* The browser.                                                            *)

Send(c, method) ==
  request' = [request EXCEPT ![c] = [at |-> "read", method |-> method]]

\* handleClick: the button is disabled while pending, a link when complete.
Click(b) ==
  /\ button[b] \in {"idle", "failed"}
  /\ clicks[b] < MaxClicks
  /\ clicks' = [clicks EXCEPT ![b] = @ + 1]
  /\ button' = [button EXCEPT ![b] = "pending"]
  /\ Send(b, "POST")
  /\ UNCHANGED <<report, stored, render, seen, failures, faults>>

\* while (result.status === "pending") { wait; getReportPdfStatus }
PollAgain(b) ==
  /\ button[b] = "pending"
  /\ request[b] = NoRequest
  /\ Send(b, "GET")
  /\ UNCHANGED <<report, stored, render, seen, button, clicks, failures, faults>>

\* The page is opened anew, possibly between two polls.
Reload(b) ==
  /\ button[b] # "idle"
  /\ request[b] = NoRequest
  /\ button' = [button EXCEPT ![b] = "idle"]
  /\ UNCHANGED <<report, stored, render, seen, request, clicks, failures, faults>>

PollerAsks(p) ==
  /\ request[p] = NoRequest
  /\ Send(p, "GET")
  /\ UNCHANGED <<report, stored, render, seen, button, clicks, failures, faults>>

\* The response arrives.  Only a GET that answers "complete" carries a
\* download_url, without which the page says the export failed.
Answered(b) ==
  /\ request[b].at = "answer"
  /\ button' = [button EXCEPT ![b] =
       CASE request[b].status = "pending" -> "pending"
         [] request[b].status = "complete" /\ request[b].method = "GET" -> "complete"
         [] OTHER -> "failed"]
  /\ request' = [request EXCEPT ![b] = NoRequest]
  /\ UNCHANGED <<report, stored, render, seen, clicks, failures, faults>>

PollerAnswered(p) ==
  /\ request[p].at = "answer"
  /\ request' = [request EXCEPT ![p] = NoRequest]
  /\ UNCHANGED <<report, stored, render, seen, button, clicks, failures, faults>>

-----------------------------------------------------------------------------
(* The two routes: get_or_create_pdf_report and what follows it.           *)

ReadRow(c) ==
  /\ request[c].at = "read"
  /\ request' = [request EXCEPT ![c] =
       [at |-> "write", method |-> @.method, row |-> report]]
  /\ UNCHANGED <<report, stored, render, seen, button, clicks, failures, faults>>

\* The handler goes on to answer with the given status.
Reply(c, answer) ==
  request' = [request EXCEPT ![c] =
    [at |-> "answer", method |-> @.method, status |-> answer]]

\* The row is now pending: only POST enqueues a render for it.
MadePending(c) ==
  IF request[c].method = "POST"
  THEN request' = [request EXCEPT ![c] = [at |-> "enqueue", method |-> "POST"]]
  ELSE Reply(c, "pending")

InsertRow(c) ==
  /\ request[c].row = NoReport
  /\ report = NoReport
  /\ report' = [status |-> "pending", uri |-> FALSE]
  /\ MadePending(c)

\* Mutant: a conflicting insert is taken for a fresh row.
InsertConflictIgnored(c) ==
  /\ request[c].row = NoReport
  /\ report # NoReport
  /\ MadePending(c)
  /\ UNCHANGED report

\* The unique constraint: the transaction fails, the client gets an error.
InsertConflicts(c) ==
  /\ request[c].row = NoReport
  /\ report # NoReport
  /\ Reply(c, "error")
  /\ UNCHANGED report

\* A failed report is reset.  The flush writes the columns that differ from
\* what was read.
ResetFailed(c) ==
  /\ request[c].row # NoReport
  /\ request[c].row.status = "failed"
  /\ report' = [status |-> "pending",
                uri    |-> IF request[c].row.uri THEN FALSE ELSE report.uri]
  /\ MadePending(c)

ReportAsRead(c) ==
  /\ request[c].row # NoReport
  /\ request[c].row.status # "failed"
  /\ Reply(c, request[c].row.status)
  /\ UNCHANGED report

GetOrCreate(c) ==
  /\ request[c].at = "write"
  /\ InsertRow(c) \/ InsertConflicts(c) \/ ResetFailed(c) \/ ReportAsRead(c)
  /\ UNCHANGED <<stored, render, seen, button, clicks, failures, faults>>

Enqueue(b) ==
  /\ request[b].at = "enqueue"
  /\ render' = [render EXCEPT ![<<b, clicks[b]>>] = "queued"]
  /\ Reply(b, "pending")
  /\ UNCHANGED <<report, stored, seen, button, clicks, failures, faults>>

\* The handler dies before its commit or before its enqueue.
HandlerLost(c) ==
  /\ Fault("lost")
  /\ request[c].at \in {"write", "enqueue"}
  /\ Reply(c, "error")
  /\ UNCHANGED <<report, stored, render, seen, button, clicks, failures>>

-----------------------------------------------------------------------------
(* render_report_pdf_job; an entry that a crashed worker held is delivered *)
(* again (arq, external).                                                  *)

RenderGoes(k, to) == render' = [render EXCEPT ![k] = to]

\* Mutant: a render that was begun once is not begun again.
StartRenderOnce(k) ==
  /\ render[k] = "queued"
  /\ RenderGoes(k, IF report.status = "pending" /\ faults = 0
                   THEN "rendering" ELSE "done")
  /\ UNCHANGED <<report, stored, seen, request, button, clicks, failures, faults>>

\* The first transaction: only a pending report is rendered.
StartRender(k) ==
  /\ render[k] = "queued"
  /\ RenderGoes(k, IF report.status = "pending" THEN "rendering" ELSE "done")
  /\ UNCHANGED <<report, stored, seen, request, button, clicks, failures, faults>>

\* Mutant: the report is marked complete before the PDF is stored.
RenderUnstored(k) ==
  /\ render[k] = "rendering"
  /\ RenderGoes(k, "rendered")
  /\ UNCHANGED <<report, stored, seen, request, button, clicks, failures, faults>>

\* render_pdf and put_report_pdf succeed.
RenderSucceeds(k) ==
  /\ render[k] = "rendering"
  /\ stored' = TRUE
  /\ RenderGoes(k, "rendered")
  /\ UNCHANGED <<report, seen, request, button, clicks, failures, faults>>

\* PdfRenderError or ObjectStoreError.
RenderFails(k) ==
  /\ Fault("render")
  /\ render[k] = "rendering"
  /\ RenderGoes(k, "broken")
  /\ UNCHANGED <<report, stored, seen, request, button, clicks, failures>>

\* The marking transaction reads the row.
ReadToMark(k, next) ==
  /\ seen' = [seen EXCEPT ![k] = report]
  /\ RenderGoes(k, next)
  /\ UNCHANGED <<report, stored, request, button, clicks, failures, faults>>

BeginMarkComplete(k) == render[k] = "rendered" /\ ReadToMark(k, "completing")

BeginMarkFailed(k) == render[k] = "broken" /\ ReadToMark(k, "failing")

\* The job has ended.
RenderEnds(k, how) ==
  /\ RenderGoes(k, how)
  /\ seen' = [seen EXCEPT ![k] = NoReport]

\* mark_report_complete.
MarkComplete(k) ==
  /\ render[k] = "completing"
  /\ report' = [status |-> IF seen[k].status = "complete" THEN report.status
                                                         ELSE "complete",
                uri    |-> report.uri \/ ~seen[k].uri]
  /\ RenderEnds(k, "done")
  /\ UNCHANGED <<stored, request, button, clicks, failures, faults>>

\* mark_report_failed: the status only.
MarkFailed(k) ==
  /\ render[k] = "failing"
  /\ report'   = [report EXCEPT !.status = IF seen[k].status = "failed" THEN @
                                                                      ELSE "failed"]
  /\ failures' = failures + 1
  /\ RenderEnds(k, "done")
  /\ UNCHANGED <<stored, request, button, clicks, faults>>

Working == {"rendering", "rendered", "completing", "broken", "failing"}

\* The worker dies or shuts down: the entry returns to the queue.
Crash(k) ==
  /\ Fault("crash")
  /\ render[k] \in Working
  /\ RenderGoes(k, "queued")
  /\ seen' = [seen EXCEPT ![k] = NoReport]
  /\ UNCHANGED <<report, stored, request, button, clicks, failures>>

\* The job timeout, or an exception the job does not catch: no retry.
Abort(k) ==
  /\ Fault("abort")
  /\ render[k] \in Working
  /\ RenderEnds(k, "aborted")
  /\ UNCHANGED <<report, stored, request, button, clicks, failures>>

-----------------------------------------------------------------------------
\* What a browser's page does on its own once it was clicked.
PageStep(b) == PollAgain(b) \/ Answered(b)

\* What a request handler does.
HandlerStep(c) == ReadRow(c) \/ GetOrCreate(c) \/ (c \in Browsers /\ Enqueue(c))

\* What a worker does for a render job.
RenderStep(k) ==
  \/ StartRender(k)
  \/ RenderSucceeds(k)
  \/ RenderFails(k)
  \/ BeginMarkComplete(k)
  \/ BeginMarkFailed(k)
  \/ MarkComplete(k)
  \/ MarkFailed(k)

Next ==
  \/ \E b \in Browsers : Click(b) \/ Reload(b) \/ PageStep(b)
  \/ \E p \in Pollers : PollerAsks(p) \/ PollerAnswered(p)
  \/ \E c \in Clients : HandlerStep(c) \/ HandlerLost(c)
  \/ \E k \in Renders : RenderStep(k) \/ Crash(k) \/ Abort(k)

Spec == Init /\ [][Next]_vars

\* Handlers, workers and pages go on; nobody is obliged to click.
Fairness ==
  /\ \A b \in Browsers : WF_vars(PageStep(b))
  /\ \A c \in Clients : WF_vars(HandlerStep(c))
  /\ \A k \in Renders : WF_vars(RenderStep(k))

FairSpec == Spec /\ Fairness

-----------------------------------------------------------------------------
Requests ==
  {NoRequest}
    \union [at : {"read"}, method : {"GET", "POST"}]
    \union [at : {"write"}, method : {"GET", "POST"}, row : Rows \union {NoReport}]
    \union [at : {"enqueue"}, method : {"POST"}]
    \union [at : {"answer"}, method : {"GET", "POST"},
            status : {"pending", "complete", "failed", "error"}]

\* The types of the variables.
TypeOK ==
  /\ report   \in Rows \union {NoReport}
  /\ stored   \in BOOLEAN
  /\ render   \in [Renders -> {"none", "queued", "done", "aborted"} \union Working]
  /\ seen     \in [Renders -> Rows \union {NoReport}]
  /\ request  \in [Clients -> Requests]
  /\ button   \in [Browsers -> {"idle", "pending", "complete", "failed"}]
  /\ clicks   \in [Browsers -> 0 .. MaxClicks]
  /\ failures \in Nat
  /\ faults   \in 0 .. MaxFaults

\* A report that says it is complete, or names its artefact, has its PDF in
\* the object store, however resets, renders and their failures interleave.
PublishedIsStored ==
  report # NoReport /\ (report.status = "complete" \/ report.uri) => stored

\* Renders that were enqueued.
Enqueued == {k \in Renders : render[k] # "none"}

\* As long as no render has failed, concurrent and repeated requests lead to
\* one render at most (reports.py: "exactly once per real render"): the
\* unique constraint settles the race of two first requests.
FirstRenderIsUnique ==
  failures = 0 => Cardinality(Enqueued) <= 1

IsPending == report # NoReport /\ report.status = "pending"

\* A worker that dies while it renders costs nothing: the redelivered job
\* finds the report still pending and renders again.  Only what arq does not
\* retry, a timeout or an uncaught exception, leaves the report waiting.
CrashedRenderIsRetried ==
  \A k \in Renders : render[k] = "queued" ~> ~IsPending \/ render[k] = "aborted"

\* reports.py: "the caller enqueues render_report_pdf_job exactly once per
\* real render"; so a report that is pending has its render on the way and a
\* page that waits for it is told the outcome.
WaitingPageIsTold ==
  \A b \in Browsers : button[b] = "pending" ~> button[b] # "pending"
=============================================================================
