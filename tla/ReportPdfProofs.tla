-------------------------- MODULE ReportPdfProofs --------------------------
(***************************************************************************)
(* Proofs about ReportPdf, for any browsers, pollers, clicks and faults.   *)
(***************************************************************************)
EXTENDS ReportPdf, FiniteSetTheorems, TLAPS

\* What a render, and a request, has made true of the row and of the store by
\* the time it is where it is.
PdfInv ==
  /\ TypeOK
  /\ PublishedIsStored
  /\ \A k \in Renders : render[k] \in {"rendered", "completing"} => stored
  /\ \A k \in Renders : render[k] # "none" => report # NoReport
  /\ \A c \in Clients :
       /\ request[c].at = "enqueue" => report # NoReport
       /\ request[c].at = "write" /\ request[c].row # NoReport => report # NoReport

\* The initial state satisfies the inductive invariant.
LEMMA InitPdfInv == Init => PdfInv
<1> SUFFICES ASSUME Init PROVE PdfInv
  OBVIOUS
<1>1. TypeOK
  <2>1. NoRequest \in Requests
    BY DEF Requests
  <2>2. report \in Rows \union {NoReport} /\ stored \in BOOLEAN
    BY DEF Init
  <2>3. failures \in Nat /\ faults \in 0 .. MaxFaults
    BY ReportAssumption DEF Init
  <2>4. /\ render \in [Renders -> {"none", "queued", "done", "aborted"} \union Working]
        /\ seen \in [Renders -> Rows \union {NoReport}]
    BY DEF Init
  <2>5. /\ request \in [Clients -> Requests]
        /\ button \in [Browsers -> {"idle", "pending", "complete", "failed"}]
    BY <2>1 DEF Init
  <2>6. clicks \in [Browsers -> 0 .. MaxClicks]
    BY ReportAssumption DEF Init
  <2>7. QED
    BY <2>2, <2>3, <2>4, <2>5, <2>6 DEF TypeOK
<1>2. \A c \in Clients : request[c].at = "none"
  BY DEF Init, NoRequest
<1>3. QED
  BY <1>1, <1>2 DEF Init, PdfInv, PublishedIsStored

\* The types of a request, by where it is.
LEMMA RequestTypes ==
  ASSUME TypeOK, NEW c \in Clients
  PROVE  /\ request[c].at = "read" => request[c].method \in {"GET", "POST"}
         /\ request[c].at = "write" => /\ request[c].method \in {"GET", "POST"}
                                       /\ request[c].row \in Rows \union {NoReport}
         /\ request[c].at = "enqueue" => request[c].method \in {"GET", "POST"}
         /\ request[c].at = "answer" => request[c].method \in {"GET", "POST"}
<1>1. request[c] \in Requests
  BY DEF TypeOK
<1>2. QED
  BY <1>1 DEF Requests, NoRequest

-----------------------------------------------------------------------------
(* The steps of the clients and the handlers.                              *)

\* A click, a poll or an answer leaves the report alone.
LEMMA BrowserSteps ==
  ASSUME PdfInv, NEW b \in Browsers, Click(b) \/ Reload(b) \/ PageStep(b)
  PROVE  PdfInv'
<1> USE DEF PdfInv, TypeOK, PublishedIsStored
<1>1. b \in Clients
  BY DEF Clients
<1>2. CASE Click(b)
  <2>1. [at |-> "read", method |-> "POST"] \in Requests
    BY DEF Requests
  <2>2. clicks' \in [Browsers -> 0 .. MaxClicks]
    BY <1>2, ReportAssumption DEF Click
  <2>3. QED
    BY <1>1, <1>2, <2>1, <2>2 DEF Click, Send
<1>3. CASE Reload(b)
  BY <1>3 DEF Reload
<1>4. CASE PollAgain(b)
  <2>1. [at |-> "read", method |-> "GET"] \in Requests
    BY DEF Requests
  <2>2. QED
    BY <1>1, <1>4, <2>1 DEF PollAgain, Send
<1>5. CASE Answered(b)
  <2>1. NoRequest \in Requests /\ NoRequest.at = "none"
    BY DEF Requests, NoRequest
  <2>2. button' \in [Browsers -> {"idle", "pending", "complete", "failed"}]
    BY <1>5 DEF Answered
  <2>3. /\ request' = [request EXCEPT ![b] = NoRequest]
        /\ UNCHANGED <<report, stored, render, seen, clicks, failures, faults>>
    BY <1>5 DEF Answered
  <2>4. QED
    BY <1>1, <2>1, <2>2, <2>3
<1>6. QED
  BY <1>2, <1>3, <1>4, <1>5 DEF PageStep

\* So do the other clients.
LEMMA PollerSteps ==
  ASSUME PdfInv, NEW p \in Pollers, PollerAsks(p) \/ PollerAnswered(p)
  PROVE  PdfInv'
<1> USE DEF PdfInv, TypeOK, PublishedIsStored
<1>1. p \in Clients
  BY DEF Clients
<1>2. /\ [at |-> "read", method |-> "GET"] \in Requests
      /\ NoRequest \in Requests
      /\ NoRequest.at = "none"
  BY DEF Requests, NoRequest
<1>3. QED
  BY <1>1, <1>2 DEF PollerAsks, PollerAnswered, Send

\* The invariant's part about the requests, when the request of c becomes r.
LEMMA RequestBecomes ==
  ASSUME TypeOK, NEW c \in Clients, NEW r \in Requests,
         request' = [request EXCEPT ![c] = r],
         \A d \in Clients :
           /\ request[d].at = "enqueue" => report' # NoReport
           /\ request[d].at = "write" /\ request[d].row # NoReport => report' # NoReport,
         r.at = "enqueue" => report' # NoReport,
         r.at = "write" /\ r.row # NoReport => report' # NoReport
  PROVE  /\ request' \in [Clients -> Requests]
         /\ \A d \in Clients :
              /\ request'[d].at = "enqueue" => report' # NoReport
              /\ request'[d].at = "write" /\ request'[d].row # NoReport => report' # NoReport
  BY DEF TypeOK

\* get_or_create_pdf_report keeps the invariant: it publishes nothing.
LEMMA GetOrCreateStep ==
  ASSUME PdfInv, NEW c \in Clients, GetOrCreate(c)
  PROVE  PdfInv'
<1> USE DEF PdfInv
<1>1. /\ request[c].at = "write"
      /\ request[c].method \in {"GET", "POST"}
      /\ request[c].row \in Rows \union {NoReport}
      /\ UNCHANGED <<stored, render, seen, button, clicks, failures, faults>>
  BY RequestTypes DEF GetOrCreate
<1>2. \A s \in {"pending", "complete", "failed", "error"} :
        [at |-> "answer", method |-> request[c].method, status |-> s] \in Requests
  BY <1>1 DEF Requests
<1>3. [at |-> "enqueue", method |-> "POST"] \in Requests
  BY DEF Requests
<1>4. ASSUME MadePending(c), report' # NoReport
      PROVE  \E r \in Requests : r.at # "write" /\ request' = [request EXCEPT ![c] = r]
  BY <1>2, <1>3, <1>4 DEF MadePending, Reply
<1>5. ASSUME report' \in Rows,
             ~report'.uri \/ stored, report'.status # "complete",
             \E r \in Requests : r.at # "write" /\ request' = [request EXCEPT ![c] = r]
      PROVE  PdfInv'
  <2>1. report' # NoReport
    BY <1>5, NoReportAssumption
  <2>2. /\ request' \in [Clients -> Requests]
        /\ \A d \in Clients :
             /\ request'[d].at = "enqueue" => report' # NoReport
             /\ request'[d].at = "write" /\ request'[d].row # NoReport => report' # NoReport
    BY <1>5, <2>1, RequestBecomes
  <2>3. QED
    BY <1>1, <1>5, <2>1, <2>2 DEF TypeOK, PublishedIsStored
<1>6. CASE InsertRow(c)
  <2>1. report' = [status |-> "pending", uri |-> FALSE] /\ MadePending(c)
    BY <1>6 DEF InsertRow
  <2>2. report' \in Rows
    BY <2>1 DEF Rows
  <2>3. report' # NoReport
    BY <2>2, NoReportAssumption
  <2>4. QED
    BY <1>4, <1>5, <2>1, <2>2, <2>3
<1>7. CASE ResetFailed(c)
  <2>1. report # NoReport /\ report \in Rows
    BY <1>1, <1>7 DEF ResetFailed, TypeOK
  <2>2. /\ report' = [status |-> "pending",
                      uri |-> IF request[c].row.uri THEN FALSE ELSE report.uri]
        /\ MadePending(c)
    BY <1>7 DEF ResetFailed
  <2>3. report' \in Rows /\ report'.status = "pending"
    BY <2>1, <2>2 DEF Rows
  <2>4. report'.uri => stored
    BY <2>1, <2>2 DEF PublishedIsStored
  <2>5. report' # NoReport
    BY <2>3, NoReportAssumption
  <2>6. QED
    BY <1>4, <1>5, <2>2, <2>3, <2>4, <2>5
<1>8. CASE InsertConflicts(c) \/ ReportAsRead(c)
  <2>1. UNCHANGED report
    BY <1>8 DEF InsertConflicts, ReportAsRead
  <2>2. \E r \in Requests : r.at = "answer" /\ request' = [request EXCEPT ![c] = r]
    BY <1>1, <1>2, <1>8 DEF InsertConflicts, ReportAsRead, Reply, Rows
  <2>3. /\ request' \in [Clients -> Requests]
        /\ \A d \in Clients :
             /\ request'[d].at = "enqueue" => report' # NoReport
             /\ request'[d].at = "write" /\ request'[d].row # NoReport => report' # NoReport
    BY <2>1, <2>2, RequestBecomes
  <2>4. QED
    BY <1>1, <2>1, <2>3 DEF TypeOK, PublishedIsStored
<1>9. QED
  BY <1>6, <1>7, <1>8 DEF GetOrCreate

\* The other steps of a handler.
LEMMA HandlerSteps ==
  ASSUME PdfInv, NEW c \in Clients, HandlerStep(c) \/ HandlerLost(c)
  PROVE  PdfInv'
<1> USE DEF PdfInv
<1>1. CASE ReadRow(c)
  <2> DEFINE r == [at |-> "write", method |-> request[c].method, row |-> report]
  <2>1. r \in Requests
    BY <1>1, RequestTypes DEF ReadRow, Requests, TypeOK
  <2>2. /\ request' = [request EXCEPT ![c] = r]
        /\ UNCHANGED <<report, stored, render, seen, button, clicks, failures, faults>>
    BY <1>1 DEF ReadRow
  <2>3. QED
    BY <2>1, <2>2 DEF TypeOK, PublishedIsStored
<1>2. CASE GetOrCreate(c)
  BY <1>2, GetOrCreateStep
<1>3. CASE c \in Browsers /\ Enqueue(c)
  <2> DEFINE r == [at |-> "answer", method |-> request[c].method, status |-> "pending"]
  <2>1. r \in Requests
    BY <1>3, RequestTypes DEF Enqueue, Requests
  <2>2. /\ request' = [request EXCEPT ![c] = r]
        /\ render' = [render EXCEPT ![<<c, clicks[c]>>] = "queued"]
        /\ report # NoReport
        /\ UNCHANGED <<report, stored, seen, button, clicks, failures, faults>>
    BY <1>3 DEF Enqueue, Reply
  <2>3. QED
    BY <2>1, <2>2 DEF TypeOK, PublishedIsStored
<1>4. CASE HandlerLost(c)
  <2> DEFINE r == [at |-> "answer", method |-> request[c].method, status |-> "error"]
  <2>1. r \in Requests
    BY <1>4, RequestTypes DEF HandlerLost, Requests
  <2>2. /\ request' = [request EXCEPT ![c] = r]
        /\ faults' = faults + 1 /\ faults < MaxFaults
        /\ UNCHANGED <<report, stored, render, seen, button, clicks, failures>>
    BY <1>4 DEF HandlerLost, Reply, Fault
  <2>3. faults' \in 0 .. MaxFaults
    BY <2>2, ReportAssumption DEF TypeOK
  <2>4. QED
    BY <2>1, <2>2, <2>3 DEF TypeOK, PublishedIsStored
<1>5. QED
  BY <1>1, <1>2, <1>3, <1>4 DEF HandlerStep

-----------------------------------------------------------------------------
(* The steps of the worker.                                                *)

\* A render puts the PDF in the store before it marks the report.
LEMMA RenderSteps ==
  ASSUME PdfInv, NEW k \in Renders, RenderStep(k) \/ Crash(k) \/ Abort(k)
  PROVE  PdfInv'
<1> USE DEF PdfInv, TypeOK, PublishedIsStored, RenderGoes, Working
<1>1. CASE StartRender(k)
  BY <1>1 DEF StartRender
<1>2. CASE RenderSucceeds(k)
  BY <1>2 DEF RenderSucceeds
<1>3. CASE RenderFails(k)
  <2>1. faults' \in 0 .. MaxFaults
    BY <1>3, ReportAssumption DEF RenderFails, Fault
  <2>2. QED
    BY <1>3, <2>1 DEF RenderFails
<1>4. CASE BeginMarkComplete(k)
  BY <1>4 DEF BeginMarkComplete, ReadToMark
<1>5. CASE BeginMarkFailed(k)
  BY <1>5 DEF BeginMarkFailed, ReadToMark
<1>6. CASE MarkComplete(k)
  <2>1. stored /\ report # NoReport /\ report \in Rows
    BY <1>6 DEF MarkComplete
  <2>2. report' \in Rows
    BY <1>6, <2>1 DEF MarkComplete, Rows
  <2>3. report' # NoReport
    BY <2>2, NoReportAssumption
  <2>4. /\ render' = [render EXCEPT ![k] = "done"]
        /\ seen' = [seen EXCEPT ![k] = NoReport]
        /\ UNCHANGED <<stored, request, button, clicks, failures, faults>>
    BY <1>6 DEF MarkComplete, RenderEnds
  <2>5. QED
    BY <2>1, <2>2, <2>3, <2>4
<1>7. CASE MarkFailed(k)
  <2>1. report # NoReport /\ report \in Rows
    BY <1>7 DEF MarkFailed
  <2>2. /\ report' \in Rows
        /\ report'.uri = report.uri
        /\ report'.status \in {report.status, "failed"}
    BY <1>7, <2>1 DEF MarkFailed, Rows
  <2>3. report' # NoReport
    BY <2>2, NoReportAssumption
  <2>4. /\ render' = [render EXCEPT ![k] = "done"]
        /\ seen' = [seen EXCEPT ![k] = NoReport]
        /\ failures' = failures + 1
        /\ UNCHANGED <<stored, request, button, clicks, faults>>
    BY <1>7 DEF MarkFailed, RenderEnds
  <2>5. QED
    BY <2>1, <2>2, <2>3, <2>4
<1>8. CASE Crash(k)
  <2>1. faults' \in 0 .. MaxFaults
    BY <1>8, ReportAssumption DEF Crash, Fault
  <2>2. QED
    BY <1>8, <2>1 DEF Crash
<1>9. CASE Abort(k)
  <2>1. faults' \in 0 .. MaxFaults
    BY <1>9, ReportAssumption DEF Abort, Fault
  <2>2. QED
    BY <1>9, <2>1 DEF Abort, RenderEnds
<1>10. QED
  BY <1>1, <1>2, <1>3, <1>4, <1>5, <1>6, <1>7, <1>8, <1>9 DEF RenderStep

-----------------------------------------------------------------------------
\* The inductive invariant holds in every reachable state.
THEOREM PdfInvariant == Spec => []PdfInv
<1>1. PdfInv /\ [Next]_vars => PdfInv'
  <2> SUFFICES ASSUME PdfInv, [Next]_vars PROVE PdfInv'
    OBVIOUS
  <2>1. CASE Next
    BY <2>1, BrowserSteps, PollerSteps, HandlerSteps, RenderSteps DEF Next
  <2>2. CASE UNCHANGED vars
    BY <2>2 DEF vars, PdfInv, TypeOK, PublishedIsStored
  <2>3. QED
    BY <2>1, <2>2
<1>2. QED
  BY <1>1, InitPdfInv, PTL DEF Spec

\* The types of the export's state.
THEOREM TypesAlways == Spec => []TypeOK
<1>1. PdfInv => TypeOK
  BY DEF PdfInv
<1>2. QED
  BY <1>1, PdfInvariant, PTL

\* A report that is complete, or names an artefact, always has its PDF in the
\* object store, for any number of clients, clicks, renders and faults.
THEOREM PublishedIsStoredAlways == Spec => []PublishedIsStored
<1>1. PdfInv => PublishedIsStored
  BY DEF PdfInv
<1>2. QED
  BY <1>1, PdfInvariant, PTL

-----------------------------------------------------------------------------
(* The first render.                                                       *)

\* While no render has failed, no one sees or has seen a failed report, and
\* of all requests one at most gets to enqueue a render: whoever inserts the
\* row, once.
OneRender ==
  /\ report # NoReport => report.status # "failed"
  /\ \A c \in Clients :
       /\ request[c].at = "write" /\ request[c].row # NoReport =>
            request[c].row.status # "failed"
       /\ request[c].at = "enqueue" =>
            /\ \A d \in Clients : request[d].at = "enqueue" => d = c
            /\ Enqueued = {}
  /\ \A k, l \in Enqueued : k = l

UniqueInv == failures = 0 => OneRender

\* A step that leaves the row and the enqueued renders alone, and moves one
\* request, to where it neither enqueues nor has seen a failure.
LEMMA RequestMoves ==
  ASSUME PdfInv, OneRender, NEW c \in Clients, NEW r,
         request' = [request EXCEPT ![c] = r],
         r.at # "enqueue",
         r.at = "write" /\ r.row # NoReport => r.row.status # "failed",
         report' = report, Enqueued' \subseteq Enqueued
  PROVE  OneRender'
<1>1. request \in [Clients -> Requests]
  BY DEF PdfInv, TypeOK
<1>2. ASSUME NEW d \in Clients
      PROVE  \/ request'[d] = request[d]
             \/ d = c /\ request'[d] = r
  BY <1>1
<1>3. \A d \in Clients : request'[d].at = "enqueue" => request[d].at = "enqueue"
  BY <1>2
<1> QED
  BY <1>2, <1>3 DEF OneRender

LEMMA UniqueClientSteps ==
  ASSUME PdfInv, OneRender,
         \/ \E b \in Browsers : Click(b) \/ Reload(b) \/ PageStep(b)
         \/ \E p \in Pollers : PollerAsks(p) \/ PollerAnswered(p)
  PROVE  OneRender'
<1>1. \A c \in Browsers \union Pollers : c \in Clients
  BY DEF Clients
<1>2. ASSUME NEW c \in Clients, NEW method, Send(c, method),
             report' = report, Enqueued' = Enqueued
      PROVE  OneRender'
  <2> DEFINE r == [at |-> "read", method |-> method]
  <2>1. r.at = "read" /\ request' = [request EXCEPT ![c] = r]
    BY <1>2 DEF Send
  <2> HIDE DEF r
  <2> QED
    BY <1>2, <2>1, RequestMoves
<1>3. ASSUME NEW c \in Clients, request' = [request EXCEPT ![c] = NoRequest],
             report' = report, Enqueued' = Enqueued
      PROVE  OneRender'
  <2>1. NoRequest.at = "none"
    BY DEF NoRequest
  <2> QED
    BY <1>3, <2>1, RequestMoves
<1>4. ASSUME NEW b \in Browsers, Click(b) \/ PollAgain(b) PROVE OneRender'
  BY <1>1, <1>2, <1>4 DEF Click, PollAgain, Enqueued
<1>5. ASSUME NEW b \in Browsers, Reload(b) PROVE OneRender'
  BY <1>5 DEF Reload, OneRender, Enqueued
<1>6. ASSUME NEW b \in Browsers, Answered(b) PROVE OneRender'
  BY <1>1, <1>3, <1>6 DEF Answered, Enqueued
<1>7. ASSUME NEW p \in Pollers, PollerAsks(p) PROVE OneRender'
  BY <1>1, <1>2, <1>7 DEF PollerAsks, Enqueued
<1>8. ASSUME NEW p \in Pollers, PollerAnswered(p) PROVE OneRender'
  BY <1>1, <1>3, <1>8 DEF PollerAnswered, Enqueued
<1> QED
  BY <1>4, <1>5, <1>6, <1>7, <1>8 DEF PageStep

\* The unique constraint lets one request insert the row; as long as it has
\* not failed, no other makes it pending.
LEMMA UniqueHandlerSteps ==
  ASSUME PdfInv, OneRender, NEW c \in Clients, HandlerStep(c) \/ HandlerLost(c)
  PROVE  OneRender'
<1>1. CASE ReadRow(c)
  <2> DEFINE r == [at |-> "write", method |-> request[c].method, row |-> report]
  <2>1. /\ request' = [request EXCEPT ![c] = r]
        /\ report' = report /\ Enqueued' = Enqueued
    BY <1>1 DEF ReadRow, Enqueued
  <2>2. r.at = "write" /\ r.row = report
    OBVIOUS
  <2> HIDE DEF r
  <2>3. r.at = "write" /\ r.row # NoReport => r.row.status # "failed"
    BY <2>2 DEF OneRender
  <2> QED
    BY <2>1, <2>2, <2>3, RequestMoves
<1>2. CASE HandlerLost(c)
  <2> DEFINE r == [at |-> "answer", method |-> request[c].method, status |-> "error"]
  <2>1. /\ request' = [request EXCEPT ![c] = r]
        /\ report' = report /\ Enqueued' = Enqueued /\ r.at = "answer"
    BY <1>2 DEF HandlerLost, Reply, Enqueued
  <2> HIDE DEF r
  <2> QED
    BY <2>1, RequestMoves
<1>3. CASE GetOrCreate(c) /\ (InsertConflicts(c) \/ ReportAsRead(c))
  <2>1. report' = report /\ Enqueued' = Enqueued
    BY <1>3 DEF GetOrCreate, InsertConflicts, ReportAsRead, Enqueued
  <2>2. PICK s : Reply(c, s)
    BY <1>3 DEF InsertConflicts, ReportAsRead
  <2> DEFINE r == [at |-> "answer", method |-> request[c].method, status |-> s]
  <2>3. r.at = "answer" /\ request' = [request EXCEPT ![c] = r]
    BY <2>2 DEF Reply
  <2> HIDE DEF r
  <2> QED
    BY <2>1, <2>3, RequestMoves
<1>4. CASE GetOrCreate(c) /\ InsertRow(c)
  <2>1. report = NoReport
    BY <1>4 DEF InsertRow
  <2>2. Enqueued = {} /\ \A d \in Clients : request[d].at # "enqueue"
    BY <2>1 DEF PdfInv, Enqueued
  <2>3. report'.status = "pending" /\ Enqueued' = Enqueued
    BY <1>4 DEF GetOrCreate, InsertRow, Enqueued
  <2>4. \E r : /\ request' = [request EXCEPT ![c] = r]
               /\ r.at # "write"
    <3> DEFINE q == [at |-> "enqueue", method |-> "POST"]
               s == [at |-> "answer", method |-> request[c].method,
                     status |-> "pending"]
    <3>1. q.at = "enqueue" /\ s.at = "answer"
      OBVIOUS
    <3>2. \/ request' = [request EXCEPT ![c] = q]
          \/ request' = [request EXCEPT ![c] = s]
      BY <1>4 DEF InsertRow, MadePending, Reply
    <3> HIDE DEF q, s
    <3> QED
      BY <3>1, <3>2
  <2>5. request \in [Clients -> Requests]
    BY DEF PdfInv, TypeOK
  <2>6. \A d \in Clients \ {c} : request'[d] = request[d]
    BY <2>4, <2>5
  <2>7. request'[c].at # "write"
    BY <2>4, <2>5
  <2> QED
    BY <2>2, <2>3, <2>6, <2>7 DEF OneRender
<1>5. ~ (GetOrCreate(c) /\ ResetFailed(c))
  BY DEF GetOrCreate, ResetFailed, OneRender
<1>6. CASE c \in Browsers /\ Enqueue(c)
  <2> DEFINE r == [at |-> "answer", method |-> request[c].method, status |-> "pending"]
  <2>1. /\ request[c].at = "enqueue" /\ report' = report
        /\ request' = [request EXCEPT ![c] = r]
        /\ render' = [render EXCEPT ![<<c, clicks[c]>>] = "queued"]
    BY <1>6 DEF Enqueue, Reply
  <2>2. /\ request \in [Clients -> Requests]
        /\ \A k \in Renders : render[k] = "none"
    BY <2>1 DEF PdfInv, TypeOK, OneRender, Enqueued
  <2>3. \A d \in Clients : request'[d].at # "enqueue"
    <3>1. r.at = "answer"
      OBVIOUS
    <3> HIDE DEF r
    <3> QED
      BY <2>1, <2>2, <3>1 DEF OneRender
  <2>4. \A d \in Clients \ {c} : request'[d] = request[d]
    BY <2>1, <2>2
  <2>5. request'[c].at # "write"
    BY <2>1, <2>2
  <2>6. \A k \in Enqueued' : k = <<c, clicks[c]>>
    BY <2>1, <2>2 DEF Enqueued, PdfInv, TypeOK
  <2> QED
    BY <2>1, <2>3, <2>4, <2>5, <2>6 DEF OneRender
<1> QED
  BY <1>1, <1>2, <1>3, <1>4, <1>5, <1>6 DEF HandlerStep, GetOrCreate

\* A render job enqueues none, and does not fail the report unseen.
LEMMA UniqueRenderSteps ==
  ASSUME PdfInv, OneRender, NEW k \in Renders, RenderStep(k) \/ Crash(k) \/ Abort(k)
  PROVE  OneRender' \/ failures' # 0
<1>1. render \in [Renders -> {"none", "queued", "done", "aborted"} \union Working]
  BY DEF PdfInv, TypeOK
<1>2. ASSUME NEW to, RenderGoes(k, to), render[k] # "none" PROVE Enqueued' \subseteq Enqueued
  BY <1>1, <1>2 DEF RenderGoes, Enqueued
<1>3. ASSUME Enqueued' \subseteq Enqueued, request' = request,
             report' = report \/ report'.status # "failed"
      PROVE  OneRender'
  BY <1>3 DEF OneRender
<1>4. CASE StartRender(k) \/ RenderSucceeds(k) \/ RenderFails(k)
  BY <1>2, <1>3, <1>4 DEF StartRender, RenderSucceeds, RenderFails
<1>5. CASE BeginMarkComplete(k) \/ BeginMarkFailed(k)
  BY <1>2, <1>3, <1>5 DEF BeginMarkComplete, BeginMarkFailed, ReadToMark
<1>6. CASE MarkComplete(k)
  <2>1. render[k] # "none"
    BY <1>6 DEF MarkComplete
  <2>2. report'.status # "failed"
    BY <1>6, <2>1 DEF MarkComplete, PdfInv, OneRender
  <2> QED
    BY <1>2, <1>3, <1>6, <2>1, <2>2 DEF MarkComplete, RenderEnds
<1>7. CASE MarkFailed(k)
  BY <1>7 DEF MarkFailed, PdfInv, TypeOK
<1>8. CASE Crash(k) \/ Abort(k)
  BY <1>2, <1>3, <1>8 DEF Crash, Abort, RenderEnds, Working
<1> QED
  BY <1>4, <1>5, <1>6, <1>7, <1>8 DEF RenderStep

\* Failures are counted, never taken back.
LEMMA FailuresStay ==
  ASSUME PdfInv, [Next]_vars, failures # 0
  PROVE  failures' # 0
<1> USE DEF PdfInv, TypeOK
<1>1. ASSUME NEW b \in Browsers, Click(b) \/ Reload(b) \/ PageStep(b)
      PROVE  failures' = failures
  BY <1>1 DEF Click, Reload, PageStep, PollAgain, Answered
<1>2. ASSUME NEW p \in Pollers, PollerAsks(p) \/ PollerAnswered(p)
      PROVE  failures' = failures
  BY <1>2 DEF PollerAsks, PollerAnswered
<1>3. ASSUME NEW c \in Clients, HandlerStep(c) \/ HandlerLost(c)
      PROVE  failures' = failures
  BY <1>3 DEF HandlerStep, ReadRow, GetOrCreate, Enqueue, HandlerLost
<1>4. ASSUME NEW k \in Renders, RenderStep(k) \/ Crash(k) \/ Abort(k)
      PROVE  failures' \in {failures, failures + 1}
  BY <1>4 DEF RenderStep, StartRender, RenderSucceeds, RenderFails, BeginMarkComplete,
      BeginMarkFailed, ReadToMark, MarkComplete, MarkFailed, Crash, Abort
<1> QED
  BY <1>1, <1>2, <1>3, <1>4 DEF Next, vars

LEMMA UniqueStep == PdfInv /\ UniqueInv /\ [Next]_vars => UniqueInv'
<1> SUFFICES ASSUME PdfInv, UniqueInv, [Next]_vars, failures' = 0 PROVE OneRender'
  BY DEF UniqueInv
<1>1. OneRender
  BY FailuresStay DEF UniqueInv
<1>2. CASE UNCHANGED vars
  BY <1>1, <1>2 DEF vars, OneRender, Enqueued
<1>3. ASSUME NEW c \in Clients, HandlerStep(c) \/ HandlerLost(c) PROVE OneRender'
  BY <1>1, <1>3, UniqueHandlerSteps
<1>4. ASSUME NEW k \in Renders, RenderStep(k) \/ Crash(k) \/ Abort(k) PROVE OneRender'
  BY <1>1, <1>4, UniqueRenderSteps
<1>5. CASE \/ \E b \in Browsers : Click(b) \/ Reload(b) \/ PageStep(b)
           \/ \E p \in Pollers : PollerAsks(p) \/ PollerAnswered(p)
  BY <1>1, <1>5, UniqueClientSteps
<1> QED
  BY <1>2, <1>3, <1>4, <1>5 DEF Next

\* As long as no render has failed, one render at most was ever enqueued,
\* however many pages and pollers ask at once, whichever of them is refused
\* its insert, and however often the worker that renders it dies.
THEOREM FirstRenderIsUniqueAlways == Spec => []FirstRenderIsUnique
<1>1. Init => UniqueInv
  BY DEF Init, UniqueInv, OneRender, Enqueued, NoRequest
<1>2. UniqueInv => FirstRenderIsUnique
  <2> SUFFICES ASSUME OneRender PROVE Cardinality(Enqueued) <= 1
    BY DEF UniqueInv, FirstRenderIsUnique
  <2>1. Enqueued = {} \/ \E k \in Enqueued : Enqueued = {k}
    BY DEF OneRender
  <2> QED
    BY <2>1, FS_EmptySet, FS_Singleton
<1> QED
  BY <1>1, <1>2, UniqueStep, PdfInvariant, PTL DEF Spec
=============================================================================
