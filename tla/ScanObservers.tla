--------------------------- MODULE ScanObservers ---------------------------
(***************************************************************************)
(* The clients that watch a scan job while it runs, composed with          *)
(* ScanLifecycle:                                                          *)
(*                                                                         *)
(*   get_scan_status, public_get_scan_status   read the job and then the   *)
(*       Scan row, in two statements (READ COMMITTED: each sees the last   *)
(*       commit), and answer with what they read;                          *)
(*   scan_status_events   the server-sent event generator: polls the       *)
(*       status, emits it when it changed, and stops at a terminal status  *)
(*       or when its time is up.                                           *)
(***************************************************************************)
EXTENDS ScanLifecycle, Sequences

CONSTANTS
  Readers,    \* requests of GET /v1/scans/{id}
  Streams,    \* requests of GET .../stream
  MaxPolls    \* max_seconds / poll_seconds

ASSUME ObserversAssumption == MaxPolls \in Nat \ {0}

VARIABLES
  request,  \* the state of each status request
  stream    \* the state of each event stream

observerVars == <<request, stream>>
allVars == <<vars, observerVars>>

NoRequest == [at |-> "idle"]
NoStream  == [at |-> "idle"]

ObserversInit ==
  /\ Init
  /\ request = [r \in Readers |-> NoRequest]
  /\ stream  = [s \in Streams |-> NoStream]

-----------------------------------------------------------------------------
\* get_scan_job; 404 when there is none.
ReadJob(r, j) ==
  /\ request[r] = NoRequest
  /\ status[j] # "none"
  /\ request' = [request EXCEPT ![r] =
       [at |-> "scan", job |-> j, status |-> status[j],
        finished |-> "finished" \in stamps[j]]]
  /\ UNCHANGED stream

\* Mutant: the Scan row is read before the job.
ReadScanFirst(r) ==
  /\ request[r].at = "scan"
  /\ \E before \in {scanRow[request[r].job] # NoScan, FALSE} :
       request' = [request EXCEPT ![r] =
         [at |-> "answered", job |-> @.job, status |-> @.status,
          finished |-> @.finished, scored |-> before]]
  /\ UNCHANGED stream

\* get_scan_by_job_id, and the response.
ReadScan(r) ==
  /\ request[r].at = "scan"
  /\ request' = [request EXCEPT ![r] =
       [at |-> "answered", job |-> @.job, status |-> @.status,
        finished |-> @.finished, scored |-> scanRow[@.job] # NoScan]]
  /\ UNCHANGED stream

\* The client forgets the answer and may ask again.
Forget(r) ==
  /\ request[r].at = "answered"
  /\ request' = [request EXCEPT ![r] = NoRequest]
  /\ UNCHANGED stream

-----------------------------------------------------------------------------
OpenStream(s, j) ==
  /\ stream[s] = NoStream
  /\ status[j] # "none"
  /\ stream' = [stream EXCEPT ![s] =
       [at |-> "open", job |-> j, last |-> "none", polls |-> 0, events |-> <<>>]]
  /\ UNCHANGED request

\* Mutant: an event is emitted on every poll.
PollEmitsAlways(s) ==
  /\ stream[s].at = "open"
  /\ stream[s].polls < MaxPolls
  /\ LET now == status[stream[s].job] IN
       stream' = [stream EXCEPT
         ![s].events = Append(@, now),
         ![s].last   = now,
         ![s].polls  = @ + 1,
         ![s].at     = IF now \in TerminalStatuses THEN "closed" ELSE "open"]
  /\ UNCHANGED request

\* Mutant: the loop breaks on a terminal status before it is emitted.
PollBreaksFirst(s) ==
  /\ stream[s].at = "open"
  /\ stream[s].polls < MaxPolls
  /\ LET now     == status[stream[s].job]
         settled == now \in TerminalStatuses
     IN  stream' = [stream EXCEPT
           ![s].events = IF now = stream[s].last \/ settled THEN @ ELSE Append(@, now),
           ![s].last   = now,
           ![s].polls  = @ + 1,
           ![s].at     = IF settled THEN "closed" ELSE "open"]
  /\ UNCHANGED request

\* Mutant: elapsed is not advanced by the sleep.
PollForgetsElapsed(s) ==
  /\ stream[s].at = "open"
  /\ stream[s].polls < MaxPolls
  /\ LET now == status[stream[s].job] IN
       stream' = [stream EXCEPT
         ![s].events = IF now = stream[s].last THEN @ ELSE Append(@, now),
         ![s].last   = now,
         ![s].at     = IF now \in TerminalStatuses THEN "closed" ELSE "open"]
  /\ UNCHANGED request

\* One turn of the loop, with the sleep that follows it.
Poll(s) ==
  /\ stream[s].at = "open"
  /\ stream[s].polls < MaxPolls
  /\ LET now == status[stream[s].job] IN
       stream' = [stream EXCEPT
         ![s].events = IF now = stream[s].last THEN @ ELSE Append(@, now),
         ![s].last   = now,
         ![s].polls  = @ + 1,
         ![s].at     = IF now \in TerminalStatuses THEN "closed" ELSE "open"]
  /\ UNCHANGED request

\* elapsed has reached max_seconds.
TimeOut(s) ==
  /\ stream[s].at = "open"
  /\ stream[s].polls = MaxPolls
  /\ stream' = [stream EXCEPT ![s].at = "timed out"]
  /\ UNCHANGED request

-----------------------------------------------------------------------------
ObserverStep ==
  \/ \E r \in Readers :
       \/ \E j \in Jobs : ReadJob(r, j)
       \/ ReadScan(r)
       \/ Forget(r)
  \/ \E s \in Streams :
       \/ \E j \in Jobs : OpenStream(s, j)
       \/ Poll(s)
       \/ TimeOut(s)

ObserversNext ==
  \/ Next /\ UNCHANGED observerVars
  \/ ObserverStep /\ UNCHANGED vars

ObserversSpec == ObserversInit /\ [][ObserversNext]_allVars

\* A generator that was started is driven by the event loop to its end, and
\* a status request that was begun is answered.
ObserversFairness ==
  /\ \A s \in Streams :
       WF_allVars((Poll(s) \/ TimeOut(s)) /\ UNCHANGED vars)
  /\ \A r \in Readers : WF_allVars(ReadScan(r) /\ UNCHANGED vars)
  /\ \A j \in Jobs :
       /\ WF_allVars(SubmitEnqueue(j) /\ UNCHANGED observerVars)
       /\ WF_allVars(DeliverToSome(j) /\ UNCHANGED observerVars)
       /\ WF_allVars(GiveUp(j) /\ UNCHANGED observerVars)
       /\ WF_allVars(RunStep(j) /\ UNCHANGED observerVars)

ObserversFairSpec == ObserversSpec /\ ObserversFairness

-----------------------------------------------------------------------------
\* An answer that tells the client the scan has come to its end is whole,
\* however the two reads interleave with the worker: "reporting" and "complete" come
\* with the score, "failed" and "unreachable" without one.
SettledAnswerIsWhole ==
  \A r \in Readers :
    LET a == request[r] IN
    a.at = "answered" =>
      /\ a.status \in {"reporting", "complete"} => a.scored
      /\ a.status \in {"failed", "unreachable"} => ~a.scored /\ a.finished

\* The statuses a committed job can go to, in any number of transactions.
Later ==
  [authorized |-> {"probing", "evaluating", "reporting", "complete",
                   "unreachable", "failed"},
   probing    |-> {"evaluating", "reporting", "complete", "unreachable", "failed"},
   evaluating |-> {"reporting", "complete", "failed"},
   reporting  |-> {"complete"}]

\* A stream tells the job's history in order, each status once, and says
\* nothing after a terminal status.
StreamTellsHistoryInOrder ==
  \A s \in Streams :
    stream[s].at # "idle" =>
      \A i, k \in DOMAIN stream[s].events :
        i < k => /\ stream[s].events[i] \in DOMAIN Later
                 /\ stream[s].events[k] \in Later[stream[s].events[i]]

\* A stream that closed by itself ended on the terminal status of the job:
\* the client needs no further request to know how the scan ended.
ClosedStreamToldTheEnd ==
  \A s \in Streams :
    stream[s].at = "closed" =>
      LET e == stream[s].events IN
      e # <<>> /\ e[Len(e)] = status[stream[s].job]

\* Every stream that was opened ends, whatever becomes of the scan.
StreamEnds == \A s \in Streams : stream[s].at = "open" ~> stream[s].at # "open"
=============================================================================
