----------------------------- MODULE ScanRoutes -----------------------------
(***************************************************************************)
(* The scan routes (app/api/routes_scan.py) over one scan of ScanJob: the  *)
(* request that creates it, behind the rate limiter of its address, and a  *)
(* progress stream.  The requests the address made before are followed,    *)
(* those it makes afterwards concern other scans.                          *)
(*                                                                         *)
(* A stream keeps the object it was opened with: the job in memory, which  *)
(* goes on changing, or a copy of the row, which never does.               *)
(***************************************************************************)
EXTENDS ScanJob, RateLimiter

VARIABLES
  stream,  \* the progress stream: about to poll (open), sending, ended by itself
  source,  \* the object an open stream polls
  shown    \* the final snapshot the stream has sent, if any

streams == <<stream, source, shown>>
scan == <<job, tasks, found, known, row>>
routes == <<scan, limiter, streams>>

RoutesInit ==
  /\ Init
  /\ LimiterInit
  /\ stream = "closed"
  /\ source = "none"
  /\ shown = NoRow

------------------------------------------------------------------------------
(* create_scan, and the requests of the same address before it.            *)

\* The domain is not valid or a host is outside of it, after the request was
\* counted; or it creates another scan.
RequestCounted ==
  /\ run = "none"
  /\ Allow
  /\ UNCHANGED <<scan, streams>>

RequestRefused ==
  /\ run = "none"
  /\ Refuse
  /\ UNCHANGED <<scan, streams>>

ScanRequested(manual, stored) ==
  /\ Create(manual, stored)
  /\ Allow
  /\ UNCHANGED streams

Waits ==
  /\ run = "none"
  /\ TimePasses
  /\ UNCHANGED <<scan, streams>>

------------------------------------------------------------------------------
(* scan_events.                                                            *)

Streaming == {"open", "sent"}

InProgress == run \in {"scheduled", "ct_logs", "wordlist", "gather", "failing"}

\* job_manager.get finds the job or its row; otherwise the answer is 404.
StreamOpens ==
  /\ stream \notin Streaming
  /\ View.state # "none"
  /\ stream' = "open"
  /\ source' = IF known THEN "memory" ELSE "row"
  /\ shown' = NoRow
  /\ UNCHANGED <<scan, limiter>>

\* A copy of the row was made when the job was not in memory any more: nobody
\* has written the row since.
Polled ==
  IF source = "memory" THEN Snapshot(state, total, done, records) ELSE row

\* The poll: nothing is awaited between the checks and the snapshot that is sent.
\* Of the snapshots only a final one is kept here.
StreamSends ==
  /\ stream = "open"
  /\ stream' = "sent"
  /\ shown' = IF Polled.state \in Ended THEN Polled ELSE NoRow
  /\ UNCHANGED <<source, scan, limiter>>

\* Fault: the stream ends once it has been sent anything.
FaultEndsSoon ==
  /\ stream = "sent"
  /\ stream' = "ended"
  /\ source' = "none"
  /\ UNCHANGED <<shown, scan, limiter>>

\* Sending gives way to other tasks; then the state is looked at again: final,
\* it ends the stream, whatever the snapshot was.
StreamEnds ==
  /\ stream = "sent"
  /\ Polled.state \in Ended
  /\ stream' = "ended"
  /\ source' = "none"
  /\ UNCHANGED <<shown, scan, limiter>>

StreamSleeps ==
  /\ stream = "sent"
  /\ Polled.state \notin Ended
  /\ stream' = "open"
  /\ UNCHANGED <<source, shown, scan, limiter>>

\* Fault: the stream has no deadline.
FaultNoDeadline == stream = "open" /\ FALSE

\* The deadline, which is far beyond the budget of a scan.
StreamExpires ==
  /\ stream = "open"
  /\ ~(source = "memory" /\ InProgress)
  /\ Polled.state \notin Ended
  /\ stream' = "closed"
  /\ source' = "none"
  /\ UNCHANGED <<shown, scan, limiter>>

ClientLeaves ==
  /\ stream \in Streaming
  /\ stream' = "closed"
  /\ source' = "none"
  /\ UNCHANGED <<shown, scan, limiter>>

StreamStep == StreamSends \/ StreamEnds \/ StreamSleeps

ServerRestarts ==
  /\ Restart
  /\ stream' = IF stream \in Streaming THEN "closed" ELSE stream
  /\ source' = "none"
  /\ UNCHANGED <<shown, limiter>>

RoutesNext ==
  \/ RequestCounted
  \/ RequestRefused
  \/ Waits
  \/ \E manual \in SUBSET Hosts, stored \in BOOLEAN : ScanRequested(manual, stored)
  \/ RunStep /\ UNCHANGED <<limiter, streams>>
  \/ \E h \in Hosts : ProbeStep(h) /\ UNCHANGED <<limiter, streams>>
  \/ Evict /\ UNCHANGED <<limiter, streams>>
  \/ StreamOpens
  \/ StreamStep
  \/ StreamExpires
  \/ ClientLeaves
  \/ ServerRestarts

(***************************************************************************)
(* The loop runs its callbacks and timers: the task of the scan, the tasks *)
(* of its hosts and the polls of a stream.  Every turn of a stream looks   *)
(* at the clock before it polls: once past its deadline it expires.        *)
(***************************************************************************)
RoutesFairness ==
  /\ WF_scan(RunStep)
  /\ \A h \in Hosts : WF_scan(ProbeStep(h))
  /\ WF_routes(StreamStep)
  /\ SF_routes(StreamExpires)

RoutesSpec == RoutesInit /\ [][RoutesNext]_routes /\ RoutesFairness

------------------------------------------------------------------------------
RoutesTypeOK ==
  /\ TypeOK
  /\ LimiterTypeOK
  /\ stream \in Streaming \union {"closed", "ended"}
  /\ source \in {"none", "memory", "row"}
  /\ shown.state \in Ended \union {"none"}

\* A stream ends by itself only when its scan is over, and a final state it has
\* sent is the last word: if the scan was recorded as done, every later request is
\* answered what the stream sent, also when the job has left the memory or the
\* server was restarted.
StreamShowsResult ==
  /\ stream = "ended" => state \in Ended
  /\ shown.state \in Ended /\ row.state = "done" => shown = View

\* No stream stays open: not that of a scan that fails or runs out of time, and
\* not that of one nobody will finish because the process has died.
StreamsEnd == []<>(stream \notin Streaming)
=============================================================================
