--------------------------- MODULE RenewalManager ---------------------------
(***************************************************************************)
(* AcmeRenewalManager (app/acme/renewal.py): the jobs that issue and renew *)
(* certificates.  Four kinds of actors share the state of a job:           *)
(*                                                                         *)
(*   - the event loop, which creates jobs and runs confirm_dns;            *)
(*   - the job's coroutine _run, on the loop: runner[j] is its place;      *)
(*   - the issuing thread _issue_sync, in the default executor of          *)
(*     PoolSize workers: thread[j] is its place.  asyncio.wait_for stops   *)
(*     waiting for it but cannot stop it;                                  *)
(*   - the person who publishes the DNS record and asks for confirmation.  *)
(*                                                                         *)
(* Loop callbacks run one at a time, and a coroutine keeps the loop        *)
(* between two awaits (LoopFree); threads interleave with them anywhere,   *)
(* so code of the loop that races with a thread is cut into its reads and  *)
(* writes.  Time is abstract: a timeout may fire whenever it is armed.     *)
(* A write of the history may fail, for instance because the database is   *)
(* locked for longer than SQLite waits.                                    *)
(***************************************************************************)
EXTENDS Naturals, FiniteSets

CONSTANTS
  Jobs,        \* ids of the jobs that may be created
  Modes,       \* the kinds of dns_mode in use
  PoolSize,    \* workers of the default thread pool
  MaxLookups,  \* bound: confirm_dns calls in flight for one job
  Refusable    \* bound: jobs of which the database may refuse a write

\* manual waits for a TXT record after the order; delegated (cname,
\* azure_cname, self_hosted) waits for a CNAME before it, unless it is there
\* already; direct (cloudflare, azure_dns) waits for nobody.
DnsModes == {"manual", "delegated", "direct"}
EventBased == {"manual", "delegated"}

ASSUME ModesAssumption == Modes \subseteq DnsModes
ASSUME PoolSizeAssumption == PoolSize \in Nat \ {0}
ASSUME MaxLookupsAssumption == MaxLookups \in Nat \ {0}
ASSUME RefusableAssumption == Refusable \subseteq Jobs

VARIABLES
  mode,            \* job.dns_mode, by the way the mode waits for DNS
  known,           \* keys of manager._jobs
  state,           \* job.state
  record,          \* job.dns_record_name and dns_record_value are set
  certificate_id,  \* job.certificate_id is set
  confirm_events,  \* keys of manager._confirm_events
  event_set,       \* the job's confirmation event is set
  abandoned,       \* the abandoned event of _run is set
  runner,          \* place of _run
  thread,          \* place of _issue_sync
  args,            \* arguments _run evaluated for history.finish
  lookups,         \* confirm_dns calls awaiting their DNS answer
  dns,             \* the record confirm_dns looks for is published
  certs,           \* jobs whose certificate the store holds
  history          \* the job's row of renewal_attempts

job == <<state, record, certificate_id>>
events == <<confirm_events, event_set, abandoned>>
disk == <<certs, history>>
vars == <<mode, known, job, events, runner, thread, args, lookups, dns, disk>>

------------------------------------------------------------------------------
JobStates == {"none", "pending", "running", "awaiting_dns", "done", "failed"}
Terminal == {"done", "failed"}

\* Places of the thread; at the Working ones it occupies a worker.
Working == {"prepare", "order", "shown", "block", "blocked", "validate",
            "save", "identify", "check", "correct", "rewrite"}
ThreadOver == {"returned", "raised", "cancelled", "lost"}
ThreadPlaces == Working \union ThreadOver \union {"none", "queued"}

\* Places of _run; at the Closing ones it holds the loop.
Closing == {"timed_out", "pop", "read_state", "read_cert", "write"}
Active == Closing \union {"scheduled", "waiting"}
RunnerPlaces == Active \union {"none", "refused", "ended", "lost"}

\* What a row may say, none before its INSERT.  A job is pending only before its
\* coroutine starts, and never read then.
RowStates == {"none", "running", "awaiting_dns", "done", "failed"}
Rows == [state : RowStates, cert : BOOLEAN]
NoRow == [state |-> "none", cert |-> FALSE]

LoopFree == \A j \in Jobs : runner[j] \notin Closing
Busy == {j \in Jobs : thread[j] \in Working}

SetState(j, s) == state' = [state EXCEPT ![j] = s]
RunnerAt(j, from, to) == runner[j] = from /\ runner' = [runner EXCEPT ![j] = to]
ThreadAt(j, from, to) == thread[j] = from /\ thread' = [thread EXCEPT ![j] = to]

Init ==
  /\ mode = [j \in Jobs |-> "none"]
  /\ known = {}
  /\ state = [j \in Jobs |-> "none"]
  /\ record = [j \in Jobs |-> FALSE]
  /\ certificate_id = [j \in Jobs |-> FALSE]
  /\ confirm_events = {}
  /\ event_set = [j \in Jobs |-> FALSE]
  /\ abandoned = [j \in Jobs |-> FALSE]
  /\ runner = [j \in Jobs |-> "none"]
  /\ thread = [j \in Jobs |-> "none"]
  /\ args = [j \in Jobs |-> NoRow]
  /\ lookups = [j \in Jobs |-> 0]
  /\ dns = [j \in Jobs |-> FALSE]
  /\ certs = {}
  /\ history = [j \in Jobs |-> NoRow]

------------------------------------------------------------------------------
(***************************************************************************)
(* create: one callback of the loop.  It first evicts jobs older than the  *)
(* TTL of 30 minutes; every budget is at most 20, so a job that old has    *)
(* ended, but its thread may still be at work.  `gone` is what is evicted. *)
(* The job is in the manager before its row is inserted: when the INSERT   *)
(* fails, the request does too, and a job that nobody runs is left.        *)
(***************************************************************************)
JobEntered(j, m, gone) ==
  /\ LoopFree
  /\ runner[j] = "none"
  /\ gone \subseteq {k \in known : runner[k] \in {"ended", "refused"}}
  /\ known' = (known \ gone) \union {j}
  /\ confirm_events' = (confirm_events \ gone)
                         \union {k \in {j} : m \in EventBased}
  /\ mode' = [mode EXCEPT ![j] = m]
  /\ SetState(j, "pending")
  /\ UNCHANGED <<record, certificate_id, event_set, abandoned, thread, args,
                 lookups, dns, certs>>

CreateFails(j, m, gone) ==
  /\ j \in Refusable
  /\ JobEntered(j, m, gone)
  /\ runner' = [runner EXCEPT ![j] = "refused"]
  /\ UNCHANGED history

\* Fault: the row is opened with the state of the new job.
FaultPendingRow(j, m, gone) ==
  /\ JobEntered(j, m, gone)
  /\ runner' = [runner EXCEPT ![j] = "scheduled"]
  /\ history' = [history EXCEPT ![j] = [state |-> state'[j], cert |-> FALSE]]

Create(j, m, gone) ==
  /\ JobEntered(j, m, gone)
  /\ runner' = [runner EXCEPT ![j] = "scheduled"]
  /\ history' = [history EXCEPT ![j] = [state |-> "running", cert |-> FALSE]]

------------------------------------------------------------------------------
(***************************************************************************)
(* _run.  The future of a queued thread can be cancelled, that of a        *)
(* running one cannot; and the timer may fire after the thread returned    *)
(* and before its result reached the coroutine.                            *)
(***************************************************************************)
RunnerStarts(j) ==
  /\ LoopFree
  /\ RunnerAt(j, "scheduled", "waiting")
  /\ SetState(j, "running")
  /\ thread' = [thread EXCEPT ![j] = "queued"]
  /\ UNCHANGED <<mode, known, record, certificate_id, events, args, lookups,
                 dns, disk>>

\* Fault: done without waiting for the thread.
FaultNotAwaited(j) ==
  /\ LoopFree
  /\ RunnerAt(j, "waiting", "pop")
  /\ SetState(j, "done")
  /\ UNCHANGED <<mode, known, record, certificate_id, events, thread, args,
                 lookups, dns, disk>>

RunnerSucceeds(j) ==
  /\ LoopFree
  /\ RunnerAt(j, "waiting", "pop")
  /\ thread[j] = "returned"
  /\ SetState(j, "done")
  /\ UNCHANGED <<mode, known, record, certificate_id, events, thread, args,
                 lookups, dns, disk>>

\* Fault: the exception is swallowed and the state left as it was.
FaultSwallowed(j) ==
  /\ LoopFree
  /\ RunnerAt(j, "waiting", "pop")
  /\ thread[j] = "raised"
  /\ UNCHANGED <<mode, known, job, events, thread, args, lookups, dns, disk>>

RunnerFails(j) ==
  /\ LoopFree
  /\ RunnerAt(j, "waiting", "pop")
  /\ thread[j] = "raised"
  /\ SetState(j, "failed")
  /\ UNCHANGED <<mode, known, record, certificate_id, events, thread, args,
                 lookups, dns, disk>>

\* Fault: abandoned.set() is forgotten.
FaultUnmarked(j) ==
  /\ LoopFree
  /\ RunnerAt(j, "waiting", "timed_out")
  /\ thread' = [thread EXCEPT ![j] = IF @ = "queued" THEN "cancelled" ELSE @]
  /\ UNCHANGED <<mode, known, job, events, args, lookups, dns, disk>>

RunnerTimesOut(j) ==
  /\ LoopFree
  /\ RunnerAt(j, "waiting", "timed_out")
  /\ abandoned' = [abandoned EXCEPT ![j] = TRUE]
  /\ thread' = [thread EXCEPT ![j] = IF @ = "queued" THEN "cancelled" ELSE @]
  /\ UNCHANGED <<mode, known, job, confirm_events, event_set, args, lookups,
                 dns, disk>>

\* Fault: the timeout returns without the finally block.
FaultNoFinally(j) ==
  /\ RunnerAt(j, "timed_out", "ended")
  /\ SetState(j, "failed")
  /\ UNCHANGED <<mode, known, record, certificate_id, events, thread, args,
                 lookups, dns, disk>>

RunnerGivesUp(j) ==
  /\ RunnerAt(j, "timed_out", "pop")
  /\ SetState(j, "failed")
  /\ UNCHANGED <<mode, known, record, certificate_id, events, thread, args,
                 lookups, dns, disk>>

RunnerPops(j) ==
  /\ RunnerAt(j, "pop", "read_state")
  /\ confirm_events' = confirm_events \ {j}
  /\ UNCHANGED <<mode, known, job, event_set, abandoned, thread, args,
                 lookups, dns, disk>>

\* The keyword arguments of history.finish are read before its UPDATE.
RunnerReadsState(j) ==
  /\ RunnerAt(j, "read_state", "read_cert")
  /\ args' = [args EXCEPT ![j] = [state |-> state[j], cert |-> FALSE]]
  /\ UNCHANGED <<mode, known, job, events, thread, lookups, dns, disk>>

RunnerReadsCertificate(j) ==
  /\ RunnerAt(j, "read_cert", "write")
  /\ args' = [args EXCEPT ![j] = [state |-> @.state, cert |-> certificate_id[j]]]
  /\ UNCHANGED <<mode, known, job, events, thread, lookups, dns, disk>>

RunnerCloses(j) ==
  /\ RunnerAt(j, "write", "ended")
  /\ history' = [history EXCEPT ![j] = args[j]]
  /\ args' = [args EXCEPT ![j] = NoRow]
  /\ UNCHANGED <<mode, known, job, events, thread, lookups, dns, certs>>

\* history.finish raises out of the finally block and ends the task.
RunnerCannotClose(j) ==
  /\ j \in Refusable
  /\ RunnerAt(j, "write", "ended")
  /\ args' = [args EXCEPT ![j] = NoRow]
  /\ UNCHANGED <<mode, known, job, events, thread, lookups, dns, disk>>

RunnerStep(j) ==
  \/ RunnerStarts(j)
  \/ RunnerSucceeds(j)
  \/ RunnerFails(j)
  \/ RunnerTimesOut(j)
  \/ RunnerGivesUp(j)
  \/ RunnerPops(j)
  \/ RunnerReadsState(j)
  \/ RunnerReadsCertificate(j)
  \/ RunnerCloses(j)
  \/ RunnerCannotClose(j)

------------------------------------------------------------------------------
(***************************************************************************)
(* _issue_sync, the _issue_via_* it dispatches to, and issue_certificate.  *)
(***************************************************************************)
ThreadStarts(j) ==
  /\ Cardinality(Busy) < PoolSize
  /\ ThreadAt(j, "queued", "prepare")
  /\ UNCHANGED <<mode, known, job, events, runner, args, lookups, dns, disk>>

\* A delegated job that finds its CNAME goes straight to the order.  The
\* lookup may also fail to see a CNAME that is there.
ThreadFindsDelegation(j) ==
  /\ mode[j] = "delegated" => dns[j]
  /\ ThreadAt(j, "prepare", "order")
  /\ UNCHANGED <<mode, known, job, events, runner, args, lookups, dns, disk>>

\* The record a person has to create is put on the job: the CNAME before
\* the order, or the TXT of the order's challenge.
\* Fault: the state is announced before the record is set.
FaultAnnouncedFirst(j) ==
  /\ \/ mode[j] = "delegated" /\ ThreadAt(j, "prepare", "shown")
     \/ mode[j] = "manual" /\ ThreadAt(j, "order", "shown")
  /\ SetState(j, "awaiting_dns")
  /\ UNCHANGED <<mode, known, record, certificate_id, events, runner, args,
                 lookups, dns, disk>>

ThreadSetsRecord(j) ==
  /\ \/ mode[j] = "delegated" /\ ThreadAt(j, "prepare", "shown")
     \/ mode[j] = "manual" /\ ThreadAt(j, "order", "shown")
  /\ record' = [record EXCEPT ![j] = TRUE]
  /\ UNCHANGED <<mode, known, state, certificate_id, events, runner, args,
                 lookups, dns, disk>>

ThreadAsksForDns(j) ==
  /\ ThreadAt(j, "shown", "block")
  /\ SetState(j, "awaiting_dns")
  /\ UNCHANGED <<mode, known, record, certificate_id, events, runner, args,
                 lookups, dns, disk>>

\* _block_on_confirmation: the event may have been popped by _run.
ThreadBlocks(j) ==
  /\ \/ j \in confirm_events /\ ThreadAt(j, "block", "blocked")
     \/ j \notin confirm_events /\ ThreadAt(j, "block", "raised")
  /\ UNCHANGED <<mode, known, job, events, runner, args, lookups, dns, disk>>

ThreadConfirmed(j) ==
  /\ event_set[j]
  /\ \/ mode[j] = "delegated" /\ ThreadAt(j, "blocked", "order")
     \/ mode[j] = "manual" /\ ThreadAt(j, "blocked", "validate")
  /\ UNCHANGED <<mode, known, job, events, runner, args, lookups, dns, disk>>

\* Fault: event.wait() without a timeout.
FaultWaitsForever(j) == thread[j] = "blocked" /\ FALSE

ThreadWaitExpires(j) ==
  /\ ~event_set[j]
  /\ ThreadAt(j, "blocked", "raised")
  /\ UNCHANGED <<mode, known, job, events, runner, args, lookups, dns, disk>>

\* Modes other than manual publish the TXT record themselves.
ThreadPublishes(j) ==
  /\ mode[j] # "manual"
  /\ ThreadAt(j, "order", "validate")
  /\ UNCHANGED <<mode, known, job, events, runner, args, lookups, dns, disk>>

ThreadValidated(j) ==
  /\ ThreadAt(j, "validate", "save")
  /\ UNCHANGED <<mode, known, job, events, runner, args, lookups, dns, disk>>

\* Credentials are missing, the CA or the DNS provider refuses or is out of
\* reach, or the certificate file cannot be written.
ThreadRaises(j) ==
  /\ \E p \in {"prepare", "order", "validate", "save"} : ThreadAt(j, p, "raised")
  /\ UNCHANGED <<mode, known, job, events, runner, args, lookups, dns, disk>>

ThreadSaves(j) ==
  /\ ThreadAt(j, "save", "identify")
  /\ certs' = certs \union {j}
  /\ UNCHANGED <<mode, known, job, events, runner, args, lookups, dns, history>>

ThreadIdentifies(j) ==
  /\ ThreadAt(j, "identify", "check")
  /\ certificate_id' = [certificate_id EXCEPT ![j] = TRUE]
  /\ UNCHANGED <<mode, known, state, record, events, runner, args, lookups,
                 dns, disk>>

\* Fault: the thread does not look at abandoned.
FaultUnchecked(j) ==
  /\ ThreadAt(j, "check", "returned")
  /\ UNCHANGED <<mode, known, job, events, runner, args, lookups, dns, disk>>

ThreadChecks(j) ==
  /\ \/ abandoned[j] /\ ThreadAt(j, "check", "correct")
     \/ ~abandoned[j] /\ ThreadAt(j, "check", "returned")
  /\ UNCHANGED <<mode, known, job, events, runner, args, lookups, dns, disk>>

ThreadCorrects(j) ==
  /\ ThreadAt(j, "correct", "rewrite")
  /\ SetState(j, "done")
  /\ UNCHANGED <<mode, known, record, certificate_id, events, runner, args,
                 lookups, dns, disk>>

\* Fault: the row is rewritten with whatever the job says now.
FaultRewritesState(j) ==
  /\ ThreadAt(j, "rewrite", "returned")
  /\ history' = [history EXCEPT ![j] = [state |-> state[j], cert |-> TRUE]]
  /\ UNCHANGED <<mode, known, job, events, runner, args, lookups, dns, certs>>

ThreadRewrites(j) ==
  /\ ThreadAt(j, "rewrite", "returned")
  /\ history' = [history EXCEPT ![j] = [state |-> "done", cert |-> TRUE]]
  /\ UNCHANGED <<mode, known, job, events, runner, args, lookups, dns, certs>>

\* The exception goes to a future that nobody awaits any more.
ThreadCannotRewrite(j) ==
  /\ j \in Refusable
  /\ ThreadAt(j, "rewrite", "raised")
  /\ UNCHANGED <<mode, known, job, events, runner, args, lookups, dns, disk>>

ThreadStep(j) ==
  \/ ThreadStarts(j)
  \/ ThreadFindsDelegation(j)
  \/ ThreadSetsRecord(j)
  \/ ThreadAsksForDns(j)
  \/ ThreadBlocks(j)
  \/ ThreadConfirmed(j)
  \/ ThreadWaitExpires(j)
  \/ ThreadPublishes(j)
  \/ ThreadValidated(j)
  \/ ThreadRaises(j)
  \/ ThreadSaves(j)
  \/ ThreadIdentifies(j)
  \/ ThreadChecks(j)
  \/ ThreadCorrects(j)
  \/ ThreadRewrites(j)
  \/ ThreadCannotRewrite(j)

------------------------------------------------------------------------------
(***************************************************************************)
(* confirm_dns: the checks before the lookup, the await, and what is done  *)
(* with the answer.  Nothing is checked again after the await.             *)
(***************************************************************************)
LookupStarts(j) ==
  /\ LoopFree
  /\ j \in known
  /\ state[j] = "awaiting_dns"
  /\ record[j]
  /\ lookups[j] < MaxLookups
  /\ lookups' = [lookups EXCEPT ![j] = @ + 1]
  /\ UNCHANGED <<mode, known, job, events, runner, thread, args, dns, disk>>

LookupFails(j) ==
  /\ LoopFree
  /\ lookups[j] > 0
  /\ lookups' = [lookups EXCEPT ![j] = @ - 1]
  /\ UNCHANGED <<mode, known, job, events, runner, thread, args, dns, disk>>

\* Fault: the answer of the lookup is not looked at.
FaultAnyAnswer(j) ==
  /\ LoopFree
  /\ lookups[j] > 0
  /\ lookups' = [lookups EXCEPT ![j] = @ - 1]
  /\ SetState(j, "running")
  /\ event_set' = IF j \in confirm_events THEN [event_set EXCEPT ![j] = TRUE]
                                           ELSE event_set
  /\ UNCHANGED <<mode, known, record, certificate_id, confirm_events, abandoned,
                 runner, thread, args, dns, disk>>

LookupFinds(j) ==
  /\ LoopFree
  /\ lookups[j] > 0
  /\ dns[j]
  /\ lookups' = [lookups EXCEPT ![j] = @ - 1]
  /\ SetState(j, "running")
  /\ event_set' = IF j \in confirm_events THEN [event_set EXCEPT ![j] = TRUE]
                                           ELSE event_set
  /\ UNCHANGED <<mode, known, record, certificate_id, confirm_events, abandoned,
                 runner, thread, args, dns, disk>>

\* The person publishes the record: a CNAME at any time, a TXT when told its
\* value.  It stays published.  A job that nobody runs does not look at it.
Publish(j) ==
  /\ runner[j] \notin {"refused", "lost"}
  /\ mode[j] = "delegated" \/ (mode[j] = "manual" /\ record[j])
  /\ dns' = [dns EXCEPT ![j] = TRUE]
  /\ UNCHANGED <<mode, known, job, events, runner, thread, args, lookups, disk>>

------------------------------------------------------------------------------
\* The process is killed and started again: threads, coroutines and jobs are
\* lost, the database and the certificate files are not.
Restart ==
  /\ \E j \in Jobs : runner[j] \notin {"none", "lost"}
  /\ known' = {}
  /\ state' = [j \in Jobs |-> "none"]
  /\ record' = [j \in Jobs |-> FALSE]
  /\ certificate_id' = [j \in Jobs |-> FALSE]
  /\ confirm_events' = {}
  /\ event_set' = [j \in Jobs |-> FALSE]
  /\ abandoned' = [j \in Jobs |-> FALSE]
  /\ runner' = [j \in Jobs |-> IF runner[j] = "none" THEN "none" ELSE "lost"]
  /\ thread' = [j \in Jobs |-> IF runner[j] = "none" THEN "none" ELSE "lost"]
  /\ args' = [j \in Jobs |-> NoRow]
  /\ lookups' = [j \in Jobs |-> 0]
  /\ UNCHANGED <<mode, dns, disk>>

Next ==
  \/ \E j \in Jobs, m \in Modes, gone \in SUBSET known :
       Create(j, m, gone) \/ CreateFails(j, m, gone)
  \/ \E j \in Jobs : RunnerStep(j) \/ ThreadStep(j)
  \/ \E j \in Jobs : LookupStarts(j) \/ LookupFails(j) \/ LookupFinds(j)
  \/ \E j \in Jobs : Publish(j)
  \/ Restart

(***************************************************************************)
(* The loop keeps running its callbacks and timers, and the operating      *)
(* system keeps scheduling threads, whose waits and network calls are all  *)
(* bounded.  Nobody has to create a job, publish a record or confirm it.   *)
(***************************************************************************)
Fairness == \A j \in Jobs : WF_vars(RunnerStep(j)) /\ WF_vars(ThreadStep(j))

Spec == Init /\ [][Next]_vars /\ Fairness

------------------------------------------------------------------------------
TypeOK ==
  /\ mode \in [Jobs -> DnsModes \union {"none"}]
  /\ known \subseteq Jobs
  /\ state \in [Jobs -> JobStates]
  /\ record \in [Jobs -> BOOLEAN]
  /\ certificate_id \in [Jobs -> BOOLEAN]
  /\ confirm_events \subseteq Jobs
  /\ event_set \in [Jobs -> BOOLEAN]
  /\ abandoned \in [Jobs -> BOOLEAN]
  /\ runner \in [Jobs -> RunnerPlaces]
  /\ thread \in [Jobs -> ThreadPlaces]
  /\ args \in [Jobs -> Rows]
  /\ lookups \in [Jobs -> 0..MaxLookups]
  /\ dns \in [Jobs -> BOOLEAN]
  /\ certs \subseteq Jobs
  /\ history \in [Jobs -> Rows]

\* Whatever says done - the job a client polls or the row the scheduler
\* reads - has its certificate stored, and the row names it.
DoneMeansIssued ==
  \A j \in Jobs :
    /\ state[j] = "done" => j \in certs /\ certificate_id[j]
    /\ history[j].state = "done" => j \in certs /\ history[j].cert

\* A client that is told to create a record is told which: awaiting_dns is
\* never visible before the record's name and value.
AwaitingShowsRecord ==
  \A j \in Jobs : state[j] = "awaiting_dns" => record[j]

\* No order of a job that waits for a person reaches the CA's validation
\* before the record it needs is published.
ConfirmedBeforeValidation ==
  \A j \in Jobs :
    /\ mode[j] \in EventBased
    /\ thread[j] \in {"validate", "save", "identify", "check", "correct", "rewrite"}
    => dns[j]

\* A thread that outlives its coroutine is marked as abandoned, before it can
\* look at the mark, so that it knows it has to correct the row.
OrphanIsMarked ==
  \A j \in Jobs :
    runner[j] = "ended" /\ thread[j] \in Working => abandoned[j]

\* A direct job, which no confirmation can reach, always comes to rest in a
\* terminal state: its progress stream ends.
DirectJobsSettle ==
  \A j \in Jobs :
    mode[j] = "direct" /\ runner[j] = "ended" => state[j] \in Terminal

\* Once the coroutine has closed the row, or is lost, the only change left is
\* the orphan's correction to done.
ClosedRowOnlyCorrected ==
  [][\A j \in Jobs :
       /\ runner[j] \in {"ended", "lost"}
       /\ history'[j] # history[j]
       => history'[j].state = "done" /\ j \in certs]_vars

\* A certificate saved after the attempt was closed as failed ends as done in
\* the history, unless the process dies first or the database refuses a write.
LateSuccessRecorded ==
  \A j \in Jobs :
    (runner[j] = "ended" /\ thread[j] = "identify")
      ~> (history[j].state = "done" \/ runner[j] = "lost" \/ thread[j] = "raised")

\* No thread keeps its worker forever, even if nobody ever confirms.
WorkersComeBack == \A j \in Jobs : []<>(thread[j] \notin Working)

\* The rows of the table behave as the ledger promises, and every open row is
\* closed or its closing refused, also when its thread never got a worker.
Ledger == INSTANCE RenewalLedger WITH
  Attempts <- Jobs,
  Refusable <- Refusable,
  row <- [j \in Jobs |-> history[j].state],
  issued <- certs,
  open <- {j \in Jobs : runner[j] \in Active}

ImplementsLedger == Ledger!Spec

------------------------------------------------------------------------------
(***************************************************************************)
(* The inductive invariant: what the places of the coroutine and of the    *)
(* thread say about the rest of a job.                                     *)
(***************************************************************************)

\* A job that was not created has touched nothing, one that was refused only
\* itself; a thread exists only after _run submitted it, and is queued only
\* while _run waits for it.
Unstarted(j) ==
  /\ runner[j] \in {"none", "refused", "scheduled"} => thread[j] = "none"
  /\ runner[j] = "none" => state[j] = "none"
  /\ runner[j] = "refused" => state[j] = "pending"
  /\ runner[j] \in {"none", "refused"} =>
       /\ history[j].state = "none"
       /\ lookups[j] = 0
  /\ \/ runner[j] \in Active \union {"ended"}
     \/ thread[j] \in Working \union {"queued"}
     => history[j].state # "none"
  /\ thread[j] = "queued" => runner[j] = "waiting"

\* save_certificate, then certificate_id, then DONE, then the row.
IssuedInOrder(j) ==
  /\ thread[j] \in {"identify", "check", "correct", "rewrite", "returned"}
       => j \in certs
  /\ thread[j] \in {"check", "correct", "rewrite", "returned"} => certificate_id[j]
  /\ certificate_id[j] => j \in certs
  /\ state[j] = "done" => certificate_id[j]
  /\ history[j].state = "done" => j \in certs /\ history[j].cert

\* What _run is about to write was read from a job that had come to rest.
ClosingArguments(j) ==
  /\ runner[j] \in {"pop", "read_state"} => state[j] \in {"done", "failed", "awaiting_dns"}
  /\ runner[j] \in {"read_cert", "write"}
       => args[j].state \in {"done", "failed", "awaiting_dns"}
  /\ runner[j] \in {"read_cert", "write"} /\ args[j].state = "done" => certificate_id[j]
  /\ runner[j] = "write" /\ args[j].state = "done" => args[j].cert

\* The record is on the job before the state that announces it.
RecordBeforeAwaiting(j) ==
  thread[j] \in {"shown", "block", "blocked"} \/ state[j] = "awaiting_dns" => record[j]

\* The event is set only for a published record, and it is the only way on.
ConfirmedInOrder(j) ==
  /\ event_set[j] => dns[j]
  /\ mode[j] = "delegated" /\ thread[j] = "order" => dns[j]
  /\ /\ mode[j] \in EventBased
     /\ thread[j] \in {"validate", "save", "identify", "check", "correct", "rewrite"}
     => dns[j]

\* From the timeout on, a thread still at work carries the mark.
MarkedInTime(j) ==
  runner[j] \in Closing \union {"ended"} /\ thread[j] \in Working => abandoned[j]

\* A direct job is never shown to anybody, so nobody else moves its state.
DirectUntouched(j) ==
  mode[j] = "direct" =>
    /\ thread[j] \notin {"shown", "block", "blocked"}
    /\ state[j] # "awaiting_dns"
    /\ lookups[j] = 0
    /\ runner[j] \in {"pop", "read_state", "read_cert", "write", "ended"}
         => state[j] \in Terminal

Coherent(j) ==
  /\ Unstarted(j)
  /\ IssuedInOrder(j)
  /\ ClosingArguments(j)
  /\ RecordBeforeAwaiting(j)
  /\ ConfirmedInOrder(j)
  /\ MarkedInTime(j)
  /\ DirectUntouched(j)

IInv == TypeOK /\ \A j \in Jobs : Coherent(j)

------------------------------------------------------------------------------
(***************************************************************************)
(* What comments of the code claim and the code does not do.               *)
(***************************************************************************)
Quiet(j) == runner[j] = "ended" /\ thread[j] \in ThreadOver /\ lookups[j] = 0

\* renewal.py: "nunca deixa o job travado em progresso".  When nobody works
\* on a job any more, it is not still in progress.
NeverStuckInProgress ==
  \A j \in Jobs : Quiet(j) => state[j] \notin {"pending", "running"}

\* renewal.py: "o certificado, uma vez emitido de verdade, é reconhecido,
\* nunca descartado".  When nobody works on it any more, the row of a stored
\* certificate says done.
IssuedIsRecognised ==
  \A j \in Jobs : Quiet(j) /\ j \in certs => history[j].state = "done"
=============================================================================
