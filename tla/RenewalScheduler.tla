-------------------------- MODULE RenewalScheduler --------------------------
(***************************************************************************)
(* RenewalScheduler (app/acme/scheduler.py) over the renewal history       *)
(* (app/acme/history.py).  check_once is run by the background loop and by *)
(* the check-now route, at the same time if it so happens: each run is a   *)
(* checker.  A checker reads every certificate file (place "listing"),     *)
(* takes a snapshot of the latest one of every domain, goes through it     *)
(* keeping the event loop (place "pass"), and lets the loop go only while  *)
(* it waits for a job it created (place "waiting").  A file that cannot be *)
(* read, or a database that refuses a read or a write, ends the pass for   *)
(* every domain that is left.                                              *)
(*                                                                         *)
(* Jobs are seen as the scheduler sees them: the thread that issues and    *)
(* the coroutine that waits for it and closes the row, which a timeout     *)
(* sets apart.  The clock is an integer.                                   *)
(***************************************************************************)
EXTENDS Naturals, Sequences, FiniteSets

CONSTANTS
  Domains,       \* domains with a certificate
  Renewable,     \* those whose dns_mode is in _AUTO_RENEWABLE_MODES
  Checkers,      \* the background loop and the check-now requests
  Background,    \* the checkers that start again on their own: the loop
  MaxRetries,    \* _MAX_AUTO_RETRIES
  BackoffBase,   \* _BACKOFF_BASE_SECONDS
  CheckInterval, \* check_interval_seconds
  Validity,      \* lifetime of a certificate
  MaxTime,       \* bound: the clock stops here
  MaxRows,       \* bound: rows of the history
  MaxManual,     \* bound: rows created by people
  MaxRestarts,   \* bound: deaths of the process
  MaxFaults      \* bound: refusals of the database

ASSUME RenewableAssumption == Renewable \subseteq Domains
ASSUME BackgroundAssumption == Background \subseteq Checkers
ASSUME MaxRetriesAssumption == MaxRetries \in Nat \ {0}
ASSUME ClockAssumption ==
  BackoffBase \in Nat /\ CheckInterval \in Nat /\ Validity \in Nat /\ MaxTime \in Nat
ASSUME BoundsAssumption ==
  MaxRows \in Nat /\ MaxManual \in Nat /\ MaxRestarts \in Nat /\ MaxFaults \in Nat

VARIABLES
  now,       \* the clock
  issued,    \* issue time of the latest stored certificate of a domain
  rows,      \* renewal_attempts, oldest first, with the job behind each row
  checker,   \* place of each checker
  todo,      \* what is left of its snapshot
  waits,     \* the row whose job it waits for, 0 if none
  notices,   \* what the passes said: notifier.notify, or renewed in the results
  restarts,  \* deaths so far
  faults     \* refusals so far

bounds == <<restarts, faults>>
vars == <<now, issued, rows, checker, todo, waits, notices, bounds>>

------------------------------------------------------------------------------
Triggers == {"scheduler", "manual"}

\* What a closing UPDATE may say.  awaiting_dns is read from a job that a thread
\* left behind still moves.
Closings == {"done", "failed", "awaiting_dns"}
RowStates == {"running"} \union Closings

\* The thread.  writing: the file of the certificate is open and empty; saved:
\* it is stored; correcting: the thread has found the mark of a timeout and set
\* the job done, its UPDATE comes next; over: it works no more; torn: the process
\* died while the file was empty.
ThreadPlaces == {"issuing", "writing", "saved", "correcting", "over", "torn"}

\* The coroutine.  marked: after a timeout it has set the mark; failing: it has
\* set the job failed; one of Closings: the state it read, to be written to the
\* row; ended: it has closed the row, or was refused.
TaskPlaces == {"waiting", "marked", "failing", "ended"} \union Closings

\* outcome is job.state as a poll reads it, working if it is no terminal state.
Row == [domain : Domains, trigger : Triggers, state : RowStates,
        created : Nat, finished : Nat, thread : ThreadPlaces, task : TaskPlaces,
        outcome : {"working", "done", "failed"}]

\* From its timeout to the end of history.finish a coroutine keeps the loop.
LoopFree ==
  /\ \A c \in Checkers : checker[c] \notin {"listing", "pass"}
  /\ \A i \in DOMAIN rows : rows[i].task \in {"waiting", "ended"}

\* list_certificates parses every file and raises on an empty one.
Readable == \A i \in DOMAIN rows : rows[i].thread \notin {"writing", "torn"}

\* renewal_threshold: a third of the lifetime before the end.
RenewAt(t) == t + Validity - Validity \div 3

\* attempts_since_last_success: the rows of a domain after its last done.
SinceSuccess(d) ==
  {i \in DOMAIN rows :
     /\ rows[i].domain = d
     /\ \A k \in DOMAIN rows : k >= i /\ rows[k].domain = d => rows[k].state # "done"}

LastOf(S) == CHOOSE i \in S : \A k \in S : k <= i

\* 2 ** n, as a function: the provers know nothing of ^.
TwoTo[n \in Nat] == IF n = 0 THEN 1 ELSE 2 * TwoTo[n - 1]

\* min(base * 2 ** (n - 1), check interval) after n attempts, n > 0.
Backoff(n) ==
  LET b == BackoffBase * TwoTo[n - 1] IN IF b < CheckInterval THEN b ELSE CheckInterval

\* Fault: the backoff counts from the start of the last attempt.
FaultBackoffFromStart(d) ==
  LET S == SinceSuccess(d) IN
    /\ S # {}
    /\ rows[LastOf(S)].state = "failed"
    /\ now - rows[LastOf(S)].created < Backoff(Cardinality(S))

\* Only a last attempt that was closed as failed is waited for.
BackingOff(d) ==
  LET S == SinceSuccess(d) IN
    /\ S # {}
    /\ rows[LastOf(S)].state = "failed"
    /\ now - rows[LastOf(S)].finished < Backoff(Cardinality(S))

\* Fault: the row is opened with the state of the new job.
FaultPendingRow(d, t) ==
  Append(rows, [domain |-> d, trigger |-> t, state |-> "pending",
                created |-> now, finished |-> 0, thread |-> "issuing",
                task |-> "waiting", outcome |-> "working"])

\* manager.create followed by history.start, on the loop without an await.
NewRow(d, t) ==
  Append(rows, [domain |-> d, trigger |-> t, state |-> "running",
                created |-> now, finished |-> 0, thread |-> "issuing",
                task |-> "waiting", outcome |-> "working"])

CreatedByPeople == {i \in DOMAIN rows : rows[i].trigger = "manual"}

Init ==
  /\ now = 0
  /\ issued = [d \in Domains |-> 0]
  /\ rows = <<>>
  /\ checker = [c \in Checkers |-> "idle"]
  /\ todo = [c \in Checkers |-> {}]
  /\ waits = [c \in Checkers |-> 0]
  /\ notices = {}
  /\ restarts = 0
  /\ faults = 0

------------------------------------------------------------------------------
(* check_once: the pass over the snapshot.                                 *)

CheckStarts(c) ==
  /\ LoopFree
  /\ checker[c] = "idle"
  /\ checker' = [checker EXCEPT ![c] = "listing"]
  /\ UNCHANGED <<now, issued, rows, todo, waits, notices, bounds>>

CheckLists(c) ==
  /\ checker[c] = "listing"
  /\ Readable
  /\ checker' = [checker EXCEPT ![c] = "pass"]
  /\ todo' = [todo EXCEPT ![c] = {[domain |-> d, issued |-> issued[d]] : d \in Domains}]
  /\ UNCHANGED <<now, issued, rows, waits, notices, bounds>>

\* Fault: the exception of a pass ends the loop.
FaultKillsLoop(c) ==
  /\ checker[c] = "listing"
  /\ ~Readable
  /\ checker' = [checker EXCEPT ![c] = "dead"]
  /\ UNCHANGED <<now, issued, rows, todo, waits, notices, bounds>>

\* Nothing is checked; the loop swallows the exception, the route answers 500.
CheckRaises(c) ==
  /\ checker[c] = "listing"
  /\ ~Readable
  /\ checker' = [checker EXCEPT ![c] = "idle"]
  /\ UNCHANGED <<now, issued, rows, todo, waits, notices, bounds>>

CheckEnds(c) ==
  /\ checker[c] = "pass"
  /\ todo[c] = {}
  /\ checker' = [checker EXCEPT ![c] = "idle"]
  /\ UNCHANGED <<now, issued, rows, todo, waits, notices, bounds>>

\* list_certificates sorts by issue time, the latest first.
Taken(c, cert) ==
  /\ checker[c] = "pass"
  /\ cert \in todo[c]
  /\ \A other \in todo[c] : other.issued <= cert.issued
  /\ todo' = [todo EXCEPT ![c] = @ \ {cert}]

Due(cert) == now >= RenewAt(cert.issued)

CertSkipped(c, cert) ==
  /\ Taken(c, cert)
  /\ \/ ~Due(cert)
     \/ Due(cert) /\ cert.domain \in Renewable /\ BackingOff(cert.domain)
  /\ UNCHANGED <<now, issued, rows, checker, waits, notices, bounds>>

ManualRenewalNotified(c, cert) ==
  /\ Taken(c, cert)
  /\ Due(cert)
  /\ cert.domain \notin Renewable
  /\ notices' = notices \union {<<"manual", cert.domain>>}
  /\ UNCHANGED <<now, issued, rows, checker, waits, bounds>>

\* Fault: a domain without attempts left is passed over in silence.
FaultExhaustedInSilence(c, cert) ==
  /\ Taken(c, cert)
  /\ Due(cert)
  /\ cert.domain \in Renewable
  /\ ~BackingOff(cert.domain)
  /\ Cardinality(SinceSuccess(cert.domain)) >= MaxRetries
  /\ UNCHANGED <<now, issued, rows, checker, waits, notices, bounds>>

RetriesExhausted(c, cert) ==
  /\ Taken(c, cert)
  /\ Due(cert)
  /\ cert.domain \in Renewable
  /\ ~BackingOff(cert.domain)
  /\ Cardinality(SinceSuccess(cert.domain)) >= MaxRetries
  /\ notices' = notices \union {<<"exhausted", cert.domain>>}
  /\ UNCHANGED <<now, issued, rows, checker, waits, bounds>>

\* Fault: one attempt too many.
FaultOneTooMany(c, cert) ==
  /\ Taken(c, cert)
  /\ Due(cert)
  /\ cert.domain \in Renewable
  /\ ~BackingOff(cert.domain)
  /\ Cardinality(SinceSuccess(cert.domain)) <= MaxRetries
  /\ Len(rows) < MaxRows
  /\ rows' = NewRow(cert.domain, "scheduler")
  /\ checker' = [checker EXCEPT ![c] = "waiting"]
  /\ waits' = [waits EXCEPT ![c] = Len(rows) + 1]
  /\ UNCHANGED <<now, issued, notices, bounds>>

\* Reading the attempts and creating the job is one callback of the loop.
RenewalAttempted(c, cert) ==
  /\ Taken(c, cert)
  /\ Due(cert)
  /\ cert.domain \in Renewable
  /\ ~BackingOff(cert.domain)
  /\ Cardinality(SinceSuccess(cert.domain)) < MaxRetries
  /\ Len(rows) < MaxRows
  /\ rows' = NewRow(cert.domain, "scheduler")
  /\ checker' = [checker EXCEPT ![c] = "waiting"]
  /\ waits' = [waits EXCEPT ![c] = Len(rows) + 1]
  /\ UNCHANGED <<now, issued, notices, bounds>>

\* The attempts cannot be read or the row not be inserted (manager.create
\* raises): the pass ends there, also for the domains that are left.
PassCut(c, cert) ==
  /\ checker[c] = "pass"
  /\ cert \in todo[c]
  /\ todo' = [todo EXCEPT ![c] = {}]
  /\ Due(cert)
  /\ cert.domain \in Renewable
  /\ faults < MaxFaults
  /\ faults' = faults + 1
  /\ checker' = [checker EXCEPT ![c] = "idle"]
  /\ UNCHANGED <<now, issued, rows, waits, notices, restarts>>

\* Fault: the checker stops waiting before the job is over.
FaultStopsWaiting(c) ==
  /\ LoopFree
  /\ checker[c] = "waiting"
  /\ notices' = notices \union {<<"failed", waits[c]>>}
  /\ checker' = [checker EXCEPT ![c] = "pass"]
  /\ waits' = [waits EXCEPT ![c] = 0]
  /\ UNCHANGED <<now, issued, rows, todo, bounds>>

\* job.state is terminal, or the deadline has passed, which is ten seconds after
\* the longest a job may take: the coroutine has ended.
PollEnds(c) ==
  /\ LoopFree
  /\ checker[c] = "waiting"
  /\ rows[waits[c]].outcome # "working" \/ rows[waits[c]].task = "ended"

\* Fault: a failed attempt is reported only by the pass that finds it spent.
FaultFailsInSilence(c) ==
  /\ PollEnds(c)
  /\ notices' = IF rows[waits[c]].outcome = "done"
                  THEN notices \union {<<"renewed", waits[c]>>}
                  ELSE notices
  /\ checker' = [checker EXCEPT ![c] = "pass"]
  /\ waits' = [waits EXCEPT ![c] = 0]
  /\ UNCHANGED <<now, issued, rows, todo, bounds>>

\* A job given up at the deadline is reported like a failure.
AttemptSeen(c) ==
  /\ PollEnds(c)
  /\ notices' = notices \union
       {<<IF rows[waits[c]].outcome = "done" THEN "renewed" ELSE "failed", waits[c]>>}
  /\ checker' = [checker EXCEPT ![c] = "pass"]
  /\ waits' = [waits EXCEPT ![c] = 0]
  /\ UNCHANGED <<now, issued, rows, todo, bounds>>

PassStep(c) ==
  \/ CheckLists(c)
  \/ CheckRaises(c)
  \/ CheckEnds(c)
  \/ \E cert \in todo[c] :
       \/ CertSkipped(c, cert)
       \/ ManualRenewalNotified(c, cert)
       \/ RetriesExhausted(c, cert)
       \/ RenewalAttempted(c, cert)
       \/ PassCut(c, cert)
  \/ AttemptSeen(c)

CheckStep(c) == CheckStarts(c) \/ PassStep(c)

------------------------------------------------------------------------------
(***************************************************************************)
(* The jobs.  The thread goes on at any moment, also while the loop is     *)
(* held; the coroutine goes on when the loop is free, and keeps it.        *)
(***************************************************************************)
RenewedByPerson(d) ==
  /\ LoopFree
  /\ Len(rows) < MaxRows
  /\ Cardinality(CreatedByPeople) < MaxManual
  /\ rows' = NewRow(d, "manual")
  /\ UNCHANGED <<now, issued, checker, todo, waits, notices, bounds>>

CertificateOpened(i) ==
  /\ rows[i].thread = "issuing"
  /\ rows' = [rows EXCEPT ![i].thread = "writing"]
  /\ UNCHANGED <<now, issued, checker, todo, waits, notices, bounds>>

CertificateSaved(i) ==
  /\ rows[i].thread = "writing"
  /\ rows' = [rows EXCEPT ![i].thread = "saved"]
  /\ issued' = [issued EXCEPT ![rows[i].domain] = now]
  /\ UNCHANGED <<now, checker, todo, waits, notices, bounds>>

\* history.finish, called on the way of row i to r.  If the database refuses the
\* UPDATE the row says what it said, the job goes its way all the same.
Finish(i, s, r) ==
  /\ \/ /\ rows' = [rows EXCEPT ![i] = [r EXCEPT !.state = s, !.finished = now]]
        /\ UNCHANGED faults
     \/ /\ faults < MaxFaults
        /\ faults' = faults + 1
        /\ rows' = [rows EXCEPT ![i] = r]
  /\ UNCHANGED <<now, issued, checker, todo, waits, notices, restarts>>

\* The thread has returned or raised in time: the coroutine closes the row with
\* nobody beside it.
JobEnds(i, s) ==
  /\ LoopFree
  /\ rows[i].task = "waiting"
  /\ Finish(i, s, [rows[i] EXCEPT !.task = "ended", !.thread = "over", !.outcome = s])

JobDone(i) == rows[i].thread = "saved" /\ JobEnds(i, "done")

JobFailed(i) == rows[i].thread = "issuing" /\ JobEnds(i, "failed")

\* TimeoutError: abandoned.set().  A thread that had not been started never is,
\* and one that is past its look at the mark has just returned.
JobTimesOut(i) ==
  /\ LoopFree
  /\ rows[i].task = "waiting"
  /\ \E place \in {rows[i].thread}
                  \union (IF rows[i].thread = "writing" THEN {} ELSE {"over"}) :
       rows' = [rows EXCEPT ![i].task = "marked", ![i].thread = place]
  /\ UNCHANGED <<now, issued, checker, todo, waits, notices, bounds>>

SetFailed(i) ==
  /\ rows[i].task = "marked"
  /\ rows' = [rows EXCEPT ![i].task = "failing", ![i].outcome = "failed"]
  /\ UNCHANGED <<now, issued, checker, todo, waits, notices, bounds>>

\* job.state.value, an argument of history.finish: the thread may have moved it.
StateRead(i) ==
  /\ rows[i].task = "failing"
  /\ rows' = [rows EXCEPT ![i].task =
       IF rows[i].outcome = "working" THEN "awaiting_dns" ELSE rows[i].outcome]
  /\ UNCHANGED <<now, issued, checker, todo, waits, notices, bounds>>

RowClosed(i) ==
  /\ rows[i].task \in Closings
  /\ Finish(i, rows[i].task, [rows[i] EXCEPT !.task = "ended"])

\* job.state of a job that has ended matters while a checker polls it.
Polled(i) == rows[i].task = "ended" => \E c \in Checkers : waits[c] = i

\* A thread left behind reaches its wait for a DNS record: awaiting_dns.
OrphanAwaits(i) ==
  /\ rows[i].thread = "issuing"
  /\ rows[i].task # "waiting"
  /\ Polled(i)
  /\ rows[i].outcome # "working"
  /\ rows' = [rows EXCEPT ![i].outcome = "working"]
  /\ UNCHANGED <<now, issued, checker, todo, waits, notices, bounds>>

OrphanRaises(i) ==
  /\ rows[i].thread = "issuing"
  /\ rows[i].task # "waiting"
  /\ rows' = [rows EXCEPT ![i].thread = "over"]
  /\ UNCHANGED <<now, issued, checker, todo, waits, notices, bounds>>

\* It finds the mark beside the certificate it has saved: job.state is done.
OrphanFinds(i) ==
  /\ rows[i].thread = "saved"
  /\ rows[i].task # "waiting"
  /\ rows' = [rows EXCEPT ![i].thread = "correcting", ![i].outcome = "done"]
  /\ UNCHANGED <<now, issued, checker, todo, waits, notices, bounds>>

\* Its UPDATE, before or after the one of the coroutine.
RowCorrected(i) ==
  /\ rows[i].thread = "correcting"
  /\ Finish(i, "done", [rows[i] EXCEPT !.thread = "over"])

JobStep(i) ==
  \/ CertificateOpened(i)
  \/ CertificateSaved(i)
  \/ JobDone(i)
  \/ JobFailed(i)
  \/ JobTimesOut(i)
  \/ SetFailed(i)
  \/ StateRead(i)
  \/ RowClosed(i)
  \/ OrphanAwaits(i)
  \/ OrphanRaises(i)
  \/ OrphanFinds(i)
  \/ RowCorrected(i)

\* confirm_dns of a person whose lookup lasted until the job was over: it sets
\* the job running without a second look.
ConfirmedLate(i) ==
  /\ LoopFree
  /\ rows[i].task = "ended"
  /\ Polled(i)
  /\ rows[i].outcome # "working"
  /\ rows' = [rows EXCEPT ![i].outcome = "working"]
  /\ UNCHANGED <<now, issued, checker, todo, waits, notices, bounds>>

Tick ==
  /\ now < MaxTime
  /\ now' = now + 1
  /\ UNCHANGED <<issued, rows, checker, todo, waits, notices, bounds>>

\* The rows of a dead process stay as they are; its threads and jobs are gone, and
\* nobody reads an outcome again.
Restart ==
  /\ restarts < MaxRestarts
  /\ restarts' = restarts + 1
  /\ rows' = [i \in DOMAIN rows |->
                [rows[i] EXCEPT !.task = "ended",
                                !.thread = IF @ \in {"writing", "torn"} THEN "torn"
                                                                        ELSE "over",
                                !.outcome = "failed"]]
  /\ checker' = [c \in Checkers |-> "idle"]
  /\ todo' = [c \in Checkers |-> {}]
  /\ waits' = [c \in Checkers |-> 0]
  /\ UNCHANGED <<now, issued, notices, faults>>

Next ==
  \/ \E c \in Checkers : CheckStep(c)
  \/ \E d \in Domains : RenewedByPerson(d)
  \/ \E i \in DOMAIN rows : JobStep(i) \/ ConfirmedLate(i)
  \/ Tick
  \/ Restart

(***************************************************************************)
(* The loop wakes the checkers that wait, the background loop starts again *)
(* after every pass, and every attempt comes to its end, which is what     *)
(* RenewalManager guarantees (ImplementsLedger).  Nobody has to press the  *)
(* button.                                                                 *)
(***************************************************************************)
Fairness ==
  /\ \A c \in Checkers \ Background : WF_vars(PassStep(c))
  /\ \A c \in Background : WF_vars(CheckStep(c))
  /\ \A i \in 1..MaxRows : WF_vars(i \in DOMAIN rows /\ JobStep(i))

Spec == Init /\ [][Next]_vars /\ Fairness

------------------------------------------------------------------------------
TypeOK ==
  /\ now \in 0..MaxTime
  /\ issued \in [Domains -> 0..MaxTime]
  /\ rows \in Seq(Row)
  /\ checker \in [Checkers -> {"idle", "listing", "pass", "waiting"}]
  /\ todo \in [Checkers -> SUBSET [domain : Domains, issued : 0..MaxTime]]
  /\ waits \in [Checkers -> 0..Len(rows)]
  /\ restarts \in 0..MaxRestarts
  /\ faults \in 0..MaxFaults

\* The rows of a domain after its last success that stands: one that its own
\* coroutine is about to write over does not.
SinceStanding(d) ==
  {i \in DOMAIN rows :
     /\ rows[i].domain = d
     /\ \A k \in DOMAIN rows : k >= i /\ rows[k].domain = d
                                 => ~(rows[k].state = "done" /\ rows[k].task = "ended")}

\* Since the last success of a domain that stands the scheduler has started at
\* most MaxRetries attempts, however many passes run at once.
RetriesBounded ==
  \A d \in Domains :
    Cardinality({i \in SinceStanding(d) : rows[i].trigger = "scheduler"}) <= MaxRetries

\* Every job the scheduler started and whose coroutine has not ended is waited
\* for by a checker of its own, which will report it.
RunningIsWatched ==
  /\ \A i \in DOMAIN rows :
       rows[i].trigger = "scheduler" /\ rows[i].task # "ended"
         => \E c \in Checkers : checker[c] = "waiting" /\ waits[c] = i
  /\ \A c, e \in Checkers : waits[c] # 0 /\ waits[c] = waits[e] => c = e

\* The job of a coroutine that waits is open and works, and its thread has found
\* no mark; until the coroutine has ended nobody but an orphan has written the row.
RowsAreSound ==
  \A i \in DOMAIN rows :
    /\ rows[i].task = "waiting" => rows[i].state = "running" /\ rows[i].outcome = "working"
    /\ rows[i].task = "waiting" => rows[i].thread # "correcting"
    /\ rows[i].task # "ended" => rows[i].state \in {"running", "done"}

\* No pass looks at the history while a coroutine closes a row.
OneHoldsTheLoop ==
  \A c \in Checkers : checker[c] \in {"listing", "pass"}
    => \A i \in DOMAIN rows : rows[i].task \in {"waiting", "ended"}

WaitsAreSound == \A c \in Checkers : checker[c] = "waiting" <=> waits[c] # 0

\* The inductive invariant.
IInv ==
  TypeOK /\ RowsAreSound /\ OneHoldsTheLoop /\ WaitsAreSound /\ RunningIsWatched
  /\ RetriesBounded

\* With one checker, attempts of the scheduler come ever further apart: after
\* the n-th failure in a row the next waits for Backoff(n).  Two kinds of rows
\* do not slow the next attempt down: one that nobody closed, because the
\* process died or the database refused, and one that was closed with the
\* awaiting_dns of a thread that went on after its timeout.  They never let it
\* start beside a live attempt of the scheduler: only beside one that a person
\* asked for.
AttemptsSpread ==
  \A d \in Renewable : \A i, k \in SinceStanding(d) :
    /\ i < k
    /\ \A m \in SinceStanding(d) : ~(i < m /\ m < k)
    /\ rows[k].trigger = "scheduler"
    => \/ /\ rows[i].state = "failed"
          /\ rows[k].created - rows[i].finished
               >= Backoff(Cardinality({m \in SinceStanding(d) : m <= i}))
       \/ rows[i].task = "ended" /\ rows[i].state \in {"running", "awaiting_dns"}
       \/ /\ rows[i].trigger = "manual"
          /\ \/ rows[i].task # "ended"
             \/ rows[i].state = "failed" /\ rows[i].finished >= rows[k].created

Reported(i) == <<"failed", i>> \in notices \/ <<"renewed", i>> \in notices

\* Attempts of the scheduler that ended and of which no pass has said anything.
Unreported ==
  {i \in DOMAIN rows :
     rows[i].trigger = "scheduler" /\ rows[i].task = "ended" /\ ~Reported(i)}

\* A failure of the scheduler is notified, also when its row could not be closed
\* or its job hangs in awaiting_dns, unless the orphan makes it a success first
\* or the process dies: it is never silent.  A row leaves Unreported for good, so
\* that none stays if the set is empty again and again.
FailureIsNotified == []<>(Unreported = {} \/ restarts > 0)

\* scheduler.py: "uma falha na checagem não pode matar o loop pra sempre".
\* Whatever a pass runs into - a file it cannot read, a database that refuses, a
\* job that never leaves awaiting_dns - the loop comes back and starts another
\* one, until the bound on rows stops it in the middle of a pass.
ChecksGoOn ==
  \A c \in Background :
    []<>(checker[c] = "listing" \/ (checker[c] = "pass" /\ Len(rows) = MaxRows))

\* A due domain that has used up its attempts is reported by the next pass, once
\* its backoff is over: it does not stay unreported.
ExhaustionIsNotified ==
  \A d \in Renewable :
    []<>(\/ <<"exhausted", d>> \in notices
         \/ Cardinality(SinceSuccess(d)) < MaxRetries
         \/ now < RenewAt(issued[d])
         \/ BackingOff(d))

\* scheduler.py: after a renewal the old certificate "fica de fora": no attempt
\* is started on a domain that a renewal was closed on as done, before its
\* latest certificate is due.
SupersededStaysOut ==
  [][\A d \in Domains :
       /\ Len(rows') > Len(rows) /\ rows'[Len(rows')].trigger = "scheduler"
       /\ rows'[Len(rows')].domain = d
       /\ \E i \in DOMAIN rows :
            rows[i].domain = d /\ rows[i].state = "done" /\ rows[i].task = "ended"
       => now >= RenewAt(issued[d])]_vars
=============================================================================
