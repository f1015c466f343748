# A formal model of cert-discovery (Certificate Manager)

cert-discovery finds, issues, renews and audits TLS certificates. It is one
Python process: a FastAPI application on a single event loop (`--workers 1`),
the threads of asyncio's default executor, a SQLite database in WAL mode and a
directory of JSON files. This directory holds TLA+ modules of its core, the TLC
configurations that check them on small instances, and proofs that TLAPS
accepts.

Paths are relative to the repository. `PROJECT.json` names the source lines
behind every definition (`map`), the runs, a plausible bug that breaks each
property (`mutants`, the definitions called `Fault...`), the hazards of the code
and the theorems.

Contents: [inventory](#inventory), [modules](#modules-and-the-code),
[runs](#runs-and-what-they-show), [bounds](#bounds), [fairness](#fairness),
[proofs](#proofs), [disagreements](#where-the-code-and-its-words-disagree),
[limits](#what-is-only-model-checked-and-what-is-not-modelled), [plan](#plan).

## How to run it

    tlc -workers 2 -config RenewalManager_safety.cfg MCRenewalManager.tla
    tlapm RenewalManagerProofs.tla

Each `X_y.cfg` belongs to `MCX.tla`, but `AuditLog_clock.cfg`, which needs no
values of its own and belongs to `AuditLog.tla`. `MCScanJob` instantiates
`ScanRoutes`, which extends `ScanJob`.

## Inventory

### Core of the system

**Renewal jobs** (`app/acme/renewal.py`, `issuance.py`, `history.py`). State:
`manager._jobs` and `_confirm_events` in memory, a row of `renewal_attempts` per
job, the stored certificate. Operations: `create`, `_run`, the thread
`_issue_sync` with one `_issue_via_*` for each DNS mode, `confirm_dns`,
eviction. Interaction: `_run` waits with a budget for a thread it cannot stop;
`confirm_dns` and the thread meet at a `threading.Event`; the thread and the
coroutine write the same job and the same row. Hard: timeouts against late
results, threads that outlive their coroutine ("orphans"), state read before an
await and used after it, a pool whose workers wait for people. Correct when:
done means issued, a late success is recorded, workers come back, no job that
needs a person is validated without one.

**Renewal scheduler** (`app/acme/scheduler.py`). State: the time of the last
check; everything else is read back from the history and the certificates.
Operations: `check_once`, by the background loop and by "check now"; for each
due certificate a notice, a backoff, a report of exhaustion or an attempt that
is waited for. Interaction: creates renewal jobs, polls their state, notifies.
Hard: several passes and people's own renewals at once, a snapshot of
certificates used over awaits, orphans that change the last row while a backoff
is computed from it. Correct when: attempts are bounded and spread, every
failure is reported, superseded certificates are left alone, the checks go on
whatever a pass runs into.

**Audit log** (`app/audit/log.py`, the migrations of `app/core/db.py`). State:
rows linked by HMAC, the mark of the migration. Operations: `record`,
`verify_chain`, the rebuild at the first connection. Interaction: every other
component calls `record`, from the loop and from threads. Hard: concurrent
callers read the last hash and insert; the rebuild is in several transactions
and may be interrupted or repeated; the order of the chain is the wall clock's.
Correct when: an untouched log verifies, a touched one does not, rows are never
lost.

**Scan jobs** (`app/jobs`, `app/domain/inventory.py`). State: the job in memory,
its row in `scan_jobs`, the records. Operations: `create`, `_run`, `_pipeline`,
`_process_host` (a task for every host), `build_inventory`, eviction, reload of
old rows. Interaction: many tasks append to one job; the progress stream polls
it, the route that creates it is behind a rate limiter. Hard: cancellation at
any await, exceptions of one task among many, failed writes. Correct when: a
scan that is done left no host out and named none twice, results are final,
every scan and every stream ends, and what a stream sent as final is what the
scan answers from then on.

**Rate limiter** (`app/core/ratelimit.py`). State: a deque of times per key.
Operation: `allow`, from the loop. Hard: the boundary of the window and the last
permitted request. Correct when: no window admits more than the limit and nobody
is refused below it.

**Catalog** (`app/catalog`, `routes_catalog.py`). State: rows of three tables.
Operations: create, update and delete, each recorded in the audit log.
Interaction: every access opens a connection of its own, which may have the
migration of the log to do; threads write the log at the same time. Hard: the
change is committed before it is recorded, and the handler may fail or die in
between. Correct when: the log tells what the tables hold, but for the changes
whose record failed.

**Accounts** (`app/auth`). State: `admin.json`, `saml_idp_config.json`, the
table `api_keys`; sessions, pending logins and SAML requests in memory.
Operations: setup, login, second step, logout, enrolment, users and roles, API
keys, single sign-on. Interaction: `require_admin` guards the routes of the
other components. Hard: long sequences of legal requests by several people,
tokens that outlive accounts, replays inside the TOTP window, restarts that
forget half of the state. Correct when: an administrator remains, nothing is
accepted twice, no unproved factor is in force.

**What issuances and CSRs leave behind** (`app/acme/store.py`, `selfdns.py`,
`cloudflare.py`, `azure_dns.py`, `app/pki/store.py`, `routes_csr.py`,
`routes_import.py`). State: `acme_accounts.json`, a file per certificate and per
pending CSR, the table of challenges in memory, the records at the providers.
Operations: load, register and save an account; set, answer and clear a
challenge; store, import and delete a certificate; create, complete and discard
a CSR. Interaction: issuing threads share the file and the table without a lock,
and the names at a provider; the routes write their files on the loop, any of
them may be cut short by a crash. Hard: lost updates, texts that mix, files torn
in the middle of a write, answers of a provider that are lost, the moment when a
key is in two places or in none. Correct when: no key is lost, saved accounts
stay, a challenge is answered while its order is pending and never after.

### Services around it

| component | state and operations | hard | correct when |
|---|---|---|---|
| Export (`exporters.py`) | no state; reads a certificate | - | - |
| DNS lookups (`app/acme/dns_check.py`) | no state; requests to resolvers | outages | - |
| Discovery, probing, urgency (`app/discovery`, `app/domain/urgency.py`) | no state; requests to services | outages | - |
| Notifications (`app/notify`) | settings; webhook and mail | failures are logged and swallowed | - |
| Secrets, configuration, headers (`app/core`) | master key, settings | - | - |
| Other routes, life span (`app/api`, `app/main.py`) | none of their own | - | - |
| Front end (`static`) | presentation | - | - |

The hazards of the code, each at its line, are listed in `PROJECT.json` with the
properties that watch them.

## Modules and the code

    RenewalLedger  <--refines--  RenewalManager  <--assumed by--  RenewalScheduler
    RateLimiter, ScanJob  <--extended by--  ScanRoutes
    AuditLog  <--extended by--  Catalog
    Accounts       Issuance

`MC` modules hold the values TLC uses, `...Proofs` modules the theorems about
the module of their name.

**RenewalManager** has, for each job, the place of the coroutine (`runner`) and
of the thread (`thread`). A step of the loop is what happens between two awaits,
and a coroutine that is between two awaits excludes every other callback
(`LoopFree`); threads interleave with it anywhere, so the loop's code that races
with a thread is cut into its reads and writes: `history.finish(job.state,
job.certificate_id)` is `RunnerReadsState`, `RunnerReadsCertificate`,
`RunnerCloses`. The six DNS modes are three kinds, by how they wait: `manual`
(for a TXT record, after the order), `delegated` (for a CNAME, before it, unless
it is there), `direct` (for nobody). Time is abstract: a budget may run out
whenever it is armed. `confirm_dns` is cut at its await (`LookupStarts`,
`LookupFinds`, `LookupFails`). The database may refuse a write of the history:
the INSERT of `create`, which leaves a job that nobody runs (`CreateFails`), the
UPDATE of the coroutine, which ends its task (`RunnerCannotClose`), that of the
orphan, whose exception nobody sees (`ThreadCannotRewrite`). `known` is
`manager._jobs`; a job is evicted by `create`. `Publish` is the person at the
DNS provider, `Restart` the death of the process: memory is gone, rows and
certificates stay.

**RenewalLedger** is what the history promises, whatever runs behind it: rows
open, certificates are stored, rows close once and are corrected to done at
most. It allows that a closing row reads `awaiting_dns`: the value is read from
a job an abandoned thread may still move. A refused write forsakes its row
(`Forsake`), which is then owed nothing more; that is allowed only for the
attempts in `Refusable`, so that nobody else may leave a row open.

**RenewalScheduler** has a clock, the rows of the attempts with their times and
triggers, the latest certificate per domain, and checkers: the background loop
and the "check now" button. Behind each row is the job as the scheduler sees it:
its thread (`thread`), which goes on at any moment, and its coroutine (`task`),
which goes on when the loop is free. In time the two end together (`JobDone`,
`JobFailed`). A timeout sets them apart, and from there the coroutine's closing
is four steps that keep the loop, as the code has them: `JobTimesOut` sets the
mark, `SetFailed` the state of the job, `StateRead` reads that state back as the
argument of `finish`, `RowClosed` writes it. Between any two of them the
orphaned thread may set the job to awaiting_dns (`OrphanAwaits`), raise, or find
the mark and set the job and then the row done (`OrphanFinds`, `RowCorrected`).
So a row may be closed as `awaiting_dns`, which `scheduler.py:142` gives no
backoff, and a `done` of the orphan may be written over with `failed`. `outcome`
is the state of the job in memory, which the checker polls and which an orphan
or a late confirmation (`ConfirmedLate`) may move back to no final state, and
then the checker gives up at its deadline (`PollEnds`); once a coroutine has
ended and nobody polls, those steps are left out (`Polled`), as nothing reads
the state any more. A closing the database refuses leaves its row as it is
(`Finish`). A pass lists the certificates first; one file that is being written,
or was torn by the death of the process, makes it raise for every domain
(`CheckRaises`), and a database that refuses ends it in the middle (`PassCut`).
The background loop swallows both and starts again.

**AuditLog** has callers that open a connection (and migrate), begin, insert and
end; SQLite's single writer is `lock`; `BEGIN IMMEDIATE` and the plain reads of
the migration are where the code has them. A hash is the sequence of what went
into it, and that is the text `_compute_hash` joins with `|` out of the fields
of a row: `Joined` does not tell a row from one in which a `|` moved from one
field to the next or a NULL became an empty name. `RowEdited`, `RowRejoined`,
`RowDeleted` are changes from outside, `ClockSetBack` the wall clock.

**Catalog** has one of the three registers, which differ in their columns only.
A handler is the caller `Loop` of `AuditLog` and goes through its connections
one after the other (`request.at`): load and change, record, reload. The commit
of the change and the record are two steps; what failed, raised or died in
between is in `missed`. `trail` is what was recorded. Threads are the other
callers.

**ScanJob** has one scan: the task `_run`, one task per host, the job, its row,
what `get` shows (`View`). Discovery may answer any set of names or raise; a
probe may end in any result or raise; a write of the history may fail
(`stored`). `Inventory` is `build_inventory` without the sorting: the first
record of every certificate, with the other hosts noted, and the records that
are of none (`Merged`).

**RateLimiter** keeps, for one key, ages instead of times: `Kept` pops what is
older than the window from the front of the deque, as `allow` does. `admitted`
is what the property counts, the requests admitted in the last window, and is
never popped by `allow`.

**ScanRoutes** puts the limiter before `create` and adds a progress stream. The
poll and the look at the state afterwards are two steps (`StreamSends`, then
`StreamEnds` or `StreamSleeps`), because sending gives way to other tasks. A
stream keeps the object it was opened with, the job or a copy of its row
(`source`): a copy never changes, and only the deadline ends its stream.

**Accounts** has the users with their roles and factors, sessions and pending
logins by name, requests, keys of administrators, and as history the proofs
(`accepted`) that let somebody in or put a factor in force. The handlers await
nothing between authorization and answer (`saml_acs` awaits only before it
consumes the request), so each is one step. Refused requests change nothing but
the SAML request they used up (`SamlRequestEnds`).

**Issuance** has the threads of `issue_certificate` in the modes that answer the
challenge themselves, each with its environment, domain and provider, over the
files and names they share. The embedded responder and Azure replace what a name
had and clear the whole name, Cloudflare adds a record and removes that record
(`Published`, `Cleared`). A request to Cloudflare or Azure may take effect
without an answer (`SetUnanswered`) and clearing may fail (`ClearFails`); what
then stays is in `left`. A restart empties the responder and leaves the
providers as they are. A write is two steps, as `write_text` is: the file is
opened and emptied, then the text is put in. Two `save_account` that overlap may
both read the old text, and the shorter of two texts leaves the end of the
longer behind it (`file = "garbage"`; `Size` counts accounts, the names being of
about the same length). A route ends before another begins but may be cut by
`Restart` (`handler` is where). `kept`, `given_up`, `saved`, `overlapped` and
`alone` are history for the properties.

## Runs and what they show

| run | states | what it shows |
|---|---|---|
| `RenewalManager_safety` | 1,009,955 | done means issued, shown means set, no validation before confirmation, orphans are marked, direct jobs settle, closed rows are only corrected, whatever write is refused |
| `RenewalManager_liveness` | 150,625 | late successes are recorded unless the database refuses them, every worker comes back, the manager implements `RenewalLedger` with its fairness |
| `RenewalScheduler_safety` | 2,815,213 | however many passes overlap, attempts since the last success that stands stay within the limit, and each attempt of the scheduler whose coroutine has not ended has exactly one checker to report it |
| `RenewalScheduler_liveness` | 595,062 | attempts are set apart by the backoff, but after rows not closed as failed; no failure and no exhaustion stays silent; the checks go on |
| `Catalog_safety` | 661,958 | rows in the order of their times whose hashed text nobody touched verify, an edit of that text or a deletion shows, the log only grows, and the trail explains the register |
| `ScanJob_safety` | 420,060 | a done scan covers its hosts and names none twice, its result never changes and is what the stream sent, the limiter respects its window, every scan and every stream ends |
| `Accounts_safety` | 1,208,944 | an administrator remains, nothing is accepted twice, factors in force were proved |
| `Issuance_safety` | 2,204,817 | orders use accounts the CA knows, saved accounts stay unless two saves overlapped or the process died inside one, challenges are there while a lone order is pending and gone afterwards unless nobody could clear them, no key is lost |
| `RenewalManager_stuck`, `RenewalManager_recognised`, `RenewalScheduler_superseded`, `AuditLog_clock` | - | counterexamples to what the code says of itself, see below |

Every property has a mutant: a plausible bug in one definition under which TLC
finds the property violated in the same run.

Runs in which the system may come to rest have `CHECK_DEADLOCK FALSE`: all jobs
are over, or the clock has reached its bound. `Catalog` with `AuditLog`,
`Accounts` and `Issuance` never stop and are checked for deadlock.

## Bounds

- `RenewalManager`: two jobs and one worker, the smallest pool in which a job
  may run out of its budget in the queue; jobs share nothing else, so a third
  only queues longer. Two lookups at once for one job: one that succeeds and one
  that comes too late. Every write of both jobs may be refused for safety, those
  of one job (`Refusable`) for liveness. Liveness uses delegated jobs, the mode
  with the longest path (it may wait for its CNAME and then issue), and one
  lookup.
- `RenewalScheduler`: the limit of 5 attempts is 2. Safety has the loop and the
  button, which differ in their fairness only and are interchangeable
  (`Symmetry`), on one domain; three rows, so that the limit can be exceeded by
  one; one restart, one attempt by a person, times 0 and 1 and no backoff, as
  the limit is to hold without its help. Liveness has the loop alone on two
  domains, one of them of a mode that only a person renews, as overlapping
  passes may rightly start attempts close together; two attempts, times 0 to 3,
  a backoff of one tick, and a database that refuses once (`MaxFaults`), which
  may cut a pass or leave a row open. That the backoff grows with the number of
  attempts does not show with two of them: this is `AttemptsAreSpread`, for any
  number. The counterexample `RenewalScheduler_superseded` has two domains that
  are both due, the loop and one person.
- `Catalog`: the loop and one thread are enough to fork the chain; two old rows,
  three in all, times 0 and 1, so that rows of equal and of reversed times
  occur. One entry: handlers come one at a time and concern one entry each, and
  the proof covers any number.
- `RateLimiter` in `ScanRoutes`: two requests in a window of two units, so that
  the boundary, one that is refused and one that is let in again occur.
- `ScanJob`: four names, one a wildcard, two sharing a certificate, room for
  three hosts and two probes at a time, so that some host is queued, some is cut
  off by the limit, and records are merged.
- `Accounts`: two people, one of whom can lose the other; a window of three
  periods; two secrets (first and renewed), two pending logins or SAML requests,
  three acceptances. `now` starts at 2 because counters below the current period
  exist in any real year.
- `Issuance`: two issuances, so that two threads register and save together; two
  environments, two domains and the three providers, so that they may agree or
  differ in each; one CSR and one import, as keys of different ids share
  nothing. Crashes are not bounded.

## Fairness

- `WF(RunnerStep)`, `WF(RunStep)`, `WF(ProbeStep)`: the event loop runs the
  callbacks that are ready and the timers that are due.
- `WF(StreamStep)` for the polls of a stream, and `SF(StreamExpires)`: every
  turn of a stream compares the clock with its deadline before it polls, so a
  stream that comes round again and again past its deadline ends there. The
  deadline is far beyond the budget of a scan, so it does not apply while one
  runs.
- `WF(PassStep)` for a pass somebody asked for, `WF(CheckStep)` for the
  background loop, which `run_forever` starts again after every pass.
- `WF(ThreadStep)`: the operating system schedules threads, and every wait of an
  issuing thread has a timeout (`event.wait(timeout)`, the requests, the poll of
  the CA). A queued thread starts when a worker is free.
- `WF(JobStep)` in the scheduler: the coroutine of every attempt ends, having
  closed its row or been refused, which is what `ImplementsLedger` shows of the
  manager.

Nobody is obliged to create a job, publish a record, confirm, or press a button;
restarts and clock steps are never required.

## Proofs

TLAPS checks these for every value of the constants that satisfies the named
assumptions.

| module | theorem | says |
|---|---|---|
| `RenewalManagerProofs` | `TypeCorrect`, `DoneIsIssued`, `AwaitingIsShown`, `ValidationIsConfirmed`, `OrphansAreMarked`, `DirectSettles` | `Spec => []Inv` for the six invariants of `RenewalManager_safety` |
| | `ClosedRowsStay` | the action property of that run |
| | `RefinesLedger` | `Spec` implements `RenewalLedger`'s `Init /\ [][Next]_vars` under the mapping of `Ledger` |
| | `StuckOnlyWhenConfirmed`, `RecognisedInTime` | what is true instead of the two claims that `RenewalManager_stuck` and `RenewalManager_recognised` refute |
| `AuditLogProofs` | `TypeCorrect`, `LogVerifies`, `LogOnlyGrows`, `TamperingIsSeen` | the same for the log, whatever the clock does |
| | `OnlyTamperingIsSeen` | what `AuditLog_clock` refutes holds if the clock is not set back (`StepsBack = FALSE`) |
| `AccountsProofs` | `TypeCorrect`, `AnAdminRemains`, `NothingAcceptedTwice`, `FactorsAreProved` | the four invariants of `Accounts_safety` |
| | `SessionsNeedProof` | an account with a second factor, or of single sign-on, gets a session only by a proof that was never accepted before |
| `RenewalSchedulerProofs` | `SchedulerTypeCorrect`, `RetriesAreBounded`, `RunningAttemptsAreWatched` | the three invariants of `RenewalScheduler_safety`, for any number of checkers, domains and rows |
| | `AttemptsAreSpread` | the invariant of `RenewalScheduler_liveness` for one checker, also with restarts and attempts of people, which that run leaves out, and with more than two attempts |
| | `NoneIsForgotten` | the safety part of `FailureIsNotified`: an attempt that ended unreported has a checker waiting for it, for any number of checkers |
| | `HistoryIsOnlyCorrected` | rows stay; once its coroutine has ended a row only becomes done; a success is taken back only by the closing of its own coroutine, which an orphan was faster than |
| `CatalogProofs` | `TrailIsTrue`, `CatalogTypeCorrect` | the trail and the types, whatever the clock does |
| | `CatalogKeepsTheLog`, `CatalogLogVerifies`, `CatalogLogOnlyGrows`, `CatalogTamperingIsSeen` | register and log implement `AuditLog`, so what is proved of the log holds under the handlers |
| `RateLimiterProofs` | `LimiterInvariant`, `WindowHolds` | the window is respected, for every limit and window |
| `ScanRoutesProofs` | `RoutesUseTheLimiter`, `RoutesRespectTheWindow` | the routes take the limiter's steps only, so the same holds behind them |
| | `RoutesUseTheScan`, `RoutesTypeCorrect` | they take the scan's steps only; types |
| | `BooksAreKept`, `DoneLeavesNobodyOut`, `EveryHostOnce` | a done scan covers its hosts, and none is reported twice, for every set of hosts and every bound |
| | `DoneIsFinal`, `StreamsShowTheResult` | the action property of `ScanJob_safety` and what a stream shows |
| `IssuanceProofs` | `IssuanceTypeCorrect`, `OrdersAreBacked`, `SavedAccountsAreKept`, `ChallengesAreCleared`, `LoneOrdersAreAnswered`, `KeysAreKept` | the six invariants of `Issuance_safety` |

*Renewal manager.* `DoneMeansIssued` alone is not inductive: `done` is copied
from the thread to the job, to the arguments of `finish` and to the row. `IInv`
says for each job (`Coherent`) where each copy was taken: `IssuedInOrder`
(store, then identify, then done, then row), `ClosingArguments` (what `_run` is
about to write was read from a job at rest), `ConfirmedInOrder` (the event is
set only for a published record and is the only way on), `MarkedInTime`,
`RecordBeforeAwaiting`, `Unstarted`, `DirectUntouched`. One lemma treats each
group of actions; the refinement follows from the same invariant. What becomes
of a job in the end needs more (`LInv`): a thread passes each place once, so
that nothing is stored before its save (`OnePass`); `_run` closes a job that is
out of `running`, and only a confirmation puts it back (`AtRest`); and without a
timeout what the thread returned is what the job, the arguments and the row say
(`InTime`). Hence the two counterexamples are the only ways: a job that nobody
works on is in progress only as running, with its record published, in a mode
that waits for a person, and a stored certificate is missing from the history
only if its attempt timed out or its write was refused.

*Audit log.* The order of the chain is the query's `ORDER BY`, a permutation of
the rows (`NthRow`): that every row has one place in it is proved first, by
counting the rows before each. While the rows are in the order of their times
the permutation is the identity (`RankInOrder`); once two are not, a new row
changes nothing about that. `IInv` says that none is missing (`Complete`), each
is linked to all before it from the rebuild on if nobody touched them and they
are in order (`LinkedOnceRebuilt`), that what a late migration selected is a
prefix of the log with the same contents (`SelectedRows`), and that a caller
between BEGIN and INSERT is alone and holds the last hash (`HoldsLastHash`).
`TamperingIsSeen` measures hashes (`TInv`): as long as the rows are in order,
those of untouched rows grow by one from row to row and end with what their row
recorded. A deletion leaves a gap in the lengths which no later deletion closes,
an edited row does not end its hash any more, and a new row is linked to the
last one (`Scarred`); `verify_chain` stops at either. When they are not in
order, some row comes after one whose hash is as long or longer (`Inverted`),
and `verify_chain` stops there. So tampering shows even after the clock was set
back, but then a log that nobody touched is reported too, see `AuditLog_clock`;
with a clock that is not, `InOrder` holds and only tampering shows.

*Accounts.* `AdminRemains` needs that keys and single sign-on exist only where
an administrator did (`AdminOnceSetUp`), because both create accounts or let
others be removed. `AcceptedOnce` compares the count of acceptances with the
number of distinct proofs; it is kept by `UsedUp` (the counter of an account is
at least every counter accepted for its secret, a pending secret has let nobody
in, a pending request was not answered) and `SecretsApart` (no two places hold
one secret). `SessionsNeedProof` follows from the same: the code a login accepts
is past the counter, so it is new.

*Scheduler.* `RetriesBounded` counts rows of the scheduler since the last
success that stands: a `done` counts only once the coroutine of its row has
ended, as an orphan's `done` may still be written over with `failed`
(`SinceStanding`). A pass counts since any `done`, but never while a coroutine
is closing, because that keeps the loop (`OneHoldsTheLoop`), and then the two
agree (`PassReadsWhatStands`). `IInv` adds that the job of a coroutine that
waits is open and at work, with no mark found (`RowsAreSound`), and that a
checker waits for a row exactly while it is waiting (`WaitsAreSound`). A step
leaves the rows alone, opens one, changes one (`Becomes`), or ends all: one
lemma each, and no action is treated twice. The coroutine of an attempt ends
only while a checker waits for it, which leaves only to report it: that is
`NoneIsForgotten`. `AttemptsSpread` compares backoffs. The provers know nothing
of `^`, so `Backoff` takes powers of two from a function (`TwoTo`) whose values
are found by a least counterexample (`LeastNatural`): `BackoffGrows` follows.
`SpreadInv` adds to `IInv` that no row was created in the future (`OpenRows`);
that a checker about to open one waits for no other is in `IInv`. A success
removes attempts from the count but never puts two next to each other that were
not, and the rank of those left only falls; as the backoff only grows, what was
far enough apart stays so (`SpreadStays`). A new attempt is far enough from the
last one because it passed `BackingOff` (`SpreadOpened`).

*Catalog.* A handler takes only steps of `AuditLog`'s caller `Loop`, so the
log's invariant carries over. `TrailIsTrue` needs what the handler knows between
commit and record (`HandlerKnows`), that ids are drawn once (`DrawnFirst`) and
that the register is as it was last told, but for the entry at work and the
missed (`TableAsTold`).

*Rate limiter.* `LInv`: the deque without its old entries is the queue of the
admitted. Popping before time passes makes no difference to what is kept
afterwards; nothing is assumed of the order of the ages.

*Scan routes.* `Settled`: a final state is left by `_run`, a row is never ahead
of its job, and a row that says done is the job with no host's task left to
change it. `SInv` adds that a stream sends a final snapshot only then. `Books`
balances what is counted: while `gather` waits, a chosen host is at work or
counted, and the records name the wildcards and those that are over
(`Gathering`); no host at work is named yet and no two records share a host
(`ReportedOnce`); the records are merged once, at the end (`MergedLast`). The
inventory is not a fold in the model but the list of the leading records
(`Merged`), which sets and cardinalities can reason about: each host is covered
by the leader of its certificate and by no other, so merging changes neither who
is named nor that they are apart.

*Issuance.* Four invariants, one for each concern: `KnownAccounts` (an account
in a file, in a text that was read or in an order is registered, for that
environment), `SavesApart` (without an overlap at most one thread is between
reading and writing, it holds every saved account, and a file that is not whole
is empty because of it, or of one that died there), `AloneUnderName` (an order
counted as alone shares its name with no pending one), `KeysInv` (the route at
work determines which files may be torn).

The assumptions are in the modules: the modes are among the three, pool size and
bounds are positive, `admin` and `leitor` are among the roles, and the hosts are
finitely many. Two theorems have a hypothesis of their own:
`OnlyTamperingIsSeen` a clock that is not set back, without which it is false
(`AuditLog_clock`), and `AttemptsAreSpread` a single checker, as the loop and
the button together may rightly start attempts close together.

## Where the code and its words disagree

- `renewal.py:148`: `confirm_dns` sets the job to running after its await
  without looking again. If the budget ran out meanwhile, the job stays running
  for ever and so does its stream; `renewal.py:197` says "nunca deixa o job
  travado em progresso". Run `RenewalManager_stuck`.
- `renewal.py:240`: the thread looks once whether it was abandoned; when the
  budget runs out after that and before the coroutine sees the result, the row
  says failed over a stored certificate. `renewal.py:181` says an issued
  certificate "é reconhecido, nunca descartado". Run
  `RenewalManager_recognised`.
- `scheduler.py:126`: the certificates of a pass are listed once, and each
  renewal the pass starts is awaited (184-185). A person renews one domain while
  the pass waits for another: the pass then renews it again, although
  `scheduler.py:12` says the superseded certificate "fica de fora". Run
  `RenewalScheduler_superseded`.
- `log.py:119`: the chain is ordered by wall clock; a clock that is set back
  makes `verify_chain` report an edit nobody made. `log.py:109` says False means
  "algo foi adulterado". Run `AuditLog_clock`.

Met while modelling, and part of the models without a run of their own:

- `log.py:16` says that `record` never raises to its caller; the connection at
  `log.py:64` is opened outside its `try` (`HandlerRaises`): the route answers
  500 although its change is committed.
- `routes_scan.py:147`: the state is looked at after the snapshot was sent; a
  scan that ends in between ends its stream without its final snapshot, and the
  browser reports a lost connection. `tests/test_scan_sse.py` reads the
  generator without a transport and does not meet it. `routes_acme.py:251` has
  the same order, and neither deadline nor check for a client that has left.
- `scheduler.py:126`: the loop survives every exception, but a certificate file
  torn by a crash ends every pass from then on, for all domains.
- A row that was never closed lets the next attempt start without backoff, and
  so does one that was closed as `awaiting_dns` (`renewal.py:204`), a state
  `history.py:5` does not name (second case of `AttemptsSpread`).
- `renewal.py:250`: an orphan that finds its mark before the coroutine has
  written the row may be overtaken: the coroutine has `failed` in hand, its
  UPDATE comes second, and the history loses a success that `renewal.py:181`
  says is recognised (the exception `HistoryIsOnlyCorrected` makes).
- `log.py:4` says that any edit of an old row is seen by `verify_chain`. The
  fields are joined with `|` (`log.py:44`, `db.py:44`) and a missing name is
  written as an empty one, so an edit that moves a `|` from one field to the
  next, or turns NULL into an empty name, is not (`RowRejoined`).

## What is only model-checked, and what is not modelled

Only checked by TLC: the liveness properties (`LateSuccessRecorded`,
`WorkersComeBack`, `FailureIsNotified`, `ExhaustionIsNotified`, `ChecksGoOn`,
`ScanEnds`, `StreamsEnd`) and the fairness part of `ImplementsLedger`, because
fairness and ENABLED are out of the prover's reach. Every invariant and every
action property of the passing runs is a theorem.

Simplifications that a reader should know:

- HMAC has no collisions and the master key stays the same. Of the edits that
  leave the joined text of a row as it was, those of name, action and detail are
  in the model; those that move a border into the id or the time are not.
- Exceptions of the notification store in a pass of the scheduler are not
  modelled; neither is what a message contains or whether it arrives.
- The other routes of the loop that record in the audit log are represented by
  threads, which may do all that they do, and more.
- The scheduler's own deadline, ten seconds after the longest budget, is reached
  only when the coroutine has ended (`PollEnds`): the loop is not held for ten
  seconds and the wall clock not set forward. A job given up there is reported
  like a failure.
- A coroutine that is cancelled when the server shuts down in good order is not
  modelled, only the death of the process.
- HOTP codes of different counters differ; password hashes, display names and
  rate limits, which only refuse, are left out; API keys of other roles change
  nothing here.
- A restart may leave `admin.json` torn (`whole`), after which no request on the
  accounts succeeds: no property is about it, as the code has no answer to it
  (`auth/store.py:119`). That a session names its user only, and may meet a new
  account of that name (`sessions.py:21`), is in the model and in no property:
  nothing in the repository says which is meant.
- The limiter is for one key; the login uses the same class with keys for
  addresses and for accounts.
- Of the renewal stream (`renew_events`) there is no model of its own; it is the
  scan's without a deadline.
- `SavedAccountsStay` says nothing once two `save_account` overlapped: the later
  one then undoes the earlier, or their texts mix. `tests/test_acme_store.py:31`
  asks that saving one environment never overwrites another, and tests it one
  call after the other. Of a death of the process inside a save it says what is
  left: an empty file, and with it no account, until a person removes it.
- `KeyNotLost` speaks of a key from the end of its first write on: a death
  inside the write of a certificate just issued loses its key.
- `Domains` of `Issuance` are the names challenges are set for. A wildcard has
  that of its domain (`issuance.py:145`), so two orders for `x` and `*.x` are
  two of one name there.
- Sessions are kept by name, so a second session of a person beside the first
  changes nothing in `Accounts`: `SessionsNeedProof` speaks of the first.
- The order of records in the inventory, texts, progress messages, the contents
  of certificates.

Not modelled: discovery and probing, notifications, secrets and settings, the
front end, exports and routes that only read. They keep no state a property
could be about, are requests to services whose outcomes are choices of the
models, or are presentation.

## Plan

Done, in the order of what an operator would miss most: `RenewalLedger`,
`RenewalManager`, `RenewalScheduler`, `AuditLog`, `ScanJob`, `Accounts`,
`Issuance`; then refused writes of the history, unreadable files, the challenges
at Cloudflare and Azure, `RateLimiter` with `ScanRoutes`, `Catalog`; the proofs
of every invariant and action property that a run checks, and of what holds in
place of the claims that do not.

Next, in this order:

1. The remaining operations of `Accounts`: keys of other roles, the display name
   of single sign-on.
2. The limit of TCP connections of the embedded responder.
3. Certificates and CSRs that refer to deleted rows of the catalog.
