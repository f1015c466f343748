------------------------------ MODULE ScanJob ------------------------------
(***************************************************************************)
(* One scan of ScanJobManager (app/jobs/manager.py) with its row in        *)
(* scan_jobs (app/jobs/history.py) and the inventory it builds             *)
(* (app/domain/inventory.py).  Scans share nothing but the event loop and  *)
(* the database, so one scan is looked at.                                 *)
(*                                                                         *)
(* _run and _pipeline are one task; every host is probed by a task of its  *)
(* own under gather.  All of them are callbacks of the loop: what happens  *)
(* between two awaits is one step.  A timeout cancels the tasks gather     *)
(* waits for; an exception of one of them does not cancel the others.      *)
(***************************************************************************)
EXTENDS Naturals, Sequences, FiniteSets, SequencesExt

CONSTANTS
  Apex,       \* the scanned domain itself
  Hosts,      \* names that may turn up in the CT log, by hand or by guessing
  Wildcards,  \* those of them that start with *.
  Serves,     \* the certificate each other host serves
  MaxProbes,  \* max_concurrent_probes
  MaxHosts    \* max_hosts_per_scan

ASSUME HostsAssumption ==
  IsFiniteSet(Hosts) /\ Wildcards \subseteq Hosts /\ Apex \in Hosts \ Wildcards
ASSUME BoundsAssumption == MaxProbes \in Nat \ {0} /\ MaxHosts \in Nat \ {0}

VARIABLES
  state,    \* job.state
  run,      \* place of the task of _run
  found,    \* hostnames collected so far
  probe,    \* place of the task of each host
  total,    \* job.hosts_total
  done,     \* job.hosts_done
  records,  \* job.records
  raised,   \* an exception has completed the gather
  known,    \* the job is in manager._jobs
  row       \* the row of the job, or what it was last written as

tasks == <<run, probe, raised>>
job == <<state, total, done, records>>
vars == <<job, tasks, found, known, row>>

------------------------------------------------------------------------------
Ended == {"done", "partial_timeout", "failed"}
States == Ended \union {"none", "pending", "discovering_hosts", "probing_tls"}
Results == {"wildcard", "unresolved", "ct_only", "live"}
Idle == {"none", "over"}
AtWork == {"resolving", "probing"}

\* also: the hosts named in the note of a certificate served more than once.
Record == [host : Hosts, result : Results, also : SUBSET Hosts]

NoRow == [state |-> "none", total |-> 0, done |-> 0, records |-> <<>>]
Snapshot(s, n, d, r) == [state |-> s, total |-> n, done |-> d, records |-> r]

\* What get returns, from memory or else from the row.
View == IF known THEN Snapshot(state, total, done, records) ELSE row

Found(h, result) == [host |-> h, result |-> result, also |-> {}]

SameCertificate(r, q) ==
  r.result = "live" /\ q.result = "live" /\ Serves[r.host] = Serves[q.host]

\* The n-th of the places S of a list.
Nth(S, n) == CHOOSE k \in S : Cardinality({i \in S : i <= k}) = n

\* The records in places S of a list, each with the hosts of the same
\* certificate that come after it.  build_inventory sorts them by urgency; that
\* is left out.
Merged(s, S) ==
  LET Later(k) == {i \in DOMAIN s : i > k /\ SameCertificate(s[i], s[k])}
      Noted(k) == [s[k] EXCEPT !.also =
                    @ \union UNION {s[i].also \union {s[i].host} : i \in Later(k)}]
  IN [n \in 1..Cardinality(S) |-> Noted(Nth(S, n))]

Live(s) == {k \in DOMAIN s : s[k].result = "live"}

Leads(s) ==
  {k \in Live(s) : \A i \in Live(s) : SameCertificate(s[i], s[k]) => k <= i}

\* dedupe_live_records keeps every record that is not of a live certificate.
Others(s) == DOMAIN s \ Live(s)

\* Fault: a second host of a certificate is dropped without a note.
FaultNoNote(s) ==
  LET S == Leads(s) \union Others(s) IN [n \in 1..Cardinality(S) |-> s[Nth(S, n)]]

\* Fault: a certificate that is served again keeps its record of its own.
FaultKeepsAll(s) == Merged(s, DOMAIN s)

\* dedupe_live_records: the first record of a certificate stays and names the
\* hosts of the others.
Inventory(s) == Merged(s, Leads(s) \union Others(s))

Init ==
  /\ state = "none"
  /\ run = "none"
  /\ found = {}
  /\ probe = [h \in Hosts |-> "none"]
  /\ total = 0
  /\ done = 0
  /\ records = <<>>
  /\ raised = FALSE
  /\ known = FALSE
  /\ row = NoRow

------------------------------------------------------------------------------
(***************************************************************************)
(* create and the stages of _pipeline.  A write of the row may fail: in    *)
(* create the request fails and no task is started, in the pipeline the    *)
(* exception ends it, in the finally of _run the row stays as it was.      *)
(***************************************************************************)
Create(manual, stored) ==
  /\ run = "none"
  /\ state' = "pending"
  /\ known' = TRUE
  /\ found' = manual
  /\ run' = IF stored THEN "scheduled" ELSE "refused"
  /\ row' = IF stored THEN Snapshot("pending", 0, 0, <<>>) ELSE row
  /\ UNCHANGED <<total, done, records, probe, raised>>

RunStarts ==
  /\ run = "scheduled"
  /\ run' = "ct_logs"
  /\ state' = "discovering_hosts"
  /\ UNCHANGED <<total, done, records, probe, raised, found, known, row>>

\* The answer of the CT logs, empty when they are out of reach.
CtLogsAnswer(names) ==
  /\ run = "ct_logs"
  /\ run' = "wordlist"
  /\ found' = found \union names \union {Apex}
  /\ UNCHANGED <<job, probe, raised, known, row>>

\* The subdomains that answered, if they were asked for, end the discovery:
\* wildcards are recorded, the other hosts become tasks under gather.
ProbesStart(names, chosen, stored) ==
  /\ run = "wordlist"
  /\ found' = found \union names
  /\ chosen \subseteq found' \ Wildcards
  /\ Cardinality(chosen) =
       IF Cardinality(found' \ Wildcards) < MaxHosts
         THEN Cardinality(found' \ Wildcards) ELSE MaxHosts
  /\ state' = "probing_tls"
  /\ total' = Cardinality(chosen)
  /\ records' = SetToSeq({Found(h, "wildcard") : h \in found' \intersect Wildcards})
  /\ \/ /\ stored
        /\ row' = Snapshot("probing_tls", total', done, records')
        /\ run' = "gather"
        /\ probe' = [h \in Hosts |-> IF h \in chosen THEN "queued" ELSE "none"]
     \/ /\ ~stored
        /\ run' = "failing"
        /\ UNCHANGED <<row, probe>>
  /\ UNCHANGED <<done, raised, known>>

\* An exception no handler of the pipeline is for.
DiscoveryRaises ==
  /\ run \in {"ct_logs", "wordlist"}
  /\ run' = "failing"
  /\ UNCHANGED <<job, probe, raised, found, known, row>>

------------------------------------------------------------------------------
(* _process_host: one task for each host, MaxProbes of them at a time.     *)

ProbeStarts(h) ==
  /\ probe[h] = "queued"
  /\ Cardinality({k \in Hosts : probe[k] \in AtWork}) < MaxProbes
  /\ probe' = [probe EXCEPT ![h] = "resolving"]
  /\ UNCHANGED <<job, run, raised, found, known, row>>

HostResolved(h) ==
  /\ probe[h] = "resolving"
  /\ probe' = [probe EXCEPT ![h] = "probing"]
  /\ UNCHANGED <<job, run, raised, found, known, row>>

\* A name that is not valid or does not resolve, a host that does not answer
\* or may not be asked, a certificate.
HostReported(h, result) ==
  /\ \/ probe[h] = "resolving" /\ result = "unresolved"
     \/ probe[h] = "probing" /\ result \in {"ct_only", "live"}
  /\ probe' = [probe EXCEPT ![h] = "over"]
  /\ records' = Append(records, Found(h, result))
  /\ done' = done + 1
  /\ UNCHANGED <<state, total, run, raised, found, known, row>>

\* The first exception completes the gather; the other tasks go on.
ProbeRaises(h) ==
  /\ probe[h] \in AtWork
  /\ probe' = [probe EXCEPT ![h] = "over"]
  /\ done' = done + 1
  /\ raised' = TRUE
  /\ UNCHANGED <<state, total, records, run, found, known, row>>

------------------------------------------------------------------------------
(* The ways _run ends; the last thing it does is to write the row.         *)

Ends(s, d, r, stored) ==
  /\ run' = "ended"
  /\ state' = s
  /\ records' = r
  /\ done' = d
  /\ row' = IF stored THEN Snapshot(s, total, d, r) ELSE row
  /\ UNCHANGED <<total, found, known>>

\* Fault: gather is not waited for.
FaultNotGathered(stored) ==
  /\ run = "gather"
  /\ ~raised
  /\ Ends("done", done, Inventory(records), stored)
  /\ UNCHANGED <<probe, raised>>

RunFinishes(stored) ==
  /\ run = "gather"
  /\ ~raised
  /\ \A h \in Hosts : probe[h] \in Idle
  /\ Ends("done", done, Inventory(records), stored)
  /\ UNCHANGED <<probe, raised>>

\* Fault: the exception is logged and the job stays as it is.
FaultNotMarked(stored) ==
  /\ run = "failing" \/ (run = "gather" /\ raised)
  /\ Ends(state, done, records, stored)
  /\ UNCHANGED <<probe, raised>>

RunFails(stored) ==
  /\ run = "failing" \/ (run = "gather" /\ raised)
  /\ Ends("failed", done, records, stored)
  /\ UNCHANGED <<probe, raised>>

\* Fault: the hosts that never had their turn are counted as done as well, and
\* those that were reported once more.
FaultCountsAll(stored) ==
  /\ run \in {"ct_logs", "wordlist", "gather"}
  /\ probe' = [h \in Hosts |-> IF probe[h] = "none" THEN "none" ELSE "over"]
  /\ Ends("partial_timeout",
          done + Cardinality({h \in Hosts : probe[h] # "none"}),
          Inventory(records), stored)
  /\ UNCHANGED raised

\* wait_for cancels the task, and so every task that gather still waits for:
\* one that had its turn is counted, one in the queue is not.  A gather that
\* an exception has completed cancels nothing any more.
RunTimesOut(stored) ==
  /\ run \in {"ct_logs", "wordlist", "gather"}
  /\ probe' = IF raised THEN probe
              ELSE [h \in Hosts |-> IF probe[h] = "none" THEN "none" ELSE "over"]
  /\ Ends("partial_timeout",
          IF raised THEN done
                    ELSE done + Cardinality({h \in Hosts : probe[h] \in AtWork}),
          Inventory(records), stored)
  /\ UNCHANGED raised

\* A job older than the TTL leaves the memory; its budget is far shorter.
Evict ==
  /\ known
  /\ run \in {"ended", "refused"}
  /\ \A h \in Hosts : probe[h] \in Idle
  /\ known' = FALSE
  /\ UNCHANGED <<job, tasks, found, row>>

\* The process dies with everything that is not in the row.
Restart ==
  /\ run # "none"
  /\ known
  /\ known' = FALSE
  /\ run' = "lost"
  /\ probe' = [h \in Hosts |-> "none"]
  /\ raised' = FALSE
  /\ UNCHANGED <<job, found, row>>

RunStep ==
  \/ RunStarts
  \/ \E names \in SUBSET Hosts : CtLogsAnswer(names)
  \/ /\ run = "wordlist"
     /\ \E names, chosen \in SUBSET Hosts, stored \in BOOLEAN :
          ProbesStart(names, chosen, stored)
  \/ DiscoveryRaises
  \/ \E stored \in BOOLEAN :
       RunFinishes(stored) \/ RunFails(stored) \/ RunTimesOut(stored)

ProbeStep(h) ==
  \/ ProbeStarts(h)
  \/ HostResolved(h)
  \/ \E result \in Results : HostReported(h, result)
  \/ ProbeRaises(h)

Next ==
  \/ \E manual \in SUBSET Hosts, stored \in BOOLEAN : Create(manual, stored)
  \/ RunStep
  \/ \E h \in Hosts : ProbeStep(h)
  \/ Evict
  \/ Restart

(***************************************************************************)
(* The loop runs its callbacks and timers, and every await of a host has   *)
(* a timeout of its own.                                                   *)
(***************************************************************************)
Fairness == WF_vars(RunStep) /\ \A h \in Hosts : WF_vars(ProbeStep(h))

Spec == Init /\ [][Next]_vars /\ Fairness

------------------------------------------------------------------------------
TypeOK ==
  /\ state \in States
  /\ run \in {"none", "refused", "scheduled", "ct_logs", "wordlist", "gather",
             "failing", "ended", "lost"}
  /\ found \subseteq Hosts
  /\ probe \in [Hosts -> Idle \union AtWork \union {"queued"}]
  /\ total \in 0..MaxHosts
  /\ done \in 0..total
  /\ records \in Seq(Record)
  /\ raised \in BOOLEAN
  /\ known \in BOOLEAN
  /\ row.state \in States /\ row.records \in Seq(Record)

Named(r) == {r.host} \union r.also

\* A scan that says it is done leaves nobody out: every host it chose and every
\* wildcard it found is in the inventory, if only in the note of the
\* certificate it shares.
DoneCoversHosts ==
  View.state = "done" =>
    /\ View.done = View.total
    /\ View.total + Cardinality(found \intersect Wildcards)
         = Cardinality(UNION {Named(View.records[k]) : k \in DOMAIN View.records})

\* No host is reported twice, also when tasks go on after the job failed or
\* ran out of time.
HostsReportedOnce ==
  \A i, k \in DOMAIN View.records :
    i # k => Named(View.records[i]) \intersect Named(View.records[k]) = {}

\* What a scan that was recorded as done shows never changes again: not by a
\* task that is still running, by leaving the memory or by a restart.
ResultIsFinal ==
  [][row.state = "done" => View' = View]_vars

\* Whatever the outside does, the progress stream of a scan reaches its end,
\* unless its task never started or the process died.
ScanEnds ==
  (run = "scheduled") ~> (state \in Ended \/ run = "lost")
=============================================================================
